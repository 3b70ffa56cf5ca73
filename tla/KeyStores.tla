------------------------------ MODULE KeyStores ------------------------------
(***************************************************************************)
(* Loading keys from text: InMemoryKeyStore of js/src/keys.ts and of       *)
(* rs/moq-secure/src/key_store.rs, and decode_aead_key of the Rust chat    *)
(* library.  One operator configures a JavaScript and a Rust program with  *)
(* the same texts.                                                         *)
(*                                                                         *)
(* A text is reduced to what the decoders look at: the alphabet of its     *)
(* digits, their number, the '=' behind them, and whether the bits that a  *)
(* last Base64 digit has beyond the last byte are set.                     *)
(***************************************************************************)
EXTENDS Integers

CONSTANTS
  KeyIds,      \* key ids the operator uses
  Lengths      \* numbers of digits of a text

\* Digits 0-9a-f only; also others of the alphabet with + and /; also - or _;
\* also characters of no alphabet.
Texts == [digits : {"hex", "std", "url", "other"}, n : Lengths, pad : 0..2,
          restBits : BOOLEAN]

VARIABLES
  js, rs,     \* the key of each key id in the two stores
  chat,       \* the key a chat program has for each key id
  apart       \* history: key ids for which the programs were set apart

vars == <<js, rs, chat, apart>>

\* A decoder's answer: the reading it loaded, or the error.
Failed(code) == [code |-> code, as |-> "nothing"]
Sized(bytes, as) ==
  IF bytes = 32 THEN [code |-> "loaded", as |-> as] ELSE Failed("KeyWrongLength")

Base64Bytes(t) == (t.n * 6) \div 8
FullPad(t) == (4 - (t.n % 4)) % 4

\* Both stores read hexadecimal only from 64 digits.
DecodeHex(t) == t.digits = "hex" /\ t.pad = 0 /\ t.n = 64

\* Variant of JsBase64: atob alone, which needs its padding whole.
JsBase64Strict(t) ==
  t.digits \in {"hex", "std"} /\ t.n % 4 # 1 /\ t.pad = FullPad(t)

\* decodeBase64: both alphabets, padding completed, spare bits ignored.
JsBase64(t) ==
  t.digits # "other" /\ t.n % 4 # 1 /\ t.pad <= FullPad(t)

\* The engines STANDARD and STANDARD_NO_PAD.
RsBase64(t) ==
  /\ t.digits \in {"hex", "std"} /\ t.n % 4 # 1
  /\ t.pad \in {0, FullPad(t)}
  /\ ~(t.restBits /\ t.n % 4 # 0)

JsDecode(t) ==
  IF DecodeHex(t) THEN Sized(32, "hex")
  ELSE IF JsBase64(t) THEN Sized(Base64Bytes(t), "base64")
  ELSE Failed("DecodeFailed")

RsDecode(t) ==
  IF DecodeHex(t) THEN Sized(32, "hex")
  ELSE IF RsBase64(t) THEN Sized(Base64Bytes(t), "base64")
  ELSE Failed("DecodeFailed")

\* decode_hex_or_base64 tries hexadecimal first, whatever the length.
ChatDecode(t) ==
  IF t.digits = "hex" /\ t.pad = 0 /\ t.n % 2 = 0 THEN Sized(t.n \div 2, "hex")
  ELSE IF RsBase64(t) THEN Sized(Base64Bytes(t), "base64")
  ELSE Failed("DecodeFailed")

-----------------------------------------------------------------------------
\* A key is a text and the way it was read: another reading is another key.
NoKey == <<>>

Init ==
  /\ js = [id \in KeyIds |-> NoKey]
  /\ rs = js /\ chat = js
  /\ apart = {}

\* setKeyEncoded and set_key_encoded: a text that is refused changes nothing.
After(store, id, t, answer) ==
  IF answer.code = "loaded" THEN [store EXCEPT ![id] = <<t, answer.as>>] ELSE store

\* isKeyId; a u8 in Rust.
IsKeyId(id) == id \in 0..255

\* The operator gives the same text to all programs, which trim it.
Load(id, t) ==
  /\ IsKeyId(id)
  /\ js' = After(js, id, t, JsDecode(t))
  /\ rs' = After(rs, id, t, RsDecode(t))
  /\ chat' = After(chat, id, t, ChatDecode(t))
  /\ apart' = IF RsDecode(t).code = "loaded" THEN apart \ {id}
              ELSE IF JsDecode(t).code = "loaded" THEN apart \cup {id}
              ELSE apart

\* remove_key, which only the Rust store has; it fails without a key.
RemoveKey(id) ==
  /\ rs[id] # NoKey
  /\ rs' = [rs EXCEPT ![id] = NoKey]
  /\ apart' = apart \cup {id}
  /\ UNCHANGED <<js, chat>>

Next == \E id \in KeyIds : RemoveKey(id) \/ \E t \in Texts : Load(id, t)

Spec == Init /\ [][Next]_vars

-----------------------------------------------------------------------------
(* Properties.                                                             *)

(* Programs given the same texts hold the same keys: a text that the Rust  *)
(* store takes as a key, the JavaScript store and the chat library take as *)
(* the same key, although one decodes Base64 in other ways and the other   *)
(* reads any even number of hexadecimal digits first.                      *)
ProgramsAgree ==
  \A id \in KeyIds \ apart : js[id] = rs[id] /\ chat[id] = rs[id]

=============================================================================
