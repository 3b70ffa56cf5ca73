------------------------------- MODULE Buffers -------------------------------
(***************************************************************************)
(* The byte buffers behind encrypt() and decrypt() and when each is copied *)
(* (js/src/wire.ts, padding.ts, crypto.ts, keys.ts).  The caller keeps its *)
(* arrays: it may overwrite the text, the key or the received bytes while  *)
(* a call awaits, and use one array for many calls.  A buffer's contents   *)
(* are a number; overwriting it gives the next one.                        *)
(***************************************************************************)
EXTENDS Integers

CONSTANTS
  MaxCalls,     \* bound: calls of encrypt(); of decrypt()
  MaxWrites     \* bound: contents of each array of the caller

Calls == 1..MaxCalls

VARIABLES
  aes,          \* the type is AES_256_GCM; else CHACHA20_POLY1305
  text, keyArray, bytes,  \* the caller's arrays: a text, a key, a received frame
  setTo,        \* history: the key the application set last
  stored,       \* InMemoryKeyStore.keys[keyId]
  pc,           \* where each call of encrypt() stands
  given,        \* history: text and key at each call of encrypt()
  padded,       \* paddedPlaintext of each call
  cryptoKey,    \* the key each call has handed to the cipher
  box,          \* what each call sealed
  dpc, payload, verified, opened   \* the same for calls of decrypt()

caller == <<aes, text, keyArray, bytes>>
store == <<setTo, stored>>
enc == <<pc, given, padded, cryptoKey, box>>
dec == <<dpc, payload, verified, opened>>
vars == <<caller, store, enc, dec>>

None == [text |-> 0, key |-> 0]

Init ==
  /\ aes \in BOOLEAN
  /\ text = 1 /\ keyArray = 1 /\ bytes = 1
  /\ setTo = 1 /\ stored = 1
  /\ pc = [c \in Calls |-> "idle"]
  /\ given = [c \in Calls |-> None] /\ box = [c \in Calls |-> None]
  /\ padded = [c \in Calls |-> 0] /\ cryptoKey = [c \in Calls |-> 0]
  /\ dpc = [c \in Calls |-> "idle"]
  /\ payload = [c \in Calls |-> 0]
  /\ verified = [c \in Calls |-> 0] /\ opened = [c \in Calls |-> 0]

-----------------------------------------------------------------------------
(* The application.                                                        *)

OverwriteText ==
  /\ text < MaxWrites
  /\ text' = text + 1
  /\ UNCHANGED <<aes, keyArray, bytes, store, enc, dec>>

OverwriteKey ==
  /\ keyArray < MaxWrites
  /\ keyArray' = keyArray + 1
  /\ UNCHANGED <<aes, text, bytes, store, enc, dec>>

OverwriteBytes ==
  /\ bytes < MaxWrites
  /\ bytes' = bytes + 1
  /\ UNCHANGED <<aes, text, keyArray, store, enc, dec>>

\* setKey keeps a copy of the array.
SetKey ==
  /\ setTo' = keyArray
  /\ stored' = keyArray
  /\ UNCHANGED <<caller, enc, dec>>

-----------------------------------------------------------------------------
(* encrypt().                                                              *)

\* Variant of AeadKey: the store keeps the array it was given.
AeadKeyShared == keyArray

\* aeadKey answers a copy of the stored key.
AeadKey == stored

\* Variant of Padded: a view of the caller's text.
PaddedView(c) == text

\* prependZeroPadding and concat have copied the text.
Padded(c) == padded[c]

\* encryptFrame up to its first await.  ChaCha20 seals at once; AES first
\* imports a copy of the key.
Call(c) ==
  /\ pc[c] = "idle"
  /\ \A d \in Calls : d < c => pc[d] # "idle"
  /\ given' = [given EXCEPT ![c] = [text |-> text, key |-> setTo]]
  /\ padded' = [padded EXCEPT ![c] = text]
  /\ cryptoKey' = [cryptoKey EXCEPT ![c] = AeadKey]
  /\ \/ /\ aes
        /\ pc' = [pc EXCEPT ![c] = "importing"]
        /\ UNCHANGED box
     \/ /\ ~aes
        /\ pc' = [pc EXCEPT ![c] = "sealed"]
        /\ box' = [box EXCEPT ![c] = [text |-> text, key |-> AeadKey]]
  /\ UNCHANGED <<caller, store, dec>>

\* importKey answers: a copy of the padded text goes to subtle.encrypt.
KeyImported(c) ==
  /\ pc[c] = "importing"
  /\ pc' = [pc EXCEPT ![c] = "encrypting"]
  /\ box' = [box EXCEPT ![c] = [text |-> Padded(c), key |-> cryptoKey[c]]]
  /\ UNCHANGED <<caller, store, given, padded, cryptoKey, dec>>

\* subtle.encrypt answers.
Encrypted(c) ==
  /\ pc[c] = "encrypting"
  /\ pc' = [pc EXCEPT ![c] = "sealed"]
  /\ UNCHANGED <<caller, store, given, padded, cryptoKey, box, dec>>

-----------------------------------------------------------------------------
(* decrypt().                                                              *)

\* The call is made and waits for its turn; nothing is copied yet.
CallDecrypt(c) ==
  /\ dpc[c] = "idle"
  /\ \A d \in Calls : d < c => dpc[d] # "idle"
  /\ dpc' = [dpc EXCEPT ![c] = "queued"]
  /\ UNCHANGED <<caller, store, enc, payload, verified, opened>>

\* Variant of Payload: a view of the received bytes.
PayloadView(c) == bytes

\* Frame.parse and the constructor of Frame have copied the sections.
Payload(c) == payload[c]

\* The turn comes: parse, and verify the signature of the digest.
Parse(c) ==
  /\ dpc[c] = "queued"
  /\ \A d \in Calls : d < c => dpc[d] = "done"
  /\ dpc' = [dpc EXCEPT ![c] = "verifying"]
  /\ payload' = [payload EXCEPT ![c] = bytes]
  /\ verified' = [verified EXCEPT ![c] = bytes]
  /\ UNCHANGED <<caller, store, enc, opened>>

\* The signature is valid: aeadDecrypt joins payload and tag before it awaits.
Verified(c) ==
  /\ dpc[c] = "verifying"
  /\ dpc' = [dpc EXCEPT ![c] = IF aes THEN "importing" ELSE "done"]
  /\ opened' = [opened EXCEPT ![c] = Payload(c)]
  /\ UNCHANGED <<caller, store, enc, payload, verified>>

\* importKey and subtle.decrypt answer.
Decrypted(c) ==
  /\ dpc[c] = "importing"
  /\ dpc' = [dpc EXCEPT ![c] = "done"]
  /\ UNCHANGED <<caller, store, enc, payload, verified, opened>>

Next ==
  \/ OverwriteText \/ OverwriteKey \/ OverwriteBytes \/ SetKey
  \/ \E c \in Calls : \/ Call(c) \/ KeyImported(c) \/ Encrypted(c)
                      \/ CallDecrypt(c) \/ Parse(c) \/ Verified(c) \/ Decrypted(c)

Spec == Init /\ [][Next]_vars

-----------------------------------------------------------------------------
(* Properties.                                                             *)

(* A frame is sealed with the text of its call and the key last set when   *)
(* the call was made, although the caller fills the array of the text      *)
(* again, wipes that of the key or sets another key while the call awaits. *)
SealsWhatItWasGiven == \A c \in Calls : box[c] # None => box[c] = given[c]

(* What is opened is what was verified, although the array of received     *)
(* bytes is filled again in between.                                       *)
OpensWhatItVerified == \A c \in Calls : opened[c] # 0 => opened[c] = verified[c]

=============================================================================
