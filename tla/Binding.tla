------------------------------- MODULE Binding -------------------------------
(***************************************************************************)
(* What the AEAD and the signature of one frame cover: encryptFrame and    *)
(* Frame.decodePlaintext (js/src/wire.ts) with the algorithms, nonces and  *)
(* associated data of js/src/crypto.ts and nonce.ts.  Senders, one for     *)
(* each key id, share the broadcaster's signing key and may share an AEAD  *)
(* key.  The transport may change a field of a header and put the body of  *)
(* a second frame and the signature of a third under it.                   *)
(*                                                                         *)
(* Cryptography is ideal: a box opens, and a signature verifies, for       *)
(* exactly the inputs it was made from.  A frame is its encoded header and *)
(* the parts behind it; a section that a changed header cuts at another    *)
(* place is not the part it should be.                                     *)
(***************************************************************************)
EXTENDS Integers, Sequences

CONSTANTS
  KeyIds,        \* key ids with a sender
  KeyOf(_),      \* the AEAD key of a key id
  CtrModulus,    \* number of values of the counter field, 2^64 in the code
  MaxFrames      \* bound: frames sent

NONE == 0                          \* 1: CHACHA20_POLY1305, 2: AES_256_GCM
MAGIC == 77
VERSION == 1

\* What the modules that use this one choose.
BindingAssumption ==
  /\ KeyIds \subseteq 0..255
  /\ MaxFrames \in Nat /\ CtrModulus \in Nat /\ MaxFrames < CtrModulus

VARIABLES
  type, nSigned,  \* the settings of each sender
  nextCtr,        \* the counter of each sender's context
  sent,           \* the frames sent, in order
  accepted        \* what decryptFrame returns to the application: <<>> or a frame

vars == <<type, nSigned, nextCtr, sent, accepted>>

-----------------------------------------------------------------------------
(* One frame.                                                              *)

\* WireHeader.encode: seven fields of fixed width.
Encode(h) ==
  <<h.magic, h.version % 256, h.keyId % 256, h.ctr % CtrModulus,
    h.nSigned % 256, h.sigFlag % 256, h.type % 256>>

\* Frame.parse reads the fields back from their places.
Decoded(e) ==
  [magic |-> e[1], version |-> e[2], keyId |-> e[3], ctr |-> e[4],
   nSigned |-> e[5], sigFlag |-> e[6], type |-> e[7]]

\* Variant of Aad: only the fields that name the key and the nonce.
AadNonceOnly(h) == <<h.keyId % 256, h.ctr % CtrModulus>>

Aad(h) == Encode(h)

\* deriveNonce12.
Nonce(keyId, ctr) == <<"non", keyId, ctr % CtrModulus>>

\* The bytes that are hashed and signed.
DigestForSignature(h, body) == <<Encode(h), body>>

\* aeadEncrypt: everything that goes into a ciphertext and its tag.
Box(h, text) ==
  [alg |-> h.type, key |-> KeyOf(h.keyId), nonce |-> Nonce(h.keyId, h.ctr),
   aad |-> Aad(h), text |-> text]

Sealed(box) == << <<"ciphertext", box>>, <<"tag", box>> >>

\* Variant of Body: the associated data is taken before the flag is set.
BodyEarlyAad(h, text) ==
  IF h.type = NONE THEN << <<"plain", text>> >>
  ELSE Sealed(Box([h EXCEPT !.sigFlag = 0], text))

\* encryptFrame, from the text to the frame's payload and tag.
Body(h, text) ==
  IF h.type = NONE THEN << <<"plain", text>> >> ELSE Sealed(Box(h, text))

\* ed25519.sign, as the parts serialize() appends to the body.
Signature(h, body) ==
  IF h.sigFlag = 1 THEN << <<"signature", DigestForSignature(h, body)>> >> ELSE <<>>

\* WireHeader.validate.
Valid(h) ==
  /\ h.magic = MAGIC /\ h.version = VERSION
  /\ h.nSigned \in 0..255 /\ h.sigFlag \in {0, 1} /\ h.type \in 0..2
  /\ h.nSigned = 0 => h.sigFlag = 0

\* The texts aeadDecrypt may answer, none when authentication fails.  The text
\* 0 stands for bytes that are no sender's padded text.
Opened(h, body) ==
  IF h.type = NONE
  THEN {IF body[1][1] = "plain" THEN body[1][2] ELSE 0}
  ELSE {text \in 1..Len(sent) : h.keyId \in KeyIds /\ body = Sealed(Box(h, text))}

\* decryptFrame: what it may return for an encoded header and the parts behind
\* it.  An unsigned frame of a signed stream is supposed to have its lease.
Decrypted(head, parts) ==
  LET h    == Decoded(head)
      cut  == IF h.sigFlag = 1 THEN Len(parts) - 1 ELSE Len(parts)
      body == SubSeq(parts, 1, cut)
      sig  == SubSeq(parts, cut + 1, Len(parts))
  IN  IF Valid(h) /\ body # <<>> /\ sig = Signature(h, body)
      THEN {[header |-> h, text |-> text] : text \in Opened(h, body)}
      ELSE {}

-----------------------------------------------------------------------------
Init ==
  /\ type \in [KeyIds -> 0..2]
  /\ nSigned \in [KeyIds -> {0, 2}]
  /\ nextCtr = [k \in KeyIds |-> 0]
  /\ sent = <<>>
  /\ accepted = <<>>

\* The header encryptFrame makes, its flag set when a signature is due.
NewHeader(k, maybeSign) ==
  [magic |-> MAGIC, version |-> VERSION, keyId |-> k, ctr |-> nextCtr[k],
   nSigned |-> nSigned[k], type |-> type[k],
   sigFlag |-> IF nSigned[k] # 0 /\ maybeSign THEN 1 ELSE 0]

\* The frame of a header and a text.
NewFrame(h, text) ==
  [header |-> h, text |-> text, body |-> Body(h, text), sig |-> Signature(h, Body(h, text))]

\* A frame of sender k; its text is told apart from every other.
Send(k) ==
  /\ Len(sent) < MaxFrames /\ accepted = <<>>
  /\ \E maybeSign \in BOOLEAN :
       sent' = Append(sent, NewFrame(NewHeader(k, maybeSign), Len(sent) + 1))
  /\ nextCtr' = [nextCtr EXCEPT ![k] = @ + 1]
  /\ UNCHANGED <<type, nSigned, accepted>>

\* Values a field of a header may arrive with.
FieldValues(f) ==
  {sent[i].header[f] : i \in DOMAIN sent} \cup
  (CASE f \in {"nSigned", "sigFlag"} -> 0..2 [] f = "type" -> 0..3
     [] f = "ctr" -> {MaxFrames} [] OTHER -> {9})

\* Header of frame i with one field changed, or left; body of j; signature of k.
Receive(i, j, k) ==
  /\ accepted = <<>>
  /\ \E f \in DOMAIN sent[i].header : \E v \in FieldValues(f) :
       \E r \in Decrypted(Encode([sent[i].header EXCEPT ![f] = v]),
                          sent[j].body \o sent[k].sig) :
         accepted' = <<r>>
  /\ UNCHANGED <<type, nSigned, nextCtr, sent>>

\* The application takes the text before it calls decryptFrame again.  (A frame
\* that is refused changes nothing here.)
Take ==
  /\ accepted # <<>>
  /\ accepted' = <<>>
  /\ UNCHANGED <<type, nSigned, nextCtr, sent>>

Next ==
  \/ Take
  \/ \E k \in KeyIds : Send(k)
  \/ \E i, j, k \in DOMAIN sent : Receive(i, j, k)

Spec == Init /\ [][Next]_vars

-----------------------------------------------------------------------------
(* Properties.                                                             *)

WasSent(r) == \E i \in DOMAIN sent : sent[i].header = r.header /\ sent[i].text = r.text

(* A frame that the AEAD opened, or whose signature verified, is a frame   *)
(* that was sent, header and text: no field of the header can change, and  *)
(* no box or signature move to another counter, key id or sender.          *)
AcceptedWasSent ==
  \A i \in DOMAIN accepted :
    accepted[i].header.type # NONE \/ accepted[i].header.sigFlag = 1 => WasSent(accepted[i])

(* Sender and receiver compute the same nonce, associated data and digest: *)
(* a frame that arrives as it was sent is accepted with its text.          *)
IntactAccepted ==
  \A i \in DOMAIN sent :
    LET f == sent[i]
    IN  Decrypted(Encode(f.header), f.body \o f.sig) =
          {[header |-> f.header, text |-> f.text]}

=============================================================================
