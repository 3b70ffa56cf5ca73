------------------------------ MODULE WirePath ------------------------------
(***************************************************************************)
(* One frame from an encoder to both decoders.  The TypeScript library or  *)
(* the Rust crate encodes a frame, which the transport may cut short; or   *)
(* other bytes arrive.  Each library then parses, authenticates and unpads *)
(* what arrived.  Neither looks at the bytes of the padding.               *)
(*                                                                         *)
(* Cryptography is what it promises: a signature verifies, and an AEAD     *)
(* opens, exactly when the sections the decoder cut out are those the      *)
(* encoder put in.  Unsigned frames are taken to hold a lease, and keys to *)
(* be loaded: Decrypter is about those.                                    *)
(***************************************************************************)
EXTENDS WireFormat

CONSTANTS
  Senders,      \* subset of {"js", "rust"}
  MaxPad,       \* the largest pad length, 2^32 - 1 in both libraries
  MaxText,      \* bound: plaintext length
  NSigneds,     \* the nSigned values tried
  OtherBytes,   \* byte strings that no encoder made
  None

ASSUME PathAssumption ==
  /\ Senders \subseteq {"js", "rust"}
  /\ MaxPad \in Nat /\ MaxText \in Nat
  /\ NSigneds \subseteq 0..255
  /\ OtherBytes \subseteq WireBytes
  /\ None \notin WireBytes

Receivers == {"js", "rust"}

VARIABLES
  sent,      \* what the encoder put in, or None
  wire,      \* what arrives, or None
  verdict    \* what each receiver makes of it, or None

vars == <<sent, wire, verdict>>

Init ==
  /\ sent = None
  /\ wire = None
  /\ verdict = [r \in Receivers |-> None]

PaddedLen(sender, padLen, textLen) ==
  IF sender = "rust" THEN RsPaddedLen(padLen, textLen) ELSE JsPaddedLen(padLen, textLen)

SerializedLen(sender, padded, encryptionType, sigFlag) ==
  IF sender = "rust" THEN RsSerializedLen(padded, encryptionType, sigFlag)
                     ELSE JsSerializedLen(padded, encryptionType, sigFlag)

\* encryptFrame(...).serialize() / encrypt_frame(...).serialize().
Encode(sender, padLen, textLen, nSigned, maybeSign, encryptionType) ==
  LET sigFlag == SigFlag(nSigned, maybeSign)
      padded == PaddedLen(sender, padLen, textLen)
      length == SerializedLen(sender, padded, encryptionType, sigFlag)
      tagLen == IF encryptionType # NONE THEN AEAD_TAG_LEN ELSE 0
      sigAt == FIXED_HEADER_LEN + padded + tagLen
  IN  /\ wire = None
      /\ sender = "rust" => ~RsCapacityOverflow(padLen, textLen)
      /\ sent' = [ sender |-> sender, padLen |-> padLen, textLen |-> textLen,
                   length |-> length,
                   payload   |-> <<FIXED_HEADER_LEN, FIXED_HEADER_LEN + padded>>,
                   tag       |-> <<FIXED_HEADER_LEN + padded, sigAt>>,
                   signature |-> <<sigAt, length>> ]
      /\ wire' = [ len |-> length, magicOk |-> TRUE, version |-> VERSION,
                   nSigned |-> nSigned, sigFlag |-> sigFlag,
                   encryptionType |-> encryptionType, signatureZero |-> FALSE ]
      /\ UNCHANGED verdict

\* Bytes that are no frame of an encoder.
Arrive(b) ==
  /\ wire = None
  /\ wire' = b
  /\ UNCHANGED <<sent, verdict>>

\* The transport delivers only the first n bytes.
Cut(n) ==
  /\ sent # None /\ wire.len = sent.length
  /\ \A r \in Receivers : verdict[r] = None
  /\ n < wire.len
  /\ wire' = [wire EXCEPT !.len = n]
  /\ UNCHANGED <<sent, verdict>>

Parse(r) == IF r = "js" THEN JsParse(wire) ELSE RsParse(wire)
Sections(r) == IF r = "js" THEN JsSections(wire) ELSE RsSections(wire)
RemovePadding(r, paddedLen, padLen) ==
  IF r = "js" THEN JsRemovePadding(paddedLen, padLen)
              ELSE RsRemovePadding(paddedLen, padLen)
TextStart(r, padLen) == IF r = "js" THEN JsTextStart(padLen) ELSE RsTextStart(padLen)

Size(interval) == interval[2] - interval[1]
Nowhere == <<0, 0>>

\* decodePlaintext / decode_plaintext_with_key_store on the parsed sections.
Decode(r, s) ==
  FirstFailure(
    << Check(wire.sigFlag = 1 /\ s.signature # sent.signature, "InvalidSignature"),
       Check(/\ wire.encryptionType # NONE
             /\ <<s.payload, s.tag>> # <<sent.payload, sent.tag>>, "AeadAuthFailed"),
       Check(RemovePadding(r, Size(s.payload), sent.padLen) # "ok", "InvalidPadLength") >>)

\* What receiver r makes of the wire: parse, then authenticate and unpad.
Outcome(r) ==
  LET parsed == Parse(r)
      s == IF parsed = "ok" THEN Sections(r)
           ELSE [payload |-> Nowhere, tag |-> Nowhere, signature |-> Nowhere]
      error == IF parsed = "ok" /\ sent # None THEN Decode(r, s) ELSE parsed
      text == IF error = "ok" /\ sent # None
              THEN <<s.payload[1] + TextStart(r, sent.padLen), s.payload[2]>>
              ELSE Nowhere
  IN  [error |-> error, payload |-> s.payload, tag |-> s.tag,
       signature |-> s.signature, text |-> text]

Receive(r) ==
  /\ wire # None /\ verdict[r] = None
  /\ verdict' = [verdict EXCEPT ![r] = Outcome(r)]
  /\ UNCHANGED <<sent, wire>>

Done == (\A r \in Receivers : verdict[r] # None) /\ UNCHANGED vars

Next ==
  \/ \E sender \in Senders, padLen \in 0..MaxPad, textLen \in 0..MaxText,
        nSigned \in NSigneds, maybeSign \in BOOLEAN,
        encryptionType \in EncryptionTypes :
       Encode(sender, padLen, textLen, nSigned, maybeSign, encryptionType)
  \/ \E b \in OtherBytes : Arrive(b)
  \/ wire # None /\ \E n \in 0..wire.len : Cut(n)
  \/ \E r \in Receivers : Receive(r)
  \/ Done

Spec == Init /\ [][Next]_vars

-----------------------------------------------------------------------------
(* Properties.                                                             *)

Received(r) == verdict[r] # None
Accepted(r) == Received(r) /\ verdict[r].error = "ok"
Whole == sent # None /\ wire.len = sent.length

(* Both libraries give every byte string the same fate: the same error in  *)
(* the same order of checks, or the same sections and the same plaintext.  *)
DecodersAgree ==
  Received("js") /\ Received("rust") => verdict["js"] = verdict["rust"]

(* The sections of an accepted frame tile it: header, payload, tag and     *)
(* signature follow each other without gap or overlap up to its end, the   *)
(* tag and the signature at their full size or absent.                     *)
SectionsTile ==
  \A r \in Receivers : Accepted(r) =>
    LET v == verdict[r] IN
      /\ v.payload[1] = FIXED_HEADER_LEN /\ v.payload[1] <= v.payload[2]
      /\ v.tag[1] = v.payload[2] /\ v.signature[1] = v.tag[2]
      /\ v.signature[2] = wire.len
      /\ Size(v.tag) = (IF wire.encryptionType # NONE THEN AEAD_TAG_LEN ELSE 0)
      /\ Size(v.signature) = (IF wire.sigFlag = 1 THEN SIG_SLOT_LEN ELSE 0)

(* A frame that arrives whole is accepted by both libraries, whichever     *)
(* encoded it, and yields the plaintext that went in.                      *)
RoundTrip ==
  \A r \in Receivers : Whole /\ Received(r) =>
    /\ Accepted(r)
    /\ Size(verdict[r].text) = sent.textLen
    /\ verdict[r].text[2] = sent.payload[2]

(* A frame cut short is never accepted when it was signed or encrypted;    *)
(* when it was neither, what is delivered is the start of the plaintext.   *)
CutDetected ==
  \A r \in Receivers : sent # None /\ ~Whole /\ Accepted(r) =>
    /\ wire.sigFlag = 0 /\ wire.encryptionType = NONE
    /\ verdict[r].text[1] = sent.payload[2] - sent.textLen
    /\ Size(verdict[r].text) \in 0..sent.textLen - 1

=============================================================================
