----------------------------- MODULE WireFormat -----------------------------
(***************************************************************************)
(* The moq-secure frame: its fixed header, its sections and the padding    *)
(* inside the sealed payload, as the TypeScript library (js/src/wire.ts,   *)
(* padding.ts) and the Rust crate (rs/moq-secure/src/wire.rs) each compute *)
(* them.  A frame is its length and the header fields that parsing reads;  *)
(* a section is the half-open interval of the offsets it occupies.         *)
(***************************************************************************)
EXTENDS Integers, Sequences

CONSTANT UsizeModulus   \* 2^w for the w-bit usize of the Rust build

ASSUME WireAssumption == UsizeModulus \in Nat \ {0}

\* js/src/constants.ts; the Rust crate declares the same values.
SIG_SLOT_LEN == 64
AEAD_TAG_LEN == 16
PAD_LEN_FIELD_LEN == 4
FIXED_HEADER_LEN == 17
VERSION == 1
NONE == 0
EncryptionTypes == {0, 1, 2}

\* A byte string as a receiver sees it.  signatureZero: its last 64 bytes are 0.
WireBytes ==
  [ len : Nat, magicOk : BOOLEAN, version : 0..255, nSigned : 0..255,
    sigFlag : 0..255, encryptionType : 0..255, signatureZero : BOOLEAN ]

-----------------------------------------------------------------------------
(* Parsing.  The checks are listed in the order the code makes them; the   *)
(* first that fails is the error of the frame.                             *)

FirstFailure(checks) ==
  LET failed == {i \in DOMAIN checks : checks[i].fails}
  IN  IF failed = {} THEN "ok"
      ELSE checks[CHOOSE i \in failed : \A j \in failed : i <= j].error

Check(fails, error) == [fails |-> fails, error |-> error]

JsSignatureLength(b) == IF b.sigFlag = 1 THEN SIG_SLOT_LEN ELSE 0
JsBodyEnd(b) == b.len - JsSignatureLength(b)

\* WireHeader.validate
JsHeaderChecks(b) ==
  << Check(~b.magicOk, "InvalidMagic"),
     Check(b.version # VERSION, "UnsupportedVersion"),
     Check(b.nSigned < 0 \/ b.nSigned > 255, "InvalidNSigned"),
     Check(b.sigFlag # 0 /\ b.sigFlag # 1, "InvalidSigFlag"),
     Check(b.encryptionType \notin EncryptionTypes, "UnsupportedAlgorithm"),
     Check(b.nSigned = 0 /\ b.sigFlag # 0, "SigningMismatch") >>

\* Frame.parse
JsParse(b) ==
  FirstFailure(
    << Check(b.len < FIXED_HEADER_LEN, "TruncatedFrame") >>
    \o JsHeaderChecks(b) \o
    << Check(b.len < FIXED_HEADER_LEN + JsSignatureLength(b), "TruncatedFrame"),
       Check(b.sigFlag = 1 /\ b.signatureZero, "InvalidSignature"),
       Check(/\ b.encryptionType # NONE
             /\ JsBodyEnd(b) - FIXED_HEADER_LEN < AEAD_TAG_LEN, "CiphertextTooShort") >>)

\* Variant of JsSections: the tag is left in the payload.
JsSectionsNoTag(b) ==
  [ payload   |-> <<FIXED_HEADER_LEN, JsBodyEnd(b)>>,
    tag       |-> <<JsBodyEnd(b), JsBodyEnd(b)>>,
    signature |-> <<JsBodyEnd(b), b.len>> ]

\* The slices Frame.parse takes of bytes that it accepts.
JsSections(b) ==
  LET end == IF b.encryptionType # NONE THEN JsBodyEnd(b) - AEAD_TAG_LEN
                                        ELSE JsBodyEnd(b)
  IN  [ payload   |-> <<FIXED_HEADER_LEN, end>>,
        tag       |-> <<end, JsBodyEnd(b)>>,
        signature |-> <<JsBodyEnd(b), b.len>> ]

\* Variant of RsHeaderChecks: the encryption type is checked first.
RsHeaderChecksReordered(b) ==
  << Check(~b.magicOk, "InvalidMagic"),
     Check(b.version # VERSION, "UnsupportedVersion"),
     Check(b.encryptionType \notin EncryptionTypes, "UnsupportedAlgorithm"),
     Check(b.sigFlag # 0 /\ b.sigFlag # 1, "InvalidSigFlag"),
     Check(b.nSigned = 0 /\ b.sigFlag # 0, "SigningMismatch") >>

\* WireHeader::validate
RsHeaderChecks(b) ==
  << Check(~b.magicOk, "InvalidMagic"),
     Check(b.version # VERSION, "UnsupportedVersion"),
     Check(b.sigFlag # 0 /\ b.sigFlag # 1, "InvalidSigFlag"),
     Check(b.encryptionType \notin EncryptionTypes, "UnsupportedAlgorithm"),
     Check(b.nSigned = 0 /\ b.sigFlag # 0, "SigningMismatch") >>

\* What follows the header, and how much of it is the body.
RsSignatureLen(b) == IF b.sigFlag = 1 THEN SIG_SLOT_LEN ELSE 0
RsRest(b) == b.len - FIXED_HEADER_LEN
RsBodyLen(b) == RsRest(b) - RsSignatureLen(b)

\* Frame::parse
RsParse(b) ==
  FirstFailure(
    << Check(b.len < FIXED_HEADER_LEN, "TruncatedFrame") >>
    \o RsHeaderChecks(b) \o
    << Check(RsRest(b) < RsSignatureLen(b), "TruncatedFrame"),
       Check(b.sigFlag = 1 /\ b.signatureZero, "InvalidSignature"),
       Check(b.encryptionType # NONE /\ RsBodyLen(b) < AEAD_TAG_LEN, "CiphertextTooShort") >>)

RsSections(b) ==
  LET text == IF b.encryptionType # NONE THEN RsBodyLen(b) - AEAD_TAG_LEN
                                         ELSE RsBodyLen(b)
      body == FIXED_HEADER_LEN + RsBodyLen(b)
  IN  [ payload   |-> <<FIXED_HEADER_LEN, FIXED_HEADER_LEN + text>>,
        tag       |-> <<FIXED_HEADER_LEN + text, body>>,
        signature |-> <<body, body + RsSignatureLen(b)>> ]

-----------------------------------------------------------------------------
(* Padding: pad_len(4) || zeros(pad_len) || plaintext.                     *)

\* Variant of JsPaddedLen: the length field is counted as padding.
JsPaddedLenNoField(padLen, textLen) ==
  IF padLen < PAD_LEN_FIELD_LEN THEN PAD_LEN_FIELD_LEN + textLen ELSE padLen + textLen

\* concat(encodeUint32BE(padLen), prependZeroPadding(plaintext, padLen))
JsPaddedLen(padLen, textLen) == PAD_LEN_FIELD_LEN + (padLen + textLen)

\* Vec::with_capacity refuses more than isize::MAX bytes; resize may shorten.
RsCapacity(padLen, textLen) == (PAD_LEN_FIELD_LEN + padLen + textLen) % UsizeModulus
RsCapacityOverflow(padLen, textLen) ==
  RsCapacity(padLen, textLen) > UsizeModulus \div 2
RsPaddedLen(padLen, textLen) == ((PAD_LEN_FIELD_LEN + padLen) % UsizeModulus) + textLen

\* Variant of JsRemovePadding: the pad length is trusted.
JsRemovePaddingTrusting(paddedLen, padLen) ==
  FirstFailure(<< Check(paddedLen < PAD_LEN_FIELD_LEN, "InvalidPadLength") >>)

\* removePadding: where the plaintext starts, or an error.  padLen is what
\* the first four bytes say.
JsRemovePadding(paddedLen, padLen) ==
  FirstFailure(<< Check(paddedLen < PAD_LEN_FIELD_LEN, "InvalidPadLength"),
                  Check(padLen > paddedLen - PAD_LEN_FIELD_LEN, "InvalidPadLength") >>)
JsTextStart(padLen) == PAD_LEN_FIELD_LEN + padLen

\* The end of decode_plaintext_with_key_store, with its checked_add.
RsRemovePadding(paddedLen, padLen) ==
  FirstFailure(<< Check(paddedLen < PAD_LEN_FIELD_LEN, "InvalidPadLength"),
                  Check(PAD_LEN_FIELD_LEN + padLen >= UsizeModulus, "InvalidPadLength"),
                  Check(PAD_LEN_FIELD_LEN + padLen > paddedLen, "InvalidPadLength") >>)
RsTextStart(padLen) == PAD_LEN_FIELD_LEN + padLen

-----------------------------------------------------------------------------
(* Serializing: header, payload, tag when encrypted, signature when asked. *)

JsSerializedLen(payloadLen, encryptionType, sigFlag) ==
  FIXED_HEADER_LEN
    + (IF encryptionType # NONE THEN payloadLen + AEAD_TAG_LEN ELSE payloadLen)
    + (IF sigFlag = 1 THEN SIG_SLOT_LEN ELSE 0)

RsSerializedLen(payloadLen, encryptionType, sigFlag) ==
  LET body == payloadLen + (IF encryptionType # NONE THEN AEAD_TAG_LEN ELSE 0)
  IN  FIXED_HEADER_LEN + body + (IF sigFlag = 1 THEN SIG_SLOT_LEN ELSE 0)

\* encryptFrame / encrypt_frame: the signature asked for, if signing is on.
SigFlag(nSigned, maybeSign) == IF nSigned # 0 /\ maybeSign THEN 1 ELSE 0

=============================================================================
