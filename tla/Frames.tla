------------------------------- MODULE Frames -------------------------------
(***************************************************************************)
(* What a receiver's decisions depend on in one moq-secure frame, and the  *)
(* gates that Frame.decodePlaintext (js/src/wire.ts) applies to it.  A     *)
(* frame is a record of outcomes: whether the bytes parse, which key       *)
(* sealed them, whether the Ed25519 verification and the pad-length check  *)
(* would succeed.  Lengths and sections of frames are in WireFormat.       *)
(***************************************************************************)
EXTENDS Integers

CONSTANTS
  KeyIds,       \* key ids that occur in headers
  Keys,         \* AEAD key material
  NoKey,        \* "no key loaded"; as a sealKey: no key opens the frame
  FrameSet      \* the frames that may reach a receiver

\* Undefined Map entries and counters of js/src/decrypter.ts CounterState.
NoCtr == -1

Frame ==
  [ parses    : BOOLEAN,                 \* Frame.parse returns a frame
    keyId     : KeyIds,
    ctr       : Nat,
    nSigned   : Nat,
    sigFlag   : {0, 1},
    encrypted : BOOLEAN,                 \* encryptionType # NONE
    sealKey   : Keys \cup {NoKey},       \* NoKey: the tag or body is damaged
    sigValid  : BOOLEAN,                 \* ed25519.verify answers true
    padValid  : BOOLEAN ]                \* removePadding succeeds

\* NoKey is not a key, and a frame that parses passed header.validate().
ASSUME FramesAssumption ==
  /\ NoKey \notin Keys
  /\ FrameSet \subseteq Frame
  /\ \A f \in FrameSet : f.parses /\ f.nSigned = 0 => f.sigFlag = 0

SigningEnabled(f) == f.nSigned > 0

Signed(f) == f.sigFlag = 1

\* An unsigned frame of a signed stream: it needs a lease.
Leased(f) == SigningEnabled(f) /\ ~Signed(f)

\* Variants of LeaseAfter that a slip in the code would give: the signed frame
\* not counted, counted twice, and signing not checked to be enabled.
LeaseAfterUncounted(f, lease) ==
  IF Signed(f) THEN f.nSigned ELSE IF Leased(f) THEN lease - 1 ELSE lease
LeaseAfterShort(f, lease) ==
  IF Signed(f) THEN f.nSigned - 2 ELSE IF Leased(f) THEN lease - 1 ELSE lease
LeaseAfterUnguarded(f, lease) == IF Leased(f) THEN lease - 1 ELSE f.nSigned - 1

\* The lease after the frame is accepted.
LeaseAfter(f, lease) ==
  IF Signed(f) THEN f.nSigned - 1
  ELSE IF Leased(f) THEN lease - 1
  ELSE lease

\* Does the key found in the key store open the frame?  An unencrypted frame
\* needs none.
Opens(f, key) == f.encrypted => key # NoKey /\ key = f.sealKey

=============================================================================
