----------------------------- MODULE MediaPath ------------------------------
(***************************************************************************)
(* A broadcaster's Encrypter and a live receiver's Decrypter joined by a   *)
(* transport that may lose, repeat and reorder whole frames: frames leave  *)
(* the encrypter in the order their encrypt() calls finish, which need not *)
(* be the order of their counters, and the receiver's decrypt() is called  *)
(* with any of them at any time.  Keys are fixed and the receiver stays in *)
(* live mode, so that every refusal must come from the path.               *)
(***************************************************************************)
EXTENDS Integers, Sequences, FiniteSets

CONSTANTS
  MaxEncrypts,   \* bound: encrypt() calls
  MaxDecrypts,   \* bound: decrypt() calls
  NSigned, InitialCtr, MaxU64,
  KeyId, NoFrame

VARIABLES
  \* the encrypter
  ctr, frameCount, senderKey, encPc, jobCtr, jobSign, jobKey, encResult, finished,
  \* the decrypter
  leaseRemaining, mode, liveMax, playback, decryptTail, keyStore, decPc, arg,
  previousTurn, localLease, usedKey, decResult, delivered, rewinds, checkScope,
  commitScope, settledAtReset

encVars == <<ctr, frameCount, senderKey, encPc, jobCtr, jobSign, jobKey, encResult,
             finished>>
decVars == <<leaseRemaining, mode, liveMax, playback, decryptTail, keyStore, decPc,
             arg, previousTurn, localLease, usedKey, decResult, delivered, rewinds,
             checkScope, commitScope, settledAtReset>>
vars == <<encVars, decVars>>

\* The frame that encryptFrame makes of a counter and a place in the schedule.
FrameFor(n, sign, key) ==
  [parses |-> TRUE, keyId |-> KeyId, ctr |-> n, nSigned |-> NSigned,
   sigFlag |-> IF sign THEN 1 ELSE 0, encrypted |-> TRUE, sealKey |-> key,
   sigValid |-> TRUE, padValid |-> TRUE]

\* A signed stream: without signing no frame needs a lease.
ASSUME MediaPathAssumption ==
  /\ MaxEncrypts \in Nat /\ MaxDecrypts \in Nat
  /\ NSigned \in 1..255
  /\ MaxU64 \in Nat /\ InitialCtr \in 0..MaxU64
  /\ \A n \in InitialCtr..MaxU64, sign \in BOOLEAN : NoFrame # FrameFor(n, sign, 1)

Sender == INSTANCE Encrypter WITH
  MaxCalls <- MaxEncrypts, MaxKey <- 1, Encrypted <- TRUE,
  key <- senderKey, pc <- encPc, result <- encResult

Recv == INSTANCE Decrypter WITH
  MaxCalls <- MaxDecrypts, MaxRewinds <- 0, InitialLease <- 0,
  QuiescentControl <- TRUE, KeyIds <- {KeyId}, Keys <- {1}, NoKey <- 0,
  FrameSet <- {FrameFor(n, sign, 1) : n \in InitialCtr..MaxU64, sign \in BOOLEAN},
  pc <- decPc, result <- decResult

Init ==
  /\ Sender!Init
  /\ Recv!Init /\ keyStore = [k \in {KeyId} |-> 1]

\* encrypt() calls, made while earlier ones run; the key may load late.
Broadcast ==
  /\ \/ \E c \in 1..MaxEncrypts :
          \/ Sender!RefuseNoKey(c) \/ Sender!Begin(c)
          \/ Sender!FinishSeal(c) \/ Sender!FinishSign(c)
     \/ Sender!SetKey
  /\ UNCHANGED decVars

\* The transport hands the receiver a frame that left the encrypter; the
\* frames it never hands over are lost.
Transit ==
  /\ \E i \in DOMAIN finished :
       LET c == finished[i] IN Recv!Submit(FrameFor(jobCtr[c], jobSign[c], jobKey[c]))
  /\ UNCHANGED encVars

Receive ==
  /\ \E c \in 1..MaxDecrypts :
       Recv!Start(c) \/ Recv!FinishVerify(c) \/ Recv!FinishOpen(c)
  /\ UNCHANGED encVars

Next == Broadcast \/ Transit \/ Receive

Spec == Init /\ [][Next]_vars

-----------------------------------------------------------------------------
(* Properties.                                                             *)

Calls == 1..MaxDecrypts
Delivered(c) == decResult[c] = "delivered"

\* The counter of the signed frame that covers counter n.
SlotStart(n) == n - ((n - InitialCtr) % NSigned)

(* The lease suffices: an intact frame is refused for want of a lease only *)
(* when the signed frame at the start of its own signing interval has not  *)
(* been delivered before it; neither repeats, nor frames of other          *)
(* intervals, nor overtaking ones use up the lease it needs.               *)
LeaseSuffices ==
  \A c \in Calls : decResult[c] = "invalidSignature" =>
    ~\E s \in Calls : s < c /\ Delivered(s) /\ arg[s].ctr = SlotStart(arg[c].ctr)

(* A path that keeps the order of the counters and loses none delivers     *)
(* everything: as long as the frames submitted carry successive counters   *)
(* from the first, no decrypt() call fails.                                *)
Faithful ==
  \A c \in Calls : decPc[c] # "idle" => arg[c].ctr = InitialCtr + c - 1

LosslessDelivers ==
  Faithful => \A c \in Calls : decPc[c] = "released" => Delivered(c)

\* The encrypt() calls that returned a frame, and that frame.
Returned == {c \in 1..MaxEncrypts : encResult[c] = "frame"}
FrameOf(c) == FrameFor(jobCtr[c], jobSign[c], jobKey[c])

(* A live stream plays the frames of the encrypt() calls in the order in   *)
(* which the calls were made, each at most once and nothing else, in       *)
(* whatever order the calls finish and their frames are lost, repeated     *)
(* and handed over.                                                        *)
InOrderOfCalls ==
  /\ \A i \in DOMAIN delivered : \E c \in Returned : delivered[i] = FrameOf(c)
  /\ \A i, j \in DOMAIN delivered, b, c \in Returned :
       i < j /\ delivered[i] = FrameOf(b) /\ delivered[j] = FrameOf(c) => b < c

=============================================================================
