-------------------------- MODULE MediaPathProofs ---------------------------
(***************************************************************************)
(* MediaPath's invariants for any number of calls on both ends, any        *)
(* signing interval and any loss, repetition and reordering of frames.     *)
(* The two ends are an Encrypter and a Decrypter, so that what is proved   *)
(* of those holds here: the proofs rest on the encrypter's schedule and    *)
(* the decrypter's queue.                                                  *)
(***************************************************************************)
EXTENDS MediaPath, SequenceTheorems, TLAPS

PathFrames == {FrameFor(n, sign, 1) : n \in InitialCtr..MaxU64, sign \in BOOLEAN}

\* The theorems about the two ends.
SP == INSTANCE EncrypterProofs WITH
  MaxCalls <- MaxEncrypts, MaxKey <- 1, Encrypted <- TRUE,
  key <- senderKey, pc <- encPc, result <- encResult

DP == INSTANCE DecrypterProofs WITH
  MaxCalls <- MaxDecrypts, MaxRewinds <- 0, InitialLease <- 0,
  QuiescentControl <- TRUE, KeyIds <- {KeyId}, Keys <- {1}, NoKey <- 0,
  FrameSet <- PathFrames, pc <- decPc, result <- decResult

-----------------------------------------------------------------------------
(* Division.                                                               *)

LEMMA Remainder ==
  ASSUME NEW N \in Nat \ {0}, NEW a \in Nat
  PROVE  /\ a % N \in 0..N - 1 /\ a \div N \in Nat
         /\ a = (a \div N) * N + (a % N) /\ a % N <= a
<1>1. a % N \in 0..N - 1 /\ a \div N \in Nat
  OBVIOUS
<1>2. a = (a \div N) * N + (a % N)
  BY SMTT(30)
<1>3. (a \div N) * N \in Nat
  BY <1>1
<1> QED BY <1>1, <1>2, <1>3

\* Numbers between a multiple of N and a number less than N above have one quotient.
LEMMA SameQuotient ==
  ASSUME NEW N \in Nat \ {0}, NEW a \in Nat, NEW b \in Nat, b - (b % N) <= a, a <= b
  PROVE  a - (a % N) = b - (b % N)
<1>1. \A p, q \in Nat : p < q => p * N + N <= q * N /\ p * N \in Nat
  <2> SUFFICES ASSUME NEW p \in Nat, NEW q \in Nat, p < q
               PROVE  p * N + N <= q * N /\ p * N \in Nat
    OBVIOUS
  <2> QED BY SMTT(30)
<1> DEFINE p == a \div N
           q == b \div N
<1>2. /\ a % N \in 0..N - 1 /\ p \in Nat /\ a = p * N + (a % N)
      /\ b % N \in 0..N - 1 /\ q \in Nat /\ b = q * N + (b % N)
  BY Remainder
<1> HIDE DEF p, q
<1>3. p = q
  BY <1>1, <1>2
<1> QED BY <1>2, <1>3

-----------------------------------------------------------------------------
(* Each end makes only steps of its own specification.                     *)

LEMMA SenderAssumption == SP!EncrypterAssumption
BY MediaPathAssumption DEF SP!EncrypterAssumption

LEMMA PathFrameFields ==
  ASSUME NEW f \in PathFrames
  PROVE  /\ f \in DP!Frame
         /\ f.parses /\ f.keyId = KeyId /\ f.ctr \in InitialCtr..MaxU64 /\ f.ctr \in Nat
         /\ f.nSigned = NSigned /\ f.encrypted /\ f.sealKey = 1 /\ f.sigValid /\ f.padValid
<1>1. PICK n \in InitialCtr..MaxU64, sign \in BOOLEAN : f = FrameFor(n, sign, 1)
  BY DEF PathFrames
<1>2. n \in Nat /\ NSigned \in Nat
  BY MediaPathAssumption
<1>3. (IF sign THEN 1 ELSE 0) \in {0, 1}
  OBVIOUS
<1> QED BY <1>1, <1>2, <1>3 DEF FrameFor, DP!Frame

LEMMA ReceiverAssumption == DP!FramesAssumption /\ DP!DecrypterAssumption
<1>1. DP!FramesAssumption
  BY PathFrameFields, MediaPathAssumption DEF DP!FramesAssumption
<1>2. NoFrame \notin PathFrames
  BY MediaPathAssumption DEF PathFrames
<1> QED BY <1>1, <1>2, MediaPathAssumption DEF DP!DecrypterAssumption

LEMMA SenderInit == Init => SP!Init
BY DEF Init, Sender!Init, SP!Init, Sender!Calls, SP!Calls

LEMMA ReceiverInit == Init => DP!Init
BY DEF Init, Recv!Init, DP!Init, Recv!Calls, DP!Calls, Recv!NoCtr, DP!NoCtr

\* The steps of an encrypt() call, in the words of the module they are proved in.
LEMMA SenderSteps ==
  ASSUME NEW c \in 1..MaxEncrypts
  PROVE  /\ Sender!RefuseNoKey(c) = SP!RefuseNoKey(c) /\ Sender!Begin(c) = SP!Begin(c)
         /\ Sender!FinishSeal(c) = SP!FinishSeal(c) /\ Sender!FinishSign(c) = SP!FinishSign(c)
BY DEF Sender!RefuseNoKey, SP!RefuseNoKey, Sender!Begin, SP!Begin, Sender!FinishSeal,
   SP!FinishSeal, Sender!FinishSign, SP!FinishSign, Sender!Allot, SP!Allot, Sender!NextCall,
   SP!NextCall, Sender!ShouldSign, SP!ShouldSign, Sender!Return, SP!Return, Sender!jobs,
   SP!jobs, Sender!Calls, SP!Calls

LEMMA SenderNext == [Next]_vars => [SP!Next]_SP!vars
<1>1. ASSUME UNCHANGED encVars PROVE UNCHANGED SP!vars
  BY <1>1 DEF encVars, SP!vars
<1>2. ASSUME Broadcast PROVE SP!Next
  <2>1. CASE Sender!SetKey
    BY <2>1 DEF Sender!SetKey, SP!SetKey, SP!Next, Sender!jobs, SP!jobs
  <2>2. ASSUME NEW c \in 1..MaxEncrypts,
               \/ Sender!RefuseNoKey(c) \/ Sender!Begin(c)
               \/ Sender!FinishSeal(c) \/ Sender!FinishSign(c)
        PROVE  SP!Next
    BY <2>2, SenderSteps DEF SP!Next, SP!Calls
  <2> QED BY <1>2, <2>1, <2>2 DEF Broadcast
<1> QED BY <1>1, <1>2 DEF Next, Transit, Receive, vars

\* The steps of a decrypt() call.
LEMMA ReceiverSteps ==
  ASSUME NEW c \in 1..MaxDecrypts
  PROVE  /\ Recv!Start(c) = DP!Start(c)
         /\ Recv!FinishVerify(c) = DP!FinishVerify(c)
         /\ Recv!FinishOpen(c) = DP!FinishOpen(c)
<1>1. \A outcome : Recv!Settle(c, outcome) = DP!Settle(c, outcome)
  BY DEF Recv!Settle, DP!Settle
<1>2. Recv!FetchKey(c) = DP!FetchKey(c)
  BY DEF Recv!Settle, DP!Settle, Recv!FetchKey, DP!FetchKey, Recv!MissingKey, DP!MissingKey
<1>3. \A f : /\ Recv!Replayed(f) = DP!Replayed(f) /\ Recv!Signed(f) = DP!Signed(f)
             /\ Recv!Leased(f) = DP!Leased(f)
  BY DEF Recv!Replayed, DP!Replayed, Recv!Signed, DP!Signed, Recv!Leased, DP!Leased,
     Recv!SigningEnabled, DP!SigningEnabled
<1>4. \A f, key : Recv!Opens(f, key) = DP!Opens(f, key)
  BY DEF Recv!Opens, DP!Opens
<1>5. Recv!Commit(c) = DP!Commit(c)
  BY DEF Recv!Commit, DP!Commit, Recv!Opens, DP!Opens, Recv!LeaseAfter, DP!LeaseAfter,
     Recv!RecordCounter, DP!RecordCounter, Recv!Settle, DP!Settle, Recv!Scope, DP!Scope,
     Recv!Signed, DP!Signed, Recv!Leased, DP!Leased, Recv!SigningEnabled, DP!SigningEnabled
<1>6. Recv!HasTurn(c) = DP!HasTurn(c) /\ Recv!Scope = DP!Scope
  BY DEF Recv!HasTurn, DP!HasTurn, Recv!Scope, DP!Scope
<1>7. Recv!Start(c) = DP!Start(c)
  BY <1>1, <1>2, <1>3, <1>6 DEF Recv!Start, DP!Start, Recv!shared, DP!shared
<1>8. Recv!FinishVerify(c) = DP!FinishVerify(c)
  BY <1>1, <1>2 DEF Recv!FinishVerify, DP!FinishVerify, Recv!shared, DP!shared,
     Recv!history, DP!history
<1>9. Recv!FinishOpen(c) = DP!FinishOpen(c)
  BY <1>1, <1>4, <1>5 DEF Recv!FinishOpen, DP!FinishOpen, Recv!locals, DP!locals
<1> QED BY <1>7, <1>8, <1>9

-----------------------------------------------------------------------------
(* The sender's end.                                                       *)

\* The key of the path is the first one: every frame is sealed with it.
OneKey ==
  \A c \in 1..MaxEncrypts :
    encPc[c] \in {"sealing", "signing"} \/ encResult[c] = "frame" => jobKey[c] = 1

\* A call that has left its frame has ended well.
LeftFrames == \A i \in DOMAIN finished : encResult[finished[i]] = "frame"

SenderInv == SP!Inv /\ OneKey /\ LeftFrames

\* The frame of counter n, as the schedule has it.
Scheduled(n) == FrameFor(n, (n - InitialCtr) % NSigned = 0, 1)

LEMMA SenderInvInit == Init => SenderInv
<1> SUFFICES ASSUME Init PROVE SenderInv
  OBVIOUS
<1>1. SP!Init /\ SP!Inv
  BY SenderInit, SenderAssumption, SP!InvInit
<1> QED BY <1>1 DEF SP!Init, SP!Calls, SenderInv, OneKey, LeftFrames

LEMMA FinishedAreCalls == SP!TypeOK => \A i \in DOMAIN finished : finished[i] \in 1..MaxEncrypts
<1> SUFFICES ASSUME SP!TypeOK, NEW i \in DOMAIN finished PROVE finished[i] \in 1..MaxEncrypts
  OBVIOUS
<1>1. finished \in Seq(1..MaxEncrypts)
  BY DEF SP!TypeOK, SP!Calls
<1>2. i \in 1..Len(finished)
  BY <1>1, LenProperties
<1> QED BY <1>1, <1>2, ElementOfSeq

LEMMA SenderInvNext == SenderInv /\ [Next]_vars => SenderInv'
<1> SUFFICES ASSUME SenderInv, [Next]_vars PROVE SenderInv'
  OBVIOUS
<1>0. SP!Inv /\ SP!TypeOK /\ OneKey /\ LeftFrames /\ [SP!Next]_SP!vars
  BY SenderNext DEF SenderInv, SP!Inv
<1>1. SP!Inv'
  BY <1>0, SenderAssumption, SP!InvNext
<1>2. OneKey' /\ LeftFrames'
  <2>1. ASSUME UNCHANGED SP!vars PROVE OneKey' /\ LeftFrames'
    BY <1>0, <2>1 DEF SP!vars, OneKey, LeftFrames
  <2>2. CASE SP!SetKey
    BY <1>0, <2>2 DEF SP!SetKey, SP!jobs, OneKey, LeftFrames
  <2>3. ASSUME NEW c \in SP!Calls, SP!RefuseExhausted(c) \/ SP!RefuseNoKey(c)
        PROVE  OneKey' /\ LeftFrames'
    <3>0. \A i \in DOMAIN finished : finished[i] \in 1..MaxEncrypts
      BY <1>0, FinishedAreCalls
    <3>1. encPc[c] = "idle" /\ encResult[c] = "none" /\ c \in 1..MaxEncrypts
      BY <1>0, <2>3 DEF SP!RefuseExhausted, SP!RefuseNoKey, SP!Allot, SP!NextCall, SP!Calls,
         SP!TypeOK, SP!Inv, SP!CallsInOrder
    <3>2. /\ encPc' = [encPc EXCEPT ![c] = "done"] /\ jobKey' = jobKey /\ finished' = finished
          /\ \E r \in {"counterExhausted", "invalidKeyId"} :
               encResult' = [encResult EXCEPT ![c] = r]
      BY <2>3 DEF SP!RefuseExhausted, SP!RefuseNoKey, SP!jobs
    <3> QED BY <1>0, <3>0, <3>1, <3>2 DEF SP!TypeOK, SP!Calls, OneKey, LeftFrames
  <2>4. ASSUME NEW c \in SP!Calls, SP!Begin(c) PROVE OneKey' /\ LeftFrames'
    <3>1. /\ encPc[c] = "idle" /\ encResult[c] = "none" /\ senderKey = 1
      BY <1>0, <2>4 DEF SP!Begin, SP!Allot, SP!NextCall, SP!TypeOK, SP!Inv, SP!CallsInOrder
    <3>2. /\ jobKey' = [jobKey EXCEPT ![c] = 1]
          /\ \A d \in SP!Calls : d # c => encPc'[d] = encPc[d]
          /\ UNCHANGED <<encResult, finished>>
      BY <1>0, <2>4, <3>1 DEF SP!Begin, SP!TypeOK
    <3> QED BY <1>0, <3>1, <3>2 DEF SP!TypeOK, SP!Calls, OneKey, LeftFrames
  <2>5. ASSUME NEW c \in SP!Calls, SP!FinishSeal(c) \/ SP!FinishSign(c)
        PROVE  OneKey' /\ LeftFrames'
    <3>1. c \in 1..MaxEncrypts /\ encPc[c] \in {"sealing", "signing"} /\ jobKey' = jobKey
      BY <2>5 DEF SP!FinishSeal, SP!FinishSign, SP!Calls, SP!jobs
    <3>2. CASE UNCHANGED <<encResult, finished>> /\ encPc' = [encPc EXCEPT ![c] = "signing"]
      BY <1>0, <3>1, <3>2 DEF SP!TypeOK, SP!Calls, OneKey, LeftFrames
    <3>3. CASE SP!Return(c)
      <4>1. OneKey'
        BY <1>0, <3>1, <3>3 DEF SP!Return, SP!TypeOK, SP!Calls, OneKey
      <4>2. finished \in Seq(1..MaxEncrypts) /\ finished' = Append(finished, c)
            /\ encResult' = [encResult EXCEPT ![c] = "frame"]
        BY <1>0, <3>3 DEF SP!Return, SP!TypeOK, SP!Calls
      <4>3. \A i \in DOMAIN finished' :
              \/ i \in DOMAIN finished /\ finished'[i] = finished[i]
              \/ finished'[i] = c
        BY <4>2, <3>1
      <4>4. \A i \in DOMAIN finished : finished[i] \in 1..MaxEncrypts
        BY <1>0, FinishedAreCalls
      <4> QED BY <1>0, <3>1, <4>1, <4>2, <4>3, <4>4 DEF SP!TypeOK, SP!Calls, LeftFrames
    <3> QED BY <2>5, <3>2, <3>3 DEF SP!FinishSeal, SP!FinishSign
  <2> QED BY <1>0, <2>1, <2>2, <2>3, <2>4, <2>5 DEF SP!Next
<1> QED BY <1>1, <1>2 DEF SenderInv

\* What leaves the sender follows the schedule of its counter.
LEMMA LeftAreScheduled ==
  ASSUME SenderInv, NEW i \in DOMAIN finished
  PROVE  LET c == finished[i] IN
           /\ jobCtr[c] \in InitialCtr..MaxU64
           /\ FrameFor(jobCtr[c], jobSign[c], jobKey[c]) = Scheduled(jobCtr[c])
<1> DEFINE c == finished[i]
<1>1. c \in 1..MaxEncrypts /\ encResult[c] = "frame"
  BY FinishedAreCalls DEF SenderInv, SP!Inv, LeftFrames
<1>2. SP!Allotted(c) /\ jobKey[c] = 1 /\ jobCtr[c] \in InitialCtr..MaxU64 /\ jobSign[c] \in BOOLEAN
  BY <1>1 DEF SenderInv, SP!Inv, SP!CallsInOrder, SP!TypeOK, SP!Calls, SP!Allotted, OneKey
<1>3. jobSign[c] <=> NSigned # 0 /\ (jobCtr[c] - InitialCtr) % NSigned = 0
  BY <1>1, <1>2 DEF SenderInv, SP!Inv, SP!ScheduleByCounter, SP!Calls
<1>4. jobSign[c] = ((jobCtr[c] - InitialCtr) % NSigned = 0)
  BY <1>2, <1>3, MediaPathAssumption
<1> QED BY <1>2, <1>4 DEF Scheduled

-----------------------------------------------------------------------------
(* The receiver's end.                                                     *)

Newest == liveMax[KeyId]
ActivePc == {"verifying", "opening"}

\* The receiver stays in live mode and has the key.
LiveWithKey == mode = "live" /\ keyStore[KeyId] = 1

\* Every frame handed over follows the schedule.
ArgsScheduled ==
  \A c \in Calls : decPc[c] # "idle" =>
    \E n \in InitialCtr..MaxU64 : arg[c] = Scheduled(n)

\* An intact frame of the path is delivered, or refused for one of two reasons.
Outcomes ==
  \A c \in Calls :
    /\ decPc[c] = "opening" => usedKey[c] = 1
    /\ decPc[c] = "released" => decResult[c] \in {"delivered", "replay", "invalidSignature"}
    /\ decPc[c] # "released" => decResult[c] = "none"

\* The call at work has the lease of the moment and a counter not yet passed.
AtWork ==
  \A c \in Calls : decPc[c] \in ActivePc =>
    localLease[c] = leaseRemaining /\ Newest < arg[c].ctr

\* The replay window ends at the highest counter delivered.
Window ==
  /\ \A c \in Calls : Delivered(c) => arg[c].ctr <= Newest
  /\ \A i \in DOMAIN delivered : delivered[i].ctr <= Newest
  /\ Newest = Recv!NoCtr \/ \E c \in Calls : Delivered(c) /\ arg[c].ctr = Newest

(* Once the signed frame of the interval that playback has come to is      *)
(* delivered, the lease covers the rest of the interval: frames that were  *)
(* lost or refused leave theirs unused.                                    *)
LeaseLeft ==
  \A s \in Calls : Delivered(s) /\ arg[s].ctr = SlotStart(Newest) =>
    leaseRemaining >= NSigned - 1 - (Newest - SlotStart(Newest))

\* The receiver's own part in the order: it never steps back or repeats.
StreamAdvances ==
  \A i, j \in DOMAIN delivered : i < j => delivered[i].ctr < delivered[j].ctr

ReceiverInv ==
  DP!QueueInv /\ LiveWithKey /\ ArgsScheduled /\ Outcomes /\ AtWork /\ Window /\ LeaseLeft
PathInv == ReceiverInv /\ LeaseSuffices /\ LosslessDelivers /\ StreamAdvances

\* A frame is signed exactly at the start of its signing interval.
LEMMA ScheduledFields ==
  ASSUME NEW n \in InitialCtr..MaxU64
  PROVE  /\ Scheduled(n) \in PathFrames /\ Scheduled(n).ctr = n
         /\ n \in Nat /\ SlotStart(n) \in Nat /\ SlotStart(n) <= n /\ n - SlotStart(n) < NSigned
         /\ DP!Signed(Scheduled(n)) <=> SlotStart(n) = n
         /\ DP!Leased(Scheduled(n)) <=> SlotStart(n) # n
<1>1. n \in Nat /\ InitialCtr \in Nat /\ n - InitialCtr \in Nat /\ NSigned \in 1..255
  BY MediaPathAssumption
<1>2. (n - InitialCtr) % NSigned \in 0..NSigned - 1
  BY <1>1
<1>3. (n - InitialCtr) % NSigned <= n - InitialCtr
  <2> DEFINE a == n - InitialCtr
  <2>1. a \in Nat /\ NSigned \in Nat \ {0}
    BY <1>1
  <2> HIDE DEF a
  <2>2. a % NSigned <= a
    BY <2>1, Remainder
  <2> QED BY <2>2 DEF a
<1> DEFINE sign == (n - InitialCtr) % NSigned = 0
<1>4. Scheduled(n) = FrameFor(n, sign, 1) /\ sign \in BOOLEAN
  BY Zenon DEF Scheduled
<1>5. SlotStart(n) = n - ((n - InitialCtr) % NSigned)
  BY DEF SlotStart
<1>6. sign <=> SlotStart(n) = n
  BY <1>1, <1>2, <1>5
<1> HIDE DEF sign
<1>7. Scheduled(n) \in PathFrames
  <2>1. \A m \in InitialCtr..MaxU64, sg \in BOOLEAN : FrameFor(m, sg, 1) \in PathFrames
    BY DEF PathFrames
  <2> QED BY <1>4, <2>1, Zenon
<1>8. \A sg \in BOOLEAN : /\ FrameFor(n, sg, 1).ctr = n /\ FrameFor(n, sg, 1).nSigned = NSigned
                          /\ sg => FrameFor(n, sg, 1).sigFlag = 1
                          /\ ~sg => FrameFor(n, sg, 1).sigFlag = 0
  BY DEF FrameFor
<1>9. /\ Scheduled(n).ctr = n /\ Scheduled(n).nSigned = NSigned
      /\ sign => Scheduled(n).sigFlag = 1
      /\ ~sign => Scheduled(n).sigFlag = 0
  BY <1>4, <1>8, Zenon
<1> QED BY <1>1, <1>2, <1>3, <1>5, <1>6, <1>7, <1>9 DEF DP!Signed, DP!Leased, DP!SigningEnabled

\* Between the start of an interval and one of its counters lies one interval.
LEMMA SameSlot ==
  ASSUME NEW n \in InitialCtr..MaxU64, NEW m \in InitialCtr..MaxU64,
         SlotStart(n) <= m, m <= n
  PROVE  SlotStart(m) = SlotStart(n)
<1> DEFINE a == m - InitialCtr
           b == n - InitialCtr
<1>1. a \in Nat /\ b \in Nat /\ NSigned \in Nat \ {0} /\ b - (b % NSigned) <= a /\ a <= b
      /\ InitialCtr \in Nat /\ m = a + InitialCtr /\ n = b + InitialCtr
  BY MediaPathAssumption DEF SlotStart
<1>2. b % NSigned \in Nat /\ a % NSigned \in Nat
  BY <1>1
<1>3. SlotStart(m) = a + InitialCtr - (a % NSigned) /\ SlotStart(n) = b + InitialCtr - (b % NSigned)
  BY <1>1 DEF SlotStart
<1> HIDE DEF a, b
<1>4. a - (a % NSigned) = b - (b % NSigned)
  BY <1>1, SameQuotient
<1> QED BY <1>1, <1>2, <1>3, <1>4

LEMMA NewestTyped == DP!TypeOK => Newest \in Nat \cup {Recv!NoCtr} /\ Newest \in Int
BY DEF DP!TypeOK, DP!Counters, DP!NoCtr, Recv!NoCtr, Newest

\* What a call that is not idle decrypts.
LEMMA ArgFields ==
  ASSUME ReceiverInv, NEW c \in Calls, decPc[c] # "idle"
  PROVE  /\ arg[c] \in PathFrames /\ arg[c].parses /\ arg[c].keyId = KeyId
         /\ arg[c].ctr \in InitialCtr..MaxU64 /\ arg[c].ctr \in Nat /\ arg[c].nSigned = NSigned
         /\ arg[c].sealKey = 1 /\ arg[c].sigValid /\ arg[c].padValid
         /\ DP!Signed(arg[c]) <=> SlotStart(arg[c].ctr) = arg[c].ctr
         /\ DP!Leased(arg[c]) <=> SlotStart(arg[c].ctr) # arg[c].ctr
<1>1. PICK n \in InitialCtr..MaxU64 : arg[c] = Scheduled(n)
  BY DEF ReceiverInv, ArgsScheduled
<1> QED BY <1>1, ScheduledFields, PathFrameFields

\* A step of call c leaves the other calls alone.
Rest(c) ==
  /\ \A d \in Calls \ {c} : /\ decPc'[d] = decPc[d] /\ decResult'[d] = decResult[d]
                            /\ localLease'[d] = localLease[d] /\ usedKey'[d] = usedKey[d]
  /\ UNCHANGED <<arg, mode, keyStore>>

\* A step that accepts no frame.
Accepts0 == UNCHANGED <<leaseRemaining, liveMax, delivered>>

LEMMA StartEffects ==
  ASSUME ReceiverInv, NEW c \in Calls, DP!Start(c)
  PROVE  /\ decPc[c] = "queued" /\ \A d \in Calls : d < c => decPc[d] = "released"
         /\ Rest(c) /\ Accepts0 /\ localLease'[c] = leaseRemaining
         /\ \/ /\ decPc'[c] = "released" /\ decResult'[c] = "replay"
               /\ arg[c].ctr <= Newest
            \/ /\ decPc'[c] = "released" /\ decResult'[c] = "invalidSignature"
               /\ Newest < arg[c].ctr /\ leaseRemaining = 0 /\ DP!Leased(arg[c])
            \/ /\ decPc'[c] \in ActivePc /\ decResult'[c] = decResult[c]
               /\ Newest < arg[c].ctr /\ (decPc'[c] = "opening" => usedKey'[c] = 1)
<1> DEFINE f == arg[c]
<1>1. decPc[c] = "queued" /\ DP!HasTurn(c) /\ c \in DP!Calls /\ DP!QueueInv
  BY DEF DP!Start, DP!Calls, Calls, ReceiverInv
<1>2. \A d \in Calls : d < c => decPc[d] = "released"
  BY <1>1, ReceiverAssumption, DP!TurnMeansFirst DEF DP!Calls, Calls
<1>3. f.parses /\ f.keyId = KeyId /\ f.ctr \in Nat
  BY <1>1, ArgFields
<1>4. DP!Replayed(f) <=> f.ctr <= Newest
  BY <1>3 DEF DP!Replayed, ReceiverInv, LiveWithKey, Newest
<1>5. ~DP!MissingKey(f)
  BY <1>3 DEF DP!MissingKey, ReceiverInv, LiveWithKey
<1>6. /\ decPc \in [Calls -> {"idle", "queued", "verifying", "opening", "released"}]
      /\ DOMAIN decResult = Calls /\ DOMAIN localLease = Calls /\ DOMAIN usedKey = Calls
      /\ Newest \in Int
  BY <1>1, NewestTyped DEF DP!QueueInv, DP!TypeInv, DP!TypeOK, DP!Calls, Calls
<1>7. Rest(c) /\ Accepts0 /\ localLease'[c] = leaseRemaining
  BY <1>6 DEF DP!Start, DP!FetchKey, DP!Settle, DP!shared, Rest, Accepts0
<1>8. CASE DP!Replayed(f)
  BY <1>1, <1>2, <1>3, <1>4, <1>6, <1>7, <1>8 DEF DP!Start, DP!Settle
<1>9. CASE ~DP!Replayed(f)
  <2>1. Newest < f.ctr
    BY <1>3, <1>4, <1>6, <1>9
  <2>2. CASE DP!Signed(f)
    BY <1>1, <1>2, <1>3, <1>6, <1>7, <1>9, <2>1, <2>2
    DEF DP!Start, DP!Leased, ActivePc
  <2>3. CASE ~DP!Signed(f) /\ DP!Leased(f) /\ leaseRemaining = 0
    BY <1>1, <1>2, <1>3, <1>6, <1>7, <1>9, <2>1, <2>3 DEF DP!Start, DP!Settle
  <2>4. CASE ~DP!Signed(f) /\ ~(DP!Leased(f) /\ leaseRemaining = 0)
    <3>1. DP!FetchKey(c)
      BY <1>3, <1>9, <2>4 DEF DP!Start
    <3>2. decPc'[c] = "opening" /\ usedKey'[c] = 1 /\ decResult' = decResult
      BY <1>3, <1>5, <1>6, <3>1 DEF DP!FetchKey, ReceiverInv, LiveWithKey
    <3> QED BY <1>1, <1>2, <1>7, <2>1, <3>2 DEF ActivePc
  <2> QED BY <2>2, <2>3, <2>4
<1> QED BY <1>8, <1>9

LEMMA VerifyEffects ==
  ASSUME ReceiverInv, NEW c \in Calls, DP!FinishVerify(c)
  PROVE  /\ decPc[c] = "verifying" /\ decPc'[c] = "opening" /\ usedKey'[c] = 1
         /\ decResult'[c] = decResult[c] /\ localLease' = localLease
         /\ Rest(c) /\ Accepts0
<1>1. decPc[c] = "verifying" /\ arg[c].sigValid /\ arg[c].keyId = KeyId
  BY ArgFields DEF DP!FinishVerify
<1>2. DP!FetchKey(c) /\ ~DP!MissingKey(arg[c])
  BY <1>1 DEF DP!FinishVerify, DP!MissingKey, ReceiverInv, LiveWithKey
<1>3. DOMAIN decPc = Calls /\ DOMAIN usedKey = Calls
  BY DEF ReceiverInv, DP!QueueInv, DP!TypeInv, DP!TypeOK, DP!Calls, Calls
<1> QED BY <1>1, <1>2, <1>3 DEF DP!FinishVerify, DP!FetchKey, DP!shared, DP!history, Rest,
        Accepts0, ReceiverInv, LiveWithKey

\* A frame that came this far is delivered: the key opens it.
LEMMA OpenEffects ==
  ASSUME ReceiverInv, NEW c \in Calls, DP!FinishOpen(c)
  PROVE  /\ decPc[c] = "opening" /\ decPc'[c] = "released" /\ decResult'[c] = "delivered"
         /\ localLease' = localLease /\ Rest(c)
         /\ leaseRemaining' = IF DP!Signed(arg[c]) THEN NSigned - 1 ELSE leaseRemaining - 1
         /\ Newest < arg[c].ctr /\ Newest' = arg[c].ctr
         /\ delivered' = Append(delivered, arg[c])
<1>1. /\ decPc[c] = "opening" /\ usedKey[c] = 1 /\ localLease[c] = leaseRemaining
      /\ Newest < arg[c].ctr
  BY DEF DP!FinishOpen, ReceiverInv, Outcomes, AtWork, ActivePc
<1>2. /\ arg[c].sealKey = 1 /\ arg[c].padValid /\ arg[c].keyId = KeyId /\ arg[c].ctr \in Nat
      /\ arg[c].nSigned = NSigned /\ (DP!Signed(arg[c]) \/ DP!Leased(arg[c]))
  BY <1>1, ArgFields
<1>3. DP!Opens(arg[c], usedKey[c])
  BY <1>1, <1>2 DEF DP!Opens
<1>4. DP!Commit(c)
  BY <1>2, <1>3 DEF DP!FinishOpen
<1>5. /\ DOMAIN decPc = Calls /\ DOMAIN decResult = Calls /\ KeyId \in DOMAIN liveMax
      /\ Newest \in Int
  BY NewestTyped
  DEF ReceiverInv, DP!QueueInv, DP!TypeInv, DP!TypeOK, DP!Calls, Calls, DP!Counters
<1>6. liveMax' = [liveMax EXCEPT ![KeyId] = arg[c].ctr]
  <2>1. mode = "live" /\ arg[c].ctr > liveMax[KeyId]
    BY <1>1, <1>2, <1>5 DEF ReceiverInv, LiveWithKey, Newest
  <2>2. liveMax' = [liveMax EXCEPT ![arg[c].keyId] =
                      IF arg[c].ctr > liveMax[arg[c].keyId] THEN arg[c].ctr
                      ELSE liveMax[arg[c].keyId]]
    BY <1>4, <2>1 DEF DP!Commit, DP!RecordCounter
  <2> QED BY <1>2, <2>1, <2>2
<1>7. Rest(c) /\ localLease' = localLease /\ decPc'[c] = "released" /\ decResult'[c] = "delivered"
  BY <1>4, <1>5 DEF DP!FinishOpen, DP!Commit, DP!Settle, DP!locals, Rest
<1>8. leaseRemaining' = IF DP!Signed(arg[c]) THEN NSigned - 1 ELSE leaseRemaining - 1
  BY <1>1, <1>2, <1>4 DEF DP!Commit, DP!LeaseAfter
<1>9. delivered' = Append(delivered, arg[c])
  BY <1>4 DEF DP!Commit
<1> QED BY <1>1, <1>5, <1>6, <1>7, <1>8, <1>9 DEF Newest

-----------------------------------------------------------------------------
(* Preservation.                                                           *)

Kept == LiveWithKey /\ ArgsScheduled /\ Outcomes /\ AtWork /\ Window /\ LeaseLeft
        /\ LeaseSuffices /\ LosslessDelivers /\ StreamAdvances

\* While nothing is delivered, the window, the lease and the stream rest.
LEMMA NothingDelivered ==
  ASSUME PathInv, Accepts0,
         \A d \in Calls : Delivered(d)' = Delivered(d) /\ (Delivered(d) => arg'[d] = arg[d])
  PROVE  Window' /\ LeaseLeft' /\ StreamAdvances'
<1>1. Newest' = Newest
  BY DEF Accepts0, Newest
<1>2. Window'
  BY <1>1 DEF PathInv, ReceiverInv, Window, Accepts0
<1>3. LeaseLeft'
  BY <1>1 DEF PathInv, ReceiverInv, LeaseLeft, Accepts0, SlotStart
<1>4. StreamAdvances'
  BY DEF PathInv, StreamAdvances, Accepts0
<1> QED BY <1>2, <1>3, <1>4

\* A frame whose interval has its signature finds a lease.
LEMMA LeaseAtHand ==
  ASSUME ReceiverInv, NEW c \in Calls, decPc[c] # "idle", Newest < arg[c].ctr,
         DP!Leased(arg[c]),
         NEW s \in Calls, Delivered(s), arg[s].ctr = SlotStart(arg[c].ctr)
  PROVE  /\ SlotStart(Newest) = SlotStart(arg[c].ctr)
         /\ leaseRemaining >= NSigned - 1 - (Newest - SlotStart(Newest))
         /\ leaseRemaining > 0
<1> DEFINE n == arg[c].ctr
           m == Newest
<1>1. decPc[s] # "idle"
  BY DEF ReceiverInv, Outcomes, Delivered
<1>2. /\ n \in InitialCtr..MaxU64 /\ arg[s].ctr \in InitialCtr..MaxU64
      /\ arg[s].ctr <= m /\ m < n /\ m \in Int
  BY <1>1, ArgFields, NewestTyped
  DEF ReceiverInv, Window, DP!QueueInv, DP!TypeInv
<1> HIDE DEF n, m
<1>3. m \in InitialCtr..MaxU64 /\ InitialCtr \in Int /\ MaxU64 \in Int
  BY <1>2, MediaPathAssumption
<1>4. SlotStart(m) = SlotStart(n)
  BY <1>2, <1>3, SameSlot DEF n
<1>5. leaseRemaining >= NSigned - 1 - (m - SlotStart(m))
  BY <1>4 DEF ReceiverInv, LeaseLeft, n, m
<1>6. SlotStart(n) \in Nat /\ n \in Nat /\ n - SlotStart(n) < NSigned
  BY <1>2, ScheduledFields
<1>7. leaseRemaining \in Nat /\ NSigned \in Nat
  BY MediaPathAssumption DEF ReceiverInv, DP!QueueInv, DP!TypeInv, DP!TypeOK
<1>8. leaseRemaining > 0
  BY <1>2, <1>4, <1>5, <1>6, <1>7
<1> QED BY <1>4, <1>5, <1>8 DEF n, m

\* Faithful was true before.
LEMMA FaithfulBefore ==
  ASSUME Faithful', \A d \in Calls : decPc[d] # "idle" => decPc'[d] # "idle" /\ arg'[d] = arg[d]
  PROVE  Faithful
BY DEF Faithful

\* The last counter delivered on a faithful path is that of an earlier call.
LEMMA FaithfulNotReplayed ==
  ASSUME ReceiverInv, Faithful, NEW c \in Calls, decPc[c] = "queued"
  PROVE  Newest < arg[c].ctr
<1>1. arg[c].ctr = InitialCtr + c - 1 /\ InitialCtr \in Nat /\ c \in Nat /\ c >= 1
  BY MediaPathAssumption DEF Faithful, Calls
<1>2. CASE Newest = Recv!NoCtr
  BY <1>1, <1>2 DEF Recv!NoCtr
<1>3. CASE Newest # Recv!NoCtr
  <2>1. PICK d \in Calls : Delivered(d) /\ arg[d].ctr = Newest
    BY <1>3 DEF ReceiverInv, Window
  <2>2. decPc[d] = "released"
    BY <2>1 DEF ReceiverInv, Outcomes, Delivered
  <2>3. arg[d].ctr = InitialCtr + d - 1 /\ d \in Int /\ c \in Int
    BY <2>2 DEF Faithful, Calls
  <2>4. ~(c < d) /\ c # d
    BY <2>2 DEF ReceiverInv, DP!QueueInv, DP!Serialized, DP!Calls, Calls
  <2> QED BY <1>1, <2>1, <2>3, <2>4
<1> QED BY <1>2, <1>3

\* On a faithful path the signed frame of an interval comes before the others.
LEMMA FaithfulHasSigned ==
  ASSUME PathInv, Faithful, NEW c \in Calls, decPc[c] = "queued",
         \A d \in Calls : d < c => decPc[d] = "released",
         SlotStart(arg[c].ctr) # arg[c].ctr
  PROVE  \E s \in Calls : s < c /\ Delivered(s) /\ arg[s].ctr = SlotStart(arg[c].ctr)
<1> DEFINE n == arg[c].ctr
           s == SlotStart(n) - InitialCtr + 1
<1>1. /\ n = InitialCtr + c - 1 /\ InitialCtr \in Nat /\ NSigned \in Nat \ {0} /\ c \in Nat
      /\ n \in InitialCtr..MaxU64 /\ MaxDecrypts \in Nat /\ c <= MaxDecrypts
  BY MediaPathAssumption, ArgFields DEF Faithful, Calls, PathInv
<1>2. SlotStart(n) \in Nat /\ SlotStart(n) < n /\ InitialCtr <= SlotStart(n)
  <2> DEFINE a == n - InitialCtr
  <2>1. a \in Nat
    BY <1>1
  <2> HIDE DEF a
  <2>2. a % NSigned <= a
    BY <1>1, <2>1, Remainder
  <2>3. SlotStart(n) \in Nat /\ SlotStart(n) <= n
    BY <1>1, ScheduledFields
  <2> QED BY <1>1, <2>1, <2>2, <2>3 DEF SlotStart, a
<1>3. s \in Calls /\ s < c
  BY <1>1, <1>2 DEF Calls
<1>4. decPc[s] = "released" /\ Delivered(s)
  BY <1>3 DEF PathInv, LosslessDelivers
<1>5. arg[s].ctr = InitialCtr + s - 1
  BY <1>3, <1>4 DEF Faithful
<1>6. arg[s].ctr = SlotStart(n)
  BY <1>1, <1>2, <1>5
<1> QED BY <1>3, <1>4, <1>6

LEMMA StartKeeps ==
  ASSUME PathInv, NEW c \in Calls, DP!Start(c)
  PROVE  Kept'
<1>0. /\ decPc[c] = "queued" /\ \A d \in Calls : d < c => decPc[d] = "released"
      /\ Rest(c) /\ Accepts0 /\ localLease'[c] = leaseRemaining
      /\ \/ /\ decPc'[c] = "released" /\ decResult'[c] = "replay"
            /\ arg[c].ctr <= Newest
         \/ /\ decPc'[c] = "released" /\ decResult'[c] = "invalidSignature"
            /\ Newest < arg[c].ctr /\ leaseRemaining = 0 /\ DP!Leased(arg[c])
         \/ /\ decPc'[c] \in ActivePc /\ decResult'[c] = decResult[c]
            /\ Newest < arg[c].ctr /\ (decPc'[c] = "opening" => usedKey'[c] = 1)
  BY StartEffects DEF PathInv
<1>1. decResult[c] = "none" /\ Newest' = Newest
  BY <1>0 DEF PathInv, ReceiverInv, Outcomes, Accepts0, Newest
<1>2. Window' /\ LeaseLeft' /\ StreamAdvances'
  <2>1. \A d \in Calls : Delivered(d)' = Delivered(d) /\ arg'[d] = arg[d]
    BY <1>0, <1>1 DEF Rest, Delivered
  <2> QED BY <1>0, <2>1, NothingDelivered
<1>3. LiveWithKey' /\ ArgsScheduled' /\ Outcomes'
  <2>1. LiveWithKey' /\ Outcomes'
    BY <1>0, <1>1 DEF PathInv, ReceiverInv, LiveWithKey, Outcomes, Rest, ActivePc
  <2>2. ArgsScheduled'
    BY <1>0 DEF PathInv, ReceiverInv, ArgsScheduled, Rest
  <2> QED BY <2>1, <2>2
<1>4. AtWork'
  <2>1. ASSUME NEW d \in Calls, decPc'[d] \in ActivePc
        PROVE  localLease'[d] = leaseRemaining' /\ Newest' < arg'[d].ctr
    <3>1. CASE d = c
      BY <1>0, <1>1, <2>1, <3>1 DEF Rest, Accepts0, ActivePc
    <3>2. CASE d # c
      BY <1>0, <1>1, <2>1, <3>2 DEF PathInv, ReceiverInv, AtWork, Rest, Accepts0
    <3> QED BY <3>1, <3>2
  <2> QED BY <2>1 DEF AtWork
<1>5. LeaseSuffices'
  <2> SUFFICES ASSUME NEW d \in Calls, decResult'[d] = "invalidSignature",
                      NEW s \in Calls, s < d, decResult'[s] = "delivered",
                      arg'[s].ctr = SlotStart(arg'[d].ctr)
               PROVE  FALSE
    BY DEF LeaseSuffices, Delivered, SlotStart
  <2>1. arg' = arg /\ s # c /\ Delivered(s)
    BY <1>0, <1>1 DEF Rest, Delivered
  <2>2. CASE d = c
    <3>1. /\ Newest < arg[c].ctr /\ leaseRemaining = 0 /\ DP!Leased(arg[c])
          /\ arg[s].ctr = SlotStart(arg[c].ctr)
      BY <1>0, <1>1, <2>1, <2>2
    <3>2. leaseRemaining > 0
      BY <1>0, <2>1, <3>1, LeaseAtHand DEF PathInv
    <3> QED BY <3>1, <3>2
  <2>3. CASE d # c
    BY <1>0, <2>1, <2>3 DEF PathInv, LeaseSuffices, Rest
  <2> QED BY <2>2, <2>3
<1>6. LosslessDelivers'
  <2> SUFFICES ASSUME Faithful', NEW d \in Calls, decPc'[d] = "released"
               PROVE  decResult'[d] = "delivered"
    BY DEF LosslessDelivers, Delivered
  <2>1. Faithful
    BY <1>0, FaithfulBefore DEF Rest, ActivePc
  <2>2. CASE d = c
    <3>1. Newest < arg[c].ctr /\ Newest \in Int /\ arg[c].ctr \in Nat
      BY <1>0, <2>1, FaithfulNotReplayed, NewestTyped, ArgFields
      DEF PathInv, ReceiverInv, DP!QueueInv, DP!TypeInv
    <3>2. leaseRemaining = 0 /\ DP!Leased(arg[c])
      BY <1>0, <2>2, <3>1 DEF ActivePc
    <3>3. SlotStart(arg[c].ctr) # arg[c].ctr
      BY <1>0, <3>2, ArgFields DEF PathInv
    <3>4. PICK s \in Calls : Delivered(s) /\ arg[s].ctr = SlotStart(arg[c].ctr)
      BY <1>0, <2>1, <3>3, FaithfulHasSigned
    <3>5. leaseRemaining > 0
      BY <1>0, <3>1, <3>2, <3>4, LeaseAtHand DEF PathInv
    <3> QED BY <3>2, <3>5
  <2>3. CASE d # c
    BY <1>0, <2>1, <2>3 DEF PathInv, LosslessDelivers, Rest, Delivered
  <2> QED BY <2>2, <2>3
<1> QED BY <1>2, <1>3, <1>4, <1>5, <1>6 DEF Kept

LEMMA VerifyKeeps ==
  ASSUME PathInv, NEW c \in Calls, DP!FinishVerify(c)
  PROVE  Kept'
<1>0. /\ decPc[c] = "verifying" /\ decPc'[c] = "opening" /\ usedKey'[c] = 1
      /\ decResult'[c] = decResult[c] /\ localLease' = localLease
      /\ Rest(c) /\ Accepts0
  BY VerifyEffects DEF PathInv
<1>1. Newest' = Newest /\ \A d \in Calls : decResult'[d] = decResult[d]
  BY <1>0 DEF Accepts0, Newest, Rest
<1>2. Window' /\ LeaseLeft' /\ StreamAdvances'
  <2>1. \A d \in Calls : Delivered(d)' = Delivered(d) /\ arg'[d] = arg[d]
    BY <1>0, <1>1 DEF Rest, Delivered
  <2> QED BY <1>0, <2>1, NothingDelivered
<1>3. LiveWithKey' /\ ArgsScheduled' /\ Outcomes'
  BY <1>0, <1>1 DEF PathInv, ReceiverInv, LiveWithKey, ArgsScheduled, Outcomes, Rest
<1>4. AtWork'
  BY <1>0, <1>1 DEF PathInv, ReceiverInv, AtWork, Rest, Accepts0, ActivePc
<1>5. LeaseSuffices'
  BY <1>0, <1>1 DEF PathInv, LeaseSuffices, Rest, Delivered, SlotStart
<1>6. LosslessDelivers'
  BY <1>0, <1>1, FaithfulBefore DEF PathInv, LosslessDelivers, Rest, Delivered
<1> QED BY <1>2, <1>3, <1>4, <1>5, <1>6 DEF Kept

LEMMA OpenKeeps ==
  ASSUME PathInv, NEW c \in Calls, DP!FinishOpen(c)
  PROVE  Kept'
<1> DEFINE n == arg[c].ctr
<1>0. /\ decPc[c] = "opening" /\ decPc'[c] = "released" /\ decResult'[c] = "delivered"
      /\ localLease' = localLease /\ Rest(c)
      /\ leaseRemaining' = IF DP!Signed(arg[c]) THEN NSigned - 1 ELSE leaseRemaining - 1
      /\ Newest < n /\ Newest' = n
      /\ delivered' = Append(delivered, arg[c])
  BY OpenEffects DEF PathInv
<1>1. /\ n \in InitialCtr..MaxU64 /\ n \in Nat /\ NSigned \in Nat \ {0} /\ arg[c] \in PathFrames
      /\ DP!Signed(arg[c]) <=> SlotStart(n) = n
      /\ DP!Leased(arg[c]) <=> SlotStart(n) # n
      /\ SlotStart(n) \in Nat /\ SlotStart(n) <= n /\ n - SlotStart(n) < NSigned
  <2>1. /\ n \in InitialCtr..MaxU64 /\ arg[c] \in PathFrames
        /\ DP!Signed(arg[c]) <=> SlotStart(n) = n
        /\ DP!Leased(arg[c]) <=> SlotStart(n) # n
    BY <1>0, ArgFields DEF PathInv
  <2>2. NSigned \in Nat \ {0}
    BY MediaPathAssumption
  <2> HIDE DEF n
  <2>3. /\ n \in Nat /\ SlotStart(n) \in Nat /\ SlotStart(n) <= n
        /\ n - SlotStart(n) < NSigned
    BY <2>1, ScheduledFields
  <2> QED BY <2>1, <2>2, <2>3
<1>2. /\ Newest \in Int /\ leaseRemaining \in Nat /\ delivered \in Seq(PathFrames)
  BY NewestTyped DEF PathInv, ReceiverInv, DP!QueueInv, DP!TypeInv, DP!TypeOK
<1>3. /\ \A d \in Calls : Delivered(d) => arg[d].ctr <= Newest /\ arg[d].ctr \in Nat
      /\ \A i \in 1..Len(delivered) : delivered[i].ctr <= Newest /\ delivered[i].ctr \in Nat
      /\ Len(delivered) \in Nat
  <2>1. \A d \in Calls : Delivered(d) => arg[d].ctr <= Newest /\ arg[d].ctr \in Nat
    BY ArgFields DEF PathInv, ReceiverInv, Window, Outcomes, Delivered
  <2>2. Len(delivered) \in Nat /\ DOMAIN delivered = 1..Len(delivered)
    BY <1>2, LenProperties
  <2>3. \A i \in 1..Len(delivered) : delivered[i] \in PathFrames
    BY <1>2, ElementOfSeq
  <2> QED BY <2>1, <2>2, <2>3, PathFrameFields DEF PathInv, ReceiverInv, Window
<1>4. /\ Len(delivered') = Len(delivered) + 1 /\ DOMAIN delivered' = 1..Len(delivered) + 1
      /\ DOMAIN delivered = 1..Len(delivered)
      /\ \A i \in 1..Len(delivered) : delivered'[i] = delivered[i]
      /\ delivered'[Len(delivered) + 1] = arg[c]
  BY <1>0, <1>1, <1>2, AppendProperties, LenProperties
<1>5. \A d \in Calls : d # c => Delivered(d)' = Delivered(d) /\ decPc'[d] = decPc[d]
  BY <1>0 DEF Rest, Delivered
<1>6. LiveWithKey' /\ ArgsScheduled' /\ Outcomes'
  BY <1>0 DEF PathInv, ReceiverInv, LiveWithKey, ArgsScheduled, Outcomes, Rest
<1>7. AtWork'
  <2>1. \A d \in Calls : decPc'[d] \notin ActivePc
    BY <1>0, <1>5 DEF PathInv, ReceiverInv, DP!QueueInv, DP!Serialized, DP!Calls, Calls, ActivePc
  <2> QED BY <2>1 DEF AtWork
<1> HIDE DEF n
<1>8. Window'
  <2>1. ASSUME NEW d \in Calls, Delivered(d)' PROVE arg'[d].ctr <= n
    <3>1. CASE d = c
      BY <1>0, <1>1, <3>1 DEF Rest, n
    <3>2. CASE d # c
      <4>1. arg[d].ctr <= Newest /\ arg[d].ctr \in Nat
        BY <1>3, <1>5, <2>1, <3>2
      <4> QED BY <1>0, <1>1, <1>2, <4>1 DEF Rest
    <3> QED BY <3>1, <3>2
  <2>2. ASSUME NEW i \in DOMAIN delivered' PROVE delivered'[i].ctr <= n
    BY <1>0, <1>1, <1>2, <1>3, <1>4, <2>2 DEF n
  <2>3. Delivered(c)' /\ arg'[c].ctr = n
    BY <1>0 DEF Delivered, Rest, n
  <2> QED BY <1>0, <2>1, <2>2, <2>3 DEF Window
<1>9. LeaseLeft'
  <2> SUFFICES ASSUME NEW s \in Calls, Delivered(s)', arg[s].ctr = SlotStart(n)
               PROVE  leaseRemaining' >= NSigned - 1 - (n - SlotStart(n))
    BY <1>0 DEF LeaseLeft, Rest, SlotStart
  <2>1. CASE SlotStart(n) = n
    BY <1>0, <1>1, <2>1
  <2>2. CASE SlotStart(n) # n
    <3>1. s # c /\ Delivered(s)
      BY <1>5, <2>2 DEF n
    <3>2. /\ SlotStart(Newest) = SlotStart(n)
          /\ leaseRemaining >= NSigned - 1 - (Newest - SlotStart(Newest))
      BY <1>0, <1>1, <2>2, <3>1, LeaseAtHand DEF n, PathInv
    <3>3. leaseRemaining' = leaseRemaining - 1
      BY <1>0, <1>1, <2>2
    <3> QED BY <1>0, <1>1, <1>2, <3>2, <3>3
  <2> QED BY <2>1, <2>2
<1>10. LeaseSuffices'
  <2> SUFFICES ASSUME NEW d \in Calls, decResult'[d] = "invalidSignature",
                      NEW s \in Calls, s < d, decResult'[s] = "delivered",
                      arg'[s].ctr = SlotStart(arg'[d].ctr)
               PROVE  FALSE
    BY DEF LeaseSuffices, Delivered, SlotStart
  <2>1. d # c /\ decResult[d] = "invalidSignature" /\ arg' = arg
    BY <1>0 DEF Rest
  <2>2. decPc[d] = "released"
    BY <2>1 DEF PathInv, ReceiverInv, Outcomes
  <2>3. decPc[s] = "released"
    BY <2>2 DEF PathInv, ReceiverInv, DP!QueueInv, DP!Serialized, DP!Calls, Calls
  <2>4. s # c /\ Delivered(s)
    BY <1>0, <2>3 DEF Rest, Delivered
  <2> QED BY <2>1, <2>4 DEF PathInv, LeaseSuffices
<1>11. LosslessDelivers'
  <2> SUFFICES ASSUME Faithful', NEW d \in Calls, decPc'[d] = "released"
               PROVE  decResult'[d] = "delivered"
    BY DEF LosslessDelivers, Delivered
  <2>1. Faithful
    BY <1>0, FaithfulBefore DEF Rest
  <2> QED BY <1>0, <1>5, <2>1 DEF PathInv, LosslessDelivers, Delivered
<1>12. StreamAdvances'
  <2> SUFFICES ASSUME NEW i \in DOMAIN delivered', NEW j \in DOMAIN delivered', i < j
               PROVE  delivered'[i].ctr < delivered'[j].ctr
    BY DEF StreamAdvances
  <2>1. i \in 1..Len(delivered)
    BY <1>3, <1>4
  <2>2. CASE j \in 1..Len(delivered)
    BY <1>4, <2>1, <2>2 DEF PathInv, StreamAdvances
  <2>3. CASE j = Len(delivered) + 1
    <3>1. delivered[i].ctr <= Newest /\ delivered[i].ctr \in Nat
      BY <1>3, <2>1
    <3> QED BY <1>0, <1>1, <1>2, <1>4, <2>1, <2>3, <3>1 DEF n
  <2> QED BY <1>3, <1>4, <2>2, <2>3
<1> QED BY <1>6, <1>7, <1>8, <1>9, <1>10, <1>11, <1>12 DEF Kept

\* A frame is handed over: the next call is queued for it.
LEMMA SubmitKeeps ==
  ASSUME PathInv, NEW n \in InitialCtr..MaxU64, DP!Submit(Scheduled(n))
  PROVE  Kept'
<1>1. PICK c \in Calls :
        /\ decPc[c] = "idle" /\ decPc' = [decPc EXCEPT ![c] = "queued"]
        /\ arg' = [arg EXCEPT ![c] = Scheduled(n)]
  BY DEF DP!Submit, DP!Calls, Calls
<1>2. UNCHANGED <<leaseRemaining, mode, liveMax, keyStore, localLease, usedKey, decResult, delivered>>
  BY DEF DP!Submit, DP!shared, DP!history
<1>3. DOMAIN decPc = Calls /\ DOMAIN arg = Calls
  BY DEF PathInv, ReceiverInv, DP!QueueInv, DP!TypeInv, DP!TypeOK, DP!Calls, Calls
<1>4. \A d \in Calls : decPc[d] # "idle" => decPc'[d] = decPc[d] /\ arg'[d] = arg[d]
  BY <1>1, <1>3
<1>5. \A d \in Calls : decResult[d] # "none" => decPc[d] # "idle"
  BY DEF PathInv, ReceiverInv, Outcomes
<1>6. Window' /\ LeaseLeft' /\ StreamAdvances'
  <2>1. \A d \in Calls : Delivered(d)' = Delivered(d) /\ (Delivered(d) => arg'[d] = arg[d])
    BY <1>2, <1>4, <1>5 DEF Delivered
  <2> QED BY <1>2, <2>1, NothingDelivered DEF Accepts0
<1>7. LiveWithKey' /\ ArgsScheduled' /\ Outcomes'
  BY <1>1, <1>2, <1>3 DEF PathInv, ReceiverInv, LiveWithKey, ArgsScheduled, Outcomes
<1>8. AtWork'
  BY <1>1, <1>2, <1>3 DEF PathInv, ReceiverInv, AtWork, ActivePc, Newest
<1>9. LeaseSuffices'
  BY <1>2, <1>4, <1>5 DEF PathInv, LeaseSuffices, Delivered, SlotStart
<1>10. LosslessDelivers'
  <2> SUFFICES ASSUME Faithful', NEW d \in Calls, decPc'[d] = "released"
               PROVE  decResult'[d] = "delivered"
    BY DEF LosslessDelivers, Delivered
  <2>1. Faithful
    BY <1>4, FaithfulBefore
  <2>2. decPc[d] = "released"
    BY <1>1, <1>3
  <2> QED BY <1>2, <2>1, <2>2 DEF PathInv, LosslessDelivers, Delivered
<1> QED BY <1>6, <1>7, <1>8, <1>9, <1>10 DEF Kept

-----------------------------------------------------------------------------
(* The path.                                                               *)

LEMMA HandOver ==
  ASSUME SenderInv, Transit
  PROVE  /\ \E n \in InitialCtr..MaxU64 : DP!Submit(Scheduled(n))
         /\ DP!Next
<1>1. PICK i \in DOMAIN finished :
        LET c == finished[i] IN Recv!Submit(FrameFor(jobCtr[c], jobSign[c], jobKey[c]))
  BY DEF Transit
<1>2. PICK n \in InitialCtr..MaxU64 : Recv!Submit(Scheduled(n))
  BY <1>1, LeftAreScheduled
<1>3. Recv!Submit(Scheduled(n)) = DP!Submit(Scheduled(n))
  BY DEF Recv!Submit, DP!Submit, Recv!Calls, DP!Calls, Recv!shared, DP!shared,
     Recv!history, DP!history
<1> QED BY <1>2, <1>3, ScheduledFields DEF DP!Next

LEMMA ReceiverNext == SenderInv /\ [Next]_vars => [DP!Next]_DP!vars
<1> SUFFICES ASSUME SenderInv, [Next]_vars PROVE [DP!Next]_DP!vars
  OBVIOUS
<1>1. ASSUME UNCHANGED decVars PROVE UNCHANGED DP!vars
  BY <1>1 DEF decVars, DP!vars
<1>2. CASE Receive
  BY <1>2, ReceiverSteps DEF Receive, DP!Next, DP!Calls
<1> QED BY <1>1, <1>2, HandOver DEF Next, Broadcast, vars

LEMMA PathInit == Init => SenderInv /\ PathInv
<1> SUFFICES ASSUME Init PROVE SenderInv /\ PathInv
  OBVIOUS
<1>1. DP!Init /\ DP!QueueInv /\ keyStore[KeyId] = 1
  BY ReceiverInit, ReceiverAssumption, DP!QueueInit DEF Init
<1>2. /\ \A c \in Calls : decPc[c] = "idle" /\ decResult[c] = "none"
      /\ mode = "live" /\ delivered = <<>> /\ Newest = Recv!NoCtr
  BY <1>1 DEF DP!Init, DP!Calls, Calls, Newest, DP!NoCtr, Recv!NoCtr
<1>3. ReceiverInv
  BY <1>1, <1>2 DEF ReceiverInv, LiveWithKey, ArgsScheduled, Outcomes, AtWork, Window, LeaseLeft,
     Delivered, ActivePc
<1>4. LeaseSuffices /\ LosslessDelivers /\ StreamAdvances
  BY <1>2 DEF LeaseSuffices, LosslessDelivers, StreamAdvances, Delivered
<1> QED BY <1>3, <1>4, SenderInvInit DEF PathInv

LEMMA PathNext == SenderInv /\ PathInv /\ [Next]_vars => PathInv'
<1> SUFFICES ASSUME SenderInv, PathInv, [Next]_vars PROVE PathInv'
  OBVIOUS
<1>1. DP!QueueInv'
  BY ReceiverNext, ReceiverAssumption, DP!QueueNext DEF PathInv, ReceiverInv
<1>2. Kept'
  <2>1. CASE Transit
    BY <2>1, HandOver, SubmitKeeps
  <2>2. CASE Receive
    BY <2>2, ReceiverSteps, StartKeeps, VerifyKeeps, OpenKeeps DEF Receive, Calls
  <2>3. CASE UNCHANGED decVars
    BY <2>3 DEF decVars, PathInv, ReceiverInv, Kept, LiveWithKey, ArgsScheduled, Outcomes,
       AtWork, Window, LeaseLeft, LeaseSuffices, LosslessDelivers, Faithful, StreamAdvances,
       Delivered, Newest
  <2> QED BY <2>1, <2>2, <2>3 DEF Next, Broadcast, vars
<1> QED BY <1>1, <1>2 DEF PathInv, ReceiverInv, Kept

LEMMA PathInvariance == Spec => [](SenderInv /\ PathInv)
BY PathInit, SenderInvNext, PathNext, PTL DEF Spec

(* The two ends of the path are an Encrypter and a Decrypter: whatever is  *)
(* proved of those holds of a broadcaster and a receiver that a network    *)
(* joins.                                                                  *)
THEOREM EndsImplemented == Spec => SP!Spec /\ DP!Spec
<1>1. Init => SP!Init /\ DP!Init
  BY SenderInit, ReceiverInit
<1> QED BY <1>1, PathInvariance, SenderNext, ReceiverNext, PTL DEF Spec, SP!Spec, DP!Spec

(* An intact frame is refused for want of a lease only when the signed     *)
(* frame of its interval was not delivered before it, for every signing    *)
(* interval and whatever the path loses, repeats and reorders              *)
(* (encrypter.ts shouldSign, decrypter.ts decrypt).                        *)
THEOREM LeaseAlwaysSuffices == Spec => []LeaseSuffices
<1>1. PathInv => LeaseSuffices
  BY DEF PathInv
<1> QED BY <1>1, PathInvariance, PTL

(* A path that keeps order and loses nothing delivers everything.          *)
THEOREM LosslessPathDelivers == Spec => []LosslessDelivers
<1>1. PathInv => LosslessDelivers
  BY DEF PathInv
<1> QED BY <1>1, PathInvariance, PTL

-----------------------------------------------------------------------------
(* Where the delivered frames come from.                                   *)

\* Every frame handed over, and every frame delivered, was returned by a call.
Traced ==
  /\ \A d \in Calls : decPc[d] # "idle" => \E c \in Returned : arg[d] = FrameOf(c)
  /\ \A i \in 1..Len(delivered) : \E c \in Returned : delivered[i] = FrameOf(c)

\* A call that has returned its frame stays as it is.
LEMMA ReturnedStay ==
  ASSUME SenderInv, [Next]_vars, NEW c \in Returned
  PROVE  c \in Returned' /\ FrameOf(c)' = FrameOf(c)
<1>0. SP!Inv /\ SP!TypeOK /\ SP!CallsInOrder /\ [SP!Next]_SP!vars
  BY SenderNext DEF SenderInv, SP!Inv
<1>1. c \in SP!Calls /\ encResult[c] = "frame" /\ encPc[c] = "done"
  BY <1>0 DEF Returned, SP!CallsInOrder, SP!Calls
<1> SUFFICES /\ encResult'[c] = "frame" /\ jobCtr'[c] = jobCtr[c]
             /\ jobSign'[c] = jobSign[c] /\ jobKey'[c] = jobKey[c]
  BY DEF Returned, FrameOf, FrameFor
<1>2. ASSUME UNCHANGED <<encResult, jobCtr, jobSign, jobKey>>
      PROVE  /\ encResult'[c] = "frame" /\ jobCtr'[c] = jobCtr[c]
             /\ jobSign'[c] = jobSign[c] /\ jobKey'[c] = jobKey[c]
  BY <1>1, <1>2
<1>3. ASSUME NEW d \in SP!Calls, SP!RefuseExhausted(d) \/ SP!RefuseNoKey(d) \/ SP!Begin(d)
      PROVE  /\ encResult'[c] = "frame" /\ jobCtr'[c] = jobCtr[c]
             /\ jobSign'[c] = jobSign[c] /\ jobKey'[c] = jobKey[c]
  <2>1. d # c
    BY <1>1, <1>3 DEF SP!RefuseExhausted, SP!RefuseNoKey, SP!Begin, SP!Allot, SP!NextCall
  <2> QED BY <1>0, <1>1, <1>3, <2>1
      DEF SP!RefuseExhausted, SP!RefuseNoKey, SP!Begin, SP!Allot, SP!TypeOK, SP!jobs
<1>4. ASSUME NEW d \in SP!Calls, SP!FinishSeal(d) \/ SP!FinishSign(d)
      PROVE  /\ encResult'[c] = "frame" /\ jobCtr'[c] = jobCtr[c]
             /\ jobSign'[c] = jobSign[c] /\ jobKey'[c] = jobKey[c]
  BY <1>0, <1>1, <1>4 DEF SP!FinishSeal, SP!FinishSign, SP!Return, SP!TypeOK, SP!jobs
<1>5. CASE SP!SetKey
  BY <1>2, <1>5 DEF SP!SetKey, SP!jobs
<1>6. CASE UNCHANGED SP!vars
  BY <1>2, <1>6 DEF SP!vars
<1> QED BY <1>0, <1>3, <1>4, <1>2, <1>5, <1>6 DEF SP!Next

LEMMA TracedInit == Init => Traced
<1> SUFFICES ASSUME Init PROVE Traced
  OBVIOUS
<1>1. DP!Init
  BY ReceiverInit
<1> QED BY <1>1 DEF DP!Init, DP!Calls, Calls, Traced

LEMMA TracedNext == SenderInv /\ PathInv /\ Traced /\ [Next]_vars => Traced'
<1> SUFFICES ASSUME SenderInv, PathInv, Traced, [Next]_vars PROVE Traced'
  OBVIOUS
<1>0. /\ \A c \in Returned : c \in Returned' /\ FrameOf(c)' = FrameOf(c)
      /\ ReceiverInv /\ delivered \in Seq(PathFrames)
      /\ DOMAIN decPc = Calls /\ DOMAIN arg = Calls
  BY ReturnedStay
  DEF PathInv, ReceiverInv, DP!QueueInv, DP!TypeInv, DP!TypeOK, DP!Calls, Calls
\* It is enough that no frame appears from nowhere.
<1>1. ASSUME \A d \in Calls : decPc'[d] # "idle" =>
               \/ decPc[d] # "idle" /\ arg'[d] = arg[d]
               \/ \E c \in Returned : arg'[d] = FrameOf(c),
             \A i \in 1..Len(delivered') :
               \/ i \in 1..Len(delivered) /\ delivered'[i] = delivered[i]
               \/ \E d \in Calls : decPc[d] # "idle" /\ delivered'[i] = arg[d]
      PROVE  Traced'
  <2>1. ASSUME NEW d \in Calls, decPc'[d] # "idle"
        PROVE  \E c \in Returned' : arg'[d] = FrameOf(c)'
    <3>1. PICK c \in Returned : arg'[d] = FrameOf(c)
      BY <1>1, <2>1 DEF Traced
    <3> QED BY <1>0, <3>1
  <2>2. ASSUME NEW i \in 1..Len(delivered')
        PROVE  \E c \in Returned' : delivered'[i] = FrameOf(c)'
    <3>1. PICK c \in Returned : delivered'[i] = FrameOf(c)
      BY <1>1, <2>2 DEF Traced
    <3> QED BY <1>0, <3>1
  <2> QED BY <2>1, <2>2 DEF Traced
<1>2. CASE Transit
  <2>1. PICK i \in DOMAIN finished : Recv!Submit(FrameOf(finished[i]))
    BY <1>2 DEF Transit, FrameOf
  <2>2. finished[i] \in Returned
    BY FinishedAreCalls DEF SenderInv, SP!Inv, LeftFrames, Returned
  <2>3. PICK d \in Calls : /\ decPc' = [decPc EXCEPT ![d] = "queued"]
                           /\ arg' = [arg EXCEPT ![d] = FrameOf(finished[i])]
    BY <2>1 DEF Recv!Submit, Recv!Calls, Calls
  <2>4. delivered' = delivered
    BY <2>1 DEF Recv!Submit, Recv!history
  <2> QED BY <1>0, <1>1, <2>2, <2>3, <2>4
<1>3. ASSUME NEW d \in Calls, Rest(d), decPc[d] # "idle",
             delivered' = delivered \/ delivered' = Append(delivered, arg[d])
      PROVE  Traced'
  <2>1. \A b \in Calls : decPc'[b] # "idle" => decPc[b] # "idle" /\ arg'[b] = arg[b]
    BY <1>3 DEF Rest
  <2>2. \A i \in 1..Len(delivered') :
          \/ i \in 1..Len(delivered) /\ delivered'[i] = delivered[i]
          \/ delivered'[i] = arg[d]
    <3>1. CASE delivered' = delivered
      BY <3>1
    <3>2. CASE delivered' = Append(delivered, arg[d])
      <4>1. arg[d] \in PathFrames
        BY <1>0, <1>3, ArgFields
      <4> QED BY <1>0, <3>2, <4>1, AppendProperties, LenProperties
    <3> QED BY <1>3, <3>1, <3>2
  <2> QED BY <1>1, <1>3, <2>1, <2>2
<1>4. CASE Receive
  <2>1. PICK d \in Calls : DP!Start(d) \/ DP!FinishVerify(d) \/ DP!FinishOpen(d)
    BY <1>4, ReceiverSteps DEF Receive, Calls
  <2>2. /\ Rest(d) /\ decPc[d] # "idle"
        /\ delivered' = delivered \/ delivered' = Append(delivered, arg[d])
    BY <1>0, <2>1, StartEffects, VerifyEffects, OpenEffects DEF Accepts0
  <2> QED BY <1>3, <2>2
<1>5. CASE UNCHANGED decVars
  BY <1>1, <1>5 DEF decVars
<1> QED BY <1>2, <1>4, <1>5 DEF Next, Broadcast, vars

(* A live stream plays the broadcaster's encrypt() calls in the order they *)
(* were made, each at most once and nothing else: counters follow the      *)
(* order of the calls, however they finish (encrypter.ts takeCounter), and *)
(* the receiver's window only moves up, whatever arrives (decrypter.ts     *)
(* checkCounter).                                                          *)
THEOREM PlaysInOrderOfCalls == Spec => []InOrderOfCalls
<1>1. SenderInv /\ PathInv /\ Traced => InOrderOfCalls
  <2> SUFFICES ASSUME SenderInv, PathInv, Traced PROVE InOrderOfCalls
    OBVIOUS
  <2>1. DOMAIN delivered = 1..Len(delivered)
    BY LenProperties DEF PathInv, ReceiverInv, DP!QueueInv, DP!TypeInv, DP!TypeOK
  <2>2. ASSUME NEW i \in DOMAIN delivered, NEW j \in DOMAIN delivered, i < j,
               NEW b \in Returned, NEW c \in Returned,
               delivered[i] = FrameOf(b), delivered[j] = FrameOf(c)
        PROVE  b < c
    <3>1. jobCtr[b] < jobCtr[c]
      BY <2>2 DEF PathInv, StreamAdvances, FrameOf, FrameFor
    <3>2. /\ b \in SP!Calls /\ c \in SP!Calls /\ SP!Allotted(b) /\ SP!Allotted(c)
          /\ jobCtr[b] \in Int /\ jobCtr[c] \in Int /\ b \in Int /\ c \in Int
      BY MediaPathAssumption
      DEF Returned, SenderInv, SP!Inv, SP!CallsInOrder, SP!TypeOK, SP!Calls, SP!Allotted
    <3>3. c < b => jobCtr[c] < jobCtr[b]
      BY <3>2 DEF SenderInv, SP!Inv, SP!InOrder
    <3> QED BY <3>1, <3>2, <3>3
  <2> QED BY <2>1, <2>2 DEF InOrderOfCalls, Traced
<1>2. Spec => []Traced
  BY TracedInit, TracedNext, PathInvariance, PTL DEF Spec
<1> QED BY <1>1, <1>2, PathInvariance, PTL

=============================================================================
