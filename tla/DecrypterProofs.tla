-------------------------- MODULE DecrypterProofs ---------------------------
(***************************************************************************)
(* Decrypter's type correctness, the serialization of decrypt() calls and  *)
(* the absence of replays, for any set of frames, any number of calls and  *)
(* any interleaving of control calls.                                      *)
(***************************************************************************)
EXTENDS Decrypter, WellFoundedInduction, TLAPS

-----------------------------------------------------------------------------
(* Typing.                                                                 *)

ActivePc == {"verifying", "opening"}

\* Every submitted call has a frame, and passed the gate if it is active.
ArgOK == \A c \in Calls : pc[c] # "idle" => arg[c] \in FrameSet
GateOK ==
  \A c \in Calls : pc[c] \in ActivePc =>
    arg[c].parses /\ (Leased(arg[c]) => localLease[c] > 0)

TypeInv == TypeOK /\ ArgOK /\ GateOK

LEMMA FrameFields ==
  ASSUME NEW f \in FrameSet
  PROVE  /\ f \in Frame
         /\ f.ctr \in Nat /\ f.keyId \in KeyIds /\ f.nSigned \in Nat
         /\ f.parses /\ Signed(f) => f.nSigned > 0
BY FramesAssumption DEF Frame, Signed

LEMMA TypeInit == Init => TypeInv
BY DecrypterAssumption
   DEF Init, TypeInv, TypeOK, ArgOK, GateOK, ActivePc, Counters, Calls, NoCtr

LEMMA TypeFetchKey ==
  ASSUME TypeInv, NEW c \in Calls, FetchKey(c), pc[c] # "idle"
  PROVE  /\ pc' \in [Calls -> {"idle", "queued", "verifying", "opening", "released"}]
         /\ pc'[c] \in {"opening", "released"}
         /\ \A d \in Calls : d # c => pc'[d] = pc[d]
         /\ usedKey' \in [Calls -> Keys \cup {NoKey}]
         /\ result' \in [Calls -> {"none", "delivered"} \cup Failures]
<1>1. arg[c].keyId \in KeyIds
  BY FrameFields DEF TypeInv, ArgOK
<1>2. CASE MissingKey(arg[c])
  BY <1>2 DEF TypeInv, TypeOK, FetchKey, Settle, Failures
<1>3. CASE ~MissingKey(arg[c])
  BY <1>1, <1>3 DEF TypeInv, TypeOK, FetchKey
<1> QED BY <1>2, <1>3

LEMMA TypeStart == ASSUME TypeInv, NEW c \in Calls, Start(c) PROVE TypeInv'
<1> USE DEF TypeInv, ActivePc
<1>1. arg[c] \in FrameSet /\ pc[c] = "queued"
  BY DEF Start, ArgOK
<1>2. Scope \in 0..MaxRewinds
  BY DecrypterAssumption DEF TypeOK, Scope
<1>3. /\ pc' \in [Calls -> {"idle", "queued", "verifying", "opening", "released"}]
      /\ pc'[c] # "idle"
      /\ \A d \in Calls : d # c => pc'[d] = pc[d]
      /\ usedKey' \in [Calls -> Keys \cup {NoKey}]
      /\ result' \in [Calls -> {"none", "delivered"} \cup Failures]
      /\ pc'[c] \in ActivePc =>
           arg[c].parses /\ (Leased(arg[c]) => leaseRemaining > 0)
  <2>1. CASE arg[c].parses /\ ~Replayed(arg[c]) /\ ~Signed(arg[c]) /\ FetchKey(c)
             /\ (Leased(arg[c]) => leaseRemaining > 0)
    BY <1>1, <2>1, TypeFetchKey
  <2>2. CASE arg[c].parses /\ ~Replayed(arg[c]) /\ Signed(arg[c])
             /\ pc' = [pc EXCEPT ![c] = "verifying"]
             /\ UNCHANGED <<usedKey, result>>
    BY <2>2 DEF TypeOK, Leased
  <2>3. CASE \E r \in Failures : Settle(c, r) /\ UNCHANGED usedKey
    BY <2>3 DEF TypeOK, Settle
  <2> QED BY <2>1, <2>2, <2>3 DEF Start, Failures
<1>4. TypeOK'
  BY <1>2, <1>3 DEF TypeOK, Start, shared, Counters
<1>5. ArgOK'
  BY <1>1, <1>3 DEF ArgOK, Start
<1>6. GateOK'
  BY <1>3 DEF GateOK, Start, TypeOK, Leased
<1> QED BY <1>4, <1>5, <1>6

LEMMA TypeFinishVerify ==
  ASSUME TypeInv, NEW c \in Calls, FinishVerify(c) PROVE TypeInv'
<1> USE DEF TypeInv, ActivePc
<1>1. pc[c] = "verifying"
  BY DEF FinishVerify
<1>2. /\ pc' \in [Calls -> {"idle", "queued", "verifying", "opening", "released"}]
      /\ pc'[c] \in {"opening", "released"}
      /\ \A d \in Calls : d # c => pc'[d] = pc[d]
      /\ usedKey' \in [Calls -> Keys \cup {NoKey}]
      /\ result' \in [Calls -> {"none", "delivered"} \cup Failures]
  <2>1. CASE FetchKey(c)
    BY <1>1, <2>1, TypeFetchKey
  <2>2. CASE Settle(c, "invalidSignature") /\ UNCHANGED usedKey
    BY <2>2 DEF TypeOK, Settle, Failures
  <2> QED BY <2>1, <2>2 DEF FinishVerify
<1>3. TypeOK'
  BY <1>2 DEF TypeOK, FinishVerify, shared, history, Counters
<1>4. ArgOK' /\ GateOK'
  BY <1>1, <1>2 DEF ArgOK, GateOK, FinishVerify
<1> QED BY <1>3, <1>4

LEMMA TypeFinishOpen ==
  ASSUME TypeInv, NEW c \in Calls, FinishOpen(c) PROVE TypeInv'
<1> USE DEF TypeInv, ActivePc
<1>1. arg[c] \in FrameSet /\ arg[c].parses /\ pc[c] = "opening"
  BY DEF FinishOpen, ArgOK, GateOK
<1>2. /\ pc' = [pc EXCEPT ![c] = "released"]
      /\ UNCHANGED <<mode, keyStore, decryptTail, arg, previousTurn, localLease,
                     usedKey, rewinds, checkScope, settledAtReset>>
      /\ result' \in [Calls -> {"none", "delivered"} \cup Failures]
  BY DEF FinishOpen, Commit, Settle, locals, TypeOK, Failures
<1>3. ArgOK' /\ GateOK'
  <2>1. ArgOK'
    BY <1>1, <1>2 DEF ArgOK, TypeOK
  <2>2. \A d \in Calls : pc'[d] \in ActivePc => pc[d] \in ActivePc
    BY <1>2 DEF TypeOK
  <2>3. GateOK'
    BY <1>2, <2>2 DEF GateOK
  <2> QED BY <2>1, <2>3
<1>4. CASE Commit(c)
  <2>1. leaseRemaining' \in Nat
    <3>1. leaseRemaining' = LeaseAfter(arg[c], localLease[c]) /\ localLease[c] \in Nat
      BY <1>4 DEF Commit, TypeOK
    <3>2. CASE Signed(arg[c])
      BY <1>1, <3>1, <3>2, FrameFields DEF LeaseAfter
    <3>3. CASE ~Signed(arg[c]) /\ Leased(arg[c])
      BY <1>1, <3>1, <3>3 DEF LeaseAfter, GateOK
    <3>4. CASE ~Signed(arg[c]) /\ ~Leased(arg[c])
      BY <3>1, <3>4 DEF LeaseAfter
    <3> QED BY <3>2, <3>3, <3>4
  <2>2. liveMax' \in Counters /\ playback' \in Counters
    <3>1. \E k \in KeyIds, x \in Nat, y \in Nat :
            /\ liveMax' = liveMax \/ liveMax' = [liveMax EXCEPT ![k] = IF y > @ THEN y ELSE @]
            /\ playback' = playback \/ playback' = [playback EXCEPT ![k] = x]
      BY <1>1, <1>4, FrameFields DEF Commit, RecordCounter
    <3>2. liveMax \in Counters /\ playback \in Counters
      BY DEF TypeOK
    <3> QED BY <3>1, <3>2 DEF Counters
  <2>3. commitScope' \in [Calls -> 0..MaxRewinds]
    BY <1>4, DecrypterAssumption DEF Commit, Scope, TypeOK
  <2>4. delivered' \in Seq(FrameSet)
    BY <1>1, <1>4 DEF Commit, TypeOK
  <2>5. TypeOK'
    BY <1>2, <2>1, <2>2, <2>3, <2>4 DEF TypeOK
  <2> QED BY <1>3, <2>5
<1>5. CASE UNCHANGED <<leaseRemaining, liveMax, playback, delivered, commitScope>>
  <2>1. TypeOK'
    BY <1>2, <1>5 DEF TypeOK
  <2> QED BY <1>3, <2>1
<1> QED BY <1>4, <1>5 DEF FinishOpen

LEMMA TypeNext == TypeInv /\ [Next]_vars => TypeInv'
<1> SUFFICES ASSUME TypeInv, [Next]_vars PROVE TypeInv'
  OBVIOUS
<1> USE DEF TypeInv
<1>1. ASSUME NEW f \in FrameSet, Submit(f) PROVE TypeInv'
  BY <1>1 DEF Submit, TypeOK, ArgOK, GateOK, ActivePc, shared, history, Calls, Counters
<1>2. ASSUME NEW c \in Calls, Start(c) PROVE TypeInv'
  BY <1>2, TypeStart
<1>3. ASSUME NEW c \in Calls, FinishVerify(c) PROVE TypeInv'
  BY <1>3, TypeFinishVerify
<1>4. ASSUME NEW c \in Calls, FinishOpen(c) PROVE TypeInv'
  BY <1>4, TypeFinishOpen
<1>5. CASE BeginLive
  BY <1>5 DEF BeginLive, TypeOK, ArgOK, GateOK, locals, history, Counters
<1>6. CASE BeginRewind
  BY <1>6, DecrypterAssumption
  DEF BeginRewind, TypeOK, ArgOK, GateOK, locals, Counters, NoCtr
<1>7. CASE ResetLease
  BY <1>7 DEF ResetLease, TypeOK, ArgOK, GateOK, locals, Counters, Settled
<1>8. ASSUME NEW k \in KeyIds, NEW key \in Keys, SetKey(k, key) PROVE TypeInv'
  BY <1>8 DEF SetKey, TypeOK, ArgOK, GateOK, locals, history, Counters
<1>9. CASE UNCHANGED vars
  BY <1>9 DEF vars, TypeOK, ArgOK, GateOK, Counters
<1> QED
  BY <1>1, <1>2, <1>3, <1>4, <1>5, <1>6, <1>7, <1>8, <1>9 DEF Next

(* #leaseRemaining never goes below zero, and the other variables keep     *)
(* their types, whatever frames arrive and however calls interleave.       *)
THEOREM TypeCorrect == Spec => []TypeOK
<1>1. TypeInv => TypeOK
  BY DEF TypeInv
<1> QED BY <1>1, TypeInit, TypeNext, PTL DEF Spec

-----------------------------------------------------------------------------
(* The promise chain.  Calls are submitted in order, each chains the turn  *)
(* of the call before it, and the tail is the last call submitted; so that *)
(* a call has its turn only when all earlier calls are settled.            *)

PastQueue == {"verifying", "opening", "released"}

ChainOK ==
  /\ \A c \in Calls : pc[c] # "idle" <=> c <= decryptTail
  /\ \A c \in Calls : pc[c] # "idle" => previousTurn[c] = c - 1

QueueInv == TypeInv /\ ChainOK /\ Serialized

LEMMA QueueInit == Init => QueueInv
<1>1. Init => ChainOK /\ Serialized
  BY DEF Init, ChainOK, Serialized, Calls
<1> QED BY <1>1, TypeInit DEF QueueInv

\* A call whose turn it is has only settled calls before it.
LEMMA TurnMeansFirst ==
  ASSUME QueueInv, NEW c \in Calls, pc[c] # "idle", HasTurn(c),
         NEW d \in Calls, d < c
  PROVE  pc[d] = "released"
<1>1. previousTurn[c] = c - 1 /\ c - 1 \in Calls /\ c - 1 # 0
  BY DecrypterAssumption DEF QueueInv, ChainOK, Calls
<1>2. pc[c - 1] = "released"
  BY <1>1 DEF HasTurn
<1>3. d = c - 1 \/ d < c - 1
  BY DEF Calls
<1> QED BY <1>1, <1>2, <1>3 DEF QueueInv, Serialized

LEMMA QueueNext == QueueInv /\ [Next]_vars => QueueInv'
<1> SUFFICES ASSUME QueueInv, [Next]_vars PROVE QueueInv'
  OBVIOUS
<1>1. TypeInv'
  BY TypeNext DEF QueueInv
<1>2. ASSUME NEW f \in FrameSet, Submit(f) PROVE ChainOK' /\ Serialized'
  <2>1. PICK c \in Calls : /\ pc[c] = "idle"
                           /\ \A d \in Calls : d < c => pc[d] # "idle"
                           /\ pc' = [pc EXCEPT ![c] = "queued"]
                           /\ previousTurn' = [previousTurn EXCEPT ![c] = decryptTail]
                           /\ decryptTail' = c
    BY <1>2 DEF Submit
  <2>2. decryptTail = c - 1
    <3>1. decryptTail \in Int /\ 0 <= decryptTail /\ decryptTail < c
      BY <2>1, DecrypterAssumption DEF QueueInv, TypeInv, TypeOK, ChainOK, Calls
    <3>2. CASE c = 1
      BY <3>1, <3>2
    <3>3. CASE c # 1
      BY <2>1, <3>1, <3>3, DecrypterAssumption DEF QueueInv, ChainOK, Calls
    <3> QED BY <3>2, <3>3
  <2>3. ChainOK'
    <3>1. \A d \in Calls : pc'[d] # "idle" <=> d <= c
      <4> SUFFICES ASSUME NEW d \in Calls PROVE pc'[d] # "idle" <=> d <= c
        OBVIOUS
      <4>1. d \in Int /\ c \in Int
        BY DecrypterAssumption DEF Calls
      <4>2. pc[d] # "idle" <=> d <= c - 1
        BY <2>2 DEF QueueInv, ChainOK
      <4>3. pc'[d] = IF d = c THEN "queued" ELSE pc[d]
        BY <2>1 DEF QueueInv, TypeInv, TypeOK
      <4> QED BY <4>1, <4>2, <4>3
    <3>2. \A d \in Calls : pc'[d] # "idle" => previousTurn'[d] = d - 1
      BY <2>1, <2>2 DEF QueueInv, TypeInv, TypeOK, ChainOK
    <3> QED BY <2>1, <3>1, <3>2 DEF ChainOK
  <2>4. Serialized'
    BY <2>1 DEF QueueInv, TypeInv, TypeOK, Serialized
  <2> QED BY <2>3, <2>4
<1>3. ASSUME NEW c \in Calls, pc[c] \notin {"idle", "released"},
             HasTurn(c) \/ pc[c] \in ActivePc,
             pc'[c] \in PastQueue,
             \A d \in Calls : d # c => pc'[d] = pc[d],
             UNCHANGED <<decryptTail, previousTurn>>
      PROVE  ChainOK' /\ Serialized'
  <2>1. ChainOK'
    BY <1>3 DEF QueueInv, ChainOK, PastQueue
  <2>2. \A d \in Calls : d < c => pc[d] = "released"
    BY <1>3, TurnMeansFirst DEF QueueInv, Serialized, ActivePc
  <2>3. ASSUME NEW a \in Calls, NEW b \in Calls, a < b, pc'[b] \in PastQueue
        PROVE  pc'[a] = "released"
    <3>1. a # b
      BY <2>3 DEF Calls
    <3>2. CASE b = c
      BY <1>3, <2>2, <2>3, <3>1, <3>2
    <3>3. CASE b # c
      BY <1>3, <2>3, <3>3 DEF QueueInv, Serialized, PastQueue
    <3> QED BY <3>2, <3>3
  <2> QED BY <2>1, <2>3 DEF Serialized, PastQueue
<1>4. ASSUME NEW c \in Calls, Start(c) PROVE ChainOK' /\ Serialized'
  <2>1. /\ pc[c] = "queued" /\ HasTurn(c)
        /\ UNCHANGED <<decryptTail, previousTurn>>
        /\ pc'[c] \in PastQueue
        /\ \A d \in Calls : d # c => pc'[d] = pc[d]
    BY <1>4 DEF Start, FetchKey, Settle, QueueInv, TypeInv, TypeOK, PastQueue
  <2> QED BY <1>3, <2>1
<1>5. ASSUME NEW c \in Calls, FinishVerify(c) PROVE ChainOK' /\ Serialized'
  <2>1. /\ pc[c] = "verifying"
        /\ UNCHANGED <<decryptTail, previousTurn>>
        /\ pc'[c] \in PastQueue
        /\ \A d \in Calls : d # c => pc'[d] = pc[d]
    BY <1>5 DEF FinishVerify, FetchKey, Settle, QueueInv, TypeInv, TypeOK, PastQueue
  <2> QED BY <1>3, <2>1 DEF ActivePc
<1>6. ASSUME NEW c \in Calls, FinishOpen(c) PROVE ChainOK' /\ Serialized'
  <2>1. /\ pc[c] = "opening"
        /\ UNCHANGED <<decryptTail, previousTurn>>
        /\ pc'[c] \in PastQueue
        /\ \A d \in Calls : d # c => pc'[d] = pc[d]
    BY <1>6 DEF FinishOpen, Commit, Settle, locals, QueueInv, TypeInv, TypeOK, PastQueue
  <2> QED BY <1>3, <2>1 DEF ActivePc
<1>7. ASSUME UNCHANGED <<pc, decryptTail, previousTurn>>
      PROVE  ChainOK' /\ Serialized'
  BY <1>7 DEF QueueInv, ChainOK, Serialized
<1>8. BeginLive \/ BeginRewind \/ ResetLease \/ UNCHANGED vars
        \/ (\E k \in KeyIds, key \in Keys : SetKey(k, key))
      => UNCHANGED <<pc, decryptTail, previousTurn>>
  BY DEF BeginLive, BeginRewind, ResetLease, SetKey, vars, locals
<1> QED
  BY <1>1, <1>2, <1>4, <1>5, <1>6, <1>7, <1>8 DEF Next, QueueInv

(* decrypt() calls take their turns in submission order and one at a time, *)
(* for any number of calls in flight.                                      *)
THEOREM CallsSerialized == Spec => []Serialized
<1>1. QueueInv => Serialized
  BY DEF QueueInv
<1> QED BY <1>1, QueueInit, QueueNext, PTL DEF Spec

-----------------------------------------------------------------------------
(* Liveness of the promise chain.  The fairness of FairSpec is stated with *)
(* the condition under which a call can go on in place of ENABLED.         *)

CanProceed(c) == c \in Pending /\ HasTurn(c)
ProceedFair(c) == []<>~CanProceed(c) \/ []<><<Progress(c)>>_vars

Heads(c) == \A d \in Calls : d < c => pc[d] = "released"
HeadAt(c, s) == pc[c] = s /\ Heads(c)

(* Calls that wait wait for one that can go on: the least of them.         *)
THEOREM SomeCallProceeds == Spec => [](Pending # {} => \E c \in Calls : CanProceed(c))
<1>1. ASSUME QueueInv, Pending # {} PROVE \E c \in Calls : CanProceed(c)
  <2> DEFINE Waiting == {c \in Calls : pc[c] # "idle" /\ pc[c] # "released"}
  <2>1. Pending = Waiting
    <3>1. pc \in [Calls -> {"idle", "queued", "verifying", "opening", "released"}]
      BY <1>1 DEF QueueInv, TypeInv, TypeOK
    <3> QED BY <3>1 DEF Pending
  <2>2. PICK c \in Waiting : \A d \in Waiting : ~(d < c)
    <3> DEFINE R == OpToRel(<, Nat)
    <3>1. Waiting \subseteq Nat /\ Waiting # {}
      BY <1>1, <2>1, DecrypterAssumption DEF Calls
    <3>2. \E c \in Waiting : \A d \in Waiting : <<d, c>> \notin R
      <4> HIDE DEF Waiting
      <4> QED BY <3>1, NatLessThanWellFounded, WFMin
    <3> QED BY <3>1, <3>2 DEF OpToRel
  <2>3. HasTurn(c)
    <3> SUFFICES ASSUME previousTurn[c] # 0 PROVE pc[previousTurn[c]] = "released"
      BY DEF HasTurn
    <3>1. previousTurn[c] = c - 1 /\ c - 1 \in Calls
      BY <1>1, <2>2, DecrypterAssumption DEF QueueInv, ChainOK, Calls
    <3>2. pc[c - 1] # "idle"
      <4>1. \A d \in Calls : pc[d] # "idle" <=> d <= decryptTail
        BY <1>1 DEF QueueInv, ChainOK
      <4>2. decryptTail \in Int /\ c \in Int /\ c <= decryptTail
        BY <1>1, <2>2, <4>1, DecrypterAssumption DEF QueueInv, TypeInv, TypeOK, Calls
      <4> QED BY <3>1, <4>1, <4>2
    <3> QED BY <2>2, <3>1, <3>2 DEF Calls
  <2> QED BY <2>1, <2>3 DEF CanProceed
<1> QED BY <1>1, QueueInit, QueueNext, PTL DEF Spec

\* What a step of the head itself, and a step of anyone, does to it.
LEMMA HeadProgress ==
  ASSUME QueueInv, NEW c \in Calls, Progress(c)
  PROVE  /\ \A d \in Calls : d # c => pc'[d] = pc[d]
         /\ pc[c] = "queued" => pc'[c] \in PastQueue
         /\ pc[c] = "verifying" => pc'[c] \in {"opening", "released"}
         /\ pc[c] = "opening" => pc'[c] = "released"
         /\ pc[c] \in {"queued", "verifying", "opening"}
<1> USE DEF QueueInv, TypeInv, TypeOK
<1>1. CASE Start(c)
  BY <1>1 DEF Start, FetchKey, Settle, PastQueue
<1>2. CASE FinishVerify(c)
  BY <1>2 DEF FinishVerify, FetchKey, Settle
<1>3. CASE FinishOpen(c)
  BY <1>3 DEF FinishOpen, Commit, Settle, locals
<1> QED BY <1>1, <1>2, <1>3 DEF Progress

LEMMA HeadStep ==
  ASSUME QueueInv, NEW c \in Calls, pc[c] \in {"queued", "verifying", "opening"},
         Heads(c), [Next]_vars
  PROVE  Heads(c)' /\ (pc'[c] = pc[c] \/ Progress(c))
<1> USE DEF QueueInv, TypeInv, TypeOK
<1>1. ASSUME NEW f \in FrameSet, Submit(f) PROVE Heads(c)' /\ pc'[c] = pc[c]
  BY <1>1 DEF Submit, Heads
<1>2. ASSUME NEW d \in Calls, Progress(d) PROVE Heads(c)' /\ (pc'[c] = pc[c] \/ Progress(c))
  BY <1>2, HeadProgress DEF Heads, Calls
<1>3. BeginLive \/ BeginRewind \/ ResetLease \/ UNCHANGED vars
        \/ (\E k \in KeyIds, key \in Keys : SetKey(k, key))
      => UNCHANGED pc
  BY DEF BeginLive, BeginRewind, ResetLease, SetKey, vars
<1> QED BY <1>1, <1>2, <1>3 DEF Next, Progress, Heads

(* The call at the head of the queue settles, delivered or failed, if the  *)
(* crypto libraries answer it, whatever is submitted or changed meanwhile: *)
(* then the next one is at the head.                                       *)
THEOREM HeadSettles ==
  ASSUME NEW c \in Calls
  PROVE  Spec /\ ProceedFair(c) =>
           ((c \in Pending /\ Heads(c)) ~> pc[c] = "released")
<1> DEFINE Queued == HeadAt(c, "queued")
           Verifying == HeadAt(c, "verifying")
           Opening == HeadAt(c, "opening")
           Released == pc[c] = "released"
<1> USE DEF HeadAt
<1>1. QueueInv /\ (Queued \/ Verifying \/ Opening) => CanProceed(c)
  <2> SUFFICES ASSUME QueueInv, Queued \/ Verifying \/ Opening PROVE CanProceed(c)
    OBVIOUS
  <2>1. c \in Pending /\ previousTurn[c] = c - 1
    BY DEF Pending, QueueInv, ChainOK
  <2>2. HasTurn(c)
    BY <2>1, DecrypterAssumption DEF HasTurn, Heads, Calls
  <2> QED BY <2>1, <2>2 DEF CanProceed
<1>2. QueueInv /\ [Next]_vars /\ Queued =>
        (Queued' /\ ~Progress(c)) \/ Verifying' \/ Opening' \/ Released'
  BY HeadProgress, HeadStep DEF PastQueue
<1>3. QueueInv /\ [Next]_vars /\ Verifying =>
        (Verifying' /\ ~Progress(c)) \/ Opening' \/ Released'
  BY HeadProgress, HeadStep
<1>4. QueueInv /\ [Next]_vars /\ Opening => (Opening' /\ ~Progress(c)) \/ Released'
  BY HeadProgress, HeadStep
<1>5. c \in Pending /\ Heads(c) => Queued \/ Verifying \/ Opening
  BY DEF Pending
<1>6. <<Progress(c)>>_vars => Progress(c)
  OBVIOUS
<1> HIDE DEF Queued, Verifying, Opening, Released
<1>7. Spec => []QueueInv
  BY QueueInit, QueueNext, PTL DEF Spec
<1>8. Spec /\ ProceedFair(c) => (Opening ~> Released)
  BY <1>1, <1>4, <1>6, <1>7, PTL DEF Spec, ProceedFair
<1>9. Spec /\ ProceedFair(c) => (Verifying ~> Released)
  BY <1>1, <1>3, <1>6, <1>7, <1>8, PTL DEF Spec, ProceedFair
<1>10. Spec /\ ProceedFair(c) => (Queued ~> Released)
  BY <1>1, <1>2, <1>6, <1>7, <1>8, <1>9, PTL DEF Spec, ProceedFair
<1>11. Spec /\ ProceedFair(c) => ((c \in Pending /\ Heads(c)) ~> Released)
  BY <1>5, <1>8, <1>9, <1>10, PTL
<1> QED BY <1>11 DEF Released

-----------------------------------------------------------------------------
(* Replays.  The counters dominate what was delivered in the current       *)
(* scopes, so a call that passes checkCounter is above everything          *)
(* delivered in its scope before it, and stays so because it alone runs.   *)

ScopeOK ==
  /\ mode = "rewind" => rewinds > 0
  /\ \A c \in Calls : commitScope[c] <= rewinds
  /\ \A c \in Calls : Delivered(c) => pc[c] = "released"

Dominates ==
  \A c \in Calls : Delivered(c) =>
    /\ commitScope[c] = 0 => arg[c].ctr <= liveMax[arg[c].keyId]
    /\ commitScope[c] = rewinds /\ rewinds > 0 =>
         arg[c].ctr <= playback[arg[c].keyId]

Admitted ==
  \A c, d \in Calls :
    /\ Delivered(c) /\ pc[d] \in ActivePc
    /\ SameKey(c, d) /\ commitScope[c] = checkScope[d]
    => arg[c].ctr < arg[d].ctr

\* A call in flight across beginRewind is the first to commit in that rewind.
FirstInRewind ==
  \A d \in Calls :
    pc[d] \in ActivePc /\ mode = "rewind" /\ checkScope[d] # rewinds =>
      \A c \in Calls : Delivered(c) => commitScope[c] # rewinds

ReplayInv == QueueInv /\ ScopeOK /\ Dominates /\ Admitted /\ FirstInRewind /\ NoReplay

LEMMA ReplayInit == Init => ReplayInv
<1>1. Init => ScopeOK /\ Dominates /\ Admitted /\ FirstInRewind /\ NoReplay
  BY DEF Init, ScopeOK, Dominates, Admitted, FirstInRewind, NoReplay, Delivered, Calls
<1> QED BY <1>1, QueueInit DEF ReplayInv

\* A step that delivers nothing, changes no counter and starts no call.
LEMMA ReplayQuiet ==
  ASSUME ReplayInv,
         UNCHANGED <<mode, liveMax, playback, rewinds, commitScope>>,
         \A c \in Calls : Delivered(c)' => Delivered(c) /\ arg'[c] = arg[c],
         \A c \in Calls : Delivered(c)' => pc'[c] = "released",
         \A c \in Calls : pc'[c] \in ActivePc =>
           pc[c] \in ActivePc /\ arg'[c] = arg[c] /\ checkScope'[c] = checkScope[c],
         \A c \in Calls : Delivered(c)' => checkScope'[c] = checkScope[c]
  PROVE  (ScopeOK /\ Dominates /\ Admitted /\ FirstInRewind /\ NoReplay)'
<1>1. ScopeOK'
  BY DEF ReplayInv, ScopeOK
<1>2. Dominates'
  BY DEF ReplayInv, Dominates
<1>3. Admitted'
  BY DEF ReplayInv, Admitted, SameKey
<1>4. FirstInRewind'
  BY DEF ReplayInv, FirstInRewind
<1>5. NoReplay'
  BY DEF ReplayInv, NoReplay, SameKey
<1> QED BY <1>1, <1>2, <1>3, <1>4, <1>5

\* The frame of a call that passed checkCounter is above what was delivered.
LEMMA CheckAdmits ==
  ASSUME ReplayInv, NEW c \in Calls, NEW d \in Calls, Delivered(c),
         arg[d] \in FrameSet, SameKey(c, d), commitScope[c] = Scope,
         ~Replayed(arg[d])
  PROVE  arg[c].ctr < arg[d].ctr
<1>1. arg[c] \in FrameSet /\ arg[c].ctr \in Nat /\ arg[d].ctr \in Nat
  <2>1. arg[c] \in FrameSet /\ arg[d] \in FrameSet
    BY DEF ReplayInv, QueueInv, TypeInv, ArgOK, ScopeOK
  <2> QED BY <2>1, FrameFields
<1>2. arg[d].keyId \in KeyIds
  BY FrameFields
<1>3. liveMax[arg[d].keyId] \in Int /\ playback[arg[d].keyId] \in Int
  BY <1>2 DEF ReplayInv, QueueInv, TypeInv, TypeOK, Counters, NoCtr
<1>4. CASE mode = "live"
  BY <1>1, <1>3, <1>4 DEF ReplayInv, Dominates, Replayed, Scope, SameKey
<1>5. CASE mode # "live"
  <2>1. mode = "rewind" /\ rewinds > 0
    BY <1>5 DEF ReplayInv, QueueInv, TypeInv, TypeOK, ScopeOK
  <2> QED BY <1>1, <1>3, <2>1 DEF ReplayInv, Dominates, Replayed, Scope, SameKey
<1> QED BY <1>4, <1>5

LEMMA ReplayStart ==
  ASSUME ReplayInv, NEW c \in Calls, Start(c)
  PROVE  (ScopeOK /\ Dominates /\ Admitted /\ FirstInRewind /\ NoReplay)'
<1> USE DEF ReplayInv, QueueInv, TypeInv
<1>1. /\ pc[c] = "queued" /\ arg[c] \in FrameSet
      /\ UNCHANGED <<mode, liveMax, playback, arg, rewinds, commitScope>>
      /\ checkScope' = [checkScope EXCEPT ![c] = Scope]
      /\ \A d \in Calls : d # c => pc'[d] = pc[d]
      /\ pc'[c] \in ActivePc => ~Replayed(arg[c])
      /\ \A d \in Calls : Delivered(d)' <=> Delivered(d)
      /\ pc'[c] \in ActivePc \cup {"released"}
  BY SMTT(20) DEF Start, FetchKey, Settle, shared, TypeOK, ArgOK, ActivePc, Delivered, ScopeOK
<1>2. ~Delivered(c) /\ ~Delivered(c)'
  BY <1>1 DEF ScopeOK
<1>3. ScopeOK' /\ Dominates'
  <2>1. ScopeOK'
    BY <1>1, <1>2 DEF ScopeOK
  <2>2. Dominates'
    BY <1>1 DEF Dominates
  <2> QED BY <2>1, <2>2
<1>4. \A d \in Calls : d # c => checkScope'[d] = checkScope[d]
  BY <1>1 DEF TypeOK
<1>5. checkScope'[c] = Scope
  BY <1>1 DEF TypeOK
<1>6. Admitted'
  <2> SUFFICES ASSUME NEW a \in Calls, NEW d \in Calls,
                      Delivered(a)', pc'[d] \in ActivePc, SameKey(a, d)',
                      commitScope'[a] = checkScope'[d]
               PROVE  (arg[a].ctr < arg[d].ctr)'
    BY DEF Admitted
  <2>1. Delivered(a) /\ SameKey(a, d) /\ commitScope[a] = checkScope'[d]
    BY <1>1 DEF SameKey
  <2>2. CASE d = c
    BY <1>1, <1>5, <2>1, <2>2, CheckAdmits
  <2>3. CASE d # c
    BY <1>1, <1>4, <2>1, <2>3 DEF Admitted
  <2> QED BY <2>2, <2>3
<1>7. FirstInRewind'
  BY <1>1, <1>4, <1>5 DEF FirstInRewind, Scope
<1>8. NoReplay'
  BY <1>1, <1>2, <1>4 DEF NoReplay, SameKey
<1> QED BY <1>3, <1>6, <1>7, <1>8

(***************************************************************************)
(* An update that raises one entry to v, and never lowers it, leaves every *)
(* entry at or above what it was (MoqSecureDecrypter.decryptFrame keeps    *)
(* liveMax this way).                                                      *)
(***************************************************************************)
LEMMA RaisedEntry ==
  ASSUME NEW K, NEW F, F \in [K -> Int], NEW k \in K, NEW v \in Nat,
         NEW G, G = [F EXCEPT ![k] = IF v > @ THEN v ELSE @]
  PROVE  \A j \in K : F[j] <= G[j] /\ G[j] \in Int
<1> TAKE j \in K
<1>1. G[j] = IF j = k THEN (IF v > F[j] THEN v ELSE F[j]) ELSE F[j]
  OBVIOUS
<1>2. F[j] \in Int
  OBVIOUS
<1> QED BY <1>1, <1>2

LEMMA ReplayCommit ==
  ASSUME ReplayInv, NEW c \in Calls, FinishOpen(c), Commit(c)
  PROVE  (ScopeOK /\ Dominates /\ Admitted /\ FirstInRewind /\ NoReplay)'
<1> USE DEF ReplayInv, QueueInv, TypeInv
<1> DEFINE f == arg[c]
<1>1. /\ pc[c] = "opening" /\ f \in FrameSet /\ f.ctr \in Nat /\ f.keyId \in KeyIds
      /\ UNCHANGED <<mode, arg, rewinds, checkScope>>
      /\ pc' = [pc EXCEPT ![c] = "released"]
      /\ result' = [result EXCEPT ![c] = "delivered"]
      /\ commitScope' = [commitScope EXCEPT ![c] = Scope]
      /\ RecordCounter(f)
  BY FrameFields DEF FinishOpen, Commit, Settle, locals, ArgOK
<1>2. ~Delivered(c) /\ Delivered(c)'
  BY <1>1 DEF ScopeOK, Delivered, TypeOK
<1>3. \A d \in Calls : d # c =>
        /\ Delivered(d)' <=> Delivered(d)
        /\ pc'[d] = pc[d] /\ commitScope'[d] = commitScope[d]
  BY <1>1 DEF Delivered, TypeOK
<1>4. pc'[c] = "released" /\ commitScope'[c] = Scope
  BY <1>1 DEF TypeOK
<1>5. \A d \in Calls : d # c => pc'[d] \notin ActivePc
  BY <1>1, <1>3 DEF Serialized, ActivePc, Calls
<1>6. \A d \in Calls : Delivered(d) => d < c
  BY <1>1, <1>2 DEF ScopeOK, Serialized, Calls
<1>7. Scope \in Nat /\ rewinds \in Nat /\ Scope <= rewinds
  BY DecrypterAssumption DEF Scope, TypeOK
<1>8. ScopeOK'
  BY <1>1, <1>3, <1>4, <1>7 DEF ScopeOK
<1>9. \A d \in Calls : Delivered(d) =>
        arg[d].ctr \in Nat /\ arg[d].keyId \in KeyIds /\ commitScope[d] \in Nat
  <2> TAKE d \in Calls
  <2> SUFFICES ASSUME Delivered(d)
               PROVE  arg[d].ctr \in Nat /\ arg[d].keyId \in KeyIds /\ commitScope[d] \in Nat
    OBVIOUS
  <2>1. arg[d] \in FrameSet
    BY DEF ScopeOK, ArgOK
  <2>2. commitScope[d] \in Nat
    BY DecrypterAssumption DEF TypeOK
  <2> QED BY <2>1, <2>2, FrameFields
<1>10. \A k \in KeyIds : liveMax[k] \in Int /\ playback[k] \in Int
  BY DEF TypeOK, Counters, NoCtr
<1>11. Dominates'
  <2> SUFFICES ASSUME NEW d \in Calls, Delivered(d)'
               PROVE  /\ commitScope'[d] = 0 => arg[d].ctr <= liveMax'[arg[d].keyId]
                      /\ commitScope'[d] = rewinds /\ rewinds > 0 =>
                           arg[d].ctr <= playback'[arg[d].keyId]
    BY <1>1 DEF Dominates
  <2>1. CASE mode = "live"
    <3>1. /\ liveMax' = [liveMax EXCEPT ![f.keyId] = IF f.ctr > @ THEN f.ctr ELSE @]
          /\ playback' = playback /\ Scope = 0
      BY <1>1, <2>1 DEF RecordCounter, Scope
    <3>2. CASE d = c
      <4>1. /\ commitScope'[d] = 0 /\ arg[d] = f
            /\ f.keyId \in KeyIds /\ f.ctr \in Nat /\ liveMax \in Counters
        BY <1>1, <1>4, <3>1, <3>2 DEF TypeOK
      <4>2. liveMax'[f.keyId] = IF f.ctr > liveMax[f.keyId] THEN f.ctr ELSE liveMax[f.keyId]
        BY <3>1, <4>1 DEF Counters
      <4>3. liveMax[f.keyId] \in Int
        BY <1>10, <4>1
      <4> QED BY <4>1, <4>2, <4>3
    <3>3. CASE d # c
      <4>1. Delivered(d) /\ commitScope'[d] = commitScope[d] /\ arg[d].keyId \in KeyIds
            /\ arg[d].ctr \in Nat
        BY <1>3, <1>9, <3>3
      <4>2. liveMax[arg[d].keyId] <= liveMax'[arg[d].keyId]
            /\ liveMax'[arg[d].keyId] \in Int
        <5>1. liveMax \in [KeyIds -> Int] /\ f.keyId \in KeyIds /\ f.ctr \in Nat
          BY <1>1, <1>10 DEF TypeOK, Counters
        <5> HIDE DEF ReplayInv, QueueInv, TypeInv, f
        <5>2. \A j \in KeyIds : liveMax[j] <= liveMax'[j] /\ liveMax'[j] \in Int
          BY ONLY <3>1, <5>1, RaisedEntry
        <5> QED BY <4>1, <5>2
      <4>3. commitScope[d] = 0 => arg[d].ctr <= liveMax[arg[d].keyId]
        BY <4>1 DEF Dominates
      <4>4. commitScope[d] = rewinds /\ rewinds > 0 =>
              arg[d].ctr <= playback[arg[d].keyId]
        BY <4>1 DEF Dominates
      <4> QED BY <1>10, <3>1, <4>1, <4>2, <4>3, <4>4
    <3> QED BY <3>2, <3>3
  <2>2. CASE mode # "live"
    <3>1. /\ playback' = [playback EXCEPT ![f.keyId] = f.ctr]
          /\ liveMax' = liveMax /\ Scope = rewinds /\ mode = "rewind" /\ rewinds > 0
      BY <1>1, <2>2 DEF RecordCounter, Scope, TypeOK, ScopeOK
    <3>2. CASE d = c
      BY <1>1, <1>4, <1>7, <3>1, <3>2 DEF TypeOK, Counters
    <3>3. CASE d # c
      <4>1. Delivered(d) /\ commitScope'[d] = commitScope[d] /\ arg[d].keyId \in KeyIds
            /\ arg[d].ctr \in Nat
        BY <1>3, <1>9, <3>3
      <4>2. ASSUME commitScope[d] = rewinds
            PROVE  arg[d].ctr <= playback'[arg[d].keyId]
        <5>1. CASE arg[d].keyId = f.keyId
          <6>1. checkScope[c] = rewinds
            BY <1>1, <3>1, <4>1, <4>2 DEF FirstInRewind, ActivePc
          <6>2. arg[d].ctr < f.ctr
            BY <1>1, <4>1, <4>2, <5>1, <6>1 DEF Admitted, ActivePc, SameKey
          <6>3. playback \in Counters /\ f.ctr \in Nat
            BY <1>1 DEF TypeOK
          <6> HIDE DEF ReplayInv, QueueInv, TypeInv, f
          <6>4. playback'[arg[d].keyId] = f.ctr
            BY <3>1, <4>1, <5>1, <6>3 DEF Counters
          <6> QED BY <4>1, <6>2, <6>3, <6>4
        <5>2. CASE arg[d].keyId # f.keyId
          <6>1. arg[d].ctr <= playback[arg[d].keyId]
            BY <3>1, <4>1, <4>2 DEF Dominates
          <6>2. playback \in Counters
            BY DEF TypeOK
          <6> HIDE DEF ReplayInv, QueueInv, TypeInv, f
          <6>3. playback'[arg[d].keyId] = playback[arg[d].keyId]
            BY <3>1, <4>1, <5>2, <6>2 DEF Counters
          <6> QED BY <6>1, <6>3
        <5> QED BY <5>1, <5>2
      <4>3. commitScope[d] = 0 => arg[d].ctr <= liveMax[arg[d].keyId]
        BY <4>1 DEF Dominates
      <4> QED BY <3>1, <4>1, <4>2, <4>3
    <3> QED BY <3>2, <3>3
  <2> QED BY <2>1, <2>2
<1>12. Admitted' /\ FirstInRewind'
  BY <1>4, <1>5 DEF Admitted, FirstInRewind, ActivePc
<1>13. NoReplay'
  <2> SUFFICES ASSUME NEW a \in Calls, NEW d \in Calls, a < d,
                      Delivered(a)', Delivered(d)', SameKey(a, d)',
                      commitScope'[a] = checkScope'[d]
               PROVE  (arg[a].ctr < arg[d].ctr)'
    BY DEF NoReplay
  <2>1. a # c
    BY <1>3, <1>6 DEF Calls
  <2>2. Delivered(a) /\ commitScope[a] = checkScope[d] /\ SameKey(a, d)
    BY <1>1, <1>3, <2>1 DEF SameKey
  <2>3. CASE d = c
    BY <1>1, <2>2, <2>3 DEF Admitted, ActivePc
  <2>4. CASE d # c
    BY <1>1, <1>3, <2>2, <2>4 DEF NoReplay
  <2> QED BY <2>3, <2>4
<1> QED BY <1>8, <1>11, <1>12, <1>13

LEMMA ReplayBeginLive ==
  ASSUME ReplayInv, BeginLive
  PROVE  (ScopeOK /\ Dominates /\ Admitted /\ FirstInRewind /\ NoReplay)'
BY DEF BeginLive, locals, history, ReplayInv, ScopeOK, Dominates, Admitted,
       FirstInRewind, NoReplay, Delivered, SameKey

LEMMA ReplayBeginRewind ==
  ASSUME ReplayInv, BeginRewind
  PROVE  (ScopeOK /\ Dominates /\ Admitted /\ FirstInRewind /\ NoReplay)'
<1>1. /\ UNCHANGED <<liveMax, pc, arg, result, checkScope, commitScope>>
      /\ rewinds' = rewinds + 1 /\ rewinds \in Nat
  BY DecrypterAssumption
  DEF BeginRewind, locals, ReplayInv, QueueInv, TypeInv, TypeOK
<1>2. \A c \in Calls : commitScope[c] \in Nat /\ commitScope[c] <= rewinds
  BY DecrypterAssumption DEF ReplayInv, QueueInv, TypeInv, TypeOK, ScopeOK
<1>3. ScopeOK'
  BY <1>1, <1>2 DEF ReplayInv, ScopeOK, Delivered
<1>4. Dominates' /\ FirstInRewind'
  BY <1>1, <1>2 DEF ReplayInv, Dominates, FirstInRewind, Delivered
<1>5. Admitted' /\ NoReplay'
  BY <1>1 DEF ReplayInv, Admitted, NoReplay, Delivered, SameKey
<1> QED BY <1>3, <1>4, <1>5

LEMMA ReplayNext == ReplayInv /\ [Next]_vars => ReplayInv'
<1> SUFFICES ASSUME ReplayInv, [Next]_vars PROVE ReplayInv'
  OBVIOUS
<1> DEFINE Part == ScopeOK /\ Dominates /\ Admitted /\ FirstInRewind /\ NoReplay
<1>1. QueueInv'
  BY QueueNext DEF ReplayInv
<1>2. ASSUME NEW f \in FrameSet, Submit(f) PROVE Part'
  <2>1. PICK c \in Calls : /\ pc[c] = "idle" /\ pc' = [pc EXCEPT ![c] = "queued"]
                           /\ arg' = [arg EXCEPT ![c] = f]
                           /\ UNCHANGED <<mode, liveMax, playback, rewinds, result,
                                          checkScope, commitScope>>
    BY <1>2 DEF Submit, shared, history
  <2>2. \A d \in Calls : Delivered(d) => pc[d] = "released" /\ d # c
    BY <2>1 DEF ReplayInv, ScopeOK
  <2>3. \A d \in Calls : d # c => arg'[d] = arg[d] /\ pc'[d] = pc[d]
    BY <2>1 DEF ReplayInv, QueueInv, TypeInv, TypeOK
  <2>4. pc'[c] = "queued"
    BY <2>1 DEF ReplayInv, QueueInv, TypeInv, TypeOK
  <2>5. \A d \in Calls : Delivered(d)' <=> Delivered(d)
    BY <2>1 DEF Delivered
  <2> QED BY <2>1, <2>2, <2>3, <2>4, <2>5, ReplayQuiet DEF ActivePc
<1>3. ASSUME NEW c \in Calls, Start(c) PROVE Part'
  BY <1>3, ReplayStart
<1>4. ASSUME NEW c \in Calls, pc[c] \in ActivePc, pc'[c] \in {"opening", "released"},
             \A d \in Calls : d # c => pc'[d] = pc[d],
             \A d \in Calls : Delivered(d)' => Delivered(d),
             UNCHANGED <<mode, liveMax, playback, rewinds, arg, checkScope, commitScope>>
      PROVE  Part'
  <2>1. ~Delivered(c)
    BY <1>4 DEF ReplayInv, ScopeOK, ActivePc
  <2>2. \A d \in Calls : Delivered(d)' => pc'[d] = "released"
    BY <1>4, <2>1 DEF ReplayInv, ScopeOK
  <2>3. \A d \in Calls : pc'[d] \in ActivePc => pc[d] \in ActivePc
    BY <1>4
  <2> QED BY <1>4, <2>2, <2>3, ReplayQuiet
<1>5. ASSUME NEW c \in Calls, FinishVerify(c) PROVE Part'
  <2>1. /\ pc[c] \in ActivePc /\ pc'[c] \in {"opening", "released"}
        /\ \A d \in Calls : d # c => pc'[d] = pc[d]
        /\ \A d \in Calls : Delivered(d)' => Delivered(d)
        /\ UNCHANGED <<mode, liveMax, playback, rewinds, arg, checkScope, commitScope>>
    BY <1>5 DEF FinishVerify, FetchKey, Settle, shared, history, ActivePc, Delivered,
                ReplayInv, QueueInv, TypeInv, TypeOK
  <2> QED BY <1>4, <2>1
<1>6. ASSUME NEW c \in Calls, FinishOpen(c) PROVE Part'
  <2>1. CASE Commit(c)
    BY <1>6, <2>1, ReplayCommit
  <2>2. CASE ~Commit(c)
    <3>1. /\ pc[c] \in ActivePc /\ pc'[c] \in {"opening", "released"}
          /\ \A d \in Calls : d # c => pc'[d] = pc[d]
          /\ \A d \in Calls : Delivered(d)' => Delivered(d)
          /\ UNCHANGED <<mode, liveMax, playback, rewinds, arg, checkScope, commitScope>>
      BY <1>6, <2>2 DEF FinishOpen, Settle, locals, ActivePc, Delivered,
                        ReplayInv, QueueInv, TypeInv, TypeOK
    <3> QED BY <1>4, <3>1
  <2> QED BY <2>1, <2>2
<1>7. ASSUME BeginLive PROVE Part'
  BY <1>7, ReplayBeginLive
<1>8. ASSUME BeginRewind PROVE Part'
  BY <1>8, ReplayBeginRewind
<1>9. ASSUME \/ ResetLease \/ UNCHANGED vars
             \/ \E k \in KeyIds, key \in Keys : SetKey(k, key)
      PROVE  Part'
  <2>1. UNCHANGED <<mode, liveMax, playback, rewinds, pc, arg, result, checkScope,
                    commitScope>>
    BY <1>9 DEF ResetLease, SetKey, vars, locals, history
  <2>2. \A d \in Calls : Delivered(d)' => Delivered(d) /\ pc'[d] = "released"
    BY <2>1 DEF Delivered, ReplayInv, ScopeOK
  <2> QED BY <2>1, <2>2, ReplayQuiet
<1> QED
  BY <1>1, <1>2, <1>3, <1>5, <1>6, <1>7, <1>8, <1>9 DEF Next, ReplayInv

(* Within live playback and within each rewind the counters delivered      *)
(* under a key id strictly increase, for any number of calls in flight and *)
(* any control calls between their steps.                                  *)
THEOREM NoReplays == Spec => []NoReplay
<1>1. ReplayInv => NoReplay
  BY DEF ReplayInv
<1> QED BY <1>1, ReplayInit, ReplayNext, PTL DEF Spec

=============================================================================
