-------------------------- MODULE EncrypterProofs ---------------------------
(***************************************************************************)
(* Encrypter's invariants for any number of calls, any signing interval    *)
(* and any counter range.  They rest on one relation: every counter        *)
(* allotted is below #ctr, allotted in the order of the calls, and         *)
(* #frameCount counts the same allotments as #ctr.                         *)
(***************************************************************************)
EXTENDS Encrypter, TLAPS

-----------------------------------------------------------------------------

CountsAgree == frameCount = ctr - InitialCtr

\* Counters follow the order of the calls, and #ctr is above them all.
InOrder ==
  /\ \A c \in Calls : Allotted(c) => jobCtr[c] < ctr
  /\ \A c, d \in Calls : Allotted(c) /\ Allotted(d) /\ c < d => jobCtr[c] < jobCtr[d]

\* Calls are made in order, and a call that was not made has no outcome.
CallsInOrder ==
  /\ \A c, d \in Calls : c < d /\ pc[c] = "idle" => pc[d] = "idle"
  /\ \A c \in Calls : pc[c] = "idle" => result[c] = "none"
  /\ \A c \in Calls : result[c] = "frame" => pc[c] = "done"
  /\ \A c \in Calls : pc[c] \in {"sealing", "signing"} => result[c] = "none"

\* Keys are loaded one after the other, and each call took the one of its time.
KeysInOrder ==
  /\ \A c \in Calls : Sealed(c) => jobKey[c] <= key
  /\ \A c, d \in Calls : Sealed(c) /\ Sealed(d) /\ c < d => jobKey[c] <= jobKey[d]

Inv == TypeOK /\ CountsAgree /\ InOrder /\ CallsInOrder /\ KeysInOrder /\ ScheduleByCounter

LEMMA InvInit == Init => Inv
<1> SUFFICES ASSUME Init PROVE Inv
  OBVIOUS
<1>1. TypeOK
  BY EncrypterAssumption DEF Init, TypeOK
<1>2. CountsAgree
  BY EncrypterAssumption DEF Init, CountsAgree
<1>3. InOrder /\ ScheduleByCounter
  BY DEF Init, InOrder, ScheduleByCounter, Allotted
<1>4. CallsInOrder /\ KeysInOrder
  BY DEF Init, CallsInOrder, KeysInOrder, Sealed
<1> QED BY <1>1, <1>2, <1>3, <1>4 DEF Inv

\* What a step must show of calls that already have their allotment.
LEMMA InvKept ==
  ASSUME Inv, TypeOK',
         UNCHANGED <<ctr, frameCount, jobCtr, jobSign, jobKey>>, key <= key',
         \A c \in Calls : Allotted(c)' <=> Allotted(c),
         \A c \in Calls : Sealed(c)' => Sealed(c),
         CallsInOrder'
  PROVE  Inv'
<1>1. InOrder' /\ ScheduleByCounter' /\ CountsAgree'
  BY DEF Inv, InOrder, ScheduleByCounter, CountsAgree
<1>2. KeysInOrder'
  <2>1. key \in Int /\ key' \in Int /\ \A c \in Calls : jobKey[c] \in Int
    BY EncrypterAssumption DEF Inv, TypeOK
  <2> QED BY <2>1 DEF Inv, KeysInOrder
<1> QED BY <1>1, <1>2 DEF Inv

\* The two actions that allot a counter.
LEMMA InvAllot ==
  ASSUME Inv, NEW c \in Calls, RefuseNoKey(c) \/ Begin(c)
  PROVE  Inv'
<1> USE DEF Inv
<1>1. /\ NextCall(c) /\ ctr # MaxU64 /\ key' = key
      /\ jobCtr' = [jobCtr EXCEPT ![c] = ctr]
      /\ jobSign' = [jobSign EXCEPT ![c] = ShouldSign]
      /\ ctr' = ctr + 1 /\ frameCount' = frameCount + 1
      /\ finished' = finished
  BY DEF RefuseNoKey, Begin, Allot
<1>2. /\ ctr \in Int /\ InitialCtr <= ctr /\ ctr < MaxU64 /\ frameCount \in Nat
      /\ InitialCtr \in Nat /\ MaxU64 \in Nat /\ NSigned \in Nat
  BY <1>1, EncrypterAssumption DEF TypeOK
<1>3. /\ pc'[c] \in {"sealing", "signing", "done"}
      /\ pc'[c] \in {"sealing", "signing"} => result'[c] = "none"
      /\ pc'[c] = "done" => result'[c] = "invalidKeyId"
      /\ \A d \in Calls : d # c => pc'[d] = pc[d] /\ result'[d] = result[d]
      /\ Encrypted /\ pc'[c] \in {"sealing", "signing"} => jobKey'[c] = key
      /\ \A d \in Calls : d # c => jobKey'[d] = jobKey[d]
      /\ pc' \in [Calls -> {"idle", "sealing", "signing", "done"}]
      /\ result' \in [Calls -> {"none", "frame", "counterExhausted", "invalidKeyId"}]
      /\ jobKey' \in [Calls -> 0..MaxKey]
  <2>1. CASE RefuseNoKey(c)
    BY <2>1 DEF RefuseNoKey, NextCall, TypeOK
  <2>2. CASE Begin(c)
    BY <1>1, <2>2, EncrypterAssumption DEF Begin, NextCall, TypeOK, CallsInOrder
  <2> QED BY <2>1, <2>2
<1>4. TypeOK'
  <2>1. jobSign' \in [Calls -> BOOLEAN]
    BY <1>1 DEF TypeOK, ShouldSign
  <2>2. jobCtr' \in [Calls -> InitialCtr..MaxU64] /\ ctr' \in InitialCtr..MaxU64
    BY <1>1, <1>2 DEF TypeOK
  <2> QED BY <1>1, <1>2, <1>3, <2>1, <2>2 DEF TypeOK
<1>5. CountsAgree'
  BY <1>1, <1>2 DEF CountsAgree
<1>6. \A d \in Calls : Allotted(d)' => d = c \/ Allotted(d)
  BY <1>3 DEF Allotted
<1>7. \A d \in Calls : d # c => jobCtr'[d] = jobCtr[d] /\ jobSign'[d] = jobSign[d]
  BY <1>1 DEF TypeOK
<1>8. jobCtr'[c] = ctr /\ jobSign'[c] = ShouldSign
  BY <1>1 DEF TypeOK
<1>9. \A d \in Calls : jobCtr[d] \in Int
  BY <1>2 DEF TypeOK
<1>10. \A d \in Calls : d > c => pc'[d] = "idle"
  BY <1>1, <1>3 DEF NextCall, CallsInOrder, Calls
<1>11. InOrder'
  <2>1. \A d \in Calls : Allotted(d)' => jobCtr'[d] < ctr'
    BY <1>1, <1>2, <1>6, <1>7, <1>8, <1>9 DEF InOrder
  <2>2. ASSUME NEW a \in Calls, NEW d \in Calls, Allotted(a)', Allotted(d)', a < d
        PROVE  jobCtr'[a] < jobCtr'[d]
    <3>1. a # c
      BY <1>10, <2>2 DEF Allotted
    <3>2. CASE d = c
      BY <1>6, <1>7, <1>8, <2>2, <3>1, <3>2 DEF InOrder
    <3>3. CASE d # c
      BY <1>6, <1>7, <2>2, <3>1, <3>3 DEF InOrder
    <3> QED BY <3>2, <3>3
  <2> QED BY <2>1, <2>2 DEF InOrder
<1>12. CallsInOrder'
  <2>1. \A a, d \in Calls : a < d /\ pc'[a] = "idle" => pc'[d] = "idle"
    <3> SUFFICES ASSUME NEW a \in Calls, NEW d \in Calls, a < d, pc'[a] = "idle"
                 PROVE  pc'[d] = "idle"
      OBVIOUS
    <3>1. a # c /\ pc[a] = "idle"
      BY <1>3
    <3>2. pc[d] = "idle"
      BY <3>1 DEF CallsInOrder
    <3>3. d # c
      BY <1>1, <3>1 DEF NextCall
    <3> QED BY <1>3, <3>2, <3>3
  <2> QED BY <1>3, <2>1 DEF CallsInOrder
<1>13. KeysInOrder'
  <2>1. \A d \in Calls : Sealed(d)' => \/ d = c /\ jobKey'[c] = key
                                       \/ d # c /\ Sealed(d) /\ jobKey'[d] = jobKey[d]
    BY <1>3 DEF Sealed
  <2>2. key \in Int /\ \A d \in Calls : jobKey[d] \in Int
    BY EncrypterAssumption DEF TypeOK
  <2>3. \A d \in Calls : Sealed(d)' => d <= c
    BY <1>10, <1>12 DEF Sealed, CallsInOrder, Calls
  <2> QED BY <1>1, <2>1, <2>2, <2>3 DEF KeysInOrder, Calls
<1>14. ScheduleByCounter'
  <2>1. ShouldSign <=> NSigned # 0 /\ (ctr - InitialCtr) % NSigned = 0
    BY DEF ShouldSign, CountsAgree
  <2> QED BY <1>6, <1>7, <1>8, <2>1 DEF ScheduleByCounter
<1> QED BY <1>4, <1>5, <1>11, <1>12, <1>13, <1>14

LEMMA InvNext == Inv /\ [Next]_vars => Inv'
<1> SUFFICES ASSUME Inv, [Next]_vars PROVE Inv'
  OBVIOUS
<1> USE DEF Inv
<1>1. ASSUME NEW c \in Calls, RefuseExhausted(c) PROVE Inv'
  <2>1. TypeOK' /\ CallsInOrder'
    BY <1>1 DEF RefuseExhausted, NextCall, TypeOK, CallsInOrder, jobs
  <2>2. UNCHANGED <<ctr, frameCount, key, jobCtr, jobSign, jobKey>>
    BY <1>1 DEF RefuseExhausted, jobs
  <2>3. \A d \in Calls : (Allotted(d)' <=> Allotted(d)) /\ (Sealed(d)' => Sealed(d))
    BY <1>1 DEF RefuseExhausted, NextCall, TypeOK, Allotted, Sealed
  <2>4. key <= key'
    BY <2>2, EncrypterAssumption DEF TypeOK
  <2> QED BY <2>1, <2>2, <2>3, <2>4, InvKept
<1>2. ASSUME NEW c \in Calls, RefuseNoKey(c) \/ Begin(c) PROVE Inv'
  BY <1>2, InvAllot
<1>3. ASSUME NEW c \in Calls, FinishSeal(c) \/ FinishSign(c) PROVE Inv'
  <2>1. /\ pc[c] \in {"sealing", "signing"} /\ result[c] = "none"
        /\ UNCHANGED <<ctr, frameCount, key, jobCtr, jobSign, jobKey>>
        /\ \/ pc' = [pc EXCEPT ![c] = "signing"] /\ UNCHANGED <<result, finished>>
           \/ Return(c)
    BY <1>3 DEF FinishSeal, FinishSign, jobs, CallsInOrder
  <2>2. TypeOK' /\ CallsInOrder'
    <3>1. CASE pc' = [pc EXCEPT ![c] = "signing"] /\ UNCHANGED <<result, finished>>
      BY <2>1, <3>1 DEF TypeOK, CallsInOrder
    <3>2. CASE Return(c)
      <4>1. TypeOK'
        BY <2>1, <3>2 DEF Return, TypeOK
      <4>2. CallsInOrder'
        BY <2>1, <3>2 DEF Return, CallsInOrder, TypeOK
      <4> QED BY <4>1, <4>2
    <3> QED BY <2>1, <3>1, <3>2
  <2>3. \A d \in Calls : (Allotted(d)' <=> Allotted(d)) /\ (Sealed(d)' => Sealed(d))
    BY <2>1 DEF Return, TypeOK, Allotted, Sealed
  <2>4. key <= key'
    BY <2>1, EncrypterAssumption DEF TypeOK
  <2> QED BY <2>1, <2>2, <2>3, <2>4, InvKept
<1>4. CASE SetKey
  <2>1. TypeOK' /\ CallsInOrder' /\ key <= key'
    BY <1>4, EncrypterAssumption DEF SetKey, TypeOK, CallsInOrder, jobs
  <2>2. UNCHANGED <<ctr, frameCount, jobCtr, jobSign, jobKey, pc, result>>
    BY <1>4 DEF SetKey, jobs
  <2>3. \A d \in Calls : (Allotted(d)' <=> Allotted(d)) /\ (Sealed(d)' => Sealed(d))
    BY <2>2 DEF Allotted, Sealed
  <2> QED BY <2>1, <2>2, <2>3, InvKept
<1>5. CASE UNCHANGED vars
  BY <1>5 DEF vars, TypeOK, CountsAgree, InOrder, CallsInOrder, KeysInOrder,
              ScheduleByCounter, Allotted, Sealed
<1> QED BY <1>1, <1>2, <1>3, <1>4, <1>5 DEF Next

LEMMA Invariance == Spec => []Inv
BY InvInit, InvNext, PTL DEF Spec

(* Counters never leave initialCtr..MAX_U64 and never wrap.                *)
THEOREM TypeCorrect == Spec => []TypeOK
<1>1. Inv => TypeOK
  BY DEF Inv
<1> QED BY <1>1, Invariance, PTL

(* takeCounter never allots one counter twice, for any number of           *)
(* concurrent calls.                                                       *)
THEOREM NoncesUnique == Spec => []NonceUnique
<1>1. Inv => NonceUnique
  <2> SUFFICES ASSUME Inv, NEW c \in Calls, NEW d \in Calls,
                      Allotted(c), Allotted(d), c # d
               PROVE  jobCtr[c] # jobCtr[d]
    BY DEF NonceUnique
  <2>1. c < d \/ d < c
    BY DEF Calls
  <2>2. jobCtr[c] \in Int /\ jobCtr[d] \in Int
    BY EncrypterAssumption DEF Inv, TypeOK
  <2> QED BY <2>1, <2>2 DEF Inv, InOrder
<1> QED BY <1>1, Invariance, PTL

(* The signing schedule follows the counters, whatever calls fail or       *)
(* overtake each other.                                                    *)
THEOREM ScheduleKept == Spec => []ScheduleByCounter
<1>1. Inv => ScheduleByCounter
  BY DEF Inv
<1> QED BY <1>1, Invariance, PTL

(* A key change cuts the stream of frames at one counter.                  *)
THEOREM KeysCut == Spec => []KeyCut
<1>1. Inv => KeyCut
  <2> SUFFICES ASSUME Inv, NEW c \in Calls, NEW d \in Calls,
                      Sealed(c), Sealed(d), jobCtr[c] < jobCtr[d]
               PROVE  jobKey[c] <= jobKey[d]
    BY DEF KeyCut
  <2>1. Allotted(c) /\ Allotted(d)
    BY DEF Sealed, Allotted, Inv, CallsInOrder
  <2>2. jobCtr[c] \in Int /\ jobCtr[d] \in Int
    BY EncrypterAssumption DEF Inv, TypeOK
  <2>3. c < d
    BY <2>1, <2>2 DEF Inv, InOrder, Calls
  <2> QED BY <2>3 DEF Inv, KeysInOrder
<1> QED BY <1>1, Invariance, PTL

=============================================================================
