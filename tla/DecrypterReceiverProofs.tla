----------------------- MODULE DecrypterReceiverProofs -----------------------
(***************************************************************************)
(* What a delivery leaves behind in the decrypter: the counters are        *)
(* exactly the highest delivered, the lease is never overspent and comes   *)
(* from a signature, and with control calls on an empty queue the whole    *)
(* queue of calls is the atomic receiver of Receiver.                      *)
(***************************************************************************)
EXTENDS DecrypterProofs, FiniteSetTheorems

-----------------------------------------------------------------------------
(* Only a commit delivers.  Every other step keeps the delivered calls,    *)
(* their frames and the scopes they committed in.                          *)

Commits(c) == FinishOpen(c) /\ Commit(c)

SameDeliveries ==
  \A c \in Calls :
    /\ Delivered(c)' <=> Delivered(c)
    /\ Delivered(c) => arg'[c] = arg[c] /\ commitScope'[c] = commitScope[c]

LEMMA CommitEffects ==
  ASSUME ReplayInv, NEW c \in Calls, Commits(c)
  PROVE  /\ pc[c] = "opening" /\ arg[c] \in FrameSet
         /\ UNCHANGED <<mode, keyStore, arg, rewinds, localLease, settledAtReset>>
         /\ ~Delivered(c) /\ Delivered(c)'
         /\ commitScope'[c] = Scope
         /\ \A d \in Calls : d # c =>
              /\ Delivered(d)' <=> Delivered(d)
              /\ pc'[d] = pc[d] /\ commitScope'[d] = commitScope[d]
         /\ \A d \in Calls : pc'[d] \notin ActivePc
         /\ \A d \in Calls : Delivered(d) => d < c
<1> USE DEF ReplayInv, QueueInv, TypeInv
<1>1. /\ pc[c] = "opening" /\ arg[c] \in FrameSet
      /\ UNCHANGED <<mode, keyStore, arg, rewinds, localLease, settledAtReset>>
      /\ pc' = [pc EXCEPT ![c] = "released"]
      /\ result' = [result EXCEPT ![c] = "delivered"]
      /\ commitScope' = [commitScope EXCEPT ![c] = Scope]
  BY DEF Commits, FinishOpen, Commit, Settle, locals, ArgOK
<1>2. ~Delivered(c) /\ Delivered(c)' /\ commitScope'[c] = Scope
      /\ pc'[c] = "released"
  BY <1>1 DEF ScopeOK, Delivered, TypeOK
<1>3. \A d \in Calls : d # c =>
        /\ Delivered(d)' <=> Delivered(d)
        /\ pc'[d] = pc[d] /\ commitScope'[d] = commitScope[d]
  BY <1>1 DEF Delivered, TypeOK
<1>4. \A d \in Calls : pc'[d] \notin ActivePc
  <2> SUFFICES ASSUME NEW d \in Calls, d # c PROVE pc'[d] \notin ActivePc
    BY <1>2 DEF ActivePc
  <2>1. d < c \/ c < d
    BY DEF Calls
  <2> QED BY <1>1, <1>3, <2>1 DEF Serialized, ActivePc
<1>5. \A d \in Calls : Delivered(d) => d < c
  BY <1>1, <1>2 DEF ScopeOK, Serialized, Calls
<1> QED BY <1>1, <1>2, <1>3, <1>4, <1>5

LEMMA OthersKeepDeliveries ==
  ASSUME ReplayInv, [Next]_vars, \A c \in Calls : ~Commits(c)
  PROVE  SameDeliveries
<1> USE DEF ReplayInv, QueueInv, TypeInv
<1>1. ASSUME NEW f \in FrameSet, Submit(f) PROVE SameDeliveries
  BY <1>1 DEF Submit, shared, history, SameDeliveries, Delivered, ScopeOK, TypeOK
<1>2. ASSUME NEW c \in Calls, pc[c] # "released",
             UNCHANGED <<arg, commitScope>>,
             \/ UNCHANGED result
             \/ \E r \in Failures : result' = [result EXCEPT ![c] = r]
      PROVE  SameDeliveries
  BY <1>2 DEF SameDeliveries, Delivered, ScopeOK, TypeOK, Failures
<1>3. ASSUME NEW c \in Calls, Start(c) PROVE SameDeliveries
  <2>1. pc[c] # "released" /\ UNCHANGED <<arg, commitScope>>
    BY <1>3 DEF Start
  <2>2. \/ UNCHANGED result
        \/ \E r \in Failures : result' = [result EXCEPT ![c] = r]
    BY <1>3 DEF Start, FetchKey, Settle, Failures
  <2> QED BY <1>2, <2>1, <2>2
<1>4. ASSUME NEW c \in Calls, FinishVerify(c) PROVE SameDeliveries
  <2>1. pc[c] # "released" /\ UNCHANGED <<arg, commitScope>>
    BY <1>4 DEF FinishVerify, history
  <2>2. \/ UNCHANGED result
        \/ \E r \in Failures : result' = [result EXCEPT ![c] = r]
    BY <1>4 DEF FinishVerify, FetchKey, Settle, Failures
  <2> QED BY <1>2, <2>1, <2>2
<1>5. ASSUME NEW c \in Calls, FinishOpen(c) PROVE SameDeliveries
  <2>1. pc[c] # "released" /\ UNCHANGED arg
    BY <1>5 DEF FinishOpen, locals
  <2>2. /\ UNCHANGED commitScope
        /\ \E r \in Failures : result' = [result EXCEPT ![c] = r]
    BY <1>5 DEF FinishOpen, Commits, Settle, Failures
  <2> QED BY <1>2, <2>1, <2>2
<1>6. ASSUME \/ BeginLive \/ BeginRewind \/ ResetLease \/ UNCHANGED vars
             \/ \E k \in KeyIds, key \in Keys : SetKey(k, key)
      PROVE  SameDeliveries
  BY <1>6 DEF BeginLive, BeginRewind, ResetLease, SetKey, vars, locals, history,
              SameDeliveries, Delivered
<1> QED BY <1>1, <1>3, <1>4, <1>5, <1>6 DEF Next

\* Other steps only clear the lease, and calls only copy it.
LEMMA OthersKeepLease ==
  ASSUME ReplayInv, [Next]_vars, \A c \in Calls : ~Commits(c)
  PROVE  /\ leaseRemaining' \in {0, leaseRemaining}
         /\ \A c \in Calls : pc'[c] \in ActivePc =>
              \/ pc[c] \in ActivePc /\ localLease'[c] = localLease[c]
              \/ localLease'[c] = leaseRemaining
         /\ Settled \subseteq Settled'
         /\ ~ResetLease => UNCHANGED settledAtReset
<1>1. leaseRemaining' \in {0, leaseRemaining}
  BY DEF Next, Submit, Start, FinishVerify, FinishOpen, Commits, BeginLive,
       BeginRewind, ResetLease, SetKey, vars, shared
<1>2. ASSUME NEW c \in Calls, pc'[c] \in ActivePc
      PROVE  \/ pc[c] \in ActivePc /\ localLease'[c] = localLease[c]
             \/ localLease'[c] = leaseRemaining
  <2>1. CASE \E f \in FrameSet : Submit(f)
    BY <1>2, <2>1 DEF Submit, ActivePc, ReplayInv, QueueInv, TypeInv, TypeOK
  <2>2. CASE \E d \in Calls : Start(d)
    <3>1. PICK d \in Calls : Start(d)
      BY <2>2
    <3>2. /\ localLease' = [localLease EXCEPT ![d] = leaseRemaining]
          /\ d # c => pc'[c] = pc[c]
      BY <3>1 DEF Start, FetchKey, Settle, ReplayInv, QueueInv, TypeInv, TypeOK
    <3> QED BY <1>2, <3>2 DEF ReplayInv, QueueInv, TypeInv, TypeOK
  <2>3. CASE \E d \in Calls : FinishVerify(d) \/ FinishOpen(d)
    <3>1. PICK d \in Calls : FinishVerify(d) \/ FinishOpen(d)
      BY <2>3
    <3>2. localLease' = localLease /\ pc[d] \in ActivePc /\ (d # c => pc'[c] = pc[c])
      BY <3>1 DEF FinishVerify, FinishOpen, Commit, FetchKey, Settle, locals, history, ActivePc,
           ReplayInv, QueueInv, TypeInv, TypeOK
    <3> QED BY <1>2, <3>2
  <2>4. CASE \/ BeginLive \/ BeginRewind \/ ResetLease \/ UNCHANGED vars
             \/ \E k \in KeyIds, key \in Keys : SetKey(k, key)
    BY <1>2, <2>4 DEF BeginLive, BeginRewind, ResetLease, SetKey, vars, locals
  <2> QED BY <2>1, <2>2, <2>3, <2>4 DEF Next
<1>3. Settled \subseteq Settled'
  <2>1. CASE \E c \in Calls : Start(c) \/ FinishVerify(c) \/ FinishOpen(c)
    BY <2>1 DEF Start, FinishVerify, FinishOpen, Commit, FetchKey, Settle, Settled,
         ReplayInv, QueueInv, TypeInv, TypeOK
  <2>2. CASE \E f \in FrameSet : Submit(f)
    BY <2>2 DEF Submit, Settled, ReplayInv, QueueInv, TypeInv, TypeOK
  <2>3. CASE \/ BeginLive \/ BeginRewind \/ ResetLease \/ UNCHANGED vars
             \/ \E k \in KeyIds, key \in Keys : SetKey(k, key)
    BY <2>3 DEF BeginLive, BeginRewind, ResetLease, SetKey, vars, Settled
  <2> QED BY <2>1, <2>2, <2>3 DEF Next
<1>4. ~ResetLease => UNCHANGED settledAtReset
  BY DEF Next, Submit, Start, FinishVerify, FinishOpen, BeginLive, BeginRewind, SetKey,
       vars, history
<1> QED BY <1>1, <1>2, <1>3, <1>4

-----------------------------------------------------------------------------
(* The counters.  Dominates bounds what was delivered; that the bound is   *)
(* itself a delivered counter needs a witness kept with each counter.      *)

Witnessed ==
  \A k \in KeyIds :
    /\ liveMax[k] # NoCtr => liveMax[k] \in DeliveredIn(0, k)
    /\ rewinds > 0 /\ playback[k] # NoCtr => playback[k] \in DeliveredIn(rewinds, k)

CounterInv == ReplayInv /\ Witnessed

LEMMA CounterInit == Init => CounterInv
BY ReplayInit DEF Init, CounterInv, Witnessed

LEMMA SameDeliveredIn ==
  ASSUME SameDeliveries, NEW s, NEW k
  PROVE  DeliveredIn(s, k)' = DeliveredIn(s, k)
BY DEF SameDeliveries, DeliveredIn

LEMMA WitnessedCommit ==
  ASSUME CounterInv, NEW c \in Calls, Commits(c)
  PROVE  Witnessed'
<1> USE DEF CounterInv, ReplayInv, QueueInv, TypeInv
<1> DEFINE f == arg[c]
<1>1. /\ f \in FrameSet /\ f.keyId \in KeyIds /\ f.ctr \in Nat
      /\ arg' = arg /\ mode' = mode /\ rewinds' = rewinds /\ RecordCounter(f)
  BY CommitEffects, FrameFields DEF Commits, Commit
<1>2. \A s, k : DeliveredIn(s, k) \subseteq DeliveredIn(s, k)'
  BY <1>1, CommitEffects DEF DeliveredIn
<1>3. f.ctr \in DeliveredIn(Scope, f.keyId)'
  <2>1. Delivered(c)' /\ commitScope'[c] = Scope /\ Scope' = Scope
    BY <1>1, CommitEffects DEF Scope
  <2> QED BY <1>1, <2>1 DEF DeliveredIn
<1> SUFFICES ASSUME NEW k \in KeyIds
             PROVE  /\ liveMax'[k] # NoCtr => liveMax'[k] \in DeliveredIn(0, k)'
                    /\ rewinds' > 0 /\ playback'[k] # NoCtr =>
                         playback'[k] \in DeliveredIn(rewinds, k)'
  BY DEF Witnessed
<1>4. CASE mode = "live"
  <2>1. /\ liveMax' = [liveMax EXCEPT ![f.keyId] = IF f.ctr > @ THEN f.ctr ELSE @]
        /\ playback' = playback /\ Scope = 0 /\ Scope' = 0
    BY <1>1, <1>4 DEF RecordCounter, Scope
  <2>2. liveMax'[k] = liveMax[k] \/ (k = f.keyId /\ liveMax'[k] = f.ctr)
    BY <1>1, <2>1 DEF TypeOK, Counters
  <2>3. liveMax'[k] # NoCtr => liveMax'[k] \in DeliveredIn(0, k)'
    BY <1>1, <1>2, <1>3, <2>1, <2>2 DEF Witnessed
  <2>4. rewinds > 0 /\ playback[k] # NoCtr => playback[k] \in DeliveredIn(rewinds, k)
    BY DEF Witnessed
  <2> QED BY <1>1, <1>2, <2>1, <2>3, <2>4
<1>5. CASE mode # "live"
  <2>1. /\ playback' = [playback EXCEPT ![f.keyId] = f.ctr]
        /\ liveMax' = liveMax /\ Scope = rewinds /\ Scope' = rewinds
    BY <1>1, <1>5 DEF RecordCounter, Scope
  <2>2. playback'[k] = playback[k] \/ (k = f.keyId /\ playback'[k] = f.ctr)
    BY <1>1, <2>1 DEF TypeOK, Counters
  <2>3. rewinds > 0 /\ playback'[k] # NoCtr => playback'[k] \in DeliveredIn(rewinds, k)'
    BY <1>1, <1>2, <1>3, <2>1, <2>2 DEF Witnessed
  <2>4. liveMax[k] # NoCtr => liveMax[k] \in DeliveredIn(0, k)
    BY DEF Witnessed
  <2> QED BY <1>1, <1>2, <2>1, <2>3, <2>4
<1> QED BY <1>4, <1>5

LEMMA CounterNext == CounterInv /\ [Next]_vars => CounterInv'
<1> SUFFICES ASSUME CounterInv, [Next]_vars PROVE CounterInv'
  OBVIOUS
<1>1. ReplayInv'
  BY ReplayNext DEF CounterInv
<1>2. ASSUME NEW c \in Calls, Commits(c) PROVE Witnessed'
  BY <1>2, WitnessedCommit
<1>3. ASSUME \A c \in Calls : ~Commits(c) PROVE Witnessed'
  <2>1. \A s, k : DeliveredIn(s, k)' = DeliveredIn(s, k)
    BY <1>3, OthersKeepDeliveries, SameDeliveredIn DEF CounterInv
  <2>2. CASE BeginRewind
    BY <2>1, <2>2 DEF BeginRewind, CounterInv, Witnessed
  <2>3. CASE ~BeginRewind
    <3>1. UNCHANGED <<liveMax, playback, rewinds>>
      BY <1>3, <2>3 DEF Next, Submit, Start, FinishVerify, FinishOpen, Commits,
           BeginLive, ResetLease, SetKey, vars, shared, history
    <3> QED BY <2>1, <3>1 DEF CounterInv, Witnessed
  <2> QED BY <2>2, <2>3
<1> QED BY <1>1, <1>2, <1>3 DEF CounterInv

LEMMA HighestFromWitness ==
  ASSUME NEW m \in Nat \cup {NoCtr}, NEW S \in SUBSET Nat,
         \A n \in S : n <= m,  m # NoCtr => m \in S
  PROVE  IsHighest(m, S)
BY DEF IsHighest, NoCtr

(* liveMaxCtr is the highest counter delivered in live playback, and       *)
(* playbackCtr the highest of the current rewind: exactly, so that what    *)
(* recordCounter keeps neither lets a replay in nor refuses a new frame.   *)
THEOREM CountersExact == Spec => []CountersAgree
<1>1. CounterInv => CountersAgree
  <2> SUFFICES ASSUME CounterInv, NEW k \in KeyIds
               PROVE  /\ IsHighest(liveMax[k], DeliveredIn(0, k))
                      /\ rewinds > 0 => IsHighest(playback[k], DeliveredIn(rewinds, k))
    BY DEF CountersAgree
  <2>1. liveMax[k] \in Nat \cup {NoCtr} /\ playback[k] \in Nat \cup {NoCtr}
    BY DEF CounterInv, ReplayInv, QueueInv, TypeInv, TypeOK, Counters
  <2>2. \A s : DeliveredIn(s, k) \subseteq Nat
    BY FrameFields DEF DeliveredIn, CounterInv, ReplayInv, QueueInv, TypeInv, ArgOK, ScopeOK
  <2>3. /\ \A n \in DeliveredIn(0, k) : n <= liveMax[k]
        /\ rewinds > 0 => \A n \in DeliveredIn(rewinds, k) : n <= playback[k]
    BY DEF DeliveredIn, CounterInv, ReplayInv, Dominates
  <2>4. IsHighest(liveMax[k], DeliveredIn(0, k))
    BY <2>1, <2>2, <2>3, HighestFromWitness DEF CounterInv, Witnessed
  <2>5. rewinds > 0 => IsHighest(playback[k], DeliveredIn(rewinds, k))
    BY <2>1, <2>2, <2>3, HighestFromWitness DEF CounterInv, Witnessed
  <2> QED BY <2>4, <2>5
<1> QED BY <1>1, CounterInit, CounterNext, PTL DEF Spec

-----------------------------------------------------------------------------
(* The lease.  What is left of it, in the decrypter or in the copy of the  *)
(* running call, and the leased frames delivered since the last signed     *)
(* frame add up to at most what that frame granted.                        *)

Granted(s) == IF s = 0 THEN InitialLease ELSE arg[s].nSigned - 1
Since(s) == LeasedBetween(s, MaxCalls)

LeaseSpent ==
  \A s \in 0..MaxCalls : Covers(s, MaxCalls) =>
    /\ leaseRemaining + Cardinality(Since(s)) <= Granted(s)
    /\ \A c \in Calls : pc[c] \in ActivePc =>
         localLease[c] + Cardinality(Since(s)) <= Granted(s)

Parsed == \A c \in Calls : Delivered(c) => arg[c].parses

LeaseInv == ReplayInv /\ Parsed /\ LeaseSpent /\ LeaseBounded

LEMMA CallsBounds == \A c \in Calls : c \in Int /\ 1 <= c /\ c <= MaxCalls
BY DecrypterAssumption DEF Calls

LEMMA CallSetsFinite ==
  \A S \in SUBSET Calls : IsFiniteSet(S) /\ Cardinality(S) \in Nat
<1>1. IsFiniteSet(Calls)
  BY DecrypterAssumption, FS_Interval DEF Calls
<1>2. \A S \in SUBSET Calls : IsFiniteSet(S)
  BY <1>1, FS_Subset
<1> QED BY <1>2, FS_CardinalityType

LEMMA LeasedFinite ==
  ASSUME NEW s, NEW c
  PROVE  /\ IsFiniteSet(LeasedBetween(s, c))
         /\ Cardinality(LeasedBetween(s, c)) \in Nat
BY CallSetsFinite DEF LeasedBetween

LEMMA GrantedNat ==
  ASSUME ReplayInv, Parsed, NEW s \in 0..MaxCalls, NEW c, Covers(s, c)
  PROVE  Granted(s) \in Nat
<1>1. CASE s = 0
  BY <1>1, DecrypterAssumption DEF Granted
<1>2. CASE s # 0
  <2>1. s \in Calls /\ Delivered(s) /\ Signed(arg[s])
    BY <1>2, DecrypterAssumption DEF Covers, Calls
  <2>2. arg[s] \in FrameSet /\ arg[s].parses
    BY <2>1 DEF Parsed, ReplayInv, QueueInv, TypeInv, ArgOK, ScopeOK
  <2>3. arg[s].nSigned \in Nat /\ arg[s].nSigned > 0
    BY <2>1, <2>2, FrameFields
  <2> QED BY <1>2, <2>3 DEF Granted
<1> QED BY <1>1, <1>2

LEMMA LeaseInit == Init => LeaseInv
<1> SUFFICES ASSUME Init PROVE Parsed /\ LeaseSpent /\ LeaseBounded
  BY ReplayInit DEF LeaseInv
<1>1. \A c \in Calls : ~Delivered(c) /\ pc[c] = "idle"
  BY DEF Init, Delivered
<1>2. \A s, c : LeasedBetween(s, c) = {}
  BY <1>1 DEF LeasedBetween
<1>3. \A c : \A s \in 0..MaxCalls : Covers(s, c) => s = 0
  BY <1>1, DecrypterAssumption DEF Covers, Calls
<1>4. leaseRemaining = InitialLease /\ InitialLease \in Nat
  BY DecrypterAssumption DEF Init
<1>5. LeaseSpent
  BY <1>1, <1>2, <1>3, <1>4, FS_EmptySet DEF LeaseSpent, Since, Granted, ActivePc
<1>6. LeaseBounded
  BY <1>2, <1>3, <1>4, FS_EmptySet DEF LeaseBounded
<1> QED BY <1>1, <1>5, <1>6 DEF Parsed

\* The lease is set to 0, copied to a call, or left alone while no copy is made.
LEMMA LeaseQuiet ==
  ASSUME LeaseInv, SameDeliveries,
         leaseRemaining' \in {0, leaseRemaining},
         \A c \in Calls : pc'[c] \in ActivePc =>
           \/ pc[c] \in ActivePc /\ localLease'[c] = localLease[c]
           \/ localLease'[c] = leaseRemaining
  PROVE  Parsed' /\ LeaseSpent' /\ LeaseBounded'
<1>1. /\ \A s, c : LeasedBetween(s, c)' = LeasedBetween(s, c)
      /\ \A s, c : Since(s)' = Since(s)
  BY DEF SameDeliveries, LeasedBetween, Since
<1>2. \A c : \A s \in 0..MaxCalls : Covers(s, c)' => Covers(s, c) /\ Granted(s)' = Granted(s)
  <2> SUFFICES ASSUME NEW s \in 0..MaxCalls, NEW c, Covers(s, c)'
               PROVE  Covers(s, c) /\ Granted(s)' = Granted(s)
    OBVIOUS
  <2>1. s = 0 \/ s \in Calls
    BY DecrypterAssumption DEF Calls
  <2>2. Covers(s, c)
    BY <2>1 DEF SameDeliveries, Covers
  <2>3. Granted(s)' = Granted(s)
    BY <2>1, <2>2 DEF SameDeliveries, Covers, Granted
  <2> QED BY <2>2, <2>3
<1>3. Parsed'
  BY DEF LeaseInv, Parsed, SameDeliveries
<1>4. LeaseSpent'
  <2> SUFFICES ASSUME NEW s \in 0..MaxCalls, Covers(s, MaxCalls)'
               PROVE  /\ leaseRemaining' + Cardinality(Since(s)) <= Granted(s)
                      /\ \A c \in Calls : pc'[c] \in ActivePc =>
                           localLease'[c] + Cardinality(Since(s)) <= Granted(s)
    BY <1>1, <1>2 DEF LeaseSpent
  <2>1. Covers(s, MaxCalls) /\ Granted(s) \in Nat /\ Cardinality(Since(s)) \in Nat
        /\ leaseRemaining \in Nat
    BY <1>2, GrantedNat, LeasedFinite
    DEF Since, LeaseInv, ReplayInv, QueueInv, TypeInv, TypeOK
  <2>2. leaseRemaining + Cardinality(Since(s)) <= Granted(s)
    BY <2>1 DEF LeaseInv, LeaseSpent
  <2>3. leaseRemaining' + Cardinality(Since(s)) <= Granted(s)
    BY <2>1, <2>2
  <2>4. ASSUME NEW c \in Calls, pc'[c] \in ActivePc
        PROVE  localLease'[c] + Cardinality(Since(s)) <= Granted(s)
    <3>1. pc[c] \in ActivePc => localLease[c] + Cardinality(Since(s)) <= Granted(s)
      BY <2>1 DEF LeaseInv, LeaseSpent
    <3> QED BY <2>2, <2>4, <3>1
  <2> QED BY <2>3, <2>4
<1>5. LeaseBounded'
  BY <1>1, <1>2 DEF LeaseInv, LeaseBounded, Granted
<1> QED BY <1>3, <1>4, <1>5

LEMMA LeaseCommit ==
  ASSUME LeaseInv, NEW c \in Calls, Commits(c)
  PROVE  Parsed' /\ LeaseSpent' /\ LeaseBounded'
<1> USE DEF LeaseInv
<1>1. /\ arg' = arg /\ ~Delivered(c) /\ Delivered(c)' /\ pc[c] = "opening"
      /\ \A d \in Calls : d # c => (Delivered(d)' <=> Delivered(d))
      /\ \A d \in Calls : pc'[d] \notin ActivePc
      /\ \A d \in Calls : Delivered(d) => d < c
      /\ leaseRemaining' = LeaseAfter(arg[c], localLease[c])
      /\ arg[c] \in FrameSet /\ arg[c].parses
      /\ (Leased(arg[c]) => localLease[c] > 0)
      /\ localLease[c] \in Nat
  <2>1. arg[c].parses /\ (Leased(arg[c]) => localLease[c] > 0) /\ localLease[c] \in Nat
    BY CommitEffects DEF ReplayInv, QueueInv, TypeInv, TypeOK, GateOK, ActivePc
  <2> QED BY <2>1, CommitEffects DEF Commits, Commit
<1>2. Parsed'
  BY <1>1 DEF Parsed
<1>3. \A d \in Calls : Delivered(d)' => d <= c
  BY <1>1, CallsBounds
<1>4. \A s : Granted(s)' = Granted(s)
  BY <1>1 DEF Granted
\* The lease covers what the last signed frame still grants.
<1>5. LeaseSpent'
  <2> SUFFICES ASSUME NEW s \in 0..MaxCalls, Covers(s, MaxCalls)'
               PROVE  leaseRemaining' + Cardinality(Since(s)') <= Granted(s)
    BY <1>1, <1>4 DEF LeaseSpent
  <2>1. s \in Int /\ s # 0 => s \in Calls
    BY DecrypterAssumption DEF Calls
  <2>2. CASE Signed(arg[c])
    <3>1. s = c
      BY <1>1, <1>3, <2>1, <2>2, CallsBounds, DecrypterAssumption DEF Covers
    <3>2. Since(s)' = {}
      <4>1. \A d \in Calls : Delivered(d)' => ~(s < d)
        BY <1>3, <3>1, CallsBounds
      <4> QED BY <4>1 DEF Since, LeasedBetween
    <3>3. c # 0 /\ leaseRemaining' = arg[c].nSigned - 1 /\ arg[c].nSigned \in Nat
      BY <1>1, <2>2, FrameFields, CallsBounds DEF LeaseAfter
    <3> QED BY <3>1, <3>2, <3>3, FS_EmptySet DEF Granted
  <2>3. CASE ~Signed(arg[c])
    <3>1. s # c
      BY <1>1, <2>3, CallsBounds DEF Covers
    <3>2. Covers(s, MaxCalls)
      BY <1>1, <2>1, <2>3, <3>1 DEF Covers
    <3>3. s < c
      <4>1. CASE s = 0
        BY <4>1, CallsBounds
      <4>2. CASE s # 0
        BY <1>1, <2>1, <3>2, <4>2 DEF Covers
      <4> QED BY <4>1, <4>2
    <3>4. /\ localLease[c] + Cardinality(Since(s)) <= Granted(s)
          /\ Cardinality(Since(s)) \in Nat /\ Granted(s) \in Nat
      BY <1>1, <3>2, LeasedFinite, GrantedNat DEF LeaseSpent, ActivePc, Since
    <3>5. CASE Leased(arg[c])
      <4>1. Since(s)' = Since(s) \cup {c} /\ c \notin Since(s)
        BY <1>1, <3>3, <3>5, CallsBounds DEF Since, LeasedBetween
      <4>2. Cardinality(Since(s)') = Cardinality(Since(s)) + 1
        BY <4>1, LeasedFinite, FS_AddElement DEF Since
      <4>3. leaseRemaining' = localLease[c] - 1
        BY <1>1, <2>3, <3>5 DEF LeaseAfter
      <4> QED BY <1>1, <3>4, <4>2, <4>3
    <3>6. CASE ~Leased(arg[c])
      <4>1. Since(s)' = Since(s)
        BY <1>1, <3>6 DEF Since, LeasedBetween
      <4>2. leaseRemaining' = localLease[c]
        BY <1>1, <2>3, <3>6 DEF LeaseAfter
      <4> QED BY <3>4, <4>1, <4>2
    <3> QED BY <3>5, <3>6
  <2> QED BY <2>2, <2>3
\* A stretch the commit falls into is the current one; the others are unchanged.
<1>6. LeaseBounded'
  <2> SUFFICES ASSUME NEW s \in 0..MaxCalls, NEW e \in Calls, s < e, Covers(s, e)'
               PROVE  Cardinality(LeasedBetween(s, e)') <= Granted(s)
    BY <1>4 DEF LeaseBounded, Granted
  <2>1. s \in Int /\ s # 0 => s \in Calls
    BY DecrypterAssumption DEF Calls
  <2>2. leaseRemaining' \in Nat /\ ReplayInv' /\ Parsed'
    <3>1. [Next]_vars
      BY DEF Commits, Next
    <3> QED BY <1>2, <3>1, ReplayNext DEF ReplayInv, QueueInv, TypeInv, TypeOK
  <2>3. Granted(s) \in Nat
    <3>1. CASE s = 0
      BY <3>1, DecrypterAssumption DEF Granted
    <3>2. CASE s # 0
      <4>1. s \in Calls /\ Delivered(s)' /\ Signed(arg[s])
        BY <1>1, <2>1, <3>2 DEF Covers
      <4>2. arg[s] \in FrameSet /\ arg[s].parses
        BY <1>1, <2>2, <4>1 DEF Parsed, ReplayInv, QueueInv, TypeInv, ArgOK, ScopeOK
      <4>3. arg[s].nSigned \in Nat /\ arg[s].nSigned > 0
        BY <4>1, <4>2, FrameFields
      <4> QED BY <3>2, <4>3 DEF Granted
    <3> QED BY <3>1, <3>2
  <2>4. CASE c <= e
    <3>1. Covers(s, MaxCalls)'
      BY <1>1, <1>3, <2>4, CallsBounds, DecrypterAssumption DEF Covers
    <3>2. leaseRemaining' + Cardinality(Since(s)') <= Granted(s)
      BY <1>4, <1>5, <3>1 DEF LeaseSpent
    <3>3. LeasedBetween(s, e)' \in SUBSET Since(s)'
      BY CallsBounds DEF LeasedBetween, Since
    <3>4. IsFiniteSet(Since(s)') /\ Cardinality(Since(s)') \in Nat
      <4>1. Since(s)' \in SUBSET Calls
        BY DEF Since, LeasedBetween, Calls
      <4> QED BY <4>1, CallSetsFinite
    <3>5. Cardinality(LeasedBetween(s, e)') <= Cardinality(Since(s)')
          /\ Cardinality(LeasedBetween(s, e)') \in Nat
      BY <3>3, <3>4, FS_Subset, FS_CardinalityType
    <3> QED BY <2>2, <2>3, <3>2, <3>4, <3>5
  <2>5. CASE e < c
    <3>1. LeasedBetween(s, e)' = LeasedBetween(s, e)
      BY <1>1, <2>5, CallsBounds DEF LeasedBetween
    <3>2. Covers(s, e)
      BY <1>1, <2>1, <2>5, CallsBounds DEF Covers
    <3> QED BY <3>1, <3>2 DEF LeaseBounded, Granted
  <2> QED BY <2>4, <2>5, CallsBounds
<1> QED BY <1>2, <1>5, <1>6

LEMMA LeaseNext == LeaseInv /\ [Next]_vars => LeaseInv'
<1> SUFFICES ASSUME LeaseInv, [Next]_vars PROVE LeaseInv'
  OBVIOUS
<1>1. ReplayInv'
  BY ReplayNext DEF LeaseInv
<1>2. ASSUME NEW c \in Calls, Commits(c) PROVE Parsed' /\ LeaseSpent' /\ LeaseBounded'
  BY <1>2, LeaseCommit
<1>3. ASSUME \A c \in Calls : ~Commits(c) PROVE Parsed' /\ LeaseSpent' /\ LeaseBounded'
  BY <1>3, OthersKeepDeliveries, OthersKeepLease, LeaseQuiet DEF LeaseInv
<1> QED BY <1>1, <1>2, <1>3 DEF LeaseInv

(* The lease is never overspent: after a delivered signed frame and before *)
(* the next one at most nSigned - 1 unsigned frames are delivered, however *)
(* calls, resets and mode changes interleave.                              *)
THEOREM LeaseNeverOverspent == Spec => []LeaseBounded
<1>1. LeaseInv => LeaseBounded
  BY DEF LeaseInv
<1> QED BY <1>1, LeaseInit, LeaseNext, PTL DEF Spec

-----------------------------------------------------------------------------
(* Where a lease comes from after a reset: only a signed frame delivered   *)
(* since the reset leaves one behind.                                      *)

ResetOK == settledAtReset = Calls \/ settledAtReset \subseteq Settled

Earned == \E s \in Calls \ settledAtReset : Delivered(s) /\ Signed(arg[s])

LeaseFromSignature ==
  settledAtReset # Calls =>
    /\ leaseRemaining > 0 => Earned
    /\ \A c \in Calls : pc[c] \in ActivePc /\ localLease[c] > 0 => Earned

EarnInv == ReplayInv /\ ResetOK /\ LeaseFromSignature /\ LeaseEarned

LEMMA EarnInit == Init => EarnInv
<1>1. Init => ResetOK /\ LeaseFromSignature /\ LeaseEarned
  BY DEF Init, ResetOK, LeaseFromSignature, LeaseEarned, Delivered, ActivePc
<1> QED BY <1>1, ReplayInit DEF EarnInv

\* A step that delivers nothing, resets nothing and frees no call.
LEMMA EarnQuiet ==
  ASSUME EarnInv, SameDeliveries, UNCHANGED settledAtReset,
         Settled \subseteq Settled',
         leaseRemaining' \in {0, leaseRemaining},
         \A c \in Calls : pc'[c] \in ActivePc =>
           \/ pc[c] \in ActivePc /\ localLease'[c] = localLease[c]
           \/ localLease'[c] = leaseRemaining
  PROVE  ResetOK' /\ LeaseFromSignature' /\ LeaseEarned'
<1>1. Earned => Earned'
  BY DEF Earned, SameDeliveries
<1>2. ResetOK'
  BY DEF EarnInv, ResetOK
<1>3. LeaseFromSignature'
  BY <1>1 DEF EarnInv, LeaseFromSignature
<1>4. LeaseEarned'
  BY DEF EarnInv, LeaseEarned, SameDeliveries
<1> QED BY <1>2, <1>3, <1>4

LEMMA EarnCommit ==
  ASSUME EarnInv, NEW c \in Calls, Commits(c)
  PROVE  ResetOK' /\ LeaseFromSignature' /\ LeaseEarned'
<1> USE DEF EarnInv
<1>1. /\ arg' = arg /\ settledAtReset' = settledAtReset
      /\ ~Delivered(c) /\ Delivered(c)' /\ pc[c] = "opening"
      /\ \A d \in Calls : d # c => (Delivered(d)' <=> Delivered(d)) /\ pc'[d] = pc[d]
      /\ \A d \in Calls : pc'[d] \notin ActivePc
      /\ \A d \in Calls : Delivered(d) => d < c
      /\ leaseRemaining' = LeaseAfter(arg[c], localLease[c])
      /\ (Leased(arg[c]) => localLease[c] > 0)
      /\ localLease[c] \in Nat
  <2>1. (Leased(arg[c]) => localLease[c] > 0) /\ localLease[c] \in Nat
    BY CommitEffects DEF ReplayInv, QueueInv, TypeInv, TypeOK, GateOK, ActivePc
  <2> QED BY <2>1, CommitEffects DEF Commits, Commit
<1>2. settledAtReset # Calls => c \notin settledAtReset
  BY <1>1 DEF ResetOK, Settled
<1>3. ResetOK'
  BY <1>1, <1>2 DEF ResetOK, Settled
<1>4. Earned => Earned'
  BY <1>1 DEF Earned
<1>5. LeaseFromSignature'
  <2> SUFFICES ASSUME settledAtReset # Calls, leaseRemaining' > 0 PROVE Earned'
    BY <1>1 DEF LeaseFromSignature
  <2>1. CASE Signed(arg[c])
    BY <1>1, <1>2, <2>1 DEF Earned
  <2>2. CASE ~Signed(arg[c])
    <3>1. localLease[c] > 0
      BY <1>1, <2>2 DEF LeaseAfter
    <3> QED BY <1>1, <1>4, <3>1 DEF LeaseFromSignature, ActivePc
  <2> QED BY <2>1, <2>2
<1>6. LeaseEarned'
  <2> SUFFICES ASSUME NEW d \in Calls \ settledAtReset, Delivered(d)', Leased(arg[d])
               PROVE  \E s \in Calls \ settledAtReset : s < d /\ Delivered(s)' /\ Signed(arg[s])
    BY <1>1 DEF LeaseEarned
  <2>1. CASE d = c
    <3>1. Earned
      BY <1>1, <2>1 DEF LeaseFromSignature, ActivePc
    <3> QED BY <1>1, <2>1, <3>1 DEF Earned
  <2>2. CASE d # c
    BY <1>1, <2>2 DEF LeaseEarned
  <2> QED BY <2>1, <2>2
<1> QED BY <1>3, <1>5, <1>6

LEMMA EarnReset ==
  ASSUME EarnInv, ResetLease
  PROVE  ResetOK' /\ LeaseFromSignature' /\ LeaseEarned'
<1>1. /\ leaseRemaining' = 0 /\ UNCHANGED <<pc, arg, localLease, result>>
      /\ settledAtReset' = IF Active = {} THEN Settled ELSE settledAtReset
  BY DEF ResetLease, locals
<1>2. CASE Active = {}
  <2>1. settledAtReset' = Settled /\ Settled' = Settled
    BY <1>1, <1>2 DEF Settled
  <2>2. \A c \in Calls : pc'[c] \notin ActivePc
    BY <1>1, <1>2 DEF Active, ActivePc
  <2>3. \A c \in Calls \ settledAtReset' : ~Delivered(c)'
    BY <1>1, <2>1 DEF Settled, Delivered, EarnInv, ReplayInv, ScopeOK
  <2> QED BY <1>1, <2>1, <2>2, <2>3 DEF ResetOK, LeaseFromSignature, LeaseEarned
<1>3. CASE Active # {}
  <2>1. UNCHANGED settledAtReset /\ Settled' = Settled
    BY <1>1, <1>3 DEF Settled
  <2>2. SameDeliveries
    BY DEF ResetLease, locals, SameDeliveries, Delivered
  <2> QED BY <1>1, <2>1, <2>2, EarnQuiet
<1> QED BY <1>2, <1>3

LEMMA EarnNext == EarnInv /\ [Next]_vars => EarnInv'
<1> SUFFICES ASSUME EarnInv, [Next]_vars PROVE EarnInv'
  OBVIOUS
<1>1. ReplayInv'
  BY ReplayNext DEF EarnInv
<1>2. ASSUME NEW c \in Calls, Commits(c) PROVE ResetOK' /\ LeaseFromSignature' /\ LeaseEarned'
  BY <1>2, EarnCommit
<1>3. ASSUME \A c \in Calls : ~Commits(c), ~ResetLease
      PROVE  ResetOK' /\ LeaseFromSignature' /\ LeaseEarned'
  BY <1>3, OthersKeepDeliveries, OthersKeepLease, EarnQuiet DEF EarnInv
<1>4. CASE ResetLease
  BY <1>1, <1>4, EarnReset DEF EarnInv
<1> QED BY <1>1, <1>2, <1>3, <1>4 DEF EarnInv

(* resetLease() made while no frame is being decrypted withdraws the lease *)
(* for good: a leased frame that settles later follows a signed frame      *)
(* delivered after the reset.                                              *)
THEOREM LeaseAlwaysEarned == Spec => []LeaseEarned
<1>1. EarnInv => LeaseEarned
  BY DEF EarnInv
<1> QED BY <1>1, EarnInit, EarnNext, PTL DEF Spec

-----------------------------------------------------------------------------
(* The atomic receiver.  While control calls keep out of the way of the    *)
(* running call, what it read is still what the decrypter holds when it    *)
(* commits.                                                                *)

\* Mode and lease change between two frames, a key while none of its frames
\* is being opened.
BetweenCommits ==
  /\ BeginLive \/ BeginRewind \/ ResetLease => Active = {}
  /\ \A k \in KeyIds, key \in Keys : SetKey(k, key) =>
       \A c \in Calls : pc[c] = "opening" => arg[c].keyId # k

NotOvertaken ==
  \A c \in Calls : pc[c] \in ActivePc =>
    /\ localLease[c] = leaseRemaining
    /\ ~Replayed(arg[c])
    /\ pc[c] = "opening" =>
         /\ Signed(arg[c]) => arg[c].sigValid
         /\ usedKey[c] = keyStore[arg[c].keyId]

AtomicInv == QueueInv /\ NotOvertaken

LEMMA AtomicInit == Init => AtomicInv
<1>1. Init => NotOvertaken
  BY DEF Init, NotOvertaken, ActivePc
<1> QED BY <1>1, QueueInit DEF AtomicInv

\* The running call is the only one.
LEMMA OneRuns ==
  ASSUME QueueInv, NEW c \in Calls, NEW d \in Calls, d # c,
         pc[c] \in ActivePc \/ (pc[c] = "queued" /\ HasTurn(c))
  PROVE  pc[d] \notin ActivePc
<1>1. c < d \/ d < c
  BY DEF Calls
<1>2. CASE d < c
  BY <1>2, TurnMeansFirst DEF QueueInv, Serialized, ActivePc
<1>3. CASE c < d
  BY <1>3 DEF QueueInv, Serialized, ActivePc
<1> QED BY <1>1, <1>2, <1>3

LEMMA AtomicNext ==
  ASSUME AtomicInv, [Next]_vars, [BetweenCommits]_vars
  PROVE  AtomicInv'
<1> USE DEF AtomicInv, TypeInv
<1>1. QueueInv'
  BY QueueNext
<1>2. ASSUME NEW f \in FrameSet, Submit(f) PROVE NotOvertaken'
  BY <1>2 DEF Submit, shared, NotOvertaken, Replayed, ActivePc, QueueInv, TypeOK
<1>3. ASSUME NEW c \in Calls, Start(c) PROVE NotOvertaken'
  <2>1. /\ pc[c] = "queued" /\ HasTurn(c)
        /\ UNCHANGED <<leaseRemaining, mode, liveMax, playback, keyStore, arg>>
        /\ localLease' = [localLease EXCEPT ![c] = leaseRemaining]
        /\ pc'[c] \in ActivePc => ~Replayed(arg[c])
        /\ pc'[c] = "opening" =>
             /\ ~Signed(arg[c])
             /\ usedKey' = [usedKey EXCEPT ![c] = keyStore[arg[c].keyId]]
        /\ \A d \in Calls : d # c => pc'[d] = pc[d]
    BY <1>3 DEF Start, FetchKey, Settle, shared, ActivePc, QueueInv, TypeOK
  <2>2. \A d \in Calls : d # c => pc'[d] \notin ActivePc
    BY <2>1, OneRuns
  <2>3. localLease'[c] = leaseRemaining /\ (pc'[c] = "opening" => usedKey'[c] = keyStore[arg[c].keyId])
    BY <2>1 DEF QueueInv, TypeOK
  <2> QED BY <2>1, <2>2, <2>3 DEF NotOvertaken, Replayed
<1>4. ASSUME NEW c \in Calls, FinishVerify(c) PROVE NotOvertaken'
  <2>1. /\ pc[c] = "verifying"
        /\ UNCHANGED <<leaseRemaining, mode, liveMax, playback, keyStore, arg, localLease>>
        /\ pc'[c] = "opening" =>
             /\ arg[c].sigValid
             /\ usedKey' = [usedKey EXCEPT ![c] = keyStore[arg[c].keyId]]
        /\ \A d \in Calls : d # c => pc'[d] = pc[d]
    BY <1>4 DEF FinishVerify, FetchKey, Settle, shared, QueueInv, TypeOK
  <2>2. \A d \in Calls : d # c => pc'[d] \notin ActivePc
    BY <2>1, OneRuns DEF ActivePc
  <2>3. pc'[c] = "opening" => usedKey'[c] = keyStore[arg[c].keyId]
    BY <2>1 DEF QueueInv, TypeOK
  <2> QED BY <2>1, <2>2, <2>3 DEF NotOvertaken, Replayed, ActivePc
<1>5. ASSUME NEW c \in Calls, FinishOpen(c) PROVE NotOvertaken'
  <2>1. /\ pc[c] = "opening" /\ pc'[c] = "released"
        /\ \A d \in Calls : d # c => pc'[d] = pc[d]
    BY <1>5 DEF FinishOpen, Commit, Settle, QueueInv, TypeOK
  <2>2. \A d \in Calls : pc'[d] \notin ActivePc
    BY <2>1, OneRuns DEF ActivePc
  <2> QED BY <2>2 DEF NotOvertaken
<1>6. ASSUME UNCHANGED vars PROVE NotOvertaken'
  <2>1. UNCHANGED <<leaseRemaining, mode, liveMax, playback, keyStore, pc, arg, localLease, usedKey>>
    BY <1>6 DEF vars
  <2>2. \A c \in Calls : Replayed(arg[c])' <=> Replayed(arg[c])
    BY <2>1 DEF Replayed
  <2>3. NotOvertaken
    OBVIOUS
  <2> HIDE DEF AtomicInv, TypeInv
  <2> QED BY <2>1, <2>2, <2>3 DEF NotOvertaken
<1>7. ASSUME BeginLive \/ BeginRewind \/ ResetLease, BetweenCommits PROVE NotOvertaken'
  <2>1. pc' = pc /\ Active = {}
    BY <1>7 DEF BeginLive, BeginRewind, ResetLease, BetweenCommits
  <2>2. \A c \in Calls : pc'[c] \notin ActivePc
    BY <2>1 DEF Active, ActivePc
  <2> QED BY <2>2 DEF NotOvertaken
<1>8. ASSUME NEW k \in KeyIds, NEW key \in Keys, SetKey(k, key), BetweenCommits
      PROVE  NotOvertaken'
  <2>1. /\ UNCHANGED <<leaseRemaining, mode, liveMax, playback, pc, arg, localLease, usedKey>>
        /\ keyStore' = [keyStore EXCEPT ![k] = key]
        /\ \A c \in Calls : pc[c] = "opening" => arg[c].keyId # k
    BY <1>8 DEF SetKey, locals, BetweenCommits
  <2>2. \A c \in Calls : pc[c] = "opening" => keyStore'[arg[c].keyId] = keyStore[arg[c].keyId]
    BY <2>1, FrameFields DEF QueueInv, TypeOK, ArgOK
  <2>3. \A c \in Calls : Replayed(arg[c])' <=> Replayed(arg[c])
    BY <2>1 DEF Replayed
  <2>4. NotOvertaken
    OBVIOUS
  <2> HIDE DEF AtomicInv, TypeInv
  <2> QED BY <2>1, <2>2, <2>3, <2>4 DEF NotOvertaken, ActivePc
<1> QED BY <1>1, <1>2, <1>3, <1>4, <1>5, <1>6, <1>7, <1>8 DEF Next

-----------------------------------------------------------------------------
(* The steps of the decrypter, as steps of the receiver.                   *)

LEMMA CommitDelivers ==
  ASSUME AtomicInv, NEW c \in Calls, Commits(c)
  PROVE  Abstract!Deliver(arg[c])
<1> USE DEF AtomicInv, QueueInv, TypeInv
<1> DEFINE f == arg[c]
<1>1. /\ pc[c] = "opening" /\ f \in FrameSet /\ f.ctr \in Nat /\ f.keyId \in KeyIds
      /\ f.parses /\ (Leased(f) => localLease[c] > 0)
      /\ localLease[c] = leaseRemaining /\ ~Replayed(f)
      /\ (Signed(f) => f.sigValid) /\ usedKey[c] = keyStore[f.keyId]
  BY FrameFields DEF Commits, FinishOpen, ArgOK, GateOK, NotOvertaken, ActivePc
<1>2. /\ Opens(f, usedKey[c]) /\ f.padValid
      /\ leaseRemaining' = LeaseAfter(f, localLease[c])
      /\ RecordCounter(f)
      /\ delivered' = Append(delivered, f)
      /\ UNCHANGED <<mode, keyStore>>
  BY DEF Commits, FinishOpen, Commit
<1>3. Abstract!Authorised(f)
  BY <1>1 DEF Abstract!Authorised, Abstract!Signed, Abstract!Leased, Abstract!SigningEnabled,
              Signed, Leased, SigningEnabled
<1>4. Abstract!Opens(f, keyStore[f.keyId]) /\ leaseRemaining' = Abstract!LeaseAfter(f, leaseRemaining)
  BY <1>1, <1>2 DEF Abstract!Opens, Opens, Abstract!LeaseAfter, LeaseAfter, Abstract!Signed,
              Abstract!Leased, Abstract!SigningEnabled, Signed, Leased, SigningEnabled
<1>5. liveMax[f.keyId] \in Int /\ playback[f.keyId] \in Int
  BY <1>1 DEF TypeOK, Counters, NoCtr
<1>6. CASE mode = "live"
  <2>1. f.ctr > liveMax[f.keyId]
    BY <1>1, <1>5, <1>6 DEF Replayed
  <2>2. liveMax' = [liveMax EXCEPT ![f.keyId] = f.ctr] /\ UNCHANGED playback
    BY <1>2, <1>6, <2>1 DEF RecordCounter
  <2> QED BY <1>1, <1>2, <1>3, <1>4, <1>6, <2>1, <2>2 DEF Abstract!Deliver, Abstract!Fresh
<1>7. CASE mode # "live"
  <2>1. f.ctr > playback[f.keyId]
    BY <1>1, <1>5, <1>7 DEF Replayed
  <2>2. playback' = [playback EXCEPT ![f.keyId] = f.ctr] /\ UNCHANGED liveMax
    BY <1>2, <1>7 DEF RecordCounter
  <2> QED BY <1>1, <1>2, <1>3, <1>4, <1>7, <2>1, <2>2 DEF Abstract!Deliver, Abstract!Fresh
<1> QED BY <1>6, <1>7

LEMMA ReceiverInit == Init => Abstract!Init
BY DEF Init, Abstract!Init, NoCtr, Abstract!NoCtr

LEMMA ReceiverStep ==
  ASSUME AtomicInv, [Next]_vars
  PROVE  [Abstract!Next]_(Abstract!rvars)
<1> DEFINE Stutter == UNCHANGED <<leaseRemaining, mode, liveMax, playback, keyStore, delivered>>
<1>1. Stutter => UNCHANGED Abstract!rvars
  BY DEF Abstract!rvars
<1>2. ASSUME NEW f \in FrameSet, Submit(f) PROVE Stutter
  BY <1>2 DEF Submit, shared, history
<1>3. ASSUME NEW c \in Calls, Start(c) \/ FinishVerify(c) PROVE Stutter
  BY <1>3 DEF Start, FinishVerify, shared, history
<1>4. ASSUME NEW c \in Calls, FinishOpen(c) PROVE Stutter \/ Abstract!Next
  <2>1. CASE Commit(c)
    <3>1. Abstract!Deliver(arg[c])
      BY <1>4, <2>1, CommitDelivers DEF Commits
    <3>2. arg[c] \in FrameSet
      BY <1>4 DEF FinishOpen, AtomicInv, QueueInv, TypeInv, ArgOK
    <3> QED BY <3>1, <3>2 DEF Abstract!Next
  <2>2. CASE ~Commit(c)
    BY <1>4, <2>2 DEF FinishOpen
  <2> QED BY <2>1, <2>2
<1>5. BeginLive => Abstract!Next
  BY DEF BeginLive, history, Abstract!Next, Abstract!BeginLive
<1>6. BeginRewind => Abstract!Next
  BY DEF BeginRewind, NoCtr, Abstract!NoCtr, Abstract!Next, Abstract!BeginRewind
<1>7. ResetLease => Abstract!Next
  BY DEF ResetLease, Abstract!Next, Abstract!ResetLease
<1>8. ASSUME NEW k \in KeyIds, NEW key \in Keys, SetKey(k, key) PROVE Abstract!Next
  BY <1>8 DEF SetKey, history, Abstract!Next, Abstract!SetKey
<1>9. CASE UNCHANGED vars
  BY <1>1, <1>9 DEF vars
<1> QED BY <1>1, <1>2, <1>3, <1>4, <1>5, <1>6, <1>7, <1>8, <1>9 DEF Next

(* While frames are queued the player may change mode and lease between    *)
(* two frames, and the application may load a key at any moment at which   *)
(* no frame under its id is being opened: the decrypter still is the       *)
(* atomic receiver.  (Anywhere else, the commit of the running frame may   *)
(* overwrite what the control call wrote, or go by what it replaced.)      *)
THEOREM ImplementsReceiverBetween == Spec /\ [][BetweenCommits]_vars => ReceiverSpec
<1>1. AtomicInv /\ [Next]_vars /\ [BetweenCommits]_vars => AtomicInv'
  BY AtomicNext
<1>2. AtomicInv /\ [Next]_vars => [Abstract!Next]_(Abstract!rvars)
  BY ReceiverStep
<1> QED BY <1>1, <1>2, ReceiverInit, AtomicInit, PTL DEF Spec, ReceiverSpec, Abstract!Spec

(* When mode, lease and keys change only while no decrypt() is queued or   *)
(* running, the decrypter with its promise chain, its awaits and its       *)
(* failing calls behaves as the receiver that delivers each frame in one   *)
(* atomic step and that a refused frame does not touch.                    *)
THEOREM ImplementsReceiver ==
  ASSUME QuiescentControl
  PROVE  Spec => ReceiverSpec
<1>1. [Next]_vars => [BetweenCommits]_vars
  <2> SUFFICES ASSUME Next PROVE BetweenCommits
    OBVIOUS
  <2>1. BeginLive \/ BeginRewind \/ ResetLease => Active = {}
    BY DEF BeginLive, BeginRewind, ResetLease, ControlAllowed, Pending, Active
  <2>2. ASSUME NEW k \in KeyIds, NEW key \in Keys, SetKey(k, key), NEW c \in Calls
        PROVE  pc[c] # "opening"
    BY <2>2 DEF SetKey, ControlAllowed, Pending
  <2> QED BY <2>1, <2>2 DEF BetweenCommits
<1>2. Spec => [][BetweenCommits]_vars
  BY <1>1, PTL DEF Spec
<1> QED BY <1>2, ImplementsReceiverBetween

=============================================================================
