----------------------------- MODULE Decrypter ------------------------------
(***************************************************************************)
(* MoqSecureDecrypter (js/src/decrypter.ts) with decryptFrame and          *)
(* Frame.decodePlaintext (js/src/wire.ts), at the grain of the JavaScript  *)
(* event loop: a step is the code between two awaits.                      *)
(*                                                                         *)
(* Calls of decrypt() are numbered in the order they are submitted.  A     *)
(* call waits for its turn in the promise chain #decryptTail, then runs    *)
(* until it awaits the Ed25519 verification (signed frames) or the AEAD    *)
(* (all others), and commits lease and counter in its last step.  Between  *)
(* these steps the application may call beginLive, beginRewind,            *)
(* resetLease and keyStore.setKey, and submit further frames.              *)
(***************************************************************************)
EXTENDS Frames, Sequences, FiniteSets

CONSTANTS
  MaxCalls,          \* bound: calls of decrypt() in a behaviour
  MaxRewinds,        \* bound: calls of beginRewind() in a behaviour
  InitialLease,      \* 0, or the argument of MoqSecureDecrypter.withLease
  QuiescentControl,  \* TRUE: the player changes mode, lease and keys only
                     \* while no decrypt() is queued or running
  NoFrame

ASSUME DecrypterAssumption ==
  /\ MaxCalls \in Nat
  /\ MaxRewinds \in Nat
  /\ InitialLease \in 0..255            \* #setLease
  /\ QuiescentControl \in BOOLEAN
  /\ NoFrame \notin FrameSet

Calls == 1..MaxCalls

VARIABLES
  leaseRemaining,  \* #leaseRemaining
  mode,            \* #mode
  liveMax,         \* #counters.get(k).liveMaxCtr, NoCtr when undefined
  playback,        \* #counters.get(k).playbackCtr, NoCtr when undefined
  decryptTail,     \* #decryptTail: the call whose turn it chains, or 0
  keyStore,        \* the KeyStore shared with the application
  pc,              \* where each call stands
  arg,             \* the frame each call decrypts
  previousTurn,    \* the local previousTurn of each call
  localLease,      \* the local lease object of each call
  usedKey,         \* the key each call found in the key store
  result,          \* how each call ended
  \* Variables below record history for the properties; no guard reads them.
  delivered,       \* the frames delivered, in order
  rewinds,         \* how many rewinds began
  checkScope,      \* the scope in which each call passed checkCounter
  commitScope,     \* the scope in which each call recorded its counter
  settledAtReset   \* calls settled at the last resetLease made while idle

shared == <<leaseRemaining, mode, liveMax, playback, keyStore>>
locals == <<arg, previousTurn, localLease, usedKey>>
history == <<delivered, rewinds, checkScope, commitScope, settledAtReset>>
vars == <<leaseRemaining, mode, liveMax, playback, decryptTail, keyStore, pc,
          arg, previousTurn, localLease, usedKey, result, delivered, rewinds,
          checkScope, commitScope, settledAtReset>>

Failures == {"malformed", "replay", "invalidSignature", "invalidKeyId",
             "aeadFailure", "invalidPadLength"}

Counters == [KeyIds -> Nat \cup {NoCtr}]

(* The stretch of playback a counter belongs to: 0 for all live playback,  *)
(* n for the n-th rewind.                                                  *)
Scope == IF mode = "live" THEN 0 ELSE rewinds

TypeOK ==
  /\ leaseRemaining \in Nat
  /\ mode \in {"live", "rewind"}
  /\ liveMax \in Counters /\ playback \in Counters
  /\ decryptTail \in 0..MaxCalls
  /\ keyStore \in [KeyIds -> Keys \cup {NoKey}]
  /\ pc \in [Calls -> {"idle", "queued", "verifying", "opening", "released"}]
  /\ arg \in [Calls -> FrameSet \cup {NoFrame}]
  /\ previousTurn \in [Calls -> 0..MaxCalls]
  /\ localLease \in [Calls -> Nat]
  /\ usedKey \in [Calls -> Keys \cup {NoKey}]
  /\ result \in [Calls -> {"none", "delivered"} \cup Failures]
  /\ delivered \in Seq(FrameSet)
  /\ rewinds \in 0..MaxRewinds
  /\ checkScope \in [Calls -> 0..MaxRewinds]
  /\ commitScope \in [Calls -> 0..MaxRewinds]
  /\ settledAtReset \subseteq Calls

Init ==
  /\ leaseRemaining = InitialLease
  /\ mode = "live"
  /\ liveMax = [k \in KeyIds |-> NoCtr]
  /\ playback = [k \in KeyIds |-> NoCtr]
  /\ decryptTail = 0
  /\ keyStore \in [KeyIds -> Keys \cup {NoKey}]
  /\ pc = [c \in Calls |-> "idle"]
  /\ arg = [c \in Calls |-> NoFrame]
  /\ previousTurn = [c \in Calls |-> 0]
  /\ localLease = [c \in Calls |-> 0]
  /\ usedKey = [c \in Calls |-> NoKey]
  /\ result = [c \in Calls |-> "none"]
  /\ delivered = <<>>
  /\ rewinds = 0
  /\ checkScope = [c \in Calls |-> 0]
  /\ commitScope = [c \in Calls |-> 0]
  \* With an initial lease, no call has to earn it from a signature.
  /\ settledAtReset = IF InitialLease = 0 THEN {} ELSE Calls

-----------------------------------------------------------------------------
(* decrypt(): the calls.                                                   *)

\* Variant: the call does not become the tail others wait for.
SubmitUnchained(f) ==
  \E c \in Calls :
    /\ pc[c] = "idle" /\ \A d \in Calls : d < c => pc[d] # "idle"
    /\ pc' = [pc EXCEPT ![c] = "queued"] /\ arg' = [arg EXCEPT ![c] = f]
    /\ previousTurn' = [previousTurn EXCEPT ![c] = decryptTail]
    /\ UNCHANGED <<shared, decryptTail, localLease, usedKey, result, history>>

\* The synchronous part of decrypt(), up to `await previousTurn`.
Submit(f) ==
  \E c \in Calls :
    /\ pc[c] = "idle"
    /\ \A d \in Calls : d < c => pc[d] # "idle"
    /\ pc' = [pc EXCEPT ![c] = "queued"]
    /\ arg' = [arg EXCEPT ![c] = f]
    /\ previousTurn' = [previousTurn EXCEPT ![c] = decryptTail]
    /\ decryptTail' = c
    /\ UNCHANGED <<shared, localLease, usedKey, result, history>>

(* previousTurn has resolved.  The promise that call c stores in           *)
(* #decryptTail resolves after c's own previousTurn and c's releaseTurn,   *)
(* and c releases only after its previousTurn resolved, so that the last   *)
(* release decides.                                                        *)
HasTurn(c) == previousTurn[c] # 0 => pc[previousTurn[c]] = "released"

\* Variant: no finally block, a failed call never releases its turn.
SettleOnSuccess(c, outcome) ==
  /\ pc' = IF outcome = "delivered" THEN [pc EXCEPT ![c] = "released"] ELSE pc
  /\ result' = [result EXCEPT ![c] = outcome]

\* The finally block: the call has its outcome and releases its turn.
Settle(c, outcome) ==
  /\ pc' = [pc EXCEPT ![c] = "released"]
  /\ result' = [result EXCEPT ![c] = outcome]

\* Variant: the last counter itself is not refused.
ReplayedStrictly(f) ==
  IF mode = "live" THEN f.ctr < liveMax[f.keyId] ELSE f.ctr < playback[f.keyId]

\* checkCounter throws.
Replayed(f) ==
  IF mode = "live" THEN f.ctr <= liveMax[f.keyId]
                   ELSE f.ctr <= playback[f.keyId]

MissingKey(f) == f.encrypted /\ keyStore[f.keyId] = NoKey

(* decodePlaintext after the signing gate: look the key up and await the   *)
(* AEAD.  An unencrypted frame awaits decryptFrame only.                   *)
FetchKey(c) ==
  \/ /\ MissingKey(arg[c])
     /\ Settle(c, "invalidKeyId")
     /\ UNCHANGED usedKey
  \/ /\ ~MissingKey(arg[c])
     /\ pc' = [pc EXCEPT ![c] = "opening"]
     /\ usedKey' = [usedKey EXCEPT ![c] = keyStore[arg[c].keyId]]
     /\ UNCHANGED result

\* The turn begins: parse, checkCounter, copy the lease, pass the gate.
Start(c) ==
  /\ pc[c] = "queued"
  /\ HasTurn(c)
  /\ localLease' = [localLease EXCEPT ![c] = leaseRemaining]
  /\ checkScope' = [checkScope EXCEPT ![c] = Scope]
  /\ LET f == arg[c] IN
       \/ /\ ~f.parses
          /\ Settle(c, "malformed")
          /\ UNCHANGED usedKey
       \/ /\ f.parses /\ Replayed(f)
          /\ Settle(c, "replay")
          /\ UNCHANGED usedKey
       \/ /\ f.parses /\ ~Replayed(f) /\ Signed(f)
          /\ pc' = [pc EXCEPT ![c] = "verifying"]
          /\ UNCHANGED <<usedKey, result>>
       \/ /\ f.parses /\ ~Replayed(f) /\ Leased(f) /\ leaseRemaining = 0
          /\ Settle(c, "invalidSignature")
          /\ UNCHANGED usedKey
       \/ /\ f.parses /\ ~Replayed(f) /\ ~Signed(f)
          /\ Leased(f) => leaseRemaining > 0
          /\ FetchKey(c)
  /\ UNCHANGED <<shared, decryptTail, arg, previousTurn, delivered, rewinds,
                 commitScope, settledAtReset>>

\* ed25519.verify answers.
FinishVerify(c) ==
  /\ pc[c] = "verifying"
  /\ \/ /\ ~arg[c].sigValid
        /\ Settle(c, "invalidSignature")
        /\ UNCHANGED usedKey
     \/ /\ arg[c].sigValid
        /\ FetchKey(c)
  /\ UNCHANGED <<shared, decryptTail, arg, previousTurn, localLease, history>>

\* Variant: the live counter is assigned, as the playback counter is.
RecordCounterAssigns(f) ==
  IF mode = "live"
  THEN liveMax' = [liveMax EXCEPT ![f.keyId] = f.ctr] /\ UNCHANGED playback
  ELSE playback' = [playback EXCEPT ![f.keyId] = f.ctr] /\ UNCHANGED liveMax

\* recordCounter, in the mode of the moment.
RecordCounter(f) ==
  IF mode = "live"
  THEN /\ liveMax' = [liveMax EXCEPT ![f.keyId] = IF f.ctr > @ THEN f.ctr ELSE @]
       /\ UNCHANGED playback
  ELSE /\ playback' = [playback EXCEPT ![f.keyId] = f.ctr]
       /\ UNCHANGED liveMax

\* decryptFrame resolved: commit the lease and the counter, release the turn.
Commit(c) ==
  /\ Opens(arg[c], usedKey[c]) /\ arg[c].padValid
  /\ leaseRemaining' = LeaseAfter(arg[c], localLease[c])
  /\ RecordCounter(arg[c])
  /\ Settle(c, "delivered")
  /\ delivered' = Append(delivered, arg[c])
  /\ commitScope' = [commitScope EXCEPT ![c] = Scope]

\* Variant: the counter is recorded before the frame is authenticated.
FinishOpenEager(c) ==
  /\ pc[c] = "opening"
  /\ \/ /\ ~(Opens(arg[c], usedKey[c]) /\ arg[c].padValid)
        /\ Settle(c, "aeadFailure")
        /\ RecordCounter(arg[c])
        /\ UNCHANGED <<leaseRemaining, delivered, commitScope>>
     \/ Commit(c)
  /\ UNCHANGED <<mode, keyStore, decryptTail, locals, rewinds, checkScope,
                 settledAtReset>>

\* aeadDecrypt answers, and decodePlaintext removes the padding.
FinishOpen(c) ==
  /\ pc[c] = "opening"
  /\ \/ /\ ~Opens(arg[c], usedKey[c])
        /\ Settle(c, "aeadFailure")
        /\ UNCHANGED <<leaseRemaining, liveMax, playback, delivered, commitScope>>
     \/ /\ Opens(arg[c], usedKey[c]) /\ ~arg[c].padValid
        /\ Settle(c, "invalidPadLength")
        /\ UNCHANGED <<leaseRemaining, liveMax, playback, delivered, commitScope>>
     \/ Commit(c)
  /\ UNCHANGED <<mode, keyStore, decryptTail, locals, rewinds, checkScope,
                 settledAtReset>>

-----------------------------------------------------------------------------
(* The player's and the application's other calls.                         *)

Active == {c \in Calls : pc[c] \in {"verifying", "opening"}}
Pending == {c \in Calls : pc[c] \in {"queued", "verifying", "opening"}}
Settled == {c \in Calls : pc[c] = "released"}

ControlAllowed == QuiescentControl => Pending = {}

BeginLive ==
  /\ ControlAllowed
  /\ mode' = "live"
  /\ UNCHANGED <<leaseRemaining, liveMax, playback, keyStore, decryptTail, pc,
                 locals, result, history>>

\* Variant: the playback cursor survives.
BeginRewindKeepsCursor ==
  /\ ControlAllowed
  /\ rewinds < MaxRewinds
  /\ mode' = "rewind" /\ rewinds' = rewinds + 1
  /\ UNCHANGED <<leaseRemaining, liveMax, playback, keyStore, decryptTail, pc,
                 locals, result, delivered, checkScope, commitScope, settledAtReset>>

BeginRewind ==
  /\ ControlAllowed
  /\ rewinds < MaxRewinds
  /\ mode' = "rewind"
  /\ playback' = [k \in KeyIds |-> NoCtr]
  /\ rewinds' = rewinds + 1
  /\ UNCHANGED <<leaseRemaining, liveMax, keyStore, decryptTail, pc, locals,
                 result, delivered, checkScope, commitScope, settledAtReset>>

\* Variant: one unsigned frame is still let through.
ResetLeaseToOne ==
  /\ ControlAllowed
  /\ leaseRemaining' = 1
  /\ settledAtReset' = IF Active = {} THEN Settled ELSE settledAtReset
  /\ UNCHANGED <<mode, liveMax, playback, keyStore, decryptTail, pc, locals,
                 result, delivered, rewinds, checkScope, commitScope>>

ResetLease ==
  /\ ControlAllowed
  /\ leaseRemaining' = 0
  /\ settledAtReset' = IF Active = {} THEN Settled ELSE settledAtReset
  /\ UNCHANGED <<mode, liveMax, playback, keyStore, decryptTail, pc, locals,
                 result, delivered, rewinds, checkScope, commitScope>>

\* keyStore.setKey / setKeyEncoded: a key is loaded or replaced.
SetKey(k, key) ==
  /\ ControlAllowed
  /\ keyStore' = [keyStore EXCEPT ![k] = key]
  /\ UNCHANGED <<leaseRemaining, mode, liveMax, playback, decryptTail, pc,
                 locals, result, history>>

Progress(c) == Start(c) \/ FinishVerify(c) \/ FinishOpen(c)

Next ==
  \/ \E f \in FrameSet : Submit(f)
  \/ \E c \in Calls : Start(c) \/ FinishVerify(c) \/ FinishOpen(c)
  \/ BeginLive \/ BeginRewind \/ ResetLease
  \/ \E k \in KeyIds, key \in Keys : SetKey(k, key)

Spec == Init /\ [][Next]_vars

(* The event loop runs every resolved continuation, and the crypto         *)
(* libraries settle every promise they return.                             *)
FairSpec == Spec /\ \A c \in Calls : WF_vars(Progress(c))

-----------------------------------------------------------------------------
(* Properties.                                                             *)

Delivered(c) == result[c] = "delivered"
SameKey(c, d) == arg[c].keyId = arg[d].keyId

(* decrypt() calls take their turns in submission order and one at a time: *)
(* a call past the queue has every earlier call settled.                   *)
Serialized ==
  \A c, d \in Calls :
    c < d /\ pc[d] \in {"verifying", "opening", "released"} => pc[c] = "released"

(* checkCounter and recordCounter: within live playback, and within one    *)
(* rewind, the counters delivered under a key id strictly increase.  A     *)
(* call in flight across beginLive or beginRewind belongs to the scope it  *)
(* commits in for later calls, and to the one it was checked in for        *)
(* earlier ones.                                                           *)
NoReplay ==
  \A c, d \in Calls :
    /\ c < d /\ Delivered(c) /\ Delivered(d)
    /\ SameKey(c, d) /\ commitScope[c] = checkScope[d]
    => arg[c].ctr < arg[d].ctr

(* CounterState: liveMaxCtr is the highest counter delivered in live mode, *)
(* and playbackCtr the highest delivered in the current rewind invocation; *)
(* so that refused, damaged or foreign frames never move the replay window,*)
(* and what is refused as a replay was preceded by a counter as high.      *)
DeliveredIn(scope, k) ==
  {arg[c].ctr : c \in {d \in Calls : /\ Delivered(d) /\ commitScope[d] = scope
                                     /\ arg[d].keyId = k}}
IsHighest(m, S) == IF S = {} THEN m = NoCtr ELSE m \in S /\ \A n \in S : n <= m

CountersAgree ==
  \A k \in KeyIds :
    /\ IsHighest(liveMax[k], DeliveredIn(0, k))
    /\ rewinds > 0 => IsHighest(playback[k], DeliveredIn(rewinds, k))

(* The lease: after a delivered signed frame and before the next one at    *)
(* most nSigned - 1 unsigned frames are delivered, and before any signed   *)
(* frame at most InitialLease, whatever the player does in between.        *)
LeasedBetween(s, c) ==
  {d \in Calls : s < d /\ d <= c /\ Delivered(d) /\ Leased(arg[d])}
Covers(s, c) ==
  /\ s = 0 \/ (Delivered(s) /\ Signed(arg[s]))
  /\ \A d \in Calls : s < d /\ d <= c => ~(Delivered(d) /\ Signed(arg[d]))

LeaseBounded ==
  \A s \in 0..MaxCalls, c \in Calls :
    s < c /\ Covers(s, c) =>
      Cardinality(LeasedBetween(s, c)) <=
        (IF s = 0 THEN InitialLease ELSE arg[s].nSigned - 1)

(* resetLease() made while no frame is being decrypted withdraws the       *)
(* lease: a leased frame that settles later has a signed frame delivered   *)
(* between the reset and it.  (Made while one is, the reset is overwritten *)
(* when that call commits its copy of the lease.)                          *)
LeaseEarned ==
  \A c \in Calls \ settledAtReset :
    Delivered(c) /\ Leased(arg[c]) =>
      \E s \in Calls \ settledAtReset :
        s < c /\ Delivered(s) /\ Signed(arg[s])

(* Every decrypt() call settles: a failed frame does not hold up the calls *)
(* queued behind it.                                                       *)
AllSettle == \A c \in Calls : pc[c] = "queued" ~> pc[c] = "released"

(* With control calls made while the queue is empty, the decrypter is the  *)
(* atomic receiver: each commit is a delivery, every other step of a call, *)
(* failures included, changes nothing the receiver keeps.                  *)
Abstract == INSTANCE Receiver WITH lease <- leaseRemaining
ReceiverSpec == Abstract!Spec

=============================================================================
