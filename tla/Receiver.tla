------------------------------ MODULE Receiver ------------------------------
(***************************************************************************)
(* What a moq-secure receiver promises, one atomic step per delivered      *)
(* frame: a frame is delivered exactly when it is well formed, newer than  *)
(* what the playback mode already delivered under its key id, covered by a *)
(* signature or a lease, and opened by the loaded key.  A refused frame    *)
(* changes nothing, so refusals are stuttering steps.                      *)
(***************************************************************************)
EXTENDS Frames, Sequences

CONSTANT InitialLease   \* 0, or the argument of MoqSecureDecrypter.withLease

VARIABLES
  lease,       \* unsigned frames that may still be accepted
  mode,        \* "live" or "rewind"
  liveMax,     \* per key id, highest counter delivered in live mode
  playback,    \* per key id, highest counter delivered in this rewind
  keyStore,    \* per key id, the loaded key
  delivered    \* the frames delivered, in order

rvars == <<lease, mode, liveMax, playback, keyStore, delivered>>

Init ==
  /\ lease = InitialLease
  /\ mode = "live"
  /\ liveMax = [k \in KeyIds |-> NoCtr]
  /\ playback = [k \in KeyIds |-> NoCtr]
  /\ keyStore \in [KeyIds -> Keys \cup {NoKey}]
  /\ delivered = <<>>

Fresh(f) ==
  IF mode = "live" THEN f.ctr > liveMax[f.keyId] ELSE f.ctr > playback[f.keyId]

Authorised(f) ==
  /\ Signed(f) => f.sigValid
  /\ Leased(f) => lease > 0

Deliver(f) ==
  /\ f.parses /\ Fresh(f) /\ Authorised(f)
  /\ Opens(f, keyStore[f.keyId]) /\ f.padValid
  /\ lease' = LeaseAfter(f, lease)
  /\ IF mode = "live"
     THEN liveMax' = [liveMax EXCEPT ![f.keyId] = f.ctr] /\ UNCHANGED playback
     ELSE playback' = [playback EXCEPT ![f.keyId] = f.ctr] /\ UNCHANGED liveMax
  /\ delivered' = Append(delivered, f)
  /\ UNCHANGED <<mode, keyStore>>

BeginLive ==
  /\ mode' = "live"
  /\ UNCHANGED <<lease, liveMax, playback, keyStore, delivered>>

BeginRewind ==
  /\ mode' = "rewind"
  /\ playback' = [k \in KeyIds |-> NoCtr]
  /\ UNCHANGED <<lease, liveMax, keyStore, delivered>>

ResetLease ==
  /\ lease' = 0
  /\ UNCHANGED <<mode, liveMax, playback, keyStore, delivered>>

SetKey(k, key) ==
  /\ keyStore' = [keyStore EXCEPT ![k] = key]
  /\ UNCHANGED <<lease, mode, liveMax, playback, delivered>>

Next ==
  \/ \E f \in FrameSet : Deliver(f)
  \/ BeginLive \/ BeginRewind \/ ResetLease
  \/ \E k \in KeyIds, key \in Keys : SetKey(k, key)

Spec == Init /\ [][Next]_rvars

=============================================================================
