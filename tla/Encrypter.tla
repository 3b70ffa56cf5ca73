----------------------------- MODULE Encrypter ------------------------------
(***************************************************************************)
(* MoqSecureEncrypter (js/src/encrypter.ts) with encryptFrame              *)
(* (js/src/wire.ts).  encrypt() allots the counter and the place in the    *)
(* signing schedule and reads the key before its first await; then it      *)
(* awaits the AEAD and, for a signed frame, the Ed25519 signature.  Calls  *)
(* run concurrently and finish in any order.  The application may replace  *)
(* the key between any two steps.                                          *)
(***************************************************************************)
EXTENDS Integers, Sequences

CONSTANTS
  MaxCalls,     \* bound: calls of encrypt() in a behaviour
  MaxKey,       \* bound: keys loaded one after the other
  NSigned,      \* nSigned: 0 never, n every n-th frame is signed
  InitialCtr,   \* initialCtr
  MaxU64,       \* the last counter value, 2^64 - 1 in the code
  Encrypted     \* encryptionType # NONE

\* What the constructor checks.
ASSUME EncrypterAssumption ==
  /\ MaxCalls \in Nat /\ MaxKey \in Nat
  /\ NSigned \in 0..255
  /\ MaxU64 \in Nat /\ InitialCtr \in 0..MaxU64
  /\ Encrypted \in BOOLEAN

Calls == 1..MaxCalls

VARIABLES
  ctr,          \* #ctr
  frameCount,   \* #frameCount
  key,          \* keyStore.aeadKey(keyId): 0 not loaded, n the n-th key
  pc,           \* where each call stands, in the order of the calls
  jobCtr,       \* header.ctr of each call
  jobSign,      \* header.sigFlag of each call
  jobKey,       \* the key each call seals with
  result,       \* how each call ended
  finished      \* history: the calls that returned a frame, in that order

jobs == <<jobCtr, jobSign, jobKey>>
vars == <<ctr, frameCount, key, pc, jobCtr, jobSign, jobKey, result, finished>>

TypeOK ==
  /\ ctr \in InitialCtr..MaxU64
  /\ frameCount \in Nat
  /\ key \in 0..MaxKey
  /\ pc \in [Calls -> {"idle", "sealing", "signing", "done"}]
  /\ jobCtr \in [Calls -> InitialCtr..MaxU64]
  /\ jobSign \in [Calls -> BOOLEAN]
  /\ jobKey \in [Calls -> 0..MaxKey]
  /\ result \in [Calls -> {"none", "frame", "counterExhausted", "invalidKeyId"}]
  /\ finished \in Seq(Calls)

Init ==
  /\ ctr = InitialCtr
  /\ frameCount = 0
  /\ key \in {0, 1} \cap 0..MaxKey
  /\ pc = [c \in Calls |-> "idle"]
  /\ jobCtr = [c \in Calls |-> InitialCtr]
  /\ jobSign = [c \in Calls |-> FALSE]
  /\ jobKey = [c \in Calls |-> 0]
  /\ result = [c \in Calls |-> "none"]
  /\ finished = <<>>

\* The call the application makes next.
NextCall(c) == pc[c] = "idle" /\ \A d \in Calls : d < c => pc[d] # "idle"

\* Variant: the last frame of an interval is signed, not the first.
ShouldSignLast == NSigned # 0 /\ frameCount % NSigned = NSigned - 1

ShouldSign == NSigned # 0 /\ frameCount % NSigned = 0

\* takeCounter throws, and nothing is allotted.
RefuseExhausted(c) ==
  /\ NextCall(c)
  /\ ctr = MaxU64
  /\ pc' = [pc EXCEPT ![c] = "done"]
  /\ result' = [result EXCEPT ![c] = "counterExhausted"]
  /\ UNCHANGED <<ctr, frameCount, key, jobs, finished>>

\* Variants: the counter space is not watched; it wraps around; a call that
\* will fail does not count as a frame.
AllotUnwatched(c) ==
  /\ NextCall(c)
  /\ jobCtr' = [jobCtr EXCEPT ![c] = ctr]
  /\ jobSign' = [jobSign EXCEPT ![c] = ShouldSign]
  /\ ctr' = ctr + 1 /\ frameCount' = frameCount + 1
AllotWrapping(c) ==
  /\ NextCall(c)
  /\ jobCtr' = [jobCtr EXCEPT ![c] = ctr]
  /\ jobSign' = [jobSign EXCEPT ![c] = ShouldSign]
  /\ ctr' = IF ctr + 1 = MaxU64 THEN InitialCtr ELSE ctr + 1
  /\ frameCount' = frameCount + 1
AllotSkippingFailures(c) ==
  /\ NextCall(c) /\ ctr # MaxU64
  /\ jobCtr' = [jobCtr EXCEPT ![c] = ctr]
  /\ jobSign' = [jobSign EXCEPT ![c] = ShouldSign]
  /\ ctr' = ctr + 1
  /\ frameCount' = IF Encrypted /\ key = 0 THEN frameCount ELSE frameCount + 1

\* takeCounter, shouldSign and frameCount++, whatever becomes of the frame.
Allot(c) ==
  /\ NextCall(c)
  /\ ctr # MaxU64
  /\ jobCtr' = [jobCtr EXCEPT ![c] = ctr]
  /\ jobSign' = [jobSign EXCEPT ![c] = ShouldSign]
  /\ ctr' = ctr + 1
  /\ frameCount' = frameCount + 1

\* encryptFrame finds no key and throws: the counter and the slot are spent.
RefuseNoKey(c) ==
  /\ Allot(c)
  /\ Encrypted /\ key = 0
  /\ pc' = [pc EXCEPT ![c] = "done"]
  /\ result' = [result EXCEPT ![c] = "invalidKeyId"]
  /\ UNCHANGED <<key, jobKey, finished>>

\* encryptFrame runs up to its first await.  An unencrypted unsigned frame
\* awaits encryptFrame only; it waits in "sealing" with no key.
Begin(c) ==
  /\ Allot(c)
  /\ Encrypted => key # 0
  /\ pc' = [pc EXCEPT ![c] = IF ~Encrypted /\ ShouldSign THEN "signing" ELSE "sealing"]
  /\ jobKey' = [jobKey EXCEPT ![c] = IF Encrypted THEN key ELSE 0]
  /\ UNCHANGED <<key, result, finished>>

Return(c) ==
  /\ pc' = [pc EXCEPT ![c] = "done"]
  /\ result' = [result EXCEPT ![c] = "frame"]
  /\ finished' = Append(finished, c)

\* Variant: the key is read when the AEAD runs, not when the call is made.
FinishSealLateKey(c) ==
  /\ pc[c] = "sealing"
  /\ jobKey' = [jobKey EXCEPT ![c] = key]
  /\ \/ /\ jobSign[c]
        /\ pc' = [pc EXCEPT ![c] = "signing"]
        /\ UNCHANGED <<result, finished>>
     \/ ~jobSign[c] /\ Return(c)
  /\ UNCHANGED <<ctr, frameCount, key, jobCtr, jobSign>>

\* aeadEncrypt answers: sign the frame, or return it.
FinishSeal(c) ==
  /\ pc[c] = "sealing"
  /\ \/ /\ jobSign[c]
        /\ pc' = [pc EXCEPT ![c] = "signing"]
        /\ UNCHANGED <<result, finished>>
     \/ ~jobSign[c] /\ Return(c)
  /\ UNCHANGED <<ctr, frameCount, key, jobs>>

\* ed25519.sign answers.
FinishSign(c) ==
  /\ pc[c] = "signing"
  /\ Return(c)
  /\ UNCHANGED <<ctr, frameCount, key, jobs>>

\* keyStore.setKey replaces the key of the encrypter's key id.
SetKey ==
  /\ key < MaxKey
  /\ key' = key + 1
  /\ UNCHANGED <<ctr, frameCount, pc, jobs, result, finished>>

Done == \A c \in Calls : pc[c] = "done"

Next ==
  \/ \E c \in Calls : \/ RefuseExhausted(c) \/ RefuseNoKey(c) \/ Begin(c)
                      \/ FinishSeal(c) \/ FinishSign(c)
  \/ SetKey
  \/ Done /\ UNCHANGED vars

Spec == Init /\ [][Next]_vars

-----------------------------------------------------------------------------
(* Properties.                                                             *)

\* A counter was allotted to the call, even if the call failed afterwards.
Allotted(c) == pc[c] # "idle" /\ result[c] # "counterExhausted"

(* takeCounter: no two calls are allotted the same counter, up to the end  *)
(* of the counter space, so no (key_id, ctr) nonce repeats in one          *)
(* encrypter.                                                              *)
NonceUnique ==
  \A c, d \in Calls :
    Allotted(c) /\ Allotted(d) /\ c # d => jobCtr[c] # jobCtr[d]

(* shouldSign: the signed frames are every NSigned-th counter from the     *)
(* first, however calls interleave, fail or finish; so NSigned frames with *)
(* successive counters always hold exactly one signed frame.               *)
ScheduleByCounter ==
  \A c \in Calls : Allotted(c) =>
    (jobSign[c] <=> NSigned # 0 /\ (jobCtr[c] - InitialCtr) % NSigned = 0)

(* A key change cuts the stream at one counter: a call made before the     *)
(* change seals with the old key and one made after it with the new, even  *)
(* when it finishes first.                                                 *)
Sealed(c) == Encrypted /\ (pc[c] \in {"sealing", "signing"} \/ result[c] = "frame")
KeyCut ==
  \A c, d \in Calls :
    Sealed(c) /\ Sealed(d) /\ jobCtr[c] < jobCtr[d] => jobKey[c] <= jobKey[d]

=============================================================================
