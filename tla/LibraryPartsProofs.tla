-------------------------- MODULE LibraryPartsProofs --------------------------
(***************************************************************************)
(* The four parts of the TypeScript library that MCLibraryParts checks, on *)
(* their own and without its bounds: the stream adapters for sources of    *)
(* any length, the key stores for texts of any length, the byte buffers    *)
(* for any number of calls and overwritings, and the binding of a frame    *)
(* for any senders that may share keys.                                    *)
(***************************************************************************)
EXTENDS MCLibraryParts, SequenceTheorems, TLAPS

-----------------------------------------------------------------------------
(* Streams.                                                                *)

UpTo(k) == [n \in 1..k |-> n]

(* The source is read only for an empty queue, so that an error, which     *)
(* discards the queue, discards no chunk.                                  *)
QueueInv ==
  /\ produced \in Nat /\ queue \in Seq(Nat)
  /\ pulling => queue = <<>> /\ source = "open"
  /\ reader = "reading" => queue = <<>> /\ stream = "readable"
  /\ stopped => queue = <<>> /\ stream # "readable" /\ reader \notin {"idle", "reading"}

\* A stream is closed by its consumer or by the end of its source.
EndInv ==
  /\ stream \in {"readable", "closed", "errored"}
  /\ stream = "closed" => stopped \/ source = "ended"
  /\ stream = "errored" => source = "failed" /\ queue = <<>>
  /\ reader = "finally" => queue = <<>> /\ stream # "readable"
  /\ reader = "done" => queue = <<>> /\ stream = "closed"
  /\ reader = "threw" => stream = "errored"

\* The queue holds nothing or the last chunk; the consumer has the others.
OutInv ==
  \/ stopped
  \/ queue = <<>> /\ out = UpTo(produced)
  \/ queue = <<produced>> /\ produced # 0 /\ out = UpTo(produced - 1)

StreamInv == QueueInv /\ EndInv /\ OutInv

LEMMA AppendNext ==
  ASSUME NEW k \in Nat
  PROVE  Append(UpTo(k), k + 1) = UpTo(k + 1)
<1>1. UpTo(k) \in Seq(Nat) /\ Len(UpTo(k)) = k /\ UpTo(k + 1) \in Seq(Nat)
  BY DEF UpTo
<1>2. /\ Len(Append(UpTo(k), k + 1)) = k + 1 /\ Append(UpTo(k), k + 1) \in Seq(Nat)
      /\ \A i \in 1..k + 1 : Append(UpTo(k), k + 1)[i] = i
  BY <1>1 DEF UpTo
<1>3. Len(UpTo(k + 1)) = k + 1 /\ \A i \in 1..k + 1 : UpTo(k + 1)[i] = i
  BY DEF UpTo
<1> QED BY <1>1, <1>2, <1>3, SeqEqual

LEMMA StreamInit == Init => StreamInv
<1> SUFFICES ASSUME Init PROVE StreamInv
  OBVIOUS
<1>1. UpTo(0) = <<>>
  BY DEF UpTo
<1> QED BY <1>1 DEF Init, StreamInv, QueueInv, EndInv, OutInv

LEMMA StreamStep == StreamInv /\ [Next]_vars => StreamInv'
<1> SUFFICES ASSUME StreamInv, [Next]_vars PROVE StreamInv'
  OBVIOUS
<1> USE DEF StreamInv, QueueInv, EndInv, OutInv
<1>1. CASE Pull
  BY <1>1 DEF Pull, MayPull
<1>2. CASE NextChunk
  <2>1. Append(UpTo(produced), produced') = UpTo(produced')
    BY <1>2, AppendNext DEF NextChunk
  <2>2. QueueInv' /\ EndInv'
    <3>1. CASE stream = "readable" /\ reader = "reading"
      BY <1>2, <3>1 DEF NextChunk
    <3>2. CASE stream = "readable" /\ reader # "reading"
      <4>1. queue' \in Seq(Nat) /\ produced' \in Nat
        <5>1. queue' = Append(queue, produced') /\ produced' = produced + 1
          BY <1>2, <3>2 DEF NextChunk
        <5>2. produced \in Nat /\ queue \in Seq(Nat)
          OBVIOUS
        <5>3. produced' \in Nat
          BY <5>1, <5>2
        <5> HIDE DEF StreamInv, QueueInv, EndInv, OutInv
        <5> QED BY <5>1, <5>2, <5>3, AppendProperties
      <4>2. ~stopped /\ stopped' = stopped /\ ~pulling'
        BY <1>2, <3>2 DEF NextChunk
      <4> QED BY <1>2, <3>2, <4>1, <4>2 DEF NextChunk
    <3>3. CASE stream = "closed"
      BY <1>2, <3>3 DEF NextChunk
    <3> QED BY <1>2, <3>1, <3>2, <3>3 DEF NextChunk
  <2>3. OutInv'
    <3>1. produced' = produced + 1 /\ produced' # 0 /\ produced' - 1 = produced
      BY <1>2 DEF NextChunk
    <3>2. CASE stopped
      BY <1>2, <3>2 DEF NextChunk
    <3>3. CASE ~stopped
      <4>1. queue = <<>> /\ out = UpTo(produced)
        BY <1>2, <3>3 DEF NextChunk
      <4>2. stream = "readable"
        BY <1>2, <3>3 DEF NextChunk
      <4>3. CASE reader = "reading"
        BY <1>2, <2>1, <4>1, <4>2, <4>3 DEF NextChunk
      <4>4. CASE reader # "reading"
        <5>1. queue' = <<produced'>> /\ out' = out
          BY <1>2, <4>1, <4>2, <4>4 DEF NextChunk
        <5> QED BY <3>1, <4>1, <5>1
      <4> QED BY <4>3, <4>4
    <3> QED BY <3>2, <3>3
  <2> QED BY <2>2, <2>3
<1>3. CASE NextDone
  BY <1>3 DEF NextDone, Close
<1>4. CASE NextFails
  BY <1>4 DEF NextFails
<1>5. CASE Read
  <2>1. CASE queue = <<>>
    BY <1>5, <2>1 DEF Read
  <2>2. CASE queue # <<>>
    <3>1. queue = <<produced>> /\ produced # 0 /\ out = UpTo(produced - 1)
      BY <1>5, <2>2 DEF Read
    <3>2. queue' = <<>> /\ out' = Append(out, produced)
      BY <1>5, <2>2, <3>1 DEF Read
    <3>3. Append(out, produced) = UpTo(produced)
      <4>1. produced - 1 \in Nat /\ (produced - 1) + 1 = produced
        BY <3>1
      <4> QED BY <3>1, <4>1, AppendNext
    <3> QED BY <1>5, <2>2, <3>2, <3>3 DEF Read
  <2> QED BY <2>1, <2>2
<1>6. CASE Stop
  BY <1>6 DEF Stop
<1>7. CASE ReturnSource
  BY <1>7 DEF ReturnSource
<1>8. CASE Finish
  BY <1>8 DEF Finish
<1>9. CASE UNCHANGED vars
  BY <1>9 DEF vars
<1> QED BY <1>1, <1>2, <1>3, <1>4, <1>5, <1>6, <1>7, <1>8, <1>9 DEF Next

(* Every chunk of the source reaches the consumer, once and in order, and  *)
(* an error of the source discards none (asyncIterableToReadableStream).   *)
THEOREM NoChunkLost == Spec => []NothingLost
<1>1. StreamInv => NothingLost
  <2> SUFFICES ASSUME StreamInv, ~stopped PROVE out \o queue = UpTo(produced)
    BY DEF NothingLost, Produced, UpTo
  <2>1. \A k \in Nat : UpTo(k) \in Seq(Nat) /\ UpTo(k) \o <<>> = UpTo(k)
    <3> TAKE k \in Nat
    <3>1. UpTo(k) \in Seq(Nat)
      BY DEF UpTo
    <3> QED BY <3>1, ConcatEmptySeq
  <2>2. CASE queue = <<>> /\ out = UpTo(produced)
    BY <2>1, <2>2 DEF StreamInv, QueueInv
  <2>3. CASE queue = <<produced>> /\ produced # 0 /\ out = UpTo(produced - 1)
    <3>1. produced - 1 \in Nat /\ (produced - 1) + 1 = produced
      BY <2>3 DEF StreamInv, QueueInv
    <3>2. out \o <<produced>> = Append(out, produced)
      BY <2>1, <2>3, <3>1
    <3> QED BY <2>3, <3>1, <3>2, AppendNext
  <2> QED BY <2>2, <2>3 DEF StreamInv, OutInv
<1> QED BY <1>1, StreamInit, StreamStep, PTL DEF Spec

(* A consumer that sees the end has seen the whole of a source that ended; *)
(* one that sees an error has a source that failed.                        *)
THEOREM EndsAgree == Spec => []EndsAsSource
<1>1. StreamInv => EndsAsSource
  <2> SUFFICES ASSUME StreamInv PROVE EndsAsSource
    OBVIOUS
  <2>1. reader = "done" /\ ~stopped => source = "ended" /\ out = UpTo(produced)
    BY DEF StreamInv, QueueInv, EndInv, OutInv
  <2>2. reader = "threw" => source = "failed"
    BY DEF StreamInv, EndInv
  <2> QED BY <2>1, <2>2 DEF EndsAsSource, Produced, UpTo
<1> QED BY <1>1, StreamInit, StreamStep, PTL DEF Spec

(* Liveness of the streams.  The fairness of FairSpec is stated with the   *)
(* condition under which each step can be taken in place of ENABLED: a     *)
(* step that stays possible is taken again and again.                      *)

Answer == NextChunk \/ NextDone \/ NextFails
CanPull == stream = "readable" /\ ~pulling /\ source = "open" /\ queue = <<>>
CanAnswer == pulling /\ source = "open"
CanReturn == reader = "finally" /\ stopped /\ stream = "closed" /\ source = "open" /\ ~pulling
CanFinish ==
  reader = "finally" /\ (stream = "errored" \/ (stream = "closed" /\ source # "open"))

PullFair == []<>~CanPull \/ []<><<Pull>>_vars
AnswerFair == []<>~CanAnswer \/ []<><<Answer>>_vars
ReturnFair == []<>~CanReturn \/ []<><<ReturnSource>>_vars
FinishFair == []<>~CanFinish \/ []<><<Finish>>_vars

\* A stream that can be read has its source open; a consumer that stopped waits
\* in its finally block for the source to return.
WaitInv ==
  /\ pulling \in BOOLEAN
  /\ stream = "readable" => source = "open"
  /\ source = "open" /\ stopped => reader = "finally" /\ stream = "closed"

LiveInv == StreamInv /\ WaitInv

LEMMA LiveInit == Init => LiveInv
BY StreamInit DEF Init, LiveInv, WaitInv

LEMMA LiveStep == LiveInv /\ [Next]_vars => LiveInv'
<1> SUFFICES ASSUME LiveInv, [Next]_vars PROVE WaitInv'
  BY StreamStep DEF LiveInv
<1> USE DEF LiveInv, WaitInv
<1>1. CASE Pull
  BY <1>1 DEF Pull
<1>7. CASE UNCHANGED vars
  BY <1>7 DEF vars
<1>5. CASE Read
  <2>1. ~stopped /\ UNCHANGED <<stopped, pulling, source, stream>>
    BY <1>5 DEF Read, StreamInv, QueueInv
  <2> QED BY <2>1
<1>6. CASE NextChunk
  <2>1. /\ UNCHANGED <<source, stream, stopped>> /\ pulling' = FALSE
        /\ reader' = reader \/ stream = "readable"
    BY <1>6 DEF NextChunk
  <2> QED BY <2>1
<1>2. CASE NextDone \/ NextFails
  BY <1>2 DEF NextDone, NextFails, Close
<1>3. CASE Stop
  BY <1>3 DEF Stop, StreamInv, EndInv
<1>4. CASE ReturnSource \/ Finish
  BY <1>4 DEF ReturnSource, Finish, StreamInv, EndInv
<1> QED BY <1>1, <1>2, <1>3, <1>4, <1>5, <1>6, <1>7 DEF Next

\* The consumer has stopped, and the source is still open: next() or return().
LeavesBusy == stopped /\ source = "open" /\ pulling
LeavesFree == stopped /\ source = "open" /\ ~pulling

LEMMA LeavingSteps ==
  ASSUME LiveInv, [Next]_vars
  PROVE  /\ LeavesBusy => LeavesBusy' \/ LeavesFree' \/ (source # "open")'
         /\ LeavesFree => LeavesFree' \/ (source # "open")'
         /\ LeavesBusy /\ Answer => LeavesFree' \/ (source # "open")'
         /\ LeavesFree => CanReturn
         /\ ReturnSource => (source # "open")'
<1> USE DEF LiveInv, WaitInv, LeavesBusy, LeavesFree
<1>1. LeavesBusy /\ Answer => LeavesFree' \/ (source # "open")'
  BY DEF Answer, NextChunk, NextDone, NextFails
<1>2. LeavesBusy \/ LeavesFree => ~Pull /\ ~Read /\ ~Stop
  BY DEF Pull, Read, Stop
<1>3. LeavesFree => ~Answer
  BY DEF Answer, NextChunk, NextDone, NextFails
<1>4. ReturnSource => (source # "open")'
  BY DEF ReturnSource
<1>5. Finish \/ UNCHANGED vars => UNCHANGED <<stopped, source, pulling>>
  BY DEF Finish, vars
<1>6. LeavesFree => CanReturn
  BY DEF CanReturn
<1> QED BY <1>1, <1>2, <1>3, <1>4, <1>5, <1>6 DEF Next, Answer

(* A consumer that stops leaves no source open, also with a pull pending:  *)
(* the source is busy until it answers, and then returns.                  *)
THEOREM StoppedSourceReleased == Spec /\ AnswerFair /\ ReturnFair => SourceReleased
<1>1. stopped => LeavesBusy \/ LeavesFree \/ source # "open"
  BY DEF LeavesBusy, LeavesFree
<1>2. LiveInv /\ LeavesBusy /\ [Next]_vars => LeavesBusy' \/ LeavesFree' \/ (source # "open")'
  BY LeavingSteps
<1>3. LiveInv /\ LeavesFree /\ [Next]_vars => LeavesFree' \/ (source # "open")'
  BY LeavingSteps
<1>4. LiveInv /\ LeavesBusy /\ <<Answer>>_vars => LeavesFree' \/ (source # "open")'
  BY LeavingSteps DEF Next, Answer
<1>5. <<ReturnSource>>_vars => (source # "open")'
  BY DEF ReturnSource
<1>6. LeavesBusy => CanAnswer
  BY DEF LeavesBusy, CanAnswer
<1>7. LiveInv /\ LeavesFree => CanReturn
  BY DEF LiveInv, WaitInv, LeavesFree, CanReturn
<1> QED
  BY <1>1, <1>2, <1>3, <1>4, <1>5, <1>6, <1>7, LiveInit, LiveStep, PTL
  DEF Spec, AnswerFair, ReturnFair, SourceReleased

\* A read that waits, and the finally block after it.
Over == reader \notin {"reading", "finally"}
AsksSoon == reader = "reading" /\ ~pulling
Asked == reader = "reading" /\ pulling
EndsBusy == reader = "finally" /\ LeavesBusy
EndsFree == reader = "finally" /\ LeavesFree
EndsSoon == reader = "finally" /\ source # "open"

LEMMA ReadCases ==
  ASSUME LiveInv
  PROVE  /\ Over \/ AsksSoon \/ Asked \/ EndsBusy \/ EndsFree \/ EndsSoon
         /\ AsksSoon => CanPull
         /\ Asked \/ EndsBusy => CanAnswer
         /\ EndsFree => CanReturn
         /\ EndsSoon => CanFinish
<1> USE DEF LiveInv, WaitInv, StreamInv, QueueInv, EndInv
<1>1. reader = "finally" /\ source = "open" => stopped
  OBVIOUS
<1>2. Over \/ AsksSoon \/ Asked \/ EndsBusy \/ EndsFree \/ EndsSoon
  BY <1>1 DEF Over, AsksSoon, Asked, EndsBusy, EndsFree, EndsSoon, LeavesBusy, LeavesFree
<1>3. AsksSoon => CanPull
  BY DEF AsksSoon, CanPull
<1>4. Asked \/ EndsBusy => CanAnswer
  BY DEF Asked, EndsBusy, LeavesBusy, CanAnswer
<1>5. EndsFree => CanReturn
  BY DEF EndsFree, LeavesFree, CanReturn
<1>6. EndsSoon => CanFinish
  BY DEF EndsSoon, CanFinish
<1> QED BY <1>2, <1>3, <1>4, <1>5, <1>6

LEMMA ReadSteps ==
  ASSUME LiveInv, [Next]_vars
  PROVE  /\ AsksSoon => AsksSoon' \/ Asked'
         /\ Asked => ~AsksSoon'
         /\ reader = "finally" => (reader = "finally")' \/ Over'
         /\ EndsSoon => EndsSoon' \/ Over'
<1> USE DEF LiveInv, WaitInv
<1>1. AsksSoon => AsksSoon' \/ Asked'
  <2> SUFFICES ASSUME reader = "reading", ~pulling PROVE reader' = "reading"
    BY DEF AsksSoon, Asked
  <2> QED BY DEF Next, Pull, NextChunk, NextDone, NextFails, Read, Stop, ReturnSource,
                 Finish, vars
<1>2. Asked => ~AsksSoon'
  <2> SUFFICES ASSUME reader = "reading", pulling PROVE pulling' \/ reader' # "reading"
    BY DEF Asked, AsksSoon
  <2>1. stream = "readable"
    BY DEF StreamInv, QueueInv
  <2>2. NextChunk \/ NextDone \/ NextFails => reader' # "reading"
    BY <2>1 DEF NextChunk, NextDone, NextFails, Close
  <2>3. ~Pull /\ ~Read /\ ~Stop /\ ~ReturnSource /\ ~Finish
    BY DEF Pull, Read, Stop, ReturnSource, Finish
  <2>4. UNCHANGED vars => pulling'
    BY DEF vars
  <2> QED BY <2>2, <2>3, <2>4 DEF Next
<1>3. reader = "finally" => (reader = "finally")' \/ Over'
  <2> SUFFICES ASSUME reader = "finally" PROVE reader' \in {"finally", "done", "threw"}
    BY DEF Over
  <2>1. NextChunk \/ NextDone \/ NextFails => reader' = reader
    BY DEF NextChunk, NextDone, NextFails, Close
  <2>2. Pull \/ ReturnSource \/ UNCHANGED vars => reader' = reader
    BY DEF Pull, ReturnSource, vars
  <2>3. ~Read /\ ~Stop
    BY DEF Read, Stop
  <2>4. Finish => reader' \in {"done", "threw"}
    BY DEF Finish
  <2> QED BY <2>1, <2>2, <2>3, <2>4 DEF Next
<1>4. source # "open" => (source # "open")'
  BY DEF Next, Pull, NextChunk, NextDone, NextFails, Read, Stop, ReturnSource, Finish, vars
<1> QED BY <1>1, <1>2, <1>3, <1>4 DEF EndsSoon

(* A read settles, with a chunk, with the end or with an error; and the    *)
(* consumer of an iteration that is over comes out of its finally block.   *)
THEOREM ReadAlwaysSettles ==
  Spec /\ PullFair /\ AnswerFair /\ ReturnFair /\ FinishFair => ReadSettles
<1>1. LiveInv => Over \/ AsksSoon \/ Asked \/ EndsBusy \/ EndsFree \/ EndsSoon
  BY ReadCases
<1>2. LiveInv => /\ AsksSoon => CanPull
                 /\ Asked \/ EndsBusy => CanAnswer
                 /\ EndsFree => CanReturn
                 /\ EndsSoon => CanFinish
  BY ReadCases
<1>3. LiveInv /\ [Next]_vars =>
        /\ AsksSoon => AsksSoon' \/ Asked'
        /\ Asked => ~AsksSoon'
        /\ EndsBusy => EndsBusy' \/ EndsFree' \/ EndsSoon' \/ Over'
        /\ EndsFree => EndsFree' \/ EndsSoon' \/ Over'
        /\ EndsSoon => EndsSoon' \/ Over'
  <2> SUFFICES ASSUME LiveInv, [Next]_vars
               PROVE  /\ EndsBusy => EndsBusy' \/ EndsFree' \/ EndsSoon' \/ Over'
                      /\ EndsFree => EndsFree' \/ EndsSoon' \/ Over'
    BY ReadSteps
  <2> QED BY ReadSteps, LeavingSteps DEF EndsBusy, EndsFree, EndsSoon
<1>4. <<Pull>>_vars => ~AsksSoon'
  BY DEF Pull, AsksSoon
<1>5. <<Answer>>_vars => ~Asked' /\ ~EndsBusy'
  BY DEF Answer, NextChunk, NextDone, NextFails, Asked, EndsBusy, LeavesBusy
<1>6. <<ReturnSource>>_vars => ~EndsFree'
  BY DEF ReturnSource, EndsFree, LeavesFree
<1>7. <<Finish>>_vars => Over'
  BY DEF Finish, Over
<1>8. /\ reader \in {"reading", "finally"} <=> ~Over
      /\ reader \notin {"reading", "finally"} <=> Over
  BY DEF Over
<1>9. Spec => []LiveInv
  BY LiveInit, LiveStep, PTL DEF Spec
<1>10. Spec /\ PullFair => (AsksSoon ~> Asked)
  BY <1>2, <1>3, <1>4, <1>9, PTL DEF Spec, PullFair
<1>11. Spec /\ AnswerFair => (Asked ~> EndsBusy \/ EndsFree \/ EndsSoon \/ Over)
  BY <1>1, <1>2, <1>3, <1>5, <1>9, PTL DEF Spec, AnswerFair
<1>12. Spec /\ AnswerFair => (EndsBusy ~> EndsFree \/ EndsSoon \/ Over)
  BY <1>2, <1>3, <1>5, <1>9, PTL DEF Spec, AnswerFair
<1>13. Spec /\ ReturnFair => (EndsFree ~> EndsSoon \/ Over)
  BY <1>2, <1>3, <1>6, <1>9, PTL DEF Spec, ReturnFair
<1>14. Spec /\ FinishFair => (EndsSoon ~> Over)
  BY <1>2, <1>3, <1>7, <1>9, PTL DEF Spec, FinishFair
<1> QED BY <1>1, <1>8, <1>9, <1>10, <1>11, <1>12, <1>13, <1>14, PTL DEF ReadSettles

-----------------------------------------------------------------------------
(* Key stores.                                                             *)

(* A store reads 32 bytes from 64 hexadecimal or 43 Base64 digits; 43 is   *)
(* odd, so that the chat library, which tries hexadecimal for any even     *)
(* number of digits, reads them as Base64 too.                             *)
LEMMA LoadedAlike ==
  ASSUME NEW t \in Keys!Texts
  PROVE  /\ Keys!RsDecode(t).code = "loaded" =>
              /\ Keys!JsDecode(t) = Keys!RsDecode(t)
              /\ Keys!ChatDecode(t) = Keys!RsDecode(t)
         /\ Keys!ChatDecode(t).code = "loaded" => Keys!RsDecode(t).code = "loaded"
<1> DEFINE rest == t.restBits
           hex  == t.digits = "hex"
           std  == t.digits \in {"hex", "std"}
<1>1. t.n \in Nat /\ t.pad \in 0..2
  BY PartsAssumption DEF Keys!Texts
<1>2. (t.n * 6) \div 8 = 32 <=> t.n = 43
  BY <1>1
<1>3. /\ Keys!Base64Bytes(t) = 32 <=> t.n = 43
      /\ Keys!FullPad(t) \in 0..3 /\ (t.n = 43 => Keys!FullPad(t) = 1 /\ t.n % 4 = 3)
  BY <1>1, <1>2 DEF Keys!Base64Bytes, Keys!FullPad
<1>4. /\ t.n = 64 => t.n % 2 = 0 /\ t.n \div 2 = 32
      /\ t.n % 2 = 0 /\ t.n \div 2 = 32 => t.n = 64
      /\ t.n = 43 => t.n % 2 # 0 /\ t.n # 64
  BY <1>1
<1>5. Keys!RsBase64(t) /\ t.n = 43 => Keys!JsBase64(t)
  BY <1>1, <1>3 DEF Keys!RsBase64, Keys!JsBase64
<1>6. \A n, as : (Keys!Sized(n, as).code = "loaded" <=> n = 32)
                  /\ Keys!Failed("KeyWrongLength").code # "loaded"
                  /\ Keys!Failed("DecodeFailed").code # "loaded"
  BY DEF Keys!Sized, Keys!Failed
<1>7. CASE Keys!DecodeHex(t)
  <2>1. t.digits = "hex" /\ t.pad = 0 /\ t.n % 2 = 0 /\ t.n \div 2 = 32
    BY <1>4, <1>7 DEF Keys!DecodeHex
  <2> QED BY <1>7, <2>1 DEF Keys!RsDecode, Keys!JsDecode, Keys!ChatDecode
<1>8. CASE ~Keys!DecodeHex(t)
  <2>1. Keys!RsDecode(t).code = "loaded" <=> Keys!RsBase64(t) /\ t.n = 43
    BY <1>3, <1>6, <1>8 DEF Keys!RsDecode
  <2>2. Keys!RsBase64(t) /\ t.n = 43 => Keys!JsDecode(t) = Keys!RsDecode(t)
    BY <1>5, <1>8 DEF Keys!RsDecode, Keys!JsDecode
  <2>3. Keys!RsBase64(t) /\ t.n = 43 => Keys!ChatDecode(t) = Keys!RsDecode(t)
    BY <1>4, <1>8 DEF Keys!RsDecode, Keys!ChatDecode
  <2>4. Keys!ChatDecode(t).code = "loaded" => Keys!RsBase64(t) /\ t.n = 43
    <3>1. CASE t.digits = "hex" /\ t.pad = 0 /\ t.n % 2 = 0
      <4>1. Keys!ChatDecode(t) = Keys!Sized(t.n \div 2, "hex")
        BY <3>1 DEF Keys!ChatDecode
      <4>2. t.n \div 2 # 32
        BY <1>4, <1>8, <3>1 DEF Keys!DecodeHex
      <4> QED BY <1>6, <4>1, <4>2
    <3>2. CASE ~(t.digits = "hex" /\ t.pad = 0 /\ t.n % 2 = 0)
      <4>1. Keys!ChatDecode(t) = IF Keys!RsBase64(t) THEN Keys!Sized(Keys!Base64Bytes(t), "base64")
                                 ELSE Keys!Failed("DecodeFailed")
        BY <3>2 DEF Keys!ChatDecode
      <4> QED BY <1>3, <1>6, <4>1
    <3> QED BY <3>1, <3>2
  <2> QED BY <2>1, <2>2, <2>3, <2>4
<1> QED BY <1>7, <1>8

KeysInv ==
  /\ DOMAIN js = KeyIds /\ DOMAIN rs = KeyIds /\ DOMAIN chat = KeyIds
  /\ ProgramsAgree

LEMMA KeysInit == Keys!Init => KeysInv
BY DEF Keys!Init, KeysInv, ProgramsAgree, Keys!ProgramsAgree

LEMMA KeysStep == KeysInv /\ [Keys!Next]_Keys!vars => KeysInv'
<1> SUFFICES ASSUME KeysInv, [Keys!Next]_Keys!vars PROVE KeysInv'
  OBVIOUS
<1> USE DEF KeysInv, ProgramsAgree, Keys!ProgramsAgree
<1>1. ASSUME NEW id \in KeyIds, Keys!RemoveKey(id) PROVE KeysInv'
  BY <1>1 DEF Keys!RemoveKey
<1>2. ASSUME NEW id \in KeyIds, NEW t \in Keys!Texts, Keys!Load(id, t) PROVE KeysInv'
  <2>1. /\ js' = Keys!After(js, id, t, Keys!JsDecode(t))
        /\ rs' = Keys!After(rs, id, t, Keys!RsDecode(t))
        /\ chat' = Keys!After(chat, id, t, Keys!ChatDecode(t))
        /\ apart' = IF Keys!RsDecode(t).code = "loaded" THEN apart \ {id}
                    ELSE IF Keys!JsDecode(t).code = "loaded" THEN apart \cup {id}
                    ELSE apart
    BY <1>2 DEF Keys!Load
  <2>2. CASE Keys!RsDecode(t).code = "loaded"
    BY <2>1, <2>2, LoadedAlike DEF Keys!After
  <2>3. CASE Keys!RsDecode(t).code # "loaded"
    <3>1. Keys!ChatDecode(t).code # "loaded"
      BY <2>3, LoadedAlike
    <3>2. rs' = rs /\ chat' = chat
      BY <2>1, <2>3, <3>1 DEF Keys!After
    <3>3. DOMAIN js' = KeyIds /\ \A k \in KeyIds : k # id => js'[k] = js[k]
      BY <2>1 DEF Keys!After
    <3>4. Keys!JsDecode(t).code # "loaded" => js' = js /\ apart' = apart
      BY <2>1, <2>3 DEF Keys!After
    <3>5. Keys!JsDecode(t).code = "loaded" => apart' = apart \cup {id}
      BY <2>1, <2>3
    <3> QED BY <3>2, <3>3, <3>4, <3>5
  <2> QED BY <2>2, <2>3
<1>3. CASE UNCHANGED Keys!vars
  BY <1>3 DEF Keys!vars
<1> QED BY <1>1, <1>2, <1>3 DEF Keys!Next

(* Programs given the same texts hold the same keys, for texts of every    *)
(* length (decodeKey32, decode_key_32, decode_hex_or_base64).              *)
THEOREM SameKeys == Keys!Spec => []ProgramsAgree
<1>1. KeysInv => ProgramsAgree
  BY DEF KeysInv
<1> QED BY <1>1, KeysInit, KeysStep, PTL DEF Keys!Spec

-----------------------------------------------------------------------------
(* Byte buffers.                                                           *)

BCalls == Buf!Calls

SealInv ==
  /\ stored = setTo
  /\ DOMAIN pc = BCalls /\ DOMAIN given = BCalls /\ DOMAIN padded = BCalls
  /\ DOMAIN cryptoKey = BCalls /\ DOMAIN box = BCalls
  /\ \A c \in BCalls :
       /\ pc[c] = "idle" => box[c] = Buf!None
       /\ pc[c] = "importing" => /\ given[c] = [text |-> padded[c], key |-> cryptoKey[c]]
                                 /\ box[c] = Buf!None
       /\ box[c] # Buf!None => box[c] = given[c]

OpenInv ==
  /\ DOMAIN dpc = BCalls /\ DOMAIN payload = BCalls
  /\ DOMAIN verified = BCalls /\ DOMAIN opened = BCalls
  /\ \A c \in BCalls :
       /\ dpc[c] \in {"idle", "queued"} => opened[c] = 0
       /\ dpc[c] = "verifying" => payload[c] = verified[c] /\ opened[c] = 0
       /\ opened[c] # 0 => opened[c] = verified[c]

LEMMA BuffersInit == Buf!Init => SealInv /\ OpenInv
BY DEF Buf!Init, SealInv, OpenInv, BCalls

LEMMA SealStep == SealInv /\ [Buf!Next]_Buf!vars => SealInv'
<1> SUFFICES ASSUME SealInv, [Buf!Next]_Buf!vars PROVE SealInv'
  OBVIOUS
<1> USE DEF SealInv, Buf!caller, Buf!store, Buf!enc, Buf!dec
<1>1. CASE Buf!OverwriteText \/ Buf!OverwriteKey \/ Buf!OverwriteBytes
  BY <1>1 DEF Buf!OverwriteText, Buf!OverwriteKey, Buf!OverwriteBytes
<1>2. CASE Buf!SetKey
  BY <1>2 DEF Buf!SetKey
<1>3. ASSUME NEW c \in BCalls, Buf!Call(c) PROVE SealInv'
  <2>1. /\ given' = [given EXCEPT ![c] = [text |-> text, key |-> setTo]]
        /\ padded' = [padded EXCEPT ![c] = text]
        /\ cryptoKey' = [cryptoKey EXCEPT ![c] = stored]
        /\ UNCHANGED <<setTo, stored>> /\ box[c] = Buf!None
    BY <1>3 DEF Buf!Call, Buf!AeadKey
  <2>2. \/ pc' = [pc EXCEPT ![c] = "importing"] /\ box' = box
        \/ /\ pc' = [pc EXCEPT ![c] = "sealed"]
           /\ box' = [box EXCEPT ![c] = [text |-> text, key |-> stored]]
    BY <1>3 DEF Buf!Call, Buf!AeadKey
  <2> QED BY <2>1, <2>2
<1>4. ASSUME NEW c \in BCalls, Buf!KeyImported(c) PROVE SealInv'
  BY <1>4 DEF Buf!KeyImported, Buf!Padded
<1>5. ASSUME NEW c \in BCalls, Buf!Encrypted(c) PROVE SealInv'
  BY <1>5 DEF Buf!Encrypted
<1>6. ASSUME NEW c \in BCalls, Buf!CallDecrypt(c) \/ Buf!Parse(c) \/ Buf!Verified(c) \/ Buf!Decrypted(c)
      PROVE  SealInv'
  BY <1>6 DEF Buf!CallDecrypt, Buf!Parse, Buf!Verified, Buf!Decrypted
<1>7. CASE UNCHANGED Buf!vars
  BY <1>7 DEF Buf!vars
<1> QED BY <1>1, <1>2, <1>3, <1>4, <1>5, <1>6, <1>7 DEF Buf!Next, BCalls

LEMMA OpenStep == OpenInv /\ [Buf!Next]_Buf!vars => OpenInv'
<1> SUFFICES ASSUME OpenInv, [Buf!Next]_Buf!vars PROVE OpenInv'
  OBVIOUS
<1> USE DEF OpenInv, Buf!caller, Buf!store, Buf!enc, Buf!dec
<1>1. CASE Buf!OverwriteText \/ Buf!OverwriteKey \/ Buf!OverwriteBytes \/ Buf!SetKey
  BY <1>1 DEF Buf!OverwriteText, Buf!OverwriteKey, Buf!OverwriteBytes, Buf!SetKey
<1>2. ASSUME NEW c \in BCalls, Buf!Call(c) \/ Buf!KeyImported(c) \/ Buf!Encrypted(c)
      PROVE  OpenInv'
  BY <1>2 DEF Buf!Call, Buf!KeyImported, Buf!Encrypted
<1>3. ASSUME NEW c \in BCalls, Buf!CallDecrypt(c) PROVE OpenInv'
  BY <1>3 DEF Buf!CallDecrypt
<1>4. ASSUME NEW c \in BCalls, Buf!Parse(c) PROVE OpenInv'
  BY <1>4 DEF Buf!Parse
<1>5. ASSUME NEW c \in BCalls, Buf!Verified(c) PROVE OpenInv'
  BY <1>5 DEF Buf!Verified, Buf!Payload
<1>6. ASSUME NEW c \in BCalls, Buf!Decrypted(c) PROVE OpenInv'
  BY <1>6 DEF Buf!Decrypted
<1>7. CASE UNCHANGED Buf!vars
  BY <1>7 DEF Buf!vars
<1> QED BY <1>1, <1>2, <1>3, <1>4, <1>5, <1>6, <1>7 DEF Buf!Next, BCalls

(* A frame is sealed with the text and the key of its call, although the   *)
(* caller overwrites its arrays or sets another key while the call awaits  *)
(* (prependZeroPadding, concat, aeadKey, importKey copy them in time).     *)
THEOREM SealsItsCall == Buf!Spec => []SealsWhatItWasGiven
<1>1. SealInv => SealsWhatItWasGiven
  BY DEF SealInv, SealsWhatItWasGiven, Buf!SealsWhatItWasGiven, BCalls
<1>2. Buf!Init => SealInv
  BY BuffersInit
<1> QED BY <1>1, <1>2, SealStep, PTL DEF Buf!Spec

(* What is opened is what was verified, although the array of received     *)
(* bytes is filled again in between (Frame.parse copies the sections).     *)
THEOREM OpensTheVerified == Buf!Spec => []OpensWhatItVerified
<1>1. OpenInv => OpensWhatItVerified
  BY DEF OpenInv, OpensWhatItVerified, Buf!OpensWhatItVerified, BCalls
<1>2. Buf!Init => OpenInv
  BY BuffersInit
<1> QED BY <1>1, <1>2, OpenStep, PTL DEF Buf!Spec

-----------------------------------------------------------------------------
(* Binding.                                                                *)

\* The headers senders make, and those that may arrive.
Headers ==
  [magic : {Frame!MAGIC}, version : {Frame!VERSION}, keyId : SenderIds, ctr : 0..MaxFrames,
   nSigned : {0, 2}, sigFlag : {0, 1}, type : 0..2]
WireHeaders ==
  [magic : Nat, version : Nat, keyId : Nat, ctr : Nat, nSigned : Nat, sigFlag : Nat, type : Nat]

\* Frames of such headers.
MadeFrames == {Frame!NewFrame(h, n) : h \in Headers, n \in Nat}

(* What is sent, and in which order; a sender's counter stays within its   *)
(* field, so that the header survives its encoding.                        *)
SentInv ==
  /\ type \in [SenderIds -> 0..2] /\ nSigned \in [SenderIds -> {0, 2}]
  /\ sent \in Seq(MadeFrames) /\ Len(sent) <= MaxFrames
  /\ nextCtr \in [SenderIds -> 0..Len(sent)]
  /\ \A i \in DOMAIN sent :
       /\ sent[i].text = i
       /\ sent[i].header.nSigned = 0 => sent[i].header.sigFlag = 0

LEMMA Bounds == MaxFrames \in Nat /\ CtrModulus \in Nat /\ MaxFrames < CtrModulus
                /\ SenderIds \subseteq 0..255
BY PartsAssumption DEF Frame!BindingAssumption

\* A field of one byte, or the counter, encoded twice.
LEMMA ModTwice ==
  ASSUME NEW x \in Nat
  PROVE  /\ (x % 256) % 256 = x % 256
         /\ (x % CtrModulus) % CtrModulus = x % CtrModulus
<1>1. x % CtrModulus \in 0..CtrModulus - 1 /\ CtrModulus \in Nat /\ CtrModulus > 0
  BY Bounds
<1>2. \A y \in 0..CtrModulus - 1 : y % CtrModulus = y
  BY <1>1
<1> QED BY <1>1, <1>2

\* Decoding undoes the encoding of what a sender may put into a header.
LEMMA CodecExact ==
  ASSUME NEW h \in Headers
  PROVE  Frame!Decoded(Frame!Encode(h)) = h
<1>1. /\ h.magic \in Nat /\ h.version = 1 /\ h.keyId \in 0..255 /\ h.ctr \in 0..CtrModulus - 1
      /\ h.nSigned \in 0..255 /\ h.sigFlag \in 0..255 /\ h.type \in 0..255
  <2>1. /\ h.magic \in Nat /\ h.version = 1 /\ h.keyId \in SenderIds /\ h.ctr \in 0..MaxFrames
        /\ h.nSigned \in {0, 2} /\ h.sigFlag \in {0, 1} /\ h.type \in 0..2
    BY DEF Headers, Frame!MAGIC, Frame!VERSION
  <2>2. h.keyId \in 0..255
    <3>1. \A k \in SenderIds : k \in 0..255
      BY Bounds
    <3> QED BY ONLY <2>1, <3>1
  <2>3. MaxFrames \in Nat /\ CtrModulus \in Nat /\ MaxFrames < CtrModulus
    BY Bounds
  <2>4. h.ctr \in 0..CtrModulus - 1
    <3>1. \A c \in 0..MaxFrames : c \in 0..CtrModulus - 1
      BY <2>3
    <3> QED BY <2>1, <3>1
  <2> QED BY <2>1, <2>2, <2>4
<1>2. \A x \in 0..255 : x % 256 = x
  OBVIOUS
<1>3. \A x \in 0..CtrModulus - 1 : x % CtrModulus = x
  BY Bounds
<1>4. Frame!Encode(h) = <<h.magic, h.version, h.keyId, h.ctr, h.nSigned, h.sigFlag, h.type>>
  <2>1. /\ h.version % 256 = h.version /\ h.keyId % 256 = h.keyId
        /\ h.nSigned % 256 = h.nSigned /\ h.sigFlag % 256 = h.sigFlag
        /\ h.type % 256 = h.type
    <3>1. h.version % 256 = h.version
      BY <1>1
    <3>2. h.keyId % 256 = h.keyId
      BY <1>1, <1>2
    <3>3. h.nSigned % 256 = h.nSigned
      BY <1>1, <1>2
    <3>4. h.sigFlag % 256 = h.sigFlag
      BY <1>1, <1>2
    <3>5. h.type % 256 = h.type
      BY <1>1, <1>2
    <3> QED BY ONLY <3>1, <3>2, <3>3, <3>4, <3>5
  <2>2. h.ctr % CtrModulus = h.ctr
    BY ONLY <1>1, <1>3
  <2> QED BY <2>1, <2>2 DEF Frame!Encode
<1>5. Frame!Decoded(Frame!Encode(h)) =
        [magic |-> h.magic, version |-> h.version, keyId |-> h.keyId, ctr |-> h.ctr,
         nSigned |-> h.nSigned, sigFlag |-> h.sigFlag, type |-> h.type]
  BY <1>4 DEF Frame!Decoded
<1> QED BY <1>5 DEF Headers

\* What is decoded encodes to the bytes it was decoded from.
LEMMA CodecAgain ==
  ASSUME NEW h \in WireHeaders
  PROVE  Frame!Encode(Frame!Decoded(Frame!Encode(h))) = Frame!Encode(h)
<1> DEFINE d == Frame!Decoded(Frame!Encode(h))
<1>1. /\ h.magic \in Nat /\ h.version \in Nat /\ h.keyId \in Nat /\ h.ctr \in Nat
      /\ h.nSigned \in Nat /\ h.sigFlag \in Nat /\ h.type \in Nat
  BY DEF WireHeaders
<1>2. /\ d.magic = h.magic /\ d.version = h.version % 256 /\ d.keyId = h.keyId % 256
      /\ d.ctr = h.ctr % CtrModulus /\ d.nSigned = h.nSigned % 256
      /\ d.sigFlag = h.sigFlag % 256 /\ d.type = h.type % 256
  BY DEF Frame!Decoded, Frame!Encode
<1> HIDE DEF d
<1>3. /\ d.version % 256 = h.version % 256 /\ d.keyId % 256 = h.keyId % 256
      /\ d.ctr % CtrModulus = h.ctr % CtrModulus /\ d.nSigned % 256 = h.nSigned % 256
      /\ d.sigFlag % 256 = h.sigFlag % 256 /\ d.type % 256 = h.type % 256
  BY <1>1, <1>2, ModTwice
<1>4. Frame!Encode(d) = Frame!Encode(h)
  BY <1>2, <1>3 DEF Frame!Encode
<1> QED BY <1>4 DEF d

\* So two headers that encode alike are one.
LEMMA CodecInjective ==
  ASSUME NEW g \in Headers, NEW h \in WireHeaders,
         Frame!Encode(Frame!Decoded(Frame!Encode(h))) = Frame!Encode(g)
  PROVE  Frame!Decoded(Frame!Encode(h)) = g
BY CodecExact, CodecAgain

LEMMA Uncut ==
  ASSUME NEW S, NEW p \in Seq(S)
  PROVE  /\ SubSeq(p, 1, Len(p)) = p
         /\ SubSeq(p, Len(p) + 1, Len(p)) = <<>>
         /\ p # <<>> => SubSeq(p, Len(p), Len(p)) = <<p[Len(p)]>> /\ p[Len(p)] \in S
<1>1. Len(p) \in Nat /\ SubSeq(p, 1, Len(p)) = p
  BY LenProperties, SubSeqFull
<1>2. SubSeq(p, Len(p) + 1, Len(p)) = <<>>
  BY <1>1, SubSeqEmpty
<1>3. ASSUME p # <<>>
      PROVE  SubSeq(p, Len(p), Len(p)) = <<p[Len(p)]>> /\ p[Len(p)] \in S
  <2>1. Len(p) \in 1..Len(p)
    BY <1>1, <1>3, EmptySeq
  <2>2. p[Len(p)] \in S
    BY <2>1, ElementOfSeq
  <2> DEFINE q == SubSeq(p, Len(p), Len(p))
  <2>3. q \in Seq(S) /\ Len(q) = 1 /\ q[1] = p[Len(p)]
    <3>1. \A i \in Len(p)..Len(p) : p[i] \in S
      BY <1>1, <2>2
    <3>2. /\ q \in Seq(S)
          /\ Len(q) = IF Len(p) <= Len(p) THEN Len(p) - Len(p) + 1 ELSE 0
          /\ \A i \in 1..(Len(p) - Len(p) + 1) : q[i] = p[Len(p) + i - 1]
      BY <1>1, <3>1, SubSeqProperties
    <3>3. q[1] = p[Len(p) + 1 - 1]
      BY <1>1, <3>2
    <3>4. Len(p) + 1 - 1 = Len(p)
      BY <1>1
    <3> QED BY <1>1, <3>2, <3>3, <3>4
  <2> HIDE DEF q
  <2>4. q = <<q[1]>>
    BY <2>3
  <2> QED BY <2>2, <2>3, <2>4 DEF q
<1> QED BY <1>1, <1>2, <1>3

LEMMA CutLast ==
  ASSUME NEW S, NEW s \in Seq(S), NEW x \in S
  PROVE  /\ Len(Append(s, x)) - 1 = Len(s) /\ Append(s, x) \in Seq(S)
         /\ SubSeq(Append(s, x), 1, Len(s)) = s
         /\ SubSeq(Append(s, x), Len(s) + 1, Len(Append(s, x))) = <<x>>
<1> DEFINE p == Append(s, x)
<1>1. /\ Len(s) \in Nat /\ p \in Seq(S) /\ Len(p) = Len(s) + 1
      /\ \A i \in 1..Len(s) : p[i] = s[i]
      /\ p[Len(s) + 1] = x
  BY LenProperties, AppendProperties
<1> HIDE DEF p
<1>2. p # <<>> /\ SubSeq(p, Len(p), Len(p)) = <<x>>
  BY <1>1, Uncut
<1>3. SubSeq(p, 1, Len(s)) = s
  <2> DEFINE q == SubSeq(p, 1, Len(s))
  <2>1. \A i \in 1..Len(s) : p[i] \in S
    BY <1>1, ElementOfSeq
  <2>2. /\ q \in Seq(S)
        /\ Len(q) = IF 1 <= Len(s) THEN Len(s) - 1 + 1 ELSE 0
        /\ \A i \in 1..(Len(s) - 1 + 1) : q[i] = p[1 + i - 1]
    BY <1>1, <2>1, SubSeqProperties
  <2> HIDE DEF q
  <2>3. Len(q) = Len(s) /\ \A i \in 1..Len(s) : q[i] = s[i]
    BY <1>1, <2>2
  <2>4. q = s
    BY <2>2, <2>3, SeqEqual
  <2> QED BY <2>4 DEF q
<1> QED BY <1>1, <1>2, <1>3 DEF p

-----------------------------------------------------------------------------
\* The parts behind a header: of a body, and a signature.
Boxes == {Frame!Box(h, n) : h \in Headers, n \in Nat}
BodyParts == ({"plain"} \X Nat) \cup ({"ciphertext", "tag"} \X Boxes)

LEMMA BodyShape ==
  ASSUME NEW h \in Headers, NEW n \in Nat
  PROVE  /\ Frame!Body(h, n) \in Seq(BodyParts) /\ Frame!Body(h, n) # <<>>
         /\ h.type = Frame!NONE => Frame!Body(h, n) = << <<"plain", n>> >>
         /\ h.type # Frame!NONE =>
              Frame!Body(h, n) = << <<"ciphertext", Frame!Box(h, n)>>, <<"tag", Frame!Box(h, n)>> >>
<1>1. Frame!Box(h, n) \in Boxes
  BY DEF Boxes
<1>2. /\ <<"plain", n>> \in BodyParts
      /\ <<"ciphertext", Frame!Box(h, n)>> \in BodyParts
      /\ <<"tag", Frame!Box(h, n)>> \in BodyParts
  BY <1>1 DEF BodyParts
<1> QED BY <1>2 DEF Frame!Body, Frame!Sealed

LEMMA PartNotSignature == \A p \in BodyParts : \A d : p # <<"signature", d>>
BY DEF BodyParts

\* A box is of one header and one text.
LEMMA BoxInjective ==
  ASSUME NEW g, NEW h, NEW m, NEW n, Frame!Box(g, m) = Frame!Box(h, n)
  PROVE  Frame!Encode(g) = Frame!Encode(h) /\ m = n
<1>1. Frame!Box(g, m).aad = Frame!Encode(g) /\ Frame!Box(g, m).text = m
  BY DEF Frame!Box, Frame!Aad
<1>2. Frame!Box(h, n).aad = Frame!Encode(h) /\ Frame!Box(h, n).text = n
  BY DEF Frame!Box, Frame!Aad
<1> QED BY <1>1, <1>2

LEMMA SentFrame ==
  ASSUME SentInv, NEW i \in DOMAIN sent
  PROVE  /\ i \in 1..Len(sent) /\ i \in Nat
         /\ sent[i].header \in Headers /\ sent[i].text = i
         /\ sent[i].body = Frame!Body(sent[i].header, i)
         /\ sent[i].sig = Frame!Signature(sent[i].header, sent[i].body)
         /\ sent[i].header.nSigned = 0 => sent[i].header.sigFlag = 0
<1>1. i \in 1..Len(sent) /\ Len(sent) \in Nat /\ sent[i] \in MadeFrames
  BY LenProperties, ElementOfSeq DEF SentInv
<1>2. PICK h \in Headers, n \in Nat : sent[i] = Frame!NewFrame(h, n)
  BY <1>1 DEF MadeFrames
<1> QED BY <1>1, <1>2 DEF SentInv, Frame!NewFrame

\* The receiver reads exactly the text of a frame as it was sent.
LEMMA OpenedExactly ==
  ASSUME SentInv, NEW i \in DOMAIN sent
  PROVE  Frame!Opened(sent[i].header, sent[i].body) = {i}
<1> DEFINE h == sent[i].header
<1>1. h \in Headers /\ i \in Nat /\ i \in 1..Len(sent) /\ sent[i].body = Frame!Body(h, i)
  BY SentFrame
<1> HIDE DEF h
<1>2. CASE h.type = Frame!NONE
  <2>1. Frame!Body(h, i) = << <<"plain", i>> >>
    BY <1>1, <1>2, BodyShape
  <2>2. Frame!Body(h, i)[1][1] = "plain" /\ Frame!Body(h, i)[1][2] = i
    BY <2>1
  <2> QED BY <1>1, <1>2, <2>2 DEF Frame!Opened, h
<1>3. CASE h.type # Frame!NONE
  <2>1. Frame!Body(h, i) = Frame!Sealed(Frame!Box(h, i)) /\ h.keyId \in SenderIds
    BY <1>1, <1>3 DEF Frame!Body, Headers
  <2>2. \A n : Frame!Sealed(Frame!Box(h, i)) = Frame!Sealed(Frame!Box(h, n)) => n = i
    <3> TAKE n
    <3> HAVE Frame!Sealed(Frame!Box(h, i)) = Frame!Sealed(Frame!Box(h, n))
    <3>1. Frame!Box(h, i) = Frame!Box(h, n)
      BY DEF Frame!Sealed
    <3> QED BY <3>1, BoxInjective
  <2>3. Frame!Opened(h, Frame!Body(h, i)) =
          {n \in 1..Len(sent) : h.keyId \in SenderIds
                                /\ Frame!Body(h, i) = Frame!Sealed(Frame!Box(h, n))}
    BY <1>3 DEF Frame!Opened
  <2>4. Frame!Opened(h, Frame!Body(h, i)) = {i}
    BY <1>1, <2>1, <2>2, <2>3
  <2> QED BY <1>1, <2>4 DEF h
<1> QED BY <1>2, <1>3

\* Whatever is put together from the parts of frames that were sent, what a
\* signature or the AEAD accepts is one of them.
LEMMA DecryptedWasSent ==
  ASSUME SentInv, NEW j \in DOMAIN sent, NEW k \in DOMAIN sent, NEW hm \in WireHeaders,
         NEW r \in Frame!Decrypted(Frame!Encode(hm), sent[j].body \o sent[k].sig),
         r.header.type # Frame!NONE \/ r.header.sigFlag = 1
  PROVE  Frame!WasSent(r)
<1> DEFINE h == Frame!Decoded(Frame!Encode(hm))
           body == sent[j].body
           sig == sent[k].sig
           parts == body \o sig
           digest == Frame!DigestForSignature(sent[k].header, sent[k].body)
           S == BodyParts \cup {<<"signature", digest>>}
<1>1. /\ body \in Seq(BodyParts) /\ body # <<>> /\ sent[j].header \in Headers
      /\ body = Frame!Body(sent[j].header, j) /\ j \in Nat
  <2>1. sent[j].header \in Headers /\ j \in Nat /\ sent[j].body = Frame!Body(sent[j].header, j)
    BY SentFrame
  <2>2. Frame!Body(sent[j].header, j) \in Seq(BodyParts) /\ Frame!Body(sent[j].header, j) # <<>>
    BY <2>1, BodyShape
  <2> QED BY <2>1, <2>2
<1>2. sig = <<>> \/ sig = << <<"signature", digest>> >>
  BY SentFrame DEF Frame!Signature
<1>3. body \in Seq(S)
  BY <1>1
<1>4. \/ parts = body
      \/ sig = << <<"signature", digest>> >> /\ parts = Append(body, <<"signature", digest>>)
  <2>1. body \o <<>> = body
    BY <1>1, ConcatEmptySeq
  <2>2. body \o << <<"signature", digest>> >> = Append(body, <<"signature", digest>>)
    BY <1>3, AppendIsConcat
  <2> QED BY <1>2, <2>1, <2>2
<1>5. parts \in Seq(S) /\ Len(parts) \in Nat
  <2>1. <<"signature", digest>> \in S
    OBVIOUS
  <2>2. Append(body, <<"signature", digest>>) \in Seq(S)
    BY <1>3, <2>1, AppendProperties
  <2>3. parts \in Seq(S)
    BY <1>3, <1>4, <2>2
  <2> QED BY <2>3, LenProperties
<1> DEFINE cut == IF h.sigFlag = 1 THEN Len(parts) - 1 ELSE Len(parts)
           taken == SubSeq(parts, 1, cut)
<1>6. PICK n : /\ Frame!Valid(h) /\ taken # <<>>
               /\ SubSeq(parts, cut + 1, Len(parts)) = Frame!Signature(h, taken)
               /\ n \in Frame!Opened(h, taken) /\ r = [header |-> h, text |-> n]
  <2>1. r \in Frame!Decrypted(Frame!Encode(hm), parts)
    OBVIOUS
  <2> HIDE DEF parts
  <2> QED BY <2>1 DEF Frame!Decrypted
<1>7. r.header = h /\ r.text = n /\ h.sigFlag \in {0, 1}
  BY <1>6 DEF Frame!Valid
<1> HIDE DEF body, sig, parts, digest, h
<1>8. CASE h.sigFlag = 1
  <2>1. /\ taken = SubSeq(parts, 1, Len(parts) - 1)
        /\ SubSeq(parts, Len(parts), Len(parts))
             = << <<"signature", Frame!DigestForSignature(h, taken)>> >>
    <3>1. Len(parts) - 1 + 1 = Len(parts)
      BY <1>5
    <3> QED BY <1>6, <1>8, <3>1 DEF Frame!Signature
  <2> HIDE DEF taken
  <2>2. CASE parts = body
    <3>1. SubSeq(parts, Len(parts), Len(parts)) = <<parts[Len(parts)]>> /\ parts[Len(parts)] \in BodyParts
      BY <1>1, <2>2, Uncut
    <3>2. parts[Len(parts)] = <<"signature", Frame!DigestForSignature(h, taken)>>
      BY <2>1, <3>1
    <3> QED BY <3>1, <3>2, PartNotSignature
  <2>3. CASE parts = Append(body, <<"signature", digest>>)
    <3>1. /\ Len(parts) - 1 = Len(body) /\ SubSeq(parts, 1, Len(body)) = body
          /\ SubSeq(parts, Len(body) + 1, Len(parts)) = << <<"signature", digest>> >>
      <4>1. <<"signature", digest>> \in S
        OBVIOUS
      <4> HIDE DEF S
      <4> QED BY <1>3, <2>3, <4>1, CutLast
    <3>2. Len(body) + 1 = Len(parts)
      BY <1>5, <3>1
    <3>3. taken = body /\ digest = Frame!DigestForSignature(h, body)
      <4>1. taken = body
        BY <2>1, <3>1
      <4>2. << <<"signature", digest>> >>
              = << <<"signature", Frame!DigestForSignature(h, taken)>> >>
        BY <2>1, <3>1, <3>2
      <4>3. <<"signature", digest>> = <<"signature", Frame!DigestForSignature(h, taken)>>
        BY <4>2
      <4> QED BY <4>1, <4>3
    <3>4. Frame!Encode(h) = Frame!Encode(sent[k].header) /\ body = sent[k].body
      BY <3>3 DEF Frame!DigestForSignature, digest
    <3>5. h = sent[k].header
      BY <3>4, SentFrame, CodecInjective DEF h
    <3>6. n \in Frame!Opened(sent[k].header, sent[k].body)
      BY <1>6, <3>3, <3>4, <3>5 DEF taken
    <3>7. n = sent[k].text
      <4>1. Frame!Opened(sent[k].header, sent[k].body) = {k}
        BY OpenedExactly
      <4>2. sent[k].text = k
        BY SentFrame
      <4> QED BY <3>6, <4>1, <4>2
    <3> QED BY <1>7, <3>5, <3>7 DEF Frame!WasSent
  <2> QED BY <1>4, <2>2, <2>3
<1>9. CASE h.sigFlag = 0
  <2>1. taken = parts /\ h.type # Frame!NONE
    BY <1>5, <1>7, <1>9, Uncut
  <2>2. parts = << <<"ciphertext", Frame!Box(h, n)>>, <<"tag", Frame!Box(h, n)>> >>
    BY <1>6, <2>1 DEF Frame!Opened, Frame!Sealed
  <2>3. parts[1] = <<"ciphertext", Frame!Box(h, n)>>
    BY <2>2
  <2>4. parts[1] = body[1]
    <3>1. 1 \in 1..Len(body)
      BY <1>1, LenProperties, EmptySeq
    <3> QED BY <1>3, <1>4, <3>1, AppendProperties
  <2>5. sent[j].header.type # Frame!NONE
    <3> SUFFICES ASSUME sent[j].header.type = Frame!NONE PROVE FALSE
      OBVIOUS
    <3>1. body = << <<"plain", j>> >>
      BY <1>1, BodyShape
    <3>2. <<"plain", j>> = <<"ciphertext", Frame!Box(h, n)>>
      BY <2>3, <2>4, <3>1
    <3> QED BY <3>2
  <2>6. body[1] = <<"ciphertext", Frame!Box(sent[j].header, j)>>
    <3>1. body = << <<"ciphertext", Frame!Box(sent[j].header, j)>>,
                    <<"tag", Frame!Box(sent[j].header, j)>> >>
      BY <1>1, <2>5, BodyShape
    <3> QED BY <3>1
  <2>7. Frame!Box(h, n) = Frame!Box(sent[j].header, j)
    BY <2>3, <2>4, <2>6
  <2>8. Frame!Encode(h) = Frame!Encode(sent[j].header) /\ n = j
    BY <2>7, BoxInjective
  <2>9. h = sent[j].header
    BY <1>1, <2>8, CodecInjective DEF h
  <2> QED BY <1>7, <2>8, <2>9, SentFrame DEF Frame!WasSent
<1> QED BY <1>7, <1>8, <1>9

LEMMA FramesInit == Frame!Init => SentInv /\ AcceptedWasSent
<1> SUFFICES ASSUME Frame!Init PROVE SentInv /\ AcceptedWasSent
  OBVIOUS
<1>1. sent = <<>> /\ sent \in Seq(MadeFrames) /\ Len(sent) = 0 /\ DOMAIN sent = {}
  BY EmptySeq DEF Frame!Init
<1>2. SentInv
  BY <1>1, Bounds DEF Frame!Init, SentInv
<1>3. accepted = <<>>
  BY DEF Frame!Init
<1> QED BY <1>2, <1>3 DEF AcceptedWasSent, Frame!AcceptedWasSent

LEMMA WireFieldsNatural ==
  ASSUME SentInv, NEW i \in DOMAIN sent, NEW f \in DOMAIN sent[i].header,
         NEW v \in Frame!FieldValues(f)
  PROVE  [sent[i].header EXCEPT ![f] = v] \in WireHeaders
<1>1. \A j \in DOMAIN sent : sent[j].header \in WireHeaders
  <2> TAKE j \in DOMAIN sent
  <2>1. sent[j].header \in Headers
    BY SentFrame
  <2> DEFINE h == sent[j].header
  <2>2. /\ h.magic \in Nat /\ h.version \in Nat /\ h.keyId \in SenderIds /\ h.ctr \in 0..MaxFrames
        /\ h.nSigned \in Nat /\ h.sigFlag \in Nat /\ h.type \in Nat
        /\ h = [magic |-> h.magic, version |-> h.version, keyId |-> h.keyId, ctr |-> h.ctr,
                nSigned |-> h.nSigned, sigFlag |-> h.sigFlag, type |-> h.type]
    BY <2>1 DEF Headers, Frame!MAGIC, Frame!VERSION
  <2> HIDE DEF h
  <2>3. h.keyId \in Nat /\ h.ctr \in Nat
    BY <2>2, Bounds
  <2>4. h \in WireHeaders
    BY <2>2, <2>3 DEF WireHeaders
  <2> QED BY <2>4 DEF h
<1>2. f \in {"magic", "version", "keyId", "ctr", "nSigned", "sigFlag", "type"}
  BY <1>1 DEF WireHeaders
<1>3. \A j \in DOMAIN sent : sent[j].header[f] \in Nat
  BY <1>1, <1>2 DEF WireHeaders
<1>4. v \in Nat
  <2>1. \/ v \in {sent[j].header[f] : j \in DOMAIN sent}
        \/ v \in 0..2 \/ v \in 0..3 \/ v = MaxFrames \/ v = 9
    BY <1>2 DEF Frame!FieldValues
  <2> QED BY <1>3, <2>1, Bounds
<1> QED BY <1>1, <1>2, <1>4 DEF WireHeaders

LEMMA FramesStep ==
  SentInv /\ AcceptedWasSent /\ [Frame!Next]_Frame!vars => SentInv' /\ AcceptedWasSent'
<1> SUFFICES ASSUME SentInv, AcceptedWasSent, [Frame!Next]_Frame!vars
             PROVE  SentInv' /\ AcceptedWasSent'
  OBVIOUS
<1>1. CASE Frame!Take
  BY <1>1 DEF Frame!Take, SentInv, AcceptedWasSent, Frame!AcceptedWasSent
<1>2. ASSUME NEW k \in SenderIds, Frame!Send(k) PROVE SentInv' /\ AcceptedWasSent'
  <2> DEFINE n == Len(sent) + 1
  <2>1. PICK maybeSign \in BOOLEAN : sent' = Append(sent, Frame!NewFrame(Frame!NewHeader(k, maybeSign), n))
    BY <1>2 DEF Frame!Send
  <2> DEFINE h == Frame!NewHeader(k, maybeSign)
  <2>2. /\ Len(sent) \in Nat /\ Len(sent) < MaxFrames /\ sent \in Seq(MadeFrames)
        /\ UNCHANGED <<type, nSigned, accepted>> /\ accepted = <<>>
    BY <1>2, LenProperties DEF Frame!Send, SentInv
  <2>3. nextCtr[k] \in 0..MaxFrames
    <3>1. nextCtr[k] \in 0..Len(sent)
      BY DEF SentInv
    <3> QED BY <2>2, <3>1, Bounds
  <2>4. h \in Headers /\ (h.nSigned = 0 => h.sigFlag = 0)
    <3>1. type[k] \in 0..2 /\ nSigned[k] \in {0, 2}
      BY DEF SentInv
    <3> QED BY <2>3, <3>1 DEF Headers, Frame!NewHeader
  <2>5. sent' = Append(sent, Frame!NewFrame(h, n)) /\ n \in Nat /\ Frame!NewFrame(h, n) \in MadeFrames
    <3>1. n \in Nat
      BY <2>2
    <3> HIDE DEF h
    <3> QED BY <2>1, <2>4, <3>1 DEF h, MadeFrames
  <2> HIDE DEF h
  <2>6. /\ sent' \in Seq(MadeFrames) /\ Len(sent') = Len(sent) + 1
        /\ \A i \in 1..Len(sent) : sent'[i] = sent[i]
        /\ sent'[n] = Frame!NewFrame(h, n)
    BY <2>2, <2>5, AppendProperties
  <2>7. DOMAIN sent' = 1..(Len(sent) + 1) /\ DOMAIN sent = 1..Len(sent)
    BY <2>2, <2>6, LenProperties
  <2>8. \A i \in DOMAIN sent' : i \in DOMAIN sent \/ i = n
    BY <2>2, <2>7
  <2>9. Frame!NewFrame(h, n).text = n /\ Frame!NewFrame(h, n).header = h
    BY DEF Frame!NewFrame
  <2>10. Len(sent') <= MaxFrames
    BY <2>2, <2>6, Bounds
  <2>11. nextCtr' \in [SenderIds -> 0..Len(sent')]
    <3>1. nextCtr' = [nextCtr EXCEPT ![k] = nextCtr[k] + 1] /\ nextCtr \in [SenderIds -> 0..Len(sent)]
      BY <1>2 DEF Frame!Send, SentInv
    <3>2. \A c \in 0..Len(sent) : c \in 0..Len(sent') /\ c + 1 \in 0..Len(sent')
      BY <2>2, <2>6
    <3> QED BY <3>1, <3>2
  <2> HIDE DEF n
  <2>12. SentInv'
    BY <2>11, <2>2, <2>4, <2>6, <2>7, <2>8, <2>9, <2>10 DEF SentInv
  <2> QED BY <2>2, <2>12 DEF AcceptedWasSent, Frame!AcceptedWasSent
<1>3. ASSUME NEW i \in DOMAIN sent, NEW j \in DOMAIN sent, NEW k \in DOMAIN sent, Frame!Receive(i, j, k)
      PROVE  SentInv' /\ AcceptedWasSent'
  <2>1. PICK f \in DOMAIN sent[i].header : \E v \in Frame!FieldValues(f) :
          \E r \in Frame!Decrypted(Frame!Encode([sent[i].header EXCEPT ![f] = v]),
                                   sent[j].body \o sent[k].sig) : accepted' = <<r>>
    BY <1>3 DEF Frame!Receive
  <2>2. PICK v \in Frame!FieldValues(f) :
          \E r \in Frame!Decrypted(Frame!Encode([sent[i].header EXCEPT ![f] = v]),
                                   sent[j].body \o sent[k].sig) : accepted' = <<r>>
    BY <2>1
  <2>3. PICK r \in Frame!Decrypted(Frame!Encode([sent[i].header EXCEPT ![f] = v]),
                                   sent[j].body \o sent[k].sig) : accepted' = <<r>>
    BY <2>2
  <2>4. [sent[i].header EXCEPT ![f] = v] \in WireHeaders
    BY WireFieldsNatural
  <2>5. r.header.type # Frame!NONE \/ r.header.sigFlag = 1 => Frame!WasSent(r)
    BY <2>3, <2>4, DecryptedWasSent
  <2>6. UNCHANGED <<type, nSigned, nextCtr, sent>>
    BY <1>3 DEF Frame!Receive
  <2>7. Frame!WasSent(r) => Frame!WasSent(r)'
    BY <2>6 DEF Frame!WasSent
  <2>8. DOMAIN accepted' = {1} /\ accepted'[1] = r
    BY <2>3
  <2> QED BY <2>5, <2>6, <2>8 DEF SentInv, AcceptedWasSent, Frame!AcceptedWasSent, Frame!WasSent
<1>4. CASE UNCHANGED Frame!vars
  BY <1>4 DEF Frame!vars, SentInv, AcceptedWasSent, Frame!AcceptedWasSent, Frame!WasSent
<1> QED BY <1>1, <1>2, <1>3, <1>4 DEF Frame!Next

(* What the AEAD opens, or a signature verifies, is a frame that was sent, *)
(* header and text: for any senders, also such as share their keys, and    *)
(* whichever header, body and signature arrive together.                   *)
THEOREM OnlySentAccepted == Frame!Spec => []AcceptedWasSent
<1>1. SentInv /\ AcceptedWasSent => AcceptedWasSent
  OBVIOUS
<1> QED BY <1>1, FramesInit, FramesStep, PTL DEF Frame!Spec

(* A frame that arrives as it was sent is accepted with its text, and with *)
(* no other: sender and receiver compute the same nonce, associated data   *)
(* and digest.                                                             *)
THEOREM IntactAlwaysAccepted == Frame!Spec => []IntactAccepted
<1>1. SentInv => IntactAccepted
  <2> SUFFICES ASSUME SentInv, NEW i \in DOMAIN sent
               PROVE  Frame!Decrypted(Frame!Encode(sent[i].header), sent[i].body \o sent[i].sig)
                        = {[header |-> sent[i].header, text |-> sent[i].text]}
    BY DEF IntactAccepted, Frame!IntactAccepted
  <2> DEFINE h == sent[i].header
             body == sent[i].body
             sig == sent[i].sig
             parts == body \o sig
             digest == Frame!DigestForSignature(h, body)
             S == BodyParts \cup {<<"signature", digest>>}
             cut == IF h.sigFlag = 1 THEN Len(parts) - 1 ELSE Len(parts)
  <2>1. /\ h \in Headers /\ i \in Nat /\ body = Frame!Body(h, i) /\ sent[i].text = i
        /\ sig = Frame!Signature(h, body) /\ (h.nSigned = 0 => h.sigFlag = 0)
    BY SentFrame
  <2>2. Frame!Decoded(Frame!Encode(h)) = h
    BY <2>1, CodecExact
  <2>3. Frame!Valid(h)
    <3>1. /\ h.magic = Frame!MAGIC /\ h.version = Frame!VERSION
          /\ h.nSigned \in {0, 2} /\ h.sigFlag \in {0, 1} /\ h.type \in 0..2
      BY <2>1 DEF Headers
    <3> QED BY <2>1, <3>1 DEF Frame!Valid
  <2>4. Frame!Opened(h, body) = {i}
    BY OpenedExactly
  <2>5. body \in Seq(BodyParts) /\ body # <<>> /\ body \in Seq(S)
    BY <2>1, BodyShape
  <2>6. SubSeq(parts, 1, cut) = body /\ SubSeq(parts, cut + 1, Len(parts)) = sig
    <3> HIDE DEF h, body, digest
    <3>1. CASE h.sigFlag = 1
      <4>1. sig = << <<"signature", digest>> >> /\ <<"signature", digest>> \in S
        BY <2>1, <3>1 DEF Frame!Signature, digest
      <4>2. parts = Append(body, <<"signature", digest>>)
        BY <2>5, <4>1, AppendIsConcat
      <4> HIDE DEF S, parts
      <4>3. /\ Len(parts) - 1 = Len(body) /\ SubSeq(parts, 1, Len(body)) = body
            /\ SubSeq(parts, Len(body) + 1, Len(parts)) = << <<"signature", digest>> >>
        BY <2>5, <4>1, <4>2, CutLast
      <4> QED BY <3>1, <4>1, <4>3
    <3>2. CASE h.sigFlag # 1
      <4>1. sig = <<>>
        BY <2>1, <3>2 DEF Frame!Signature
      <4>2. parts = body
        BY <2>5, <4>1, ConcatEmptySeq
      <4> HIDE DEF parts
      <4> QED BY <2>5, <3>2, <4>1, <4>2, Uncut
    <3> QED BY <3>1, <3>2
  <2>7. Frame!Decrypted(Frame!Encode(h), parts) = {[header |-> h, text |-> n] : n \in {i}}
    <3> HIDE DEF h, body, sig, parts, S, digest
    <3> QED BY <2>1, <2>2, <2>3, <2>4, <2>5, <2>6 DEF Frame!Decrypted
  <2> QED BY <2>1, <2>7
<1>2. Frame!Init => SentInv /\ AcceptedWasSent
  BY FramesInit
<1> QED BY <1>1, <1>2, FramesStep, PTL DEF Frame!Spec

-----------------------------------------------------------------------------
(* The library.                                                            *)

(* The parts share no state: a behaviour of their composition is one of    *)
(* each part, and what is proved of the parts holds where they are put     *)
(* together in MCLibraryParts.                                             *)
THEOREM PartsImplemented ==
  MCInit /\ [][MCNext]_allVars => Spec /\ Keys!Spec /\ Buf!Spec /\ Frame!Spec
<1>1. MCInit => Init /\ Keys!Init /\ Buf!Init /\ Frame!Init
  BY DEF MCInit
<1>2. [MCNext]_allVars => [Next]_vars
  BY DEF MCNext, Streaming, allVars
<1>3. [MCNext]_allVars => [Keys!Next]_Keys!vars
  <2>1. UNCHANGED ofKeys => UNCHANGED Keys!vars
    BY DEF ofKeys, Keys!vars
  <2> QED BY <2>1 DEF MCNext, Streaming, allVars
<1>4. [MCNext]_allVars => [Buf!Next]_Buf!vars
  <2>1. UNCHANGED ofBuffers => UNCHANGED Buf!vars
    BY DEF ofBuffers, Buf!vars, Buf!caller, Buf!store, Buf!enc, Buf!dec
  <2> QED BY <2>1 DEF MCNext, Streaming, allVars
<1>5. [MCNext]_allVars => [Frame!Next]_Frame!vars
  <2>1. UNCHANGED ofFrames => UNCHANGED Frame!vars
    BY DEF ofFrames, Frame!vars
  <2> QED BY <2>1 DEF MCNext, Streaming, allVars
<1> QED BY <1>1, <1>2, <1>3, <1>4, <1>5, PTL DEF Spec, Keys!Spec, Buf!Spec, Frame!Spec

=============================================================================
