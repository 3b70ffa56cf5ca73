------------------------------- MODULE Streams -------------------------------
(***************************************************************************)
(* The stream adapters of js/src/streams.ts, end to end: an asynchronous   *)
(* generator wrapped by asyncIterableToReadableStream, the stream read     *)
(* through readableStreamToAsyncIterable, and a consumer (transformStream, *)
(* collect) that iterates and may stop early, for instance because its     *)
(* transform throws.  The stream holds one chunk, as ReadableStream does   *)
(* without a strategy.                                                     *)
(***************************************************************************)
EXTENDS Integers, Sequences

CONSTANT MaxChunks    \* bound: chunks the source produces

VARIABLES
  produced,   \* chunks the source has answered; chunk n is the n-th
  source,     \* the generator: open, or how it ended
  pulling,    \* pull() awaits iterator.next()
  queue,      \* the stream's queue
  stream,     \* the stream's state
  reader,     \* the generator of readableStreamToAsyncIterable
  locked,     \* its reader holds the stream
  out,        \* history: chunks the consumer received
  stopped     \* history: the consumer stopped the iteration early

vars == <<produced, source, pulling, queue, stream, reader, locked, out, stopped>>

Init ==
  /\ produced = 0 /\ source = "open" /\ pulling = FALSE
  /\ queue = <<>> /\ stream = "readable"
  /\ reader = "idle" /\ locked = FALSE
  /\ out = <<>> /\ stopped = FALSE

\* Variant of MayPull: the source is read ahead of the consumer.
MayPullAhead == Len(queue) < 2

\* The stream calls pull() when its queue is empty.
MayPull == queue = <<>>

Pull ==
  /\ stream = "readable" /\ ~pulling /\ source = "open" /\ MayPull
  /\ pulling' = TRUE
  /\ UNCHANGED <<produced, source, queue, stream, reader, locked, out, stopped>>

\* iterator.next() answers a chunk: enqueue it, which answers a waiting read.
\* On a stream that was cancelled enqueue throws and the chunk is dropped.
NextChunk ==
  /\ pulling /\ source = "open" /\ produced < MaxChunks
  /\ pulling' = FALSE
  /\ produced' = produced + 1
  /\ \/ /\ stream = "readable" /\ reader = "reading"
        /\ out' = Append(out, produced')
        /\ reader' = "idle"
        /\ UNCHANGED queue
     \/ /\ stream = "readable" /\ reader # "reading"
        /\ queue' = Append(queue, produced')
        /\ UNCHANGED <<out, reader>>
     \/ /\ stream = "closed"
        /\ UNCHANGED <<queue, out, reader>>
  /\ UNCHANGED <<source, stream, locked, stopped>>

\* The stream is closed; a waiting read answers done and the reader cleans up.
Close ==
  /\ stream' = "closed"
  /\ reader' = IF reader = "reading" THEN "finally" ELSE reader

\* Variant of NextDone: the stream is not told.
NextDoneUntold ==
  /\ pulling /\ source = "open"
  /\ pulling' = FALSE /\ source' = "ended"
  /\ UNCHANGED <<produced, queue, stream, reader, locked, out, stopped>>

\* iterator.next() answers done: controller.close().
NextDone ==
  /\ pulling /\ source = "open"
  /\ pulling' = FALSE /\ source' = "ended"
  /\ Close
  /\ UNCHANGED <<produced, queue, locked, out, stopped>>

\* Variant of NextFails: the stream is closed as if the source had ended.
NextFailsQuietly ==
  /\ pulling /\ source = "open"
  /\ pulling' = FALSE /\ source' = "failed"
  /\ Close
  /\ UNCHANGED <<produced, queue, locked, out, stopped>>

\* iterator.next() throws: controller.error(), which discards the queue and
\* rejects a waiting read.  A closed stream stays closed.
NextFails ==
  /\ pulling /\ source = "open"
  /\ pulling' = FALSE /\ source' = "failed"
  /\ \/ /\ stream = "readable"
        /\ stream' = "errored" /\ queue' = <<>>
        /\ reader' = IF reader = "reading" THEN "finally" ELSE reader
     \/ stream = "closed" /\ UNCHANGED <<stream, queue, reader>>
  /\ UNCHANGED <<produced, locked, out, stopped>>

\* The consumer asks for the next chunk: getReader() the first time, then
\* reader.read().
Read ==
  /\ reader = "idle"
  /\ locked' = TRUE
  /\ \/ /\ queue # <<>>
        /\ queue' = Tail(queue) /\ out' = Append(out, Head(queue))
        /\ UNCHANGED reader
     \/ /\ queue = <<>>
        /\ reader' = IF stream = "readable" THEN "reading" ELSE "finally"
        /\ UNCHANGED <<queue, out>>
  /\ UNCHANGED <<produced, source, pulling, stream, stopped>>

\* Variant of Stop: the reader is released and the stream left as it is.
StopUncancelled ==
  /\ reader = "idle" /\ out # <<>>
  /\ reader' = "done" /\ locked' = FALSE /\ stopped' = TRUE
  /\ UNCHANGED <<produced, source, pulling, queue, stream, out>>

\* The consumer leaves its loop, which calls return() on the reader's generator:
\* the finally block cancels the stream.
Stop ==
  /\ reader = "idle" /\ out # <<>>
  /\ reader' = "finally" /\ stopped' = TRUE
  /\ stream' = IF stream = "readable" THEN "closed" ELSE stream
  /\ queue' = <<>>
  /\ UNCHANGED <<produced, source, pulling, locked, out>>

\* cancel() calls iterator.return(), which a generator runs after the next() it
\* is busy with.
ReturnSource ==
  /\ reader = "finally" /\ stopped /\ stream = "closed"
  /\ source = "open" /\ ~pulling
  /\ source' = "returned"
  /\ UNCHANGED <<produced, pulling, queue, stream, reader, locked, out, stopped>>

\* await reader.cancel() answers.  It rejects on an errored stream, so that
\* releaseLock() does not run.
Finish ==
  /\ reader = "finally"
  /\ \/ /\ stream = "errored"
        /\ reader' = "threw" /\ UNCHANGED locked
     \/ /\ stream = "closed" /\ source # "open"
        /\ reader' = "done" /\ locked' = FALSE
  /\ UNCHANGED <<produced, source, pulling, queue, stream, out, stopped>>

Next ==
  \/ Pull \/ NextChunk \/ NextDone \/ NextFails
  \/ Read \/ Stop \/ ReturnSource \/ Finish

Spec == Init /\ [][Next]_vars

(* The runtime runs what is ready, and the source answers what it is asked.*)
FairSpec ==
  /\ Spec
  /\ WF_vars(Pull) /\ WF_vars(NextChunk \/ NextDone \/ NextFails)
  /\ WF_vars(ReturnSource) /\ WF_vars(Finish)

-----------------------------------------------------------------------------
(* Properties.                                                             *)

Produced == [n \in 1..produced |-> n]

(* Every chunk of the source reaches the consumer, once and in order,      *)
(* unless the consumer stops; a source that fails discards none of the     *)
(* chunks it has already answered.                                         *)
NothingLost == ~stopped => out \o queue = Produced

(* A consumer that sees the end has seen the whole of a source that ended; *)
(* one that sees an error has a source that failed.                        *)
EndsAsSource ==
  /\ reader = "done" /\ ~stopped => source = "ended" /\ out = Produced
  /\ reader = "threw" => source = "failed"

(* A consumer that stops leaves no source open, also with a pull pending.  *)
SourceReleased == stopped ~> source # "open"

(* A read settles, and an iteration that is over cleans up.                *)
ReadSettles == reader \in {"reading", "finally"} ~> reader \notin {"reading", "finally"}

=============================================================================
