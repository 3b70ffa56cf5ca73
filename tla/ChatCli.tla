------------------------------ MODULE ChatCli -------------------------------
(***************************************************************************)
(* The Rust chat program (rs/examples/moq-secure-chat and -chat-cli): a    *)
(* publisher process that a user starts, types lines into and stops again, *)
(* and a subscriber process whose loop takes the announcements of the      *)
(* broadcast, subscribes and spawns one ChatSubscriber task for each.      *)
(* ChatPublisher signs every frame (n_signed = 1), so that no lease        *)
(* arises.                                                                 *)
(*                                                                         *)
(* The relay is external: an announcement may come late or not at all, a   *)
(* subscribe may be refused; a subscriber task receives the groups of one  *)
(* run in order, may miss some, and some may arrive damaged.               *)
(***************************************************************************)
EXTENDS Integers, Sequences

CONSTANTS
  MaxRuns,         \* bound: times the publisher is started
  MaxLines,        \* bound: lines typed in one run
  MaxDamages,      \* bound: groups that arrive damaged
  QueueCap,        \* capacity of the mpsc channel, 100 in the code
  MaxU64,          \* u64::MAX
  PersistentKeys   \* TRUE: --key-id, --aead-key and the seed are given

ASSUME ChatAssumption ==
  /\ MaxRuns \in Nat /\ MaxLines \in Nat /\ MaxDamages \in Nat
  /\ QueueCap \in Nat \ {0}
  /\ MaxU64 \in Nat
  /\ PersistentKeys \in BOOLEAN

Runs == 1..MaxRuns

VARIABLES
  run,         \* the publisher's current or last run, 0 before the first
  up,          \* the publisher process runs
  typed,       \* lines read from stdin in this run; line n is the n-th
  inputEnded,  \* stdin is at its end
  queue,       \* the mpsc channel between the stdin thread and the sender
  cryptoCtr,   \* ChatPublisher.crypto_ctr
  groupCtr,    \* ChatPublisher.group_ctr
  groups,      \* for each run, the groups published on the chat track
  subscriber,  \* where the subscriber's main is: in its select!, awaiting a
               \* subscribe, or returned: session closed, or subscribe refused
  heard,       \* the run whose announcement it took last, 0 before the first
  task,        \* for each run, the subscriber task its announcement spawned
  damages,     \* how many groups arrived damaged
  exit         \* history: how the last run of the publisher ended

pubVars == <<run, up, typed, inputEnded, queue, cryptoCtr, groupCtr, groups, exit>>
subVars == <<subscriber, heard, task, damages>>
vars == <<run, up, typed, inputEnded, queue, cryptoCtr, groupCtr, groups, exit,
          subscriber, heard, task, damages>>

\* Variant of KeyOf: the generated key outlives the run.
KeyOfSticky(r) == 1

\* The key_id and AEAD key of a run; the subscriber was given those of run 1.
KeyOf(r) == IF PersistentKeys THEN 1 ELSE r
SubscriberKey == 1

Group == [id : Nat, ctr : Nat, key : Nat, line : Nat]
Task == [state : {"none", "running", "ended", "failed", "aborted"},
         next : Nat, printed : Seq(Nat)]

TypeOK ==
  /\ run \in 0..MaxRuns /\ up \in BOOLEAN
  /\ typed \in 0..MaxLines /\ inputEnded \in BOOLEAN
  /\ queue \in Seq(1..MaxLines)
  /\ cryptoCtr \in 0..MaxU64 /\ groupCtr \in 0..MaxU64
  /\ groups \in [Runs -> Seq(Group)]
  /\ subscriber \in {"waiting", "subscribing", "closed", "refused"}
  /\ heard \in 0..MaxRuns
  /\ task \in [Runs -> Task]
  /\ damages \in 0..MaxDamages
  /\ exit \in {"none", "input ended", "interrupted", "exhausted"}

Init ==
  /\ run = 0 /\ up = FALSE
  /\ typed = 0 /\ inputEnded = FALSE /\ queue = <<>>
  /\ cryptoCtr = 0 /\ groupCtr = 0
  /\ groups = [r \in Runs |-> <<>>]
  /\ subscriber = "waiting" /\ heard = 0
  /\ task = [r \in Runs |-> [state |-> "none", next |-> 1, printed |-> <<>>]]
  /\ damages = 0
  /\ exit = "none"

-----------------------------------------------------------------------------
(* The publisher process.                                                  *)

\* main: create the broadcast and a ChatPublisher, whose counters start at 0.
StartPublisher ==
  /\ ~up /\ run < MaxRuns
  /\ run' = run + 1
  /\ up' = TRUE
  /\ typed' = 0 /\ inputEnded' = FALSE /\ queue' = <<>>
  /\ cryptoCtr' = 0 /\ groupCtr' = 0
  /\ exit' = "none"
  /\ UNCHANGED <<groups, subVars>>

\* The stdin thread: blocking_send waits while the channel is full.
ReadLine ==
  /\ up /\ ~inputEnded /\ typed < MaxLines
  /\ Len(queue) < QueueCap
  /\ typed' = typed + 1
  /\ queue' = Append(queue, typed + 1)
  /\ UNCHANGED <<run, up, inputEnded, cryptoCtr, groupCtr, groups, exit, subVars>>

\* The stdin thread ends and drops its sender.
EndInput ==
  /\ up /\ ~inputEnded
  /\ inputEnded' = TRUE
  /\ UNCHANGED <<run, up, typed, queue, cryptoCtr, groupCtr, groups, exit, subVars>>

\* The select! in main takes one branch, finishes the broadcast and returns.
Stop(reason) ==
  /\ up' = FALSE
  /\ exit' = reason

\* Variant of Exhausted: the additions are not checked.
NeverExhausted == FALSE

Exhausted == cryptoCtr = MaxU64 \/ groupCtr = MaxU64

\* send_message: take both counters, encrypt, create the group, write, finish.
SendMessage ==
  /\ up /\ queue # <<>> /\ ~Exhausted
  /\ queue' = Tail(queue)
  /\ cryptoCtr' = cryptoCtr + 1
  /\ groupCtr' = groupCtr + 1
  /\ groups' = [groups EXCEPT ![run] = Append(@,
       [id |-> groupCtr, ctr |-> cryptoCtr, key |-> KeyOf(run), line |-> Head(queue)])]
  /\ UNCHANGED <<run, up, typed, inputEnded, exit, subVars>>

\* Variant of SendExhausted: the sender tries the same message again.
SendExhaustedRetries ==
  /\ up /\ queue # <<>> /\ Exhausted
  /\ UNCHANGED vars

\* send_message fails on a counter; the error ends stdin_task and main.
SendExhausted ==
  /\ up /\ queue # <<>> /\ Exhausted
  /\ queue' = Tail(queue)
  /\ cryptoCtr' = IF cryptoCtr = MaxU64 THEN cryptoCtr ELSE cryptoCtr + 1
  /\ Stop("exhausted")
  /\ UNCHANGED <<run, typed, inputEnded, groupCtr, groups, subVars>>

\* Variant of FinishInput: the end of input does not wait for the channel.
FinishInputAtOnce ==
  /\ up /\ inputEnded
  /\ Stop("input ended")
  /\ UNCHANGED <<run, typed, inputEnded, queue, cryptoCtr, groupCtr, groups, subVars>>

\* rx.recv() answers None: the input ended and the channel is drained.
FinishInput ==
  /\ up /\ inputEnded /\ queue = <<>>
  /\ Stop("input ended")
  /\ UNCHANGED <<run, typed, inputEnded, queue, cryptoCtr, groupCtr, groups, subVars>>

\* Ctrl+C, the end of the reconnect loop, or a crash.
Interrupt ==
  /\ up
  /\ Stop("interrupted")
  /\ UNCHANGED <<run, typed, inputEnded, queue, cryptoCtr, groupCtr, groups, subVars>>

-----------------------------------------------------------------------------
(* The subscriber process.                                                 *)

\* Variant of Announce: a task that failed ends the following of broadcasts.
AnnounceWhileIntact(r) ==
  /\ subscriber = "waiting" /\ heard < r /\ r <= run
  /\ \A s \in Runs : task[s].state # "failed"
  /\ subscriber' = "subscribing" /\ heard' = r
  /\ UNCHANGED <<pubVars, task, damages>>

\* select! takes Some(broadcast) from origin.next() and asks for the track.
\* The update may be late: the run may be over, and updates between may be
\* missing.  An offline update is only logged; after the end of the updates
\* (None) the branch stays disabled, as when no announcement comes.
Announce(r) ==
  /\ subscriber = "waiting" /\ heard < r /\ r <= run
  /\ subscriber' = "subscribing" /\ heard' = r
  /\ UNCHANGED <<pubVars, task, damages>>

\* subscribe(None).await answers: spawn the ChatSubscriber, back to select!.
Subscribed ==
  /\ subscriber = "subscribing"
  /\ subscriber' = "waiting"
  /\ task' = [task EXCEPT ![heard].state = "running"]
  /\ UNCHANGED <<pubVars, heard, damages>>

\* main returns, and the runtime goes with the tasks it spawned.
Return(how) ==
  /\ subscriber' = how
  /\ task' = [r \in Runs |-> IF task[r].state = "running"
                             THEN [task[r] EXCEPT !.state = "aborted"] ELSE task[r]]
  /\ UNCHANGED <<pubVars, heard, damages>>

\* track(CHAT_TRACK)? or subscribe(None).await? fails, for instance because
\* the broadcast is offline again.
SubscribeFails == subscriber = "subscribing" /\ Return("refused")

\* reconnect.closed() answers; it is awaited in the select! only.
ReconnectCloses == subscriber = "waiting" /\ Return("closed")

\* ChatSubscriber::run reads the i-th group and decrypts its frame.
ReceiveGroup(r, i) ==
  /\ task[r].state = "running"
  /\ i >= task[r].next /\ i <= Len(groups[r])
  /\ LET g == groups[r][i]
         Opened(intact) == intact /\ g.key = SubscriberKey
     IN  \E intact \in BOOLEAN :
           /\ intact \/ damages < MaxDamages
           /\ damages' = IF intact THEN damages ELSE damages + 1
           /\ \/ /\ Opened(intact)
                 /\ task' = [task EXCEPT ![r].next = i + 1,
                                         ![r].printed = Append(@, g.line)]
              \/ /\ ~Opened(intact)
                 /\ task' = [task EXCEPT ![r].next = i + 1, ![r].state = "failed"]
  /\ UNCHANGED <<pubVars, subscriber, heard>>

\* recv_group or read_frame answers that the track is over.
TrackEnds(r) ==
  /\ task[r].state = "running"
  /\ ~(up /\ run = r)
  /\ task' = [task EXCEPT ![r].state = "ended"]
  /\ UNCHANGED <<pubVars, subscriber, heard, damages>>

Next ==
  \/ StartPublisher \/ ReadLine \/ EndInput \/ Interrupt
  \/ SendMessage \/ SendExhausted \/ FinishInput
  \/ Subscribed \/ SubscribeFails \/ ReconnectCloses
  \/ \E r \in Runs : Announce(r) \/ TrackEnds(r)
  \/ \E r \in Runs, i \in 1..MaxLines : ReceiveGroup(r, i)

Spec == Init /\ [][Next]_vars

(* The runtime polls a task that can make progress; the relay announces a  *)
(* broadcast that stays online while the subscriber listens, and answers a *)
(* subscribe one way or the other.                                         *)
FairSpec ==
  /\ Spec
  /\ WF_vars(SendMessage \/ SendExhausted \/ FinishInput)
  /\ WF_vars(Subscribed \/ SubscribeFails)
  /\ \A r \in Runs : WF_vars(up /\ run = r /\ Announce(r))

-----------------------------------------------------------------------------
(* Properties.                                                             *)

SealedWith(r, i) == <<groups[r][i].key, groups[r][i].ctr>>

(* No (key_id, ctr) pair is used twice with the same AEAD key, over all    *)
(* runs of the publisher (specification/README section 2).               *)
NonceUnique ==
  \A r, s \in Runs : \A i \in DOMAIN groups[r], j \in DOMAIN groups[s] :
    SealedWith(r, i) = SealedWith(s, j) => r = s /\ i = j

LinesSent == [i \in DOMAIN groups[run] |-> groups[run][i].line]
LinesTyped == [i \in 1..typed |-> i]

(* Every typed line is published once, in order, under the next group id:  *)
(* what is not yet published waits in the channel, and a publisher whose   *)
(* input ended has published all of it.                                    *)
LinesAccounted ==
  run > 0 =>
    /\ up => LinesSent \o queue = LinesTyped
    /\ exit = "input ended" => LinesSent = LinesTyped
    /\ \A i \in DOMAIN groups[run] : groups[run][i].id = i - 1

(* A frame that does not verify or open is dropped: it costs its own line, *)
(* and the subscriber goes on with the next (specification/README          *)
(* sections 6 and 8).                                                      *)
BadFrameDropped == \A r \in Runs : task[r].state # "failed"

(* The publisher drains its channel: after the end of input it publishes   *)
(* what was typed and exits, even when the counters run out.               *)
InputEndsRun == \A r \in Runs : (up /\ run = r /\ inputEnded) ~> ~(up /\ run = r)

(* A broadcast that goes offline and returns is subscribed to again: the   *)
(* loop comes back from every subscribe, late ones of earlier runs         *)
(* included, and whatever became of their tasks it takes the announcement  *)
(* of a run that stays online and has a task for it.  Only a session that  *)
(* is closed or a subscribe that is refused ends the process before that.  *)
SubscriberReturns ==
  \A r \in Runs : (up /\ run = r) ~>
    \/ ~(up /\ run = r)
    \/ task[r].state # "none"
    \/ subscriber \in {"closed", "refused"}

=============================================================================
