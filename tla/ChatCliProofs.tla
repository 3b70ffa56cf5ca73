---------------------------- MODULE ChatCliProofs ----------------------------
(***************************************************************************)
(* ChatCli's type correctness, the uniqueness of the nonces its runs use,  *)
(* that no typed line is lost, repeated or reordered on its way to the     *)
(* track, and that the subscriber follows the runs of the publisher, for   *)
(* any number of runs and lines and any counter width.                     *)
(***************************************************************************)
EXTENDS ChatCli, SequenceTheorems, TLAPS

-----------------------------------------------------------------------------
(* The counters of a run count its groups, and the channel holds the lines *)
(* typed but not yet published.                                            *)

Published == groups[run]

GroupsOK ==
  /\ \A r \in Runs : \A i \in DOMAIN groups[r] :
       /\ groups[r][i].key = KeyOf(r)
       /\ groups[r][i].ctr = i - 1
       /\ groups[r][i].id = i - 1
  /\ \A r \in Runs : r > run => groups[r] = <<>>
  /\ up => /\ run > 0
           /\ cryptoCtr = Len(Published)
           /\ groupCtr = Len(Published)

LinesOK ==
  /\ run > 0 => \A i \in DOMAIN Published : Published[i].line = i
  /\ up => /\ exit = "none"
           /\ Len(Published) + Len(queue) = typed
           /\ \A i \in DOMAIN queue : queue[i] = Len(Published) + i
  /\ run > 0 /\ exit = "input ended" => Len(Published) = typed

ChatInv == TypeOK /\ GroupsOK /\ LinesOK

LEMMA ChatInit == Init => ChatInv
<1> SUFFICES ASSUME Init PROVE ChatInv
  OBVIOUS
<1>1. TypeOK
  <2>1. /\ run \in 0..MaxRuns /\ typed \in 0..MaxLines /\ damages \in 0..MaxDamages
        /\ cryptoCtr \in 0..MaxU64 /\ groupCtr \in 0..MaxU64
    BY ChatAssumption DEF Init
  <2>2. /\ queue \in Seq(1..MaxLines)
        /\ groups \in [Runs -> Seq(Group)]
    BY EmptySeq DEF Init
  <2>3. /\ task \in [Runs -> Task]
        /\ subscriber \in {"waiting", "subscribing", "closed", "refused"}
        /\ heard \in 0..MaxRuns
    BY EmptySeq, ChatAssumption DEF Init, Task
  <2> QED BY <2>1, <2>2, <2>3 DEF Init, TypeOK
<1>2. GroupsOK /\ LinesOK
  BY DEF Init, GroupsOK, LinesOK, Published, Runs
<1> QED BY <1>1, <1>2 DEF ChatInv

\* The types of the numbers and sequences, for arithmetic.
LEMMA ChatTypes ==
  ASSUME ChatInv
  PROVE  /\ MaxRuns \in Nat /\ MaxLines \in Nat
         /\ run \in Nat /\ run <= MaxRuns
         /\ typed \in Nat /\ typed <= MaxLines
         /\ queue \in Seq(1..MaxLines)
         /\ Len(queue) \in Nat /\ DOMAIN queue = 1..Len(queue)
         /\ \A r \in Runs : /\ r \in Nat /\ r > 0
                            /\ groups[r] \in Seq(Group)
                            /\ Len(groups[r]) \in Nat
                            /\ DOMAIN groups[r] = 1..Len(groups[r])
         /\ run > 0 => run \in Runs
<1>1. run \in 0..MaxRuns /\ typed \in 0..MaxLines
      /\ queue \in Seq(1..MaxLines) /\ groups \in [Runs -> Seq(Group)]
  BY DEF ChatInv, TypeOK
<1>2. MaxRuns \in Nat /\ MaxLines \in Nat
  BY ChatAssumption
<1>3. /\ run \in Nat /\ run <= MaxRuns
      /\ typed \in Nat /\ typed <= MaxLines
      /\ run > 0 => run \in Runs
      /\ \A r \in Runs : r \in Nat /\ r > 0
  BY <1>1, <1>2 DEF Runs
<1>4. Len(queue) \in Nat /\ DOMAIN queue = 1..Len(queue)
  BY <1>1, LenProperties
<1>5. \A r \in Runs : /\ groups[r] \in Seq(Group)
                      /\ Len(groups[r]) \in Nat
                      /\ DOMAIN groups[r] = 1..Len(groups[r])
  BY <1>1, LenProperties
<1> QED BY <1>1, <1>2, <1>3, <1>4, <1>5

LEMMA Drained ==
  ASSUME ChatInv, run > 0, Len(Published) + Len(queue) = typed, queue = <<>>
  PROVE  Len(Published) = typed
<1>1. Len(Published) \in Nat /\ Len(queue) = 0
  BY ChatTypes, EmptySeq DEF Published
<1> QED BY <1>1

\* What is published and what waits in the channel are the lines typed.
LEMMA SentAndQueued ==
  ASSUME ChatInv, run > 0, Len(Published) + Len(queue) = typed,
         \A i \in DOMAIN queue : queue[i] = Len(Published) + i
  PROVE  LinesSent \o queue = LinesTyped
<1> DEFINE n == Len(Published)
<1>1. n \in Nat /\ DOMAIN Published = 1..n /\ typed \in Nat
      /\ queue \in Seq(1..MaxLines) /\ Len(queue) \in Nat /\ DOMAIN queue = 1..Len(queue)
  BY ChatTypes DEF Published
<1>2. LinesSent = [i \in 1..n |-> i]
  BY <1>1 DEF LinesSent, Published, ChatInv, LinesOK
<1>3. n + Len(queue) = typed /\ \A i \in DOMAIN queue : queue[i] = n + i
  OBVIOUS
<1> HIDE DEF n
<1>4. queue \in Seq(Nat)
  <2>1. (1..MaxLines) \subseteq Nat
    BY ChatTypes
  <2> QED BY <1>1, <2>1, SeqMonotonic
<1>5. LinesTyped \in Seq(Nat) /\ Len(LinesTyped) = typed
  BY <1>1 DEF LinesTyped
<1>6. LinesSent \in Seq(Nat) /\ Len(LinesSent) = n
  BY <1>1, <1>2
<1>7. /\ LinesSent \o queue \in Seq(Nat) /\ Len(LinesSent \o queue) = typed
      /\ \A i \in 1..typed : (LinesSent \o queue)[i] =
           IF i <= n THEN LinesSent[i] ELSE queue[i - n]
  <2>1. /\ LinesSent \o queue \in Seq(Nat)
        /\ Len(LinesSent \o queue) = Len(LinesSent) + Len(queue)
        /\ \A i \in 1 .. Len(LinesSent) + Len(queue) : (LinesSent \o queue)[i] =
             IF i <= Len(LinesSent) THEN LinesSent[i] ELSE queue[i - Len(LinesSent)]
    BY <1>4, <1>6, ConcatProperties
  <2> QED BY <1>3, <1>6, <2>1
<1>8. ASSUME NEW i \in 1..typed PROVE (LinesSent \o queue)[i] = LinesTyped[i]
  <2>1. LinesTyped[i] = i
    BY DEF LinesTyped
  <2>2. CASE i <= n
    BY <1>1, <1>2, <1>7, <2>1, <2>2
  <2>3. CASE i > n
    <3>1. i - n \in DOMAIN queue
      BY <1>1, <1>3, <2>3
    <3>2. queue[i - n] = i
      BY <1>1, <1>3, <3>1
    <3>3. (LinesSent \o queue)[i] = queue[i - n]
      BY <1>1, <1>7, <2>3
    <3> QED BY <2>1, <3>2, <3>3
  <2>4. i \in Int /\ n \in Int
    BY <1>1
  <2>5. i <= n \/ i > n
    BY <2>4
  <2> QED BY <2>2, <2>3, <2>5
<1> QED BY <1>5, <1>7, <1>8, SeqEqual

\* The steps of the subscriber leave the publisher alone.
LEMMA SubscriberSteps ==
  ASSUME ChatInv, UNCHANGED pubVars, task' \in [Runs -> Task], damages' \in 0..MaxDamages,
         subscriber' \in {"waiting", "subscribing", "closed", "refused"},
         heard' \in 0..MaxRuns
  PROVE  ChatInv'
<1>1. /\ run' = run /\ typed' = typed /\ queue' = queue /\ cryptoCtr' = cryptoCtr
      /\ groupCtr' = groupCtr /\ groups' = groups /\ exit' = exit
      /\ up' = up /\ inputEnded' = inputEnded
  BY DEF pubVars
<1>2. TypeOK'
  BY <1>1 DEF ChatInv, TypeOK
<1>3. GroupsOK' /\ LinesOK'
  BY <1>1 DEF ChatInv, GroupsOK, LinesOK, Published
<1> QED BY <1>2, <1>3 DEF ChatInv

LEMMA TypeReceive ==
  ASSUME ChatInv, NEW r \in Runs, NEW i \in 1..MaxLines, ReceiveGroup(r, i)
  PROVE  task' \in [Runs -> Task] /\ damages' \in 0..MaxDamages
<1>1. task \in [Runs -> Task] /\ groups[r] \in Seq(Group) /\ damages \in 0..MaxDamages
  BY DEF ChatInv, TypeOK
<1>2. i \in 1..Len(groups[r]) /\ i + 1 \in Nat
  BY <1>1, LenProperties, ChatAssumption DEF ReceiveGroup
<1>3. groups[r][i].line \in Nat
  <2>1. groups[r][i] \in Group
    BY <1>1, <1>2, ElementOfSeq
  <2> QED BY <2>1 DEF Group
<1>4. damages' \in 0..MaxDamages
  BY <1>1, ChatAssumption DEF ReceiveGroup
<1>5. task[r].printed \in Seq(Nat)
  BY <1>1 DEF Task
<1>6. Append(task[r].printed, groups[r][i].line) \in Seq(Nat)
  BY <1>3, <1>5
<1>7. task' \in [Runs -> Task]
  <2>1. CASE task' = [task EXCEPT ![r].next = i + 1,
                                  ![r].printed = Append(@, groups[r][i].line)]
    <3> DEFINE printed == Append(task[r].printed, groups[r][i].line)
    <3>1. task' = [task EXCEPT ![r] = [task[r] EXCEPT !.next = i + 1, !.printed = printed]]
      BY <2>1
    <3>2. printed \in Seq(Nat)
      BY <1>6
    <3> HIDE DEF printed
    <3>3. [task[r] EXCEPT !.next = i + 1, !.printed = printed] \in Task
      BY <1>1, <1>2, <3>2 DEF Task
    <3> QED BY <1>1, <3>1, <3>3
  <2>2. CASE task' = [task EXCEPT ![r].next = i + 1, ![r].state = "failed"]
    BY <1>1, <1>2, <2>2 DEF Task
  <2> QED BY <2>1, <2>2 DEF ReceiveGroup
<1> QED BY <1>4, <1>7

\* send_message moves the head of the channel to the end of the track.
LEMMA ChatSend ==
  ASSUME ChatInv, SendMessage
  PROVE  ChatInv'
<1> DEFINE g == [id |-> groupCtr, ctr |-> cryptoCtr, key |-> KeyOf(run), line |-> Head(queue)]
           n == Len(groups[run])
<1>1. /\ up /\ queue # <<>> /\ queue' = Tail(queue)
      /\ groups' = [groups EXCEPT ![run] = Append(@, g)]
      /\ UNCHANGED <<run, up, typed, inputEnded, exit, subscriber, heard, task, damages>>
  BY DEF SendMessage, subVars
<1>2. cryptoCtr # MaxU64 /\ groupCtr # MaxU64
      /\ cryptoCtr' = cryptoCtr + 1 /\ groupCtr' = groupCtr + 1
  BY DEF SendMessage, Exhausted
<1>3. /\ run \in 0..MaxRuns /\ typed \in 0..MaxLines /\ queue \in Seq(1..MaxLines)
      /\ cryptoCtr \in 0..MaxU64 /\ groupCtr \in 0..MaxU64
      /\ groups \in [Runs -> Seq(Group)]
  BY DEF ChatInv, TypeOK
<1>4. run \in Runs /\ run > 0
  BY <1>1, <1>3 DEF ChatInv, GroupsOK, Runs
<1>5. n \in Nat /\ groups[run] \in Seq(Group) /\ DOMAIN groups[run] = 1..n
  BY <1>3, <1>4, LenProperties
<1>6. /\ cryptoCtr = n /\ groupCtr = n
      /\ n + Len(queue) = typed
      /\ \A i \in DOMAIN queue : queue[i] = n + i
  BY <1>1 DEF ChatInv, GroupsOK, LinesOK, Published
<1>7. /\ Head(queue) \in 1..MaxLines /\ Tail(queue) \in Seq(1..MaxLines)
      /\ Len(Tail(queue)) = Len(queue) - 1 /\ Len(queue) \in Nat /\ Len(queue) > 0
      /\ \A i \in DOMAIN Tail(queue) : Tail(queue)[i] = queue[i + 1] /\ i + 1 \in DOMAIN queue
      /\ Head(queue) = queue[1] /\ 1 \in DOMAIN queue
  <2>1. /\ Head(queue) \in 1..MaxLines /\ Tail(queue) \in Seq(1..MaxLines)
        /\ Len(Tail(queue)) = Len(queue) - 1 /\ Len(queue) \in Nat /\ Len(queue) > 0
        /\ \A i \in 1..Len(Tail(queue)) : Tail(queue)[i] = queue[i + 1]
    <3>1. /\ Head(queue) \in 1..MaxLines /\ Tail(queue) \in Seq(1..MaxLines)
          /\ Len(Tail(queue)) = Len(queue) - 1
          /\ \A i \in 1..Len(Tail(queue)) : Tail(queue)[i] = queue[i + 1]
      BY <1>1, <1>3, HeadTailProperties
    <3>2. Len(queue) \in Nat \ {0}
      BY <1>1, <1>3, EmptySeq
    <3> QED BY <3>1, <3>2
  <2>2. DOMAIN queue = 1..Len(queue) /\ DOMAIN Tail(queue) = 1..(Len(queue) - 1)
    BY <1>3, <2>1, LenProperties
  <2>3. Head(queue) = queue[1]
    BY <1>3
  <2> QED BY <2>1, <2>2, <2>3
<1>8. g \in Group
  BY <1>3, <1>4, <1>7, ChatAssumption DEF Group, KeyOf
<1>9. /\ Append(groups[run], g) \in Seq(Group)
      /\ Len(Append(groups[run], g)) = n + 1
      /\ DOMAIN Append(groups[run], g) = 1..(n + 1)
      /\ \A i \in 1..n : Append(groups[run], g)[i] = groups[run][i]
      /\ Append(groups[run], g)[n + 1] = g
  BY <1>5, <1>8, AppendProperties
<1>10. groups'[run] = Append(groups[run], g) /\ \A r \in Runs : r # run => groups'[r] = groups[r]
  BY <1>1, <1>3, <1>4
<1>11. g.line = n + 1 /\ g.ctr = n /\ g.id = n /\ g.key = KeyOf(run)
  BY <1>6, <1>7
<1> HIDE DEF g, n
<1>12. TypeOK'
  <2>1. cryptoCtr' \in 0..MaxU64 /\ groupCtr' \in 0..MaxU64
    BY <1>2, <1>3, ChatAssumption
  <2>2. groups' \in [Runs -> Seq(Group)]
    BY <1>1, <1>3, <1>9, <1>4
  <2> QED BY <1>1, <1>7, <2>1, <2>2 DEF ChatInv, TypeOK
<1>13. GroupsOK'
  <2>1. ASSUME NEW r \in Runs, NEW i \in DOMAIN groups'[r]
        PROVE  /\ groups'[r][i].key = KeyOf(r)
               /\ groups'[r][i].ctr = i - 1
               /\ groups'[r][i].id = i - 1
    <3>1. CASE r # run
      BY <1>10, <2>1, <3>1 DEF ChatInv, GroupsOK
    <3>2. CASE r = run /\ i \in 1..n
      <4>1. groups'[r][i] = groups[run][i]
        BY <1>9, <1>10, <3>2
      <4> QED BY <1>4, <1>5, <3>2, <4>1 DEF ChatInv, GroupsOK
    <3>3. CASE r = run /\ i = n + 1
      <4>1. groups'[r][i] = g
        BY <1>9, <1>10, <3>3
      <4> QED BY <1>5, <1>11, <3>3, <4>1
    <3>4. r = run => i \in 1..(n + 1)
      BY <1>9, <1>10, <2>1
    <3> QED BY <1>5, <3>1, <3>2, <3>3, <3>4
  <2>2. \A r \in Runs : r > run' => groups'[r] = <<>>
    BY <1>1, <1>10, <1>4 DEF ChatInv, GroupsOK, Runs
  <2>3. Len(Published') = n + 1
    BY <1>1, <1>9, <1>10 DEF Published
  <2>4. run' > 0 /\ cryptoCtr' = Len(Published') /\ groupCtr' = Len(Published')
    BY <1>1, <1>2, <1>4, <1>6, <2>3
  <2>5. (\A r \in Runs : \A i \in DOMAIN groups[r] :
           /\ groups[r][i].key = KeyOf(r)
           /\ groups[r][i].ctr = i - 1
           /\ groups[r][i].id = i - 1)'
    BY <2>1 DEF KeyOf
  <2> QED BY <2>2, <2>4, <2>5 DEF GroupsOK
<1>14. LinesOK'
  <2>1. /\ Published' = Append(groups[run], g) /\ run' = run /\ typed' = typed
        /\ exit = "none" /\ exit' = exit /\ queue' = Tail(queue)
    BY <1>1, <1>10 DEF Published, ChatInv, LinesOK
  <2>2. ASSUME NEW i \in DOMAIN Published' PROVE Published'[i].line = i
    <3>1. CASE i \in 1..n
      <4>1. Published = groups[run] /\ run > 0
        BY <1>4 DEF Published
      <4>2. i \in DOMAIN Published
        BY <1>5, <3>1, <4>1
      <4>3. Published[i].line = i
        BY <4>1, <4>2 DEF ChatInv, LinesOK
      <4> QED BY <1>9, <2>1, <3>1, <4>1, <4>3
    <3>2. CASE i = n + 1
      BY <1>9, <1>11, <2>1, <3>2
    <3> QED BY <1>5, <1>9, <2>1, <2>2, <3>1, <3>2
  <2>3. Len(Published') + Len(queue') = typed'
    <3>1. Len(Published') = n + 1 /\ Len(queue') = Len(queue) - 1
      BY <1>7, <1>9, <2>1
    <3> QED BY <1>5, <1>6, <1>7, <2>1, <3>1
  <2>4. \A i \in DOMAIN queue' : queue'[i] = Len(Published') + i
    <3> SUFFICES ASSUME NEW i \in DOMAIN Tail(queue) PROVE Tail(queue)[i] = (n + 1) + i
      BY <1>9, <2>1
    <3>1. i \in Int
      BY <1>7, LenProperties
    <3>2. Tail(queue)[i] = n + (i + 1)
      BY <1>6, <1>7
    <3> QED BY <1>5, <3>1, <3>2
  <2>5. exit' = "none"
    BY <2>1
  <2> QED BY <2>2, <2>3, <2>4, <2>5 DEF LinesOK
<1> QED BY <1>12, <1>13, <1>14 DEF ChatInv

LEMMA ChatStart ==
  ASSUME ChatInv, StartPublisher
  PROVE  ChatInv'
<1>1. /\ run < MaxRuns /\ run' = run + 1 /\ up' = TRUE
      /\ typed' = 0 /\ inputEnded' = FALSE /\ queue' = <<>>
      /\ cryptoCtr' = 0 /\ groupCtr' = 0 /\ exit' = "none"
      /\ UNCHANGED <<groups, subscriber, heard, task, damages>>
  BY DEF StartPublisher, subVars
<1>2. run \in Nat /\ run + 1 \in Runs /\ groups[run + 1] = <<>>
  <2>1. run \in Nat /\ run + 1 \in Runs /\ run + 1 > run
    BY <1>1, ChatTypes DEF Runs
  <2> QED BY <2>1 DEF ChatInv, GroupsOK
<1>3. TypeOK'
  <2>1. queue' \in Seq(1..MaxLines)
    BY <1>1, EmptySeq
  <2>2. run' \in 0..MaxRuns /\ typed' \in 0..MaxLines
        /\ cryptoCtr' \in 0..MaxU64 /\ groupCtr' \in 0..MaxU64
    BY <1>1, <1>2, ChatAssumption DEF Runs
  <2> QED BY <1>1, <2>1, <2>2 DEF ChatInv, TypeOK
<1>4. Published' = <<>>
  BY <1>1, <1>2 DEF Published
<1>5. GroupsOK'
  BY <1>1, <1>2, <1>4 DEF ChatInv, GroupsOK, KeyOf, Runs
<1>6. LinesOK'
  BY <1>1, <1>4 DEF LinesOK
<1> QED BY <1>3, <1>5, <1>6 DEF ChatInv

\* The stdin thread numbers the lines it puts into the channel.
LEMMA ChatRead ==
  ASSUME ChatInv, ReadLine
  PROVE  ChatInv'
<1>1. /\ up /\ typed < MaxLines /\ typed' = typed + 1
      /\ queue' = Append(queue, typed + 1)
      /\ UNCHANGED <<run, up, inputEnded, cryptoCtr, groupCtr, groups, exit,
                     subscriber, heard, task, damages>>
  BY DEF ReadLine, subVars
<1>2. typed \in Nat /\ typed + 1 \in 1..MaxLines /\ queue \in Seq(1..MaxLines)
  BY <1>1, ChatTypes
<1>3. /\ queue' \in Seq(1..MaxLines) /\ Len(queue') = Len(queue) + 1 /\ Len(queue) \in Nat
      /\ DOMAIN queue = 1..Len(queue) /\ DOMAIN queue' = 1..(Len(queue) + 1)
      /\ \A i \in 1..Len(queue) : queue'[i] = queue[i]
      /\ queue'[Len(queue) + 1] = typed + 1
  <2> DEFINE q == Append(queue, typed + 1)
  <2>1. /\ q \in Seq(1..MaxLines) /\ Len(q) = Len(queue) + 1
        /\ \A i \in 1..Len(queue) : q[i] = queue[i]
        /\ q[Len(queue) + 1] = typed + 1
    BY <1>2, AppendProperties
  <2>2. Len(queue) \in Nat /\ DOMAIN queue = 1..Len(queue) /\ DOMAIN q = 1..Len(q)
    BY <1>2, <2>1, LenProperties
  <2> HIDE DEF q
  <2>3. queue' = q
    BY <1>1 DEF q
  <2> QED BY <2>1, <2>2, <2>3
<1>4. TypeOK'
  <2>1. typed' \in 0..MaxLines
    BY <1>1, <1>2, ChatAssumption
  <2> QED BY <1>1, <1>3, <2>1 DEF ChatInv, TypeOK
<1>5. GroupsOK'
  BY <1>1 DEF ChatInv, GroupsOK, Published
<1>6. LinesOK'
  <2>1. Published' = Published /\ exit = "none" /\ exit' = "none" /\ run' = run
        /\ Len(Published) + Len(queue) = typed
        /\ \A i \in DOMAIN queue : queue[i] = Len(Published) + i
    BY <1>1 DEF Published, ChatInv, LinesOK
  <2>2. Len(Published) \in Nat
    <3>1. run > 0
      BY <1>1 DEF ChatInv, GroupsOK
    <3> QED BY <3>1, ChatTypes DEF Published
  <2>3. Len(Published') + Len(queue') = typed'
    BY <1>1, <1>2, <1>3, <2>1, <2>2
  <2>4. ASSUME NEW i \in DOMAIN queue' PROVE queue'[i] = Len(Published') + i
    <3>1. CASE i \in 1..Len(queue)
      BY <1>3, <2>1, <3>1
    <3>2. CASE i = Len(queue) + 1
      BY <1>2, <1>3, <2>1, <2>2, <3>2
    <3> QED BY <1>3, <2>4, <3>1, <3>2
  <2>5. run' > 0 => \A i \in DOMAIN Published' : Published'[i].line = i
    BY <2>1 DEF ChatInv, LinesOK
  <2> QED BY <2>1, <2>3, <2>4, <2>5 DEF LinesOK
<1> QED BY <1>4, <1>5, <1>6 DEF ChatInv

\* A run that stops keeps what it published; only rx.recv() = None says why.
LEMMA ChatStop ==
  ASSUME ChatInv, NEW reason \in {"input ended", "interrupted", "exhausted"},
         up, Stop(reason), reason = "input ended" => queue = <<>>,
         queue' \in Seq(1..MaxLines), cryptoCtr' \in 0..MaxU64,
         UNCHANGED <<run, typed, inputEnded, groupCtr, groups, subVars>>
  PROVE  ChatInv'
<1>1. up' = FALSE /\ exit' = reason
  BY DEF Stop
<1>2. TypeOK'
  BY <1>1 DEF ChatInv, TypeOK, subVars
<1>3. GroupsOK'
  BY <1>1 DEF ChatInv, GroupsOK, Published
<1>4. Published' = Published /\ Len(Published) + Len(queue) = typed
      /\ (run > 0 => \A i \in DOMAIN Published : Published[i].line = i)
  BY DEF Published, ChatInv, LinesOK
<1>5. reason = "input ended" => Len(Published) = typed
  <2>1. run > 0
    BY DEF ChatInv, GroupsOK
  <2> QED BY <1>4, <2>1, Drained
<1>6. LinesOK'
  BY <1>1, <1>4, <1>5 DEF LinesOK
<1> QED BY <1>2, <1>3, <1>6 DEF ChatInv

LEMMA ChatNext == ChatInv /\ [Next]_vars => ChatInv'
<1> SUFFICES ASSUME ChatInv, [Next]_vars PROVE ChatInv'
  OBVIOUS
<1>1. CASE StartPublisher
  BY <1>1, ChatStart
<1>2. CASE ReadLine
  BY <1>2, ChatRead
<1>3. CASE SendMessage
  BY <1>3, ChatSend
<1>4. CASE EndInput
  <2>1. TypeOK'
    BY <1>4 DEF EndInput, ChatInv, TypeOK, subVars
  <2>2. GroupsOK' /\ LinesOK'
    BY <1>4 DEF EndInput, ChatInv, GroupsOK, LinesOK, Published
  <2> QED BY <2>1, <2>2 DEF ChatInv
<1>5. queue \in Seq(1..MaxLines) /\ cryptoCtr \in 0..MaxU64
  BY DEF ChatInv, TypeOK
<1>6. CASE Interrupt
  BY <1>5, <1>6, ChatStop DEF Interrupt
<1>7. CASE FinishInput
  BY <1>5, <1>7, ChatStop DEF FinishInput
<1>8. CASE SendExhausted
  <2>1. up /\ Stop("exhausted") /\ queue # <<>> /\ queue' = Tail(queue)
        /\ UNCHANGED <<run, typed, inputEnded, groupCtr, groups, subVars>>
    BY <1>8 DEF SendExhausted
  <2>2. queue' \in Seq(1..MaxLines)
    BY <1>5, <2>1, HeadTailProperties
  <2>3. cryptoCtr' \in 0..MaxU64
    BY <1>5, <1>8, ChatAssumption DEF SendExhausted
  <2> QED BY <2>1, <2>2, <2>3, ChatStop
<1>9. /\ task \in [Runs -> Task] /\ damages \in 0..MaxDamages
      /\ subscriber \in {"waiting", "subscribing", "closed", "refused"}
      /\ heard \in 0..MaxRuns
  BY DEF ChatInv, TypeOK
<1>10. ASSUME NEW r \in Runs, TrackEnds(r) PROVE ChatInv'
  <2>1. /\ task' = [task EXCEPT ![r].state = "ended"]
        /\ UNCHANGED <<pubVars, subscriber, heard, damages>>
    BY <1>10 DEF TrackEnds
  <2>2. task' \in [Runs -> Task]
    BY <1>9, <2>1 DEF Task
  <2> QED BY <1>9, <2>1, <2>2, SubscriberSteps
<1>11. ASSUME NEW r \in Runs, Announce(r) PROVE ChatInv'
  <2>1. /\ subscriber' = "subscribing" /\ heard' = r
        /\ UNCHANGED <<pubVars, task, damages>>
    BY <1>11 DEF Announce
  <2>2. r \in 0..MaxRuns
    BY ChatAssumption DEF Runs
  <2> QED BY <1>9, <2>1, <2>2, SubscriberSteps
<1>12. CASE Subscribed
  <2>1. /\ subscriber' = "waiting" /\ task' = [task EXCEPT ![heard].state = "running"]
        /\ UNCHANGED <<pubVars, heard, damages>>
    BY <1>12 DEF Subscribed
  <2>2. task' \in [Runs -> Task]
    BY <1>9, <2>1 DEF Task
  <2> QED BY <1>9, <2>1, <2>2, SubscriberSteps
<1>13. CASE SubscribeFails \/ ReconnectCloses
  <2>1. /\ subscriber' \in {"closed", "refused"}
        /\ task' = [r \in Runs |-> IF task[r].state = "running"
                                   THEN [task[r] EXCEPT !.state = "aborted"] ELSE task[r]]
        /\ UNCHANGED <<pubVars, heard, damages>>
    BY <1>13 DEF SubscribeFails, ReconnectCloses, Return
  <2>2. task' \in [Runs -> Task]
    BY <1>9, <2>1 DEF Task
  <2> QED BY <1>9, <2>1, <2>2, SubscriberSteps
<1>14. ASSUME NEW r \in Runs, NEW i \in 1..MaxLines, ReceiveGroup(r, i) PROVE ChatInv'
  <2>1. UNCHANGED <<pubVars, subscriber, heard>>
    BY <1>14 DEF ReceiveGroup
  <2> QED BY <1>9, <1>14, <2>1, TypeReceive, SubscriberSteps
<1>15. CASE UNCHANGED vars
  <2>1. UNCHANGED pubVars /\ UNCHANGED <<subscriber, heard, task, damages>>
    BY <1>15 DEF vars, pubVars
  <2> QED BY <1>9, <2>1, SubscriberSteps
<1> QED
  BY <1>1, <1>2, <1>3, <1>4, <1>6, <1>7, <1>8, <1>10, <1>11, <1>12, <1>13, <1>14, <1>15
  DEF Next

-----------------------------------------------------------------------------
(* The theorems.                                                           *)

(* The counters stay within u64, the channel holds lines that were typed,  *)
(* and every group and task is well formed.                                *)
THEOREM ChatTypeCorrect == Spec => []TypeOK
<1>1. ChatInv => TypeOK
  BY DEF ChatInv
<1> QED BY <1>1, ChatInit, ChatNext, PTL DEF Spec

(* With keys generated for each run, the default of the CLI, no two groups *)
(* of any number of runs are sealed with the same key and counter; with    *)
(* keys given on the command line that holds for the first run only, since *)
(* every later run counts from 0 again.                                    *)
THEOREM NoncesUnique == Spec => [](~PersistentKeys \/ run <= 1 => NonceUnique)
<1>1. ChatInv => (~PersistentKeys \/ run <= 1 => NonceUnique)
  <2> SUFFICES ASSUME ChatInv, ~PersistentKeys \/ run <= 1,
                      NEW r \in Runs, NEW s \in Runs,
                      NEW i \in DOMAIN groups[r], NEW j \in DOMAIN groups[s],
                      SealedWith(r, i) = SealedWith(s, j)
               PROVE  r = s /\ i = j
    BY DEF NonceUnique
  <2>1. KeyOf(r) = KeyOf(s) /\ i - 1 = j - 1
    BY DEF SealedWith, ChatInv, GroupsOK
  <2>2. i \in Int /\ j \in Int /\ groups[r] # <<>> /\ groups[s] # <<>>
    <3>1. i \in 1..Len(groups[r]) /\ j \in 1..Len(groups[s])
      BY ChatTypes
    <3>2. Len(groups[r]) \in Nat /\ Len(groups[s]) \in Nat
      BY ChatTypes
    <3>3. Len(groups[r]) # 0 /\ Len(groups[s]) # 0 /\ i \in Int /\ j \in Int
      BY <3>1, <3>2
    <3> QED BY <3>3, EmptySeq
  <2>3. r \in Nat /\ s \in Nat /\ r > 0 /\ s > 0 /\ ~(r > run) /\ ~(s > run) /\ run \in Nat
    <3>1. ~(r > run) /\ ~(s > run)
      BY <2>2 DEF ChatInv, GroupsOK
    <3> QED BY <3>1, ChatTypes
  <2>4. r = s
    <3>1. CASE ~PersistentKeys
      BY <2>1, <3>1 DEF KeyOf
    <3>2. CASE run <= 1
      BY <2>3, <3>2
    <3> QED BY <3>1, <3>2
  <2> QED BY <2>1, <2>2, <2>4
<1> QED BY <1>1, ChatInit, ChatNext, PTL DEF Spec

(* Every typed line is published exactly once, in the order it was typed,  *)
(* under consecutive group ids; what is missing waits in the channel, and  *)
(* nothing is missing once the input has ended and the run is over.        *)
THEOREM LinesNeverLost == Spec => []LinesAccounted
<1>1. ChatInv => LinesAccounted
  <2> SUFFICES ASSUME ChatInv, run > 0
               PROVE  /\ up => LinesSent \o queue = LinesTyped
                      /\ exit = "input ended" => LinesSent = LinesTyped
                      /\ \A i \in DOMAIN groups[run] : groups[run][i].id = i - 1
    BY DEF LinesAccounted
  <2>1. DOMAIN Published = 1..Len(Published) /\ run \in Runs
    BY ChatTypes DEF Published
  <2>2. up => LinesSent \o queue = LinesTyped
    BY SentAndQueued DEF ChatInv, LinesOK
  <2>3. exit = "input ended" => LinesSent = LinesTyped
    BY <2>1 DEF ChatInv, LinesOK, LinesSent, LinesTyped, Published
  <2>4. \A i \in DOMAIN groups[run] : groups[run][i].id = i - 1
    BY <2>1 DEF ChatInv, GroupsOK
  <2> QED BY <2>2, <2>3, <2>4
<1> QED BY <1>1, ChatInit, ChatNext, PTL DEF Spec

-----------------------------------------------------------------------------
(* Liveness.  The fairness of FairSpec is stated with the condition under  *)
(* which each step can be taken in place of ENABLED: a step that stays     *)
(* possible is taken again and again.                                      *)

-----------------------------------------------------------------------------
(* The subscriber's loop.  It is never ahead of the publisher, and back in *)
(* its select! it has a task for the announcement it took last.            *)

FollowOK ==
  /\ heard <= run
  /\ subscriber = "subscribing" => heard \in Runs
  /\ subscriber = "waiting" /\ heard \in Runs => task[heard].state # "none"

LEMMA LoopTypes ==
  ASSUME ChatInv
  PROVE  /\ heard \in Nat /\ run \in Nat /\ task \in [Runs -> Task]
         /\ subscriber \in {"waiting", "subscribing", "closed", "refused"}
         /\ \A r \in Runs : r \in Nat /\ r > 0
<1>1. /\ heard \in 0..MaxRuns /\ run \in 0..MaxRuns /\ task \in [Runs -> Task]
      /\ subscriber \in {"waiting", "subscribing", "closed", "refused"}
  BY DEF ChatInv, TypeOK
<1>2. heard \in Nat /\ run \in Nat
  BY <1>1, ChatAssumption
<1>3. \A r \in Runs : r \in Nat /\ r > 0
  BY ChatAssumption DEF Runs
<1> QED BY <1>1, <1>2, <1>3

LEMMA FollowInit == Init => FollowOK
BY ChatAssumption DEF Init, FollowOK, Runs

LEMMA PublisherLeaves ==
  ASSUME ChatInv,
         \/ StartPublisher \/ ReadLine \/ EndInput \/ Interrupt
         \/ SendMessage \/ SendExhausted \/ FinishInput
  PROVE  UNCHANGED subVars /\ run' \in {run, run + 1}
BY DEF StartPublisher, ReadLine, EndInput, Interrupt, SendMessage, SendExhausted, FinishInput

\* What a task does later does not undo that it was spawned.
LEMMA TasksStay ==
  ASSUME ChatInv, [Next]_vars, NEW r \in Runs, task[r].state # "none"
  PROVE  task'[r].state # "none"
<1>1. task \in [Runs -> Task]
  BY DEF ChatInv, TypeOK
<1>2. CASE UNCHANGED task
  BY <1>2
<1>3. CASE Subscribed
  BY <1>1, <1>3 DEF Subscribed, Task
<1>4. CASE SubscribeFails \/ ReconnectCloses
  BY <1>1, <1>4 DEF SubscribeFails, ReconnectCloses, Return, Task
<1>5. ASSUME NEW s \in Runs, TrackEnds(s) PROVE task'[r].state # "none"
  BY <1>1, <1>5 DEF TrackEnds, Task
<1>6. ASSUME NEW s \in Runs, NEW i \in 1..MaxLines, ReceiveGroup(s, i)
      PROVE  task'[r].state # "none"
  <2>1. CASE task' = [task EXCEPT ![s].next = i + 1,
                                  ![s].printed = Append(@, groups[s][i].line)]
    <3>1. task'[r].state = task[r].state
      BY <1>1, <2>1 DEF Task
    <3> QED BY <3>1
  <2>2. CASE task' = [task EXCEPT ![s].next = i + 1, ![s].state = "failed"]
    BY <1>1, <2>2 DEF Task
  <2> QED BY <1>6, <2>1, <2>2 DEF ReceiveGroup
<1>7. UNCHANGED subVars => UNCHANGED task
  BY DEF subVars
<1>8. UNCHANGED vars => UNCHANGED task
  BY DEF vars
<1>9. \A s \in Runs : Announce(s) => UNCHANGED task
  BY DEF Announce
<1> QED
  BY <1>2, <1>3, <1>4, <1>5, <1>6, <1>7, <1>8, <1>9, PublisherLeaves DEF Next

LEMMA FollowNext == ChatInv /\ FollowOK /\ [Next]_vars => FollowOK'
<1> SUFFICES ASSUME ChatInv, FollowOK, [Next]_vars PROVE FollowOK'
  OBVIOUS
<1>1. run \in Nat /\ heard \in Nat /\ task \in [Runs -> Task] /\ \A r \in Runs : r \in Nat
  BY LoopTypes
<1>2. CASE UNCHANGED subVars /\ run' \in {run, run + 1}
  BY <1>1, <1>2 DEF FollowOK, subVars
<1>3. ASSUME UNCHANGED <<pubVars, subscriber, heard>> PROVE FollowOK'
  <2>1. run' = run /\ subscriber' = subscriber /\ heard' = heard
    BY <1>3 DEF pubVars
  <2>2. subscriber = "waiting" /\ heard \in Runs => task'[heard].state # "none"
    BY TasksStay DEF FollowOK
  <2> QED BY <2>1, <2>2 DEF FollowOK
<1>4. ASSUME NEW r \in Runs, Announce(r) PROVE FollowOK'
  BY <1>4 DEF Announce, FollowOK, pubVars
<1>5. CASE Subscribed
  <2>1. heard \in Runs /\ heard' = heard /\ run' = run /\ subscriber' = "waiting"
        /\ task' = [task EXCEPT ![heard].state = "running"]
    BY <1>5 DEF Subscribed, FollowOK, pubVars
  <2>2. task'[heard].state = "running"
    BY <1>1, <2>1 DEF Task
  <2> QED BY <2>1, <2>2 DEF FollowOK
<1>6. CASE SubscribeFails \/ ReconnectCloses
  BY <1>6 DEF SubscribeFails, ReconnectCloses, Return, FollowOK, pubVars
<1>7. \A r \in Runs : TrackEnds(r) => UNCHANGED <<pubVars, subscriber, heard>>
  BY DEF TrackEnds
<1>8. \A r \in Runs, i \in 1..MaxLines :
        ReceiveGroup(r, i) => UNCHANGED <<pubVars, subscriber, heard>>
  BY DEF ReceiveGroup
<1>9. UNCHANGED vars => UNCHANGED <<pubVars, subscriber, heard>>
  BY DEF vars, pubVars
<1> QED
  BY <1>2, <1>3, <1>4, <1>5, <1>6, <1>7, <1>8, <1>9, PublisherLeaves DEF Next

Online(r) == up /\ run = r
Followed(r) ==
  ~Online(r) \/ task[r].state # "none" \/ subscriber \in {"closed", "refused"}

(* The phases of an online run that has no task yet: the loop awaits the   *)
(* subscribe of an earlier run, is in its select!, or awaits the subscribe *)
(* of this one.                                                            *)
Earlier(r) ==
  Online(r) /\ task[r].state = "none" /\ subscriber = "subscribing" /\ heard < r
Listening(r) ==
  Online(r) /\ task[r].state = "none" /\ subscriber = "waiting" /\ heard < r
Asking(r) ==
  Online(r) /\ task[r].state = "none" /\ subscriber = "subscribing" /\ heard = r

LEMMA Phases ==
  ASSUME ChatInv, FollowOK, NEW r \in Runs
  PROVE  Followed(r) \/ Earlier(r) \/ Listening(r) \/ Asking(r)
<1>1. heard \in Nat /\ r \in Nat /\ r > 0
      /\ subscriber \in {"waiting", "subscribing", "closed", "refused"}
  BY LoopTypes
<1>2. run = r => heard < r \/ heard = r
  BY <1>1 DEF FollowOK
<1> QED BY <1>1, <1>2 DEF FollowOK, Followed, Earlier, Listening, Asking, Online

\* One step of the loop, and of whatever goes on around it.
LEMMA LoopSteps ==
  ASSUME ChatInv, FollowOK, [Next]_vars, NEW r \in Runs
  PROVE  /\ Asking(r) => Asking(r)' \/ Followed(r)'
         /\ Earlier(r) => Earlier(r)' \/ Listening(r)' \/ Followed(r)'
         /\ Earlier(r) /\ (Subscribed \/ SubscribeFails) => Listening(r)' \/ Followed(r)'
         /\ Asking(r) /\ (Subscribed \/ SubscribeFails) => Followed(r)'
         /\ Listening(r) /\ Announce(r) => Asking(r)' \/ Followed(r)'
<1> USE DEF Followed, Earlier, Listening, Asking
<1>1. heard \in Nat /\ run \in Nat /\ r \in Nat /\ task \in [Runs -> Task]
  BY LoopTypes
<1>2. CASE UNCHANGED <<subscriber, heard>>
  <2>1. ~(subscriber = "subscribing" /\ (Subscribed \/ SubscribeFails))
    BY <1>2 DEF Subscribed, SubscribeFails, Return
  <2>2. ~Announce(r)
    BY <1>2 DEF Announce
  <2> QED BY <1>2, <2>1, <2>2
<1>3. CASE Subscribed
  <2>1. /\ subscriber' = "waiting" /\ heard' = heard
        /\ task' = [task EXCEPT ![heard].state = "running"] /\ UNCHANGED pubVars
        /\ ~Announce(r)
    BY <1>3 DEF Subscribed, Announce
  <2>2. heard = r => task'[r].state = "running"
    BY <1>1, <2>1 DEF Task
  <2>3. Online(r)' <=> Online(r)
    BY <2>1 DEF pubVars, Online
  <2> QED BY <1>1, <2>1, <2>2, <2>3
<1>4. CASE SubscribeFails \/ ReconnectCloses
  BY <1>4 DEF SubscribeFails, ReconnectCloses, Return
<1>5. ASSUME NEW s \in Runs, Announce(s)
      PROVE  /\ subscriber = "waiting" /\ ~Subscribed /\ ~SubscribeFails
             /\ Announce(r) => subscriber' = "subscribing" /\ heard' = r
                               /\ task' = task /\ Online(r)' = Online(r)
  BY <1>5 DEF Announce, Subscribed, SubscribeFails, pubVars, Online
<1>6. \/ UNCHANGED <<subscriber, heard>>
      \/ Subscribed \/ SubscribeFails \/ ReconnectCloses
      \/ \E s \in Runs : Announce(s)
  <2>1. /\ UNCHANGED subVars => UNCHANGED <<subscriber, heard>>
        /\ UNCHANGED vars => UNCHANGED <<subscriber, heard>>
    BY DEF subVars, vars
  <2>2. /\ \A s \in Runs : TrackEnds(s) => UNCHANGED <<subscriber, heard>>
        /\ \A s \in Runs, i \in 1..MaxLines :
             ReceiveGroup(s, i) => UNCHANGED <<subscriber, heard>>
    BY DEF TrackEnds, ReceiveGroup
  <2> QED BY <2>1, <2>2, PublisherLeaves DEF Next
<1> QED BY <1>2, <1>3, <1>4, <1>5, <1>6

(* A subscribe that is pending is answered; and if the loop is in its      *)
(* select! again and again while run r is online and not announced, it     *)
(* takes the announcement of r at last.                                    *)
Answer == Subscribed \/ SubscribeFails
AnswerFair == []<>~(subscriber = "subscribing") \/ []<><<Answer>>_vars

CanAnnounce(r) == Online(r) /\ subscriber = "waiting" /\ heard < r
AnnounceFair(r) == <>[]~CanAnnounce(r) \/ []<><<Announce(r)>>_vars

FollowedAtLast(r) ==
  (up /\ run = r) ~> \/ ~(up /\ run = r)
                     \/ task[r].state # "none"
                     \/ subscriber \in {"closed", "refused"}

LEMMA RunFollowed ==
  ASSUME NEW r \in Runs
  PROVE  Spec /\ AnswerFair /\ AnnounceFair(r) => FollowedAtLast(r)
<1> DEFINE Inv == ChatInv /\ FollowOK
           E == Earlier(r)
           L == Listening(r)
           A == Asking(r)
           F == Followed(r)
<1>1. Spec => []Inv
  BY ChatInit, ChatNext, FollowInit, FollowNext, PTL DEF Spec
<1>2. /\ Inv => F \/ E \/ L \/ A
      /\ E \/ A => subscriber = "subscribing"
      /\ L => CanAnnounce(r)
  BY Phases DEF Earlier, Asking, Listening, CanAnnounce
<1>3. /\ Inv /\ A /\ [Next]_vars => A' \/ F'
      /\ Inv /\ E /\ [Next]_vars => E' \/ L' \/ F'
  BY LoopSteps
<1>4. /\ Inv /\ A /\ [Next]_vars /\ <<Answer>>_vars => F'
      /\ Inv /\ E /\ [Next]_vars /\ <<Answer>>_vars => L' \/ F'
  BY LoopSteps DEF Answer
<1>5. Inv /\ [Next]_vars /\ <<Announce(r)>>_vars => F \/ A' \/ F'
  <2>1. Announce(r) => ~E /\ ~A
    BY DEF Announce, Earlier, Asking
  <2> QED BY <1>2, <2>1, LoopSteps
<1> HIDE DEF Inv, E, L, A, F
<1>6. Spec /\ AnswerFair => (A ~> F)
  BY <1>1, <1>2, <1>3, <1>4, PTL DEF Spec, AnswerFair
<1>7. Spec /\ AnswerFair => (E ~> L \/ F)
  BY <1>1, <1>2, <1>3, <1>4, PTL DEF Spec, AnswerFair
<1>8. Spec /\ AnswerFair /\ AnnounceFair(r) => (TRUE ~> F)
  BY <1>1, <1>2, <1>5, <1>6, <1>7, PTL DEF Spec, AnnounceFair
<1>9. F <=> \/ ~(up /\ run = r)
            \/ task[r].state # "none"
            \/ subscriber \in {"closed", "refused"}
  BY DEF F, Followed, Online
<1> QED BY <1>8, <1>9, PTL DEF FollowedAtLast

(* The subscriber follows the publisher: a run that stays online gets a    *)
(* task.  While it awaits a subscribe the loop does not listen; it comes   *)
(* back from those of earlier runs, whatever became of them and of their   *)
(* tasks, and after the announcement of this run only a closed session or  *)
(* a refused subscribe keeps it from its task.                             *)
THEOREM EveryRunSubscribed ==
  Spec /\ AnswerFair /\ (\A r \in Runs : AnnounceFair(r)) => SubscriberReturns
<1>1. ASSUME NEW r \in Runs PROVE Spec /\ AnswerFair /\ AnnounceFair(r) => FollowedAtLast(r)
  BY RunFollowed
<1>2. Spec /\ AnswerFair /\ (\A r \in Runs : AnnounceFair(r)) => \A r \in Runs : FollowedAtLast(r)
  BY <1>1
<1>3. SubscriberReturns <=> \A r \in Runs : FollowedAtLast(r)
  BY DEF SubscriberReturns, FollowedAtLast
<1> QED BY <1>2, <1>3

-----------------------------------------------------------------------------
(* The publisher's channel.                                                *)

PublisherStep == SendMessage \/ SendExhausted \/ FinishInput
CanPublish == up /\ (queue # <<>> \/ inputEnded)
PublisherFair == []<>~CanPublish \/ []<><<PublisherStep>>_vars

Draining(r) == up /\ run = r /\ inputEnded

LEMMA DrainingPublishes ==
  ASSUME NEW r \in Runs, Draining(r), PublisherStep
  PROVE  \/ ~(up /\ run = r)'
         \/ Draining(r)' /\ queue # <<>> /\ queue' = Tail(queue)
BY DEF Draining, PublisherStep, SendMessage, SendExhausted, FinishInput, Stop

LEMMA DrainingStep ==
  ASSUME NEW r \in Runs, Draining(r), [Next]_vars
  PROVE  \/ ~(up /\ run = r)'
         \/ Draining(r)' /\ queue' = queue
         \/ Draining(r)' /\ queue # <<>> /\ queue' = Tail(queue)
<1>1. CASE PublisherStep
  BY <1>1, DrainingPublishes
<1>2. CASE StartPublisher \/ ReadLine \/ EndInput \/ Interrupt
  BY <1>2 DEF Draining, StartPublisher, ReadLine, EndInput, Interrupt, Stop
<1>3. CASE UNCHANGED pubVars
  BY <1>3 DEF pubVars, Draining
<1>4. \/ PublisherStep \/ StartPublisher \/ ReadLine \/ EndInput \/ Interrupt
      \/ UNCHANGED pubVars
  <2>1. /\ \A s \in Runs : Announce(s) \/ TrackEnds(s) => UNCHANGED pubVars
        /\ Subscribed \/ SubscribeFails \/ ReconnectCloses => UNCHANGED pubVars
    BY DEF Announce, TrackEnds, Subscribed, SubscribeFails, ReconnectCloses, Return
  <2>2. \A s \in Runs, i \in 1..MaxLines : ReceiveGroup(s, i) => UNCHANGED pubVars
    BY DEF ReceiveGroup
  <2>3. UNCHANGED vars => UNCHANGED pubVars
    BY DEF vars, pubVars
  <2> QED BY <2>1, <2>2, <2>3 DEF Next, PublisherStep
<1> QED BY <1>1, <1>2, <1>3, <1>4

(* Once its input has ended, a publisher that is polled goes on until its  *)
(* channel is empty and then exits: whatever waits in the channel, a line  *)
(* leaves it or the run is over.  (That the run is over in the end, which  *)
(* InputEndsRun says, takes an induction over the lines that wait.)        *)
THEOREM ChannelDrains ==
  ASSUME NEW r \in Runs, NEW n \in Nat
  PROVE  Spec /\ PublisherFair =>
           (Draining(r) /\ Len(queue) = n
              ~> ~(up /\ run = r) \/ (Draining(r) /\ Len(queue) < n))
<1> DEFINE Waits == Draining(r) /\ Len(queue) = n
           Goal == ~(up /\ run = r) \/ (Draining(r) /\ Len(queue) < n)
<1>1. Waits => CanPublish
  BY DEF Draining, CanPublish
<1>2. ASSUME ChatInv, queue # <<>> PROVE Len(Tail(queue)) < Len(queue)
  <2>1. queue \in Seq(1..MaxLines)
    BY <1>2 DEF ChatInv, TypeOK
  <2>2. Len(Tail(queue)) = Len(queue) - 1 /\ Len(queue) \in Nat
    BY <1>2, <2>1, HeadTailProperties, LenProperties
  <2> QED BY <2>2
<1>3. ASSUME ChatInv, Waits, [Next]_vars PROVE Waits' \/ Goal'
  BY <1>2, <1>3, DrainingStep
<1>4. ASSUME ChatInv, Waits, <<PublisherStep>>_vars PROVE Goal'
  <2>1. \/ ~(up /\ run = r)'
        \/ Draining(r)' /\ queue # <<>> /\ queue' = Tail(queue)
    BY <1>4, DrainingPublishes
  <2> QED BY <1>2, <1>4, <2>1
<1> QED BY <1>1, <1>3, <1>4, ChatInit, ChatNext, PTL DEF Spec, PublisherFair

==============================================================================
