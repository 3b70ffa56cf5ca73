------------------------- MODULE MoqChatSubscription -------------------------
(***************************************************************************)
(* MoqChatSubscription of the browser chat (moq-chat.ts): connect() starts *)
(* a read loop over the groups and frames of the broadcast's track; close()*)
(* may be called at any time.  The loops of one subscription share #seen.  *)
(*                                                                         *)
(* The MoQ library and the relay are external: they hand each loop the     *)
(* groups of the track in order, may reset a group, may fail, and fail     *)
(* what is read through a closed connection.  A frame holds a message or   *)
(* does not decrypt; a message may come in several frames.                 *)
(***************************************************************************)
EXTENDS Integers, Sequences

CONSTANTS
  Track,        \* the frames of each group: a message, or Bad
  Bad,          \* a frame that does not parse, verify, open or decode
  MaxConnects   \* bound: calls of connect() that reach the network

Loops == 1..MaxConnects

VARIABLES
  closed,      \* #closed
  connection,  \* #connection: 0 undefined, n the one the n-th connect() opened
  conn,        \* each connect(): idle, pending, failed; or its connection: open, shut
  loop,        \* its readLoop: off, recvGroup, readFrame, decrypting, ended, stopped
  pos,         \* <<g, f>>: f frames read of the g-th group
  seen,        \* #seen
  shown,       \* history: the messages given to onMessage, in order
  missed,      \* history: messages of groups that were reset for a loop
  overlapped   \* history: connect() was called while an earlier call awaited

vars == <<closed, connection, conn, loop, pos, seen, shown, missed, overlapped>>

Init ==
  /\ closed = FALSE /\ connection = 0
  /\ conn = [n \in Loops |-> "idle"]
  /\ loop = [n \in Loops |-> "off"]
  /\ pos = [n \in Loops |-> <<0, 0>>]
  /\ seen = {} /\ shown = <<>> /\ missed = {} /\ overlapped = FALSE

Group(n) == Track[pos[n][1]]
Frame(n) == Group(n)[pos[n][2]]
Messages(group) == {group[i] : i \in DOMAIN group} \ {Bad}

-----------------------------------------------------------------------------
(* connect() and close().                                                  *)

\* connect() up to its await.
Connect(n) ==
  /\ ~closed /\ connection = 0
  /\ conn[n] = "idle" /\ \A m \in Loops : m < n => conn[m] # "idle"
  /\ conn' = [conn EXCEPT ![n] = "pending"]
  /\ overlapped' = (overlapped \/ \E m \in Loops : conn[m] = "pending")
  /\ UNCHANGED <<closed, connection, loop, pos, seen, shown, missed>>

Open(n) ==
  /\ conn' = [conn EXCEPT ![n] = "open"]
  /\ connection' = n
  /\ loop' = [loop EXCEPT ![n] = "recvGroup"]

\* Variant of Connected: #closed is not looked at again.
ConnectedUnchecked(n) ==
  /\ conn[n] = "pending"
  /\ Open(n)
  /\ UNCHANGED <<closed, pos, seen, shown, missed, overlapped>>

\* The connection opens: subscribe and start the loop, or close it again.
Connected(n) ==
  /\ conn[n] = "pending"
  /\ \/ ~closed /\ Open(n)
     \/ /\ closed
        /\ conn' = [conn EXCEPT ![n] = "shut"]
        /\ UNCHANGED <<connection, loop>>
  /\ UNCHANGED <<closed, pos, seen, shown, missed, overlapped>>

ConnectFails(n) ==
  /\ conn[n] = "pending"
  /\ conn' = [conn EXCEPT ![n] = "failed"]
  /\ UNCHANGED <<closed, connection, loop, pos, seen, shown, missed, overlapped>>

\* close(), the first time.
Close ==
  /\ ~closed
  /\ closed' = TRUE /\ connection' = 0
  /\ conn' = IF connection = 0 THEN conn ELSE [conn EXCEPT ![connection] = "shut"]
  /\ UNCHANGED <<loop, pos, seen, shown, missed, overlapped>>

-----------------------------------------------------------------------------
(* readLoop().                                                             *)

\* recvGroup() answers the next group.
RecvGroup(n) ==
  /\ loop[n] = "recvGroup" /\ conn[n] = "open" /\ pos[n][1] < Len(Track)
  /\ loop' = [loop EXCEPT ![n] = "readFrame"]
  /\ pos' = [pos EXCEPT ![n] = <<@[1] + 1, 0>>]
  /\ UNCHANGED <<closed, connection, conn, seen, shown, missed, overlapped>>

\* recvGroup() answers that the track is over.
TrackEnds(n) ==
  /\ loop[n] = "recvGroup" /\ conn[n] = "open" /\ pos[n][1] = Len(Track)
  /\ loop' = [loop EXCEPT ![n] = "ended"]
  /\ UNCHANGED <<closed, connection, conn, pos, seen, shown, missed, overlapped>>

\* readFrame() answers a frame, which goes to the codec.
ReadFrame(n) ==
  /\ loop[n] = "readFrame" /\ conn[n] = "open" /\ pos[n][2] < Len(Group(n))
  /\ loop' = [loop EXCEPT ![n] = "decrypting"]
  /\ pos' = [pos EXCEPT ![n][2] = @ + 1]
  /\ UNCHANGED <<closed, connection, conn, seen, shown, missed, overlapped>>

\* readFrame() answers that the group is over.
GroupEnds(n) ==
  /\ loop[n] = "readFrame" /\ conn[n] = "open" /\ pos[n][2] = Len(Group(n))
  /\ loop' = [loop EXCEPT ![n] = "recvGroup"]
  /\ UNCHANGED <<closed, connection, conn, pos, seen, shown, missed, overlapped>>

\* readFrame() throws a RemoteError: on to the next group.
GroupReset(n) ==
  /\ loop[n] = "readFrame" /\ conn[n] = "open"
  /\ loop' = [loop EXCEPT ![n] = "recvGroup"]
  /\ missed' = missed \cup Messages(Group(n))
  /\ UNCHANGED <<closed, connection, conn, pos, seen, shown, overlapped>>

\* A read fails otherwise: the loop throws and is over.
ReadFails(n) ==
  /\ loop[n] \in {"recvGroup", "readFrame"}
  /\ loop' = [loop EXCEPT ![n] = "stopped"]
  /\ UNCHANGED <<closed, connection, conn, pos, seen, shown, missed, overlapped>>

\* Variants of Decrypted: the message is looked up but not entered; a frame that
\* does not decrypt ends the loop.
DecryptedUnentered(n) ==
  /\ loop[n] = "decrypting"
  /\ loop' = [loop EXCEPT ![n] = "readFrame"]
  /\ shown' = IF Frame(n) = Bad \/ Frame(n) \in seen THEN shown ELSE Append(shown, Frame(n))
  /\ UNCHANGED <<closed, connection, conn, pos, seen, missed, overlapped>>
DecryptedThrowing(n) ==
  /\ loop[n] = "decrypting"
  /\ loop' = [loop EXCEPT ![n] = IF Frame(n) = Bad THEN "ended" ELSE "readFrame"]
  /\ IF Frame(n) = Bad \/ Frame(n) \in seen THEN UNCHANGED <<seen, shown>>
     ELSE seen' = seen \cup {Frame(n)} /\ shown' = Append(shown, Frame(n))
  /\ UNCHANGED <<closed, connection, conn, pos, missed, overlapped>>

\* The codec answers.  A failure is logged; a message not yet seen is shown.
Decrypted(n) ==
  /\ loop[n] = "decrypting"
  /\ loop' = [loop EXCEPT ![n] = "readFrame"]
  /\ \/ /\ Frame(n) = Bad \/ Frame(n) \in seen
        /\ UNCHANGED <<seen, shown>>
     \/ /\ Frame(n) # Bad /\ Frame(n) \notin seen
        /\ seen' = seen \cup {Frame(n)}
        /\ shown' = Append(shown, Frame(n))
  /\ UNCHANGED <<closed, connection, conn, pos, missed, overlapped>>

Read(n) ==
  \/ RecvGroup(n) \/ TrackEnds(n) \/ ReadFrame(n) \/ GroupEnds(n)
  \/ GroupReset(n) \/ ReadFails(n) \/ Decrypted(n)

Next ==
  \/ Close
  \/ \E n \in Loops : Connect(n) \/ Connected(n) \/ ConnectFails(n) \/ Read(n)

Spec == Init /\ [][Next]_vars

(* The connection settles, and what is read or decrypted is answered.      *)
FairSpec ==
  Spec /\ \A n \in Loops : WF_vars(Connected(n) \/ ConnectFails(n)) /\ WF_vars(Read(n))

-----------------------------------------------------------------------------
(* Properties.                                                             *)

Over(n) == loop[n] \in {"off", "ended", "stopped"}

(* A message is shown once, however often it comes and although the loops  *)
(* of overlapping connects read the same track.                            *)
ShownOnce == \A i, j \in DOMAIN shown : i # j => shown[i] # shown[j]

(* A loop that has come to the end of the track has shown every message of *)
(* it, but for those of groups that were reset: neither a frame that does  *)
(* not decrypt nor a reset group costs the messages after it.              *)
AllShown ==
  \A n \in Loops : loop[n] = "ended" =>
    UNION {Messages(Track[g]) : g \in DOMAIN Track} \subseteq seen \cup missed

(* A closed subscription comes to rest: no connection open, no loop        *)
(* reading, also if it was closed during connect() or decrypt().  (Of two  *)
(* connections made by overlapping connects it closes the last only.)      *)
ClosesDown ==
  closed ~> overlapped \/ \A n \in Loops : conn[n] \notin {"pending", "open"} /\ Over(n)

=============================================================================
