-------------------------- MODULE MoqChatPublisher ---------------------------
(***************************************************************************)
(* MoqChatPublisher of the browser chat (moq-chat.ts): connect(), send()   *)
(* and close() of one publisher.  connect() awaits the connection, send()  *)
(* awaits the encryption; close() may be called at any time, also between  *)
(* an await and its answer.  The application calls connect() again only    *)
(* when the last call has answered; calls of send() overlap.               *)
(*                                                                         *)
(* The MoQ library is external.  What a closed broadcast does with a new   *)
(* group is not known here: it may refuse it or take it.                   *)
(***************************************************************************)
EXTENDS Integers, Sequences

CONSTANTS
  MaxConnects,   \* bound: calls of connect() that reach the network
  MaxSends       \* bound: calls of send()

Connects == 1..MaxConnects
Sends == 1..MaxSends

VARIABLES
  closed,       \* #closed
  connection,   \* #connection: 0 undefined, n the one the n-th connect() opened
  group,        \* #group: 0 undefined, n the n-th group of the track
  conn,         \* each connect(): idle, pending, failed; or its connection: open, shut
  send,         \* each send(): idle, encrypting, written, failed
  sentTo,       \* the group a send wrote its frame to
  early,        \* history: sends that wrote before close()
  groups        \* the groups of the track: open, shut

vars == <<closed, connection, group, conn, send, sentTo, early, groups>>

Init ==
  /\ closed = FALSE /\ connection = 0 /\ group = 0
  /\ conn = [n \in Connects |-> "idle"]
  /\ send = [n \in Sends |-> "idle"]
  /\ sentTo = [n \in Sends |-> 0]
  /\ early = {} /\ groups = <<>>

\* connect() up to its await.
Connect(n) ==
  /\ ~closed /\ connection = 0
  /\ conn[n] = "idle" /\ \A m \in Connects : conn[m] # "pending" /\ (m < n => conn[m] # "idle")
  /\ conn' = [conn EXCEPT ![n] = "pending"]
  /\ UNCHANGED <<closed, connection, group, send, sentTo, early, groups>>

\* Variant of Connected: #closed is not looked at again.
ConnectedUnchecked(n) ==
  /\ conn[n] = "pending"
  /\ conn' = [conn EXCEPT ![n] = "open"] /\ connection' = n
  /\ UNCHANGED <<closed, group, send, sentTo, early, groups>>

\* The connection opens; a publisher closed in the meantime closes it.
Connected(n) ==
  /\ conn[n] = "pending"
  /\ \/ closed /\ conn' = [conn EXCEPT ![n] = "shut"] /\ UNCHANGED connection
     \/ ~closed /\ conn' = [conn EXCEPT ![n] = "open"] /\ connection' = n
  /\ UNCHANGED <<closed, group, send, sentTo, early, groups>>

ConnectFails(n) ==
  /\ conn[n] = "pending"
  /\ conn' = [conn EXCEPT ![n] = "failed"]
  /\ UNCHANGED <<closed, connection, group, send, sentTo, early, groups>>

\* send() up to its await.
Send(n) ==
  /\ ~closed /\ connection # 0
  /\ send[n] = "idle" /\ \A m \in Sends : m < n => send[m] # "idle"
  /\ send' = [send EXCEPT ![n] = "encrypting"]
  /\ UNCHANGED <<closed, connection, group, conn, sentTo, early, groups>>

EncryptFails(n) ==
  /\ send[n] = "encrypting"
  /\ send' = [send EXCEPT ![n] = "failed"]
  /\ UNCHANGED <<closed, connection, group, conn, sentTo, early, groups>>

\* Variant of NeedsGroup: a group for every frame.
NeedsGroupAlways == TRUE

NeedsGroup == group = 0

\* The payload is there: append the group if there is none and write the frame.
Write(n) ==
  /\ send[n] = "encrypting"
  /\ \/ /\ ~NeedsGroup
        /\ sentTo' = [sentTo EXCEPT ![n] = group]
        /\ UNCHANGED <<group, groups>>
     \/ /\ NeedsGroup
        /\ groups' = Append(groups, "open")
        /\ group' = Len(groups')
        /\ sentTo' = [sentTo EXCEPT ![n] = Len(groups')]
  /\ send' = [send EXCEPT ![n] = "written"]
  /\ early' = IF closed THEN early ELSE early \cup {n}
  /\ UNCHANGED <<closed, connection, conn>>

\* The closed broadcast refuses the group of a send that comes late.
WriteRefused(n) ==
  /\ send[n] = "encrypting" /\ closed /\ NeedsGroup
  /\ send' = [send EXCEPT ![n] = "failed"]
  /\ UNCHANGED <<closed, connection, group, conn, sentTo, early, groups>>

\* Variant of Close: #group keeps the closed group.
CloseKeepsGroup ==
  /\ ~closed
  /\ closed' = TRUE /\ connection' = 0
  /\ groups' = IF group = 0 THEN groups ELSE [groups EXCEPT ![group] = "shut"]
  /\ conn' = IF connection = 0 THEN conn ELSE [conn EXCEPT ![connection] = "shut"]
  /\ UNCHANGED <<group, send, sentTo, early>>

\* close(), the first time.
Close ==
  /\ ~closed
  /\ closed' = TRUE
  /\ group' = 0 /\ connection' = 0
  /\ groups' = IF group = 0 THEN groups ELSE [groups EXCEPT ![group] = "shut"]
  /\ conn' = IF connection = 0 THEN conn ELSE [conn EXCEPT ![connection] = "shut"]
  /\ UNCHANGED <<send, sentTo, early>>

Next ==
  \/ Close
  \/ \E n \in Connects : Connect(n) \/ Connected(n) \/ ConnectFails(n)
  \/ \E n \in Sends : Send(n) \/ EncryptFails(n) \/ Write(n) \/ WriteRefused(n)

Spec == Init /\ [][Next]_vars

-----------------------------------------------------------------------------
(* Properties.                                                             *)

(* A closed publisher leaves no connection open, also when it was closed   *)
(* while the connection was being made.                                    *)
ConnectionsReleased ==
  closed => \A n \in Connects : conn[n] # "open"

(* However sends overlap, the frames written before close() are in one     *)
(* group, and close() has closed it.                                       *)
OneGroup ==
  \A n, m \in early : sentTo[n] = sentTo[m] /\ (closed => groups[sentTo[n]] = "shut")

(* Nothing is written to a group after it was closed: a send that close()  *)
(* overtakes does not find the old group.                                  *)
NoWriteAfterShut ==
  [][\A n \in Sends : send[n] = "encrypting" /\ send'[n] = "written"
       => sentTo'[n] \notin {g \in DOMAIN groups : groups[g] = "shut"}]_vars

=============================================================================
