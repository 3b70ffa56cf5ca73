-------------------------- MODULE BrowserChatProofs ---------------------------
(***************************************************************************)
(* The three parts of the browser chat.  MoqChatPublisher, for any number  *)
(* of connects and sends: close() leaves no connection open, and the group *)
(* it closed is the only one the frames before it went to and gets none    *)
(* after it.  The page, for any number of clicks: the frames of one track  *)
(* are under one identity.  MoqChatSubscription, for any track and any     *)
(* number of connects, overlapping or not: a message is shown once, and a  *)
(* loop that has come to the end of the track has passed over no message.  *)
(***************************************************************************)
EXTENDS MCBrowserChat, SequenceTheorems, TLAPS

-----------------------------------------------------------------------------
(* MoqChatPublisher.                                                       *)

PubTypeInv ==
  /\ chatClosed \in BOOLEAN
  /\ chatConnection \in Int
  /\ group \in Nat
  /\ chatConn \in [Pub!Connects -> {"idle", "pending", "failed", "open", "shut"}]
  /\ chatSend \in [Pub!Sends -> {"idle", "encrypting", "written", "failed"}]
  /\ sentTo \in [Pub!Sends -> Nat]
  /\ early \subseteq Pub!Sends
  /\ groups \in Seq({"open", "shut"})

(* The open connection is the one #connection names, and the publisher is  *)
(* not closed: connect() looks at #closed again after its await.  While a  *)
(* connect() awaits, no connection is there, and no other connect().       *)
ConnInv ==
  /\ \A n \in Pub!Connects : chatConn[n] = "open" => chatConnection = n /\ ~chatClosed
  /\ \A n, m \in Pub!Connects : chatConn[n] = "pending" =>
       (chatConnection = 0 \/ chatClosed) /\ (chatConn[m] = "pending" => m = n)
  /\ chatClosed => chatConnection = 0

(* #group is an open group of the track.  Before close(), every frame is   *)
(* in #group; afterwards, in the one group that close() has shut.          *)
GroupInv ==
  /\ group # 0 => group \in 1..Len(groups) /\ groups[group] = "open"
  /\ ~chatClosed => \A n \in early : group # 0 /\ sentTo[n] = group
  /\ chatClosed => \A n, m \in early :
       /\ sentTo[n] = sentTo[m]
       /\ sentTo[n] \in 1..Len(groups) /\ groups[sentTo[n]] = "shut"
  /\ \A n \in early : chatSend[n] = "written"

PubInv == PubTypeInv /\ ConnInv /\ GroupInv

LEMMA PubInit == Pub!Init => PubInv
<1> SUFFICES ASSUME Pub!Init PROVE PubInv
  OBVIOUS
<1>1. PubTypeInv
  <2>1. groups \in Seq({"open", "shut"}) /\ early \subseteq Pub!Sends
    BY DEF Pub!Init
  <2>2. chatSend \in [Pub!Sends -> {"idle", "encrypting", "written", "failed"}]
    BY DEF Pub!Init
  <2>3. chatConn \in [Pub!Connects -> {"idle", "pending", "failed", "open", "shut"}]
    BY DEF Pub!Init
  <2>4. sentTo \in [Pub!Sends -> Nat]
    BY DEF Pub!Init
  <2>5. chatClosed \in BOOLEAN
    BY Zenon DEF Pub!Init
  <2>6. chatConnection \in Int /\ group \in Nat
    BY SMT DEF Pub!Init
  <2> QED BY <2>1, <2>2, <2>3, <2>4, <2>5, <2>6, Zenon DEF PubTypeInv
<1>2. ConnInv
  BY DEF Pub!Init, ConnInv
<1>3. GroupInv
  BY DEF Pub!Init, GroupInv
<1> QED BY <1>1, <1>2, <1>3 DEF PubInv

LEMMA PubConnectStep ==
  ASSUME PubInv, NEW n \in Pub!Connects, Pub!Connect(n) \/ Pub!Connected(n) \/ Pub!ConnectFails(n)
  PROVE  PubInv'
<1>1. PubTypeInv'
  BY DEF PubInv, PubTypeInv, Pub!Connect, Pub!Connected, Pub!ConnectFails, Pub!Connects
<1>2. ConnInv'
  <2> USE DEF PubInv, PubTypeInv, ConnInv
  <2>1. CASE Pub!Connect(n)
    BY <2>1 DEF Pub!Connect
  <2>2. CASE Pub!Connected(n)
    <3>1. \A m \in Pub!Connects : m # 0 /\ (chatConn[m] = "pending" => m = n)
      BY <2>2 DEF Pub!Connected, Pub!Connects
    <3>2. CASE chatClosed
      BY <2>2, <3>1, <3>2 DEF Pub!Connected
    <3>3. CASE ~chatClosed
      <4>1. \A m \in Pub!Connects : chatConn[m] # "open"
        BY <2>2, <3>1, <3>3 DEF Pub!Connected
      <4> QED BY <2>2, <3>1, <3>3, <4>1 DEF Pub!Connected
    <3> QED BY <3>2, <3>3
  <2>3. CASE Pub!ConnectFails(n)
    BY <2>3 DEF Pub!ConnectFails
  <2> QED BY <2>1, <2>2, <2>3
<1>3. GroupInv'
  BY DEF PubInv, GroupInv, Pub!Connect, Pub!Connected, Pub!ConnectFails
<1> QED BY <1>1, <1>2, <1>3 DEF PubInv

\* The step of send() that writes: it finds a group or appends one.
LEMMA PubWriteStep ==
  ASSUME PubInv, NEW n \in Pub!Sends, Pub!Write(n)
  PROVE  PubInv'
<1>1. CASE ~Pub!NeedsGroup
  <2>1. /\ group # 0 /\ sentTo' = [sentTo EXCEPT ![n] = group]
        /\ chatSend' = [chatSend EXCEPT ![n] = "written"]
        /\ early' = (IF chatClosed THEN early ELSE early \cup {n})
        /\ UNCHANGED <<chatClosed, chatConnection, group, chatConn, groups>>
    BY <1>1 DEF Pub!Write, Pub!NeedsGroup
  <2>2. PubTypeInv' /\ ConnInv'
    BY <2>1 DEF PubInv, PubTypeInv, ConnInv
  <2>3. n \notin early
    BY DEF PubInv, GroupInv, Pub!Write
  <2>4. GroupInv'
    BY <2>1, <2>3 DEF PubInv, PubTypeInv, GroupInv
  <2> QED BY <2>2, <2>4 DEF PubInv
<1>2. CASE Pub!NeedsGroup
  <2> DEFINE g == Len(groups) + 1
  <2>1. /\ group = 0 /\ groups' = Append(groups, "open")
        /\ group' = g /\ sentTo' = [sentTo EXCEPT ![n] = g]
        /\ chatSend' = [chatSend EXCEPT ![n] = "written"]
        /\ early' = (IF chatClosed THEN early ELSE early \cup {n})
        /\ UNCHANGED <<chatClosed, chatConnection, chatConn>>
    BY <1>2 DEF Pub!Write, Pub!NeedsGroup, PubInv, PubTypeInv
  <2>2. /\ g \in Nat /\ Len(groups') = g /\ groups'[g] = "open"
        /\ \A i \in 1..Len(groups) : groups'[i] = groups[i]
    BY <2>1 DEF PubInv, PubTypeInv
  <2>3. PubTypeInv' /\ ConnInv'
    BY <2>1, <2>2 DEF PubInv, PubTypeInv, ConnInv
  <2>4. ~chatClosed => early = {}
    BY <2>1 DEF PubInv, GroupInv
  <2>5. n \notin early
    BY DEF PubInv, GroupInv, Pub!Write
  <2>6. GroupInv'
    BY <2>1, <2>2, <2>4, <2>5 DEF PubInv, PubTypeInv, GroupInv
  <2> QED BY <2>3, <2>6 DEF PubInv
<1> QED BY <1>1, <1>2

LEMMA PubCloseStep == ASSUME PubInv, Pub!Close PROVE PubInv'
<1>1. PubTypeInv'
  <2>1. groups' \in Seq({"open", "shut"})
    <3>1. CASE group = 0
      BY <3>1 DEF Pub!Close, PubInv, PubTypeInv
    <3>2. CASE group # 0
      <4>1. /\ groups \in Seq({"open", "shut"}) /\ group \in 1..Len(groups)
            /\ groups' = [groups EXCEPT ![group] = "shut"]
        BY <3>2 DEF Pub!Close, PubInv, PubTypeInv, GroupInv
      <4> QED BY <4>1, ExceptSeq
    <3> QED BY <3>1, <3>2
  <2>2. chatConn' \in [Pub!Connects -> {"idle", "pending", "failed", "open", "shut"}]
    BY DEF Pub!Close, PubInv, PubTypeInv
  <2> QED BY <2>1, <2>2 DEF Pub!Close, PubInv, PubTypeInv
<1>2. ConnInv'
  <2>1. \A n \in Pub!Connects :
          chatConn'[n] = IF chatConnection # 0 /\ n = chatConnection THEN "shut" ELSE chatConn[n]
    BY DEF Pub!Close, PubInv, PubTypeInv
  <2>2. chatClosed' = TRUE /\ chatConnection' = 0 /\ ~chatClosed
    BY DEF Pub!Close
  <2>3. \A n \in Pub!Connects : n # 0
    BY DEF Pub!Connects
  <2> QED BY <2>1, <2>2, <2>3 DEF PubInv, ConnInv
<1>3. GroupInv'
  <2>1. CASE group = 0
    BY <2>1 DEF Pub!Close, PubInv, PubTypeInv, GroupInv
  <2>2. CASE group # 0
    <3>1. /\ ~chatClosed /\ chatClosed' = TRUE /\ group' = 0 /\ UNCHANGED <<sentTo, chatSend, early>>
          /\ group \in 1..Len(groups) /\ groups' = [groups EXCEPT ![group] = "shut"]
      BY <2>2 DEF Pub!Close, PubInv, PubTypeInv, GroupInv
    <3> QED BY <2>2, <3>1 DEF PubInv, PubTypeInv, GroupInv
  <2> QED BY <2>1, <2>2
<1> QED BY <1>1, <1>2, <1>3 DEF PubInv

LEMMA PubStep == PubInv /\ [Pub!Next]_Pub!vars => PubInv'
<1> SUFFICES ASSUME PubInv, [Pub!Next]_Pub!vars PROVE PubInv'
  OBVIOUS
<1>1. ASSUME NEW n \in Pub!Sends, Pub!Send(n) \/ Pub!EncryptFails(n) \/ Pub!WriteRefused(n)
      PROVE PubInv'
  <2>1. /\ \E x \in {"encrypting", "failed"} : chatSend' = [chatSend EXCEPT ![n] = x]
        /\ chatSend[n] # "written"
        /\ UNCHANGED <<chatClosed, chatConnection, group, chatConn, groups, sentTo, early>>
    BY <1>1 DEF Pub!Send, Pub!EncryptFails, Pub!WriteRefused
  <2>2. PubTypeInv' /\ ConnInv'
    BY <2>1 DEF PubInv, PubTypeInv, ConnInv
  <2>3. \A m \in early : chatSend'[m] = "written"
    BY <2>1 DEF PubInv, PubTypeInv, GroupInv
  <2>4. GroupInv'
    BY <2>1, <2>3 DEF PubInv, GroupInv
  <2> QED BY <2>2, <2>4 DEF PubInv
<1>2. CASE UNCHANGED Pub!vars
  BY <1>2 DEF Pub!vars, PubInv, PubTypeInv, ConnInv, GroupInv
<1> QED BY <1>1, <1>2, PubConnectStep, PubWriteStep, PubCloseStep DEF Pub!Next

(* A closed publisher leaves no connection open, also when close() was     *)
(* called while connect() awaited it (MoqChatPublisher.connect).           *)
THEOREM AllConnectionsReleased == Pub!Spec => []ConnectionsReleased
<1>1. PubInv => ConnectionsReleased
  BY DEF PubInv, ConnInv, ConnectionsReleased, Pub!ConnectionsReleased
<1> QED BY <1>1, PubInit, PubStep, PTL DEF Pub!Spec

(* However many sends overlap, what they wrote before close() is in one    *)
(* group, which close() has closed (MoqChatPublisher.send).                *)
THEOREM FramesShareGroup == Pub!Spec => []OneGroup
<1>1. PubInv => OneGroup
  BY DEF PubInv, PubTypeInv, GroupInv, OneGroup, Pub!OneGroup
<1> QED BY <1>1, PubInit, PubStep, PTL DEF Pub!Spec

(* A send that close() overtakes does not write to the group it closed     *)
(* (MoqChatPublisher.send, after its await).                               *)
THEOREM ShutGroupsStay == Pub!Spec => NoWriteAfterShut
<1> DEFINE ToOpenGroup ==
      \A n \in Pub!Sends : chatSend[n] = "encrypting" /\ chatSend'[n] = "written"
        => sentTo'[n] \notin {g \in DOMAIN groups : groups[g] = "shut"}
<1>1. ASSUME PubInv, [Pub!Next]_Pub!vars PROVE [ToOpenGroup]_Pub!vars
  <2> SUFFICES ASSUME Pub!Next, NEW n \in Pub!Sends,
                      chatSend[n] = "encrypting", chatSend'[n] = "written"
      PROVE sentTo'[n] \notin {g \in DOMAIN groups : groups[g] = "shut"}
    BY <1>1
  <2>1. Pub!Write(n)
    BY <1>1 DEF Pub!Next, Pub!Connect, Pub!Connected, Pub!ConnectFails, Pub!Close, Pub!Send, Pub!EncryptFails,
                Pub!Write, Pub!WriteRefused, PubInv, PubTypeInv
  <2> QED BY <1>1, <2>1 DEF Pub!Write, Pub!NeedsGroup, PubInv, PubTypeInv, GroupInv
<1> QED BY <1>1, PubInit, PubStep, PTL DEF Pub!Spec, NoWriteAfterShut, Pub!NoWriteAfterShut

-----------------------------------------------------------------------------
(* The page.                                                               *)

Frames == [key : Int, ctr : Int, text : Int]
SendStates ==
  [state : {"idle", "sealing", "sent", "failed"}, pub : Page!Publishers \cup {0},
   frame : Seq(Frames)]

PageTypeInv ==
  /\ identity \in Int
  /\ publisher \in Page!Publishers \cup {0}
  /\ pubs \in [Page!Publishers ->
       [state : {"none", "connecting", "connected", "failed"}, identity : Int, ctr : Int]]
  /\ send \in [Page!Sends -> SendStates]
  /\ track \in [Page!Publishers -> Seq(Frames)]

(* A publisher's codec keeps the identity it was made with; so does each   *)
(* frame that is sealed for it, however long the sealing takes and         *)
(* whichever keys and publisher the page has by then.                      *)
KeyInv ==
  /\ \A s \in Page!Sends : send[s].state = "sealing" =>
       /\ send[s].pub \in Page!Publishers /\ pubs[send[s].pub].state # "none"
       /\ \A i \in DOMAIN send[s].frame : send[s].frame[i].key = pubs[send[s].pub].identity
  /\ \A p \in Page!Publishers :
       /\ track[p] # <<>> => pubs[p].state # "none"
       /\ \A i \in DOMAIN track[p] : track[p][i].key = pubs[p].identity

PageInv == PageTypeInv /\ KeyInv

LEMMA PageInit == Page!Init => PageInv
<1> SUFFICES ASSUME Page!Init PROVE PageInv
  OBVIOUS
<1>1. <<>> \in Seq(Frames) /\ DOMAIN <<>> = {}
  BY EmptySeq
<1>2. PageTypeInv
  BY <1>1 DEF Page!Init, PageTypeInv, SendStates
<1>3. KeyInv
  BY <1>1 DEF Page!Init, KeyInv
<1> QED BY <1>2, <1>3 DEF PageInv

LEMMA SendMoves ==
  ASSUME PageInv, NEW s \in Page!Sends, NEW x \in {"sent", "failed"}
  PROVE  [send EXCEPT ![s].state = x] \in [Page!Sends -> SendStates]
<1>1. send \in [Page!Sends -> SendStates] /\ send[s] \in SendStates
  BY DEF PageInv, PageTypeInv
<1>2. [send[s] EXCEPT !.state = x] \in SendStates
  BY <1>1 DEF SendStates
<1> QED BY <1>1, <1>2

\* A step that touches neither tracks, sends nor publishers.
LEMMA PageRests ==
  ASSUME PageInv, UNCHANGED <<pubs, send, track>>, identity' \in Int,
         publisher' \in Page!Publishers \cup {0}
  PROVE  PageInv'
BY DEF PageInv, PageTypeInv, KeyInv

LEMMA StartStep ==
  ASSUME PageInv, NEW p \in Page!Publishers, Page!StartPublishing(p)
  PROVE  PageInv'
<1>1. /\ pubs[p].state = "none" /\ publisher' = p
      /\ pubs' = [pubs EXCEPT ![p] = [state |-> "connecting", identity |-> identity, ctr |-> 0]]
      /\ UNCHANGED <<identity, send, track>>
  BY DEF Page!StartPublishing
<1>2. PageTypeInv'
  BY <1>1 DEF PageInv, PageTypeInv
<1>3. \A q \in Page!Publishers : pubs[q].state # "none" => pubs'[q] = pubs[q]
  BY <1>1 DEF PageInv, PageTypeInv
<1>4. track[p] = <<>> /\ pubs'[p].state # "none"
  BY <1>1 DEF PageInv, PageTypeInv, KeyInv
<1>5. KeyInv'
  <2>1. ASSUME NEW s \in Page!Sends, send'[s].state = "sealing"
        PROVE  /\ send'[s].pub \in Page!Publishers /\ pubs'[send'[s].pub].state # "none"
               /\ \A i \in DOMAIN send'[s].frame :
                    send'[s].frame[i].key = pubs'[send'[s].pub].identity
    BY <1>1, <1>3, <2>1 DEF PageInv, KeyInv
  <2>2. ASSUME NEW q \in Page!Publishers
        PROVE  /\ track'[q] # <<>> => pubs'[q].state # "none"
               /\ \A i \in DOMAIN track'[q] : track'[q][i].key = pubs'[q].identity
    <3>1. CASE q = p
      BY <1>1, <1>4, <3>1, EmptySeq
    <3>2. CASE q # p
      <4>1. pubs'[q] = pubs[q] /\ track' = track
        BY <1>1, <3>2 DEF PageInv, PageTypeInv
      <4> QED BY <4>1 DEF PageInv, KeyInv
    <3> QED BY <3>1, <3>2
  <2> QED BY <2>1, <2>2 DEF KeyInv
<1> QED BY <1>2, <1>5 DEF PageInv

LEMMA SettleStep ==
  ASSUME PageInv, NEW p \in Page!Publishers, Page!ConnectSettles(p)
  PROVE  PageInv'
<1>1. PICK state \in {"connected", "failed"} : pubs' = [pubs EXCEPT ![p].state = state]
  BY DEF Page!ConnectSettles
<1>2. UNCHANGED <<identity, publisher, send, track>>
  BY DEF Page!ConnectSettles
<1>3. \A q \in Page!Publishers : /\ pubs'[q].identity = pubs[q].identity
                                 /\ pubs[q].state # "none" => pubs'[q].state # "none"
  BY <1>1 DEF PageInv, PageTypeInv
<1>4. PageTypeInv'
  <2> DEFINE R == [state : {"none", "connecting", "connected", "failed"},
                   identity : Int, ctr : Int]
  <2>1. pubs \in [Page!Publishers -> R] /\ pubs[p] \in R
    BY DEF PageInv, PageTypeInv
  <2>2. [pubs[p] EXCEPT !.state = state] \in R
    BY <2>1
  <2> HIDE DEF R
  <2>3. pubs' \in [Page!Publishers -> R]
    BY <1>1, <2>1, <2>2
  <2> QED BY <1>2, <2>3 DEF PageInv, PageTypeInv, R
<1>5. KeyInv'
  BY <1>2, <1>3 DEF PageInv, KeyInv
<1> QED BY <1>4, <1>5 DEF PageInv

LEMMA SubmitStep ==
  ASSUME PageInv, NEW s \in Page!Sends, Page!Submit(s)
  PROVE  PageInv'
<1> DEFINE p == publisher
           f == [key |-> pubs[p].identity, ctr |-> pubs[p].ctr, text |-> 0]
<1>1. /\ p \in Page!Publishers /\ pubs[p].state = "connected"
      /\ send' = [send EXCEPT ![s] = [state |-> "sealing", pub |-> p, frame |-> <<f>>]]
      /\ pubs' = [pubs EXCEPT ![p].ctr = pubs[p].ctr + 1]
      /\ UNCHANGED <<identity, publisher, track>>
  BY DEF Page!Submit, Page!Seal, Page!SealKey, Page!SealedText, Page!Empty, PageInv, PageTypeInv
<1>2. f \in Frames /\ f.key = pubs[p].identity
  BY <1>1 DEF PageInv, PageTypeInv, Frames
<1>3. \A q \in Page!Publishers : pubs'[q].identity = pubs[q].identity
                                 /\ pubs'[q].state = pubs[q].state
  BY <1>1 DEF PageInv, PageTypeInv
<1>4. <<f>> \in Seq(Frames) /\ \A i \in DOMAIN <<f>> : <<f>>[i].key = pubs[p].identity
  <2> HIDE DEF f
  <2> QED BY <1>2
<1> HIDE DEF f
<1>5. PageTypeInv'
  <2>1. pubs' \in [Page!Publishers ->
          [state : {"none", "connecting", "connected", "failed"}, identity : Int, ctr : Int]]
    <3> SUFFICES ASSUME NEW q \in Page!Publishers
                 PROVE  [pubs[q] EXCEPT !.ctr = pubs[p].ctr + 1] \in
                          [state : {"none", "connecting", "connected", "failed"},
                           identity : Int, ctr : Int]
      BY <1>1 DEF PageInv, PageTypeInv
    <3>1. pubs[q] \in [state : {"none", "connecting", "connected", "failed"},
                       identity : Int, ctr : Int]
      BY DEF PageInv, PageTypeInv
    <3>2. pubs[p].ctr + 1 \in Int
      BY <1>1 DEF PageInv, PageTypeInv
    <3> QED BY <3>1, <3>2
  <2>2. send' \in [Page!Sends -> SendStates]
    <3>1. [state |-> "sealing", pub |-> p, frame |-> <<f>>] \in SendStates
      BY <1>1, <1>4 DEF SendStates
    <3> QED BY <1>1, <3>1 DEF PageInv, PageTypeInv
  <2> QED BY <1>1, <2>1, <2>2 DEF PageInv, PageTypeInv
<1>6. KeyInv'
  <2>1. ASSUME NEW r \in Page!Sends, send'[r].state = "sealing"
        PROVE  /\ send'[r].pub \in Page!Publishers /\ pubs'[send'[r].pub].state # "none"
               /\ \A i \in DOMAIN send'[r].frame :
                    send'[r].frame[i].key = pubs'[send'[r].pub].identity
    <3>1. CASE r = s
      <4>1. send'[r].pub = p /\ send'[r].frame = <<f>>
        BY <1>1, <3>1 DEF PageInv, PageTypeInv
      <4> QED BY <1>1, <1>3, <1>4, <4>1
    <3>2. CASE r # s
      <4>1. send'[r] = send[r]
        BY <1>1, <3>2 DEF PageInv, PageTypeInv
      <4> QED BY <1>3, <2>1, <4>1 DEF PageInv, KeyInv
    <3> QED BY <3>1, <3>2
  <2>2. ASSUME NEW q \in Page!Publishers
        PROVE  /\ track'[q] # <<>> => pubs'[q].state # "none"
               /\ \A i \in DOMAIN track'[q] : track'[q][i].key = pubs'[q].identity
    BY <1>1, <1>3 DEF PageInv, KeyInv
  <2> QED BY <2>1, <2>2 DEF KeyInv
<1> QED BY <1>5, <1>6 DEF PageInv

LEMMA SentStep ==
  ASSUME PageInv, NEW s \in Page!Sends, Page!Sent(s)
  PROVE  PageInv'
<1> DEFINE p == send[s].pub
           f == send[s].frame
<1>1. /\ p \in Page!Publishers /\ pubs[p].state # "none" /\ f \in Seq(Frames)
      /\ \A i \in DOMAIN f : f[i].key = pubs[p].identity
      /\ track[p] \in Seq(Frames) /\ \A i \in DOMAIN track[p] : track[p][i].key = pubs[p].identity
  <2>1. send[s].state = "sealing" /\ send[s] \in SendStates
    BY DEF Page!Sent, PageInv, PageTypeInv
  <2>2. f \in Seq(Frames)
    BY <2>1 DEF SendStates
  <2> QED BY <2>1, <2>2 DEF PageInv, PageTypeInv, KeyInv
<1>2. /\ send' = [send EXCEPT ![s].state = "sent"]
      /\ track' = [track EXCEPT ![p] = track[p] \o f]
      /\ UNCHANGED <<identity, publisher, pubs>>
  BY DEF Page!Sent
<1>3. /\ track[p] \o f \in Seq(Frames)
      /\ \A i \in DOMAIN (track[p] \o f) : (track[p] \o f)[i].key = pubs[p].identity
  <2> DEFINE t == track[p]
  <2>1. /\ t \in Seq(Frames) /\ \A i \in 1..Len(t) : t[i].key = pubs[p].identity
        /\ f \in Seq(Frames) /\ \A i \in 1..Len(f) : f[i].key = pubs[p].identity
        /\ Len(t) \in Nat /\ Len(f) \in Nat
    BY <1>1, LenProperties
  <2> HIDE DEF t, f
  <2>2. /\ t \o f \in Seq(Frames) /\ Len(t \o f) = Len(t) + Len(f)
        /\ \A i \in 1..Len(t) + Len(f) : (t \o f)[i] = IF i <= Len(t) THEN t[i] ELSE f[i - Len(t)]
    BY <2>1, ConcatProperties
  <2>3. DOMAIN (t \o f) = 1..Len(t) + Len(f)
    BY <2>2, LenProperties
  <2>4. \A i \in 1..Len(t) + Len(f) : (t \o f)[i].key = pubs[p].identity
    <3> TAKE i \in 1..Len(t) + Len(f)
    <3>1. CASE i <= Len(t)
      BY <2>1, <2>2, <3>1
    <3>2. CASE ~(i <= Len(t))
      <4>1. i - Len(t) \in 1..Len(f)
        BY <2>1, <3>2
      <4> QED BY <2>1, <2>2, <3>2, <4>1
    <3> QED BY <3>1, <3>2
  <2> QED BY <2>2, <2>3, <2>4 DEF t, f
<1> HIDE DEF f
<1>4. PageTypeInv'
  <2>1. send' \in [Page!Sends -> SendStates]
    BY <1>2, SendMoves
  <2>2. track' \in [Page!Publishers -> Seq(Frames)]
    BY <1>2, <1>3 DEF PageInv, PageTypeInv
  <2> QED BY <1>2, <2>1, <2>2 DEF PageInv, PageTypeInv
<1>5. KeyInv'
  <2>1. ASSUME NEW r \in Page!Sends, send'[r].state = "sealing"
        PROVE  /\ send'[r].pub \in Page!Publishers /\ pubs'[send'[r].pub].state # "none"
               /\ \A i \in DOMAIN send'[r].frame :
                    send'[r].frame[i].key = pubs'[send'[r].pub].identity
    <3>1. send'[r] = send[r]
      BY <1>2, <2>1 DEF PageInv, PageTypeInv
    <3> QED BY <1>2, <2>1, <3>1 DEF PageInv, KeyInv
  <2>2. ASSUME NEW q \in Page!Publishers
        PROVE  /\ track'[q] # <<>> => pubs'[q].state # "none"
               /\ \A i \in DOMAIN track'[q] : track'[q][i].key = pubs'[q].identity
    <3>1. CASE q = p
      <4>1. track'[q] = track[p] \o f
        BY <1>2, <3>1 DEF PageInv, PageTypeInv
      <4> QED BY <1>1, <1>2, <1>3, <3>1, <4>1
    <3>2. CASE q # p
      <4>1. track'[q] = track[q]
        BY <1>2, <3>2 DEF PageInv, PageTypeInv
      <4> QED BY <1>2, <4>1 DEF PageInv, KeyInv
    <3> QED BY <3>1, <3>2
  <2> QED BY <2>1, <2>2 DEF KeyInv
<1> QED BY <1>4, <1>5 DEF PageInv

LEMMA PageStep == PageInv /\ [Page!Next]_Page!vars => PageInv'
<1> SUFFICES ASSUME PageInv, [Page!Next]_Page!vars PROVE PageInv'
  OBVIOUS
<1>0. identity \in Int /\ publisher \in Page!Publishers \cup {0}
  BY DEF PageInv, PageTypeInv
<1>1. ASSUME NEW g \in Page!Identities, Page!Generate(g) \/ Page!Generated(g) PROVE PageInv'
  BY <1>0, <1>1, PageRests DEF Page!Generate, Page!Generated, Page!Identities
<1>2. ASSUME NEW p \in Page!Publishers, Page!AddSubscription(p) PROVE PageInv'
  BY <1>0, <1>2, PageRests DEF Page!AddSubscription, Page!app
<1>3. ASSUME NEW s \in Page!Sends, Page!SendFails(s) PROVE PageInv'
  <2>1. /\ send' = [send EXCEPT ![s].state = "failed"]
        /\ UNCHANGED <<identity, publisher, pubs, track>>
    BY <1>3 DEF Page!SendFails
  <2>2. PageTypeInv'
    <3>1. send' \in [Page!Sends -> SendStates]
      BY <2>1, SendMoves
    <3> QED BY <2>1, <3>1 DEF PageInv, PageTypeInv
  <2>3. \A r \in Page!Sends : send'[r].state = "sealing" => send'[r] = send[r]
    BY <2>1 DEF PageInv, PageTypeInv
  <2>4. KeyInv'
    BY <2>1, <2>3 DEF PageInv, KeyInv
  <2> QED BY <2>2, <2>4 DEF PageInv
<1>4. CASE Page!ReceiveFrame
  BY <1>0, <1>4, PageRests DEF Page!ReceiveFrame, Page!app
<1>5. CASE UNCHANGED Page!vars
  BY <1>0, <1>5, PageRests DEF Page!vars, Page!app
<1> QED BY <1>1, <1>2, <1>3, <1>4, <1>5, StartStep, SettleStep, SubmitStep, SentStep
        DEF Page!Next

(* The frames of one track are under one identity, however many keys are   *)
(* generated, publishers started and messages sent meanwhile (app.ts,      *)
(* createPublisherCodec).                                                  *)
THEOREM TracksKeepTheirKeys == Page!Spec => []OneIdentityPerTrack
<1>1. PageInv => OneIdentityPerTrack
  BY DEF PageInv, KeyInv, OneIdentityPerTrack, Page!OneIdentityPerTrack
<1> QED BY <1>1, PageInit, PageStep, PTL DEF Page!Spec

-----------------------------------------------------------------------------
(* MoqChatSubscription: ShownOnce.                                         *)

(* What was shown is what was seen: a message that is not in #seen has not *)
(* been shown, whichever loop asks.                                        *)
ShownInv == shown \in Seq(seen) /\ ShownOnce

(* The look-up in #seen and the entry into it are one step, after the      *)
(* await, so that a message shown by a loop is new for all of them.        *)
LEMMA DecryptedKeepsShown ==
  ASSUME ShownInv, NEW n \in Loops, Decrypted(n)
  PROVE  ShownInv'
<1>1. CASE Frame(n) = Bad \/ Frame(n) \in seen
  BY <1>1 DEF Decrypted, ShownInv, ShownOnce
<1>2. CASE Frame(n) # Bad /\ Frame(n) \notin seen
  <2> DEFINE m == Frame(n)
  <2>1. seen' = seen \cup {m} /\ shown' = Append(shown, m)
    BY <1>2 DEF Decrypted
  <2>2. shown \in Seq(seen')
    BY <2>1 DEF ShownInv
  <2>3. shown' \in Seq(seen')
    BY <2>1, <2>2
  <2>4. /\ Len(shown') = Len(shown) + 1
        /\ DOMAIN shown' = 1..Len(shown) + 1 /\ DOMAIN shown = 1..Len(shown)
        /\ \A i \in 1..Len(shown) : shown'[i] = shown[i] /\ shown[i] \in seen
        /\ shown'[Len(shown) + 1] = m
    BY <2>1 DEF ShownInv
  <2>5. ShownOnce'
    BY <1>2, <2>4 DEF ShownOnce, ShownInv
  <2> QED BY <2>3, <2>5 DEF ShownInv
<1> QED BY <1>1, <1>2 DEF Decrypted

\* No other step shows a message.
LEMMA ShownStep == ShownInv /\ [Next]_vars => ShownInv'
<1> SUFFICES ASSUME ShownInv, [Next]_vars PROVE ShownInv'
  OBVIOUS
<1>1. ASSUME UNCHANGED <<seen, shown>> PROVE ShownInv'
  BY <1>1 DEF ShownInv, ShownOnce
<1>2. CASE Close
  BY <1>1, <1>2 DEF Close
<1>3. ASSUME NEW n \in Loops, Connect(n) \/ Connected(n) \/ ConnectFails(n)
      PROVE ShownInv'
  BY <1>1, <1>3 DEF Connect, Connected, ConnectFails
<1>4. ASSUME NEW n \in Loops, Read(n)
      PROVE ShownInv'
  <2>1. CASE Decrypted(n)
    BY <2>1, DecryptedKeepsShown
  <2>2. CASE ~Decrypted(n)
    BY <1>1, <1>4, <2>2
      DEF Read, RecvGroup, TrackEnds, ReadFrame, GroupEnds, GroupReset, ReadFails
  <2> QED BY <2>1, <2>2
<1>5. CASE UNCHANGED vars
  BY <1>1, <1>5 DEF vars
<1> QED BY <1>2, <1>3, <1>4, <1>5 DEF Next

(* A message is shown once, however often it comes and however many loops  *)
(* of one subscription read the track (#seen of moq-chat.ts).              *)
THEOREM MessagesShownOnce == Spec => []ShownOnce
<1>1. Init => ShownInv
  BY DEF Init, ShownInv, ShownOnce
<1>2. ShownInv => ShownOnce
  BY DEF ShownInv
<1> QED BY <1>1, <1>2, ShownStep, PTL DEF Spec

-----------------------------------------------------------------------------
(* MoqChatSubscription: AllShown.                                          *)

\* A track is a sequence of groups, each a sequence of frames.
TrackAssumption == \E M : Track \in Seq(Seq(M))

LoopStates == {"off", "recvGroup", "readFrame", "decrypting", "ended", "stopped"}

PosTypeOK ==
  /\ conn \in [Loops -> {"idle", "pending", "failed", "open", "shut"}]
  /\ loop \in [Loops -> LoopStates]
  /\ pos \in [Loops -> (0..Len(Track)) \X Nat]

Covered(g) == Messages(Track[g]) \subseteq seen \cup missed

\* What loop n has behind it: whole groups, and the frames read of its group
\* but for the one that is being decrypted.
Behind(n) ==
  /\ conn[n] \in {"idle", "pending"} => loop[n] = "off"
  /\ loop[n] = "off" => pos[n][1] = 0
  /\ loop[n] \in {"off", "recvGroup", "ended"} => \A g \in 1..pos[n][1] : Covered(g)
  /\ loop[n] \in {"readFrame", "decrypting"} =>
       /\ pos[n][1] \in 1..Len(Track)
       /\ \A g \in 1..pos[n][1] - 1 : Covered(g)
       /\ pos[n][2] \in 0..Len(Group(n))
       /\ \A i \in 1..pos[n][2] :
            \/ Group(n)[i] \in seen \cup missed \cup {Bad}
            \/ loop[n] = "decrypting" /\ i = pos[n][2]
  /\ loop[n] = "decrypting" => pos[n][2] # 0
  /\ loop[n] = "ended" => pos[n][1] = Len(Track)

PassedInv == PosTypeOK /\ \A n \in Loops : Behind(n)

LEMMA TrackShape ==
  ASSUME TrackAssumption
  PROVE  /\ Len(Track) \in Nat /\ DOMAIN Track = 1..Len(Track)
         /\ \A g \in 1..Len(Track) :
              Len(Track[g]) \in Nat /\ DOMAIN Track[g] = 1..Len(Track[g])
BY DEF TrackAssumption

(* A loop that a step leaves where it is keeps what it has behind it,      *)
(* since #seen only grows.                                                 *)
LEMMA BehindStays ==
  ASSUME NEW n \in Loops, Behind(n),
         conn'[n] = conn[n], loop'[n] = loop[n], pos'[n] = pos[n],
         seen \subseteq seen', missed \subseteq missed'
  PROVE  Behind(n)'
BY DEF Behind, Covered, Group

\* A group whose frames have all been read, or that was reset, is covered.
LEMMA GroupCovered ==
  ASSUME TrackAssumption, NEW n \in Loops, PosTypeOK, Behind(n),
         loop[n] = "readFrame", pos[n][2] = Len(Group(n))
  PROVE  Covered(pos[n][1])
<1>1. pos[n][1] \in 1..Len(Track)
  BY DEF Behind
<1>2. DOMAIN Group(n) = 1..pos[n][2]
  BY <1>1, TrackShape DEF Group
<1>3. \A i \in DOMAIN Group(n) : Group(n)[i] \in seen \cup missed \cup {Bad}
  BY <1>2 DEF Behind
<1> QED BY <1>3 DEF Covered, Messages, Group

LEMMA ConnectStep ==
  ASSUME PassedInv, NEW n \in Loops, Connect(n) \/ Connected(n) \/ ConnectFails(n) \/ Close
  PROVE  PassedInv'
<1>1. PosTypeOK'
  BY DEF PassedInv, PosTypeOK, LoopStates, Connect, Connected, Open, ConnectFails, Close
<1>2. ASSUME NEW m \in Loops PROVE Behind(m)'
  <2>1. Behind(m) /\ pos' = pos /\ seen' = seen /\ missed' = missed
    BY DEF PassedInv, Connect, Connected, Open, ConnectFails, Close
  <2>2. \/ loop'[m] = loop[m]
        \/ loop[m] = "off" /\ loop'[m] = "recvGroup" /\ conn'[m] = "open"
    BY <2>1 DEF PassedInv, PosTypeOK, Behind, Connect, Connected, Open, ConnectFails, Close
  <2>3. conn'[m] \in {"idle", "pending"} => conn[m] \in {"idle", "pending"}
    BY <2>1 DEF PassedInv, PosTypeOK, Connect, Connected, Open, ConnectFails, Close
  <2> QED BY <2>1, <2>2, <2>3 DEF Behind, Covered, Group
<1> QED BY <1>1, <1>2 DEF PassedInv

LEMMA ReadStep ==
  ASSUME TrackAssumption, PassedInv, NEW n \in Loops, Read(n)
  PROVE  PassedInv'
<1> USE DEF PassedInv
<1>1. /\ seen \subseteq seen' /\ missed \subseteq missed' /\ conn' = conn
      /\ loop' = [loop EXCEPT ![n] = loop'[n]] /\ pos' = [pos EXCEPT ![n] = pos'[n]]
  BY DEF Read, RecvGroup, TrackEnds, ReadFrame, GroupEnds, GroupReset, ReadFails,
         Decrypted, PosTypeOK
<1>2. PosTypeOK'
  <2>1. /\ conn' = conn
        /\ loop'[n] \in LoopStates /\ loop' = [loop EXCEPT ![n] = loop'[n]]
    <3>1. \E x \in LoopStates : loop' = [loop EXCEPT ![n] = x]
      BY DEF Read, RecvGroup, TrackEnds, ReadFrame, GroupEnds, GroupReset,
             ReadFails, Decrypted, LoopStates
    <3>2. loop \in [Loops -> LoopStates]
      BY DEF PosTypeOK
    <3> QED BY <1>1, <3>1, <3>2
  <2>2. pos'[n] \in (0..Len(Track)) \X Nat
    <3>1. CASE RecvGroup(n)
      BY <3>1, TrackShape DEF RecvGroup, PosTypeOK
    <3>2. CASE ReadFrame(n)
      <4>1. pos[n] \in (0..Len(Track)) \X Nat /\ pos'[n] = <<pos[n][1], pos[n][2] + 1>>
        BY <3>2 DEF ReadFrame, PosTypeOK
      <4> HIDE DEF PassedInv
      <4> QED BY <4>1
    <3>3. CASE ~RecvGroup(n) /\ ~ReadFrame(n)
      <4>1. pos' = pos
        BY <3>3 DEF Read, TrackEnds, GroupEnds, GroupReset, ReadFails, Decrypted
      <4> QED BY <4>1 DEF PosTypeOK
    <3> QED BY <3>1, <3>2, <3>3
  <2>3. pos' = [pos EXCEPT ![n] = pos'[n]]
    BY <1>1
  <2> QED BY <2>1, <2>2, <2>3 DEF PosTypeOK
<1>3. ASSUME NEW m \in Loops, m # n PROVE Behind(m)'
  BY <1>1, <1>3, BehindStays DEF PosTypeOK
<1>4. Behind(n)'
  <2>0. Behind(n)
    OBVIOUS
  <2>1. CASE RecvGroup(n)
    BY <2>0, <2>1, TrackShape DEF RecvGroup, Behind, Covered, Group, PosTypeOK
  <2>2. CASE TrackEnds(n)
    BY <2>0, <2>2 DEF TrackEnds, Behind, Covered, Group, PosTypeOK
  <2>3. CASE ReadFrame(n)
    <3>1. /\ loop[n] = "readFrame" /\ pos[n][2] < Len(Group(n)) /\ conn[n] = "open"
          /\ loop'[n] = "decrypting" /\ UNCHANGED <<conn, seen, missed>>
          /\ pos'[n] = <<pos[n][1], pos[n][2] + 1>> /\ pos[n][2] \in Nat
      BY <2>3 DEF ReadFrame, PosTypeOK
    <3>2. /\ pos[n][1] \in 1..Len(Track) /\ Len(Group(n)) \in Nat
          /\ \A g \in 1..pos[n][1] - 1 : Covered(g)
          /\ \A i \in 1..pos[n][2] : Group(n)[i] \in seen \cup missed \cup {Bad}
      BY <2>0, <3>1, TrackShape DEF Behind, Group
    <3>3. /\ \A g : Covered(g)' = Covered(g)
          /\ Group(n)' = Group(n)
      BY <3>1 DEF Covered, Group
    <3>4. \A i \in 1..pos[n][2] + 1 : i \in 1..pos[n][2] \/ i = pos[n][2] + 1
      BY <3>1
    <3>5. /\ pos'[n][1] = pos[n][1] /\ pos'[n][2] = pos[n][2] + 1
          /\ pos'[n][2] \in 0..Len(Group(n)) /\ pos'[n][2] # 0
      BY <3>1, <3>2
    <3>6. \A i \in 1..pos'[n][2] : \/ Group(n)[i] \in seen \cup missed \cup {Bad}
                                  \/ i = pos'[n][2]
      BY <3>2, <3>4, <3>5
    <3> HIDE DEF PassedInv
    <3> QED BY <3>1, <3>2, <3>3, <3>5, <3>6 DEF Behind
  <2>4. CASE GroupEnds(n)
    <3>1. /\ loop[n] = "readFrame" /\ pos[n][2] = Len(Group(n)) /\ conn[n] = "open"
          /\ loop'[n] = "recvGroup" /\ UNCHANGED <<conn, pos, seen, missed>>
      BY <2>4 DEF GroupEnds, PosTypeOK
    <3>2. /\ pos[n][1] \in 1..Len(Track) /\ Covered(pos[n][1])
          /\ \A g \in 1..pos[n][1] - 1 : Covered(g)
      BY <2>0, <3>1, GroupCovered DEF Behind
    <3>3. \A g \in 1..pos[n][1] : Covered(g)
      BY <3>2, TrackShape
    <3>4. \A g : Covered(g)' = Covered(g)
      BY <3>1 DEF Covered
    <3> HIDE DEF PassedInv
    <3> QED BY <3>1, <3>3, <3>4 DEF Behind
  <2>5. CASE GroupReset(n)
    <3>1. /\ loop[n] = "readFrame" /\ conn[n] = "open" /\ loop'[n] = "recvGroup"
          /\ UNCHANGED <<conn, pos, seen>> /\ missed' = missed \cup Messages(Group(n))
      BY <2>5 DEF GroupReset, PosTypeOK
    <3>2. /\ pos[n][1] \in 1..Len(Track)
          /\ \A g \in 1..pos[n][1] - 1 : Covered(g)
      BY <2>0, <3>1 DEF Behind
    <3>3. \A g : Covered(g) => Covered(g)'
      BY <3>1 DEF Covered
    <3>4. Covered(pos[n][1])'
      BY <3>1 DEF Covered, Group
    <3>5. \A g \in 1..pos[n][1] : g \in 1..pos[n][1] - 1 \/ g = pos[n][1]
      BY <3>2, TrackShape
    <3>6. \A g \in 1..pos[n][1] : Covered(g)'
      BY <3>1, <3>2, <3>3, <3>4, <3>5
    <3> HIDE DEF PassedInv
    <3> QED BY <3>1, <3>6 DEF Behind
  <2>6. CASE ReadFails(n)
    <3>1. /\ loop[n] \in {"recvGroup", "readFrame"} /\ loop'[n] = "stopped"
          /\ UNCHANGED <<conn, pos>>
      BY <2>6 DEF ReadFails, PosTypeOK
    <3> HIDE DEF PassedInv
    <3> QED BY <2>0, <3>1 DEF Behind
  <2>7. CASE Decrypted(n)
    <3>1. /\ loop[n] = "decrypting" /\ loop'[n] = "readFrame" /\ UNCHANGED <<conn, pos, missed>>
          /\ seen \subseteq seen' /\ Frame(n) \in seen' \cup {Bad}
      BY <2>7 DEF Decrypted, PosTypeOK
    <3>2. /\ pos[n][1] \in 1..Len(Track) /\ pos[n][2] \in 0..Len(Group(n))
          /\ \A g \in 1..pos[n][1] - 1 : Covered(g)
          /\ conn[n] \notin {"idle", "pending"}
          /\ \A i \in 1..pos[n][2] : Group(n)[i] \in seen \cup missed \cup {Bad} \/ i = pos[n][2]
      BY <2>0, <3>1 DEF Behind
    <3>3. \A g : Covered(g) => Covered(g)'
      BY <3>1 DEF Covered
    <3>4. \A i \in 1..pos[n][2] : Group(n)[i] \in seen' \cup missed \cup {Bad}
      BY <3>1, <3>2 DEF Frame
    <3>5. Group(n)' = Group(n)
      BY <3>1 DEF Group
    <3> HIDE DEF PassedInv
    <3> QED BY <3>1, <3>2, <3>3, <3>4, <3>5 DEF Behind
  <2> QED BY <2>1, <2>2, <2>3, <2>4, <2>5, <2>6, <2>7 DEF Read
<1> QED BY <1>2, <1>3, <1>4

(* A loop that comes to the end of the track has shown every message of    *)
(* it, but for groups that were reset: for every track and however many    *)
(* loops share #seen, whichever frames do not decrypt (readLoop).          *)
THEOREM NoMessagePassedOver == ASSUME TrackAssumption PROVE Spec => []AllShown
<1>1. Init => PassedInv
  BY TrackShape DEF Init, PassedInv, PosTypeOK, LoopStates, Behind, Covered, Group
<1>2. PassedInv /\ [Next]_vars => PassedInv'
  <2> SUFFICES ASSUME PassedInv, [Next]_vars PROVE PassedInv'
    OBVIOUS
  <2>1. CASE UNCHANGED vars
    BY <2>1 DEF vars, PassedInv, PosTypeOK, Behind, Covered, Group
  <2>2. CASE Close
    <3>1. CASE Loops = {}
      BY <2>2, <3>1 DEF PassedInv, PosTypeOK, Close
    <3>2. CASE Loops # {}
      BY <2>2, <3>2, ConnectStep
    <3> QED BY <3>1, <3>2
  <2> QED BY <2>1, <2>2, ConnectStep, ReadStep DEF Next
<1>3. PassedInv => AllShown
  <2> SUFFICES ASSUME PassedInv, NEW n \in Loops, loop[n] = "ended"
      PROVE UNION {Messages(Track[g]) : g \in DOMAIN Track} \subseteq seen \cup missed
    BY DEF AllShown
  <2>1. \A g \in DOMAIN Track : Covered(g)
    BY TrackShape DEF PassedInv, Behind
  <2> QED BY <2>1 DEF Covered
<1> QED BY <1>1, <1>2, <1>3, PTL DEF Spec

-----------------------------------------------------------------------------
(* MoqChatSubscription: ClosesDown.  The fairness of FairSpec is stated    *)
(* with the condition under which a step can be taken in place of ENABLED, *)
(* for all connects together and all loops together, which asks less: that *)
(* of several that could go on forever some does.                          *)

Settle == \E n \in Loops : Connected(n) \/ ConnectFails(n)
ReadOn == \E n \in Loops : Read(n)
SettleFair == []<>~(\E n \in Loops : conn[n] = "pending") \/ []<><<Settle>>_vars
ReadFair == []<>~(\E n \in Loops : ~Over(n)) \/ []<><<ReadOn>>_vars

RunTypeOK ==
  /\ conn \in [Loops -> {"idle", "pending", "failed", "open", "shut"}]
  /\ loop \in [Loops -> LoopStates]
  /\ overlapped \in BOOLEAN

(* Of connects that do not overlap one at a time has work left: it awaits  *)
(* its connection, or its loop reads.  Until close() the loop that reads   *)
(* has the connection #connection names, afterwards it has none.           *)
Sole ==
  /\ \A n, m \in Loops :
       /\ conn[n] = "pending" => Over(m) /\ (conn[m] = "pending" => m = n)
       /\ ~Over(n) /\ ~Over(m) => m = n
  /\ \A n \in Loops :
       /\ conn[n] = "open" => connection = n /\ ~closed
       /\ ~Over(n) => closed \/ conn[n] = "open"
       /\ conn[n] = "pending" => closed \/ connection = 0

SoleInv == RunTypeOK /\ (~overlapped => Sole)

LEMMA SoleInit == Init => SoleInv
BY DEF Init, SoleInv, RunTypeOK, Sole, Over, LoopStates

LEMMA SoleSettles ==
  ASSUME SoleInv, NEW n \in Loops, Connect(n) \/ Connected(n) \/ ConnectFails(n)
  PROVE  SoleInv'
<1> USE DEF SoleInv
<1>1. RunTypeOK'
  BY DEF RunTypeOK, LoopStates, Connect, Connected, Open, ConnectFails
<1>2. \A m \in Loops : m # 0
  BY DEF Loops
<1>3. ASSUME Connect(n), ~overlapped' PROVE Sole'
  <2>1. /\ ~overlapped /\ ~closed /\ connection = 0
        /\ \A m \in Loops : conn[m] # "pending" /\ conn[m] # "open" /\ Over(m)
    BY <1>2, <1>3 DEF Connect, Sole, RunTypeOK
  <2> QED BY <1>3, <2>1 DEF Connect, Sole, Over, RunTypeOK
<1>4. ASSUME Connected(n) \/ ConnectFails(n), ~overlapped' PROVE Sole'
  <2>1. /\ ~overlapped /\ closed' = closed /\ conn[n] = "pending"
        /\ \A m \in Loops : Over(m) /\ (conn[m] = "pending" => m = n)
        /\ closed \/ connection = 0
    BY <1>4 DEF Connected, Open, ConnectFails, Sole
  <2>2. \A m \in Loops : conn[m] # "open"
    BY <1>2, <1>4, <2>1 DEF Sole
  <2>3. CASE Connected(n) /\ ~closed
    BY <2>1, <2>2, <2>3 DEF Connected, Open, Sole, Over, RunTypeOK
  <2>4. CASE ConnectFails(n) \/ closed
    <3>1. /\ UNCHANGED <<closed, connection, loop>>
          /\ \E x \in {"failed", "shut"} : conn' = [conn EXCEPT ![n] = x]
      BY <1>4, <2>4 DEF Connected, ConnectFails
    <3> QED BY <2>1, <2>2, <3>1 DEF Sole, Over, RunTypeOK
  <2> QED BY <1>4, <2>3, <2>4
<1> QED BY <1>1, <1>3, <1>4 DEF Connect, Connected, ConnectFails

LEMMA SoleReads ==
  ASSUME SoleInv, NEW n \in Loops, Read(n)
  PROVE  SoleInv' /\ UNCHANGED <<closed, connection, conn, overlapped>>
         /\ ~Over(n) /\ \E x \in LoopStates : loop' = [loop EXCEPT ![n] = x]
<1> USE DEF SoleInv
<1>1. /\ UNCHANGED <<closed, connection, conn, overlapped>>
      /\ ~Over(n) /\ \E x \in LoopStates : loop' = [loop EXCEPT ![n] = x]
  BY DEF Read, RecvGroup, TrackEnds, ReadFrame, GroupEnds, GroupReset, ReadFails,
         Decrypted, LoopStates, Over
<1>2. RunTypeOK'
  BY <1>1 DEF RunTypeOK
<1>3. \A m \in Loops : Over(m) => Over(m)'
  BY <1>1 DEF Over, RunTypeOK
<1>4. Sole => Sole'
  BY <1>1, <1>3 DEF Sole
<1> QED BY <1>1, <1>2, <1>4

LEMMA SoleStep == SoleInv /\ [Next]_vars => SoleInv'
<1> SUFFICES ASSUME SoleInv, [Next]_vars PROVE SoleInv'
  OBVIOUS
<1>1. CASE Close
  <2>1. RunTypeOK'
    BY <1>1 DEF Close, SoleInv, RunTypeOK
  <2>2. /\ closed' /\ UNCHANGED <<loop, overlapped>>
        /\ \A n \in Loops : conn'[n] = "pending" => conn[n] = "pending"
        /\ \A n \in Loops : connection = n => conn'[n] # "open" \/ n = 0
        /\ \A n \in Loops : connection # n => conn'[n] = conn[n]
    BY <1>1 DEF Close, SoleInv, RunTypeOK
  <2>3. Sole => Sole'
    BY <2>2 DEF Sole, Over, Loops
  <2> QED BY <2>1, <2>2, <2>3 DEF SoleInv
<1>2. CASE UNCHANGED vars
  BY <1>2 DEF vars, SoleInv, RunTypeOK, Sole, Over
<1> QED BY <1>1, <1>2, SoleSettles, SoleReads DEF Next

\* A closed subscription, by what it has left to do.
Closing == closed /\ ~overlapped /\ Sole
Awaits == Closing /\ \E n \in Loops : conn[n] = "pending"
Decrypts == Closing /\ \E n \in Loops : loop[n] = "decrypting"
Reads == Closing /\ \E n \in Loops : loop[n] \in {"recvGroup", "readFrame"}
AtRest == \A n \in Loops : conn[n] \notin {"pending", "open"} /\ Over(n)

LEMMA ClosingStates == SoleInv /\ closed => overlapped \/ Awaits \/ Decrypts \/ Reads \/ AtRest
BY DEF SoleInv, RunTypeOK, LoopStates, Sole, Closing, Awaits, Decrypts, Reads, AtRest, Over

\* With its connection shut, a loop that reads can only fail.
LEMMA ClosingReads ==
  ASSUME SoleInv, Closing, NEW n \in Loops, Read(n)
  PROVE  /\ Closing' /\ ~Awaits
         /\ Decrypts => Reads'
         /\ Reads => AtRest'
<1>1. /\ SoleInv' /\ UNCHANGED <<closed, conn, overlapped>> /\ ~Over(n)
  BY SoleReads
<1>2. Closing'
  BY <1>1 DEF SoleInv, Closing
<1>3. /\ \A m \in Loops : conn[m] \notin {"pending", "open"}
      /\ \A m \in Loops : m # n => Over(m)
  BY <1>1 DEF Closing, Sole
<1>4. loop[n] \in LoopStates /\ loop \in [Loops -> LoopStates]
  BY DEF SoleInv, RunTypeOK
<1>5. CASE loop[n] = "decrypting"
  <2>1. loop' = [loop EXCEPT ![n] = "readFrame"]
    BY <1>5 DEF Read, RecvGroup, TrackEnds, ReadFrame, GroupEnds, GroupReset, ReadFails,
                Decrypted
  <2>2. ~Reads
    BY <1>3, <1>5 DEF Reads, Over
  <2> QED BY <1>2, <1>3, <1>4, <2>1, <2>2 DEF Awaits, Reads
<1>6. CASE loop[n] # "decrypting"
  <2>1. ReadFails(n)
    BY <1>3, <1>6 DEF Read, RecvGroup, TrackEnds, ReadFrame, GroupEnds, GroupReset, Decrypted
  <2>2. ~Decrypts
    BY <1>3, <1>6 DEF Decrypts, Over
  <2>3. AtRest'
    BY <1>1, <1>3, <1>4, <2>1 DEF ReadFails, AtRest, Over
  <2> QED BY <1>2, <1>3, <2>2, <2>3 DEF Awaits
<1> QED BY <1>5, <1>6

LEMMA ClosingSettles ==
  ASSUME SoleInv, Closing, NEW n \in Loops, Connected(n) \/ ConnectFails(n)
  PROVE  AtRest' /\ ~Decrypts /\ ~Reads
<1>1. /\ \A m \in Loops : Over(m) /\ conn[m] # "open" /\ (conn[m] = "pending" => m = n)
      /\ loop' = loop /\ \E x \in {"failed", "shut"} : conn' = [conn EXCEPT ![n] = x]
  BY DEF Closing, Sole, Connected, ConnectFails
<1>2. conn \in [Loops -> {"idle", "pending", "failed", "open", "shut"}]
  BY DEF SoleInv, RunTypeOK
<1>3. AtRest'
  BY <1>1, <1>2 DEF AtRest, Over
<1> QED BY <1>1, <1>3 DEF Decrypts, Reads, Over

LEMMA ClosingSteps ==
  ASSUME SoleInv, [Next]_vars, ~Settle, ~ReadOn, Closing
  PROVE  UNCHANGED <<closed, overlapped, conn, loop>> /\ Closing'
<1>1. ~Close /\ \A n \in Loops : ~Connect(n)
  BY DEF Closing, Close, Connect
<1>2. UNCHANGED vars
  BY <1>1 DEF Next, Settle, ReadOn
<1> QED BY <1>2 DEF vars, Closing, Sole, Over

LEMMA Awaited ==
  SoleInv /\ [Next]_vars /\ Awaits => (Awaits' /\ ~Settle) \/ AtRest'
<1> SUFFICES ASSUME SoleInv, [Next]_vars, Awaits, ~AtRest' PROVE Awaits' /\ ~Settle
  OBVIOUS
<1>1. ~Settle /\ ~ReadOn
  BY ClosingSettles, ClosingReads DEF Awaits, Settle, ReadOn
<1> QED BY <1>1, ClosingSteps DEF Awaits

LEMMA Decrypting ==
  SoleInv /\ [Next]_vars /\ Decrypts => (Decrypts' /\ ~ReadOn) \/ Reads'
<1> SUFFICES ASSUME SoleInv, [Next]_vars, Decrypts, ~Reads' PROVE Decrypts' /\ ~ReadOn
  OBVIOUS
<1>1. ~Settle /\ ~ReadOn
  BY ClosingSettles, ClosingReads DEF Decrypts, Settle, ReadOn
<1> QED BY <1>1, ClosingSteps DEF Decrypts

LEMMA Reading ==
  SoleInv /\ [Next]_vars /\ Reads => (Reads' /\ ~ReadOn) \/ AtRest'
<1> SUFFICES ASSUME SoleInv, [Next]_vars, Reads, ~AtRest' PROVE Reads' /\ ~ReadOn
  OBVIOUS
<1>1. ~Settle /\ ~ReadOn
  BY ClosingSettles, ClosingReads DEF Reads, Settle, ReadOn
<1> QED BY <1>1, ClosingSteps DEF Reads

(* A subscription that is closed, also during connect() or decrypt(),      *)
(* comes to rest with no connection open and no loop reading, whatever the *)
(* track (close and readLoop).                                             *)
THEOREM ClosedComesToRest == Spec /\ SettleFair /\ ReadFair => ClosesDown
<1>1. Awaits => \E n \in Loops : conn[n] = "pending"
  BY DEF Awaits
<1>2. Decrypts \/ Reads => \E n \in Loops : ~Over(n)
  BY DEF Decrypts, Reads, Over
<1>3. Spec => []SoleInv
  BY SoleInit, SoleStep, PTL DEF Spec
<1>4. <<Settle>>_vars => Settle
  OBVIOUS
<1>5. <<ReadOn>>_vars => ReadOn
  OBVIOUS
<1>6. Spec /\ SettleFair => (Awaits ~> AtRest)
  BY <1>1, <1>3, <1>4, Awaited, PTL DEF Spec, SettleFair
<1>7. Spec /\ ReadFair => (Reads ~> AtRest)
  BY <1>2, <1>3, <1>5, Reading, PTL DEF Spec, ReadFair
<1>8. Spec /\ ReadFair => (Decrypts ~> Reads)
  BY <1>2, <1>3, <1>5, Decrypting, PTL DEF Spec, ReadFair
<1>9. Spec /\ SettleFair /\ ReadFair => (closed ~> overlapped \/ AtRest)
  BY <1>3, <1>6, <1>7, <1>8, ClosingStates, PTL
<1> QED BY <1>9 DEF ClosesDown, AtRest

-----------------------------------------------------------------------------
(* The chat.                                                               *)

(* While one part of the chat is at work the others rest, so that a        *)
(* behaviour of the whole is a behaviour of each part, and what is proved  *)
(* of the parts holds of the chat as it is composed in MCBrowserChat.      *)
THEOREM PartsImplemented ==
  MCInit /\ [][MCNext]_allVars => Page!Spec /\ Pub!Spec /\ Spec
<1>1. MCInit => Page!Init /\ Pub!Init /\ Init
  BY DEF MCInit
<1>2. [MCNext]_allVars => [Page!Next]_Page!vars
  <2>1. UNCHANGED ofPage => UNCHANGED Page!vars
    BY DEF ofPage, Page!vars, Page!app
  <2> QED BY <2>1 DEF MCNext, Subscribing, allVars
<1>3. [MCNext]_allVars => [Pub!Next]_Pub!vars
  <2>1. UNCHANGED ofPublisher => UNCHANGED Pub!vars
    BY DEF ofPublisher, Pub!vars
  <2> QED BY <2>1 DEF MCNext, Subscribing, allVars
<1>4. [MCNext]_allVars => [Next]_vars
  BY DEF MCNext, Subscribing, allVars
<1> QED BY <1>1, <1>2, <1>3, <1>4, PTL DEF Page!Spec, Pub!Spec, Spec

=============================================================================
