---------------------------- MODULE MCBrowserChat ----------------------------
(***************************************************************************)
(* The browser chat in its three parts: the page with its buttons, one     *)
(* MoqChatPublisher and one MoqChatSubscription.  A behaviour exercises    *)
(* the part it begins with; the others rest.  The track that is subscribed *)
(* to has messages repeated within and across groups and frames that do    *)
(* not decrypt before good ones.                                           *)
(***************************************************************************)
EXTENDS MoqChatSubscription

CONSTANTS MaxIdentities, MaxPublishers, MaxSends

NoMessage == 0
SmallTrack == << <<1, NoMessage, 2>>, <<2, 1, 3>>, <<NoMessage, 4>> >>

VARIABLES
  part,
  generating, identity, publisher, pubs, send, track, mine, pasted, read, theirs,
  chatClosed, chatConnection, chatConn, group, chatSend, sentTo, early, groups

Page == INSTANCE BrowserChat
Pub == INSTANCE MoqChatPublisher WITH
         closed <- chatClosed, connection <- chatConnection, conn <- chatConn,
         send <- chatSend

ofPage == <<generating, identity, publisher, pubs, send, track, mine, pasted, read, theirs>>
ofPublisher == <<chatClosed, chatConnection, chatConn, group, chatSend, sentTo, early, groups>>

MCInit ==
  /\ part \in {"page", "publisher", "subscription"}
  /\ Page!Init /\ Pub!Init /\ Init

Subscribing(action) ==
  part = "subscription" /\ action /\ UNCHANGED <<part, ofPage, ofPublisher>>

MCNext ==
  \/ part = "page" /\ Page!Next /\ UNCHANGED <<part, vars, ofPublisher>>
  \/ part = "publisher" /\ Pub!Next /\ UNCHANGED <<part, ofPage, vars>>
  \/ Subscribing(Next)

allVars == <<part, vars, ofPage, ofPublisher>>

\* FairSpec for the behaviours about a subscription.
MCFairSpec ==
  /\ MCInit /\ [][MCNext]_allVars
  /\ \A n \in Loops :
       /\ WF_allVars(Subscribing(Connected(n) \/ ConnectFails(n)))
       /\ WF_allVars(Subscribing(Read(n)))

-----------------------------------------------------------------------------
(* The properties of the page and the publisher, as their modules state    *)
(* and explain them; those of the subscription are MoqChatSubscription's.  *)

\* The frames of a track are under one identity.
OneIdentityPerTrack == Page!OneIdentityPerTrack
\* A closed publisher leaves no connection open.
ConnectionsReleased == Pub!ConnectionsReleased
\* Frames written before close() are in one group, which is closed.
OneGroup == Pub!OneGroup
\* Nothing is written to a closed group.
NoWriteAfterShut == Pub!NoWriteAfterShut

=============================================================================
