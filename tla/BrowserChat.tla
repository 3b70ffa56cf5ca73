----------------------------- MODULE BrowserChat -----------------------------
(***************************************************************************)
(* The browser chat as its user meets it (app.ts with secure-factory.ts,   *)
(* secure-chat.ts and moq-secure's encrypter and decrypter): buttons that  *)
(* generate keys, start publishing and send, each of which awaits, and a   *)
(* second browser that subscribes with keys pasted from the first.  The    *)
(* pieces that connect to the relay are modelled in MoqChatPublisher and   *)
(* MoqChatSubscription; here a connection opens or fails and a subscriber  *)
(* is handed the frames of its track.                                      *)
(***************************************************************************)
EXTENDS Integers, Sequences

CONSTANTS
  MaxIdentities,   \* bound: clicks on "Generate keys"
  MaxPublishers,   \* bound: clicks on "Start publishing"
  MaxSends         \* bound: messages

Identities == 1..MaxIdentities
Publishers == 1..MaxPublishers
Sends == 1..MaxSends      \* a message is named by its send
Empty == 0                \* the text without a byte

VARIABLES
  generating,   \* each generate(): idle, pending, done
  identity,     \* #identity: 0 undefined
  publisher,    \* #publisher: 0 undefined, n the one of the n-th start
  pubs,         \* each publisher: state, identity, counter of its encrypter
  send,         \* each send(): state, publisher, frame
  track,        \* the frames of each publisher's track
  mine,         \* messages of the list that are the user's own
  pasted,       \* subscription of the other browser: identity and publisher, or <<>>
  read,         \* frames it has been handed
  theirs        \* messages of its list

app == <<generating, identity, publisher, pubs, send, track, mine>>
vars == <<app, pasted, read, theirs>>

Init ==
  /\ generating = [g \in Identities |-> "idle"]
  /\ identity = 0 /\ publisher = 0
  /\ pubs = [p \in Publishers |-> [state |-> "none", identity |-> 0, ctr |-> 0]]
  /\ send = [s \in Sends |-> [state |-> "idle", pub |-> 0, frame |-> <<>>]]
  /\ track = [p \in Publishers |-> <<>>]
  /\ mine = <<>>
  /\ pasted = <<>> /\ read = 0 /\ theirs = <<>>

-----------------------------------------------------------------------------
(* The publishing browser.                                                 *)

\* A click on "Generate keys", up to the await of the public key.
Generate(g) ==
  /\ generating[g] = "idle" /\ \A h \in Identities : h < g => generating[h] # "idle"
  /\ generating' = [generating EXCEPT ![g] = "pending"]
  /\ UNCHANGED <<identity, publisher, pubs, send, track, mine, pasted, read, theirs>>

\* The identity is set and its keys displayed.
Generated(g) ==
  /\ generating[g] = "pending"
  /\ generating' = [generating EXCEPT ![g] = "done"]
  /\ identity' = g
  /\ UNCHANGED <<publisher, pubs, send, track, mine, pasted, read, theirs>>

\* startPublishing up to the await of the connection: createPublisherCodec
\* copies the keys into a new encrypter, which counts from 0.
StartPublishing(p) ==
  /\ identity # 0
  /\ pubs[p].state = "none" /\ \A q \in Publishers : q < p => pubs[q].state # "none"
  /\ publisher' = p
  /\ pubs' = [pubs EXCEPT ![p] = [state |-> "connecting", identity |-> identity, ctr |-> 0]]
  /\ UNCHANGED <<generating, identity, send, track, mine, pasted, read, theirs>>

\* connect() answers or throws.
ConnectSettles(p) ==
  /\ pubs[p].state = "connecting"
  /\ \E state \in {"connected", "failed"} : pubs' = [pubs EXCEPT ![p].state = state]
  /\ UNCHANGED <<generating, identity, publisher, send, track, mine, pasted, read, theirs>>

\* Variant of SealKey: the codec reads the keys of the moment.
SealKeyCurrent(p) == identity

\* The keys of a publisher's codec, and key id 0.
SealKey(p) == pubs[p].identity

\* SecureChatCodec.encrypt calls encrypt(0, plaintext) of an encrypter that
\* takes one argument: it seals the text of length undefined, that is none.
SealedText(message) == Empty

\* MoqSecureEncrypter.encrypt up to its await.
Seal(p, s) ==
  /\ send' = [send EXCEPT ![s] = [state |-> "sealing", pub |-> p, frame |->
       <<[key |-> SealKey(p), ctr |-> pubs[p].ctr, text |-> SealedText(s)]>>]]
  /\ pubs' = [pubs EXCEPT ![p].ctr = @ + 1]

NextSend(s) ==
  send[s].state = "idle" /\ \A r \in Sends : r < s => send[r].state # "idle"

\* The composer is submitted: send() of the publisher of the moment.
Submit(s) ==
  /\ NextSend(s) /\ publisher # 0 /\ pubs[publisher].state = "connected"
  /\ Seal(publisher, s)
  /\ UNCHANGED <<generating, identity, publisher, track, mine, pasted, read, theirs>>

\* The frame is sealed and signed: it is written and the message listed.
Sent(s) ==
  /\ send[s].state = "sealing"
  /\ send' = [send EXCEPT ![s].state = "sent"]
  /\ track' = [track EXCEPT ![send[s].pub] = @ \o send[s].frame]
  /\ mine' = Append(mine, s)
  /\ UNCHANGED <<generating, identity, publisher, pubs, pasted, read, theirs>>

\* WebCrypto or the track refuses: send() throws, the text stays in its field.
SendFails(s) ==
  /\ send[s].state = "sealing"
  /\ send' = [send EXCEPT ![s].state = "failed"]
  /\ UNCHANGED <<generating, identity, publisher, pubs, track, mine, pasted, read, theirs>>

-----------------------------------------------------------------------------
(* The subscribing browser.                                                *)

\* addSubscription, with the keys the publishing browser displays.
AddSubscription(p) ==
  /\ pasted = <<>> /\ identity # 0 /\ pubs[p].state = "connected"
  /\ pasted' = <<[identity |-> identity, pub |-> p]>>
  /\ UNCHANGED <<app, read, theirs>>

\* SecureChatCodec.decrypt calls decrypt(0, ciphertext) of a decrypter that
\* takes one argument: Frame.parse(0) throws, and no text comes of any frame.
Texts(frame, keys) == <<>>

\* The read loop has the next frame decrypted and lists its message, or logs.
ReceiveFrame ==
  /\ pasted # <<>> /\ read < Len(track[pasted[1].pub])
  /\ theirs' = theirs \o Texts(track[pasted[1].pub][read + 1], pasted[1].identity)
  /\ read' = read + 1
  /\ UNCHANGED <<app, pasted>>

Next ==
  \/ \E g \in Identities : Generate(g) \/ Generated(g)
  \/ \E p \in Publishers : StartPublishing(p) \/ ConnectSettles(p) \/ AddSubscription(p)
  \/ \E s \in Sends : Submit(s) \/ Sent(s) \/ SendFails(s)
  \/ ReceiveFrame

Spec == Init /\ [][Next]_vars

-----------------------------------------------------------------------------
(* Properties.                                                             *)

(* The frames of one track are under one identity, also when the user      *)
(* generates new keys while messages are being sent: who has pasted the    *)
(* keys of the track can go on reading it.                                 *)
OneIdentityPerTrack ==
  \A p \in Publishers : \A i, j \in DOMAIN track[p] : track[p][i].key = track[p][j].key

(* A subscriber with the keys of the track shows the first message it is   *)
(* handed (js/examples/moq-secure-chat/README, Subscribe to a broadcast).  *)
MessagesShown ==
  read > 0 /\ track[pasted[1].pub][1].key = pasted[1].identity => theirs # <<>>

=============================================================================
