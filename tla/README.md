# Verification of moq-secure

TLA+ models of moq-secure, the end-to-end encryption layer for Media over QUIC,
with the TLC runs that check them and the TLAPS proofs of their main theorems.
Paths below are relative to the repository (`js/src/...`, `rs/...`,
`specification/README.md`); `PROJECT.json` maps every definition to its lines.

Contents: 1 the system; 2 the modules; 3 the runs; 4 bounds; 5 fairness;
6 proofs; 7 disagreements found; 8 what is not modelled; 9 plan.

## 1. The system: inventory

moq-secure wraps each application payload in one frame: a 17-byte header
(`magic, version, key_id, ctr, n_signed, sig_flag, encryption_type`), an AEAD
ciphertext and tag over `pad_len || zeros || plaintext`, and on every
`n_signed`-th frame an Ed25519 signature. A receiver accepts an unsigned frame
only on a *lease* that a signed frame granted. There is a TypeScript library
(`js/src`) and a Rust crate (`rs/moq-secure`), an interactive chat for each, and
a prose specification.

| Component | State it keeps | Operations | Correct when |
|---|---|---|---|
| **Wire format** `wire.ts`, `padding.ts`, `constants.ts`; `wire.rs` | none | parse, validate, decode, encrypt, serialize, pad and unpad | both libraries give the same verdict on every byte string; sections tile the frame; what was encoded comes back; a frame cut short is refused; sizes are the specified ones |
| **MoqSecureDecrypter** `decrypter.ts` | lease, mode, live and playback counters per key id, tail of the promise chain | `decrypt`, `beginLive`, `beginRewind`, `resetLease`, `withLease` | calls are serialized, no replay within live playback or one rewind, a failed frame changes nothing and blocks nobody, leases are earned from signatures and bounded by `n_signed` |
| **MoqSecureEncrypter** `encrypter.ts` | next counter, frame count | constructor checks, `encrypt` | a counter is used once, the signing schedule follows the counter, a key change cuts the stream at one counter, the end of the counter space is an error |
| **Key stores** `keys.ts`, `key_store.rs`; `keys.rs` of the Rust chat | keys by id | `setKey`, `setKeyEncoded`, `removeKey`, `aeadKey` | readers see the latest key; programs given the same text read the same 32 bytes or refuse it |
| **Nonces, AEAD, Ed25519** `nonce.*`, `crypto.*` | copies of keys and texts across awaits | derive, seal, open, sign, verify | every header field and the payload are bound by tag or signature; a call seals what it was given |
| **Streams** `streams.ts` | queue of one chunk, pending pull, reader lock, source | `pull`, `cancel`, read, stop, fail | no chunk lost or repeated, an error stays an error, a consumer that stops releases the source |
| **Rust chat** `moq-secure-chat/src/session.rs`, `keys.rs`; CLI `main.rs` | publisher's crypto and group counters, line channel; subscriber's loop, one task per announcement | start, read line, send, stop; announce, subscribe, return, receive | no (key, counter) pair repeats over restarts, typed lines are published once and in order, the end of input drains the channel, a returning broadcast is followed again |
| **Browser chat connections** `moq-chat.ts` | connection, group, closed flag, `#seen` | connect, send, close, read loop | nothing goes to a closed group, connections are released, a message is shown once, a bad frame costs no other |
| **Browser chat page** `app.ts`, `secure-factory.ts`, `secure-chat.ts` | identity, publisher, its encrypter, message list | generate, start publishing, send, subscribe | a track stays under one identity; what is published is shown |

How they interact. An application calls `encrypt()`; the encrypter allots a
counter and calls `encryptFrame`, which reads the key store, awaits the AEAD and
the signature, and returns a frame that the transport (external) carries. On the
other side the application calls `decrypt()` for what arrives; calls form a
promise chain `#decryptTail`, and the one whose turn it is runs
`Frame.decodePlaintext` against the shared lease, counters and key store. Player
and application call `beginLive`, `beginRewind`, `resetLease` and `setKey` at any
time in between. In the Rust CLI a blocking stdin thread feeds a bounded channel
that an async loop drains into `ChatPublisher::send_message`; on the other side
a loop takes the announcements, awaits a subscribe for each and spawns a
`ChatSubscriber` task. In the browser
the page's buttons create codecs (an encrypter or a decrypter with a key store
of its own) and hand them to `MoqChatPublisher` and `MoqChatSubscription`, which
await the relay and the codec in turn.

What is hard. The JavaScript code runs on one thread but interleaves at every
`await`: state read before it may be stale after it, and results arrive in another
order than calls were made; a caller may reuse its arrays, or close a publisher,
while a call awaits. Frames may be lost, repeated, reordered, cut or changed. Any
of six checks may fail in the middle of a call. Counters end at 2^64 - 1, and in
memory only: a restart begins again at 0. Two libraries implement one byte
format separately. `PROJECT.json` lists these hazards at the line where each
bites, with the property that would catch it.

## 2. The modules

| Module | Models | Notes |
|---|---|---|
| `Frames` | what a receiver's decision depends on in one frame; the gates of `Frame.decodePlaintext` | a frame is a record of outcomes (parses? which key sealed it? would the signature verify? would the padding check pass?) |
| `Receiver` | the abstract receiver: one atomic step per delivered frame | the specification `Decrypter` implements |
| `Decrypter` | `MoqSecureDecrypter` and `decryptFrame`, one action per stretch of code between two awaits | see below |
| `DecrypterProofs`, `DecrypterReceiverProofs` | theorems about `Decrypter`: types, serialization, replays; counters, leases, that it implements `Receiver` | the second builds on the first |
| `MCDecrypter` | frames for its small instances | |
| `Encrypter` | `MoqSecureEncrypter` and `encryptFrame` | |
| `EncrypterProofs` | theorems about `Encrypter` | |
| `MediaPath` | `Encrypter` and `Decrypter` over a transport that loses, repeats and reorders frames | both by `INSTANCE`; live mode, one key |
| `MediaPathProofs` | theorems about `MediaPath` | uses those of `Encrypter` and `Decrypter` as instances |
| `WireFormat` | lengths, offsets, checks and their order, in both libraries | `Js...` from TypeScript, `Rs...` from Rust, never shared |
| `WirePath`, `MCWirePath` | one frame from any encoder, whole or cut, to both decoders; boundary byte strings | |
| `WirePathProofs` | theorems about `WireFormat` and `WirePath`, for all lengths | |
| `ChatCli` | the Rust publisher over restarts, its stdin thread and channel; the subscriber | |
| `ChatCliProofs` | theorems about `ChatCli` | |
| `Binding` | what the AEAD and the signature of a frame cover: header encoding, nonce, associated data, digest, the frame's parts | ideal cryptography; frames spliced from three |
| `Buffers` | which array each stretch of `encrypt` and `decrypt` reads, and what is copied when | contents of an array are a number |
| `Streams` | both adapters end to end with their consumer | chunks are numbered by the source |
| `KeyStores` | the three decoders of key texts, loading, removal | a text is its alphabet, length, padding and spare bits |
| `MCLibraryParts` | the four modules above in one run | they share no state; `part` chooses one |
| `LibraryPartsProofs` | theorems about the four | each part by itself, and that the composition implements each |
| `MoqChatPublisher` | `connect`, `send`, `close` of the browser's publisher | relay external |
| `MoqChatSubscription` | `connect`, `close`, `readLoop` of the browser's subscription | loops of overlapping connects share `#seen` |
| `BrowserChat` | the page: buttons, identities, encrypters, codec | connections open or fail |
| `MCBrowserChat` | the three browser modules in one run, by `part` | |
| `BrowserChatProofs` | theorems about the three | as in `LibraryPartsProofs` |

Operators whose comment begins "Variant" are plausible slips in the code
(a dropped guard, a missing reset). `PROJECT.json` lists under `mutants` which
property notices which slip; no specification uses them.

**Decrypter.** `Submit` is the synchronous head of `decrypt()`: it chains the
call behind `#decryptTail`. `Start` runs once the previous turn is released:
parse, `#checkCounter`, copy of the lease, then the signing gate. A signed frame
awaits the verification (`FinishVerify`); then the key is looked up and the AEAD
awaited. `FinishOpen` ends the call: on failure nothing but the turn changes, on
success it writes the lease copy back, records the counter *in the mode of the
moment*, and releases. An unencrypted frame takes the same two steps, because
`decryptFrame` is awaited in any case. The history variables `delivered`,
`rewinds`, `checkScope`, `commitScope` and `settledAtReset` serve the properties
only. `QuiescentControl` chooses whether the player acts at any moment
(FALSE: what the API allows) or only while no call is queued or running (TRUE).
The distinction matters: a `resetLease()` made while a call is in flight is
overwritten when that call commits its copy of the lease, and a `beginRewind()`
in flight makes the call commit into the new rewind although it was checked
against the old one. So the refinement of the atomic `Receiver` holds for the
former discipline only, while the replay, lease and serialization properties are
stated, and hold, for any.

**Encrypter.** `Begin`, `RefuseNoKey` and `RefuseExhausted` are what `encrypt()`
does before its first await; `FinishSeal` and `FinishSign` are the answers of the
AEAD and of Ed25519. `SetKey` may come between any two.

**WireFormat.** The models keep the *order* of the checks, since the first that
fails decides the error. Cryptography in `WirePath` is what it promises: a
signature verifies and an AEAD opens exactly when the decoder cut out the
sections the encoder put in. Rust arithmetic is modulo `UsizeModulus`.

**ChatCli.** One action per branch of the code: `SendMessage` is the whole of
`send_message`, and `SendExhausted` keeps its partial effect (the crypto counter
may advance before the group counter is found exhausted). The subscriber's `main`
is a process of its own: `Announce` takes an update in the `select!` (late ones too,
and not all), and while the subscribe it makes is awaited the loop listens to
nothing, `reconnect.closed()` included. `Subscribed` spawns the task;
`SubscribeFails` stands for the two `?` at 350 to 353 and `ReconnectCloses` for the
return at 334 to 336: both end the process and abort its tasks. The relay is
external: a task receives the groups of one run in order, may miss some, and may
get damaged ones.

**Binding.** `Receive(i, j, k)` puts the header of frame `i` with one field
changed over the body of `j` and the signature of `k`; a decoder that cuts the
sections elsewhere gets parts that match nothing. The senders have different key
ids and, in the run, the same AEAD key, so that only nonce and associated data
keep them apart. `nextCtr` is the counter each sender uses next; a field of the
header is encoded modulo its width.

**Buffers.** `encryptFrame` copies text and key before its first await;
`#decryptTail` however makes `decrypt` read the received bytes when its turn
comes, not when it is called, so the model copies them in `Parse`. What is
claimed is that what is opened is what was verified.

**Streams.** A pull is one `iterator.next()`; its answer (`NextChunk`,
`NextDone`, `NextFails`) meets the stream in whatever state cancellation has left
it. `Stop` is `return()` on the reading generator, `ReturnSource` the
`iterator.return()` that a busy generator defers.

**MoqChatPublisher, MoqChatSubscription.** One action for the head of each method
up to its await and one for each outcome of the await. `close()` may come
between any two. The publisher's application waits for `connect()` before it
calls it again, so calls overlap in the subscription only; there `overlapped`
records it, since then `close()` closes the last connection only.

**BrowserChat.** The page keeps one publisher while the identity changes under it;
the frame of a send is sealed with the keys the publisher's codec copied. The
codec passes an extra first argument to the one-argument `encrypt` and `decrypt`:
the frame seals an empty text, and `decrypt` throws on every frame (section 7).

## 3. The runs

| Run | Question | Properties |
|---|---|---|
| `decrypter_serial` | three calls in flight over intact, damaged, unencrypted and foreign-key frames with key rotation, control calls on an empty queue: is the decrypter the atomic receiver? | `ReceiverSpec` (refinement), `TypeOK` |
| `decrypter_interleaved` | four calls and control calls between any two steps: what is still guaranteed? | `Serialized`, `NoReplay`, `CountersAgree`, `LeaseBounded`, `LeaseEarned` |
| `decrypter_live` | does every queued call settle behind frames that fail at each check? | `AllSettle` |
| `encrypter_concurrent` | five calls to the end of the counter space, key missing, loaded, replaced | `NonceUnique`, `ScheduleByCounter`, `KeyCut`, `TypeOK` |
| `media_path` | with loss, repeats and reordering, why may an intact frame be refused? | `LeaseSuffices`, `LosslessDelivers`, `InOrderOfCalls` |
| `wire_path` | do both libraries agree on every frame of every shape, whole or cut, and on boundary byte strings? | `DecodersAgree`, `SectionsTile`, `RoundTrip`, `CutDetected` |
| `chat_restart` | two runs of the publisher with generated keys, a full channel, counters that run out, interrupts, a damaged frame; a subscriber whose announcements come late and whose subscribes may be refused | `NonceUnique`, `LinesAccounted`, `InputEndsRun`, `SubscriberReturns`, `TypeOK` |
| `library_parts` | what do tag and signature bind? what does a call seal when its caller reuses arrays? what does a stream lose when its source fails or its consumer stops? do three programs read a key text alike? | `AcceptedWasSent`, `IntactAccepted`; `SealsWhatItWasGiven`, `OpensWhatItVerified`; `NothingLost`, `EndsAsSource`, `SourceReleased`, `ReadSettles`; `ProgramsAgree` |
| `browser_chat` | identities, publishers, sends, connects and closes of the browser chat between any two awaits | `OneIdentityPerTrack`; `ConnectionsReleased`, `OneGroup`, `NoWriteAfterShut`; `ShownOnce`, `AllShown`, `ClosesDown` |
| `chat_persistent_keys`, `chat_bad_frame`, `browser_chat_shown` | disagreements between code and documents | section 7 |

`library_parts` and `browser_chat` put modules that share no state side by side:
the initial state chooses one, and only that one moves. They are unions of state
spaces, not products. `MCLibraryParts` extends `Streams` and `MCBrowserChat` extends
`MoqChatSubscription`, the modules with liveness, and they restate its fairness for
the behaviours in which it moves; the other modules are instances.

The signing schedule without encryption is not a run of its own: the theorem
`ScheduleKept` covers `Encrypted = FALSE` as well. That a delivered counter is
above the window it was checked against is not a property of its own either:
`CountersAgree` and `NoReplay` say more.

`CHECK_DEADLOCK FALSE` stands in `media_path`, the chat runs, `library_parts` and
the browser runs: there the system really stops, when every frame that will be
handed over was, when the publisher has exited for the last time, when the stream
is over and every call has settled. `Encrypter` and `WirePath` have an explicit
`Done` step instead, and in `Decrypter` the player can always act.

## 4. Bounds, and why they are enough

Every property of the passing runs but `AllSettle` and `InputEndsRun` is also a
theorem (section 6), which holds for every value of these bounds; for those the
runs are a second look, and the check that the models do move. For the two, and
for the runs that show a violation, the following is what there is.

- `MaxCalls` 3 or 4 decrypts: the chain links neighbours only, so that three
  calls show a running, a waiting and a submitted one; four with `nSigned = 2`
  give two whole signing intervals.
- `MaxRewinds` 2: live, rewind, rewind again, live again. Only the cursor of the
  current rewind is kept, so that a third adds nothing.
- Frames: one per outcome the code distinguishes (each check fails for some
  frame), at two positions of each signing interval, under two key ids.
- `MaxU64` 6 or 7 (2^64 - 1 in the code): counters run from `InitialCtr` to the
  end and past it; only the distance to the end matters.
- `NSigned` 2 and 3: 0 and 1 grant no lease and are special cases of the guards
  (`wire_path` and the plain frame of `MCDecrypter` use 0).
- `MaxPad` 3, `MaxText` 2 in `wire_path`: lengths enter through sums and
  comparisons only, and the boundary strings lie on both sides of every length
  compared with. `UsizeModulus` exceeds every sum, as 2^64 does.
- `QueueCap` 2 (100 in the code) with four lines: the channel fills and drains.
  `MaxRuns` 2: counters of one run against those of the next, and a subscribe of
  one run that is still awaited, or whose task failed, when the next is announced.
  `MaxDamages` 1.
- `Binding`: two senders of one AEAD key, `MaxFrames` 4, so that header, body and
  signature come from three frames, two of them of one sender; `CtrModulus` 5
  (2^64 in the code) leaves one counter no frame has.
- `Buffers`: `MaxCalls` 2 (one call runs while another copies), `MaxWrites` 3
  contents of an array: at the call, during it, and after.
- `Streams`: `MaxChunks` 8; the stream holds one chunk, so that two already show
  a pending pull behind a full queue.
- `KeyStores`: `Lengths` {22, 32, 41 to 44, 63 to 65}: both sides of the 32 bytes
  in Base64 (43 digits) and hexadecimal (64), one that is 16 bytes in Base64 (22)
  or in hexadecimal (32), and one of each remainder of 4. Key ids 255 and 256,
  the last that exists and the first that does not.
- Browser chat: two connects, three sends, two identities, two publishers: an
  operation, one that overlaps it, and one after both. `SmallTrack` has a message
  repeated within and across groups and a bad frame before good ones.

## 5. Fairness

`Decrypter!FairSpec` has weak fairness on the next step of each call: the event
loop runs every continuation whose promise is settled, and WebCrypto and noble
settle every promise they return. No fairness is assumed of submissions or of
the player. `ChatCli!FairSpec` has weak fairness on the sender loop (tokio polls
a task that can make progress), on the answer to a subscribe, success or failure
(`moq-net` gives one, and fails it when the session is lost), and on the
announcement of a run that stays online to a loop that listens (the relay's
contract). Nothing is assumed of the user, who need not type or end the input, nor
of delivery of any group, of late announcements, or of which answer a subscribe gets. `Streams!FairSpec` has weak
fairness on the pull of a stream that wants a chunk, on the answer of the source,
on its `return()` and on the end of the reading generator: the runtime runs what
is ready, and the source answers what it was asked (one that never does leaves
its reader waiting, as it must). `MoqChatSubscription!FairSpec` says that a
connection attempt settles and that reads and decryptions are answered; nothing is
assumed of the calls of `connect()` and `close()`. All other runs check safety
under `Spec`.

## 6. Proofs

`tlapm` proves, for every value of the constants the assumptions allow:

| Module | Theorem | States |
|---|---|---|
| `DecrypterProofs` | `TypeCorrect` | `TypeOK`: among others the lease stays in `Nat`, that is `lease - 1` is never taken of 0 |
| | `CallsSerialized` | `Serialized` |
| | `NoReplays` | `NoReplay`, with control calls at any moment |
| | `SomeCallProceeds` | as long as a call is pending, some call has its turn: the promise chain has no deadlock |
| | `HeadSettles` | under `ProceedFair(c)`, the call at the head of the chain settles: one step of `AllSettle` |
| `DecrypterReceiverProofs` | `CountersExact` | `CountersAgree` |
| | `LeaseNeverOverspent` | `LeaseBounded` |
| | `LeaseAlwaysEarned` | `LeaseEarned` |
| | `ImplementsReceiverBetween` | `Spec /\ [][BetweenCommits]_vars => ReceiverSpec`: the decrypter implements the atomic receiver when mode and lease change between two frames, keys while no frame under their id is being opened |
| | `ImplementsReceiver` | its corollary: under `QuiescentControl`, `Spec => ReceiverSpec` |
| `EncrypterProofs` | `TypeCorrect`, `NoncesUnique`, `ScheduleKept`, `KeysCut` | the four invariants of `Encrypter` |
| `MediaPathProofs` | `EndsImplemented` | the path's two ends are an `Encrypter` and a `Decrypter` |
| | `LeaseAlwaysSuffices`, `LosslessPathDelivers` | `LeaseSuffices`, `LosslessDelivers` |
| | `PlaysInOrderOfCalls` | `InOrderOfCalls`: what is delivered are frames of different `encrypt()` calls in the order of the calls |
| `WirePathProofs` | `SectionsAlwaysTile` | `SectionsTile` |
| | `SameVerdict`, `WholeFramesRoundTrip`, `CutsAreDetected` | under `UsizeHoldsPad`, `DecodersAgree`, `RoundTrip` and `CutDetected` |
| | `SameVerdictWhatFits` | `DecodersAgree` for any width of `usize`, of bytes whose length it holds |
| `ChatCliProofs` | `ChatTypeCorrect`, `LinesNeverLost` | `TypeOK`, `LinesAccounted` |
| | `NoncesUnique` | `NonceUnique` while keys are generated for each run, or in a first run |
| | `EveryRunSubscribed` | under `AnswerFair` and `AnnounceFair`, `SubscriberReturns` |
| | `ChannelDrains` | under `PublisherFair`, a publisher whose input has ended takes the next line or exits: one step of `InputEndsRun` |
| `LibraryPartsProofs` | `NoChunkLost`, `EndsAgree` | `NothingLost`, `EndsAsSource` of `Streams`, for sources of any length |
| | `StoppedSourceReleased`, `ReadAlwaysSettles` | `SourceReleased`, `ReadSettles`, under the fairness they name |
| | `SameKeys` | `ProgramsAgree` of `KeyStores`, for texts of any length |
| | `SealsItsCall`, `OpensTheVerified` | `SealsWhatItWasGiven`, `OpensWhatItVerified` of `Buffers` |
| | `OnlySentAccepted`, `IntactAlwaysAccepted` | `AcceptedWasSent`, `IntactAccepted` of `Binding`, for any senders, keys and number of frames |
| | `PartsImplemented` | a behaviour of `MCLibraryParts` is one of each of its parts |
| `BrowserChatProofs` | `AllConnectionsReleased`, `FramesShareGroup`, `ShutGroupsStay` | `ConnectionsReleased`, `OneGroup`, `NoWriteAfterShut` of `MoqChatPublisher` |
| | `MessagesShownOnce`, `NoMessagePassedOver` | `ShownOnce`, `AllShown` of `MoqChatSubscription`, for any number of loops and any track (the second under `TrackAssumption`) |
| | `ClosedComesToRest` | under `SettleFair` and `ReadFair`, `ClosesDown` |
| | `TracksKeepTheirKeys` | `OneIdentityPerTrack` of `BrowserChat` |
| | `PartsImplemented` | a behaviour of `MCBrowserChat` is one of each of its parts |

What is assumed of the constants:

- `FramesAssumption`: a frame that parses with `nSigned = 0` has `sigFlag = 0`, which
  `header.validate` enforces. `DecrypterAssumption`, `EncrypterAssumption`,
  `ChatAssumption`: the range checks of the constructors, and bounds in `Nat`.
- `MediaPathAssumption`: the encrypter's ranges, and a stream that is signed
  (`NSigned` from 1 to 255; of one that is not, no lease is ever asked).
- `WireAssumption`, `PathAssumption`: the types of the parameters. `UsizeHoldsPad`, a
  hypothesis: `usize` holds the pad length field and the largest pad length. It is
  true of 64-bit builds; on 32-bit ones the Rust encoder wraps where the TypeScript
  library does not (section 7).
- `PartsAssumption`: lengths of key texts are natural; key ids are bytes; and
  `MaxFrames < CtrModulus`, that no sender counts past its counter field, which
  `Encrypter` shows of the code (its counter ends at `MaxU64` with an error).
- `BetweenCommits` and `QuiescentControl`, hypotheses of the refinement only: section
  2, Decrypter.
- `PersistentKeys` of `NoncesUnique`: the hypothesis that restarts with stored keys
  break, as the run `chat_persistent_keys` shows.
- `TrackAssumption`: a track is a sequence of sequences.
- Fairness, of the liveness theorems only. `WF_vars(A)` speaks of `ENABLED A`, which
  the provers cannot reason about. So a theorem writes weak fairness out, with the
  guard of the action in its place: `[]<>~Guard \/ []<><<A>>_vars`, for instance
  `AnswerFair`. Each is the weak fairness of section 5 of the action, or of
  the disjunction of several actions one of which can act whenever the guard holds,
  which asks less than fairness of each.
  `AnnounceFair(r)` is strong fairness, `<>[]~Guard \/ []<><<A>>_vars` (see *ChatCli*
  below).

The inductive invariants, and why each needs what it has:

*Decrypter.* `TypeOK` alone is not inductive: `LeaseAfter` subtracts one from a
call's copy of the lease, so `TypeInv` adds `GateOK`, that a running call with a
leased frame copied a positive lease, and `ArgOK`, that a call that left "idle"
has a frame. `QueueInv` adds `ChainOK`: the calls made are an initial segment
ending in `decryptTail`, each chained to its predecessor; `HasTurn` of a call
then means that all earlier ones have settled (`TurnMeansFirst`), which is
`Serialized`. `ReplayInv` adds how the counters and the history relate:
`ScopeOK` (live is scope 0, rewinds are numbered from 1), `Dominates` (the
window's counter is at least every counter delivered in its scope), `Admitted`
(a running call is above everything delivered in the scope it was checked in)
and `FirstInRewind` (if a rewind began while a call is running, nothing has been
delivered in that rewind, so that committing the call's counter loses nothing).

*Counters and leases.* `CounterInv` turns `Dominates` into an equality: `Witnessed`
keeps with each window that its counter was delivered itself. `LeaseInv` keeps a
budget (`LeaseSpent`): the lease that is left, or the copy a running call holds,
and the leased frames delivered since the last signed one add up to at most what
that frame granted. A commit moves one from the first to the second, a signed
commit begins a new stretch, and a reset only lowers the sum. `EarnInv` says where
a lease comes from after a reset made while nothing was running
(`LeaseFromSignature`): any lease, and any copy of one, is due to a signed frame
delivered since.

*Refinement.* `BetweenCommits` lets `beginLive`, `beginRewind` and `resetLease` come
while no call is being verified or opened, however many are queued, and a key be
set while no frame under its id is being opened. Then what a running call has read
is still so when it commits: `NotOvertaken` says this of the copy of the lease, the
counter check, the verdict on the signature and the key. So a commit is the
receiver's `Deliver` of the same frame (`CommitDelivers`), and every other step of
a call changes nothing the receiver has (`ReceiverStep`). Without the hypothesis the
lemma is false, for the two reasons given in section 2.

*The chain of promises.* `SomeCallProceeds`: of the pending calls the least has its
turn, since `ChainOK` makes its predecessor a call that is released. `HeadSettles`
is a chain of leads-to steps, one for each await of the call.

*Encrypter.* `Inv` = `TypeOK`, `CountsAgree` (`frameCount` is the distance of
`ctr` from `InitialCtr`), `InOrder` and `CallsInOrder` (calls are made, and
counters allotted, in the order of the calls), `KeysInOrder` (keys never go
back along the counters) and `ScheduleByCounter`.

*MediaPath.* The sender's half is the encrypter's invariant, from which
`LeftAreScheduled`: every frame on the path is the one the schedule has for its
counter. The receiver's half (`ReceiverInv`) adds to `QueueInv` that the frames
handed over are of that kind, that the call at work holds the current lease and a
counter above the newest delivered (`AtWork`), that the newest is the highest
delivered (`Window`), and `LeaseLeft`: once the signed frame of the newest counter's
interval is delivered, the lease covers what is left of the interval. Frames that
were lost leave their part of it unused, which is why loss within an interval
never costs a later frame. `SameSlot` is the arithmetic of intervals;
`FaithfulNotReplayed` and `FaithfulHasSigned` are the two ways `LosslessDelivers`
could fail, excluded. `Traced` keeps that every frame handed over, and every one
delivered, was returned by an `encrypt()` call; `InOrderOfCalls` then joins two
orders, that of the counters along the calls (`InOrder` of the sender) and that of
the deliveries along the counters (`StreamAdvances` of the receiver).

*WireFormat and WirePath.* Both parsers are lists of checks of which the first that
fails gives the error. `FirstFailureConcat` and its companions reduce such a list to
its parts; `ParsersAgree` then compares the lists, `SectionsAgree` the sections, and
`DecodersTwin` the removal of the padding, where the two libraries bound the pad
length by differently written sums. `Verdicts` keeps that a verdict is the outcome
of the bytes, and `Origin` that these are a prefix of the frame the encoder made,
section by section, of which `MadeCut` finds what a cut leaves. For a narrower `usize`
(`SameVerdictWhatFits`): where the parser's sum no longer fits, `checked_add` refuses
the frame, and TypeScript refuses it too, because the sum exceeds what any byte
string that fits can hold.

*ChatCli.* `GroupsOK`: the groups of a run carry its key and count from 0, and its
two counters are their number; `LinesOK`: what is published and what is in the
channel are the lines typed, in order. `FollowOK`: the loop is never ahead of the
publisher, and in its `select!` it has a task for the announcement it took last. A
run that is online and has no task is then in one of three phases (`Phases`): the
loop awaits an earlier subscribe, listens, or awaits the one of this run. `AnswerFair`
leads out of the first and the last; the first only leads back to listening, and from
there another late announcement may lead to it again, so that listening comes and
goes. `AnnounceFair` is therefore strong fairness. The weak one of `FairSpec` suffices,
as the run shows, because there are finitely many earlier announcements; to prove it
from that takes an induction over them. `ChannelDrains` is stated for every length of
the channel: once the input has ended nothing is put in, so that each step of the
publisher shortens it.

*Streams.* `QueueInv`: while a pull or a read is pending the queue is empty, so that
an error, which empties the queue, discards nothing. `EndInv` ties the end of the
reader to that of the stream and of the source. `OutInv`: the consumer has all
chunks, or all but the last, which is in the queue; it avoids reasoning about
concatenation in the steps. For the liveness, `WaitInv`: a stream that was stopped
and whose source is open waits in its finally block, so that either the pull that is
pending is answered or `ReturnSource` can be taken (`LeavesBusy`, `LeavesFree`); a
read goes through six such phases (`ReadCases`), in one direction.

*KeyStores.* `LoadedAlike`: a text the Rust store takes is one of 43 Base64 or 64
hexadecimal digits, and the other two programs read it alike; `KeysInv` carries it
over loading and removal.

*Buffers.* `SealInv`: between two awaits a call of `encrypt()` holds copies that
are what it was given, and `stored` is the key the store was set to. `OpenInv`: what
a call of `decrypt()` holds while it verifies is what it opens.

*Binding.* `SentInv`: headers are those a sender makes, with the counter within its
field, so that decoding undoes encoding (`CodecExact`, by `ModTwice`) and different
headers encode differently. `DecryptedWasSent` is the heart: whatever header, body
and signature are put together, a box that opens names its header and its text,
and a signature its whole frame.

*MoqChatPublisher.* `ConnInv`: the open connection is the one `#connection`
names and the publisher is not closed; while a `connect()` awaits there is no
connection and no other `connect()`, so that the one that opens replaces none.
`GroupInv`: `#group` is an open group, every frame before `close()` is in it, and
after `close()` those frames are in one group, which is shut. `ShutGroupsStay` is
an action property: from `PubInv`, the only step that writes is `Write`, whose group
is open or new.

*MoqChatSubscription.* `ShownInv`: what was shown is in `#seen`; the look-up and
the entry are one step. `PassedInv`: `Behind(n)`, that the groups and frames loop
`n` has behind it are seen or were reset, but for the frame it is decrypting; it
holds of a loop while others move because `#seen` only grows (`BehindStays`).
`SoleInv`: of connects that do not overlap one at a time has work left, it awaits its
connection or its loop reads. So after `close()` the fairness of "some loop goes on"
is fairness of that loop: it decrypts the frame it has, its next read fails, and all
is at rest.

*BrowserChat.* `KeyInv`: a frame being sealed is under the identity its publisher was
made with, and that identity never changes, whichever the page has by then.

Only model-checked: `AllSettle` and `InputEndsRun`. `HeadSettles` and `ChannelDrains`
prove the step from one call to the next and from one line to the next; putting the
steps together is an induction over a constant under temporal operators, and the
library's induction theorems take the induction formula as a parameter, which the
provers cannot instantiate. `ENABLED` is out of their reach as well: that the guards
written in the fairness of the liveness theorems are those under which the actions can
be taken is seen by reading the actions. The three violations of section 7 are runs
only. No recursive definition occurs in a module with a theorem, since induction over
data is out of reach too: lists of checks have a first failure by the well-foundedness
of the naturals, and sequences are compared index by index.

## 7. Disagreements found

1. `chat_persistent_keys`: with `--key-id` and `--aead-key` given, which the
   CLI's README documents as persistent keys, a restarted publisher counts from
   0 again and seals different text under the same nonce.
   `specification/README.md:128` forbids it.
2. `chat_bad_frame`: one frame that does not verify ends the `ChatSubscriber`
   task (`session.rs:190`, `?`); the specification (326, 459) drops the frame.
3. `browser_chat_shown`: `SecureChatCodec` calls `encrypt(0, plaintext)` and
   `decrypt(0, ciphertext)` (`secure-chat.ts:30, 41`), but both methods take the
   payload as their only argument. `Frame.parse(0)` throws, the read loop logs it,
   and no message is ever shown; the chat's README (87 to 93) says incoming frames
   are displayed. (`tsc` refuses the extra argument; `npm run dev`, which its README
   gives, runs `vite`, which does not check types.)

Met while modelling, and not shown by a run:

- No library looks at the padding bytes (`wire.rs:390`, `padding.ts:53`), which the
  specification (402) says a receiver SHOULD verify.
- `PAD_LEN_FIELD_LEN + pad_len` is unchecked in `usize` (`wire.rs:443`): in a
  release build for a 32-bit target the largest pad lengths wrap in the encoder, and
  the Rust crate and the TypeScript library then make different frames. The runs are
  about 64-bit builds; that the decoders agree on whatever arrives is proved for
  both (`SameVerdictWhatFits`).
- "Start publishing" twice with one identity makes two encrypters that count from
  0 under one key (`app.ts:606`, `secure-factory.ts:75`), the slip of item 1 again.
- In `streams.ts:24` `releaseLock()` does not run when `cancel()` rejects on an
  errored stream; the stream stays locked, and is of no further use.

- The CLI's README (106) says that a subscriber whose broadcast goes offline
  continues waiting for it to return. It does in its `select!`; but when the broadcast
  is gone between its announcement and the answer to subscribe, an error of the latter
  returns from `main` (`main.rs:350` to `353`), and the process ends with all its
  tasks. `ChatCli` has the step (`SubscribeFails`); when `moq-net` reports that error
  is outside the repository.

## 8. Not modelled

- **The ciphers and the curve** (`crypto.*` below its call of WebCrypto and noble):
  external; the models use their promises. `Binding` has what is put into them.
- **Several altered header fields at once**: `Binding` changes one field and
  exchanges body and signature; `WirePath` cuts frames short; `Decrypter` has
  frames that fail at each check, whatever the cause.
- **Errors' names** (`errors.ts`, `error.rs`): the outcomes of the models.
- **The page's HTML, fields and URL checks** (`app.ts` outside the operations named
  above), **`decodeChatMessage`** (no received frame reaches it, section 7),
  **command line parsing**, **test vectors**, **the basic example and the tests**: no
  state whose order could matter.
- **The transport and the relay** (`moq-net`, `@moq/net`): external, modelled by
  what the code may meet. When the tracks of a lost session end is not known here,
  so that `ChatCli` has at most one receiving task for each run of the publisher.
  A subscriber process that has ended is not started again: it keeps nothing.

## 9. Plan

Done: `Frames`, `Receiver`, `Decrypter`; `Encrypter`; `MediaPath`; `WireFormat` and
`WirePath`; `ChatCli`; `Binding`, `Buffers`, `Streams`, `KeyStores`; the browser
chat's publisher, subscription and page; a theorem for each property of the passing
runs but `AllSettle` and `InputEndsRun`, whose single steps are theorems.

What could come next, in the order of its worth:

1. `MediaPath` with a key change, from `KeysCut` on one side and the key store of
   the other.
2. Properties stated and proved of `Receiver` alone and carried to the decrypter
   by `ImplementsReceiver`.
3. Shorter proofs of `WirePath` and `MediaPath`, the two longest.
