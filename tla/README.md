# A TLA+ verification of GravitySend

GravitySend is a LocalSend-compatible file sharing application: a Flutter app
(`src/app`, `src/common`), a Rust core library (`src/core`, bound to the app by
`src/app/rust`) and a Rust signaling server (`src/server`). This directory
models the parts that carry its protocols, checks them with TLC on small
instances and proves what matters most with TLAPS.

`PROJECT.json` lists components, runs, mutants, hazards, findings, theorems,
and for every definition the source lines it stands for.

## 1. Inventory

| part | state | operations | talks to |
|---|---|---|---|
| signaling server (`server/src/controller/ws_controller.rs`) | `tx_map` (rooms by IP group), connection and request counters, one bounded channel per peer | register, Join/Hello, update, relay of offers and answers, abort, Left, hourly reset | its clients, over websockets |
| signaling client (`core/src/webrtc/signaling.rs`, `signaling_provider.dart`, `core/src/main.rs`) | read, write and listener task, four bounded channels, `on_answer` callbacks, known peers | connect, listen, send, exchange of descriptions, apply a message | server, WebRTC transfer, nearby devices |
| WebRTC API for Dart (`app/rust/src/api/webrtc.rs`, its wire functions in `frb_generated.rs`) | the controllers Dart holds and their locks, eight channels per session, a buffer per file | listen streams, PIN, selection, decline, files and their results | Dart, the tasks of the core |
| WebRTC transfer (`core/src/webrtc/webrtc.rs`) | two tasks, the data channel, PIN counters, file at hand | nonce, token, PIN, file list, selection, chunks, answers, close | the other device, the application through channels |
| receive controller (`receive_controller.dart`) | one session, PIN attempts, running handlers, receive pages and the selection they share | prepare-upload, pages and decision, upload, cancel, close, restart | senders over HTTP, the user |
| send provider (`send_provider.dart`) | map of sessions, queue, upload tasks | start, send loop, retry, cancel, close, change of mode | receivers over HTTP, upload isolates, the user |
| web send (`send_controller.dart`) | sessions per browser, PIN attempts | request, decision, download | browsers |
| discovery, nearby devices | found devices, running scans | announce, answer, scan, register | other devices, isolates |
| isolates (`common/lib/src/isolate`) | connections to children, synchronised settings, running tasks | start, task, result, publish settings | providers |
| history, favorites, last devices, settings | lists in memory and in the preferences | read, change, write | everything above |
| HTTP server and clients of the core (`core/src/http`, `app/rust/src/api/http.rs`) | two listeners, two nonce caches on either side, calls, the stream of an upload | bind, serve, stop; nonce exchange, register, prepare-upload, upload, cancel, info, download | other devices, Dart |
| pages, translations, platform and generated code, purchases | presentation | | |

What is hard here:

* **Interleavings.** Dart handlers are atomic only between two awaits; every
  tokio task of the server runs concurrently with every other one. State that
  is read before an await and used after it is everywhere: the session of the
  receiver, which page decides for it, the history list, the copies of the
  peers' senders.
* **Loss and cancellation.** Either device may cancel, close a page, restart
  its server or disappear at any point; handlers of an old session outlive it.
* **Bounded channels and locks.** A full channel makes its sender wait, in one
  place for itself; an object of Dart is locked for as long as a stream of it
  is listened to; a nonce cache is locked while the other one is written.
* **Addresses.** An address may belong to another device at the next call;
  only the key of its certificate tells.
* **Order.** The WebRTC protocol has no message ids: both sides must agree at
  every point on what the next message is.

What makes each part correct: peers of a room find each other and nobody else,
limits hold and rooms are cleaned up (server); a session says what is on the
disk, does not block the device without having work, can be decided on, and its
files are not touched by the uploads of an older one (receiver); a session
leaves "sending", no loop uploads for a session that is gone, removed sessions
stay removed (sender); only accepted files are stored and only stored files are
reported (both together); both tasks stay in step, PINs come before any file
name, a file that ends is whole, both sides return (WebRTC); nothing is lost or
reordered between socket and application, and nobody waits for a message that
has passed (signaling client); what Dart says reaches the request, the decision
and the file it is about (API for Dart); the nonces of an exchange stay
together, and a device that was met is not confused with another one (HTTP of
the core). The `hazards` of `PROJECT.json` give the line where each of these
can go wrong and the property that would notice.

## 2. Modules and how they correspond to the code

Every module says in its header what is one step. An action models a whole
handler, or the part of it between two points where it waits.

* **`SignalingServer`** — `handle_socket` and its two tasks. The `handler`,
  `recv_task` and `send_task` variables are program counters; a block under the
  `tx_map` mutex is one action (`Register`, `Unregister`, `StoreUpdate`,
  `LookupTarget`); each awaited channel send is an action of its own
  (`SendJoin`, `SendHello`, `FanOut`, `SendLeft`, `SendError`) that waits while
  the channel is full. `AbortRecv` and `TaskEnded` are the branches of
  `select!`. `Apply` is what `signaling_provider.dart` does with a message and
  `RegisterDevice` what the reducer behind it does: the app keys its signaling
  devices by token (`TokenOf`), so that a peer that changes its token is shown
  twice until it leaves. `ClearRequestCounts` is the hourly job.
* **`ReceiveSession`** — `/prepare-upload`, `/upload` and `/cancel`, the
  receive pages, the user's decisions, the delayed `closeSession`, stopping the
  server. The handler of `/prepare-upload` stores its session (`OpenSession`),
  then awaits the window and, for a message, the history (`stored`, `noting`),
  where it may die (`PrepareThrows`), and only then pushes its page and waits
  for the decision. A page shows whatever session is there; its first frame
  overwrites the selection that all pages share; what is tapped on it goes into
  the stream of the session that is there (`Decide`), whose handler applies it
  to the session that is there by then (`Concluded`). What the user picks on
  `ReceiveOptionsPage` is the choice of `files` in `AcceptFiles`. An upload is
  in `saving` while the file is written and in `history` while
  `AddHistoryEntryAction` awaits; the entries of the history and the progress
  that is displayed are left out.
* **`SendSession`** — `startSession`, the loops of `_sendLoop` over a common
  queue, `sendFile`, retries, both cancellations, the PIN dialog, background
  sessions, `clearAllSessions`. Steps of the loops are microtasks and come
  before the next event (`Idle`).
* **`Delivery`** — the abstract promise: files are granted, then stored, then
  reported.
* **`Transfer`** — `SendSession` and `ReceiveSession` composed, with the HTTP
  requests between them that are delayed, cross each other or, in a `rough`
  world, break; in a rough world the sender's user may also give up before an
  answer has come. `ImplementsDelivery` is its refinement of `Delivery`:
  `stored` is what is on the receiver's disk, `reported` what the sender counts
  as sent.
* **`WebRtcTransfer`** — the tasks of `send_offer` and `accept_offer`, from the
  opened channel to the return of both functions. `s` and `r` are program
  counters; the channel is a sequence in each direction; `r_acked` and
  `s_acked` say how much of it survives a close (`wait_buffer_empty`). A PIN is
  right or wrong, a token is trusted or not, a file is a number of chunks. The
  sending application may close its channel before it has handed over every
  granted file. Branches for messages that the other function never sends at
  that point are left out, as the comments at the actions say: `accept_offer`
  never answers the list with Pair or InvalidSignature, and a sender that
  allows at least one try (every caller passes three) never begins with
  TooManyAttempts. A PIN that is asked for is not empty.
* **`SignalingClient`** — `connect` with its read and write task, the listener
  task of `start_listener`, `on_answer`, and the exchange of descriptions in
  `send_offer` and `accept_offer`. `reader`, `listener` and `writer` are
  program counters with the message at hand; every awaited send or receive is a
  step. The application is either the bridge, which reads all the time
  (`"stream"`), or `webrtc_test`, which runs a transfer before it reads on
  (`"inline"`). What the server sends is external; `SignalingServer` has it.
* **`Bridge`** — the objects Dart holds. A call of a wire function waits in
  `waiting` for the lock of the controller, shared or exclusive as
  `frb_generated.rs` has it (one definition per wire function), runs the method
  and keeps the lock until it returns, which for a listen stream is the end of
  the session. The forwarder of PIN requests and `buffer_receiver` are steps of
  their own. The core is what it does with its ends of the channels: `Exchange`
  may fail before or after the task is spawned, `Select` is `send_offer` trying
  the answer, which may be refused, and `Finished` is its end, where closing
  the connection may fail after the status has been sent. When `done_rx` wins,
  `select!` detaches the task, which goes on telling. The peer may ask for a
  PIN (`PinRequired` .. `Verdict`: `handle_pin`), this side may ask the peer
  for one (`VerifyPin`, `Verified`: `verify_pin`, which tells PinRequired,
  too), and the task tells an Error of its own before it returns one
  (`TaskFails`, `ListNotSent`); the send at `webrtc.rs:495` is never awaited,
  so that nothing is told there.
* **`HttpCore`** — server and clients of the core. A call goes from `sent` to
  `accepted`, `answered` and `done`; who has the address is chosen when the
  connection is made. In `half` (server) and `storing` (client) the first nonce
  of an exchange is stored and its mutex is held. `v2_*` and `v3_*` are the
  methods of the two clients, each with its checks in the order of the code:
  the certificate, the status, the parsing. A nonce is named by the call that
  made it; `Put` is the `put` of the LRU map (`Detach` the old entry, then
  evict the oldest one if the map is full). `Serve`, `Fail` and `Stop` are the
  branches of `start_with_port`; handlers outlive the listener, as detached
  tasks do.
* **`MC*`** — instances for TLC: groups, requests and files as functions on
  model values, and symmetry sets.
* **`SignalingServerProofs`, `ReceiveSessionProofs`, `SendSessionProofs`,
  `TransferProofs`, `WebRtcTransferProofs`, `HttpCoreProofs`,
  `SignalingClientProofs`, `BridgeProofs`** — the theorems about the module
  each is named for, with their inductive invariants (section 5).

## 3. Runs

Deadlock checking is off in all runs because every one of these systems may
stop: a transfer ends, clients stay silent, no further request comes.

| run | checks | shows |
|---|---|---|
| `signaling_room` | `TypeOK`, `LimitsHold`, `TxMapFollowsHandlers`, `NoMissedPeer` | three clients, room for two, join and leave in every order |
| `signaling_updates` | `LaterPeersTracked`, `GroupIsolation` | updates and offers in and across two groups; a token that changes and comes back; channels of one slot, so that every send may wait |
| `signaling_waits` | `HelloUnlessFilled`, `ClosedPeersLeave` | handlers and tasks that wait for full channels, also for one that nobody will ever drain |
| `signaling_hello_stuck` | `HelloArrives` violated | see findings |
| `receive_sessions` | `TypeOK`, `FinishedWasSaved`, `ActiveSessionHasWork`, `AnsweredOkIsStored`, `DecisionHasHandler`, `StaleUploadsHarmless` | three requests, one a text message, whose handlers may die on the way to their page; pages that decide for another session; two concurrent uploads that succeed, fail, repeat a file or outlive their session; quick save, PIN, a restart |
| `receive_busy` | `SessionNotReplaced` violated | see findings |
| `send_session` | `TypeOK`, `NoOrphanUpload`, `FinishedWithoutRetry`, `RemovedStaysRemoved`, `SendingEnds` | three files, two loops, two retries, every cancellation |
| `webrtc_session` | `TypeOK`, `InStep`, `PinsComeFirst`, `EndedFilesAreWhole`, `LastFileAwaited`, `SessionEnds` | two files of two chunks, any selection, PINs on either side, distrust, failing application, broken connection |
| `transfer` | `ImplementsDelivery`, `ReceiverReleased` | two files, a loop and a retry at once; with losses everywhere, delivery; in a calm world, no receiver is left in "sending" by a sender that is done |
| `signaling_client` | `InOrder`, `AnsweredOfferGoesOn`, `GreetedReturns`, `ClosedEnds` | messages before the Hello, answers before their handler, full channels, closed socket, write that times out, for both applications |
| `bridge_sessions` | `FinishedIsLast`, `PinRequestKept`, `ResultsMatchFiles`, `BytesInOrder`, `SenderIsDeaf` | the calls of Dart in every order against the core and the peer: two listeners, two PINs, both decisions, results and bytes of files, everything a sender may call |
| `http_core` | `Paired`, `SequentialAgree`, `SameDevice`, `Ipv4KeepsServing` | two calls of two clients behind one address, v2 and v3, with and without TLS, an address that changes its device, connections that break anywhere, listeners that fail |

Every property of a passing run has a mutant of a mapped definition that
breaks it.

**Bounds.** Three clients are the smallest number with a newcomer, a peer that
is there and one that leaves meanwhile, and with a full room; a capacity of 1
or 2 makes sends wait, while the real 4 is used in `signaling_hello_stuck`. In
`signaling_waits` one slot lets a single Join fill the channel of a new client,
on which the others then wait, and three counted requests (two registrations
and an Update, or three registrations) are the fewest with which a client
leaves while its receive task waits for a channel, be it one that is drained
later or one that never is. In `receive_sessions` the first session has two
files, the second has one, so that of two uploads one may overtake the other
within its session, or outlive it into the next; a third request may replace
the session for which a decision is in the stream. Three files on two loops let
one loop end while the other works, with one file queued. Two chunks tell order
and prefixes apart, two files the end of one from the beginning of the next,
two PIN attempts the last from an earlier one. In `transfer` a loop and a retry
are the two uploads that run at once. In `signaling_client` two early messages
are one more than the channel holds, and two later ones fill the pipeline of
one-slot channels. A session of `bridge_sessions` follows one of six plans,
each a set of methods that race; three chunks with a buffer of two make it
flush both when it is full and at the end. In `http_core` two calls are enough
for two exchanges to interleave or for a register and a later call with the key
it returned; caches of one entry evict at once; `Mix` says which operations run
side by side.

Named bounds of the models (not of the code): `Requests`, `Leavers`,
`MaxHours`, `MaxRestarts`, `Retry`, `ModeSwitch`, `Rough`, `MaxEarly`,
`MaxMessages`, `Plans`, `Repeats`, `Chunks`, `Mix`, `MaxChunks`. The code's own
limits (`MAX_CONNECTIONS`, `MAX_REQUESTS`, `ChannelCapacity`, `MAX_ATTEMPTS`,
`MaxTries`, `ReceiveCapacity`, `ListenerCapacity`, `BinaryCapacity`,
`BufferSize`, `Capacity`) are constants that are set low so that they are
reached.

**Fairness.** Only of what the schedulers guarantee. Tokio tasks and Dart's
event loop go on when they can, an upload that was started ends, the client of
an open socket reads it, and in `WebRtcTransfer` the applications answer a
question they are asked (or drop it, which the code handles): weak fairness.
The handlers and receive tasks of the signaling server have strong fairness,
because they wait for a slot of a channel that others fill again, and tokio
serves the waiting senders of a channel in order; it is assumed in
`signaling_waits` and `signaling_hello_stuck` alike. In `SignalingClient` every
spawned task and every running `send_offer` and `accept_offer` goes on when it
can; the server, the peers and the end of a transfer are not fair. In
`Transfer` the sending loop and the network together are weakly fair: as long
as one of them can go on, something does; users are not. Clients that connect,
users, network failures and restarts are never fair.

**Properties with exceptions.** Some properties name an exception the code
really has:

* `LaterPeersTracked`: an Update still queued behind the Left when a receive
  task is aborted. Nor does it say that the old entry of a peer that has
  changed its token goes away: it does so only with the peer.
* `HelloUnlessFilled`, `ClosedPeersLeave`: a client that has, or waits for, a
  channel that was full before its Hello. Nobody will drain that channel, and
  who waits for it is not even removed when its own socket closes.
* `ActiveSessionHasWork`: a session that was accepted on the page of another
  request, with a selection that has none of its files. All its files are then
  skipped, no token is given out, and it stays in "sending" until its user
  cancels.
* `DecisionHasHandler`: a handler that died between storing its session and
  opening its page.
* `FinishedWithoutRetry`: a file being retried when the loops end;
  `NoOrphanUpload`: `clearAllSessions`, which tells nobody, and the uploads of
  retries, which may go on when a background session ends.
* `InStep`: a receiver that is sent no file, because nothing was selected or
  the application closed its channel at once; the delimiter is then parsed as a
  header.
* `SessionEnds`: a function that returned an error, because it does not close
  its connection. `LastFileAwaited`: more than one sent file, because the
  sender's last read then takes the answer to an earlier file and closes the
  connection while the end of the last one may be on its way.
* `GreetedReturns`: more messages before the Hello than the channel holds, with
  which `connect` waits for ever; `AnsweredOfferGoesOn`: an answer that comes
  before its handler, and an application that does not read behind a full
  channel.
* `Paired`: a handler that is dropped with its connection between the two
  caches (possible only if tokio suspends it at the second mutex);
  `SequentialAgree`: exchanges of one client that overlap, fail or are made
  without TLS; `SameDevice`: a call without the key of `register`, as the app
  makes it (`send_provider.dart:156` passes null); `Ipv4KeepsServing`: the end
  of the IPv4 listener itself.
* `FinishedIsLast`: of a session that its peer closed it says only that
  Finished is told once, because the detached task may go on telling; in the
  others the Error of closing the connection follows Finished, and a second
  Error or a late SdpExchanged the Error of the task.
* `ReceiverReleased`: a rough world.

`FinishedWasSaved` and `AnsweredOkIsStored` rest on file ids that two requests
never share; that is the sender's choice of ids, no check of the receiver.

## 4. Findings

* `signaling_hello_stuck` — other peers' messages can fill a new peer's
  channel before the task that drains it exists; the handler then waits for
  itself.
* `receive_busy` — two `/prepare-upload` requests that pass the check for a
  session before either has stored its own: the second replaces the first.

Met while modelling, and no contradiction to what the repository says of
itself:

* Two files that finish together both read the history before either writes
  it: one entry is lost (`receive_history_provider.dart:67`; the entries are
  not in the model).
* A peer of the signaling server that changes its token is shown twice by the
  app, which looks for the entry to replace under the new token only
  (`nearby_devices_provider.dart:110`).
* After one request has replaced the session of another, the page of the first
  decides for the second: accepting there may skip every file of the session,
  which stays in "sending" with nothing to wait for (`receive_page.dart:87`,
  `receive_controller.dart:749`).
* A handler of `/prepare-upload` that fails between storing its session and
  opening its page leaves a session nobody can decide on; every sender is
  answered 409 until the server is stopped or a page of another session closes
  it (`receive_controller.dart:277`, `:284`).
* The delayed close of quick save closes whatever session is there after two
  seconds, also a newer one (`receive_controller.dart:611`).
* A sender that cancels before `/prepare-upload` is answered has no session id
  and sends no cancel (`send_provider.dart:517`); if the receiver's user then
  accepts, the receiver waits for files that never come. `ReceiverReleased` is
  about a calm world for this reason.
* When the connection goes down while the WebRTC task waits to ask for a PIN,
  Finished is told and PinRequired follows it on the same channel: `select!`
  only detaches the task (`webrtc.rs:1027`).
* A sender in Dart that listens to its status stream can neither enter a PIN
  nor hand over a second file (`SenderIsDeaf`): the stream is `&mut self`.
* The legacy routes of the core's server answer 400 to the bodies of the
  core's own v2 client.

## 5. Proofs

Every invariant and every action property of the passing runs is proved by
TLAPS, for every value of the constants, and so is the refinement of
`Delivery`. The form is always the same: an inductive invariant (`Init`
implies it, every step keeps it, with one lemma per action or group of
actions), from which the property follows. Each one was checked by TLC as an
invariant of the component's run before it was proved. What has to be added to
the property to make it inductive, and why:

**`SignalingServerProofs`**

* `TypeCorrect`. `SendJoin` and `FanOut` take the head of a sequence, so
  `LoopsOK` is added: a running loop has a receiver left, a task at work has a
  request.
* `NoMissedPeerHolds`. `RoomInv` adds `RegisteredInv` (`tx_map` follows the
  handlers), `LeftInv` (a Left is queued only for a peer that has been
  removed: otherwise delivering it would make the client forget a registered
  peer) and `NotSpawned` (no send task before the Hello is queued: otherwise
  the Hello could be lost). The argument: registration is one locked step, so
  of two peers one registers later; it has the other in its snapshot, and the
  other is in the list it sends Join to; each of the two facts moves on to the
  channel and to the view of the client, and nothing takes it back while both
  are registered.
* `LaterPeersTrackedHolds`. `Learns` says what a client believes once its
  channel is drained: the last message about the peer decides. `TrackedInv`
  claims it in every state in which the peer's own tasks hold no more news for
  this client, offers that are being relayed included. `Shows` compares only
  what the app has under the token of the peer's present info, since nothing
  takes an older token back. It needs that a
  connection nobody knows of has an empty channel and is in nobody's list
  (`QuietInv`, `StartedInv`), that nothing of another group is queued or known
  (`IsolationInv`), and that an Update carries what is in `tx_map`, because
  the receive task runs only between the Hello and the end of `select!`
  (`PhaseInv`).
* `GroupIsolationHolds`. A message goes to senders that were collected earlier
  and a Hello brings a whole snapshot, so `IsolationInv` says the same of the
  collected senders (`TargetsOwn`), the snapshots, the channels and the views.
* `LimitsAlwaysHold`, from one lemma per limit: each limit is checked in the
  same locked block, or the same awaited send, that uses it up.
* `TxMapAlwaysFollows`, from `RegisteredInv` and `KeysInv` (a room exists
  while it has a peer and is empty only after a rejected connection).

**`ReceiveSessionProofs`** — `TypeCorrect`, `FinishedWasSavedHolds`,
`ActiveSessionAlwaysHasWork`, `AnsweredOkIsAlwaysStored`,
`DecisionAlwaysHasHandler` and `StaleUploadsAreHarmless`. `Safe` holds the
properties together with `SessionShape` (a session has the files its request
announced, tokens only for them, and as long as it takes a decision a handler
that is on its way or has died), `TokenShape` (a file with a token is not
skipped, uploads are of files with a token, or a foreign selection was
applied), `UploadShape` (an upload is of a request that was answered 200, and
has saved its file before it writes the history) and `SendingHasUpload`. They
are needed because a handler outlives its session: that it changes nothing of
the next one follows from the files it names, not from a check. `Asked` follows
the user: `PageShape` says that a page exists only once its handler has come to
its wait, and that the shared selection never has files of a request to come,
and only its own on the page of the session itself; `DecisionShape` says that a
decision in a stream was made on the page of an earlier request. Together they
show that the one exception of `ActiveSessionHasWork` is the only one.

**`SendSessionProofs`** — `TypeCorrect`, `NoOrphanUploadHolds`,
`FinishedWithoutRetryHolds`, `RemovedStaysRemovedHolds`. `Safe` describes the
queue (`QueueOnce`, `QueueNotStarted`, `GrantedWaits`), the upload tasks
(`TasksListed`, `TasksDistinct`, `SendingHasTask`, `RetryIsMarked`), the loops
(`ExitedIsDone`, `OverIsQuiet`) and the files (`NothingStarted`,
`GoneIsEmpty`, `FinishedWasSent`). The argument for `NoOrphanUpload`: every
running upload is in the `sendingTasks` that both cancellations go by, for any
number of loops and retries.

**`TransferProofs`** — `TransferImplementsDelivery`: the initial states of
`Transfer` map to those of `Delivery`, and every step maps to a step or a
stutter. `IInv` carries a file along: tokens are of granted files
(`TokensGranted`), an upload is of a granted file and answers 200 only when it
is on the disk (`UploadsGranted`), what is stored was granted, what is
reported is stored. `GrantedOnce` is what makes granting happen once although
requests cross each other.

**`WebRtcTransferProofs`** — `TypeCorrect`, `AlwaysInStep`,
`PinsAlwaysComeFirst`, `EndedFilesAlwaysWhole`, `LastFileAlwaysAwaited`.
Neither side knows where the other one is, so the invariant says it for them:
`Lockstep` gives for every point of the sender the points where the receiver
can be and `Short` what may be on its way; `PinsTold` what each message says
of the PINs; `FileOrder`, `Stream` and `StreamEnd` describe the headers,
chunks and the delimiter in the channel as one stream of which the receiver
has a prefix (`FilePrefixes`, `EndedWhole`, `HeadersFresh`), for any number of
files and chunks, and for an application that hands over all of the granted
files, some of them or none.

**`HttpCoreProofs`** — `TypeCorrect`, `PairedHolds`, `SequentialAgreeHolds`,
`SameDeviceHolds`, `Ipv4KeepsServingHolds`. `ServerPaired` and `ClientPaired`
extend `Paired` to the states in which somebody is between the two maps and
holds the mutex; `OneOpen`, `Stored` and `Agree` follow one exchange through
both, with the server at most one ahead; `KeysKnown`, `PinsKnown` and
`OkVerified` say from which device a key comes and that an Ok was verified
with it. It holds for caches of any size and any number of calls; besides the
run, TLC checked it on three exchanges with caches of two entries.

**`SignalingClientProofs`** — `InOrderHolds`. `Shape` says that nobody listens
and the application does nothing before `connect` returns; then every message
is in exactly one of socket, read task, two channels, listener task and
application, in this order, for channels of any capacity.

**`BridgeProofs`** — `FinishedIsLastHolds`, `PinRequestKeptHolds`,
`ResultsMatchFilesHolds`, `BytesInOrderHolds`, `SenderIsDeafHolds`, for any
set of files, plans, buffers and capacities. `CallsInv` says how the lock of a
controller is held (`Exclusive`, `Queued`); `StatusInv` what the core has told
at each of its points: no Finished before the function is done (`Unfinished`),
no Error before it has failed but the last word of its task (`OwnError`), and a
function that ends well while the connection is up has a task that did
(`WellEnded`); `PinShape` that a PIN request is in exactly one place;
`BytesInv` that stream, buffer and channel together are what Dart put in;
`ResultsInv` and `DeafInv` the same of results and of what a sender was given.

Assumptions: `ConstantsAssumption`, `RequestsAssumption`, `ReceiveAssumption`,
`SendAssumption`, `TransferAssumption`, `WebRtcAssumption`, `HttpAssumption`,
`ClientAssumption`, `BridgeAssumption`. They give the constants their types,
and where the code justifies it a little more: finite sets of connections and
files, capacities that are not zero (as tokio and the LRU map require), at
least one loop, files that do not belong to two requests, as their ids are
random. TLC evaluates all of them in the runs.

Only model-checked: liveness under fairness (`HelloUnlessFilled` and
`ClosedPeersLeave` in `signaling_waits`, `SendingEnds` in `send_session`,
`ReceiverReleased` in `transfer`, `SessionEnds` in
`webrtc_session`, `AnsweredOfferGoesOn`, `GreetedReturns` and `ClosedEnds` in
`signaling_client`), which is out of the prover's reach. No module declares a
RECURSIVE operator, and no property uses a fold.

## 6. Not modelled

Cryptography (a token verifies or does not, a certificate has a key), JSON,
base64 and the fields of the DTOs, byte contents, progress and speed display,
saving to the gallery, a PIN that is the empty text, the pairing branch of
`send_offer` (no `accept_offer` requests it), ICE and DTLS between the
exchanged descriptions and the open channel, the ping task of the signaling
client (it only keeps the socket alive), objects that Dart disposes of early,
the web pages of the core's server (never set), the HTTP client without a
certificate, pages, translations, platform code, purchases. The glue of
`frb_generated.rs` that encodes and decodes is generated; of it only the
locking of the wire functions is modelled, although the map names the whole
wire function. Of the receiver also left out: the entries of the history, and
how Flutter's router takes pages away (a page is gone when the code removes
it). Messages that do not parse are modelled only in `HttpCore`, where another
device may answer; elsewhere both ends are this program.

## 7. Plan

Done, with their theorems: the signaling server, both HTTP sides, their
composition and refinement, the WebRTC session, the signaling client, the API
of both for Dart, the HTTP server and clients of the core with the v3 nonces.

Next, in this order:

1. `WebSend` — sessions per browser, request dialog, PIN, downloads; shares
   the PIN check of `ReceiveSession`.
2. `NearbyDevices` and `Discovery` — scans, announcements and answers,
   registration around the update of a favorite.
3. `Isolates` — task ids, results, cancellation, synchronised settings.
4. `Persistence` — favorites, last devices and settings: read, await, write.

Every safety invariant and every action property that a run checks is proved,
and so is the refinement; each of the next modules is to come with the theorem
of its invariant in the proof module of its component. One more refinement is
worth stating: that `SignalingServer` implements a room without channels, in
which a client's view is what `LaterPeersTracked` says it becomes.
