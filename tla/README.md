# Mini Meet: a formal model

TLA+ models, model-checking runs and machine-checked proofs for the Mini Meet
repository: `apps/server` (Express and Socket.IO, all state in memory) and
`apps/web` (React, a WebRTC mesh). Paths below are relative to the repository.

## 1. Inventory

### Server (`apps/server/src`)

| Component | State it keeps | Operations | Correct when |
|---|---|---|---|
| Room lifecycle handlers (`socket/room-lifecycle-handlers.ts`) | one leave flag per socket; everything else is in the services | `room:join` (new, reconnect, replacement of a socket, token transfer), `room:leave`, `disconnect` | the services stay consistent with each other; nobody is stranded in a room; a socket hears only its own room |
| Socket session mapping (`services/socket-session-mapping.ts`) | socket to seat, participant to socket | bind, get, unbind | the two stores are inverse to each other |
| Anonymous auth registry (`services/anonymous-auth-registry.ts`) | browser token to seat, participant to token | bind, unbind, two lookups | a token holds a seat exactly while its participant is in the room |
| Reconnect lifecycle (`services/reconnect-lifecycle.ts`) | one timer per participant, at most `maxTimers` | schedule, cancel, expiry | a timer runs exactly for the participants that lost their connection |
| Room orchestration and room state (`services/room-orchestration.ts`, `domain/room-state.ts`) | rooms, their participants with role and connection state, media flags, policy, chat | join, reconnect, leave, mark reconnecting, finalize, sweep, media, policy, chat | one owner, the oldest; a room exists while it has members; nobody but the owner shares what the policy forbids |
| Participant session tokens (`services/participant-session-token.ts`) | none | issue, verify | a token names a participant that existed |
| Client session mapping (imported by `server.ts`, absent from the repository) | (room, client session) to participant | get, bind | as above |
| Policy and chat handlers (`socket/policy-handlers.ts`, `socket/chat-handlers.ts`) | none | media state, speaking state, policy, chat | act for the session's participant only |
| Socket traffic control (`socket/socket-traffic-control.ts`) | event times per kind, events in flight | enter, release | never above the limits, never stuck |
| Signaling relay and delivery (`socket/signaling-relay.ts`, `socket/local-signaling-delivery.ts`) | none | relay to a participant of the room | reaches the participant's current socket |
| Broadcaster, storage, configuration, metrics, HTTP, composition | Maps, counters, the sweep timer | plumbing | |

### Web client (`apps/web/src`)

| Component | State it keeps | Hard parts |
|---|---|---|
| `hooks/use-call-room.ts` | socket, participants, peers with a version each, queued ICE candidates, recovery timers, local tracks | late acks against timeouts, negotiation glare, recovery of replaced peers, replication of the room's events |
| `hooks/peer-stability.ts` | none (pure) | which tracks belong to the camera and which to the screen |
| `features/call/call-state.ts` | none (pure) | merging participants and messages |
| `App.tsx`, `components/`, other `features/` | the saved session of the tab; forms, layout, devices | a stored session that is resumed, failed or left; rendering and browser devices |

### How they interact

A client opens a new Socket.IO connection and sends one `room:join`, with the
token of its browser (`anonymousAuthToken`) and, when it comes back, a session
token or client session id. The handler consults the token registry, may give
up a seat in another room, joins or reconnects the participant, binds token and
socket, evicts the socket that spoke for the participant before, and clears its
removal timer. A lost connection marks the participant as reconnecting and sets
the timer, whose callback in `server.ts` removes it. Everything later (chat,
media, policy, signals) is authorised by the socket's session alone. Subscriptions
to a room's broadcasts are kept by Socket.IO, apart from the sessions.

### What is hard

Five stores are updated one after the other, by five handlers and a timer, and no
operation covers them all: which participant a socket speaks for, which socket it
is reached at, whether a timer is due, whether the browser may join again and
which broadcasts it hears must agree after any sequence of joins, reconnects,
replacements, transfers, losses and expiries. The late `disconnect` of a replaced
socket, the timer that is due when somebody comes back, the timer limit and the
token transfer are the places where they could part.

The browser adds its own: everything it does awaits something (devices, acks, the
operations of a peer connection), is overtaken by timers, by the other browser and by
the user, and reads its state as React last rendered it. `PROJECT.json` lists every
such hazard at its line, with the properties that cover it, or why none does.

## 2. Modules

| Module | Models |
|---|---|
| `Identifiers` | the keys of the stores and their absent values |
| `SocketSessions` | `socket-session-mapping.ts`: one operator per method, stores to stores |
| `AnonymousAuth` | `anonymous-auth-registry.ts`, likewise |
| `RoomStore` | membership in `room-state.ts` and `room-orchestration.ts`, likewise |
| `RoomLifecycle` | the handlers with the reconnect timers and Socket.IO: the state machine |
| `RoomRoster` | the abstract specification: what members of a room are promised |
| `RoomLifecycleRefinement` | the mapping from the first to the second |
| `RoomPolicy` | policy and media state in `room-orchestration.ts` and `room-state.ts`: operators on their stores |
| `RoomReplication` | `policy-handlers.ts`, the events of the lifecycle handlers, and the call state of the browsers that receive them: a second state machine over `RoomStore` |
| `RoomChat` | `chat-handlers.ts`, the list store of `in-memory.ts`, the messages of the room, and the pages that show them |
| `SocketTrafficControl` | `socket-traffic-control.ts`: operators on one gate |
| `SignalingRelay` | `signaling-relay.ts` and `local-signaling-delivery.ts`, one step per await, over the stores of `SocketSessions` and `RoomStore` and the gates of `SocketTrafficControl` |
| `PeerNegotiation` | offers and answers of two browsers: `negotiatePeerConnection` and `handleSignal` in `use-call-room.ts` |
| `RemoteMediaBuckets` | `peer-stability.ts` from its line 57 on, and what feeds it in `use-call-room.ts` |
| `ClientSession` | joining and leaving in `use-call-room.ts`, the saved session of `App.tsx` |
| `MC...` | symmetry sets for TLC, one module for each state machine |
| `RoomLifecycleProofs`, `RoomReplicationProofs`, `SignalingRelayProofs`, `RemoteMediaBucketsProofs`, `RoomChatProofs`, `ClientSessionProofs`, `PeerNegotiationProofs` | the theorems about the state machines |
| `StoreLemmas` | what the operators of `RoomStore` do to a directory and those of `SocketSessions` to the stores, for the proofs |

The services are pure operators on a record of their stores, so that a handler that
calls several of them is the composition of several operators, in the order of the
code. The state of `RoomLifecycle`:

| Variable | Code |
|---|---|
| `transport`, `joined` | Socket.IO: the state of a connection and the rooms it receives |
| `rooms` | the participants of every room, the owner and `reconnecting` flags, the rooms that exist |
| `mapping`, `auth` | the two stores of the session mapping, of the token registry |
| `timers` | the timer store, with the room the timer was scheduled for |
| `issued` | the room in which each participant id was created: what a session token or a client session id may claim, even after the participant is gone |

Actions: `Connect`; `Join` (new participant, reconnect, replacement);
`JoinWithTransfer` (`:116-144`, then the rest of the join); `Leave`;
`DisconnectByClient` (reason `client namespace disconnect`), `DisconnectIdle` (no
session), `ConnectionLost`, `ConnectionLostWithoutTimer` (timer limit);
`GraceExpired`; `Sweep`.

Abstractions, each with its reason:

- **One action is one whole handler.** The stores are in-memory Maps behind `async`
  functions: every `await` of a handler resolves in a microtask, and Node runs all
  microtasks before the next timer or network event. So handlers started by
  different events of the loop do not interleave. Two packets of one network read
  can be handled in one turn and do interleave at each `await`; that is modelled for
  signals only (`SignalingRelay`), which are the packets that come in bursts.
- **Participants are numbered in the order of their ids' creation.** `joinedAt`
  grows with it, and a tie of the clock is broken by the Map's insertion order.
  A random id is assumed not to repeat.
- **A claimed identity** is nothing, or any participant ever created, with its
  room. That covers a valid session token, a client session id, an expired or
  forged token (nothing) and a token of another browser.
- **A refused join changes nothing** and has no action; a malformed payload neither.
- Names, acks, message texts, media, policy and chat do not affect membership;
  acks, media and policy are the matter of `RoomReplication`, chat of `RoomChat`.
- `createClientSessionMapping` is imported by `server.ts` and handed to
  `registerSocketTransportHandlers`, which does not pass it on, and its file is not
  in the repository. It is modelled as the handlers use it: a store from (room,
  client session) to the participant last bound.

`OneJoinPerSocket` tells two kinds of clients apart. The web client opens a new
socket for every join (`use-call-room.ts`, `forceNew`), so a socket with a session
does not join again: the constant is TRUE. The server does not enforce it, and
with FALSE a socket may join as often as it likes.

### How the browsers see the room: `RoomReplication`

Every event carries snapshots the server took while handling a request, and every
browser folds them into its call state (`call-state.ts`). The state of the module is
the server's (`rooms`, `store`: policies and shared media, `seat`: the participant a
browser's socket speaks for, `born`: ids used), Socket.IO's (`link`, and the two FIFO
channels `inbox` and `asked` of each browser) and the browser's (`view`: participants,
policy and the id it believes to be its own; `rendered`: its own tile as last rendered,
which is what `callStateRef` still has of it).

Twice the browser writes its whole own participant back, built from `callStateRef`:
`sendMediaState` (`AskMedia`) with the new media flags, and
`updateParticipantConnectionState` (`MarkMyself`) with `reconnecting`. A role, a state or
a refusal that has arrived and is not rendered yet is then overwritten. `Render` and
`RenderSoonerOrLater` let the rendering happen at once or after any number of messages.

Actions: `Join` and `Rejoin` (the ack and `participant:joined` or `participant:updated`),
`Leave`, `ConnectionLost`, `ConnectionLostWithoutTimer`, `GraceExpired`
(`participant:left`), `AskMedia` (`sendMediaState` in the browser) and `UpdateMedia`
(its handler on the server), `UpdatePolicy`, `StillReconnecting` (the `connect` and
`connect_error` events and the acknowledgement timer on the way back), `GiveUp` (leaving
while offline), `Deliver` and `Render`.

It composes `RoomStore` with `RoomPolicy` and takes from `RoomLifecycle` what that
module establishes: a participant has one socket, a socket hears its own room, a
participant that lost its socket stays until its timer. Further abstractions:

- **One socket per browser, and no replacement.** A replaced socket gets
  `session:evicted`, which the web client does not handle, and is then closed.
- **A browser does not change rooms while it holds a seat**: the token transfer is
  a departure and a join, both of which are there.
- **Camera, microphone and stream ids** are no part of the snapshots here;
  `RemoteMediaBuckets` looks at them, and at what a policy does to the id of a screen
  share. Speaking state and pins are left out.
- **A loss is noticed by both sides at once.** What was under way in either direction
  is gone. Media updates a browser makes while it is offline are refused by the server
  (no session yet) and overwritten by the join's answer; they are left out.
- **Leaving is one step**, from `leaveRoom` to the answer or the 1.5 s timer. What the
  browser does with events in between is the matter of `ClientSession`.
- **`room:policy` is handled when it is sent**: a request that arrives after its
  sender ceased to be owner is refused without effect. `room:policy-enforced` is
  broadcast too, and no browser listens to it.

### The chat: `RoomChat`

One room over its whole life. `members`, `history` and `allowed` are the server's; `link`,
`typed` and `inbox` the connection of each browser; `page` what it shows. `spoken`,
`opened` and `since` are history variables that remember what the server forgets.

Actions: `Join` (a page is opened, also by a member that reloaded), `Rejoin` (the socket
reconnects), `Leave`, `Reload`, `LoseConnection`, `RemovalTimeout`, `Type`
(`sendChatMessage`), `ChatSend` (its handler), `SetPolicy`, `Receive`.

- A message is its number and its kind. Texts and names play no part.
- The gate is a refusal that may happen to any message; when it does is the matter of
  `SocketTrafficControl`.
- A handler is one step: nothing is read by one browser's handler that another's could
  change without a turn of the event loop in between, but for packets of one turn.
- What is typed while the socket is down is buffered by Socket.IO and sent *before* the
  join of the reconnect; the server has no session for the socket yet and drops it.

### Signals: `SocketTrafficControl` and `SignalingRelay`

A gate is a record `[inFlight, admitted, kept]`. `admitted` is a history of all admissions
and `kept` the subset whose timestamps the code still has. `SignalingRelay` gives every
socket a gate and every handler at work a job with a program counter: `session` (before
`getSocketSession`), `relay` (before `relaySignalInRoom`), `deliver` (before
`getParticipantEndpoint`), `busy` for a handler of another event. Between two steps the
membership changes with `Join`, `Rejoin`, `Leave`, `ConnectionLost` and `GraceExpired`,
reduced from `RoomLifecycle` to what signals look up. Time is `Tick`; a real clock that is
set back is excluded. Gates of `room:policy` and `chat:send` share the counter and are
`SendOther`. A handler's three reads of the room are one step: they are Map reads in
consecutive microtasks.

### Offers and answers: `PeerNegotiation`

Two browsers with one peer connection each. The connection is external and modelled as the
WebRTC specification describes it: `signaling`, an operations `chain` that runs one operation
at a time and checks the state when it starts, `negotiationneeded` fired once per stable
state, implicit rollback by a remote offer, rejection in the wrong state. From the code
come the order of the operations, `makingOffer`, `answerPending`
(`isSettingRemoteAnswerPending`), `Polite` and `ReadyForOffer`. Tracks are counted by
revisions: `tracks` is what a browser has, `current` what the other was told, `seen` what was
received.

Actions: `ChangeTracks` (`syncPeerTracks` after a click), `NegotiationNeeded`, `RestartIce`
(`recoverPeerConnection`), `TracksSynced` (the await before `createOffer` or before the
answer), the operations `CreateOffer`, `SetOffer`, `Rollback`, `SetRemoteOffer`, `SetAnswer`,
`SetRemoteAnswer`, and `HandleSignal`.

- An answer carries as many of the answerer's own tracks as the offer has room for: the
  model takes all or none of the new ones.
- ICE candidates, versions of connections and their replacement are left out: the
  connection is the same from beginning to end.
- The channel keeps the order and loses nothing (one Socket.IO connection each way).

### Camera or screen: `RemoteMediaBuckets`

One publisher, the server and one browser. The publisher has `on`, `share` and the tracks its
peer connection `carried`. The server has what the publisher is `allowed` to announce and what
it `stored` of it: a media state patches what is stored, under the policy (`Granted`), and a
new policy takes back what it forbids (`Enforced`). A forbidden screen loses its flag and its
stream id; an id the publisher does not send stays as it was. Announcements of what is stored travel
over `wire`, tracks by renegotiation, and no policy stops a track: the web client goes on sending a
screen share it may not announce. The browser
has `received` (the last announcement), `known` (the participant as last rendered, which is
what `ontrack` reads), `live` tracks and `buckets`. The algorithm is translated operator by
operator (`Prune`, `MoveToScreen`, `MoveToCamera`, `DropDuplicate`, `Reconcile`,
`ResolveBucket`, `Merge`), on stream ids.

- Two tracks of one kind in one stream do not occur, so the replacement of a track by
  another of its kind (`mergeIncomingRemoteTrack`) has no effect and is left out.
- A media state is handled when it is sent. A delay on its way to the server would show as a
  delay of the announcement, which the model has.
- `SetPolicy` is also the promotion of the publisher, whom as the owner no policy governs.
- `PeerRecreated` is a connection that was replaced at one end or both: the old tracks end
  without an event, and the streams stay where they are until they are pruned.

### One tab: `ClientSession`

`page` is a record of the hook's state and refs and of its pending timers and continuations;
`sockets` has one record per call of `joinRoom`, with what it carries in both directions;
`seat` is what the server keeps for a client session. `wanted` (the attempt the user last
asked for) and `late` (a continuation of another attempt showed the room) are history.

Actions: `SubmitForm`, `AutoRejoin`, `LeaveRoom`, `Reload` of the user; `Connect`, `Break`,
`GiveUp` of the socket; `Serve` and `RemoveMember` of the server; `JoinTimeout` and
`LeaveTimeout`; `JoinAcknowledged`, `JoinRefused`, `DevicesListed`, `MediaStateNoted`,
`LeaveAcknowledged` in the order of the awaits.

- A timer that is pending may fire at any time; no durations.
- Of the media states only the one a join waits for is in the model. The preview sends one too
  and does not wait for its answer.
- `FailInitialJoin` ends in a local preview or in an error, as the build and the host decide.
- The page offers a form only when it is idle without a saved session, or shows an error.

## 3. What is checked

| Run | Instance | Shows |
|---|---|---|
| `lifecycle` | 5 sockets, 2 rooms, 2 tokens, 4 participants, 1 timer, one join per socket | `TypeOK`, `NoGhosts`, `BroadcastsFollowSession`, `TimersBounded`, `EveryMemberHasToken`, `IdentityStaysWithBrowser` |
| `any_client` | 4 sockets, 2 rooms, 3 tokens, 4 participants, 1 timer, any joins | `SessionsMatchEndpoints`, `SessionsAreLive`, `TimersForReconnecting`, `TokensHoldLiveSeats`, `OldestOwnsRoom`, `DisconnectSparesOthers` |
| `live` | 3 sockets, 2 rooms, 2 tokens, 3 participants, 1 timer, any joins, fairness | `ReconnectingResolves`, and `KeepsRoster`: the handlers implement `RoomRoster` |
| `replication` | 2 browsers, 1 room, 2 participants, 1 policy-governed medium, 2 messages to and 1 from a browser, everything rendered at once, fairness | `TypeOK`, `NobodySharesForbidden`, `ReplicasCatchUp`, `EnforcementArrives` |
| `replication_behind` | 2 browsers, both of whose renderings may be behind, 3 participants, 2 messages to and 2 from a browser, no governed medium | `ReplicasCatchUp` |
| `chat` | 2 browsers, a history of 2, 4 messages, 3 events to and 1 from a page | `RecentHistory`, `ConnectedPagesMissNothing`, `NothingTwice`, `SilentWhileMuted` |
| `signaling` | 3 sockets of which one sends, 2 rooms, 2 participants, up to 3 handlers at once, limits 2 in flight and 1 per window | `RateBound`, `InFlightIsExact`, `SignalsReachTheirTarget` |
| `negotiation` | 2 changes and 2 ICE restarts of each browser | `AgreedUnlessRollbackRefused`, `AnswersFit`, `ImpoliteOfferStands` |
| `media_buckets` | 2 screen shares, 2 announcements under way, 5 changes of media or policy | `StreamInOneBucket`, `ExpectedIsTrue`, `KeptUnlessUnannounced` |
| `session` | 3 calls of `joinRoom`, 1 broken connection, fairness | `NoForgottenSocket`, `RoomHasItsSession`, `FailureStands`, `JoinIsSettled`, `AbandonedSeatsAreFreed` |
| `glare` | 1 change of each browser | expected violation of `ChangesArePublished` |
| `same_socket_transfer` | 2 sockets, 2 rooms, 1 token, 3 participants | expected violation of `BroadcastsFollowSession` |

*Why these bounds are enough.* Two rooms make a transfer and a claim for another
room possible; one timer saturates the limit with the second loss; three tokens put
three members in a room, the least that tells the oldest from the youngest of the
others; three to five sockets suffice for two members, the reconnect of one, the
replacement of its socket and the late disconnect of the old one. Sockets, rooms and
tokens are interchangeable (symmetry, not used for liveness); participants are not,
for they are ordered. The bounds `MaxParticipants` and the finite `Socket` make a run
stop when ids or sockets are used up, so deadlock is not checked: the server has no
state in which everyone waits, it only waits for events.

In `RoomReplication` two messages to a browser are the least that holds a policy and one
enforcement, or a loss and the removal that follows it; with one message under way from a
browser a policy can overtake it or not. A third participant lets a browser come back as
somebody new, beside the other. `MaxInbox` and `MaxAsked` stop an action that would send
more; a browser with a full inbox can always receive, so nothing is blocked for ever.
`MaxBehind` bounds the browsers whose rendering is behind: none in `replication`, all in
`replication_behind`. There a media state stands for the tile it writes back, with the owner
and the connection state in it; of the shared media nothing old is written, as they are what
the media state sets. So no medium need be told apart, which makes room for a third
participant and a second media state. `PolicyHolds` and `ReplicasAgree` (below) hold for all
of these numbers at once.

`ReplicasCatchUp` is stated for browsers that have received everything. It excepts a
browser's own tile while a media state it sent is unanswered: the tile may be ahead of the
server, or set back to an old rendering. No longer: the answer carries the whole participant
as it is after all that was sent before, and restores it. What `MarkMyself` writes is
restored by the acknowledgement of the rejoin, which replaces everything; after that
`connect`, `connect_error` and the acknowledgement timer, which is cleared, have nothing
more to write. The mutant of `replication_behind` is that timer left running. The property
speaks of the others too: what is under way to a browser may all arrive before anything else
happens, so a message that leads a browser astray is found when it is the last to arrive.
The same holds of `ConnectedPagesMissNothing` and `SilentWhileMuted` in `RoomChat`.

In `RoomChat` four messages are two more than the history keeps: joins, a message or two,
and a departure trim it more than once; a room that empties and is made again starts with a
shorter past. In `SignalingRelay` one event per window of one tick and three moments of the
clock separate an event exactly `windowMs` old from one that is older; two handlers fill the
gate and a third finds it full; the target needs a second socket to move to. In
`PeerNegotiation` two changes let a browser change its tracks again while its first offer is
under way, two restarts let offers collide without any change. In `RemoteMediaBuckets` five
changes turn a camera and a screen on, replace the screen share and turn both off, or let a
policy come, stop a share and go, and two announcements can wait while tracks arrive. In
`ClientSession` three attempts are a join, another one during its leave or its failure, and
a third after a reload; one broken connection can fall into any of them. All of these stop
when their bounds are used up, and none is a system in which everybody waits: deadlock is
not checked.

*Fairness.* In `RoomReplication` only `Deliver`, weakly: an open connection delivers.
In `RoomLifecycle` only `GraceExpired`, weakly: `setTimeout` fires unless the handle is
cleared. Clients promise nothing. In `ClientSession` it is weak fairness of `Progress` as a
whole: as long as the server, a socket or a pending timer can do something, something of
it is done. No single action is favoured, the user need not click and nothing need
break. That suffices because every step of `Progress` uses up a message, a timer, a
continuation or an attempt.

*Expected violations.* `same_socket_transfer`: on a socket that holds a seat, `room:join`
with the same token and another room unbinds the socket's own session first
(`room-lifecycle-handlers.ts:127`); `evictSocketFromRoom` refuses to evict the handler's own
socket (`:41`), and `bindSocketSession` finds no previous session any more, so that the
`socket.leave` at `:180` never runs. The socket keeps receiving the first room's broadcasts.
With one join per socket this cannot happen, which is what `lifecycle` checks and
`BroadcastsStayInRoom` proves.

`glare`: both browsers change their tracks at the same time. The impolite one's offer is
out; the polite one has called `createOffer` or `setLocalDescription` and is still in
`stable` when the offer arrives. `makingOffer` makes that a collision, and
`use-call-room.ts:1365` asks for a rollback, which a connection in `stable` rejects. The
offer is lost in the `catch` of `:1747`; the polite browser's own offer is then ignored by
the impolite one, which waits for an answer that nobody will send.
`AgreedUnlessRollbackRefused` says that this is the only way in which the browsers fail to
agree, ICE restarts included. (A plain `setRemoteDescription(offer)` rolls back by itself,
and waits for the operation before it.)

*What the properties leave open.* Three behaviours of the web client are in the models and
exempt from a property by name, because no document says what should happen: a continuation
of a join that shows the room after the user has left (`late` in `ClientSession`); a media
state whose answer was lost, which has no timeout (`AnswerLost`); the notice that the chat
was disabled, which is sent with `room:policy-enforced` only, an event that the client does
not listen to (kind `notice` in `RoomChat`). `ExpectedIsTrue` speaks of a browser that has
sorted its streams since the last announcement (`sorted`): the answer to a rejoin replaces
the stream ids without sorting. It also speaks only of publishers that send nothing the
policy withholds (`on \subseteq known.on`). A member with its camera on that goes on sending
a screen share after the owner has forbidden it is announced without the screen and its
stream id; a browser that connects to it then sorts the screen's stream into the camera
bucket (`peer-stability.ts:189-195`), may find everything it expects there, and starts no
recovery. The web client does not stop the share, and no document says who should.

*Known limit of the server.* A second join with another token on a socket leaves
the first participant listed as connected for ever (`NoGhosts` fails with
`OneJoinPerSocket = FALSE`). No document of the repository speaks about it; it is
listed as a hazard.

The operators marked "Slip" in the modules are not part of any specification. Each
is the mutated form of the definition after it, and makes the property that
`PROJECT.json` names with it fail.

## 4. What is proved

All theorems hold for every value of the constants that satisfies the named assumptions of
the modules. `RoomLifecycleProofs`, from the four
assumptions of `Identifiers` (absent values are no members of their sets,
`MaxParticipants` is a natural number) and the two of `RoomLifecycle`
(`MaxTimers` is one, `OneJoinPerSocket` is Boolean):

| Theorem | States |
|---|---|
| `TypeCorrect` | `Spec => []TypeOK` |
| `LifecycleSafe` | `Spec => []LifecycleInv`, the inductive invariant |
| `SessionsMatch`, `SessionsLive`, `TimersDue`, `TokensLive`, `OneOwner` | the invariants of `any_client` |
| `MembersHaveTokens`, `TimersStayBounded` | `EveryMemberHasToken` and `TimersBounded` |
| `NobodyIsStranded`, `BroadcastsStayInRoom` | `NoGhosts` and `BroadcastsFollowSession`, assuming `OneJoinPerSocket` |
| `IdentityStays`, `DisconnectSpares` | the action properties `IdentityStaysWithBrowser` and `DisconnectSparesOthers` |
| `LifecycleKeepsRoster` | the refinement `KeepsRoster`: the handlers implement `RoomRoster` |

None of the checked invariants is inductive alone: that a disconnect may schedule a
timer needs live sessions, that a transfer leaves no seat behind needs the token
stores to be inverse, and that the oldest owns a room needs every new id to be larger
than those present. `LifecycleInv` therefore joins `TypeOK`,
`SessionsMatchEndpoints`, `SessionsAreLive`, `TimersForReconnecting`,
`TokensHoldLiveSeats`, `EveryMemberHasToken` and `OldestOwnsRoom` with three facts of
bookkeeping: ids are issued without gaps, members have issued ids, and only members
are reconnecting. `NoGhosts` and `BroadcastsFollowSession` need the further discipline
of one join per socket and have their own invariant on top.

The proof has one lemma per service method (what it does to coherent stores) and one
step per action. `JoinWithTransfer` is two departures in one: its first half, the
given-up seat, is shown to leave the stores coherent, and its second half then reuses
the lemma of a plain join. `Coherent` states that relation for stores that are not
yet the primed variables. For the action properties and the refinement every handler is
reduced to what it does to the roster: somebody new arrives, somebody leaves or is removed
with the promotion that follows, a seat is moved, or only connections change. The invariant
supplies the guards of the abstract steps (who is the oldest, whose token it is).

`RoomReplicationProofs`, from the assumptions of `Identifiers` and `ChannelAssumption` (the
bounds of the channels and of the renderings behind are natural numbers, of any size):

| Theorem | States |
|---|---|
| `PolicyHolds` | `Spec => []NobodySharesForbidden` |
| `ReplicasAgree` | `Spec => []ReplicasCatchUp` |
| `ReplicationTyped` | `Spec => []TypeOK` |

A media update is clamped by the policy of its sender's room, so the invariant needs
senders to be members: `PolicyInv` adds that connected browsers have a seat of their
own which no timer takes away, that only they have updates under way, and that nothing
is left of a participant that is gone. One lemma per operation of `RoomPolicy` shows
that it leaves nobody sharing what is forbidden; a departure keeps this because it
takes nobody's ownership but the leaver's.

`ReplicaInv` extends it to what is under way. For a connected browser there is a sequence of
views, from the browser's own, each the fold of the one before with the next message
(`Follows`), to the server's room (`Matches`). A handler that broadcasts adds views at the
end; `Deliver` takes one from the front. The browser's own tile is the difficulty: it is
ahead of the server while a media update is under way, a message that carries an older state
of it sets it back for a while, and so does an old rendering that is written back. So the
invariant names the message from which on the own tile is settled (`Settles`), and says of
the views before that they are `Near` the server's, the own tile aside. A tile written back
changes only views before that message: with a media update under way the answer is still to
come, and a browser on its way back has a welcome in its channel (`OwnTileRedone`). The
lemmas come in pairs, one for a change of the stores (`Keeps`: a room that an operation does
not concern looks the same) and one for the messages that announce it.

`SignalingRelayProofs`, from the assumptions of `Identifiers`, `SocketTrafficControl` and
`SignalingRelay`:

| Theorem | States |
|---|---|
| `LimitIsKept` | `Spec => []RateBound` |
| `PlacesAreCounted` | `Spec => []InFlightIsExact` |
| `NoStraySignals` | `Spec => []SignalsReachTheirTarget` |

The inductive invariant has three parts. `TypeOK` gives the shapes. `GatesInv` adds to
`RateBound` what makes it inductive: the admissions of a kind are in order of time and not
in the future, and what a gate has forgotten is already older than the window, so that
counting what it kept counts the window. `DeliveryInv` ties the stores to the history: an
endpoint is a socket that has joined as that participant, members of a room were created for
it, and the two participants of a handler in step `deliver` were created for one room. Each
handler step is shown to keep the number of running handlers equal to the counter of its
gate.

`RemoteMediaBucketsProofs`, from `StreamAssumption`:

| Theorem | States |
|---|---|
| `NoStreamTwice` | `Spec => []StreamInOneBucket` |
| `ExpectedMediaAreTrue` | `Spec => []ExpectedIsTrue` |
| `AnnouncedStreamsStay` | the action property `KeptUnlessUnannounced` |

For the first, `Prune` only empties buckets, a move empties the
other bucket, and `Merge` ends in a `Reconcile`: the proof follows the cases in which the new
stream is already in the other bucket, where `ResolveBucket` either keeps it there or the
announcement that decided otherwise makes the reconciliation move it. `SortInv` adds what the
second needs: of each kind the publisher carries at most one track besides the camera's and the
microphone's, and that only while it shares the screen (`Carries`); the last announcement, under
way or received, is what the server stores (`LastAnnounced`), which has nothing on that the
publisher has not, and the camera's stream id as soon as the camera's stream may carry
anything (`Announces`); and a browser that has sorted its
streams has none in the bucket announced for the other (`Placed`). The third follows from what a
`Reconcile` and a `Merge` leave alone.

`RoomChatProofs`, from `LimitsAssumption`:

| Theorem | States |
|---|---|
| `HistoryIsRecent` | `Spec => []RecentHistory` |
| `EachMessageOnce` | `Spec => []NothingTwice` |
| `PagesMissNothing` | `Spec => []ConnectedPagesMissNothing` |
| `MutedIsSilent` | `Spec => []SilentWhileMuted` |

The lemmas of the first are about the last n elements of a sequence: what `Trim` after an
append does to them. The other three share `PageInv`: messages are numbered as they were
spoken, and for every browser there is a sequence of pages that `Replays` what is on its
way, each of which shows messages as they were spoken, in order and once (`Good`); a user's message
arrives only at a page that allows it; and for a connected browser the last of them shows all
that was said since the connection, and the server's policy (`Complete`).

`ClientSessionProofs`, from its `BoundsAssumption` (any number of attempts and of broken
connections):

| Theorem | States |
|---|---|
| `SessionSafe` | `Spec => []SessionInv`, the inductive invariant |
| `NoSocketForgotten` | `Spec => []NoForgottenSocket` |
| `RoomOfWantedAttempt` | `Spec => []RoomHasItsSession` |
| `FailuresStand` | the action property `FailureStands` |

The page's timers, its socket and its session belong to one attempt (`OneAttempt`); but
answers, packets and continuations of older attempts and leaves are still about.
`SessionInv` says which of them may still carry the number of the attempt that is wanted:
only those that find what they need on the page (`CallbacksFit`, `PacketsFit`), and those of
a leave only while nothing newer has been asked for (`Settled`).

`PeerNegotiationProofs`, for any number of changes and restarts:

| Theorem | States |
|---|---|
| `NegotiationSafe` | `Spec => []NegotiationInv`, the inductive invariant |
| `AnswersAlwaysFit` | `Spec => []AnswersFit` |
| `AgreedAtRest` | `Spec => []AgreedUnlessRollbackRefused` |
| `ImpoliteOfferAnswered` | the action property `ImpoliteOfferStands` |

At any time at most one offer of each browser is alive. `NegotiationInv` says where it, or
the answer to it, is: in the channel, in one of the other browser's operations, awaiting its
tracks, on its way back, or nowhere. That gives each browser's offer a phase; `Together`
lists the pairs of phases that occur, and the rest of the invariant says what a pair implies
for the flags (`PendingFits`, `MakingFits`), for what each side knows of the other's tracks
(`KnowledgeFits`) and for a local offer that is nowhere (`NothingForgotten`): it will be
rolled back, or the refused rollback has lost it. The proof has one lemma per operation, and
one for each way in which a signal is received: an answer, an offer ignored, accepted or
answered by a rollback.

*Only model-checked.* Every invariant, action property and refinement that a passing run
checks is proved. The liveness properties (`ReconnectingResolves`, `EnforcementArrives`,
`JoinIsSettled`, `AbandonedSeatsAreFreed`) are beyond the prover, which has neither
`ENABLED` nor fairness, and stay with TLC; so does the fairness part of a refinement, of
which `KeepsRoster` has none.

*Where proving changed the models.* `ReplicasCatchUp`, `ConnectedPagesMissNothing` and
`SilentWhileMuted` used to fold what is under way with an operator for folds, of which
nothing can be proved for channels of any length (that would be induction over data); they
are now stated for a browser that has received everything, and the folds are the sequences
of views and pages of the invariants. The participants a new policy forces are announced in
the order in which they joined, which `JoiningOrders` now defines as a property of the order
instead of computing it.

## 5. What could be proved next

- That each of the further stores keeps its shape where only the inductive invariant says
  so (`Typed` in `ClientSession` and `PeerNegotiation`), as a property of a run too.
- A composition of `RoomLifecycle` with `SignalingRelay` and with `RoomReplication`: both reduce the lifecycle
  to what they look up, and a refinement mapping would state that reduction.
- The safety halves of the liveness properties: that in `ClientSession` every step of `Progress`
  lowers a measure, which with weak fairness gives `JoinIsSettled`.
- `NoGhosts` for the second join on a socket, once the server refuses or handles it.

## 6. Not modelled

- **Lifecycle, media, policy and chat handlers at the grain of their awaits.** Two packets that one turn
  of the event loop hands over interleave in microtasks. Three hazards of `PROJECT.json`
  name what could happen; the state of five stores under two or three handlers
  at their awaits, some twenty per join, is out of TLC's reach together with the rest of
  the lifecycle.
- **ICE candidates, replaced peer connections, the media recovery timer**
  (`use-call-room.ts:440-489`, the first 53 lines of `peer-stability.ts`): they depend on the
  network below WebRTC, which no source of the repository describes.
- **Speaking detection and pins**, which no other state depends on; **signals to another
  server instance**, which in-memory stores cannot have.
- **Rendering and layout, browser devices, screen share quality, invite links, HTTP and
  health reporting, payload validation, the cryptography of session tokens,
  configuration parsing, deployment and smoke scripts.** They hold no state that the properties above
  depend on.
- **Server restarts.** Nothing is persisted: a restart loses every store at once, and there
  is no recovery to model.
