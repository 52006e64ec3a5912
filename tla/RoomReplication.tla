--------------------------- MODULE RoomReplication ---------------------------
(***************************************************************************)
(* How the members of a room see it.  The server answers and broadcasts    *)
(* with snapshots (socket/policy-handlers.ts, room-lifecycle-handlers.ts), *)
(* each browser folds what it receives into its call state                 *)
(* (hooks/use-call-room.ts, features/call/call-state.ts), and a browser    *)
(* shows its own media at once, before the server has clamped them: it     *)
(* writes back its whole own tile as it was last rendered, which may be    *)
(* older than what has arrived since.                                      *)
(*                                                                         *)
(* A browser is known by its anonymous token and has one socket at a time: *)
(* what RoomLifecycle says of sessions is taken for granted here.          *)
(***************************************************************************)
EXTENDS RoomPolicy, SequencesExt

CONSTANTS
    MaxInbox,   \* bound: messages on their way to one browser
    MaxAsked,   \* bound: media updates on their way from one browser
    MaxBehind   \* bound: browsers with a rendering that is behind

ASSUME ChannelAssumption == MaxInbox \in Nat /\ MaxAsked \in Nat /\ MaxBehind \in Nat

VARIABLES
    rooms,    \* server: the room directory
    store,    \* server: policies and shared media
    seat,     \* server: the participant a browser's socket speaks for
    born,     \* server: participant ids created so far
    link,     \* Socket.IO: "off", "on" or "lost" per browser
    inbox,    \* Socket.IO: messages to a browser, in the order sent
    asked,    \* Socket.IO: media updates of a browser, in the order sent
    view,     \* browser: call state, and the participant it believes to be
    rendered  \* browser: its own tile, if any, as last rendered (callStateRef)

vars == <<rooms, store, seat, born, link, inbox, asked, view, rendered>>

Snapshots == [owner: BOOLEAN, reconnecting: BOOLEAN, shared: SUBSET Media]

(* toPublicParticipant and getParticipants.                                *)
Snapshot(d, s, p) == [owner |-> p \in d.owner,
                      reconnecting |-> p \in d.reconnecting,
                      shared |-> s.shared[p]]
People(d, s, r) == [p \in Members(d, r) |-> Snapshot(d, s, p)]
-----------------------------------------------------------------------------
(* Messages of the server and the reducer of the browser                   *)

Updated(d, s, p) == [type |-> "upserted", participant |-> p,
                     snapshot |-> Snapshot(d, s, p)]
Left(d, s, r) == [type |-> "synced", people |-> People(d, s, r)]
PolicyUpdated(s, r) == [type |-> "policy", policy |-> s.allowed[r]]
Welcome(d, s, r, p) == [type |-> "welcome", participant |-> p,
                        people |-> People(d, s, r), policy |-> s.allowed[r]]

EmptyView == [self |-> NoParticipant, people |-> <<>>, policy |-> Media]

(* Slip: only known participants are updated.                              *)
UpdateKnown(people, p, snapshot) ==
    [q \in DOMAIN people |-> IF q = p THEN snapshot ELSE people[q]]

Upsert(people, p, snapshot) ==
    [q \in DOMAIN people \cup {p} |-> IF q = p THEN snapshot ELSE people[q]]

Reduce(v, e) ==
    CASE e.type = "upserted" -> [v EXCEPT !.people = Upsert(@, e.participant, e.snapshot)]
      [] e.type = "synced"   -> [v EXCEPT !.people = e.people]
      [] e.type = "policy"   -> [v EXCEPT !.policy = e.policy]
      [] e.type = "welcome"  -> [self |-> e.participant, people |-> e.people,
                                 policy |-> e.policy]

(* The own tile among the participants of a call state.                    *)
OwnTile(v) == [p \in DOMAIN v.people \cap {v.self} |-> v.people[p]]

(* The own tile, if it was rendered, is written back with its changes.     *)
WriteBack(v, tiles) ==
    IF v.self \in DOMAIN tiles
    THEN [v EXCEPT !.people = Upsert(@, v.self, tiles[v.self])]
    ELSE v

(* The effect that keeps callStateRef runs after a rendering: at once, or  *)
(* after any number of messages.                                           *)
RenderSoonerOrLater(b) ==
    /\ rendered' \in {rendered, [rendered EXCEPT ![b] = OwnTile(view'[b])]}
    /\ Cardinality({c \in Token : rendered'[c] # OwnTile(view'[c])}) <= MaxBehind
-----------------------------------------------------------------------------
Online(r) == {b \in Token : link[b] = "on" /\ rooms.member[seat[b]] = r}

(* emitToRoom, emitToRoomExcept and acks: msgs follow what is on its way.  *)
Send(channels, audience, msgs) ==
    [b \in Token |-> IF b \in audience THEN channels[b] \o msgs ELSE channels[b]]
Dropped(b) == [inbox EXCEPT ![b] = <<>>]

(* Bound: nothing is sent that would not fit.                              *)
InboxBound == \A b \in Token : Len(inbox'[b]) <= MaxInbox

TypeOK ==
    /\ rooms \in RoomDirectory
    /\ store \in PolicyStore
    /\ seat \in [Token -> Participant \cup {NoParticipant}]
    /\ born \subseteq Participant
    /\ link \in [Token -> {"off", "on", "lost"}]
    /\ \A b \in Token :
          /\ Len(inbox[b]) <= MaxInbox
          /\ asked[b] \in Seq(SUBSET Media) /\ Len(asked[b]) <= MaxAsked
          /\ view[b].self \in Participant \cup {NoParticipant}
          /\ DOMAIN view[b].people \subseteq Participant
          /\ \A p \in DOMAIN view[b].people : view[b].people[p] \in Snapshots
          /\ DOMAIN rendered[b] \subseteq Participant
          /\ \A p \in DOMAIN rendered[b] : rendered[b][p] \in Snapshots

Init ==
    /\ rooms = EmptyDirectory
    /\ store = DefaultPolicies
    /\ seat = [b \in Token |-> NoParticipant]
    /\ born = {}
    /\ link = [b \in Token |-> "off"]
    /\ inbox = [b \in Token |-> <<>>]
    /\ asked = [b \in Token |-> <<>>]
    /\ view = [b \in Token |-> EmptyView]
    /\ rendered = [b \in Token |-> <<>>]
-----------------------------------------------------------------------------
(* Joining and leaving: the messages of room-lifecycle-handlers.ts         *)

(* The participant p of b is in room r of directory d: b is answered with  *)
(* the whole room, the others are told of p.                               *)
Admit(b, d, r, p) ==
    /\ rooms' = d
    /\ inbox' = Send(Send(inbox, Online(r), <<Updated(d, store, p)>>),
                     {b}, <<Welcome(d, store, r, p)>>)
    /\ link' = [link EXCEPT ![b] = "on"]
    /\ seat' = [seat EXCEPT ![b] = p]
    /\ born' = born \cup {p}
    /\ UNCHANGED <<store, asked, view, rendered>>
    /\ InboxBound

(* A browser that is in no room, or was removed while it was offline.      *)
Join(b, r) ==
    /\ link[b] # "on"
    /\ seat[b] \in Participant => rooms.member[seat[b]] = NoRoom
    /\ \E p \in Participant \ born :
          /\ \A q \in Participant : q < p <=> q \in born
          /\ Admit(b, JoinRoom(rooms, r, p), r, p)

(* A browser that is back in time, as the participant it was.              *)
Rejoin(b) ==
    /\ link[b] = "lost"
    /\ \E r \in Room :
          /\ CanReconnect(rooms, r, seat[b])
          /\ Admit(b, ReconnectToRoom(rooms, seat[b]), r, seat[b])

(* p leaves r; audience is sent who is left, after the messages first.     *)
RemoveParticipant(r, p, channels, audience, first) ==
    LET d == LeaveRoom(rooms, r, p)
        s == ForgetTheGone(d, store)
    IN  /\ rooms' = d
        /\ store' = s
        /\ inbox' = Send(channels, audience, Append(first, Left(d, s, r)))
        /\ InboxBound

(* session/reset, rendered by the time the page offers to join again.      *)
ResetView(b) ==
    /\ view' = [view EXCEPT ![b] = EmptyView]
    /\ rendered' = [rendered EXCEPT ![b] = OwnTile(EmptyView)]

(* leaveRoom of a connected browser, room:leave and its answer, on which   *)
(* the browser closes its socket: taken as one step.                       *)
Leave(b) ==
    LET r == rooms.member[seat[b]]
    IN  /\ link[b] = "on"
        /\ RemoveParticipant(r, seat[b], Dropped(b), Online(r) \ {b}, <<>>)
        /\ link' = [link EXCEPT ![b] = "off"]
        /\ asked' = [asked EXCEPT ![b] = <<>>]
        /\ ResetView(b)
        /\ UNCHANGED <<seat, born>>

(* updateParticipantConnectionState of the browser, for itself.            *)
MarkMyself(b) ==
    LET away == [p \in DOMAIN rendered[b] |->
                    [rendered[b][p] EXCEPT !.reconnecting = TRUE]]
    IN  /\ view' = [view EXCEPT ![b] = WriteBack(@, away)]
        /\ RenderSoonerOrLater(b)

(* What is under way in either direction is lost with the connection, and  *)
(* the browser marks itself as reconnecting.                               *)
LoseLink(b) ==
    /\ link[b] = "on"
    /\ link' = [link EXCEPT ![b] = "lost"]
    /\ asked' = [asked EXCEPT ![b] = <<>>]
    /\ MarkMyself(b)
    /\ UNCHANGED <<seat, born>>

(* Slip: the timer of the acknowledgement is never cleared.                *)
TimerLeftRunning(b) == link[b] # "off"

OnItsWayBack(b) ==
    link[b] = "lost" \/ \E i \in DOMAIN inbox[b] : inbox[b][i].type = "welcome"

(* connect_error, connect or a late acknowledgement, on the way back.      *)
StillReconnecting(b) ==
    /\ OnItsWayBack(b)
    /\ MarkMyself(b)
    /\ UNCHANGED <<rooms, store, seat, born, link, inbox, asked>>

ConnectionLost(b) ==
    LET r == rooms.member[seat[b]]
        d == MarkReconnecting(rooms, r, seat[b])
    IN  /\ LoseLink(b)
        /\ rooms' = d
        /\ inbox' = Send(Dropped(b), Online(r) \ {b}, <<Updated(d, store, seat[b])>>)
        /\ UNCHANGED store
        /\ InboxBound

(* With all removal timers in use (whether they are is for RoomLifecycle). *)
ConnectionLostWithoutTimer(b) ==
    LET r == rooms.member[seat[b]]
        d == MarkReconnecting(rooms, r, seat[b])
    IN  /\ LoseLink(b)
        /\ RemoveParticipant(r, seat[b], Dropped(b), Online(r) \ {b},
                             <<Updated(d, store, seat[b])>>)

(* leaveRoom of a browser that is offline: only its call state is reset.   *)
GiveUp(b) ==
    /\ link[b] = "lost"
    /\ view[b] # EmptyView
    /\ ResetView(b)
    /\ UNCHANGED <<rooms, store, seat, born, link, inbox, asked>>

GraceExpired(p) ==
    /\ p \in rooms.reconnecting
    /\ RemoveParticipant(rooms.member[p], p, inbox, Online(rooms.member[p]), <<>>)
    /\ UNCHANGED <<seat, born, link, asked, view, rendered>>
-----------------------------------------------------------------------------
(* Media and policy: the messages of policy-handlers.ts                    *)

(* sendMediaState of the browser, after a click or, once its devices are   *)
(* enumerated, after a join: its own tile changes at once, and is taken    *)
(* back to what was last rendered.                                         *)
AskMedia(b, wanted) ==
    LET ahead == [p \in DOMAIN rendered[b] |-> [rendered[b][p] EXCEPT !.shared = wanted]]
    IN  /\ link[b] = "on"
        /\ Len(asked[b]) < MaxAsked
        /\ asked' = [asked EXCEPT ![b] = Append(@, wanted)]
        /\ view' = [view EXCEPT ![b] = WriteBack(@, ahead)]
        /\ RenderSoonerOrLater(b)
        /\ UNCHANGED <<rooms, store, seat, born, link, inbox>>

(* participant:media-state: answered and broadcast with what was granted.  *)
UpdateMedia(b) ==
    LET s == UpdateMediaState(rooms, store, seat[b], Head(asked[b]))
    IN  /\ asked[b] # <<>>
        /\ asked' = [asked EXCEPT ![b] = Tail(@)]
        /\ store' = s
        /\ inbox' = Send(inbox, Online(rooms.member[seat[b]]), <<Updated(rooms, s, seat[b])>>)
        /\ UNCHANGED <<rooms, seat, born, link, view, rendered>>
        /\ InboxBound

(* Slip: the members hear of the policy, not of what it ended.             *)
AnnouncePolicyOnly(d, s, r, forced) == <<PolicyUpdated(s, r)>>

(* The new policy, then every participant it changed.                      *)
Announcement(d, s, r, forced) ==
    <<PolicyUpdated(s, r)>> \o [i \in DOMAIN forced |-> Updated(d, s, forced[i])]

(* The participants of S in the order in which they joined.                *)
JoiningOrders(S) ==
    {f \in [1 .. Cardinality(S) -> S] :
        Range(f) = S /\ \A i, j \in DOMAIN f : i < j => f[i] < f[j]}

(* room:policy from the owner.                                             *)
UpdatePolicy(b, policy) ==
    LET r == rooms.member[seat[b]]
        s == UpdatePolicyAndEnforce(rooms, store, r, policy)
    IN  /\ link[b] = "on"
        /\ seat[b] \in rooms.owner
        /\ store' = s
        /\ \E forced \in JoiningOrders(Forced(rooms, store, r, policy)) :
              inbox' = Send(inbox, Online(r), Announcement(rooms, s, r, forced))
        /\ UNCHANGED <<rooms, seat, born, link, asked, view, rendered>>
        /\ InboxBound
-----------------------------------------------------------------------------
Deliver(b) ==
    /\ inbox[b] # <<>>
    /\ view' = [view EXCEPT ![b] = Reduce(@, Head(inbox[b]))]
    /\ RenderSoonerOrLater(b)
    /\ inbox' = [inbox EXCEPT ![b] = Tail(@)]
    /\ UNCHANGED <<rooms, store, seat, born, link, asked>>

Render(b) ==
    /\ rendered[b] # OwnTile(view[b])
    /\ rendered' = [rendered EXCEPT ![b] = OwnTile(view[b])]
    /\ UNCHANGED <<rooms, store, seat, born, link, inbox, asked, view>>

Next ==
    \/ \E b \in Token :
          \/ Rejoin(b) \/ Leave(b) \/ UpdateMedia(b) \/ Deliver(b) \/ Render(b)
          \/ ConnectionLost(b) \/ ConnectionLostWithoutTimer(b)
          \/ StillReconnecting(b) \/ GiveUp(b)
          \/ \E r \in Room : Join(b, r)
          \/ \E m \in SUBSET Media : AskMedia(b, m) \/ UpdatePolicy(b, m)
    \/ \E p \in Participant : GraceExpired(p)

(* An open connection delivers what was sent.                              *)
Fairness == \A b \in Token : WF_vars(Deliver(b))

Spec == Init /\ [][Next]_vars
LiveSpec == Spec /\ Fairness
-----------------------------------------------------------------------------
(* A policy holds against everybody but the owner, in whatever order it    *)
(* is changed, media are switched on and owners follow one another.        *)
NobodySharesForbidden ==
    \A r \in Room : \A p \in Members(rooms, r) \ rooms.owner :
        store.shared[p] \subseteq store.allowed[r]

(* Once everything on its way has arrived, a connected browser shows the   *)
(* room as the server has it: who is in it, who owns it, who is away, what *)
(* everybody shares and what the policy is.  No event is missing and none  *)
(* comes in the wrong order.  Only the browser's own tile may differ, and  *)
(* only while the server has yet to handle a media state it asked for: the *)
(* tile may be ahead of the server, and a stale rendering written back may *)
(* have undone what had arrived.  The answer undoes either.  What is on    *)
(* its way may all arrive before anything else happens, so that this also  *)
(* speaks of a browser with messages under way.                            *)
ReplicasCatchUp ==
    \A b \in Token : link[b] = "on" /\ inbox[b] = <<>> =>
        LET r == rooms.member[seat[b]]
        IN  /\ view[b].self = seat[b]
            /\ view[b].policy = store.allowed[r]
            /\ DOMAIN view[b].people = Members(rooms, r)
            /\ \A p \in Members(rooms, r) :
                  \/ view[b].people[p] = Snapshot(rooms, store, p)
                  \/ p = seat[b] /\ asked[b] # <<>>

(* What the owner forbids disappears from every connected browser: nobody  *)
(* goes on seeing a member share what the policy forbids.                  *)
Shown(b, p, m) ==
    /\ link[b] = "on"
    /\ p # view[b].self
    /\ p \in DOMAIN view[b].people
    /\ m \in view[b].people[p].shared
Forbidden(b, p, m) ==
    /\ p \notin rooms.owner
    /\ m \notin store.allowed[rooms.member[seat[b]]]
EnforcementArrives ==
    \A b \in Token, p \in Participant, m \in Media :
        Shown(b, p, m) /\ Forbidden(b, p, m) ~> ~Shown(b, p, m)
=============================================================================
