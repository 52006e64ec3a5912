---------------------------- MODULE RoomLifecycle ----------------------------
(***************************************************************************)
(* socket/room-lifecycle-handlers.ts with the services it drives: joining, *)
(* rejoining and leaving a room, losing a connection, the grace period and *)
(* the transfer of a browser token between rooms.                          *)
(*                                                                         *)
(* One action is one handler run to its end.  The in-memory stores resolve *)
(* every await in a microtask, so handlers started by different events of  *)
(* the event loop do not interleave.                                       *)
(***************************************************************************)
EXTENDS SocketSessions, AnonymousAuth, RoomStore

CONSTANTS
    MaxTimers,         \* config.maxReconnectTimers
    OneJoinPerSocket   \* TRUE: a socket with a session does not join again

ASSUME MaxTimersAssumption == MaxTimers \in Nat
ASSUME OneJoinAssumption == OneJoinPerSocket \in BOOLEAN

VARIABLES
    transport,  \* Socket.IO: "new", "open" or "closed" per socket
    joined,     \* Socket.IO: the rooms whose broadcasts a socket receives
    rooms,      \* room orchestration and room states
    mapping,    \* socket session mapping
    auth,       \* anonymous auth registry
    timers,     \* reconnect lifecycle: the room of a scheduled removal
    issued      \* the room each participant id was created in

vars == <<transport, joined, rooms, mapping, auth, timers, issued>>

TypeOK ==
    /\ transport \in [Socket -> {"new", "open", "closed"}]
    /\ joined \in [Socket -> SUBSET Room]
    /\ rooms \in RoomDirectory
    /\ mapping \in SessionMapping
    /\ auth \in AuthRegistry
    /\ timers \in [Participant -> Room \cup {NoRoom}]
    /\ issued \in [Participant -> Room \cup {NoRoom}]

Init ==
    /\ transport = [s \in Socket |-> "new"]
    /\ joined = [s \in Socket |-> {}]
    /\ rooms = EmptyDirectory
    /\ mapping = EmptyMapping
    /\ auth = EmptyRegistry
    /\ timers = [p \in Participant |-> NoRoom]
    /\ issued = [p \in Participant |-> NoRoom]
-----------------------------------------------------------------------------
(* Reconnect timers: services/reconnect-lifecycle.ts *)

(* Slip: the timer is not cleared.                                         *)
CancelNothing(t, p) == t

Cancel(t, p) == [t EXCEPT ![p] = NoRoom]

Scheduled == {p \in Participant : timers[p] # NoRoom}

(* Slip: the limit is compared one too late.                               *)
CanScheduleOneMore(p) == p \in Scheduled \/ Cardinality(Scheduled) <= MaxTimers

(* A participant that already has a timer may always replace it.           *)
CanSchedule(p) == p \in Scheduled \/ Cardinality(Scheduled) < MaxTimers
-----------------------------------------------------------------------------
(* Socket.IO rooms *)

Subscribe(j, s, r) == [j EXCEPT ![s] = @ \cup {r}]
Unsubscribe(j, s, r) == [j EXCEPT ![s] = @ \ {r}]

(* Slip: the stale socket stays in the Socket.IO room.                     *)
EvictNobody(j, s, stale, r) == j

(* evictSocketFromRoom of the handlers of socket s: never s itself, and    *)
(* only a socket that is still connected.                                  *)
Evict(j, s, stale, r) ==
    IF stale \in Socket \ {s} /\ transport[stale] = "open"
    THEN Unsubscribe(j, stale, r)
    ELSE j
-----------------------------------------------------------------------------
(* room:join *)

(* The identity a join claims: none, or a participant named by a session   *)
(* token or by the client session map.  Both name a participant created    *)
(* earlier, together with its room.                                        *)
Identity == {NoParticipant} \cup {p \in Participant : issued[p] # NoRoom}
Claims(id, r) == id # NoParticipant /\ issued[id] = r

(* Slip: a participant that another browser came with is not refused.      *)
NeverOfAnother(t, r, id) == FALSE

(* The two refusals: another browser's participant, and a second seat for  *)
(* this browser in the same room.                                          *)
OfAnotherBrowser(t, r, id) == Claims(id, r) /\ auth.tokenOf[id] \notin {t, NoToken}
HoldsSeat(t) == auth.binding[t] # NoSeat
IsSameParticipant(t, r, id) == id # NoParticipant /\ auth.binding[t] = SeatOf(r, id)
AlreadyInRoom(t, r, id) ==
    HoldsSeat(t) /\ ~IsSameParticipant(t, r, id) /\ auth.binding[t].room = r

MayJoin(s, t, r, id) ==
    /\ transport[s] = "open"
    /\ OneJoinPerSocket => mapping.session[s] = NoSeat
    /\ ~OfAnotherBrowser(t, r, id)
    /\ ~AlreadyInRoom(t, r, id)

(* The next unused participant id.                                         *)
IsFresh(p) == issued[p] = NoRoom /\ \A q \in Participant : issued[q] = NoRoom => p <= q

(* joinParticipant on the directory d: the participant that the join is    *)
(* served as, and the directory afterwards.                                *)
Admitted(d, r, id, p) ==
    IF Claims(id, r) /\ CanReconnect(d, r, id) THEN p = id ELSE IsFresh(p)
AfterAdmission(d, r, p) ==
    IF d.member[p] = r THEN ReconnectToRoom(d, p) ELSE JoinRoom(d, r, p)

(* What follows joinParticipant: binding the token, the session and the    *)
(* socket, and evicting the socket that was replaced.                      *)
Seated(j, m, a, tm, s, t, r, p) ==
    LET previous == m.session[s]
        replaced == ReplacedSocket(m, s, p)
        left     == IF previous # NoSeat /\ previous.room # r
                    THEN Unsubscribe(j, s, previous.room) ELSE j
        room     == IF SocketSession(m, replaced) = NoSeat
                    THEN r ELSE SocketSession(m, replaced).room
    IN  /\ auth' = BindTokenToParticipant(a, t, r, p)
        /\ mapping' = BindSocketSession(m, s, r, p)
        /\ joined' = Evict(Subscribe(left, s, r), s, replaced, room)
        /\ timers' = Cancel(tm, p)
        /\ issued' = [issued EXCEPT ![p] = r]

(* A join whose token holds no seat, or holds the seat of the participant  *)
(* that the join claims.                                                   *)
Join(s, t, r, id) ==
    /\ MayJoin(s, t, r, id)
    /\ HoldsSeat(t) => IsSameParticipant(t, r, id)
    /\ \E p \in Participant :
          /\ Admitted(rooms, r, id, p)
          /\ rooms' = AfterAdmission(rooms, r, p)
          /\ Seated(joined, mapping, auth, timers, s, t, r, p)
    /\ UNCHANGED transport

(* A join whose token holds a seat in another room: the seat is given up   *)
(* first, its socket evicted and its participant removed.                  *)
JoinWithTransfer(s, t, r, id) ==
    LET seat     == auth.binding[t]
        q        == seat.participant
        endpoint == mapping.endpoint[q]
        vacated  == LeaveRoom(rooms, seat.room, q)
    IN  /\ MayJoin(s, t, r, id)
        /\ HoldsSeat(t)
        /\ ~IsSameParticipant(t, r, id)
        /\ \E p \in Participant :
              /\ Admitted(vacated, r, id, p)
              /\ rooms' = AfterAdmission(vacated, r, p)
              /\ Seated(Evict(joined, s, endpoint, seat.room),
                        UnbindSocketSession(mapping, endpoint),
                        UnbindParticipant(auth, q),
                        Cancel(timers, q),
                        s, t, r, p)
        /\ UNCHANGED transport
-----------------------------------------------------------------------------
(* room:leave and disconnect *)

(* The departure of p from r, with its timer and its token; a participant  *)
(* that the room no longer holds keeps both.                               *)
Depart(r, p) ==
    /\ rooms' = LeaveRoom(rooms, r, p)
    /\ IF rooms.member[p] = r
       THEN timers' = Cancel(timers, p) /\ auth' = UnbindParticipant(auth, p)
       ELSE UNCHANGED <<timers, auth>>

Close(s) ==
    /\ transport[s] = "open"
    /\ transport' = [transport EXCEPT ![s] = "closed"]
    /\ joined' = [joined EXCEPT ![s] = {}]
    /\ mapping' = UnbindSocketSession(mapping, s)
    /\ UNCHANGED issued

Connect(s) ==
    /\ transport[s] = "new"
    /\ transport' = [transport EXCEPT ![s] = "open"]
    /\ UNCHANGED <<joined, rooms, mapping, auth, timers, issued>>

(* Without a session the handler returns before it changes anything.       *)
Leave(s) ==
    LET seat == mapping.session[s]
    IN  /\ transport[s] = "open"
        /\ seat # NoSeat
        /\ mapping' = UnbindSocketSession(mapping, s)
        /\ joined' = Unsubscribe(joined, s, seat.room)
        /\ Depart(seat.room, seat.participant)
        /\ UNCHANGED <<transport, issued>>

(* disconnect with the reason 'client namespace disconnect': a leave that  *)
(* cancels the timer whether or not the room still holds the participant.  *)
DisconnectByClient(s) ==
    LET seat == mapping.session[s]
    IN  /\ Close(s)
        /\ seat # NoSeat
        /\ rooms' = LeaveRoom(rooms, seat.room, seat.participant)
        /\ timers' = Cancel(timers, seat.participant)
        /\ auth' = IF rooms.member[seat.participant] = seat.room
                   THEN UnbindParticipant(auth, seat.participant) ELSE auth

(* disconnect of a socket that was evicted, left or never joined.          *)
DisconnectIdle(s) ==
    /\ Close(s)
    /\ mapping.session[s] = NoSeat
    /\ UNCHANGED <<rooms, auth, timers>>

(* disconnect for any other reason: the participant stays in the room as   *)
(* reconnecting until its timer expires.                                   *)
ConnectionLost(s) ==
    LET seat == mapping.session[s]
        p    == seat.participant
    IN  /\ Close(s)
        /\ seat # NoSeat
        /\ rooms.member[p] # seat.room \/ CanSchedule(p)
        /\ rooms' = MarkReconnecting(rooms, seat.room, p)
        /\ timers' = IF rooms.member[p] = seat.room
                     THEN [timers EXCEPT ![p] = seat.room] ELSE timers
        /\ UNCHANGED auth

(* The same with all timers in use: the participant is removed at once.    *)
ConnectionLostWithoutTimer(s) ==
    LET seat == mapping.session[s]
        p    == seat.participant
    IN  /\ Close(s)
        /\ seat # NoSeat
        /\ rooms.member[p] = seat.room
        /\ ~CanSchedule(p)
        /\ rooms' = FinalizeReconnectingLeave(
                        MarkReconnecting(rooms, seat.room, p), seat.room, p)
        /\ auth' = UnbindParticipant(auth, p)
        /\ UNCHANGED timers

(* The removal timer fires: onParticipantGraceExpired of server.ts.        *)
GraceExpired(p) ==
    /\ timers[p] # NoRoom
    /\ timers' = Cancel(timers, p)
    /\ rooms' = FinalizeReconnectingLeave(rooms, timers[p], p)
    /\ auth' = IF IsReconnectingIn(rooms, timers[p], p)
               THEN UnbindParticipant(auth, p) ELSE auth
    /\ UNCHANGED <<transport, joined, mapping, issued>>

(* The interval timer of server.ts.                                        *)
Sweep ==
    /\ rooms' = SweepEmptyRooms(rooms)
    /\ UNCHANGED <<transport, joined, mapping, auth, timers, issued>>
-----------------------------------------------------------------------------
JoinRequest(s) ==
    \E t \in Token, r \in Room, id \in Identity :
        Join(s, t, r, id) \/ JoinWithTransfer(s, t, r, id)

Disconnect(s) ==
    \/ DisconnectByClient(s)
    \/ DisconnectIdle(s)
    \/ ConnectionLost(s)
    \/ ConnectionLostWithoutTimer(s)

Next ==
    \/ \E s \in Socket : Connect(s) \/ JoinRequest(s) \/ Leave(s) \/ Disconnect(s)
    \/ \E p \in Participant : GraceExpired(p)
    \/ Sweep

(* A timer that was set fires unless it is cleared first.                  *)
Fairness == \A p \in Participant : WF_vars(GraceExpired(p))

Spec == Init /\ [][Next]_vars
LiveSpec == Spec /\ Fairness
-----------------------------------------------------------------------------
(* A socket speaks for a participant exactly when the participant is       *)
(* reached at that socket: bindSocketSession and unbindSocketSession keep  *)
(* the two stores of socket-session-mapping.ts each other's inverse.       *)
SessionsMatchEndpoints ==
    \A s \in Socket, p \in Participant :
        mapping.session[s].participant = p <=> mapping.endpoint[p] = s

(* A session is never left behind: its socket is connected and subscribed  *)
(* to the room, and the room holds the participant as connected.  Chat,    *)
(* media, policy and signal handlers all trust the session for this.       *)
SessionsAreLive ==
    \A s \in Socket :
        LET seat == mapping.session[s]
        IN  seat # NoSeat =>
              /\ transport[s] = "open"
              /\ seat.room \in joined[s]
              /\ seat.participant \in Members(rooms, seat.room) \ rooms.reconnecting

(* No ghost participants: whoever is listed in a room is reached at some   *)
(* socket, or is reconnecting with a removal timer running.  A participant *)
(* with neither would stay in the room for ever.                           *)
NoGhosts ==
    \A p \in Participant :
        rooms.member[p] # NoRoom =>
            \/ mapping.endpoint[p] # NoSocket
            \/ p \in rooms.reconnecting /\ timers[p] # NoRoom

(* A removal timer runs exactly for the reconnecting participants, with    *)
(* the room they are in: rejoining, leaving and a token transfer all clear *)
(* it, so no timer fires on a participant that came back.                  *)
TimersForReconnecting ==
    \A p \in Participant :
        timers[p] = IF p \in rooms.reconnecting THEN rooms.member[p] ELSE NoRoom

(* scheduleParticipantRemoval never holds more than maxTimers timers.      *)
TimersBounded == Cardinality(Scheduled) <= MaxTimers

(* A browser token holds a seat exactly while the participant that came    *)
(* with it is in that room, so nobody is locked out of a room ("has        *)
(* already joined this room") by a participant that is gone.               *)
TokensHoldLiveSeats ==
    \A t \in Token, p \in Participant :
        /\ auth.binding[t].participant = p <=> auth.tokenOf[p] = t
        /\ auth.tokenOf[p] = t => auth.binding[t] = SeatOf(rooms.member[p], p)

EveryMemberHasToken ==
    \A p \in Participant : rooms.member[p] # NoRoom <=> auth.tokenOf[p] # NoToken

(* A room exists exactly while somebody is in it, and its only owner is    *)
(* its longest-present participant: join and reassignOwnerIfNeeded never   *)
(* produce two owners, none, or a younger one.                             *)
OldestOwnsRoom ==
    \A r \in Room :
        /\ rooms.owner \cap Members(rooms, r) = Oldest(Members(rooms, r))
        /\ r \in rooms.open <=> Members(rooms, r) # {}

(* A socket receives the broadcasts of the room it has a session in and of *)
(* no other: leaving, eviction and a change of room all unsubscribe it.    *)
BroadcastsFollowSession ==
    \A s \in Socket : \A r \in joined[s] : mapping.session[s].room = r
-----------------------------------------------------------------------------
(* While a participant stays in its room, no other browser takes over its  *)
(* identity: the token it came with stays its token.                       *)
IdentityStaysWithBrowser ==
    [][\A p \in Participant :
          rooms.member[p] # NoRoom /\ rooms'.member[p] = rooms.member[p]
              => auth'.tokenOf[p] = auth.tokenOf[p]]_vars

(* A connection that ends takes nobody along but the participant it had a  *)
(* session for: the late disconnect of a socket whose participant moved to *)
(* another socket leaves that participant connected.                       *)
DisconnectSparesOthers ==
    [][\A s \in Socket, p \in Participant :
          transport[s] = "open" /\ transport'[s] = "closed"
              /\ mapping.endpoint[p] # s
              => /\ rooms'.member[p] = rooms.member[p]
                 /\ p \in rooms'.reconnecting <=> p \in rooms.reconnecting
                 /\ mapping'.endpoint[p] = mapping.endpoint[p]]_vars

(* A participant that lost its connection does not stay in limbo: it comes *)
(* back or is removed when the grace period is over.                       *)
ReconnectingResolves ==
    \A p \in Participant : p \in rooms.reconnecting ~> p \notin rooms.reconnecting
=============================================================================
