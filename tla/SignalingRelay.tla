---------------------------- MODULE SignalingRelay ----------------------------
(***************************************************************************)
(* socket/signaling-relay.ts and local-signaling-delivery.ts: a browser's  *)
(* signal:send passes the traffic gate of its socket, is looked up in the  *)
(* stores, and is sent on to the socket its target is reached at.  The     *)
(* stores are asynchronous, so a handler is one step per awaited lookup,   *)
(* and whatever else the server does may happen in between.                *)
(*                                                                         *)
(* Sockets come and go as the web client uses them: a socket joins once.   *)
(***************************************************************************)
EXTENDS SocketSessions, RoomStore, SocketTrafficControl

CONSTANTS
    Sender,    \* the sockets that send; the others only receive
    MaxJobs,   \* bound: handlers at work at one time
    MaxTime    \* bound: the clock

ASSUME SenderAssumption == Sender \subseteq Socket /\ {MaxJobs, MaxTime} \subseteq Nat
ASSUME EventAssumption == "signal" \in Event

Job == 1..MaxJobs

VARIABLES
    rooms,     \* the room directory
    mapping,   \* the socket session mapping
    home,      \* history: the room a participant id was created for
    spoke,     \* history: the participant a socket has joined as
    closed,    \* sockets that are gone
    gates,     \* the traffic gate of each socket
    jobs,      \* the handlers at work
    inbox,     \* signal:received events per socket: who from, who to
    now        \* Date.now()

membership == <<rooms, mapping, home, spoke, closed>>
vars == <<rooms, mapping, home, spoke, closed, gates, jobs, inbox, now>>

Steps == {"idle", "busy", "session", "relay", "deliver"}
Idle == [step |-> "idle", socket |-> NoSocket, room |-> NoRoom,
         from |-> NoParticipant, to |-> NoParticipant]
Jobs == [step: Steps, socket: Socket \cup {NoSocket}, room: Room \cup {NoRoom},
         from: Participant \cup {NoParticipant}, to: Participant \cup {NoParticipant}]

Init ==
    /\ rooms = EmptyDirectory /\ mapping = EmptyMapping
    /\ home = [p \in Participant |-> NoRoom]
    /\ spoke = [s \in Socket |-> NoParticipant]
    /\ closed = {}
    /\ gates = [s \in Socket |-> OpenGate]
    /\ jobs = [j \in Job |-> Idle]
    /\ inbox = [s \in Socket |-> {}]
    /\ now = 0
-----------------------------------------------------------------------------
(* The stores change under the handlers: what RoomLifecycle says of joins, *)
(* leaves and lost connections, without tokens and timers                  *)

Seated(s, r, p) ==
    /\ s \notin closed /\ spoke[s] = NoParticipant
    /\ spoke' = [spoke EXCEPT ![s] = p]
    /\ mapping' = BindSocketSession(mapping, s, r, p)
    /\ UNCHANGED <<closed, gates, jobs, inbox, now>>

Join(s, r) ==
    \E p \in Participant :
        /\ home[p] = NoRoom /\ \A q \in Participant : q < p => home[q] # NoRoom
        /\ home' = [home EXCEPT ![p] = r]
        /\ rooms' = JoinRoom(rooms, r, p)
        /\ Seated(s, r, p)

(* On another socket, while the first may still be open.                   *)
Rejoin(s, p) ==
    /\ home[p] # NoRoom /\ CanReconnect(rooms, home[p], p)
    /\ rooms' = ReconnectToRoom(rooms, p)
    /\ Seated(s, home[p], p)
    /\ UNCHANGED home

Close(s, directory) ==
    /\ s \notin closed /\ spoke[s] # NoParticipant
    /\ closed' = closed \cup {s}
    /\ rooms' = directory
    /\ mapping' = UnbindSocketSession(mapping, s)
    /\ UNCHANGED <<home, spoke, gates, jobs, inbox, now>>

Leave(s) ==
    LET seat == mapping.session[s]
    IN  Close(s, IF seat = NoSeat THEN rooms ELSE LeaveRoom(rooms, seat.room, seat.participant))

ConnectionLost(s) ==
    LET seat == mapping.session[s]
    IN  seat # NoSeat /\ Close(s, MarkReconnecting(rooms, seat.room, seat.participant))

GraceExpired(p) ==
    /\ p \in rooms.reconnecting
    /\ rooms' = FinalizeReconnectingLeave(rooms, home[p], p)
    /\ UNCHANGED <<mapping, home, spoke, closed, gates, jobs, inbox, now>>

Tick ==
    /\ now < MaxTime /\ now' = now + 1
    /\ UNCHANGED <<membership, gates, jobs, inbox>>
-----------------------------------------------------------------------------
(* The handlers                                                            *)

Running(s) == {j \in Job : jobs[j].step # "idle" /\ jobs[j].socket = s}

Admit(s, j, e, job) ==
    /\ s \notin closed
    /\ jobs[j] = Idle /\ \A i \in Job : i < j => jobs[i] # Idle
    /\ MayEnter(gates[s], e, now)
    /\ gates' = [gates EXCEPT ![s] = Enter(@, e, now)]
    /\ jobs' = [jobs EXCEPT ![j] = job]
    /\ UNCHANGED <<membership, inbox, now>>

(* signal:send to a participant id that exists.                            *)
SendSignal(s, j, to) ==
    /\ home[to] # NoRoom
    /\ Admit(s, j, "signal", [Idle EXCEPT !.step = "session", !.socket = s, !.to = to])

(* chat:send and room:policy take the same gate; what they do meanwhile is *)
(* for other modules.                                                      *)
SendOther(s, j, e) ==
    e # "signal" /\ Admit(s, j, e, [Idle EXCEPT !.step = "busy", !.socket = s])

(* The sender is told, in signal:error or chat:error.                      *)
Refused(s, e) ==
    /\ s \notin closed
    /\ ~MayEnter(gates[s], e, now)
    /\ gates' = [gates EXCEPT ![s] = Refuse(@, e, now)]
    /\ UNCHANGED <<membership, jobs, inbox, now>>

Proceed(j, job) ==
    /\ jobs' = [jobs EXCEPT ![j] = job]
    /\ UNCHANGED <<membership, gates, inbox, now>>

Finish(j) ==
    /\ jobs' = [jobs EXCEPT ![j] = Idle]
    /\ gates' = [gates EXCEPT ![jobs[j].socket] = Release(@)]
    /\ UNCHANGED <<membership, now>>

Drop(j) == Finish(j) /\ UNCHANGED inbox

(* The payload does not parse, or is larger than signalMaxBytes.           *)
RejectPayload(j) == jobs[j].step = "session" /\ Drop(j)

LookUpSession(j) ==
    LET seat == mapping.session[jobs[j].socket]
    IN  /\ jobs[j].step = "session"
        /\ IF seat = NoSeat THEN Drop(j)
           ELSE Proceed(j, [jobs[j] EXCEPT !.step = "relay", !.room = seat.room,
                                           !.from = seat.participant])

(* Slip: the target is not looked for in the sender's room.                *)
SenderInRoom(d, r, from, to) == from \in Members(d, r)

(* relaySignalInRoom: both are in the room of the sender's session.        *)
BothInRoom(d, r, from, to) == {from, to} \subseteq Members(d, r)

Relay(j) ==
    /\ jobs[j].step = "relay"
    /\ IF BothInRoom(rooms, jobs[j].room, jobs[j].from, jobs[j].to)
       THEN Proceed(j, [jobs[j] EXCEPT !.step = "deliver"])
       ELSE Drop(j)

(* deliverSignal: to the socket the target is reached at now.              *)
Deliver(j) ==
    LET s == mapping.endpoint[jobs[j].to]
    IN  /\ jobs[j].step = "deliver"
        /\ Finish(j)
        /\ inbox' = IF s = NoSocket THEN inbox
                    ELSE [inbox EXCEPT ![s] = @ \cup {[from |-> jobs[j].from, to |-> jobs[j].to]}]

FinishOther(j) == jobs[j].step = "busy" /\ Drop(j)

HandlerStep(j) ==
    \/ RejectPayload(j) \/ LookUpSession(j) \/ Relay(j) \/ Deliver(j) \/ FinishOther(j)
-----------------------------------------------------------------------------
Next ==
    \/ \E s \in Socket :
          \/ \E r \in Room : Join(s, r)
          \/ \E p \in Participant : Rejoin(s, p)
          \/ Leave(s) \/ ConnectionLost(s)
    \/ \E p \in Participant : GraceExpired(p)
    \/ Tick
    \/ \E s \in Sender, j \in Job :
          \/ \E to \in Participant : SendSignal(s, j, to)
          \/ \E e \in Event : SendOther(s, j, e)
    \/ \E s \in Sender, e \in Event : Refused(s, e)
    \/ \E j \in Job : HandlerStep(j)

Spec == Init /\ [][Next]_vars
-----------------------------------------------------------------------------
(* The limit holds in every window, not only in those that start with an   *)
(* admission: of any MaxEvents + 1 admitted events of a kind, the last     *)
(* came more than windowMs after the first.  Forgetting old timestamps,    *)
(* also while events are refused, never lets one more in.                  *)
RateBound ==
    \A s \in Socket, e \in Event :
        LET times == gates[s].admitted[e]
        IN  \A i \in DOMAIN times :
                i + MaxEvents \in DOMAIN times => times[i] + WindowMs < times[i + MaxEvents]

(* The gate counts exactly the handlers that are at work, on every path    *)
(* through them, and never lets in more than maxInFlight.                  *)
InFlightIsExact ==
    \A s \in Socket :
        /\ gates[s].inFlight = Cardinality(Running(s))
        /\ gates[s].inFlight <= MaxInFlight

(* Whatever joins, leaves and reconnects happen while a signal is on its   *)
(* way, it reaches no socket but one its target has joined with, and no    *)
(* participant of another room than its sender's.                          *)
SignalsReachTheirTarget ==
    \A s \in Socket : \A m \in inbox[s] :
        m.to = spoke[s] /\ home[m.from] = home[m.to]
=============================================================================
