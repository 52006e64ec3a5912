----------------------------- MODULE ClientSession -----------------------------
(***************************************************************************)
(* One tab of the web client on its way into a room and out of it:         *)
(* joinRoom, leaveRoom and teardown of hooks/use-call-room.ts, the saved   *)
(* session of App.tsx, the reconnecting socket they use, and the seats     *)
(* that the server keeps for them.  Every joinRoom opens a socket, named   *)
(* by the number of the attempt.  A socket delivers in order; what is in   *)
(* flight when it breaks is lost, and what is emitted while it is down is  *)
(* sent when it is up again.  A timer that is pending may fire any time.   *)
(***************************************************************************)
EXTENDS Naturals, Sequences, Functions

CONSTANTS
    MaxAttempts,   \* bound: calls of joinRoom
    MaxBreaks      \* bound: open connections that break

ASSUME BoundsAssumption == MaxAttempts \in Nat \ {0} /\ MaxBreaks \in Nat

Attempt == 1 .. MaxAttempts
None == 0

VARIABLES
    page,      \* state and refs of the hook, its timers and callbacks
    saved,     \* the session in the session storage, by its clientSessionId
    sockets,   \* the socket of each attempt, and what it carries
    seat,      \* server: the socket that a client session sits on
    used,      \* attempts so far
    breaks,    \* broken connections so far, for the bound
    wanted,    \* history: the attempt that the user last asked for
    late       \* history: another attempt than that showed the room

vars == <<page, saved, sockets, seat, used, breaks, wanted, late>>

(* A timer or a ref that belongs to an attempt holds its number.           *)
NewPage == [
    joinState |-> "idle", socket |-> None, activeSession |-> None,
    hasJoined |-> FALSE, preview |-> FALSE,
    ackTimer |-> None, initialTimer |-> None,
    continuing |-> {},        \* callbacks that await before they show the room
    leaveOperation |-> 0,
    leaves |-> {},            \* leave operations whose fallback timer is pending
    autoRejoined |-> FALSE]

Unused == [link |-> "new", out |-> <<>>, in |-> <<>>]

Init ==
    /\ page = NewPage /\ saved = None
    /\ sockets = [n \in Attempt |-> Unused]
    /\ seat = [c \in Attempt |-> None]
    /\ used = 0 /\ breaks = 0 /\ wanted = None /\ late = FALSE
-----------------------------------------------------------------------------
(* Sockets                                                                 *)

Message(type, id) == [type |-> type, id |-> id]

Connecting(s) == [s EXCEPT !.link = "connecting", !.out = <<>>, !.in = <<>>]

(* emit                                                                    *)
Sending(s, m) == IF s.link = "closed" THEN s ELSE [s EXCEPT !.out = Append(@, m)]

(* disconnect(): what was sent still arrives, and nothing is heard of it.  *)
Disconnected(s) ==
    [link |-> "closed", out |-> IF s.link = "open" THEN s.out ELSE <<>>, in |-> <<>>]

Dropping(n) == [m \in Attempt |-> IF m = n THEN Disconnected(sockets[m]) ELSE sockets[m]]
Emitting(n, m) == [sockets EXCEPT ![n] = Sending(@, m)]

(* The server seats or refuses a join; a leave gives up the sender's seat. *)
Serve(n) ==
    LET s == sockets[n]
        m == Head(s.out)
        reply(type) == sockets' = [sockets EXCEPT
            ![n].out = Tail(@),
            ![n].in = IF s.link = "open" THEN Append(@, Message(type, m.id)) ELSE @]
    IN  /\ s.link # "connecting" /\ s.out # <<>>
        /\ \/ /\ m.type = "join" /\ reply("joined")
              /\ seat' = [seat EXCEPT ![m.id] = n]
           \/ m.type = "join" /\ reply("refused") /\ UNCHANGED seat
           \/ m.type = "media" /\ reply("noted") /\ UNCHANGED seat
           \/ /\ m.type = "leave" /\ reply("left")
              /\ seat' = [c \in Attempt |-> IF seat[c] = n THEN None ELSE seat[c]]
        /\ UNCHANGED <<page, saved, used, breaks, wanted, late>>

(* The removal timer of a member whose socket is gone.                     *)
RemoveMember(c) ==
    /\ seat[c] # None
    /\ sockets[seat[c]].link # "open" /\ sockets[seat[c]].out = <<>>
    /\ seat' = [seat EXCEPT ![c] = None]
    /\ UNCHANGED <<page, saved, sockets, used, breaks, wanted, late>>

(* The connection is lost: the disconnect event.                           *)
Break(n) ==
    /\ sockets[n].link = "open" /\ breaks < MaxBreaks
    /\ breaks' = breaks + 1
    /\ sockets' = [sockets EXCEPT ![n] = Connecting(@)]
    /\ page' = [page EXCEPT !.ackTimer = None]
    /\ UNCHANGED <<saved, seat, used, wanted, late>>

(* The connect event, and emitJoinRequest.                                 *)
Connect(n) ==
    LET c == page.activeSession
        s == [sockets[n] EXCEPT !.link = "open"]
    IN  /\ sockets[n].link = "connecting"
        /\ sockets' = [sockets EXCEPT ![n] = IF c = None THEN s ELSE Sending(s, Message("join", c))]
        /\ page' = [page EXCEPT !.ackTimer = IF c = None THEN @ ELSE n]
        /\ UNCHANGED <<saved, seat, used, breaks, wanted, late>>
-----------------------------------------------------------------------------
(* Joining                                                                 *)

(* Slip: joinRoom lets go of the socket of an earlier attempt.             *)
Forget(n) == sockets

Hangup(n) == Dropping(n)

(* joinRoom, for the client session c.                                     *)
JoinRoom(c, automatic) ==
    LET n == used + 1
    IN  /\ used < MaxAttempts
        /\ used' = n /\ wanted' = n
        /\ sockets' = [Hangup(page.socket) EXCEPT ![n] = Connecting(@)]
        /\ page' = [page EXCEPT
               !.joinState = "joining", !.socket = n, !.activeSession = c,
               !.hasJoined = FALSE, !.preview = FALSE,
               !.ackTimer = None, !.initialTimer = n,
               !.leaveOperation = @ + 1, !.autoRejoined = automatic]
        /\ UNCHANGED <<seat, breaks, late>>

(* The form is submitted: it makes a clientSessionId and stores it.        *)
SubmitForm ==
    /\ page.joinState = "error" \/ (page.joinState = "idle" /\ saved = None)
    /\ JoinRoom(used + 1, FALSE)
    /\ saved' = used + 1

(* The effect that resumes a stored session.                               *)
AutoRejoin ==
    /\ page.joinState = "idle" /\ ~page.autoRejoined /\ saved # None
    /\ JoinRoom(saved, TRUE) /\ UNCHANGED saved

(* startLocalPreviewSession up to its await.                               *)
StartPreview(n) ==
    /\ sockets' = Dropping(page.socket)
    /\ page' = [page EXCEPT
           !.ackTimer = None, !.initialTimer = None, !.socket = None, !.preview = TRUE,
           !.continuing = @ \cup {[attempt |-> n, awaits |-> "previewDevices"]}]

ShowError(n) ==
    /\ sockets' = Dropping(n)
    /\ page' = [page EXCEPT
           !.ackTimer = None, !.initialTimer = None, !.activeSession = None,
           !.socket = IF @ = n THEN None ELSE @, !.joinState = "error"]

(* Slip: a join that was acknowledged may still fail.                      *)
InAnyCase == TRUE

StillJoining == ~page.hasJoined

(* failInitialJoin of attempt n; a page on localhost opens a preview.      *)
FailInitialJoin(n) == StillJoining /\ (StartPreview(n) \/ ShowError(n))

(* reconnect_failed: the socket is given up.  A joined page takes no note. *)
GiveUp(n) ==
    /\ sockets[n].link = "connecting"
    /\ \/ FailInitialJoin(n)
       \/ ~StillJoining /\ sockets' = Dropping(n) /\ UNCHANGED page
    /\ UNCHANGED <<saved, seat, used, breaks, wanted, late>>

JoinTimeout(n) ==
    /\ n \in {page.ackTimer, page.initialTimer}
    /\ \/ FailInitialJoin(n)
       \/ ~StillJoining /\ page' = [page EXCEPT !.ackTimer = None] /\ UNCHANGED sockets
    /\ UNCHANGED <<saved, seat, used, breaks, wanted, late>>

Received(n, type) ==
    /\ sockets[n].link = "open" /\ sockets[n].in # <<>>
    /\ Head(sockets[n].in).type = type
Id(n) == Head(sockets[n].in).id
Consumed(n) == [sockets EXCEPT ![n].in = Tail(@)]

(* The acknowledgement of room:join, up to its first await.                *)
JoinAcknowledged(n) ==
    /\ Received(n, "joined") /\ sockets' = Consumed(n)
    /\ page' = [page EXCEPT
           !.ackTimer = None, !.initialTimer = None, !.hasJoined = TRUE,
           !.activeSession = Id(n),
           !.continuing = @ \cup {[attempt |-> n, awaits |-> "devices"]}]
    /\ UNCHANGED <<saved, seat, used, breaks, wanted, late>>

JoinRefused(n) ==
    /\ Received(n, "refused")
    /\ \/ FailInitialJoin(n)
       \/ /\ ~StillJoining /\ sockets' = Consumed(n)
          /\ page' = [page EXCEPT !.ackTimer = None]
    /\ UNCHANGED <<saved, seat, used, breaks, wanted, late>>

(* setJoinState('joined') at the end of a callback.                        *)
ShowRoom(w) ==
    /\ page' = [page EXCEPT !.joinState = "joined", !.continuing = @ \ {w}]
    /\ late' = (late \/ w.attempt # wanted)

(* enumerateDevices is over; sendMediaState uses whatever socket is there. *)
(* A preview does not wait for the answer, and nobody needs it.            *)
DevicesListed(w) ==
    /\ w \in page.continuing /\ w.awaits \in {"devices", "previewDevices"}
    /\ IF w.awaits = "previewDevices" \/ page.socket = None
       THEN ShowRoom(w) /\ UNCHANGED sockets
       ELSE /\ sockets' = Emitting(page.socket, Message("media", w.attempt))
            /\ page' = [page EXCEPT
                   !.continuing = (@ \ {w}) \cup {[w EXCEPT !.awaits = "media"]}]
            /\ UNCHANGED late
    /\ UNCHANGED <<saved, seat, used, breaks, wanted>>

MediaStateNoted(n) ==
    /\ Received(n, "noted") /\ sockets' = Consumed(n)
    /\ ShowRoom([attempt |-> Id(n), awaits |-> "media"])
    /\ UNCHANGED <<saved, seat, used, breaks, wanted>>
-----------------------------------------------------------------------------
(* Leaving                                                                 *)

TornDown(p) == [p EXCEPT
    !.socket = None, !.activeSession = None, !.hasJoined = FALSE, !.preview = FALSE,
    !.ackTimer = None, !.initialTimer = None]

(* handleLeaveRoom and leaveRoom; the button is on the page of a room.     *)
LeaveRoom ==
    LET id == page.leaveOperation + 1
        left == [page EXCEPT !.leaveOperation = id, !.joinState = "idle"]
    IN  /\ page.joinState = "joined"
        /\ saved' = None /\ wanted' = None
        /\ IF page.socket # None /\ sockets[page.socket].link = "open"
           THEN /\ sockets' = Emitting(page.socket, Message("leave", id))
                /\ page' = [left EXCEPT !.leaves = @ \cup {id}]
           ELSE sockets' = Dropping(page.socket) /\ page' = TornDown(left)
        /\ UNCHANGED <<seat, used, breaks, late>>

(* Slip: a leave that a new join superseded is finished all the same.      *)
AnyLeave(id) == TRUE

IsLastOperation(id) == id = page.leaveOperation

(* finishLeave, once per operation: acknowledged, or after 1.5 seconds.    *)
FinishLeave(id, net) ==
    LET done == [page EXCEPT !.leaves = @ \ {id}]
    IN  IF IsLastOperation(id)
        THEN /\ page' = TornDown(done)
             /\ sockets' = [n \in Attempt |->
                    IF n = page.socket THEN Disconnected(net[n]) ELSE net[n]]
        ELSE page' = done /\ sockets' = net

LeaveAcknowledged(n) ==
    /\ Received(n, "left") /\ FinishLeave(Id(n), Consumed(n))
    /\ UNCHANGED <<saved, seat, used, breaks, wanted, late>>

LeaveTimeout ==
    /\ \E id \in page.leaves : FinishLeave(id, sockets)
    /\ UNCHANGED <<saved, seat, used, breaks, wanted, late>>

(* The page is reloaded: only the storage of the session survives.         *)
Reload ==
    /\ page # NewPage /\ page' = NewPage
    /\ sockets' = Dropping(page.socket) /\ wanted' = None
    /\ UNCHANGED <<saved, seat, used, breaks, late>>
-----------------------------------------------------------------------------
User == SubmitForm \/ LeaveRoom \/ Reload

Progress ==
    \/ AutoRejoin \/ LeaveTimeout
    \/ \E n \in Attempt :
          \/ Serve(n) \/ Connect(n) \/ GiveUp(n) \/ JoinTimeout(n)
          \/ JoinAcknowledged(n) \/ JoinRefused(n) \/ MediaStateNoted(n)
          \/ LeaveAcknowledged(n) \/ RemoveMember(n)
    \/ \E w \in page.continuing : DevicesListed(w)

Next == User \/ Progress \/ \E n \in Attempt : Break(n)

(* The server and the event loop go on, timers fire and the reconnecting   *)
(* socket succeeds or gives up; nobody has to click, and nothing has to    *)
(* break.                                                                  *)
Spec == Init /\ [][Next]_vars /\ WF_vars(Progress)
-----------------------------------------------------------------------------
(* joinRoom, failures, leaves and reloads never leave a socket behind that *)
(* the page has forgotten and that keeps a participant in the room.        *)
NoForgottenSocket ==
    \A n \in Attempt : sockets[n].link \in {"connecting", "open"} => n = page.socket

(* The page of a room stands on the attempt that the user asked for, with  *)
(* its socket and its session, unless a callback of another attempt came   *)
(* late.                                                                   *)
RoomHasItsSession ==
    page.joinState = "joined" /\ ~page.preview /\ ~late =>
        /\ wanted # None /\ page.socket = wanted
        /\ page.hasJoined /\ page.activeSession # None

(* A join that was reported as failed is not shown as joined after all by  *)
(* an answer of its own that comes late.                                   *)
FailureStands ==
    [][page.joinState = "error" => page'.joinState # "joined" \/ late']_vars

(* A callback awaits the answer to a media state that a break has lost:    *)
(* emit has no timeout.                                                    *)
AnswerLost ==
    \E w \in page.continuing :
        /\ w.awaits = "media"
        /\ \A n \in Attempt : sockets[n].link # "closed" =>
               /\ Message("media", w.attempt) \notin Range(sockets[n].out)
               /\ Message("noted", w.attempt) \notin Range(sockets[n].in)

(* A join comes to an end, with the room or with an error, unless the      *)
(* connection broke between the acknowledgement and the page of the room.  *)
JoinIsSettled ==
    page.joinState = "joining" ~> page.joinState # "joining" \/ AnswerLost

(* The server does not keep a seat for a socket that the page let go.      *)
AbandonedSeatsAreFreed ==
    \A c \in Attempt : seat[c] # None ~> seat[c] \in {None, page.socket}
=============================================================================
