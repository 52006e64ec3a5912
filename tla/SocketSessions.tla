---------------------------- MODULE SocketSessions ----------------------------
(***************************************************************************)
(* services/socket-session-mapping.ts: which participant a socket speaks   *)
(* for (socketSessions) and which socket a participant is reached at       *)
(* (participantEndpoints).  A mapping is a record of the two stores; each  *)
(* operator is one method, from the stores before it to the stores after.  *)
(***************************************************************************)
EXTENDS Identifiers

SessionMapping == [session:  [Socket -> Seat],
                   endpoint: [Participant -> Socket \cup {NoSocket}]]

EmptyMapping == [session  |-> [s \in Socket |-> NoSeat],
                 endpoint |-> [p \in Participant |-> NoSocket]]

(* Slip: unbinding and rebinding leave the endpoint store as it is.        *)
KeepEndpoint(endpoint, p, s) == endpoint

(* The endpoint is deleted only while it still names this socket.          *)
DropEndpoint(endpoint, p, s) ==
    [x \in Participant |-> IF x = p /\ endpoint[x] = s THEN NoSocket ELSE endpoint[x]]

(* Slip: a rebind does not look for the participant's previous socket.     *)
NeverReplaced(m, s, p) == NoSocket

(* The socket whose session a bind of p to s takes away: bindSocketSession *)
(* returns it as replacedSocketId.                                         *)
ReplacedSocket(m, s, p) == IF m.endpoint[p] = s THEN NoSocket ELSE m.endpoint[p]

BindSocketSession(m, s, r, p) ==
    LET old      == m.session[s].participant
        replaced == ReplacedSocket(m, s, p)
        kept     == IF old = p THEN m.endpoint ELSE DropEndpoint(m.endpoint, old, s)
    IN  [session  |-> [x \in Socket |-> IF x = s THEN SeatOf(r, p)
                                        ELSE IF x = replaced THEN NoSeat
                                        ELSE m.session[x]],
         endpoint |-> [kept EXCEPT ![p] = s]]

(* For a socket without a session (NoSocket included) nothing changes.     *)
UnbindSocketSession(m, s) ==
    [session  |-> [x \in Socket |-> IF x = s THEN NoSeat ELSE m.session[x]],
     endpoint |-> IF s \in Socket
                  THEN DropEndpoint(m.endpoint, m.session[s].participant, s)
                  ELSE m.endpoint]

(* getSocketSession: NoSeat for a socket the store does not know.          *)
SocketSession(m, s) == IF s \in Socket THEN m.session[s] ELSE NoSeat
=============================================================================
