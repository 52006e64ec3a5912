----------------------------- MODULE StoreLemmas -----------------------------
(***************************************************************************)
(* What the methods of the two stores of the server do to them: the room   *)
(* store to a well-typed directory, the socket session mapping to its two  *)
(* maps.                                                                   *)
(***************************************************************************)
EXTENDS RoomStore, SocketSessions, TLAPS

(* The oldest of a set of participants is one of them. *)
LEMMA OldestInside == \A S : Oldest(S) \subseteq S
BY DEF Oldest

(* join of a new participant and reconnect *)
LEMMA JoinTyped ==
    ASSUME NEW d \in RoomDirectory, NEW r \in Room, NEW p \in Participant
    PROVE  JoinRoom(d, r, p) \in RoomDirectory /\ ReconnectToRoom(d, p) \in RoomDirectory
BY DEF RoomDirectory, JoinRoom, ReconnectToRoom

(* leaveParticipant, markParticipantReconnecting and the grace period's    *)
(* finalizeReconnectingParticipantLeave *)
LEMMA LeaveTyped ==
    ASSUME NEW d \in RoomDirectory, NEW r \in Room \cup {NoRoom}, NEW p \in Participant
    PROVE  LeaveRoom(d, r, p) \in RoomDirectory
<1>1. Members(d, r) \subseteq Participant
  BY DEF Members
<1>2. ReassignOwner(d.owner \ {p}, Members(d, r) \ {p}) \subseteq Participant
  BY <1>1, OldestInside DEF ReassignOwner, RoomDirectory
<1>3. CASE d.member[p] # r
  BY <1>3 DEF LeaveRoom, RemoveRoomIfEmpty, RoomDirectory
<1>4. CASE d.member[p] = r
  BY <1>2, <1>4 DEF LeaveRoom, RoomDirectory
<1> QED
  BY <1>3, <1>4

LEMMA MarkTyped ==
    ASSUME NEW d \in RoomDirectory, NEW r \in Room \cup {NoRoom}, NEW p \in Participant
    PROVE  MarkReconnecting(d, r, p) \in RoomDirectory
BY DEF RoomDirectory, MarkReconnecting, RemoveRoomIfEmpty

LEMMA FinalizeTyped ==
    ASSUME NEW d \in RoomDirectory, NEW r \in Room \cup {NoRoom}, NEW p \in Participant
    PROVE  FinalizeReconnectingLeave(d, r, p) \in RoomDirectory
BY LeaveTyped DEF FinalizeReconnectingLeave

(* A departure takes one participant out, and nobody else's ownership. *)
LEMMA LeaveSparesOthers ==
    ASSUME NEW d \in RoomDirectory, NEW p \in Participant
    PROVE  LET e == LeaveRoom(d, d.member[p], p)
           IN  /\ e.member = [d.member EXCEPT ![p] = NoRoom]
               /\ d.owner \ {p} \subseteq e.owner
               /\ e.reconnecting = d.reconnecting \ {p}
BY DEF LeaveRoom, ReassignOwner

(* A lost connection changes nothing but the connection state. *)
LEMMA MarkSparesRoom ==
    ASSUME NEW d \in RoomDirectory, NEW p \in Participant
    PROVE  LET e == MarkReconnecting(d, d.member[p], p)
           IN  /\ e.member = d.member
               /\ e.owner = d.owner
               /\ e.reconnecting = d.reconnecting \cup {p}
BY DEF MarkReconnecting, RoomDirectory
-----------------------------------------------------------------------------
(* A seat made of a room and a participant is a seat. *)
LEMMA SeatTyped ==
    /\ NoSeat \in Seat
    /\ \A r \in Room, p \in Participant : SeatOf(r, p) \in Seat
BY DEF NoSeat, Seat, SeatOf

(* bindSocketSession *)
LEMMA BindTyped ==
    ASSUME NEW m \in SessionMapping, NEW s \in Socket, NEW r \in Room,
           NEW p \in Participant
    PROVE  BindSocketSession(m, s, r, p) \in SessionMapping
<1>1. \A x \in Socket : m.session[x] \in Seat /\ m.session \in [Socket -> Seat]
  BY DEF SessionMapping
<1>2. m.endpoint \in [Participant -> Socket \cup {NoSocket}]
  BY DEF SessionMapping
<1>3. \A q : DropEndpoint(m.endpoint, q, s) \in [Participant -> Socket \cup {NoSocket}]
  BY <1>2 DEF DropEndpoint
<1>4. BindSocketSession(m, s, r, p).session \in [Socket -> Seat]
  BY <1>1, SeatTyped DEF BindSocketSession
<1>5. BindSocketSession(m, s, r, p).endpoint \in [Participant -> Socket \cup {NoSocket}]
  BY <1>2, <1>3 DEF BindSocketSession
<1> QED
  BY <1>4, <1>5 DEF BindSocketSession, SessionMapping

(* unbindSocketSession *)
LEMMA UnbindTyped ==
    ASSUME NEW m \in SessionMapping, NEW s \in Socket \cup {NoSocket}
    PROVE  UnbindSocketSession(m, s) \in SessionMapping
<1>1. m.session \in [Socket -> Seat] /\ m.endpoint \in [Participant -> Socket \cup {NoSocket}]
  BY DEF SessionMapping
<1>2. [x \in Socket |-> IF x = s THEN NoSeat ELSE m.session[x]] \in [Socket -> Seat]
  BY <1>1, SeatTyped
<1>3. \A q : DropEndpoint(m.endpoint, q, s) \in [Participant -> Socket \cup {NoSocket}]
  BY <1>1 DEF DropEndpoint
<1> QED
  BY <1>1, <1>2, <1>3 DEF UnbindSocketSession, SessionMapping

(* The two stores are inverse to each other.                               *)
InverseStores(m) == \A s \in Socket, p \in Participant :
                  m.session[s].participant = p <=> m.endpoint[p] = s

(* bindSocketSession keeps the two stores inverse, gives s the seat and    *)
(* takes it from the replaced socket, and touches no third socket.         *)
LEMMA BindEffect ==
    ASSUME NEW m \in SessionMapping, InverseStores(m),
           NEW s \in Socket, NEW r \in Room, NEW p \in Participant
    PROVE  LET b == BindSocketSession(m, s, r, p)
           IN  /\ InverseStores(b)
               /\ b.session[s] = SeatOf(r, p)
               /\ \A x \in Socket \ {s} :
                     b.session[x] = IF m.session[x].participant = p THEN NoSeat
                                    ELSE m.session[x]
<1> DEFINE b   == BindSocketSession(m, s, r, p)
           old == m.session[s].participant
<1>1. /\ m.session \in [Socket -> Seat]
      /\ m.endpoint \in [Participant -> Socket \cup {NoSocket}]
  BY DEF SessionMapping
<1>2. \A x \in Socket : x = ReplacedSocket(m, s, p) <=>
                             x # s /\ m.session[x].participant = p
  BY <1>1, SocketAssumption DEF ReplacedSocket, InverseStores
<1>3. /\ b.session[s] = SeatOf(r, p)
      /\ \A x \in Socket \ {s} : b.session[x] = IF m.session[x].participant = p
                                                THEN NoSeat ELSE m.session[x]
  BY <1>2 DEF BindSocketSession
<1>4. \A q \in Participant : b.endpoint[q] =
          IF q = p THEN s ELSE IF m.endpoint[q] = s THEN NoSocket ELSE m.endpoint[q]
  BY <1>1 DEF BindSocketSession, DropEndpoint, InverseStores
<1>5. InverseStores(b)
  <2> SUFFICES ASSUME NEW x \in Socket, NEW q \in Participant
               PROVE  b.session[x].participant = q <=> b.endpoint[q] = x
    BY DEF InverseStores
  <2>1. NoSeat.participant # q
    BY DEF NoSeat, NoParticipant, Participant
  <2>2. m.session[x].participant = q <=> m.endpoint[q] = x
    BY DEF InverseStores
  <2>3. SeatOf(r, p).participant = p
    BY DEF SeatOf
  <2> QED
    BY <1>3, <1>4, <2>1, <2>2, <2>3, SocketAssumption
<1> QED
  BY <1>3, <1>5

(* unbindSocketSession keeps them inverse and takes only the seat of s.    *)
LEMMA UnbindEffect ==
    ASSUME NEW m \in SessionMapping, InverseStores(m), NEW s \in Socket \cup {NoSocket}
    PROVE  LET u == UnbindSocketSession(m, s)
           IN  /\ InverseStores(u)
               /\ \A x \in Socket : u.session[x] = IF x = s THEN NoSeat ELSE m.session[x]
<1> DEFINE u == UnbindSocketSession(m, s)
<1>1. /\ m.session \in [Socket -> Seat]
      /\ m.endpoint \in [Participant -> Socket \cup {NoSocket}]
  BY DEF SessionMapping
<1>2. \A x \in Socket : u.session[x] = IF x = s THEN NoSeat ELSE m.session[x]
  BY DEF UnbindSocketSession
<1>3. \A q \in Participant : u.endpoint[q] =
          IF m.endpoint[q] = s THEN NoSocket ELSE m.endpoint[q]
  BY <1>1, SocketAssumption DEF UnbindSocketSession, DropEndpoint, InverseStores
<1>4. InverseStores(u)
  <2> SUFFICES ASSUME NEW x \in Socket, NEW q \in Participant
               PROVE  u.session[x].participant = q <=> u.endpoint[q] = x
    BY DEF InverseStores
  <2>1. NoSeat.participant # q
    BY DEF NoSeat, NoParticipant, Participant
  <2>2. m.session[x].participant = q <=> m.endpoint[q] = x
    BY DEF InverseStores
  <2> QED
    BY <1>2, <1>3, <2>1, <2>2, SocketAssumption
<1> QED
  BY <1>2, <1>4
=============================================================================
