------------------------- MODULE RoomLifecycleProofs -------------------------
(***************************************************************************)
(* Theorems about RoomLifecycle for every number of sockets, rooms, tokens *)
(* and participants.                                                       *)
(***************************************************************************)
EXTENDS RoomLifecycleRefinement, StoreLemmas, FiniteSetTheorems, WellFoundedInduction

(***************************************************************************)
(* The service methods map well-typed stores to well-typed stores.         *)
(***************************************************************************)

(* bindTokenToParticipant and unbindParticipant *)
LEMMA AuthTyped ==
    ASSUME NEW a \in AuthRegistry, NEW p \in Participant
    PROVE  /\ UnbindParticipant(a, p) \in AuthRegistry
           /\ \A t \in Token, r \in Room :
                 BindTokenToParticipant(a, t, r, p) \in AuthRegistry
BY SeatTyped DEF AuthRegistry, UnbindParticipant, BindTokenToParticipant

(* joinParticipant *)
LEMMA AdmissionTyped ==
    ASSUME NEW d \in RoomDirectory, NEW r \in Room, NEW p \in Participant
    PROVE  AfterAdmission(d, r, p) \in RoomDirectory
BY DEF RoomDirectory, AfterAdmission, ReconnectToRoom, JoinRoom

(***************************************************************************)
(* Type correctness.                                                       *)
(***************************************************************************)

(* The part of a join that follows joinParticipant. *)
LEMMA SeatedTyped ==
    ASSUME TypeOK,
           NEW j \in [Socket -> SUBSET Room], NEW m \in SessionMapping,
           NEW a \in AuthRegistry, NEW tm \in [Participant -> Room \cup {NoRoom}],
           NEW s \in Socket, NEW t \in Token, NEW r \in Room, NEW p \in Participant,
           Seated(j, m, a, tm, s, t, r, p)
    PROVE  /\ auth' \in AuthRegistry
           /\ mapping' \in SessionMapping
           /\ joined' \in [Socket -> SUBSET Room]
           /\ timers' \in [Participant -> Room \cup {NoRoom}]
           /\ issued' \in [Participant -> Room \cup {NoRoom}]
<1>1. auth' \in AuthRegistry
  BY AuthTyped DEF Seated
<1>2. mapping' \in SessionMapping
  BY BindTyped DEF Seated
<1>3. joined' \in [Socket -> SUBSET Room]
  BY DEF Seated, Evict, Subscribe, Unsubscribe
<1>4. timers' \in [Participant -> Room \cup {NoRoom}]
  BY DEF Seated, Cancel
<1>5. issued' \in [Participant -> Room \cup {NoRoom}]
  BY DEF Seated, TypeOK
<1> QED
  BY <1>1, <1>2, <1>3, <1>4, <1>5

LEMMA TypeInit == Init => TypeOK
BY SeatTyped DEF Init, TypeOK, RoomDirectory, EmptyDirectory, SessionMapping, EmptyMapping,
   AuthRegistry, EmptyRegistry

LEMMA TypeNext == TypeOK /\ [Next]_vars => TypeOK'
<1> SUFFICES ASSUME TypeOK, [Next]_vars PROVE TypeOK'
  OBVIOUS
<1> USE DEF TypeOK
<1>1. ASSUME NEW s \in Socket, Connect(s) PROVE TypeOK'
  BY <1>1 DEF Connect
<1>2. ASSUME NEW s \in Socket, NEW t \in Token, NEW r \in Room, NEW id \in Identity,
             Join(s, t, r, id)
      PROVE  TypeOK'
  <2>1. PICK p \in Participant : /\ rooms' = AfterAdmission(rooms, r, p)
                                 /\ Seated(joined, mapping, auth, timers, s, t, r, p)
    BY <1>2 DEF Join
  <2>2. rooms' \in RoomDirectory
    BY <2>1, AdmissionTyped
  <2> QED
    BY <1>2, <2>1, <2>2, SeatedTyped DEF Join
<1>3. ASSUME NEW s \in Socket, NEW t \in Token, NEW r \in Room, NEW id \in Identity,
             JoinWithTransfer(s, t, r, id)
      PROVE  TypeOK'
  <2> DEFINE seat == auth.binding[t]
             q    == seat.participant
             e    == mapping.endpoint[q]
             vacated == LeaveRoom(rooms, seat.room, q)
             j    == Evict(joined, s, e, seat.room)
             m    == UnbindSocketSession(mapping, e)
             a    == UnbindParticipant(auth, q)
             tm   == Cancel(timers, q)
  <2>1. seat.room \in Room /\ q \in Participant
    BY <1>3 DEF JoinWithTransfer, HoldsSeat, AuthRegistry, Seat
  <2>2. e \in Socket \cup {NoSocket}
    BY <2>1 DEF SessionMapping
  <2>3. vacated \in RoomDirectory
    BY <2>1, LeaveTyped
  <2>4. j \in [Socket -> SUBSET Room]
    BY DEF Evict, Unsubscribe
  <2>5. m \in SessionMapping
    BY <2>2, UnbindTyped
  <2>6. a \in AuthRegistry
    BY <2>1, AuthTyped
  <2>7. tm \in [Participant -> Room \cup {NoRoom}]
    BY DEF Cancel
  <2>8. PICK p \in Participant : /\ rooms' = AfterAdmission(vacated, r, p)
                                 /\ Seated(j, m, a, tm, s, t, r, p)
    BY <1>3 DEF JoinWithTransfer
  <2>9. rooms' \in RoomDirectory
    BY <2>3, <2>8, AdmissionTyped
  <2> HIDE DEF j, m, a, tm
  <2>10. transport' = transport
    BY <1>3 DEF JoinWithTransfer
  <2> QED
    BY <2>4, <2>5, <2>6, <2>7, <2>8, <2>9, <2>10, SeatedTyped
<1>4. ASSUME NEW s \in Socket, Close(s)
      PROVE  /\ transport' \in [Socket -> {"new", "open", "closed"}]
             /\ joined' \in [Socket -> SUBSET Room]
             /\ mapping' \in SessionMapping
             /\ issued' \in [Participant -> Room \cup {NoRoom}]
  BY <1>4, UnbindTyped DEF Close
<1>5. ASSUME NEW s \in Socket, mapping.session[s] # NoSeat
      PROVE  mapping.session[s].room \in Room /\ mapping.session[s].participant \in Participant
  BY <1>5 DEF SessionMapping, Seat
<1>6. ASSUME NEW s \in Socket, Leave(s) PROVE TypeOK'
  <2>1. rooms' \in RoomDirectory /\ auth' \in AuthRegistry
    BY <1>5, <1>6, LeaveTyped, AuthTyped DEF Leave, Depart
  <2>2. timers' \in [Participant -> Room \cup {NoRoom}]
    BY <1>6 DEF Leave, Depart, Cancel
  <2> QED
    BY <1>6, <2>1, <2>2, UnbindTyped DEF Leave, Unsubscribe
<1>7. ASSUME NEW s \in Socket, DisconnectByClient(s) PROVE TypeOK'
  <2>1. rooms' \in RoomDirectory /\ auth' \in AuthRegistry
    BY <1>5, <1>7, LeaveTyped, AuthTyped DEF DisconnectByClient
  <2>2. timers' \in [Participant -> Room \cup {NoRoom}]
    BY <1>7 DEF DisconnectByClient, Cancel
  <2> QED
    BY <1>4, <1>7, <2>1, <2>2 DEF DisconnectByClient
<1>8. ASSUME NEW s \in Socket, DisconnectIdle(s) PROVE TypeOK'
  BY <1>4, <1>8 DEF DisconnectIdle
<1>9. ASSUME NEW s \in Socket, ConnectionLost(s) PROVE TypeOK'
  <2>1. rooms' \in RoomDirectory
    BY <1>5, <1>9, MarkTyped DEF ConnectionLost
  <2>2. timers' \in [Participant -> Room \cup {NoRoom}]
    BY <1>5, <1>9 DEF ConnectionLost
  <2> QED
    BY <1>4, <1>9, <2>1, <2>2 DEF ConnectionLost
<1>10. ASSUME NEW s \in Socket, ConnectionLostWithoutTimer(s) PROVE TypeOK'
  <2>1. rooms' \in RoomDirectory /\ auth' \in AuthRegistry
    BY <1>5, <1>10, MarkTyped, FinalizeTyped, AuthTyped DEF ConnectionLostWithoutTimer
  <2> QED
    BY <1>4, <1>10, <2>1 DEF ConnectionLostWithoutTimer
<1>11. ASSUME NEW p \in Participant, GraceExpired(p) PROVE TypeOK'
  <2>1. rooms' \in RoomDirectory /\ auth' \in AuthRegistry
    BY <1>11, FinalizeTyped, AuthTyped DEF GraceExpired
  <2> QED
    BY <1>11, <2>1 DEF GraceExpired, Cancel
<1>12. ASSUME Sweep PROVE TypeOK'
  BY <1>12 DEF Sweep, SweepEmptyRooms, RoomDirectory
<1>13. CASE UNCHANGED vars
  BY <1>13 DEF vars
<1> QED
  BY <1>1, <1>2, <1>3, <1>6, <1>7, <1>8, <1>9, <1>10, <1>11, <1>12, <1>13
     DEF Next, JoinRequest, Disconnect

(* Every store of the server keeps its shape under every handler, whatever *)
(* the clients do.                                                         *)
THEOREM TypeCorrect == Spec => []TypeOK
BY TypeInit, TypeNext, PTL DEF Spec

(***************************************************************************)
(* The inductive invariant.  The checked invariants are not inductive one  *)
(* by one: a session is live because only one socket speaks for its        *)
(* participant, a timer is due because its room is right, a rejoin is safe *)
(* because the browser token names a member.  They are proved together,    *)
(* with three facts about participant ids that no handler tests.           *)
(***************************************************************************)
IdsInOrder ==
    \A p, q \in Participant : issued[p] = NoRoom /\ issued[q] # NoRoom => q < p

MembersIssued ==
    \A p \in Participant : rooms.member[p] # NoRoom => issued[p] = rooms.member[p]

ReconnectingAreMembers ==
    \A p \in rooms.reconnecting : rooms.member[p] # NoRoom

LifecycleInv ==
    /\ TypeOK
    /\ SessionsMatchEndpoints
    /\ SessionsAreLive
    /\ TimersForReconnecting
    /\ TokensHoldLiveSeats
    /\ EveryMemberHasToken
    /\ OldestOwnsRoom
    /\ IdsInOrder
    /\ MembersIssued
    /\ ReconnectingAreMembers

LEMMA InvInit == Init => LifecycleInv
<1> SUFFICES ASSUME Init PROVE LifecycleInv
  OBVIOUS
<1>1. TypeOK
  BY TypeInit
<1>2. \A p \in Participant : rooms.member[p] = NoRoom /\ issued[p] = NoRoom
                               /\ auth.tokenOf[p] = NoToken /\ timers[p] = NoRoom
                               /\ mapping.endpoint[p] = NoSocket
  BY DEF Init, EmptyDirectory, EmptyRegistry, EmptyMapping
<1>3. /\ \A s \in Socket : mapping.session[s] = NoSeat
      /\ \A t \in Token : auth.binding[t] = NoSeat
      /\ rooms.open = {} /\ rooms.owner = {} /\ rooms.reconnecting = {}
  BY DEF Init, EmptyDirectory, EmptyRegistry, EmptyMapping
<1>4. \A p \in Participant : NoSeat.participant # p
  BY DEF NoSeat, Participant, NoParticipant
<1>5. SessionsMatchEndpoints /\ SessionsAreLive
  BY <1>2, <1>3, <1>4, SocketAssumption DEF SessionsMatchEndpoints, SessionsAreLive
<1>6. TimersForReconnecting /\ ReconnectingAreMembers
  BY <1>2, <1>3 DEF TimersForReconnecting, ReconnectingAreMembers
<1>7. TokensHoldLiveSeats /\ EveryMemberHasToken
  BY <1>2, <1>3, <1>4, TokenAssumption DEF TokensHoldLiveSeats, EveryMemberHasToken
<1>8. \A r \in Room : Members(rooms, r) = {}
  BY <1>2, RoomAssumption DEF Members
<1>9. OldestOwnsRoom
  BY <1>3, <1>8, OldestInside DEF OldestOwnsRoom
<1>10. IdsInOrder /\ MembersIssued
  BY <1>2 DEF IdsInOrder, MembersIssued
<1> QED
  BY <1>1, <1>5, <1>6, <1>7, <1>9, <1>10 DEF LifecycleInv

(***************************************************************************)
(* What the service methods do to their stores.                            *)
(***************************************************************************)

(* Where everybody is, and who is reconnecting, after the room methods.    *)
LEMMA LeaveEffect ==
    ASSUME NEW d \in RoomDirectory, NEW r \in Room, NEW p \in Participant, d.member[p] = r
    PROVE  /\ LeaveRoom(d, r, p).member = [d.member EXCEPT ![p] = NoRoom]
           /\ LeaveRoom(d, r, p).reconnecting = d.reconnecting \ {p}
BY DEF LeaveRoom

LEMMA MarkEffect ==
    ASSUME NEW d \in RoomDirectory, NEW r \in Room, NEW p \in Participant, d.member[p] = r
    PROVE  /\ MarkReconnecting(d, r, p).member = d.member
           /\ MarkReconnecting(d, r, p).owner = d.owner
           /\ MarkReconnecting(d, r, p).open = d.open
           /\ MarkReconnecting(d, r, p).reconnecting = d.reconnecting \cup {p}
BY DEF RoomDirectory, MarkReconnecting

LEMMA AdmissionEffect ==
    ASSUME NEW d \in RoomDirectory, NEW r \in Room, NEW p \in Participant
    PROVE  /\ AfterAdmission(d, r, p).member = [d.member EXCEPT ![p] = r]
           /\ AfterAdmission(d, r, p).reconnecting = d.reconnecting \ {p}
BY DEF RoomDirectory, AfterAdmission, ReconnectToRoom, JoinRoom

LEMMA ReadmissionEffect ==
    ASSUME NEW d \in RoomDirectory, NEW r \in Room, NEW p \in Participant, d.member[p] = r
    PROVE  /\ AfterAdmission(d, r, p).owner = d.owner
           /\ AfterAdmission(d, r, p).open = d.open
BY DEF RoomDirectory, AfterAdmission, ReconnectToRoom

OldestOwns(d) == \A r \in Room : /\ d.owner \cap Members(d, r) = Oldest(Members(d, r))
                                 /\ r \in d.open <=> Members(d, r) # {}

(* reassignOwnerIfNeeded: after a departure the oldest member owns the     *)
(* room again, whether it was the owner who left or somebody else.         *)
LEMMA LeaveKeepsOldest ==
    ASSUME NEW d \in RoomDirectory, OldestOwns(d), NEW r \in Room,
           NEW p \in Participant, d.member[p] = r
    PROVE  OldestOwns(LeaveRoom(d, r, p))
<1> DEFINE e      == LeaveRoom(d, r, p)
           others == Members(d, r) \ {p}
<1>1. /\ e.member = [d.member EXCEPT ![p] = NoRoom]
      /\ e.owner = ReassignOwner(d.owner \ {p}, others)
      /\ e.open = IF others = {} THEN d.open \ {r} ELSE d.open
  BY DEF LeaveRoom
<1>2. /\ Members(e, r) = others
      /\ \A x \in Room \ {r} : Members(e, x) = Members(d, x)
  BY <1>1, RoomAssumption DEF Members, RoomDirectory
<1>3. \A x \in Room \ {r} : Members(d, x) \cap (others \cup {p}) = {}
  BY DEF Members
<1>4. ASSUME NEW x \in Room \ {r}
      PROVE  /\ e.owner \cap Members(e, x) = Oldest(Members(e, x))
             /\ x \in e.open <=> Members(e, x) # {}
  <2>1. e.owner \cap Members(d, x) = d.owner \cap Members(d, x)
    BY <1>1, <1>3, OldestInside DEF ReassignOwner
  <2> QED
    BY <1>1, <1>2, <2>1 DEF OldestOwns
<1>5. e.owner \cap others = Oldest(others)
  <2>1. CASE others \cap (d.owner \ {p}) = {}
    BY <1>1, <2>1, OldestInside DEF ReassignOwner
  <2>2. CASE others \cap (d.owner \ {p}) # {}
    <3>1. e.owner \cap others = Oldest(Members(d, r)) \ {p}
      BY <1>1, <2>2 DEF ReassignOwner, OldestOwns
    <3>2. PICK o \in Oldest(Members(d, r)) : o # p
      BY <1>1, <2>2 DEF OldestOwns
    <3>3. Members(d, r) \subseteq Nat
      BY DEF Members, Participant
    <3>4. Oldest(others) = Oldest(Members(d, r)) \ {p}
      BY <3>2, <3>3 DEF Oldest
    <3> QED
      BY <3>1, <3>4
  <2> QED
    BY <2>1, <2>2
<1>6. r \in e.open <=> others # {}
  <2>1. r \in d.open
    BY DEF OldestOwns, Members
  <2> QED
    BY <1>1, <2>1
<1> QED
  BY <1>2, <1>4, <1>5, <1>6 DEF OldestOwns

(* join: a newcomer owns the room only if it is empty, for the newcomer is *)
(* younger than everybody in it.                                           *)
LEMMA JoinKeepsOldest ==
    ASSUME NEW d \in RoomDirectory, OldestOwns(d), NEW r \in Room,
           NEW p \in Participant, d.member[p] = NoRoom,
           \A q \in Members(d, r) : q < p
    PROVE  OldestOwns(AfterAdmission(d, r, p))
<1> DEFINE e == AfterAdmission(d, r, p)
<1>1. /\ e.member = [d.member EXCEPT ![p] = r]
      /\ e.owner = IF Members(d, r) = {} THEN d.owner \cup {p} ELSE d.owner \ {p}
      /\ e.open = d.open \cup {r}
  BY RoomAssumption DEF AfterAdmission, JoinRoom
<1>2. /\ Members(e, r) = Members(d, r) \cup {p}
      /\ \A x \in Room \ {r} : Members(e, x) = Members(d, x)
  BY <1>1, RoomAssumption DEF Members, RoomDirectory
<1>3. \A x \in Room : p \notin Members(d, x)
  BY RoomAssumption DEF Members
<1>4. ASSUME NEW x \in Room \ {r}
      PROVE  /\ e.owner \cap Members(e, x) = Oldest(Members(e, x))
             /\ x \in e.open <=> Members(e, x) # {}
  BY <1>1, <1>2, <1>3 DEF OldestOwns
<1>5. e.owner \cap Members(e, r) = Oldest(Members(e, r))
  <2>1. Members(d, r) \subseteq Nat /\ p \in Nat
    BY DEF Members, Participant
  <2>2. CASE Members(d, r) = {}
    BY <1>1, <1>2, <2>1, <2>2 DEF Oldest
  <2>3. CASE Members(d, r) # {}
    <3>1. Oldest(Members(d, r) \cup {p}) = Oldest(Members(d, r))
      BY <2>1, <2>3 DEF Oldest
    <3>2. e.owner \cap (Members(d, r) \cup {p}) = d.owner \cap Members(d, r)
      BY <1>1, <1>3, <2>3
    <3> QED
      BY <1>2, <3>1, <3>2 DEF OldestOwns
  <2> QED
    BY <2>2, <2>3
<1> QED
  BY <1>1, <1>2, <1>4, <1>5 DEF OldestOwns

(***************************************************************************)
(* The invariant as a relation of the stores, so that it can be asserted   *)
(* between the two halves of a token transfer.                             *)
(***************************************************************************)
LiveSessions(tr, j, d, m) ==
    \A s \in Socket : m.session[s] # NoSeat =>
        /\ tr[s] = "open"
        /\ m.session[s].room \in j[s]
        /\ d.member[m.session[s].participant] = m.session[s].room
        /\ m.session[s].participant \notin d.reconnecting

DueTimers(d, tm) ==
    /\ \A p \in Participant :
          tm[p] = IF p \in d.reconnecting THEN d.member[p] ELSE NoRoom
    /\ \A p \in d.reconnecting : d.member[p] # NoRoom

Linked(a) == \A t \in Token, p \in Participant :
                 a.binding[t].participant = p <=> a.tokenOf[p] = t

TokenSeats(d, a) ==
    /\ Linked(a)
    /\ \A t \in Token, p \in Participant :
          a.tokenOf[p] = t => a.binding[t] = SeatOf(d.member[p], p)
    /\ \A p \in Participant : d.member[p] # NoRoom <=> a.tokenOf[p] # NoToken

Coherent(tr, j, d, m, a, tm, iss) ==
    /\ d \in RoomDirectory /\ m \in SessionMapping /\ a \in AuthRegistry
    /\ tm \in [Participant -> Room \cup {NoRoom}]
    /\ InverseStores(m)
    /\ LiveSessions(tr, j, d, m)
    /\ DueTimers(d, tm)
    /\ TokenSeats(d, a)
    /\ OldestOwns(d)
    /\ \A p \in Participant : d.member[p] # NoRoom => iss[p] = d.member[p]

LEMMA InvIsCoherence ==
    /\ LifecycleInv => Coherent(transport, joined, rooms, mapping, auth, timers, issued)
    /\ /\ TypeOK /\ IdsInOrder
       /\ Coherent(transport, joined, rooms, mapping, auth, timers, issued)
       => LifecycleInv
<1>1. OldestOwnsRoom <=> OldestOwns(rooms)
  BY DEF OldestOwnsRoom, OldestOwns
<1>2. SessionsMatchEndpoints <=> InverseStores(mapping)
  BY DEF SessionsMatchEndpoints, InverseStores
<1>3. TypeOK => (SessionsAreLive <=> LiveSessions(transport, joined, rooms, mapping))
  BY DEF TypeOK, SessionMapping, Seat, SessionsAreLive, LiveSessions, Members
<1>4. TimersForReconnecting /\ ReconnectingAreMembers <=> DueTimers(rooms, timers)
  BY DEF TimersForReconnecting, ReconnectingAreMembers, DueTimers
<1>5. TokensHoldLiveSeats /\ EveryMemberHasToken <=> TokenSeats(rooms, auth)
  BY DEF TokensHoldLiveSeats, EveryMemberHasToken, TokenSeats, Linked
<1> QED
  BY <1>1, <1>2, <1>3, <1>4, <1>5 DEF LifecycleInv, Coherent, MembersIssued, TypeOK

(* unbindParticipant takes one pair out of the registry.                   *)
LEMMA UnbindTokenEffect ==
    ASSUME NEW a \in AuthRegistry, Linked(a), NEW p \in Participant
    PROVE  LET u == UnbindParticipant(a, p)
           IN  /\ Linked(u)
               /\ u.tokenOf = [a.tokenOf EXCEPT ![p] = NoToken]
               /\ \A t \in Token : u.binding[t] = IF a.tokenOf[p] = t THEN NoSeat
                                                  ELSE a.binding[t]
<1> DEFINE u == UnbindParticipant(a, p)
<1>1. /\ u.tokenOf = [a.tokenOf EXCEPT ![p] = NoToken]
      /\ \A t \in Token : u.binding[t] = IF a.tokenOf[p] = t THEN NoSeat ELSE a.binding[t]
  BY DEF UnbindParticipant, Linked
<1>2. Linked(u)
  <2> SUFFICES ASSUME NEW t \in Token, NEW q \in Participant
               PROVE  u.binding[t].participant = q <=> u.tokenOf[q] = t
    BY DEF Linked
  <2>1. NoSeat.participant # q
    BY DEF NoSeat, NoParticipant, Participant
  <2>2. /\ a.binding[t].participant = q <=> a.tokenOf[q] = t
        /\ a.binding[t].participant = p <=> a.tokenOf[p] = t
    BY DEF Linked
  <2>3. a.tokenOf \in [Participant -> Token \cup {NoToken}]
    BY DEF AuthRegistry
  <2> QED
    BY <1>1, <2>1, <2>2, <2>3, TokenAssumption
<1> QED
  BY <1>1, <1>2

(* The departure of q: whatever handler runs it, if it clears the timer    *)
(* and the token of q, takes the seat from the socket that spoke for q and *)
(* keeps the other sockets with a session connected and subscribed.        *)
LEMMA DepartureCoherent ==
    ASSUME NEW tr, NEW j, NEW d, NEW m, NEW a, NEW tm, NEW iss,
           Coherent(tr, j, d, m, a, tm, iss),
           NEW b \in Room, NEW q \in Participant, d.member[q] = b,
           NEW m2 \in SessionMapping, InverseStores(m2), NEW tr2, NEW j2,
           \A s \in Socket : m2.session[s] # NoSeat =>
               /\ m2.session[s] = m.session[s]
               /\ m2.session[s].participant # q
               /\ tr2[s] = "open"
               /\ m2.session[s].room \in j2[s]
    PROVE  Coherent(tr2, j2, LeaveRoom(d, b, q), m2, UnbindParticipant(a, q),
                    Cancel(tm, q), iss)
<1> DEFINE d2 == LeaveRoom(d, b, q)
           a2 == UnbindParticipant(a, q)
           t2 == Cancel(tm, q)
<1>1. /\ d2 \in RoomDirectory /\ a2 \in AuthRegistry
      /\ t2 \in [Participant -> Room \cup {NoRoom}]
  BY LeaveTyped, AuthTyped DEF Coherent, Cancel
<1>2. /\ d2.member = [d.member EXCEPT ![q] = NoRoom]
      /\ d2.reconnecting = d.reconnecting \ {q}
  <2>1. d \in RoomDirectory
    BY DEF Coherent
  <2> QED
    BY <2>1, LeaveEffect
<1>3. d.member \in [Participant -> Room \cup {NoRoom}] /\ d.reconnecting \subseteq Participant
  BY DEF Coherent, RoomDirectory
<1>4. LiveSessions(tr2, j2, d2, m2)
  <2> SUFFICES ASSUME NEW s \in Socket, m2.session[s] # NoSeat
               PROVE  /\ d2.member[m2.session[s].participant] = m2.session[s].room
                      /\ m2.session[s].participant \notin d2.reconnecting
    BY DEF LiveSessions
  <2>1. m.session[s].participant \in Participant
    BY DEF Coherent, SessionMapping, Seat
  <2> QED
    BY <1>2, <1>3, <2>1 DEF Coherent, LiveSessions
<1>5. DueTimers(d2, t2)
  BY <1>2, <1>3 DEF DueTimers, Cancel, Coherent
<1>6. TokenSeats(d2, a2)
  <2>1. /\ Linked(a2)
        /\ a2.tokenOf = [a.tokenOf EXCEPT ![q] = NoToken]
        /\ \A t \in Token : a2.binding[t] = IF a.tokenOf[q] = t THEN NoSeat ELSE a.binding[t]
    BY UnbindTokenEffect DEF Coherent, TokenSeats
  <2>2. a.tokenOf \in [Participant -> Token \cup {NoToken}]
    BY DEF Coherent, AuthRegistry
  <2>3. \A p \in Participant : d2.member[p] # NoRoom <=> a2.tokenOf[p] # NoToken
    BY <1>2, <1>3, <2>1, <2>2 DEF Coherent, TokenSeats
  <2>4. ASSUME NEW t \in Token, NEW p \in Participant, a2.tokenOf[p] = t
        PROVE  a2.binding[t] = SeatOf(d2.member[p], p)
    <3>1. p # q /\ a.tokenOf[p] = t /\ d2.member[p] = d.member[p]
      BY <1>2, <1>3, <2>1, <2>2, <2>4, TokenAssumption
    <3>2. a.tokenOf[q] # t
      BY <3>1 DEF Coherent, TokenSeats, Linked
    <3> QED
      BY <2>1, <3>1, <3>2 DEF Coherent, TokenSeats
  <2> QED
    BY <2>1, <2>3, <2>4 DEF TokenSeats
<1>7. OldestOwns(d2)
  BY LeaveKeepsOldest DEF Coherent
<1>8. \A p \in Participant : d2.member[p] # NoRoom => iss[p] = d2.member[p]
  BY <1>2, <1>3 DEF Coherent
<1> QED
  BY <1>1, <1>4, <1>5, <1>6, <1>7, <1>8 DEF Coherent

(* The seating of p, new in the room or already a member of it.            *)
LEMMA SeatedCoherent ==
    ASSUME TypeOK, IdsInOrder,
           NEW j \in [Socket -> SUBSET Room], NEW d, NEW m, NEW a, NEW tm,
           Coherent(transport, j, d, m, a, tm, issued),
           NEW s \in Socket, NEW t \in Token, NEW r \in Room, NEW p \in Participant,
           transport[s] = "open", transport' = transport,
           rooms' = AfterAdmission(d, r, p),
           Seated(j, m, a, tm, s, t, r, p),
           \/ IsFresh(p) /\ a.binding[t] = NoSeat
           \/ d.member[p] = r /\ a.binding[t] = SeatOf(r, p)
    PROVE  /\ Coherent(transport', joined', rooms', mapping', auth', timers', issued')
           /\ IdsInOrder'
<1>1. /\ d \in RoomDirectory /\ m \in SessionMapping /\ a \in AuthRegistry
      /\ tm \in [Participant -> Room \cup {NoRoom}]
      /\ InverseStores(m) /\ LiveSessions(transport, j, d, m) /\ DueTimers(d, tm)
      /\ TokenSeats(d, a) /\ Linked(a) /\ OldestOwns(d)
      /\ \A q \in Participant : d.member[q] # NoRoom => issued[q] = d.member[q]
      /\ issued \in [Participant -> Room \cup {NoRoom}]
  BY DEF Coherent, TokenSeats, TypeOK
<1>2. /\ d.member \in [Participant -> Room \cup {NoRoom}]
      /\ d.reconnecting \subseteq Participant
      /\ m.session \in [Socket -> Seat]
      /\ a.binding \in [Token -> Seat]
      /\ a.tokenOf \in [Participant -> Token \cup {NoToken}]
  BY <1>1 DEF RoomDirectory, SessionMapping, AuthRegistry
<1>3. /\ rooms' \in RoomDirectory
      /\ rooms'.member = [d.member EXCEPT ![p] = r]
      /\ rooms'.reconnecting = d.reconnecting \ {p}
  <2>1. /\ AfterAdmission(d, r, p).member = [d.member EXCEPT ![p] = r]
        /\ AfterAdmission(d, r, p).reconnecting = d.reconnecting \ {p}
    <3>1. d \in RoomDirectory
      BY <1>1
    <3> QED
      BY <3>1, AdmissionEffect
  <2>2. AfterAdmission(d, r, p) \in RoomDirectory
    BY <1>1, AdmissionTyped
  <2> QED
    BY <2>1, <2>2
<1>4. /\ auth' \in AuthRegistry /\ mapping' \in SessionMapping
      /\ timers' \in [Participant -> Room \cup {NoRoom}]
  BY <1>1, SeatedTyped
<1>5. IsFresh(p) => d.member[p] = NoRoom /\ issued[p] = NoRoom /\ a.tokenOf[p] = NoToken
  BY <1>1, <1>2 DEF IsFresh, TokenSeats
<1>6. /\ InverseStores(mapping')
      /\ mapping'.session[s] = SeatOf(r, p)
      /\ \A x \in Socket \ {s} : mapping'.session[x] =
            IF m.session[x].participant = p THEN NoSeat ELSE m.session[x]
  BY <1>1, BindEffect DEF Seated
<1>7. /\ r \in joined'[s]
      /\ \A x \in Socket \ {s} : m.session[x].participant # p => joined'[x] = j[x]
  <2>1. \A x \in Socket \ {s} : x = ReplacedSocket(m, s, p) => m.session[x].participant = p
    BY <1>1, SocketAssumption DEF ReplacedSocket, InverseStores
  <2> QED
    BY <2>1 DEF Seated, Evict, Subscribe, Unsubscribe
<1>8. LiveSessions(transport', joined', rooms', mapping')
  <2> SUFFICES ASSUME NEW x \in Socket, mapping'.session[x] # NoSeat
               PROVE  /\ transport[x] = "open"
                      /\ mapping'.session[x].room \in joined'[x]
                      /\ rooms'.member[mapping'.session[x].participant] = mapping'.session[x].room
                      /\ mapping'.session[x].participant \notin rooms'.reconnecting
    BY DEF LiveSessions
  <2>1. CASE x = s
    BY <1>2, <1>3, <1>6, <1>7, <2>1 DEF SeatOf
  <2>2. CASE x # s
    <3>1. /\ mapping'.session[x] = m.session[x]
          /\ m.session[x] # NoSeat /\ m.session[x].participant # p
          /\ m.session[x].participant \in Participant
          /\ joined'[x] = j[x]
      BY <1>2, <1>6, <1>7, <2>2 DEF Seat
    <3> QED
      BY <1>1, <1>2, <1>3, <3>1 DEF LiveSessions
  <2> QED
    BY <2>1, <2>2
<1>9. DueTimers(rooms', timers')
  <2>1. timers' = [tm EXCEPT ![p] = NoRoom]
    BY DEF Seated, Cancel
  <2> QED
    BY <1>1, <1>2, <1>3, <2>1 DEF DueTimers
<1>10. TokenSeats(rooms', auth')
  <2>1. /\ auth'.binding = [a.binding EXCEPT ![t] = SeatOf(r, p)]
        /\ auth'.tokenOf = [a.tokenOf EXCEPT ![p] = t]
    BY DEF Seated, BindTokenToParticipant
  <2>2. SeatOf(r, p).participant = p /\ \A q \in Participant : NoSeat.participant # q
    BY DEF SeatOf, NoSeat, NoParticipant, Participant
  <2>3. \A q \in Participant : a.tokenOf[q] = t => q = p
    BY <1>1, <2>2 DEF Linked
  <2>4. \A x \in Token : a.tokenOf[p] = x => x = t
    BY <1>1, <1>5, <2>2, TokenAssumption DEF Linked
  <2>5. Linked(auth')
    <3> SUFFICES ASSUME NEW x \in Token, NEW q \in Participant
                 PROVE  auth'.binding[x].participant = q <=> auth'.tokenOf[q] = x
      BY DEF Linked
    <3>1. a.binding[x].participant = q <=> a.tokenOf[q] = x
      BY <1>1 DEF Linked
    <3> QED
      BY <1>2, <2>1, <2>2, <2>3, <2>4, <3>1
  <2>6. ASSUME NEW x \in Token, NEW q \in Participant, auth'.tokenOf[q] = x
        PROVE  auth'.binding[x] = SeatOf(rooms'.member[q], q)
    <3>1. CASE q = p
      BY <1>2, <1>3, <2>1, <2>6, <3>1
    <3>2. CASE q # p
      <4>1. a.tokenOf[q] = x /\ x # t /\ rooms'.member[q] = d.member[q]
        BY <1>2, <1>3, <2>1, <2>3, <2>6, <3>2
      <4> QED
        BY <1>1, <1>2, <2>1, <4>1 DEF TokenSeats
    <3> QED
      BY <3>1, <3>2
  <2>7. \A q \in Participant : rooms'.member[q] # NoRoom <=> auth'.tokenOf[q] # NoToken
    BY <1>1, <1>2, <1>3, <2>1, RoomAssumption, TokenAssumption DEF TokenSeats
  <2> QED
    BY <2>5, <2>6, <2>7 DEF TokenSeats
<1>11. OldestOwns(rooms')
  <2>1. CASE IsFresh(p)
    <3>1. \A q \in Members(d, r) : q < p
      BY <1>1, <1>5, <2>1, RoomAssumption DEF Members, IdsInOrder
    <3> QED
      BY <1>1, <1>5, <2>1, <3>1, JoinKeepsOldest
  <2>2. CASE d.member[p] = r
    <3>1. /\ rooms'.owner = d.owner /\ rooms'.open = d.open
          /\ rooms'.member = d.member
      BY <1>1, <1>2, <1>3, <2>2, ReadmissionEffect
    <3>2. \A x \in Room : Members(rooms', x) = Members(d, x)
      BY <3>1 DEF Members
    <3> QED
      BY <1>1, <3>1, <3>2 DEF OldestOwns
  <2> QED
    BY <2>1, <2>2
<1>12. issued' = [issued EXCEPT ![p] = r]
  BY DEF Seated
<1>13. \A q \in Participant : rooms'.member[q] # NoRoom => issued'[q] = rooms'.member[q]
  BY <1>1, <1>2, <1>3, <1>12
<1>14. IdsInOrder'
  <2> SUFFICES ASSUME NEW x \in Participant, NEW q \in Participant,
                      issued'[x] = NoRoom, issued'[q] # NoRoom
               PROVE  q < x
    BY DEF IdsInOrder
  <2>1. x # p /\ issued[x] = NoRoom
    BY <1>1, <1>12, RoomAssumption
  <2>2. CASE q # p
    BY <1>1, <1>12, <2>1, <2>2 DEF IdsInOrder
  <2>3. CASE q = p /\ IsFresh(p)
    BY <2>1, <2>3 DEF IsFresh, Participant
  <2>4. CASE q = p /\ d.member[p] = r
    BY <1>1, <2>1, <2>4, RoomAssumption DEF IdsInOrder
  <2> QED
    BY <2>2, <2>3, <2>4
<1> QED
  BY <1>3, <1>4, <1>6, <1>8, <1>9, <1>10, <1>11, <1>13, <1>14 DEF Coherent

(* What a join may be served as: a participant of the room that this very  *)
(* browser came with, or a new one for a token that holds no seat.         *)
LEMMA JoinServesOwnBrowser ==
    ASSUME LifecycleInv,
           NEW s \in Socket, NEW t \in Token, NEW r \in Room, NEW id \in Identity,
           Join(s, t, r, id), NEW p \in Participant, Admitted(rooms, r, id, p)
    PROVE  \/ IsFresh(p) /\ auth.binding[t] = NoSeat
           \/ rooms.member[p] = r /\ auth.binding[t] = SeatOf(r, p)
<1>1. TokenSeats(rooms, auth)
  BY InvIsCoherence DEF Coherent
<1>2. CASE Claims(id, r) /\ CanReconnect(rooms, r, id)
  <2>1. p = id /\ rooms.member[p] = r
    BY <1>2 DEF Admitted, CanReconnect
  <2>2. auth.tokenOf[p] = t
    BY <1>1, <1>2, <2>1, RoomAssumption DEF Join, MayJoin, OfAnotherBrowser, TokenSeats
  <2> QED
    BY <1>1, <2>1, <2>2 DEF TokenSeats
<1>3. CASE ~(Claims(id, r) /\ CanReconnect(rooms, r, id))
  <2>1. IsFresh(p)
    BY <1>3 DEF Admitted
  <2>2. SUFFICES ASSUME auth.binding[t] # NoSeat PROVE FALSE
    BY <2>1
  <2>3. id \in Participant /\ auth.binding[t] = SeatOf(r, id)
    BY <2>2 DEF Join, HoldsSeat, IsSameParticipant, Identity
  <2>4. auth.tokenOf[id] = t
    BY <1>1, <2>3 DEF TokenSeats, Linked, SeatOf
  <2>5. rooms.member[id] = r
    <3>1. auth.binding[t] = SeatOf(rooms.member[id], id)
      BY <1>1, <2>3, <2>4 DEF TokenSeats
    <3> QED
      BY <2>3, <3>1 DEF SeatOf
  <2>6. issued[id] = r /\ id # NoParticipant
    BY <2>3, <2>5, RoomAssumption DEF LifecycleInv, MembersIssued, NoParticipant, Participant
  <2> QED
    BY <1>3, <2>3, <2>5, <2>6 DEF Claims, CanReconnect
<1> QED
  BY <1>2, <1>3

(* A transfer gives up the seat of a member of another room, and is always *)
(* served as a new participant.                                            *)
LEMMA TransferServesNewcomer ==
    ASSUME LifecycleInv,
           NEW s \in Socket, NEW t \in Token, NEW r \in Room, NEW id \in Identity,
           JoinWithTransfer(s, t, r, id)
    PROVE  LET b == auth.binding[t].room
               q == auth.binding[t].participant
           IN  /\ b \in Room \ {r} /\ q \in Participant
               /\ rooms.member[q] = b
               /\ auth.tokenOf[q] = t
               /\ \A p \in Participant :
                     Admitted(LeaveRoom(rooms, b, q), r, id, p) => IsFresh(p)
<1> DEFINE b == auth.binding[t].room
           q == auth.binding[t].participant
<1>1. TokenSeats(rooms, auth) /\ rooms \in RoomDirectory
  BY InvIsCoherence DEF Coherent
<1>2. b \in Room /\ q \in Participant
  BY DEF JoinWithTransfer, HoldsSeat, LifecycleInv, TypeOK, AuthRegistry, Seat
<1>3. b # r
  BY DEF JoinWithTransfer, MayJoin, AlreadyInRoom
<1>4. auth.tokenOf[q] = t
  BY <1>1, <1>2 DEF TokenSeats, Linked
<1>5. rooms.member[q] = b
  <2>1. auth.binding[t] = SeatOf(rooms.member[q], q)
    BY <1>1, <1>2, <1>4 DEF TokenSeats
  <2> QED
    BY <2>1 DEF SeatOf
<1>6. ASSUME NEW p \in Participant, Admitted(LeaveRoom(rooms, b, q), r, id, p), ~IsFresh(p)
      PROVE  FALSE
  <2>1. /\ Claims(id, r) /\ p = id
        /\ LeaveRoom(rooms, b, q).member[p] = r
    BY <1>6 DEF Admitted, CanReconnect
  <2>2. LeaveRoom(rooms, b, q).member = [rooms.member EXCEPT ![q] = NoRoom]
    BY <1>1, <1>2, <1>5, LeaveEffect
  <2>3. rooms.member[p] = r /\ p # q
    BY <1>1, <2>1, <2>2, RoomAssumption DEF RoomDirectory
  <2>4. auth.tokenOf[p] = t
    BY <1>1, <2>1, <2>3, RoomAssumption
       DEF JoinWithTransfer, MayJoin, OfAnotherBrowser, TokenSeats
  <2> QED
    BY <1>1, <1>2, <2>3, <2>4 DEF TokenSeats, Linked
<1> QED
  BY <1>2, <1>3, <1>4, <1>5, <1>6

(* The seat of a socket belongs to a connected member of its room, and no  *)
(* other socket has a seat for that participant.                           *)
LEMMA SessionSeat ==
    ASSUME LifecycleInv, NEW s \in Socket, mapping.session[s] # NoSeat
    PROVE  LET b == mapping.session[s].room
               q == mapping.session[s].participant
               u == UnbindSocketSession(mapping, s)
           IN  /\ b \in Room /\ q \in Participant
               /\ rooms.member[q] = b /\ q \notin rooms.reconnecting
               /\ timers[q] = NoRoom
               /\ u \in SessionMapping /\ InverseStores(u)
               /\ \A x \in Socket : u.session[x] # NoSeat =>
                     /\ x # s
                     /\ u.session[x] = mapping.session[x]
                     /\ u.session[x].participant # q
                     /\ transport[x] = "open"
                     /\ u.session[x].room \in joined[x]
<1> DEFINE b == mapping.session[s].room
           q == mapping.session[s].participant
           u == UnbindSocketSession(mapping, s)
<1>1. /\ mapping \in SessionMapping /\ InverseStores(mapping)
      /\ LiveSessions(transport, joined, rooms, mapping)
      /\ DueTimers(rooms, timers)
  BY InvIsCoherence DEF Coherent
<1>2. b \in Room /\ q \in Participant
  BY <1>1 DEF SessionMapping, Seat
<1>3. rooms.member[q] = b /\ q \notin rooms.reconnecting
  BY <1>1 DEF LiveSessions
<1>4. timers[q] = NoRoom
  BY <1>1, <1>2, <1>3 DEF DueTimers
<1>5. u \in SessionMapping /\ InverseStores(u)
  BY <1>1, UnbindTyped, UnbindEffect
<1>6. \A x \in Socket : u.session[x] = IF x = s THEN NoSeat ELSE mapping.session[x]
  BY <1>1, UnbindEffect
<1>7. \A x \in Socket : x # s => mapping.session[x].participant # q
  BY <1>1, <1>2 DEF InverseStores
<1> QED
  BY <1>1, <1>2, <1>3, <1>4, <1>5, <1>6, <1>7 DEF LiveSessions

(* The second half of InvIsCoherence, in the next state. *)
LEMMA CoherenceNext ==
    /\ TypeOK' /\ IdsInOrder'
    /\ Coherent(transport', joined', rooms', mapping', auth', timers', issued')
    => LifecycleInv'
<1>1. (/\ TypeOK /\ IdsInOrder
       /\ Coherent(transport, joined, rooms, mapping, auth, timers, issued)
       => LifecycleInv)'
  BY InvIsCoherence, PTL
<1> QED
  BY <1>1

(***************************************************************************)
(* Every handler keeps the invariant.                                      *)
(***************************************************************************)
LEMMA InvNext == LifecycleInv /\ [Next]_vars => LifecycleInv'
<1> SUFFICES ASSUME LifecycleInv, [Next]_vars PROVE LifecycleInv'
  OBVIOUS
<1> DEFINE CoherentNext ==
             Coherent(transport', joined', rooms', mapping', auth', timers', issued')
<1>1. TypeOK' /\ TypeOK
  BY TypeNext DEF LifecycleInv
<1>2. Coherent(transport, joined, rooms, mapping, auth, timers, issued) /\ IdsInOrder
  BY InvIsCoherence DEF LifecycleInv
<1>3. SUFFICES CoherentNext /\ IdsInOrder'
  BY <1>1, CoherenceNext
<1> HIDE DEF CoherentNext
<1>4. issued' = issued => IdsInOrder'
  BY <1>2 DEF IdsInOrder
<1>5. ASSUME NEW s \in Socket, Connect(s) PROVE CoherentNext /\ IdsInOrder'
  <2>1. LiveSessions(transport', joined', rooms', mapping')
    BY <1>1, <1>2, <1>5 DEF Connect, LiveSessions, Coherent, TypeOK
  <2> QED
    BY <1>2, <1>4, <1>5, <2>1 DEF Connect, Coherent, CoherentNext
<1>6. ASSUME NEW s \in Socket, NEW t \in Token, NEW r \in Room, NEW id \in Identity,
             Join(s, t, r, id)
      PROVE  CoherentNext /\ IdsInOrder'
  <2>1. PICK p \in Participant : /\ Admitted(rooms, r, id, p)
                                 /\ rooms' = AfterAdmission(rooms, r, p)
                                 /\ Seated(joined, mapping, auth, timers, s, t, r, p)
    BY <1>6 DEF Join
  <2>2. transport[s] = "open" /\ transport' = transport
    BY <1>6 DEF Join, MayJoin
  <2>3. \/ IsFresh(p) /\ auth.binding[t] = NoSeat
        \/ rooms.member[p] = r /\ auth.binding[t] = SeatOf(r, p)
    BY <1>6, <2>1, JoinServesOwnBrowser
  <2>4. joined \in [Socket -> SUBSET Room]
    BY <1>1 DEF TypeOK
  <2> QED
    BY <1>1, <1>2, <2>1, <2>2, <2>3, <2>4, SeatedCoherent DEF CoherentNext
<1>7. ASSUME NEW s \in Socket, NEW t \in Token, NEW r \in Room, NEW id \in Identity,
             JoinWithTransfer(s, t, r, id)
      PROVE  CoherentNext /\ IdsInOrder'
  <2> DEFINE b == auth.binding[t].room
             q == auth.binding[t].participant
             e == mapping.endpoint[q]
             d == LeaveRoom(rooms, b, q)
             j == Evict(joined, s, e, b)
             m == UnbindSocketSession(mapping, e)
             a == UnbindParticipant(auth, q)
             tm == Cancel(timers, q)
  <2>1. /\ b \in Room \ {r} /\ q \in Participant
        /\ rooms.member[q] = b /\ auth.tokenOf[q] = t
        /\ \A p \in Participant : Admitted(d, r, id, p) => IsFresh(p)
    BY <1>7, TransferServesNewcomer
  <2>2. PICK p \in Participant : /\ Admitted(d, r, id, p)
                                 /\ rooms' = AfterAdmission(d, r, p)
                                 /\ Seated(j, m, a, tm, s, t, r, p)
    BY <1>7 DEF JoinWithTransfer
  <2>3. transport[s] = "open" /\ transport' = transport
    BY <1>7 DEF JoinWithTransfer, MayJoin
  <2>4. /\ mapping \in SessionMapping /\ InverseStores(mapping) /\ auth \in AuthRegistry
        /\ Linked(auth) /\ LiveSessions(transport, joined, rooms, mapping)
    BY <1>2 DEF Coherent, TokenSeats
  <2>5. e \in Socket \cup {NoSocket}
    BY <2>1, <2>4 DEF SessionMapping
  <2>6. j \in [Socket -> SUBSET Room] /\ \A x \in Socket \ {e} : j[x] = joined[x]
    BY <1>1 DEF Evict, Unsubscribe, TypeOK
  <2>7. /\ m \in SessionMapping /\ InverseStores(m)
        /\ \A x \in Socket : m.session[x] = IF x = e THEN NoSeat ELSE mapping.session[x]
    BY <2>4, <2>5, UnbindTyped, UnbindEffect
  <2>8. \A x \in Socket \ {e} : mapping.session[x].participant # q
    BY <2>1, <2>4 DEF InverseStores
  <2>9. \A x \in Socket : m.session[x] # NoSeat =>
            /\ m.session[x] = mapping.session[x]
            /\ m.session[x].participant # q
            /\ transport[x] = "open"
            /\ m.session[x].room \in j[x]
    BY <2>4, <2>6, <2>7, <2>8 DEF LiveSessions
  <2>10. a.binding[t] = NoSeat
    <3>1. \A x \in Token : a.binding[x] = IF auth.tokenOf[q] = x THEN NoSeat
                                         ELSE auth.binding[x]
      BY <2>1, <2>4, UnbindTokenEffect
    <3> QED
      BY <2>1, <3>1
  <2> HIDE DEF j, m, a, tm, d, b, q, e
  <2>11. Coherent(transport, j, d, m, a, tm, issued)
    <3>1. Coherent(transport, j, LeaveRoom(rooms, b, q), m, UnbindParticipant(auth, q),
                   Cancel(timers, q), issued)
      BY <1>2, <2>1, <2>7, <2>9, DepartureCoherent
    <3> QED
      BY <3>1 DEF d, a, tm
  <2>12. IsFresh(p)
    BY <2>1, <2>2
  <2> QED
    BY <1>1, <1>2, <2>2, <2>3, <2>6, <2>10, <2>11, <2>12, SeatedCoherent DEF CoherentNext
<1>8. ASSUME NEW s \in Socket, mapping.session[s] # NoSeat,
             mapping' = UnbindSocketSession(mapping, s),
             \A x \in Socket \ {s} : transport'[x] = transport[x] /\ joined'[x] = joined[x],
             rooms' = LeaveRoom(rooms, mapping.session[s].room, mapping.session[s].participant),
             auth' = UnbindParticipant(auth, mapping.session[s].participant),
             timers' = Cancel(timers, mapping.session[s].participant),
             issued' = issued
      PROVE  CoherentNext /\ IdsInOrder'
  <2> DEFINE b == mapping.session[s].room
             q == mapping.session[s].participant
  <2>1. /\ b \in Room /\ q \in Participant /\ rooms.member[q] = b
        /\ mapping' \in SessionMapping /\ InverseStores(mapping')
        /\ \A x \in Socket : mapping'.session[x] # NoSeat =>
              /\ x # s
              /\ mapping'.session[x] = mapping.session[x]
              /\ mapping'.session[x].participant # q
              /\ transport[x] = "open"
              /\ mapping'.session[x].room \in joined[x]
    BY <1>8, SessionSeat
  <2>2. \A x \in Socket : mapping'.session[x] # NoSeat =>
              /\ mapping'.session[x] = mapping.session[x]
              /\ mapping'.session[x].participant # q
              /\ transport'[x] = "open"
              /\ mapping'.session[x].room \in joined'[x]
    BY <1>8, <2>1
  <2> HIDE DEF b, q
  <2>3. Coherent(transport', joined', LeaveRoom(rooms, b, q), mapping',
                 UnbindParticipant(auth, q), Cancel(timers, q), issued)
    BY <1>2, <2>1, <2>2, DepartureCoherent
  <2> QED
    BY <1>4, <1>8, <2>3 DEF CoherentNext, b, q
<1>9. ASSUME NEW s \in Socket, Close(s)
      PROVE  /\ mapping' = UnbindSocketSession(mapping, s) /\ issued' = issued
             /\ \A x \in Socket \ {s} : transport'[x] = transport[x] /\ joined'[x] = joined[x]
  BY <1>1, <1>9 DEF Close, TypeOK
<1>10. ASSUME NEW s \in Socket, Leave(s) PROVE CoherentNext /\ IdsInOrder'
  <2>1. /\ mapping.session[s] # NoSeat
        /\ rooms.member[mapping.session[s].participant] = mapping.session[s].room
    BY <1>10, SessionSeat DEF Leave
  <2>2. \A x \in Socket \ {s} : transport'[x] = transport[x] /\ joined'[x] = joined[x]
    BY <1>1, <1>10 DEF Leave, Unsubscribe, TypeOK
  <2> QED
    BY <1>8, <1>10, <2>1, <2>2 DEF Leave, Depart
<1>11. ASSUME NEW s \in Socket, DisconnectByClient(s) PROVE CoherentNext /\ IdsInOrder'
  <2>1. /\ mapping.session[s] # NoSeat
        /\ rooms.member[mapping.session[s].participant] = mapping.session[s].room
    BY <1>11, SessionSeat DEF DisconnectByClient
  <2> QED
    BY <1>8, <1>9, <1>11, <2>1 DEF DisconnectByClient
<1>12. ASSUME NEW s \in Socket, DisconnectIdle(s) PROVE CoherentNext /\ IdsInOrder'
  <2>1. /\ mapping' \in SessionMapping /\ InverseStores(mapping')
        /\ \A x \in Socket : mapping'.session[x] = IF x = s THEN NoSeat ELSE mapping.session[x]
    BY <1>2, <1>9, <1>12, UnbindTyped, UnbindEffect DEF DisconnectIdle, Coherent
  <2>2. LiveSessions(transport', joined', rooms', mapping')
    BY <1>2, <1>9, <1>12, <2>1 DEF DisconnectIdle, Coherent, LiveSessions
  <2> QED
    BY <1>2, <1>4, <1>9, <1>12, <2>1, <2>2 DEF DisconnectIdle, Coherent, CoherentNext
<1>13. ASSUME NEW s \in Socket, ConnectionLost(s) PROVE CoherentNext /\ IdsInOrder'
  <2> DEFINE b == mapping.session[s].room
             q == mapping.session[s].participant
  <2>1. mapping.session[s] # NoSeat /\ Close(s)
    BY <1>13 DEF ConnectionLost
  <2>2. /\ b \in Room /\ q \in Participant /\ rooms.member[q] = b
        /\ mapping' \in SessionMapping /\ InverseStores(mapping')
        /\ \A x \in Socket : mapping'.session[x] # NoSeat =>
              /\ x # s
              /\ mapping'.session[x] = mapping.session[x]
              /\ mapping'.session[x].participant # q
              /\ transport[x] = "open"
              /\ mapping'.session[x].room \in joined[x]
    BY <1>9, <2>1, SessionSeat
  <2>3. /\ rooms' = MarkReconnecting(rooms, b, q)
        /\ timers' = [timers EXCEPT ![q] = b] /\ auth' = auth
    BY <1>13, <2>2 DEF ConnectionLost
  <2>4. rooms \in RoomDirectory
    BY <1>2 DEF Coherent
  <2>5. /\ rooms' \in RoomDirectory
        /\ rooms'.member = rooms.member /\ rooms'.owner = rooms.owner
        /\ rooms'.open = rooms.open /\ rooms'.reconnecting = rooms.reconnecting \cup {q}
    BY <1>1, <2>2, <2>3, <2>4, MarkEffect DEF TypeOK
  <2>6. LiveSessions(transport', joined', rooms', mapping')
    BY <1>2, <1>9, <2>1, <2>2, <2>5 DEF LiveSessions, Coherent
  <2>7. DueTimers(rooms', timers') /\ timers' \in [Participant -> Room \cup {NoRoom}]
    <3>1. DueTimers(rooms, timers) /\ timers \in [Participant -> Room \cup {NoRoom}]
      BY <1>2 DEF Coherent
    <3>2. timers' \in [Participant -> Room \cup {NoRoom}]
      BY <2>2, <2>3, <3>1
    <3>3. ASSUME NEW x \in Participant
          PROVE  timers'[x] = IF x \in rooms'.reconnecting THEN rooms'.member[x] ELSE NoRoom
      BY <2>2, <2>3, <2>5, <3>1 DEF DueTimers
    <3>4. ASSUME NEW x \in rooms'.reconnecting
          PROVE  rooms'.member[x] # NoRoom
      BY <2>2, <2>5, <3>1, RoomAssumption DEF DueTimers
    <3> QED
      BY <3>2, <3>3, <3>4 DEF DueTimers
  <2>8. TokenSeats(rooms', auth')
    BY <1>2, <2>3, <2>5 DEF TokenSeats, Coherent
  <2>9. OldestOwns(rooms')
    BY <1>2, <2>5 DEF OldestOwns, Members, Coherent
  <2>10. issued' = issued
    BY <1>9, <2>1
  <2> QED
    BY <1>2, <1>4, <2>2, <2>3, <2>5, <2>6, <2>7, <2>8, <2>9, <2>10 DEF Coherent, CoherentNext
<1>14. ASSUME NEW s \in Socket, ConnectionLostWithoutTimer(s) PROVE CoherentNext /\ IdsInOrder'
  <2> DEFINE b == mapping.session[s].room
             q == mapping.session[s].participant
             d == MarkReconnecting(rooms, b, q)
  <2>1. mapping.session[s] # NoSeat /\ Close(s) /\ auth' = UnbindParticipant(auth, q)
    BY <1>14 DEF ConnectionLostWithoutTimer
  <2>2. /\ b \in Room /\ q \in Participant /\ rooms.member[q] = b
        /\ timers[q] = NoRoom /\ rooms \in RoomDirectory
    BY <1>2, <2>1, SessionSeat DEF Coherent
  <2>3. /\ d.member = rooms.member /\ d.owner = rooms.owner /\ d.open = rooms.open
        /\ d.reconnecting = rooms.reconnecting \cup {q}
    BY <2>2, MarkEffect
  <2>4. Members(d, b) = Members(rooms, b)
    BY <2>3 DEF Members
  <2>5. rooms' = LeaveRoom(rooms, b, q)
    <3>1. rooms' = LeaveRoom(d, b, q)
      BY <1>14, <2>2, <2>3 DEF ConnectionLostWithoutTimer, FinalizeReconnectingLeave,
                                IsReconnectingIn
    <3>2. d.reconnecting \ {q} = rooms.reconnecting \ {q}
      BY <2>3
    <3> HIDE DEF d
    <3> QED
      BY <2>2, <2>3, <2>4, <3>1, <3>2 DEF LeaveRoom
  <2>6. timers' = Cancel(timers, q)
    <3>1. timers' = timers
      BY <1>14 DEF ConnectionLostWithoutTimer
    <3> QED
      BY <1>1, <2>2, <3>1 DEF Cancel, TypeOK
  <2> QED
    BY <1>8, <1>9, <2>1, <2>5, <2>6
<1>15. ASSUME NEW p \in Participant, GraceExpired(p) PROVE CoherentNext /\ IdsInOrder'
  <2>1. /\ p \in rooms.reconnecting /\ timers[p] = rooms.member[p]
        /\ rooms.member[p] \in Room
    BY <1>1, <1>2, <1>15 DEF GraceExpired, Coherent, DueTimers, TypeOK
  <2>2. /\ rooms' = LeaveRoom(rooms, rooms.member[p], p)
        /\ auth' = UnbindParticipant(auth, p)
        /\ timers' = Cancel(timers, p)
        /\ UNCHANGED <<transport, joined, mapping, issued>>
    BY <1>15, <2>1 DEF GraceExpired, FinalizeReconnectingLeave, IsReconnectingIn
  <2>3. mapping \in SessionMapping /\ InverseStores(mapping)
    BY <1>2 DEF Coherent
  <2>4. \A x \in Socket : mapping.session[x] # NoSeat =>
              /\ mapping.session[x].participant # p
              /\ transport[x] = "open"
              /\ mapping.session[x].room \in joined[x]
    BY <1>2, <2>1 DEF Coherent, LiveSessions
  <2>5. Coherent(transport, joined, LeaveRoom(rooms, rooms.member[p], p), mapping,
                 UnbindParticipant(auth, p), Cancel(timers, p), issued)
    BY <1>2, <2>1, <2>3, <2>4, DepartureCoherent
  <2> QED
    BY <1>4, <2>2, <2>5 DEF CoherentNext
<1>16. ASSUME Sweep PROVE CoherentNext /\ IdsInOrder'
  <2>1. /\ rooms \in RoomDirectory
        /\ \A r \in Room : r \in rooms.open <=> Members(rooms, r) # {}
    BY <1>2 DEF Coherent, OldestOwns
  <2>2. rooms' = rooms
    BY <1>16, <2>1 DEF Sweep, SweepEmptyRooms, RoomDirectory
  <2> QED
    BY <1>2, <1>4, <1>16, <2>2 DEF Sweep, CoherentNext
<1>17. CASE UNCHANGED vars
  BY <1>2, <1>4, <1>17 DEF vars, CoherentNext
<1> QED
  BY <1>5, <1>6, <1>7, <1>10, <1>11, <1>12, <1>13, <1>14, <1>15, <1>16, <1>17
     DEF Next, JoinRequest, Disconnect

THEOREM LifecycleSafe == Spec => []LifecycleInv
BY InvInit, InvNext, PTL DEF Spec

(* Whatever the clients send: the session and endpoint stores stay each    *)
(* other's inverse.                                                        *)
THEOREM SessionsMatch == Spec => []SessionsMatchEndpoints
<1>1. LifecycleInv => SessionsMatchEndpoints
  BY DEF LifecycleInv
<1> QED
  BY <1>1, LifecycleSafe, PTL

(* A session always speaks for a connected member on a connected socket.   *)
THEOREM SessionsLive == Spec => []SessionsAreLive
<1>1. LifecycleInv => SessionsAreLive
  BY DEF LifecycleInv
<1> QED
  BY <1>1, LifecycleSafe, PTL

(* No removal timer outlives the absence it was set for.                   *)
THEOREM TimersDue == Spec => []TimersForReconnecting
<1>1. LifecycleInv => TimersForReconnecting
  BY DEF LifecycleInv
<1> QED
  BY <1>1, LifecycleSafe, PTL

(* A browser token holds the seat of a present participant or none.        *)
THEOREM TokensLive == Spec => [](TokensHoldLiveSeats /\ EveryMemberHasToken)
<1>1. LifecycleInv => TokensHoldLiveSeats /\ EveryMemberHasToken
  BY DEF LifecycleInv
<1> QED
  BY <1>1, LifecycleSafe, PTL

(* Who is in a room has come with a browser token, and keeps it.           *)
THEOREM MembersHaveTokens == Spec => []EveryMemberHasToken
<1>1. LifecycleInv => EveryMemberHasToken
  BY DEF LifecycleInv
<1> QED
  BY <1>1, LifecycleSafe, PTL

(* No more timers run than the limit, as one is added only below it.       *)
LEMMA TimersNext == TypeOK /\ TimersBounded /\ [Next]_vars => TimersBounded'
<1> SUFFICES ASSUME TypeOK, TimersBounded, [Next]_vars PROVE TimersBounded'
  OBVIOUS
<1>1. timers \in [Participant -> Room \cup {NoRoom}]
  BY DEF TypeOK
<1>2. IsFiniteSet(Scheduled)
  <2>1. 1 \in Int /\ MaxParticipants \in Int
    BY ParticipantAssumption
  <2>2. IsFiniteSet(Participant)
    BY <2>1, FS_Interval DEF Participant
  <2>3. Scheduled \in SUBSET Participant
    BY DEF Scheduled
  <2> QED
    BY <2>2, <2>3, FS_Subset
<1>3. Cardinality(Scheduled) \in Nat /\ MaxTimers \in Nat
  BY <1>2, FS_CardinalityType, MaxTimersAssumption
<1>4. CASE Scheduled' \subseteq Scheduled
  <2>1. Scheduled' \in SUBSET Scheduled
    BY <1>4
  <2>2. Cardinality(Scheduled') <= Cardinality(Scheduled) /\ Cardinality(Scheduled') \in Nat
    BY <1>2, <2>1, FS_Subset, FS_CardinalityType
  <2> QED
    BY <1>3, <2>2 DEF TimersBounded
<1>5. ASSUME NEW s \in Socket, ConnectionLost(s) PROVE TimersBounded'
  <2> DEFINE p == mapping.session[s].participant
  <2>1. CASE timers' = timers
    BY <1>4, <2>1 DEF Scheduled
  <2>2. CASE timers' # timers
    <3>1. CanSchedule(p) /\ Scheduled' \subseteq Scheduled \cup {p}
      BY <1>1, <1>5, <2>2 DEF ConnectionLost, Scheduled
    <3>2. CASE p \in Scheduled
      BY <1>4, <3>1, <3>2
    <3>3. CASE p \notin Scheduled
      <4>1. Cardinality(Scheduled) < MaxTimers
        BY <3>1, <3>3 DEF CanSchedule
      <4>2. /\ IsFiniteSet(Scheduled \cup {p})
            /\ Cardinality(Scheduled \cup {p}) = Cardinality(Scheduled) + 1
        BY <1>2, <3>3, FS_AddElement
      <4>3. Scheduled' \in SUBSET (Scheduled \cup {p})
        BY <3>1
      <4>4. /\ Cardinality(Scheduled') <= Cardinality(Scheduled \cup {p})
            /\ Cardinality(Scheduled') \in Nat
        BY <4>2, <4>3, FS_Subset, FS_CardinalityType
      <4> QED
        BY <1>3, <4>1, <4>2, <4>4 DEF TimersBounded
    <3> QED
      BY <3>2, <3>3
  <2> QED
    BY <2>1, <2>2
<1>6. ASSUME NEW s \in Socket, NEW t \in Token, NEW r \in Room, NEW id \in Identity,
             Join(s, t, r, id) \/ JoinWithTransfer(s, t, r, id)
      PROVE  Scheduled' \subseteq Scheduled
  BY <1>1, <1>6 DEF Join, JoinWithTransfer, Seated, Cancel, Scheduled
<1>7. ASSUME NEW s \in Socket,
             \/ Connect(s) \/ Leave(s) \/ DisconnectByClient(s) \/ DisconnectIdle(s)
             \/ ConnectionLostWithoutTimer(s)
      PROVE  Scheduled' \subseteq Scheduled
  BY <1>1, <1>7 DEF Connect, Leave, Depart, DisconnectByClient, DisconnectIdle,
                    ConnectionLostWithoutTimer, Cancel, Scheduled
<1>8. ASSUME NEW p \in Participant, GraceExpired(p) PROVE Scheduled' \subseteq Scheduled
  BY <1>1, <1>8 DEF GraceExpired, Cancel, Scheduled
<1>9. Sweep \/ UNCHANGED vars => Scheduled' \subseteq Scheduled
  BY DEF Sweep, vars, Scheduled
<1> QED
  BY <1>4, <1>5, <1>6, <1>7, <1>8, <1>9 DEF Next, JoinRequest, Disconnect

(* scheduleParticipantRemoval never holds more than maxTimers timers.      *)
THEOREM TimersStayBounded == Spec => []TimersBounded
<1>1. Init => TimersBounded
  <2> SUFFICES ASSUME Init PROVE TimersBounded
    OBVIOUS
  <2>1. Scheduled = {}
    BY DEF Init, Scheduled
  <2> QED
    BY <2>1, FS_EmptySet, MaxTimersAssumption DEF TimersBounded
<1> QED
  BY <1>1, TypeCorrect, TimersNext, PTL DEF Spec

(* Every room that exists has exactly one owner, its oldest member.        *)
THEOREM OneOwner == Spec => []OldestOwnsRoom
<1>1. LifecycleInv => OldestOwnsRoom
  BY DEF LifecycleInv
<1> QED
  BY <1>1, LifecycleSafe, PTL

(***************************************************************************)
(* What holds when a socket with a session does not join again, which is   *)
(* how the web client uses its sockets.                                    *)
(***************************************************************************)

(* A participant is at some socket, or reconnecting. *)
Reached(d, m) ==
    \A p \in Participant : d.member[p] # NoRoom =>
        p \in d.reconnecting \/ \E s \in Socket : m.session[s].participant = p

(* A socket is subscribed to nothing but the room of its session. *)
Follows(j, m) == \A s \in Socket : \A r \in j[s] : m.session[s].room = r

DisciplinedInv == LifecycleInv /\ Reached(rooms, mapping) /\ Follows(joined, mapping)

LEMMA DisciplinedImplies == DisciplinedInv => NoGhosts /\ BroadcastsFollowSession
<1> SUFFICES ASSUME DisciplinedInv PROVE NoGhosts /\ BroadcastsFollowSession
  OBVIOUS
<1>1. BroadcastsFollowSession
  BY DEF DisciplinedInv, Follows, BroadcastsFollowSession
<1>2. ASSUME NEW p \in Participant, rooms.member[p] # NoRoom
      PROVE  \/ mapping.endpoint[p] # NoSocket
             \/ p \in rooms.reconnecting /\ timers[p] # NoRoom
  <2>1. CASE p \in rooms.reconnecting
    BY <1>2, <2>1 DEF DisciplinedInv, LifecycleInv, TimersForReconnecting
  <2>2. ASSUME NEW s \in Socket, mapping.session[s].participant = p
        PROVE  mapping.endpoint[p] # NoSocket
    BY <2>2, SocketAssumption DEF DisciplinedInv, LifecycleInv, SessionsMatchEndpoints
  <2> QED
    BY <1>2, <2>1, <2>2 DEF DisciplinedInv, Reached
<1> QED
  BY <1>1, <1>2 DEF NoGhosts

LEMMA DisciplinedInit == Init => DisciplinedInv
<1> SUFFICES ASSUME Init PROVE DisciplinedInv
  OBVIOUS
<1>1. \A p \in Participant : rooms.member[p] = NoRoom
  BY DEF Init, EmptyDirectory
<1>2. \A s \in Socket : joined[s] = {}
  BY DEF Init
<1> QED
  BY <1>1, <1>2, InvInit DEF DisciplinedInv, Reached, Follows

(* Seating a socket that had no session leaves nobody unreached and nobody *)
(* subscribed to a room it has no session in.                              *)
LEMMA SeatedDisciplined ==
    ASSUME NEW j \in [Socket -> SUBSET Room], NEW d \in RoomDirectory,
           NEW m \in SessionMapping, NEW a, NEW tm,
           InverseStores(m), Reached(d, m), Follows(j, m), LiveSessions(transport, j, d, m),
           NEW s \in Socket, NEW t \in Token, NEW r \in Room, NEW p \in Participant,
           m.session[s] = NoSeat,
           rooms' = AfterAdmission(d, r, p), Seated(j, m, a, tm, s, t, r, p)
    PROVE  Reached(rooms', mapping') /\ Follows(joined', mapping')
<1>1. /\ mapping'.session[s] = SeatOf(r, p)
      /\ \A x \in Socket \ {s} : mapping'.session[x] =
            IF m.session[x].participant = p THEN NoSeat ELSE m.session[x]
  BY BindEffect DEF Seated
<1>2. AfterAdmission(d, r, p).member = [d.member EXCEPT ![p] = r]
  BY AdmissionEffect
<1>3. AfterAdmission(d, r, p).reconnecting = d.reconnecting \ {p}
  BY AdmissionEffect
<1>4. \A q \in Participant : NoSeat.participant # q
  BY DEF NoSeat, NoParticipant, Participant
<1>5. Reached(rooms', mapping')
  <2> SUFFICES ASSUME NEW q \in Participant, rooms'.member[q] # NoRoom,
                      q \notin rooms'.reconnecting
               PROVE  \E x \in Socket : mapping'.session[x].participant = q
    BY DEF Reached
  <2>1. CASE q = p
    BY <1>1, <2>1 DEF SeatOf
  <2>2. CASE q # p
    <3>1. d.member[q] # NoRoom /\ q \notin d.reconnecting
      BY <1>2, <1>3, <2>2 DEF RoomDirectory
    <3>2. PICK x \in Socket : m.session[x].participant = q
      BY <3>1 DEF Reached
    <3>3. x # s
      BY <1>4, <3>2
    <3> QED
      BY <1>1, <2>2, <3>2, <3>3
  <2> QED
    BY <2>1, <2>2
<1>6. j[s] = {}
  BY RoomAssumption DEF Follows, NoSeat
<1> DEFINE x0   == ReplacedSocket(m, s, p)
           room == IF SocketSession(m, x0) = NoSeat THEN r ELSE SocketSession(m, x0).room
<1>7. joined' = Evict(Subscribe(j, s, r), s, x0, room)
  BY DEF Seated
<1>8. \A x \in Socket : x = x0 <=> x # s /\ m.session[x].participant = p
  BY SocketAssumption DEF ReplacedSocket, InverseStores, SessionMapping
<1>9. joined'[s] = {r}
  BY <1>6, <1>7 DEF Evict, Subscribe, Unsubscribe
<1>10. ASSUME NEW x \in Socket \ {s} PROVE \A y \in joined'[x] : mapping'.session[x].room = y
  <2>1. CASE x = x0
    <3>1. m.session[x] # NoSeat /\ transport[x] = "open"
      BY <1>4, <1>8, <2>1 DEF LiveSessions
    <3>2. room = m.session[x].room
      BY <2>1, <3>1 DEF SocketSession
    <3>3. joined'[x] = j[x] \ {room}
      BY <1>7, <2>1, <3>1 DEF Evict, Subscribe, Unsubscribe
    <3> QED
      BY <3>2, <3>3 DEF Follows
  <2>2. CASE x # x0
    <3>1. joined'[x] = j[x]
      BY <1>7, <2>2 DEF Evict, Subscribe, Unsubscribe
    <3>2. mapping'.session[x] = m.session[x]
      BY <1>1, <1>8, <2>2
    <3> QED
      BY <3>1, <3>2 DEF Follows
  <2> QED
    BY <2>1, <2>2
<1> QED
  BY <1>1, <1>5, <1>9, <1>10 DEF Follows, SeatOf

(* A departure takes at most the departed participant out of reach.        *)
LEMMA DepartureReached ==
    ASSUME NEW d \in RoomDirectory, NEW m, NEW m2, Reached(d, m),
           NEW b \in Room, NEW q \in Participant, d.member[q] = b,
           \A p \in Participant \ {q}, s \in Socket :
               m.session[s].participant = p => m2.session[s].participant = p
    PROVE  Reached(LeaveRoom(d, b, q), m2)
<1>1. /\ LeaveRoom(d, b, q).member = [d.member EXCEPT ![q] = NoRoom]
      /\ LeaveRoom(d, b, q).reconnecting = d.reconnecting \ {q}
  BY LeaveEffect
<1>2. d.member \in [Participant -> Room \cup {NoRoom}]
  BY DEF RoomDirectory
<1>3. ASSUME NEW p \in Participant, LeaveRoom(d, b, q).member[p] # NoRoom,
             p \notin LeaveRoom(d, b, q).reconnecting
      PROVE  \E s \in Socket : m2.session[s].participant = p
  <2>1. p # q /\ d.member[p] # NoRoom /\ p \notin d.reconnecting
    BY <1>1, <1>2, <1>3
  <2> QED
    BY <2>1 DEF Reached
<1> QED
  BY <1>3 DEF Reached

LEMMA DisciplinedNext ==
    OneJoinPerSocket /\ DisciplinedInv /\ [Next]_vars => DisciplinedInv'
<1> SUFFICES ASSUME OneJoinPerSocket, DisciplinedInv, [Next]_vars PROVE DisciplinedInv'
  OBVIOUS
<1>1. LifecycleInv /\ LifecycleInv' /\ TypeOK /\ Reached(rooms, mapping) /\ Follows(joined, mapping)
  BY InvNext DEF DisciplinedInv, LifecycleInv
<1>2. /\ rooms \in RoomDirectory /\ mapping \in SessionMapping /\ InverseStores(mapping)
      /\ LiveSessions(transport, joined, rooms, mapping)
  BY <1>1, InvIsCoherence DEF Coherent
<1> DEFINE Goal == Reached(rooms', mapping') /\ Follows(joined', mapping')
<1>3. SUFFICES Goal
  BY <1>1 DEF DisciplinedInv
<1>4. ASSUME NEW s \in Socket
      PROVE  \A x \in Socket : UnbindSocketSession(mapping, s).session[x] =
                 IF x = s THEN NoSeat ELSE mapping.session[x]
  BY <1>2, UnbindEffect
<1>5. ASSUME NEW s \in Socket, mapping.session[s] # NoSeat,
             mapping' = UnbindSocketSession(mapping, s),
             rooms' = LeaveRoom(rooms, mapping.session[s].room, mapping.session[s].participant)
      PROVE  Reached(rooms', mapping')
  <2> DEFINE b == mapping.session[s].room
             q == mapping.session[s].participant
  <2>1. b \in Room /\ q \in Participant /\ rooms.member[q] = b
    BY <1>1, <1>5, SessionSeat
  <2>2. \A p \in Participant \ {q}, x \in Socket :
            mapping.session[x].participant = p => mapping'.session[x].participant = p
    BY <1>4, <1>5
  <2>3. rooms' = LeaveRoom(rooms, b, q)
    BY <1>5
  <2> HIDE DEF b, q
  <2> QED
    BY <1>1, <1>2, <2>1, <2>2, <2>3, DepartureReached
<1>6. ASSUME NEW s \in Socket, mapping' = UnbindSocketSession(mapping, s),
             joined'[s] = {}, \A x \in Socket \ {s} : joined'[x] = joined[x]
      PROVE  Follows(joined', mapping')
  BY <1>1, <1>4, <1>6 DEF Follows
<1>7. ASSUME NEW s \in Socket, Close(s)
      PROVE  mapping' = UnbindSocketSession(mapping, s) /\ Follows(joined', mapping')
  <2>1. joined'[s] = {} /\ \A x \in Socket \ {s} : joined'[x] = joined[x]
    BY <1>1, <1>7 DEF Close, TypeOK
  <2> QED
    BY <1>6, <1>7, <2>1 DEF Close
<1>8. ASSUME NEW s \in Socket, Connect(s) PROVE Goal
  BY <1>1, <1>8 DEF Connect, Reached, Follows
<1>9. ASSUME NEW s \in Socket, NEW t \in Token, NEW r \in Room, NEW id \in Identity,
             Join(s, t, r, id)
      PROVE  Goal
  <2>1. PICK p \in Participant : /\ rooms' = AfterAdmission(rooms, r, p)
                                 /\ Seated(joined, mapping, auth, timers, s, t, r, p)
    BY <1>9 DEF Join
  <2>2. mapping.session[s] = NoSeat /\ joined \in [Socket -> SUBSET Room]
    BY <1>1, <1>9 DEF Join, MayJoin, TypeOK
  <2> QED
    BY <1>1, <1>2, <2>1, <2>2, SeatedDisciplined
<1>10. ASSUME NEW s \in Socket, NEW t \in Token, NEW r \in Room, NEW id \in Identity,
              JoinWithTransfer(s, t, r, id)
       PROVE  Goal
  <2> DEFINE b == auth.binding[t].room
             q == auth.binding[t].participant
             e == mapping.endpoint[q]
             d == LeaveRoom(rooms, b, q)
             j == Evict(joined, s, e, b)
             m == UnbindSocketSession(mapping, e)
             a == UnbindParticipant(auth, q)
             tm == Cancel(timers, q)
  <2>1. b \in Room /\ q \in Participant /\ rooms.member[q] = b
    BY <1>1, <1>10, TransferServesNewcomer
  <2>2. PICK p \in Participant : /\ rooms' = AfterAdmission(d, r, p)
                                 /\ Seated(j, m, a, tm, s, t, r, p)
    BY <1>10 DEF JoinWithTransfer
  <2>3. mapping.session[s] = NoSeat
    BY <1>10 DEF JoinWithTransfer, MayJoin
  <2>4. e \in Socket \cup {NoSocket}
    BY <1>2, <2>1 DEF SessionMapping
  <2>5. /\ m \in SessionMapping /\ InverseStores(m)
        /\ \A x \in Socket : m.session[x] = IF x = e THEN NoSeat ELSE mapping.session[x]
    BY <1>2, <2>4, UnbindTyped, UnbindEffect
  <2>6. \A x \in Socket : x = e <=> mapping.session[x].participant = q
    BY <1>2, <2>1 DEF InverseStores
  <2>7. d \in RoomDirectory
    BY <1>2, <2>1, LeaveTyped
  <2>8. Reached(d, m)
    <3>1. \A x \in Participant \ {q}, y \in Socket :
              mapping.session[y].participant = x => m.session[y].participant = x
      BY <2>5, <2>6
    <3>2. rooms \in RoomDirectory /\ Reached(rooms, mapping)
      BY <1>1, <1>2
    <3> HIDE DEF d, j, a, tm, e, m, b, q
    <3>3. Reached(LeaveRoom(rooms, b, q), m)
      BY <2>1, <3>1, <3>2, DepartureReached, Z3
    <3> QED
      BY <3>3 DEF d
  <2>9. \A q2 \in Participant : NoSeat.participant # q2
    BY DEF NoSeat, NoParticipant, Participant
  <2>10. j \in [Socket -> SUBSET Room]
    BY <1>1 DEF Evict, Unsubscribe, TypeOK
  <2>11. /\ \A x \in Socket \ {e} : j[x] = joined[x]
         /\ e \in Socket => j[e] = joined[e] \ {b}
    <3>1. \A x \in Socket \ {e} : j[x] = joined[x]
      BY <1>1 DEF Evict, Unsubscribe, TypeOK
    <3>2. ASSUME e \in Socket PROVE j[e] = joined[e] \ {b}
      <4>1. e # s
        BY <2>1, <2>3, <2>6, <2>9, <3>2
      <4>2. transport[e] = "open"
        BY <1>2, <2>1, <2>6, <2>9, <3>2 DEF LiveSessions
      <4> QED
        BY <1>1, <3>2, <4>1, <4>2 DEF Evict, Unsubscribe, TypeOK
    <3> QED
      BY <3>1, <3>2
  <2>12. e \in Socket => mapping.session[e].room = b
    BY <1>2, <2>1, <2>6, <2>9 DEF LiveSessions
  <2>13. Follows(j, m)
    <3>1. ASSUME e \in Socket PROVE j[e] = {}
      BY <1>1, <2>11, <2>12, <3>1 DEF Follows
    <3>2. ASSUME NEW x \in Socket, NEW y \in j[x] PROVE m.session[x].room = y
      BY <1>1, <2>5, <2>11, <3>1, <3>2 DEF Follows
    <3> QED
      BY <3>2 DEF Follows
  <2>14. LiveSessions(transport, j, d, m)
    <3> HIDE DEF m, j, e, b, q
    <3>1. d.member = [rooms.member EXCEPT ![q] = NoRoom]
      BY <1>2, <2>1, LeaveEffect
    <3>2. d.reconnecting = rooms.reconnecting \ {q}
      BY <1>2, <2>1, LeaveEffect
    <3> HIDE DEF d
    <3>3. ASSUME NEW x \in Socket, m.session[x] # NoSeat
          PROVE  /\ transport[x] = "open"
                 /\ m.session[x].room \in j[x]
                 /\ d.member[m.session[x].participant] = m.session[x].room
                 /\ m.session[x].participant \notin d.reconnecting
      <4>1. /\ x # e /\ m.session[x] = mapping.session[x]
            /\ mapping.session[x].participant # q
            /\ mapping.session[x].participant \in Participant
        BY <1>2, <2>5, <2>6, <3>3 DEF SessionMapping, Seat
      <4>2. rooms.member \in [Participant -> Room \cup {NoRoom}]
        BY <1>2 DEF RoomDirectory
      <4> QED
        BY <1>2, <2>11, <3>1, <3>2, <3>3, <4>1, <4>2 DEF LiveSessions
    <3> QED
      BY <3>3 DEF LiveSessions
  <2>15. m.session[s] = NoSeat
    BY <2>3, <2>5
  <2> HIDE DEF j, m, a, tm, d
  <2> QED
    BY <2>2, <2>5, <2>7, <2>8, <2>10, <2>13, <2>14, <2>15, SeatedDisciplined
<1>11. ASSUME NEW s \in Socket, Leave(s) PROVE Goal
  <2>1. /\ mapping.session[s] # NoSeat /\ mapping' = UnbindSocketSession(mapping, s)
        /\ rooms' = LeaveRoom(rooms, mapping.session[s].room, mapping.session[s].participant)
    BY <1>11 DEF Leave, Depart
  <2>2. \A x \in Socket \ {s} : joined'[x] = joined[x]
    BY <1>1, <1>11 DEF Leave, Unsubscribe, TypeOK
  <2>3. joined'[s] = {}
    BY <1>1, <1>11 DEF Leave, Unsubscribe, TypeOK, Follows
  <2> QED
    BY <1>5, <1>6, <2>1, <2>2, <2>3
<1>12. ASSUME NEW s \in Socket, DisconnectByClient(s) PROVE Goal
  <2>1. /\ mapping.session[s] # NoSeat /\ Close(s)
        /\ rooms' = LeaveRoom(rooms, mapping.session[s].room, mapping.session[s].participant)
    BY <1>12 DEF DisconnectByClient
  <2> QED
    BY <1>5, <1>7, <2>1
<1>13. ASSUME NEW s \in Socket, DisconnectIdle(s) PROVE Goal
  <2>1. /\ mapping.session[s] = NoSeat /\ Close(s) /\ rooms' = rooms
    BY <1>13 DEF DisconnectIdle
  <2>2. \A x \in Socket : mapping'.session[x] = mapping.session[x]
    BY <1>4, <1>7, <2>1
  <2> QED
    BY <1>1, <1>7, <2>1, <2>2 DEF Reached
<1>14. ASSUME NEW s \in Socket, ConnectionLost(s) PROVE Goal
  <2> DEFINE q == mapping.session[s].participant
  <2>1. /\ mapping.session[s] # NoSeat /\ Close(s)
        /\ rooms' = MarkReconnecting(rooms, mapping.session[s].room, q)
    BY <1>14 DEF ConnectionLost
  <2>2. /\ mapping.session[s].room \in Room /\ q \in Participant
        /\ rooms.member[q] = mapping.session[s].room
    BY <1>1, <2>1, SessionSeat
  <2>3. rooms'.member = rooms.member /\ rooms'.reconnecting = rooms.reconnecting \cup {q}
    BY <1>2, <2>1, <2>2, MarkEffect
  <2>4. \A x \in Socket : mapping.session[x].participant # q =>
                            mapping'.session[x] = mapping.session[x]
    BY <1>4, <1>7, <2>1
  <2>5. Reached(rooms', mapping')
    BY <1>1, <2>3, <2>4 DEF Reached
  <2> QED
    BY <1>7, <2>1, <2>5
<1>15. ASSUME NEW s \in Socket, ConnectionLostWithoutTimer(s) PROVE Goal
  <2> DEFINE b == mapping.session[s].room
             q == mapping.session[s].participant
             d == MarkReconnecting(rooms, b, q)
  <2>1. mapping.session[s] # NoSeat /\ Close(s)
    BY <1>15 DEF ConnectionLostWithoutTimer
  <2>2. b \in Room /\ q \in Participant /\ rooms.member[q] = b
    BY <1>1, <2>1, SessionSeat
  <2>3. d.member = rooms.member /\ d.reconnecting = rooms.reconnecting \cup {q}
    BY <1>2, <2>2, MarkEffect
  <2>4. d \in RoomDirectory /\ Reached(d, mapping)
    BY <1>1, <1>2, <2>2, <2>3, MarkTyped DEF Reached
  <2>5. rooms' = LeaveRoom(d, b, q)
    BY <1>15, <2>2, <2>3 DEF ConnectionLostWithoutTimer, FinalizeReconnectingLeave,
                              IsReconnectingIn
  <2>6. \A p \in Participant \ {q}, x \in Socket :
            mapping.session[x].participant = p => mapping'.session[x].participant = p
    BY <1>4, <1>7, <2>1
  <2> HIDE DEF d, b, q
  <2>7. Reached(rooms', mapping')
    BY <2>2, <2>3, <2>4, <2>5, <2>6, DepartureReached
  <2> QED
    BY <1>7, <2>1, <2>7
<1>16. ASSUME NEW p \in Participant, GraceExpired(p) PROVE Goal
  <2>1. /\ p \in rooms.reconnecting /\ timers[p] = rooms.member[p]
        /\ rooms.member[p] \in Room
    BY <1>1, <1>16 DEF GraceExpired, LifecycleInv, TimersForReconnecting, TypeOK
  <2>2. /\ rooms' = LeaveRoom(rooms, rooms.member[p], p)
        /\ mapping' = mapping /\ joined' = joined
    BY <1>16, <2>1 DEF GraceExpired, FinalizeReconnectingLeave, IsReconnectingIn
  <2> QED
    BY <1>1, <1>2, <2>1, <2>2, DepartureReached
<1>17. ASSUME Sweep PROVE Goal
  BY <1>1, <1>17 DEF Sweep, SweepEmptyRooms, Reached, RoomDirectory, TypeOK
<1>18. CASE UNCHANGED vars
  BY <1>1, <1>18 DEF vars
<1> QED
  BY <1>8, <1>9, <1>10, <1>11, <1>12, <1>13, <1>14, <1>15, <1>16, <1>17, <1>18
     DEF Next, JoinRequest, Disconnect

(* For the web client's use of sockets: no participant is left in a room   *)
(* without a socket or a running removal timer.                            *)
THEOREM NobodyIsStranded == ASSUME OneJoinPerSocket PROVE Spec => []NoGhosts
<1>1. DisciplinedInv /\ [Next]_vars => DisciplinedInv'
  BY DisciplinedNext
<1> QED
  BY <1>1, DisciplinedInit, DisciplinedImplies, PTL DEF Spec

(* ... and a socket hears only the room it has a session in.               *)
THEOREM BroadcastsStayInRoom ==
    ASSUME OneJoinPerSocket PROVE Spec => []BroadcastsFollowSession
<1>1. DisciplinedInv /\ [Next]_vars => DisciplinedInv'
  BY DisciplinedNext
<1> QED
  BY <1>1, DisciplinedInit, DisciplinedImplies, PTL DEF Spec

(***************************************************************************)
(* What a handler does to the rooms, to the tokens of the participants and *)
(* to the ids that were issued: six kinds of step, whatever it does to     *)
(* sockets and timers.                                                     *)
(***************************************************************************)
Arrival(p, r) ==
    /\ IsFresh(p)
    /\ rooms' = JoinRoom(rooms, r, p)
    /\ issued' = [issued EXCEPT ![p] = r]
    /\ \E t \in Token : auth'.tokenOf = [auth.tokenOf EXCEPT ![p] = t]

Return(p) ==
    /\ rooms.member[p] \in Room
    /\ rooms' = ReconnectToRoom(rooms, p)
    /\ issued' = issued
    /\ auth'.tokenOf = auth.tokenOf

Departure(q) ==
    /\ rooms.member[q] \in Room
    /\ rooms' = LeaveRoom(rooms, rooms.member[q], q)
    /\ issued' = issued
    /\ auth'.tokenOf = [auth.tokenOf EXCEPT ![q] = NoToken]

(* A transfer: q goes, its browser arrives as p. *)
Transfer(q, p, r) ==
    /\ rooms.member[q] \in Room \ {r}
    /\ IsFresh(p)
    /\ rooms' = JoinRoom(LeaveRoom(rooms, rooms.member[q], q), r, p)
    /\ issued' = [issued EXCEPT ![p] = r]
    /\ \E t \in Token :
          auth'.tokenOf = [[auth.tokenOf EXCEPT ![q] = NoToken] EXCEPT ![p] = t]

Absence(q) ==
    /\ rooms.member[q] \in Room
    /\ rooms' = [rooms EXCEPT !.reconnecting = @ \cup {q}]
    /\ issued' = issued
    /\ auth' = auth

Silence == rooms' = rooms /\ issued' = issued /\ auth' = auth

StepKind ==
    \/ \E p \in Participant, r \in Room : Arrival(p, r)
    \/ \E q \in Participant : Return(q) \/ Departure(q) \/ Absence(q)
    \/ \E q, p \in Participant, r \in Room : Transfer(q, p, r)
    \/ Silence

(* A participant id that was never issued is in no room. *)
LEMMA FreshIsNowhere ==
    ASSUME LifecycleInv, NEW p \in Participant, IsFresh(p)
    PROVE  rooms.member[p] = NoRoom /\ issued[p] = NoRoom
BY DEF LifecycleInv, MembersIssued, IsFresh, TypeOK, RoomDirectory

LEMMA StepKinds == LifecycleInv /\ [Next]_vars => StepKind
<1> SUFFICES ASSUME LifecycleInv, [Next]_vars PROVE StepKind
  OBVIOUS
<1> HIDE DEF StepKind
<1>1. /\ rooms \in RoomDirectory /\ auth \in AuthRegistry
      /\ issued \in [Participant -> Room \cup {NoRoom}]
      /\ TokenSeats(rooms, auth) /\ MembersIssued
  BY InvIsCoherence DEF LifecycleInv, Coherent, TypeOK
<1>2. \A a \in AuthRegistry, t \in Token, r \in Room, p \in Participant :
         BindTokenToParticipant(a, t, r, p).tokenOf = [a.tokenOf EXCEPT ![p] = t]
  BY DEF BindTokenToParticipant
<1>3. \A a \in AuthRegistry, q \in Participant :
         UnbindParticipant(a, q).tokenOf = [a.tokenOf EXCEPT ![q] = NoToken]
  BY DEF UnbindParticipant
<1>4. ASSUME NEW s \in Socket, NEW t \in Token, NEW r \in Room, NEW id \in Identity,
             Join(s, t, r, id)
      PROVE  StepKind
  <2>1. PICK p \in Participant : /\ Admitted(rooms, r, id, p)
                                 /\ rooms' = AfterAdmission(rooms, r, p)
                                 /\ Seated(joined, mapping, auth, timers, s, t, r, p)
    BY <1>4 DEF Join
  <2>2. /\ issued' = [issued EXCEPT ![p] = r]
        /\ auth'.tokenOf = [auth.tokenOf EXCEPT ![p] = t]
    BY <1>1, <1>2, <2>1 DEF Seated
  <2>3. CASE IsFresh(p)
    <3>1. rooms' = JoinRoom(rooms, r, p)
      BY <2>1, <2>3, FreshIsNowhere, RoomAssumption DEF AfterAdmission
    <3>2. Arrival(p, r)
      BY <2>2, <2>3, <3>1 DEF Arrival
    <3> QED
      BY <3>2 DEF StepKind
  <2>4. CASE rooms.member[p] = r /\ auth.binding[t] = SeatOf(r, p)
    <3>1. rooms' = ReconnectToRoom(rooms, p)
      BY <2>1, <2>4 DEF AfterAdmission
    <3>2. auth.tokenOf[p] = t /\ issued[p] = r
      BY <1>1, <2>4, RoomAssumption DEF TokenSeats, Linked, SeatOf, MembersIssued
    <3>3. issued' = issued
      BY <1>1, <2>2, <3>2
    <3>4. auth'.tokenOf = auth.tokenOf
      BY <1>1, <2>2, <3>2 DEF AuthRegistry
    <3>5. Return(p)
      BY <2>4, <3>1, <3>3, <3>4 DEF Return
    <3> QED
      BY <3>5 DEF StepKind
  <2> QED
    BY <1>4, <2>1, <2>3, <2>4, JoinServesOwnBrowser
<1>5. ASSUME NEW s \in Socket, NEW t \in Token, NEW r \in Room, NEW id \in Identity,
             JoinWithTransfer(s, t, r, id)
      PROVE  StepKind
  <2> DEFINE b == auth.binding[t].room
             q == auth.binding[t].participant
             d == LeaveRoom(rooms, b, q)
  <2>1. /\ b \in Room \ {r} /\ q \in Participant /\ rooms.member[q] = b
        /\ \A p \in Participant : Admitted(d, r, id, p) => IsFresh(p)
    BY <1>5, TransferServesNewcomer
  <2>2. PICK p \in Participant :
           /\ Admitted(d, r, id, p)
           /\ rooms' = AfterAdmission(d, r, p)
           /\ auth' = BindTokenToParticipant(UnbindParticipant(auth, q), t, r, p)
           /\ issued' = [issued EXCEPT ![p] = r]
    BY <1>5 DEF JoinWithTransfer, Seated
  <2>3. IsFresh(p)
    BY <2>1, <2>2
  <2>4. rooms.member[p] = NoRoom
    BY <2>3, FreshIsNowhere
  <2>5. d.member = [rooms.member EXCEPT ![q] = NoRoom]
    BY <1>1, <2>1, LeaveEffect
  <2>6. d.member[p] # r
    BY <1>1, <2>4, <2>5, RoomAssumption DEF RoomDirectory
  <2>7. rooms' = JoinRoom(d, r, p)
    BY <2>2, <2>6 DEF AfterAdmission
  <2>8. auth'.tokenOf = [[auth.tokenOf EXCEPT ![q] = NoToken] EXCEPT ![p] = t]
    <3> HIDE DEF q
    <3>1. /\ UnbindParticipant(auth, q) \in AuthRegistry
          /\ UnbindParticipant(auth, q).tokenOf = [auth.tokenOf EXCEPT ![q] = NoToken]
      BY <1>1, <1>3, <2>1, AuthTyped
    <3>2. auth'.tokenOf = [UnbindParticipant(auth, q).tokenOf EXCEPT ![p] = t]
      BY <1>2, <2>2, <3>1
    <3> QED
      BY <3>1, <3>2
  <2>9. Transfer(q, p, r)
    BY <2>1, <2>2, <2>3, <2>7, <2>8 DEF Transfer
  <2> QED
    BY <2>1, <2>9 DEF StepKind
<1>6. ASSUME NEW s \in Socket, Leave(s) \/ DisconnectByClient(s) PROVE StepKind
  <2> DEFINE b == mapping.session[s].room
             q == mapping.session[s].participant
  <2>1. mapping.session[s] # NoSeat
    BY <1>6 DEF Leave, DisconnectByClient
  <2>2. b \in Room /\ q \in Participant /\ rooms.member[q] = b
    BY <2>1, SessionSeat
  <2>3. /\ rooms' = LeaveRoom(rooms, b, q) /\ auth' = UnbindParticipant(auth, q)
        /\ issued' = issued
    BY <1>6, <2>2 DEF Leave, Depart, DisconnectByClient, Close
  <2>4. Departure(q)
    BY <1>1, <1>3, <2>2, <2>3 DEF Departure
  <2> QED
    BY <2>2, <2>4 DEF StepKind
<1>7. ASSUME NEW s \in Socket, ConnectionLost(s) PROVE StepKind
  <2> DEFINE b == mapping.session[s].room
             q == mapping.session[s].participant
  <2>1. mapping.session[s] # NoSeat
    BY <1>7 DEF ConnectionLost
  <2>2. b \in Room /\ q \in Participant /\ rooms.member[q] = b
    BY <2>1, SessionSeat
  <2>3. rooms' = [rooms EXCEPT !.reconnecting = @ \cup {q}] /\ auth' = auth /\ issued' = issued
    BY <1>7, <2>2 DEF ConnectionLost, Close, MarkReconnecting
  <2>4. Absence(q)
    BY <2>2, <2>3 DEF Absence
  <2> QED
    BY <2>2, <2>4 DEF StepKind
<1>8. ASSUME NEW s \in Socket, ConnectionLostWithoutTimer(s) PROVE StepKind
  <2> DEFINE b == mapping.session[s].room
             q == mapping.session[s].participant
             d == MarkReconnecting(rooms, b, q)
  <2>1. mapping.session[s] # NoSeat
    BY <1>8 DEF ConnectionLostWithoutTimer
  <2>2. b \in Room /\ q \in Participant /\ rooms.member[q] = b
    BY <2>1, SessionSeat
  <2>3. /\ d.member = rooms.member /\ d.owner = rooms.owner /\ d.open = rooms.open
        /\ d.reconnecting = rooms.reconnecting \cup {q}
    BY <1>1, <2>2, MarkEffect
  <2>4. Members(d, b) = Members(rooms, b)
    BY <2>3 DEF Members
  <2>5. rooms' = LeaveRoom(rooms, b, q)
    <3>1. rooms' = LeaveRoom(d, b, q)
      BY <1>8, <2>2, <2>3 DEF ConnectionLostWithoutTimer, FinalizeReconnectingLeave,
                                IsReconnectingIn
    <3>2. d.reconnecting \ {q} = rooms.reconnecting \ {q}
      BY <2>3
    <3> HIDE DEF d
    <3> QED
      BY <2>2, <2>3, <2>4, <3>1, <3>2 DEF LeaveRoom
  <2>6. auth' = UnbindParticipant(auth, q) /\ issued' = issued
    BY <1>8 DEF ConnectionLostWithoutTimer, Close
  <2>7. Departure(q)
    BY <1>1, <1>3, <2>2, <2>5, <2>6 DEF Departure
  <2> QED
    BY <2>2, <2>7 DEF StepKind
<1>9. ASSUME NEW p \in Participant, GraceExpired(p) PROVE StepKind
  <2>1. /\ p \in rooms.reconnecting /\ timers[p] = rooms.member[p]
        /\ rooms.member[p] \in Room
    BY <1>9 DEF GraceExpired, LifecycleInv, TimersForReconnecting, TypeOK
  <2>2. /\ rooms' = LeaveRoom(rooms, rooms.member[p], p)
        /\ auth' = UnbindParticipant(auth, p) /\ issued' = issued
    BY <1>9, <2>1 DEF GraceExpired, FinalizeReconnectingLeave, IsReconnectingIn
  <2>3. Departure(p)
    BY <1>1, <1>3, <2>1, <2>2 DEF Departure
  <2> QED
    BY <2>3 DEF StepKind
<1>10. ASSUME Sweep PROVE StepKind
  <2>1. \A r \in Room : r \in rooms.open <=> Members(rooms, r) # {}
    BY DEF LifecycleInv, OldestOwnsRoom
  <2>2. rooms' = rooms
    BY <1>1, <1>10, <2>1 DEF Sweep, SweepEmptyRooms, RoomDirectory
  <2> QED
    BY <1>10, <2>2 DEF Sweep, StepKind, Silence
<1>11. ASSUME NEW s \in Socket, Connect(s) \/ DisconnectIdle(s) PROVE StepKind
  BY <1>11 DEF Connect, DisconnectIdle, Close, StepKind, Silence
<1>12. CASE UNCHANGED vars
  BY <1>12 DEF vars, StepKind, Silence
<1> QED
  BY <1>4, <1>5, <1>6, <1>7, <1>8, <1>9, <1>10, <1>11, <1>12 DEF Next, JoinRequest, Disconnect

(* joinParticipant serves a browser only its own participant, and no       *)
(* handler touches the token of a participant that stays where it is.      *)
LEMMA IdentityStep ==
    ASSUME LifecycleInv, [Next]_vars, NEW p \in Participant,
           rooms.member[p] # NoRoom, rooms'.member[p] = rooms.member[p]
    PROVE  auth'.tokenOf[p] = auth.tokenOf[p]
<1>1. /\ rooms \in RoomDirectory
      /\ rooms.member \in [Participant -> Room \cup {NoRoom}]
      /\ auth.tokenOf \in [Participant -> Token \cup {NoToken}]
  BY DEF LifecycleInv, TypeOK, RoomDirectory, AuthRegistry
<1>2. ASSUME NEW q \in Participant, IsFresh(q) PROVE q # p
  BY <1>2, FreshIsNowhere
<1>3. ASSUME NEW q \in Participant, NEW r \in Room, Arrival(q, r)
      PROVE  auth'.tokenOf[p] = auth.tokenOf[p]
  BY <1>1, <1>2, <1>3 DEF Arrival
<1>4. ASSUME NEW q \in Participant, Return(q) \/ Absence(q)
      PROVE  auth'.tokenOf[p] = auth.tokenOf[p]
  BY <1>4 DEF Return, Absence
<1>5. ASSUME NEW q \in Participant, rooms.member[q] \in Room
      PROVE  LeaveRoom(rooms, rooms.member[q], q).member = [rooms.member EXCEPT ![q] = NoRoom]
  BY <1>1, <1>5, LeaveEffect
<1>6. ASSUME NEW q \in Participant, Departure(q) PROVE auth'.tokenOf[p] = auth.tokenOf[p]
  <2>1. q # p
    BY <1>1, <1>5, <1>6 DEF Departure
  <2> QED
    BY <1>1, <1>6, <2>1 DEF Departure
<1>7. ASSUME NEW q \in Participant, NEW x \in Participant, NEW r \in Room, Transfer(q, x, r)
      PROVE  auth'.tokenOf[p] = auth.tokenOf[p]
  <2>1. x # p
    BY <1>2, <1>7 DEF Transfer
  <2>2. rooms'.member = [[rooms.member EXCEPT ![q] = NoRoom] EXCEPT ![x] = r]
    BY <1>5, <1>7 DEF Transfer, JoinRoom
  <2>3. q # p
    BY <1>1, <2>1, <2>2
  <2> QED
    BY <1>1, <1>7, <2>1, <2>3 DEF Transfer
<1>8. Silence => auth'.tokenOf[p] = auth.tokenOf[p]
  BY DEF Silence
<1> QED
  BY <1>3, <1>4, <1>6, <1>7, <1>8, StepKinds DEF StepKind

(* While a participant stays in its room, no other browser takes over its  *)
(* identity, in any behaviour of any number of browsers.                   *)
THEOREM IdentityStays == Spec => IdentityStaysWithBrowser
<1>1. LifecycleInv /\ [Next]_vars =>
          [\A p \in Participant :
              rooms.member[p] # NoRoom /\ rooms'.member[p] = rooms.member[p]
                  => auth'.tokenOf[p] = auth.tokenOf[p]]_vars
  BY IdentityStep
<1> QED
  BY <1>1, LifecycleSafe, PTL DEF Spec, IdentityStaysWithBrowser

(* The disconnect handlers act on the participant of their own session.    *)
LEMMA DisconnectStep ==
    ASSUME LifecycleInv, Next, NEW s \in Socket, NEW p \in Participant,
           transport[s] = "open", transport'[s] = "closed", mapping.endpoint[p] # s
    PROVE  /\ rooms'.member[p] = rooms.member[p]
           /\ p \in rooms'.reconnecting <=> p \in rooms.reconnecting
           /\ mapping'.endpoint[p] = mapping.endpoint[p]
<1>1. /\ rooms \in RoomDirectory
      /\ rooms.member \in [Participant -> Room \cup {NoRoom}]
      /\ transport \in [Socket -> {"new", "open", "closed"}]
      /\ mapping.endpoint \in [Participant -> Socket \cup {NoSocket}]
  BY DEF LifecycleInv, TypeOK, RoomDirectory, SessionMapping
<1>2. mapping.session[s].participant # p
  BY DEF LifecycleInv, SessionsMatchEndpoints
<1>3. Disconnect(s)
  <2>1. \/ \E x \in Socket : Disconnect(x)
        \/ UNCHANGED transport
        \/ \E x \in Socket : Connect(x)
    BY DEF Next, JoinRequest, Join, JoinWithTransfer, Leave, GraceExpired, Sweep
  <2>2. ~ UNCHANGED transport
    OBVIOUS
  <2>3. \A x \in Socket : ~Connect(x)
    BY <1>1 DEF Connect
  <2>4. PICK x \in Socket : Disconnect(x)
    BY <2>1, <2>2, <2>3
  <2>5. transport' = [transport EXCEPT ![x] = "closed"]
    BY <2>4 DEF Disconnect, DisconnectByClient, DisconnectIdle, ConnectionLost,
                ConnectionLostWithoutTimer, Close
  <2> QED
    BY <1>1, <2>4, <2>5
<1>4. mapping' = UnbindSocketSession(mapping, s)
  BY <1>3 DEF Disconnect, DisconnectByClient, DisconnectIdle, ConnectionLost,
              ConnectionLostWithoutTimer, Close
<1>5. mapping'.endpoint[p] = mapping.endpoint[p]
  BY <1>1, <1>4 DEF UnbindSocketSession, DropEndpoint
<1> DEFINE b == mapping.session[s].room
           q == mapping.session[s].participant
           d == MarkReconnecting(rooms, b, q)
           Spared(e) == e.member[p] = rooms.member[p] /\ (p \in e.reconnecting <=> p \in rooms.reconnecting)
<1>6. CASE DisconnectIdle(s)
  BY <1>5, <1>6 DEF DisconnectIdle
<1>7. CASE ~DisconnectIdle(s)
  <2>1. mapping.session[s] # NoSeat
    BY <1>3, <1>7 DEF Disconnect, DisconnectByClient, ConnectionLost, ConnectionLostWithoutTimer
  <2>2. b \in Room /\ q \in Participant /\ rooms.member[q] = b
    BY <2>1, SessionSeat
  <2>3. d.member = rooms.member /\ d.reconnecting = rooms.reconnecting \cup {q}
    BY <1>1, <2>2, MarkEffect
  <2>4. d \in RoomDirectory
    BY <1>1, <2>2, MarkTyped
  <2>5. \/ rooms' = LeaveRoom(rooms, b, q)
        \/ rooms' = d
        \/ rooms' = FinalizeReconnectingLeave(d, b, q)
    BY <1>3, <1>7 DEF Disconnect, DisconnectByClient, ConnectionLost,
                      ConnectionLostWithoutTimer
  <2> HIDE DEF d
  <2>6. /\ LeaveRoom(rooms, b, q).member = [rooms.member EXCEPT ![q] = NoRoom]
        /\ LeaveRoom(rooms, b, q).reconnecting = rooms.reconnecting \ {q}
    BY <1>1, <2>2, LeaveEffect
  <2>7. /\ FinalizeReconnectingLeave(d, b, q).member = [rooms.member EXCEPT ![q] = NoRoom]
        /\ FinalizeReconnectingLeave(d, b, q).reconnecting = rooms.reconnecting \ {q}
    <3>1. FinalizeReconnectingLeave(d, b, q) = LeaveRoom(d, b, q)
      BY <2>2, <2>3 DEF FinalizeReconnectingLeave, IsReconnectingIn
    <3>2. d.member[q] = b
      BY <2>2, <2>3
    <3>3. /\ LeaveRoom(d, b, q).member = [d.member EXCEPT ![q] = NoRoom]
          /\ LeaveRoom(d, b, q).reconnecting = d.reconnecting \ {q}
      BY <2>2, <2>4, <3>2, LeaveEffect
    <3> QED
      BY <2>3, <3>1, <3>3
  <2>8. /\ rooms'.member \in {rooms.member, [rooms.member EXCEPT ![q] = NoRoom]}
        /\ rooms'.reconnecting \in {rooms.reconnecting \cup {q}, rooms.reconnecting \ {q}}
    BY <2>3, <2>5, <2>6, <2>7
  <2> QED
    BY <1>1, <1>2, <1>5, <2>2, <2>8
<1> QED
  BY <1>6, <1>7

(* A connection that ends takes along at most the participant it had a     *)
(* session for.                                                            *)
THEOREM DisconnectSpares == Spec => DisconnectSparesOthers
<1>1. LifecycleInv /\ [Next]_vars =>
          [\A s \in Socket, p \in Participant :
              transport[s] = "open" /\ transport'[s] = "closed" /\ mapping.endpoint[p] # s
              => /\ rooms'.member[p] = rooms.member[p]
                 /\ p \in rooms'.reconnecting <=> p \in rooms.reconnecting
                 /\ mapping'.endpoint[p] = mapping.endpoint[p]]_vars
  BY DisconnectStep
<1> QED
  BY <1>1, LifecycleSafe, PTL DEF Spec, DisconnectSparesOthers

(***************************************************************************)
(* The lifecycle implements the roster: every kind of step is a step of    *)
(* RoomRoster under the refinement mapping, or changes nothing it sees.    *)
(***************************************************************************)

(* Any people there are include a longest-present one: their ids are       *)
(* natural numbers.                                                        *)
LEMMA SomebodyIsOldest ==
    ASSUME NEW S \in SUBSET Participant, S # {}
    PROVE  \E m \in S : \A q \in S : m <= q
<1> DEFINE R == OpToRel(<, Nat)
<1>1. IsWellFoundedOn(R, Nat)
  BY NatLessThanWellFounded
<1>2. \A n, m \in Nat : <<n, m>> \in R <=> n < m
  BY DEF OpToRel
<1> HIDE DEF R
<1>3. S \in SUBSET Nat
  BY DEF Participant
<1>4. PICK m \in S : \A q \in S : ~ (<<q, m>> \in R)
  BY <1>1, <1>3, WFMin
<1>5. ASSUME NEW q \in S PROVE m <= q
  <2>1. m \in Nat /\ q \in Nat
    BY <1>3
  <2>2. ~ (q < m)
    BY <1>2, <1>4, <2>1
  <2> QED
    BY <2>1, <2>2
<1> QED
  BY <1>5

Longest(S) == Roster!Longest(S)

LEMMA LongestIsOldest ==
    ASSUME NEW S \in SUBSET Participant, NEW m \in S, \A q \in S : m <= q
    PROVE  Longest(S) = m
<1>1. \A p \in S : (\A q \in S : p <= q) => p = m
  BY DEF Participant
<1> QED
  BY <1>1 DEF Longest, Roster!Longest

LEMMA LongestExists ==
    ASSUME NEW S \in SUBSET Participant, S # {}
    PROVE  Longest(S) \in S /\ \A q \in S : Longest(S) <= q
BY SomebodyIsOldest, LongestIsOldest

LEMMA LongestOfNobody == Longest({}) = NoParticipant
BY DEF Longest, Roster!Longest

(* The refinement mapping, room by room. *)
Present == [r \in Room |-> Members(rooms, r)]
Owner == [r \in Room |-> IF OwnersIn(r) = {} THEN NoParticipant
                         ELSE CHOOSE p \in OwnersIn(r) : TRUE]
Arrived == {p \in Participant : issued[p] # NoRoom}

(* The owner is the longest-present member. *)
LEMMA OwnerIsLongest ==
    OldestOwnsRoom => Owner = [r \in Room |-> Longest(Members(rooms, r))]
<1> SUFFICES ASSUME OldestOwnsRoom, NEW r \in Room
             PROVE  Owner[r] = Longest(Members(rooms, r))
  BY DEF Owner
<1> DEFINE M == Members(rooms, r)
<1>1. OwnersIn(r) = Oldest(M)
  BY DEF OwnersIn, OldestOwnsRoom
<1>2. M \in SUBSET Participant
  BY DEF Members
<1>3. CASE M = {}
  BY <1>1, <1>3, LongestOfNobody DEF Owner, Oldest
<1>4. CASE M # {}
  <2>1. PICK m \in M : \A q \in M : m <= q
    BY <1>2, <1>4, SomebodyIsOldest
  <2>2. Oldest(M) = {m}
    BY <1>2, <2>1 DEF Oldest, Participant
  <2>3. Longest(M) = m
    BY <1>2, <2>1, LongestIsOldest
  <2> QED
    BY <1>1, <2>2, <2>3 DEF Owner
<1> QED
  BY <1>3, <1>4

(* How the longest-present member changes when somebody younger arrives    *)
(* and when somebody goes.                                                 *)
LEMMA LongestAfterArrival ==
    ASSUME NEW S \in SUBSET Participant, NEW p \in Participant, \A q \in S : q < p
    PROVE  Longest(S \cup {p}) = IF S = {} THEN p ELSE Longest(S)
<1>1. S \cup {p} \in SUBSET Participant /\ p \in Nat /\ S \subseteq Nat
  BY DEF Participant
<1>2. CASE S = {}
  BY <1>1, <1>2, LongestIsOldest
<1>3. CASE S # {}
  <2>1. Longest(S) \in S /\ \A q \in S : Longest(S) <= q
    BY <1>3, LongestExists
  <2>2. \A q \in S \cup {p} : Longest(S) <= q
    <3> DEFINE m == Longest(S)
    <3>1. m \in S /\ m \in Nat /\ m < p /\ \A q \in S : m <= q
      BY <1>1, <2>1
    <3> HIDE DEF m
    <3>2. \A q \in S \cup {p} : m <= q
      BY <1>1, <3>1
    <3> QED
      BY <3>2 DEF m
  <2> QED
    BY <1>1, <1>3, <2>1, <2>2, LongestIsOldest
<1> QED
  BY <1>2, <1>3

LEMMA LongestAfterDeparture ==
    ASSUME NEW S \in SUBSET Participant, NEW p \in S
    PROVE  Longest(S \ {p}) = IF Longest(S) = p THEN Longest(S \ {p}) ELSE Longest(S)
<1>1. CASE Longest(S) = p
  BY <1>1
<1>2. CASE Longest(S) # p
  <2>1. Longest(S) \in S /\ \A q \in S : Longest(S) <= q
    BY LongestExists
  <2>2. Longest(S) \in S \ {p} /\ \A q \in S \ {p} : Longest(S) <= q
    BY <1>2, <2>1
  <2>3. S \ {p} \in SUBSET Participant
    OBVIOUS
  <2> QED
    BY <1>2, <2>2, <2>3, LongestIsOldest
<1> QED
  BY <1>1, <1>2

(* What the two room methods do to the members of every room. *)
LEMMA MembersAfterJoin ==
    ASSUME NEW d \in RoomDirectory, NEW r \in Room, NEW p \in Participant,
           d.member[p] = NoRoom
    PROVE  /\ \A x \in Room : Members(JoinRoom(d, r, p), x) =
                 IF x = r THEN Members(d, x) \cup {p} ELSE Members(d, x)
           /\ JoinRoom(d, r, p).reconnecting = d.reconnecting \ {p}
<1>1. d.member \in [Participant -> Room \cup {NoRoom}]
  BY DEF RoomDirectory
<1> QED
  BY <1>1, RoomAssumption DEF JoinRoom, Members

LEMMA MembersAfterLeave ==
    ASSUME NEW d \in RoomDirectory, NEW q \in Participant, d.member[q] \in Room
    PROVE  LET e == LeaveRoom(d, d.member[q], q)
           IN  /\ \A x \in Room : Members(e, x) =
                     IF x = d.member[q] THEN Members(d, x) \ {q} ELSE Members(d, x)
               /\ e.reconnecting = d.reconnecting \ {q}
               /\ e.member = [d.member EXCEPT ![q] = NoRoom]
<1>1. d.member \in [Participant -> Room \cup {NoRoom}]
  BY DEF RoomDirectory
<1>2. LET e == LeaveRoom(d, d.member[q], q)
      IN  /\ e.member = [d.member EXCEPT ![q] = NoRoom]
          /\ e.reconnecting = d.reconnecting \ {q}
  BY LeaveEffect
<1> QED
  BY <1>1, <1>2, RoomAssumption DEF Members

LEMMA RosterInit == Init => Roster!Init
<1> SUFFICES ASSUME Init PROVE Roster!Init
  OBVIOUS
<1>1. \A p \in Participant : rooms.member[p] = NoRoom /\ issued[p] = NoRoom
  BY DEF Init, EmptyDirectory
<1>2. \A r \in Room : Members(rooms, r) = {} /\ OwnersIn(r) = {}
  BY <1>1, RoomAssumption DEF Members, OwnersIn
<1>3. rooms.reconnecting = {}
  BY DEF Init, EmptyDirectory
<1> QED
  BY <1>1, <1>2, <1>3 DEF Roster!Init

RosterStep == [Roster!Next]_(Roster!rosterVars)

LEMMA RosterNext == LifecycleInv /\ LifecycleInv' /\ [Next]_vars => RosterStep
<1> SUFFICES ASSUME LifecycleInv, LifecycleInv', [Next]_vars PROVE RosterStep
  OBVIOUS
<1> HIDE DEF RosterStep
<1> DEFINE M(r) == Members(rooms, r)
<1>1. /\ rooms \in RoomDirectory
      /\ rooms.member \in [Participant -> Room \cup {NoRoom}]
      /\ rooms.reconnecting \subseteq Participant
      /\ issued \in [Participant -> Room \cup {NoRoom}]
      /\ IdsInOrder /\ MembersIssued
  BY DEF LifecycleInv, TypeOK, RoomDirectory
<1>2. /\ Owner = [r \in Room |-> Longest(Members(rooms, r))]
      /\ Owner' = [r \in Room |-> Longest(Members(rooms', r))]
  <2>1. (OldestOwnsRoom => Owner = [r \in Room |-> Longest(Members(rooms, r))])'
    BY OwnerIsLongest, PTL
  <2> QED
    BY <2>1, OwnerIsLongest DEF LifecycleInv
<1>3. \A r \in Room : Members(rooms, r) \in SUBSET Participant
  BY DEF Members
<1>4. ASSUME NEW p \in Participant, IsFresh(p), NEW r \in Room,
             issued' = [issued EXCEPT ![p] = r]
      PROVE  /\ p \notin Arrived /\ \A q \in Arrived : q < p
             /\ Arrived' = Arrived \cup {p}
             /\ rooms.member[p] = NoRoom /\ p \notin rooms.reconnecting
             /\ \A x \in Room : \A q \in Members(rooms, x) : q < p
  <2>1. rooms.member[p] = NoRoom /\ issued[p] = NoRoom
    BY <1>4, FreshIsNowhere
  <2>2. p \notin Arrived /\ \A q \in Arrived : q < p
    BY <1>1, <2>1 DEF Arrived, IdsInOrder
  <2>3. Arrived' = Arrived \cup {p}
    BY <1>1, <1>4, RoomAssumption DEF Arrived
  <2>4. p \notin rooms.reconnecting
    BY <2>1 DEF LifecycleInv, ReconnectingAreMembers
  <2>5. \A x \in Room : \A q \in Members(rooms, x) : q < p
    BY <1>1, <2>1, RoomAssumption DEF Members, MembersIssued, IdsInOrder
  <2> QED
    BY <2>1, <2>2, <2>3, <2>4, <2>5
<1>5. ASSUME NEW p \in Participant, NEW r \in Room, Arrival(p, r) PROVE RosterStep
  <2>1. /\ p \notin Arrived /\ \A q \in Arrived : q < p
        /\ Arrived' = Arrived \cup {p}
        /\ rooms.member[p] = NoRoom /\ p \notin rooms.reconnecting
        /\ \A q \in Members(rooms, r) : q < p
    BY <1>4, <1>5 DEF Arrival
  <2>2. /\ \A x \in Room : Members(rooms', x) =
              IF x = r THEN Members(rooms, x) \cup {p} ELSE Members(rooms, x)
        /\ rooms'.reconnecting = rooms.reconnecting
    <3>1. /\ \A x \in Room : Members(JoinRoom(rooms, r, p), x) =
                IF x = r THEN Members(rooms, x) \cup {p} ELSE Members(rooms, x)
          /\ JoinRoom(rooms, r, p).reconnecting = rooms.reconnecting \ {p}
      BY <1>1, <2>1, MembersAfterJoin
    <3>2. rooms' = JoinRoom(rooms, r, p)
      BY <1>5 DEF Arrival
    <3> QED
      BY <2>1, <3>1, <3>2
  <2>3. Present' = [Present EXCEPT ![r] = @ \cup {p}]
    BY <2>2 DEF Present
  <2>4. Longest(Members(rooms, r) \cup {p}) =
            IF Members(rooms, r) = {} THEN p ELSE Longest(Members(rooms, r))
    BY <1>3, <2>1, LongestAfterArrival
  <2>5. Owner' = IF Present[r] = {} THEN [Owner EXCEPT ![r] = p] ELSE Owner
    BY <1>2, <2>2, <2>4 DEF Present
  <2>6. Roster!Arrive(p, r)
    BY <2>1, <2>2, <2>3, <2>5 DEF Roster!Arrive, Present, Owner, Arrived
  <2> QED
    BY <2>6 DEF RosterStep, Roster!Next
<1>6. ASSUME NEW q \in Participant, Departure(q) PROVE RosterStep
  <2> DEFINE b == rooms.member[q]
             d == LeaveRoom(rooms, b, q)
  <2>1. /\ \A x \in Room : Members(rooms', x) =
              IF x = b THEN Members(rooms, x) \ {q} ELSE Members(rooms, x)
        /\ rooms'.reconnecting = rooms.reconnecting \ {q}
        /\ b \in Room /\ q \in Members(rooms, b)
    <3>1. b \in Room /\ rooms' = d
      BY <1>6 DEF Departure
    <3>2. /\ \A x \in Room : Members(d, x) =
                IF x = b THEN Members(rooms, x) \ {q} ELSE Members(rooms, x)
          /\ d.reconnecting = rooms.reconnecting \ {q}
      BY <1>1, <3>1, MembersAfterLeave
    <3>3. q \in Members(rooms, b)
      BY DEF Members
    <3> HIDE DEF d, b
    <3> QED
      BY <3>1, <3>2, <3>3
  <2> HIDE DEF b, d
  <2>2. Present' = [Present EXCEPT ![b] = @ \ {q}] /\ q \in Present[b]
    BY <2>1 DEF Present
  <2>3. Longest(Members(rooms, b) \ {q}) =
            IF Longest(Members(rooms, b)) = q THEN Longest(Members(rooms, b) \ {q})
            ELSE Longest(Members(rooms, b))
    BY <1>3, <2>1, LongestAfterDeparture
  <2>4. Owner' = [Owner EXCEPT ![b] = IF @ = q THEN Longest(Present[b] \ {q}) ELSE @]
    BY <1>2, <2>1, <2>3 DEF Present
  <2>5. Arrived' = Arrived
    BY <1>6 DEF Departure, Arrived
  <2>6. Roster!Go(q, b)
    BY <2>1, <2>2, <2>4, <2>5
       DEF Roster!Go, Roster!Without, Roster!Successor, Longest, Present, Owner, Arrived
  <2> QED
    BY <2>1, <2>6 DEF RosterStep, Roster!Next
<1>7. ASSUME NEW q \in Participant, NEW p \in Participant, NEW r \in Room, Transfer(q, p, r)
      PROVE  RosterStep
  <2> DEFINE b == rooms.member[q]
             d == LeaveRoom(rooms, b, q)
  <2>1. /\ p \notin Arrived /\ \A x \in Arrived : x < p
        /\ Arrived' = Arrived \cup {p}
        /\ rooms.member[p] = NoRoom /\ p \notin rooms.reconnecting
        /\ \A x \in Members(rooms, r) : x < p
    BY <1>4, <1>7 DEF Transfer
  <2>2. /\ \A x \in Room : Members(d, x) =
              IF x = b THEN Members(rooms, x) \ {q} ELSE Members(rooms, x)
        /\ d.reconnecting = rooms.reconnecting \ {q}
        /\ d.member = [rooms.member EXCEPT ![q] = NoRoom]
        /\ b \in Room \ {r} /\ q \in Members(rooms, b)
    BY <1>1, <1>7, MembersAfterLeave DEF Transfer, Members
  <2>3. d \in RoomDirectory /\ d.member[p] = NoRoom
    BY <1>1, <2>1, <2>2, LeaveTyped
  <2>4. rooms' = JoinRoom(d, r, p)
    BY <1>7 DEF Transfer
  <2> HIDE DEF d, b
  <2>5. /\ \A x \in Room : Members(rooms', x) =
              IF x = r THEN Members(rooms, x) \cup {p}
              ELSE IF x = b THEN Members(rooms, x) \ {q} ELSE Members(rooms, x)
        /\ rooms'.reconnecting = rooms.reconnecting \ {q}
    <3>1. /\ \A x \in Room : Members(JoinRoom(d, r, p), x) =
                IF x = r THEN Members(d, x) \cup {p} ELSE Members(d, x)
          /\ JoinRoom(d, r, p).reconnecting = d.reconnecting \ {p}
      BY <2>3, MembersAfterJoin
    <3>2. (rooms.reconnecting \ {q}) \ {p} = rooms.reconnecting \ {q}
      BY <2>1
    <3>3. r # b
      BY <2>2
    <3> QED
      BY <2>2, <2>4, <3>1, <3>2, <3>3
  <2>6. /\ Present' = [[Present EXCEPT ![b] = @ \ {q}] EXCEPT ![r] = @ \cup {p}]
        /\ q \in Present[b]
    BY <2>2, <2>5 DEF Present
  <2>7. /\ Longest(Members(rooms, b) \ {q}) =
               IF Longest(Members(rooms, b)) = q THEN Longest(Members(rooms, b) \ {q})
               ELSE Longest(Members(rooms, b))
        /\ Longest(Members(rooms, r) \cup {p}) =
               IF Members(rooms, r) = {} THEN p ELSE Longest(Members(rooms, r))
    BY <1>3, <2>1, <2>2, LongestAfterDeparture, LongestAfterArrival
  <2> DEFINE Next1 == [Owner EXCEPT ![b] = IF @ = q THEN Longest(Present[b] \ {q}) ELSE @]
  <2>8. Owner' = IF Present[r] = {} THEN [Next1 EXCEPT ![r] = p] ELSE Next1
    BY <1>2, <2>2, <2>5, <2>7 DEF Present
  <2>9. Roster!Move(q, b, p, r)
    BY <2>1, <2>2, <2>5, <2>6, <2>8
       DEF Roster!Move, Roster!Without, Roster!Successor, Longest, Present, Owner, Arrived
  <2> QED
    BY <2>2, <2>9 DEF RosterStep, Roster!Next
<1>8. ASSUME rooms'.member = rooms.member, issued' = issued
      PROVE  Present' = Present /\ Owner' = Owner /\ Arrived' = Arrived
  <2>1. \A r \in Room : Members(rooms', r) = Members(rooms, r)
    BY <1>8 DEF Members
  <2> QED
    BY <1>2, <1>8, <2>1 DEF Present, Arrived
<1>9. ASSUME NEW q \in Participant, Absence(q) PROVE RosterStep
  <2>1. rooms'.member = rooms.member /\ rooms'.reconnecting = rooms.reconnecting \cup {q}
    BY <1>1, <1>9 DEF Absence, RoomDirectory
  <2>2. \E r \in Room : q \in Present[r]
    BY <1>9 DEF Absence, Present, Members
  <2>3. Roster!LoseConnection(q)
    BY <1>8, <1>9, <2>1, <2>2 DEF Absence, Roster!LoseConnection, Present, Owner, Arrived
  <2> QED
    BY <2>3 DEF RosterStep, Roster!Next
<1>10. ASSUME NEW p \in Participant, Return(p) PROVE RosterStep
  <2>1. rooms'.member = rooms.member /\ rooms'.reconnecting = rooms.reconnecting \ {p}
    BY <1>1, <1>10 DEF Return, ReconnectToRoom, RoomDirectory
  <2>2. issued' = issued
    BY <1>10 DEF Return
  <2>3. CASE p \in rooms.reconnecting
    <3>1. Roster!ComeBack(p)
      BY <1>8, <2>1, <2>2, <2>3 DEF Roster!ComeBack, Present, Owner, Arrived
    <3> QED
      BY <3>1 DEF RosterStep, Roster!Next
  <2>4. CASE p \notin rooms.reconnecting
    <3>1. rooms'.reconnecting = rooms.reconnecting
      BY <2>1, <2>4
    <3> QED
      BY <1>8, <2>1, <2>2, <3>1 DEF RosterStep, Roster!rosterVars, Present, Owner, Arrived
  <2> QED
    BY <2>3, <2>4
<1>11. Silence => RosterStep
  BY <1>8 DEF Silence, RosterStep, Roster!rosterVars, Present, Owner, Arrived
<1> QED
  BY <1>5, <1>6, <1>7, <1>9, <1>10, <1>11, StepKinds DEF StepKind

(* The handlers implement the roster: nobody comes back after leaving, a   *)
(* reconnect keeps identity and role, ownership passes only when the owner *)
(* goes, and then to the longest-present participant.                      *)
THEOREM LifecycleKeepsRoster == Spec => KeepsRoster
<1>1. LifecycleInv /\ LifecycleInv' /\ [Next]_vars => [Roster!Next]_(Roster!rosterVars)
  BY RosterNext DEF RosterStep
<1> QED
  BY <1>1, RosterInit, LifecycleSafe, PTL DEF Spec, KeepsRoster, Roster!Spec
=============================================================================
