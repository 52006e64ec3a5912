------------------------- MODULE SignalingRelayProofs -------------------------
(***************************************************************************)
(* Theorems about SignalingRelay for every number of sockets, rooms,       *)
(* participants and handlers at work, for every limit of the traffic gate  *)
(* and however long the clock runs.                                        *)
(***************************************************************************)
EXTENDS SignalingRelay, StoreLemmas, FiniteSetTheorems

(***************************************************************************)
(* The traffic gate.                                                       *)
(***************************************************************************)

Gate == [inFlight: Nat, admitted: [Event -> Seq(Nat)], kept: [Event -> SUBSET Nat]]

(* What a gate knows of its event e at time t: the admissions are in order *)
(* and in the past, the limit was kept, and every admission that may still *)
(* count is among the kept ones.                                           *)
Sound(g, e, t) ==
    LET times == g.admitted[e]
    IN  /\ \A i \in DOMAIN times : times[i] <= t
        /\ \A i, j \in DOMAIN times : i <= j => times[i] <= times[j]
        /\ g.kept[e] \subseteq DOMAIN times
        /\ \A i \in DOMAIN times : times[i] + WindowMs >= t => i \in g.kept[e]
        /\ \A i \in DOMAIN times :
              i + MaxEvents \in DOMAIN times => times[i] + WindowMs < times[i + MaxEvents]

(* A later time only makes more of the kept timestamps superfluous. *)
LEMMA SoundLater ==
    ASSUME NEW g \in Gate, NEW e \in Event, NEW t \in Nat, NEW u \in Nat,
           t <= u, Sound(g, e, t)
    PROVE  Sound(g, e, u)
<1>1. g.admitted[e] \in Seq(Nat)
  BY DEF Gate
<1>2. \A i \in DOMAIN g.admitted[e] : g.admitted[e][i] \in Nat
  BY <1>1
<1> QED
  BY <1>2, TrafficAssumption DEF Sound

(* An event that is refused makes the gate forget what is too old. *)
LEMMA SoundRefuse ==
    ASSUME NEW g \in Gate, NEW t \in Nat, NEW f \in Event, NEW e \in Event,
           Sound(g, e, t)
    PROVE  Refuse(g, f, t) \in Gate /\ Sound(Refuse(g, f, t), e, t)
<1>1. Fresh(g, f, t) \subseteq g.kept[f]
  BY DEF Fresh
<1>2. Refuse(g, f, t) \in Gate
  BY <1>1 DEF Refuse, Gate
<1>3. Refuse(g, f, t).admitted = g.admitted
  BY DEF Refuse, Gate
<1>4. \/ Refuse(g, f, t).kept[e] = g.kept[e]
      \/ e = f /\ Refuse(g, f, t).kept[e] = Fresh(g, e, t)
  BY DEF Refuse, Gate
<1>5. CASE Refuse(g, f, t).kept[e] = g.kept[e]
  BY <1>2, <1>3, <1>5 DEF Sound
<1>6. CASE e = f /\ Refuse(g, f, t).kept[e] = Fresh(g, e, t)
  BY <1>2, <1>3, <1>6 DEF Sound, Fresh
<1> QED
  BY <1>2, <1>4, <1>5, <1>6

(* Seeing a handler out leaves a gate, and touches no timestamp. *)
LEMMA ReleaseTyped ==
    ASSUME NEW g \in Gate
    PROVE  /\ Release(g) \in Gate
           /\ Release(g).admitted = g.admitted /\ Release(g).kept = g.kept
<1>1. /\ g = [inFlight |-> g.inFlight, admitted |-> g.admitted, kept |-> g.kept]
      /\ g.inFlight \in Nat
  BY DEF Gate
<1>2. (IF g.inFlight = 0 THEN 0 ELSE g.inFlight - 1) \in Nat
  BY <1>1
<1> QED
  BY <1>1, <1>2 DEF Release, Gate

LEMMA SoundRelease ==
    ASSUME NEW g \in Gate, NEW t \in Nat, NEW e \in Event, Sound(g, e, t)
    PROVE  Sound(Release(g), e, t)
BY ReleaseTyped DEF Sound

(* The admission that MaxEvents later admissions follow within the window  *)
(* would have left no room for the last of them.                           *)
LEMMA RoomForOneMore ==
    ASSUME NEW g \in Gate, NEW t \in Nat, NEW e \in Event, Sound(g, e, t),
           ~IsRateLimited(g, e, t),
           NEW i \in DOMAIN g.admitted[e], i + MaxEvents = Len(g.admitted[e]) + 1
    PROVE  g.admitted[e][i] + WindowMs < t
<1> DEFINE times == g.admitted[e]
           n     == Len(times)
<1>1. /\ times \in Seq(Nat) /\ n \in Nat /\ DOMAIN times = 1 .. n
      /\ \A j \in 1 .. n : times[j] \in Nat
  <2>1. times \in Seq(Nat)
    BY DEF Gate
  <2> HIDE DEF times
  <2> QED
    BY <2>1
<1>2. i \in 1 .. n /\ i + MaxEvents = n + 1 /\ times[i] \in Nat
  <2>1. i \in 1 .. n /\ i + MaxEvents = n + 1
    BY <1>1
  <2> HIDE DEF times, n
  <2> QED
    BY <1>1, <2>1
<1>3. MaxEvents \in Nat /\ MaxEvents >= 1 /\ WindowMs \in Nat
  BY TrafficAssumption
<1>4. \A j, k \in 1 .. n : j <= k => times[j] <= times[k]
  BY <1>1 DEF Sound
<1>5. SUFFICES ASSUME times[i] + WindowMs >= t PROVE FALSE
  BY <1>2, <1>3
<1>6. i .. n \subseteq Fresh(g, e, t)
  <2> SUFFICES ASSUME NEW k \in i .. n PROVE k \in Fresh(g, e, t)
    OBVIOUS
  <2>1. k \in 1 .. n /\ i <= k
    BY <1>1, <1>2
  <2>2. times[i] <= times[k] /\ times[i] \in Nat /\ times[k] \in Nat
    <3> HIDE DEF n, times
    <3>1. i \in 1 .. n
      BY <1>2
    <3>2. times[i] <= times[k]
      BY <1>4, <2>1, <3>1
    <3> QED
      BY <1>1, <2>1, <3>1, <3>2
  <2>3. times[k] + WindowMs >= t
    <3> HIDE DEF times
    <3> QED
      BY <1>3, <1>5, <2>2
  <2>4. k \in g.kept[e]
    BY <1>1, <2>1, <2>3 DEF Sound
  <2> QED
    BY <2>3, <2>4 DEF Fresh
<1>7. Cardinality(i .. n) = MaxEvents
  <2>1. i \in Int /\ n \in Int /\ ~(i > n) /\ n - i + 1 = MaxEvents
    <3>1. n \in Nat
      BY <1>1
    <3> HIDE DEF n, times
    <3> QED
      BY <1>3, <1>2, <3>1
  <2> HIDE DEF n, times
  <2>2. Cardinality(i .. n) = IF i > n THEN 0 ELSE n - i + 1
    BY <2>1, FS_Interval
  <2> QED
    BY <2>1, <2>2
<1>8. IsFiniteSet(Fresh(g, e, t))
  <2>1. Fresh(g, e, t) \in SUBSET (1 .. n)
    BY <1>1 DEF Fresh, Sound
  <2>2. 1 \in Int /\ n \in Int
    BY <1>1
  <2> HIDE DEF n, times
  <2>3. IsFiniteSet(1 .. n)
    BY <2>2, FS_Interval
  <2> QED
    BY <2>1, <2>3, FS_Subset
<1>9. Cardinality(i .. n) <= Cardinality(Fresh(g, e, t))
  <2>1. i .. n \in SUBSET Fresh(g, e, t)
    BY <1>6
  <2> HIDE DEF n, times
  <2> QED
    BY <1>8, <2>1, FS_Subset
<1>10. Cardinality(Fresh(g, e, t)) \in Nat
  BY <1>8, FS_CardinalityType
<1> QED
  BY <1>3, <1>7, <1>9, <1>10 DEF IsRateLimited

(* Letting an event in keeps the limit. *)
LEMMA SoundEnter ==
    ASSUME NEW g \in Gate, NEW t \in Nat, NEW f \in Event, NEW e \in Event,
           Sound(g, e, t), MayEnter(g, f, t)
    PROVE  Enter(g, f, t) \in Gate /\ Sound(Enter(g, f, t), e, t)
<1> DEFINE h     == Enter(g, f, t)
           times == g.admitted[e]
           n     == Len(times)
<1>1. /\ h.inFlight = g.inFlight + 1
      /\ h.admitted = [g.admitted EXCEPT ![f] = Append(@, t)]
      /\ h.kept = [g.kept EXCEPT ![f] = Fresh(g, f, t) \cup {Len(g.admitted[f]) + 1}]
      /\ h = [inFlight |-> h.inFlight, admitted |-> h.admitted, kept |-> h.kept]
  BY DEF Enter
<1>2. \A x \in Event : /\ g.admitted[x] \in Seq(Nat) /\ Len(g.admitted[x]) \in Nat
                       /\ Fresh(g, x, t) \in SUBSET Nat
  BY DEF Gate, Fresh
<1>3. h.admitted \in [Event -> Seq(Nat)]
  BY <1>1, <1>2 DEF Gate
<1>4. h.kept \in [Event -> SUBSET Nat]
  BY <1>1, <1>2 DEF Gate
<1>5. h \in Gate
  <2>1. g.inFlight + 1 \in Nat
    BY DEF Gate
  <2> HIDE DEF h
  <2> QED
    BY <1>1, <1>3, <1>4, <2>1 DEF Gate
<1>6. CASE e # f
  <2>1. h.admitted[e] = times /\ h.kept[e] = g.kept[e]
    BY <1>1, <1>6 DEF Gate
  <2> QED
    BY <1>5, <2>1 DEF Sound
<1>7. CASE e = f
  <2> DEFINE new == Append(times, t)
  <2>1. h.admitted[e] = new /\ h.kept[e] = Fresh(g, e, t) \cup {n + 1}
    BY <1>1, <1>7 DEF Gate
  <2>2. /\ times \in Seq(Nat) /\ n \in Nat /\ DOMAIN times = 1 .. n
        /\ DOMAIN new = 1 .. (n + 1)
        /\ \A i \in 1 .. n : new[i] = times[i] /\ times[i] \in Nat
        /\ new[n + 1] = t
    <3>1. times \in Seq(Nat)
      BY <1>2
    <3> HIDE DEF times
    <3> QED
      BY <3>1
  <2>3. MaxEvents \in Nat /\ MaxEvents >= 1 /\ WindowMs \in Nat
    BY TrafficAssumption
  <2> HIDE DEF h, new, n, times
  <2>4. /\ \A i \in 1 .. n : times[i] <= t
        /\ \A i, j \in 1 .. n : i <= j => times[i] <= times[j]
        /\ g.kept[e] \subseteq 1 .. n
        /\ \A i \in 1 .. n : times[i] + WindowMs >= t => i \in g.kept[e]
        /\ \A i \in 1 .. n : i + MaxEvents \in 1 .. n => times[i] + WindowMs < times[i + MaxEvents]
    BY <2>2 DEF Sound, times
  <2>5. \A i \in 1 .. (n + 1) : new[i] <= t
    BY <2>2, <2>4
  <2>6. \A i, j \in 1 .. (n + 1) : i <= j => new[i] <= new[j]
    <3> SUFFICES ASSUME NEW i \in 1 .. (n + 1), NEW j \in 1 .. (n + 1), i <= j
                 PROVE  new[i] <= new[j]
      OBVIOUS
    <3>1. CASE j = n + 1
      BY <2>2, <2>5, <3>1
    <3>2. CASE j # n + 1
      <4>1. i \in 1 .. n /\ j \in 1 .. n
        BY <2>2, <3>2
      <4> QED
        BY <2>2, <2>4, <4>1
    <3> QED
      BY <3>1, <3>2
  <2>7. Fresh(g, e, t) = {i \in g.kept[e] : times[i] + WindowMs >= t}
    BY DEF Fresh, times
  <2>8. Fresh(g, e, t) \cup {n + 1} \subseteq 1 .. (n + 1)
    BY <2>2, <2>4, <2>7
  <2>9. \A i \in 1 .. (n + 1) : new[i] + WindowMs >= t => i \in Fresh(g, e, t) \cup {n + 1}
    BY <2>2, <2>4, <2>7
  <2>10. \A i \in 1 .. (n + 1) :
            i + MaxEvents \in 1 .. (n + 1) => new[i] + WindowMs < new[i + MaxEvents]
    <3> SUFFICES ASSUME NEW i \in 1 .. (n + 1), i + MaxEvents \in 1 .. (n + 1)
                 PROVE  new[i] + WindowMs < new[i + MaxEvents]
      OBVIOUS
    <3>1. i \in 1 .. n
      BY <2>2, <2>3
    <3>2. CASE i + MaxEvents = n + 1
      <4>1. times[i] + WindowMs < t
        BY <1>7, <2>2, <3>1, <3>2, RoomForOneMore DEF MayEnter, n, times
      <4> QED
        BY <2>2, <3>1, <3>2, <4>1
    <3>3. CASE i + MaxEvents # n + 1
      <4>1. i + MaxEvents \in 1 .. n
        BY <2>2, <2>3, <3>1, <3>3
      <4> QED
        BY <2>2, <2>4, <3>1, <4>1
    <3> QED
      BY <3>2, <3>3
  <2>11. DOMAIN h.admitted[e] = 1 .. (n + 1)
    BY <2>1, <2>2
  <2> QED
    BY <1>5, <2>1, <2>2, <2>5, <2>6, <2>8, <2>9, <2>10, <2>11 DEF Sound, h
<1> QED
  BY <1>6, <1>7

(***************************************************************************)
(* The inductive invariant.                                                *)
(***************************************************************************)

TypeOK ==
    /\ rooms \in RoomDirectory /\ mapping \in SessionMapping
    /\ home \in [Participant -> Room \cup {NoRoom}]
    /\ spoke \in [Socket -> Participant \cup {NoParticipant}]
    /\ gates \in [Socket -> Gate]
    /\ jobs \in [Job -> Jobs]
    /\ inbox \in [Socket -> SUBSET [from: Participant, to: Participant]]
    /\ now \in Nat

(* Every gate is sound now, and counts the handlers it has let in.         *)
GatesInv ==
    /\ \A s \in Socket, e \in Event : Sound(gates[s], e, now)
    /\ InFlightIsExact

(* A socket is an endpoint only of the participant it has joined as.       *)
EndpointsInv ==
    \A p \in Participant : mapping.endpoint[p] # NoSocket => spoke[mapping.endpoint[p]] = p

(* A participant is a member, and seated, only in the room it was created  *)
(* for.                                                                    *)
HomesInv ==
    /\ \A p \in Participant : rooms.member[p] # NoRoom => rooms.member[p] = home[p]
    /\ \A s \in Socket : LET seat == mapping.session[s]
                         IN  seat # NoSeat => seat.room = home[seat.participant]

SharedHome(p, q) == {p, q} \subseteq Participant /\ home[p] = home[q] /\ home[p] # NoRoom

(* What a handler has made sure of before each of its steps.               *)
HandlersInv ==
    \A j \in Job :
        LET job == jobs[j]
        IN  /\ job.step \in {"session", "relay", "deliver"} => job.to \in Participant
            /\ job.step = "session" => job.socket \in Socket
            /\ job.step = "relay" => /\ job.from \in Participant /\ job.room \in Room
                                     /\ job.room = home[job.from]
            /\ job.step = "deliver" => SharedHome(job.from, job.to)

InboxInv ==
    \A s \in Socket : \A m \in inbox[s] : m.to = spoke[s] /\ SharedHome(m.from, m.to)

DeliveryInv == EndpointsInv /\ HomesInv /\ HandlersInv /\ InboxInv

Inv == TypeOK /\ GatesInv /\ DeliveryInv

(* A seat a socket has is one in a room, of a participant. *)
LEMMA SeatTaken ==
    ASSUME TypeOK, NEW s \in Socket, mapping.session[s] # NoSeat
    PROVE  mapping.session[s].room \in Room /\ mapping.session[s].participant \in Participant
<1>1. mapping.session[s] \in Seat
  BY DEF TypeOK, SessionMapping
<1> QED
  BY <1>1 DEF Seat

(* A departure takes at most one participant out of its room. *)
LEMMA LeaveMembers ==
    ASSUME NEW d \in RoomDirectory, NEW r \in Room \cup {NoRoom}, NEW p \in Participant,
           NEW q \in Participant
    PROVE  /\ LeaveRoom(d, r, p).member[q] \in {d.member[q], NoRoom}
           /\ FinalizeReconnectingLeave(d, r, p).member[q] \in {d.member[q], NoRoom}
           /\ MarkReconnecting(d, r, p).member[q] = d.member[q]
BY DEF RoomDirectory, LeaveRoom, FinalizeReconnectingLeave, MarkReconnecting, RemoveRoomIfEmpty

(***************************************************************************)
(* Joins, leaves and lost connections.                                     *)
(***************************************************************************)

(* What they leave alone. *)
LEMMA MembershipSpares ==
    ASSUME TypeOK, GatesInv, UNCHANGED <<gates, jobs, inbox, now>>
    PROVE  GatesInv'
<1>1. \A s : Running(s)' = Running(s)
  BY DEF Running
<1> QED
  BY <1>1 DEF GatesInv, InFlightIsExact, Sound

(* A participant id once created keeps its room, and a socket that has     *)
(* joined its participant; then every handler and every inbox is right.    *)
Lasting ==
    /\ \A p \in Participant : home[p] # NoRoom => home'[p] = home[p]
    /\ \A s \in Socket : spoke[s] # NoParticipant => spoke'[s] = spoke[s]

LEMMA HandlersLast ==
    ASSUME TypeOK, HandlersInv, InboxInv, Lasting, UNCHANGED <<jobs, inbox>>
    PROVE  HandlersInv' /\ InboxInv'
<1>1. \A p, q : SharedHome(p, q) => SharedHome(p, q)'
  BY DEF SharedHome, Lasting
<1>2. HandlersInv'
  BY <1>1, RoomAssumption DEF HandlersInv, Lasting
<1>3. InboxInv'
  <2> SUFFICES ASSUME NEW s \in Socket, NEW m \in inbox[s]
               PROVE  m.to = spoke'[s] /\ SharedHome(m.from, m.to)'
    BY DEF InboxInv
  <2>1. m.to = spoke[s] /\ SharedHome(m.from, m.to)
    BY DEF InboxInv
  <2>2. m.to # NoParticipant
    BY <2>1 DEF SharedHome, Participant, NoParticipant
  <2> QED
    BY <1>1, <2>1, <2>2 DEF Lasting
<1> QED
  BY <1>2, <1>3

(* A socket takes a seat in the room its participant was created for. *)
LEMMA SeatedKeepsInv ==
    ASSUME Inv, NEW s \in Socket, NEW p \in Participant, NEW r \in Room,
           Seated(s, r, p),
           home' \in [Participant -> Room \cup {NoRoom}], home'[p] = r,
           \A q \in Participant : q # p \/ home[q] # NoRoom => home'[q] = home[q],
           rooms' \in RoomDirectory,
           \A q \in Participant : rooms'.member[q] \in {rooms.member[q], home'[q]}
    PROVE  Inv'
<1>1. TypeOK /\ GatesInv /\ EndpointsInv /\ HomesInv /\ HandlersInv /\ InboxInv
  BY DEF Inv, DeliveryInv
<1>2. TypeOK'
  <2>1. mapping' \in SessionMapping
    BY <1>1, BindTyped DEF Seated, TypeOK
  <2>2. spoke' \in [Socket -> Participant \cup {NoParticipant}]
    BY <1>1 DEF Seated, TypeOK
  <2> QED
    BY <1>1, <2>1, <2>2 DEF Seated, TypeOK
<1>3. GatesInv'
  BY <1>1, MembershipSpares DEF Seated
<1>4. Lasting
  BY <1>1 DEF Lasting, Seated, TypeOK
<1>5. HandlersInv' /\ InboxInv'
  BY <1>1, <1>4, HandlersLast DEF Seated
<1>6. EndpointsInv'
  <2>1. spoke[s] = NoParticipant /\ spoke'[s] = p
    BY <1>1 DEF Seated, TypeOK
  <2>2. mapping.endpoint \in [Participant -> Socket \cup {NoSocket}]
    BY <1>1 DEF TypeOK, SessionMapping
  <2>3. \A q \in Participant :
           \/ mapping'.endpoint[q] = s /\ q = p
           \/ mapping'.endpoint[q] \in {mapping.endpoint[q], NoSocket}
    BY <2>2 DEF Seated, BindSocketSession, DropEndpoint
  <2> SUFFICES ASSUME NEW q \in Participant, mapping'.endpoint[q] # NoSocket
               PROVE  spoke'[mapping'.endpoint[q]] = q
    BY DEF EndpointsInv
  <2>4. CASE mapping'.endpoint[q] = s /\ q = p
    BY <2>1, <2>4
  <2>5. CASE mapping'.endpoint[q] = mapping.endpoint[q]
    <3>1. mapping.endpoint[q] \in Socket /\ spoke[mapping.endpoint[q]] = q
      BY <1>1, <2>2, <2>5 DEF EndpointsInv
    <3>2. q # NoParticipant
      BY DEF Participant, NoParticipant
    <3> QED
      BY <1>4, <2>5, <3>1, <3>2 DEF Lasting
  <2> QED
    BY <2>3, <2>4, <2>5
<1>7. HomesInv'
  <2>1. \A q \in Participant : rooms'.member[q] # NoRoom => rooms'.member[q] = home'[q]
    BY <1>1, <1>4 DEF HomesInv, Lasting
  <2> SUFFICES ASSUME NEW x \in Socket, mapping'.session[x] # NoSeat
               PROVE  mapping'.session[x].room = home'[mapping'.session[x].participant]
    BY <2>1 DEF HomesInv
  <2>2. mapping'.session[x] \in {SeatOf(r, p), mapping.session[x], NoSeat}
    BY DEF Seated, BindSocketSession
  <2>3. CASE mapping'.session[x] = SeatOf(r, p)
    BY <2>3 DEF SeatOf
  <2>4. CASE mapping'.session[x] = mapping.session[x]
    <3>1. /\ mapping.session[x].room \in Room
          /\ mapping.session[x].participant \in Participant
          /\ mapping.session[x].room = home[mapping.session[x].participant]
      BY <1>1, <2>4, SeatTaken DEF HomesInv
    <3> QED
      BY <1>4, <2>4, <3>1, RoomAssumption DEF Lasting
  <2> QED
    BY <2>2, <2>3, <2>4
<1> QED
  BY <1>2, <1>3, <1>5, <1>6, <1>7 DEF Inv, DeliveryInv

LEMMA JoinKeepsInv ==
    ASSUME Inv, NEW s \in Socket, NEW r \in Room, Join(s, r)
    PROVE  Inv'
<1>1. PICK p \in Participant : /\ home[p] = NoRoom /\ home' = [home EXCEPT ![p] = r]
                               /\ rooms' = JoinRoom(rooms, r, p) /\ Seated(s, r, p)
  BY DEF Join
<1>2. rooms \in RoomDirectory /\ home \in [Participant -> Room \cup {NoRoom}]
  BY DEF Inv, TypeOK
<1>3. rooms' \in RoomDirectory
  BY <1>1, <1>2, JoinTyped
<1>4. /\ home' \in [Participant -> Room \cup {NoRoom}]
      /\ home'[p] = r
      /\ \A q \in Participant : q # p \/ home[q] # NoRoom => home'[q] = home[q]
  BY <1>1, <1>2
<1>5. \A q \in Participant : rooms'.member[q] \in {rooms.member[q], home'[q]}
  BY <1>1, <1>2, <1>4 DEF JoinRoom, RoomDirectory
<1> QED
  BY <1>1, <1>3, <1>4, <1>5, SeatedKeepsInv

LEMMA RejoinKeepsInv ==
    ASSUME Inv, NEW s \in Socket, NEW p \in Participant, Rejoin(s, p)
    PROVE  Inv'
<1>1. rooms \in RoomDirectory /\ home \in [Participant -> Room \cup {NoRoom}]
  BY DEF Inv, TypeOK
<1>2. home[p] \in Room /\ home' = home
  BY <1>1 DEF Rejoin
<1>3. rooms' \in RoomDirectory
  BY <1>1, <1>2, JoinTyped DEF Rejoin
<1>4. rooms'.member = rooms.member
  BY <1>1 DEF Rejoin, ReconnectToRoom, RoomDirectory
<1>5. Seated(s, home[p], p)
  BY DEF Rejoin
<1> QED
  BY <1>1, <1>2, <1>3, <1>4, <1>5, SeatedKeepsInv

(* Nobody is moved: participants may leave, seats be taken away. *)
LEMMA DepartureKeepsInv ==
    ASSUME Inv, UNCHANGED <<home, spoke, gates, jobs, inbox, now>>,
           rooms' \in RoomDirectory,
           \A q \in Participant : rooms'.member[q] \in {rooms.member[q], NoRoom},
           NEW s \in Socket \cup {NoSocket},
           mapping' = UnbindSocketSession(mapping, s) \/ mapping' = mapping
    PROVE  Inv'
<1>1. TypeOK /\ GatesInv /\ EndpointsInv /\ HomesInv /\ HandlersInv /\ InboxInv
  BY DEF Inv, DeliveryInv
<1>2. mapping \in SessionMapping /\ mapping' \in SessionMapping
  BY <1>1, UnbindTyped DEF TypeOK
<1>3. TypeOK'
  BY <1>1, <1>2 DEF TypeOK
<1>4. GatesInv'
  BY <1>1, MembershipSpares
<1>5. HandlersInv' /\ InboxInv'
  BY <1>1, HandlersLast DEF Lasting
<1>6. EndpointsInv'
  <2>1. \A q \in Participant : mapping'.endpoint[q] \in {mapping.endpoint[q], NoSocket}
    BY <1>2 DEF UnbindSocketSession, DropEndpoint, SessionMapping
  <2> QED
    BY <1>1, <2>1 DEF EndpointsInv
<1>7. HomesInv'
  <2>1. \A x \in Socket : mapping'.session[x] \in {mapping.session[x], NoSeat}
    BY DEF UnbindSocketSession
  <2> QED
    BY <1>1, <2>1 DEF HomesInv
<1> QED
  BY <1>3, <1>4, <1>5, <1>6, <1>7 DEF Inv, DeliveryInv

LEMMA LeaveKeepsInv ==
    ASSUME Inv, NEW s \in Socket, Leave(s) \/ ConnectionLost(s)
    PROVE  Inv'
<1> DEFINE seat == mapping.session[s]
<1>1. rooms \in RoomDirectory /\ TypeOK
  BY DEF Inv, TypeOK
<1>2. seat # NoSeat => seat.room \in Room /\ seat.participant \in Participant
  BY <1>1, SeatTaken
<1>3. \/ seat = NoSeat /\ rooms' = rooms
      \/ seat # NoSeat /\ rooms' = LeaveRoom(rooms, seat.room, seat.participant)
      \/ seat # NoSeat /\ rooms' = MarkReconnecting(rooms, seat.room, seat.participant)
  BY DEF Leave, ConnectionLost, Close
<1>4. rooms' \in RoomDirectory
  BY <1>1, <1>2, <1>3, LeaveTyped, MarkTyped
<1>5. \A q \in Participant : rooms'.member[q] \in {rooms.member[q], NoRoom}
  BY <1>1, <1>2, <1>3, LeaveMembers
<1>6. /\ UNCHANGED <<home, spoke, gates, jobs, inbox, now>>
      /\ mapping' = UnbindSocketSession(mapping, s)
  BY DEF Leave, ConnectionLost, Close
<1> QED
  BY <1>4, <1>5, <1>6, DepartureKeepsInv

LEMMA GraceKeepsInv ==
    ASSUME Inv, NEW p \in Participant, GraceExpired(p)
    PROVE  Inv'
<1>1. rooms \in RoomDirectory /\ home[p] \in Room \cup {NoRoom}
  BY DEF Inv, TypeOK
<1>2. rooms' = FinalizeReconnectingLeave(rooms, home[p], p)
  BY DEF GraceExpired
<1>3. rooms' \in RoomDirectory
  BY <1>1, <1>2, FinalizeTyped
<1>4. \A q \in Participant : rooms'.member[q] \in {rooms.member[q], NoRoom}
  BY <1>1, <1>2, LeaveMembers
<1>5. UNCHANGED <<home, spoke, gates, jobs, inbox, now, mapping>>
  BY DEF GraceExpired
<1>6. NoSocket \in Socket \cup {NoSocket}
  OBVIOUS
<1> QED
  BY <1>3, <1>4, <1>5, <1>6, DepartureKeepsInv

(***************************************************************************)
(* The clock and the handlers.                                             *)
(***************************************************************************)

(* The handlers at work are finitely many. *)
LEMMA RunningFinite ==
    \A s : IsFiniteSet(Running(s)) /\ Cardinality(Running(s)) \in Nat
<1>1. IsFiniteSet(Job)
  <2>1. 1 \in Int /\ MaxJobs \in Int
    BY SenderAssumption
  <2> QED
    BY <2>1, FS_Interval DEF Job
<1>2. \A s : Running(s) \in SUBSET Job
  BY DEF Running
<1> QED
  BY <1>1, <1>2, FS_Subset, FS_CardinalityType

LEMMA TickKeepsInv ==
    ASSUME Inv, Tick
    PROVE  Inv'
<1>1. /\ TypeOK /\ GatesInv /\ EndpointsInv /\ HomesInv /\ HandlersInv /\ InboxInv
      /\ now \in Nat /\ now' = now + 1 /\ UNCHANGED <<membership, gates, jobs, inbox>>
  BY DEF Inv, DeliveryInv, TypeOK, Tick
<1>2. TypeOK'
  BY <1>1 DEF TypeOK, membership
<1>3. DeliveryInv'
  BY <1>1 DEF DeliveryInv, EndpointsInv, HomesInv, HandlersInv, InboxInv, SharedHome, membership
<1>4. \A s : Running(s)' = Running(s)
  BY <1>1 DEF Running
<1>5. ASSUME NEW s \in Socket, NEW e \in Event
      PROVE  Sound(gates[s], e, now + 1)
  <2>1. gates[s] \in Gate /\ Sound(gates[s], e, now)
    BY <1>1 DEF TypeOK, GatesInv
  <2>2. now + 1 \in Nat /\ now <= now + 1
    BY <1>1
  <2> QED
    BY <1>1, <2>1, <2>2, SoundLater
<1>6. \A s \in Socket, e \in Event : Sound(gates'[s], e, now')
  BY <1>1, <1>5
<1>7. InFlightIsExact'
  BY <1>1, <1>4 DEF GatesInv, InFlightIsExact
<1> QED
  BY <1>2, <1>3, <1>6, <1>7 DEF Inv, GatesInv

LEMMA RefusedKeepsInv ==
    ASSUME Inv, NEW s \in Socket, NEW f \in Event, Refused(s, f)
    PROVE  Inv'
<1>1. /\ TypeOK /\ GatesInv /\ EndpointsInv /\ HomesInv /\ HandlersInv /\ InboxInv
      /\ now \in Nat /\ UNCHANGED <<membership, jobs, inbox, now>>
      /\ gates \in [Socket -> Gate]
      /\ gates' = [gates EXCEPT ![s] = Refuse(gates[s], f, now)]
  BY DEF Inv, DeliveryInv, TypeOK, Refused
<1>2. gates[s] \in Gate /\ \A e \in Event : Sound(gates[s], e, now)
  BY <1>1 DEF GatesInv
<1>3. \A e \in Event : Refuse(gates[s], f, now) \in Gate /\ Sound(Refuse(gates[s], f, now), e, now)
  BY <1>1, <1>2, SoundRefuse
<1>4. gates' \in [Socket -> Gate] /\ \A e \in Event : Sound(gates'[s], e, now')
  BY <1>1, <1>3
<1>5. \A x \in Socket : gates'[x].inFlight = gates[x].inFlight
  BY <1>1, <1>2 DEF Refuse, Gate
<1>6. \A x : Running(x)' = Running(x)
  BY <1>1 DEF Running
<1>7. GatesInv'
  <2>1. \A x \in Socket, e \in Event : Sound(gates'[x], e, now')
    BY <1>1, <1>4 DEF GatesInv
  <2> QED
    BY <1>1, <1>5, <1>6, <2>1 DEF GatesInv, InFlightIsExact
<1>8. TypeOK'
  BY <1>1, <1>4 DEF TypeOK, membership
<1>9. DeliveryInv'
  BY <1>1 DEF DeliveryInv, EndpointsInv, HomesInv, HandlersInv, InboxInv, SharedHome, membership
<1> QED
  BY <1>7, <1>8, <1>9 DEF Inv

(* A handler is let in: its gate counts one more, for one job more. *)
LEMMA AdmitKeepsInv ==
    ASSUME Inv, NEW s \in Socket, NEW j \in Job, NEW f \in Event, NEW job \in Jobs,
           Admit(s, j, f, job), job.socket = s,
           \/ job.step = "busy"
           \/ job.step = "session" /\ job.to \in Participant
    PROVE  Inv'
<1>1. /\ TypeOK /\ GatesInv /\ EndpointsInv /\ HomesInv /\ HandlersInv /\ InboxInv
      /\ now \in Nat /\ UNCHANGED <<membership, inbox, now>>
      /\ gates \in [Socket -> Gate] /\ jobs \in [Job -> Jobs]
      /\ gates' = [gates EXCEPT ![s] = Enter(gates[s], f, now)]
      /\ jobs' = [jobs EXCEPT ![j] = job]
      /\ jobs[j] = Idle /\ MayEnter(gates[s], f, now)
  BY DEF Inv, DeliveryInv, TypeOK, Admit
<1>2. gates[s] \in Gate /\ \A e \in Event : Sound(gates[s], e, now)
  BY <1>1 DEF GatesInv
<1>3. \A e \in Event : Enter(gates[s], f, now) \in Gate /\ Sound(Enter(gates[s], f, now), e, now)
  BY <1>1, <1>2, SoundEnter
<1>4. gates' \in [Socket -> Gate] /\ \A e \in Event : Sound(gates'[s], e, now')
  BY <1>1, <1>3
<1>5. /\ Running(s)' = Running(s) \cup {j} /\ j \notin Running(s)
      /\ \A x \in Socket \ {s} : Running(x)' = Running(x)
  BY <1>1 DEF Running, Idle
<1>6. Cardinality(Running(s) \cup {j}) = Cardinality(Running(s)) + 1
  BY <1>5, RunningFinite, FS_AddElement
<1>7. InFlightIsExact'
  <2>1. /\ gates'[s].inFlight = gates[s].inFlight + 1
        /\ \A x \in Socket \ {s} : gates'[x].inFlight = gates[x].inFlight
    BY <1>1 DEF Enter
  <2>2. gates[s].inFlight < MaxInFlight /\ gates[s].inFlight \in Nat /\ MaxInFlight \in Nat
    BY <1>1, <1>2, TrafficAssumption DEF MayEnter, HasBackpressure, Gate
  <2>3. gates[s].inFlight + 1 <= MaxInFlight
    BY <2>2
  <2>4. gates'[s].inFlight = Cardinality(Running(s))'
    BY <1>1, <1>5, <1>6, <2>1 DEF GatesInv, InFlightIsExact
  <2> QED
    BY <1>1, <1>5, <2>1, <2>3, <2>4 DEF GatesInv, InFlightIsExact
<1>8. GatesInv'
  BY <1>1, <1>4, <1>7 DEF GatesInv
<1>9. TypeOK'
  BY <1>1, <1>4 DEF TypeOK, membership
<1>10. HandlersInv'
  BY <1>1 DEF HandlersInv, SharedHome, membership
<1>11. DeliveryInv'
  BY <1>1, <1>10 DEF DeliveryInv, EndpointsInv, HomesInv, InboxInv, SharedHome, membership
<1> QED
  BY <1>8, <1>9, <1>11 DEF Inv

(* A handler goes on to its next step. *)
LEMMA ProceedKeepsInv ==
    ASSUME Inv, NEW j \in Job, NEW job \in Jobs, Proceed(j, job),
           jobs[j].step # "idle", job.socket = jobs[j].socket,
           \/ /\ job.step = "relay" /\ {job.from, job.to} \subseteq Participant
              /\ job.room \in Room /\ job.room = home[job.from]
           \/ job.step = "deliver" /\ SharedHome(job.from, job.to)
    PROVE  Inv'
<1>1. /\ TypeOK /\ GatesInv /\ EndpointsInv /\ HomesInv /\ HandlersInv /\ InboxInv
      /\ UNCHANGED <<membership, gates, inbox, now>>
      /\ jobs \in [Job -> Jobs] /\ jobs' = [jobs EXCEPT ![j] = job]
  BY DEF Inv, DeliveryInv, TypeOK, Proceed
<1>2. \A x : Running(x)' = Running(x)
  BY <1>1 DEF Running
<1>3. GatesInv'
  BY <1>1, <1>2 DEF GatesInv, InFlightIsExact, Sound
<1>4. TypeOK'
  BY <1>1 DEF TypeOK, membership
<1>5. HandlersInv'
  BY <1>1 DEF HandlersInv, SharedHome, membership
<1>6. DeliveryInv'
  BY <1>1, <1>5 DEF DeliveryInv, EndpointsInv, HomesInv, InboxInv, SharedHome, membership
<1> QED
  BY <1>3, <1>4, <1>6 DEF Inv

(* A handler ends: its gate counts one less, whatever the handler did. *)
LEMMA FinishKeepsInv ==
    ASSUME Inv, NEW j \in Job, Finish(j), jobs[j].step # "idle",
           inbox' \in [Socket -> SUBSET [from: Participant, to: Participant]],
           InboxInv'
    PROVE  Inv'
<1> DEFINE s == jobs[j].socket
<1>1. /\ TypeOK /\ GatesInv /\ EndpointsInv /\ HomesInv /\ HandlersInv
      /\ now \in Nat /\ UNCHANGED <<membership, now>>
      /\ gates \in [Socket -> Gate] /\ jobs \in [Job -> Jobs]
      /\ gates' = [gates EXCEPT ![s] = Release(gates[s])]
      /\ jobs' = [jobs EXCEPT ![j] = Idle]
  BY DEF Inv, DeliveryInv, TypeOK, Finish
<1>2. Idle \in Jobs
  BY DEF Idle, Jobs, Steps
<1>3. \A x \in Socket, e \in Event :
         Sound(Release(gates[x]), e, now)
  BY <1>1, SoundRelease DEF GatesInv
<1>4. gates' \in [Socket -> Gate] /\ \A x \in Socket, e \in Event : Sound(gates'[x], e, now')
  <2>1. \A x \in Socket : gates[x] \in Gate /\ Release(gates[x]) \in Gate
    BY <1>1, ReleaseTyped
  <2>2. \A x \in Socket : gates'[x] = IF x = s THEN Release(gates[x]) ELSE gates[x]
    BY <1>1
  <2> QED
    BY <1>1, <1>3, <2>1, <2>2 DEF GatesInv
<1>5. /\ \A x \in Socket : x = s => j \in Running(x) /\ Running(x)' = Running(x) \ {j}
      /\ \A x \in Socket : x # s => Running(x)' = Running(x)
  BY <1>1 DEF Running, Idle
<1>6. InFlightIsExact'
  <2> SUFFICES ASSUME NEW x \in Socket
               PROVE  /\ gates'[x].inFlight = Cardinality(Running(x)')
                      /\ gates'[x].inFlight <= MaxInFlight
    BY DEF InFlightIsExact
  <2>1. /\ gates[x].inFlight = Cardinality(Running(x)) /\ gates[x].inFlight <= MaxInFlight
        /\ gates[x].inFlight \in Nat /\ MaxInFlight \in Nat
    BY <1>1, TrafficAssumption DEF GatesInv, InFlightIsExact, Gate
  <2>2. CASE x = s
    <3>1. j \in Running(x) /\ Running(x)' = Running(x) \ {j}
      BY <1>5, <2>2
    <3>2. Cardinality(Running(x) \ {j}) = Cardinality(Running(x)) - 1
      BY <3>1, RunningFinite, FS_RemoveElement
    <3>3. gates[x].inFlight # 0
      BY <2>1, <3>1, RunningFinite, FS_EmptySet
    <3>4. gates'[x].inFlight = gates[x].inFlight - 1
      BY <1>1, <2>1, <2>2, <3>3 DEF Release, Gate
    <3> QED
      BY <2>1, <3>1, <3>2, <3>4
  <2>3. CASE x # s
    <3>1. gates'[x] = gates[x] /\ Running(x)' = Running(x)
      BY <1>1, <1>5, <2>3
    <3> QED
      BY <2>1, <3>1
  <2> QED
    BY <2>2, <2>3
<1>7. GatesInv'
  BY <1>4, <1>6 DEF GatesInv
<1>8. TypeOK'
  BY <1>1, <1>2, <1>4 DEF TypeOK, membership
<1>9. HandlersInv'
  BY <1>1 DEF HandlersInv, SharedHome, membership, Idle
<1>10. EndpointsInv' /\ HomesInv'
  BY <1>1 DEF EndpointsInv, HomesInv, membership
<1> QED
  BY <1>7, <1>8, <1>9, <1>10 DEF Inv, DeliveryInv

(* One step of a handler. *)
LEMMA HandlerKeepsInv ==
    ASSUME Inv, NEW j \in Job, HandlerStep(j)
    PROVE  Inv'
<1>1. TypeOK /\ HomesInv /\ EndpointsInv /\ HandlersInv /\ InboxInv /\ jobs[j] \in Jobs
  BY DEF Inv, DeliveryInv, TypeOK
<1>2. ASSUME Drop(j), jobs[j].step # "idle" PROVE Inv'
  <2>1. InboxInv' /\ inbox' = inbox
    BY <1>1, <1>2 DEF InboxInv, SharedHome, Drop, Finish, membership
  <2> QED
    BY <1>1, <1>2, <2>1, FinishKeepsInv DEF TypeOK, Drop
<1>3. CASE LookUpSession(j)
  <2> DEFINE seat == mapping.session[jobs[j].socket]
             job  == [jobs[j] EXCEPT !.step = "relay", !.room = seat.room,
                                     !.from = seat.participant]
  <2>1. CASE seat = NoSeat
    BY <1>2, <1>3, <2>1 DEF LookUpSession
  <2>2. CASE seat # NoSeat
    <3>1. jobs[j].step = "session" /\ Proceed(j, job)
      BY <1>3, <2>2 DEF LookUpSession
    <3>2. jobs[j].socket \in Socket
      BY <1>1, <3>1 DEF HandlersInv
    <3>3. seat.room \in Room /\ seat.participant \in Participant /\ seat.room = home[seat.participant]
      BY <1>1, <2>2, <3>2, SeatTaken DEF HomesInv
    <3>4. jobs[j].to \in Participant
      BY <1>1, <3>1 DEF HandlersInv
    <3>5. /\ job \in Jobs /\ job.step = "relay" /\ job.socket = jobs[j].socket
          /\ job.room = seat.room /\ job.from = seat.participant /\ job.to = jobs[j].to
      BY <1>1, <3>3 DEF Jobs, Steps
    <3> HIDE DEF job
    <3> QED
      BY <3>1, <3>3, <3>4, <3>5, ProceedKeepsInv
  <2> QED
    BY <2>1, <2>2
<1>4. CASE Relay(j)
  <2> DEFINE job == [jobs[j] EXCEPT !.step = "deliver"]
  <2>1. CASE ~BothInRoom(rooms, jobs[j].room, jobs[j].from, jobs[j].to)
    BY <1>2, <1>4, <2>1 DEF Relay
  <2>2. CASE BothInRoom(rooms, jobs[j].room, jobs[j].from, jobs[j].to)
    <3>1. jobs[j].step = "relay" /\ Proceed(j, job)
      BY <1>4, <2>2 DEF Relay
    <3>2. jobs[j].room \in Room /\ {jobs[j].from, jobs[j].to} \subseteq Participant
      BY <1>1, <3>1 DEF HandlersInv
    <3>3. SharedHome(jobs[j].from, jobs[j].to)
      BY <1>1, <2>2, <3>2, RoomAssumption DEF BothInRoom, Members, HomesInv, SharedHome
    <3>4. /\ job \in Jobs /\ job.step = "deliver" /\ job.socket = jobs[j].socket
          /\ job.from = jobs[j].from /\ job.to = jobs[j].to
      BY <1>1 DEF Jobs, Steps
    <3> HIDE DEF job
    <3> QED
      BY <3>1, <3>3, <3>4, ProceedKeepsInv
  <2> QED
    BY <2>1, <2>2
<1>5. CASE Deliver(j)
  <2> DEFINE s == mapping.endpoint[jobs[j].to]
             m == [from |-> jobs[j].from, to |-> jobs[j].to]
  <2>1. /\ jobs[j].step = "deliver" /\ Finish(j)
        /\ inbox' = IF s = NoSocket THEN inbox ELSE [inbox EXCEPT ![s] = inbox[s] \cup {m}]
    BY <1>5 DEF Deliver
  <2>2. SharedHome(m.from, m.to) /\ m \in [from: Participant, to: Participant]
    BY <1>1, <2>1 DEF HandlersInv, SharedHome
  <2>3. s # NoSocket => spoke[s] = m.to
    BY <1>1, <2>2 DEF EndpointsInv, SharedHome
  <2>4. UNCHANGED <<home, spoke>>
    BY <2>1 DEF Finish, membership
  <2>5. inbox' \in [Socket -> SUBSET [from: Participant, to: Participant]]
    BY <1>1, <2>1, <2>2 DEF TypeOK
  <2>6. InboxInv'
    <3> SUFFICES ASSUME NEW x \in Socket, NEW y \in inbox'[x]
                 PROVE  y.to = spoke[x] /\ SharedHome(y.from, y.to)
      BY <2>4 DEF InboxInv, SharedHome
    <3>1. y \in inbox[x] \/ (s # NoSocket /\ x = s /\ y = m)
      BY <1>1, <2>1 DEF TypeOK
    <3> QED
      BY <1>1, <2>2, <2>3, <3>1 DEF InboxInv
  <2> QED
    BY <2>1, <2>5, <2>6, FinishKeepsInv
<1>6. CASE RejectPayload(j) \/ FinishOther(j)
  BY <1>2, <1>6 DEF RejectPayload, FinishOther
<1> QED
  BY <1>3, <1>4, <1>5, <1>6 DEF HandlerStep

THEOREM InvInitial == Init => Inv
<1> SUFFICES ASSUME Init PROVE Inv
  OBVIOUS
<1>1. OpenGate \in Gate /\ \A e \in Event : Sound(OpenGate, e, 0)
  BY DEF OpenGate, Gate, Sound
<1>2. Idle \in Jobs
  BY DEF Idle, Jobs, Steps
<1>3. EmptyDirectory \in RoomDirectory /\ EmptyMapping \in SessionMapping
  BY SeatTyped DEF EmptyDirectory, RoomDirectory, EmptyMapping, SessionMapping
<1>4. TypeOK
  BY <1>1, <1>2, <1>3 DEF Init, TypeOK
<1>5. \A s \in Socket : Running(s) = {} /\ gates[s].inFlight = 0
  BY DEF Init, Running, Idle, OpenGate
<1>6. GatesInv
  BY <1>1, <1>5, FS_EmptySet, TrafficAssumption DEF Init, GatesInv, InFlightIsExact
<1>7. DeliveryInv
  BY DEF Init, DeliveryInv, EndpointsInv, HomesInv, HandlersInv, InboxInv, Idle,
         EmptyDirectory, EmptyMapping
<1> QED
  BY <1>4, <1>6, <1>7 DEF Inv

THEOREM InvPreserved == Inv /\ [Next]_vars => Inv'
<1> SUFFICES ASSUME Inv, [Next]_vars PROVE Inv'
  OBVIOUS
<1>1. ASSUME NEW s \in Socket, NEW r \in Room, Join(s, r) PROVE Inv'
  BY <1>1, JoinKeepsInv
<1>2. ASSUME NEW s \in Socket, NEW p \in Participant, Rejoin(s, p) PROVE Inv'
  BY <1>2, RejoinKeepsInv
<1>3. ASSUME NEW s \in Socket, Leave(s) \/ ConnectionLost(s) PROVE Inv'
  BY <1>3, LeaveKeepsInv
<1>4. ASSUME NEW p \in Participant, GraceExpired(p) PROVE Inv'
  BY <1>4, GraceKeepsInv
<1>5. CASE Tick
  BY <1>5, TickKeepsInv
<1>6. Idle \in Jobs /\ Sender \subseteq Socket
  BY SenderAssumption DEF Idle, Jobs, Steps
<1>7. ASSUME NEW s \in Sender, NEW j \in Job, NEW to \in Participant, SendSignal(s, j, to)
      PROVE  Inv'
  <2> DEFINE job == [Idle EXCEPT !.step = "session", !.socket = s, !.to = to]
  <2>1. s \in Socket /\ Admit(s, j, "signal", job)
    BY <1>6, <1>7 DEF SendSignal
  <2>2. job \in Jobs /\ job.socket = s /\ job.step = "session" /\ job.to = to
    BY <1>6 DEF Idle, Jobs, Steps
  <2> HIDE DEF job
  <2> QED
    BY <2>1, <2>2, AdmitKeepsInv, EventAssumption
<1>8. ASSUME NEW s \in Sender, NEW j \in Job, NEW e \in Event, SendOther(s, j, e)
      PROVE  Inv'
  <2> DEFINE job == [Idle EXCEPT !.step = "busy", !.socket = s]
  <2>1. s \in Socket /\ Admit(s, j, e, job)
    BY <1>6, <1>8 DEF SendOther
  <2>2. job \in Jobs /\ job.socket = s /\ job.step = "busy"
    BY <1>6 DEF Idle, Jobs, Steps
  <2> HIDE DEF job
  <2> QED
    BY <2>1, <2>2, AdmitKeepsInv
<1>9. ASSUME NEW s \in Sender, NEW e \in Event, Refused(s, e) PROVE Inv'
  BY <1>6, <1>9, RefusedKeepsInv
<1>10. ASSUME NEW j \in Job, HandlerStep(j) PROVE Inv'
  BY <1>10, HandlerKeepsInv
<1>11. CASE UNCHANGED vars
  <2>1. Inv /\ UNCHANGED <<membership, gates, jobs, inbox, now>>
    BY <1>11 DEF vars, membership
  <2>2. GatesInv'
    BY <2>1, MembershipSpares DEF Inv
  <2>3. TypeOK'
    BY <2>1 DEF Inv, TypeOK, membership
  <2>4. DeliveryInv'
    BY <2>1 DEF Inv, DeliveryInv, EndpointsInv, HomesInv, HandlersInv, InboxInv, SharedHome,
                membership
  <2> QED
    BY <2>2, <2>3, <2>4 DEF Inv
<1> QED
  BY <1>1, <1>2, <1>3, <1>4, <1>5, <1>7, <1>8, <1>9, <1>10, <1>11 DEF Next

THEOREM Invariance == Spec => []Inv
<1> QED
  BY InvInitial, InvPreserved, PTL DEF Spec

(***************************************************************************)
(* The properties.                                                         *)
(***************************************************************************)

(* Of any MaxEvents + 1 admitted events of a kind, the last came more than *)
(* windowMs after the first.                                               *)
THEOREM LimitIsKept == Spec => []RateBound
<1>1. Inv => RateBound
  BY DEF Inv, GatesInv, Sound, RateBound
<1> QED
  BY <1>1, Invariance, PTL

(* A gate counts exactly the handlers of its socket that are at work, and  *)
(* these are never more than maxInFlight.                                  *)
THEOREM PlacesAreCounted == Spec => []InFlightIsExact
<1>1. Inv => InFlightIsExact
  BY DEF Inv, GatesInv
<1> QED
  BY <1>1, Invariance, PTL

(* A signal reaches no socket but one its target has joined with, and no   *)
(* participant of another room than its sender's.                          *)
THEOREM NoStraySignals == Spec => []SignalsReachTheirTarget
<1>1. Inv => SignalsReachTheirTarget
  BY DEF Inv, DeliveryInv, InboxInv, SharedHome, SignalsReachTheirTarget
<1> QED
  BY <1>1, Invariance, PTL
=============================================================================
