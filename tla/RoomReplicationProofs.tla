------------------------ MODULE RoomReplicationProofs ------------------------
(***************************************************************************)
(* Theorems about RoomReplication for every number of browsers, rooms,     *)
(* participants, media and messages under way.                             *)
(***************************************************************************)
EXTENDS RoomReplication, StoreLemmas, SequenceTheorems, FiniteSetTheorems

(***************************************************************************)
(* The policy's operators on directories and stores.                       *)
(***************************************************************************)

(* NobodySharesForbidden, and nothing is left of who is gone, for a        *)
(* directory d and a store s that need not be the variables.               *)
Obeyed(d, s) ==
    /\ \A r \in Room : \A p \in Members(d, r) \ d.owner : s.shared[p] \subseteq s.allowed[r]
    /\ \A p \in Participant : d.member[p] = NoRoom => s.shared[p] = {}

(* A newcomer shares nothing; the others keep their roles. *)
LEMMA JoinObeyed ==
    ASSUME NEW d \in RoomDirectory, NEW s \in PolicyStore, Obeyed(d, s),
           NEW r \in Room, NEW p \in Participant, d.member[p] = NoRoom
    PROVE  Obeyed(JoinRoom(d, r, p), s)
<1> DEFINE e == JoinRoom(d, r, p)
<1>1. /\ e.member = [d.member EXCEPT ![p] = r]
      /\ d.owner \ {p} \subseteq e.owner
  BY DEF JoinRoom
<1>2. d.member \in [Participant -> Room \cup {NoRoom}]
  BY DEF RoomDirectory
<1>3. s.shared[p] = {}
  BY DEF Obeyed
<1>4. ASSUME NEW x \in Room, NEW q \in Members(e, x) \ e.owner
      PROVE  s.shared[q] \subseteq s.allowed[x]
  <2>1. CASE q = p
    BY <2>1, <1>3
  <2>2. CASE q # p
    BY <2>2, <1>1, <1>2, <1>4 DEF Members, Obeyed
  <2> QED
    BY <2>1, <2>2
<1>5. ASSUME NEW q \in Participant, e.member[q] = NoRoom
      PROVE  s.shared[q] = {}
  BY <1>1, <1>2, <1>3, <1>5 DEF Obeyed
<1> HIDE DEF e
<1> QED
  BY <1>4, <1>5 DEF Obeyed, e

(* Who is left keeps its role or is promoted, and shares what it shared. *)
LEMMA LeaveObeyed ==
    ASSUME NEW d \in RoomDirectory, NEW s \in PolicyStore, Obeyed(d, s),
           NEW p \in Participant
    PROVE  LET e == LeaveRoom(d, d.member[p], p)
           IN  ForgetTheGone(e, s) \in PolicyStore /\ Obeyed(e, ForgetTheGone(e, s))
<1> DEFINE e == LeaveRoom(d, d.member[p], p)
           f == ForgetTheGone(e, s)
<1>1. e.member = [d.member EXCEPT ![p] = NoRoom] /\ d.owner \ {p} \subseteq e.owner
  BY LeaveSparesOthers
<1>2. d.member \in [Participant -> Room \cup {NoRoom}]
  BY DEF RoomDirectory
<1>3. /\ f.allowed = [r \in Room |-> IF r \in e.open THEN s.allowed[r] ELSE Media]
      /\ f.shared = [q \in Participant |-> IF e.member[q] = NoRoom THEN {} ELSE s.shared[q]]
      /\ f = [allowed |-> f.allowed, shared |-> f.shared]
  BY DEF ForgetTheGone
<1>4. s.allowed \in [Room -> SUBSET Media] /\ s.shared \in [Participant -> SUBSET Media]
  BY DEF PolicyStore
<1> HIDE DEF e, f
<1>5. f \in PolicyStore
  BY <1>3, <1>4 DEF PolicyStore
<1>6. ASSUME NEW r \in Room, NEW q \in Members(e, r) \ e.owner
      PROVE  f.shared[q] \subseteq f.allowed[r]
  <2>1. q \in Members(d, r) \ d.owner /\ e.member[q] # NoRoom
    BY <1>1, <1>2, <1>6, RoomAssumption DEF Members
  <2>2. s.shared[q] \subseteq s.allowed[r] /\ s.shared[q] \subseteq Media /\ q \in Participant
    BY <2>1, <1>4 DEF Obeyed, Members
  <2> QED
    BY <2>1, <2>2, <1>3
<1>7. ASSUME NEW q \in Participant, e.member[q] = NoRoom
      PROVE  f.shared[q] = {}
  BY <1>3, <1>7
<1> QED
  BY <1>5, <1>6, <1>7 DEF Obeyed, e, f

(* updateMediaState clamps what is not the owner's. *)
LEMMA MediaObeyed ==
    ASSUME NEW d \in RoomDirectory, NEW s \in PolicyStore, Obeyed(d, s),
           NEW p \in Participant, d.member[p] \in Room, NEW wanted \in SUBSET Media
    PROVE  /\ UpdateMediaState(d, s, p, wanted) \in PolicyStore
           /\ Obeyed(d, UpdateMediaState(d, s, p, wanted))
<1> DEFINE f == UpdateMediaState(d, s, p, wanted)
           c == Clamp(d, s, p, wanted)
<1>1. s.allowed \in [Room -> SUBSET Media] /\ s.shared \in [Participant -> SUBSET Media]
  BY DEF PolicyStore
<1>2. c \subseteq Media /\ (p \notin d.owner => c \subseteq s.allowed[d.member[p]])
  BY <1>1 DEF Clamp
<1>3. f.allowed = s.allowed /\ f.shared = [s.shared EXCEPT ![p] = c] /\ f \in PolicyStore
  BY <1>2 DEF UpdateMediaState, PolicyStore
<1> HIDE DEF f, c
<1>4. ASSUME NEW r \in Room, NEW q \in Members(d, r) \ d.owner
      PROVE  f.shared[q] \subseteq f.allowed[r]
  BY <1>1, <1>2, <1>3, <1>4 DEF Members, Obeyed
<1>5. ASSUME NEW q \in Participant, d.member[q] = NoRoom
      PROVE  f.shared[q] = {}
  BY <1>1, <1>3, <1>5, RoomAssumption DEF Obeyed
<1> QED
  BY <1>3, <1>4, <1>5 DEF Obeyed, f

(* updatePolicyAndEnforce leaves nobody sharing what the policy forbids. *)
LEMMA PolicyObeyed ==
    ASSUME NEW d \in RoomDirectory, NEW s \in PolicyStore, Obeyed(d, s),
           NEW r \in Room, NEW policy \in SUBSET Media
    PROVE  /\ UpdatePolicyAndEnforce(d, s, r, policy) \in PolicyStore
           /\ Obeyed(d, UpdatePolicyAndEnforce(d, s, r, policy))
<1> DEFINE f == UpdatePolicyAndEnforce(d, s, r, policy)
           F == Forced(d, s, r, policy)
<1>1. s.allowed \in [Room -> SUBSET Media] /\ s.shared \in [Participant -> SUBSET Media]
  BY DEF PolicyStore
<1>2. /\ f.allowed = [s.allowed EXCEPT ![r] = policy]
      /\ f.shared = [p \in Participant |-> IF p \in F THEN s.shared[p] \cap policy
                                          ELSE s.shared[p]]
      /\ f = [allowed |-> f.allowed, shared |-> f.shared]
  BY DEF UpdatePolicyAndEnforce
<1>3. \A p : p \in F <=> p \in Members(d, r) \ d.owner /\ s.shared[p] \ policy # {}
  BY DEF Forced
<1> HIDE DEF f, F
<1>4. f \in PolicyStore
  BY <1>1, <1>2 DEF PolicyStore
<1>5. ASSUME NEW x \in Room, NEW q \in Members(d, x) \ d.owner
      PROVE  f.shared[q] \subseteq f.allowed[x]
  <2>1. q \in Participant /\ s.shared[q] \subseteq s.allowed[x]
    BY DEF Obeyed, Members
  <2>2. CASE x = r
    BY <2>1, <2>2, <1>1, <1>2, <1>3
  <2>3. CASE x # r
    BY <2>1, <2>3, <1>1, <1>2, <1>3 DEF Members
  <2> QED
    BY <2>2, <2>3
<1>6. ASSUME NEW q \in Participant, d.member[q] = NoRoom
      PROVE  f.shared[q] = {}
  BY <1>2, <1>6 DEF Obeyed
<1> QED
  BY <1>4, <1>5, <1>6 DEF Obeyed, f

(***************************************************************************)
(* The inductive invariant.  A media update is clamped by the policy of    *)
(* the room its sender is in, so senders must be members: a connected      *)
(* browser has a seat of its own, which no timer takes away.               *)
(***************************************************************************)
StoresTyped ==
    /\ rooms \in RoomDirectory
    /\ store \in PolicyStore
    /\ seat \in [Token -> Participant \cup {NoParticipant}]
    /\ born \subseteq Participant
    /\ link \in [Token -> {"off", "on", "lost"}]
    /\ asked \in [Token -> Seq(SUBSET Media)]

(* Participants that were never created are in no room and on no seat, and *)
(* no two browsers have the same seat.                                     *)
SeatsOfTheirOwn ==
    /\ \A p \in Participant \ born : rooms.member[p] = NoRoom
    /\ \A b \in Token : seat[b] \in born \cup {NoParticipant}
    /\ \A b, c \in Token : seat[b] = seat[c] /\ seat[b] # NoParticipant => b = c

(* A connected browser is a connected member; only it has updates under way. *)
ConnectedAreMembers ==
    \A b \in Token :
        /\ link[b] = "on" => /\ seat[b] \in Participant \ rooms.reconnecting
                             /\ rooms.member[seat[b]] \in Room
        /\ asked[b] # <<>> => link[b] = "on"

PolicyInv == StoresTyped /\ SeatsOfTheirOwn /\ ConnectedAreMembers /\ Obeyed(rooms, store)

LEMMA PolicyInit == Init => PolicyInv
<1> SUFFICES ASSUME Init PROVE PolicyInv
  OBVIOUS
<1>1. StoresTyped
  BY DEF Init, StoresTyped, EmptyDirectory, RoomDirectory, DefaultPolicies, PolicyStore
<1>2. SeatsOfTheirOwn /\ ConnectedAreMembers
  BY DEF Init, SeatsOfTheirOwn, ConnectedAreMembers, EmptyDirectory
<1>3. Obeyed(rooms, store)
  BY RoomAssumption DEF Init, Obeyed, Members, EmptyDirectory, DefaultPolicies
<1> QED
  BY <1>1, <1>2, <1>3 DEF PolicyInv

(* Zero is no participant. *)
LEMMA NobodyIsNoParticipant == NoParticipant \notin Participant
BY ParticipantAssumption DEF NoParticipant, Participant

(* A departure of p that is no connected browser's seat any more. *)
LEMMA DepartureKeepsPolicy ==
    ASSUME PolicyInv, NEW p \in Participant,
           rooms' = LeaveRoom(rooms, rooms.member[p], p),
           store' = ForgetTheGone(rooms', store),
           seat' = seat, born' = born,
           link' \in [Token -> {"off", "on", "lost"}],
           asked' \in [Token -> Seq(SUBSET Media)],
           \A b \in Token : /\ link'[b] = "on" => link[b] = "on" /\ seat[b] # p
                            /\ asked'[b] # <<>> => link'[b] = "on"
    PROVE  PolicyInv'
<1> USE DEF PolicyInv
<1>1. rooms \in RoomDirectory /\ store \in PolicyStore
  BY DEF StoresTyped
<1>2. rooms.member[p] \in Room \cup {NoRoom}
      /\ rooms.member \in [Participant -> Room \cup {NoRoom}]
  BY <1>1 DEF RoomDirectory
<1>3. rooms' \in RoomDirectory
  BY <1>1, <1>2, LeaveTyped
<1>4. /\ rooms'.member = [rooms.member EXCEPT ![p] = NoRoom]
      /\ rooms'.reconnecting = rooms.reconnecting \ {p}
  BY <1>1, LeaveSparesOthers
<1>5. store' \in PolicyStore /\ Obeyed(rooms', store')
  BY <1>1, LeaveObeyed
<1>6. StoresTyped'
  BY <1>3, <1>5 DEF StoresTyped
<1>7. SeatsOfTheirOwn'
  BY <1>2, <1>4 DEF SeatsOfTheirOwn
<1>8. ConnectedAreMembers'
  <2> SUFFICES ASSUME NEW b \in Token, link'[b] = "on"
               PROVE  /\ seat[b] \in Participant \ rooms'.reconnecting
                      /\ rooms'.member[seat[b]] \in Room
    BY DEF ConnectedAreMembers
  <2>1. link[b] = "on" /\ seat[b] # p
    OBVIOUS
  <2>2. /\ seat[b] \in Participant \ rooms.reconnecting
        /\ rooms.member[seat[b]] \in Room
    BY <2>1 DEF ConnectedAreMembers
  <2> QED
    BY <2>1, <2>2, <1>2, <1>4
<1> QED
  BY <1>5, <1>6, <1>7, <1>8 DEF Obeyed

(* A browser that is offline is answered: as a new participant or as the   *)
(* one it was.                                                             *)
LEMMA AdmissionKeepsPolicy ==
    ASSUME PolicyInv, NEW b \in Token, NEW r \in Room, NEW p \in Participant,
           NEW d \in RoomDirectory, Admit(b, d, r, p),
           link[b] # "on", Obeyed(d, store),
           d.member = [rooms.member EXCEPT ![p] = r],
           d.reconnecting = rooms.reconnecting \ {p},
           p \notin born \/ p = seat[b]
    PROVE  PolicyInv'
<1> USE DEF PolicyInv, Admit
<1>1. rooms.member \in [Participant -> Room \cup {NoRoom}]
  BY DEF StoresTyped, RoomDirectory
<1>2. StoresTyped'
  BY DEF StoresTyped
<1>3. \A c \in Token \ {b} : seat'[c] = seat[c] /\ link'[c] = link[c] /\ seat[c] # p
  BY NobodyIsNoParticipant DEF SeatsOfTheirOwn, StoresTyped
<1>4. seat'[b] = p /\ link'[b] = "on" /\ born' = born \cup {p} /\ rooms' = d
  BY DEF StoresTyped
<1>5. SeatsOfTheirOwn'
  BY <1>1, <1>3, <1>4 DEF SeatsOfTheirOwn
<1>6. ConnectedAreMembers'
  BY <1>1, <1>3, <1>4 DEF ConnectedAreMembers
<1> QED
  BY <1>2, <1>4, <1>5, <1>6 DEF Obeyed

LEMMA PolicyNext == PolicyInv /\ [Next]_vars => PolicyInv'
<1> SUFFICES ASSUME PolicyInv, [Next]_vars PROVE PolicyInv'
  OBVIOUS
<1> USE DEF PolicyInv
<1>1. rooms \in RoomDirectory /\ store \in PolicyStore
      /\ rooms.member \in [Participant -> Room \cup {NoRoom}]
  BY DEF StoresTyped, RoomDirectory
<1>2. ASSUME NEW b \in Token, NEW r \in Room, Join(b, r) PROVE PolicyInv'
  <2>1. PICK p \in Participant \ born : Admit(b, JoinRoom(rooms, r, p), r, p)
    BY <1>2 DEF Join
  <2>2. rooms.member[p] = NoRoom
    BY DEF SeatsOfTheirOwn
  <2>3. Obeyed(JoinRoom(rooms, r, p), store) /\ JoinRoom(rooms, r, p) \in RoomDirectory
    BY <2>2, <1>1, JoinObeyed, JoinTyped
  <2>4. /\ JoinRoom(rooms, r, p).member = [rooms.member EXCEPT ![p] = r]
        /\ JoinRoom(rooms, r, p).reconnecting = rooms.reconnecting \ {p}
    BY DEF JoinRoom
  <2> QED
    BY <1>2, <2>1, <2>3, <2>4, AdmissionKeepsPolicy DEF Join
<1>3. ASSUME NEW b \in Token, Rejoin(b) PROVE PolicyInv'
  <2>1. PICK r \in Room : /\ CanReconnect(rooms, r, seat[b])
                          /\ Admit(b, ReconnectToRoom(rooms, seat[b]), r, seat[b])
    BY <1>3 DEF Rejoin
  <2>2. seat[b] \in Participant /\ rooms.member[seat[b]] = r
    BY <2>1 DEF CanReconnect
  <2> DEFINE d == ReconnectToRoom(rooms, seat[b])
  <2>3. /\ d.member = [rooms.member EXCEPT ![seat[b]] = r]
        /\ d.reconnecting = rooms.reconnecting \ {seat[b]}
        /\ d.owner = rooms.owner
    BY <1>1, <2>2 DEF ReconnectToRoom, RoomDirectory
  <2>4. d.member = rooms.member
    BY <1>1, <2>2, <2>3
  <2>5. d \in RoomDirectory
    BY <1>1, <2>2, JoinTyped
  <2>6. Obeyed(d, store)
    BY <2>3, <2>4 DEF Obeyed, Members
  <2> HIDE DEF d
  <2>7. Admit(b, d, r, seat[b]) /\ link[b] # "on"
    BY <2>1, <1>3 DEF d, Rejoin
  <2> QED
    BY <2>2, <2>3, <2>5, <2>6, <2>7, AdmissionKeepsPolicy
<1>4. ASSUME NEW b \in Token, Leave(b) PROVE PolicyInv'
  <2>1. seat[b] \in Participant /\ link[b] = "on"
    BY <1>4 DEF Leave, ConnectedAreMembers
  <2>2. /\ rooms' = LeaveRoom(rooms, rooms.member[seat[b]], seat[b])
        /\ store' = ForgetTheGone(rooms', store)
        /\ seat' = seat /\ born' = born
        /\ link' = [link EXCEPT ![b] = "off"]
        /\ asked' = [asked EXCEPT ![b] = <<>>]
    BY <1>4 DEF Leave, RemoveParticipant
  <2>3. \A c \in Token : c # b => seat[c] # seat[b]
    BY <2>1, NobodyIsNoParticipant DEF SeatsOfTheirOwn
  <2>4. link' \in [Token -> {"off", "on", "lost"}] /\ asked' \in [Token -> Seq(SUBSET Media)]
    BY <2>2 DEF StoresTyped
  <2>5. \A c \in Token : /\ link'[c] = "on" => link[c] = "on" /\ seat[c] # seat[b]
                         /\ asked'[c] # <<>> => link'[c] = "on"
    BY <2>2, <2>3 DEF StoresTyped, ConnectedAreMembers
  <2> QED
    BY <2>1, <2>2, <2>4, <2>5, DepartureKeepsPolicy
<1>5. ASSUME NEW b \in Token, LoseLink(b)
      PROVE  /\ seat[b] \in Participant /\ link[b] = "on"
             /\ seat' = seat /\ born' = born
             /\ link' \in [Token -> {"off", "on", "lost"}]
             /\ asked' \in [Token -> Seq(SUBSET Media)]
             /\ \A c \in Token : /\ link'[c] = "on" => link[c] = "on" /\ seat[c] # seat[b]
                                 /\ asked'[c] # <<>> => link'[c] = "on"
  <2>1. seat[b] \in Participant /\ link[b] = "on"
    BY <1>5 DEF LoseLink, ConnectedAreMembers
  <2>2. /\ seat' = seat /\ born' = born
        /\ link' = [link EXCEPT ![b] = "lost"]
        /\ asked' = [asked EXCEPT ![b] = <<>>]
    BY <1>5 DEF LoseLink
  <2>3. \A c \in Token : c # b => seat[c] # seat[b]
    BY <2>1, NobodyIsNoParticipant DEF SeatsOfTheirOwn
  <2>4. link' \in [Token -> {"off", "on", "lost"}] /\ asked' \in [Token -> Seq(SUBSET Media)]
    BY <2>2 DEF StoresTyped
  <2>5. \A c \in Token : /\ link'[c] = "on" => link[c] = "on" /\ seat[c] # seat[b]
                         /\ asked'[c] # <<>> => link'[c] = "on"
    BY <2>2, <2>3 DEF StoresTyped, ConnectedAreMembers
  <2> QED
    BY <2>1, <2>2, <2>4, <2>5
<1>6. ASSUME NEW b \in Token, ConnectionLost(b) PROVE PolicyInv'
  <2>1. LoseLink(b) /\ store' = store
        /\ rooms' = MarkReconnecting(rooms, rooms.member[seat[b]], seat[b])
    BY <1>6 DEF ConnectionLost
  <2>2. seat[b] \in Participant /\ seat' = seat /\ born' = born
    BY <2>1, <1>5
  <2>3. /\ rooms'.member = rooms.member /\ rooms'.owner = rooms.owner
        /\ rooms'.reconnecting = rooms.reconnecting \cup {seat[b]}
    BY <1>1, <2>1, <2>2, MarkSparesRoom
  <2>4. rooms' \in RoomDirectory
    BY <1>1, <2>1, <2>2, MarkTyped
  <2>5. StoresTyped'
    BY <2>1, <2>2, <2>4, <1>5 DEF StoresTyped
  <2>6. SeatsOfTheirOwn'
    BY <2>2, <2>3 DEF SeatsOfTheirOwn
  <2>7. ConnectedAreMembers'
    <3> SUFFICES ASSUME NEW c \in Token, link'[c] = "on"
                 PROVE  /\ seat[c] \in Participant \ rooms'.reconnecting
                        /\ rooms'.member[seat[c]] \in Room
      BY <2>1, <2>2, <1>5 DEF ConnectedAreMembers
    <3>1. link[c] = "on" /\ seat[c] # seat[b]
      BY <2>1, <1>5
    <3>2. seat[c] \in Participant \ rooms.reconnecting /\ rooms.member[seat[c]] \in Room
      BY <3>1 DEF ConnectedAreMembers
    <3> QED
      BY <3>1, <3>2, <2>3
  <2>8. Obeyed(rooms', store')
    BY <2>1, <2>3 DEF Obeyed, Members
  <2> QED
    BY <2>5, <2>6, <2>7, <2>8 DEF Obeyed
<1>7. ASSUME NEW b \in Token, ConnectionLostWithoutTimer(b) PROVE PolicyInv'
  <2>1. /\ LoseLink(b)
        /\ rooms' = LeaveRoom(rooms, rooms.member[seat[b]], seat[b])
        /\ store' = ForgetTheGone(rooms', store)
    BY <1>7 DEF ConnectionLostWithoutTimer, RemoveParticipant
  <2> QED
    BY <2>1, <1>5, DepartureKeepsPolicy
<1>8. ASSUME NEW p \in Participant, GraceExpired(p) PROVE PolicyInv'
  <2>1. /\ p \in rooms.reconnecting
        /\ rooms' = LeaveRoom(rooms, rooms.member[p], p)
        /\ store' = ForgetTheGone(rooms', store)
        /\ UNCHANGED <<seat, born, link, asked>>
    BY <1>8 DEF GraceExpired, RemoveParticipant
  <2>2. link' \in [Token -> {"off", "on", "lost"}] /\ asked' \in [Token -> Seq(SUBSET Media)]
    BY <2>1 DEF StoresTyped
  <2>3. \A c \in Token : /\ link'[c] = "on" => link[c] = "on" /\ seat[c] # p
                         /\ asked'[c] # <<>> => link'[c] = "on"
    BY <2>1 DEF ConnectedAreMembers
  <2> QED
    BY <2>1, <2>2, <2>3, DepartureKeepsPolicy
<1>9. ASSUME NEW b \in Token, NEW m \in SUBSET Media, AskMedia(b, m) PROVE PolicyInv'
  <2>1. /\ UNCHANGED <<rooms, store, seat, born, link>>
        /\ link[b] = "on"
        /\ asked' = [asked EXCEPT ![b] = Append(@, m)]
    BY <1>9 DEF AskMedia
  <2>2. asked[b] \in Seq(SUBSET Media)
    BY DEF StoresTyped
  <2>3. Append(asked[b], m) \in Seq(SUBSET Media)
    BY <2>2
  <2>4. StoresTyped'
    BY <2>1, <2>3 DEF StoresTyped
  <2>5. ConnectedAreMembers'
    BY <2>1 DEF ConnectedAreMembers, StoresTyped
  <2> QED
    BY <2>1, <2>4, <2>5 DEF SeatsOfTheirOwn, Obeyed, Members
<1>10. ASSUME NEW b \in Token, UpdateMedia(b) PROVE PolicyInv'
  <2>1. /\ UNCHANGED <<rooms, seat, born, link>>
        /\ asked[b] # <<>>
        /\ asked' = [asked EXCEPT ![b] = Tail(@)]
        /\ store' = UpdateMediaState(rooms, store, seat[b], Head(asked[b]))
    BY <1>10 DEF UpdateMedia
  <2>2. asked[b] \in Seq(SUBSET Media)
    BY DEF StoresTyped
  <2>3. Head(asked[b]) \in SUBSET Media /\ Tail(asked[b]) \in Seq(SUBSET Media)
    BY <2>1, <2>2
  <2>4. /\ seat[b] \in Participant /\ rooms.member[seat[b]] \in Room
        /\ link[b] = "on"
    BY <2>1 DEF ConnectedAreMembers
  <2>5. store' \in PolicyStore /\ Obeyed(rooms, store')
    BY <1>1, <2>1, <2>3, <2>4, MediaObeyed
  <2>6. StoresTyped'
    BY <2>1, <2>3, <2>5 DEF StoresTyped
  <2>7. ConnectedAreMembers'
    BY <2>1, <2>4 DEF ConnectedAreMembers, StoresTyped
  <2> QED
    BY <2>1, <2>5, <2>6, <2>7 DEF SeatsOfTheirOwn, Obeyed, Members
<1>11. ASSUME NEW b \in Token, NEW m \in SUBSET Media, UpdatePolicy(b, m) PROVE PolicyInv'
  <2>1. /\ UNCHANGED <<rooms, seat, born, link, asked>>
        /\ link[b] = "on"
        /\ store' = UpdatePolicyAndEnforce(rooms, store, rooms.member[seat[b]], m)
    BY <1>11 DEF UpdatePolicy
  <2>2. rooms.member[seat[b]] \in Room
    BY <2>1 DEF ConnectedAreMembers
  <2>3. store' \in PolicyStore /\ Obeyed(rooms, store')
    BY <1>1, <2>1, <2>2, PolicyObeyed
  <2> QED
    BY <2>1, <2>3 DEF StoresTyped, SeatsOfTheirOwn, ConnectedAreMembers, Obeyed, Members
<1>12. ASSUME NEW b \in Token, Deliver(b) \/ Render(b) \/ StillReconnecting(b) \/ GiveUp(b)
       PROVE  PolicyInv'
  BY <1>12 DEF Deliver, Render, StillReconnecting, GiveUp, StoresTyped, SeatsOfTheirOwn, ConnectedAreMembers, Obeyed, Members
<1>13. CASE UNCHANGED vars
  BY <1>13 DEF vars, StoresTyped, SeatsOfTheirOwn, ConnectedAreMembers, Obeyed, Members
<1> QED
  BY <1>2, <1>3, <1>4, <1>6, <1>7, <1>8, <1>9, <1>10, <1>11, <1>12, <1>13 DEF Next

(* However joins, losses, media and policy changes follow one another, a   *)
(* member that is not the owner shares nothing its room forbids            *)
(* (updateMediaState, updatePolicyAndEnforce, reassignOwnerIfNeeded).      *)
THEOREM PolicyHolds == Spec => []NobodySharesForbidden
<1>1. PolicyInv => NobodySharesForbidden
  BY DEF PolicyInv, Obeyed, NobodySharesForbidden
<1> QED
  BY <1>1, PolicyInit, PolicyNext, PTL DEF Spec
-----------------------------------------------------------------------------
(***************************************************************************)
(* What is sent, and what a browser makes of it.                           *)
(***************************************************************************)
Peoples == UNION {[D -> Snapshots] : D \in SUBSET Participant}

(* A browser is among the participants it knows of. *)
Listed(v) == v.self # NoParticipant => v.self \in DOMAIN v.people
CallStates == [self: Participant \cup {NoParticipant}, people: Peoples, policy: SUBSET Media]
Views      == {v \in CallStates : Listed(v)}
Events  == [type: {"upserted"}, participant: Participant, snapshot: Snapshots]
           \cup [type: {"synced"}, people: Peoples]
           \cup [type: {"policy"}, policy: SUBSET Media]
           \cup [type: {"welcome"}, participant: Participant, people: Peoples,
                 policy: SUBSET Media]

LEMMA PeopleTyped ==
    ASSUME NEW f, NEW D \in SUBSET Participant, f = [p \in D |-> f[p]],
           \A p \in D : f[p] \in Snapshots
    PROVE  f \in Peoples
<1>1. f \in [D -> Snapshots]
  OBVIOUS
<1> QED
  BY <1>1 DEF Peoples

LEMMA PeopleKnown ==
    ASSUME NEW f \in Peoples
    PROVE  /\ DOMAIN f \in SUBSET Participant /\ f = [p \in DOMAIN f |-> f[p]]
           /\ \A p \in DOMAIN f : f[p] \in Snapshots
<1>1. PICK D \in SUBSET Participant : f \in [D -> Snapshots]
  BY DEF Peoples
<1> QED
  BY <1>1

LEMMA SnapshotTyped ==
    ASSUME NEW d \in RoomDirectory, NEW s \in PolicyStore, NEW p \in Participant
    PROVE  /\ Snapshot(d, s, p) \in Snapshots
           /\ Snapshot(d, s, p).owner = (p \in d.owner)
           /\ Snapshot(d, s, p).reconnecting = (p \in d.reconnecting)
           /\ Snapshot(d, s, p).shared = s.shared[p]
<1>1. s.shared[p] \in SUBSET Media /\ (p \in d.owner) \in BOOLEAN /\ (p \in d.reconnecting) \in BOOLEAN
  BY DEF PolicyStore
<1> QED
  BY <1>1 DEF Snapshot, Snapshots

LEMMA RoomTyped ==
    ASSUME NEW d \in RoomDirectory, NEW s \in PolicyStore, NEW r
    PROVE  /\ People(d, s, r) \in Peoples
           /\ DOMAIN People(d, s, r) = Members(d, r)
           /\ \A p \in Members(d, r) : People(d, s, r)[p] = Snapshot(d, s, p)
<1> DEFINE D == Members(d, r)
           f == People(d, s, r)
<1>1. D \in SUBSET Participant
  BY DEF Members
<1> HIDE DEF D
<1>2. f = [p \in D |-> Snapshot(d, s, p)]
  BY DEF People, D
<1>3. \A p \in D : Snapshot(d, s, p) \in Snapshots
  BY <1>1, SnapshotTyped
<1> HIDE DEF f
<1>4. f = [p \in D |-> f[p]] /\ \A p \in D : f[p] \in Snapshots
  BY <1>2, <1>3
<1> QED
  BY <1>1, <1>2, <1>4, PeopleTyped DEF D, f

LEMMA MessagesTyped ==
    ASSUME NEW d \in RoomDirectory, NEW s \in PolicyStore, NEW r \in Room, NEW p \in Participant
    PROVE  /\ Updated(d, s, p) \in Events /\ Updated(d, s, p).type = "upserted"
           /\ Updated(d, s, p).participant = p /\ Updated(d, s, p).snapshot = Snapshot(d, s, p)
           /\ Left(d, s, r) \in Events /\ Left(d, s, r).type = "synced"
           /\ Left(d, s, r).people = People(d, s, r)
           /\ PolicyUpdated(s, r) \in Events /\ PolicyUpdated(s, r).type = "policy"
           /\ PolicyUpdated(s, r).policy = s.allowed[r]
           /\ Welcome(d, s, r, p) \in Events /\ Welcome(d, s, r, p).type = "welcome"
           /\ Welcome(d, s, r, p).participant = p /\ Welcome(d, s, r, p).people = People(d, s, r)
           /\ Welcome(d, s, r, p).policy = s.allowed[r]
<1>1. s.allowed[r] \in SUBSET Media
  BY DEF PolicyStore
<1>2. Snapshot(d, s, p) \in Snapshots /\ People(d, s, r) \in Peoples
  BY SnapshotTyped, RoomTyped
<1>3. /\ Updated(d, s, p) \in Events /\ Updated(d, s, p).type = "upserted"
      /\ Updated(d, s, p).participant = p /\ Updated(d, s, p).snapshot = Snapshot(d, s, p)
  BY <1>2 DEF Updated, Events
<1>4. /\ Left(d, s, r) \in Events /\ Left(d, s, r).type = "synced"
      /\ Left(d, s, r).people = People(d, s, r)
  BY <1>2 DEF Left, Events
<1>5. /\ PolicyUpdated(s, r) \in Events /\ PolicyUpdated(s, r).type = "policy"
      /\ PolicyUpdated(s, r).policy = s.allowed[r]
  BY <1>1 DEF PolicyUpdated, Events
<1>6. /\ Welcome(d, s, r, p) \in Events /\ Welcome(d, s, r, p).type = "welcome"
      /\ Welcome(d, s, r, p).participant = p /\ Welcome(d, s, r, p).people = People(d, s, r)
      /\ Welcome(d, s, r, p).policy = s.allowed[r]
  BY <1>1, <1>2 DEF Welcome, Events
<1> QED
  BY <1>3, <1>4, <1>5, <1>6

LEMMA ReduceEffect ==
    ASSUME NEW v \in Views, NEW e \in Events
    PROVE  LET w == Reduce(v, e)
           IN  /\ Listed(w) => w \in Views
               /\ e.type = "upserted" \/ e.type = "policy" => w \in Views
               /\ e.type = "upserted" =>
                     /\ w.self = v.self /\ w.policy = v.policy
                     /\ DOMAIN w.people = DOMAIN v.people \cup {e.participant}
                     /\ \A q \in DOMAIN w.people :
                           w.people[q] = IF q = e.participant THEN e.snapshot ELSE v.people[q]
               /\ e.type = "synced" =>
                     w.self = v.self /\ w.policy = v.policy /\ w.people = e.people
               /\ e.type = "policy" =>
                     w.self = v.self /\ w.people = v.people /\ w.policy = e.policy
               /\ e.type = "welcome" =>
                     w.self = e.participant /\ w.people = e.people /\ w.policy = e.policy
<1> DEFINE w == Reduce(v, e)
<1>1. /\ v.self \in Participant \cup {NoParticipant} /\ v.people \in Peoples
      /\ v.policy \in SUBSET Media /\ v \in CallStates /\ Listed(v)
  BY DEF Views, CallStates
<1>2. ASSUME NEW f \in Peoples
      PROVE  /\ [v EXCEPT !.people = f] \in CallStates
             /\ [v EXCEPT !.people = f].self = v.self
             /\ [v EXCEPT !.people = f].policy = v.policy
             /\ [v EXCEPT !.people = f].people = f
  BY <1>1 DEF CallStates
<1>3. CASE e.type = "upserted"
  <2> DEFINE D == DOMAIN v.people \cup {e.participant}
             f == Upsert(v.people, e.participant, e.snapshot)
  <2>1. e.participant \in Participant /\ e.snapshot \in Snapshots
    BY <1>3 DEF Events
  <2>2. D \in SUBSET Participant /\ \A p \in DOMAIN v.people : v.people[p] \in Snapshots
    BY <1>1, <2>1, PeopleKnown
  <2>3. f = [q \in D |-> IF q = e.participant THEN e.snapshot ELSE v.people[q]]
    BY DEF Upsert
  <2>4. w = [v EXCEPT !.people = f]
    BY <1>3 DEF Reduce
  <2>5. \A q \in D : q = e.participant \/ q \in DOMAIN v.people
    OBVIOUS
  <2> HIDE DEF D, f, w
  <2>6. f = [q \in D |-> f[q]] /\ DOMAIN f = D
        /\ \A q \in D : f[q] = IF q = e.participant THEN e.snapshot ELSE v.people[q]
    BY <2>3
  <2>7. \A q \in D : f[q] \in Snapshots
    BY <2>1, <2>2, <2>5, <2>6
  <2>8. f \in Peoples
    BY <2>2, <2>6, <2>7, PeopleTyped
  <2>9. w \in CallStates /\ w.self = v.self /\ w.policy = v.policy /\ w.people = f
    BY <1>2, <2>4, <2>8
  <2>10. DOMAIN f = DOMAIN v.people \cup {e.participant}
         /\ \A q \in DOMAIN f : f[q] = IF q = e.participant THEN e.snapshot ELSE v.people[q]
    BY <2>6 DEF D
  <2>11. /\ w \in Views /\ Listed(w) /\ w.self = v.self /\ w.policy = v.policy
         /\ DOMAIN w.people = DOMAIN v.people \cup {e.participant}
         /\ \A q \in DOMAIN w.people :
               w.people[q] = IF q = e.participant THEN e.snapshot ELSE v.people[q]
    BY <1>1, <2>9, <2>10 DEF Views, Listed
  <2>12. e.type # "synced" /\ e.type # "policy" /\ e.type # "welcome"
    BY <1>3
  <2> QED
    BY <2>11, <2>12 DEF w
<1>4. CASE e.type = "synced"
  <2>1. e.people \in Peoples
    BY <1>4 DEF Events
  <2>2. w = [v EXCEPT !.people = e.people]
    BY <1>4 DEF Reduce
  <2> HIDE DEF w
  <2>3. w \in CallStates /\ w.self = v.self /\ w.policy = v.policy /\ w.people = e.people
    BY <1>2, <2>1, <2>2
  <2>4. e.type # "upserted" /\ e.type # "policy" /\ e.type # "welcome"
    BY <1>4
  <2> QED
    BY <2>3, <2>4 DEF w, Views
<1>5. CASE e.type = "policy"
  <2>1. e.policy \in SUBSET Media
    BY <1>5 DEF Events
  <2>2. w = [v EXCEPT !.policy = e.policy]
    BY <1>5 DEF Reduce
  <2> HIDE DEF w
  <2>3. w \in CallStates /\ w.self = v.self /\ w.people = v.people /\ w.policy = e.policy
    BY <1>1, <2>1, <2>2 DEF CallStates
  <2>4. w \in Views
    BY <1>1, <2>3 DEF Views, Listed
  <2>5. e.type # "upserted" /\ e.type # "synced" /\ e.type # "welcome"
    BY <1>5
  <2> QED
    BY <2>3, <2>4, <2>5 DEF w
<1>6. CASE e.type = "welcome"
  <2>1. e.participant \in Participant /\ e.people \in Peoples /\ e.policy \in SUBSET Media
    BY <1>6 DEF Events
  <2>2. w = [self |-> e.participant, people |-> e.people, policy |-> e.policy]
    BY <1>6 DEF Reduce
  <2> HIDE DEF w
  <2>3. w \in CallStates /\ w.self = e.participant /\ w.people = e.people /\ w.policy = e.policy
    BY <2>1, <2>2 DEF CallStates
  <2>4. e.type # "upserted" /\ e.type # "policy" /\ e.type # "synced"
    BY <1>6
  <2> QED
    BY <2>3, <2>4 DEF w, Views
<1> QED
  BY <1>3, <1>4, <1>5, <1>6 DEF Events

(***************************************************************************)
(* A browser's own tile may be what it asked for, or what it has rendered  *)
(* and written back, so views are compared with it or without.             *)
(***************************************************************************)
Near(v, w) ==
    /\ w.self = v.self /\ w.policy = v.policy /\ DOMAIN w.people = DOMAIN v.people
    /\ \A q \in DOMAIN v.people : q # v.self => w.people[q] = v.people[q]
Same(v, w) ==
    Near(v, w) /\ \A q \in DOMAIN v.people : w.people[q] = v.people[q]

(* After e the browser that is p shows of itself what the server sent. *)
Settles(e, p) == e.type = "welcome" \/ (e.type = "upserted" /\ e.participant = p)

LEMMA AlikeItself == \A v : Same(v, v) /\ Near(v, v)
BY DEF Same, Near

LEMMA AlikeTransitive ==
    ASSUME NEW v, NEW w, NEW x
    PROVE  /\ Near(v, w) /\ Near(w, x) => Near(v, x)
           /\ Same(v, w) /\ Same(w, x) => Same(v, x)
           /\ Near(v, w) => Near(w, v)
BY DEF Same, Near

LEMMA AlikeReduced ==
    ASSUME NEW v \in Views, NEW w \in Views, NEW e \in Events
    PROVE  /\ Near(v, w) => Near(Reduce(v, e), Reduce(w, e))
           /\ Same(v, w) => Same(Reduce(v, e), Reduce(w, e))
           /\ Near(v, w) /\ Settles(e, v.self) => Same(Reduce(v, e), Reduce(w, e))
<1> DEFINE x == Reduce(v, e)
           y == Reduce(w, e)
<1>1. CASE e.type = "upserted"
  <2>1. /\ x.self = v.self /\ x.policy = v.policy
        /\ DOMAIN x.people = DOMAIN v.people \cup {e.participant}
        /\ \A q \in DOMAIN x.people :
              x.people[q] = IF q = e.participant THEN e.snapshot ELSE v.people[q]
    BY <1>1, ReduceEffect
  <2>2. /\ y.self = w.self /\ y.policy = w.policy
        /\ DOMAIN y.people = DOMAIN w.people \cup {e.participant}
        /\ \A q \in DOMAIN y.people :
              y.people[q] = IF q = e.participant THEN e.snapshot ELSE w.people[q]
    BY <1>1, ReduceEffect
  <2> HIDE DEF x, y
  <2>3. Near(v, w) => Near(x, y)
    BY <2>1, <2>2 DEF Near
  <2>4. Same(v, w) => Same(x, y)
    BY <2>1, <2>2, <2>3 DEF Near, Same
  <2>5. Near(v, w) /\ e.participant = v.self => Same(x, y)
    BY <2>1, <2>2, <2>3 DEF Near, Same
  <2> QED
    BY <1>1, <2>3, <2>4, <2>5 DEF x, y, Settles
<1>2. CASE e.type = "synced"
  <2>1. x.self = v.self /\ x.policy = v.policy /\ x.people = e.people
    BY <1>2, ReduceEffect
  <2>2. y.self = w.self /\ y.policy = w.policy /\ y.people = e.people
    BY <1>2, ReduceEffect
  <2> HIDE DEF x, y
  <2>3. Near(v, w) => Same(x, y)
    BY <2>1, <2>2 DEF Near, Same
  <2> QED
    BY <2>3 DEF x, y, Same
<1>3. CASE e.type = "policy"
  <2>1. x.self = v.self /\ x.people = v.people /\ x.policy = e.policy
    BY <1>3, ReduceEffect
  <2>2. y.self = w.self /\ y.people = w.people /\ y.policy = e.policy
    BY <1>3, ReduceEffect
  <2> HIDE DEF x, y
  <2>3. (Near(v, w) => Near(x, y)) /\ (Same(v, w) => Same(x, y))
    BY <2>1, <2>2 DEF Near, Same
  <2> QED
    BY <1>3, <2>3 DEF x, y, Settles
<1>4. CASE e.type = "welcome"
  <2>1. x.self = e.participant /\ x.people = e.people /\ x.policy = e.policy
    BY <1>4, ReduceEffect
  <2>2. y.self = e.participant /\ y.people = e.people /\ y.policy = e.policy
    BY <1>4, ReduceEffect
  <2> HIDE DEF x, y
  <2>3. Same(x, y)
    BY <2>1, <2>2 DEF Near, Same
  <2> QED
    BY <2>3 DEF x, y, Same
<1> QED
  BY <1>1, <1>2, <1>3, <1>4 DEF Events

(* The views vs that a browser goes through from v while q arrives, but    *)
(* for its own tile before the k-th message, which settles it.             *)
Follows(vs, v, q, k) ==
    /\ vs \in [0 .. Len(q) -> Views] /\ k \in Nat
    /\ Near(vs[0], v) /\ (k = 0 => Same(vs[0], v))
    /\ \A i \in 1 .. Len(q) :
          /\ Near(Reduce(vs[i - 1], q[i]), vs[i])
          /\ k <= i => Same(Reduce(vs[i - 1], q[i]), vs[i])
    /\ k \in 1 .. Len(q) => Settles(q[k], vs[k - 1].self)

(* The views us that a browser goes through from v while m arrives. *)
GoesThrough(us, v, m) ==
    /\ us \in [0 .. Len(m) -> Views] /\ us[0] = v
    /\ \A j \in 1 .. Len(m) : Same(Reduce(us[j - 1], m[j]), us[j])

(* With m behind q, the own tile is settled by the h-th message, not the   *)
(* k-th.                                                                   *)
StaysSettled(h, k, q, m, us) ==
    \/ k <= Len(q) /\ h = k
    \/ /\ Len(q) < k /\ Len(q) < h
       /\ h - Len(q) \in 1 .. Len(m) => Settles(m[h - Len(q)], us[h - Len(q) - 1].self)

(* More is sent; it may settle the own tile. *)
LEMMA MoreSent ==
    ASSUME NEW q \in Seq(Events), NEW m \in Seq(Events), NEW vs, NEW v, NEW k, Follows(vs, v, q, k),
           NEW us, GoesThrough(us, vs[Len(q)], m),
           NEW h \in Nat, StaysSettled(h, k, q, m, us)
    PROVE  \E ws : Follows(ws, v, q \o m, h) /\ ws[Len(q \o m)] = us[Len(m)]
<1> DEFINE a  == Len(q)
           b  == Len(m)
           r  == q \o m
           ws == [i \in 0 .. a + b |-> IF i <= a THEN vs[i] ELSE us[i - a]]
<1>1. /\ a \in Nat /\ b \in Nat /\ Len(r) = a + b
      /\ \A i \in 1 .. a : r[i] = q[i]
      /\ \A i \in a + 1 .. a + b : r[i] = m[i - a]
  BY ConcatProperties, LenProperties
<1>2. /\ vs \in [0 .. a -> Views] /\ k \in Nat
      /\ Near(vs[0], v) /\ (k = 0 => Same(vs[0], v))
      /\ k \in 1 .. a => Settles(q[k], vs[k - 1].self)
  BY DEF Follows
<1>3. \A i \in 1 .. a : /\ Near(Reduce(vs[i - 1], q[i]), vs[i])
                        /\ k <= i => Same(Reduce(vs[i - 1], q[i]), vs[i])
  BY DEF Follows
<1>4. us \in [0 .. b -> Views] /\ us[0] = vs[a]
  BY DEF GoesThrough
<1>13. \A j \in 1 .. b : Same(Reduce(us[j - 1], m[j]), us[j])
  BY DEF GoesThrough
<1>5. \/ k <= a /\ h = k
      \/ a < k /\ a < h /\ (h - a \in 1 .. b => Settles(m[h - a], us[h - a - 1].self))
  BY DEF StaysSettled
<1> HIDE DEF a, b, r
<1>6. /\ \A i \in 0 .. a : ws[i] = vs[i]
      /\ \A i \in a + 1 .. a + b : ws[i] = us[i - a]
      /\ ws \in [0 .. a + b -> Views]
  <2>1. \A i \in 0 .. a : ws[i] = vs[i]
    BY <1>1
  <2>2. \A i \in a + 1 .. a + b : ws[i] = us[i - a]
    BY <1>1
  <2>3. ASSUME NEW i \in 0 .. a + b PROVE (IF i <= a THEN vs[i] ELSE us[i - a]) \in Views
    <3>1. CASE i <= a
      <4>1. i \in 0 .. a
        BY <1>1, <3>1
      <4>2. vs[i] \in Views
        BY <1>2, <4>1
      <4> QED
        BY <3>1, <4>2
    <3>2. CASE ~(i <= a)
      <4>1. i - a \in 0 .. b
        BY <1>1, <3>2
      <4>2. us[i - a] \in Views
        BY <1>4, <4>1
      <4> QED
        BY <3>2, <4>2
    <3> QED
      BY <3>1, <3>2
  <2> QED
    BY <2>1, <2>2, <2>3
<1> HIDE DEF ws
<1>7. \A j \in 0 .. b : ws[a + j] = us[j]
  <2> SUFFICES ASSUME NEW j \in 0 .. b PROVE ws[a + j] = us[j]
    OBVIOUS
  <2>1. CASE j = 0
    <3>1. a + j = a /\ a \in 0 .. a
      BY <1>1, <2>1
    <3>2. ws[a] = vs[a]
      BY <1>6, <3>1
    <3> QED
      BY <1>4, <2>1, <3>1, <3>2
  <2>2. CASE j # 0
    <3>1. PICK x \in a + 1 .. a + b : x = a + j /\ x - a = j
      BY <1>1, <2>2
    <3>2. ws[x] = us[x - a]
      BY <1>6
    <3> QED
      BY <3>1, <3>2
  <2> QED
    BY <2>1, <2>2
<1>8. Near(ws[0], v) /\ (h = 0 => Same(ws[0], v))
  <2>1. ws[0] = vs[0] /\ (h = 0 => k = 0)
    BY <1>1, <1>5, <1>6
  <2> QED
    BY <1>2, <2>1
<1>9. ASSUME NEW i \in 1 .. a + b
      PROVE  /\ Near(Reduce(ws[i - 1], r[i]), ws[i])
             /\ h <= i => Same(Reduce(ws[i - 1], r[i]), ws[i])
  <2>1. CASE i <= a
    <3>1. i \in 1 .. a /\ i - 1 \in 0 .. a /\ i \in 0 .. a
      BY <1>1, <2>1
    <3>2. ws[i - 1] = vs[i - 1] /\ ws[i] = vs[i] /\ r[i] = q[i]
      BY <1>1, <1>6, <3>1
    <3>3. h <= i => k <= i
      BY <1>1, <1>2, <1>5, <2>1
    <3> QED
      BY <1>3, <3>1, <3>2, <3>3
  <2>2. CASE ~(i <= a)
    <3> DEFINE j == i - a
    <3>1. j \in 1 .. b /\ j \in 0 .. b /\ j - 1 \in 0 .. b /\ a + j = i /\ a + (j - 1) = i - 1
          /\ i \in a + 1 .. a + b
      BY <1>1, <2>2
    <3>2. ws[i - 1] = us[j - 1] /\ ws[i] = us[j] /\ r[i] = m[j]
      BY <1>1, <1>7, <3>1
    <3>3. Same(Reduce(us[j - 1], m[j]), us[j])
      BY <1>13, <3>1
    <3>4. Same(Reduce(ws[i - 1], r[i]), ws[i])
      BY <3>2, <3>3
    <3> QED
      BY <3>4 DEF Same
  <2> QED
    BY <2>1, <2>2
<1>10. h \in 1 .. a + b => Settles(r[h], ws[h - 1].self)
  <2>1. CASE k <= a /\ h = k
    <3>1. CASE h \in 1 .. a
      <4>1. r[h] = q[h] /\ ws[h - 1] = vs[h - 1]
        BY <1>1, <1>6, <3>1
      <4> QED
        BY <1>2, <2>1, <3>1, <4>1
    <3>2. CASE h \notin 1 .. a
      BY <1>1, <1>2, <2>1, <3>2
    <3> QED
      BY <3>1, <3>2
  <2>2. CASE a < k /\ a < h /\ (h - a \in 1 .. b => Settles(m[h - a], us[h - a - 1].self))
    <3> SUFFICES ASSUME h \in 1 .. a + b PROVE Settles(r[h], ws[h - 1].self)
      OBVIOUS
    <3> DEFINE j == h - a
    <3>1. j \in 1 .. b /\ j - 1 \in 0 .. b /\ a + (j - 1) = h - 1 /\ h \in a + 1 .. a + b
      BY <1>1, <2>2
    <3>2. r[h] = m[j] /\ ws[h - 1] = us[j - 1]
      BY <1>1, <1>7, <3>1
    <3> QED
      BY <2>2, <3>1, <3>2
  <2> QED
    BY <1>5, <2>1, <2>2
<1>11. Follows(ws, v, r, h)
  BY <1>1, <1>6, <1>8, <1>9, <1>10 DEF Follows
<1>12. ws[Len(r)] = us[b]
  BY <1>1, <1>7
<1> QED
  BY <1>11, <1>12 DEF r, b

(* A message arrives. *)
LEMMA OneArrives ==
    ASSUME NEW q \in Seq(Events), q # <<>>, NEW vs, NEW v \in Views, NEW k, Follows(vs, v, q, k)
    PROVE  \E ws : /\ Follows(ws, Reduce(v, Head(q)), Tail(q), IF k = 0 THEN 0 ELSE k - 1)
                   /\ ws[Len(Tail(q))] = vs[Len(q)]
<1> DEFINE n  == Len(q) - 1
           r  == Tail(q)
           e  == Head(q)
           h  == IF k = 0 THEN 0 ELSE k - 1
           ws == [i \in 0 .. n |-> vs[i + 1]]
<1>1. /\ n \in Nat /\ Len(q) = n + 1 /\ Len(r) = n /\ e = q[1] /\ e \in Events
      /\ \A i \in 1 .. n : r[i] = q[i + 1]
  OBVIOUS
<1>2. /\ vs \in [0 .. n + 1 -> Views] /\ k \in Nat /\ h \in Nat
      /\ Near(vs[0], v) /\ (k = 0 => Same(vs[0], v))
      /\ k \in 1 .. n + 1 => Settles(q[k], vs[k - 1].self)
  BY <1>1 DEF Follows
<1>3. \A i \in 1 .. n + 1 : /\ Near(Reduce(vs[i - 1], q[i]), vs[i])
                            /\ k <= i => Same(Reduce(vs[i - 1], q[i]), vs[i])
  BY <1>1 DEF Follows
<1>4. (k = 0 => h = 0) /\ (k # 0 => h = k - 1)
  BY <1>2
<1> HIDE DEF n, r, e, h
<1>5. ws \in [0 .. n -> Views] /\ \A i \in 0 .. n : ws[i] = vs[i + 1]
  BY <1>1, <1>2
<1> HIDE DEF ws
<1>6. vs[0] \in Views /\ ws[0] = vs[1] /\ vs[1] \in Views
  BY <1>1, <1>2, <1>5
<1>7. Near(Reduce(vs[0], e), vs[1]) /\ (k <= 1 => Same(Reduce(vs[0], e), vs[1]))
  <2>1. 1 \in 1 .. n + 1 /\ 1 - 1 = 0
    BY <1>1
  <2> QED
    BY <1>1, <1>3, <2>1
<1>8. Near(vs[1], Reduce(v, e))
  <2>1. Near(Reduce(vs[0], e), Reduce(v, e))
    BY <1>1, <1>2, <1>6, AlikeReduced
  <2>2. Near(vs[1], Reduce(vs[0], e))
    BY <1>7, AlikeTransitive
  <2> QED
    BY <2>1, <2>2, AlikeTransitive
<1>9. h = 0 => Same(vs[1], Reduce(v, e))
  <2> SUFFICES ASSUME h = 0 PROVE Same(vs[1], Reduce(v, e))
    OBVIOUS
  <2>1. k <= 1 /\ (k = 0 \/ k = 1)
    BY <1>2, <1>4
  <2>2. Same(Reduce(vs[0], e), Reduce(v, e))
    <3>1. CASE k = 0
      BY <1>1, <1>2, <1>6, <3>1, AlikeReduced
    <3>2. CASE k = 1
      <4>1. Settles(e, vs[0].self)
        BY <1>1, <1>2, <3>2
      <4> QED
        BY <1>1, <1>2, <1>6, <4>1, AlikeReduced
    <3> QED
      BY <2>1, <3>1, <3>2
  <2>3. Same(Reduce(vs[0], e), vs[1])
    BY <1>7, <2>1
  <2>4. Same(vs[1], Reduce(vs[0], e))
    BY <2>3 DEF Same, Near
  <2> QED
    BY <2>2, <2>4, AlikeTransitive
<1>10. ASSUME NEW i \in 1 .. n
       PROVE  /\ Near(Reduce(ws[i - 1], r[i]), ws[i])
              /\ h <= i => Same(Reduce(ws[i - 1], r[i]), ws[i])
  <2>1. i + 1 \in 1 .. n + 1 /\ (i + 1) - 1 = i /\ i - 1 \in 0 .. n /\ (i - 1) + 1 = i /\ i \in 0 .. n
    BY <1>1
  <2>2. ws[i - 1] = vs[i] /\ ws[i] = vs[i + 1] /\ r[i] = q[i + 1]
    BY <1>1, <1>5, <2>1
  <2>3. h <= i => k <= i + 1
    BY <1>1, <1>2, <1>4
  <2>4. /\ Near(Reduce(vs[i], q[i + 1]), vs[i + 1])
        /\ k <= i + 1 => Same(Reduce(vs[i], q[i + 1]), vs[i + 1])
    BY <1>3, <2>1
  <2> QED
    BY <2>2, <2>3, <2>4
<1>11. h \in 1 .. n => Settles(r[h], ws[h - 1].self)
  <2> SUFFICES ASSUME h \in 1 .. n PROVE Settles(r[h], ws[h - 1].self)
    OBVIOUS
  <2>1. k = h + 1 /\ k \in 1 .. n + 1 /\ h - 1 \in 0 .. n /\ (h - 1) + 1 = h /\ k - 1 = h
    BY <1>1, <1>2, <1>4
  <2>2. r[h] = q[k] /\ ws[h - 1] = vs[k - 1]
    BY <1>1, <1>5, <2>1
  <2> QED
    BY <1>2, <2>1, <2>2
<1>12. Follows(ws, Reduce(v, e), r, h)
  BY <1>1, <1>2, <1>5, <1>6, <1>8, <1>9, <1>10, <1>11 DEF Follows
<1>13. ws[Len(r)] = vs[Len(q)]
  BY <1>1, <1>5
<1> QED
  BY <1>12, <1>13 DEF r, e, h

(* The own tile changes: nothing is settled any more. *)
LEMMA OwnTileAhead ==
    ASSUME NEW q \in Seq(Events), NEW vs, NEW v, NEW w, NEW k, Follows(vs, v, q, k), Near(v, w)
    PROVE  Follows(vs, w, q, Len(q) + 1)
<1>1. Len(q) \in Nat
  BY LenProperties
<1>2. Near(vs[0], w)
  BY AlikeTransitive DEF Follows
<1>3. \A i \in 1 .. Len(q) : Near(Reduce(vs[i - 1], q[i]), vs[i]) /\ ~(Len(q) + 1 <= i)
  BY <1>1 DEF Follows
<1> QED
  BY <1>1, <1>2, <1>3 DEF Follows

(* The own tile changes before an answer to the join, which settles it. *)
LEMMA OwnTileRedone ==
    ASSUME NEW q \in Seq(Events), NEW vs, NEW v, NEW w, NEW k, Follows(vs, v, q, k), Near(v, w),
           NEW i \in 1 .. Len(q), q[i].type = "welcome"
    PROVE  \E h : Follows(vs, w, q, h) /\ (k <= Len(q) => h <= Len(q))
<1> DEFINE h == IF k = 0 THEN i ELSE k
<1>1. Len(q) \in Nat /\ k \in Nat
  BY LenProperties DEF Follows
<1>2. h \in Nat /\ h # 0 /\ (k <= Len(q) => h <= Len(q)) /\ \A j \in 1 .. Len(q) : h <= j => k <= j
  BY <1>1
<1>3. h \in 1 .. Len(q) => Settles(q[h], vs[h - 1].self)
  <2>1. CASE k = 0
    BY <2>1 DEF Settles
  <2>2. CASE k # 0
    BY <2>2 DEF Follows
  <2> QED
    BY <2>1, <2>2
<1> HIDE DEF h
<1>4. Near(vs[0], w)
  BY AlikeTransitive DEF Follows
<1>5. Follows(vs, w, q, h)
  BY <1>2, <1>3, <1>4 DEF Follows
<1> QED
  BY <1>2, <1>5

(***************************************************************************)
(* What a connected browser makes of its room.                             *)
(***************************************************************************)

(* v is the room of p as the server has it, but for the own tile. *)
Shows(g, d, s, q) ==
    /\ g.owner = (q \in d.owner)
    /\ g.reconnecting = (q \in d.reconnecting)
    /\ g.shared = s.shared[q]
Matches(v, d, s, p) ==
    LET r == d.member[p]
    IN  /\ v.self = p /\ v.policy = s.allowed[r] /\ DOMAIN v.people = Members(d, r)
        /\ \A q \in Members(d, r) : q # p => Shows(v.people[q], d, s, q)
OwnShown(v, d, s, p) == Shows(v.people[p], d, s, p)

(* Room r but for participant x is the same in d and s as in e and t. *)
Keeps(d, s, e, t, r, x) ==
    /\ t.allowed[r] = s.allowed[r]
    /\ \A q \in Participant : q # x => (e.member[q] = r <=> d.member[q] = r)
    /\ \A q \in Members(d, r) : q # x =>
          /\ (q \in e.owner) = (q \in d.owner)
          /\ (q \in e.reconnecting) = (q \in d.reconnecting)
          /\ t.shared[q] = s.shared[q]

(* What happens to x is no matter of room r. *)
LEMMA MatchesElsewhere ==
    ASSUME NEW v, NEW d, NEW s, NEW e, NEW t, NEW p \in Participant, NEW x,
           Matches(v, d, s, p), Keeps(d, s, e, t, d.member[p], x),
           p # x, d.member[x] # d.member[p], e.member[x] # d.member[p]
    PROVE  /\ Matches(v, e, t, p)
           /\ OwnShown(v, d, s, p) => OwnShown(v, e, t, p)
<1> DEFINE r == d.member[p]
<1>1. e.member[p] = r
  BY DEF Keeps
<1>2. Members(e, r) = Members(d, r)
  BY DEF Keeps, Members
<1>3. p \in Members(d, r) /\ x \notin Members(d, r)
  BY DEF Members
<1>4. Matches(v, e, t, p)
  BY <1>1, <1>2, <1>3 DEF Matches, Shows, Keeps
<1>5. OwnShown(v, d, s, p) => OwnShown(v, e, t, p)
  BY <1>3 DEF OwnShown, Shows, Keeps
<1> QED
  BY <1>4, <1>5

(* x is or becomes a member: the room is told. *)
LEMMA MatchesUpserted ==
    ASSUME NEW v \in Views, NEW d, NEW s,
           NEW e \in RoomDirectory, NEW t \in PolicyStore, NEW p \in Participant, NEW x \in Participant,
           d.member[p] \in Room,
           Matches(v, d, s, p), Keeps(d, s, e, t, d.member[p], x), e.member[x] = d.member[p]
    PROVE  /\ Matches(Reduce(v, Updated(e, t, x)), e, t, p)
           /\ OwnShown(v, d, s, p) \/ x = p => OwnShown(Reduce(v, Updated(e, t, x)), e, t, p)
<1> DEFINE r == d.member[p]
           w == Reduce(v, Updated(e, t, x))
           g == Snapshot(e, t, x)
<1>1. e.member[p] = r
  BY DEF Keeps
<1>2. Members(e, r) = Members(d, r) \cup {x} /\ p \in Members(d, r)
  BY DEF Keeps, Members
<1>3. /\ w.self = v.self /\ w.policy = v.policy
      /\ DOMAIN w.people = DOMAIN v.people \cup {x}
      /\ \A q \in DOMAIN w.people : w.people[q] = IF q = x THEN g ELSE v.people[q]
  <2>1. /\ Updated(e, t, x) \in Events /\ Updated(e, t, x).type = "upserted"
        /\ Updated(e, t, x).participant = x /\ Updated(e, t, x).snapshot = g
    BY MessagesTyped
  <2> HIDE DEF g
  <2> QED
    BY <2>1, ReduceEffect
<1>4. /\ g.owner = (x \in e.owner) /\ g.reconnecting = (x \in e.reconnecting)
      /\ g.shared = t.shared[x]
  BY SnapshotTyped
<1> HIDE DEF w, g
<1>5. /\ v.self = p /\ v.policy = s.allowed[r] /\ DOMAIN v.people = Members(d, r)
      /\ t.allowed[r] = s.allowed[r]
  BY DEF Matches, Keeps
<1>6. ASSUME NEW q \in Members(e, r)
      PROVE  q # p \/ OwnShown(v, d, s, p) \/ x = p => Shows(w.people[q], e, t, q)
  <2>1. CASE q = x
    BY <1>2, <1>3, <1>4, <1>5, <2>1 DEF Shows
  <2>2. CASE q # x
    <3>1. q \in Members(d, r) /\ w.people[q] = v.people[q]
      BY <1>2, <1>3, <1>5, <2>2
    <3>2. q # p \/ OwnShown(v, d, s, p) => Shows(v.people[q], d, s, q)
      BY <3>1 DEF Matches, OwnShown
    <3>3. /\ (q \in e.owner) = (q \in d.owner)
          /\ (q \in e.reconnecting) = (q \in d.reconnecting)
          /\ t.shared[q] = s.shared[q]
      BY <2>2, <3>1 DEF Keeps
    <3> QED
      BY <2>2, <3>1, <3>2, <3>3 DEF Shows
  <2> QED
    BY <2>1, <2>2
<1>7. DOMAIN w.people = Members(e, r)
  BY <1>2, <1>3, <1>5
<1>8. Matches(w, e, t, p)
  BY <1>1, <1>3, <1>5, <1>6, <1>7 DEF Matches
<1>9. OwnShown(v, d, s, p) \/ x = p => OwnShown(w, e, t, p)
  BY <1>2, <1>6 DEF OwnShown
<1> QED
  BY <1>8, <1>9 DEF w

(* The room is told who is left, or a newcomer who is there. *)
LEMMA MatchesWhole ==
    ASSUME NEW v \in Views, NEW e \in RoomDirectory, NEW t \in PolicyStore, NEW p \in Participant,
           NEW r \in Room, e.member[p] = r
    PROVE  /\ v.self = p /\ v.policy = t.allowed[r]
              => Matches(Reduce(v, Left(e, t, r)), e, t, p) /\ OwnShown(Reduce(v, Left(e, t, r)), e, t, p)
           /\ Matches(Reduce(v, Welcome(e, t, r, p)), e, t, p)
           /\ OwnShown(Reduce(v, Welcome(e, t, r, p)), e, t, p)
<1> DEFINE x == Reduce(v, Left(e, t, r))
           y == Reduce(v, Welcome(e, t, r, p))
           g == People(e, t, r)
<1>1. x.self = v.self /\ x.policy = v.policy /\ x.people = g
  <2>1. Left(e, t, r) \in Events /\ Left(e, t, r).type = "synced" /\ Left(e, t, r).people = g
    BY MessagesTyped
  <2> HIDE DEF g
  <2> QED
    BY <2>1, ReduceEffect
<1>2. y.self = p /\ y.policy = t.allowed[r] /\ y.people = g
  <2>1. /\ Welcome(e, t, r, p) \in Events /\ Welcome(e, t, r, p).type = "welcome"
        /\ Welcome(e, t, r, p).participant = p /\ Welcome(e, t, r, p).people = g
        /\ Welcome(e, t, r, p).policy = t.allowed[r]
    BY MessagesTyped
  <2> HIDE DEF g
  <2> QED
    BY <2>1, ReduceEffect
<1>3. DOMAIN g = Members(e, r) /\ \A q \in Members(e, r) : g[q] = Snapshot(e, t, q) /\ q \in Participant
  <2>1. DOMAIN g = Members(e, r) /\ \A q \in Members(e, r) : g[q] = Snapshot(e, t, q)
    BY RoomTyped
  <2>2. \A q \in Members(e, r) : q \in Participant
    BY DEF Members
  <2> QED
    BY <2>1, <2>2
<1>4. \A q \in Members(e, r) : Shows(g[q], e, t, q)
  BY <1>3, SnapshotTyped DEF Shows
<1>5. p \in Members(e, r)
  BY DEF Members
<1> HIDE DEF x, y, g
<1>6. v.self = p /\ v.policy = t.allowed[r] => Matches(x, e, t, p) /\ OwnShown(x, e, t, p)
  BY <1>1, <1>3, <1>4, <1>5 DEF Matches, OwnShown
<1>7. Matches(y, e, t, p) /\ OwnShown(y, e, t, p)
  BY <1>2, <1>3, <1>4, <1>5 DEF Matches, OwnShown
<1> QED
  BY <1>6, <1>7 DEF x, y

(* The room is told of a new policy and of everybody it changed. *)
LEMMA MatchesPolicy ==
    ASSUME NEW v \in Views, NEW d \in RoomDirectory, NEW s \in PolicyStore,
           NEW p \in Participant, NEW r \in Room, d.member[p] = r, Matches(v, d, s, p),
           NEW policy \in SUBSET Media, NEW t \in PolicyStore,
           t = UpdatePolicyAndEnforce(d, s, r, policy),
           NEW forced \in JoiningOrders(Forced(d, s, r, policy))
    PROVE  LET m == Announcement(d, t, r, forced)
           IN  /\ m \in Seq(Events)
               /\ \E us :
                     /\ GoesThrough(us, v, m)
                     /\ Matches(us[Len(m)], d, t, p)
                     /\ OwnShown(v, d, s, p) => OwnShown(us[Len(m)], d, t, p)
<1> DEFINE F == Forced(d, s, r, policy)
           n == Cardinality(F)
           D == Members(d, r)
           first == PolicyUpdated(t, r)
           rest == [i \in 1 .. n |-> Updated(d, t, forced[i])]
           m == Announcement(d, t, r, forced)
           Told(i) == {forced[j] : j \in 1 .. i}
           f(i) == [q \in D |-> IF q \in Told(i) THEN Snapshot(d, t, q) ELSE v.people[q]]
           View(i) == [self |-> p, people |-> f(i), policy |-> t.allowed[r]]
           us == [k \in 0 .. n + 1 |-> IF k = 0 THEN v ELSE View(k - 1)]
<1>1. D \subseteq Participant /\ F \subseteq D /\ p \in D
  BY DEF Members, Forced
<1>2. n \in Nat
  <2>1. IsFiniteSet(Participant)
    <3>1. 1 \in Int /\ MaxParticipants \in Int
      BY ParticipantAssumption
    <3> QED
      BY <3>1, FS_Interval DEF Participant
  <2>2. IsFiniteSet(F)
    BY <1>1, <2>1, FS_Subset
  <2> QED
    BY <2>2, FS_CardinalityType
<1>3. forced \in [1 .. n -> F] /\ Range(forced) = F
  BY DEF JoiningOrders
<1>4. \A q : q \in F <=> q \in D \ d.owner /\ s.shared[q] \ policy # {}
  BY DEF Forced
<1>5. /\ t.allowed[r] = policy /\ \A q \in Participant : q \notin F => t.shared[q] = s.shared[q]
  <2>1. s.allowed \in [Room -> SUBSET Media]
    BY DEF PolicyStore
  <2> QED
    BY <2>1 DEF UpdatePolicyAndEnforce
<1>6. /\ v.self = p /\ DOMAIN v.people = D /\ v.people \in Peoples
      /\ \A q \in D : q # p => Shows(v.people[q], d, s, q)
  BY DEF Matches, Views, CallStates
<1>7. first \in Events /\ first.type = "policy" /\ first.policy = t.allowed[r]
  BY MessagesTyped
<1>8. \A q \in D : /\ Updated(d, t, q) \in Events /\ Updated(d, t, q).type = "upserted"
                   /\ Updated(d, t, q).participant = q /\ Updated(d, t, q).snapshot = Snapshot(d, t, q)
  BY <1>1, MessagesTyped
<1>9. \A q \in D : /\ Snapshot(d, t, q) \in Snapshots
                   /\ Snapshot(d, t, q).owner = (q \in d.owner)
                   /\ Snapshot(d, t, q).reconnecting = (q \in d.reconnecting)
                   /\ Snapshot(d, t, q).shared = t.shared[q]
  BY <1>1, SnapshotTyped
<1>10. t.allowed[r] \in SUBSET Media
  BY DEF PolicyStore
<1> HIDE DEF F, n, D, first
<1>11. rest \in Seq(Events) /\ Len(rest) = n /\ \A i \in 1 .. n : rest[i] = Updated(d, t, forced[i])
  <2>1. \A i \in 1 .. n : Updated(d, t, forced[i]) \in Events
    BY <1>1, <1>3, <1>8
  <2> QED
    BY <1>2, <2>1
<1>12. m = <<first>> \o rest
  <2>1. DOMAIN forced = 1 .. n
    BY <1>3
  <2> QED
    BY <2>1 DEF Announcement, first
<1> HIDE DEF m, rest
<1>13. /\ m \in Seq(Events) /\ Len(m) = n + 1 /\ m[1] = first
       /\ \A i \in 1 .. n : m[i + 1] = Updated(d, t, forced[i])
  <2>1. <<first>> \in Seq(Events) /\ Len(<<first>>) = 1 /\ <<first>>[1] = first
    BY <1>7
  <2> DEFINE o == <<first>>
  <2> HIDE DEF o
  <2>2. /\ m \in Seq(Events) /\ Len(m) = Len(o) + Len(rest)
        /\ \A i \in 1 .. Len(o) + Len(rest) : m[i] = IF i <= Len(o) THEN o[i] ELSE rest[i - Len(o)]
    BY <1>11, <1>12, <2>1, ConcatProperties DEF o
  <2>3. Len(o) = 1 /\ o[1] = first
    BY <2>1 DEF o
  <2>4. ASSUME NEW i \in 1 .. n PROVE m[i + 1] = Updated(d, t, forced[i])
    <3>1. i + 1 \in 1 .. Len(o) + Len(rest) /\ ~(i + 1 <= Len(o)) /\ i + 1 - Len(o) = i
      BY <1>2, <1>11, <2>3
    <3> QED
      BY <1>11, <2>2, <3>1
  <2> QED
    BY <1>2, <1>11, <2>2, <2>3, <2>4
<1>14. ASSUME NEW i \in 0 .. n
       PROVE  /\ View(i) \in Views /\ View(i).self = p /\ View(i).policy = t.allowed[r]
              /\ DOMAIN View(i).people = D
              /\ \A q \in D : View(i).people[q] =
                    IF q \in Told(i) THEN Snapshot(d, t, q) ELSE v.people[q]
  <2> DEFINE g == f(i)
  <2>1. DOMAIN g = D /\ g = [q \in D |-> g[q]]
        /\ \A q \in D : g[q] = IF q \in Told(i) THEN Snapshot(d, t, q) ELSE v.people[q]
    OBVIOUS
  <2>2. \A q \in D : v.people[q] \in Snapshots
    BY <1>6, PeopleKnown
  <2>3. View(i) = [self |-> p, people |-> g, policy |-> t.allowed[r]]
    OBVIOUS
  <2> HIDE DEF g, View, Told
  <2>4. g \in Peoples
    BY <1>1, <1>9, <2>1, <2>2, PeopleTyped
  <2> QED
    BY <1>1, <1>10, <2>1, <2>3, <2>4 DEF Views, CallStates, Listed
<1>15. /\ us \in [0 .. n + 1 -> Views] /\ us[0] = v
       /\ \A i \in 0 .. n : us[i + 1] = View(i)
  <2>1. \A i \in 0 .. n : View(i) \in Views
    BY <1>14
  <2> HIDE DEF View
  <2>2. \A k \in 0 .. n + 1 : k # 0 => k - 1 \in 0 .. n
    BY <1>2
  <2>3. \A i \in 0 .. n : i + 1 \in 0 .. n + 1 /\ i + 1 # 0 /\ i + 1 - 1 = i
    BY <1>2
  <2>4. 0 \in 0 .. n + 1
    BY <1>2
  <2> QED
    BY <2>1, <2>2, <2>3, <2>4
<1> HIDE DEF us, View
<1>16. Told(0) = {}
  OBVIOUS
<1>17. ASSUME NEW i \in 1 .. n PROVE Told(i) = Told(i - 1) \cup {forced[i]} /\ forced[i] \in D
  BY <1>1, <1>2, <1>3
<1>18. Told(n) = F
  BY <1>3 DEF Range
<1> HIDE DEF Told
<1>19. Same(Reduce(us[0], m[1]), us[1])
  <2> DEFINE w == Reduce(v, first)
  <2>1. w.self = v.self /\ w.people = v.people /\ w.policy = t.allowed[r]
    BY <1>7, ReduceEffect
  <2> HIDE DEF w
  <2>2. us[1] = View(0) /\ 0 \in 0 .. n
    BY <1>2, <1>15
  <2>3. /\ View(0).self = p /\ View(0).policy = t.allowed[r] /\ DOMAIN View(0).people = D
        /\ \A q \in D : View(0).people[q] = v.people[q]
    BY <1>14, <1>16, <2>2
  <2>4. Same(w, View(0))
    BY <1>6, <2>1, <2>3 DEF Same, Near
  <2> QED
    BY <1>13, <1>15, <2>2, <2>4 DEF w
<1>20. ASSUME NEW i \in 1 .. n PROVE Same(Reduce(us[i], m[i + 1]), us[i + 1])
  <2> DEFINE x == forced[i]
             w == Reduce(View(i - 1), Updated(d, t, x))
  <2>1. x \in D /\ i \in 0 .. n /\ i - 1 \in 0 .. n /\ i - 1 + 1 = i
    BY <1>2, <1>17
  <2>2. us[i] = View(i - 1) /\ us[i + 1] = View(i) /\ m[i + 1] = Updated(d, t, x)
    BY <1>13, <1>15, <2>1
  <2>3. View(i - 1) \in Views /\ View(i - 1).self = p /\ View(i - 1).policy = t.allowed[r]
        /\ DOMAIN View(i - 1).people = D
        /\ \A q \in D : View(i - 1).people[q] =
              IF q \in Told(i - 1) THEN Snapshot(d, t, q) ELSE v.people[q]
    BY <1>14, <2>1
  <2>4. View(i).self = p /\ View(i).policy = t.allowed[r]
        /\ DOMAIN View(i).people = D
        /\ \A q \in D : View(i).people[q] =
              IF q \in Told(i) THEN Snapshot(d, t, q) ELSE v.people[q]
    BY <1>14, <2>1
  <2>5. /\ w.self = p /\ w.policy = t.allowed[r] /\ DOMAIN w.people = D \cup {x}
        /\ \A q \in DOMAIN w.people : w.people[q] = IF q = x THEN Snapshot(d, t, x) ELSE View(i - 1).people[q]
    BY <1>8, <2>1, <2>3, ReduceEffect
  <2>6. Told(i) = Told(i - 1) \cup {x}
    BY <1>17
  <2> HIDE DEF w, x
  <2>7. \A q \in D : w.people[q] = View(i).people[q]
    BY <2>1, <2>3, <2>4, <2>5, <2>6
  <2>8. Same(w, View(i))
    BY <2>1, <2>4, <2>5, <2>7 DEF Same, Near
  <2> QED
    BY <2>2, <2>8 DEF w
<1>21. ASSUME NEW j \in 1 .. Len(m) PROVE Same(Reduce(us[j - 1], m[j]), us[j])
  <2>1. CASE j = 1
    BY <1>19, <2>1
  <2>2. CASE j # 1
    <3>1. j - 1 \in 1 .. n /\ j - 1 + 1 = j
      BY <1>2, <1>13, <2>2
    <3> QED
      BY <1>20, <3>1
  <2> QED
    BY <2>1, <2>2
<1>22. us[Len(m)] = View(n) /\ n \in 0 .. n
  BY <1>2, <1>13, <1>15
<1>23. /\ View(n).self = p /\ View(n).policy = t.allowed[r] /\ DOMAIN View(n).people = D
       /\ \A q \in D : View(n).people[q] = IF q \in F THEN Snapshot(d, t, q) ELSE v.people[q]
  BY <1>14, <1>18, <1>22
<1>24. ASSUME NEW q \in D
       PROVE  q # p \/ OwnShown(v, d, s, p) => Shows(View(n).people[q], d, t, q)
  <2>1. CASE q \in F
    BY <1>9, <1>23, <2>1 DEF Shows
  <2>2. CASE q \notin F
    <3>1. View(n).people[q] = v.people[q] /\ t.shared[q] = s.shared[q]
      BY <1>1, <1>5, <1>23, <2>2
    <3>2. q # p \/ OwnShown(v, d, s, p) => Shows(v.people[q], d, s, q)
      BY <1>6 DEF OwnShown
    <3> QED
      BY <3>1, <3>2 DEF Shows
  <2> QED
    BY <2>1, <2>2
<1>25. Matches(View(n), d, t, p) /\ (OwnShown(v, d, s, p) => OwnShown(View(n), d, t, p))
  BY <1>1, <1>23, <1>24 DEF Matches, OwnShown, D
<1>26. us \in [0 .. Len(m) -> Views]
  BY <1>13, <1>15
<1>27. GoesThrough(us, v, m)
  BY <1>15, <1>21, <1>26 DEF GoesThrough
<1> QED
  BY <1>13, <1>22, <1>25, <1>27 DEF m

(* Once q has arrived, v will be the room of p; its own tile, too, unless  *)
(* something is still asked for.                                           *)
Catches(v, q, d, s, p, ask) ==
    \E vs, k :
        /\ Follows(vs, v, q, k) /\ Matches(vs[Len(q)], d, s, p)
        /\ ask = <<>> => k <= Len(q) /\ OwnShown(vs[Len(q)], d, s, p)

LEMMA CatchesMore ==
    ASSUME NEW q \in Seq(Events), NEW m \in Seq(Events), NEW vs, NEW v, NEW k, Follows(vs, v, q, k),
           NEW us, GoesThrough(us, vs[Len(q)], m),
           NEW e, NEW t, NEW p, NEW ask, Matches(us[Len(m)], e, t, p),
           ask = <<>> => /\ OwnShown(us[Len(m)], e, t, p)
                         /\ k <= Len(q) \/ (Len(m) = 1 /\ Settles(m[1], us[0].self))
    PROVE  Catches(v, q \o m, e, t, p, ask)
<1> DEFINE h == IF k <= Len(q) THEN k ELSE IF ask = <<>> THEN Len(q) + 1 ELSE Len(q) + Len(m) + 1
<1>1. Len(q) \in Nat /\ Len(m) \in Nat /\ k \in Nat /\ Len(q \o m) = Len(q) + Len(m)
  BY LenProperties, ConcatProperties DEF Follows
<1>2. h \in Nat /\ (ask = <<>> => h <= Len(q) + Len(m))
  BY <1>1
<1>3. StaysSettled(h, k, q, m, us)
  <2>1. CASE k <= Len(q)
    BY <2>1 DEF StaysSettled
  <2>2. CASE ~(k <= Len(q)) /\ ask = <<>>
    <3>1. h = Len(q) + 1 /\ h - Len(q) = 1 /\ h - Len(q) - 1 = 0 /\ Len(q) < k /\ Len(q) < h
      BY <1>1, <2>2
    <3>2. Settles(m[1], us[0].self)
      BY <2>2
    <3> HIDE DEF h
    <3> QED
      BY <3>1, <3>2 DEF StaysSettled
  <2>3. CASE ~(k <= Len(q)) /\ ask # <<>>
    <3>1. h = Len(q) + Len(m) + 1 /\ h - Len(q) \notin 1 .. Len(m) /\ Len(q) < k /\ Len(q) < h
      BY <1>1, <2>3
    <3> QED
      BY <3>1 DEF StaysSettled
  <2> QED
    BY <2>1, <2>2, <2>3
<1> HIDE DEF h
<1>4. PICK ws : Follows(ws, v, q \o m, h) /\ ws[Len(q \o m)] = us[Len(m)]
  BY <1>2, <1>3, MoreSent
<1> DEFINE r == q \o m
<1>5. Follows(ws, v, r, h) /\ Matches(ws[Len(r)], e, t, p)
  BY <1>4
<1>6. ask = <<>> => h <= Len(r) /\ OwnShown(ws[Len(r)], e, t, p)
  BY <1>1, <1>2, <1>4
<1> HIDE DEF r
<1>7. Catches(v, r, e, t, p, ask)
  BY <1>5, <1>6 DEF Catches
<1> QED
  BY <1>7 DEF r

LEMMA CatchesOne ==
    ASSUME NEW q \in Seq(Events), NEW x \in Events, NEW vs, NEW v, NEW k, Follows(vs, v, q, k),
           NEW e, NEW t, NEW p \in Participant, NEW ask, Matches(Reduce(vs[Len(q)], x), e, t, p),
           ask = <<>> => /\ OwnShown(Reduce(vs[Len(q)], x), e, t, p)
                         /\ k <= Len(q) \/ Settles(x, vs[Len(q)].self)
    PROVE  Catches(v, q \o <<x>>, e, t, p, ask)
<1> DEFINE f == vs[Len(q)]
           g == Reduce(f, x)
           us == [i \in 0 .. 1 |-> IF i = 0 THEN f ELSE g]
           m == <<x>>
<1>1. m \in Seq(Events) /\ Len(m) = 1 /\ m[1] = x
  OBVIOUS
<1>2. f \in Views /\ g \in Views
  <2>1. Len(q) \in 0 .. Len(q)
    BY LenProperties
  <2>2. f \in Views
    BY <2>1 DEF Follows
  <2>3. Listed(g)
    BY DEF Matches, Members, Listed
  <2> QED
    BY <2>2, <2>3, ReduceEffect
<1>3. /\ Matches(g, e, t, p)
      /\ ask = <<>> => OwnShown(g, e, t, p) /\ (k <= Len(q) \/ Settles(x, f.self))
  OBVIOUS
<1> HIDE DEF m, g
<1>4. us \in [0 .. 1 -> Views] /\ us[0] = f /\ us[1] = g
  BY <1>2
<1> HIDE DEF us
<1>5. us \in [0 .. Len(m) -> Views] /\ us[Len(m)] = g /\ us[0] = vs[Len(q)]
  BY <1>1, <1>4
<1>6. \A j \in 1 .. Len(m) : Same(Reduce(us[j - 1], m[j]), us[j])
  <2>1. Same(Reduce(us[0], m[1]), us[1])
    BY <1>1, <1>4, AlikeItself DEF g
  <2>2. \A j \in 1 .. Len(m) : j = 1 /\ j - 1 = 0
    BY <1>1
  <2> QED
    BY <2>1, <2>2
<1>10. GoesThrough(us, vs[Len(q)], m)
  BY <1>5, <1>6 DEF GoesThrough
<1>7. Matches(us[Len(m)], e, t, p)
  BY <1>3, <1>5
<1>8. ask = <<>> => /\ OwnShown(us[Len(m)], e, t, p)
                    /\ k <= Len(q) \/ (Len(m) = 1 /\ Settles(m[1], us[0].self))
  BY <1>1, <1>3, <1>4, <1>5
<1>9. Catches(v, q \o m, e, t, p, ask)
  BY <1>1, <1>7, <1>8, <1>10, CatchesMore
<1> QED
  BY <1>9 DEF m

LEMMA CatchesElsewhere ==
    ASSUME NEW v, NEW q, NEW d, NEW s, NEW p \in Participant, NEW ask, Catches(v, q, d, s, p, ask),
           NEW e, NEW t, NEW x, Keeps(d, s, e, t, d.member[p], x),
           p # x, d.member[x] # d.member[p], e.member[x] # d.member[p]
    PROVE  Catches(v, q, e, t, p, ask)
<1>1. PICK vs, k : /\ Follows(vs, v, q, k) /\ Matches(vs[Len(q)], d, s, p)
                   /\ ask = <<>> => k <= Len(q) /\ OwnShown(vs[Len(q)], d, s, p)
  BY DEF Catches
<1>2. /\ Matches(vs[Len(q)], e, t, p)
      /\ OwnShown(vs[Len(q)], d, s, p) => OwnShown(vs[Len(q)], e, t, p)
  BY <1>1, MatchesElsewhere
<1> QED
  BY <1>1, <1>2 DEF Catches

LEMMA LastView ==
    ASSUME NEW vs, NEW v, NEW q \in Seq(Events), NEW k, Follows(vs, v, q, k)
    PROVE  vs[Len(q)] \in Views
<1>1. Len(q) \in 0 .. Len(q)
  BY LenProperties
<1> QED
  BY <1>1 DEF Follows

LEMMA CatchesUpserted ==
    ASSUME NEW v, NEW q \in Seq(Events), NEW d, NEW s, NEW p \in Participant, NEW ask,
           Catches(v, q, d, s, p, ask), d.member[p] \in Room,
           NEW e \in RoomDirectory, NEW t \in PolicyStore, NEW x \in Participant,
           Keeps(d, s, e, t, d.member[p], x), e.member[x] = d.member[p],
           NEW now, now = ask \/ x = p
    PROVE  Catches(v, q \o <<Updated(e, t, x)>>, e, t, p, now)
<1>1. PICK vs, k : /\ Follows(vs, v, q, k) /\ Matches(vs[Len(q)], d, s, p)
                   /\ ask = <<>> => k <= Len(q) /\ OwnShown(vs[Len(q)], d, s, p)
  BY DEF Catches
<1> DEFINE f == vs[Len(q)]
           m == Updated(e, t, x)
<1>2. f \in Views
  BY <1>1, LastView
<1>3. m \in Events /\ m.type = "upserted" /\ m.participant = x
  BY MessagesTyped DEF Keeps
<1>4. f.self = p
  BY <1>1 DEF Matches
<1>5. /\ Matches(Reduce(f, m), e, t, p)
      /\ OwnShown(f, d, s, p) \/ x = p => OwnShown(Reduce(f, m), e, t, p)
  BY <1>1, <1>2, MatchesUpserted
<1> HIDE DEF m
<1>6. now = <<>> => OwnShown(Reduce(f, m), e, t, p) /\ (k <= Len(q) \/ Settles(m, f.self))
  BY <1>1, <1>3, <1>4, <1>5 DEF Settles
<1>7. Catches(v, q \o <<m>>, e, t, p, now)
  BY <1>1, <1>3, <1>5, <1>6, CatchesOne
<1> QED
  BY <1>7 DEF m

(* Who is left is told who is gone, and may have been told something of it *)
(* before.                                                                 *)
LEMMA CatchesLeft ==
    ASSUME NEW v, NEW q \in Seq(Events), NEW d, NEW s, NEW p \in Participant, NEW ask,
           Catches(v, q, d, s, p, ask), NEW r \in Room, d.member[p] = r,
           NEW e \in RoomDirectory, NEW t \in PolicyStore, e.member[p] = r, t.allowed[r] = s.allowed[r]
    PROVE  /\ Catches(v, q \o <<Left(e, t, r)>>, e, t, p, ask)
           /\ \A u \in Events :
                 u.type = "upserted" => Catches(v, q \o <<u, Left(e, t, r)>>, e, t, p, ask)
<1>1. PICK vs, k : /\ Follows(vs, v, q, k) /\ Matches(vs[Len(q)], d, s, p)
                   /\ ask = <<>> => k <= Len(q) /\ OwnShown(vs[Len(q)], d, s, p)
  BY DEF Catches
<1> DEFINE f == vs[Len(q)]
           l == Left(e, t, r)
<1>2. f \in Views
  BY <1>1, LastView
<1>3. l \in Events
  BY MessagesTyped
<1>4. f.self = p /\ f.policy = t.allowed[r]
  BY <1>1 DEF Matches
<1>5. ASSUME NEW g \in Views, g.self = p, g.policy = t.allowed[r]
      PROVE  Matches(Reduce(g, l), e, t, p) /\ OwnShown(Reduce(g, l), e, t, p)
  BY <1>5, MatchesWhole
<1> HIDE DEF l
<1>6. Catches(v, q \o <<l>>, e, t, p, ask)
  <2>1. Matches(Reduce(f, l), e, t, p) /\ OwnShown(Reduce(f, l), e, t, p)
    BY <1>2, <1>4, <1>5
  <2> QED
    BY <1>1, <1>3, <2>1, CatchesOne
<1>7. ASSUME NEW u \in Events, u.type = "upserted"
      PROVE  Catches(v, q \o <<u, l>>, e, t, p, ask)
  <2> DEFINE g == Reduce(f, u)
             h == Reduce(g, l)
             m == <<u, l>>
             us == [i \in 0 .. 2 |-> IF i = 0 THEN f ELSE IF i = 1 THEN g ELSE h]
  <2>1. g \in Views /\ g.self = p /\ g.policy = t.allowed[r]
    BY <1>2, <1>4, <1>7, ReduceEffect
  <2>3. Matches(h, e, t, p) /\ OwnShown(h, e, t, p)
    BY <1>5, <2>1
  <2>12. Listed(h)
    BY <2>3 DEF Matches, Members, Listed
  <2>2. h \in Views
    BY <1>3, <2>1, <2>12, ReduceEffect
  <2>4. m \in Seq(Events) /\ Len(m) = 2 /\ m[1] = u /\ m[2] = l
    BY <1>3
  <2>5. Same(Reduce(f, u), g) /\ Same(Reduce(g, l), h)
    BY AlikeItself
  <2> HIDE DEF g, h, m
  <2>6. us \in [0 .. 2 -> Views] /\ us[0] = f /\ us[1] = g /\ us[2] = h
    BY <1>2, <2>1, <2>2
  <2> HIDE DEF us
  <2>7. us \in [0 .. Len(m) -> Views] /\ us[0] = vs[Len(q)] /\ us[Len(m)] = h
    BY <2>4, <2>6
  <2>8. \A j \in 1 .. Len(m) : Same(Reduce(us[j - 1], m[j]), us[j])
    <3>1. Same(Reduce(us[0], m[1]), us[1]) /\ Same(Reduce(us[1], m[2]), us[2])
      BY <2>4, <2>5, <2>6
    <3>2. \A j \in 1 .. Len(m) : (j = 1 /\ j - 1 = 0) \/ (j = 2 /\ j - 1 = 1)
      BY <2>4
    <3> QED
      BY <3>1, <3>2
  <2>9. Matches(us[Len(m)], e, t, p) /\ (ask = <<>> => OwnShown(us[Len(m)], e, t, p) /\ k <= Len(q))
    BY <1>1, <2>3, <2>7
  <2>11. GoesThrough(us, vs[Len(q)], m)
    BY <2>7, <2>8 DEF GoesThrough
  <2>10. Catches(v, q \o m, e, t, p, ask)
    BY <1>1, <2>4, <2>9, <2>11, CatchesMore
  <2> QED
    BY <2>10 DEF m
<1> QED
  BY <1>6, <1>7 DEF l

(* A browser that is answered has nothing else under way. *)
LEMMA CatchesWelcome ==
    ASSUME NEW v \in Views, NEW e \in RoomDirectory, NEW t \in PolicyStore, NEW p \in Participant,
           NEW r \in Room, e.member[p] = r, NEW ask
    PROVE  Catches(v, <<Welcome(e, t, r, p)>>, e, t, p, ask)
<1> DEFINE vs == [i \in 0 .. 0 |-> v]
           m == Welcome(e, t, r, p)
           q == <<>>
<1>1. m \in Events
  BY MessagesTyped
<1>2. Matches(Reduce(v, m), e, t, p) /\ OwnShown(Reduce(v, m), e, t, p)
  BY MatchesWhole
<1>3. q \in Seq(Events) /\ Len(q) = 0 /\ q \o <<m>> = <<m>>
  <2>1. <<m>> \in Seq(Events)
    BY <1>1
  <2> QED
    BY <2>1, ConcatEmptySeq
<1> HIDE DEF m, q
<1>4. vs \in [0 .. 0 -> Views] /\ vs[0] = v
  OBVIOUS
<1> HIDE DEF vs
<1>5. Follows(vs, v, q, 0)
  BY <1>3, <1>4, AlikeItself DEF Follows
<1>6. vs[Len(q)] = v
  BY <1>3, <1>4
<1>7. Catches(v, q \o <<m>>, e, t, p, ask)
  <2>1. /\ Matches(Reduce(vs[Len(q)], m), e, t, p) /\ OwnShown(Reduce(vs[Len(q)], m), e, t, p)
        /\ 0 <= Len(q)
    BY <1>2, <1>3, <1>6
  <2> QED
    BY <1>1, <1>3, <1>5, <2>1, CatchesOne
<1> QED
  BY <1>3, <1>7 DEF m

LEMMA CatchesPolicy ==
    ASSUME NEW v, NEW q \in Seq(Events), NEW d \in RoomDirectory, NEW s \in PolicyStore,
           NEW p \in Participant, NEW ask, Catches(v, q, d, s, p, ask),
           NEW r \in Room, d.member[p] = r, NEW policy \in SUBSET Media, NEW t \in PolicyStore,
           t = UpdatePolicyAndEnforce(d, s, r, policy),
           NEW forced \in JoiningOrders(Forced(d, s, r, policy))
    PROVE  /\ Announcement(d, t, r, forced) \in Seq(Events)
           /\ Catches(v, q \o Announcement(d, t, r, forced), d, t, p, ask)
<1>1. PICK vs, k : /\ Follows(vs, v, q, k) /\ Matches(vs[Len(q)], d, s, p)
                   /\ ask = <<>> => k <= Len(q) /\ OwnShown(vs[Len(q)], d, s, p)
  BY DEF Catches
<1> DEFINE f == vs[Len(q)]
           m == Announcement(d, t, r, forced)
<1>2. f \in Views
  BY <1>1, LastView
<1>3. /\ m \in Seq(Events)
      /\ \E us :
            /\ GoesThrough(us, f, m)
            /\ Matches(us[Len(m)], d, t, p)
            /\ OwnShown(f, d, s, p) => OwnShown(us[Len(m)], d, t, p)
  BY <1>1, <1>2, MatchesPolicy
<1> HIDE DEF m
<1>4. PICK us :
            /\ GoesThrough(us, f, m)
            /\ Matches(us[Len(m)], d, t, p)
            /\ OwnShown(f, d, s, p) => OwnShown(us[Len(m)], d, t, p)
  BY <1>3
<1>5. ask = <<>> => OwnShown(us[Len(m)], d, t, p) /\ k <= Len(q)
  BY <1>1, <1>4
<1>6. Catches(v, q \o m, d, t, p, ask)
  BY <1>1, <1>3, <1>4, <1>5, CatchesMore
<1> QED
  BY <1>3, <1>6 DEF m

(***************************************************************************)
(* What the operations spare of a room.                                    *)
(***************************************************************************)
LEMMA JoinKeeps ==
    ASSUME NEW d \in RoomDirectory, NEW s \in PolicyStore, NEW r \in Room, NEW p \in Participant
    PROVE  \A x \in Room : /\ d.member[p] = NoRoom => Keeps(d, s, JoinRoom(d, r, p), s, x, p)
                           /\ Keeps(d, s, ReconnectToRoom(d, p), s, x, p)
                           /\ Keeps(d, s, MarkReconnecting(d, d.member[p], p), s, x, p)
<1> SUFFICES ASSUME NEW x \in Room
             PROVE  /\ d.member[p] = NoRoom => Keeps(d, s, JoinRoom(d, r, p), s, x, p)
                    /\ Keeps(d, s, ReconnectToRoom(d, p), s, x, p)
                    /\ Keeps(d, s, MarkReconnecting(d, d.member[p], p), s, x, p)
  OBVIOUS
<1>1. d.member \in [Participant -> Room \cup {NoRoom}]
  BY DEF RoomDirectory
<1>2. ASSUME NEW e, NEW m, e.member = [d.member EXCEPT ![p] = m],
             \A q \in Participant : q # p => /\ q \in e.owner <=> q \in d.owner
                                             /\ q \in e.reconnecting <=> q \in d.reconnecting
      PROVE  Keeps(d, s, e, s, x, p)
  BY <1>1, <1>2 DEF Keeps, Members
<1>3. Keeps(d, s, JoinRoom(d, r, p), s, x, p)
  <2> DEFINE e == JoinRoom(d, r, p)
  <2>1. e.member = [d.member EXCEPT ![p] = r] /\ e.reconnecting = d.reconnecting \ {p}
        /\ e.owner \ {p} = d.owner \ {p}
    BY DEF JoinRoom
  <2> HIDE DEF e
  <2>2. \A q \in Participant : q # p => /\ q \in e.owner <=> q \in d.owner
                                        /\ q \in e.reconnecting <=> q \in d.reconnecting
    BY <2>1
  <2>3. Keeps(d, s, e, s, x, p)
    BY <1>2, <2>1, <2>2
  <2> QED
    BY <2>3 DEF e
<1>4. Keeps(d, s, ReconnectToRoom(d, p), s, x, p)
  <2> DEFINE e == ReconnectToRoom(d, p)
  <2>1. e.member = d.member /\ e.reconnecting = d.reconnecting \ {p} /\ e.owner = d.owner
    BY DEF ReconnectToRoom, RoomDirectory
  <2>2. d.member = [d.member EXCEPT ![p] = d.member[p]]
    BY <1>1
  <2> HIDE DEF e
  <2>3. Keeps(d, s, e, s, x, p)
    BY <1>2, <2>1, <2>2
  <2> QED
    BY <2>3 DEF e
<1>5. Keeps(d, s, MarkReconnecting(d, d.member[p], p), s, x, p)
  <2> DEFINE e == MarkReconnecting(d, d.member[p], p)
  <2>1. e.member = d.member /\ e.reconnecting = d.reconnecting \cup {p} /\ e.owner = d.owner
    BY MarkSparesRoom
  <2>2. d.member = [d.member EXCEPT ![p] = d.member[p]]
    BY <1>1
  <2> HIDE DEF e
  <2>3. Keeps(d, s, e, s, x, p)
    BY <1>2, <2>1, <2>2
  <2> QED
    BY <2>3 DEF e
<1> QED
  BY <1>3, <1>4, <1>5

(* Rooms with members exist, and who is reconnecting is in one. *)
RoomsOpen(d) ==
    /\ \A p \in Participant : d.member[p] \in Room => d.member[p] \in d.open
    /\ \A p \in d.reconnecting : d.member[p] \in Room

LEMMA LeaveKeeps ==
    ASSUME NEW d \in RoomDirectory, NEW s \in PolicyStore, RoomsOpen(d),
           NEW p \in Participant, d.member[p] \in Room
    PROVE  LET e == LeaveRoom(d, d.member[p], p)
               t == ForgetTheGone(e, s)
           IN  /\ RoomsOpen(e) /\ e.member[p] = NoRoom
               /\ \A q \in Participant : q # p => e.member[q] = d.member[q]
               /\ \A q \in Participant : q # p /\ d.member[q] \in Room =>
                     t.allowed[d.member[q]] = s.allowed[d.member[q]]
               /\ \A q \in Participant : d.member[q] \in Room /\ d.member[q] # d.member[p] =>
                     Keeps(d, s, e, t, d.member[q], p)
<1> DEFINE r == d.member[p]
           others == Members(d, r) \ {p}
           e == LeaveRoom(d, r, p)
           t == ForgetTheGone(e, s)
<1>1. d.member \in [Participant -> Room \cup {NoRoom}] /\ d.open \subseteq Room
      /\ d.reconnecting \subseteq Participant
  BY DEF RoomDirectory
<1>2. /\ e.open = IF others = {} THEN d.open \ {r} ELSE d.open
      /\ e.member = [d.member EXCEPT ![p] = NoRoom]
      /\ e.owner = ReassignOwner(d.owner \ {p}, others)
      /\ e.reconnecting = d.reconnecting \ {p}
  BY DEF LeaveRoom
<1>3. /\ t.allowed = [x \in Room |-> IF x \in e.open THEN s.allowed[x] ELSE Media]
      /\ t.shared = [q \in Participant |-> IF e.member[q] = NoRoom THEN {} ELSE s.shared[q]]
  BY DEF ForgetTheGone
<1>4. \A q : q \in others <=> q \in Participant /\ q # p /\ d.member[q] = r
  BY DEF Members
<1>5. d.owner \ {p} \subseteq e.owner /\ e.owner \subseteq (d.owner \ {p}) \cup others
  BY <1>2, OldestInside DEF ReassignOwner
<1> HIDE DEF e, t, others
<1>6. e.member[p] = NoRoom /\ \A q \in Participant : q # p => e.member[q] = d.member[q]
  BY <1>1, <1>2
<1>7. \A q \in Participant : q # p /\ d.member[q] \in Room => d.member[q] \in e.open
  BY <1>2, <1>4 DEF RoomsOpen
<1>8. RoomsOpen(e)
  BY <1>1, <1>2, <1>6, <1>7, RoomAssumption DEF RoomsOpen
<1>9. \A q \in Participant : q # p /\ d.member[q] \in Room =>
         t.allowed[d.member[q]] = s.allowed[d.member[q]]
  BY <1>3, <1>7
<1>10. ASSUME NEW q \in Participant, d.member[q] \in Room, d.member[q] # r
       PROVE  Keeps(d, s, e, t, d.member[q], p)
  <2>1. t.allowed[d.member[q]] = s.allowed[d.member[q]]
    BY <1>9, <1>10
  <2>2. \A x \in Members(d, d.member[q]) : x # p =>
           /\ x \in Participant /\ x \notin others /\ e.member[x] # NoRoom
    BY <1>4, <1>6, <1>10, RoomAssumption DEF Members
  <2>3. ASSUME NEW x \in Members(d, d.member[q]), x # p
        PROVE  /\ (x \in e.owner) = (x \in d.owner)
               /\ (x \in e.reconnecting) = (x \in d.reconnecting)
               /\ t.shared[x] = s.shared[x]
    <3>1. x \in Participant /\ x \notin others /\ e.member[x] # NoRoom
      BY <2>2, <2>3
    <3>2. x \in e.owner <=> x \in d.owner
      BY <1>5, <2>3, <3>1
    <3>3. x \in e.reconnecting <=> x \in d.reconnecting
      BY <1>2, <2>3
    <3>4. t.shared[x] = s.shared[x]
      BY <1>3, <3>1
    <3> QED
      BY <3>2, <3>3, <3>4
  <2> QED
    BY <1>6, <2>1, <2>3 DEF Keeps
<1> QED
  BY <1>6, <1>8, <1>9, <1>10 DEF e, t

LEMMA MediaKeeps ==
    ASSUME NEW d \in RoomDirectory, NEW s \in PolicyStore, NEW p \in Participant, NEW wanted
    PROVE  \A x \in Room : Keeps(d, s, d, UpdateMediaState(d, s, p, wanted), x, p)
<1>1. s.shared \in [Participant -> SUBSET Media]
  BY DEF PolicyStore
<1>2. /\ UpdateMediaState(d, s, p, wanted).allowed = s.allowed
      /\ UpdateMediaState(d, s, p, wanted).shared = [s.shared EXCEPT ![p] = Clamp(d, s, p, wanted)]
  BY DEF UpdateMediaState, PolicyStore
<1> QED
  BY <1>1, <1>2 DEF Keeps, Members

LEMMA PolicyKeeps ==
    ASSUME NEW d \in RoomDirectory, NEW s \in PolicyStore, NEW r \in Room, NEW policy \in SUBSET Media
    PROVE  \A x \in Room : x # r => \A p : Keeps(d, s, d, UpdatePolicyAndEnforce(d, s, r, policy), x, p)
<1> DEFINE t == UpdatePolicyAndEnforce(d, s, r, policy)
<1>1. s.allowed \in [Room -> SUBSET Media]
  BY DEF PolicyStore
<1>2. /\ t.allowed = [s.allowed EXCEPT ![r] = policy]
      /\ \A q \in Participant : q \notin Members(d, r) => t.shared[q] = s.shared[q]
  BY DEF UpdatePolicyAndEnforce, Forced
<1> HIDE DEF t
<1>3. ASSUME NEW x \in Room, NEW p, x # r PROVE Keeps(d, s, d, t, x, p)
  <2>1. t.allowed[x] = s.allowed[x]
    BY <1>1, <1>2, <1>3
  <2>2. \A q \in Members(d, x) : t.shared[q] = s.shared[q]
    BY <1>2, <1>3 DEF Members
  <2> QED
    BY <2>1, <2>2 DEF Keeps
<1> QED
  BY <1>3 DEF t
-----------------------------------------------------------------------------
BrowserOf(b) ==
    /\ link[b] # "on" => inbox[b] = <<>>
    /\ link[b] = "on" => Catches(view[b], inbox[b], rooms, store, seat[b], asked[b])

ChannelsTyped ==
    /\ inbox \in [Token -> Seq(Events)] /\ view \in [Token -> Views]
    /\ rendered \in [Token -> Peoples]
    /\ \A b \in Token : Len(inbox[b]) <= MaxInbox /\ Len(asked[b]) <= MaxAsked

ReplicaInv == PolicyInv /\ RoomsOpen(rooms) /\ ChannelsTyped /\ \A b \in Token : BrowserOf(b)

(***************************************************************************)
(* What a browser makes of its own tile.                                   *)
(***************************************************************************)
LEMMA NothingInView == EmptyView \in Views
<1> DEFINE f == [p \in {} |-> [owner |-> FALSE, reconnecting |-> FALSE, shared |-> {}]]
<1>1. <<>> = f
  OBVIOUS
<1>2. {} \in SUBSET Participant
  OBVIOUS
<1>3. f \in Peoples
  <2>1. f = [p \in {} |-> f[p]] /\ \A p \in {} : f[p] \in Snapshots
    OBVIOUS
  <2> HIDE DEF f
  <2> QED
    BY <1>2, <2>1, PeopleTyped
<1> HIDE DEF f
<1> QED
  BY <1>1, <1>3 DEF EmptyView, Views, CallStates, Listed

LEMMA OwnTileTyped == \A v \in Views : OwnTile(v) \in Peoples
<1> SUFFICES ASSUME NEW v \in Views PROVE OwnTile(v) \in Peoples
  OBVIOUS
<1> DEFINE D == DOMAIN v.people \cap {v.self}
           f == OwnTile(v)
<1>1. v.people \in Peoples
  BY DEF Views, CallStates
<1>2. D \in SUBSET Participant /\ \A p \in D : v.people[p] \in Snapshots
  BY <1>1, PeopleKnown
<1>3. f = [p \in D |-> v.people[p]]
  BY DEF OwnTile
<1> HIDE DEF D, f
<1>4. f = [p \in D |-> f[p]] /\ \A p \in D : f[p] \in Snapshots
  BY <1>2, <1>3
<1>5. f \in Peoples
  BY <1>2, <1>4, PeopleTyped
<1> QED
  BY <1>5 DEF f

(* Whatever tile is written back, the others stay as they are. *)
LEMMA WrittenBack ==
    ASSUME NEW v \in Views, NEW tiles \in Peoples
    PROVE  WriteBack(v, tiles) \in Views /\ Near(v, WriteBack(v, tiles))
<1>1. CASE v.self \in DOMAIN tiles
  <2> DEFINE f == v.people
             p == v.self
             g == Upsert(f, p, tiles[p])
             w == WriteBack(v, tiles)
  <2>1. /\ v \in CallStates /\ Listed(v) /\ f \in Peoples
    BY DEF Views, CallStates
  <2>2. p \in Participant /\ tiles[p] \in Snapshots
    BY <1>1, PeopleKnown
  <2>3. p \in DOMAIN f
    BY <2>1, <2>2, NobodyIsNoParticipant DEF Listed
  <2>4. DOMAIN f \in SUBSET Participant /\ \A q \in DOMAIN f : f[q] \in Snapshots
    BY <2>1, PeopleKnown
  <2>5. w = [v EXCEPT !.people = g]
    BY <1>1 DEF WriteBack
  <2> DEFINE s == tiles[p]
  <2>6. g = [q \in DOMAIN f \cup {p} |-> IF q = p THEN s ELSE f[q]]
    BY DEF Upsert
  <2>7. s \in Snapshots
    BY <2>2
  <2> HIDE DEF w, g, f, p, s
  <2>8. /\ DOMAIN g = DOMAIN f /\ g = [q \in DOMAIN f |-> g[q]]
        /\ \A q \in DOMAIN f : g[q] = IF q = p THEN s ELSE f[q]
    BY <2>3, <2>6
  <2>9. g \in Peoples
    BY <2>4, <2>7, <2>8, PeopleTyped
  <2>10. w \in CallStates /\ w.self = v.self /\ w.policy = v.policy /\ w.people = g
    BY <2>1, <2>5, <2>9 DEF CallStates
  <2>11. w \in Views
    BY <2>1, <2>8, <2>10 DEF Views, Listed, f
  <2>12. Near(v, w)
    BY <2>8, <2>10 DEF Near, f, p
  <2> QED
    BY <2>11, <2>12 DEF w
<1>2. CASE v.self \notin DOMAIN tiles
  BY <1>2, AlikeItself DEF WriteBack
<1> QED
  BY <1>1, <1>2

(* A change of what was rendered. *)
LEMMA TilesChanged ==
    ASSUME NEW tiles \in Peoples, NEW f, f = [p \in DOMAIN tiles |-> f[p]],
           \A p \in DOMAIN tiles : f[p] \in Snapshots
    PROVE  f \in Peoples
BY PeopleKnown, PeopleTyped

LEMMA RenderedTyped ==
    ASSUME ChannelsTyped, NEW b \in Token, RenderSoonerOrLater(b), view' \in [Token -> Views]
    PROVE  rendered' \in [Token -> Peoples]
<1> DEFINE tile == OwnTile(view'[b])
<1>1. tile \in Peoples
  BY OwnTileTyped
<1>2. rendered' = rendered \/ rendered' = [rendered EXCEPT ![b] = tile]
  BY DEF RenderSoonerOrLater
<1> HIDE DEF tile
<1> QED
  BY <1>1, <1>2 DEF ChannelsTyped

(* A browser marks itself as reconnecting. *)
LEMMA MarkedMyself ==
    ASSUME ChannelsTyped, NEW b \in Token, MarkMyself(b)
    PROVE  /\ view' \in [Token -> Views] /\ Near(view[b], view'[b])
           /\ \A c \in Token : c # b => view'[c] = view[c]
           /\ rendered' \in [Token -> Peoples]
<1> DEFINE old == rendered[b]
           new == [p \in DOMAIN old |-> [old[p] EXCEPT !.reconnecting = TRUE]]
           w == WriteBack(view[b], new)
<1>1. view \in [Token -> Views] /\ old \in Peoples /\ view[b] \in Views
  BY DEF ChannelsTyped
<1>2. view' = [view EXCEPT ![b] = w] /\ RenderSoonerOrLater(b)
  BY DEF MarkMyself
<1> HIDE DEF old
<1>9. \A p \in DOMAIN old : old[p] \in Snapshots
  BY <1>1, PeopleKnown
<1>3. \A p \in DOMAIN old : [old[p] EXCEPT !.reconnecting = TRUE] \in Snapshots
  BY <1>9 DEF Snapshots
<1>4. new = [p \in DOMAIN old |-> new[p]] /\ \A p \in DOMAIN old : new[p] \in Snapshots
  BY <1>3
<1> HIDE DEF new
<1>5. new \in Peoples
  BY <1>1, <1>4, TilesChanged
<1>6. w \in Views /\ Near(view[b], w)
  BY <1>1, <1>5, WrittenBack
<1> HIDE DEF w
<1>7. /\ view' \in [Token -> Views] /\ view'[b] = w
      /\ \A c \in Token : c # b => view'[c] = view[c]
  BY <1>1, <1>2, <1>6
<1>8. rendered' \in [Token -> Peoples]
  BY <1>2, <1>7, RenderedTyped
<1> QED
  BY <1>6, <1>7, <1>8

(* The page is left. *)
LEMMA ViewReset ==
    ASSUME ChannelsTyped, NEW b \in Token, ResetView(b)
    PROVE  /\ view' \in [Token -> Views] /\ rendered' \in [Token -> Peoples]
           /\ \A c \in Token : c # b => view'[c] = view[c]
<1> DEFINE tile == OwnTile(EmptyView)
<1>1. EmptyView \in Views /\ tile \in Peoples
  BY NothingInView, OwnTileTyped
<1> HIDE DEF tile
<1>2. view' = [view EXCEPT ![b] = EmptyView] /\ rendered' = [rendered EXCEPT ![b] = tile]
  BY DEF ResetView, tile
<1> QED
  BY <1>1, <1>2 DEF ChannelsTyped
-----------------------------------------------------------------------------
LEMMA SendTyped ==
    ASSUME NEW f \in [Token -> Seq(Events)], NEW A, NEW m \in Seq(Events)
    PROVE  /\ Send(f, A, m) \in [Token -> Seq(Events)]
           /\ \A b \in Token : Send(f, A, m)[b] = IF b \in A THEN f[b] \o m ELSE f[b]
BY DEF Send

LEMMA DroppedTyped ==
    ASSUME ChannelsTyped, NEW b \in Token
    PROVE  /\ Dropped(b) \in [Token -> Seq(Events)] /\ Dropped(b)[b] = <<>>
           /\ \A c \in Token : c # b => Dropped(b)[c] = inbox[c]
BY DEF Dropped, ChannelsTyped

(* What PolicyInv says of a connected browser. *)
LEMMA ConnectedSeat ==
    ASSUME PolicyInv, NEW b \in Token, link[b] = "on"
    PROVE  /\ seat[b] \in Participant /\ rooms.member[seat[b]] \in Room
           /\ \A c \in Token : c # b => seat[c] # seat[b]
<1>1. seat[b] \in Participant /\ rooms.member[seat[b]] \in Room
  BY DEF PolicyInv, ConnectedAreMembers
<1> QED
  BY <1>1, NobodyIsNoParticipant DEF PolicyInv, SeatsOfTheirOwn

(* What a departure of p is for a browser that stays. *)
LEMMA DepartureSeen ==
    ASSUME ReplicaInv, NEW c \in Token, link[c] = "on",
           NEW p \in Participant, p # seat[c], NEW r \in Room, rooms.member[p] = r,
           rooms' = LeaveRoom(rooms, r, p), store' = ForgetTheGone(rooms', store),
           rooms' \in RoomDirectory, store' \in PolicyStore,
           NEW u \in Events, u.type = "upserted",
           IF rooms.member[seat[c]] # r THEN inbox'[c] = inbox[c]
           ELSE \/ inbox'[c] = inbox[c] \o <<Left(rooms', store', r)>>
                \/ inbox'[c] = inbox[c] \o <<u, Left(rooms', store', r)>>
    PROVE  Catches(view[c], inbox'[c], rooms', store', seat[c], asked[c])
<1>1. seat[c] \in Participant /\ rooms.member[seat[c]] \in Room
  BY ConnectedSeat DEF ReplicaInv
<1>2. Catches(view[c], inbox[c], rooms, store, seat[c], asked[c]) /\ inbox[c] \in Seq(Events)
  BY DEF ReplicaInv, BrowserOf, ChannelsTyped
<1>3. rooms \in RoomDirectory /\ store \in PolicyStore /\ RoomsOpen(rooms)
  BY DEF ReplicaInv, PolicyInv, StoresTyped
<1>4. /\ rooms'.member[p] = NoRoom /\ rooms'.member[seat[c]] = rooms.member[seat[c]]
      /\ store'.allowed[rooms.member[seat[c]]] = store.allowed[rooms.member[seat[c]]]
      /\ rooms.member[seat[c]] # r => Keeps(rooms, store, rooms', store', rooms.member[seat[c]], p)
  <2> DEFINE x == seat[c]
  <2>1. /\ rooms'.member[p] = NoRoom
        /\ \A q \in Participant : q # p => rooms'.member[q] = rooms.member[q]
        /\ \A q \in Participant : q # p /\ rooms.member[q] \in Room =>
              store'.allowed[rooms.member[q]] = store.allowed[rooms.member[q]]
        /\ \A q \in Participant : rooms.member[q] \in Room /\ rooms.member[q] # rooms.member[p] =>
              Keeps(rooms, store, rooms', store', rooms.member[q], p)
    <3> DEFINE d == rooms
               s == store
               e == LeaveRoom(d, d.member[p], p)
               t == ForgetTheGone(e, s)
    <3>1. rooms' = e /\ store' = t
      OBVIOUS
    <3>2. d \in RoomDirectory /\ s \in PolicyStore /\ RoomsOpen(d) /\ d.member[p] \in Room
      BY <1>3
    <3> HIDE DEF d, s
    <3>3. /\ e.member[p] = NoRoom
          /\ \A q \in Participant : q # p => e.member[q] = d.member[q]
          /\ \A q \in Participant : q # p /\ d.member[q] \in Room =>
                t.allowed[d.member[q]] = s.allowed[d.member[q]]
          /\ \A q \in Participant : d.member[q] \in Room /\ d.member[q] # d.member[p] =>
                Keeps(d, s, e, t, d.member[q], p)
      BY <3>2, LeaveKeeps
    <3> HIDE DEF e, t
    <3> QED
      BY <3>1, <3>3 DEF d, s
  <2>2. x \in Participant /\ x # p /\ rooms.member[x] \in Room /\ rooms.member[p] = r
    BY <1>1
  <2> HIDE DEF x
  <2>3. /\ rooms'.member[p] = NoRoom /\ rooms'.member[x] = rooms.member[x]
        /\ store'.allowed[rooms.member[x]] = store.allowed[rooms.member[x]]
        /\ rooms.member[x] # r => Keeps(rooms, store, rooms', store', rooms.member[x], p)
    BY <2>1, <2>2
  <2> QED
    BY <2>3 DEF x
<1>5. CASE rooms.member[seat[c]] # r
  <2>1. rooms'.member[p] # rooms.member[seat[c]]
    BY <1>1, <1>4, RoomAssumption
  <2> QED
    BY <1>1, <1>2, <1>4, <1>5, <2>1, CatchesElsewhere
<1>6. CASE rooms.member[seat[c]] = r
  <2> DEFINE d == rooms
             s == store
             e == rooms'
             t == store'
             v == view[c]
             q == inbox[c]
             x == seat[c]
             ask == asked[c]
  <2>2. /\ Catches(v, q, d, s, x, ask) /\ q \in Seq(Events) /\ d.member[x] = r
        /\ e \in RoomDirectory /\ t \in PolicyStore /\ e.member[x] = r /\ t.allowed[r] = s.allowed[r]
        /\ x \in Participant
    BY <1>1, <1>2, <1>4, <1>6
  <2> HIDE DEF d, s, e, t, v, q, x, ask
  <2>1. /\ Catches(v, q \o <<Left(e, t, r)>>, e, t, x, ask)
        /\ Catches(v, q \o <<u, Left(e, t, r)>>, e, t, x, ask)
    BY <2>2, CatchesLeft
  <2> QED
    BY <1>6, <2>1 DEF d, s, e, t, v, q, x, ask
<1> QED
  BY <1>5, <1>6

(* What an operation on x in room r is for a browser that stays: its room  *)
(* is told, the others have nothing to do with it.                         *)
LEMMA UpsertSeen ==
    ASSUME ReplicaInv, NEW c \in Token, link[c] = "on",
           NEW x \in Participant, NEW r \in Room, rooms.member[x] \in {NoRoom, r},
           NEW e \in RoomDirectory, NEW t \in PolicyStore, e.member[x] = r,
           \A y \in Room : Keeps(rooms, store, e, t, y, x),
           NEW q, q = IF rooms.member[seat[c]] = r THEN inbox[c] \o <<Updated(e, t, x)>>
                      ELSE inbox[c],
           NEW now, now = asked[c] \/ x = seat[c]
    PROVE  Catches(view[c], q, e, t, seat[c], now)
<1>1. seat[c] \in Participant /\ rooms.member[seat[c]] \in Room
  BY ConnectedSeat DEF ReplicaInv
<1>2. Catches(view[c], inbox[c], rooms, store, seat[c], asked[c]) /\ inbox[c] \in Seq(Events)
  BY DEF ReplicaInv, BrowserOf, ChannelsTyped
<1> DEFINE d == rooms
           s == store
           v == view[c]
           i == inbox[c]
           p == seat[c]
           ask == asked[c]
<1>3. /\ Catches(v, i, d, s, p, ask) /\ i \in Seq(Events) /\ p \in Participant
      /\ d.member[p] \in Room /\ Keeps(d, s, e, t, d.member[p], x)
      /\ d.member[x] \in {NoRoom, r} /\ (now = ask \/ x = p)
      /\ q = IF d.member[p] = r THEN i \o <<Updated(e, t, x)>> ELSE i
  BY <1>1, <1>2
<1> HIDE DEF d, s, v, i, p, ask
<1>4. CASE d.member[p] = r
  <2>1. Catches(v, i \o <<Updated(e, t, x)>>, e, t, p, now)
    BY <1>3, <1>4, CatchesUpserted
  <2> QED
    BY <1>3, <1>4, <2>1 DEF v, p
<1>5. CASE d.member[p] # r
  <2>1. p # x /\ d.member[x] # d.member[p] /\ e.member[x] # d.member[p] /\ now = ask
    BY <1>3, <1>5, RoomAssumption
  <2>2. Catches(v, i, e, t, p, ask)
    BY <1>3, <2>1, CatchesElsewhere
  <2> QED
    BY <1>3, <1>5, <2>1, <2>2 DEF v, p
<1> QED
  BY <1>4, <1>5

LEMMA AdmissionReplicates ==
    ASSUME ReplicaInv, PolicyInv', NEW b \in Token, link[b] # "on",
           NEW r \in Room, NEW p \in Participant, NEW d, Admit(b, d, r, p),
           d.member = [rooms.member EXCEPT ![p] = r], RoomsOpen(d),
           \A x \in Room : Keeps(rooms, store, d, store, x, p),
           rooms.member[p] \in {NoRoom, r}
    PROVE  ReplicaInv'
<1> DEFINE U == <<Updated(d, store, p)>>
           W == <<Welcome(d, store, r, p)>>
           first == Send(inbox, Online(r), U)
<1>1. /\ rooms \in RoomDirectory /\ store \in PolicyStore
      /\ link \in [Token -> {"off", "on", "lost"}]
      /\ seat \in [Token -> Participant \cup {NoParticipant}]
  BY DEF ReplicaInv, PolicyInv, StoresTyped
<1>2. /\ inbox \in [Token -> Seq(Events)] /\ view \in [Token -> Views]
      /\ rendered \in [Token -> Peoples] /\ \A c \in Token : Len(asked[c]) <= MaxAsked
  BY DEF ReplicaInv, ChannelsTyped
<1>3. /\ rooms' = d /\ store' = store /\ asked' = asked /\ view' = view /\ rendered' = rendered
      /\ link' = [link EXCEPT ![b] = "on"] /\ seat' = [seat EXCEPT ![b] = p]
      /\ inbox' = Send(first, {b}, W)
      /\ \A c \in Token : Len(inbox'[c]) <= MaxInbox
  BY DEF Admit, InboxBound
<1>4. d \in RoomDirectory
  BY <1>3 DEF PolicyInv, StoresTyped
<1>5. U \in Seq(Events) /\ W \in Seq(Events)
  BY <1>1, <1>4, MessagesTyped
<1>6. d.member[p] = r
  BY <1>1 DEF RoomDirectory
<1> HIDE DEF U, W
<1>7. first \in [Token -> Seq(Events)]
      /\ \A c \in Token : first[c] = IF c \in Online(r) THEN inbox[c] \o U ELSE inbox[c]
  <2> DEFINE A == Online(r)
             f == inbox
  <2> HIDE DEF A, f
  <2>1. f \in [Token -> Seq(Events)]
    BY <1>2 DEF f
  <2>2. /\ Send(f, A, U) \in [Token -> Seq(Events)]
        /\ \A c \in Token : Send(f, A, U)[c] = IF c \in A THEN f[c] \o U ELSE f[c]
    BY <1>5, <2>1, SendTyped
  <2> QED
    BY <2>2 DEF A, f, first
<1> HIDE DEF first
<1>8. inbox' \in [Token -> Seq(Events)]
      /\ \A c \in Token : inbox'[c] = IF c \in {b} THEN first[c] \o W ELSE first[c]
  BY <1>3, <1>5, <1>7, SendTyped
<1>9. inbox[b] = <<>> /\ inbox'[b] = W
  <2>1. inbox[b] = <<>> /\ b \notin Online(r)
    BY DEF ReplicaInv, BrowserOf, Online
  <2>2. inbox'[b] = <<>> \o W
    BY <1>7, <1>8, <2>1
  <2> QED
    BY <1>5, <2>1, <2>2, ConcatEmptySeq
<1>10. ChannelsTyped'
  BY <1>2, <1>3, <1>8 DEF ChannelsTyped
<1>11. BrowserOf(b)'
  <2>1. view[b] \in Views
    BY <1>2
  <2>2. Catches(view[b], <<Welcome(d, store, r, p)>>, d, store, p, asked[b])
    BY <1>1, <1>4, <1>6, <2>1, CatchesWelcome
  <2>3. Catches(view'[b], inbox'[b], rooms', store', seat'[b], asked'[b])
    BY <1>1, <1>3, <1>9, <2>2 DEF W
  <2>4. link'[b] = "on"
    BY <1>1, <1>3
  <2> QED
    BY <2>3, <2>4 DEF BrowserOf
<1>12. ASSUME NEW c \in Token, c # b PROVE BrowserOf(c)'
  <2>1. link'[c] = link[c] /\ seat'[c] = seat[c]
    BY <1>1, <1>3, <1>12
  <2>2. inbox'[c] = IF c \in Online(r) THEN inbox[c] \o U ELSE inbox[c]
    BY <1>7, <1>8, <1>12
  <2>3. CASE link[c] # "on"
    <3>1. inbox[c] = <<>> /\ c \notin Online(r)
      BY <2>3 DEF ReplicaInv, BrowserOf, Online
    <3> QED
      BY <2>1, <2>2, <2>3, <3>1 DEF BrowserOf
  <2>4. CASE link[c] = "on"
    <3>1. inbox'[c] = IF rooms.member[seat[c]] = r THEN inbox[c] \o <<Updated(d, store, p)>> ELSE inbox[c]
      BY <2>2, <2>4 DEF Online, U
    <3> DEFINE q == inbox'[c]
               s == store
               now == asked[c]
    <3>3. /\ q = IF rooms.member[seat[c]] = r THEN inbox[c] \o <<Updated(d, s, p)>> ELSE inbox[c]
          /\ s \in PolicyStore /\ \A y \in Room : Keeps(rooms, store, d, s, y, p)
          /\ now = asked[c]
      BY <1>1, <3>1
    <3> HIDE DEF q, s, now
    <3>4. Catches(view[c], q, d, s, seat[c], now)
      BY <1>4, <1>6, <2>4, <3>3, UpsertSeen
    <3>2. Catches(view[c], inbox'[c], d, store, seat[c], asked[c])
      BY <3>4 DEF q, s, now
    <3> QED
      BY <1>3, <2>1, <2>4, <3>2 DEF BrowserOf
  <2> QED
    BY <2>3, <2>4
<1>13. RoomsOpen(rooms')
  BY <1>3
<1> QED
  BY <1>10, <1>11, <1>12, <1>13 DEF ReplicaInv, RoomsOpen

LEMMA JoinReplicates ==
    ASSUME ReplicaInv, PolicyInv', NEW b \in Token, (\E r \in Room : Join(b, r)) \/ Rejoin(b)
    PROVE  ReplicaInv'
<1>1. /\ rooms \in RoomDirectory /\ store \in PolicyStore /\ RoomsOpen(rooms)
      /\ rooms.member \in [Participant -> Room \cup {NoRoom}]
      /\ rooms.reconnecting \subseteq Participant
  BY DEF ReplicaInv, PolicyInv, StoresTyped, RoomDirectory
<1>2. ASSUME NEW r \in Room, Join(b, r) PROVE ReplicaInv'
  <2>1. PICK p \in Participant \ born : Admit(b, JoinRoom(rooms, r, p), r, p)
    BY <1>2 DEF Join
  <2> DEFINE d == JoinRoom(rooms, r, p)
  <2>2. rooms.member[p] = NoRoom
    BY DEF ReplicaInv, PolicyInv, SeatsOfTheirOwn
  <2>3. \A x \in Room : Keeps(rooms, store, d, store, x, p)
    BY <1>1, <2>2, JoinKeeps
  <2>4. /\ d.member = [rooms.member EXCEPT ![p] = r] /\ d.open = rooms.open \cup {r}
        /\ d.reconnecting = rooms.reconnecting \ {p}
    BY DEF JoinRoom
  <2>5. Admit(b, d, r, p) /\ link[b] # "on"
    BY <1>2, <2>1 DEF Join
  <2> HIDE DEF d
  <2>6. RoomsOpen(d)
    BY <1>1, <2>4 DEF RoomsOpen
  <2> QED
    BY <2>2, <2>3, <2>4, <2>5, <2>6, AdmissionReplicates
<1>3. ASSUME Rejoin(b) PROVE ReplicaInv'
  <2>1. PICK r \in Room : /\ CanReconnect(rooms, r, seat[b])
                          /\ Admit(b, ReconnectToRoom(rooms, seat[b]), r, seat[b])
    BY <1>3 DEF Rejoin
  <2> DEFINE p == seat[b]
             d == ReconnectToRoom(rooms, p)
  <2>2. p \in Participant /\ rooms.member[p] = r
    BY <2>1 DEF CanReconnect
  <2>3. \A x \in Room : Keeps(rooms, store, d, store, x, p)
    BY <1>1, <2>1, <2>2, JoinKeeps
  <2>4. /\ d.member = rooms.member /\ d.open = rooms.open
        /\ d.reconnecting = rooms.reconnecting \ {p}
    BY <1>1, <2>2 DEF ReconnectToRoom, RoomDirectory
  <2>5. Admit(b, d, r, p) /\ link[b] # "on"
    BY <1>3, <2>1 DEF Rejoin
  <2> HIDE DEF d, p
  <2>6. RoomsOpen(d)
    BY <1>1, <2>4 DEF RoomsOpen
  <2>7. d.member = [rooms.member EXCEPT ![p] = r]
    BY <1>1, <2>2, <2>4
  <2> QED
    BY <2>2, <2>3, <2>5, <2>6, <2>7, AdmissionReplicates
<1> QED
  BY <1>2, <1>3

LEMMA SendInboxTyped ==
    ASSUME ChannelsTyped, NEW A, NEW m \in Seq(Events)
    PROVE  /\ Send(inbox, A, m) \in [Token -> Seq(Events)]
           /\ \A c \in Token : Send(inbox, A, m)[c] = IF c \in A THEN inbox[c] \o m ELSE inbox[c]
<1> DEFINE f == inbox
<1>1. f \in [Token -> Seq(Events)]
  BY DEF ChannelsTyped
<1> HIDE DEF f
<1>2. /\ Send(f, A, m) \in [Token -> Seq(Events)]
      /\ \A c \in Token : Send(f, A, m)[c] = IF c \in A THEN f[c] \o m ELSE f[c]
  BY <1>1, SendTyped
<1> QED
  BY <1>2 DEF f

LEMMA SendDroppedTyped ==
    ASSUME ChannelsTyped, NEW b \in Token, NEW A, b \notin A, NEW m \in Seq(Events)
    PROVE  /\ Send(Dropped(b), A, m) \in [Token -> Seq(Events)]
           /\ Send(Dropped(b), A, m)[b] = <<>>
           /\ \A c \in Token : c # b =>
                 Send(Dropped(b), A, m)[c] = IF c \in A THEN inbox[c] \o m ELSE inbox[c]
<1> DEFINE f == Dropped(b)
<1>1. /\ f \in [Token -> Seq(Events)] /\ f[b] = <<>>
      /\ \A c \in Token : c # b => f[c] = inbox[c]
  BY DroppedTyped
<1> HIDE DEF f
<1>2. /\ Send(f, A, m) \in [Token -> Seq(Events)]
      /\ \A c \in Token : Send(f, A, m)[c] = IF c \in A THEN f[c] \o m ELSE f[c]
  BY <1>1, SendTyped
<1>3. /\ Send(f, A, m) \in [Token -> Seq(Events)] /\ Send(f, A, m)[b] = <<>>
      /\ \A c \in Token : c # b => Send(f, A, m)[c] = IF c \in A THEN inbox[c] \o m ELSE inbox[c]
  BY <1>1, <1>2
<1> QED
  BY <1>3 DEF f

(* What browser c sees of the departure of p: nothing, or who is left,     *)
(* perhaps after one more word of p.                                       *)
SeesDeparture(c, p, u) ==
    LET r == rooms.member[p]
        l == Left(rooms', store', r)
    IN  /\ link'[c] # "on" => inbox'[c] = <<>>
        /\ link'[c] = "on" =>
              /\ link[c] = "on" /\ seat[c] # p /\ view'[c] = view[c] /\ asked'[c] = asked[c]
              /\ IF rooms.member[seat[c]] # r THEN inbox'[c] = inbox[c]
                 ELSE inbox'[c] = inbox[c] \o <<l>> \/ inbox'[c] = inbox[c] \o <<u, l>>

LEMMA DepartureReplicates ==
    ASSUME ReplicaInv, PolicyInv', NEW p \in Participant, rooms.member[p] \in Room,
           rooms' = LeaveRoom(rooms, rooms.member[p], p), store' = ForgetTheGone(rooms', store),
           seat' = seat, ChannelsTyped', NEW u \in Events, u.type = "upserted",
           \A c \in Token : SeesDeparture(c, p, u)
    PROVE  ReplicaInv'
<1>1. rooms' \in RoomDirectory /\ store' \in PolicyStore
  BY DEF PolicyInv, StoresTyped
<1>2. RoomsOpen(rooms')
  <2>1. rooms \in RoomDirectory /\ store \in PolicyStore /\ RoomsOpen(rooms)
    BY DEF ReplicaInv, PolicyInv, StoresTyped
  <2> QED
    BY <2>1, LeaveKeeps
<1>3. ASSUME NEW c \in Token PROVE BrowserOf(c)'
  <2>1. CASE link'[c] # "on"
    BY <2>1 DEF SeesDeparture, BrowserOf
  <2>2. CASE link'[c] = "on"
    <3> DEFINE r == rooms.member[p]
               l == Left(rooms', store', r)
    <3>1. /\ link[c] = "on" /\ p # seat[c] /\ view'[c] = view[c] /\ asked'[c] = asked[c]
          /\ IF rooms.member[seat[c]] # r THEN inbox'[c] = inbox[c]
             ELSE inbox'[c] = inbox[c] \o <<l>> \/ inbox'[c] = inbox[c] \o <<u, l>>
      BY <2>2 DEF SeesDeparture
    <3>2. Catches(view[c], inbox'[c], rooms', store', seat[c], asked[c])
      BY <1>1, <3>1, DepartureSeen
    <3> QED
      BY <2>2, <3>1, <3>2 DEF BrowserOf
  <2> QED
    BY <2>1, <2>2
<1> QED
  BY <1>2, <1>3 DEF ReplicaInv, RoomsOpen

(* What is asked for and shown by others is left alone. *)
LEMMA ChannelsKept ==
    ASSUME ChannelsTyped, NEW b \in Token, inbox' \in [Token -> Seq(Events)], InboxBound,
           view' \in [Token -> Views], rendered' \in [Token -> Peoples],
           \A c \in Token : asked'[c] = asked[c] \/ asked'[c] = <<>>
    PROVE  ChannelsTyped'
<1>1. MaxAsked \in Nat /\ Len(<<>>) = 0 /\ \A c \in Token : Len(asked[c]) <= MaxAsked
  BY ChannelAssumption DEF ChannelsTyped
<1>2. ASSUME NEW c \in Token PROVE Len(asked'[c]) <= MaxAsked
  <2>1. CASE asked'[c] = asked[c]
    BY <1>1, <2>1
  <2>2. CASE asked'[c] = <<>>
    BY <1>1, <2>2
  <2> QED
    BY <2>1, <2>2
<1> QED
  BY <1>2 DEF ChannelsTyped, InboxBound

LEMMA OneAfterAnother == \A x, y \in Events : Append(<<x>>, y) = <<x, y>> /\ <<x, y>> \in Seq(Events)
<1> SUFFICES ASSUME NEW x \in Events, NEW y \in Events
             PROVE  Append(<<x>>, y) = <<x, y>> /\ <<x, y>> \in Seq(Events)
  OBVIOUS
<1> DEFINE f == <<x>>
           g == Append(f, y)
           h == <<x, y>>
<1>1. f \in Seq(Events) /\ Len(f) = 1 /\ f[1] = x
  OBVIOUS
<1>2. h \in Seq(Events) /\ Len(h) = 2 /\ h[1] = x /\ h[2] = y
  OBVIOUS
<1> HIDE DEF f, h
<1>3. g \in Seq(Events) /\ Len(g) = 2 /\ g[1] = x /\ g[2] = y
  <2>1. /\ g \in Seq(Events) /\ Len(g) = Len(f) + 1 /\ g[Len(f) + 1] = y
        /\ \A i \in 1 .. Len(f) : g[i] = f[i]
    BY <1>1
  <2> HIDE DEF g
  <2> QED
    BY <1>1, <2>1
<1> HIDE DEF g
<1>4. \A i \in 1 .. Len(g) : i = 1 \/ i = 2
  BY <1>3
<1>5. g = h
  BY <1>2, <1>3, <1>4, SeqEqual
<1> QED
  BY <1>2, <1>5 DEF f, g, h

LEMMA LeaveReplicates ==
    ASSUME ReplicaInv, PolicyInv', NEW b \in Token, Leave(b)
    PROVE  ReplicaInv'
<1> DEFINE p == seat[b]
           r == rooms.member[p]
           l == Left(rooms', store', r)
           A == Online(r) \ {b}
<1>1. link[b] = "on" /\ p \in Participant /\ r \in Room /\ \A c \in Token : c # b => seat[c] # p
  BY ConnectedSeat DEF Leave, ReplicaInv
<1>2. /\ rooms' = LeaveRoom(rooms, r, p) /\ store' = ForgetTheGone(rooms', store)
      /\ inbox' = Send(Dropped(b), A, Append(<<>>, l)) /\ InboxBound
      /\ link' = [link EXCEPT ![b] = "off"] /\ asked' = [asked EXCEPT ![b] = <<>>]
      /\ ResetView(b) /\ seat' = seat
  BY DEF Leave, RemoveParticipant
<1>3. /\ rooms \in RoomDirectory /\ store \in PolicyStore
      /\ rooms' \in RoomDirectory /\ store' \in PolicyStore
      /\ link \in [Token -> {"off", "on", "lost"}] /\ asked \in [Token -> Seq(SUBSET Media)]
  BY DEF ReplicaInv, PolicyInv, StoresTyped
<1>4. l \in Events
  BY <1>1, <1>3, MessagesTyped
<1>5. ChannelsTyped
  BY DEF ReplicaInv
<1>6. b \notin A /\ \A c \in Token : c \in A <=> c # b /\ link[c] = "on" /\ rooms.member[seat[c]] = r
  BY DEF Online
<1> HIDE DEF l, A
<1> DEFINE m == <<l>>
<1>7. Append(<<>>, l) = m /\ m \in Seq(Events)
  BY <1>4
<1> HIDE DEF m
<1>8. /\ inbox' \in [Token -> Seq(Events)] /\ inbox'[b] = <<>>
      /\ \A c \in Token : c # b => inbox'[c] = IF c \in A THEN inbox[c] \o m ELSE inbox[c]
  <2>1. /\ Send(Dropped(b), A, m) \in [Token -> Seq(Events)]
        /\ Send(Dropped(b), A, m)[b] = <<>>
        /\ \A c \in Token : c # b =>
              Send(Dropped(b), A, m)[c] = IF c \in A THEN inbox[c] \o m ELSE inbox[c]
    BY <1>5, <1>6, <1>7, SendDroppedTyped
  <2> QED
    BY <1>2, <1>7, <2>1
<1>9. /\ view' \in [Token -> Views] /\ rendered' \in [Token -> Peoples]
      /\ \A c \in Token : c # b => view'[c] = view[c]
  BY <1>2, <1>5, ViewReset
<1>10. ChannelsTyped'
  <2>1. \A c \in Token : asked'[c] = asked[c] \/ asked'[c] = <<>>
    BY <1>2, <1>3
  <2> QED
    BY <1>2, <1>5, <1>8, <1>9, <2>1, ChannelsKept
<1> DEFINE u == Updated(rooms, store, p)
<1>11. u \in Events /\ u.type = "upserted"
  BY <1>1, <1>3, MessagesTyped
<1> HIDE DEF u
<1>12. ASSUME NEW c \in Token PROVE SeesDeparture(c, p, u)
  <2>1. CASE c = b
    BY <1>2, <1>3, <1>8, <2>1 DEF SeesDeparture
  <2>2. CASE c # b
    <3>1. /\ link'[c] = link[c] /\ asked'[c] = asked[c] /\ view'[c] = view[c] /\ seat[c] # p
          /\ inbox'[c] = IF c \in A THEN inbox[c] \o m ELSE inbox[c]
      BY <1>1, <1>2, <1>3, <1>8, <1>9, <2>2
    <3>2. link[c] # "on" => inbox[c] = <<>>
      BY DEF ReplicaInv, BrowserOf
    <3>3. c \in A <=> link[c] = "on" /\ rooms.member[seat[c]] = r
      BY <1>6, <2>2
    <3> QED
      BY <3>1, <3>2, <3>3 DEF SeesDeparture, l, m
  <2> QED
    BY <2>1, <2>2
<1> QED
  BY <1>1, <1>2, <1>10, <1>11, <1>12, DepartureReplicates

LEMMA LostTyped ==
    ASSUME ReplicaInv, NEW b \in Token, LoseLink(b)
    PROVE  /\ view' \in [Token -> Views] /\ rendered' \in [Token -> Peoples]
           /\ \A c \in Token : c # b => /\ view'[c] = view[c] /\ asked'[c] = asked[c]
                                        /\ link'[c] = link[c]
           /\ asked'[b] = <<>> /\ link'[b] = "lost" /\ seat' = seat /\ link[b] = "on"
<1>1. /\ asked \in [Token -> Seq(SUBSET Media)] /\ link \in [Token -> {"off", "on", "lost"}]
      /\ ChannelsTyped
  BY DEF ReplicaInv, PolicyInv, StoresTyped
<1>2. MarkMyself(b)
  BY DEF LoseLink
<1>3. /\ view' \in [Token -> Views] /\ rendered' \in [Token -> Peoples]
      /\ \A c \in Token : c # b => view'[c] = view[c]
  BY <1>1, <1>2, MarkedMyself
<1> QED
  BY <1>1, <1>3 DEF LoseLink

LEMMA TimelessLossReplicates ==
    ASSUME ReplicaInv, PolicyInv', NEW b \in Token, ConnectionLostWithoutTimer(b)
    PROVE  ReplicaInv'
<1> DEFINE p == seat[b]
           r == rooms.member[p]
           l == Left(rooms', store', r)
           A == Online(r) \ {b}
           u == Updated(MarkReconnecting(rooms, r, p), store, p)
<1>1. LoseLink(b)
  BY DEF ConnectionLostWithoutTimer
<1>2. /\ view' \in [Token -> Views] /\ rendered' \in [Token -> Peoples]
      /\ \A c \in Token : c # b => /\ view'[c] = view[c] /\ asked'[c] = asked[c]
                                   /\ link'[c] = link[c]
      /\ asked'[b] = <<>> /\ link'[b] = "lost" /\ seat' = seat /\ link[b] = "on"
  BY <1>1, LostTyped
<1>3. p \in Participant /\ r \in Room /\ \A c \in Token : c # b => seat[c] # p
  BY <1>2, ConnectedSeat DEF ReplicaInv
<1>4. /\ rooms' = LeaveRoom(rooms, r, p) /\ store' = ForgetTheGone(rooms', store)
      /\ inbox' = Send(Dropped(b), A, Append(<<u>>, l)) /\ InboxBound
  BY DEF ConnectionLostWithoutTimer, RemoveParticipant
<1>5. /\ rooms \in RoomDirectory /\ store \in PolicyStore
      /\ rooms' \in RoomDirectory /\ store' \in PolicyStore
  BY DEF ReplicaInv, PolicyInv, StoresTyped
<1>6. l \in Events /\ u \in Events /\ u.type = "upserted"
  BY <1>3, <1>5, MarkTyped, MessagesTyped
<1>7. ChannelsTyped
  BY DEF ReplicaInv
<1>8. b \notin A /\ \A c \in Token : c \in A <=> c # b /\ link[c] = "on" /\ rooms.member[seat[c]] = r
  BY DEF Online
<1> HIDE DEF l, A, u
<1> DEFINE m == <<u, l>>
<1>9. Append(<<u>>, l) = m /\ m \in Seq(Events)
  BY <1>6, OneAfterAnother
<1> HIDE DEF m
<1>10. /\ inbox' \in [Token -> Seq(Events)] /\ inbox'[b] = <<>>
       /\ \A c \in Token : c # b => inbox'[c] = IF c \in A THEN inbox[c] \o m ELSE inbox[c]
  <2>1. /\ Send(Dropped(b), A, m) \in [Token -> Seq(Events)]
        /\ Send(Dropped(b), A, m)[b] = <<>>
        /\ \A c \in Token : c # b =>
              Send(Dropped(b), A, m)[c] = IF c \in A THEN inbox[c] \o m ELSE inbox[c]
    BY <1>7, <1>8, <1>9, SendDroppedTyped
  <2> QED
    BY <1>4, <1>9, <2>1
<1>11. ChannelsTyped'
  <2>1. \A c \in Token : asked'[c] = asked[c] \/ asked'[c] = <<>>
    BY <1>2
  <2> QED
    BY <1>2, <1>4, <1>7, <1>10, <2>1, ChannelsKept
<1>12. ASSUME NEW c \in Token PROVE SeesDeparture(c, p, u)
  <2>1. CASE c = b
    BY <1>2, <1>10, <2>1 DEF SeesDeparture
  <2>2. CASE c # b
    <3>1. /\ link'[c] = link[c] /\ asked'[c] = asked[c] /\ view'[c] = view[c] /\ seat[c] # p
          /\ inbox'[c] = IF c \in A THEN inbox[c] \o m ELSE inbox[c]
      BY <1>2, <1>3, <1>10, <2>2
    <3>2. link[c] # "on" => inbox[c] = <<>>
      BY DEF ReplicaInv, BrowserOf
    <3>3. c \in A <=> link[c] = "on" /\ rooms.member[seat[c]] = r
      BY <1>8, <2>2
    <3> QED
      BY <3>1, <3>2, <3>3 DEF SeesDeparture, l, m
  <2> QED
    BY <2>1, <2>2
<1> QED
  BY <1>2, <1>3, <1>4, <1>6, <1>11, <1>12, DepartureReplicates

LEMMA ExpiryReplicates ==
    ASSUME ReplicaInv, PolicyInv', NEW p \in Participant, GraceExpired(p)
    PROVE  ReplicaInv'
<1> DEFINE r == rooms.member[p]
           l == Left(rooms', store', r)
           A == Online(r)
           u == Updated(rooms, store, p)
<1>1. /\ rooms' = LeaveRoom(rooms, r, p) /\ store' = ForgetTheGone(rooms', store)
      /\ inbox' = Send(inbox, A, Append(<<>>, l)) /\ InboxBound
      /\ seat' = seat /\ link' = link /\ asked' = asked /\ view' = view /\ rendered' = rendered
      /\ p \in rooms.reconnecting
  BY DEF GraceExpired, RemoveParticipant
<1>2. r \in Room /\ \A c \in Token : link[c] = "on" => seat[c] # p
  BY <1>1 DEF ReplicaInv, RoomsOpen, PolicyInv, ConnectedAreMembers
<1>3. /\ rooms \in RoomDirectory /\ store \in PolicyStore
      /\ rooms' \in RoomDirectory /\ store' \in PolicyStore
  BY DEF ReplicaInv, PolicyInv, StoresTyped
<1>4. l \in Events /\ u \in Events /\ u.type = "upserted"
  BY <1>2, <1>3, MessagesTyped
<1>5. ChannelsTyped
  BY DEF ReplicaInv
<1>6. \A c \in Token : c \in A <=> link[c] = "on" /\ rooms.member[seat[c]] = r
  BY DEF Online
<1> HIDE DEF l, A, u
<1> DEFINE m == <<l>>
<1>7. Append(<<>>, l) = m /\ m \in Seq(Events)
  BY <1>4
<1> HIDE DEF m
<1>8. /\ inbox' \in [Token -> Seq(Events)]
      /\ \A c \in Token : inbox'[c] = IF c \in A THEN inbox[c] \o m ELSE inbox[c]
  BY <1>1, <1>5, <1>7, SendInboxTyped
<1>9. ChannelsTyped'
  <2>1. view' \in [Token -> Views]
    BY <1>1, <1>5 DEF ChannelsTyped
  <2> QED
    BY <1>1, <1>5, <1>8, <2>1 DEF ChannelsTyped, InboxBound
<1>10. ASSUME NEW c \in Token PROVE SeesDeparture(c, p, u)
  <2>1. link[c] # "on" => inbox[c] = <<>>
    BY DEF ReplicaInv, BrowserOf
  <2>2. inbox'[c] = IF link[c] = "on" /\ rooms.member[seat[c]] = r THEN inbox[c] \o m ELSE inbox[c]
    BY <1>6, <1>8
  <2> QED
    BY <1>1, <1>2, <2>1, <2>2 DEF SeesDeparture, l, m
<1> QED
  BY <1>1, <1>2, <1>4, <1>9, <1>10, DepartureReplicates

LEMMA LossReplicates ==
    ASSUME ReplicaInv, PolicyInv', NEW b \in Token, ConnectionLost(b)
    PROVE  ReplicaInv'
<1> DEFINE p == seat[b]
           r == rooms.member[p]
           d == MarkReconnecting(rooms, r, p)
           A == Online(r) \ {b}
           m == <<Updated(d, store, p)>>
<1>1. LoseLink(b)
  BY DEF ConnectionLost
<1>2. /\ view' \in [Token -> Views] /\ rendered' \in [Token -> Peoples]
      /\ \A c \in Token : c # b => /\ view'[c] = view[c] /\ asked'[c] = asked[c]
                                   /\ link'[c] = link[c]
      /\ asked'[b] = <<>> /\ link'[b] = "lost" /\ seat' = seat /\ link[b] = "on"
  BY <1>1, LostTyped
<1>3. p \in Participant /\ r \in Room
  BY <1>2, ConnectedSeat DEF ReplicaInv
<1>4. rooms' = d /\ store' = store /\ inbox' = Send(Dropped(b), A, m) /\ InboxBound
  BY DEF ConnectionLost
<1>5. /\ rooms \in RoomDirectory /\ store \in PolicyStore /\ RoomsOpen(rooms)
      /\ d \in RoomDirectory
  BY <1>4 DEF ReplicaInv, PolicyInv, StoresTyped
<1>6. m \in Seq(Events)
  BY <1>3, <1>5, MessagesTyped
<1>7. ChannelsTyped
  BY DEF ReplicaInv
<1>8. b \notin A /\ \A c \in Token : c \in A <=> c # b /\ link[c] = "on" /\ rooms.member[seat[c]] = r
  BY DEF Online
<1>9. \A y \in Room : Keeps(rooms, store, d, store, y, p)
  BY <1>3, <1>5, JoinKeeps
<1>10. d.member = rooms.member /\ d.reconnecting = rooms.reconnecting \cup {p} /\ d.open = rooms.open
  BY <1>5, <1>3 DEF MarkReconnecting, RoomDirectory
<1> HIDE DEF d, A, m
<1>11. RoomsOpen(rooms')
  BY <1>3, <1>4, <1>5, <1>10 DEF RoomsOpen
<1>12. /\ inbox' \in [Token -> Seq(Events)] /\ inbox'[b] = <<>>
       /\ \A c \in Token : c # b => inbox'[c] = IF c \in A THEN inbox[c] \o m ELSE inbox[c]
  <2>1. /\ Send(Dropped(b), A, m) \in [Token -> Seq(Events)]
        /\ Send(Dropped(b), A, m)[b] = <<>>
        /\ \A c \in Token : c # b =>
              Send(Dropped(b), A, m)[c] = IF c \in A THEN inbox[c] \o m ELSE inbox[c]
    BY <1>6, <1>7, <1>8, SendDroppedTyped
  <2> QED
    BY <1>4, <2>1
<1>13. ChannelsTyped'
  <2>1. \A c \in Token : asked'[c] = asked[c] \/ asked'[c] = <<>>
    BY <1>2
  <2> QED
    BY <1>2, <1>4, <1>7, <1>12, <2>1, ChannelsKept
<1>14. ASSUME NEW c \in Token PROVE BrowserOf(c)'
  <2>1. CASE c = b
    BY <1>2, <1>12, <2>1 DEF BrowserOf
  <2>2. CASE c # b /\ link[c] # "on"
    BY <1>2, <1>8, <1>12, <2>2 DEF ReplicaInv, BrowserOf
  <2>3. CASE c # b /\ link[c] = "on"
    <3>1. inbox'[c] = IF rooms.member[seat[c]] = r THEN inbox[c] \o <<Updated(d, store, p)>> ELSE inbox[c]
      BY <1>8, <1>12, <2>3 DEF m
    <3>2. Catches(view[c], inbox'[c], d, store, seat[c], asked[c])
      BY <1>3, <1>5, <1>9, <1>10, <2>3, <3>1, UpsertSeen
    <3> QED
      BY <1>2, <1>4, <2>3, <3>2 DEF BrowserOf
  <2> QED
    BY <2>1, <2>2, <2>3
<1> QED
  BY <1>11, <1>13, <1>14 DEF ReplicaInv, RoomsOpen

LEMMA GiveUpReplicates ==
    ASSUME ReplicaInv, PolicyInv', NEW b \in Token, GiveUp(b)
    PROVE  ReplicaInv'
<1>1. /\ link[b] = "lost" /\ ResetView(b)
      /\ UNCHANGED <<rooms, store, seat, born, link, inbox, asked>>
  BY DEF GiveUp
<1>4. /\ view' \in [Token -> Views] /\ rendered' \in [Token -> Peoples]
      /\ \A c \in Token : c # b => view'[c] = view[c]
  BY <1>1, ViewReset DEF ReplicaInv
<1>2. ChannelsTyped'
  BY <1>1, <1>4 DEF ReplicaInv, ChannelsTyped
<1>3. ASSUME NEW c \in Token PROVE BrowserOf(c)'
  <2>1. BrowserOf(c) /\ (link[c] = "on" => view'[c] = view[c])
    BY <1>1, <1>4 DEF ReplicaInv
  <2> QED
    BY <1>1, <2>1 DEF BrowserOf
<1> QED
  BY <1>1, <1>2, <1>3 DEF ReplicaInv, RoomsOpen

(* On its way back a browser has its answer before it, or nothing. *)
LEMMA ReturnReplicates ==
    ASSUME ReplicaInv, PolicyInv', NEW b \in Token, StillReconnecting(b)
    PROVE  ReplicaInv'
<1>1. /\ OnItsWayBack(b) /\ MarkMyself(b)
      /\ UNCHANGED <<rooms, store, seat, born, link, inbox, asked>>
  BY DEF StillReconnecting
<1>2. ChannelsTyped /\ inbox \in [Token -> Seq(Events)] /\ BrowserOf(b)
  BY DEF ReplicaInv, ChannelsTyped
<1>3. /\ view' \in [Token -> Views] /\ rendered' \in [Token -> Peoples] /\ Near(view[b], view'[b])
      /\ \A c \in Token : c # b => view'[c] = view[c]
  BY <1>1, <1>2, MarkedMyself
<1>4. ChannelsTyped'
  BY <1>1, <1>2, <1>3 DEF ChannelsTyped
<1>5. ASSUME link[b] = "on" PROVE Catches(view'[b], inbox[b], rooms, store, seat[b], asked[b])
  <2> DEFINE v == view[b]
             w == view'[b]
             q == inbox[b]
             p == seat[b]
             ask == asked[b]
  <2>1. PICK i \in DOMAIN q : q[i].type = "welcome"
    BY <1>1, <1>5 DEF OnItsWayBack
  <2>2. q \in Seq(Events) /\ Near(v, w) /\ Catches(v, q, rooms, store, p, ask)
    BY <1>2, <1>3, <1>5 DEF BrowserOf
  <2> HIDE DEF v, w, q, p, ask
  <2>3. i \in 1 .. Len(q)
    BY <2>2
  <2>4. PICK vs, k : /\ Follows(vs, v, q, k) /\ Matches(vs[Len(q)], rooms, store, p)
                     /\ ask = <<>> => k <= Len(q) /\ OwnShown(vs[Len(q)], rooms, store, p)
    BY <2>2 DEF Catches
  <2>5. PICK h : Follows(vs, w, q, h) /\ (k <= Len(q) => h <= Len(q))
    BY <2>1, <2>2, <2>3, <2>4, OwnTileRedone
  <2>6. Catches(w, q, rooms, store, p, ask)
    BY <2>4, <2>5 DEF Catches
  <2> QED
    BY <2>6 DEF w, q, p, ask
<1>6. ASSUME NEW c \in Token PROVE BrowserOf(c)'
  <2>1. CASE c = b
    BY <1>1, <1>2, <1>5, <2>1 DEF BrowserOf
  <2>2. CASE c # b
    BY <1>1, <1>3, <2>2 DEF ReplicaInv, BrowserOf
  <2> QED
    BY <2>1, <2>2
<1> QED
  BY <1>1, <1>4, <1>6 DEF ReplicaInv, RoomsOpen

LEMMA RenderReplicates ==
    ASSUME ReplicaInv, PolicyInv', NEW b \in Token, Render(b)
    PROVE  ReplicaInv'
<1> DEFINE tile == OwnTile(view[b])
<1>1. /\ rendered' = [rendered EXCEPT ![b] = tile]
      /\ UNCHANGED <<rooms, store, seat, born, link, inbox, asked, view>>
  BY DEF Render
<1>2. tile \in Peoples
  BY OwnTileTyped DEF ReplicaInv, ChannelsTyped
<1> HIDE DEF tile
<1>3. ChannelsTyped'
  BY <1>1, <1>2 DEF ReplicaInv, ChannelsTyped
<1>4. \A c \in Token : BrowserOf(c)'
  BY <1>1 DEF ReplicaInv, BrowserOf
<1> QED
  BY <1>1, <1>3, <1>4 DEF ReplicaInv, RoomsOpen

LEMMA AskReplicates ==
    ASSUME ReplicaInv, PolicyInv', NEW b \in Token, NEW wanted \in SUBSET Media, AskMedia(b, wanted)
    PROVE  ReplicaInv'
<1> DEFINE v == view[b]
           old == rendered[b]
           new == [p \in DOMAIN old |-> [old[p] EXCEPT !.shared = wanted]]
           w == WriteBack(v, new)
<1>1. view \in [Token -> Views] /\ inbox \in [Token -> Seq(Events)]
      /\ v \in Views /\ old \in Peoples /\ ChannelsTyped
  BY DEF ReplicaInv, ChannelsTyped
<1>2. asked \in [Token -> Seq(SUBSET Media)]
  BY DEF ReplicaInv, PolicyInv, StoresTyped
<1>3. /\ link[b] = "on" /\ Len(asked[b]) < MaxAsked
      /\ asked' = [asked EXCEPT ![b] = Append(@, wanted)]
      /\ RenderSoonerOrLater(b)
      /\ UNCHANGED <<rooms, store, seat, born, link, inbox>>
  BY DEF AskMedia
<1>4. view' = [view EXCEPT ![b] = w]
  BY <1>1 DEF AskMedia
<1> HIDE DEF v, old
<1>5. \A p \in DOMAIN old : [old[p] EXCEPT !.shared = wanted] \in Snapshots
  BY <1>1, PeopleKnown DEF Snapshots
<1>6. new = [p \in DOMAIN old |-> new[p]] /\ \A p \in DOMAIN old : new[p] \in Snapshots
  BY <1>5
<1> HIDE DEF new
<1>12. new \in Peoples
  BY <1>1, <1>6, TilesChanged
<1>7. w \in Views /\ Near(v, w)
  BY <1>1, <1>12, WrittenBack
<1> HIDE DEF w
<1>8. view' \in [Token -> Views] /\ view'[b] = w /\ \A c \in Token : c # b => view'[c] = view[c]
  BY <1>1, <1>4, <1>7
<1>9. /\ asked'[b] = Append(asked[b], wanted) /\ asked'[b] # <<>> /\ Len(asked'[b]) <= MaxAsked
      /\ \A c \in Token : c # b => asked'[c] = asked[c]
  <2>1. asked[b] \in Seq(SUBSET Media)
    BY <1>2
  <2>2. /\ Append(asked[b], wanted) # <<>> /\ Len(Append(asked[b], wanted)) = Len(asked[b]) + 1
        /\ Len(asked[b]) \in Nat
    BY <2>1, AppendProperties
  <2>3. Len(asked[b]) + 1 <= MaxAsked
    BY <1>3, <2>2, ChannelAssumption
  <2> QED
    BY <1>2, <1>3, <2>2, <2>3
<1>13. rendered' \in [Token -> Peoples]
  BY <1>1, <1>3, <1>8, RenderedTyped
<1>10. ChannelsTyped'
  BY <1>3, <1>8, <1>9, <1>13 DEF ReplicaInv, ChannelsTyped
<1>11. ASSUME NEW c \in Token PROVE BrowserOf(c)'
  <2>1. CASE c # b
    BY <1>3, <1>8, <1>9, <2>1 DEF ReplicaInv, BrowserOf
  <2>2. CASE c = b
    <3>1. inbox[b] \in Seq(Events)
      BY <1>1
    <3>2. PICK vs, k : Follows(vs, v, inbox[b], k) /\ Matches(vs[Len(inbox[b])], rooms, store, seat[b])
      BY <1>3 DEF ReplicaInv, BrowserOf, Catches, v
    <3>3. Follows(vs, w, inbox[b], Len(inbox[b]) + 1)
      BY <1>7, <3>1, <3>2, OwnTileAhead
    <3>4. Catches(w, inbox[b], rooms, store, seat[b], asked'[b])
      BY <1>9, <3>2, <3>3 DEF Catches
    <3> QED
      BY <1>3, <1>8, <2>2, <3>4 DEF BrowserOf
  <2> QED
    BY <2>1, <2>2
<1> QED
  BY <1>3, <1>10, <1>11 DEF ReplicaInv, RoomsOpen

LEMMA MediaReplicates ==
    ASSUME ReplicaInv, PolicyInv', NEW b \in Token, UpdateMedia(b)
    PROVE  ReplicaInv'
<1> DEFINE p == seat[b]
           r == rooms.member[p]
           A == Online(r)
           m == <<Updated(rooms, store', p)>>
<1>1. /\ asked[b] # <<>> /\ asked' = [asked EXCEPT ![b] = Tail(@)]
      /\ store' = UpdateMediaState(rooms, store, p, Head(asked[b]))
      /\ inbox' = Send(inbox, A, m) /\ InboxBound
      /\ rooms' = rooms /\ seat' = seat /\ link' = link /\ view' = view /\ rendered' = rendered
  BY DEF UpdateMedia
<1>2. link[b] = "on"
  BY <1>1 DEF ReplicaInv, PolicyInv, ConnectedAreMembers
<1>3. p \in Participant /\ r \in Room
  BY <1>2, ConnectedSeat DEF ReplicaInv
<1>4. /\ rooms \in RoomDirectory /\ store \in PolicyStore /\ store' \in PolicyStore
      /\ asked \in [Token -> Seq(SUBSET Media)]
  BY <1>1 DEF ReplicaInv, PolicyInv, StoresTyped
<1>5. m \in Seq(Events)
  BY <1>3, <1>4, MessagesTyped
<1>6. ChannelsTyped
  BY DEF ReplicaInv
<1>7. \A c \in Token : c \in A <=> link[c] = "on" /\ rooms.member[seat[c]] = r
  BY DEF Online
<1>8. \A y \in Room : Keeps(rooms, store, rooms, store', y, p)
  BY <1>1, <1>3, <1>4, MediaKeeps
<1> HIDE DEF A, m
<1>9. /\ inbox' \in [Token -> Seq(Events)]
      /\ \A c \in Token : inbox'[c] = IF c \in A THEN inbox[c] \o m ELSE inbox[c]
  <2>1. /\ Send(inbox, A, m) \in [Token -> Seq(Events)]
        /\ \A c \in Token : Send(inbox, A, m)[c] = IF c \in A THEN inbox[c] \o m ELSE inbox[c]
    BY <1>5, <1>6, SendInboxTyped
  <2> QED
    BY <1>1, <2>1
<1>10. asked'[b] = Tail(asked[b]) /\ \A c \in Token : c # b => asked'[c] = asked[c]
  BY <1>1, <1>4
<1>11. ChannelsTyped'
  <2>1. Len(asked'[b]) <= MaxAsked
    <3>1. asked[b] \in Seq(SUBSET Media) /\ Len(asked[b]) <= MaxAsked
      BY <1>4, <1>6 DEF ChannelsTyped
    <3>2. Len(Tail(asked[b])) = Len(asked[b]) - 1 /\ Len(asked[b]) \in Nat
      BY <1>1, <3>1, HeadTailProperties, LenProperties
    <3> QED
      BY <1>10, <3>1, <3>2, ChannelAssumption
  <2>2. \A c \in Token : Len(asked'[c]) <= MaxAsked
    BY <1>6, <1>10, <2>1 DEF ChannelsTyped
  <2> QED
    BY <1>1, <1>6, <1>9, <2>2 DEF ChannelsTyped, InboxBound
<1>12. ASSUME NEW c \in Token PROVE BrowserOf(c)'
  <2>1. CASE link[c] # "on"
    BY <1>1, <1>7, <1>9, <2>1 DEF ReplicaInv, BrowserOf
  <2>2. CASE link[c] = "on"
    <3>1. inbox'[c] = IF rooms.member[seat[c]] = r THEN inbox[c] \o <<Updated(rooms, store', p)>> ELSE inbox[c]
      BY <1>7, <1>9, <2>2 DEF m
    <3>2. asked'[c] = asked[c] \/ p = seat[c]
      BY <1>10
    <3>3. Catches(view[c], inbox'[c], rooms, store', seat[c], asked'[c])
      BY <1>3, <1>4, <1>8, <2>2, <3>1, <3>2, UpsertSeen
    <3> QED
      BY <1>1, <2>2, <3>3 DEF BrowserOf
  <2> QED
    BY <2>1, <2>2
<1> QED
  BY <1>1, <1>11, <1>12 DEF ReplicaInv, RoomsOpen

LEMMA PolicyReplicates ==
    ASSUME ReplicaInv, PolicyInv', NEW b \in Token, NEW policy \in SUBSET Media, UpdatePolicy(b, policy)
    PROVE  ReplicaInv'
<1> DEFINE x == seat[b]
           r == rooms.member[x]
           A == Online(r)
           F == Forced(rooms, store, r, policy)
<1>1. /\ link[b] = "on" /\ store' = UpdatePolicyAndEnforce(rooms, store, r, policy) /\ InboxBound
      /\ rooms' = rooms /\ seat' = seat /\ link' = link /\ asked' = asked
      /\ view' = view /\ rendered' = rendered
  BY DEF UpdatePolicy
<1>2. PICK forced \in JoiningOrders(F) : inbox' = Send(inbox, A, Announcement(rooms, store', r, forced))
  BY DEF UpdatePolicy
<1> DEFINE m == Announcement(rooms, store', r, forced)
<1>3. x \in Participant /\ r \in Room
  BY <1>1, ConnectedSeat DEF ReplicaInv
<1>4. rooms \in RoomDirectory /\ store \in PolicyStore /\ store' \in PolicyStore
  BY <1>1 DEF ReplicaInv, PolicyInv, StoresTyped
<1>5. ChannelsTyped
  BY DEF ReplicaInv
<1>6. ASSUME NEW c \in Token, link[c] = "on"
      PROVE  /\ rooms.member[seat[c]] = r =>
                   m \in Seq(Events) /\ Catches(view[c], inbox[c] \o m, rooms, store', seat[c], asked[c])
             /\ rooms.member[seat[c]] # r =>
                   Catches(view[c], inbox[c], rooms, store', seat[c], asked[c])
  <2> DEFINE d == rooms
             s == store
             t == store'
             v == view[c]
             i == inbox[c]
             p == seat[c]
             ask == asked[c]
  <2>1. p \in Participant /\ d.member[p] \in Room
    BY <1>6, ConnectedSeat DEF ReplicaInv
  <2>2. Catches(v, i, d, s, p, ask) /\ i \in Seq(Events)
    BY <1>6 DEF ReplicaInv, BrowserOf, ChannelsTyped
  <2>3. d \in RoomDirectory /\ s \in PolicyStore /\ t \in PolicyStore
        /\ t = UpdatePolicyAndEnforce(d, s, r, policy) /\ forced \in JoiningOrders(Forced(d, s, r, policy))
        /\ d.member[x] = r /\ r \in Room
    BY <1>1, <1>3, <1>4
  <2>4. m = Announcement(d, t, r, forced)
    OBVIOUS
  <2> HIDE DEF d, s, t, v, i, p, ask, x, r, m, F
  <2>5. d.member[p] = r => m \in Seq(Events) /\ Catches(v, i \o m, d, t, p, ask)
    BY <2>1, <2>2, <2>3, <2>4, CatchesPolicy
  <2>6. d.member[p] # r => Catches(v, i, d, t, p, ask)
    <3> SUFFICES ASSUME d.member[p] # r PROVE Catches(v, i, d, t, p, ask)
      OBVIOUS
    <3>1. Keeps(d, s, d, t, d.member[p], x)
      BY <2>1, <2>3, PolicyKeeps
    <3> QED
      BY <2>1, <2>2, <2>3, <3>1, CatchesElsewhere
  <2> QED
    BY <2>5, <2>6 DEF d, t, v, i, p, ask
<1>7. m \in Seq(Events)
  BY <1>1, <1>6
<1>8. \A c \in Token : c \in A <=> link[c] = "on" /\ rooms.member[seat[c]] = r
  BY DEF Online
<1> HIDE DEF A, m
<1>9. /\ inbox' \in [Token -> Seq(Events)]
      /\ \A c \in Token : inbox'[c] = IF c \in A THEN inbox[c] \o m ELSE inbox[c]
  <2>1. /\ Send(inbox, A, m) \in [Token -> Seq(Events)]
        /\ \A c \in Token : Send(inbox, A, m)[c] = IF c \in A THEN inbox[c] \o m ELSE inbox[c]
    BY <1>5, <1>7, SendInboxTyped
  <2> QED
    BY <1>2, <2>1 DEF m
<1>10. ChannelsTyped'
  BY <1>1, <1>5, <1>9 DEF ChannelsTyped, InboxBound
<1>11. ASSUME NEW c \in Token PROVE BrowserOf(c)'
  <2>1. CASE link[c] # "on"
    BY <1>1, <1>8, <1>9, <2>1 DEF ReplicaInv, BrowserOf
  <2>2. CASE link[c] = "on"
    BY <1>1, <1>6, <1>8, <1>9, <2>2 DEF BrowserOf
  <2> QED
    BY <2>1, <2>2
<1> QED
  BY <1>1, <1>10, <1>11 DEF ReplicaInv, RoomsOpen

LEMMA CatchesArrived ==
    ASSUME NEW q \in Seq(Events), q # <<>>, NEW v \in Views, NEW d, NEW s, NEW p, NEW ask,
           Catches(v, q, d, s, p, ask)
    PROVE  Catches(Reduce(v, Head(q)), Tail(q), d, s, p, ask)
<1>1. PICK vs, k : /\ Follows(vs, v, q, k) /\ Matches(vs[Len(q)], d, s, p)
                   /\ ask = <<>> => k <= Len(q) /\ OwnShown(vs[Len(q)], d, s, p)
  BY DEF Catches
<1> DEFINE h == IF k = 0 THEN 0 ELSE k - 1
           w == Reduce(v, Head(q))
           r == Tail(q)
<1>2. PICK ws : Follows(ws, w, r, h) /\ ws[Len(r)] = vs[Len(q)]
  BY <1>1, OneArrives
<1>3. k <= Len(q) => h <= Len(r)
  <2>1. Len(r) = Len(q) - 1 /\ Len(q) \in Nat /\ Len(q) # 0 /\ k \in Nat
    BY <1>1, HeadTailProperties, EmptySeq, LenProperties DEF Follows
  <2> HIDE DEF r
  <2> QED
    BY <2>1
<1> HIDE DEF h, w, r
<1>4. Catches(w, r, d, s, p, ask)
  BY <1>1, <1>2, <1>3 DEF Catches
<1> QED
  BY <1>4 DEF w, r

LEMMA CatchesListed ==
    ASSUME NEW v, NEW q, NEW d, NEW s, NEW p, NEW ask, Catches(v, q, d, s, p, ask), Len(q) \in Nat
    PROVE  Listed(v)
<1>1. PICK vs, k : Follows(vs, v, q, k)
  BY DEF Catches
<1>2. vs[0] \in Views /\ Near(vs[0], v)
  BY <1>1 DEF Follows
<1> QED
  BY <1>2 DEF Views, Near, Listed

LEMMA DeliveryReplicates ==
    ASSUME ReplicaInv, PolicyInv', NEW b \in Token, Deliver(b)
    PROVE  ReplicaInv'
<1> DEFINE v == view[b]
           q == inbox[b]
           e == Head(q)
           w == Reduce(v, e)
           r == Tail(q)
<1>1. /\ q # <<>> /\ view' = [view EXCEPT ![b] = w] /\ inbox' = [inbox EXCEPT ![b] = r]
      /\ rooms' = rooms /\ store' = store /\ seat' = seat /\ link' = link /\ asked' = asked
      /\ RenderSoonerOrLater(b)
  BY DEF Deliver
<1>2. view \in [Token -> Views] /\ inbox \in [Token -> Seq(Events)] /\ v \in Views /\ q \in Seq(Events)
      /\ Len(q) <= MaxInbox
  BY DEF ReplicaInv, ChannelsTyped
<1>3. link[b] = "on" /\ Catches(v, q, rooms, store, seat[b], asked[b])
  BY <1>1 DEF ReplicaInv, BrowserOf
<1>4. /\ e \in Events /\ r \in Seq(Events) /\ Len(r) = Len(q) - 1 /\ Len(q) \in Nat
  BY <1>1, <1>2, HeadTailProperties, LenProperties
<1>6. Catches(w, r, rooms, store, seat[b], asked[b])
  BY <1>1, <1>2, <1>3, CatchesArrived
<1>5. w \in Views
  <2>1. Listed(w)
    BY <1>4, <1>6, LenProperties, CatchesListed
  <2> QED
    BY <1>2, <1>4, <2>1, ReduceEffect
<1> HIDE DEF w, r
<1>7. /\ view' \in [Token -> Views] /\ inbox' \in [Token -> Seq(Events)]
      /\ view'[b] = w /\ inbox'[b] = r
      /\ \A c \in Token : c # b => view'[c] = view[c] /\ inbox'[c] = inbox[c]
  BY <1>1, <1>2, <1>4, <1>5
<1>8. ChannelsTyped'
  <2>1. Len(r) <= MaxInbox
    BY <1>2, <1>4, ChannelAssumption
  <2>2. rendered' \in [Token -> Peoples]
    BY <1>1, <1>7, RenderedTyped DEF ReplicaInv
  <2> QED
    BY <1>1, <1>7, <2>1, <2>2 DEF ReplicaInv, ChannelsTyped
<1>9. ASSUME NEW c \in Token PROVE BrowserOf(c)'
  <2>1. CASE c = b
    BY <1>1, <1>3, <1>6, <1>7, <2>1 DEF BrowserOf
  <2>2. CASE c # b
    BY <1>1, <1>7, <2>2 DEF ReplicaInv, BrowserOf
  <2> QED
    BY <2>1, <2>2
<1> QED
  BY <1>1, <1>8, <1>9 DEF ReplicaInv, RoomsOpen

LEMMA ReplicaInit == Init => ReplicaInv
<1> SUFFICES ASSUME Init PROVE ReplicaInv
  OBVIOUS
<1>1. PolicyInv
  BY PolicyInit
<1>2. RoomsOpen(rooms)
  BY RoomAssumption DEF Init, RoomsOpen, EmptyDirectory
<1>3. ChannelsTyped
  <2>1. <<>> \in Seq(Events) /\ Len(<<>>) = 0
    OBVIOUS
  <2>2. \A b \in Token : inbox[b] = <<>> /\ asked[b] = <<>>
    BY DEF Init
  <2>3. inbox \in [Token -> Seq(Events)]
    BY <2>1 DEF Init
  <2>4. view \in [Token -> Views]
    BY NothingInView DEF Init
  <2>5. \A b \in Token : Len(inbox[b]) <= MaxInbox /\ Len(asked[b]) <= MaxAsked
    BY <2>1, <2>2, ChannelAssumption
  <2>6. rendered \in [Token -> Peoples]
    <3>1. <<>> \in Peoples
      BY NothingInView DEF EmptyView, Views, CallStates
    <3> QED
      BY <3>1 DEF Init
  <2> QED
    BY <2>3, <2>4, <2>5, <2>6 DEF ChannelsTyped
<1>4. \A b \in Token : BrowserOf(b)
  BY DEF Init, BrowserOf
<1> QED
  BY <1>1, <1>2, <1>3, <1>4 DEF ReplicaInv

LEMMA ReplicaNext == ReplicaInv /\ [Next]_vars => ReplicaInv'
<1> SUFFICES ASSUME ReplicaInv, [Next]_vars PROVE ReplicaInv'
  OBVIOUS
<1>1. PolicyInv'
  BY PolicyNext DEF ReplicaInv
<1>2. ASSUME NEW b \in Token, (\E r \in Room : Join(b, r)) \/ Rejoin(b) PROVE ReplicaInv'
  BY <1>1, <1>2, JoinReplicates
<1>3. ASSUME NEW b \in Token, Leave(b) PROVE ReplicaInv'
  BY <1>1, <1>3, LeaveReplicates
<1>4. ASSUME NEW b \in Token, ConnectionLost(b) PROVE ReplicaInv'
  BY <1>1, <1>4, LossReplicates
<1>5. ASSUME NEW b \in Token, ConnectionLostWithoutTimer(b) PROVE ReplicaInv'
  BY <1>1, <1>5, TimelessLossReplicates
<1>6. ASSUME NEW p \in Participant, GraceExpired(p) PROVE ReplicaInv'
  BY <1>1, <1>6, ExpiryReplicates
<1>7. ASSUME NEW b \in Token, GiveUp(b) PROVE ReplicaInv'
  BY <1>1, <1>7, GiveUpReplicates
<1>8. ASSUME NEW b \in Token, NEW m \in SUBSET Media, AskMedia(b, m) PROVE ReplicaInv'
  BY <1>1, <1>8, AskReplicates
<1>9. ASSUME NEW b \in Token, UpdateMedia(b) PROVE ReplicaInv'
  BY <1>1, <1>9, MediaReplicates
<1>10. ASSUME NEW b \in Token, NEW m \in SUBSET Media, UpdatePolicy(b, m) PROVE ReplicaInv'
  BY <1>1, <1>10, PolicyReplicates
<1>11. ASSUME NEW b \in Token, Deliver(b) PROVE ReplicaInv'
  BY <1>1, <1>11, DeliveryReplicates
<1>13. ASSUME NEW b \in Token, StillReconnecting(b) PROVE ReplicaInv'
  BY <1>1, <1>13, ReturnReplicates
<1>14. ASSUME NEW b \in Token, Render(b) PROVE ReplicaInv'
  BY <1>1, <1>14, RenderReplicates
<1>12. CASE UNCHANGED vars
  <2>1. ChannelsTyped' /\ \A b \in Token : BrowserOf(b)'
    BY <1>12 DEF ReplicaInv, vars, ChannelsTyped, BrowserOf
  <2> QED
    BY <1>1, <1>12, <2>1 DEF ReplicaInv, vars, RoomsOpen
<1> QED
  BY <1>2, <1>3, <1>4, <1>5, <1>6, <1>7, <1>8, <1>9, <1>10, <1>11, <1>12, <1>13, <1>14
     DEF Next

(* Whatever joins, losses, departures, media and policy changes are told   *)
(* the members in whatever order: a connected browser that has received    *)
(* everything shows the room as the server has it, but for its own tile    *)
(* while it has asked for something, whatever it has rendered and written  *)
(* back (emitToRoom and the acks of the handlers, the reducer of           *)
(* call-state.ts, sendMediaState and updateParticipantConnectionState).    *)
THEOREM ReplicasAgree == Spec => []ReplicasCatchUp
<1>1. ReplicaInv => ReplicasCatchUp
  <2> SUFFICES ASSUME ReplicaInv, NEW b \in Token, link[b] = "on", inbox[b] = <<>>
               PROVE  LET r == rooms.member[seat[b]]
                      IN  /\ view[b].self = seat[b]
                          /\ view[b].policy = store.allowed[r]
                          /\ DOMAIN view[b].people = Members(rooms, r)
                          /\ \A p \in Members(rooms, r) :
                                \/ view[b].people[p] = Snapshot(rooms, store, p)
                                \/ p = seat[b] /\ asked[b] # <<>>
    BY DEF ReplicasCatchUp
  <2> DEFINE v == view[b]
             x == seat[b]
             r == rooms.member[x]
             ask == asked[b]
  <2>1. rooms \in RoomDirectory /\ store \in PolicyStore
    BY DEF ReplicaInv, PolicyInv, StoresTyped
  <2>2. x \in Participant
    BY ConnectedSeat DEF ReplicaInv
  <2>3. Catches(v, <<>>, rooms, store, x, ask)
    BY DEF ReplicaInv, BrowserOf
  <2>4. PICK vs, k : /\ Follows(vs, v, <<>>, k) /\ Matches(vs[Len(<<>>)], rooms, store, x)
                     /\ ask = <<>> => k <= Len(<<>>) /\ OwnShown(vs[Len(<<>>)], rooms, store, x)
    BY <2>3 DEF Catches
  <2> DEFINE w == vs[0]
  <2>5. /\ Near(w, v) /\ Matches(w, rooms, store, x)
        /\ ask = <<>> => Same(w, v) /\ OwnShown(w, rooms, store, x)
    <3>1. Len(<<>>) = 0
      OBVIOUS
    <3> HIDE DEF v
    <3>2. k \in Nat /\ Near(w, v) /\ (k = 0 => Same(w, v))
      BY <2>4 DEF Follows
    <3>3. ask = <<>> => k = 0
      BY <2>4, <3>1, <3>2
    <3> QED
      BY <2>4, <3>1, <3>2, <3>3
  <2> HIDE DEF w, v
  <2>6. v.self = x /\ v.policy = store.allowed[r] /\ DOMAIN v.people = Members(rooms, r)
    BY <2>5 DEF Near, Matches
  <2>7. ASSUME NEW p \in Members(rooms, r), p # x \/ ask = <<>>
        PROVE  v.people[p] = w.people[p] /\ Shows(w.people[p], rooms, store, p)
    <3>1. CASE p # x
      BY <2>5, <3>1 DEF Near, Matches
    <3>2. CASE p = x /\ ask = <<>>
      BY <2>5, <3>2 DEF Same, Matches, OwnShown
    <3> QED
      BY <2>7, <3>1, <3>2
  <2>8. ASSUME NEW p \in Members(rooms, r)
        PROVE  v.people[p] = Snapshot(rooms, store, p) \/ (p = x /\ ask # <<>>)
    <3> SUFFICES ASSUME p # x \/ ask = <<>> PROVE v.people[p] = Snapshot(rooms, store, p)
      OBVIOUS
    <3>1. p \in Participant /\ Snapshot(rooms, store, p) \in Snapshots
      BY <2>1, SnapshotTyped DEF Members
    <3>2. Shows(Snapshot(rooms, store, p), rooms, store, p)
      BY <2>1, <3>1, SnapshotTyped DEF Shows
    <3>3. Shows(v.people[p], rooms, store, p)
      BY <2>7
    <3>4. v.people[p] \in Snapshots
      <4>1. v.people \in Peoples /\ p \in DOMAIN v.people
        BY <2>6 DEF ReplicaInv, ChannelsTyped, Views, CallStates, v
      <4> QED
        BY <4>1, PeopleKnown
    <3> QED
      BY <3>1, <3>2, <3>3, <3>4 DEF Shows, Snapshots
  <2> QED
    BY <2>6, <2>8 DEF v
<1> QED
  BY <1>1, ReplicaInit, ReplicaNext, PTL DEF Spec

(* The stores, the channels and what the browsers show keep their types and *)
(* their bounds.                                                            *)
THEOREM ReplicationTyped == Spec => []TypeOK
<1>1. ReplicaInv => TypeOK
  <2> SUFFICES ASSUME ReplicaInv PROVE TypeOK
    OBVIOUS
  <2>1. StoresTyped
    BY DEF ReplicaInv, PolicyInv
  <2>2. ASSUME NEW b \in Token
        PROVE  /\ Len(inbox[b]) <= MaxInbox
               /\ asked[b] \in Seq(SUBSET Media) /\ Len(asked[b]) <= MaxAsked
               /\ view[b].self \in Participant \cup {NoParticipant}
               /\ DOMAIN view[b].people \subseteq Participant
               /\ \A p \in DOMAIN view[b].people : view[b].people[p] \in Snapshots
               /\ DOMAIN rendered[b] \subseteq Participant
               /\ \A p \in DOMAIN rendered[b] : rendered[b][p] \in Snapshots
    <3>1. view[b] \in Views /\ rendered[b] \in Peoples /\ Len(inbox[b]) <= MaxInbox /\ Len(asked[b]) <= MaxAsked
      BY DEF ReplicaInv, ChannelsTyped
    <3>2. view[b].self \in Participant \cup {NoParticipant} /\ view[b].people \in Peoples
      BY <3>1 DEF Views, CallStates
    <3> QED
      BY <2>1, <3>1, <3>2, PeopleKnown DEF StoresTyped
  <2> QED
    BY <2>1, <2>2 DEF StoresTyped, TypeOK
<1> QED
  BY <1>1, ReplicaInit, ReplicaNext, PTL DEF Spec
=============================================================================
