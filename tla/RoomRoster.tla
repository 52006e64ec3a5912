------------------------------ MODULE RoomRoster ------------------------------
(***************************************************************************)
(* What the members of a room are promised, with no sockets, tokens or     *)
(* timers: people arrive under a new identity, may lose their connection   *)
(* and come back as the same person in the same role, and go once, for     *)
(* good.  Whoever owns a room stays its owner until leaving it, and is     *)
(* then followed by the one who has been there longest.                    *)
(***************************************************************************)
EXTENDS Naturals

CONSTANTS Room, Person, Nobody   \* persons are numbered as they arrive

VARIABLES present,   \* who is in each room
          owner,     \* who owns it, Nobody while it is empty
          away,      \* who has lost the connection
          arrived    \* everybody who ever came

rosterVars == <<present, owner, away, arrived>>

Longest(S) == IF S = {} THEN Nobody
              ELSE CHOOSE p \in S : \A q \in S : p <= q

Init ==
    /\ present = [r \in Room |-> {}]
    /\ owner = [r \in Room |-> Nobody]
    /\ away = {}
    /\ arrived = {}

(* The rooms and their owners once p has gone from room r.                 *)
Without(p, r) == [present EXCEPT ![r] = @ \ {p}]
Successor(p, r) ==
    [owner EXCEPT ![r] = IF @ = p THEN Longest(present[r] \ {p}) ELSE @]

Arrive(p, r) ==
    /\ p \notin arrived
    /\ \A q \in arrived : q < p
    /\ present' = [present EXCEPT ![r] = @ \cup {p}]
    /\ owner' = IF present[r] = {} THEN [owner EXCEPT ![r] = p] ELSE owner
    /\ arrived' = arrived \cup {p}
    /\ UNCHANGED away

Go(p, r) ==
    /\ p \in present[r]
    /\ present' = Without(p, r)
    /\ owner' = Successor(p, r)
    /\ away' = away \ {p}
    /\ UNCHANGED arrived

(* q goes from room a and its browser arrives in room b as p, at once.     *)
Move(q, a, p, b) ==
    /\ a # b
    /\ q \in present[a]
    /\ p \notin arrived
    /\ \A x \in arrived : x < p
    /\ present' = [Without(q, a) EXCEPT ![b] = @ \cup {p}]
    /\ owner' = IF present[b] = {} THEN [Successor(q, a) EXCEPT ![b] = p]
                ELSE Successor(q, a)
    /\ away' = away \ {q}
    /\ arrived' = arrived \cup {p}

LoseConnection(p) ==
    /\ \E r \in Room : p \in present[r]
    /\ away' = away \cup {p}
    /\ UNCHANGED <<present, owner, arrived>>

ComeBack(p) ==
    /\ p \in away
    /\ away' = away \ {p}
    /\ UNCHANGED <<present, owner, arrived>>

Next ==
    \/ \E p \in Person : LoseConnection(p) \/ ComeBack(p)
    \/ \E p \in Person, r \in Room : Arrive(p, r) \/ Go(p, r)
    \/ \E p, q \in Person, a, b \in Room : Move(q, a, p, b)

Spec == Init /\ [][Next]_rosterVars
=============================================================================
