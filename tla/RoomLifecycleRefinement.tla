----------------------- MODULE RoomLifecycleRefinement -----------------------
(***************************************************************************)
(* The room lifecycle of the server keeps the promise of RoomRoster: its   *)
(* stores, flags and timers are read as a roster and every handler is a    *)
(* step of the roster or changes nothing in it.                            *)
(***************************************************************************)
EXTENDS RoomLifecycle

OwnersIn(r) == rooms.owner \cap Members(rooms, r)

Roster == INSTANCE RoomRoster WITH
    Person  <- Participant,
    Nobody  <- NoParticipant,
    present <- [r \in Room |-> Members(rooms, r)],
    owner   <- [r \in Room |-> IF OwnersIn(r) = {} THEN NoParticipant
                               ELSE CHOOSE p \in OwnersIn(r) : TRUE],
    away    <- rooms.reconnecting,
    arrived <- {p \in Participant : issued[p] # NoRoom}

(* The lifecycle handlers implement the roster: nobody comes back after    *)
(* leaving, a reconnect keeps identity and role, and ownership passes only *)
(* when the owner goes, to the longest-present participant.                *)
KeepsRoster == Roster!Spec
=============================================================================
