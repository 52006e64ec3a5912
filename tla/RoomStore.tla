------------------------------ MODULE RoomStore ------------------------------
(***************************************************************************)
(* domain/room-state.ts and the membership half of                         *)
(* services/room-orchestration.ts: the rooms that exist, the participants  *)
(* each holds, who owns a room and who has lost its connection.  Display   *)
(* names, media flags, chat and policy are not part of membership.         *)
(***************************************************************************)
EXTENDS Identifiers

RoomDirectory == [open:         SUBSET Room,
                  member:       [Participant -> Room \cup {NoRoom}],
                  owner:        SUBSET Participant,
                  reconnecting: SUBSET Participant]

EmptyDirectory == [open         |-> {},
                   member       |-> [p \in Participant |-> NoRoom],
                   owner        |-> {},
                   reconnecting |-> {}]

Members(d, r) == {p \in Participant : d.member[p] = r}

(* The head of the list sorted by joinedAt, as a set: empty for nobody.    *)
Oldest(S) == {p \in S : \A q \in S : p <= q}

RemoveRoomIfEmpty(d, r) ==
    IF Members(d, r) = {} THEN [d EXCEPT !.open = @ \ {r}] ELSE d

(* getOrCreateRoom, then join: the first participant becomes the owner.    *)
JoinRoom(d, r, p) ==
    [open         |-> d.open \cup {r},
     member       |-> [d.member EXCEPT ![p] = r],
     owner        |-> IF Members(d, r) = {} THEN d.owner \cup {p} ELSE d.owner \ {p},
     reconnecting |-> d.reconnecting \ {p}]

(* Slip: a reconnect builds the participant anew, as a guest.              *)
ReconnectAsGuest(d, p) == [d EXCEPT !.reconnecting = @ \ {p}, !.owner = @ \ {p}]

(* reconnect keeps the role and the place in the joining order.            *)
CanReconnect(d, r, p) == p \in Participant /\ d.member[p] = r
ReconnectToRoom(d, p) == [d EXCEPT !.reconnecting = @ \ {p}]

(* Slips: the others sorted the other way round, and a promotion that does *)
(* not look whether anybody is left.                                       *)
PromoteYoungest(owner, others) ==
    IF others \cap owner = {}
    THEN owner \cup {p \in others : \A q \in others : q <= p}
    ELSE owner
PromoteUnchecked(owner, others) ==
    IF others \cap owner # {} THEN owner
    ELSE owner \cup (IF others = {} THEN {NoParticipant} ELSE Oldest(others))

(* Without an owner left, the oldest of the others is promoted.            *)
ReassignOwner(owner, others) ==
    IF others \cap owner = {} THEN owner \cup Oldest(others) ELSE owner

(* leaveParticipant and finalizeParticipantLeave.                          *)
LeaveRoom(d, r, p) ==
    LET others == Members(d, r) \ {p}
    IN  IF d.member[p] # r
        THEN RemoveRoomIfEmpty(d, r)
        ELSE [open         |-> IF others = {} THEN d.open \ {r} ELSE d.open,
              member       |-> [d.member EXCEPT ![p] = NoRoom],
              owner        |-> ReassignOwner(d.owner \ {p}, others),
              reconnecting |-> d.reconnecting \ {p}]

MarkReconnecting(d, r, p) ==
    IF d.member[p] = r
    THEN [d EXCEPT !.reconnecting = @ \cup {p}]
    ELSE RemoveRoomIfEmpty(d, r)

(* Slip: the connection state is tested the wrong way round.               *)
IsConnectedIn(d, r, p) == d.member[p] = r /\ p \notin d.reconnecting

(* finalizeReconnectingParticipantLeave does nothing for a participant     *)
(* that is gone or connected again.                                        *)
IsReconnectingIn(d, r, p) == d.member[p] = r /\ p \in d.reconnecting
FinalizeReconnectingLeave(d, r, p) ==
    IF IsReconnectingIn(d, r, p) THEN LeaveRoom(d, r, p) ELSE d

SweepEmptyRooms(d) == [d EXCEPT !.open = {r \in @ : Members(d, r) # {}}]
=============================================================================
