----------------------------- MODULE Identifiers -----------------------------
(***************************************************************************)
(* The identifiers the signaling server of apps/server keys its in-memory  *)
(* stores with, and the absent values those stores return for a missing    *)
(* key (`undefined` in the code).                                          *)
(***************************************************************************)
EXTENDS Naturals, FiniteSets

CONSTANTS
    Socket,           \* Socket.IO connections; an id is never used twice
    Room,             \* room codes
    Token,            \* anonymous browser tokens (localStorage of the client)
    MaxParticipants,  \* bound: how many participant ids are ever created
    NoSocket, NoRoom, NoToken

ASSUME SocketAssumption == NoSocket \notin Socket
ASSUME RoomAssumption == NoRoom \notin Room
ASSUME TokenAssumption == NoToken \notin Token
ASSUME ParticipantAssumption == MaxParticipants \in Nat

(* createParticipantId draws a random id per join.  The model numbers the  *)
(* ids in the order they are drawn, so that the order of the numbers is    *)
(* the order of joinedAt (ties of the clock are broken by the insertion    *)
(* order of the Map, which is the same order).                             *)
Participant == 1..MaxParticipants
NoParticipant == 0

(* A { roomId, participantId } pair, the value of a socket session and of  *)
(* an anonymous token binding, or NoSeat for a key the store does not hold. *)
NoSeat == [room |-> NoRoom, participant |-> NoParticipant]
SeatOf(r, p) == [room |-> r, participant |-> p]
Seat == [room: Room, participant: Participant] \cup {NoSeat}
=============================================================================
