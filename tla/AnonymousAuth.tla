---------------------------- MODULE AnonymousAuth ----------------------------
(***************************************************************************)
(* services/anonymous-auth-registry.ts: the browser token that holds a     *)
(* seat (bindings) and, the other way round, the token a participant came  *)
(* with (participantToToken).                                              *)
(***************************************************************************)
EXTENDS Identifiers

AuthRegistry == [binding: [Token -> Seat],
                 tokenOf: [Participant -> Token \cup {NoToken}]]

EmptyRegistry == [binding |-> [t \in Token |-> NoSeat],
                  tokenOf |-> [p \in Participant |-> NoToken]]

BindTokenToParticipant(a, t, r, p) ==
    [binding |-> [a.binding EXCEPT ![t] = SeatOf(r, p)],
     tokenOf |-> [a.tokenOf EXCEPT ![p] = t]]

(* Slips: only one of the two stores is cleared.                           *)
ForgetToken(a, p) == [a EXCEPT !.tokenOf[p] = NoToken]
ForgetBinding(a, p) ==
    [a EXCEPT !.binding = [t \in Token |-> IF a.tokenOf[p] = t THEN NoSeat ELSE @[t]]]

(* The binding goes only if it still names this participant.               *)
UnbindParticipant(a, p) ==
    [binding |-> [t \in Token |-> IF a.tokenOf[p] = t /\ a.binding[t].participant = p
                                  THEN NoSeat ELSE a.binding[t]],
     tokenOf |-> [a.tokenOf EXCEPT ![p] = NoToken]]
=============================================================================
