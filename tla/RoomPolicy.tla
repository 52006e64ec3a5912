------------------------------ MODULE RoomPolicy ------------------------------
(***************************************************************************)
(* The policy half of services/room-orchestration.ts: what a room allows,  *)
(* and what each participant shares.  Only the media that a policy governs *)
(* are told apart; the stream ids, and what a policy does to the id of a   *)
(* forbidden screen, are for RemoteMediaBuckets.                           *)
(***************************************************************************)
EXTENDS RoomStore

CONSTANT Media   \* what a policy may forbid: screen sharing, system audio

(* What a room allows, and what each participant shares.                   *)
PolicyStore == [allowed: [Room -> SUBSET Media],
                shared:  [Participant -> SUBSET Media]]

(* getStoredPolicy seeds a new room with everything allowed.               *)
DefaultPolicies == [allowed |-> [r \in Room |-> Media],
                    shared  |-> [p \in Participant |-> {}]]

(* Slip: the owner's privilege is not asked for, nor the policy.           *)
ClampNothing(d, s, p, wanted) == wanted

(* updateMediaState: nobody but the owner gets past the policy.            *)
Clamp(d, s, p, wanted) ==
    IF p \in d.owner THEN wanted ELSE wanted \cap s.allowed[d.member[p]]

UpdateMediaState(d, s, p, wanted) ==
    [s EXCEPT !.shared = [@ EXCEPT ![p] = Clamp(d, s, p, wanted)]]

(* Slip: enforcement goes by the policy before the update.                 *)
ForcedByOldPolicy(d, s, r, policy) ==
    {p \in Members(d, r) \ d.owner : s.shared[p] \ s.allowed[r] # {}}

(* The participants whose sharing a new policy ends: never the owner.      *)
Forced(d, s, r, policy) ==
    {p \in Members(d, r) \ d.owner : s.shared[p] \ policy # {}}

UpdatePolicyAndEnforce(d, s, r, policy) ==
    [allowed |-> [s.allowed EXCEPT ![r] = policy],
     shared  |-> [p \in Participant |->
                    IF p \in Forced(d, s, r, policy) THEN s.shared[p] \cap policy
                    ELSE s.shared[p]]]

(* The policy dies with its room, what a participant shares with the       *)
(* participant: e is the directory after somebody has left.                *)
ForgetTheGone(e, s) ==
    [allowed |-> [r \in Room |-> IF r \in e.open THEN s.allowed[r] ELSE Media],
     shared  |-> [p \in Participant |-> IF e.member[p] = NoRoom THEN {} ELSE s.shared[p]]]
=============================================================================
