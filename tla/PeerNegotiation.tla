---------------------------- MODULE PeerNegotiation ----------------------------
(***************************************************************************)
(* How two browsers of a call agree on the tracks they exchange:           *)
(* negotiatePeerConnection and handleSignal of hooks/use-call-room.ts,     *)
(* over a peer connection that is up and a signaling channel that keeps    *)
(* the order.  Handlers are asynchronous and overlap.  What they ask of    *)
(* the RTCPeerConnection is queued in its operations chain; an operation   *)
(* and what its handler does up to the next await are one step.            *)
(*                                                                         *)
(* Tracks are counted: revision n of a browser's tracks is what it has     *)
(* after n changes that a description must tell (addTrack, removeTrack).   *)
(* ICE candidates, and the replacement of a connection that is lost in the *)
(* middle of a negotiation, are left out.                                  *)
(***************************************************************************)
EXTENDS Naturals, Sequences

CONSTANTS
    MaxChanges,    \* bound: track changes of one browser
    MaxRestarts    \* bound: ICE restarts of one browser

ASSUME BoundsAssumption == MaxChanges \in Nat /\ MaxRestarts \in Nat

Browser == {1, 2}
Other(b) == 3 - b

(* localParticipantId.localeCompare(remoteParticipantId) > 0               *)
Polite(b) == b > Other(b)

VARIABLES
    tracks,          \* revision of the tracks added to the connection
    current,         \* revision the other side was told in a finished negotiation
    seen,            \* revision of the other's tracks that was received
    signaling,       \* signalingState
    offered,         \* the local offer that is pending
    notified,        \* negotiationneeded was fired since the state was stable
    restarts,        \* recoveries of the connection, for the bound
    chain,           \* operations chain of the connection
    syncing,         \* handlers that wait for syncPeerTracks
    makingOffer,     \* PeerRecord.makingOffer
    answerPending,   \* PeerRecord.isSettingRemoteAnswerPending
    channel,         \* signal:received events on their way to a browser
    refused          \* history: operations that were rejected, per browser

connection == <<tracks, current, seen, signaling, offered, notified, restarts>>
vars == <<tracks, current, seen, signaling, offered, notified, restarts, chain,
          syncing, makingOffer, answerPending, channel, refused>>

NoOffer == [type |-> "none", revision |-> 0, answers |-> 0]
Offer(n) == [type |-> "offer", revision |-> n, answers |-> 0]
Answer(n, offer) == [type |-> "answer", revision |-> n, answers |-> offer.revision]

Op(name, description) == [name |-> name, description |-> description]
Queue(b, op) == chain' = [chain EXCEPT ![b] = Append(@, op)]

Init ==
    /\ tracks = [b \in Browser |-> 0] /\ current = tracks /\ seen = tracks
    /\ signaling = [b \in Browser |-> "stable"]
    /\ offered = [b \in Browser |-> NoOffer]
    /\ notified = [b \in Browser |-> FALSE]
    /\ restarts = [b \in Browser |-> 0]
    /\ chain = [b \in Browser |-> <<>>]
    /\ syncing = [b \in Browser |-> {}]
    /\ makingOffer = [b \in Browser |-> FALSE]
    /\ answerPending = [b \in Browser |-> FALSE]
    /\ channel = [b \in Browser |-> <<>>]
    /\ refused = [b \in Browser |-> {}]
-----------------------------------------------------------------------------
(* Making an offer                                                         *)

(* syncPeerTracks after a click: addTrack or removeTrack.                  *)
ChangeTracks(b) ==
    /\ tracks[b] < MaxChanges
    /\ tracks' = [tracks EXCEPT ![b] = @ + 1]
    /\ UNCHANGED <<current, seen, signaling, offered, notified, restarts, chain,
                   syncing, makingOffer, answerPending, channel, refused>>

(* The browser fires the event once, when the connection is stable and     *)
(* idle, until the state has been stable again.                            *)
NegotiationIsNeeded(b) ==
    /\ tracks[b] # current[b] /\ ~notified[b]
    /\ signaling[b] = "stable" /\ chain[b] = <<>>

MayNegotiate(b) == ~makingOffer[b] /\ signaling[b] = "stable"

(* negotiatePeerConnection up to its first await.                          *)
BeginNegotiation(b) ==
    IF MayNegotiate(b)
    THEN /\ makingOffer' = [makingOffer EXCEPT ![b] = TRUE]
         /\ syncing' = [syncing EXCEPT ![b] = @ \cup {NoOffer}]
    ELSE UNCHANGED <<makingOffer, syncing>>

(* onnegotiationneeded.                                                    *)
NegotiationNeeded(b) ==
    /\ NegotiationIsNeeded(b) /\ BeginNegotiation(b)
    /\ notified' = [notified EXCEPT ![b] = TRUE]
    /\ UNCHANGED <<tracks, current, seen, signaling, offered, restarts, chain,
                   answerPending, channel, refused>>

(* recoverPeerConnection, 1.5 s after the connection was lost, if nothing  *)
(* is pending: the browsers may both do it.                                *)
RestartIce(b) ==
    /\ restarts[b] < MaxRestarts /\ signaling[b] = "stable"
    /\ restarts' = [restarts EXCEPT ![b] = @ + 1]
    /\ BeginNegotiation(b)
    /\ UNCHANGED <<tracks, current, seen, signaling, offered, notified, chain,
                   answerPending, channel, refused>>

(* syncPeerTracks is over: createOffer follows, or the answer to an offer. *)
TracksSynced(b) ==
    \E d \in syncing[b] :
        /\ syncing' = [syncing EXCEPT ![b] = @ \ {d}]
        /\ Queue(b, Op(IF d = NoOffer THEN "createOffer" ELSE "setAnswer", d))
        /\ UNCHANGED <<connection, makingOffer, answerPending, channel, refused>>

(* Slip: a negotiation that ends leaves makingOffer set.                   *)
KeepMaking(b) == makingOffer

(* The finally block of negotiatePeerConnection.                           *)
DoneMaking(b) == [makingOffer EXCEPT ![b] = FALSE]

Send(b, d) == channel' = [channel EXCEPT ![Other(b)] = Append(@, d)]
Refuse(b, name) == refused' = [refused EXCEPT ![b] = @ \cup {name}]
-----------------------------------------------------------------------------
(* The operations of the connection: b's next is op, and rest follow it    *)

Next_(b, name) == chain[b] # <<>> /\ Head(chain[b]).name = name
Description(b) == Head(chain[b]).description
Executed(b) == chain' = [chain EXCEPT ![b] = Tail(@)]
Continued(b, op) == chain' = [chain EXCEPT ![b] = Append(Tail(@), op)]

CreateOffer(b) ==
    /\ Next_(b, "createOffer")
    /\ IF signaling[b] # "have-remote-offer"
       THEN /\ Continued(b, Op("setOffer", Offer(tracks[b])))
            /\ UNCHANGED <<makingOffer, refused>>
       ELSE Executed(b) /\ makingOffer' = DoneMaking(b) /\ Refuse(b, "createOffer")
    /\ UNCHANGED <<connection, syncing, answerPending, channel>>

SetOffer(b) ==
    /\ Next_(b, "setOffer") /\ Executed(b)
    /\ makingOffer' = DoneMaking(b)
    /\ IF signaling[b] # "have-remote-offer"
       THEN /\ signaling' = [signaling EXCEPT ![b] = "have-local-offer"]
            /\ offered' = [offered EXCEPT ![b] = Description(b)]
            /\ Send(b, Description(b)) /\ UNCHANGED refused
       ELSE Refuse(b, "setOffer") /\ UNCHANGED <<signaling, offered, channel>>
    /\ UNCHANGED <<tracks, current, seen, notified, restarts, syncing, answerPending>>

(* setLocalDescription({ type: 'rollback' }) is rejected in stable.        *)
Rollback(b) ==
    /\ Next_(b, "rollback")
    /\ IF signaling[b] # "stable"
       THEN /\ signaling' = [signaling EXCEPT ![b] = "stable"]
            /\ offered' = [offered EXCEPT ![b] = NoOffer]
            /\ notified' = [notified EXCEPT ![b] = FALSE]
            /\ answerPending' = [answerPending EXCEPT ![b] = FALSE]
            /\ Continued(b, Op("setRemote", Description(b))) /\ UNCHANGED refused
       ELSE /\ Executed(b) /\ Refuse(b, "rollback")
            /\ UNCHANGED <<signaling, offered, notified, answerPending>>
    /\ UNCHANGED <<tracks, current, seen, restarts, syncing, makingOffer, channel>>

(* A remote offer, which rolls a pending local one back.                   *)
SetRemoteOffer(b) ==
    /\ Next_(b, "setRemote") /\ Description(b).type = "offer" /\ Executed(b)
    /\ signaling' = [signaling EXCEPT ![b] = "have-remote-offer"]
    /\ offered' = [offered EXCEPT ![b] = NoOffer]
    /\ seen' = [seen EXCEPT ![b] = Description(b).revision]
    /\ answerPending' = [answerPending EXCEPT ![b] = FALSE]
    /\ syncing' = [syncing EXCEPT ![b] = @ \cup {Description(b)}]
    /\ UNCHANGED <<tracks, current, notified, restarts, makingOffer, channel, refused>>

(* The answer takes along as many of b's own tracks as the offer has room  *)
(* for.  In another state setLocalDescription() would make an offer.       *)
SetAnswer(b) ==
    /\ Next_(b, "setAnswer") /\ Executed(b)
    /\ IF signaling[b] = "have-remote-offer"
       THEN /\ signaling' = [signaling EXCEPT ![b] = "stable"]
            /\ notified' = [notified EXCEPT ![b] = FALSE]
            /\ \E told \in {current[b], tracks[b]} :
                  /\ current' = [current EXCEPT ![b] = told]
                  /\ Send(b, Answer(told, Description(b)))
            /\ UNCHANGED <<offered, refused>>
       ELSE Refuse(b, "setAnswer") /\ UNCHANGED <<signaling, notified, current, offered, channel>>
    /\ UNCHANGED <<tracks, seen, restarts, syncing, makingOffer, answerPending>>

(* An answer that is rejected leaves isSettingRemoteAnswerPending set.     *)
SetRemoteAnswer(b) ==
    /\ Next_(b, "setRemote") /\ Description(b).type = "answer" /\ Executed(b)
    /\ IF signaling[b] = "have-local-offer"
       THEN /\ signaling' = [signaling EXCEPT ![b] = "stable"]
            /\ notified' = [notified EXCEPT ![b] = FALSE]
            /\ current' = [current EXCEPT ![b] = offered[b].revision]
            /\ offered' = [offered EXCEPT ![b] = NoOffer]
            /\ seen' = [seen EXCEPT ![b] = Description(b).revision]
            /\ answerPending' = [answerPending EXCEPT ![b] = FALSE]
            /\ UNCHANGED refused
       ELSE /\ Refuse(b, "setRemoteAnswer")
            /\ UNCHANGED <<signaling, notified, current, offered, seen, answerPending>>
    /\ UNCHANGED <<tracks, restarts, syncing, makingOffer, channel>>
-----------------------------------------------------------------------------
(* handleSignal, up to its first await                                     *)

(* Slip: a pending offer does not make a collision.                        *)
NotMaking(b) == ~makingOffer[b]

ReadyForOffer(b) ==
    ~makingOffer[b] /\ (signaling[b] = "stable" \/ answerPending[b])

HandleSignal(b) ==
    LET d == Head(channel[b])
        collision == d.type = "offer" /\ ~ReadyForOffer(b)
    IN  /\ channel[b] # <<>>
        /\ channel' = [channel EXCEPT ![b] = Tail(@)]
        /\ CASE collision /\ ~Polite(b) -> UNCHANGED <<chain, answerPending>>
             [] collision /\ Polite(b)  -> Queue(b, Op("rollback", d)) /\ UNCHANGED answerPending
             [] ~collision -> /\ Queue(b, Op("setRemote", d))
                              /\ answerPending' = [answerPending EXCEPT ![b] = d.type = "answer"]
        /\ UNCHANGED <<connection, syncing, makingOffer, refused>>

Operation(b) ==
    \/ CreateOffer(b) \/ SetOffer(b) \/ Rollback(b)
    \/ SetRemoteOffer(b) \/ SetAnswer(b) \/ SetRemoteAnswer(b)

Next == \E b \in Browser :
    \/ ChangeTracks(b) \/ NegotiationNeeded(b) \/ RestartIce(b) \/ TracksSynced(b)
    \/ Operation(b) \/ HandleSignal(b)

Spec == Init /\ [][Next]_vars
-----------------------------------------------------------------------------
(* Nothing is under way and nothing will be begun without another change.  *)
AtRest == \A b \in Browser :
    /\ channel[b] = <<>> /\ chain[b] = <<>> /\ syncing[b] = {}
    /\ ~NegotiationIsNeeded(b)

(* Both know the other's tracks as they are.                               *)
Agreed == \A b \in Browser :
    signaling[b] = "stable" /\ current[b] = tracks[b] /\ seen[Other(b)] = tracks[b]

(* Local tracks are published when they change: at rest, both browsers     *)
(* have the other's tracks as they are.                                    *)
ChangesArePublished == AtRest => Agreed

(* However offers, answers and track changes overlap, the browsers end up  *)
(* agreed, unless a polite browser had an offer collide with one that it   *)
(* was still making: its rollback is refused and that offer is lost.       *)
AgreedUnlessRollbackRefused ==
    AtRest => Agreed \/ \E b \in Browser : Polite(b) /\ "rollback" \in refused[b]

(* The connection is never given an answer that it does not wait for: an   *)
(* answer that arrives is to the very offer that is pending.               *)
AnswersFit ==
    \A b \in Browser :
        /\ "setRemoteAnswer" \notin refused[b] /\ "setAnswer" \notin refused[b]
        /\ Next_(b, "setRemote") /\ Description(b).type = "answer"
              => Description(b).answers = offered[b].revision

(* The offer of the impolite browser stands until it is answered.          *)
ImpoliteOfferStands ==
    [][\A b \in Browser :
          ~Polite(b) /\ offered[b] # NoOffer /\ offered'[b] # offered[b]
              => current'[b] = offered[b].revision /\ signaling'[b] = "stable"]_vars
=============================================================================
