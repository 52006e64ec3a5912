------------------------- MODULE SocketTrafficControl -------------------------
(***************************************************************************)
(* socket/socket-traffic-control.ts: the gate every socket has for the     *)
(* events it may send too many of.  A gate is a record: the handlers it    *)
(* has let in and not seen out (inFlight) and, per event, the timestamps   *)
(* it keeps.  The model writes down all admissions of an event in their    *)
(* order (admitted) and a kept timestamp is its place among them.  The     *)
(* clock does not run backwards.                                           *)
(***************************************************************************)
EXTENDS Naturals, Sequences, FiniteSets

CONSTANTS
    Event,        \* SocketTrafficEvent: "signal", "chat", "policy"
    MaxInFlight,
    WindowMs,
    MaxEvents

ASSUME TrafficAssumption ==
    MaxInFlight \in Nat \ {0} /\ WindowMs \in Nat /\ MaxEvents \in Nat \ {0}

OpenGate == [inFlight |-> 0,
             admitted |-> [e \in Event |-> <<>>],
             kept     |-> [e \in Event |-> {}]]

(* timestamp >= now - windowMs: an event exactly that old still counts.    *)
Fresh(g, e, now) == {i \in g.kept[e] : g.admitted[e][i] + WindowMs >= now}

(* Slip: one event more than the rule allows.                              *)
OneTooMany(g, e, now) == Cardinality(Fresh(g, e, now)) > MaxEvents

IsRateLimited(g, e, now) == Cardinality(Fresh(g, e, now)) >= MaxEvents
HasBackpressure(g) == g.inFlight >= MaxInFlight

(* enter: backpressure is looked at first.  An event that is refused is    *)
(* not counted, but timestamps that are too old are dropped.               *)
MayEnter(g, e, now) == ~HasBackpressure(g) /\ ~IsRateLimited(g, e, now)
Enter(g, e, now) ==
    [inFlight |-> g.inFlight + 1,
     admitted |-> [g.admitted EXCEPT ![e] = Append(@, now)],
     kept     |-> [g.kept EXCEPT ![e] = Fresh(g, e, now) \cup {Len(g.admitted[e]) + 1}]]
Refuse(g, e, now) ==
    IF HasBackpressure(g) THEN g ELSE [g EXCEPT !.kept = [@ EXCEPT ![e] = Fresh(g, e, now)]]

(* Slip: a handler that ends early keeps its place.                        *)
KeepPlace(g) == g

(* release, which every handler calls once, in a finally block.            *)
Release(g) == [g EXCEPT !.inFlight = IF @ = 0 THEN 0 ELSE @ - 1]
=============================================================================
