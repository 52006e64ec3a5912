-------------------------- MODULE ClientSessionProofs --------------------------
(***************************************************************************)
(* Theorems about ClientSession for every number of attempts and of broken *)
(* connections: no socket is forgotten, the page of a room stands on its   *)
(* own attempt, and a failure is not taken back by an answer of its own.   *)
(***************************************************************************)
EXTENDS ClientSession, TLAPS

(***************************************************************************)
(* The shapes of the state that the properties are about.                  *)
(***************************************************************************)
MessageType == {"join", "media", "leave", "joined", "refused", "noted", "left"}
Packet == [type: MessageType, id: Nat \ {0}]
SocketState == [link: {"new", "connecting", "open", "closed"},
                out: Seq(Packet), in: Seq(Packet)]
Callback == [attempt: Attempt, awaits: {"devices", "previewDevices", "media"}]
PageState == [
    joinState: {"idle", "joining", "joined", "error"},
    socket: Attempt \cup {None}, activeSession: Nat,
    hasJoined: BOOLEAN, preview: BOOLEAN,
    ackTimer: Attempt \cup {None}, initialTimer: Attempt \cup {None},
    continuing: SUBSET Callback,
    leaveOperation: Nat, leaves: SUBSET (Nat \ {0}),
    autoRejoined: BOOLEAN]

Typed ==
    /\ page \in PageState
    /\ sockets \in [Attempt -> SocketState]
    /\ saved \in Nat /\ used \in 0 .. MaxAttempts /\ wanted \in Nat
    /\ late \in BOOLEAN

(***************************************************************************)
(* The inductive invariant.                                                *)
(***************************************************************************)

(* What an attempt that was acknowledged, or ended in a preview, leaves on *)
(* the page for as long as it is the wanted one.                           *)
Standing ==
    \/ page.preview
    \/ page.socket = wanted /\ page.hasJoined /\ page.activeSession # None

Current(id) == id <= page.leaveOperation /\ (id = page.leaveOperation => wanted = None)

Carried(s) == Range(s.out) \cup Range(s.in)

(* The packets on the socket of the page. *)
PacketFits(m) ==
    /\ m.type \in {"leave", "left"} => Current(m.id)
    /\ m.type \in {"media", "noted"} /\ m.id = wanted => Standing

PacketsFit ==
    \A n \in Attempt : n = page.socket => \A m \in Carried(sockets[n]) : PacketFits(m)

(* The callbacks that are still to show the room. *)
CallbacksFit ==
    \A w \in page.continuing : w.attempt <= used /\ (w.attempt = wanted => Standing)

(* The timers and the socket of the page are those of one attempt. *)
OneAttempt ==
    /\ page.socket <= used
    /\ page.ackTimer \in {None, page.socket}
    /\ page.initialTimer \in {None, page.socket}
    /\ page.preview => page.socket = None

(* What a failure and a leave have settled. *)
Settled ==
    /\ page.joinState = "error" =>
           page.socket = None /\ \A w \in page.continuing : w.attempt # wanted
    /\ wanted = None => page.joinState # "joined" \/ late
    /\ \A id \in page.leaves : Current(id)

SessionInv ==
    /\ Typed
    /\ NoForgottenSocket
    /\ OneAttempt
    /\ CallbacksFit
    /\ PacketsFit
    /\ Settled
    /\ RoomHasItsSession

(***************************************************************************)
(* Queues and sockets.                                                     *)
(***************************************************************************)
LEMMA QueueAppend ==
    ASSUME NEW S, NEW q \in Seq(S), NEW m \in S
    PROVE  Append(q, m) \in Seq(S) /\ Range(Append(q, m)) = Range(q) \cup {m}
<1> DEFINE a == Append(q, m)
<1>1. /\ a \in Seq(S) /\ Len(q) \in Nat
      /\ DOMAIN a = 1 .. Len(q) + 1 /\ DOMAIN q = 1 .. Len(q)
      /\ a[Len(q) + 1] = m /\ \A i \in 1 .. Len(q) : a[i] = q[i]
  OBVIOUS
<1> HIDE DEF a
<1>2. \A x : x \in Range(a) <=> x \in Range(q) \cup {m}
  BY <1>1 DEF Range
<1> QED
  BY <1>1, <1>2 DEF a

LEMMA QueueTail ==
    ASSUME NEW S, NEW q \in Seq(S), q # <<>>
    PROVE  /\ Tail(q) \in Seq(S) /\ Range(Tail(q)) \subseteq Range(q)
           /\ Head(q) \in S /\ Head(q) \in Range(q)
BY DEF Range

LEMMA QueueEmpty == ASSUME NEW S PROVE <<>> \in Seq(S) /\ Range(<<>>) = {}
BY DEF Range

(* emit *)
LEMMA SendingEffect ==
    ASSUME NEW s \in SocketState, NEW m \in Packet
    PROVE  /\ Sending(s, m) \in SocketState
           /\ Sending(s, m).link = s.link
           /\ Carried(Sending(s, m)) \subseteq Carried(s) \cup {m}
<1>1. /\ s.out \in Seq(Packet)
      /\ Append(s.out, m) \in Seq(Packet)
      /\ Range(Append(s.out, m)) = Range(s.out) \cup {m}
  BY QueueAppend DEF SocketState
<1> QED
  BY <1>1 DEF Sending, SocketState, Carried

(* disconnect(), and a socket that is connecting *)
LEMMA DisconnectedEffect ==
    ASSUME NEW s \in SocketState
    PROVE  /\ Disconnected(s) \in SocketState
           /\ Disconnected(s).link = "closed"
           /\ Carried(Disconnected(s)) \subseteq Carried(s)
BY QueueEmpty DEF Disconnected, SocketState, Carried

LEMMA ConnectingEffect ==
    ASSUME NEW s \in SocketState
    PROVE  /\ Connecting(s) \in SocketState
           /\ Connecting(s).link = "connecting"
           /\ Carried(Connecting(s)) = {}
BY QueueEmpty DEF Connecting, SocketState, Carried

(* An answer that is received *)
LEMMA ConsumedEffect ==
    ASSUME NEW s \in SocketState, s.in # <<>>
    PROVE  LET u == [s EXCEPT !.in = Tail(@)]
           IN  /\ u \in SocketState
               /\ u.link = s.link
               /\ Carried(u) \subseteq Carried(s)
               /\ Head(s.in) \in Packet /\ Head(s.in) \in Carried(s)
BY QueueTail DEF SocketState, Carried

LEMMA DroppingEffect ==
    ASSUME sockets \in [Attempt -> SocketState], NEW n
    PROVE  /\ Dropping(n) \in [Attempt -> SocketState]
           /\ \A x \in Attempt : /\ x # n => Dropping(n)[x] = sockets[x]
                                 /\ x = n => Dropping(n)[x].link = "closed"
                                 /\ Carried(Dropping(n)[x]) \subseteq Carried(sockets[x])
BY DisconnectedEffect DEF Dropping

LEMMA InvInit == Init => SessionInv
<1> SUFFICES ASSUME Init PROVE SessionInv
  OBVIOUS
<1>1. Typed
  <2>1. NewPage \in PageState
    BY DEF NewPage, PageState, None
  <2>2. Unused \in SocketState
    BY QueueEmpty DEF Unused, SocketState
  <2>3. 0 \in 0 .. MaxAttempts
    BY BoundsAssumption
  <2> QED
    BY <2>1, <2>2, <2>3 DEF Init, Typed, None
<1>2. NoForgottenSocket /\ OneAttempt /\ CallbacksFit /\ Settled /\ RoomHasItsSession
  BY DEF Init, NewPage, Unused, NoForgottenSocket, OneAttempt, CallbacksFit, Settled,
         RoomHasItsSession, None
<1>3. PacketsFit
  BY DEF Init, NewPage, PacketsFit, None, Attempt
<1> QED
  BY <1>1, <1>2, <1>3 DEF SessionInv

(***************************************************************************)
(* A step that neither shows a page nor changes what it stands on: it may  *)
(* clear timers, finish callbacks and move packets.                        *)
(***************************************************************************)
QuietPage ==
    /\ page' \in PageState
    /\ \A f \in {"joinState", "socket", "activeSession", "hasJoined", "preview",
                 "leaveOperation"} : page'[f] = page[f]
    /\ page'.ackTimer \in {None, page.ackTimer, page.socket}
    /\ page'.initialTimer \in {None, page.initialTimer}
    /\ \A x \in page'.continuing : \E w \in page.continuing : x.attempt = w.attempt
    /\ page'.leaves \subseteq page.leaves

QuietSockets ==
    /\ sockets' \in [Attempt -> SocketState]
    /\ \A n \in Attempt :
          /\ sockets'[n].link \in {"connecting", "open"} =>
                 sockets[n].link \in {"connecting", "open"}
          /\ \A m \in Carried(sockets'[n]) :
                 m \in Carried(sockets[n]) \/ (n = page.socket => PacketFits(m))

LEMMA QuietStep ==
    ASSUME SessionInv, QuietPage, QuietSockets, UNCHANGED <<saved, used, wanted, late>>
    PROVE  SessionInv'
<1> USE DEF SessionInv, QuietPage
<1>1. /\ page'.joinState = page.joinState /\ page'.socket = page.socket
      /\ page'.activeSession = page.activeSession /\ page'.hasJoined = page.hasJoined
      /\ page'.preview = page.preview /\ page'.leaveOperation = page.leaveOperation
  OBVIOUS
<1>2. Typed'
  BY DEF Typed, QuietSockets
<1>3. Standing' <=> Standing
  BY <1>1 DEF Standing
<1>4. \A id : Current(id)' <=> Current(id)
  BY <1>1 DEF Current
<1>5. \A m : PacketFits(m)' <=> PacketFits(m)
  BY <1>3, <1>4 DEF PacketFits
<1>6. NoForgottenSocket'
  BY <1>1 DEF NoForgottenSocket, QuietSockets
<1>7. OneAttempt'
  BY <1>1 DEF OneAttempt
<1>8. CallbacksFit'
  BY <1>3 DEF CallbacksFit
<1>9. PacketsFit'
  BY <1>1, <1>5 DEF PacketsFit, QuietSockets
<1>10. Settled'
  BY <1>1, <1>4 DEF Settled
<1>11. RoomHasItsSession'
  BY <1>1 DEF RoomHasItsSession
<1> QED
  BY <1>2, <1>6, <1>7, <1>8, <1>9, <1>10, <1>11

(* A packet keeps its place while the server answers it. *)
LEMMA ServeStep == ASSUME SessionInv, NEW n \in Attempt, Serve(n) PROVE SessionInv'
<1> DEFINE s == sockets[n]
           m == Head(s.out)
<1>1. s \in SocketState /\ s.out # <<>> /\ page \in PageState
  BY DEF SessionInv, Typed, Serve
<1>2. /\ Tail(s.out) \in Seq(Packet) /\ Range(Tail(s.out)) \subseteq Range(s.out)
      /\ m \in Packet /\ m \in Range(s.out)
  BY <1>1, QueueTail DEF SocketState
<1>3. PICK type \in {"joined", "refused", "noted", "left"} :
         /\ type = "left" => m.type = "leave"
         /\ type = "noted" => m.type = "media"
         /\ sockets' = [sockets EXCEPT
               ![n].out = Tail(@),
               ![n].in = IF s.link = "open" THEN Append(@, Message(type, m.id)) ELSE @]
  BY DEF Serve
<1>4. Message(type, m.id) \in Packet
  BY <1>2, <1>3 DEF Message, Packet, MessageType
<1>5. n = page.socket => PacketFits(Message(type, m.id))
  BY <1>2, <1>3 DEF SessionInv, PacketsFit, PacketFits, Carried, Message
<1>6. /\ sockets'[n].link = s.link
      /\ sockets'[n].out = Tail(s.out)
      /\ sockets'[n].in = IF s.link = "open" THEN Append(s.in, Message(type, m.id)) ELSE s.in
      /\ sockets'[n] \in SocketState
  <2> DEFINE reply == IF s.link = "open" THEN Append(s.in, Message(type, m.id)) ELSE s.in
             u     == [[s EXCEPT !.out = Tail(s.out)] EXCEPT !.in = reply]
  <2>1. sockets \in [Attempt -> SocketState]
    BY DEF SessionInv, Typed
  <2>2. sockets' = [sockets EXCEPT ![n] = u]
    BY <1>3, <2>1 DEF SocketState
  <2>3. Append(s.in, Message(type, m.id)) \in Seq(Packet)
    BY <1>1, <1>4, QueueAppend DEF SocketState
  <2>4. reply \in Seq(Packet)
    BY <1>1, <2>3 DEF SocketState
  <2> HIDE DEF s, m, reply
  <2>5. /\ u \in SocketState
        /\ u.link = s.link /\ u.out = Tail(s.out) /\ u.in = reply
    BY <1>1, <1>2, <2>4 DEF SocketState
  <2> HIDE DEF u
  <2>6. sockets'[n] = u
    BY <2>1, <2>2
  <2> QED
    BY <2>5, <2>6 DEF reply
<1>7. \A x \in Attempt \ {n} : sockets'[x] = sockets[x]
  BY <1>3 DEF SessionInv, Typed
<1>8. \A x \in Carried(sockets'[n]) : x \in Carried(s) \/ x = Message(type, m.id)
  <2>1. s.in \in Seq(Packet)
    BY <1>1 DEF SocketState
  <2>2. Range(Append(s.in, Message(type, m.id))) = Range(s.in) \cup {Message(type, m.id)}
    BY <1>4, <2>1, QueueAppend
  <2> QED
    BY <1>2, <1>6, <2>2 DEF Carried
<1>9. QuietSockets
  <2>1. sockets' \in [Attempt -> SocketState]
    <3>1. \A x \in Attempt : sockets'[x] \in SocketState
      BY <1>6, <1>7 DEF SessionInv, Typed
    <3>2. sockets' = [x \in Attempt |-> sockets'[x]]
      BY <1>3 DEF SessionInv, Typed
    <3> QED
      BY <3>1, <3>2
  <2> QED
    BY <1>5, <1>6, <1>7, <1>8, <2>1 DEF QuietSockets
<1>10. QuietPage
  BY <1>1 DEF QuietPage, Serve
<1> QED
  BY <1>9, <1>10, QuietStep DEF Serve

(* The connection breaks, is up again, or is given up by a joined page.    *)
LEMMA ConnectionStep ==
    ASSUME SessionInv, NEW n \in Attempt,
           \/ RemoveMember(n) \/ Break(n) \/ Connect(n)
           \/ GiveUp(n) /\ ~StillJoining
    PROVE  SessionInv'
<1>1. page \in PageState /\ sockets \in [Attempt -> SocketState]
  BY DEF SessionInv, Typed
<1>2. CASE RemoveMember(n)
  BY <1>1, <1>2, QuietStep DEF RemoveMember, QuietPage, QuietSockets
<1>3. CASE Break(n)
  <2>1. QuietSockets
    BY <1>1, <1>3, ConnectingEffect DEF Break, QuietSockets
  <2>2. QuietPage
    BY <1>1, <1>3 DEF Break, QuietPage, PageState
  <2> QED
    BY <1>3, <2>1, <2>2, QuietStep DEF Break
<1>4. CASE Connect(n)
  <2> DEFINE c == page.activeSession
             s == [sockets[n] EXCEPT !.link = "open"]
             m == Message("join", c)
  <2>1. s \in SocketState /\ Carried(s) = Carried(sockets[n])
    BY <1>1 DEF SocketState, Carried
  <2>2. c # None => m \in Packet /\ PacketFits(m)
    BY <1>1 DEF PageState, Packet, MessageType, Message, PacketFits, None
  <2> HIDE DEF s, m
  <2>3. c # None => /\ Sending(s, m) \in SocketState
                    /\ Carried(Sending(s, m)) \subseteq Carried(sockets[n]) \cup {m}
    BY <2>1, <2>2, SendingEffect
  <2>4. sockets' = [sockets EXCEPT ![n] = IF c = None THEN s ELSE Sending(s, m)]
    BY <1>4 DEF Connect, s, m
  <2>5. n = page.socket /\ sockets[n].link = "connecting"
    BY <1>4 DEF Connect, SessionInv, NoForgottenSocket
  <2>6. QuietSockets
    BY <1>1, <2>1, <2>2, <2>3, <2>4, <2>5 DEF QuietSockets
  <2>7. QuietPage
    BY <1>1, <1>4, <2>5 DEF Connect, QuietPage, PageState
  <2> QED
    BY <1>4, <2>6, <2>7, QuietStep DEF Connect
<1>5. CASE GiveUp(n) /\ ~StillJoining
  <2>1. page' = page /\ sockets' = Dropping(n)
    BY <1>5 DEF GiveUp, FailInitialJoin
  <2>2. QuietSockets
    BY <1>1, <2>1, DroppingEffect DEF QuietSockets
  <2>3. QuietPage
    BY <1>1, <2>1 DEF QuietPage
  <2> QED
    BY <1>5, <2>2, <2>3, QuietStep DEF GiveUp
<1> QED
  BY <1>2, <1>3, <1>4, <1>5

(* A socket that is not closed is the page's own, and a packet that is     *)
(* received came over it.                                                  *)
LEMMA ReceivedEffect ==
    ASSUME SessionInv, NEW n \in Attempt, NEW type, Received(n, type)
    PROVE  /\ n = page.socket
           /\ Consumed(n) \in [Attempt -> SocketState]
           /\ \A x \in Attempt : /\ Consumed(n)[x].link = sockets[x].link
                                 /\ Carried(Consumed(n)[x]) \subseteq Carried(sockets[x])
           /\ Head(sockets[n].in) \in Packet
           /\ Id(n) \in Nat \ {0}
           /\ Head(sockets[n].in).type = type
           /\ PacketFits(Head(sockets[n].in))
<1> DEFINE s == sockets[n]
           u == [s EXCEPT !.in = Tail(@)]
<1>1. sockets \in [Attempt -> SocketState] /\ s.in # <<>>
  BY DEF SessionInv, Typed, Received
<1>2. n = page.socket
  BY DEF SessionInv, NoForgottenSocket, Received
<1>3. /\ u \in SocketState /\ u.link = s.link
      /\ Carried(u) \subseteq Carried(s)
      /\ Head(s.in) \in Packet /\ Head(s.in) \in Carried(s)
  BY <1>1, ConsumedEffect
<1>4. Consumed(n) = [sockets EXCEPT ![n] = u]
  BY DEF Consumed
<1>5. PacketFits(Head(s.in))
  BY <1>2, <1>3 DEF SessionInv, PacketsFit
<1>6. Id(n) \in Nat \ {0} /\ Head(s.in).type = type
  BY <1>3 DEF Id, Packet, Received
<1> HIDE DEF u, s
<1>7. /\ Consumed(n) \in [Attempt -> SocketState]
      /\ \A x \in Attempt : /\ Consumed(n)[x].link = sockets[x].link
                            /\ Carried(Consumed(n)[x]) \subseteq Carried(sockets[x])
  BY <1>1, <1>3, <1>4 DEF s
<1> QED
  BY <1>2, <1>3, <1>5, <1>6, <1>7 DEF s

(* Only the attempt that holds the page's socket can fail, and only before *)
(* it was acknowledged: nothing stands on it yet.                          *)
LEMMA FailureStep ==
    ASSUME SessionInv, NEW n \in Attempt, n = page.socket, FailInitialJoin(n),
           UNCHANGED <<saved, used, wanted, late>>
    PROVE  SessionInv'
<1>1. /\ page \in PageState /\ sockets \in [Attempt -> SocketState]
      /\ ~page.hasJoined
  BY DEF SessionInv, Typed, FailInitialJoin, StillJoining
<1>2. ~page.preview /\ ~Standing
  BY <1>1 DEF SessionInv, OneAttempt, Attempt, None, Standing
<1>3. /\ sockets' = Dropping(n) /\ sockets' \in [Attempt -> SocketState]
      /\ page'.socket = None
  <2>1. sockets' = Dropping(n)
    BY DEF FailInitialJoin, StartPreview, ShowError
  <2>2. page'.socket = None
    BY <1>1 DEF FailInitialJoin, StartPreview, ShowError, PageState
  <2>3. Dropping(n) \in [Attempt -> SocketState]
    BY <1>1, DroppingEffect
  <2> QED
    BY <2>1, <2>2, <2>3
<1>4. NoForgottenSocket'
  BY <1>1, <1>3, DroppingEffect DEF SessionInv, NoForgottenSocket
<1>5. PacketsFit'
  BY <1>3 DEF PacketsFit, Attempt, None
<1>6. page' \in PageState
  <2>1. [attempt |-> n, awaits |-> "previewDevices"] \in Callback
    BY DEF Callback
  <2>2. page.continuing \cup {[attempt |-> n, awaits |-> "previewDevices"]} \in SUBSET Callback
    BY <1>1, <2>1 DEF PageState
  <2>3. CASE StartPreview(n)
    <3> DEFINE more == page.continuing \cup {[attempt |-> n, awaits |-> "previewDevices"]}
    <3>1. page' = [page EXCEPT !.ackTimer = None, !.initialTimer = None, !.socket = None,
                               !.preview = TRUE, !.continuing = more]
      BY <2>3 DEF StartPreview
    <3>2. more \in SUBSET Callback
      BY <2>2
    <3> HIDE DEF more
    <3> QED
      BY <1>1, <3>1, <3>2 DEF PageState
  <2>4. CASE ShowError(n)
    BY <1>1, <2>4 DEF ShowError, PageState, None
  <2> QED
    BY <2>3, <2>4 DEF FailInitialJoin
<1>7. Typed'
  BY <1>3, <1>6 DEF SessionInv, Typed
<1>8. /\ page'.leaveOperation = page.leaveOperation /\ page'.leaves = page.leaves
      /\ page'.ackTimer = None /\ page'.initialTimer = None
  <2>1. CASE StartPreview(n)
    BY <1>1, <2>1 DEF StartPreview, PageState
  <2>2. CASE ShowError(n)
    BY <1>1, <2>2 DEF ShowError, PageState
  <2> QED
    BY <2>1, <2>2 DEF FailInitialJoin
<1>9. OneAttempt'
  BY <1>3, <1>7, <1>8 DEF OneAttempt, Typed, None
<1>10. n <= used
  BY DEF SessionInv, OneAttempt
<1>11. CASE StartPreview(n)
  <2>1. /\ page'.preview /\ page'.joinState = page.joinState
        /\ page'.continuing =
               page.continuing \cup {[attempt |-> n, awaits |-> "previewDevices"]}
    BY <1>1, <1>11 DEF StartPreview, PageState
  <2>2. CallbacksFit'
    BY <1>10, <2>1 DEF SessionInv, CallbacksFit, Standing
  <2>3. page.joinState # "error"
    BY DEF SessionInv, Settled, Attempt, None
  <2>4. Settled'
    BY <1>8, <2>1, <2>3 DEF SessionInv, Settled, Current
  <2>5. RoomHasItsSession'
    BY <2>1 DEF RoomHasItsSession
  <2> QED
    BY <1>4, <1>5, <1>7, <1>9, <2>2, <2>4, <2>5 DEF SessionInv
<1>12. CASE ShowError(n)
  <2>1. page'.joinState = "error" /\ page'.continuing = page.continuing
    BY <1>1, <1>12 DEF ShowError, PageState
  <2>2. \A w \in page.continuing : w.attempt # wanted /\ w.attempt <= used
    BY <1>2 DEF SessionInv, CallbacksFit
  <2>3. CallbacksFit'
    BY <2>1, <2>2 DEF CallbacksFit
  <2>4. Settled'
    BY <1>3, <1>8, <2>1, <2>2 DEF SessionInv, Settled, Current
  <2>5. RoomHasItsSession'
    BY <2>1 DEF RoomHasItsSession
  <2> QED
    BY <1>4, <1>5, <1>7, <1>9, <2>3, <2>4, <2>5 DEF SessionInv
<1> QED
  BY <1>11, <1>12 DEF FailInitialJoin

LEMMA GiveUpStep == ASSUME SessionInv, NEW n \in Attempt, GiveUp(n) PROVE SessionInv'
<1>1. n = page.socket
  BY DEF SessionInv, NoForgottenSocket, GiveUp
<1>2. CASE FailInitialJoin(n)
  BY <1>1, <1>2, FailureStep DEF GiveUp
<1>3. CASE ~StillJoining
  BY <1>3, ConnectionStep
<1> QED
  BY <1>2, <1>3 DEF GiveUp

LEMMA TimeoutStep == ASSUME SessionInv, NEW n \in Attempt, JoinTimeout(n) PROVE SessionInv'
<1>1. n = page.socket
  BY DEF SessionInv, OneAttempt, JoinTimeout, Attempt, None
<1>2. CASE FailInitialJoin(n)
  BY <1>1, <1>2, FailureStep DEF JoinTimeout
<1>3. CASE ~FailInitialJoin(n)
  <2>1. page \in PageState /\ sockets \in [Attempt -> SocketState]
    BY DEF SessionInv, Typed
  <2>2. page' = [page EXCEPT !.ackTimer = None] /\ sockets' = sockets
    BY <1>3 DEF JoinTimeout
  <2>3. QuietPage /\ QuietSockets
    BY <2>1, <2>2 DEF QuietPage, QuietSockets, PageState
  <2> QED
    BY <2>3, QuietStep DEF JoinTimeout
<1> QED
  BY <1>2, <1>3

LEMMA RefusedStep == ASSUME SessionInv, NEW n \in Attempt, JoinRefused(n) PROVE SessionInv'
<1>1. /\ n = page.socket /\ Consumed(n) \in [Attempt -> SocketState]
      /\ \A x \in Attempt : /\ Consumed(n)[x].link = sockets[x].link
                            /\ Carried(Consumed(n)[x]) \subseteq Carried(sockets[x])
  BY ReceivedEffect DEF JoinRefused
<1>2. CASE FailInitialJoin(n)
  BY <1>1, <1>2, FailureStep DEF JoinRefused
<1>3. CASE ~FailInitialJoin(n)
  <2>1. page \in PageState
    BY DEF SessionInv, Typed
  <2>2. page' = [page EXCEPT !.ackTimer = None] /\ sockets' = Consumed(n)
    BY <1>3 DEF JoinRefused
  <2>3. QuietPage /\ QuietSockets
    BY <1>1, <2>1, <2>2 DEF QuietPage, QuietSockets, PageState
  <2> QED
    BY <2>3, QuietStep DEF JoinRefused
<1> QED
  BY <1>2, <1>3

(* The acknowledgement comes over the page's socket, so that the wanted    *)
(* attempt, if it is this one, stands from now on.                         *)
LEMMA AcknowledgedStep ==
    ASSUME SessionInv, NEW n \in Attempt, JoinAcknowledged(n) PROVE SessionInv'
<1>1. /\ n = page.socket /\ Consumed(n) \in [Attempt -> SocketState]
      /\ \A x \in Attempt : /\ Consumed(n)[x].link = sockets[x].link
                            /\ Carried(Consumed(n)[x]) \subseteq Carried(sockets[x])
      /\ Id(n) \in Nat \ {0}
  BY ReceivedEffect DEF JoinAcknowledged
<1>2. page \in PageState
  BY DEF SessionInv, Typed
<1>3. /\ page'.socket = page.socket /\ page'.preview = page.preview
      /\ page'.joinState = page.joinState /\ page'.hasJoined
      /\ page'.activeSession = Id(n)
      /\ page'.leaveOperation = page.leaveOperation /\ page'.leaves = page.leaves
      /\ page'.ackTimer = None /\ page'.initialTimer = None
      /\ page'.continuing = page.continuing \cup {[attempt |-> n, awaits |-> "devices"]}
      /\ page' \in PageState
  <2>1. [attempt |-> n, awaits |-> "devices"] \in Callback
    BY DEF Callback
  <2>2. page.continuing \cup {[attempt |-> n, awaits |-> "devices"]} \in SUBSET Callback
    BY <1>2, <2>1 DEF PageState
  <2> DEFINE more == page.continuing \cup {[attempt |-> n, awaits |-> "devices"]}
             c    == Id(n)
  <2>3. c \in Nat
    BY <1>1
  <2>4. page' = [page EXCEPT !.ackTimer = None, !.initialTimer = None, !.hasJoined = TRUE,
                             !.activeSession = c, !.continuing = more]
    BY DEF JoinAcknowledged
  <2> HIDE DEF more, c
  <2>5. page' \in PageState
    BY <1>2, <2>2, <2>3, <2>4 DEF PageState, more
  <2>6. /\ page'.socket = page.socket /\ page'.preview = page.preview
        /\ page'.joinState = page.joinState /\ page'.hasJoined
        /\ page'.activeSession = c
        /\ page'.leaveOperation = page.leaveOperation /\ page'.leaves = page.leaves
        /\ page'.ackTimer = None /\ page'.initialTimer = None
        /\ page'.continuing = more
    BY <1>2, <2>4 DEF PageState
  <2> QED
    BY <2>5, <2>6 DEF more, c
<1>4. sockets' = Consumed(n) /\ UNCHANGED <<saved, used, wanted, late>>
  BY DEF JoinAcknowledged
<1>5. Typed'
  BY <1>1, <1>3, <1>4 DEF SessionInv, Typed
<1>6. NoForgottenSocket' /\ OneAttempt'
  BY <1>1, <1>3, <1>4 DEF SessionInv, NoForgottenSocket, OneAttempt
<1>7. Standing => Standing'
  BY <1>1, <1>3, <1>4 DEF Standing, None
<1>8. n <= used /\ (n = wanted => Standing')
  BY <1>1, <1>3, <1>4 DEF SessionInv, OneAttempt, Standing, None
<1>9. CallbacksFit'
  BY <1>3, <1>4, <1>7, <1>8 DEF SessionInv, CallbacksFit
<1>10. \A m : PacketFits(m) => PacketFits(m)'
  BY <1>3, <1>4, <1>7 DEF PacketFits, Current
<1>11. PacketsFit'
  BY <1>1, <1>3, <1>4, <1>10 DEF SessionInv, PacketsFit
<1>12. Settled'
  BY <1>1, <1>3, <1>4 DEF SessionInv, Settled, Current, Attempt, None
<1>13. RoomHasItsSession'
  BY <1>1, <1>3, <1>4 DEF SessionInv, RoomHasItsSession, None
<1> QED
  BY <1>5, <1>6, <1>9, <1>11, <1>12, <1>13 DEF SessionInv

(* setJoinState('joined'): of a callback that is not late, the attempt is  *)
(* the wanted one and stands.                                              *)
LEMMA ShowRoomStep ==
    ASSUME SessionInv, NEW w, w.attempt # None, w.attempt = wanted => Standing,
           page.joinState = "error" => w.attempt # wanted,
           ShowRoom(w), QuietSockets, UNCHANGED <<saved, used, wanted>>
    PROVE  SessionInv'
<1>1. page \in PageState /\ late \in BOOLEAN
  BY DEF SessionInv, Typed
<1>2. /\ page'.joinState = "joined" /\ page'.continuing = page.continuing \ {w}
      /\ \A f \in {"socket", "activeSession", "hasJoined", "preview", "leaveOperation",
                   "leaves", "ackTimer", "initialTimer"} : page'[f] = page[f]
      /\ page' \in PageState
  BY <1>1 DEF ShowRoom, PageState
<1>3. /\ page'.socket = page.socket /\ page'.activeSession = page.activeSession
      /\ page'.hasJoined = page.hasJoined /\ page'.preview = page.preview
      /\ page'.leaveOperation = page.leaveOperation /\ page'.leaves = page.leaves
      /\ page'.ackTimer = page.ackTimer /\ page'.initialTimer = page.initialTimer
  BY <1>2
<1>4. late' = (late \/ w.attempt # wanted)
  BY DEF ShowRoom
<1>5. w.attempt # None
  OBVIOUS
<1>6. Typed'
  BY <1>1, <1>2, <1>4 DEF SessionInv, Typed, QuietSockets
<1>7. NoForgottenSocket' /\ OneAttempt'
  BY <1>3 DEF SessionInv, NoForgottenSocket, OneAttempt, QuietSockets
<1>8. Standing' <=> Standing
  BY <1>3 DEF Standing
<1>9. CallbacksFit'
  BY <1>2, <1>8 DEF SessionInv, CallbacksFit
<1>10. \A m : PacketFits(m)' <=> PacketFits(m)
  BY <1>3, <1>8 DEF PacketFits, Current
<1>11. PacketsFit'
  BY <1>3, <1>10 DEF SessionInv, PacketsFit, QuietSockets
<1>12. Settled'
  BY <1>2, <1>3, <1>4, <1>5 DEF SessionInv, Settled, Current
<1>13. RoomHasItsSession'
  <2>1. w.attempt = wanted => Standing'
    BY <1>8
  <2> QED
    BY <1>2, <1>4, <1>5, <2>1 DEF RoomHasItsSession, Standing
<1> QED
  BY <1>6, <1>7, <1>9, <1>11, <1>12, <1>13 DEF SessionInv

LEMMA DevicesStep ==
    ASSUME SessionInv, NEW w \in page.continuing, DevicesListed(w) PROVE SessionInv'
<1>1. page \in PageState /\ sockets \in [Attempt -> SocketState] /\ w \in Callback
  BY DEF SessionInv, Typed, PageState
<1>2. /\ w.attempt # None
      /\ w.attempt = wanted => Standing
      /\ page.joinState = "error" => w.attempt # wanted
  BY <1>1 DEF SessionInv, CallbacksFit, Settled, Callback, Attempt, None
<1>3. CASE w.awaits = "previewDevices" \/ page.socket = None
  <2>1. sockets' = sockets /\ ShowRoom(w)
    BY <1>3 DEF DevicesListed
  <2>2. QuietSockets
    BY <1>1, <2>1 DEF QuietSockets
  <2> QED
    BY <1>1, <1>2, <2>1, <2>2, ShowRoomStep DEF DevicesListed
<1>4. CASE w.awaits # "previewDevices" /\ page.socket # None
  <2> DEFINE n == page.socket
             m == Message("media", w.attempt)
  <2>1. n \in Attempt /\ m \in Packet /\ PacketFits(m)
    BY <1>1, <1>2, <1>4
       DEF PageState, Callback, Attempt, Packet, MessageType, Message, PacketFits
  <2>2. /\ Sending(sockets[n], m) \in SocketState
        /\ Sending(sockets[n], m).link = sockets[n].link
        /\ Carried(Sending(sockets[n], m)) \subseteq Carried(sockets[n]) \cup {m}
    BY <1>1, <2>1, SendingEffect
  <2>3. sockets' = [sockets EXCEPT ![n] = Sending(sockets[n], m)]
    BY <1>4 DEF DevicesListed, Emitting
  <2> DEFINE v    == [w EXCEPT !.awaits = "media"]
             more == (page.continuing \ {w}) \cup {v}
  <2>4. v \in Callback /\ v.attempt = w.attempt
    BY <1>1 DEF Callback
  <2>5. page' = [page EXCEPT !.continuing = more]
    BY <1>4 DEF DevicesListed
  <2>6. more \in SUBSET Callback /\ \A x \in more : \E y \in page.continuing : x.attempt = y.attempt
    BY <1>1, <2>4 DEF PageState
  <2> HIDE DEF m, v, more, n
  <2>7. QuietSockets
    BY <1>1, <2>1, <2>2, <2>3 DEF QuietSockets
  <2>8. QuietPage
    BY <1>1, <2>5, <2>6 DEF QuietPage, PageState
  <2>9. UNCHANGED <<saved, used, wanted, late>>
    BY <1>4 DEF DevicesListed
  <2> QED
    BY <2>7, <2>8, <2>9, QuietStep
<1> QED
  BY <1>3, <1>4

LEMMA NotedStep == ASSUME SessionInv, NEW n \in Attempt, MediaStateNoted(n) PROVE SessionInv'
<1> DEFINE w == [attempt |-> Id(n), awaits |-> "media"]
<1>1. /\ n = page.socket /\ Consumed(n) \in [Attempt -> SocketState]
      /\ \A x \in Attempt : /\ Consumed(n)[x].link = sockets[x].link
                            /\ Carried(Consumed(n)[x]) \subseteq Carried(sockets[x])
      /\ Id(n) \in Nat \ {0}
      /\ Head(sockets[n].in).type = "noted" /\ PacketFits(Head(sockets[n].in))
  BY ReceivedEffect DEF MediaStateNoted
<1>2. Id(n) = wanted => Standing
  BY <1>1 DEF PacketFits, Id
<1>3. page.joinState # "error"
  BY <1>1 DEF SessionInv, Settled, Attempt, None
<1>4. QuietSockets
  BY <1>1 DEF MediaStateNoted, QuietSockets
<1>5. ShowRoom(w) /\ UNCHANGED <<saved, used, wanted>>
  BY DEF MediaStateNoted
<1> QED
  <2>1. w.attempt = Id(n) /\ w.attempt # None
    BY <1>1 DEF None
  <2> HIDE DEF w
  <2> QED
    BY <1>2, <1>3, <1>4, <1>5, <2>1, ShowRoomStep

(* Of a page that is torn down nothing stands, and nobody wants it.        *)
LEMMA TornDownStep ==
    ASSUME SessionInv, NEW p \in PageState, page' = TornDown(p), wanted' = None,
           p.leaves \subseteq page.leaves, page.leaveOperation <= p.leaveOperation,
           p.continuing = page.continuing, p.joinState = "joined" => late',
           sockets' \in [Attempt -> SocketState],
           \A n \in Attempt :
               sockets'[n].link \in {"connecting", "open"} =>
                   sockets[n].link \in {"connecting", "open"} /\ n # page.socket,
           saved' \in Nat, UNCHANGED <<used, late>>
    PROVE  SessionInv'
<1>1. page \in PageState
  BY DEF SessionInv, Typed
<1>2. /\ page'.socket = None /\ ~page'.preview
      /\ page'.ackTimer = None /\ page'.initialTimer = None
      /\ page'.leaves = p.leaves /\ page'.leaveOperation = p.leaveOperation
      /\ page'.joinState = p.joinState /\ page'.continuing = page.continuing
      /\ page' \in PageState
  BY DEF TornDown, PageState, None
<1>3. Typed'
  BY <1>2 DEF SessionInv, Typed, None
<1>4. NoForgottenSocket'
  BY <1>2 DEF SessionInv, NoForgottenSocket
<1>5. OneAttempt'
  BY <1>2, <1>3 DEF OneAttempt, Typed, None
<1>6. \A w \in page.continuing : w.attempt # None /\ w.attempt <= used
  BY <1>1 DEF SessionInv, CallbacksFit, PageState, Callback, Attempt, None
<1>7. CallbacksFit'
  BY <1>2, <1>6 DEF CallbacksFit
<1>8. PacketsFit'
  BY <1>2 DEF PacketsFit, Attempt, None
<1>9. \A id \in page'.leaves : Current(id)'
  BY <1>1, <1>2 DEF SessionInv, Settled, Current, PageState
<1>10. Settled'
  BY <1>2, <1>6, <1>9 DEF Settled
<1>11. RoomHasItsSession'
  BY <1>2 DEF RoomHasItsSession
<1> QED
  BY <1>3, <1>4, <1>5, <1>7, <1>8, <1>10, <1>11 DEF SessionInv

(* finishLeave tears the page down only for the last operation, which was  *)
(* then no join.                                                           *)
LEMMA FinishStep ==
    ASSUME SessionInv, NEW id \in Nat \ {0}, Current(id), NEW net \in [Attempt -> SocketState],
           \A n \in Attempt : /\ net[n].link = sockets[n].link
                              /\ Carried(net[n]) \subseteq Carried(sockets[n]),
           FinishLeave(id, net), UNCHANGED <<saved, used, wanted, late>>
    PROVE  SessionInv'
<1> DEFINE done == [page EXCEPT !.leaves = @ \ {id}]
<1>1. page \in PageState
  BY DEF SessionInv, Typed
<1>2. /\ done \in PageState /\ done.leaves \subseteq page.leaves
      /\ done.leaveOperation = page.leaveOperation /\ done.continuing = page.continuing
      /\ done.joinState = page.joinState
  BY <1>1 DEF PageState
<1>3. CASE IsLastOperation(id)
  <2>1. wanted = None /\ (page.joinState = "joined" => late)
    BY <1>3 DEF IsLastOperation, Current, SessionInv, Settled
  <2>2. page' = TornDown(done)
    BY <1>3 DEF FinishLeave
  <2>3. sockets' = [n \in Attempt |-> IF n = page.socket THEN Disconnected(net[n]) ELSE net[n]]
    BY <1>3 DEF FinishLeave
  <2>4. \A n \in Attempt : Disconnected(net[n]) \in SocketState /\ Disconnected(net[n]).link = "closed"
    BY DisconnectedEffect
  <2>5. sockets' \in [Attempt -> SocketState]
    BY <2>3, <2>4
  <2>6. \A n \in Attempt :
            sockets'[n].link \in {"connecting", "open"} =>
                sockets[n].link \in {"connecting", "open"} /\ n # page.socket
    BY <2>3, <2>4
  <2>7. saved' \in Nat /\ page.leaveOperation <= done.leaveOperation
    BY <1>1, <1>2 DEF SessionInv, Typed, PageState
  <2> HIDE DEF done
  <2> QED
    BY <1>2, <2>1, <2>2, <2>5, <2>6, <2>7, TornDownStep
<1>4. CASE ~IsLastOperation(id)
  <2>1. page' = done /\ sockets' = net
    BY <1>4 DEF FinishLeave
  <2>2. QuietPage
    BY <1>1, <1>2, <2>1 DEF QuietPage, PageState
  <2>3. QuietSockets
    BY <2>1 DEF QuietSockets
  <2> QED
    BY <2>2, <2>3, QuietStep
<1> QED
  BY <1>3, <1>4

LEMMA LeftStep ==
    ASSUME SessionInv, LeaveTimeout \/ \E n \in Attempt : LeaveAcknowledged(n)
    PROVE  SessionInv'
<1>1. page \in PageState /\ sockets \in [Attempt -> SocketState]
  BY DEF SessionInv, Typed
<1>2. CASE LeaveTimeout
  <2>1. PICK id \in page.leaves : FinishLeave(id, sockets)
    BY <1>2 DEF LeaveTimeout
  <2>2. id \in Nat \ {0} /\ Current(id)
    BY <1>1 DEF PageState, SessionInv, Settled
  <2>3. UNCHANGED <<saved, used, wanted, late>>
    BY <1>2 DEF LeaveTimeout
  <2> QED
    BY <1>1, <2>1, <2>2, <2>3, FinishStep
<1>3. ASSUME NEW n \in Attempt, LeaveAcknowledged(n) PROVE SessionInv'
  <2>1. Received(n, "left") /\ FinishLeave(Id(n), Consumed(n))
        /\ UNCHANGED <<saved, used, wanted, late>>
    BY <1>3 DEF LeaveAcknowledged
  <2>2. /\ Consumed(n) \in [Attempt -> SocketState]
        /\ \A x \in Attempt : /\ Consumed(n)[x].link = sockets[x].link
                              /\ Carried(Consumed(n)[x]) \subseteq Carried(sockets[x])
        /\ Id(n) \in Nat \ {0} /\ Current(Id(n))
    BY <2>1, ReceivedEffect DEF PacketFits, Id
  <2> QED
    BY <2>1, <2>2, FinishStep
<1> QED
  BY <1>2, <1>3

(* leaveRoom: at once when the socket is down, else after the answer.      *)
LEMMA LeaveStep == ASSUME SessionInv, LeaveRoom PROVE SessionInv'
<1> DEFINE id   == page.leaveOperation + 1
           left == [page EXCEPT !.leaveOperation = id, !.joinState = "idle"]
           n    == page.socket
           m    == Message("leave", id)
<1>1. /\ page \in PageState /\ sockets \in [Attempt -> SocketState]
      /\ page.leaveOperation \in Nat /\ page.joinState = "joined"
  BY DEF SessionInv, Typed, PageState, LeaveRoom
<1>2. /\ left \in PageState /\ left.leaves = page.leaves
      /\ left.continuing = page.continuing /\ left.joinState = "idle"
      /\ left.leaveOperation = id /\ page.leaveOperation <= left.leaveOperation
  <2>1. id \in Nat /\ page.leaveOperation <= id
    BY <1>1
  <2> HIDE DEF id
  <2> QED
    BY <1>1, <2>1 DEF PageState
<1>3. saved' = None /\ wanted' = None /\ UNCHANGED <<used, late>> /\ saved' \in Nat
  BY DEF LeaveRoom, None
<1>4. CASE ~(n # None /\ sockets[n].link = "open")
  <2>1. sockets' = Dropping(n) /\ page' = TornDown(left)
    BY <1>4 DEF LeaveRoom
  <2>2. sockets' \in [Attempt -> SocketState]
    BY <1>1, <2>1, DroppingEffect
  <2>3. \A x \in Attempt :
            sockets'[x].link \in {"connecting", "open"} =>
                sockets[x].link \in {"connecting", "open"} /\ x # page.socket
    BY <1>1, <2>1, DroppingEffect
  <2> HIDE DEF left
  <2> QED
    BY <1>2, <1>3, <2>1, <2>2, <2>3, TornDownStep
<1>5. CASE n # None /\ sockets[n].link = "open"
  <2>1. sockets' = Emitting(n, m) /\ page' = [left EXCEPT !.leaves = @ \cup {id}]
    BY <1>5 DEF LeaveRoom
  <2>2. n \in Attempt /\ m \in Packet
    BY <1>1, <1>5 DEF PageState, Message, Packet, MessageType
  <2>3. /\ Sending(sockets[n], m) \in SocketState
        /\ Sending(sockets[n], m).link = sockets[n].link
        /\ Carried(Sending(sockets[n], m)) \subseteq Carried(sockets[n]) \cup {m}
    BY <1>1, <2>2, SendingEffect
  <2>4. sockets' = [sockets EXCEPT ![n] = Sending(sockets[n], m)]
    BY <2>1 DEF Emitting
  <2>5. /\ page' \in PageState /\ page'.joinState = "idle"
        /\ page'.socket = n /\ page'.preview = page.preview
        /\ page'.ackTimer = page.ackTimer /\ page'.initialTimer = page.initialTimer
        /\ page'.leaves = page.leaves \cup {id} /\ page'.leaveOperation = id
        /\ page'.continuing = page.continuing
    <3>1. id \in Nat \ {0} /\ page.leaves \cup {id} \in SUBSET (Nat \ {0})
      BY <1>1 DEF PageState
    <3>2. /\ left.socket = n /\ left.preview = page.preview
          /\ left.ackTimer = page.ackTimer /\ left.initialTimer = page.initialTimer
      BY <1>1 DEF PageState
    <3>3. page' = [left EXCEPT !.leaves = page.leaves \cup {id}]
      BY <1>2, <2>1
    <3> HIDE DEF left, id, n
    <3> QED
      BY <1>2, <3>1, <3>2, <3>3 DEF PageState
  <2>6. m.type = "leave" /\ m.id = id
    BY DEF Message
  <2> HIDE DEF m, n, id
  <2>7. Typed'
    <3>1. sockets' \in [Attempt -> SocketState]
      BY <1>1, <2>2, <2>3, <2>4
    <3> QED
      BY <1>3, <2>5, <3>1 DEF SessionInv, Typed, None
  <2>8. NoForgottenSocket' /\ OneAttempt'
    BY <1>1, <1>3, <2>2, <2>3, <2>4, <2>5 DEF SessionInv, NoForgottenSocket, OneAttempt, n
  <2>9. \A w \in page.continuing : w.attempt # None /\ w.attempt <= used
    BY <1>1 DEF SessionInv, CallbacksFit, PageState, Callback, Attempt, None
  <2>10. CallbacksFit'
    BY <1>3, <2>5, <2>9 DEF CallbacksFit
  <2>11. \A x \in Nat : Current(x) \/ x = id => Current(x)'
    BY <1>1, <1>3, <2>5 DEF Current, id
  <2>12. PacketsFit'
    <3>1. ASSUME NEW x \in Carried(sockets'[n]) PROVE PacketFits(x)'
      <4>1. x \in Packet
        BY <2>2, <2>7, <3>1 DEF Typed, SocketState, Carried, Range
      <4>2. x = m \/ (x # m /\ x \in Carried(sockets[n]) /\ PacketFits(x))
        BY <1>1, <2>2, <2>3, <2>4, <3>1 DEF SessionInv, PacketsFit, n
      <4>3. x.id \in Nat /\ x.id # None
        BY <4>1 DEF Packet, None
      <4> QED
        BY <1>3, <2>6, <2>11, <4>2, <4>3 DEF PacketFits
    <3> QED
      BY <2>5, <3>1 DEF PacketsFit
  <2>13. Settled'
    <3>1. \A x \in page'.leaves : Current(x)'
      BY <1>1, <2>5, <2>11 DEF SessionInv, Settled, PageState, id
    <3> QED
      BY <2>5, <3>1 DEF Settled
  <2>14. RoomHasItsSession'
    BY <2>5 DEF RoomHasItsSession
  <2> QED
    BY <2>7, <2>8, <2>10, <2>12, <2>13, <2>14 DEF SessionInv
<1> QED
  BY <1>4, <1>5

(* joinRoom: an attempt that nothing on the page refers to yet.            *)
LEMMA JoinStep ==
    ASSUME SessionInv, NEW c \in Nat, NEW b \in BOOLEAN, JoinRoom(c, b), saved' \in Nat
    PROVE  SessionInv'
<1> DEFINE n == used + 1
<1>1. /\ page \in PageState /\ sockets \in [Attempt -> SocketState]
      /\ used \in Nat /\ page.leaveOperation \in Nat /\ MaxAttempts \in Nat
  BY BoundsAssumption DEF SessionInv, Typed, PageState
<1>2. n \in Attempt /\ n \in Nat /\ n # None /\ used' = n /\ wanted' = n /\ late' = late
  BY <1>1 DEF JoinRoom, Attempt, None
<1>3. sockets' = [Dropping(page.socket) EXCEPT ![n] = Connecting(@)]
  BY DEF JoinRoom, Hangup
<1>4. page' = [page EXCEPT
          !.joinState = "joining", !.socket = n, !.activeSession = c,
          !.hasJoined = FALSE, !.preview = FALSE,
          !.ackTimer = None, !.initialTimer = n,
          !.leaveOperation = @ + 1, !.autoRejoined = b]
  BY DEF JoinRoom
<1> DEFINE d == Dropping(page.socket)
<1>5. /\ d \in [Attempt -> SocketState]
      /\ \A x \in Attempt : d[x].link \in {"connecting", "open"} => FALSE
  <2>1. \A x \in Attempt : /\ x # page.socket => d[x] = sockets[x]
                           /\ x = page.socket => d[x].link = "closed"
    BY <1>1, DroppingEffect
  <2> QED
    BY <1>1, <2>1, DroppingEffect DEF SessionInv, NoForgottenSocket
<1> HIDE DEF n, d
<1>6. /\ sockets' \in [Attempt -> SocketState]
      /\ Carried(sockets'[n]) = {}
      /\ \A x \in Attempt \ {n} : sockets'[x] = d[x]
  <2>1. /\ Connecting(d[n]) \in SocketState
        /\ Carried(Connecting(d[n])) = {}
    BY <1>2, <1>5, ConnectingEffect
  <2> QED
    BY <1>2, <1>3, <1>5, <2>1 DEF d
<1>7. /\ page'.socket = n /\ page'.ackTimer = None /\ page'.initialTimer = n
      /\ ~page'.preview /\ page'.joinState = "joining"
      /\ page'.leaveOperation = page.leaveOperation + 1 /\ page'.leaves = page.leaves
      /\ page'.continuing = page.continuing /\ page' \in PageState
  <2> DEFINE id == page.leaveOperation + 1
  <2>1. id \in Nat
    BY <1>1
  <2>2. page' = [page EXCEPT
            !.joinState = "joining", !.socket = n, !.activeSession = c,
            !.hasJoined = FALSE, !.preview = FALSE,
            !.ackTimer = None, !.initialTimer = n,
            !.leaveOperation = id, !.autoRejoined = b]
    BY <1>1, <1>4 DEF PageState
  <2> HIDE DEF id
  <2>3. page' \in PageState
    BY <1>1, <1>2, <2>1, <2>2 DEF PageState
  <2>4. /\ page'.socket = n /\ page'.ackTimer = None /\ page'.initialTimer = n
        /\ ~page'.preview /\ page'.joinState = "joining"
        /\ page'.leaveOperation = id /\ page'.leaves = page.leaves
        /\ page'.continuing = page.continuing
    BY <1>1, <2>2 DEF PageState
  <2> QED
    BY <2>3, <2>4 DEF id
<1>8. Typed'
  <2>1. used' \in 0 .. MaxAttempts /\ late' \in BOOLEAN
    BY <1>1, <1>2 DEF SessionInv, Typed, Attempt
  <2> QED
    BY <1>2, <1>6, <1>7, <2>1 DEF Typed
<1>9. NoForgottenSocket'
  BY <1>5, <1>6, <1>7 DEF NoForgottenSocket
<1>10. OneAttempt'
  BY <1>2, <1>7 DEF OneAttempt
<1>11. \A w \in page.continuing : w.attempt <= n /\ w.attempt # n
  BY <1>1 DEF SessionInv, CallbacksFit, PageState, Callback, Attempt, n
<1>12. CallbacksFit'
  BY <1>2, <1>7, <1>11 DEF CallbacksFit
<1>13. PacketsFit'
  BY <1>6, <1>7 DEF PacketsFit
<1>14. \A id \in page.leaves : Current(id)'
  BY <1>1, <1>7 DEF SessionInv, Settled, Current, PageState
<1>15. Settled' /\ RoomHasItsSession'
  BY <1>2, <1>7, <1>14 DEF Settled, RoomHasItsSession
<1> QED
  BY <1>8, <1>9, <1>10, <1>12, <1>13, <1>15 DEF SessionInv

LEMMA ReloadStep == ASSUME SessionInv, Reload PROVE SessionInv'
<1>1. /\ page' = NewPage /\ wanted' = None /\ sockets' = Dropping(page.socket)
      /\ UNCHANGED <<saved, used, late>>
      /\ page \in PageState /\ sockets \in [Attempt -> SocketState]
  BY DEF Reload, SessionInv, Typed
<1>2. /\ NewPage \in PageState /\ NewPage.socket = None /\ NewPage.continuing = {}
      /\ NewPage.leaves = {} /\ NewPage.joinState = "idle" /\ ~NewPage.preview
      /\ NewPage.ackTimer = None /\ NewPage.initialTimer = None
  BY DEF NewPage, PageState, None
<1>3. Typed'
  BY <1>1, <1>2, DroppingEffect DEF SessionInv, Typed, None
<1>4. NoForgottenSocket'
  BY <1>1, DroppingEffect DEF SessionInv, NoForgottenSocket
<1>5. OneAttempt' /\ CallbacksFit' /\ Settled' /\ RoomHasItsSession'
  BY <1>1, <1>2, <1>3 DEF OneAttempt, CallbacksFit, Settled, RoomHasItsSession, Typed, None
<1>6. PacketsFit'
  BY <1>1, <1>2 DEF PacketsFit, Attempt, None
<1> QED
  BY <1>3, <1>4, <1>5, <1>6 DEF SessionInv

LEMMA InvNext == SessionInv /\ [Next]_vars => SessionInv'
<1> SUFFICES ASSUME SessionInv, [Next]_vars PROVE SessionInv'
  OBVIOUS
<1>1. saved \in Nat /\ used \in Nat /\ sockets \in [Attempt -> SocketState] /\ page \in PageState
  BY DEF SessionInv, Typed
<1>2. ASSUME SubmitForm PROVE SessionInv'
  <2> DEFINE c == used + 1
  <2>1. c \in Nat
    BY <1>1
  <2>2. JoinRoom(c, FALSE) /\ saved' = c
    BY <1>2 DEF SubmitForm
  <2> HIDE DEF c
  <2> QED
    BY <2>1, <2>2, JoinStep
<1>3. ASSUME AutoRejoin PROVE SessionInv'
  <2>1. JoinRoom(saved, TRUE) /\ saved' = saved
    BY <1>3 DEF AutoRejoin
  <2> QED
    BY <1>1, <2>1, JoinStep
<1>4. ASSUME UNCHANGED vars PROVE SessionInv'
  BY <1>1, <1>4, QuietStep DEF vars, QuietPage, QuietSockets
<1> QED
  <2>1. CASE User
    BY <1>2, <2>1, LeaveStep, ReloadStep DEF User
  <2>2. ASSUME NEW n \in Attempt, Break(n) PROVE SessionInv'
    BY <2>2, ConnectionStep
  <2>3. ASSUME NEW n \in Attempt,
               \/ Serve(n) \/ Connect(n) \/ GiveUp(n) \/ JoinTimeout(n)
               \/ JoinAcknowledged(n) \/ JoinRefused(n) \/ MediaStateNoted(n)
               \/ RemoveMember(n)
        PROVE  SessionInv'
    BY <2>3, ServeStep, ConnectionStep, GiveUpStep, TimeoutStep, AcknowledgedStep,
       RefusedStep, NotedStep
  <2>4. CASE Progress
    BY <1>3, <2>3, <2>4, LeftStep, DevicesStep DEF Progress
  <2> QED
    BY <1>4, <2>1, <2>2, <2>4 DEF Next

THEOREM SessionSafe == Spec => []SessionInv
BY InvInit, InvNext, PTL DEF Spec

(* joinRoom, failures, leaves and reloads leave no live socket behind that *)
(* the page has forgotten.                                                 *)
THEOREM NoSocketForgotten == Spec => []NoForgottenSocket
<1>1. SessionInv => NoForgottenSocket
  BY DEF SessionInv
<1> QED
  BY <1>1, SessionSafe, PTL

(* The page of a room stands on the wanted attempt, its socket and its     *)
(* session, unless a callback came late.                                   *)
THEOREM RoomOfWantedAttempt == Spec => []RoomHasItsSession
<1>1. SessionInv => RoomHasItsSession
  BY DEF SessionInv
<1> QED
  BY <1>1, SessionSafe, PTL

(* Of the error page no answer of the failed attempt makes a room.         *)
LEMMA FailureKept ==
    ASSUME SessionInv, Next, page.joinState = "error", page'.joinState = "joined"
    PROVE  late'
<1>1. /\ page \in PageState /\ page.socket = None
      /\ \A w \in page.continuing : w.attempt # wanted
  BY DEF SessionInv, Typed, Settled
<1>2. \A n \in Attempt : sockets[n].link \notin {"connecting", "open"}
  BY <1>1 DEF SessionInv, NoForgottenSocket, Attempt, None
<1>3. \A n \in Attempt : n # page.ackTimer /\ n # page.initialTimer
  BY <1>1 DEF SessionInv, OneAttempt, Attempt, None
<1>4. ASSUME NEW n \in Attempt
      PROVE  /\ ~Break(n) /\ ~Connect(n) /\ ~GiveUp(n) /\ ~JoinTimeout(n)
             /\ ~JoinAcknowledged(n) /\ ~JoinRefused(n) /\ ~MediaStateNoted(n)
             /\ ~LeaveAcknowledged(n)
  BY <1>2, <1>3 DEF Break, Connect, GiveUp, JoinTimeout, JoinAcknowledged, JoinRefused,
                    MediaStateNoted, LeaveAcknowledged, Received
<1>5. ASSUME NEW n \in Attempt, Serve(n) \/ RemoveMember(n) PROVE FALSE
  BY <1>5 DEF Serve, RemoveMember
<1>6. ~SubmitForm /\ ~AutoRejoin
  <2>1. ASSUME NEW c, NEW b, JoinRoom(c, b) PROVE FALSE
    <3>1. page'.joinState = "joining"
      BY <1>1, <2>1 DEF JoinRoom, PageState
    <3> QED
      BY <3>1
  <2> QED
    BY <2>1 DEF SubmitForm, AutoRejoin
<1>7. ~LeaveRoom /\ ~Reload
  BY DEF LeaveRoom, Reload, NewPage
<1>8. ASSUME LeaveTimeout PROVE FALSE
  <2>1. PICK id \in page.leaves : FinishLeave(id, sockets)
    BY <1>8 DEF LeaveTimeout
  <2>2. page'.joinState = page.joinState
    BY <1>1, <2>1 DEF FinishLeave, TornDown, PageState
  <2> QED
    BY <2>2
<1>9. PICK w \in page.continuing : DevicesListed(w)
  BY <1>4, <1>5, <1>6, <1>7, <1>8 DEF Next, User, Progress
<1> QED
  BY <1>1, <1>9 DEF DevicesListed, ShowRoom

(* A join that was reported as failed is not shown as joined after all by  *)
(* an answer of its own.                                                   *)
THEOREM FailuresStand == Spec => FailureStands
<1>1. SessionInv /\ [Next]_vars =>
          [page.joinState = "error" => page'.joinState # "joined" \/ late']_vars
  BY FailureKept
<1> QED
  BY <1>1, SessionSafe, PTL DEF Spec, FailureStands
=============================================================================
