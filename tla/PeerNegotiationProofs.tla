------------------------- MODULE PeerNegotiationProofs -------------------------
(***************************************************************************)
(* Theorems about PeerNegotiation for every number of track changes and    *)
(* restarts.  The exchange of either browser's offer is in one phase at a  *)
(* time; the inductive invariant says which packets, operations and        *)
(* signaling states a pair of phases admits, and which pairs occur.        *)
(***************************************************************************)
EXTENDS PeerNegotiation, TLAPS

(***************************************************************************)
(* The shapes of the state.                                                *)
(***************************************************************************)
Offers  == [type: {"offer"}, revision: Nat, answers: {0}]
Answers == [type: {"answer"}, revision: Nat, answers: Nat]

Ops == [name: {"createOffer"}, description: {NoOffer}]
       \cup [name: {"setOffer", "rollback", "setAnswer"}, description: Offers]
       \cup [name: {"setRemote"}, description: Offers \cup Answers]

Refusals == {"createOffer", "setOffer", "rollback", "setAnswer", "setRemoteAnswer"}

Typed ==
    /\ tracks \in [Browser -> Nat] /\ current \in [Browser -> Nat]
    /\ seen \in [Browser -> Nat]
    /\ signaling \in [Browser -> {"stable", "have-local-offer", "have-remote-offer"}]
    /\ offered \in [Browser -> Offers \cup {NoOffer}]
    /\ notified \in [Browser -> BOOLEAN]
    /\ restarts \in [Browser -> Nat]
    /\ chain \in [Browser -> Seq(Ops)]
    /\ syncing \in [Browser -> SUBSET (Offers \cup {NoOffer})]
    /\ makingOffer \in [Browser -> BOOLEAN]
    /\ answerPending \in [Browser -> BOOLEAN]
    /\ channel \in [Browser -> Seq(Offers \cup Answers)]
    /\ refused \in [Browser -> SUBSET Refusals]

(* What an operation does to the exchanges: it makes an offer, rolls one   *)
(* back for another, accepts one, answers it, or finishes with an answer.  *)
Kind(op) ==
    IF op.name \in {"createOffer", "setOffer"} THEN "make"
    ELSE IF op.name = "rollback" THEN "rollback"
    ELSE IF op.name = "setAnswer" THEN "answer"
    ELSE IF op.description.type = "offer" THEN "accept" ELSE "finish"

Told(q, k) == {q[i].description : i \in {j \in DOMAIN q : Kind(q[j]) = k}}

(* A chain holds one operation of a kind at most; an offer is accepted     *)
(* before one is made, and after an answer.                                *)
Once(q) == \A i, j \in DOMAIN q : Kind(q[i]) = Kind(q[j]) => i = j
Ordered(q) == \A i, j \in DOMAIN q :
    i < j => /\ ~(Kind(q[i]) = "make" /\ Kind(q[j]) = "accept")
             /\ ~(Kind(q[i]) = "accept" /\ Kind(q[j]) = "finish")

(* The answers on a channel, and the offers that no answer follows.        *)
Replies(q) == {q[i] : i \in {j \in DOMAIN q : q[j].type = "answer"}}
IsLast(q, i) == q[i].type = "offer" /\ \A j \in DOMAIN q : i < j => q[j].type # "answer"
Last(q) == {q[i] : i \in {j \in DOMAIN q : IsLast(q, j)}}
Single(q) ==
    /\ \A i, j \in DOMAIN q : q[i].type = "answer" /\ q[j].type = "answer" => i = j
    /\ \A i, j \in DOMAIN q : IsLast(q, i) /\ IsLast(q, j) => i = j
AnswersFirst(q) == \A i \in DOMAIN q : q[i].type = "offer" => IsLast(q, i)

Remote(b) == syncing[b] \ {NoOffer}

(***************************************************************************)
(* The inductive invariant, part by part: x is the phase of the impolite   *)
(* browser's offer, y that of the polite one's.                            *)
(***************************************************************************)
Phase == {"none", "channel", "rollback", "accept", "sync", "answer", "back", "finish"}

If(x, p, d) == IF x = p THEN {d} ELSE {}

Local(b) == signaling[b] = "have-local-offer"

(* Where the offer of 1 is, or the answer to it. *)
FirstExchange(x) ==
    /\ Last(channel[2]) = If(x, "channel", offered[1])
    /\ Told(chain[2], "rollback") = If(x, "rollback", offered[1])
    /\ Told(chain[2], "accept") = If(x, "accept", offered[1])
    /\ Remote(2) = If(x, "sync", offered[1])
    /\ Told(chain[2], "answer") = If(x, "answer", offered[1])
    /\ Replies(channel[1]) # {} <=> x = "back"
    /\ Told(chain[1], "finish") # {} <=> x = "finish"
    /\ \A a \in Replies(channel[1]) \cup Told(chain[1], "finish") :
          a.answers = offered[1].revision /\ a.revision = current[2]
    /\ x # "none" => Local(1)
    /\ signaling[2] = "have-remote-offer" <=> x \in {"sync", "answer"}

(* Where the offer of 2 is.  An offer that 2 has given up for that of 1    *)
(* may still be on its way; the answer of 2 overtakes none.                *)
SecondExchange(x, y) ==
    /\ Told(chain[1], "rollback") = {}
    /\ y = "channel" <=> x \notin {"accept", "sync", "answer"} /\ Last(channel[1]) # {}
    /\ y = "channel" => Last(channel[1]) = {offered[2]}
    /\ Told(chain[1], "accept") = If(y, "accept", offered[2])
    /\ Remote(1) = If(y, "sync", offered[2])
    /\ Told(chain[1], "answer") = If(y, "answer", offered[2])
    /\ Replies(channel[2]) # {} <=> y = "back"
    /\ Told(chain[2], "finish") # {} <=> y = "finish"
    /\ \A a \in Replies(channel[2]) \cup Told(chain[2], "finish") :
          a.answers = offered[2].revision /\ a.revision = current[1]
    /\ y # "none" => Local(2)
    /\ signaling[1] = "have-remote-offer" <=> y \in {"sync", "answer"}

(* The phases that occur together. *)
Together(x, y) ==
    /\ y # "rollback"
    /\ x = "channel"  => y \in {"none", "channel", "back", "finish"}
    /\ x = "rollback" => y \in {"none", "channel"}
    /\ x = "accept"   => y \in {"none", "finish"}
    /\ x \in {"sync", "answer"} => y = "none"
    /\ x = "back"     => y \in {"none", "channel"}
    /\ x = "finish"   => y \in {"none", "channel", "accept"}

(* isSettingRemoteAnswerPending *)
PendingFits(x, y) ==
    /\ answerPending[1] => x = "finish"
    /\ answerPending[2] => y = "finish"
    /\ x = "finish" => answerPending[1] \/ y = "accept"
    /\ y = "finish" => answerPending[2] \/ x = "accept"

(* What each side has been told of the other's tracks. *)
KnowledgeFits(x, y) ==
    LET accepted == {"sync", "answer", "back", "finish"}
        replied  == {"back", "finish"}
    IN  /\ x \in accepted => seen[2] = offered[1].revision
        /\ y \in accepted => seen[1] = offered[2].revision
        /\ x \notin accepted /\ y \notin replied => seen[2] = current[1]
        /\ y \notin accepted /\ x \notin replied => seen[1] = current[2]

Lost == "rollback" \in refused[2]

(* A local offer that is nowhere was lost, or will be rolled back; 1 takes *)
(* no offer while it has one that is lost.                                 *)
NothingForgotten(x, y) ==
    /\ Local(1) /\ x = "none" => Lost /\ y # "accept"
    /\ Local(2) /\ y = "none" =>
           makingOffer[1] \/ x \in {"channel", "rollback", "accept"} \/ Lost

(* makingOffer *)
MakingFits(b) ==
    /\ makingOffer[b] <=> NoOffer \in syncing[b] \/ Told(chain[b], "make") # {}
    /\ NoOffer \in syncing[b] => Told(chain[b], "make") = {}
    /\ makingOffer[b] => ~Local(b)
    /\ notified[b] /\ signaling[b] = "stable" => makingOffer[b]
    /\ Local(b) <=> offered[b] # NoOffer
    /\ "setAnswer" \notin refused[b] /\ "setRemoteAnswer" \notin refused[b]

InOrder ==
    /\ \A b \in Browser : Once(chain[b]) /\ Ordered(chain[b]) /\ Single(channel[b])
    /\ AnswersFirst(channel[2])

Phases(x, y) ==
    /\ Together(x, y)
    /\ FirstExchange(x) /\ SecondExchange(x, y)
    /\ PendingFits(x, y) /\ KnowledgeFits(x, y) /\ NothingForgotten(x, y)

At(x, y) ==
    /\ Typed
    /\ InOrder
    /\ \A b \in Browser : MakingFits(b)
    /\ Phases(x, y)

NegotiationInv == \E x, y \in Phase : At(x, y)
-----------------------------------------------------------------------------
(***************************************************************************)
(* The chain: what is appended to it and what is taken from its head.      *)
(***************************************************************************)

(* An operation that no other of its kind precedes. *)
LEMMA AppendToChain ==
    ASSUME NEW q \in Seq(Ops), NEW op \in Ops
    PROVE  LET p == Append(q, op)
           IN  /\ p \in Seq(Ops) /\ p # <<>>
               /\ \A k : Told(p, k) = Told(q, k) \cup (IF Kind(op) = k THEN {op.description} ELSE {})
               /\ Once(q) /\ Told(q, Kind(op)) = {} => Once(p)
               /\ Ordered(q) /\ (Kind(op) = "accept" => Told(q, "make") = {})
                             /\ (Kind(op) = "finish" => Told(q, "accept") = {}) => Ordered(p)
<1> DEFINE p == Append(q, op)
<1>1. /\ p \in Seq(Ops) /\ p # <<>> /\ Len(p) = Len(q) + 1 /\ Len(q) \in Nat
      /\ DOMAIN p = 1 .. Len(q) + 1 /\ DOMAIN q = 1 .. Len(q)
      /\ p[Len(q) + 1] = op /\ \A i \in DOMAIN q : p[i] = q[i] /\ i \in DOMAIN p
  OBVIOUS
<1> HIDE DEF p
<1>2. \A i \in DOMAIN p : i \in DOMAIN q \/ i = Len(q) + 1
  BY <1>1
<1>3. ASSUME NEW k
      PROVE  Told(p, k) = Told(q, k) \cup (IF Kind(op) = k THEN {op.description} ELSE {})
  <2>1. ASSUME NEW d \in Told(p, k)
        PROVE  d \in Told(q, k) \cup (IF Kind(op) = k THEN {op.description} ELSE {})
    BY <1>1, <1>2, <2>1 DEF Told
  <2>2. ASSUME NEW d \in Told(q, k)
        PROVE  d \in Told(p, k)
    BY <1>1, <2>2 DEF Told
  <2>3. Kind(op) = k => op.description \in Told(p, k)
    BY <1>1 DEF Told
  <2> QED
    BY <2>1, <2>2, <2>3
<1>4. \A j \in DOMAIN q : Told(q, Kind(q[j])) # {}
  BY DEF Told
<1>5. ASSUME Once(q), Told(q, Kind(op)) = {}
      PROVE  Once(p)
  BY <1>1, <1>2, <1>4, <1>5 DEF Once
<1>6. ASSUME Ordered(q),
             Kind(op) = "accept" => Told(q, "make") = {},
             Kind(op) = "finish" => Told(q, "accept") = {}
      PROVE  Ordered(p)
  <2> SUFFICES ASSUME NEW i \in DOMAIN p, NEW j \in DOMAIN p, i < j
               PROVE  /\ ~(Kind(p[i]) = "make" /\ Kind(p[j]) = "accept")
                      /\ ~(Kind(p[i]) = "accept" /\ Kind(p[j]) = "finish")
    BY DEF Ordered
  <2>1. i \in DOMAIN q
    BY <1>1
  <2>2. CASE j \in DOMAIN q
    BY <1>1, <1>6, <2>1, <2>2 DEF Ordered
  <2>3. CASE j = Len(q) + 1
    BY <1>1, <1>4, <1>6, <2>1, <2>3
  <2> QED
    BY <1>2, <2>2, <2>3
<1> QED
  BY <1>1, <1>3, <1>5, <1>6 DEF p

(* The operation at the head is the only one of its kind. *)
LEMMA TailOfChain ==
    ASSUME NEW q \in Seq(Ops), q # <<>>, Once(q), Ordered(q)
    PROVE  /\ Head(q) \in Ops /\ Tail(q) \in Seq(Ops)
           /\ Told(q, Kind(Head(q))) = {Head(q).description}
           /\ Told(Tail(q), Kind(Head(q))) = {}
           /\ \A k : k # Kind(Head(q)) => Told(Tail(q), k) = Told(q, k)
           /\ Once(Tail(q)) /\ Ordered(Tail(q))
           /\ Kind(Head(q)) = "make" => Told(q, "accept") = {}
           /\ Kind(Head(q)) = "accept" => Told(q, "finish") = {}
<1> DEFINE h == Head(q)
           p == Tail(q)
<1>1. /\ h \in Ops /\ p \in Seq(Ops) /\ Len(q) \in Nat /\ Len(p) = Len(q) - 1
      /\ DOMAIN p = 1 .. Len(q) - 1 /\ DOMAIN q = 1 .. Len(q)
      /\ h = q[1] /\ 1 \in DOMAIN q
      /\ \A i \in DOMAIN p : p[i] = q[i + 1] /\ i + 1 \in DOMAIN q
  OBVIOUS
<1> HIDE DEF h, p
<1>2. \A i \in DOMAIN q : i = 1 \/ (i > 1 /\ i - 1 \in DOMAIN p /\ p[i - 1] = q[i])
  BY <1>1
<1>3. Told(q, Kind(h)) = {h.description} /\ Told(p, Kind(h)) = {}
  <2>1. \A i \in DOMAIN q : Kind(q[i]) = Kind(h) => i = 1
    BY <1>1 DEF Once
  <2>2. \A i \in DOMAIN p : Kind(p[i]) # Kind(h)
    BY <1>1, <2>1
  <2> QED
    BY <1>1, <2>1, <2>2 DEF Told
<1>4. ASSUME NEW k, k # Kind(h)
      PROVE  Told(p, k) = Told(q, k)
  <2>1. ASSUME NEW d \in Told(p, k)
        PROVE  d \in Told(q, k)
    BY <1>1, <2>1 DEF Told
  <2>2. ASSUME NEW d \in Told(q, k)
        PROVE  d \in Told(p, k)
    BY <1>1, <1>2, <1>4, <2>2 DEF Told
  <2> QED
    BY <2>1, <2>2
<1>5. Once(p)
  BY <1>1 DEF Once
<1>6. Ordered(p)
  BY <1>1 DEF Ordered
<1>7. \A i \in DOMAIN q : 1 < i => /\ ~(Kind(h) = "make" /\ Kind(q[i]) = "accept")
                                  /\ ~(Kind(h) = "accept" /\ Kind(q[i]) = "finish")
  BY <1>1 DEF Ordered
<1>8. Kind(h) = "make" => Told(q, "accept") = {}
  BY <1>1, <1>2, <1>7 DEF Told
<1>9. Kind(h) = "accept" => Told(q, "finish") = {}
  BY <1>1, <1>2, <1>7 DEF Told
<1> QED
  BY <1>1, <1>3, <1>4, <1>5, <1>6, <1>8, <1>9 DEF h, p

LEMMA EmptyChain == \A k : Told(<<>>, k) = {}
BY DEF Told

(***************************************************************************)
(* The channel: what is sent and what is received.                         *)
(***************************************************************************)

(* An offer after which no answer was sent. *)
LEMMA SendOffer ==
    ASSUME NEW q \in Seq(Offers \cup Answers), NEW d \in Offers, Single(q), Last(q) = {}
    PROVE  LET p == Append(q, d)
           IN  /\ p \in Seq(Offers \cup Answers)
               /\ Last(p) = {d} /\ Replies(p) = Replies(q) /\ Single(p)
               /\ AnswersFirst(q) => AnswersFirst(p)
<1> DEFINE p == Append(q, d)
           n == Len(q) + 1
<1>1. /\ p \in Seq(Offers \cup Answers) /\ Len(p) = n /\ n \in Nat
      /\ DOMAIN p = 1 .. n /\ DOMAIN q = 1 .. n - 1 /\ n \in DOMAIN p
      /\ p[n] = d /\ \A i \in DOMAIN q : p[i] = q[i] /\ i \in DOMAIN p
      /\ d.type = "offer" /\ d.type # "answer"
  BY DEF Offers
<1> HIDE DEF p, n
<1>2. \A i \in DOMAIN p : i \in DOMAIN q \/ i = n
  BY <1>1
<1>3. \A i \in DOMAIN q : ~IsLast(q, i)
  BY DEF Last
<1>4. \A i \in DOMAIN q : IsLast(p, i) <=> IsLast(q, i)
  BY <1>1, <1>2 DEF IsLast
<1>5. IsLast(p, n)
  BY <1>1 DEF IsLast
<1>6. \A i \in DOMAIN p : IsLast(p, i) <=> i = n
  BY <1>1, <1>2, <1>3, <1>4, <1>5
<1>7. Last(p) = {d}
  BY <1>1, <1>6 DEF Last
<1>8. \A i \in DOMAIN p : p[i].type = "answer" => i \in DOMAIN q /\ q[i].type = "answer"
  BY <1>1, <1>2
<1>9. Replies(p) = Replies(q)
  <2>1. ASSUME NEW a \in Replies(p)
        PROVE  a \in Replies(q)
    BY <1>1, <1>8, <2>1 DEF Replies
  <2>2. ASSUME NEW a \in Replies(q)
        PROVE  a \in Replies(p)
    BY <1>1, <2>2 DEF Replies
  <2> QED
    BY <2>1, <2>2
<1>10. Single(p)
  BY <1>1, <1>6, <1>8 DEF Single
<1>11. AnswersFirst(q) => AnswersFirst(p)
  BY <1>1, <1>2, <1>4, <1>5 DEF AnswersFirst
<1> QED
  BY <1>1, <1>7, <1>9, <1>10, <1>11 DEF p

(* The only answer on the channel. *)
LEMMA SendAnswer ==
    ASSUME NEW q \in Seq(Offers \cup Answers), NEW d \in Answers, Single(q), Replies(q) = {}
    PROVE  LET p == Append(q, d)
           IN  /\ p \in Seq(Offers \cup Answers)
               /\ Last(p) = {} /\ Replies(p) = {d} /\ Single(p)
               /\ AnswersFirst(q) /\ Last(q) = {} => AnswersFirst(p)
<1> DEFINE p == Append(q, d)
           n == Len(q) + 1
<1>1. /\ p \in Seq(Offers \cup Answers) /\ Len(p) = n /\ n \in Nat
      /\ DOMAIN p = 1 .. n /\ DOMAIN q = 1 .. n - 1 /\ n \in DOMAIN p
      /\ p[n] = d /\ \A i \in DOMAIN q : p[i] = q[i] /\ i \in DOMAIN p /\ i < n
      /\ d.type = "answer" /\ d.type # "offer"
  BY DEF Answers
<1> HIDE DEF p, n
<1>2. \A i \in DOMAIN p : i \in DOMAIN q \/ i = n
  BY <1>1
<1>3. \A i \in DOMAIN p : ~IsLast(p, i)
  BY <1>1, <1>2 DEF IsLast
<1>4. Last(p) = {}
  BY <1>3 DEF Last
<1>5. \A i \in DOMAIN q : q[i].type # "answer"
  BY DEF Replies
<1>6. \A i \in DOMAIN p : p[i].type = "answer" <=> i = n
  BY <1>1, <1>2, <1>5
<1>7. Replies(p) = {d}
  BY <1>1, <1>6 DEF Replies
<1>8. Single(p)
  BY <1>3, <1>6 DEF Single
<1>9. AnswersFirst(q) /\ Last(q) = {} => AnswersFirst(p)
  <2>1. AnswersFirst(q) /\ Last(q) = {} => \A i \in DOMAIN q : q[i].type # "offer"
    BY DEF AnswersFirst, Last
  <2> QED
    BY <1>1, <1>2, <2>1 DEF AnswersFirst
<1> QED
  BY <1>1, <1>4, <1>7, <1>8, <1>9 DEF p

(* What is received: an answer, the last offer, or one that an answer      *)
(* follows.                                                                *)
LEMMA TailOfChannel ==
    ASSUME NEW q \in Seq(Offers \cup Answers), q # <<>>, Single(q)
    PROVE  LET d == Head(q) p == Tail(q)
           IN  /\ d \in Offers \cup Answers /\ p \in Seq(Offers \cup Answers)
               /\ Single(p) /\ (AnswersFirst(q) => AnswersFirst(p))
               /\ d.type = "answer" => /\ Replies(q) = {d} /\ Replies(p) = {}
                                       /\ Last(p) = Last(q)
               /\ d.type = "offer"  => /\ Replies(p) = Replies(q)
                                       /\ \/ Last(q) = {d} /\ Last(p) = {} /\ Replies(q) = {}
                                          \/ ~AnswersFirst(q) /\ Last(p) = Last(q) /\ Replies(q) # {}
<1> DEFINE d == Head(q)
           p == Tail(q)
<1>1. /\ d \in Offers \cup Answers /\ p \in Seq(Offers \cup Answers)
      /\ DOMAIN p = 1 .. Len(q) - 1 /\ DOMAIN q = 1 .. Len(q) /\ Len(q) \in Nat
      /\ d = q[1] /\ 1 \in DOMAIN q
      /\ \A i \in DOMAIN p : p[i] = q[i + 1] /\ i + 1 \in DOMAIN q
  OBVIOUS
<1> HIDE DEF d, p
<1>2. \A i \in DOMAIN q : i = 1 \/ (i > 1 /\ i - 1 \in DOMAIN p /\ p[i - 1] = q[i])
  BY <1>1
<1>3. \A i \in DOMAIN p : IsLast(p, i) <=> IsLast(q, i + 1)
  <2> SUFFICES ASSUME NEW i \in DOMAIN p
               PROVE  IsLast(p, i) <=> IsLast(q, i + 1)
    OBVIOUS
  <2>1. ASSUME IsLast(p, i), NEW j \in DOMAIN q, i + 1 < j
        PROVE  q[j].type # "answer"
    <3>1. j - 1 \in DOMAIN p /\ p[j - 1] = q[j] /\ i < j - 1
      BY <1>1, <1>2, <2>1
    <3> QED
      BY <3>1, <2>1 DEF IsLast
  <2>2. ASSUME IsLast(q, i + 1), NEW j \in DOMAIN p, i < j
        PROVE  p[j].type # "answer"
    <3>1. j + 1 \in DOMAIN q /\ p[j] = q[j + 1] /\ i + 1 < j + 1
      BY <1>1, <2>2
    <3> QED
      BY <3>1, <2>2 DEF IsLast
  <2> QED
    BY <1>1, <2>1, <2>2 DEF IsLast
<1>4. Single(p)
  <2>1. \A i, j \in DOMAIN p : p[i].type = "answer" /\ p[j].type = "answer" => i = j
    BY <1>1 DEF Single
  <2>2. \A i, j \in DOMAIN p : IsLast(p, i) /\ IsLast(p, j) => i = j
    BY <1>1, <1>3 DEF Single
  <2> QED
    BY <2>1, <2>2 DEF Single
<1>5. AnswersFirst(q) => AnswersFirst(p)
  BY <1>1, <1>3 DEF AnswersFirst
<1>6. ASSUME ~IsLast(q, 1)
      PROVE  Last(p) = Last(q)
  <2>1. ASSUME NEW a \in Last(p)
        PROVE  a \in Last(q)
    BY <1>1, <1>3, <2>1 DEF Last
  <2>2. ASSUME NEW a \in Last(q)
        PROVE  a \in Last(p)
    <3>1. PICK j \in DOMAIN q : IsLast(q, j) /\ a = q[j]
      BY <2>2 DEF Last
    <3>2. j - 1 \in DOMAIN p /\ p[j - 1] = a /\ j = (j - 1) + 1
      BY <1>1, <1>2, <1>6, <3>1
    <3>3. IsLast(p, j - 1)
      BY <1>3, <3>1, <3>2
    <3> QED
      BY <3>2, <3>3 DEF Last
  <2> QED
    BY <2>1, <2>2
<1>7. ASSUME d.type = "answer"
      PROVE  Replies(q) = {d} /\ Replies(p) = {} /\ Last(p) = Last(q)
  <2>1. \A i \in DOMAIN q : q[i].type = "answer" => i = 1
    BY <1>1, <1>7 DEF Single
  <2>2. Replies(q) = {d}
    BY <1>1, <1>7, <2>1 DEF Replies
  <2>3. \A i \in DOMAIN p : p[i].type # "answer"
    BY <1>1, <2>1
  <2>4. ~IsLast(q, 1)
    BY <1>1, <1>7 DEF IsLast
  <2> QED
    BY <1>6, <2>2, <2>3, <2>4 DEF Replies
<1>8. ASSUME d.type = "offer"
      PROVE  Replies(p) = Replies(q)
  <2>1. ASSUME NEW a \in Replies(p)
        PROVE  a \in Replies(q)
    BY <1>1, <2>1 DEF Replies
  <2>2. ASSUME NEW a \in Replies(q)
        PROVE  a \in Replies(p)
    BY <1>1, <1>2, <1>8, <2>2 DEF Replies
  <2> QED
    BY <2>1, <2>2
<1>9. ASSUME d.type = "offer", IsLast(q, 1)
      PROVE  Last(q) = {d} /\ Last(p) = {} /\ Replies(q) = {}
  <2>1. \A i \in DOMAIN q : IsLast(q, i) => i = 1
    BY <1>1, <1>9 DEF Single
  <2>2. \A i \in DOMAIN p : ~IsLast(p, i)
    BY <1>1, <1>3, <2>1
  <2>3. \A i \in DOMAIN q : q[i].type # "answer"
    BY <1>1, <1>9 DEF IsLast
  <2> QED
    BY <1>1, <1>9, <2>1, <2>2, <2>3 DEF Last, Replies
<1>10. ASSUME d.type = "offer", ~IsLast(q, 1)
       PROVE  ~AnswersFirst(q) /\ Replies(q) # {}
  BY <1>1, <1>10 DEF IsLast, AnswersFirst, Replies
<1> QED
  BY <1>1, <1>4, <1>5, <1>6, <1>7, <1>8, <1>9, <1>10 DEF d, p

LEMMA EmptyChannel == Last(<<>>) = {} /\ Replies(<<>>) = {}
BY DEF Last, Replies
-----------------------------------------------------------------------------
(***************************************************************************)
(* The same, for the actions.                                              *)
(***************************************************************************)
LEMMA Browsers ==
    /\ Browser = {1, 2} /\ 1 # 2 /\ Other(1) = 2 /\ Other(2) = 1
    /\ ~Polite(1) /\ Polite(2)
    /\ \A b \in Browser : Other(b) \in Browser /\ Other(b) # b
BY DEF Browser, Other, Polite

(* The operation at the head of a chain. *)
LEMMA HeadOperation ==
    ASSUME Typed, NEW b \in Browser, chain[b] # <<>>
    PROVE  LET h == Head(chain[b])
           IN  /\ h \in Ops /\ Tail(chain[b]) \in Seq(Ops) /\ chain[b] \in Seq(Ops)
               /\ h.name = "createOffer" => Kind(h) = "make"
               /\ h.name = "setOffer"    => Kind(h) = "make" /\ Description(b) \in Offers
               /\ h.name = "rollback"    => Kind(h) = "rollback" /\ Description(b) \in Offers
               /\ h.name = "setAnswer"   => Kind(h) = "answer" /\ Description(b) \in Offers
               /\ h.name = "setRemote" /\ Description(b).type = "offer" =>
                      Kind(h) = "accept" /\ Description(b) \in Offers
               /\ h.name = "setRemote" /\ Description(b).type = "answer" =>
                      Kind(h) = "finish" /\ Description(b) \in Answers
<1>1. chain[b] \in Seq(Ops)
  BY DEF Typed
<1>2. Head(chain[b]) \in Ops /\ Tail(chain[b]) \in Seq(Ops)
  BY <1>1
<1> DEFINE h == Head(chain[b])
<1>3. h \in Ops
  BY <1>2
<1> HIDE DEF h
<1>4. /\ h.name = "createOffer" => Kind(h) = "make"
      /\ h.name = "setOffer"    => Kind(h) = "make" /\ h.description \in Offers
      /\ h.name = "rollback"    => Kind(h) = "rollback" /\ h.description \in Offers
      /\ h.name = "setAnswer"   => Kind(h) = "answer" /\ h.description \in Offers
  BY <1>3 DEF Ops, Kind
<1>5. /\ h.name = "setRemote" /\ h.description.type = "offer" =>
             Kind(h) = "accept" /\ h.description \in Offers
      /\ h.name = "setRemote" /\ h.description.type = "answer" =>
             Kind(h) = "finish" /\ h.description \in Answers
  BY <1>3 DEF Ops, Kind, Offers, Answers
<1> QED
  BY <1>1, <1>2, <1>4, <1>5 DEF h, Description

(* The operations that are queued. *)
LEMMA QueuedOperations ==
    /\ NoOffer \notin Offers /\ NoOffer \notin Answers
    /\ LET op == Op("createOffer", NoOffer)
       IN  op \in Ops /\ Kind(op) = "make" /\ op.description = NoOffer
    /\ \A n \in Nat : /\ Offer(n) \in Offers /\ Offer(n).revision = n
                      /\ Op("setOffer", Offer(n)) \in Ops
                      /\ Kind(Op("setOffer", Offer(n))) = "make"
    /\ \A d \in Offers :
          /\ d # NoOffer /\ d.type = "offer" /\ d.revision \in Nat
          /\ Op("setAnswer", d) \in Ops /\ Kind(Op("setAnswer", d)) = "answer"
          /\ Op("setAnswer", d).description = d
          /\ Op("rollback", d) \in Ops /\ Kind(Op("rollback", d)) = "rollback"
          /\ Op("rollback", d).description = d
          /\ Op("setRemote", d) \in Ops /\ Kind(Op("setRemote", d)) = "accept"
          /\ Op("setRemote", d).description = d
          /\ \A n \in Nat : /\ Answer(n, d) \in Answers /\ Answer(n, d).revision = n
                            /\ Answer(n, d).answers = d.revision
    /\ \A d \in Answers :
          /\ d.type = "answer" /\ d.revision \in Nat /\ d.answers \in Nat
          /\ Op("setRemote", d) \in Ops /\ Kind(Op("setRemote", d)) = "finish"
          /\ Op("setRemote", d).description = d
BY DEF Offers, Answers, NoOffer, Op, Ops, Kind, Offer, Answer

(* An operation is queued. *)
LEMMA ChainGrows ==
    ASSUME Typed, InOrder, NEW b \in Browser, NEW op \in Ops, Queue(b, op),
           Told(chain[b], Kind(op)) = {},
           Kind(op) = "accept" => Told(chain[b], "make") = {},
           Kind(op) = "finish" => Told(chain[b], "accept") = {}
    PROVE  /\ chain' \in [Browser -> Seq(Ops)]
           /\ \A c \in Browser : Once(chain'[c]) /\ Ordered(chain'[c])
           /\ \A c \in Browser : c # b => chain'[c] = chain[c]
           /\ Told(chain'[b], Kind(op)) = {op.description}
           /\ \A k : k # Kind(op) => Told(chain'[b], k) = Told(chain[b], k)
<1>1. /\ chain \in [Browser -> Seq(Ops)]
      /\ \A c \in Browser : Once(chain[c]) /\ Ordered(chain[c])
  BY DEF Typed, InOrder
<1>2. /\ chain'[b] = Append(chain[b], op)
      /\ \A c \in Browser : c # b => chain'[c] = chain[c]
      /\ chain' = [chain EXCEPT ![b] = Append(chain[b], op)]
  BY <1>1 DEF Queue
<1>3. /\ Append(chain[b], op) \in Seq(Ops)
      /\ Once(chain'[b]) /\ Ordered(chain'[b])
      /\ \A k : Told(chain'[b], k) = Told(chain[b], k) \cup (IF Kind(op) = k THEN {op.description} ELSE {})
  BY <1>1, <1>2, AppendToChain
<1>4. \A k : k # Kind(op) => Told(chain'[b], k) = Told(chain[b], k)
  BY <1>3
<1>5. Told(chain'[b], Kind(op)) = {op.description}
  BY <1>3
<1> QED
  BY <1>1, <1>2, <1>3, <1>4, <1>5

(* An operation is executed. *)
LEMMA ChainRuns ==
    ASSUME Typed, InOrder, NEW b \in Browser, chain[b] # <<>>, Executed(b)
    PROVE  LET h == Head(chain[b])
           IN  /\ chain' \in [Browser -> Seq(Ops)]
               /\ \A c \in Browser : Once(chain'[c]) /\ Ordered(chain'[c])
               /\ \A c \in Browser : c # b => chain'[c] = chain[c]
               /\ Told(chain[b], Kind(h)) = {Description(b)}
               /\ Told(chain'[b], Kind(h)) = {}
               /\ \A k : k # Kind(h) => Told(chain'[b], k) = Told(chain[b], k)
               /\ Kind(h) = "make" => Told(chain[b], "accept") = {}
               /\ Kind(h) = "accept" => Told(chain[b], "finish") = {}
<1>1. /\ chain \in [Browser -> Seq(Ops)]
      /\ \A c \in Browser : Once(chain[c]) /\ Ordered(chain[c])
  BY DEF Typed, InOrder
<1>2. /\ chain'[b] = Tail(chain[b])
      /\ \A c \in Browser : c # b => chain'[c] = chain[c]
      /\ chain' = [chain EXCEPT ![b] = Tail(chain[b])]
  BY <1>1 DEF Executed
<1> QED
  BY <1>1, <1>2, TailOfChain DEF Description

(* An operation is executed and another one follows it. *)
LEMMA ChainContinues ==
    ASSUME Typed, InOrder, NEW b \in Browser, chain[b] # <<>>, NEW op \in Ops,
           Continued(b, op),
           \/ Kind(op) = Kind(Head(chain[b])) /\ Kind(op) = "make"
           \/ /\ Kind(op) # Kind(Head(chain[b])) /\ Kind(op) = "accept"
              /\ Told(chain[b], "accept") = {} /\ Told(chain[b], "make") = {}
    PROVE  LET h == Head(chain[b])
           IN  /\ chain' \in [Browser -> Seq(Ops)]
               /\ \A c \in Browser : Once(chain'[c]) /\ Ordered(chain'[c])
               /\ \A c \in Browser : c # b => chain'[c] = chain[c]
               /\ Told(chain[b], Kind(h)) = {Description(b)}
               /\ Told(chain'[b], Kind(op)) = {op.description}
               /\ Kind(op) # Kind(h) => Told(chain'[b], Kind(h)) = {}
               /\ \A k : k # Kind(h) /\ k # Kind(op) => Told(chain'[b], k) = Told(chain[b], k)
<1>1. /\ chain \in [Browser -> Seq(Ops)]
      /\ \A c \in Browser : Once(chain[c]) /\ Ordered(chain[c])
  BY DEF Typed, InOrder
<1> DEFINE q == Tail(chain[b])
           h == Head(chain[b])
<1>2. /\ chain'[b] = Append(q, op)
      /\ \A c \in Browser : c # b => chain'[c] = chain[c]
      /\ chain' = [chain EXCEPT ![b] = Append(q, op)]
  BY <1>1 DEF Continued
<1>3. /\ q \in Seq(Ops) /\ Once(q) /\ Ordered(q)
      /\ Told(chain[b], Kind(h)) = {Description(b)}
      /\ Told(q, Kind(h)) = {}
      /\ \A k : k # Kind(h) => Told(q, k) = Told(chain[b], k)
  BY <1>1, TailOfChain DEF Description
<1> HIDE DEF q, h
<1>4. /\ Told(q, Kind(op)) = {}
      /\ Kind(op) = "accept" => Told(q, "make") = {}
      /\ Kind(op) # "finish"
  BY <1>3 DEF h
<1>5. /\ Append(q, op) \in Seq(Ops)
      /\ Once(chain'[b]) /\ Ordered(chain'[b])
      /\ \A k : Told(chain'[b], k) = Told(q, k) \cup (IF Kind(op) = k THEN {op.description} ELSE {})
  BY <1>2, <1>3, <1>4, AppendToChain
<1>6. Told(chain'[b], Kind(op)) = {op.description}
  BY <1>4, <1>5
<1>7. \A k : k # Kind(op) => Told(chain'[b], k) = Told(q, k)
  BY <1>5
<1>8. \A c \in Browser : Once(chain'[c]) /\ Ordered(chain'[c])
  BY <1>1, <1>2, <1>5
<1>9. chain' \in [Browser -> Seq(Ops)]
  BY <1>1, <1>2, <1>5
<1> QED
  BY <1>2, <1>3, <1>6, <1>7, <1>8, <1>9 DEF h
-----------------------------------------------------------------------------
(***************************************************************************)
(* Types.                                                                  *)
(***************************************************************************)
LEMMA TypedInit == Init => Typed
BY DEF Init, Typed, Browser, NoOffer, Offers, Ops

LEMMA Updated ==
    ASSUME NEW S, NEW T, NEW f \in [S -> T], NEW b \in S, NEW v \in T
    PROVE  [f EXCEPT ![b] = v] \in [S -> T]
OBVIOUS

LEMMA BeginTyped ==
    ASSUME Typed, NEW b \in Browser, BeginNegotiation(b)
    PROVE  /\ makingOffer' \in [Browser -> BOOLEAN]
           /\ syncing' \in [Browser -> SUBSET (Offers \cup {NoOffer})]
<1> DEFINE T == SUBSET (Offers \cup {NoOffer})
           s == syncing[b] \cup {NoOffer}
<1>1. makingOffer \in [Browser -> BOOLEAN] /\ syncing \in [Browser -> T] /\ s \in T
  BY DEF Typed
<1>2. \/ UNCHANGED <<makingOffer, syncing>>
      \/ makingOffer' = [makingOffer EXCEPT ![b] = TRUE] /\ syncing' = [syncing EXCEPT ![b] = s]
  BY DEF BeginNegotiation
<1> HIDE DEF T, s
<1>3. [syncing EXCEPT ![b] = s] \in [Browser -> T]
  BY <1>1, Updated
<1>4. [makingOffer EXCEPT ![b] = TRUE] \in [Browser -> BOOLEAN]
  BY <1>1, Updated
<1> QED
  BY <1>1, <1>2, <1>3, <1>4 DEF T

LEMMA SendTyped ==
    ASSUME Typed, NEW b \in Browser, NEW d \in Offers \cup Answers, Send(b, d)
    PROVE  channel' \in [Browser -> Seq(Offers \cup Answers)]
<1> DEFINE T == Seq(Offers \cup Answers)
           s == Append(channel[Other(b)], d)
<1>1. channel \in [Browser -> T] /\ Other(b) \in Browser
  BY Browsers DEF Typed
<1>2. s \in T
  BY <1>1
<1>3. channel' = [channel EXCEPT ![Other(b)] = s]
  BY DEF Send
<1> HIDE DEF T, s
<1>4. channel' \in [Browser -> T]
  BY <1>1, <1>2, <1>3, Updated
<1> QED
  BY <1>4 DEF T

LEMMA RefuseTyped ==
    ASSUME Typed, NEW b \in Browser, NEW n \in Refusals, Refuse(b, n)
    PROVE  refused' \in [Browser -> SUBSET Refusals]
<1> DEFINE s == refused[b] \cup {n}
           T == SUBSET Refusals
<1>1. s \in T /\ refused \in [Browser -> T]
  BY DEF Typed
<1>2. refused' = [refused EXCEPT ![b] = s]
  BY DEF Refuse
<1> HIDE DEF s, T
<1>3. refused' \in [Browser -> T]
  BY <1>1, <1>2, Updated
<1> QED
  BY <1>3 DEF T

(* What an operation assigns. *)
LEMMA AssignmentsTyped ==
    ASSUME Typed, NEW b \in Browser
    PROVE  /\ Executed(b) /\ chain[b] # <<>> => chain' \in [Browser -> Seq(Ops)]
           /\ \A op \in Ops : Queue(b, op) \/ (Continued(b, op) /\ chain[b] # <<>>)
                 => chain' \in [Browser -> Seq(Ops)]
           /\ DoneMaking(b) \in [Browser -> BOOLEAN]
           /\ \A n \in Nat : /\ [tracks EXCEPT ![b] = n] \in [Browser -> Nat]
                             /\ [current EXCEPT ![b] = n] \in [Browser -> Nat]
                             /\ [seen EXCEPT ![b] = n] \in [Browser -> Nat]
                             /\ [restarts EXCEPT ![b] = n] \in [Browser -> Nat]
           /\ \A d \in Offers \cup {NoOffer} :
                 [offered EXCEPT ![b] = d] \in [Browser -> Offers \cup {NoOffer}]
           /\ [notified EXCEPT ![b] = TRUE] \in [Browser -> BOOLEAN]
           /\ [notified EXCEPT ![b] = FALSE] \in [Browser -> BOOLEAN]
           /\ [answerPending EXCEPT ![b] = FALSE] \in [Browser -> BOOLEAN]
           /\ offered[b].revision \in Nat
<1>1. /\ chain \in [Browser -> Seq(Ops)] /\ makingOffer \in [Browser -> BOOLEAN]
      /\ refused \in [Browser -> SUBSET Refusals]
      /\ signaling \in [Browser -> {"stable", "have-local-offer", "have-remote-offer"}]
      /\ tracks \in [Browser -> Nat] /\ current \in [Browser -> Nat]
      /\ seen \in [Browser -> Nat] /\ restarts \in [Browser -> Nat]
      /\ offered \in [Browser -> Offers \cup {NoOffer}]
      /\ notified \in [Browser -> BOOLEAN] /\ answerPending \in [Browser -> BOOLEAN]
  BY DEF Typed
<1>2. chain[b] # <<>> => Tail(chain[b]) \in Seq(Ops)
  BY <1>1
<1>3. \A op \in Ops : /\ Append(chain[b], op) \in Seq(Ops)
                     /\ chain[b] # <<>> => Append(Tail(chain[b]), op) \in Seq(Ops)
  BY <1>1, <1>2
<1>4. Executed(b) /\ chain[b] # <<>> => chain' \in [Browser -> Seq(Ops)]
  BY <1>1, <1>2, Updated DEF Executed
<1>5. \A op \in Ops : Queue(b, op) \/ (Continued(b, op) /\ chain[b] # <<>>)
          => chain' \in [Browser -> Seq(Ops)]
  <2> TAKE op \in Ops
  <2>1. Queue(b, op) => chain' \in [Browser -> Seq(Ops)]
    BY <1>1, <1>3, Updated DEF Queue
  <2>2. Continued(b, op) /\ chain[b] # <<>> => chain' \in [Browser -> Seq(Ops)]
    BY <1>1, <1>3, Updated DEF Continued
  <2> QED
    BY <2>1, <2>2
<1>6. DoneMaking(b) \in [Browser -> BOOLEAN]
  BY <1>1, Updated DEF DoneMaking
<1>8. offered[b].revision \in Nat
  <2>1. offered[b] \in Offers \/ offered[b] = NoOffer
    BY <1>1
  <2> QED
    BY <2>1 DEF Offers, NoOffer
<1>9. /\ [notified EXCEPT ![b] = TRUE] \in [Browser -> BOOLEAN]
      /\ [notified EXCEPT ![b] = FALSE] \in [Browser -> BOOLEAN]
      /\ [answerPending EXCEPT ![b] = FALSE] \in [Browser -> BOOLEAN]
  BY <1>1, Updated
<1>10. \A d \in Offers \cup {NoOffer} :
          [offered EXCEPT ![b] = d] \in [Browser -> Offers \cup {NoOffer}]
  BY <1>1, Updated
<1>11. \A n \in Nat : /\ [tracks EXCEPT ![b] = n] \in [Browser -> Nat]
                     /\ [current EXCEPT ![b] = n] \in [Browser -> Nat]
                     /\ [seen EXCEPT ![b] = n] \in [Browser -> Nat]
                     /\ [restarts EXCEPT ![b] = n] \in [Browser -> Nat]
  BY <1>1, Updated
<1> QED
  BY <1>4, <1>5, <1>6, <1>8, <1>9, <1>10, <1>11

LEMMA OperationTyped ==
    ASSUME Typed, NEW b \in Browser, Operation(b)
    PROVE  Typed'
<1>1. chain[b] # <<>>
  BY DEF Operation, CreateOffer, SetOffer, Rollback, SetRemoteOffer, SetAnswer,
         SetRemoteAnswer, Next_
<1> DEFINE h == Head(chain[b])
           e == Description(b)
<1>2. /\ h.name \in {"setOffer", "rollback", "setAnswer"} => e \in Offers
      /\ h.name = "setRemote" /\ e.type = "offer" => e \in Offers
      /\ h.name = "setRemote" /\ e.type = "answer" => e \in Answers
  BY <1>1, HeadOperation
<1> HIDE DEF h, e
<1>3. CASE CreateOffer(b)
  <2>1. Op("setOffer", Offer(tracks[b])) \in Ops
    BY QueuedOperations DEF Typed
  <2>2. chain' \in [Browser -> Seq(Ops)]
    BY <1>1, <1>3, <2>1, AssignmentsTyped DEF CreateOffer
  <2>3. makingOffer' \in [Browser -> BOOLEAN]
    <3>1. UNCHANGED makingOffer \/ makingOffer' = DoneMaking(b)
      BY <1>3 DEF CreateOffer
    <3>2. /\ makingOffer \in [Browser -> BOOLEAN]
          /\ DoneMaking(b) \in [Browser -> BOOLEAN]
      BY AssignmentsTyped DEF Typed
    <3> QED
      BY <3>1, <3>2
  <2>4. refused' \in [Browser -> SUBSET Refusals]
    <3>1. "createOffer" \in Refusals
      BY DEF Refusals
    <3>2. UNCHANGED refused \/ Refuse(b, "createOffer")
      BY <1>3 DEF CreateOffer
    <3> QED
      BY <3>1, <3>2, RefuseTyped DEF Typed
  <2> QED
    BY <1>3, <2>2, <2>3, <2>4 DEF Typed, CreateOffer, connection
<1>4. CASE SetOffer(b)
  <2>1. e \in Offers
    BY <1>2, <1>4 DEF SetOffer, Next_, h
  <2>2. chain' \in [Browser -> Seq(Ops)] /\ makingOffer' \in [Browser -> BOOLEAN]
    BY <1>1, <1>4, AssignmentsTyped DEF SetOffer
  <2>3. CASE signaling[b] # "have-remote-offer"
    <3>1. channel' \in [Browser -> Seq(Offers \cup Answers)]
      BY <1>4, <2>1, <2>3, SendTyped DEF SetOffer, e
    <3>2. signaling' \in [Browser -> {"stable", "have-local-offer", "have-remote-offer"}]
      BY <1>4, <2>3 DEF SetOffer, Typed
    <3>3. offered' \in [Browser -> Offers \cup {NoOffer}]
      <4>1. offered' = [offered EXCEPT ![b] = e]
        BY <1>4, <2>3 DEF SetOffer, e
      <4> QED
        BY <2>1, <4>1, AssignmentsTyped
    <3> QED
      BY <1>4, <2>2, <2>3, <3>1, <3>2, <3>3 DEF Typed, SetOffer
  <2>4. CASE signaling[b] = "have-remote-offer"
    <3>1. refused' \in [Browser -> SUBSET Refusals]
      <4>1. Refuse(b, "setOffer") /\ "setOffer" \in Refusals
        BY <1>4, <2>4 DEF SetOffer, Refusals
      <4> QED
        BY <4>1, RefuseTyped
    <3> QED
      BY <1>4, <2>2, <2>4, <3>1 DEF Typed, SetOffer
  <2> QED
    BY <2>3, <2>4
<1>5. CASE Rollback(b)
  <2>1. Op("setRemote", e) \in Ops
    BY <1>2, <1>5, QueuedOperations DEF Rollback, Next_, h
  <2>2. chain' \in [Browser -> Seq(Ops)]
    BY <1>1, <1>5, <2>1, AssignmentsTyped DEF Rollback, e
  <2>3. CASE signaling[b] # "stable"
    <3>1. signaling' \in [Browser -> {"stable", "have-local-offer", "have-remote-offer"}]
      BY <1>5, <2>3 DEF Rollback, Typed
    <3>2. offered' \in [Browser -> Offers \cup {NoOffer}]
      BY <1>5, <2>3 DEF Rollback, Typed
    <3>3. notified' \in [Browser -> BOOLEAN]
      BY <1>5, <2>3 DEF Rollback, Typed
    <3>4. answerPending' \in [Browser -> BOOLEAN]
      BY <1>5, <2>3 DEF Rollback, Typed
    <3> QED
      BY <1>5, <2>2, <2>3, <3>1, <3>2, <3>3, <3>4 DEF Typed, Rollback
  <2>4. CASE signaling[b] = "stable"
    <3>1. refused' \in [Browser -> SUBSET Refusals]
      <4>1. Refuse(b, "rollback") /\ "rollback" \in Refusals
        BY <1>5, <2>4 DEF Rollback, Refusals
      <4> QED
        BY <4>1, RefuseTyped
    <3> QED
      BY <1>5, <2>2, <2>4, <3>1 DEF Typed, Rollback
  <2> QED
    BY <2>3, <2>4
<1>6. CASE SetRemoteOffer(b)
  <2>1. e \in Offers
    BY <1>2, <1>6 DEF SetRemoteOffer, Next_, h, e
  <2>2. e.revision \in Nat
    BY <2>1, QueuedOperations
  <2>3. chain' \in [Browser -> Seq(Ops)]
    BY <1>1, <1>6, AssignmentsTyped DEF SetRemoteOffer
  <2>4. signaling' \in [Browser -> {"stable", "have-local-offer", "have-remote-offer"}]
    BY <1>6 DEF SetRemoteOffer, Typed
  <2>6. /\ offered' = [offered EXCEPT ![b] = NoOffer]
        /\ seen' = [seen EXCEPT ![b] = e.revision]
        /\ answerPending' = [answerPending EXCEPT ![b] = FALSE]
    BY <1>6 DEF SetRemoteOffer, e
  <2>7. /\ offered' \in [Browser -> Offers \cup {NoOffer}]
        /\ seen' \in [Browser -> Nat] /\ answerPending' \in [Browser -> BOOLEAN]
    BY <2>2, <2>6, AssignmentsTyped
  <2>5. syncing' \in [Browser -> SUBSET (Offers \cup {NoOffer})]
    <3> DEFINE T == SUBSET (Offers \cup {NoOffer})
               s == syncing[b] \cup {e}
    <3>1. syncing \in [Browser -> T] /\ s \in T
      BY <2>1 DEF Typed
    <3>2. syncing' = [syncing EXCEPT ![b] = s]
      BY <1>6 DEF SetRemoteOffer, e
    <3> HIDE DEF T, s
    <3>3. syncing' \in [Browser -> T]
      BY <3>1, <3>2, Updated
    <3> QED
      BY <3>3 DEF T
  <2> QED
    BY <1>6, <2>3, <2>4, <2>5, <2>7 DEF Typed, SetRemoteOffer
<1>7. CASE SetAnswer(b)
  <2>1. \A n \in Nat : Answer(n, e) \in Answers
    BY <1>2, <1>7, QueuedOperations DEF SetAnswer, Next_, h
  <2>2. chain' \in [Browser -> Seq(Ops)]
    BY <1>1, <1>7, AssignmentsTyped DEF SetAnswer
  <2>3. CASE signaling[b] = "have-remote-offer"
    <3>1. PICK told \in {current[b], tracks[b]} :
            current' = [current EXCEPT ![b] = told] /\ Send(b, Answer(told, e))
      BY <1>7, <2>3 DEF SetAnswer, e
    <3>2. told \in Nat
      BY DEF Typed
    <3>3. channel' \in [Browser -> Seq(Offers \cup Answers)]
      BY <2>1, <3>1, <3>2, SendTyped
    <3>4. current' \in [Browser -> Nat]
      BY <1>7, <2>3, <3>1, <3>2 DEF SetAnswer, Typed
    <3>5. notified' \in [Browser -> BOOLEAN]
      <4>1. notified' = [notified EXCEPT ![b] = FALSE]
        BY <1>7, <2>3 DEF SetAnswer
      <4> QED
        BY <4>1, AssignmentsTyped
    <3>6. signaling' \in [Browser -> {"stable", "have-local-offer", "have-remote-offer"}]
      <4>1. signaling' = [signaling EXCEPT ![b] = "stable"]
        BY <1>7, <2>3 DEF SetAnswer
      <4> QED
        BY <4>1 DEF Typed
    <3> QED
      BY <1>7, <2>2, <2>3, <3>3, <3>4, <3>5, <3>6 DEF Typed, SetAnswer
  <2>4. CASE signaling[b] # "have-remote-offer"
    <3>1. refused' \in [Browser -> SUBSET Refusals]
      <4>1. Refuse(b, "setAnswer") /\ "setAnswer" \in Refusals
        BY <1>7, <2>4 DEF SetAnswer, Refusals
      <4> QED
        BY <4>1, RefuseTyped
    <3> QED
      BY <1>7, <2>2, <2>4, <3>1 DEF Typed, SetAnswer
  <2> QED
    BY <2>3, <2>4
<1>8. CASE SetRemoteAnswer(b)
  <2>1. e.revision \in Nat
    BY <1>2, <1>8, QueuedOperations DEF SetRemoteAnswer, Next_, h, e
  <2>2. chain' \in [Browser -> Seq(Ops)]
    BY <1>1, <1>8, AssignmentsTyped DEF SetRemoteAnswer
  <2>3. CASE signaling[b] = "have-local-offer"
    <3>1. signaling' \in [Browser -> {"stable", "have-local-offer", "have-remote-offer"}]
      <4>1. signaling' = [signaling EXCEPT ![b] = "stable"]
        BY <1>8, <2>3 DEF SetRemoteAnswer
      <4> QED
        BY <4>1 DEF Typed
    <3>2. offered' \in [Browser -> Offers \cup {NoOffer}]
      BY <1>8, <2>3 DEF SetRemoteAnswer, Typed, e
    <3>3. current' \in [Browser -> Nat]
      <4>1. current' = [current EXCEPT ![b] = offered[b].revision]
        BY <1>8, <2>3 DEF SetRemoteAnswer
      <4> QED
        BY <4>1, AssignmentsTyped
    <3>4. seen' \in [Browser -> Nat]
      BY <1>8, <2>3, <2>1 DEF SetRemoteAnswer, Typed, e
    <3>5. notified' \in [Browser -> BOOLEAN]
      BY <1>8, <2>3 DEF SetRemoteAnswer, Typed
    <3>6. answerPending' \in [Browser -> BOOLEAN]
      BY <1>8, <2>3 DEF SetRemoteAnswer, Typed
    <3> QED
      BY <1>8, <2>2, <2>3, <3>1, <3>2, <3>3, <3>4, <3>5, <3>6 DEF Typed, SetRemoteAnswer
  <2>4. CASE signaling[b] # "have-local-offer"
    <3>1. refused' \in [Browser -> SUBSET Refusals]
      <4>1. Refuse(b, "setRemoteAnswer") /\ "setRemoteAnswer" \in Refusals
        BY <1>8, <2>4 DEF SetRemoteAnswer, Refusals
      <4> QED
        BY <4>1, RefuseTyped
    <3> QED
      BY <1>8, <2>2, <2>4, <3>1 DEF Typed, SetRemoteAnswer
  <2> QED
    BY <2>3, <2>4
<1> QED
  BY <1>3, <1>4, <1>5, <1>6, <1>7, <1>8 DEF Operation

LEMMA HandleSignalTyped ==
    ASSUME Typed, NEW b \in Browser, HandleSignal(b)
    PROVE  Typed'
<1> DEFINE d == Head(channel[b])
           pending == d.type = "answer"
<1>1. /\ d \in Offers \cup Answers /\ Tail(channel[b]) \in Seq(Offers \cup Answers)
      /\ channel \in [Browser -> Seq(Offers \cup Answers)]
  BY DEF Typed, HandleSignal
<1>2. channel' \in [Browser -> Seq(Offers \cup Answers)]
  BY <1>1, Updated DEF HandleSignal
<1>3. /\ Op("setRemote", d) \in Ops
      /\ d.type = "offer" => Op("rollback", d) \in Ops
  <2>1. d \in Answers => d.type # "offer"
    BY QueuedOperations
  <2> QED
    BY <1>1, <2>1, QueuedOperations
<1>4. \/ UNCHANGED <<chain, answerPending>>
      \/ Queue(b, Op("rollback", d)) /\ d.type = "offer" /\ UNCHANGED answerPending
      \/ Queue(b, Op("setRemote", d)) /\ answerPending' = [answerPending EXCEPT ![b] = pending]
  BY DEF HandleSignal
<1>5. pending \in BOOLEAN
  OBVIOUS
<1>6. UNCHANGED <<connection, syncing, makingOffer, refused>>
  BY DEF HandleSignal
<1> HIDE DEF d, pending
<1>7. chain' \in [Browser -> Seq(Ops)]
  BY <1>3, <1>4, AssignmentsTyped DEF Typed
<1>8. answerPending' \in [Browser -> BOOLEAN]
  <2>1. [answerPending EXCEPT ![b] = pending] \in [Browser -> BOOLEAN]
    BY <1>5, Updated DEF Typed
  <2> QED
    BY <1>4, <2>1 DEF Typed
<1> QED
  BY <1>2, <1>6, <1>7, <1>8 DEF Typed, connection

LEMMA TypedStep == Typed /\ [Next]_vars => Typed'
<1> SUFFICES ASSUME Typed, [Next]_vars
             PROVE  Typed'
  OBVIOUS
<1>1. CASE UNCHANGED vars
  BY <1>1 DEF Typed, vars
<1>2. ASSUME NEW b \in Browser, ChangeTracks(b)
      PROVE  Typed'
  <2>1. tracks' \in [Browser -> Nat]
    BY <1>2 DEF ChangeTracks, Typed
  <2> QED
    BY <1>2, <2>1 DEF Typed, ChangeTracks
<1>3. ASSUME NEW b \in Browser, NegotiationNeeded(b)
      PROVE  Typed'
  <2>1. notified' \in [Browser -> BOOLEAN]
    BY <1>3, AssignmentsTyped DEF NegotiationNeeded
  <2> QED
    BY <1>3, <2>1, BeginTyped DEF Typed, NegotiationNeeded
<1>4. ASSUME NEW b \in Browser, RestartIce(b)
      PROVE  Typed'
  <2>1. restarts' \in [Browser -> Nat]
    BY <1>4 DEF RestartIce, Typed
  <2> QED
    BY <1>4, <2>1, BeginTyped DEF Typed, RestartIce
<1>5. ASSUME NEW b \in Browser, TracksSynced(b)
      PROVE  Typed'
  <2>1. PICK d \in syncing[b] :
          /\ syncing' = [syncing EXCEPT ![b] = @ \ {d}]
          /\ Queue(b, Op(IF d = NoOffer THEN "createOffer" ELSE "setAnswer", d))
          /\ UNCHANGED <<connection, makingOffer, answerPending, channel, refused>>
    BY <1>5 DEF TracksSynced
  <2> DEFINE op == Op(IF d = NoOffer THEN "createOffer" ELSE "setAnswer", d)
             T == SUBSET (Offers \cup {NoOffer})
             s == syncing[b] \ {d}
  <2>2. d \in Offers \cup {NoOffer} /\ s \in T /\ syncing \in [Browser -> T]
    BY <2>1 DEF Typed
  <2>3. op \in Ops
    BY <2>2, QueuedOperations
  <2>4. Queue(b, op) /\ syncing' = [syncing EXCEPT ![b] = s]
    BY <2>1
  <2> HIDE DEF op, s, T
  <2>5. chain' \in [Browser -> Seq(Ops)]
    BY <2>3, <2>4, AssignmentsTyped
  <2>6. syncing' \in [Browser -> T]
    BY <2>2, <2>4, Updated
  <2>7. syncing' \in [Browser -> SUBSET (Offers \cup {NoOffer})]
    BY <2>6 DEF T
  <2> QED
    BY <2>1, <2>5, <2>7 DEF Typed, connection
<1> QED
  BY <1>1, <1>2, <1>3, <1>4, <1>5, OperationTyped, HandleSignalTyped DEF Next
-----------------------------------------------------------------------------
(***************************************************************************)
(* Steps that leave both exchanges where they are.                         *)
(***************************************************************************)
LEMMA NothingExchanged ==
    ASSUME NEW x \in Phase, NEW y \in Phase, At(x, y), Typed',
           UNCHANGED <<current, seen, signaling, offered, answerPending, channel>>,
           \A b \in Browser :
              /\ Remote(b)' = Remote(b)
              /\ \A k : k # "make" => Told(chain'[b], k) = Told(chain[b], k)
              /\ Once(chain'[b]) /\ Ordered(chain'[b])
              /\ MakingFits(b)',
           makingOffer[1] => makingOffer'[1] \/ y # "none",
           refused[2] \subseteq refused'[2]
    PROVE  At(x, y)'
<1> USE Browsers
<1>1. Phases(x, y)
  BY DEF At
<1>2. \A b \in Browser : \A k \in {"rollback", "accept", "answer", "finish"} :
          Told(chain'[b], k) = Told(chain[b], k)
  OBVIOUS
<1>3. Remote(1)' = Remote(1) /\ Remote(2)' = Remote(2)
  OBVIOUS
<1>4. FirstExchange(x)'
  BY <1>1, <1>2, <1>3 DEF Phases, FirstExchange, If, Local
<1>5. SecondExchange(x, y)'
  BY <1>1, <1>2, <1>3 DEF Phases, SecondExchange, If, Local
<1>6. PendingFits(x, y)' /\ KnowledgeFits(x, y)'
  BY <1>1 DEF Phases, PendingFits, KnowledgeFits
<1>7. NothingForgotten(x, y)'
  BY <1>1 DEF Phases, NothingForgotten, Local, Lost
<1>8. InOrder'
  BY DEF At, InOrder
<1> QED
  BY <1>1, <1>4, <1>5, <1>6, <1>7, <1>8 DEF At, Phases, Together

LEMMA MakingKept ==
    ASSUME NEW c \in Browser, MakingFits(c),
           /\ makingOffer'[c] = makingOffer[c] /\ (NoOffer \in syncing'[c] <=> NoOffer \in syncing[c])
           /\ Told(chain'[c], "make") = Told(chain[c], "make")
           /\ signaling'[c] = signaling[c] /\ offered'[c] = offered[c]
           /\ notified'[c] = notified[c] /\ refused'[c] = refused[c]
    PROVE  MakingFits(c)'
BY DEF MakingFits, Local

LEMMA BeginningKeeps ==
    ASSUME NEW x \in Phase, NEW y \in Phase, At(x, y), Typed', NEW b \in Browser,
           BeginNegotiation(b),
           UNCHANGED <<current, seen, signaling, offered, answerPending, channel, chain, refused>>,
           \A c \in Browser : c # b => notified'[c] = notified[c],
           notified'[b] = notified[b] \/ (signaling[b] = "stable" => makingOffer'[b])
    PROVE  At(x, y)'
<1>1. /\ syncing \in [Browser -> SUBSET (Offers \cup {NoOffer})]
      /\ makingOffer \in [Browser -> BOOLEAN]
      /\ \A c \in Browser : MakingFits(c)
  BY DEF At, Typed
<1>2. /\ \A c \in Browser : Remote(c)' = Remote(c)
      /\ \A c \in Browser : c # b => syncing'[c] = syncing[c] /\ makingOffer'[c] = makingOffer[c]
      /\ \/ syncing'[b] = syncing[b] /\ makingOffer'[b] = makingOffer[b]
         \/ /\ NoOffer \in syncing'[b] /\ makingOffer'[b]
            /\ ~makingOffer[b] /\ signaling[b] = "stable"
  BY <1>1 DEF BeginNegotiation, MayNegotiate, Remote
<1>3. MakingFits(b)'
  BY <1>1, <1>2 DEF MakingFits, Local
<1>4. \A c \in Browser : MakingFits(c)'
  BY <1>1, <1>2, <1>3 DEF MakingFits, Local
<1>5. makingOffer[1] => makingOffer'[1]
  BY <1>2, Browsers
<1>6. \A c \in Browser : Once(chain'[c]) /\ Ordered(chain'[c])
  BY DEF At, InOrder
<1> QED
  BY <1>2, <1>4, <1>5, <1>6, NothingExchanged

LEMMA ChangeTracksKeeps ==
    ASSUME NEW x \in Phase, NEW y \in Phase, At(x, y), Typed', NEW b \in Browser, ChangeTracks(b)
    PROVE  At(x, y)'
<1>1. UNCHANGED <<current, seen, signaling, offered, notified, chain, syncing, makingOffer,
                  answerPending, channel, refused>>
  BY DEF ChangeTracks
<1>2. \A c \in Browser : MakingFits(c)'
  BY <1>1 DEF At, MakingFits, Local
<1>3. \A c \in Browser : Once(chain'[c]) /\ Ordered(chain'[c]) /\ Remote(c)' = Remote(c)
  BY <1>1 DEF At, InOrder, Remote
<1> QED
  BY <1>1, <1>2, <1>3, NothingExchanged

LEMMA NegotiationNeededKeeps ==
    ASSUME NEW x \in Phase, NEW y \in Phase, At(x, y), Typed', NEW b \in Browser,
           NegotiationNeeded(b) \/ RestartIce(b)
    PROVE  At(x, y)'
<1>1. notified \in [Browser -> BOOLEAN] /\ makingOffer \in [Browser -> BOOLEAN]
  BY DEF At, Typed
<1>2. CASE NegotiationNeeded(b)
  <2>1. signaling[b] = "stable" => makingOffer'[b]
    BY <1>1, <1>2 DEF NegotiationNeeded, BeginNegotiation, MayNegotiate
  <2>2. \A c \in Browser : c # b => notified'[c] = notified[c]
    BY <1>1, <1>2 DEF NegotiationNeeded
  <2> QED
    BY <1>2, <2>1, <2>2, BeginningKeeps DEF NegotiationNeeded
<1>3. CASE RestartIce(b)
  BY <1>3, BeginningKeeps DEF RestartIce
<1> QED
  BY <1>2, <1>3

(* createOffer, and the setLocalDescription that follows it. *)
LEMMA CreateOfferKeeps ==
    ASSUME NEW x \in Phase, NEW y \in Phase, At(x, y), Typed', NEW b \in Browser, CreateOffer(b)
    PROVE  At(x, y)'
<1> DEFINE h == Head(chain[b])
<1>1. /\ Typed /\ InOrder /\ Phases(x, y) /\ chain[b] # <<>> /\ h.name = "createOffer"
      /\ \A c \in Browser : MakingFits(c)
      /\ makingOffer \in [Browser -> BOOLEAN]
      /\ refused \in [Browser -> SUBSET Refusals]
  BY DEF At, Typed, CreateOffer, Next_
<1>2. Kind(h) = "make"
  BY <1>1, HeadOperation
<1> HIDE DEF h
<1>3. UNCHANGED <<current, seen, signaling, offered, notified, answerPending, channel, syncing>>
  BY DEF CreateOffer, connection
<1>4. CASE signaling[b] # "have-remote-offer"
  <2> DEFINE op == Op("setOffer", Offer(tracks[b]))
  <2>1. op \in Ops /\ Kind(op) = "make"
    BY <1>1, QueuedOperations DEF Typed
  <2>2. Continued(b, op) /\ UNCHANGED <<makingOffer, refused>>
    BY <1>4 DEF CreateOffer
  <2> HIDE DEF op
  <2>3. /\ \A c \in Browser : Once(chain'[c]) /\ Ordered(chain'[c])
        /\ \A c \in Browser : c # b => chain'[c] = chain[c]
        /\ Told(chain[b], "make") # {} /\ Told(chain'[b], "make") # {}
        /\ \A k : k # "make" => Told(chain'[b], k) = Told(chain[b], k)
    <3>1. Kind(op) = Kind(h)
      BY <1>2, <2>1
    <3> QED
      BY <1>1, <1>2, <2>1, <2>2, <3>1, ChainContinues DEF h
  <2>4. MakingFits(b)'
    BY <1>1, <1>3, <2>2, <2>3 DEF MakingFits, Local
  <2>5. \A c \in Browser : MakingFits(c)'
    <3>1. ASSUME NEW c \in Browser, c # b
          PROVE  MakingFits(c)'
      BY <1>1, <1>3, <2>2, <2>3, <3>1, MakingKept
    <3> QED
      BY <2>4, <3>1
  <2> QED
    BY <1>3, <2>2, <2>3, <2>5, NothingExchanged DEF Remote
<1>5. CASE signaling[b] = "have-remote-offer"
  <2>1. Executed(b) /\ makingOffer' = DoneMaking(b) /\ Refuse(b, "createOffer")
    BY <1>5 DEF CreateOffer
  <2>2. /\ \A c \in Browser : Once(chain'[c]) /\ Ordered(chain'[c])
        /\ \A c \in Browser : c # b => chain'[c] = chain[c]
        /\ Told(chain[b], "make") # {} /\ Told(chain'[b], "make") = {}
        /\ \A k : k # "make" => Told(chain'[b], k) = Told(chain[b], k)
    BY <1>1, <1>2, <2>1, ChainRuns DEF h
  <2>3. /\ ~makingOffer'[b] /\ \A c \in Browser : c # b => makingOffer'[c] = makingOffer[c]
        /\ refused'[b] = refused[b] \cup {"createOffer"}
        /\ \A c \in Browser : c # b => refused'[c] = refused[c]
    BY <1>1, <2>1 DEF DoneMaking, Refuse
  <2>4. MakingFits(b)'
    BY <1>1, <1>3, <1>5, <2>2, <2>3 DEF MakingFits, Local
  <2>5. \A c \in Browser : MakingFits(c)'
    <3>1. ASSUME NEW c \in Browser, c # b
          PROVE  MakingFits(c)'
      BY <1>1, <1>3, <2>2, <2>3, <3>1, MakingKept
    <3> QED
      BY <2>4, <3>1
  <2>6. b = 1 => y # "none"
    BY <1>1, <1>5 DEF Phases, SecondExchange
  <2>7. makingOffer[1] => makingOffer'[1] \/ y # "none"
    BY <2>3, <2>6, Browsers
  <2>8. refused[2] \subseteq refused'[2]
    BY <2>3, Browsers
  <2> QED
    BY <1>3, <2>2, <2>5, <2>7, <2>8, NothingExchanged DEF Remote
<1> QED
  BY <1>4, <1>5

(* The tracks are synced for an offer ... *)
LEMMA TracksSyncedToOffer ==
    ASSUME NEW x \in Phase, NEW y \in Phase, At(x, y), Typed', NEW b \in Browser,
           NoOffer \in syncing[b],
           syncing' = [syncing EXCEPT ![b] = @ \ {NoOffer}],
           Queue(b, Op("createOffer", NoOffer)),
           UNCHANGED <<connection, makingOffer, answerPending, channel, refused>>
    PROVE  At(x, y)'
<1> DEFINE op == Op("createOffer", NoOffer)
<1>1. /\ Typed /\ InOrder /\ \A c \in Browser : MakingFits(c)
      /\ syncing \in [Browser -> SUBSET (Offers \cup {NoOffer})]
  BY DEF At, Typed
<1>2. op \in Ops /\ Kind(op) = "make" /\ Queue(b, op)
  BY QueuedOperations
<1> HIDE DEF op
<1>3. Told(chain[b], "make") = {}
  BY <1>1 DEF MakingFits
<1>4. /\ \A c \in Browser : Once(chain'[c]) /\ Ordered(chain'[c])
      /\ \A c \in Browser : c # b => chain'[c] = chain[c]
      /\ Told(chain'[b], "make") # {}
      /\ \A k : k # "make" => Told(chain'[b], k) = Told(chain[b], k)
  BY <1>1, <1>2, <1>3, ChainGrows
<1>5. /\ syncing'[b] = syncing[b] \ {NoOffer}
      /\ \A c \in Browser : c # b => syncing'[c] = syncing[c]
  BY <1>1
<1>6. \A c \in Browser : Remote(c)' = Remote(c)
  BY <1>5 DEF Remote
<1>7. MakingFits(b)'
  BY <1>1, <1>4, <1>5 DEF MakingFits, Local, connection
<1>8. \A c \in Browser : MakingFits(c)'
  BY <1>1, <1>4, <1>5, <1>7 DEF MakingFits, Local, connection
<1> QED
  BY <1>4, <1>6, <1>8, NothingExchanged DEF connection

(* ... and for the answer to an offer. *)
LEMMA TracksSyncedToAnswer ==
    ASSUME NEW x \in Phase, NEW y \in Phase, At(x, y), Typed', NEW b \in Browser,
           NEW d \in syncing[b], d # NoOffer,
           syncing' = [syncing EXCEPT ![b] = @ \ {d}],
           Queue(b, Op("setAnswer", d)),
           UNCHANGED <<connection, makingOffer, answerPending, channel, refused>>
    PROVE  \E u, v \in Phase : At(u, v)'
<1> USE Browsers
<1> DEFINE op == Op("setAnswer", d)
<1>1. /\ Typed /\ InOrder /\ \A c \in Browser : MakingFits(c)
      /\ Phases(x, y)
      /\ syncing \in [Browser -> SUBSET (Offers \cup {NoOffer})]
  BY DEF At, Typed
<1>2. d \in Offers /\ d \in Remote(b)
  BY <1>1 DEF Remote
<1>3. op \in Ops /\ Kind(op) = "answer" /\ op.description = d /\ Queue(b, op)
  BY <1>2, QueuedOperations
<1> HIDE DEF op
<1>4. /\ b = 1 => y = "sync" /\ d = offered[2] /\ Remote(1) = {d}
      /\ b = 2 => x = "sync" /\ d = offered[1] /\ Remote(2) = {d}
  BY <1>1, <1>2 DEF Phases, FirstExchange, SecondExchange, If
<1>5. Told(chain[b], "answer") = {}
  BY <1>1, <1>4 DEF Phases, FirstExchange, SecondExchange, If
<1>6. /\ \A c \in Browser : Once(chain'[c]) /\ Ordered(chain'[c])
      /\ \A c \in Browser : c # b => chain'[c] = chain[c]
      /\ Told(chain'[b], "answer") = {d}
      /\ \A k : k # "answer" => Told(chain'[b], k) = Told(chain[b], k)
  BY <1>1, <1>3, <1>5, ChainGrows
<1>7. /\ syncing'[b] = syncing[b] \ {d}
      /\ \A c \in Browser : c # b => syncing'[c] = syncing[c]
  BY <1>1
<1>8. /\ Remote(b)' = {}
      /\ \A c \in Browser : c # b => Remote(c)' = Remote(c)
      /\ \A c \in Browser : NoOffer \in syncing'[c] <=> NoOffer \in syncing[c]
  BY <1>4, <1>7 DEF Remote
<1>9. \A c \in Browser : Told(chain'[c], "make") = Told(chain[c], "make")
  BY <1>6
<1>10. \A c \in Browser : MakingFits(c)'
  BY <1>1, <1>8, <1>9 DEF MakingFits, Local, connection
<1>11. InOrder'
  BY <1>1, <1>6 DEF InOrder
<1>12. UNCHANGED <<current, seen, signaling, offered, makingOffer, answerPending, channel, refused>>
  BY DEF connection
<1>13. CASE b = 1
  <2>1. /\ chain'[2] = chain[2] /\ Remote(2)' = Remote(2) /\ Remote(1)' = {}
        /\ Told(chain'[1], "answer") = {offered[2]}
        /\ \A k \in {"rollback", "accept", "finish"} : Told(chain'[1], k) = Told(chain[1], k)
        /\ y = "sync"
    BY <1>4, <1>6, <1>8, <1>13
  <2>2. FirstExchange(x)'
    BY <1>1, <1>12, <2>1 DEF Phases, FirstExchange, If, Local
  <2>3. SecondExchange(x, "answer")'
    BY <1>1, <1>12, <2>1 DEF Phases, SecondExchange, If, Local
  <2>4. Together(x, "answer") /\ PendingFits(x, "answer")' /\ KnowledgeFits(x, "answer")'
        /\ NothingForgotten(x, "answer")'
    BY <1>1, <1>12, <2>1 DEF Phases, Together, PendingFits, KnowledgeFits, NothingForgotten, Local, Lost
  <2>5. At(x, "answer")'
    BY <1>10, <1>11, <2>2, <2>3, <2>4 DEF At, Phases, Together
  <2> QED
    BY <2>5 DEF Phase
<1>14. CASE b = 2
  <2>1. /\ chain'[1] = chain[1] /\ Remote(1)' = Remote(1) /\ Remote(2)' = {}
        /\ Told(chain'[2], "answer") = {offered[1]}
        /\ \A k \in {"rollback", "accept", "finish"} : Told(chain'[2], k) = Told(chain[2], k)
        /\ x = "sync"
    BY <1>4, <1>6, <1>8, <1>14
  <2>2. FirstExchange("answer")'
    BY <1>1, <1>12, <2>1 DEF Phases, FirstExchange, If, Local
  <2>3. SecondExchange("answer", y)'
    BY <1>1, <1>12, <2>1 DEF Phases, SecondExchange, If, Local
  <2>4. Together("answer", y) /\ PendingFits("answer", y)' /\ KnowledgeFits("answer", y)'
        /\ NothingForgotten("answer", y)'
    BY <1>1, <1>12, <2>1 DEF Phases, Together, PendingFits, KnowledgeFits, NothingForgotten, Local, Lost
  <2>5. At("answer", y)'
    BY <1>10, <1>11, <2>2, <2>3, <2>4 DEF At, Phases, Together
  <2> QED
    BY <2>5 DEF Phase
<1> QED
  BY <1>13, <1>14
-----------------------------------------------------------------------------
(***************************************************************************)
(* An offer is set and sent.                                               *)
(***************************************************************************)
LEMMA SetOfferRefused ==
    ASSUME NEW x \in Phase, NEW y \in Phase, At(x, y), Typed', NEW b \in Browser,
           SetOffer(b), signaling[b] = "have-remote-offer"
    PROVE  At(x, y)'
<1> DEFINE h == Head(chain[b])
<1>1. /\ Typed /\ InOrder /\ Phases(x, y) /\ chain[b] # <<>> /\ h.name = "setOffer"
      /\ \A c \in Browser : MakingFits(c)
      /\ makingOffer \in [Browser -> BOOLEAN]
      /\ refused \in [Browser -> SUBSET Refusals]
  BY DEF At, Typed, SetOffer, Next_
<1>2. Kind(h) = "make"
  BY <1>1, HeadOperation
<1> HIDE DEF h
<1>3. UNCHANGED <<current, seen, signaling, offered, notified, answerPending, channel, syncing>>
  BY DEF SetOffer
<1>4. Executed(b) /\ makingOffer' = DoneMaking(b) /\ Refuse(b, "setOffer")
  BY DEF SetOffer
<1>5. /\ \A c \in Browser : Once(chain'[c]) /\ Ordered(chain'[c])
      /\ \A c \in Browser : c # b => chain'[c] = chain[c]
      /\ Told(chain[b], "make") # {} /\ Told(chain'[b], "make") = {}
      /\ \A k : k # "make" => Told(chain'[b], k) = Told(chain[b], k)
  BY <1>1, <1>2, <1>4, ChainRuns DEF h
<1>6. /\ ~makingOffer'[b] /\ \A c \in Browser : c # b => makingOffer'[c] = makingOffer[c]
      /\ refused'[b] = refused[b] \cup {"setOffer"}
      /\ \A c \in Browser : c # b => refused'[c] = refused[c]
  BY <1>1, <1>4 DEF DoneMaking, Refuse
<1>7. MakingFits(b)'
  BY <1>1, <1>3, <1>5, <1>6 DEF MakingFits, Local
<1>8. \A c \in Browser : MakingFits(c)'
  <2>1. ASSUME NEW c \in Browser, c # b
        PROVE  MakingFits(c)'
    BY <1>1, <1>3, <1>5, <1>6, <2>1, MakingKept
  <2> QED
    BY <1>7, <2>1
<1>9. b = 1 => y # "none"
  BY <1>1 DEF Phases, SecondExchange
<1>10. makingOffer[1] => makingOffer'[1] \/ y # "none"
  BY <1>6, <1>9, Browsers
<1>11. refused[2] \subseteq refused'[2]
  BY <1>6, Browsers
<1> QED
  BY <1>3, <1>5, <1>8, <1>10, <1>11, NothingExchanged DEF Remote

LEMMA SetOfferSends ==
    ASSUME NEW x \in Phase, NEW y \in Phase, At(x, y), Typed', NEW b \in Browser,
           SetOffer(b), signaling[b] # "have-remote-offer"
    PROVE  \E u, v \in Phase : At(u, v)'
<1> USE Browsers
<1> DEFINE h == Head(chain[b])
           d == Description(b)
<1>1. /\ Typed /\ InOrder /\ Phases(x, y) /\ chain[b] # <<>> /\ h.name = "setOffer"
      /\ \A c \in Browser : MakingFits(c)
      /\ makingOffer \in [Browser -> BOOLEAN]
      /\ channel \in [Browser -> Seq(Offers \cup Answers)]
      /\ signaling \in [Browser -> {"stable", "have-local-offer", "have-remote-offer"}]
      /\ offered \in [Browser -> Offers \cup {NoOffer}]
  BY DEF At, Typed, SetOffer, Next_
<1>2. Kind(h) = "make" /\ d \in Offers
  BY <1>1, HeadOperation
<1>3. /\ d # NoOffer /\ Executed(b) /\ makingOffer' = DoneMaking(b)
      /\ signaling' = [signaling EXCEPT ![b] = "have-local-offer"]
      /\ offered' = [offered EXCEPT ![b] = d]
      /\ channel' = [channel EXCEPT ![Other(b)] = Append(@, d)]
      /\ UNCHANGED <<current, seen, notified, answerPending, syncing, refused>>
  BY <1>2, QueuedOperations DEF SetOffer, Send
<1>4. /\ \A c \in Browser : Once(chain'[c]) /\ Ordered(chain'[c])
      /\ \A c \in Browser : c # b => chain'[c] = chain[c]
      /\ Told(chain[b], "make") # {} /\ Told(chain'[b], "make") = {}
      /\ \A k : k # "make" => Told(chain'[b], k) = Told(chain[b], k)
      /\ Told(chain[b], "accept") = {}
  <2>1. Typed /\ InOrder /\ chain[b] # <<>> /\ Executed(b) /\ Kind(Head(chain[b])) = "make"
    BY <1>1, <1>2, <1>3
  <2> HIDE DEF d, h
  <2> QED
    BY <2>1, ChainRuns
<1> HIDE DEF h, d
<1>5. /\ makingOffer[b] /\ ~makingOffer'[b] /\ ~Local(b)
      /\ \A c \in Browser : c # b => makingOffer'[c] = makingOffer[c]
  BY <1>1, <1>3, <1>4 DEF DoneMaking, MakingFits
<1>6. /\ signaling'[b] = "have-local-offer" /\ offered'[b] = d
      /\ \A c \in Browser : c # b => signaling'[c] = signaling[c] /\ offered'[c] = offered[c]
      /\ channel'[Other(b)] = Append(channel[Other(b)], d) /\ channel'[b] = channel[b]
  BY <1>1, <1>3
<1>7. MakingFits(b)'
  BY <1>1, <1>3, <1>4, <1>5, <1>6 DEF MakingFits, Local
<1>8. \A c \in Browser : MakingFits(c)'
  <2>1. ASSUME NEW c \in Browser, c # b
        PROVE  MakingFits(c)'
    BY <1>1, <1>3, <1>4, <1>5, <1>6, <2>1, MakingKept
  <2> QED
    BY <1>7, <2>1
<1>9. CASE b = 1
  <2>1. x = "none" /\ y \in {"none", "channel", "back", "finish"}
    <3>1. x = "none"
      BY <1>1, <1>5, <1>9 DEF Phases, FirstExchange
    <3>2. y # "accept"
      BY <1>1, <1>4, <1>9 DEF Phases, SecondExchange, If
    <3>3. y \notin {"rollback", "sync", "answer"}
      BY <1>1, <1>9 DEF Phases, SecondExchange, Together
    <3> QED
      BY <3>1, <3>2, <3>3 DEF Phase
  <2>2. /\ Last(channel'[2]) = {d} /\ Replies(channel'[2]) = Replies(channel[2])
        /\ Single(channel'[2]) /\ AnswersFirst(channel'[2])
    <3>1. channel[2] \in Seq(Offers \cup Answers) /\ channel'[2] = Append(channel[2], d)
      BY <1>1, <1>6, <1>9
    <3>2. Single(channel[2]) /\ AnswersFirst(channel[2]) /\ Last(channel[2]) = {}
      BY <1>1, <2>1 DEF InOrder, Phases, FirstExchange, If
    <3> QED
      BY <1>2, <3>1, <3>2, SendOffer
  <2>3. /\ channel'[1] = channel[1] /\ chain'[2] = chain[2]
        /\ \A k \in {"rollback", "accept", "answer", "finish"} :
              Told(chain'[1], k) = Told(chain[1], k)
        /\ offered'[1] = d /\ offered'[2] = offered[2]
        /\ signaling'[1] = "have-local-offer" /\ signaling'[2] = signaling[2]
        /\ signaling[1] # "have-remote-offer"
    BY <1>4, <1>6, <1>9
  <2>4. InOrder'
    BY <1>1, <1>4, <2>2, <2>3 DEF InOrder
  <2>5. FirstExchange("channel")'
    BY <1>1, <1>3, <2>1, <2>2, <2>3 DEF Phases, FirstExchange, If, Local, Remote
  <2>6. SecondExchange("channel", y)'
    BY <1>1, <1>3, <2>1, <2>2, <2>3 DEF Phases, SecondExchange, If, Local, Remote
  <2>7. PendingFits("channel", y)' /\ KnowledgeFits("channel", y)'
    BY <1>1, <1>3, <2>1, <2>3 DEF Phases, PendingFits, KnowledgeFits
  <2>8. NothingForgotten("channel", y)'
    BY DEF NothingForgotten
  <2>9. Together("channel", y)
    BY <2>1 DEF Together
  <2>10. At("channel", y)'
    BY <1>8, <2>4, <2>5, <2>6, <2>7, <2>8, <2>9 DEF At, Phases, Together
  <2> QED
    BY <2>10 DEF Phase
<1>10. CASE b = 2
  <2>1. y = "none" /\ x \in {"none", "channel", "rollback", "back", "finish"}
    <3>1. y = "none"
      BY <1>1, <1>5, <1>10 DEF Phases, SecondExchange
    <3>2. x # "accept"
      BY <1>1, <1>4, <1>10 DEF Phases, FirstExchange, If
    <3>3. x \notin {"sync", "answer"}
      BY <1>1, <1>10 DEF Phases, FirstExchange
    <3> QED
      BY <3>1, <3>2, <3>3 DEF Phase
  <2>2. /\ Last(channel'[1]) = {d} /\ Replies(channel'[1]) = Replies(channel[1])
        /\ Single(channel'[1])
    <3>1. channel[1] \in Seq(Offers \cup Answers) /\ channel'[1] = Append(channel[1], d)
      BY <1>1, <1>6, <1>10
    <3>2. Single(channel[1]) /\ Last(channel[1]) = {}
      BY <1>1, <2>1 DEF InOrder, Phases, SecondExchange
    <3> QED
      BY <1>2, <3>1, <3>2, SendOffer
  <2>3. /\ channel'[2] = channel[2] /\ chain'[1] = chain[1]
        /\ \A k \in {"rollback", "accept", "answer", "finish"} :
              Told(chain'[2], k) = Told(chain[2], k)
        /\ offered'[2] = d /\ offered'[1] = offered[1]
        /\ signaling'[2] = "have-local-offer" /\ signaling'[1] = signaling[1]
        /\ signaling[2] # "have-remote-offer"
        /\ makingOffer'[1] = makingOffer[1]
    BY <1>4, <1>5, <1>6, <1>10
  <2>4. InOrder'
    BY <1>1, <1>4, <2>2, <2>3 DEF InOrder
  <2>5. FirstExchange(x)'
    <3>1. UNCHANGED <<current, syncing>> /\ FirstExchange(x) /\ x \notin {"accept", "sync", "answer"}
      BY <1>1, <1>3, <2>1 DEF Phases
    <3> QED
      BY <2>2, <2>3, <3>1 DEF FirstExchange, If, Local, Remote
  <2>6. SecondExchange(x, "channel")'
    BY <1>1, <1>3, <2>1, <2>2, <2>3 DEF Phases, SecondExchange, If, Local, Remote
  <2>7. PendingFits(x, "channel")' /\ KnowledgeFits(x, "channel")'
    BY <1>1, <1>3, <2>1, <2>3 DEF Phases, PendingFits, KnowledgeFits
  <2>8. NothingForgotten(x, "channel")'
    BY <1>1, <1>3, <2>1, <2>3 DEF Phases, NothingForgotten, Local, Lost
  <2>9. Together(x, "channel")
    BY <2>1 DEF Together
  <2>10. At(x, "channel")'
    BY <1>8, <2>4, <2>5, <2>6, <2>7, <2>8, <2>9 DEF At, Phases, Together
  <2> QED
    BY <2>10 DEF Phase
<1> QED
  BY <1>9, <1>10
-----------------------------------------------------------------------------
(***************************************************************************)
(* A rollback, and the offer that is taken after it.                       *)
(***************************************************************************)
LEMMA RollbackKeeps ==
    ASSUME NEW x \in Phase, NEW y \in Phase, At(x, y), Typed', NEW b \in Browser, Rollback(b)
    PROVE  \E u, v \in Phase : At(u, v)'
<1> USE Browsers
<1> DEFINE h == Head(chain[b])
           d == Description(b)
           op == Op("setRemote", d)
<1>1. /\ Typed /\ InOrder /\ Phases(x, y) /\ chain[b] # <<>> /\ h.name = "rollback"
      /\ \A c \in Browser : MakingFits(c)
      /\ signaling \in [Browser -> {"stable", "have-local-offer", "have-remote-offer"}]
      /\ offered \in [Browser -> Offers \cup {NoOffer}]
      /\ notified \in [Browser -> BOOLEAN] /\ answerPending \in [Browser -> BOOLEAN]
      /\ refused \in [Browser -> SUBSET Refusals]
  BY DEF At, Typed, Rollback, Next_
<1>2. Kind(h) = "rollback" /\ d \in Offers
  BY <1>1, HeadOperation
<1>3. Told(chain[b], "rollback") = {d}
  <2>1. Once(chain[b]) /\ Ordered(chain[b]) /\ chain[b] \in Seq(Ops)
    BY <1>1 DEF InOrder, Typed
  <2> QED
    BY <1>1, <1>2, <2>1, TailOfChain DEF Description
<1>4. op \in Ops /\ Kind(op) = "accept" /\ op.description = d
  BY <1>2, QueuedOperations
<1> HIDE DEF h, d, op
<1>5. /\ b = 2 /\ x = "rollback" /\ d = offered[1] /\ y \in {"none", "channel"}
      /\ Local(1) /\ signaling[2] # "have-remote-offer"
  BY <1>1, <1>3 DEF Phases, FirstExchange, SecondExchange, Together, If
<1>6. CASE signaling[2] = "stable"
  <2>1. /\ Executed(2) /\ Refuse(2, "rollback")
        /\ UNCHANGED <<current, seen, signaling, offered, notified, answerPending, syncing,
                       makingOffer, channel>>
    BY <1>5, <1>6 DEF Rollback
  <2>2. /\ \A c \in Browser : Once(chain'[c]) /\ Ordered(chain'[c])
        /\ chain'[1] = chain[1]
        /\ Told(chain'[2], "rollback") = {}
        /\ \A k : k # "rollback" => Told(chain'[2], k) = Told(chain[2], k)
    BY <1>1, <1>2, <1>5, <2>1, ChainRuns DEF h
  <2>3. refused'[1] = refused[1] /\ refused'[2] = refused[2] \cup {"rollback"}
    BY <1>1, <2>1 DEF Refuse
  <2>4. \A c \in Browser : MakingFits(c)'
    <3>1. MakingFits(1)'
      BY <1>1, <2>1, <2>2, <2>3, MakingKept
    <3>2. MakingFits(2)'
      BY <1>1, <2>1, <2>2, <2>3 DEF MakingFits, Local
    <3> QED
      BY <3>1, <3>2
  <2>5. InOrder'
    BY <1>1, <2>1, <2>2 DEF InOrder
  <2>6. FirstExchange("none")'
    BY <1>1, <1>5, <2>1, <2>2 DEF Phases, FirstExchange, If, Local, Remote
  <2>7. SecondExchange("none", y)'
    BY <1>1, <1>5, <2>1, <2>2 DEF Phases, SecondExchange, If, Local, Remote
  <2>8. PendingFits("none", y)' /\ KnowledgeFits("none", y)'
    BY <1>1, <1>5, <2>1 DEF Phases, PendingFits, KnowledgeFits
  <2>9. NothingForgotten("none", y)'
    BY <1>5, <2>3 DEF NothingForgotten, Lost
  <2>10. At("none", y)'
    BY <1>5, <2>4, <2>5, <2>6, <2>7, <2>8, <2>9 DEF At, Phases, Together
  <2> QED
    BY <2>10 DEF Phase
<1>7. CASE signaling[2] # "stable"
  <2>1. Local(2) /\ ~makingOffer[2] /\ Told(chain[2], "make") = {}
    BY <1>1, <1>5, <1>7 DEF Local, MakingFits
  <2>2. Told(chain[2], "accept") = {}
    BY <1>1, <1>5 DEF Phases, FirstExchange, If
  <2>3. /\ Continued(2, op)
        /\ signaling' = [signaling EXCEPT ![2] = "stable"]
        /\ offered' = [offered EXCEPT ![2] = NoOffer]
        /\ notified' = [notified EXCEPT ![2] = FALSE]
        /\ answerPending' = [answerPending EXCEPT ![2] = FALSE]
        /\ UNCHANGED <<current, seen, syncing, makingOffer, channel, refused>>
    BY <1>5, <1>7 DEF Rollback, op, d
  <2>4. /\ \A c \in Browser : Once(chain'[c]) /\ Ordered(chain'[c])
        /\ chain'[1] = chain[1]
        /\ Told(chain'[2], "rollback") = {} /\ Told(chain'[2], "accept") = {d}
        /\ \A k : k \notin {"rollback", "accept"} => Told(chain'[2], k) = Told(chain[2], k)
    BY <1>1, <1>2, <1>4, <1>5, <2>1, <2>2, <2>3, ChainContinues DEF h
  <2>5. /\ signaling'[2] = "stable" /\ offered'[2] = NoOffer /\ ~notified'[2]
        /\ ~answerPending'[2]
        /\ signaling'[1] = signaling[1] /\ offered'[1] = offered[1]
        /\ notified'[1] = notified[1] /\ answerPending'[1] = answerPending[1]
    BY <1>1, <2>3
  <2>6. \A c \in Browser : MakingFits(c)'
    <3>1. MakingFits(1)'
      BY <1>1, <2>3, <2>4, <2>5, MakingKept
    <3>2. MakingFits(2)'
      BY <1>1, <2>3, <2>4, <2>5 DEF MakingFits, Local
    <3> QED
      BY <3>1, <3>2
  <2>7. InOrder'
    BY <1>1, <2>3, <2>4 DEF InOrder
  <2>8. FirstExchange("accept")'
    BY <1>1, <1>5, <2>3, <2>4, <2>5 DEF Phases, FirstExchange, If, Local, Remote
  <2>9. SecondExchange("accept", "none")'
    BY <1>1, <1>5, <2>3, <2>4, <2>5 DEF Phases, SecondExchange, If, Local, Remote
  <2>10. PendingFits("accept", "none")' /\ KnowledgeFits("accept", "none")'
    BY <1>1, <1>5, <2>3, <2>5 DEF Phases, PendingFits, KnowledgeFits
  <2>11. NothingForgotten("accept", "none")'
    BY DEF NothingForgotten
  <2>12. At("accept", "none")'
    BY <2>6, <2>7, <2>8, <2>9, <2>10, <2>11 DEF At, Phases, Together
  <2> QED
    BY <2>12 DEF Phase
<1> QED
  BY <1>6, <1>7

LEMMA SetRemoteOfferKeeps ==
    ASSUME NEW x \in Phase, NEW y \in Phase, At(x, y), Typed', NEW b \in Browser, SetRemoteOffer(b)
    PROVE  \E u, v \in Phase : At(u, v)'
<1> USE Browsers
<1> DEFINE h == Head(chain[b])
           d == Description(b)
<1>1. /\ Typed /\ InOrder /\ Phases(x, y) /\ chain[b] # <<>> /\ h.name = "setRemote"
      /\ d.type = "offer"
      /\ \A c \in Browser : MakingFits(c)
      /\ signaling \in [Browser -> {"stable", "have-local-offer", "have-remote-offer"}]
      /\ offered \in [Browser -> Offers \cup {NoOffer}]
      /\ seen \in [Browser -> Nat]
      /\ answerPending \in [Browser -> BOOLEAN]
      /\ syncing \in [Browser -> SUBSET (Offers \cup {NoOffer})]
  BY DEF At, Typed, SetRemoteOffer, Next_
<1>2. Kind(h) = "accept" /\ d \in Offers /\ d # NoOffer
  BY <1>1, HeadOperation, QueuedOperations
<1>3. /\ Executed(b)
      /\ signaling' = [signaling EXCEPT ![b] = "have-remote-offer"]
      /\ offered' = [offered EXCEPT ![b] = NoOffer]
      /\ seen' = [seen EXCEPT ![b] = d.revision]
      /\ answerPending' = [answerPending EXCEPT ![b] = FALSE]
      /\ syncing' = [syncing EXCEPT ![b] = @ \cup {d}]
      /\ UNCHANGED <<current, notified, makingOffer, channel, refused>>
  BY DEF SetRemoteOffer
<1>4. /\ \A c \in Browser : Once(chain'[c]) /\ Ordered(chain'[c])
      /\ \A c \in Browser : c # b => chain'[c] = chain[c]
      /\ Told(chain[b], "accept") = {d} /\ Told(chain'[b], "accept") = {}
      /\ \A k : k # "accept" => Told(chain'[b], k) = Told(chain[b], k)
      /\ Told(chain[b], "finish") = {}
  BY <1>1, <1>2, <1>3, ChainRuns DEF h
<1> HIDE DEF h, d
<1>5. /\ signaling'[b] = "have-remote-offer" /\ offered'[b] = NoOffer
      /\ seen'[b] = d.revision /\ ~answerPending'[b] /\ syncing'[b] = syncing[b] \cup {d}
      /\ \A c \in Browser : c # b => /\ signaling'[c] = signaling[c] /\ offered'[c] = offered[c]
                                    /\ seen'[c] = seen[c] /\ answerPending'[c] = answerPending[c]
                                    /\ syncing'[c] = syncing[c]
  BY <1>1, <1>3
<1>6. \A c \in Browser : MakingFits(c)'
  <2>1. ASSUME NEW c \in Browser, c # b
        PROVE  MakingFits(c)'
    BY <1>1, <1>3, <1>4, <1>5, <2>1, MakingKept
  <2>2. MakingFits(b)'
    <3>1. /\ NoOffer \in syncing'[b] <=> NoOffer \in syncing[b]
          /\ Told(chain'[b], "make") = Told(chain[b], "make")
          /\ makingOffer'[b] = makingOffer[b] /\ refused'[b] = refused[b]
          /\ signaling'[b] = "have-remote-offer" /\ offered'[b] = NoOffer
      BY <1>2, <1>3, <1>4, <1>5
    <3>2. MakingFits(b)
      BY <1>1
    <3> QED
      BY <3>1, <3>2 DEF MakingFits, Local
  <2> QED
    BY <2>1, <2>2
<1>7. InOrder'
  BY <1>1, <1>3, <1>4 DEF InOrder
<1>8. /\ Remote(b)' = Remote(b) \cup {d}
      /\ \A c \in Browser : c # b => Remote(c)' = Remote(c)
  BY <1>2, <1>5 DEF Remote
<1>9. CASE b = 1
  <2>1. y = "accept" /\ x = "none" /\ d = offered[2] /\ Remote(1) = {} /\ Local(2)
    BY <1>1, <1>4, <1>9 DEF Phases, FirstExchange, SecondExchange, Together, If, Phase
  <2>2. /\ chain'[2] = chain[2] /\ Remote(2)' = Remote(2) /\ Remote(1)' = {d}
        /\ Told(chain'[1], "accept") = {}
        /\ \A k \in {"rollback", "answer", "finish"} : Told(chain'[1], k) = Told(chain[1], k)
        /\ signaling'[2] = signaling[2] /\ offered'[2] = offered[2] /\ seen'[2] = seen[2]
        /\ answerPending'[2] = answerPending[2]
        /\ signaling'[1] = "have-remote-offer" /\ seen'[1] = d.revision /\ ~answerPending'[1]
    BY <1>4, <1>5, <1>8, <1>9, <2>1
  <2>3. FirstExchange("none")'
    BY <1>1, <1>3, <2>1, <2>2 DEF Phases, FirstExchange, If, Local
  <2>4. SecondExchange("none", "sync")'
    BY <1>1, <1>3, <2>1, <2>2 DEF Phases, SecondExchange, If, Local
  <2>5. PendingFits("none", "sync")' /\ KnowledgeFits("none", "sync")'
    BY <1>1, <1>3, <2>1, <2>2 DEF Phases, PendingFits, KnowledgeFits
  <2>6. NothingForgotten("none", "sync")'
    BY <2>2 DEF NothingForgotten, Local
  <2>7. At("none", "sync")'
    BY <1>6, <1>7, <2>3, <2>4, <2>5, <2>6 DEF At, Phases, Together
  <2> QED
    BY <2>7 DEF Phase
<1>10. CASE b = 2
  <2>1. x = "accept" /\ y = "none" /\ d = offered[1] /\ Remote(2) = {} /\ Local(1)
    BY <1>1, <1>4, <1>10 DEF Phases, FirstExchange, SecondExchange, Together, If, Phase
  <2>2. /\ chain'[1] = chain[1] /\ Remote(1)' = Remote(1) /\ Remote(2)' = {d}
        /\ Told(chain'[2], "accept") = {}
        /\ \A k \in {"rollback", "answer", "finish"} : Told(chain'[2], k) = Told(chain[2], k)
        /\ signaling'[1] = signaling[1] /\ offered'[1] = offered[1] /\ seen'[1] = seen[1]
        /\ answerPending'[1] = answerPending[1]
        /\ signaling'[2] = "have-remote-offer" /\ seen'[2] = d.revision /\ ~answerPending'[2]
    BY <1>4, <1>5, <1>8, <1>10, <2>1
  <2>3. FirstExchange("sync")'
    BY <1>1, <1>3, <2>1, <2>2 DEF Phases, FirstExchange, If, Local
  <2>4. SecondExchange("sync", "none")'
    BY <1>1, <1>3, <2>1, <2>2 DEF Phases, SecondExchange, If, Local
  <2>5. PendingFits("sync", "none")' /\ KnowledgeFits("sync", "none")'
    BY <1>1, <1>3, <2>1, <2>2 DEF Phases, PendingFits, KnowledgeFits
  <2>6. NothingForgotten("sync", "none")'
    BY <2>2 DEF NothingForgotten, Local
  <2>7. At("sync", "none")'
    BY <1>6, <1>7, <2>3, <2>4, <2>5, <2>6 DEF At, Phases, Together
  <2> QED
    BY <2>7 DEF Phase
<1> QED
  BY <1>9, <1>10
-----------------------------------------------------------------------------
(***************************************************************************)
(* An answer is set and sent, and arrives.                                 *)
(***************************************************************************)
LEMMA SetAnswerKeeps ==
    ASSUME NEW x \in Phase, NEW y \in Phase, At(x, y), Typed', NEW b \in Browser, SetAnswer(b)
    PROVE  \E u, v \in Phase : At(u, v)'
<1> USE Browsers
<1> DEFINE h == Head(chain[b])
           d == Description(b)
<1>1. /\ Typed /\ InOrder /\ Phases(x, y) /\ chain[b] # <<>> /\ h.name = "setAnswer"
      /\ \A c \in Browser : MakingFits(c)
      /\ signaling \in [Browser -> {"stable", "have-local-offer", "have-remote-offer"}]
      /\ notified \in [Browser -> BOOLEAN]
      /\ tracks \in [Browser -> Nat] /\ current \in [Browser -> Nat]
      /\ channel \in [Browser -> Seq(Offers \cup Answers)]
  BY DEF At, Typed, SetAnswer, Next_
<1>2. Kind(h) = "answer" /\ d \in Offers
  BY <1>1, HeadOperation
<1>3. Executed(b) /\ UNCHANGED <<seen, syncing, makingOffer, answerPending>>
  BY DEF SetAnswer
<1>4. /\ \A c \in Browser : Once(chain'[c]) /\ Ordered(chain'[c])
      /\ \A c \in Browser : c # b => chain'[c] = chain[c]
      /\ Told(chain[b], "answer") = {d} /\ Told(chain'[b], "answer") = {}
      /\ \A k : k # "answer" => Told(chain'[b], k) = Told(chain[b], k)
  BY <1>1, <1>2, <1>3, ChainRuns DEF h
<1> HIDE DEF h
<1>5. /\ b = 1 => y = "answer" /\ x = "none" /\ d = offered[2]
      /\ b = 2 => x = "answer" /\ y = "none" /\ d = offered[1]
      /\ signaling[b] = "have-remote-offer" /\ ~Local(b)
  <2>1. CASE b = 1
    <3>1. y = "answer" /\ d = offered[2]
      BY <1>1, <1>4, <2>1 DEF Phases, SecondExchange, If
    <3>2. x = "none"
      BY <1>1, <3>1 DEF Phases, Together, Phase
    <3> QED
      BY <1>1, <2>1, <3>1, <3>2 DEF Phases, SecondExchange, Local
  <2>2. CASE b = 2
    <3>1. x = "answer" /\ d = offered[1]
      BY <1>1, <1>4, <2>2 DEF Phases, FirstExchange, If
    <3>2. y = "none"
      BY <1>1, <3>1 DEF Phases, Together, Phase
    <3> QED
      BY <1>1, <2>2, <3>1, <3>2 DEF Phases, FirstExchange, Local
  <2> QED
    BY <2>1, <2>2
<1>6. PICK told \in {current[b], tracks[b]} :
        current' = [current EXCEPT ![b] = told] /\ Send(b, Answer(told, d))
  BY <1>5 DEF SetAnswer
<1>7. /\ signaling' = [signaling EXCEPT ![b] = "stable"]
      /\ notified' = [notified EXCEPT ![b] = FALSE]
      /\ UNCHANGED <<offered, refused>>
  BY <1>5 DEF SetAnswer
<1> DEFINE a == Answer(told, d)
<1>8. told \in Nat /\ a \in Answers /\ a.revision = told /\ a.answers = d.revision
  <2>1. told \in Nat
    BY <1>1
  <2>2. d \in Offers
    BY <1>2
  <2> HIDE DEF d
  <2> QED
    BY <2>1, <2>2, QueuedOperations
<1> HIDE DEF a, d
<1>9. /\ signaling'[b] = "stable" /\ ~notified'[b] /\ current'[b] = told
      /\ channel'[Other(b)] = Append(channel[Other(b)], a) /\ channel'[b] = channel[b]
      /\ \A c \in Browser : c # b => /\ signaling'[c] = signaling[c] /\ notified'[c] = notified[c]
                                    /\ current'[c] = current[c]
  BY <1>1, <1>6, <1>7 DEF Send, a
<1>10. \A c \in Browser : MakingFits(c)'
  <2>1. ASSUME NEW c \in Browser, c # b
        PROVE  MakingFits(c)'
    BY <1>1, <1>3, <1>4, <1>7, <1>9, <2>1, MakingKept
  <2>2. MakingFits(b)'
    <3>1. /\ syncing'[b] = syncing[b] /\ Told(chain'[b], "make") = Told(chain[b], "make")
          /\ makingOffer'[b] = makingOffer[b] /\ refused'[b] = refused[b]
          /\ signaling'[b] = "stable" /\ offered'[b] = offered[b] /\ ~notified'[b]
      BY <1>3, <1>4, <1>7, <1>9
    <3>2. MakingFits(b) /\ ~Local(b)
      BY <1>1, <1>5
    <3> QED
      BY <3>1, <3>2 DEF MakingFits, Local
  <2> QED
    BY <2>1, <2>2
<1>11. UNCHANGED <<seen, syncing, answerPending, offered, refused, makingOffer>>
  BY <1>3, <1>7
<1>12. CASE b = 1
  <2>1. /\ Last(channel'[2]) = {} /\ Replies(channel'[2]) = {a}
        /\ Single(channel'[2]) /\ AnswersFirst(channel'[2])
    <3>1. channel[2] \in Seq(Offers \cup Answers) /\ channel'[2] = Append(channel[2], a)
      BY <1>1, <1>9, <1>12
    <3>2. /\ Single(channel[2]) /\ AnswersFirst(channel[2]) /\ Last(channel[2]) = {}
          /\ Replies(channel[2]) = {}
      BY <1>1, <1>5, <1>12 DEF InOrder, Phases, FirstExchange, SecondExchange, If
    <3> QED
      BY <1>8, <3>1, <3>2, SendAnswer
  <2>2. /\ channel'[1] = channel[1] /\ chain'[2] = chain[2]
        /\ \A k \in {"rollback", "accept", "finish"} : Told(chain'[1], k) = Told(chain[1], k)
        /\ Told(chain'[1], "answer") = {}
        /\ current'[2] = current[2] /\ current'[1] = told
        /\ signaling'[1] = "stable" /\ signaling'[2] = signaling[2]
        /\ a.answers = offered[2].revision /\ a.revision = told
        /\ x = "none" /\ y = "answer"
    BY <1>4, <1>5, <1>8, <1>9, <1>12
  <2>3. InOrder'
    BY <1>1, <1>4, <2>1, <2>2 DEF InOrder
  <2>4. FirstExchange("none")'
    BY <1>1, <1>11, <2>1, <2>2 DEF Phases, FirstExchange, If, Local, Remote
  <2>5. SecondExchange("none", "back")'
    BY <1>1, <1>11, <2>1, <2>2 DEF Phases, SecondExchange, If, Local, Remote
  <2>6. PendingFits("none", "back")' /\ KnowledgeFits("none", "back")'
    BY <1>1, <1>11, <2>2 DEF Phases, PendingFits, KnowledgeFits
  <2>7. NothingForgotten("none", "back")'
    BY <2>2 DEF NothingForgotten, Local
  <2>8. At("none", "back")'
    BY <1>10, <2>3, <2>4, <2>5, <2>6, <2>7 DEF At, Phases, Together
  <2> QED
    BY <2>8 DEF Phase
<1>13. CASE b = 2
  <2>1. /\ Last(channel'[1]) = {} /\ Replies(channel'[1]) = {a} /\ Single(channel'[1])
    <3>1. channel[1] \in Seq(Offers \cup Answers) /\ channel'[1] = Append(channel[1], a)
      BY <1>1, <1>9, <1>13
    <3>2. Single(channel[1]) /\ Replies(channel[1]) = {}
      BY <1>1, <1>5, <1>13 DEF InOrder, Phases, FirstExchange
    <3> QED
      BY <1>8, <3>1, <3>2, SendAnswer
  <2>2. /\ channel'[2] = channel[2] /\ chain'[1] = chain[1]
        /\ \A k \in {"rollback", "accept", "finish"} : Told(chain'[2], k) = Told(chain[2], k)
        /\ Told(chain'[2], "answer") = {}
        /\ current'[1] = current[1] /\ current'[2] = told
        /\ signaling'[2] = "stable" /\ signaling'[1] = signaling[1]
        /\ a.answers = offered[1].revision /\ a.revision = told
        /\ x = "answer" /\ y = "none"
    BY <1>4, <1>5, <1>8, <1>9, <1>13
  <2>3. InOrder'
    BY <1>1, <1>4, <2>1, <2>2 DEF InOrder
  <2>4. FirstExchange("back")'
    BY <1>1, <1>11, <2>1, <2>2 DEF Phases, FirstExchange, If, Local, Remote
  <2>5. SecondExchange("back", "none")'
    BY <1>1, <1>11, <2>1, <2>2 DEF Phases, SecondExchange, If, Local, Remote
  <2>6. PendingFits("back", "none")' /\ KnowledgeFits("back", "none")'
    BY <1>1, <1>11, <2>2 DEF Phases, PendingFits, KnowledgeFits
  <2>7. NothingForgotten("back", "none")'
    BY <2>2 DEF NothingForgotten, Local
  <2>8. At("back", "none")'
    BY <1>10, <2>3, <2>4, <2>5, <2>6, <2>7 DEF At, Phases, Together
  <2> QED
    BY <2>8 DEF Phase
<1> QED
  BY <1>12, <1>13

(* An answer is set only by the browser whose offer it answers. *)
LEMMA AnswersMeetTheirOffer ==
    ASSUME NEW x \in Phase, NEW y \in Phase, At(x, y), NEW b \in Browser,
           Next_(b, "setRemote"), Description(b).type = "answer"
    PROVE  /\ Kind(Head(chain[b])) = "finish" /\ Description(b) \in Answers
           /\ Local(b) /\ Description(b).answers = offered[b].revision
           /\ Description(b).revision = current[Other(b)]
           /\ b = 1 => x = "finish" /\ y \in {"none", "channel", "accept"}
           /\ b = 2 => y = "finish" /\ x \in {"none", "channel", "accept"}
<1> USE Browsers
<1> DEFINE h == Head(chain[b])
           d == Description(b)
<1>1. /\ Typed /\ InOrder /\ Phases(x, y) /\ chain[b] # <<>> /\ h.name = "setRemote"
  BY DEF At, Next_
<1>2. Kind(h) = "finish" /\ d \in Answers
  BY <1>1, HeadOperation
<1>3. Told(chain[b], "finish") = {d}
  <2>1. Once(chain[b]) /\ Ordered(chain[b]) /\ chain[b] \in Seq(Ops)
    BY <1>1 DEF InOrder, Typed
  <2> QED
    BY <1>1, <1>2, <2>1, TailOfChain DEF Description
<1> HIDE DEF h, d
<1>4. CASE b = 1
  <2>1. /\ x = "finish" /\ d.answers = offered[1].revision /\ d.revision = current[2] /\ Local(1)
    BY <1>1, <1>3, <1>4 DEF Phases, FirstExchange
  <2>2. y \in {"none", "channel", "accept"}
    BY <1>1, <2>1 DEF Phases, Together
  <2> QED
    BY <1>2, <1>4, <2>1, <2>2 DEF h, d
<1>5. CASE b = 2
  <2>1. /\ y = "finish" /\ d.answers = offered[2].revision /\ d.revision = current[1] /\ Local(2)
    BY <1>1, <1>3, <1>5 DEF Phases, SecondExchange
  <2>2. x \in {"none", "channel", "accept"}
    BY <1>1, <2>1 DEF Phases, Together, Phase
  <2> QED
    BY <1>2, <1>5, <2>1, <2>2 DEF h, d
<1> QED
  BY <1>4, <1>5

LEMMA SetRemoteAnswerKeeps ==
    ASSUME NEW x \in Phase, NEW y \in Phase, At(x, y), Typed', NEW b \in Browser, SetRemoteAnswer(b)
    PROVE  \E u, v \in Phase : At(u, v)'
<1> USE Browsers
<1> DEFINE h == Head(chain[b])
           d == Description(b)
<1>1. /\ Typed /\ InOrder /\ Phases(x, y) /\ chain[b] # <<>>
      /\ \A c \in Browser : MakingFits(c)
      /\ signaling \in [Browser -> {"stable", "have-local-offer", "have-remote-offer"}]
      /\ offered \in [Browser -> Offers \cup {NoOffer}]
      /\ notified \in [Browser -> BOOLEAN] /\ answerPending \in [Browser -> BOOLEAN]
      /\ current \in [Browser -> Nat] /\ seen \in [Browser -> Nat]
  BY DEF At, Typed, SetRemoteAnswer, Next_
<1>2. /\ Kind(h) = "finish" /\ Local(b) /\ d.revision = current[Other(b)]
      /\ b = 1 => x = "finish" /\ y \in {"none", "channel", "accept"}
      /\ b = 2 => y = "finish" /\ x \in {"none", "channel", "accept"}
  BY AnswersMeetTheirOffer DEF SetRemoteAnswer
<1>3. /\ Executed(b)
      /\ signaling' = [signaling EXCEPT ![b] = "stable"]
      /\ notified' = [notified EXCEPT ![b] = FALSE]
      /\ current' = [current EXCEPT ![b] = offered[b].revision]
      /\ offered' = [offered EXCEPT ![b] = NoOffer]
      /\ seen' = [seen EXCEPT ![b] = d.revision]
      /\ answerPending' = [answerPending EXCEPT ![b] = FALSE]
      /\ UNCHANGED <<syncing, makingOffer, channel, refused>>
  BY <1>2 DEF SetRemoteAnswer, Local
<1>4. /\ \A c \in Browser : Once(chain'[c]) /\ Ordered(chain'[c])
      /\ \A c \in Browser : c # b => chain'[c] = chain[c]
      /\ Told(chain'[b], "finish") = {}
      /\ \A k : k # "finish" => Told(chain'[b], k) = Told(chain[b], k)
  BY <1>1, <1>2, <1>3, ChainRuns DEF h
<1> HIDE DEF h, d
<1>5. /\ signaling'[b] = "stable" /\ ~notified'[b] /\ current'[b] = offered[b].revision
      /\ offered'[b] = NoOffer /\ seen'[b] = current[Other(b)] /\ ~answerPending'[b]
      /\ \A c \in Browser : c # b =>
             /\ signaling'[c] = signaling[c] /\ notified'[c] = notified[c] /\ current'[c] = current[c]
             /\ offered'[c] = offered[c] /\ seen'[c] = seen[c] /\ answerPending'[c] = answerPending[c]
  BY <1>1, <1>2, <1>3
<1>6. \A c \in Browser : MakingFits(c)'
  <2>1. ASSUME NEW c \in Browser, c # b
        PROVE  MakingFits(c)'
    BY <1>1, <1>3, <1>4, <1>5, <2>1, MakingKept
  <2>2. MakingFits(b)'
    <3>1. /\ syncing'[b] = syncing[b] /\ Told(chain'[b], "make") = Told(chain[b], "make")
          /\ makingOffer'[b] = makingOffer[b] /\ refused'[b] = refused[b]
          /\ signaling'[b] = "stable" /\ offered'[b] = NoOffer /\ ~notified'[b]
      BY <1>3, <1>4, <1>5
    <3>2. MakingFits(b)
      BY <1>1
    <3> QED
      BY <3>1, <3>2 DEF MakingFits, Local
  <2> QED
    BY <2>1, <2>2
<1>7. InOrder'
  BY <1>1, <1>3, <1>4 DEF InOrder
<1>8. CASE b = 1
  <2>1. /\ x = "finish" /\ y \in {"none", "channel", "accept"} /\ chain'[2] = chain[2]
        /\ Told(chain'[1], "finish") = {}
        /\ \A k \in {"rollback", "accept", "answer"} : Told(chain'[1], k) = Told(chain[1], k)
        /\ signaling'[1] = "stable" /\ signaling'[2] = signaling[2] /\ offered'[2] = offered[2]
        /\ current'[1] = offered[1].revision /\ current'[2] = current[2]
        /\ seen'[1] = current[2] /\ seen'[2] = seen[2]
        /\ ~answerPending'[1] /\ answerPending'[2] = answerPending[2]
    BY <1>2, <1>4, <1>5, <1>8
  <2>2. FirstExchange("none")'
    BY <1>1, <1>3, <2>1 DEF Phases, FirstExchange, If, Local, Remote
  <2>3. SecondExchange("none", y)'
    BY <1>1, <1>3, <2>1 DEF Phases, SecondExchange, If, Local, Remote
  <2>4. PendingFits("none", y)' /\ KnowledgeFits("none", y)'
    BY <1>1, <2>1 DEF Phases, PendingFits, KnowledgeFits
  <2>5. NothingForgotten("none", y)'
    BY <1>1, <1>3, <2>1 DEF Phases, NothingForgotten, Local, Lost
  <2>6. At("none", y)'
    BY <1>6, <1>7, <2>1, <2>2, <2>3, <2>4, <2>5 DEF At, Phases, Together
  <2> QED
    BY <2>6 DEF Phase
<1>9. CASE b = 2
  <2>1. /\ y = "finish" /\ x \in {"none", "channel", "accept"} /\ chain'[1] = chain[1]
        /\ Told(chain'[2], "finish") = {}
        /\ \A k \in {"rollback", "accept", "answer"} : Told(chain'[2], k) = Told(chain[2], k)
        /\ signaling'[2] = "stable" /\ signaling'[1] = signaling[1] /\ offered'[1] = offered[1]
        /\ current'[2] = offered[2].revision /\ current'[1] = current[1]
        /\ seen'[2] = current[1] /\ seen'[1] = seen[1]
        /\ ~answerPending'[2] /\ answerPending'[1] = answerPending[1]
    BY <1>2, <1>4, <1>5, <1>9
  <2>2. FirstExchange(x)'
    BY <1>1, <1>3, <2>1 DEF Phases, FirstExchange, If, Local, Remote
  <2>3. SecondExchange(x, "none")'
    BY <1>1, <1>3, <2>1 DEF Phases, SecondExchange, If, Local, Remote
  <2>4. PendingFits(x, "none")' /\ KnowledgeFits(x, "none")'
    BY <1>1, <2>1 DEF Phases, PendingFits, KnowledgeFits
  <2>5. NothingForgotten(x, "none")'
    BY <1>1, <1>3, <2>1 DEF Phases, NothingForgotten, Local, Lost
  <2>6. At(x, "none")'
    BY <1>6, <1>7, <2>1, <2>2, <2>3, <2>4, <2>5 DEF At, Phases, Together
  <2> QED
    BY <2>6 DEF Phase
<1> QED
  BY <1>8, <1>9
-----------------------------------------------------------------------------
(***************************************************************************)
(* A signal is received.                                                   *)
(***************************************************************************)
LEMMA SignalReceived ==
    ASSUME NEW x \in Phase, NEW y \in Phase, At(x, y), NEW b \in Browser, HandleSignal(b)
    PROVE  LET d == Head(channel[b])
               p == channel'[b]
           IN  /\ (d \in Offers /\ d.type = "offer") \/ (d \in Answers /\ d.type = "answer")
               /\ \A c \in Browser : Single(channel'[c])
               /\ \A c \in Browser : c # b => channel'[c] = channel[c]
               /\ AnswersFirst(channel[b]) => AnswersFirst(p)
               /\ d.type = "answer" => /\ Replies(channel[b]) = {d} /\ Replies(p) = {}
                                       /\ Last(p) = Last(channel[b])
               /\ d.type = "offer"  =>
                     /\ Replies(p) = Replies(channel[b])
                     /\ \/ Last(channel[b]) = {d} /\ Last(p) = {} /\ Replies(channel[b]) = {}
                        \/ /\ ~AnswersFirst(channel[b])
                           /\ Last(p) = Last(channel[b]) /\ Replies(channel[b]) # {}
<1>1. /\ channel \in [Browser -> Seq(Offers \cup Answers)] /\ channel[b] # <<>>
      /\ \A c \in Browser : Single(channel[c])
  BY DEF At, Typed, InOrder, HandleSignal
<1>2. /\ channel'[b] = Tail(channel[b])
      /\ \A c \in Browser : c # b => channel'[c] = channel[c]
  BY <1>1 DEF HandleSignal
<1>3. /\ Head(channel[b]) \in Offers \cup Answers
      /\ \A e \in Offers : e.type = "offer"
      /\ \A e \in Answers : e.type = "answer"
  BY <1>1, QueuedOperations
<1> DEFINE q == channel[b]
<1>4. q \in Seq(Offers \cup Answers) /\ q # <<>> /\ Single(q) /\ channel'[b] = Tail(q)
  BY <1>1, <1>2
<1>5. (Head(q) \in Offers /\ Head(q).type = "offer") \/ (Head(q) \in Answers /\ Head(q).type = "answer")
  BY <1>3
<1> HIDE DEF q
<1>6. /\ Single(Tail(q)) /\ (AnswersFirst(q) => AnswersFirst(Tail(q)))
      /\ Head(q).type = "answer" => /\ Replies(q) = {Head(q)} /\ Replies(Tail(q)) = {}
                                    /\ Last(Tail(q)) = Last(q)
      /\ Head(q).type = "offer" =>
            /\ Replies(Tail(q)) = Replies(q)
            /\ \/ Last(q) = {Head(q)} /\ Last(Tail(q)) = {} /\ Replies(q) = {}
               \/ ~AnswersFirst(q) /\ Last(Tail(q)) = Last(q) /\ Replies(q) # {}
  BY <1>4, TailOfChannel
<1>7. \A c \in Browser : Single(channel'[c])
  BY <1>1, <1>2, <1>4, <1>6
<1> QED
  BY <1>2, <1>4, <1>5, <1>6, <1>7 DEF q

(* An answer is queued for the connection. *)
LEMMA AnswerReceived ==
    ASSUME NEW x \in Phase, NEW y \in Phase, At(x, y), Typed', NEW b \in Browser, HandleSignal(b),
           Head(channel[b]).type = "answer"
    PROVE  \E u, v \in Phase : At(u, v)'
<1> USE Browsers
<1> DEFINE d == Head(channel[b])
           op == Op("setRemote", d)
<1>1. /\ Typed /\ InOrder /\ Phases(x, y) /\ \A c \in Browser : MakingFits(c)
      /\ answerPending \in [Browser -> BOOLEAN]
  BY DEF At, Typed
<1>2. /\ d \in Answers
      /\ \A c \in Browser : Single(channel'[c])
      /\ \A c \in Browser : c # b => channel'[c] = channel[c]
      /\ AnswersFirst(channel[b]) => AnswersFirst(channel'[b])
      /\ Replies(channel[b]) = {d} /\ Replies(channel'[b]) = {}
      /\ Last(channel'[b]) = Last(channel[b])
  BY SignalReceived
<1>3. op \in Ops /\ Kind(op) = "finish" /\ op.description = d
  BY <1>2, QueuedOperations
<1>4. /\ Queue(b, op) /\ answerPending' = [answerPending EXCEPT ![b] = TRUE]
      /\ UNCHANGED <<connection, syncing, makingOffer, refused>>
  BY DEF HandleSignal
<1> HIDE DEF d, op
<1>5. /\ b = 1 => x = "back" /\ y \in {"none", "channel"}
                 /\ d.answers = offered[1].revision /\ d.revision = current[2]
      /\ b = 2 => y = "back" /\ x \in {"none", "channel"}
                 /\ d.answers = offered[2].revision /\ d.revision = current[1]
  BY <1>1, <1>2 DEF Phases, FirstExchange, SecondExchange, Together, Phase
<1>6. Told(chain[b], "finish") = {} /\ Told(chain[b], "accept") = {}
  BY <1>1, <1>5 DEF Phases, FirstExchange, SecondExchange, If
<1>7. /\ \A c \in Browser : Once(chain'[c]) /\ Ordered(chain'[c])
      /\ \A c \in Browser : c # b => chain'[c] = chain[c]
      /\ Told(chain'[b], "finish") = {d}
      /\ \A k : k # "finish" => Told(chain'[b], k) = Told(chain[b], k)
  BY <1>1, <1>3, <1>4, <1>6, ChainGrows
<1>8. answerPending'[b] /\ \A c \in Browser : c # b => answerPending'[c] = answerPending[c]
  BY <1>1, <1>4
<1>9. UNCHANGED <<current, seen, signaling, offered, notified, syncing, makingOffer, refused>>
  BY <1>4 DEF connection
<1>10. \A c \in Browser : MakingFits(c)'
  BY <1>1, <1>7, <1>9, MakingKept
<1>11. InOrder'
  BY <1>1, <1>2, <1>7 DEF InOrder
<1>12. CASE b = 1
  <2>1. /\ x = "back" /\ y \in {"none", "channel"} /\ channel'[2] = channel[2] /\ chain'[2] = chain[2]
        /\ Replies(channel'[1]) = {} /\ Last(channel'[1]) = Last(channel[1])
        /\ Told(chain'[1], "finish") = {d}
        /\ \A k \in {"rollback", "accept", "answer"} : Told(chain'[1], k) = Told(chain[1], k)
        /\ answerPending'[1] /\ answerPending'[2] = answerPending[2]
        /\ d.answers = offered[1].revision /\ d.revision = current[2]
    BY <1>2, <1>5, <1>7, <1>8, <1>12
  <2>2. FirstExchange("finish")'
    BY <1>1, <1>9, <2>1 DEF Phases, FirstExchange, If, Local, Remote
  <2>3. SecondExchange("finish", y)'
    BY <1>1, <1>9, <2>1 DEF Phases, SecondExchange, If, Local, Remote
  <2>4. PendingFits("finish", y)' /\ KnowledgeFits("finish", y)'
    BY <1>1, <1>9, <2>1 DEF Phases, PendingFits, KnowledgeFits
  <2>5. NothingForgotten("finish", y)'
    BY <1>1, <1>9, <2>1 DEF Phases, NothingForgotten, Local, Lost
  <2>6. At("finish", y)'
    BY <1>10, <1>11, <2>1, <2>2, <2>3, <2>4, <2>5 DEF At, Phases, Together
  <2> QED
    BY <2>6 DEF Phase
<1>13. CASE b = 2
  <2>1. /\ y = "back" /\ x \in {"none", "channel"} /\ channel'[1] = channel[1] /\ chain'[1] = chain[1]
        /\ Replies(channel'[2]) = {} /\ Last(channel'[2]) = Last(channel[2])
        /\ Told(chain'[2], "finish") = {d}
        /\ \A k \in {"rollback", "accept", "answer"} : Told(chain'[2], k) = Told(chain[2], k)
        /\ answerPending'[2] /\ answerPending'[1] = answerPending[1]
        /\ d.answers = offered[2].revision /\ d.revision = current[1]
    BY <1>2, <1>5, <1>7, <1>8, <1>13
  <2>2. FirstExchange(x)'
    BY <1>1, <1>9, <2>1 DEF Phases, FirstExchange, If, Local, Remote
  <2>3. SecondExchange(x, "finish")'
    BY <1>1, <1>9, <2>1 DEF Phases, SecondExchange, If, Local, Remote
  <2>4. PendingFits(x, "finish")' /\ KnowledgeFits(x, "finish")'
    BY <1>1, <1>9, <2>1 DEF Phases, PendingFits, KnowledgeFits
  <2>5. NothingForgotten(x, "finish")'
    BY <1>1, <1>9, <2>1 DEF Phases, NothingForgotten, Local, Lost
  <2>6. At(x, "finish")'
    BY <1>10, <1>11, <2>1, <2>2, <2>3, <2>4, <2>5 DEF At, Phases, Together
  <2> QED
    BY <2>6 DEF Phase
<1> QED
  BY <1>12, <1>13

(* The impolite browser ignores an offer that collides, if it is not stale. *)
LEMMA OfferIgnored ==
    ASSUME NEW x \in Phase, NEW y \in Phase, At(x, y), Typed', HandleSignal(1),
           Head(channel[1]).type = "offer", ~ReadyForOffer(1)
    PROVE  \E u, v \in Phase : At(u, v)'
<1> USE Browsers
<1> DEFINE d == Head(channel[1])
<1>1. Typed /\ InOrder /\ Phases(x, y) /\ \A c \in Browser : MakingFits(c)
  BY DEF At
<1>2. UNCHANGED <<current, seen, signaling, offered, notified, syncing, makingOffer, refused,
                  chain, answerPending>>
  BY DEF HandleSignal, connection
<1>3. /\ \A c \in Browser : Single(channel'[c])
      /\ channel'[2] = channel[2] /\ Replies(channel'[1]) = Replies(channel[1])
      /\ \/ Last(channel[1]) = {d} /\ Last(channel'[1]) = {} /\ Replies(channel[1]) = {}
         \/ Last(channel'[1]) = Last(channel[1])
  BY SignalReceived
<1> HIDE DEF d
<1>4. \A c \in Browser : MakingFits(c)'
  BY <1>1, <1>2, MakingKept
<1>5. InOrder'
  BY <1>1, <1>2, <1>3 DEF InOrder
<1>6. FirstExchange(x)'
  BY <1>1, <1>2, <1>3 DEF Phases, FirstExchange, If, Local, Remote
<1>7. CASE y # "channel" \/ Last(channel'[1]) = Last(channel[1])
  <2>1. SecondExchange(x, y)'
    BY <1>1, <1>2, <1>3, <1>7 DEF Phases, SecondExchange, If, Local, Remote
  <2>2. PendingFits(x, y)' /\ KnowledgeFits(x, y)' /\ NothingForgotten(x, y)'
    BY <1>1, <1>2 DEF Phases, PendingFits, KnowledgeFits, NothingForgotten, Local, Lost
  <2> QED
    BY <1>1, <1>4, <1>5, <1>6, <2>1, <2>2 DEF At, Phases, Together
<1>8. CASE y = "channel" /\ Last(channel'[1]) = {}
  <2>1. SecondExchange(x, "none")'
    BY <1>1, <1>2, <1>3, <1>8 DEF Phases, SecondExchange, If, Local, Remote
  <2>2. PendingFits(x, "none")' /\ KnowledgeFits(x, "none")'
    BY <1>1, <1>2, <1>8 DEF Phases, PendingFits, KnowledgeFits
  <2>3. makingOffer[1] \/ x \in {"channel", "rollback", "accept"} \/ Lost
    <3>1. CASE makingOffer[1]
      BY <3>1
    <3>2. CASE ~makingOffer[1]
      <4>1. signaling[1] # "stable" /\ ~answerPending[1]
        BY <3>2 DEF ReadyForOffer
      <4>2. signaling[1] # "have-remote-offer"
        BY <1>1, <1>8 DEF Phases, SecondExchange
      <4>3. Local(1)
        BY <1>1, <4>1, <4>2 DEF Typed, Local
      <4>4. x \notin {"sync", "answer", "accept", "finish"}
        BY <1>1, <1>8, <4>1 DEF Phases, Together, PendingFits
      <4>5. x # "back"
        BY <1>1, <1>3, <1>8 DEF Phases, SecondExchange, FirstExchange
      <4> QED
        BY <1>1, <4>3, <4>4, <4>5 DEF Phases, NothingForgotten, Phase
    <3> QED
      BY <3>1, <3>2
  <2>4. NothingForgotten(x, "none")'
    BY <1>1, <1>2, <1>8, <2>3 DEF Phases, NothingForgotten, Local, Lost
  <2>5. Together(x, "none")
    BY <1>1, <1>8 DEF Phases, Together
  <2>6. At(x, "none")'
    BY <1>4, <1>5, <1>6, <2>1, <2>2, <2>4, <2>5 DEF At, Phases, Together
  <2> QED
    BY <2>6 DEF Phase
<1> QED
  BY <1>3, <1>7, <1>8

(* The impolite browser is ready: the polite one's offer is accepted. *)
LEMMA ImpoliteAccepts ==
    ASSUME NEW x \in Phase, NEW y \in Phase, At(x, y), Typed', HandleSignal(1),
           Head(channel[1]).type = "offer", ReadyForOffer(1)
    PROVE  \E u, v \in Phase : At(u, v)'
<1> USE Browsers
<1> DEFINE d == Head(channel[1])
           op == Op("setRemote", d)
<1>1. /\ Typed /\ InOrder /\ Phases(x, y) /\ \A c \in Browser : MakingFits(c)
      /\ answerPending \in [Browser -> BOOLEAN]
      /\ signaling \in [Browser -> {"stable", "have-local-offer", "have-remote-offer"}]
  BY DEF At, Typed
<1>2. /\ d \in Offers
      /\ \A c \in Browser : Single(channel'[c])
      /\ channel'[2] = channel[2] /\ Replies(channel'[1]) = Replies(channel[1])
      /\ \/ Last(channel[1]) = {d} /\ Last(channel'[1]) = {} /\ Replies(channel[1]) = {}
         \/ Last(channel'[1]) = Last(channel[1]) /\ Replies(channel[1]) # {}
  <2>1. d.type = "offer" /\ d.type # "answer"
    OBVIOUS
  <2> QED
    BY <2>1, SignalReceived
<1>3. op \in Ops /\ Kind(op) = "accept" /\ op.description = d
  BY <1>2, QueuedOperations
<1>4. /\ Queue(1, op) /\ answerPending' = [answerPending EXCEPT ![1] = FALSE]
      /\ UNCHANGED <<connection, syncing, makingOffer, refused>>
  BY DEF HandleSignal
<1> HIDE DEF d, op
<1>5. x \in {"none", "finish"} /\ (x = "none" => ~Local(1)) /\ ~makingOffer[1]
  <2>1. ~makingOffer[1] /\ (signaling[1] = "stable" \/ answerPending[1])
    BY DEF ReadyForOffer
  <2>2. Local(1) => x = "finish"
    BY <1>1, <2>1 DEF Phases, PendingFits, Local
  <2>3. x # "none" => Local(1)
    BY <1>1 DEF Phases, FirstExchange
  <2> QED
    BY <2>1, <2>2, <2>3
<1>6. y = "channel" /\ d = offered[2] /\ Last(channel'[1]) = {} /\ Replies(channel'[1]) = {}
  <2>1. Replies(channel[1]) = {}
    BY <1>1, <1>5 DEF Phases, FirstExchange
  <2>2. Last(channel[1]) = {d} /\ Last(channel'[1]) = {}
    BY <1>2, <2>1
  <2>3. y = "channel"
    BY <1>1, <1>5, <2>2 DEF Phases, SecondExchange
  <2> QED
    BY <1>1, <1>2, <2>1, <2>2, <2>3 DEF Phases, SecondExchange
<1>7. /\ Told(chain[1], "accept") = {} /\ Told(chain[1], "make") = {} /\ Local(2)
  BY <1>1, <1>5, <1>6 DEF Phases, SecondExchange, If, MakingFits
<1>8. /\ \A c \in Browser : Once(chain'[c]) /\ Ordered(chain'[c])
      /\ chain'[2] = chain[2]
      /\ Told(chain'[1], "accept") = {d}
      /\ \A k : k # "accept" => Told(chain'[1], k) = Told(chain[1], k)
  BY <1>1, <1>3, <1>4, <1>7, ChainGrows
<1>9. ~answerPending'[1] /\ answerPending'[2] = answerPending[2]
  BY <1>1, <1>4
<1>10. UNCHANGED <<current, seen, signaling, offered, notified, syncing, makingOffer, refused>>
  BY <1>4 DEF connection
<1>11. \A c \in Browser : MakingFits(c)'
  BY <1>1, <1>8, <1>10, MakingKept
<1>12. InOrder'
  BY <1>1, <1>2, <1>8 DEF InOrder
<1>13. \A k \in {"rollback", "answer", "finish"} : Told(chain'[1], k) = Told(chain[1], k)
  BY <1>8
<1>14. FirstExchange(x)'
  BY <1>1, <1>2, <1>5, <1>6, <1>8, <1>10, <1>13 DEF Phases, FirstExchange, If, Local, Remote
<1>15. SecondExchange(x, "accept")'
  BY <1>1, <1>2, <1>5, <1>6, <1>7, <1>8, <1>10, <1>13 DEF Phases, SecondExchange, If, Local, Remote
<1>16. PendingFits(x, "accept")' /\ KnowledgeFits(x, "accept")'
  BY <1>1, <1>5, <1>6, <1>9, <1>10 DEF Phases, PendingFits, KnowledgeFits
<1>17. NothingForgotten(x, "accept")'
  BY <1>1, <1>5, <1>10 DEF Phases, NothingForgotten, Local, Lost
<1>18. Together(x, "accept")
  BY <1>5 DEF Together
<1>19. At(x, "accept")'
  BY <1>11, <1>12, <1>14, <1>15, <1>16, <1>17, <1>18 DEF At, Phases, Together
<1> QED
  BY <1>19 DEF Phase

(* The polite browser takes an offer, at once or after a rollback. *)
LEMMA PoliteReceives ==
    ASSUME NEW x \in Phase, NEW y \in Phase, At(x, y), Typed', HandleSignal(2),
           Head(channel[2]).type = "offer"
    PROVE  \E u, v \in Phase : At(u, v)'
<1> USE Browsers
<1> DEFINE d == Head(channel[2])
<1>1. /\ Typed /\ InOrder /\ Phases(x, y) /\ \A c \in Browser : MakingFits(c)
      /\ answerPending \in [Browser -> BOOLEAN] /\ makingOffer \in [Browser -> BOOLEAN]
      /\ signaling \in [Browser -> {"stable", "have-local-offer", "have-remote-offer"}]
  BY DEF At, Typed
<1>2. /\ d \in Offers
      /\ \A c \in Browser : Single(channel'[c])
      /\ AnswersFirst(channel'[2])
      /\ channel'[1] = channel[1]
      /\ Last(channel[2]) = {d} /\ Last(channel'[2]) = {}
      /\ Replies(channel[2]) = {} /\ Replies(channel'[2]) = {}
  <2>1. d.type = "offer" /\ d.type # "answer" /\ AnswersFirst(channel[2])
    BY <1>1 DEF InOrder
  <2> QED
    BY <2>1, SignalReceived
<1>3. /\ UNCHANGED <<current, seen, signaling, offered, notified, syncing, makingOffer, refused>>
      /\ IF ReadyForOffer(2)
         THEN Queue(2, Op("setRemote", d)) /\ answerPending' = [answerPending EXCEPT ![2] = FALSE]
         ELSE Queue(2, Op("rollback", d)) /\ UNCHANGED answerPending
  BY DEF HandleSignal, connection
<1> HIDE DEF d
<1>4. x = "channel" /\ d = offered[1] /\ Local(1) /\ y \in {"none", "channel", "finish"}
  BY <1>1, <1>2 DEF Phases, FirstExchange, SecondExchange, Together, If
<1>5. /\ Told(chain[2], "rollback") = {} /\ Told(chain[2], "accept") = {}
      /\ signaling[2] # "have-remote-offer"
      /\ y = "finish" => answerPending[2]
      /\ answerPending[2] => y = "finish"
      /\ y # "none" => Local(2)
  BY <1>1, <1>4 DEF Phases, FirstExchange, SecondExchange, If, PendingFits
<1>6. CASE ~ReadyForOffer(2)
  <2> DEFINE op == Op("rollback", d)
  <2>1. op \in Ops /\ Kind(op) = "rollback" /\ op.description = d /\ Queue(2, op)
    BY <1>2, <1>3, <1>6, QueuedOperations
  <2> HIDE DEF op
  <2>2. /\ \A c \in Browser : Once(chain'[c]) /\ Ordered(chain'[c])
        /\ chain'[1] = chain[1]
        /\ Told(chain'[2], "rollback") = {d}
        /\ \A k : k # "rollback" => Told(chain'[2], k) = Told(chain[2], k)
    BY <1>1, <1>5, <2>1, ChainGrows
  <2>3. answerPending' = answerPending
    BY <1>3, <1>6
  <2>4. y \in {"none", "channel"}
    <3>1. y = "finish" => ~makingOffer[2]
      BY <1>1, <1>5 DEF MakingFits
    <3> QED
      BY <1>4, <1>5, <1>6, <3>1 DEF ReadyForOffer
  <2>5. \A c \in Browser : MakingFits(c)'
    BY <1>1, <1>3, <2>2, MakingKept
  <2>6. InOrder'
    BY <1>1, <1>2, <2>2 DEF InOrder
  <2>7. \A k \in {"accept", "answer", "finish"} : Told(chain'[2], k) = Told(chain[2], k)
    BY <2>2
  <2>8. FirstExchange("rollback")'
    BY <1>1, <1>2, <1>3, <1>4, <2>2, <2>7 DEF Phases, FirstExchange, If, Local, Remote
  <2>9. SecondExchange("rollback", y)'
    BY <1>1, <1>2, <1>3, <1>4, <2>2, <2>4, <2>7 DEF Phases, SecondExchange, If, Local, Remote
  <2>10. PendingFits("rollback", y)' /\ KnowledgeFits("rollback", y)'
    BY <1>1, <1>3, <1>4, <2>3, <2>4 DEF Phases, PendingFits, KnowledgeFits
  <2>11. NothingForgotten("rollback", y)'
    BY DEF NothingForgotten
  <2>12. At("rollback", y)'
    BY <2>4, <2>5, <2>6, <2>8, <2>9, <2>10, <2>11 DEF At, Phases, Together
  <2> QED
    BY <2>12 DEF Phase
<1>7. CASE ReadyForOffer(2)
  <2> DEFINE op == Op("setRemote", d)
  <2>1. op \in Ops /\ Kind(op) = "accept" /\ op.description = d /\ Queue(2, op)
    BY <1>2, <1>3, <1>7, QueuedOperations
  <2> HIDE DEF op
  <2>2. Told(chain[2], "make") = {} /\ y \in {"none", "finish"}
    <3>1. ~makingOffer[2] /\ (signaling[2] = "stable" \/ answerPending[2])
      BY <1>7 DEF ReadyForOffer
    <3>2. Told(chain[2], "make") = {}
      BY <1>1, <3>1 DEF MakingFits
    <3>3. y # "channel"
      BY <1>5, <3>1 DEF Local
    <3> QED
      BY <1>4, <3>2, <3>3
  <2>3. /\ \A c \in Browser : Once(chain'[c]) /\ Ordered(chain'[c])
        /\ chain'[1] = chain[1]
        /\ Told(chain'[2], "accept") = {d}
        /\ \A k : k # "accept" => Told(chain'[2], k) = Told(chain[2], k)
    BY <1>1, <1>5, <2>1, <2>2, ChainGrows
  <2>4. ~answerPending'[2] /\ answerPending'[1] = answerPending[1]
    BY <1>1, <1>3, <1>7
  <2>5. \A c \in Browser : MakingFits(c)'
    BY <1>1, <1>3, <2>3, MakingKept
  <2>6. InOrder'
    BY <1>1, <1>2, <2>3 DEF InOrder
  <2>7. \A k \in {"rollback", "answer", "finish"} : Told(chain'[2], k) = Told(chain[2], k)
    BY <2>3
  <2>8. FirstExchange("accept")'
    BY <1>1, <1>2, <1>3, <1>4, <2>3, <2>7 DEF Phases, FirstExchange, If, Local, Remote
  <2>9. SecondExchange("accept", y)'
    BY <1>1, <1>2, <1>3, <1>4, <2>2, <2>3, <2>7 DEF Phases, SecondExchange, If, Local, Remote
  <2>10. PendingFits("accept", y)' /\ KnowledgeFits("accept", y)'
    BY <1>1, <1>3, <1>4, <2>2, <2>4 DEF Phases, PendingFits, KnowledgeFits
  <2>11. NothingForgotten("accept", y)'
    BY DEF NothingForgotten
  <2>12. At("accept", y)'
    BY <2>2, <2>5, <2>6, <2>8, <2>9, <2>10, <2>11 DEF At, Phases, Together
  <2> QED
    BY <2>12 DEF Phase
<1> QED
  BY <1>6, <1>7
-----------------------------------------------------------------------------
(***************************************************************************)
(* The invariant.                                                          *)
(***************************************************************************)
LEMMA NegotiationInit == Init => NegotiationInv
<1> SUFFICES ASSUME Init
             PROVE  At("none", "none")
  BY DEF NegotiationInv, Phase
<1> USE Browsers, EmptyChain, EmptyChannel
<1>1. Typed
  BY TypedInit
<1>2. /\ \A b \in Browser : /\ chain[b] = <<>> /\ channel[b] = <<>> /\ syncing[b] = {}
                            /\ signaling[b] = "stable" /\ offered[b] = NoOffer
                            /\ ~notified[b] /\ ~makingOffer[b] /\ ~answerPending[b]
                            /\ refused[b] = {} /\ current[b] = 0 /\ seen[b] = 0
  BY DEF Init
<1>3. Once(<<>>) /\ Ordered(<<>>) /\ Single(<<>>) /\ AnswersFirst(<<>>)
  BY DEF Once, Ordered, Single, AnswersFirst
<1>4. InOrder /\ \A b \in Browser : MakingFits(b)
  BY <1>2, <1>3 DEF InOrder, MakingFits, Local
<1>5. FirstExchange("none") /\ SecondExchange("none", "none")
  BY <1>2 DEF FirstExchange, SecondExchange, If, Local, Remote
<1>6. /\ PendingFits("none", "none") /\ KnowledgeFits("none", "none")
      /\ NothingForgotten("none", "none") /\ Together("none", "none")
  BY <1>2 DEF PendingFits, KnowledgeFits, NothingForgotten, Together, Local
<1> QED
  BY <1>1, <1>4, <1>5, <1>6 DEF At, Phases

LEMMA NegotiationStep == NegotiationInv /\ [Next]_vars => NegotiationInv'
<1> SUFFICES ASSUME NEW x \in Phase, NEW y \in Phase, At(x, y), [Next]_vars
             PROVE  \E u, v \in Phase : At(u, v)'
  BY DEF NegotiationInv
<1>1. Typed'
  BY TypedStep DEF At
<1>2. CASE UNCHANGED vars
  <2>1. /\ UNCHANGED <<current, seen, signaling, offered, notified, syncing, makingOffer,
                      chain, answerPending, channel, refused>>
        /\ InOrder /\ \A b \in Browser : MakingFits(b)
    BY <1>2 DEF vars, At
  <2>2. \A b \in Browser : MakingFits(b)'
    BY <2>1, MakingKept
  <2>3. \A b \in Browser : Once(chain'[b]) /\ Ordered(chain'[b]) /\ Remote(b)' = Remote(b)
    BY <2>1 DEF InOrder, Remote
  <2>4. At(x, y)'
    BY <1>1, <2>1, <2>2, <2>3, NothingExchanged
  <2> QED
    BY <2>4
<1>3. ASSUME NEW b \in Browser, ChangeTracks(b) \/ NegotiationNeeded(b) \/ RestartIce(b)
      PROVE  At(x, y)'
  BY <1>1, <1>3, ChangeTracksKeeps, NegotiationNeededKeeps
<1>4. ASSUME NEW b \in Browser, TracksSynced(b)
      PROVE  \E u, v \in Phase : At(u, v)'
  <2>1. PICK d \in syncing[b] :
          /\ syncing' = [syncing EXCEPT ![b] = @ \ {d}]
          /\ Queue(b, Op(IF d = NoOffer THEN "createOffer" ELSE "setAnswer", d))
          /\ UNCHANGED <<connection, makingOffer, answerPending, channel, refused>>
    BY <1>4 DEF TracksSynced
  <2>2. CASE d = NoOffer
    <3>1. At(x, y)'
      BY <1>1, <2>1, <2>2, TracksSyncedToOffer
    <3> QED
      BY <3>1
  <2>3. CASE d # NoOffer
    BY <1>1, <2>1, <2>3, TracksSyncedToAnswer
  <2> QED
    BY <2>2, <2>3
<1>5. ASSUME NEW b \in Browser, Operation(b)
      PROVE  \E u, v \in Phase : At(u, v)'
  <2>1. CASE CreateOffer(b)
    BY <1>1, <2>1, CreateOfferKeeps
  <2>2. CASE SetOffer(b)
    BY <1>1, <2>2, SetOfferRefused, SetOfferSends
  <2>3. CASE Rollback(b)
    BY <1>1, <2>3, RollbackKeeps
  <2>4. CASE SetRemoteOffer(b)
    BY <1>1, <2>4, SetRemoteOfferKeeps
  <2>5. CASE SetAnswer(b)
    BY <1>1, <2>5, SetAnswerKeeps
  <2>6. CASE SetRemoteAnswer(b)
    BY <1>1, <2>6, SetRemoteAnswerKeeps
  <2> QED
    BY <1>5, <2>1, <2>2, <2>3, <2>4, <2>5, <2>6 DEF Operation
<1>6. ASSUME NEW b \in Browser, HandleSignal(b)
      PROVE  \E u, v \in Phase : At(u, v)'
  <2>1. Head(channel[b]).type = "answer" \/ Head(channel[b]).type = "offer"
    BY <1>6, SignalReceived
  <2>2. CASE Head(channel[b]).type = "answer"
    BY <1>1, <1>6, <2>2, AnswerReceived
  <2>3. CASE Head(channel[b]).type = "offer" /\ b = 1
    BY <1>1, <1>6, <2>3, OfferIgnored, ImpoliteAccepts
  <2>4. CASE Head(channel[b]).type = "offer" /\ b = 2
    BY <1>1, <1>6, <2>4, PoliteReceives
  <2> QED
    BY <2>1, <2>2, <2>3, <2>4, Browsers
<1> QED
  BY <1>2, <1>3, <1>4, <1>5, <1>6 DEF Next

THEOREM NegotiationSafe == Spec => []NegotiationInv
<1> QED
  BY NegotiationInit, NegotiationStep, PTL DEF Spec

(***************************************************************************)
(* What the runs check of it.                                              *)
(***************************************************************************)

(* However the handlers of a call overlap, the connection is never given   *)
(* an answer that it does not wait for, nor one to another offer than its  *)
(* own pending one (setRemoteDescription after isSettingRemoteAnswer-      *)
(* Pending in handleSignal).                                               *)
THEOREM AnswersAlwaysFit == Spec => []AnswersFit
<1>1. ASSUME NegotiationInv
      PROVE  AnswersFit
  <2>1. PICK x \in Phase, y \in Phase : At(x, y)
    BY <1>1 DEF NegotiationInv
  <2>2. \A b \in Browser : "setRemoteAnswer" \notin refused[b] /\ "setAnswer" \notin refused[b]
    BY <2>1 DEF At, MakingFits
  <2>3. ASSUME NEW b \in Browser, Next_(b, "setRemote"), Description(b).type = "answer"
        PROVE  Description(b).answers = offered[b].revision
    BY <2>1, <2>3, AnswersMeetTheirOffer
  <2> QED
    BY <2>2, <2>3 DEF AnswersFit
<1> QED
  BY <1>1, NegotiationSafe, PTL

(* When nothing is under way, neither exchange is anywhere, and both       *)
(* browsers are stable: then what each was told of the other's tracks is   *)
(* what they are, unless the polite one's rollback was refused             *)
(* (handleSignal with an offer that is still being made).                  *)
THEOREM AgreedAtRest == Spec => []AgreedUnlessRollbackRefused
<1> USE Browsers
<1>1. ASSUME NegotiationInv, AtRest, ~Lost
      PROVE  Agreed
  <2>1. PICK x \in Phase, y \in Phase : At(x, y)
    BY <1>1 DEF NegotiationInv
  <2>2. /\ Typed /\ Phases(x, y) /\ \A b \in Browser : MakingFits(b)
        /\ \A b \in Browser : chain[b] = <<>> /\ channel[b] = <<>> /\ syncing[b] = {}
        /\ \A b \in Browser : ~NegotiationIsNeeded(b)
    BY <1>1, <2>1 DEF At, AtRest
  <2>3. \A b \in Browser : /\ \A k : Told(chain[b], k) = {}
                          /\ Last(channel[b]) = {} /\ Replies(channel[b]) = {} /\ Remote(b) = {}
    BY <2>2, EmptyChain, EmptyChannel DEF Remote
  <2>4. x = "none"
    BY <2>2, <2>3 DEF Phases, FirstExchange, If, Phase
  <2>5. y = "none"
    BY <2>2, <2>3, <2>4 DEF Phases, SecondExchange, Together, If, Phase
  <2>6. \A b \in Browser : ~makingOffer[b]
    BY <2>2, <2>3 DEF MakingFits
  <2>7. \A b \in Browser : signaling[b] = "stable"
    <3>1. ~Local(1) /\ ~Local(2)
      BY <1>1, <2>2, <2>4, <2>5, <2>6 DEF Phases, NothingForgotten
    <3>2. signaling[1] # "have-remote-offer" /\ signaling[2] # "have-remote-offer"
      BY <2>2, <2>4, <2>5 DEF Phases, FirstExchange, SecondExchange
    <3> QED
      BY <2>2, <3>1, <3>2 DEF Typed, Local
  <2>8. \A b \in Browser : current[b] = tracks[b]
    BY <2>2, <2>6, <2>7 DEF NegotiationIsNeeded, MakingFits
  <2>9. seen[2] = current[1] /\ seen[1] = current[2]
    BY <2>2, <2>4, <2>5 DEF Phases, KnowledgeFits
  <2> QED
    BY <2>7, <2>8, <2>9 DEF Agreed
<1>2. ASSUME NegotiationInv
      PROVE  AgreedUnlessRollbackRefused
  BY <1>1, <1>2 DEF AgreedUnlessRollbackRefused, Lost
<1> QED
  BY <1>2, NegotiationSafe, PTL

(* The offer of the impolite browser leaves its connection by an answer    *)
(* to it and in no other way: it is neither rolled back nor replaced.      *)
THEOREM ImpoliteOfferAnswered == Spec => ImpoliteOfferStands
<1> USE Browsers
<1>1. ASSUME NegotiationInv, [Next]_vars, NEW b \in Browser, ~Polite(b),
             offered[b] # NoOffer, offered'[b] # offered[b]
      PROVE  current'[b] = offered[b].revision /\ signaling'[b] = "stable"
  <2>1. PICK x \in Phase, y \in Phase : At(x, y)
    BY <1>1 DEF NegotiationInv
  <2>2. /\ b = 1 /\ Typed /\ InOrder /\ Phases(x, y) /\ MakingFits(1) /\ Local(1)
        /\ offered \in [Browser -> Offers \cup {NoOffer}]
    BY <1>1, <2>1 DEF At, MakingFits, Typed
  <2>3. \E c \in Browser : SetOffer(c) \/ Rollback(c) \/ SetRemoteOffer(c) \/ SetRemoteAnswer(c)
    BY <1>1 DEF Next, Operation, vars, connection, ChangeTracks, NegotiationNeeded, RestartIce,
                TracksSynced, CreateOffer, SetAnswer, HandleSignal
  <2>4. PICK c \in Browser : SetOffer(c) \/ Rollback(c) \/ SetRemoteOffer(c) \/ SetRemoteAnswer(c)
    BY <2>3
  <2>5. c = 1
    BY <1>1, <2>2, <2>4 DEF SetOffer, Rollback, SetRemoteOffer, SetRemoteAnswer
  <2> DEFINE h == Head(chain[1])
  <2>6. chain[1] # <<>> /\ Once(chain[1]) /\ Ordered(chain[1]) /\ chain[1] \in Seq(Ops)
    BY <2>2, <2>4, <2>5 DEF SetOffer, Rollback, SetRemoteOffer, SetRemoteAnswer, Next_, InOrder, Typed
  <2>7. /\ Told(chain[1], Kind(h)) # {}
        /\ Kind(h) = "accept" => Told(chain[1], "finish") = {}
    BY <2>6, TailOfChain
  <2>8. /\ SetOffer(1) => Kind(h) = "make"
        /\ Rollback(1) => Kind(h) = "rollback"
        /\ SetRemoteOffer(1) => Kind(h) = "accept"
    BY <2>2, <2>6, HeadOperation DEF SetOffer, Rollback, SetRemoteOffer, Next_
  <2> HIDE DEF h
  <2>9. ~SetOffer(1)
    BY <2>2, <2>7, <2>8 DEF MakingFits
  <2>10. ~Rollback(1)
    BY <2>2, <2>7, <2>8 DEF Phases, SecondExchange
  <2>11. ~SetRemoteOffer(1)
    <3>1. ASSUME SetRemoteOffer(1)
          PROVE  FALSE
      <4>1. y = "accept" /\ x # "finish"
        BY <2>2, <2>7, <2>8, <3>1 DEF Phases, FirstExchange, SecondExchange, If
      <4>2. x = "none"
        BY <2>2, <4>1 DEF Phases, Together, Phase
      <4> QED
        BY <2>2, <4>1, <4>2 DEF Phases, NothingForgotten
    <3> QED
      BY <3>1
  <2>12. SetRemoteAnswer(1)
    BY <2>4, <2>5, <2>9, <2>10, <2>11
  <2>13. /\ current' = [current EXCEPT ![1] = offered[1].revision]
         /\ signaling' = [signaling EXCEPT ![1] = "stable"]
    BY <2>2, <2>12 DEF SetRemoteAnswer, Local
  <2> QED
    BY <2>2, <2>13 DEF Typed
<1>2. NegotiationInv /\ [Next]_vars =>
         [\A b \in Browser :
             ~Polite(b) /\ offered[b] # NoOffer /\ offered'[b] # offered[b]
                 => current'[b] = offered[b].revision /\ signaling'[b] = "stable"]_vars
  BY <1>1
<1> QED
  BY <1>2, NegotiationSafe, PTL DEF Spec, ImpoliteOfferStands
=============================================================================
