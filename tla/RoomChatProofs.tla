---------------------------- MODULE RoomChatProofs ----------------------------
(***************************************************************************)
(* Theorems about RoomChat for any number of browsers and messages, and    *)
(* every limit of the history: what the room keeps, and what the pages     *)
(* show.                                                                   *)
(***************************************************************************)
EXTENDS RoomChat, SequenceTheorems, TLAPS

Messages == [id: Nat, kind: {"user", "system", "notice"}]

(* How many of n messages the list store keeps. *)
Kept(n) == IF MaxItems = 0 \/ n <= MaxItems THEN n ELSE MaxItems

(* h holds the last messages of s, but none of the first o.                *)
Recent(h, s, o) ==
    /\ h \in Seq(Messages) /\ s \in Seq(Messages) /\ o \in 0 .. Len(s)
    /\ Len(h) = Kept(Len(s) - o)
    /\ \A i \in 1 .. Len(h) : h[i] = s[Len(s) - Len(h) + i]

(* append of the list store *)
LEMMA TrimEffect ==
    ASSUME NEW h, NEW s, NEW o, Recent(h, s, o), NEW m \in Messages
    PROVE  Recent(Trim(Append(h, m)), Append(s, m), o)
<1> DEFINE longer == Append(h, m)
           said   == Append(s, m)
<1>1. /\ h \in Seq(Messages) /\ s \in Seq(Messages)
      /\ Len(h) \in Nat /\ Len(s) \in Nat /\ o \in Nat /\ o <= Len(s) /\ MaxItems \in Nat
      /\ Len(h) = Kept(Len(s) - o)
      /\ \A i \in 1 .. Len(h) : h[i] = s[Len(s) - Len(h) + i]
  BY LimitsAssumption DEF Recent
<1>2. /\ longer \in Seq(Messages) /\ Len(longer) = Len(h) + 1
      /\ \A i \in 1 .. Len(h) : longer[i] = h[i]
      /\ longer[Len(h) + 1] = m
  BY <1>1, AppendProperties
<1>3. /\ said \in Seq(Messages) /\ Len(said) = Len(s) + 1
      /\ \A i \in 1 .. Len(s) : said[i] = s[i]
      /\ said[Len(s) + 1] = m
  BY <1>1, AppendProperties
<1>4. Len(h) <= Len(s)
  BY <1>1 DEF Kept
<1>5. \A i \in 1 .. Len(h) + 1 : longer[i] = said[Len(s) - Len(h) + i]
  <2> SUFFICES ASSUME NEW i \in 1 .. Len(h) + 1
               PROVE  longer[i] = said[Len(s) - Len(h) + i]
    OBVIOUS
  <2> HIDE DEF longer, said
  <2>1. CASE i = Len(h) + 1
    <3>1. Len(s) - Len(h) + i = Len(s) + 1
      BY <1>1, <2>1
    <3> QED
      BY <1>2, <1>3, <2>1, <3>1
  <2>2. CASE i # Len(h) + 1
    <3>1. i \in 1 .. Len(h) /\ Len(s) - Len(h) + i \in 1 .. Len(s)
      BY <1>1, <1>4, <2>2
    <3>2. longer[i] = h[i] /\ said[Len(s) - Len(h) + i] = s[Len(s) - Len(h) + i]
      BY <1>2, <1>3, <3>1
    <3> QED
      BY <1>1, <3>1, <3>2
  <2> QED
    BY <2>1, <2>2
<1>6. o \in 0 .. Len(said)
  BY <1>1, <1>3
<1> HIDE DEF longer, said
<1>7. CASE MaxItems > 0 /\ Len(longer) > MaxItems
  <2>1. Len(h) = MaxItems /\ Kept(Len(said) - o) = MaxItems
    BY <1>1, <1>2, <1>3, <1>7 DEF Kept
  <2>2. longer # <<>>
    BY <1>1, <1>2, EmptySeq
  <2>3. /\ Tail(longer) \in Seq(Messages) /\ Len(Tail(longer)) = Len(h)
        /\ \A i \in 1 .. Len(h) : Tail(longer)[i] = longer[i + 1]
    <3>1. /\ Tail(longer) \in Seq(Messages) /\ Len(Tail(longer)) = Len(longer) - 1
          /\ \A i \in 1 .. Len(Tail(longer)) : Tail(longer)[i] = longer[i + 1]
      BY <1>2, <2>2, HeadTailProperties
    <3>2. Len(longer) - 1 = Len(h)
      BY <1>1, <1>2
    <3> QED
      BY <3>1, <3>2
  <2>4. \A i \in 1 .. Len(h) : Tail(longer)[i] = said[Len(said) - Len(h) + i]
    <3> SUFFICES ASSUME NEW i \in 1 .. Len(h)
                 PROVE  Tail(longer)[i] = said[Len(said) - Len(h) + i]
      OBVIOUS
    <3>1. i + 1 \in 1 .. Len(h) + 1 /\ Len(s) - Len(h) + (i + 1) = Len(said) - Len(h) + i
      BY <1>1, <1>3
    <3> QED
      BY <1>5, <2>3, <3>1
  <2>5. Trim(longer) = Tail(longer)
    BY <1>7 DEF Trim
  <2> QED
    BY <1>3, <1>6, <2>1, <2>3, <2>4, <2>5 DEF Recent, longer, said
<1>8. CASE ~(MaxItems > 0 /\ Len(longer) > MaxItems)
  <2>1. Kept(Len(said) - o) = Len(longer)
    BY <1>1, <1>2, <1>3, <1>8 DEF Kept
  <2>2. Len(said) - Len(longer) = Len(s) - Len(h)
    BY <1>1, <1>2, <1>3
  <2>3. Trim(longer) = longer
    BY <1>8 DEF Trim
  <2> QED
    BY <1>2, <1>3, <1>5, <1>6, <2>1, <2>2, <2>3 DEF Recent, longer, said
<1> QED
  BY <1>7, <1>8

(* The room is made anew: nothing of what was said before is in it. *)
LEMMA NewRoom ==
    ASSUME NEW h, NEW s, NEW o, Recent(h, s, o), NEW m \in Messages
    PROVE  Recent(<<>>, Append(s, m), Len(Append(s, m)))
<1> DEFINE said == Append(s, m)
<1>1. said \in Seq(Messages) /\ Len(said) \in Nat
  BY AppendProperties, LenProperties DEF Recent
<1> HIDE DEF said
<1>2. <<>> \in Seq(Messages) /\ Len(<<>>) = 0
  BY EmptySeq
<1>3. Kept(Len(said) - Len(said)) = 0 /\ Len(said) \in 0 .. Len(said)
  BY <1>1, LimitsAssumption DEF Kept
<1> QED
  BY <1>1, <1>2, <1>3 DEF Recent, said

(***************************************************************************)
(* What the room keeps.                                                    *)
(***************************************************************************)
ChatInv == Recent(history, spoken, opened)

LEMMA ChatInit == Init => ChatInv
<1> SUFFICES ASSUME Init PROVE ChatInv
  OBVIOUS
<1>1. history = <<>> /\ spoken = <<>> /\ opened = 0
  BY DEF Init
<1>2. <<>> \in Seq(Messages) /\ Len(<<>>) = 0
  BY EmptySeq
<1>3. Kept(0) = 0
  BY LimitsAssumption DEF Kept
<1> QED
  BY <1>1, <1>2, <1>3 DEF ChatInv, Recent

LEMMA ChatNext == ChatInv /\ [Next]_vars => ChatInv'
<1> SUFFICES ASSUME ChatInv, [Next]_vars PROVE ChatInv'
  OBVIOUS
<1>1. \A kind \in {"user", "system", "notice"} : Message(kind) \in Messages
  <2>1. Len(spoken) \in Nat
    BY LenProperties DEF ChatInv, Recent
  <2> QED
    BY <2>1 DEF Message, Messages
<1>2. ASSUME UNCHANGED <<history, spoken, opened>> PROVE ChatInv'
  BY <1>2 DEF ChatInv
<1>3. ASSUME NEW kind \in {"user", "system", "notice"}, Add(Message(kind)), UNCHANGED opened
      PROVE  ChatInv'
  BY <1>1, <1>3, TrimEffect DEF Add, ChatInv
<1>4. ASSUME NEW b \in Browser, RemoveMember(b) PROVE ChatInv'
  BY <1>1, <1>4, TrimEffect, NewRoom DEF RemoveMember, ChatInv
<1>5. ASSUME NEW b \in Browser, Admit(b) PROVE ChatInv'
  BY <1>2, <1>3, <1>5 DEF Admit
<1>6. ASSUME NEW b \in Browser, Join(b) \/ Rejoin(b) PROVE ChatInv'
  BY <1>5, <1>6 DEF Join, Rejoin
<1>7. ASSUME NEW b \in Browser, Leave(b) \/ RemovalTimeout(b) PROVE ChatInv'
  BY <1>4, <1>7 DEF Leave, RemovalTimeout
<1>8. ASSUME NEW b \in Browser, ChatSend(b) PROVE ChatInv'
  BY <1>2, <1>3, <1>8 DEF ChatSend
<1>9. ASSUME NEW on \in BOOLEAN, SetPolicy(on) PROVE ChatInv'
  BY <1>2, <1>3, <1>9 DEF SetPolicy
<1>10. ASSUME NEW b \in Browser, Reload(b) \/ LoseConnection(b) \/ Type(b) \/ Receive(b)
       PROVE  ChatInv'
  BY <1>2, <1>10 DEF Reload, LoseConnection, Type, Receive
<1>11. CASE UNCHANGED vars
  BY <1>2, <1>11 DEF vars
<1> QED
  BY <1>6, <1>7, <1>8, <1>9, <1>10, <1>11 DEF Next

(* The two ways to say what is kept. *)
LEMMA RecentIsLast == ChatInv => RecentHistory
<1> SUFFICES ASSUME ChatInv PROVE RecentHistory
  OBVIOUS
<1> DEFINE n   == Len(spoken)
           all == SubSeq(spoken, opened + 1, n)
<1>1. /\ history \in Seq(Messages) /\ spoken \in Seq(Messages)
      /\ opened \in Nat /\ n \in Nat /\ opened <= n /\ MaxItems \in Nat
      /\ Len(history) = Kept(n - opened)
      /\ \A i \in 1 .. Len(history) : history[i] = spoken[n - Len(history) + i]
  BY LimitsAssumption, LenProperties DEF ChatInv, Recent
<1>2. \A i \in 1 .. n : spoken[i] \in Messages
  BY <1>1, ElementOfSeq
<1> HIDE DEF n
<1>3. /\ all \in Seq(Messages) /\ Len(all) = n - opened
      /\ \A i \in 1 .. n - opened : all[i] = spoken[opened + i]
  <2>1. \A i \in opened + 1 .. n : spoken[i] \in Messages
    BY <1>1, <1>2
  <2>2. /\ all \in Seq(Messages)
        /\ Len(all) = IF opened + 1 <= n THEN n - (opened + 1) + 1 ELSE 0
        /\ \A i \in 1 .. n - (opened + 1) + 1 : all[i] = spoken[opened + 1 + i - 1]
    <3>1. opened + 1 \in Int /\ n \in Int
      BY <1>1
    <3> QED
      BY <2>1, <3>1, SubSeqProperties
  <2>3. n - (opened + 1) + 1 = n - opened /\ \A i \in 1 .. n - opened : opened + 1 + i - 1 = opened + i
    BY <1>1
  <2>4. opened + 1 <= n \/ n - opened = 0
    BY <1>1
  <2> HIDE DEF all
  <2> QED
    BY <2>2, <2>3, <2>4
<1> HIDE DEF all
<1>4. CASE MaxItems = 0
  <2>1. Len(history) = n - opened
    BY <1>1, <1>4 DEF Kept
  <2>2. \A i \in 1 .. Len(history) : history[i] = all[i]
    <3> SUFFICES ASSUME NEW i \in 1 .. Len(history) PROVE history[i] = all[i]
      OBVIOUS
    <3>1. n - Len(history) + i = opened + i
      BY <1>1, <2>1
    <3> QED
      BY <1>1, <1>3, <2>1, <3>1
  <2>3. history = all
    BY <1>1, <1>3, <2>1, <2>2, SeqEqual
  <2> QED
    BY <1>4, <2>3 DEF RecentHistory, all, n
<1>5. CASE MaxItems # 0
  <2> DEFINE first == IF Len(all) > MaxItems THEN Len(all) - MaxItems + 1 ELSE 1
             last  == LastN(all, MaxItems)
  <2>1. /\ first \in Int /\ Len(all) \in Int /\ first >= 1
        /\ Len(history) = Len(all) - first + 1
        /\ n - Len(history) = opened + first - 1
    BY <1>1, <1>3, <1>5 DEF Kept
  <2> HIDE DEF first
  <2>2. \A i \in first .. Len(all) : all[i] \in Messages
    <3>1. \A i \in 1 .. Len(all) : all[i] \in Messages
      BY <1>3, ElementOfSeq
    <3> QED
      BY <2>1, <3>1
  <2>3. /\ last \in Seq(Messages)
        /\ Len(last) = IF first <= Len(all) THEN Len(all) - first + 1 ELSE 0
        /\ \A i \in 1 .. Len(all) - first + 1 : last[i] = all[first + i - 1]
    <3>1. last = SubSeq(all, first, Len(all))
      BY DEF LastN, first
    <3> HIDE DEF last
    <3> QED
      BY <2>1, <2>2, <3>1, SubSeqProperties
  <2> HIDE DEF last
  <2>4. Len(last) = Len(history)
    BY <1>1, <2>1, <2>3
  <2>5. \A i \in 1 .. Len(history) : history[i] = last[i]
    <3> SUFFICES ASSUME NEW i \in 1 .. Len(history) PROVE history[i] = last[i]
      OBVIOUS
    <3>1. /\ first + i - 1 \in 1 .. n - opened
          /\ n - Len(history) + i = opened + (first + i - 1)
          /\ i \in 1 .. Len(all) - first + 1
      BY <1>1, <1>3, <2>1
    <3> QED
      BY <1>1, <1>3, <2>3, <3>1
  <2>6. history = last
    BY <1>1, <2>3, <2>4, <2>5, SeqEqual
  <2> QED
    BY <1>5, <2>6 DEF RecentHistory, last, all, n
<1> QED
  BY <1>4, <1>5

(* The history always holds the last messages of the room as it is.        *)
THEOREM HistoryIsRecent == Spec => []RecentHistory
BY ChatInit, ChatNext, RecentIsLast, PTL DEF Spec
-----------------------------------------------------------------------------
(***************************************************************************)
(* What a page shows.                                                      *)
(***************************************************************************)
Events == [type: {"message"}, message: Messages]
          \cup [type: {"policy"}, allowed: BOOLEAN]
          \cup [type: {"welcome"}, history: Seq(Messages), allowed: BOOLEAN]
Pages  == [hasJoined: BOOLEAN, chat: Seq(Messages), allowed: BOOLEAN]

(* The messages of a room are numbered as it took them. *)
Numbered(s) == s \in Seq(Messages) /\ \A n \in 1 .. Len(s) : s[n].id = n

(* What holds of every page: it shows messages of the room, in order. *)
Good(p, s) ==
    /\ p \in Pages
    /\ \A i \in 1 .. Len(p.chat) : p.chat[i].id \in 1 .. Len(s)
    /\ \A i, j \in 1 .. Len(p.chat) : i < j => p.chat[i].id < p.chat[j].id
    /\ \A i \in 1 .. Len(p.chat) : p.chat[i] = s[p.chat[i].id]
    /\ ~p.hasJoined => p.chat = <<>>

(* What holds of a page that has got everything since message n. *)
Complete(p, s, n, on) ==
    /\ p.hasJoined /\ p.allowed = on
    /\ \A k \in n + 1 .. Len(s) :
          s[k].kind # "notice" <=> \E i \in 1 .. Len(p.chat) : p.chat[i] = s[k]

(* The pages that follow page p while the events q arrive. *)
Replays(ps, p, q, s) ==
    /\ ps \in [0 .. Len(q) -> Pages] /\ ps[0] = p
    /\ \A i \in 1 .. Len(q) : ps[i] = Fold(ps[i - 1], q[i])
    /\ \A i \in 0 .. Len(q) : Good(ps[i], s)
    /\ \A i \in 1 .. Len(q) :
          q[i].type = "message" /\ q[i].message.kind = "user" => ps[i - 1].allowed

(* What is shown of a room that has taken the messages s is right in t.    *)
Grows(s, t) == \A x : Good(x, s) => Good(x, t)

LEMMA FoldEffect ==
    ASSUME NEW p \in Pages, NEW e \in Events
    PROVE  LET f == Fold(p, e)
           IN  /\ f \in Pages
               /\ e.type = "message" =>
                     /\ e.message \in Messages
                     /\ f.chat = Append(p.chat, e.message) /\ f.hasJoined = p.hasJoined
                     /\ f.allowed = p.allowed
               /\ e.type = "policy" =>
                     f.chat = p.chat /\ f.hasJoined = p.hasJoined /\ f.allowed = e.allowed
               /\ e.type = "welcome" =>
                     /\ e.history \in Seq(Messages) /\ f.hasJoined = TRUE /\ f.allowed = e.allowed
                     /\ f.chat = IF p.hasJoined THEN p.chat ELSE p.chat \o e.history
<1>1. CASE e.type = "message"
  <2> DEFINE c == Append(p.chat, e.message)
  <2>1. e.message \in Messages /\ c \in Seq(Messages)
    BY <1>1 DEF Events, Pages
  <2>2. Fold(p, e) = [p EXCEPT !.chat = c]
    BY <1>1 DEF Fold
  <2> HIDE DEF c
  <2>3. [p EXCEPT !.chat = c] \in Pages /\ [p EXCEPT !.chat = c].chat = c
    BY <2>1 DEF Pages
  <2>4. [p EXCEPT !.chat = c].hasJoined = p.hasJoined /\ [p EXCEPT !.chat = c].allowed = p.allowed
    BY DEF Pages
  <2> QED
    BY <1>1, <2>1, <2>2, <2>3, <2>4 DEF c
<1>2. CASE e.type = "policy"
  <2>1. e.allowed \in BOOLEAN
    BY <1>2 DEF Events
  <2>2. Fold(p, e) = [p EXCEPT !.allowed = e.allowed]
    BY <1>2 DEF Fold
  <2> QED
    BY <1>2, <2>1, <2>2 DEF Pages
<1>3. CASE e.type = "welcome"
  <2> DEFINE c == IF IsFirstJoin(p) THEN p.chat \o e.history ELSE p.chat
             f == [hasJoined |-> TRUE, allowed |-> e.allowed, chat |-> c]
  <2>1. e.history \in Seq(Messages) /\ e.allowed \in BOOLEAN
    BY <1>3 DEF Events
  <2>2. c \in Seq(Messages)
    BY <2>1 DEF Pages
  <2>3. Fold(p, e) = f
    BY <1>3 DEF Fold
  <2>4. c = IF p.hasJoined THEN p.chat ELSE p.chat \o e.history
    BY DEF IsFirstJoin
  <2> HIDE DEF c
  <2>5. f \in Pages /\ f.hasJoined = TRUE /\ f.allowed = e.allowed /\ f.chat = c
    BY <2>1, <2>2 DEF Pages
  <2> QED
    BY <1>3, <2>1, <2>3, <2>4, <2>5
<1> QED
  BY <1>1, <1>2, <1>3 DEF Events

(* Nothing is on its way. *)
LEMMA NothingOnItsWay ==
    ASSUME NEW p, NEW s, Good(p, s)
    PROVE  LET ps == [i \in 0 .. 0 |-> p]
           IN  Replays(ps, p, <<>>, s) /\ ps[Len(<<>>)] = p
<1>1. p \in Pages /\ Len(<<>>) = 0
  BY DEF Good
<1> QED
  BY <1>1 DEF Replays

(* Something is sent; the room may have taken another message. *)
LEMMA OneMoreOnItsWay ==
    ASSUME NEW ps, NEW p, NEW q \in Seq(Events), NEW s, Replays(ps, p, q, s),
           NEW e \in Events, NEW t,
           Grows(s, t),
           Good(Fold(ps[Len(q)], e), t),
           e.type = "message" /\ e.message.kind = "user" => ps[Len(q)].allowed
    PROVE  \E qs : Replays(qs, p, Append(q, e), t) /\ qs[Len(Append(q, e))] = Fold(ps[Len(q)], e)
<1> DEFINE n == Len(q)
           r == Append(q, e)
           last == Fold(ps[n], e)
           qs == [i \in 0 .. n + 1 |-> IF i = n + 1 THEN last ELSE ps[i]]
<1>1. /\ n \in Nat /\ Len(r) = n + 1 /\ r[n + 1] = e
      /\ \A i \in 1 .. n : r[i] = q[i]
  OBVIOUS
<1>2. /\ ps \in [0 .. n -> Pages] /\ ps[0] = p
      /\ \A i \in 1 .. n : ps[i] = Fold(ps[i - 1], q[i])
      /\ \A i \in 0 .. n : Good(ps[i], t)
      /\ \A i \in 1 .. n : q[i].type = "message" /\ q[i].message.kind = "user" => ps[i - 1].allowed
  BY DEF Replays, Grows
<1>3. last \in Pages /\ Good(last, t)
  BY DEF Good
<1> HIDE DEF n, r, last
<1>4. /\ qs \in [0 .. n + 1 -> Pages] /\ qs[n + 1] = last
      /\ \A i \in 0 .. n : qs[i] = ps[i]
  BY <1>1, <1>2, <1>3
<1> HIDE DEF qs
<1>5. qs[0] = p /\ \A i \in 0 .. n + 1 : Good(qs[i], t)
  BY <1>1, <1>2, <1>3, <1>4
<1>6. ASSUME NEW i \in 1 .. n + 1
      PROVE  /\ qs[i] = Fold(qs[i - 1], r[i])
             /\ r[i].type = "message" /\ r[i].message.kind = "user" => qs[i - 1].allowed
  <2>1. CASE i = n + 1
    <3>1. qs[i - 1] = ps[n] /\ qs[i] = last /\ r[i] = e
      BY <1>1, <1>4, <2>1
    <3> QED
      BY <3>1 DEF last, n
  <2>2. CASE i # n + 1
    <3>1. i \in 1 .. n /\ i - 1 \in 0 .. n
      BY <1>1, <2>2
    <3>2. qs[i] = ps[i] /\ qs[i - 1] = ps[i - 1] /\ r[i] = q[i]
      BY <1>1, <1>4, <3>1
    <3> QED
      BY <1>2, <3>1, <3>2
  <2> QED
    BY <2>1, <2>2
<1>7. Replays(qs, p, r, t) /\ qs[Len(r)] = last
  BY <1>1, <1>4, <1>5, <1>6 DEF Replays
<1> QED
  BY <1>7 DEF r, last, n

(* Something arrives. *)
LEMMA OneLessOnItsWay ==
    ASSUME NEW ps, NEW p, NEW q \in Seq(Events), q # <<>>, NEW s, Replays(ps, p, q, s)
    PROVE  \E qs : /\ Replays(qs, Fold(p, Head(q)), Tail(q), s)
                   /\ qs[Len(Tail(q))] = ps[Len(q)]
<1> DEFINE n == Len(q) - 1
           r == Tail(q)
           qs == [i \in 0 .. n |-> ps[i + 1]]
<1>1. /\ n \in Nat /\ Len(q) = n + 1 /\ Len(r) = n /\ Head(q) = q[1]
      /\ \A i \in 1 .. n : r[i] = q[i + 1]
  OBVIOUS
<1>2. /\ ps \in [0 .. n + 1 -> Pages] /\ ps[0] = p
      /\ \A i \in 1 .. n + 1 : ps[i] = Fold(ps[i - 1], q[i])
      /\ \A i \in 0 .. n + 1 : Good(ps[i], s)
      /\ \A i \in 1 .. n + 1 : q[i].type = "message" /\ q[i].message.kind = "user" => ps[i - 1].allowed
  BY <1>1 DEF Replays
<1> HIDE DEF n, r
<1>3. /\ qs \in [0 .. n -> Pages] /\ \A i \in 0 .. n : qs[i] = ps[i + 1]
  BY <1>1, <1>2
<1> HIDE DEF qs
<1>4. qs[0] = Fold(p, Head(q)) /\ qs[n] = ps[Len(q)] /\ \A i \in 0 .. n : Good(qs[i], s)
  <2>1. qs[0] = ps[1] /\ ps[1] = Fold(ps[0], q[1])
    BY <1>1, <1>2, <1>3
  <2> QED
    BY <1>1, <1>2, <1>3, <2>1
<1>5. ASSUME NEW i \in 1 .. n
      PROVE  /\ qs[i] = Fold(qs[i - 1], r[i])
             /\ r[i].type = "message" /\ r[i].message.kind = "user" => qs[i - 1].allowed
  <2>1. i + 1 \in 1 .. n + 1 /\ (i + 1) - 1 = i /\ i - 1 \in 0 .. n /\ (i - 1) + 1 = i
    BY <1>1
  <2>2. qs[i] = ps[i + 1] /\ qs[i - 1] = ps[i] /\ r[i] = q[i + 1]
    BY <1>1, <1>3, <2>1
  <2>3. ps[i + 1] = Fold(ps[i], q[i + 1])
    BY <1>2, <2>1
  <2>4. q[i + 1].type = "message" /\ q[i + 1].message.kind = "user" => ps[i].allowed
    BY <1>2, <2>1
  <2> QED
    BY <2>2, <2>3, <2>4
<1>6. Replays(qs, Fold(p, Head(q)), r, s)
  BY <1>1, <1>3, <1>4, <1>5 DEF Replays
<1> QED
  BY <1>1, <1>4, <1>6 DEF r

(* The room takes another message. *)
LEMMA AnotherMessage ==
    ASSUME NEW s, Numbered(s), NEW m \in Messages, m.id = Len(s) + 1
    PROVE  /\ Numbered(Append(s, m)) /\ Len(s) \in Nat /\ Len(Append(s, m)) = Len(s) + 1
           /\ \A n \in 1 .. Len(s) : Append(s, m)[n] = s[n]
           /\ Append(s, m)[Len(s) + 1] = m
<1>1. s \in Seq(Messages) /\ Len(s) \in Nat /\ \A n \in 1 .. Len(s) : s[n].id = n
  BY LenProperties DEF Numbered
<1>2. /\ Append(s, m) \in Seq(Messages) /\ Len(Append(s, m)) = Len(s) + 1
      /\ \A n \in 1 .. Len(s) : Append(s, m)[n] = s[n]
      /\ Append(s, m)[Len(s) + 1] = m
  BY <1>1, AppendProperties
<1>3. ASSUME NEW n \in 1 .. Len(s) + 1 PROVE Append(s, m)[n].id = n
  <2>1. CASE n = Len(s) + 1
    BY <1>2, <2>1
  <2>2. CASE n # Len(s) + 1
    BY <1>1, <1>2, <2>2
  <2> QED
    BY <2>1, <2>2
<1> QED
  BY <1>1, <1>2, <1>3 DEF Numbered

LEMMA GoodGrows ==
    ASSUME NEW s, Numbered(s), NEW m \in Messages, m.id = Len(s) + 1, NEW p, Good(p, s)
    PROVE  Good(p, Append(s, m))
<1> DEFINE t == Append(s, m)
<1>1. Len(s) \in Nat /\ Len(t) = Len(s) + 1 /\ \A n \in 1 .. Len(s) : t[n] = s[n]
  BY AnotherMessage
<1> HIDE DEF t
<1>2. Good(p, t)
  BY <1>1 DEF Good
<1> QED
  BY <1>2 DEF t

(* A page that has joined is told of the next message. *)
LEMMA GoodMessage ==
    ASSUME NEW s, Numbered(s), NEW m \in Messages, m.id = Len(s) + 1,
           NEW p, Good(p, s), p.hasJoined
    PROVE  Good(Fold(p, Said(m)), Append(s, m))
<1> DEFINE t == Append(s, m)
           e == Said(m)
           f == Fold(p, e)
           c == p.chat
           n == Len(c)
<1>1. Len(s) \in Nat /\ Len(t) = Len(s) + 1 /\ t[Len(s) + 1] = m
  BY AnotherMessage
<1>2. Good(p, t)
  BY GoodGrows
<1>3. e \in Events /\ e.type = "message" /\ e.message = m
  BY DEF Said, Events
<1>4. p \in Pages /\ c \in Seq(Messages) /\ n \in Nat
  BY DEF Good, Pages
<1>5. f \in Pages /\ f.chat = Append(c, m) /\ f.hasJoined = p.hasJoined
  <2> HIDE DEF e
  <2> QED
    BY <1>3, <1>4, FoldEffect
<1>6. /\ Len(f.chat) = n + 1 /\ f.chat[n + 1] = m
      /\ \A i \in 1 .. n : f.chat[i] = c[i]
  BY <1>4, <1>5, AppendProperties
<1>7. \A i \in 1 .. n : c[i].id \in 1 .. Len(s)
  BY DEF Good
<1>8. \A i, j \in 1 .. n : i < j => c[i].id < c[j].id
  BY DEF Good
<1>9. \A i \in 1 .. n : c[i] = t[c[i].id]
  BY <1>2 DEF Good
<1> HIDE DEF t, e, f, c, n
<1>10. ASSUME NEW i \in 1 .. n + 1
       PROVE  f.chat[i].id \in 1 .. Len(t) /\ f.chat[i] = t[f.chat[i].id]
  <2>1. CASE i = n + 1
    BY <1>1, <1>4, <1>6, <2>1
  <2>2. CASE i # n + 1
    <3>1. i \in 1 .. n /\ f.chat[i] = c[i]
      BY <1>4, <1>6, <2>2
    <3> QED
      BY <1>1, <1>7, <1>9, <3>1
  <2> QED
    BY <2>1, <2>2
<1>11. ASSUME NEW i \in 1 .. n + 1, NEW j \in 1 .. n + 1, i < j
       PROVE  f.chat[i].id < f.chat[j].id
  <2>1. i \in 1 .. n /\ f.chat[i] = c[i] /\ c[i].id \in 1 .. Len(s)
    BY <1>4, <1>6, <1>7, <1>11
  <2>2. CASE j = n + 1
    <3>1. f.chat[j].id = Len(s) + 1
      BY <1>6, <2>2
    <3> QED
      BY <1>1, <2>1, <3>1
  <2>3. CASE j # n + 1
    <3>1. j \in 1 .. n /\ f.chat[j] = c[j]
      BY <1>4, <1>6, <2>3
    <3> QED
      BY <1>8, <1>11, <2>1, <3>1
  <2> QED
    BY <2>2, <2>3
<1>12. Good(f, t)
  BY <1>5, <1>6, <1>10, <1>11 DEF Good
<1> QED
  BY <1>12 DEF f, e, t

LEMMA GoodPolicy ==
    ASSUME NEW s, NEW p, Good(p, s), NEW on \in BOOLEAN
    PROVE  /\ Policy(on) \in Events /\ Policy(on).type = "policy"
           /\ Good(Fold(p, Policy(on)), s)
           /\ Fold(p, Policy(on)).chat = p.chat
           /\ Fold(p, Policy(on)).hasJoined = p.hasJoined
           /\ Fold(p, Policy(on)).allowed = on
<1> DEFINE e == Policy(on)
           f == Fold(p, e)
<1>1. e \in Events /\ e.type = "policy" /\ e.allowed = on
  BY DEF Policy, Events
<1> HIDE DEF e
<1>2. f \in Pages /\ f.chat = p.chat /\ f.hasJoined = p.hasJoined /\ f.allowed = on
  BY <1>1, FoldEffect DEF Good
<1> HIDE DEF f
<1>3. Good(f, s)
  BY <1>2 DEF Good
<1> QED
  BY <1>1, <1>2, <1>3 DEF f, e

(* A page is acknowledged, and shows the history unless it had joined. *)
LEMMA GoodWelcome ==
    ASSUME NEW s, Numbered(s), NEW p, Good(p, s), NEW h, NEW o, Recent(h, s, o),
           NEW e \in Events, e.type = "welcome", e.history = h
    PROVE  Good(Fold(p, e), s)
<1> DEFINE f == Fold(p, e)
<1>1. /\ f \in Pages /\ f.hasJoined = TRUE
      /\ f.chat = IF p.hasJoined THEN p.chat ELSE p.chat \o h
  BY FoldEffect DEF Good
<1> HIDE DEF f
<1>2. CASE p.hasJoined
  <2>1. f.chat = p.chat
    BY <1>1, <1>2
  <2>2. Good(f, s)
    BY <1>1, <2>1 DEF Good
  <2> QED
    BY <2>2 DEF f
<1>3. CASE ~p.hasJoined
  <2>1. /\ h \in Seq(Messages) /\ Len(h) \in Nat /\ Len(s) \in Nat /\ o \in 0 .. Len(s)
        /\ Len(h) = Kept(Len(s) - o) /\ MaxItems \in Nat
        /\ \A i \in 1 .. Len(h) : h[i] = s[Len(s) - Len(h) + i]
    BY LimitsAssumption, LenProperties DEF Recent
  <2>2. p.chat = <<>>
    BY <1>3 DEF Good
  <2>3. f.chat = h
    <3>1. <<>> \o h = h
      BY <2>1, ConcatEmptySeq
    <3> QED
      BY <1>1, <1>3, <2>2, <3>1
  <2>4. Len(h) <= Len(s)
    BY <2>1 DEF Kept
  <2>5. ASSUME NEW i \in 1 .. Len(h)
        PROVE  h[i].id = Len(s) - Len(h) + i /\ Len(s) - Len(h) + i \in 1 .. Len(s)
               /\ h[i] = s[Len(s) - Len(h) + i]
    <3>1. Len(s) - Len(h) + i \in 1 .. Len(s)
      BY <2>1, <2>4
    <3> QED
      BY <2>1, <3>1 DEF Numbered
  <2>6. \A i, j \in 1 .. Len(h) : i < j => h[i].id < h[j].id
    BY <2>1, <2>5
  <2>7. \A i \in 1 .. Len(h) : h[i].id \in 1 .. Len(s)
    BY <2>5
  <2>8. \A i \in 1 .. Len(h) : h[i] = s[h[i].id]
    BY <2>5
  <2>9. Good(f, s)
    BY <1>1, <2>3, <2>6, <2>7, <2>8 DEF Good
  <2> QED
    BY <2>9 DEF f
<1> QED
  BY <1>2, <1>3

(* What page p shows now and once the events q have arrived, if it is      *)
(* connected (l = "on") since the room had n messages.                     *)
Shows(p, q, s, n, on, l) ==
    \E ps : Replays(ps, p, q, s) /\ (l = "on" => Complete(ps[Len(q)], s, n, on))

LEMMA ShowsGood ==
    ASSUME NEW p, NEW q \in Seq(Events), NEW s, NEW n, NEW on, NEW l, Shows(p, q, s, n, on, l)
    PROVE  Good(p, s)
<1>1. PICK ps : Replays(ps, p, q, s)
  BY DEF Shows
<1>2. 0 \in 0 .. Len(q)
  BY LenProperties
<1> QED
  BY <1>1, <1>2 DEF Replays

LEMMA ShowsUnconnected ==
    ASSUME NEW p, NEW s, Good(p, s), NEW n, NEW on, NEW l, l # "on"
    PROVE  Shows(p, <<>>, s, n, on, l)
BY NothingOnItsWay DEF Shows

(* A connected page is sent one more event, and the room may have taken    *)
(* another message.                                                        *)
LEMMA ShowsMore ==
    ASSUME NEW ps, NEW p, NEW q \in Seq(Events), NEW s, Replays(ps, p, q, s),
           NEW e \in Events, NEW t,
           Grows(s, t),
           Good(Fold(ps[Len(q)], e), t),
           e.type = "message" /\ e.message.kind = "user" => ps[Len(q)].allowed,
           NEW n, NEW on, Complete(Fold(ps[Len(q)], e), t, n, on)
    PROVE  Shows(p, Append(q, e), t, n, on, "on")
<1>1. PICK qs : Replays(qs, p, Append(q, e), t) /\ qs[Len(Append(q, e))] = Fold(ps[Len(q)], e)
  BY OneMoreOnItsWay
<1> QED
  BY <1>1 DEF Shows

LEMMA HearsMessage ==
    ASSUME NEW s, Numbered(s), NEW m \in Messages, m.id = Len(s) + 1, m.kind # "notice",
           NEW n \in 0 .. Len(s), NEW on, m.kind = "user" => on,
           NEW p, NEW q \in Seq(Events), Shows(p, q, s, n, on, "on")
    PROVE  Shows(p, Append(q, Said(m)), Append(s, m), n, on, "on")
<1> DEFINE t == Append(s, m)
           e == Said(m)
<1>1. PICK ps : Replays(ps, p, q, s) /\ Complete(ps[Len(q)], s, n, on)
  BY DEF Shows
<1> DEFINE x == ps[Len(q)]
           f == Fold(x, e)
           c == x.chat
<1>2. Good(x, s) /\ x.hasJoined /\ x.allowed = on
  <2>1. Len(q) \in 0 .. Len(q)
    BY LenProperties
  <2> QED
    BY <1>1, <2>1 DEF Replays, Complete
<1>3. /\ Len(s) \in Nat /\ Len(t) = Len(s) + 1 /\ t[Len(s) + 1] = m
      /\ \A k \in 1 .. Len(s) : t[k] = s[k]
  BY AnotherMessage
<1>4. e \in Events /\ e.type = "message" /\ e.message = m
  BY DEF Said, Events
<1> HIDE DEF e
<1>5. Grows(s, t)
  BY GoodGrows DEF Grows
<1>6. Good(f, t)
  BY <1>2, GoodMessage DEF e
<1>7. x \in Pages /\ c \in Seq(Messages)
  BY <1>2 DEF Good, Pages
<1>8. f.chat = Append(c, m) /\ f.hasJoined = x.hasJoined /\ f.allowed = x.allowed
  BY <1>4, <1>7, FoldEffect
<1>9. /\ Len(c) \in Nat /\ Len(f.chat) = Len(c) + 1 /\ f.chat[Len(c) + 1] = m
      /\ \A i \in 1 .. Len(c) : f.chat[i] = c[i]
  BY <1>7, <1>8, AppendProperties, LenProperties
<1>10. \A k \in n + 1 .. Len(s) :
          s[k].kind # "notice" <=> \E i \in 1 .. Len(c) : c[i] = s[k]
  BY <1>1 DEF Complete
<1>11. \A i \in 1 .. Len(c) : c[i].id \in 1 .. Len(s)
  BY <1>2 DEF Good
<1>12. \A k \in 1 .. Len(s) : s[k].id = k
  BY DEF Numbered
<1> HIDE DEF t, f, c, x
<1>13. ASSUME NEW k \in n + 1 .. Len(t)
       PROVE  t[k].kind # "notice" <=> \E i \in 1 .. Len(f.chat) : f.chat[i] = t[k]
  <2>1. CASE k = Len(s) + 1
    <3>1. t[k] = m /\ Len(c) + 1 \in 1 .. Len(f.chat)
      BY <1>3, <1>9, <2>1
    <3> QED
      BY <1>9, <3>1
  <2>2. CASE k # Len(s) + 1
    <3>1. k \in n + 1 .. Len(s) /\ k \in 1 .. Len(s) /\ t[k] = s[k]
      BY <1>3, <2>2
    <3>2. ASSUME NEW i \in 1 .. Len(f.chat), f.chat[i] = s[k]
          PROVE  i \in 1 .. Len(c) /\ c[i] = s[k]
      <4>1. m # s[k]
        BY <1>3, <1>12, <3>1
      <4>2. i # Len(c) + 1
        BY <1>9, <3>2, <4>1
      <4>3. i \in 1 .. Len(c)
        BY <1>9, <4>2
      <4> QED
        BY <1>9, <3>2, <4>3
    <3>3. ASSUME NEW i \in 1 .. Len(c), c[i] = s[k]
          PROVE  i \in 1 .. Len(f.chat) /\ f.chat[i] = s[k]
      BY <1>9, <3>3
    <3> QED
      BY <1>10, <3>1, <3>2, <3>3
  <2> QED
    BY <1>3, <2>1, <2>2
<1>14. Complete(f, t, n, on)
  BY <1>2, <1>8, <1>13 DEF Complete
<1>15. e.type = "message" /\ e.message.kind = "user" => x.allowed
  BY <1>2, <1>4
<1>16. Shows(p, Append(q, e), t, n, on, "on")
  BY <1>1, <1>4, <1>5, <1>6, <1>14, <1>15, ShowsMore DEF f, x
<1> QED
  BY <1>16 DEF e, t

(* Told of the policy, with the notice of a chat that is turned off in the *)
(* history or without.                                                     *)
LEMMA HearsPolicy ==
    ASSUME NEW s, Numbered(s), NEW n \in 0 .. Len(s), NEW on, NEW now \in BOOLEAN,
           NEW p, NEW q \in Seq(Events), Shows(p, q, s, n, on, "on")
    PROVE  /\ Shows(p, Append(q, Policy(now)), s, n, now, "on")
           /\ \A m \in Messages :
                 m.id = Len(s) + 1 /\ m.kind = "notice"
                 => Shows(p, Append(q, Policy(now)), Append(s, m), n, now, "on")
<1> DEFINE e == Policy(now)
<1>1. PICK ps : Replays(ps, p, q, s) /\ Complete(ps[Len(q)], s, n, on)
  BY DEF Shows
<1> DEFINE x == ps[Len(q)]
           f == Fold(x, e)
<1>2. Good(x, s) /\ x.hasJoined
  <2>1. Len(q) \in 0 .. Len(q)
    BY LenProperties
  <2> QED
    BY <1>1, <2>1 DEF Replays, Complete
<1>3. /\ e \in Events /\ e.type = "policy" /\ Good(f, s)
      /\ f.chat = x.chat /\ f.hasJoined = x.hasJoined /\ f.allowed = now
  <2>1. Good(x, s)
    BY <1>2
  <2> HIDE DEF x
  <2> QED
    BY <2>1, GoodPolicy
<1>4. \A k \in n + 1 .. Len(s) :
          s[k].kind # "notice" <=> \E i \in 1 .. Len(x.chat) : x.chat[i] = s[k]
  BY <1>1 DEF Complete
<1>5. \A i \in 1 .. Len(x.chat) : x.chat[i].id \in 1 .. Len(s)
  BY <1>2 DEF Good
<1> HIDE DEF e, x, f
<1>6. Shows(p, Append(q, e), s, n, now, "on")
  <2>1. Complete(f, s, n, now)
    BY <1>2, <1>3, <1>4 DEF Complete
  <2>2. Grows(s, s)
    BY DEF Grows
  <2> QED
    BY <1>1, <1>3, <2>1, <2>2, ShowsMore DEF f, x
<1>7. ASSUME NEW m \in Messages, m.id = Len(s) + 1, m.kind = "notice"
      PROVE  Shows(p, Append(q, e), Append(s, m), n, now, "on")
  <2> DEFINE t == Append(s, m)
  <2>1. /\ Len(s) \in Nat /\ Len(t) = Len(s) + 1 /\ t[Len(s) + 1] = m
        /\ \A k \in 1 .. Len(s) : t[k] = s[k]
    BY <1>7, AnotherMessage
  <2>2. Grows(s, t)
    BY <1>7, GoodGrows DEF Grows
  <2> HIDE DEF t
  <2>3. ASSUME NEW k \in n + 1 .. Len(t)
        PROVE  t[k].kind # "notice" <=> \E i \in 1 .. Len(x.chat) : x.chat[i] = t[k]
    <3>1. CASE k = Len(s) + 1
      <4>1. t[k] = m
        BY <2>1, <3>1
      <4>2. \A i \in 1 .. Len(x.chat) : x.chat[i] # m
        BY <1>5, <1>7, <2>1
      <4> QED
        BY <1>7, <4>1, <4>2
    <3>2. CASE k # Len(s) + 1
      <4>1. k \in n + 1 .. Len(s) /\ t[k] = s[k]
        BY <2>1, <3>2
      <4> QED
        BY <1>4, <4>1
    <3> QED
      BY <3>1, <3>2
  <2>4. Complete(f, t, n, now)
    BY <1>2, <1>3, <2>3 DEF Complete
  <2>5. Good(f, t)
    BY <1>3, <2>2 DEF Grows
  <2>6. e.type = "message" /\ e.message.kind = "user" => x.allowed
    BY <1>3
  <2>7. Shows(p, Append(q, e), t, n, now, "on")
    BY <1>1, <1>3, <2>2, <2>4, <2>5, <2>6, ShowsMore DEF f, x
  <2> QED
    BY <2>7 DEF t
<1> QED
  BY <1>6, <1>7 DEF e

(* Told nothing, while the room may have taken another message. *)
LEMMA HearsNothing ==
    ASSUME NEW s, Numbered(s), NEW m \in Messages, m.id = Len(s) + 1,
           NEW p, Good(p, s), NEW n, NEW on, NEW l, l # "on"
    PROVE  Shows(p, <<>>, Append(s, m), n, on, l)
BY GoodGrows, ShowsUnconnected

LEMMA Welcomed ==
    ASSUME NEW s, Numbered(s), NEW p, Good(p, s), NEW h, NEW o, Recent(h, s, o), allowed \in BOOLEAN
    PROVE  /\ Welcome(h) \in Events
           /\ Shows(p, <<Welcome(h)>>, s, Len(s), allowed, "on")
<1> DEFINE e == Welcome(h)
           f == Fold(p, e)
           ps == [i \in 0 .. 0 |-> p]
<1>1. e \in Events /\ e.type = "welcome" /\ e.history = h /\ e.allowed = allowed
  BY DEF Welcome, Events, Recent
<1> HIDE DEF e
<1>2. Good(f, s)
  BY <1>1, GoodWelcome
<1>3. f.hasJoined = TRUE /\ f.allowed = allowed
  BY <1>1, FoldEffect DEF Good
<1>4. Len(s) \in Nat
  BY LenProperties DEF Numbered
<1>5. Complete(f, s, Len(s), allowed)
  BY <1>3, <1>4 DEF Complete
<1>6. Replays(ps, p, <<>>, s) /\ ps[Len(<<>>)] = p
  BY NothingOnItsWay
<1> HIDE DEF ps
<1>7. <<>> \in Seq(Events) /\ Append(<<>>, e) = <<e>>
  OBVIOUS
<1>8. Shows(p, Append(<<>>, e), s, Len(s), allowed, "on")
  <2> DEFINE q == <<>>
  <2>1. q \in Seq(Events) /\ Replays(ps, p, q, s) /\ ps[Len(q)] = p
    BY <1>6, <1>7
  <2> HIDE DEF q
  <2>2. Shows(p, Append(q, e), s, Len(s), allowed, "on")
    BY <1>1, <1>2, <1>5, <2>1, ShowsMore DEF f, Grows
  <2> QED
    BY <2>2 DEF q
<1> QED
  BY <1>1, <1>7, <1>8 DEF e

LEMMA Arrives ==
    ASSUME NEW p, NEW q \in Seq(Events), q # <<>>, NEW s, NEW n, NEW on, NEW l,
           Shows(p, q, s, n, on, l)
    PROVE  Shows(Fold(p, Head(q)), Tail(q), s, n, on, l)
<1>1. PICK ps : Replays(ps, p, q, s) /\ (l = "on" => Complete(ps[Len(q)], s, n, on))
  BY DEF Shows
<1>2. PICK qs : Replays(qs, Fold(p, Head(q)), Tail(q), s) /\ qs[Len(Tail(q))] = ps[Len(q)]
  BY <1>1, OneLessOnItsWay
<1> QED
  BY <1>1, <1>2 DEF Shows

Links == {"off", "on", "lost"}

(* A connected page is one of a member, and what it shows and what is on   *)
(* its way to it are all that was said.                                    *)
PageOf(b) ==
    /\ since[b] \in 0 .. Len(spoken)
    /\ link[b] = "on" => Member(b)
    /\ link[b] # "on" => inbox[b] = <<>>
    /\ Shows(page[b], inbox[b], spoken, since[b], allowed, link[b])

ChatTypes ==
    /\ members \in Seq(Browser) /\ allowed \in BOOLEAN
    /\ link \in [Browser -> Links] /\ page \in [Browser -> Pages]
    /\ inbox \in [Browser -> Seq(Events)] /\ since \in [Browser -> Nat]

PageInv == ChatInv /\ Numbered(spoken) /\ ChatTypes /\ \A b \in Browser : PageOf(b)

LEMMA Updated ==
    ASSUME NEW S, NEW T, NEW f \in [S -> T], NEW x \in S, NEW y \in T
    PROVE  /\ [f EXCEPT ![x] = y] \in [S -> T]
           /\ [f EXCEPT ![x] = y][x] = y
           /\ \A z \in S : z # x => [f EXCEPT ![x] = y][z] = f[z]
OBVIOUS

LEMMA NewPageIsGood ==
    ASSUME NEW s
    PROVE  NewPage \in Pages /\ Good(NewPage, s)
<1>1. NewPage \in Pages /\ NewPage.hasJoined = FALSE /\ NewPage.chat = <<>>
  <2>1. <<>> \in Seq(Messages)
    OBVIOUS
  <2> QED
    BY <2>1 DEF NewPage, Pages
<1>2. Len(NewPage.chat) = 0
  BY <1>1
<1> QED
  BY <1>1, <1>2 DEF Good

LEMMA NextMessage ==
    ASSUME PageInv, NEW kind \in {"user", "system", "notice"}
    PROVE  /\ Message(kind) \in Messages /\ Message(kind).id = Len(spoken) + 1
           /\ Message(kind).kind = kind
           /\ Said(Message(kind)) \in Events
           /\ Numbered(Append(spoken, Message(kind)))
           /\ Len(spoken) \in Nat /\ Len(Append(spoken, Message(kind))) = Len(spoken) + 1
           /\ Grows(spoken, Append(spoken, Message(kind)))
<1>1. Len(spoken) \in Nat /\ Numbered(spoken)
  BY LenProperties DEF PageInv, Numbered
<1>2. Message(kind) \in Messages /\ Message(kind).id = Len(spoken) + 1 /\ Message(kind).kind = kind
  BY <1>1 DEF Message, Messages
<1>3. Said(Message(kind)) \in Events
  BY <1>2 DEF Said, Events
<1>4. /\ Numbered(Append(spoken, Message(kind)))
      /\ Len(Append(spoken, Message(kind))) = Len(spoken) + 1
  BY <1>1, <1>2, AnotherMessage
<1>5. Grows(spoken, Append(spoken, Message(kind)))
  BY <1>1, <1>2, GoodGrows DEF Grows
<1> QED
  BY <1>1, <1>2, <1>3, <1>4, <1>5

(* Nothing happens to a page. *)
LEMMA PageKept ==
    ASSUME PageInv, NEW b \in Browser,
           spoken' = spoken, link'[b] = link[b], inbox'[b] = inbox[b], page'[b] = page[b],
           since'[b] = since[b],
           link[b] = "on" => Member(b)' /\ allowed' = allowed
    PROVE  PageOf(b)'
<1>1. PageOf(b)
  BY DEF PageInv
<1>2. Shows(page[b], inbox[b], spoken, since[b], allowed', link[b])
  <2>1. CASE link[b] = "on"
    BY <1>1, <2>1 DEF PageOf
  <2>2. CASE link[b] # "on"
    <3>1. inbox[b] = <<>> /\ Good(page[b], spoken)
      <4>1. inbox[b] \in Seq(Events)
        BY DEF PageInv, ChatTypes
      <4> QED
        BY <1>1, <2>2, <4>1, ShowsGood DEF PageOf
    <3> QED
      BY <2>2, <3>1, ShowsUnconnected
  <2> QED
    BY <2>1, <2>2
<1> QED
  BY <1>1, <1>2 DEF PageOf

(* A message goes to every connected page. *)
LEMMA PageHears ==
    ASSUME PageInv, NEW b \in Browser, NEW kind \in {"user", "system"},
           kind = "user" => allowed,
           spoken' = Append(spoken, Message(kind)),
           link'[b] = link[b], page'[b] = page[b], since'[b] = since[b],
           inbox'[b] = IF link[b] = "on" THEN Append(inbox[b], Said(Message(kind))) ELSE inbox[b],
           link[b] = "on" => Member(b)' /\ allowed' = allowed
    PROVE  PageOf(b)'
<1> DEFINE m == Message(kind)
           s == Append(spoken, m)
<1>1. /\ PageOf(b) /\ Numbered(spoken) /\ inbox[b] \in Seq(Events)
  BY DEF PageInv, ChatTypes
<1>2. /\ m \in Messages /\ m.id = Len(spoken) + 1 /\ m.kind = kind
      /\ Len(spoken) \in Nat /\ Len(s) = Len(spoken) + 1
  BY NextMessage
<1>3. since[b] \in 0 .. Len(s) /\ s = spoken'
  BY <1>1, <1>2 DEF PageOf
<1> HIDE DEF m, s
<1>4. CASE link[b] = "on"
  <2>1. Shows(page[b], Append(inbox[b], Said(m)), s, since[b], allowed, "on")
    BY <1>1, <1>2, <1>4, HearsMessage DEF PageOf, s
  <2> QED
    BY <1>3, <1>4, <2>1 DEF PageOf, m
<1>5. CASE link[b] # "on"
  <2>1. inbox[b] = <<>> /\ Good(page[b], spoken)
    BY <1>1, <1>5, ShowsGood DEF PageOf
  <2>2. Shows(page[b], <<>>, s, since[b], allowed', link[b])
    BY <1>1, <1>2, <1>5, <2>1, HearsNothing DEF s
  <2> QED
    BY <1>3, <1>5, <2>1, <2>2 DEF PageOf
<1> QED
  BY <1>4, <1>5

(* A page is not connected (any more), and may have been opened anew. *)
LEMMA PageApart ==
    ASSUME PageInv, NEW b \in Browser,
           spoken' = spoken \/ spoken' = Append(spoken, Message("system")),
           link'[b] # "on", inbox'[b] = <<>>, since'[b] = since[b],
           page'[b] = page[b] \/ page'[b] = NewPage
    PROVE  PageOf(b)'
<1>1. PageOf(b) /\ inbox[b] \in Seq(Events)
  BY DEF PageInv, ChatTypes
<1>2. /\ Len(spoken) \in Nat /\ Len(Append(spoken, Message("system"))) = Len(spoken) + 1
      /\ Grows(spoken, Append(spoken, Message("system")))
  BY NextMessage
<1>3. Good(page[b], spoken)
  BY <1>1, ShowsGood DEF PageOf
<1>4. Good(page'[b], spoken') /\ since'[b] \in 0 .. Len(spoken')
  <2>1. Good(page[b], spoken')
    BY <1>2, <1>3 DEF Grows
  <2>2. Good(page'[b], spoken')
    BY <2>1, NewPageIsGood
  <2>3. since[b] \in 0 .. Len(spoken')
    BY <1>1, <1>2 DEF PageOf
  <2> QED
    BY <2>2, <2>3
<1>5. Shows(page'[b], <<>>, spoken', since'[b], allowed', link'[b])
  BY <1>4, ShowsUnconnected
<1> QED
  BY <1>4, <1>5 DEF PageOf

(* A join is acknowledged. *)
LEMMA PageAdmitted ==
    ASSUME PageInv, ChatInv', Numbered(spoken'), NEW b \in Browser,
           Grows(spoken, spoken'), allowed' = allowed,
           link'[b] = "on", Member(b)', page'[b] = page[b],
           inbox'[b] = <<Welcome(history')>>, since'[b] = Len(spoken')
    PROVE  PageOf(b)' /\ Welcome(history') \in Events
<1>1. PageOf(b) /\ inbox[b] \in Seq(Events) /\ allowed \in BOOLEAN
  BY DEF PageInv, ChatTypes
<1>2. Good(page[b], spoken')
  BY <1>1, ShowsGood DEF PageOf, Grows
<1>3. Recent(history', spoken', opened') /\ Len(spoken') \in Nat
  BY LenProperties DEF ChatInv, Numbered
<1>4. /\ Welcome(history') \in Events
      /\ Shows(page[b], <<Welcome(history')>>, spoken', Len(spoken'), allowed, "on")
  BY <1>1, <1>2, <1>3, Welcomed
<1> QED
  BY <1>3, <1>4 DEF PageOf

(***************************************************************************)
(* Every step keeps it.                                                    *)
(***************************************************************************)
LEMMA ToldInbox ==
    ASSUME ChatTypes, NEW A, NEW e \in Events
    PROVE  /\ Tell(A, e) \in [Browser -> Seq(Events)]
           /\ \A b \in Browser : Tell(A, e)[b] = IF b \in A THEN Append(inbox[b], e) ELSE inbox[b]
BY DEF ChatTypes, Tell

LEMMA AudienceIsConnected ==
    ASSUME PageInv, NEW author
    PROVE  \A b \in Browser : b \in Audience(author) <=> link[b] = "on"
BY DEF PageInv, PageOf, Audience

(* Another member stays one. *)
LEMMA StillMember ==
    ASSUME NEW s \in Seq(Browser), NEW b, NEW i \in DOMAIN s, s[i] = b
    PROVE  /\ RemoveAt(s, i) \in Seq(Browser)
           /\ \A c \in Browser : c # b /\ Contains(s, c) => Contains(RemoveAt(s, i), c)
<1> DEFINE n == Len(s)
           x == SubSeq(s, 1, i - 1)
           y == SubSeq(s, i + 1, n)
           r == x \o y
<1>1. n \in Nat /\ i \in 1 .. n /\ \A j \in 1 .. n : s[j] \in Browser
  BY LenProperties, ElementOfSeq
<1> HIDE DEF n
<1>2. /\ x \in Seq(Browser) /\ Len(x) = i - 1
      /\ \A j \in 1 .. i - 1 : x[j] = s[j]
  <2>1. \A j \in 1 .. i - 1 : s[j] \in Browser
    BY <1>1
  <2>2. 1 \in Int /\ i - 1 \in Int
    BY <1>1
  <2>3. /\ x \in Seq(Browser) /\ Len(x) = IF 1 <= i - 1 THEN (i - 1) - 1 + 1 ELSE 0
        /\ \A j \in 1 .. (i - 1) - 1 + 1 : x[j] = s[1 + j - 1]
    BY <2>1, <2>2, SubSeqProperties
  <2> HIDE DEF x
  <2> QED
    BY <1>1, <2>3
<1>3. /\ y \in Seq(Browser) /\ Len(y) = n - i
      /\ \A j \in 1 .. n - i : y[j] = s[i + j]
  <2>1. \A j \in i + 1 .. n : s[j] \in Browser
    BY <1>1
  <2>2. i + 1 \in Int /\ n \in Int
    BY <1>1
  <2>3. /\ y \in Seq(Browser) /\ Len(y) = IF i + 1 <= n THEN n - (i + 1) + 1 ELSE 0
        /\ \A j \in 1 .. n - (i + 1) + 1 : y[j] = s[i + 1 + j - 1]
    BY <2>1, <2>2, SubSeqProperties
  <2> HIDE DEF y
  <2>4. \A j \in 1 .. n - i : j \in 1 .. n - (i + 1) + 1 /\ i + 1 + j - 1 = i + j
    BY <1>1
  <2> QED
    BY <1>1, <2>3, <2>4
<1> HIDE DEF x, y
<1>4. /\ r \in Seq(Browser) /\ Len(r) = n - 1
      /\ \A j \in 1 .. i - 1 : r[j] = s[j]
      /\ \A j \in 1 .. n - i : r[i - 1 + j] = s[i + j]
  <2>1. /\ r \in Seq(Browser) /\ Len(r) = Len(x) + Len(y)
        /\ \A j \in 1 .. Len(x) : r[j] = x[j]
        /\ \A j \in 1 .. Len(y) : r[Len(x) + j] = y[j]
    <3>1. x \in Seq(Browser) /\ y \in Seq(Browser)
      BY <1>2, <1>3
    <3> QED
      BY <3>1, ConcatProperties
  <2> HIDE DEF r
  <2>2. Len(x) = i - 1 /\ Len(y) = n - i
    BY <1>2, <1>3
  <2>3. ASSUME NEW j \in 1 .. i - 1 PROVE r[j] = s[j]
    BY <1>2, <2>1, <2>2
  <2>4. ASSUME NEW j \in 1 .. n - i PROVE r[i - 1 + j] = s[i + j]
    BY <1>3, <2>1, <2>2
  <2> QED
    BY <1>1, <2>1, <2>2, <2>3, <2>4
<1> HIDE DEF r
<1>5. ASSUME NEW c \in Browser, c # b, Contains(s, c) PROVE Contains(r, c)
  <2>1. PICK j \in 1 .. n : s[j] = c
    BY <1>5 DEF Contains, n
  <2>2. j # i
    BY <1>5, <2>1
  <2>3. CASE j < i
    <3>1. j \in 1 .. Len(r) /\ r[j] = c
      BY <1>1, <1>4, <2>1, <2>3
    <3> QED
      BY <3>1 DEF Contains
  <2>4. CASE j > i
    <3> DEFINE k == j - i
    <3>1. k \in 1 .. n - i /\ i + k = j /\ i - 1 + k \in 1 .. Len(r)
      BY <1>1, <1>4, <2>1, <2>4
    <3>2. r[i - 1 + k] = c
      BY <1>4, <2>1, <3>1
    <3> QED
      BY <3>1, <3>2 DEF Contains
  <2> QED
    BY <1>1, <2>1, <2>2, <2>3, <2>4
<1>6. RemoveAt(s, i) = r
  BY DEF RemoveAt, r, x, y, n
<1> QED
  BY <1>4, <1>5, <1>6

LEMMA MoreMembers ==
    ASSUME NEW s \in Seq(Browser), NEW b \in Browser
    PROVE  /\ Append(s, b) \in Seq(Browser)
           /\ \A c \in Browser : c = b \/ Contains(s, c) => Contains(Append(s, b), c)
<1> DEFINE t == Append(s, b)
<1>1. /\ t \in Seq(Browser) /\ Len(s) \in Nat /\ Len(t) = Len(s) + 1 /\ t[Len(s) + 1] = b
      /\ \A j \in 1 .. Len(s) : t[j] = s[j]
  BY AppendProperties, LenProperties
<1> HIDE DEF t
<1>2. ASSUME NEW c \in Browser, c = b \/ Contains(s, c) PROVE Contains(t, c)
  <2>1. CASE c = b
    BY <1>1, <2>1 DEF Contains
  <2>2. CASE c # b
    <3>1. PICK j \in 1 .. Len(s) : s[j] = c
      BY <1>2, <2>2 DEF Contains
    <3>2. j \in 1 .. Len(t) /\ t[j] = c
      BY <1>1, <3>1
    <3> QED
      BY <3>2 DEF Contains
  <2> QED
    BY <2>1, <2>2
<1> QED
  BY <1>1, <1>2 DEF t

(* What is left when a member goes. *)
LEMMA Removal ==
    ASSUME PageInv, NEW b \in Browser, RemoveMember(b)
    PROVE  /\ members' \in Seq(Browser) /\ allowed' \in BOOLEAN
           /\ spoken' = Append(spoken, Message("system"))
           /\ \A c \in Browser : c # b /\ link[c] = "on" => Member(c)' /\ allowed' = allowed
<1>1. members \in Seq(Browser) /\ allowed \in BOOLEAN
  BY DEF PageInv, ChatTypes
<1>2. PICK i \in DOMAIN members : members[i] = b /\ members' = RemoveAt(members, i)
  BY DEF RemoveMember
<1>3. spoken' = Append(spoken, Message("system")) /\ allowed' = (members = <<b>> \/ allowed)
  BY DEF RemoveMember
<1>4. allowed' \in BOOLEAN
  BY <1>3
<1>5. /\ members' \in Seq(Browser)
      /\ \A c \in Browser : c # b /\ Member(c) => Contains(members', c)
  BY <1>1, <1>2, StillMember DEF Member
<1>6. ASSUME NEW c \in Browser, c # b, link[c] = "on"
      PROVE  Member(c)' /\ allowed' = allowed
  <2>1. Member(c)
    BY <1>6 DEF PageInv, PageOf
  <2>2. Member(c)'
    BY <1>5, <1>6, <2>1 DEF Member
  <2>3. members # <<b>>
    BY <1>6, <2>1 DEF Member, Contains
  <2>4. allowed' = allowed
    BY <1>1, <1>3, <2>3
  <2> QED
    BY <2>2, <2>4
<1> QED
  BY <1>3, <1>4, <1>5, <1>6

LEMMA AdmitStep ==
    ASSUME PageInv, ChatInv', NEW b \in Browser, Admit(b), UNCHANGED page
    PROVE  PageInv'
<1> DEFINE m    == Message("system")
           told == Tell(Audience(b), Said(m))
           w    == <<Welcome(history')>>
<1>1. ChatTypes /\ Numbered(spoken) /\ Len(spoken) \in Nat
  BY LenProperties DEF PageInv, Numbered
<1>2. /\ link' = [link EXCEPT ![b] = "on"] /\ since' = [since EXCEPT ![b] = Len(spoken')]
      /\ allowed' = allowed /\ opened' = opened /\ page' = page
  BY DEF Admit
<1>3. /\ Said(m) \in Events /\ Numbered(Append(spoken, m)) /\ Grows(spoken, Append(spoken, m))
  BY NextMessage
<1>4. /\ told \in [Browser -> Seq(Events)]
      /\ \A c \in Browser : told[c] = IF link[c] = "on" THEN Append(inbox[c], Said(m)) ELSE inbox[c]
  BY <1>1, <1>3, ToldInbox, AudienceIsConnected
<1>5. \/ /\ Member(b) /\ members' = members /\ spoken' = spoken
         /\ inbox' = [inbox EXCEPT ![b] = w]
      \/ /\ members' = Append(members, b) /\ spoken' = Append(spoken, m)
         /\ inbox' = [told EXCEPT ![b] = w]
  <2>1. CASE Member(b)
    <3>1. history' = history /\ members' = members /\ spoken' = spoken
      BY <2>1 DEF Admit
    <3>2. inbox' = [inbox EXCEPT ![b] = <<Welcome(history)>>]
      BY <2>1 DEF Admit
    <3>3. Welcome(history) = Welcome(history')
      BY <3>1
    <3> QED
      BY <2>1, <3>1, <3>2, <3>3
  <2>2. CASE ~Member(b)
    <3>1. members' = Append(members, b) /\ Add(m)
      BY <2>2 DEF Admit
    <3>2. inbox' = [told EXCEPT ![b] = w]
      BY <2>2 DEF Admit
    <3> QED
      BY <3>1, <3>2 DEF Add
  <2> QED
    BY <2>1, <2>2
<1> HIDE DEF told, w, m
<1>6. Numbered(spoken') /\ Grows(spoken, spoken') /\ Len(spoken') \in Nat
  BY <1>1, <1>3, <1>5, LenProperties DEF Grows, Numbered
<1>7. /\ members' \in Seq(Browser)
      /\ \A c \in Browser : c = b \/ Member(c) => Member(c)'
  BY <1>1, <1>5, MoreMembers DEF ChatTypes, Member
<1>8. /\ link' \in [Browser -> Links] /\ link'[b] = "on"
      /\ \A c \in Browser : c # b => link'[c] = link[c]
  <2>1. link \in [Browser -> Links] /\ "on" \in Links
    BY <1>1 DEF ChatTypes, Links
  <2> QED
    BY <1>2, <2>1, Updated
<1>9. /\ since' \in [Browser -> Nat] /\ since'[b] = Len(spoken')
      /\ \A c \in Browser : c # b => since'[c] = since[c]
  BY <1>1, <1>2, <1>6, Updated DEF ChatTypes
<1>10. /\ inbox \in [Browser -> Seq(Events)]
  BY <1>1 DEF ChatTypes
<1>11. inbox'[b] = w
  BY <1>4, <1>5, <1>10
<1>12. PageOf(b)' /\ Welcome(history') \in Events
  BY <1>2, <1>6, <1>7, <1>8, <1>9, <1>11, PageAdmitted DEF w
<1>13. w \in Seq(Events)
  BY <1>12 DEF w
<1>14. inbox' \in [Browser -> Seq(Events)]
  <2>1. [inbox EXCEPT ![b] = w] \in [Browser -> Seq(Events)]
    BY <1>10, <1>13, Updated
  <2>2. [told EXCEPT ![b] = w] \in [Browser -> Seq(Events)]
    BY <1>4, <1>13, Updated
  <2> QED
    BY <1>5, <2>1, <2>2
<1>15. ChatTypes'
  BY <1>1, <1>2, <1>7, <1>8, <1>9, <1>14 DEF ChatTypes
<1>16. ASSUME NEW c \in Browser, c # b PROVE PageOf(c)'
  <2>1. /\ link'[c] = link[c] /\ since'[c] = since[c] /\ page'[c] = page[c]
    BY <1>2, <1>8, <1>9, <1>16
  <2>2. link[c] = "on" => Member(c)' /\ allowed' = allowed
    BY <1>2, <1>7 DEF PageInv, PageOf
  <2>3. CASE spoken' = spoken /\ inbox' = [inbox EXCEPT ![b] = w]
    <3>1. inbox'[c] = inbox[c]
      BY <1>10, <1>16, <2>3
    <3> QED
      BY <2>1, <2>2, <2>3, <3>1, PageKept
  <2>4. CASE spoken' = Append(spoken, m) /\ inbox' = [told EXCEPT ![b] = w]
    <3>1. inbox'[c] = IF link[c] = "on" THEN Append(inbox[c], Said(m)) ELSE inbox[c]
      BY <1>4, <1>16, <2>4
    <3> QED
      BY <2>1, <2>2, <2>4, <3>1, PageHears DEF m
  <2> QED
    BY <1>5, <2>3, <2>4
<1> QED
  BY <1>6, <1>12, <1>15, <1>16 DEF PageInv

LEMMA LeaveStep ==
    ASSUME PageInv, ChatInv', NEW b \in Browser, Leave(b)
    PROVE  PageInv'
<1> DEFINE m    == Message("system")
           told == Tell(Audience(b), Said(m))
<1>1. ChatTypes
  BY DEF PageInv
<1>2. /\ members' \in Seq(Browser) /\ allowed' \in BOOLEAN
      /\ spoken' = Append(spoken, m)
      /\ \A c \in Browser : c # b /\ link[c] = "on" => Member(c)' /\ allowed' = allowed
  BY Removal DEF Leave
<1>3. /\ Said(m) \in Events /\ Numbered(Append(spoken, m))
  BY NextMessage
<1>4. /\ told \in [Browser -> Seq(Events)]
      /\ \A c \in Browser : told[c] = IF link[c] = "on" THEN Append(inbox[c], Said(m)) ELSE inbox[c]
  BY <1>1, <1>3, ToldInbox, AudienceIsConnected
<1>5. /\ inbox' = [told EXCEPT ![b] = <<>>] /\ link' = [link EXCEPT ![b] = "off"]
      /\ page' = [page EXCEPT ![b] = NewPage] /\ since' = since
  BY DEF Leave, ClosePage
<1> HIDE DEF told, m
<1>6. /\ inbox' \in [Browser -> Seq(Events)] /\ inbox'[b] = <<>>
      /\ \A c \in Browser : c # b => inbox'[c] = told[c]
  <2>1. <<>> \in Seq(Events)
    OBVIOUS
  <2> QED
    BY <1>4, <1>5, <2>1, Updated
<1>7. /\ link' \in [Browser -> Links] /\ link'[b] = "off"
      /\ \A c \in Browser : c # b => link'[c] = link[c]
  <2>1. link \in [Browser -> Links] /\ "off" \in Links
    BY <1>1 DEF ChatTypes, Links
  <2> QED
    BY <1>5, <2>1, Updated
<1>8. /\ page' \in [Browser -> Pages] /\ page'[b] = NewPage
      /\ \A c \in Browser : c # b => page'[c] = page[c]
  <2>1. page \in [Browser -> Pages] /\ NewPage \in Pages
    BY <1>1, NewPageIsGood DEF ChatTypes
  <2> QED
    BY <1>5, <2>1, Updated
<1>9. ChatTypes'
  BY <1>1, <1>2, <1>5, <1>6, <1>7, <1>8 DEF ChatTypes
<1>10. PageOf(b)'
  BY <1>2, <1>5, <1>6, <1>7, <1>8, PageApart DEF m
<1>11. ASSUME NEW c \in Browser, c # b PROVE PageOf(c)'
  <2>1. link'[c] = link[c] /\ page'[c] = page[c] /\ since'[c] = since[c]
    BY <1>5, <1>7, <1>8, <1>11
  <2>2. inbox'[c] = IF link[c] = "on" THEN Append(inbox[c], Said(m)) ELSE inbox[c]
    BY <1>4, <1>6, <1>11
  <2> QED
    BY <1>2, <1>11, <2>1, <2>2, PageHears DEF m
<1> QED
  BY <1>2, <1>3, <1>9, <1>10, <1>11 DEF PageInv

LEMMA RemovalTimeoutStep ==
    ASSUME PageInv, ChatInv', NEW b \in Browser, RemovalTimeout(b)
    PROVE  PageInv'
<1> DEFINE m == Message("system")
<1>1. ChatTypes
  BY DEF PageInv
<1>2. /\ members' \in Seq(Browser) /\ allowed' \in BOOLEAN
      /\ spoken' = Append(spoken, m)
      /\ \A c \in Browser : c # b /\ link[c] = "on" => Member(c)' /\ allowed' = allowed
  BY Removal DEF RemovalTimeout
<1>3. /\ Said(m) \in Events /\ Numbered(Append(spoken, m))
  BY NextMessage
<1>4. link[b] # "on" /\ link' = link /\ page' = page /\ since' = since
  BY DEF RemovalTimeout
<1>5. inbox' = Tell(Audience(b), Said(m))
  BY DEF RemovalTimeout
<1>6. /\ inbox' \in [Browser -> Seq(Events)]
      /\ \A c \in Browser : inbox'[c] = IF link[c] = "on" THEN Append(inbox[c], Said(m)) ELSE inbox[c]
  BY <1>1, <1>3, <1>5, ToldInbox, AudienceIsConnected
<1> HIDE DEF m
<1>7. ChatTypes'
  BY <1>1, <1>2, <1>4, <1>6 DEF ChatTypes
<1>8. ASSUME NEW c \in Browser PROVE PageOf(c)'
  <2>1. link[c] = "on" => Member(c)' /\ allowed' = allowed
    BY <1>2, <1>4
  <2>2. link'[c] = link[c] /\ page'[c] = page[c] /\ since'[c] = since[c]
    BY <1>4
  <2> QED
    BY <1>2, <1>6, <2>1, <2>2, PageHears DEF m
<1> QED
  BY <1>2, <1>3, <1>7, <1>8 DEF PageInv

(* Reload and LoseConnection. *)
LEMMA ApartStep ==
    ASSUME PageInv, ChatInv', NEW b \in Browser, Reload(b) \/ LoseConnection(b)
    PROVE  PageInv'
<1>1. ChatTypes /\ NewPage \in Pages
  BY NewPageIsGood DEF PageInv
<1>2. PICK l \in {"off", "lost"} : link' = [link EXCEPT ![b] = l]
  BY DEF Reload, LoseConnection, ClosePage
<1>3. PICK p \in {page[b], NewPage} : page' = [page EXCEPT ![b] = p]
  <2>1. CASE Reload(b)
    BY <2>1 DEF Reload, ClosePage
  <2>2. CASE LoseConnection(b)
    <3>1. page' = page /\ page = [page EXCEPT ![b] = page[b]]
      BY <1>1, <2>2 DEF LoseConnection, ChatTypes
    <3> QED
      BY <3>1
  <2> QED
    BY <2>1, <2>2
<1>4. /\ inbox' = [inbox EXCEPT ![b] = <<>>]
      /\ UNCHANGED <<members, allowed, spoken, since>>
  BY DEF Reload, LoseConnection
<1>5. /\ inbox' \in [Browser -> Seq(Events)] /\ inbox'[b] = <<>>
      /\ \A c \in Browser : c # b => inbox'[c] = inbox[c]
  <2>1. <<>> \in Seq(Events) /\ inbox \in [Browser -> Seq(Events)]
    BY <1>1 DEF ChatTypes
  <2> QED
    BY <1>4, <2>1, Updated
<1>6. /\ link' \in [Browser -> Links] /\ link'[b] # "on"
      /\ \A c \in Browser : c # b => link'[c] = link[c]
  <2>1. link \in [Browser -> Links] /\ l \in Links /\ l # "on"
    BY <1>1 DEF ChatTypes, Links
  <2>2. [link EXCEPT ![b] = l][b] = l
    BY <2>1, Updated
  <2> QED
    BY <1>2, <2>1, <2>2, Updated
<1>7. /\ page' \in [Browser -> Pages] /\ page'[b] = p
      /\ \A c \in Browser : c # b => page'[c] = page[c]
  <2>1. page \in [Browser -> Pages] /\ p \in Pages
    BY <1>1 DEF ChatTypes
  <2> QED
    BY <1>3, <2>1, Updated
<1>8. ChatTypes'
  BY <1>1, <1>4, <1>5, <1>6, <1>7 DEF ChatTypes
<1>9. PageOf(b)'
  BY <1>4, <1>5, <1>6, <1>7, PageApart
<1>10. ASSUME NEW c \in Browser, c # b PROVE PageOf(c)'
  <2>1. link'[c] = link[c] /\ page'[c] = page[c] /\ since'[c] = since[c] /\ inbox'[c] = inbox[c]
    BY <1>4, <1>5, <1>6, <1>7, <1>10
  <2>2. link[c] = "on" => Member(c)' /\ allowed' = allowed
    BY <1>4 DEF PageInv, PageOf, Member
  <2> QED
    BY <1>4, <2>1, <2>2, PageKept
<1> QED
  BY <1>4, <1>8, <1>9, <1>10 DEF PageInv

(* Nothing but what is typed changes. *)
LEMMA QuietStep ==
    ASSUME PageInv, ChatInv',
           UNCHANGED <<members, allowed, link, page, inbox, since, spoken>>
    PROVE  PageInv'
<1>1. ChatTypes'
  BY DEF PageInv, ChatTypes
<1>2. ASSUME NEW c \in Browser PROVE PageOf(c)'
  <2>1. link[c] = "on" => Member(c)'
    BY DEF PageInv, PageOf, Member
  <2> QED
    BY <2>1, PageKept
<1> QED
  BY <1>1, <1>2 DEF PageInv

LEMMA ChatSendStep ==
    ASSUME PageInv, ChatInv', NEW b \in Browser, ChatSend(b)
    PROVE  PageInv'
<1> DEFINE m == Message("user")
<1>1. UNCHANGED <<members, allowed, link, page, since>>
  BY DEF ChatSend
<1>2. CASE UNCHANGED <<spoken, inbox>>
  BY <1>1, <1>2, QuietStep
<1>3. CASE MaySpeak(b) /\ Add(m) /\ inbox' = Tell(Audience(b), Said(m))
  <2>1. allowed /\ spoken' = Append(spoken, m) /\ ChatTypes
    BY <1>3 DEF MaySpeak, Add, PageInv
  <2>2. /\ Said(m) \in Events /\ Numbered(Append(spoken, m))
    BY NextMessage
  <2>3. /\ inbox' \in [Browser -> Seq(Events)]
        /\ \A c \in Browser : inbox'[c] = IF link[c] = "on" THEN Append(inbox[c], Said(m)) ELSE inbox[c]
    BY <1>3, <2>1, <2>2, ToldInbox, AudienceIsConnected
  <2> HIDE DEF m
  <2>4. ChatTypes'
    BY <1>1, <2>1, <2>3 DEF ChatTypes
  <2>5. ASSUME NEW c \in Browser PROVE PageOf(c)'
    <3>1. link[c] = "on" => Member(c)' /\ allowed' = allowed
      BY <1>1 DEF PageInv, PageOf, Member
    <3>2. link'[c] = link[c] /\ page'[c] = page[c] /\ since'[c] = since[c]
      BY <1>1
    <3> QED
      BY <2>1, <2>3, <3>1, <3>2, PageHears DEF m
  <2> QED
    BY <2>1, <2>2, <2>4, <2>5 DEF PageInv
<1> QED
  BY <1>2, <1>3 DEF ChatSend

LEMMA SetPolicyStep ==
    ASSUME PageInv, ChatInv', NEW on \in BOOLEAN, SetPolicy(on)
    PROVE  PageInv'
<1> DEFINE m == Message("notice")
           e == Policy(on)
<1>1. UNCHANGED <<members, link, page, since>> /\ allowed' = on /\ ChatTypes /\ Numbered(spoken)
  BY DEF SetPolicy, PageInv
<1>2. inbox' = Tell(Audience(Owner), e)
  BY DEF SetPolicy
<1>3. spoken' = spoken \/ spoken' = Append(spoken, m)
  BY DEF SetPolicy, Add
<1>4. /\ m \in Messages /\ m.id = Len(spoken) + 1 /\ m.kind = "notice"
      /\ Numbered(Append(spoken, m)) /\ Grows(spoken, Append(spoken, m))
      /\ Len(spoken) \in Nat /\ Len(Append(spoken, m)) = Len(spoken) + 1
  BY NextMessage
<1>5. e \in Events
  BY DEF Policy, Events
<1> HIDE DEF e, m
<1>6. /\ inbox' \in [Browser -> Seq(Events)]
      /\ \A c \in Browser : inbox'[c] = IF link[c] = "on" THEN Append(inbox[c], e) ELSE inbox[c]
  BY <1>1, <1>2, <1>5, ToldInbox, AudienceIsConnected
<1>7. ChatTypes'
  BY <1>1, <1>6 DEF ChatTypes
<1>8. ASSUME NEW c \in Browser PROVE PageOf(c)'
  <2>1. PageOf(c) /\ inbox[c] \in Seq(Events)
    BY <1>1 DEF PageInv, ChatTypes
  <2>2. link'[c] = link[c] /\ page'[c] = page[c] /\ since'[c] = since[c]
    BY <1>1
  <2>3. link[c] = "on" => Member(c)'
    BY <1>1, <2>1 DEF PageOf, Member
  <2>4. since[c] \in 0 .. Len(spoken')
    BY <1>3, <1>4, <2>1 DEF PageOf
  <2>5. CASE link[c] = "on"
    <3>1. Shows(page[c], inbox[c], spoken, since[c], allowed, "on") /\ since[c] \in 0 .. Len(spoken)
      BY <2>1, <2>5 DEF PageOf
    <3>2. /\ Shows(page[c], Append(inbox[c], e), spoken, since[c], on, "on")
          /\ Shows(page[c], Append(inbox[c], e), Append(spoken, m), since[c], on, "on")
      BY <1>1, <1>4, <2>1, <3>1, HearsPolicy DEF e
    <3>3. Shows(page[c], Append(inbox[c], e), spoken', since[c], on, "on")
      BY <1>3, <3>2
    <3>4. inbox'[c] = Append(inbox[c], e)
      BY <1>6, <2>5
    <3> QED
      BY <1>1, <2>2, <2>3, <2>4, <2>5, <3>3, <3>4 DEF PageOf
  <2>6. CASE link[c] # "on"
    <3>1. inbox'[c] = <<>> /\ inbox[c] = <<>>
      BY <1>6, <2>1, <2>6 DEF PageOf
    <3>2. Good(page[c], spoken)
      BY <2>1, ShowsGood DEF PageOf
    <3>3. Good(page[c], spoken')
      BY <1>3, <1>4, <3>2 DEF Grows
    <3>4. Shows(page[c], <<>>, spoken', since[c], allowed', link[c])
      BY <2>6, <3>3, ShowsUnconnected
    <3> QED
      BY <2>2, <2>4, <2>6, <3>1, <3>4 DEF PageOf
  <2> QED
    BY <2>5, <2>6
<1>9. Numbered(spoken')
  BY <1>1, <1>3, <1>4
<1> QED
  BY <1>7, <1>8, <1>9 DEF PageInv

LEMMA ReceiveStep ==
    ASSUME PageInv, ChatInv', NEW b \in Browser, Receive(b)
    PROVE  PageInv'
<1> DEFINE q == inbox[b]
           f == Fold(page[b], Head(q))
<1>1. /\ ChatTypes /\ PageOf(b) /\ Numbered(spoken) /\ q \in Seq(Events) /\ q # <<>>
      /\ page[b] \in Pages /\ page \in [Browser -> Pages] /\ inbox \in [Browser -> Seq(Events)]
  BY DEF PageInv, ChatTypes, Receive
<1>2. /\ UNCHANGED <<members, allowed, link, since, spoken>>
      /\ page' = [page EXCEPT ![b] = f] /\ inbox' = [inbox EXCEPT ![b] = Tail(q)]
  BY DEF Receive
<1>3. Head(q) \in Events /\ Tail(q) \in Seq(Events)
  BY <1>1, HeadTailProperties
<1>4. f \in Pages
  BY <1>1, <1>3, FoldEffect
<1>5. Shows(f, Tail(q), spoken, since[b], allowed, link[b])
  BY <1>1, Arrives DEF PageOf
<1>6. link[b] # "on" => Tail(q) = <<>>
  BY <1>1 DEF PageOf
<1> HIDE DEF f, q
<1>7. /\ page' \in [Browser -> Pages] /\ page'[b] = f
      /\ \A c \in Browser : c # b => page'[c] = page[c]
  BY <1>1, <1>2, <1>4, Updated
<1>8. /\ inbox' \in [Browser -> Seq(Events)] /\ inbox'[b] = Tail(q)
      /\ \A c \in Browser : c # b => inbox'[c] = inbox[c]
  BY <1>1, <1>2, <1>3, Updated
<1>9. ChatTypes'
  BY <1>1, <1>2, <1>7, <1>8 DEF ChatTypes
<1>10. \A c \in Browser : link[c] = "on" => Member(c)' /\ allowed' = allowed
  BY <1>2 DEF PageInv, PageOf, Member
<1>11. PageOf(b)'
  BY <1>1, <1>2, <1>5, <1>6, <1>7, <1>8, <1>10 DEF PageOf
<1>12. ASSUME NEW c \in Browser, c # b PROVE PageOf(c)'
  <2>1. link'[c] = link[c] /\ page'[c] = page[c] /\ since'[c] = since[c] /\ inbox'[c] = inbox[c]
    BY <1>2, <1>7, <1>8, <1>12
  <2> QED
    BY <1>2, <1>10, <2>1, PageKept
<1> QED
  BY <1>1, <1>2, <1>9, <1>11, <1>12 DEF PageInv

LEMMA PageInit == Init => PageInv
<1> SUFFICES ASSUME Init PROVE PageInv
  OBVIOUS
<1>1. <<>> \in Seq(Messages) /\ <<>> \in Seq(Browser) /\ <<>> \in Seq(Events) /\ Len(<<>>) = 0
  OBVIOUS
<1>2. NewPage \in Pages /\ Good(NewPage, <<>>)
  BY NewPageIsGood
<1>3. Numbered(spoken) /\ Len(spoken) = 0
  BY <1>1 DEF Init, Numbered
<1>4. ChatTypes
  <2>1. link \in [Browser -> Links]
    BY DEF Init, Links
  <2>2. page \in [Browser -> Pages]
    BY <1>2 DEF Init
  <2>3. inbox \in [Browser -> Seq(Events)]
    BY <1>1 DEF Init
  <2>4. members \in Seq(Browser) /\ allowed \in BOOLEAN /\ since \in [Browser -> Nat]
    BY <1>1 DEF Init
  <2> QED
    BY <2>1, <2>2, <2>3, <2>4 DEF ChatTypes
<1>5. ASSUME NEW b \in Browser PROVE PageOf(b)
  <2>1. link[b] = "off" /\ inbox[b] = <<>> /\ page[b] = NewPage /\ since[b] = 0 /\ spoken = <<>>
    BY DEF Init
  <2>2. Shows(page[b], <<>>, spoken, since[b], allowed, link[b])
    BY <1>2, <2>1, ShowsUnconnected
  <2> QED
    BY <1>3, <2>1, <2>2 DEF PageOf
<1> QED
  BY <1>3, <1>4, <1>5, ChatInit DEF PageInv

LEMMA PageNext == PageInv /\ [Next]_vars => PageInv'
<1> SUFFICES ASSUME PageInv, [Next]_vars PROVE PageInv'
  OBVIOUS
<1>1. ChatInv'
  BY ChatNext DEF PageInv
<1>2. ASSUME NEW b \in Browser, Join(b) \/ Rejoin(b) PROVE PageInv'
  <2>1. Admit(b) /\ UNCHANGED page
    BY <1>2 DEF Join, Rejoin
  <2> QED
    BY <1>1, <2>1, AdmitStep
<1>3. ASSUME NEW b \in Browser, Leave(b) PROVE PageInv'
  BY <1>1, <1>3, LeaveStep
<1>4. ASSUME NEW b \in Browser, RemovalTimeout(b) PROVE PageInv'
  BY <1>1, <1>4, RemovalTimeoutStep
<1>5. ASSUME NEW b \in Browser, Reload(b) \/ LoseConnection(b) PROVE PageInv'
  BY <1>1, <1>5, ApartStep
<1>6. ASSUME NEW b \in Browser, Type(b) PROVE PageInv'
  BY <1>1, <1>6, QuietStep DEF Type
<1>7. ASSUME NEW b \in Browser, ChatSend(b) PROVE PageInv'
  BY <1>1, <1>7, ChatSendStep
<1>8. ASSUME NEW b \in Browser, Receive(b) PROVE PageInv'
  BY <1>1, <1>8, ReceiveStep
<1>9. ASSUME NEW on \in BOOLEAN, SetPolicy(on) PROVE PageInv'
  BY <1>1, <1>9, SetPolicyStep
<1>10. CASE UNCHANGED vars
  BY <1>1, <1>10, QuietStep DEF vars
<1> QED
  BY <1>2, <1>3, <1>4, <1>5, <1>6, <1>7, <1>8, <1>9, <1>10 DEF Next
-----------------------------------------------------------------------------
(***************************************************************************)
(* What follows of a page from what it shows.                              *)
(***************************************************************************)
LEMMA PageInOrder == PageInv => NothingTwice
<1> SUFFICES ASSUME PageInv, NEW b \in Browser, NEW i \in 1 .. Len(page[b].chat) - 1
             PROVE  page[b].chat[i].id < page[b].chat[i + 1].id
  BY DEF NothingTwice
<1>1. Good(page[b], spoken) /\ page[b].chat \in Seq(Messages)
  BY ShowsGood DEF PageInv, ChatTypes, PageOf, Pages
<1>2. i \in 1 .. Len(page[b].chat) /\ i + 1 \in 1 .. Len(page[b].chat) /\ i < i + 1
  BY <1>1, LenProperties
<1> QED
  BY <1>1, <1>2 DEF Good

LEMMA PageIsComplete == PageInv => ConnectedPagesMissNothing
<1> SUFFICES ASSUME PageInv, NEW b \in Browser, link[b] = "on", inbox[b] = <<>>
             PROVE  {m \in ToSet(page[b].chat) : m.id > since[b]}
                       = {spoken[n] : n \in {k \in since[b] + 1 .. Len(spoken) : spoken[k].kind # "notice"}}
  BY DEF ConnectedPagesMissNothing
<1> DEFINE p == page[b]
           from == since[b]
           shown == {m \in ToSet(p.chat) : m.id > from}
           heard == {spoken[n] : n \in {k \in from + 1 .. Len(spoken) : spoken[k].kind # "notice"}}
<1>1. PICK ps : Replays(ps, p, <<>>, spoken) /\ Complete(ps[0], spoken, from, allowed)
  <2>1. Shows(p, <<>>, spoken, from, allowed, "on") /\ Len(<<>>) = 0
    BY DEF PageInv, PageOf
  <2> QED
    BY <2>1 DEF Shows
<1>2. Good(p, spoken) /\ Complete(p, spoken, from, allowed)
  <2>1. ps[0] = p /\ 0 \in 0 .. Len(<<>>)
    BY <1>1 DEF Replays
  <2> QED
    BY <1>1, <2>1 DEF Replays
<1>3. from \in Nat /\ Len(spoken) \in Nat /\ p.chat \in Seq(Messages)
  BY LenProperties DEF PageInv, ChatTypes, Numbered, Pages
<1>4. \A k \in 1 .. Len(spoken) : spoken[k].id = k
  BY DEF PageInv, Numbered
<1>5. ToSet(p.chat) = {p.chat[i] : i \in 1 .. Len(p.chat)}
  BY <1>3 DEF ToSet
<1>6. /\ \A i \in 1 .. Len(p.chat) : p.chat[i].id \in 1 .. Len(spoken)
      /\ \A i \in 1 .. Len(p.chat) : p.chat[i] = spoken[p.chat[i].id]
  BY <1>2 DEF Good
<1>7. \A k \in from + 1 .. Len(spoken) :
         spoken[k].kind # "notice" <=> \E i \in 1 .. Len(p.chat) : p.chat[i] = spoken[k]
  BY <1>2 DEF Complete
<1> HIDE DEF p, from
<1>8. ASSUME NEW m \in shown PROVE m \in heard
  <2>1. PICK i \in 1 .. Len(p.chat) : m = p.chat[i]
    BY <1>5, <1>8
  <2>2. m.id \in from + 1 .. Len(spoken) /\ m = spoken[m.id]
    BY <1>3, <1>6, <1>8, <2>1
  <2>3. spoken[m.id].kind # "notice"
    BY <1>7, <2>1, <2>2
  <2> QED
    BY <2>2, <2>3
<1>9. ASSUME NEW m \in heard PROVE m \in shown
  <2>1. PICK n \in from + 1 .. Len(spoken) : spoken[n].kind # "notice" /\ m = spoken[n]
    BY <1>9
  <2>2. PICK i \in 1 .. Len(p.chat) : p.chat[i] = spoken[n]
    BY <1>7, <2>1
  <2>3. m \in ToSet(p.chat)
    BY <1>5, <2>1, <2>2
  <2>4. m.id = n /\ n > from
    BY <1>3, <1>4, <2>1
  <2> QED
    BY <2>3, <2>4
<1>10. shown = heard
  BY <1>8, <1>9
<1> QED
  BY <1>10 DEF p, from

LEMMA PageIsSilent == PageInv => SilentWhileMuted
<1> SUFFICES ASSUME PageInv, NEW b \in Browser, inbox[b] # <<>>,
                    Head(inbox[b]).type = "message", Head(inbox[b]).message.kind = "user"
             PROVE  page[b].allowed
  BY DEF SilentWhileMuted
<1>1. inbox[b] \in Seq(Events) /\ Shows(page[b], inbox[b], spoken, since[b], allowed, link[b])
  BY DEF PageInv, ChatTypes, PageOf
<1>2. PICK ps : Replays(ps, page[b], inbox[b], spoken)
  BY <1>1 DEF Shows
<1>3. 1 \in 1 .. Len(inbox[b]) /\ Head(inbox[b]) = inbox[b][1] /\ 1 - 1 = 0
  BY <1>1
<1>4. ps[1 - 1].allowed
  BY <1>2, <1>3 DEF Replays
<1> QED
  BY <1>2, <1>3, <1>4 DEF Replays

(* A page shows each message once, and in the order of the room.           *)
THEOREM EachMessageOnce == Spec => []NothingTwice
BY PageInit, PageNext, PageInOrder, PTL DEF Spec

(* A connected page gets every message of the room since it joined, but    *)
(* the notice that the chat was turned off.                                *)
THEOREM PagesMissNothing == Spec => []ConnectedPagesMissNothing
BY PageInit, PageNext, PageIsComplete, PTL DEF Spec

(* A page that knows that the chat is off gets no message of a user before *)
(* it is told that the chat is on.                                         *)
THEOREM MutedIsSilent == Spec => []SilentWhileMuted
BY PageInit, PageNext, PageIsSilent, PTL DEF Spec
=============================================================================
