------------------------------- MODULE RoomChat -------------------------------
(***************************************************************************)
(* The chat of one room: chat:send and the messages of the room itself     *)
(* (socket/chat-handlers.ts, services/room-orchestration.ts), the bounded  *)
(* history of storage/in-memory.ts, and what a page of a browser shows of  *)
(* it (hooks/use-call-room.ts, features/call/call-state.ts).               *)
(*                                                                         *)
(* A message is its number in the order the room took them, with its kind. *)
(* Who may join, and on which socket, is RoomLifecycle's; stores are in    *)
(* memory, so no packet of another socket is handled inside a handler.     *)
(***************************************************************************)
EXTENDS Naturals, SequencesExt

CONSTANTS
    Browser,
    MaxItems,      \* CHAT_HISTORY_LIMIT: 0 keeps every message
    MaxMessages,   \* bound: messages of a behaviour
    MaxInbox,      \* bound: events on their way to a page
    MaxTyped       \* bound: chat:send events on their way from a page

ASSUME LimitsAssumption ==
    {MaxItems, MaxMessages, MaxInbox, MaxTyped} \subseteq Nat

VARIABLES
    members,   \* server: browsers in the room, in the order they joined
    history,   \* server: the list store of the room
    allowed,   \* server: policy.allowChat
    link,      \* the socket of a page: "off" without a page, "on", "lost"
    typed,     \* chat:send events on their way to the server
    inbox,     \* events on their way to the page
    page,      \* what the page shows
    spoken,    \* history: every message the room ever took
    opened,    \* history: how many of them came before the room was made
    since      \* history: how many came before the page's connection

vars == <<members, history, allowed, link, typed, inbox, page, spoken, opened, since>>

NewPage == [hasJoined |-> FALSE, chat |-> <<>>, allowed |-> TRUE]

Init ==
    /\ members = <<>> /\ history = <<>> /\ allowed = TRUE
    /\ link = [b \in Browser |-> "off"]
    /\ typed = [b \in Browser |-> 0] /\ inbox = [b \in Browser |-> <<>>]
    /\ page = [b \in Browser |-> NewPage]
    /\ spoken = <<>> /\ opened = 0 /\ since = [b \in Browser |-> 0]
-----------------------------------------------------------------------------
(* The server                                                              *)

Message(kind) == [id |-> Len(spoken) + 1, kind |-> kind]
Member(b) == Contains(members, b)

(* Without an owner the oldest member becomes it: it always is the oldest. *)
Owner == Head(members)

(* Slip: one more than the limit is kept.                                  *)
TrimOneLate(s) == IF MaxItems > 0 /\ Len(s) > MaxItems + 1 THEN Tail(s) ELSE s

(* append of the list store.                                               *)
Trim(s) == IF MaxItems > 0 /\ Len(s) > MaxItems THEN Tail(s) ELSE s

(* addChatMessage                                                          *)
Add(m) == history' = Trim(Append(history, m)) /\ spoken' = Append(spoken, m)

(* Slip: a message goes to everybody but its author.                       *)
OthersOnline(author) == {b \in Browser : link[b] = "on" /\ Member(b) /\ b # author}

(* emitToRoom: the author is told of its message, too.                     *)
Audience(author) == {b \in Browser : link[b] = "on" /\ Member(b)}

Said(m) == [type |-> "message", message |-> m]
Policy(on) == [type |-> "policy", allowed |-> on]
Welcome(h) == [type |-> "welcome", history |-> h, allowed |-> allowed]

Tell(audience, e) == [b \in Browser |-> IF b \in audience THEN Append(inbox[b], e) ELSE inbox[b]]

Bounded == Len(spoken') <= MaxMessages /\ \A b \in Browser : Len(inbox'[b]) <= MaxInbox
-----------------------------------------------------------------------------
(* Coming and going                                                        *)

(* b's join is acknowledged; the others are told, as of any message.       *)
Admit(b) ==
    /\ IF Member(b)
       THEN UNCHANGED <<members, history, spoken>> /\ inbox' = [inbox EXCEPT ![b] = <<Welcome(history)>>]
       ELSE /\ members' = Append(members, b)
            /\ Add(Message("system"))
            /\ inbox' = [Tell(Audience(b), Said(Message("system")))
                            EXCEPT ![b] = <<Welcome(history')>>]
    /\ link' = [link EXCEPT ![b] = "on"]
    /\ since' = [since EXCEPT ![b] = Len(spoken')]
    /\ UNCHANGED <<allowed, opened>>

(* A page is opened, by a member if it was reloaded.                       *)
Join(b) ==
    /\ link[b] = "off" /\ Admit(b) /\ Bounded
    /\ UNCHANGED <<page, typed>>

(* The socket is back; what was typed meanwhile is sent before the join,   *)
(* and a socket without a session is not listened to.                      *)
Rejoin(b) ==
    /\ link[b] = "lost" /\ Admit(b) /\ Bounded
    /\ typed' = [typed EXCEPT ![b] = 0] /\ UNCHANGED page

(* finalizeParticipantLeave: the room is told, and goes with the last one. *)
RemoveMember(b) ==
    LET last == members = <<b>>
        m == Message("system")
    IN  /\ \E i \in DOMAIN members : members[i] = b /\ members' = RemoveAt(members, i)
        /\ spoken' = Append(spoken, m)
        /\ history' = IF last THEN <<>> ELSE Trim(Append(history, m))
        /\ allowed' = (last \/ allowed)
        /\ opened' = IF last THEN Len(spoken') ELSE opened

ClosePage(b) ==
    /\ link' = [link EXCEPT ![b] = "off"]
    /\ typed' = [typed EXCEPT ![b] = 0]
    /\ page' = [page EXCEPT ![b] = NewPage]

(* leaveRoom and room:leave.                                               *)
Leave(b) ==
    /\ link[b] = "on" /\ Member(b)
    /\ RemoveMember(b) /\ ClosePage(b)
    /\ inbox' = [Tell(Audience(b), Said(Message("system"))) EXCEPT ![b] = <<>>]
    /\ Bounded /\ UNCHANGED since

Reload(b) ==
    /\ link[b] # "off" /\ ClosePage(b)
    /\ inbox' = [inbox EXCEPT ![b] = <<>>]
    /\ UNCHANGED <<members, history, allowed, spoken, opened, since>>

LoseConnection(b) ==
    /\ link[b] = "on"
    /\ link' = [link EXCEPT ![b] = "lost"]
    /\ inbox' = [inbox EXCEPT ![b] = <<>>] /\ typed' = [typed EXCEPT ![b] = 0]
    /\ UNCHANGED <<members, history, allowed, page, spoken, opened, since>>

(* The removal timer of a member that did not come back.                   *)
RemovalTimeout(b) ==
    /\ Member(b) /\ link[b] # "on"
    /\ RemoveMember(b)
    /\ inbox' = Tell(Audience(b), Said(Message("system")))
    /\ Bounded /\ UNCHANGED <<link, typed, page, since>>
-----------------------------------------------------------------------------
(* Talking                                                                 *)

(* sendChatMessage: the page does not look whether the socket is up.       *)
Type(b) ==
    /\ page[b].hasJoined /\ typed[b] < MaxTyped
    /\ typed' = [typed EXCEPT ![b] = @ + 1]
    /\ UNCHANGED <<members, history, allowed, link, inbox, page, spoken, opened, since>>

(* Slip: the owner may talk in a room it has muted.                        *)
MayOwnerSpeak(b) == allowed \/ b = Owner

MaySpeak(b) == allowed

(* chat:send: refused by the gate, by the policy, or broadcast.            *)
ChatSend(b) ==
    /\ link[b] = "on" /\ Member(b) /\ typed[b] > 0
    /\ typed' = [typed EXCEPT ![b] = @ - 1]
    /\ \/ UNCHANGED <<history, spoken, inbox>>
       \/ /\ MaySpeak(b) /\ Add(Message("user"))
          /\ inbox' = Tell(Audience(b), Said(Message("user")))
    /\ Bounded
    /\ UNCHANGED <<members, allowed, link, page, opened, since>>

(* room:policy of the owner.  The notice of a chat that is turned off goes *)
(* with an event that no page listens to: only the history keeps it.       *)
SetPolicy(on) ==
    /\ members # <<>> /\ link[Owner] = "on"
    /\ allowed' = on
    /\ IF allowed /\ ~on THEN Add(Message("notice")) ELSE UNCHANGED <<history, spoken>>
    /\ inbox' = Tell(Audience(Owner), Policy(on))
    /\ Bounded
    /\ UNCHANGED <<members, link, typed, page, opened, since>>

(* Slip: the history is added on every acknowledgement.                    *)
EveryJoin(p) == TRUE

IsFirstJoin(p) == ~p.hasJoined

(* The handlers of the page, and its reducer.                              *)
Fold(p, e) ==
    CASE e.type = "message" -> [p EXCEPT !.chat = Append(@, e.message)]
      [] e.type = "policy"  -> [p EXCEPT !.allowed = e.allowed]
      [] e.type = "welcome" -> [hasJoined |-> TRUE, allowed |-> e.allowed,
             chat |-> IF IsFirstJoin(p) THEN p.chat \o e.history ELSE p.chat]

Receive(b) ==
    /\ inbox[b] # <<>>
    /\ page' = [page EXCEPT ![b] = Fold(@, Head(inbox[b]))]
    /\ inbox' = [inbox EXCEPT ![b] = Tail(@)]
    /\ UNCHANGED <<members, history, allowed, link, typed, spoken, opened, since>>

Next ==
    \/ \E b \in Browser :
          \/ Join(b) \/ Rejoin(b) \/ Leave(b) \/ Reload(b) \/ LoseConnection(b)
          \/ RemovalTimeout(b) \/ Type(b) \/ ChatSend(b) \/ Receive(b)
    \/ \E on \in BOOLEAN : SetPolicy(on)

Spec == Init /\ [][Next]_vars
-----------------------------------------------------------------------------
(* What is on its way to a page may all arrive before anything else        *)
(* happens: what holds of a page whose inbox is empty holds of every page  *)
(* once it has what was sent to it.                                        *)

LastN(s, n) == SubSeq(s, IF Len(s) > n THEN Len(s) - n + 1 ELSE 1, Len(s))

(* The history holds the last messages of the room as it is: none of a     *)
(* room of the same name that was empty in between, and none is skipped.   *)
RecentHistory ==
    LET all == SubSeq(spoken, opened + 1, Len(spoken))
    IN  history = IF MaxItems = 0 THEN all ELSE LastN(all, MaxItems)

(* While it is connected a page gets every message of the room, its own    *)
(* included, except for the notice that the chat was turned off.           *)
ConnectedPagesMissNothing ==
    \A b \in Browser : link[b] = "on" /\ inbox[b] = <<>> =>
        {m \in ToSet(page[b].chat) : m.id > since[b]}
            = {spoken[n] : n \in {k \in since[b] + 1 .. Len(spoken) : spoken[k].kind # "notice"}}

(* However often it reconnects or is reloaded, a page shows each message   *)
(* once, and in the order in which the room took them.                     *)
NothingTwice ==
    \A b \in Browser : \A i \in 1 .. Len(page[b].chat) - 1 :
        page[b].chat[i].id < page[b].chat[i + 1].id

(* A page that has been told that the chat is off gets no message of a     *)
(* user, the owner's included, before it is told that the chat is on.      *)
SilentWhileMuted ==
    \A b \in Browser :
        LET e == Head(inbox[b])
        IN  inbox[b] # <<>> /\ e.type = "message" /\ e.message.kind = "user" => page[b].allowed
=============================================================================
