----------------------------- MODULE ChatLinks -----------------------------
(***************************************************************************)
(* Which Telegram chats get a user's alerts (notifications/                *)
(* telegramService.ts, routes/telegram.ts): a user fetches a code, sends   *)
(* it to the bot from a chat, and the handler of that message links the    *)
(* chat.  The messages reach the handlers through Telegram's webhook, each *)
(* in a request of its own, or through the poller, one after the other;    *)
(* either way a message may come late, come again or get lost.             *)
(***************************************************************************)
EXTENDS Integers, Sequences, FiniteSets

CONSTANTS
    Users, Chats,
    Hooks,                   \* webhook requests that may be handled at once
    MaxLinks,                \* MAX_TELEGRAM_LINKS_PER_USER
    MaxCodes                 \* bound: codes created

ChatLinksAssumption ==
    /\ MaxLinks \in Nat \ {0} /\ MaxCodes \in Nat \ {0}
    /\ IsFiniteSet(Hooks) /\ IsFiniteSet(Chats) /\ "nobody" \notin Users

VARIABLES
    codes,     \* the TelegramLinkCode rows; fresh until used, replaced or expired
    links,     \* the TelegramLink row of each chat; owner Nobody if there is none
    hook,      \* what each request is doing
    overlapped,\* history: handlers ran at the same time
    rejoined   \* history: rows of a user that were switched on again

linkVars == <<codes, links, hook, overlapped, rejoined>>

Nobody == "nobody"
Free == [pc |-> "free", chat |-> Nobody, code |-> 0, row |-> Nobody]
NoLink == [owner |-> Nobody, active |-> FALSE]
Texts == [chat : Chats, code : 0..MaxCodes]     \* code 0: /disconnect

Init ==
    /\ codes = <<>>
    /\ links = [c \in Chats |-> NoLink]
    /\ hook = [h \in Hooks |-> Free]
    /\ overlapped = FALSE /\ rejoined = [u \in Users |-> 0]

ActiveOf(u) == {c \in Chats : links[c].owner = u /\ links[c].active}
Busy == {h \in Hooks : hook[h].pc # "free"}

-----------------------------------------------------------------------------
(* createLinkCode: the unused codes of the user are used up, then a new    *)
(* one is written.                                                         *)
CreateLinkCode(u) ==
    /\ Len(codes) < MaxCodes
    /\ codes' = Append([k \in DOMAIN codes |-> IF codes[k].user = u THEN [codes[k] EXCEPT !.fresh = FALSE]
                                               ELSE codes[k]],
                       [user |-> u, fresh |-> TRUE])
    /\ UNCHANGED <<links, hook, overlapped, rejoined>>

CodeExpires(k) ==
    /\ codes[k].fresh
    /\ codes' = [codes EXCEPT ![k].fresh = FALSE]
    /\ UNCHANGED <<links, hook, overlapped, rejoined>>

(* A message to the bot, /start with a code or /disconnect, reaches its    *)
(* handler ...                                                             *)
Begin(h, t) ==
    /\ hook[h].pc = "free" /\ t.code <= Len(codes)
    /\ hook' = [hook EXCEPT ![h] = [Free EXCEPT !.pc = IF t.code = 0 THEN "off" ELSE "code",
                                                !.chat = t.chat, !.code = t.code]]
    /\ overlapped' = (overlapped \/ Busy # {})
    /\ UNCHANGED <<codes, links, rejoined>>

(* ... through the poller, which posts one update, awaits the answer and   *)
(* moves its offset on, be it lost or not; a restarted poller starts over. *)
Dispatch(h, t) == Busy = {} /\ Begin(h, t)

-----------------------------------------------------------------------------
Goto(h, pc) == hook' = [hook EXCEPT ![h].pc = pc]
Done(h) == hook' = [hook EXCEPT ![h] = Free]

(* consumeLinkCode: the code is looked up ...                              *)
LookUpCode(h) ==
    /\ hook[h].pc = "code"
    /\ LET k == codes[hook[h].code]
       IN  IF k.fresh THEN Goto(h, "chat") ELSE Done(h)
    /\ UNCHANGED <<codes, links, overlapped, rejoined>>

(* ... then the chat's row, whose owner may be another user, ...           *)
LookUpChat(h) ==
    /\ hook[h].pc = "chat"
    /\ LET owner == links[hook[h].chat].owner
       IN  IF owner \notin {Nobody, codes[hook[h].code].user}
           THEN Done(h)
           ELSE hook' = [hook EXCEPT ![h].pc = "count", ![h].row = owner]
    /\ UNCHANGED <<codes, links, overlapped, rejoined>>

(* ... then the user's active links, which only a new row adds to, ...     *)
CountLinks(h) ==
    /\ hook[h].pc = "count"
    /\ IF hook[h].row = Nobody /\ Cardinality(ActiveOf(codes[hook[h].code].user)) >= MaxLinks
       THEN Done(h) ELSE Goto(h, "write")
    /\ UNCHANGED <<codes, links, overlapped, rejoined>>

(* ... and one transaction uses up the code and writes the row; chatId is  *)
(* unique, so creating a second row for a chat undoes both.                *)
WriteLink(h) ==
    LET u == codes[hook[h].code].user
        c == hook[h].chat
    IN  /\ hook[h].pc = "write"
        /\ IF hook[h].row = Nobody /\ links[c].owner # Nobody
           THEN UNCHANGED <<links, codes, rejoined>>
           ELSE /\ links' = [links EXCEPT ![c] = [owner |-> IF hook[h].row = Nobody THEN u ELSE @.owner,
                                                  active |-> TRUE]]
                /\ codes' = [codes EXCEPT ![hook[h].code].fresh = FALSE]
                /\ rejoined' = [rejoined EXCEPT ![u] = @ + (IF hook[h].row = u /\ ~links[c].active THEN 1 ELSE 0)]
        /\ Done(h)
        /\ UNCHANGED overlapped

(* /disconnect from a linked chat.                                         *)
DisconnectChat(h) ==
    /\ hook[h].pc = "off"
    /\ links' = [links EXCEPT ![hook[h].chat].active = FALSE]
    /\ Done(h)
    /\ UNCHANGED <<codes, overlapped, rejoined>>

(* POST /link/disconnect: one link of the user, or all of them.            *)
DisconnectUser(u) ==
    /\ \E cs \in {ActiveOf(u)} \union {{c} : c \in ActiveOf(u)} :
          /\ cs # {}
          /\ links' = [c \in Chats |-> IF c \in cs THEN [links[c] EXCEPT !.active = FALSE] ELSE links[c]]
    /\ UNCHANGED <<codes, hook, overlapped, rejoined>>

Next ==
    \/ \E u \in Users : CreateLinkCode(u) \/ DisconnectUser(u)
    \/ \E k \in DOMAIN codes : CodeExpires(k)
    \/ \E h \in Hooks :
          \/ \E t \in Texts : Dispatch(h, t) \/ Begin(h, t)
          \/ LookUpCode(h) \/ LookUpChat(h) \/ CountLinks(h) \/ WriteLink(h) \/ DisconnectChat(h)

Spec == Init /\ [][Next]_linkVars

-----------------------------------------------------------------------------
(* Every variable keeps its shape.                                         *)
TypeOK ==
    /\ \A k \in DOMAIN codes : codes[k] \in [user : Users, fresh : BOOLEAN]
    /\ links \in [Chats -> [owner : Users \union {Nobody}, active : BOOLEAN]]
    /\ \A h \in Hooks : hook[h].code \in 0..Len(codes)
    /\ overlapped \in BOOLEAN /\ rejoined \in [Users -> Nat]

(* telegramService.ts:287-335: a chat never goes from one account to       *)
(* another, so no alert reaches a chat of somebody else, however handlers  *)
(* interleave and messages are repeated.                                   *)
ChatKeepsAccount ==
    \A c \in Chats : links[c].owner # Nobody => links'[c].owner = links[c].owner

(* telegramService.ts:301-307: the cap on linked chats holds, up to the    *)
(* handlers that counted at the same time and the rows that were switched  *)
(* on again, which the code does not count.                                *)
LinksBounded ==
    \A u \in Users :
       Cardinality(ActiveOf(u)) <= MaxLinks + rejoined[u] + (IF overlapped THEN Cardinality(Hooks) - 1 ELSE 0)
=============================================================================
