------------------------------- MODULE Alerts -------------------------------
(***************************************************************************)
(* The alerts of one user to the linked Telegram chats: the queue of each  *)
(* chat and the loop that drains it (notifications/telegramService.ts),    *)
(* and the updates on a running position (notifications/                   *)
(* positionUpdateService.ts), of which each profit milestone is worth one. *)
(* All of it lives in the memory of one process.                           *)
(***************************************************************************)
EXTENDS Integers, Sequences, FiniteSets, FiniteSetsExt, SequencesExt

CONSTANTS
    Chats,
    Drains,                  \* calls of drain that may be under way
    MaxAttempt,              \* retries of one message
    Milestones,              \* profits worth an update
    TopProfit,               \* bound: the highest profit of a position
    MaxAlerts, MaxLots       \* bounds: alerts sent, positions opened

AlertsAssumption ==
    /\ "none" \notin Chats /\ IsFiniteSet(Drains) /\ MaxAttempt \in Nat /\ TopProfit \in Nat
    /\ Milestones \subseteq Nat \ {0} /\ MaxAlerts \in Nat /\ MaxLots \in Nat \ {0}

VARIABLES
    wants,     \* is the chat linked and the category switched on?
    sent,      \* alerts made so far; an alert's number is its message
    line,      \* queues: the messages of each chat, with their attempts
    drain,     \* what each call of drain is doing
    arrived,   \* what each chat received
    told,      \* what the caller learned about its message
    lot,       \* the running position and its profit
    seen,      \* stateByKey: lastMilestone of the position, or Unseen
    quiet,     \* the user got an update within ten minutes
    fired      \* history: milestones announced since the state was made

alertVars == <<wants, sent, line, drain, arrived, told, lot, seen, quiet, fired>>

Unseen == -1
Asleep == [pc |-> "asleep", chat |-> "none", msg |-> 0]

Init ==
    /\ wants \in [Chats -> BOOLEAN]
    /\ sent = 0 /\ line = [c \in Chats |-> <<>>]
    /\ drain = [d \in Drains |-> Asleep]
    /\ arrived = [c \in Chats |-> <<>>]
    /\ told = [c \in Chats |-> <<>>]
    /\ lot = [id |-> 1, profit |-> 0] /\ seen = Unseen /\ quiet = FALSE /\ fired = <<>>

-----------------------------------------------------------------------------
Draining(c) == \E d \in Drains : drain[d].chat = c

(* Mutant: a drain starts although one is under way.                       *)
StartsAnyway(cs) ==
    \E wake \in [cs -> {d \in Drains : drain[d] = Asleep}] :
       /\ IsInjective(wake)
       /\ drain' = [d \in Drains |-> IF \E c \in cs : wake[c] = d
                                     THEN [Asleep EXCEPT !.pc = "loop", !.chat = CHOOSE c \in cs : wake[c] = d]
                                     ELSE drain[d]]

(* drain returns at once for a chat that is being drained.                 *)
StartDrains(cs) ==
    LET idle == {c \in cs : ~Draining(c)}
    IN  \E wake \in [idle -> {d \in Drains : drain[d] = Asleep}] :
           /\ IsInjective(wake)
           /\ drain' = [d \in Drains |-> IF \E c \in idle : wake[c] = d
                                         THEN [Asleep EXCEPT !.pc = "loop", !.chat = CHOOSE c \in idle : wake[c] = d]
                                         ELSE drain[d]]

(* sendToUser, sendRawMessage, enqueue: a message for every linked chat    *)
(* that wants the category.                                                *)
SendToUser ==
    LET cs == {c \in Chats : wants[c]}
    IN  /\ sent < MaxAlerts /\ sent' = sent + 1
        /\ line' = [c \in Chats |-> IF wants[c] THEN Append(line[c], [id |-> sent + 1, attempt |-> 0]) ELSE line[c]]
        /\ told' = [c \in Chats |-> IF wants[c] THEN Append(told[c], "waits") ELSE Append(told[c], "none")]
        /\ StartDrains(cs)

(* One of the notify functions: a trade, a bot, a risk or an advisor.      *)
Notify ==
    /\ SendToUser
    /\ UNCHANGED <<wants, arrived, lot, seen, quiet, fired>>

(* drain: nothing left, or the head of the queue is sent after a pause.    *)
Loop(d) ==
    /\ drain[d].pc = "loop"
    /\ LET c == drain[d].chat
       IN  drain' = [drain EXCEPT ![d] = IF line[c] = <<>> THEN Asleep
                                         ELSE [@ EXCEPT !.pc = "send", !.msg = Head(line[c]).id]]
    /\ UNCHANGED <<wants, sent, line, arrived, told, lot, seen, quiet, fired>>

Shift(d, outcome) ==
    /\ line' = [line EXCEPT ![drain[d].chat] = IF @ = <<>> THEN @ ELSE Tail(@)]
    /\ told' = [told EXCEPT ![drain[d].chat][drain[d].msg] = outcome]
    /\ drain' = [drain EXCEPT ![d].pc = "loop", ![d].msg = 0]

Arrives(d) == arrived' = [arrived EXCEPT ![drain[d].chat] = Append(@, drain[d].msg)]

(* sendMessage worked.                                                     *)
SendOk(d) ==
    /\ drain[d].pc = "send" /\ Arrives(d) /\ Shift(d, "sent")
    /\ UNCHANGED <<wants, sent, lot, seen, quiet, fired>>

(* 403: the chat blocked the bot and is unlinked.                          *)
SendBlocked(d) ==
    /\ drain[d].pc = "send"
    /\ wants' = [wants EXCEPT ![drain[d].chat] = FALSE]
    /\ Shift(d, "failed")
    /\ UNCHANGED <<sent, arrived, lot, seen, quiet, fired>>

(* 429 or 5xx: again, three times; a 5xx message may have arrived.         *)
SendAgain(d) ==
    LET c == drain[d].chat
    IN  /\ drain[d].pc = "send" /\ line[c] # <<>> /\ Head(line[c]).attempt < MaxAttempt
        /\ Arrives(d) \/ UNCHANGED arrived
        /\ line' = [line EXCEPT ![c][1].attempt = @ + 1]
        /\ drain' = [drain EXCEPT ![d].pc = "loop", ![d].msg = 0]
        /\ UNCHANGED <<wants, sent, told, lot, seen, quiet, fired>>

(* No answer, a refusal, or no attempt left: the message is given up.      *)
SendFails(d) ==
    /\ drain[d].pc = "send"
    /\ Arrives(d) \/ UNCHANGED arrived
    /\ Shift(d, "failed")
    /\ UNCHANGED <<wants, sent, lot, seen, quiet, fired>>

-----------------------------------------------------------------------------
Reached(p) == {m \in Milestones : p >= m}
Highest(ms) == IF ms = {} THEN 0 ELSE Max(ms)

Remember(m) == seen' = m

(* track, on every pass of the watcher: the first look is silent; then a   *)
(* new milestone is announced, unless the user just got an update, and     *)
(* else maybe a digest.                                                    *)
Track ==
    LET crossed == {m \in Reached(lot.profit) : m > seen}
    IN  \/ /\ seen = Unseen /\ seen' = Highest(Reached(lot.profit))
           /\ UNCHANGED <<wants, sent, line, drain, arrived, told, lot, quiet, fired>>
        \/ /\ seen # Unseen /\ ~quiet /\ crossed # {}
           /\ Remember(Max(crossed)) /\ quiet' = TRUE
           /\ fired' = Append(fired, Max(crossed))
           /\ SendToUser
           /\ UNCHANGED <<wants, arrived, lot>>
        \/ /\ seen # Unseen /\ ~quiet /\ crossed = {}
           /\ quiet' = TRUE
           /\ SendToUser
           /\ UNCHANGED <<wants, arrived, lot, seen, fired>>

PriceMoves ==
    /\ \E p \in 0..TopProfit : lot' = [lot EXCEPT !.profit = p]
    /\ UNCHANGED <<wants, sent, line, drain, arrived, told, seen, quiet, fired>>

TenMinutesPass ==
    /\ quiet' = FALSE
    /\ UNCHANGED <<wants, sent, line, drain, arrived, told, lot, seen, fired>>

(* The lot on Binance is sold and another bought: the machine's own exit   *)
(* and a tick without a lot clear the state; when the manual desk sells    *)
(* and buys between two ticks, the new lot inherits it.                    *)
NextLot ==
    /\ lot.id < MaxLots
    /\ lot' = [id |-> lot.id + 1, profit |-> 0] /\ fired' = <<>>
    /\ seen' \in {seen, Unseen}
    /\ UNCHANGED <<wants, sent, line, drain, arrived, told, quiet>>

(* prunePositionTracking: what was not looked at for a week is forgotten,  *)
(* and its next look is a first one.                                       *)
Prune ==
    /\ seen' = Unseen /\ fired' = <<>>
    /\ UNCHANGED <<wants, sent, line, drain, arrived, told, lot, quiet>>

(* The process restarts: queues and state are gone, callers with them.     *)
Restart ==
    /\ line' = [c \in Chats |-> <<>>] /\ drain' = [d \in Drains |-> Asleep]
    /\ told' = [c \in Chats |-> [m \in DOMAIN told[c] |-> IF told[c][m] = "waits" THEN "none" ELSE told[c][m]]]
    /\ seen' = Unseen /\ quiet' = FALSE /\ fired' = <<>>
    /\ UNCHANGED <<wants, sent, arrived, lot>>

Next ==
    \/ Notify \/ Track \/ PriceMoves \/ TenMinutesPass \/ NextLot \/ Prune \/ Restart
    \/ \E d \in Drains : Loop(d) \/ SendOk(d) \/ SendBlocked(d) \/ SendAgain(d) \/ SendFails(d)

Spec == Init /\ [][Next]_alertVars

-----------------------------------------------------------------------------
(* Every variable keeps its shape.                                         *)
TypeOK ==
    /\ wants \in [Chats -> BOOLEAN] /\ sent \in 0..MaxAlerts
    /\ \A c \in Chats : \A k \in DOMAIN line[c] : line[c][k] \in [id : 1..MaxAlerts, attempt : 0..MaxAttempt]
    /\ \A c \in Chats : Len(told[c]) = sent
    /\ lot \in [id : 1..MaxLots, profit : 0..TopProfit] /\ seen \in {Unseen, 0} \union Milestones
    /\ quiet \in BOOLEAN

(* telegramService.ts:177-250: no message leaves a queue unless its caller *)
(* is told what became of it, each waits in one queue once, a queue that   *)
(* is not empty is being drained, one told as sent did arrive, and a chat  *)
(* gets its messages in the order they were made, repeats aside.           *)
AlertsAreKept ==
    \A c \in Chats :
       /\ {line[c][k].id : k \in DOMAIN line[c]} = {m \in DOMAIN told[c] : told[c][m] = "waits"}
       /\ line[c] # <<>> => Draining(c)
       /\ \A m \in DOMAIN told[c] : told[c][m] = "sent" => m \in ToSet(arrived[c])
       /\ \A i, j \in DOMAIN arrived[c] : i < j => arrived[c][i] <= arrived[c][j]

(* positionUpdateService.ts:69-116: while the process lives and looks at   *)
(* the position once a week, each of its milestones is announced once and  *)
(* only upwards, however the price swings around it.                       *)
MilestonesOnce == \A i, j \in DOMAIN fired : i < j => fired[i] < fired[j]
=============================================================================
