---------------------------- MODULE SignalInbox ----------------------------
(***************************************************************************)
(* The inbox of a user's trading signals: the two requests that write it   *)
(* (routes/tokenTrading.ts), the sync of ideas and signals                 *)
(* (trading/tokenTradingAlertSync.ts), the look at one token               *)
(* (trading/tokenTradingFocus.ts) and the table (inbox/inboxService.ts),   *)
(* which has no unique key: whether a message is there already is looked   *)
(* up before it is inserted, and the sync prunes the table when it is      *)
(* through.                                                                *)
(*                                                                         *)
(* One user, one token and one wallet.  The clock ticks in buckets, the    *)
(* hour of a signal's key and the ten minutes of a focus alike.            *)
(***************************************************************************)
EXTENDS Integers, Sequences, FiniteSets

CONSTANTS
    Calls,                   \* requests that may be under way at once
    Signals,                 \* what the model says of the token
    Keep,                    \* rows a prune leaves
    Day,                     \* buckets in a day
    AllocWindow,             \* ALLOC_DEDUPE_MS, shorter than a day
    LastNow, MaxRequests     \* bounds

InboxAssumption ==
    /\ Keep \in Nat \ {0} /\ Day \in Nat \ {0} /\ AllocWindow \in 0..Day - 1
    /\ LastNow \in Nat /\ MaxRequests \in Nat

VARIABLES
    now,      \* the clock, in buckets
    asked,    \* requests so far
    made,     \* every row ever inserted, oldest first
    gone,     \* those that were pruned
    call,     \* what each request is doing
    raced     \* history: two requests missed a key before either inserted

inboxVars == <<now, asked, made, gone, call, raced>>

Routes == {"sync", "focus"}
Unasked == [pc |-> "idle", todo |-> <<>>, hour |-> 0, key |-> [kind |-> "none"], old |-> {}]
Table == DOMAIN made \ gone

Init == now = 0 /\ asked = 0 /\ made = <<>> /\ gone = {} /\ call = [c \in Calls |-> Unasked] /\ raced = FALSE

(* POST /sync-alerts and /focus-token.  Their throttles refuse one that    *)
(* comes too soon after the last, whether that one is through or not.      *)
Request(c, route) ==
    /\ call[c].pc = "idle" /\ asked < MaxRequests /\ asked' = asked + 1
    /\ call' = [call EXCEPT ![c] =
          IF route = "sync" THEN [Unasked EXCEPT !.pc = "look", !.hour = now, !.todo = <<"alloc", "tts", "prune">>]
          ELSE [Unasked EXCEPT !.pc = "look", !.todo = <<"focus">>]]
    /\ UNCHANGED <<now, made, gone, raced>>

(* The key of a message, and for how long it stands for the same message.  *)
(* A signal's hour is that of the start of its sync.                       *)
KeyOf(c, signal) ==
    LET kind == Head(call[c].todo)
    IN  [kind |-> kind, signal |-> signal,
         bucket |-> CASE kind = "alloc" -> now \div Day [] kind = "tts" -> call[c].hour [] kind = "focus" -> now]

Window(kind) == CASE kind = "alloc" -> AllocWindow [] kind = "tts" -> 5 [] kind = "focus" -> 1

(* recentDedupeExists                                                      *)
Exists(key) == \E i \in Table : made[i].key = key /\ now - made[i].at <= Window(key.kind)

(* What follows the message at hand.                                       *)
Advance(c) ==
    IF Len(call[c].todo) = 1 THEN Unasked ELSE [Unasked EXCEPT !.pc = "look", !.hour = call[c].hour, !.todo = Tail(call[c].todo)]

Look(c) ==
    /\ call[c].pc = "look" /\ Head(call[c].todo) # "prune"
    /\ \E signal \in IF Head(call[c].todo) = "tts" THEN Signals ELSE {"any"} :
          LET key == KeyOf(c, signal)
          IN  IF Exists(key) THEN call' = [call EXCEPT ![c] = Advance(c)] /\ UNCHANGED raced
              ELSE /\ call' = [call EXCEPT ![c].pc = "insert", ![c].key = key]
                   /\ raced' = (raced \/ \E d \in Calls \ {c} : call[d].pc = "insert" /\ call[d].key = key)
    /\ UNCHANGED <<now, asked, made, gone>>

(* Too few candles, or no ideas.                                           *)
Skip(c) ==
    /\ call[c].pc = "look" /\ Head(call[c].todo) # "prune"
    /\ call' = [call EXCEPT ![c] = Advance(c)]
    /\ UNCHANGED <<now, asked, made, gone, raced>>

(* createInboxMessage                                                      *)
Insert(c) ==
    /\ call[c].pc = "insert"
    /\ made' = Append(made, [key |-> call[c].key, at |-> now])
    /\ call' = [call EXCEPT ![c] = Advance(c)]
    /\ UNCHANGED <<now, asked, gone, raced>>

(* pruneOldInboxMessages: which rows have Keep newer ones; ...             *)
FindOld(c) ==
    /\ call[c].pc = "look" /\ Head(call[c].todo) = "prune"
    /\ call' = [call EXCEPT ![c].pc = "delete", ![c].old = {i \in Table : Cardinality({j \in Table : j > i}) >= Keep}]
    /\ UNCHANGED <<now, asked, made, gone, raced>>

(* ... they are deleted by their ids.                                      *)
DeleteOld(c) ==
    /\ call[c].pc = "delete"
    /\ gone' = gone \union call[c].old
    /\ call' = [call EXCEPT ![c] = Unasked]
    /\ UNCHANGED <<now, asked, made, raced>>

(* An error ends the request: no prune.                                    *)
Fail(c) ==
    /\ call[c].pc # "idle"
    /\ call' = [call EXCEPT ![c] = Unasked]
    /\ UNCHANGED <<now, asked, made, gone, raced>>

Tick ==
    /\ now < LastNow /\ now' = now + 1
    /\ UNCHANGED <<asked, made, gone, call, raced>>

Next ==
    \/ \E c \in Calls :
          \/ \E route \in Routes : Request(c, route)
          \/ Look(c) \/ Skip(c) \/ Insert(c) \/ FindOld(c) \/ DeleteOld(c) \/ Fail(c)
    \/ Tick

Spec == Init /\ [][Next]_inboxVars

-----------------------------------------------------------------------------
(* Every variable keeps its shape.                                         *)
TypeOK ==
    /\ now \in 0..LastNow /\ asked \in 0..MaxRequests /\ Len(made) <= 2 * asked /\ gone \subseteq DOMAIN made /\ raced \in BOOLEAN
    /\ \A c \in Calls : call[c].pc \in {"idle", "look", "insert", "delete"} /\ call[c].old \subseteq DOMAIN made

(* inboxService.ts:70-77: a message comes again only if two requests       *)
(* missed it at once, if Keep newer ones pushed it out, or if its window   *)
(* was over: a day's idea may come twice, as its window is 20 hours.       *)
SaidOnce ==
    ~raced => \A i, j \in DOMAIN made : i < j /\ made[i].key = made[j].key =>
        \/ j - i > Keep
        \/ made[i].key.kind = "alloc" /\ made[j].at - made[i].at > AllocWindow

(* inboxService.ts:101-114: although the rows to delete are chosen in one  *)
(* query and deleted in another, and prunes overlap, one of the newest     *)
(* Keep messages is never deleted.                                         *)
NewestAreKept == \A i \in gone : Len(made) - i >= Keep
=============================================================================
