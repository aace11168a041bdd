------------------------------ MODULE PaperBot ------------------------------
(***************************************************************************)
(* The paper traders of one user and pair: the advanced bot                *)
(* (bot/advancedBot.ts, started by bot/globalPaperTrader.ts) and the       *)
(* timer-driven bot of packages/bot.  Both book their trades through       *)
(* packages/bot/paperExecution.ts.  The advanced bot remembers its trade   *)
(* in memory; the other one asks the database.  Prices and gates are       *)
(* choices.                                                                *)
(*                                                                         *)
(* The advanced bot listens for (symbol, interval), while klineService.ts  *)
(* emits one object with both: every candle fails the comparison, and the  *)
(* tick its start makes is the only one of its life.  It finds no position *)
(* to exit from and none to sell, so that nothing but stop closes a trade. *)
(***************************************************************************)
EXTENDS Integers, FiniteSets, FiniteSetsExt

CONSTANTS
    Engines,        \* "advanced", "timer"
    Actors,         \* ticks, probes and stops that may be in flight at once
    MaxTrades       \* bound: rows of the Trade table

PaperAssumption == MaxTrades \in Nat \ {0} /\ IsFiniteSet(Actors) /\ Engines \subseteq {"advanced", "timer"}

VARIABLES
    engine,     \* which of the bots runs
    listed,     \* the entry of `bots`
    ticking,    \* the timer; of the advanced bot, that no stop has begun
    current,    \* currentTradeId of the advanced bot; position is LONG with it
    trades,     \* the rows: none, open or closed, and how often the PnL was booked
    act,        \* what each actor is doing
    overlap,    \* history: two actors were under way at once
    raced,      \* history: an actor found a trade open that another was about to close
    died        \* history: the process died

paperVars == <<engine, listed, ticking, current, trades, act, overlap, raced, died>>

Rows == 1..MaxTrades
Calm == [pc |-> "idle", trade |-> 0, then |-> "idle"]

Init ==
    /\ engine \in Engines
    /\ listed = FALSE /\ ticking = FALSE /\ current = 0
    /\ trades = [t \in Rows |-> [state |-> "none", booked |-> 0]]
    /\ act = [a \in Actors |-> Calm]
    /\ overlap = FALSE /\ raced = FALSE /\ died = FALSE

Idle(a) == act[a].pc = "idle"
Goto(a, pc) == act' = [act EXCEPT ![a].pc = pc]
Finish(a) == act' = [act EXCEPT ![a] = Calm]
Continue(a) == IF act[a].then = "idle" THEN Finish(a) ELSE Goto(a, act[a].then)
Overlaps(a) == overlap' = (overlap \/ \E b \in Actors \ {a} : ~Idle(b))
Begin(a, pc, then) ==
    /\ Idle(a) /\ Overlaps(a)
    /\ act' = [act EXCEPT ![a] = [Calm EXCEPT !.pc = pc, !.then = then]]

OpenRows == {t \in Rows : trades[t].state = "open"}
FreshRows == {t \in Rows : trades[t].state = "none"}

-----------------------------------------------------------------------------
(* startGlobalPaperTrader: one bot per user with a state of its own, and a *)
(* tick at once.  A tick of the bot before it goes on with the old state.  *)
StartAdvanced(a) ==
    /\ engine = "advanced" /\ ~listed /\ Idle(a) /\ Overlaps(a)
    /\ listed' = TRUE /\ ticking' = TRUE /\ current' = 0
    /\ act' = [b \in Actors |-> IF b = a THEN [Calm EXCEPT !.pc = "look"]
                                ELSE IF Idle(b) THEN act[b] ELSE [act[b] EXCEPT !.then = "lost"]]
    /\ UNCHANGED <<engine, trades, raced, died>>

(* The timer bot starts with a probe, which opens and closes one trade     *)
(* without asking the gate, unless there is no book or too little equity.  *)
StartTimer(a) ==
    /\ engine = "timer" /\ ~listed
    /\ listed' = TRUE /\ ticking' = TRUE
    /\ Begin(a, "open", "probe") \/ Begin(a, "look", "idle")
    /\ UNCHANGED <<engine, current, trades, raced, died>>

(* Every firing of the timer.                                              *)
BeginTick(a) ==
    /\ engine = "timer" /\ ticking /\ Begin(a, "look", "idle")
    /\ UNCHANGED <<engine, listed, ticking, current, trades, raced, died>>

(* tick of the advanced bot: without a candle, or if the policy does not   *)
(* say BUY, that was all.                                                  *)
Look(a) ==
    /\ act[a].pc = "look" /\ engine = "advanced"
    /\ Finish(a) \/ Goto(a, "open")
    /\ UNCHANGED <<engine, listed, ticking, current, trades, overlap, raced, died>>

(* tickPair of the timer bot reads the open trades of the pair; the gate   *)
(* lets a BUY through when there is none and a SELL when there is one.     *)
LookAtRows(a) ==
    /\ act[a].pc = "look" /\ engine = "timer"
    /\ \/ Finish(a)
       \/ OpenRows = {} /\ Goto(a, "open")
       \/ OpenRows # {} /\ act' = [act EXCEPT ![a].pc = "find", ![a].trade = Min(OpenRows)]
    /\ UNCHANGED <<engine, listed, ticking, current, trades, overlap, raced, died>>

-----------------------------------------------------------------------------
(* paperOpenPosition                                                       *)
OpenTrade(a) ==
    /\ act[a].pc = "open" /\ FreshRows # {}
    /\ LET t == Min(FreshRows)
       IN  /\ trades' = [trades EXCEPT ![t].state = "open"]
           /\ act' = [act EXCEPT ![a].pc = "opened", ![a].trade = t]
    /\ UNCHANGED <<engine, listed, ticking, current, overlap, raced, died>>

(* The log line is written; then the advanced bot holds the trade ...      *)
SetLong(a) ==
    /\ act[a].pc = "opened" /\ act[a].then # "probe"
    /\ current' = IF engine = "advanced" /\ act[a].then # "lost" THEN act[a].trade ELSE current
    /\ Finish(a)
    /\ UNCHANGED <<engine, listed, ticking, trades, overlap, raced, died>>

(* ... and the probe closes it again; the first tick follows.              *)
ProbeOpened(a) ==
    /\ act[a].pc = "opened" /\ act[a].then = "probe"
    /\ act' = [act EXCEPT ![a].pc = "find", ![a].then = "look"]
    /\ UNCHANGED <<engine, listed, ticking, current, trades, overlap, raced, died>>

Race(a) ==
    raced' = (raced \/ \E b \in Actors \ {a} : act[b].pc = "update" /\ act[b].trade = act[a].trade)

(* paperClosePosition looks for the trade, and for nothing but an open one,*)
FindOpen(a) ==
    /\ act[a].pc = "find"
    /\ IF trades[act[a].trade].state = "open" THEN Goto(a, "update") /\ Race(a)
       ELSE /\ IF engine = "advanced" THEN Goto(a, "flat") ELSE Continue(a)
            /\ UNCHANGED raced
    /\ UNCHANGED <<engine, listed, ticking, current, trades, overlap, died>>

(* marks it closed ...                                                     *)
CloseRow(a) ==
    /\ act[a].pc = "update"
    /\ trades' = [trades EXCEPT ![act[a].trade].state = "closed"]
    /\ Goto(a, "book")
    /\ UNCHANGED <<engine, listed, ticking, current, overlap, raced, died>>

(* ... and adds its PnL to the portfolio, in a write of its own.           *)
BookPnl(a) ==
    /\ act[a].pc = "book"
    /\ trades' = [trades EXCEPT ![act[a].trade].booked = @ + 1]
    /\ IF engine = "advanced" THEN Goto(a, "flat") ELSE Continue(a)
    /\ UNCHANGED <<engine, listed, ticking, current, overlap, raced, died>>

SetFlat(a) ==
    /\ act[a].pc = "flat"
    /\ current' = 0 /\ Continue(a)
    /\ UNCHANGED <<engine, listed, ticking, trades, overlap, raced, died>>

-----------------------------------------------------------------------------
(* stop, which nothing calls: the advanced bot closes the trade that it    *)
(* remembers, ...                                                          *)
StopAdvanced(a) ==
    /\ engine = "advanced" /\ listed /\ ticking /\ ticking' = FALSE
    /\ Idle(a) /\ Overlaps(a)
    /\ act' = [act EXCEPT ![a] = [pc |-> IF current = 0 THEN "drop" ELSE "find", trade |-> current, then |-> "drop"]]
    /\ UNCHANGED <<engine, listed, current, trades, raced, died>>

(* ... the timer bot the open rows in turn, those with a price; then the   *)
(* entry goes.                                                             *)
StopTimer(a) ==
    /\ engine = "timer" /\ listed /\ ticking /\ ticking' = FALSE
    /\ Begin(a, "each", "drop")
    /\ UNCHANGED <<engine, listed, current, trades, raced, died>>

CloseEach(a) ==
    /\ act[a].pc = "each"
    /\ \/ Goto(a, "drop")
       \/ \E t \in OpenRows : act' = [act EXCEPT ![a].pc = "find", ![a].trade = t, ![a].then = "each"]
    /\ UNCHANGED <<engine, listed, ticking, current, trades, overlap, raced, died>>

DropBot(a) ==
    /\ act[a].pc = "drop"
    /\ listed' = FALSE /\ Finish(a)
    /\ UNCHANGED <<engine, ticking, current, trades, overlap, raced, died>>

(* The process dies and comes back; nobody looks for open trades.          *)
Restart ==
    /\ ~died /\ died' = TRUE
    /\ listed' = FALSE /\ ticking' = FALSE /\ current' = 0
    /\ act' = [a \in Actors |-> Calm]
    /\ UNCHANGED <<engine, trades, overlap, raced>>

Next ==
    \/ Restart
    \/ \E a \in Actors :
          \/ StartAdvanced(a) \/ StartTimer(a) \/ BeginTick(a) \/ Look(a) \/ LookAtRows(a)
          \/ OpenTrade(a) \/ SetLong(a) \/ ProbeOpened(a) \/ FindOpen(a) \/ CloseRow(a) \/ BookPnl(a) \/ SetFlat(a)
          \/ StopAdvanced(a) \/ StopTimer(a) \/ CloseEach(a) \/ DropBot(a)

Spec == Init /\ [][Next]_paperVars

-----------------------------------------------------------------------------
(* Every variable keeps its shape.                                         *)
TypeOK ==
    /\ engine \in Engines /\ listed \in BOOLEAN /\ ticking \in BOOLEAN /\ current \in 0..MaxTrades
    /\ trades \in [Rows -> [state : {"none", "open", "closed"}, booked : Nat]]
    /\ \A a \in Actors : act[a].trade \in 0..MaxTrades
    /\ overlap \in BOOLEAN /\ raced \in BOOLEAN /\ died \in BOOLEAN

(* paperExecution.ts:49-106: a trade's PnL reaches the portfolio once,     *)
(* except that actors who found the trade open at the same time each book  *)
(* it, and that one who died between the two writes never does.            *)
PnlBookedOnce ==
    \A t \in Rows :
       /\ trades[t].booked <= IF raced THEN Cardinality(Actors) ELSE 1
       /\ trades[t].booked > 0 => trades[t].state = "closed"
       /\ trades[t].state = "closed" /\ ~died /\ (\A a \in Actors : Idle(a)) => trades[t].booked > 0

(* advancedBot.ts:43-108, bot/index.ts:271-447: as long as ticks, probes   *)
(* and stops never overlapped, what the advanced bot remembers is open, so *)
(* that a stop would close it, and it remembers whatever it opened since   *)
(* the process started; the timer bot, which asks the database, has one    *)
(* open trade at most, its probe and what a stop left behind included; and *)
(* the death of the process leaves one more to either of them.             *)
OpenTradesAreKnown ==
    ~overlap /\ (\A a \in Actors : Idle(a)) =>
       /\ Cardinality(OpenRows) <= IF died THEN 2 ELSE 1
       /\ engine = "advanced" => {current} \ {0} \subseteq OpenRows /\ (died \/ OpenRows \subseteq {current})
=============================================================================
