------------------------------ MODULE LiveBot ------------------------------
(***************************************************************************)
(* The live Binance bot of one user (bot/liveTradingBot.ts) and the routes *)
(* that start and stop it (routes/engine.ts).  The bots live in a map of   *)
(* the process, one entry per user; each instance has a timer that starts  *)
(* a tick every 5 s whether or not the last one is over.  A session row    *)
(* and a run row record that a bot runs.  Every order buys or sells one    *)
(* lot; prices, sizes and the gates of a decision are choices here (the    *)
(* module TradeGates has them).                                            *)
(***************************************************************************)
EXTENDS Integers, FiniteSets, FiniteSetsExt

CONSTANTS
    Actors,               \* requests and ticks that may be in flight at once
    MaxStarts, MaxLots, MaxFaults  \* bounds: starts that reach the database, lots at once, failures

LiveBotAssumption == MaxStarts \in Nat \ {0} /\ MaxLots \in Nat /\ MaxFaults \in Nat /\ IsFiniteSet(Actors)

VARIABLES
    mapped,     \* the entry of `bots`, or None
    made,       \* session rows ever created; a start's row and bot share its number
    bot,        \* the instances, in the map or not
    rows,       \* botSession (open) and botRun (running) of each start
    act,        \* what each actor is doing
    firstDone,  \* firstTickDone
    coins,      \* lots bought and not sold on the exchange
    overlap,    \* history: 1 once ticks or stops overlapped, 2 once a start did
    faults      \* history: writes that failed, answers lost, restarts

botVars == <<mapped, made, bot, rows, act, firstDone, coins, overlap, faults>>

None == 0
Starts == 1..MaxStarts
NoBot == [timer |-> FALSE, held |-> 0, halted |-> FALSE]
NoRows == [open |-> FALSE, running |-> FALSE]
Calm == [pc |-> "idle", i |-> None, s |-> None, then |-> "idle"]

Init ==
    /\ mapped = None /\ made = 0
    /\ bot = [i \in Starts |-> NoBot] /\ rows = [i \in Starts |-> NoRows]
    /\ act = [a \in Actors |-> Calm]
    /\ firstDone = FALSE /\ coins = 0 /\ overlap = 0 /\ faults = 0

Starting(a) == act[a].pc \in {"create", "has", "peak", "undo", "event"} \/ act[a].then = "event"
Idle(a) == act[a].pc = "idle"
Goto(a, pc) == act' = [act EXCEPT ![a].pc = pc]
Finish(a) == act' = [act EXCEPT ![a] = Calm]
Fault == faults < MaxFaults /\ faults' = faults + 1

Overlaps(starts) ==
    overlap' = IF \A a \in Actors : Idle(a) THEN overlap
               ELSE IF starts \/ \E a \in Actors : Starting(a) THEN 2
               ELSE Max({overlap, 1})

-----------------------------------------------------------------------------
(* POST /engine/start: no active session, and every check of signals,      *)
(* readiness, key, balance and size passed, each behind an await.          *)
RequestStart(a) ==
    /\ Idle(a) /\ made < MaxStarts
    /\ \A k \in Starts : ~rows[k].open
    /\ Goto(a, "create") /\ Overlaps(TRUE)
    /\ UNCHANGED <<mapped, made, bot, rows, firstDone, coins, faults>>

(* The session row, then the run row; they are not in one transaction.     *)
CreateRows(a) ==
    /\ act[a].pc = "create" /\ made < MaxStarts
    /\ made' = made + 1
    /\ \/ /\ rows' = [rows EXCEPT ![made + 1] = [open |-> TRUE, running |-> TRUE]]
          /\ act' = [act EXCEPT ![a] = [Calm EXCEPT !.pc = "has", !.i = made + 1]]
          /\ UNCHANGED faults
       \/ /\ Fault
          /\ rows' = [rows EXCEPT ![made + 1].open = TRUE]
          /\ Finish(a)
    /\ UNCHANGED <<mapped, bot, firstDone, coins, overlap>>

(* start(): is one running?  Then the portfolio is read for the peak.      *)
CheckRunning(a) ==
    /\ act[a].pc = "has"
    /\ Goto(a, IF mapped # None THEN "undo" ELSE "peak")
    /\ UNCHANGED <<mapped, made, bot, rows, firstDone, coins, overlap, faults>>

SetBot(a) ==
    /\ act[a].pc = "peak"
    /\ bot' = [bot EXCEPT ![act[a].i].timer = TRUE]
    /\ mapped' = act[a].i
    /\ \E pc \in {"buy", "event"} : act' = [act EXCEPT ![a].pc = pc, ![a].then = "event"]
    /\ UNCHANGED <<made, rows, firstDone, coins, overlap, faults>>

(* The first tick starts at once; the event row is written meanwhile, and  *)
(* when that fails the session is deleted although the bot runs.           *)
Started(a) ==
    /\ act[a].pc = "event"
    /\ act' = [act EXCEPT ![a].pc = "price", ![a].then = "idle"]
    /\ \/ UNCHANGED <<rows, faults>>
       \/ Fault /\ rows' = [rows EXCEPT ![act[a].i] = NoRows]
    /\ UNCHANGED <<mapped, made, bot, firstDone, coins, overlap>>

UndoStart(a) ==
    /\ act[a].pc = "undo"
    /\ rows' = [rows EXCEPT ![act[a].i] = NoRows]
    /\ Finish(a)
    /\ UNCHANGED <<mapped, made, bot, firstDone, coins, overlap, faults>>

(* The portfolio cannot be read.                                           *)
StartThrows(a) ==
    /\ act[a].pc = "peak" /\ Fault /\ Goto(a, "undo")
    /\ UNCHANGED <<mapped, made, bot, rows, firstDone, coins, overlap>>

-----------------------------------------------------------------------------
(* Sends the actor on once openLong or closePosition returned.             *)
Continue(a) == IF act[a].then = "idle" THEN Finish(a) ELSE Goto(a, act[a].then)

(* openLong: the order, and some logging later the position.  A refused    *)
(* order is caught; so is one that was filled but whose answer was lost.   *)
Buy(a) ==
    /\ act[a].pc = "buy"
    /\ \/ Continue(a) /\ UNCHANGED <<coins, faults>>
       \/ /\ coins < MaxLots /\ coins' = coins + 1
          /\ \/ Goto(a, "bought") /\ UNCHANGED faults
             \/ Fault /\ Continue(a)
    /\ UNCHANGED <<mapped, made, bot, rows, firstDone, overlap>>

(* The start-up probe sells again what it finds held, a tick is done.      *)
SetLong(a) ==
    /\ act[a].pc = "bought"
    /\ bot' = [bot EXCEPT ![act[a].i].held = 1]
    /\ IF act[a].then = "event" THEN Goto(a, "sell") ELSE Continue(a)
    /\ UNCHANGED <<mapped, made, rows, firstDone, coins, overlap, faults>>

(* closePosition: nothing to sell, refused, or sold.                       *)
Sell(a) ==
    /\ act[a].pc = "sell"
    /\ \/ Continue(a) /\ UNCHANGED coins
       \/ /\ bot[act[a].i].held > 0 /\ coins > 0
          /\ coins' = coins - 1 /\ Goto(a, "sold")
    /\ UNCHANGED <<mapped, made, bot, rows, firstDone, overlap, faults>>

SetFlat(a) ==
    /\ act[a].pc = "sold"
    /\ bot' = [bot EXCEPT ![act[a].i].held = 0]
    /\ Continue(a)
    /\ UNCHANGED <<mapped, made, rows, firstDone, coins, overlap, faults>>

(* The portfolio cannot be updated: the sale stays unknown to the bot.     *)
(* The probe and the stop route catch it, a tick dies with its halt.       *)
CloseThrows(a) ==
    /\ act[a].pc = "sold" /\ Fault
    /\ CASE act[a].then = "event" -> Goto(a, "event")
         [] act[a].then = "drop" -> Goto(a, "stopRows")
         [] OTHER -> Finish(a)
    /\ UNCHANGED <<mapped, made, bot, rows, firstDone, coins, overlap>>

-----------------------------------------------------------------------------
(* The timer of an instance fires.                                         *)
BeginTick(a, i) ==
    /\ Idle(a) /\ bot[i].timer
    /\ act' = [act EXCEPT ![a] = [Calm EXCEPT !.pc = "price", !.i = i]]
    /\ Overlaps(FALSE)
    /\ UNCHANGED <<mapped, made, bot, rows, firstDone, coins, faults>>

(* tick: no price; or take-profit and stop-loss on what is held; or on.    *)
Price(a) ==
    /\ act[a].pc = "price"
    /\ \/ Finish(a)
       \/ bot[act[a].i].held > 0 /\ Goto(a, "sell")
       \/ Goto(a, "first")
    /\ UNCHANGED <<mapped, made, bot, rows, firstDone, coins, overlap, faults>>

(* The user's first tick without a position forces a buy, unless the       *)
(* balance is too small or the advisor blocks it.                          *)
FirstTick(a) ==
    /\ act[a].pc = "first"
    /\ IF ~firstDone /\ bot[act[a].i].held = 0
       THEN /\ firstDone' = TRUE
            /\ \/ \E pc \in {"buy", "signal"} : Goto(a, pc)
               \/ Finish(a)
       ELSE Goto(a, "signal") /\ UNCHANGED firstDone
    /\ UNCHANGED <<mapped, made, bot, rows, coins, overlap, faults>>

(* What the decision gate may approve for an instance.                     *)
Approved(b) == IF b.held > 0 THEN {"sell"} ELSE IF b.halted THEN {} ELSE {"buy"}

(* The drawdowns, in percent, at which the session is stopped and at which *)
(* entries are halted.                                                     *)
MaxSessionDrawdown == 15
MaxDrawdown == 20
Drawdowns == {0, 10, 15, 20}

(* The AI signal, the portfolio, the drawdown d and the gate.  The session *)
(* stop comes first and has the smaller limit.                             *)
Decide(a) ==
    LET i == act[a].i
    IN  /\ act[a].pc = "signal"
        /\ \/ Finish(a) /\ UNCHANGED bot
           \/ \E d \in Drawdowns :
                 IF d >= MaxSessionDrawdown
                 THEN /\ act' = [act EXCEPT ![a].pc = IF bot[i].held > 0 THEN "sell" ELSE "halt", ![a].then = "halt"]
                      /\ UNCHANGED bot
                 ELSE /\ bot' = [bot EXCEPT ![i].halted = @ \/ d >= MaxDrawdown]
                      /\ \/ Finish(a)
                         \/ \E pc \in Approved(bot'[i]) : Goto(a, pc)
        /\ UNCHANGED <<mapped, made, rows, firstDone, coins, overlap, faults>>

(* The newest RUNNING run is the one that is marked STOPPED.               *)
Running == {k \in Starts : rows[k].running}
RowsStopped(closed) ==
    rows' = [k \in Starts |-> [open |-> rows[k].open /\ k \notin closed,
                               running |-> rows[k].running /\ k # Max(Running \union {None})]]


(* emergencyStop removes the user's entry, whichever instance it is by now.*)
EmergencyStop(a) ==
    /\ act[a].pc = "halt"
    /\ bot' = [bot EXCEPT ![act[a].i].timer = FALSE]
    /\ mapped' = None /\ firstDone' = FALSE
    /\ Goto(a, "haltRows")
    /\ UNCHANGED <<made, rows, coins, overlap, faults>>

HaltRows(a) ==
    /\ act[a].pc = "haltRows"
    /\ \/ RowsStopped(Starts) /\ UNCHANGED faults
       \/ Fault /\ UNCHANGED rows
    /\ Finish(a)
    /\ UNCHANGED <<mapped, made, bot, firstDone, coins, overlap>>

-----------------------------------------------------------------------------
(* POST /engine/stop finds an active session ...                           *)
RequestStop(a) ==
    /\ Idle(a)
    /\ \E k \in Starts : /\ rows[k].open
                         /\ act' = [act EXCEPT ![a] = [Calm EXCEPT !.pc = "stop", !.s = k]]
    /\ Overlaps(FALSE)
    /\ UNCHANGED <<mapped, made, bot, rows, firstDone, coins, faults>>

(* /stop from a linked Telegram chat looks at the bot, never at the rows.  *)
ChatStop(a) ==
    /\ Idle(a) /\ mapped # None
    /\ act' = [act EXCEPT ![a] = [Calm EXCEPT !.pc = "stop"]]
    /\ Overlaps(FALSE)
    /\ UNCHANGED <<mapped, made, bot, rows, firstDone, coins, faults>>

(* ... and stops the bot, if there is one: the timer, then the position,   *)
(* if there is a price, ...                                                *)
StopBot(a) ==
    /\ act[a].pc = "stop"
    /\ IF mapped = None
       THEN Goto(a, "stopRows") /\ UNCHANGED bot
       ELSE /\ bot' = [bot EXCEPT ![mapped].timer = FALSE]
            /\ \E pc \in {"drop"} \union (IF bot[mapped].held > 0 THEN {"sell"} ELSE {}) :
                  act' = [act EXCEPT ![a].pc = pc, ![a].i = mapped, ![a].then = "drop"]
    /\ UNCHANGED <<mapped, made, rows, firstDone, coins, overlap, faults>>

(* ... then the entry of the map, sold or not, ...                         *)
DropBot(a) ==
    /\ act[a].pc = "drop"
    /\ mapped' = None
    /\ Goto(a, "stopRows")
    /\ UNCHANGED <<made, bot, rows, firstDone, coins, overlap, faults>>

(* ... then the rows, if the request came from the route.                  *)
StopRows(a) ==
    /\ act[a].pc = "stopRows"
    /\ IF act[a].s = None THEN UNCHANGED rows ELSE RowsStopped({act[a].s})
    /\ Finish(a)
    /\ UNCHANGED <<mapped, made, bot, firstDone, coins, overlap, faults>>

(* The process restarts; the rows stay.                                    *)
Restart ==
    /\ Fault
    /\ mapped' = None /\ firstDone' = FALSE
    /\ bot' = [i \in Starts |-> NoBot] /\ act' = [a \in Actors |-> Calm]
    /\ UNCHANGED <<made, rows, coins, overlap>>

(* A behaviour is followed until a start overlaps something: from there on *)
(* the code promises nothing, and the properties below say nothing.        *)
Next ==
    /\ overlap < 2
    /\ \/ Restart
       \/ \E a \in Actors :
             \/ RequestStart(a) \/ CreateRows(a) \/ CheckRunning(a) \/ SetBot(a) \/ Started(a)
             \/ UndoStart(a) \/ StartThrows(a)
             \/ Buy(a) \/ SetLong(a) \/ Sell(a) \/ SetFlat(a) \/ CloseThrows(a)
             \/ \E i \in Starts : BeginTick(a, i)
             \/ Price(a) \/ FirstTick(a) \/ Decide(a) \/ EmergencyStop(a) \/ HaltRows(a)
             \/ RequestStop(a) \/ ChatStop(a) \/ StopBot(a) \/ DropBot(a) \/ StopRows(a)

Spec == Init /\ [][Next]_botVars

-----------------------------------------------------------------------------
(* Every variable keeps its shape.                                         *)
TypeOK ==
    /\ mapped \in Starts \union {None} /\ made \in 0..MaxStarts
    /\ bot \in [Starts -> [timer : BOOLEAN, held : 0..1, halted : BOOLEAN]]
    /\ rows \in [Starts -> [open : BOOLEAN, running : BOOLEAN]]
    /\ \A a \in Actors : act[a].i \in Starts \union {None} /\ act[a].s \in Starts \union {None}
    /\ firstDone \in BOOLEAN /\ coins \in 0..MaxLots /\ overlap \in 0..2 /\ faults \in 0..MaxFaults

(* liveTradingBot.ts:82-196, 438-470: a timer that is running              *)
(* belongs to the bot the map knows, so that a stop reaches it, as long as *)
(* no start ever overlapped another start, a stop or a tick; overlapping   *)
(* ticks and stops, restarts and failed writes included.                   *)
TimersAreKnown == overlap < 2 => \A i \in Starts : bot[i].timer => mapped = i

(* engine.ts:603-635: the stop route needs an active session row, so a bot *)
(* in the map has one, again unless a start overlapped; a failed write can *)
(* take the row from a running bot.                                        *)
BotCanBeStopped == overlap < 2 /\ faults = 0 /\ mapped # None => \E k \in Starts : rows[k].open

(* liveTradingBot.ts:472-637: when nothing overlaps and nothing fails, the *)
(* bots know of exactly the lots that are on the exchange, the probe's and *)
(* those of stopped bots included.                                         *)
CoinsAreKnown ==
    overlap = 0 /\ faults = 0 /\ (\A a \in Actors : Idle(a))
        => coins = MapThenSumSet(LAMBDA i : bot[i].held, Starts)
=============================================================================
