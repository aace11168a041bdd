------------------------------ MODULE MCDesks ------------------------------
(***************************************************************************)
(* The safety of the machines, bots and watchers that trade, and of the    *)
(* gates and councils that let them.  They share no state in the model, so *)
(* one run checks them side by side: a behaviour belongs to the component  *)
(* its scene names while the others rest, and the scene never changes.     *)
(* The Super Machine has variables of its own; those of the other          *)
(* components are the first of v1, ..., v9, and the rest stay at Unused.   *)
(* The state spaces add up and do not multiply.  The Jupiter exits have    *)
(* two scenes, with different constants.                                   *)
(***************************************************************************)
EXTENDS SuperMachine, TLC, TLAPS

CONSTANTS c1, c2, Unused

\* The constants of the Jupiter exits ...
CONSTANTS Runs, Entry, TopMark, TakeProfit, StopLoss, Tight, Activation, Delta, MaxOpens, MaxSaves

\* ... of the limit orders, the predictions, the paper traders and the candle
\* store.  Their runs, calls, actors and jobs are the runs of the exits.
CONSTANTS Kept, MaxOrders, MaxLost, Endpoints, Steps, MaxTxs, MaxFaults, Engines, MaxTrades,
          Page, Target, Keep, Recent, FirstNow, LastNow

VARIABLES scene, v1, v2, v3, v4, v5, v6, v7, v8, v9

\* The two actors of every component are alike, the machine's passes too.
Alike == Permutations({c1, c2})

slots == <<v1, v2, v3, v4, v5, v6, v7, v8, v9>>

\* The components with proofs: the exits with two overlapping runs (R) and
\* with one run against a request that saves settings (E), and the limit
\* orders, predictions, paper traders and candle store as R has them.
R == INSTANCE DesksProofs WITH
        pos <- v1, top <- v2, watch <- v3, peakWrite <- v4, exitHot <- v5, prefs <- v6, config <- v7,
        opens <- v8, saves <- v9,
        limits <- v1, created <- v2, run <- v3, swapped <- v4, unsaid <- v5,
        asked <- v1, call <- v2, txs <- v3, held <- v4, log <- v5, faults <- v6,
        engine <- v1, listed <- v2, ticking <- v3, current <- v4, trades <- v5, act <- v6, overlap <- v7,
        raced <- v8, died <- v9,
        now <- v1, store <- v2, job <- v3, done <- v4, mail <- v5, look <- v6, told <- v7, odd <- v8, misses <- v9,
        Calls <- Runs, Actors <- Runs, Jobs <- Runs
E == INSTANCE DesksProofs WITH
        pos <- v1, top <- v2, watch <- v3, peakWrite <- v4, exitHot <- v5, prefs <- v6, config <- v7,
        opens <- v8, saves <- v9,
        Runs <- {c1}, Entry <- 3, TopMark <- 6, TakeProfit <- 3, StopLoss <- 2, Tight <- 1,
        Activation <- 1, Delta <- 1, MaxOpens <- 2, MaxSaves <- 1,
        limits <- v1, created <- v2, run <- v3, swapped <- v4, unsaid <- v5,
        asked <- v1, call <- v2, txs <- v3, held <- v4, log <- v5, faults <- v6,
        engine <- v1, listed <- v2, ticking <- v3, current <- v4, trades <- v5, act <- v6, overlap <- v7,
        raced <- v8, died <- v9,
        now <- v1, store <- v2, job <- v3, done <- v4, mail <- v5, look <- v6, told <- v7, odd <- v8, misses <- v9,
        Calls <- Runs, Actors <- Runs, Jobs <- Runs
O == INSTANCE OneInch WITH
        cash <- v1, bag <- v2, book <- v3, caller <- v4, exitPause <- v5, asks <- v6,
        Callers <- {c1, c2}, Funds <- 2, MaxLots <- 3, MaxAsks <- 3

B == INSTANCE LiveBot WITH
        mapped <- v1, made <- v2, bot <- v3, rows <- v4, act <- v5, firstDone <- v6, coins <- v7, overlap <- v8,
        faults <- v9,
        Actors <- {c1, c2}, MaxStarts <- 2, MaxLots <- 2, MaxFaults <- 1

\* Candidates of the council: a major and two others in a near tie, two
\* majors in one, one with too little volume, one that ran away.
Token(score, board, hour, volume, major, sol) ==
    [score |-> score, board |-> board, hour |-> hour, day |-> 5, volume |-> volume, major |-> major, sol |-> sol]
Lists ==
    {<<Token(70, TRUE, 3, 20000, TRUE, TRUE), Token(72, FALSE, 3, 2000, FALSE, FALSE),
       Token(78, FALSE, 2, 2000, FALSE, FALSE)>>,
     <<Token(80, FALSE, 3, 50, FALSE, FALSE), Token(75, TRUE, 3, 600, FALSE, FALSE)>>,
     <<Token(60, TRUE, 30, 2000, FALSE, FALSE)>>}
K == INSTANCE Councils WITH
        council <- v1, cand <- v2, gate <- v3, level <- v4,
        Candidates <- Lists, MaxTradeUsd <- 10
G == INSTANCE TradeGates WITH
        start <- v1, size <- v2, hub <- v3, level <- v4, bought <- v5,
        Requests <- [pct : {5, 100}, asked : {0, 900}, rule : {0, 1500}],
        FreeUsdt <- 8000, EnvMax <- 2500, Equity <- 40000, MaxWorse <- 2
M == INSTANCE PredictionEdge WITH
        quote <- v1,
        Markets <- {c1, c2}, Cents <- {0, 35, 65}, Volumes <- {0, 5000}, Chances <- {20, 80}
X == INSTANCE SmartRouter WITH
        free <- v1, rows <- v2, call <- v3, asks <- v4, sales <- v5, odd <- v6, faults <- v7,
        Calls <- {c1, c2}, Amounts <- {1, 2}, MinUsdt <- 2, BookPrices <- {0, 101}, DexPrices <- {0, 100, 104},
        DexMids <- {100, 102}, Cap <- 2, Funds <- 4, MaxAsks <- 4, MaxFaults <- 1
Answers == {[out |-> o, ms |-> 80, impact |-> 0] : o \in {0, 20, 85, 100}} \union
           {[out |-> o, ms |-> 1680, impact |-> 2] : o \in {85, 100}}
N == INSTANCE RouteCompare WITH
        quotes <- v1, cache <- v2, memory <- v3, used <- v4,
        Quotes <- Answers, OkxOuts <- {0, 300}, MaxSamples <- 4

T == INSTANCE ModelPromotion WITH
        cand <- v1, metrics <- v2, champ <- v3, table <- v4, host <- v5, serving <- v6, trained <- v7, odd <- v8,
        Hosts <- {c1, c2}, Sharpe <- <<100, 104, 120>>, Sound <- {1, 3}

\* Two quotes that differ in size and venue, and a swap near the cap.
Wants == {[amount |-> 2, venue |-> "any", slip |-> 100, taker |-> FALSE, bypass |-> FALSE],
          [amount |-> 4, venue |-> "one", slip |-> -1, taker |-> FALSE, bypass |-> TRUE],
          [amount |-> 4, venue |-> "any", slip |-> 1900, taker |-> TRUE, bypass |-> FALSE]}
Depth == [any |-> [a \in {2, 4} |-> IF a = 2 THEN 20 ELSE 38], one |-> [a \in {2, 4} |-> IF a = 2 THEN 19 ELSE 30]]
J == INSTANCE JupiterGateway WITH
        now <- v1, cache <- v2, limited <- v3, lastFetch <- v4, call <- v5, told <- v6, asks <- v7, trouble <- v8,
        Calls <- {c1, c2}, Orders <- Wants, Out <- Depth, Gap <- 1, Ttl <- 1, MaxWait <- 1, Backoff <- 2, Stale <- 3,
        LastNow <- 4, MaxAsks <- 3, MaxTrouble <- 2

ASSUME T!PromotionAssumption /\ J!GatewayAssumption
ASSUME X!RouterAssumption /\ N!CompareAssumption
ASSUME M!EdgeAssumption /\ O!OneInchAssumption
ASSUME B!LiveBotAssumption /\ K!CouncilAssumption /\ G!GatesAssumption
ASSUME DesksAssumption ==
    /\ R!X!ExitsAssumption /\ E!X!ExitsAssumption
    /\ R!L!LimitAssumption /\ R!Q!PredictionsAssumption /\ R!P!PaperAssumption
    /\ R!H!CandleAssumption /\ R!ShortStretch /\ FirstNow <= LastNow

after7 == <<v8, v9>>
after6 == <<v7, after7>>
after5 == <<v6, after6>>
after4 == <<v5, after5>>
after1 == <<v2, v3, v4, after4>>

Rest7 == v8 = Unused /\ v9 = Unused
Rest6 == v7 = Unused /\ Rest7
Rest5 == v6 = Unused /\ Rest6
Rest4 == v5 = Unused /\ Rest5
Rest1 == v2 = Unused /\ v3 = Unused /\ v4 = Unused /\ Rest4
Rest0 == v1 = Unused /\ Rest1

DesksInit ==
    /\ Init
    /\ \/ scene = "machine" /\ Rest0
       \/ /\ row = EmptyRow
          /\ \/ scene = "runs" /\ R!X!Init
             \/ scene = "saves" /\ E!X!Init
             \/ scene = "limit" /\ R!L!Init /\ Rest5
             \/ scene = "oneinch" /\ O!Init /\ Rest6
             \/ scene = "live" /\ B!Init
             \/ scene = "paper" /\ R!P!Init
             \/ scene = "council" /\ K!Init /\ Rest4
             \/ scene = "gates" /\ G!Init /\ Rest5
             \/ scene = "bets" /\ R!Q!Init /\ Rest6
             \/ scene = "edge" /\ M!Init /\ Rest1
             \/ scene = "candles" /\ R!H!Init
             \/ scene = "router" /\ X!Init /\ Rest7
             \/ scene = "routes" /\ N!Init /\ Rest4
             \/ scene = "models" /\ T!Init /\ v9 = Unused
             \/ scene = "gateway" /\ J!Init /\ v9 = Unused

DesksNext ==
    \/ scene = "machine" /\ Next /\ UNCHANGED <<scene, slots>>
    \/ scene = "runs" /\ R!X!Next /\ UNCHANGED <<scene, vars>>
    \/ scene = "saves" /\ E!X!Next /\ UNCHANGED <<scene, vars>>
    \/ scene = "limit" /\ R!L!Next /\ UNCHANGED <<scene, vars, after5>>
    \/ scene = "oneinch" /\ O!Next /\ UNCHANGED <<scene, vars, after6>>
    \/ scene = "live" /\ B!Next /\ UNCHANGED <<scene, vars>>
    \/ scene = "paper" /\ R!P!Next /\ UNCHANGED <<scene, vars>>
    \/ scene = "council" /\ K!Next /\ UNCHANGED <<scene, vars, after4>>
    \/ scene = "gates" /\ G!Next /\ UNCHANGED <<scene, vars, after5>>
    \/ scene = "bets" /\ R!Q!Next /\ UNCHANGED <<scene, vars, after6>>
    \/ scene = "edge" /\ M!Next /\ UNCHANGED <<scene, vars, after1>>
    \/ scene = "candles" /\ R!H!Next /\ UNCHANGED <<scene, vars>>
    \/ scene = "router" /\ X!Next /\ UNCHANGED <<scene, vars, after7>>
    \/ scene = "routes" /\ N!Next /\ UNCHANGED <<scene, vars, after4>>
    \/ scene = "models" /\ T!Next /\ UNCHANGED <<scene, vars, v9>>
    \/ scene = "gateway" /\ J!Next /\ UNCHANGED <<scene, vars, v9>>

DesksSpec == DesksInit /\ [][DesksNext]_<<scene, vars, slots>>

\* The type invariant of the component in the scene.
Types ==
    CASE scene = "machine" -> TypeOK
      [] scene = "runs" -> R!X!TypeOK
      [] scene = "saves" -> E!X!TypeOK
      [] scene = "limit" -> R!L!TypeOK
      [] scene = "oneinch" -> O!TypeOK
      [] scene = "live" -> B!TypeOK
      [] scene = "paper" -> R!P!TypeOK
      [] scene = "council" -> K!TypeOK
      [] scene = "gates" -> G!TypeOK
      [] scene = "bets" -> R!Q!TypeOK
      [] scene = "edge" -> M!TypeOK
      [] scene = "candles" -> R!H!TypeOK
      [] scene = "router" -> X!TypeOK
      [] scene = "routes" -> N!TypeOK
      [] scene = "models" -> T!TypeOK
      [] scene = "gateway" -> J!TypeOK

\* JupiterExits: a row's trailing peak is a mark of that row.
PeakIsOwn == (scene = "runs" => R!X!PeakIsOwn) /\ (scene = "saves" => E!X!PeakIsOwn)
\* JupiterExits: while a row cools down only runs under way sell it.
SellsPerCooldown == (scene = "runs" => R!X!SellsPerCooldown) /\ (scene = "saves" => E!X!SellsPerCooldown)
\* LimitOrders, PaperBot, Predictions, CandleStore: an order is swapped once
\* per run and lost answer at most, a paper trade's PnL is booked once per
\* actor that raced, a bet is sent once and logged when it landed, a closed
\* bar is announced once.
DoneOnce ==
    /\ scene = "limit" => R!L!FillsBounded
    /\ scene = "paper" => R!P!PnlBookedOnce
    /\ scene = "bets" => R!Q!SentOnce /\ R!Q!LogIsTrue
    /\ scene = "candles" => R!H!AnnouncedOnce
\* LiveBot, PaperBot, SmartRouter, CandleStore, ModelPromotion: what runs and
\* what is held can be found again: the timers, the bot a stop asks for, the
\* lots, the open paper trades, the tokens on Binance, the closed bars, the
\* row of the champion.
BooksAndPicksHold ==
    /\ scene = "live" => B!TimersAreKnown /\ B!BotCanBeStopped /\ B!CoinsAreKnown
    /\ scene = "paper" => R!P!OpenTradesAreKnown
    /\ scene = "candles" => R!H!StoreIsWhole
    /\ scene = "router" => X!SpotBookBalances
    /\ scene = "models" => T!ChampionIsSound
\* TradeGates, SmartRouter, RouteCompare, JupiterGateway: what is let through
\* is within bounds: the caps of a live bot, the price of the venue a trade is
\* sent to, a cached quote.
    /\ scene = "gateway" => J!QuotesAreExplained /\ J!SlippageIsBounded
    /\ scene = "gates" => G!WithinCaps
    /\ scene = "router" => X!RouteIsBest
    /\ scene = "routes" => N!PickIsNearBest /\ N!MoreNeverLoses
\* Councils, TradeGates, PredictionEdge, ModelPromotion, JupiterGateway: better
\* readings never stop a buy of a council, worse ones never enlarge the bot's
\* next entry, a better price or chance never withdraws the advice, a champion
\* yields only to a model that beats it, and a quote is young when it is given.
GatesHold ==
    [][/\ scene = "council" => K!BetterNeverStops
       /\ scene = "gates" => G!WorseNeverBuysMore
       /\ scene = "edge" => M!AdviceIsStable
       /\ scene = "models" => T!ChampionGetsBetter
       /\ scene = "gateway" => J!QuotesAreYoung]_<<scene, slots>>

-----------------------------------------------------------------------------
(* What these components keep by themselves, a run of all the desks keeps. *)

\* What SuperMachine assumes, which DesksProofs extends.
LEMMA MachineAssumptions ==
        /\ R!IsFiniteSet(Pilots) /\ E!IsFiniteSet(Pilots)
        /\ LastDay \in Nat \ {0} /\ MaxRequests \in Nat /\ MaxOpenPositions \in Nat /\ PilotMaxOpen \in Nat
        /\ MaxTradeUsd \in Nat \ {0} /\ MaxDailyTrades \in Nat \ {0} /\ MaxDailyVolumeUsd \in Nat \ {0}
  BY CapsArePositive, BoundsAreNats, PilotsAreFinite DEF IsFiniteSet, R!IsFiniteSet, E!IsFiniteSet

DesksKept ==
    /\ scene = "runs" => R!EInv
    /\ scene = "saves" => E!EInv
    /\ scene = "limit" => R!LInv
    /\ scene = "bets" => R!QInv
    /\ scene = "paper" => R!PInv
    /\ scene = "candles" => R!HInv /\ R!TimelyInv

\* They start as they do by themselves ...
LEMMA InitKept == DesksInit => DesksKept
  <1> SUFFICES ASSUME DesksInit PROVE DesksKept
    OBVIOUS
  <1>1. CASE scene = "runs"
    <2>1. R!X!Init
      BY <1>1 DEF DesksInit
    <2> QED BY <1>1, <2>1, DesksAssumption, MachineAssumptions, R!InitEInv DEF DesksKept
  <1>2. CASE scene = "saves"
    <2>1. E!X!Init
      BY <1>2 DEF DesksInit
    <2> QED BY <1>2, <2>1, DesksAssumption, MachineAssumptions, E!InitEInv DEF DesksKept
  <1>3. CASE scene = "limit"
    <2>1. R!L!Init
      BY <1>3 DEF DesksInit
    <2> QED BY <1>3, <2>1, DesksAssumption, MachineAssumptions, R!InitLInv DEF DesksKept
  <1>4. CASE scene = "bets"
    <2>1. R!Q!Init
      BY <1>4 DEF DesksInit
    <2> QED BY <1>4, <2>1, DesksAssumption, MachineAssumptions, R!InitQInv DEF DesksKept
  <1>5. CASE scene = "paper"
    <2>1. R!P!Init
      BY <1>5 DEF DesksInit
    <2> QED BY <1>5, <2>1, DesksAssumption, MachineAssumptions, R!InitPInv DEF DesksKept
  <1>6. CASE scene = "candles"
    <2>1. R!H!Init
      BY <1>6 DEF DesksInit
    <2> QED BY <1>6, <2>1, DesksAssumption, MachineAssumptions, R!InitHInv, R!InitTimelyInv DEF DesksKept
  <1> QED BY <1>1, <1>2, <1>3, <1>4, <1>5, <1>6 DEF DesksKept

\* ... and step as they do by themselves, or rest.
LEMMA KeptInductive == DesksKept /\ [DesksNext]_<<scene, vars, slots>> => DesksKept'
  <1> SUFFICES ASSUME DesksKept, [DesksNext]_<<scene, vars, slots>> PROVE DesksKept'
    OBVIOUS
  <1>0. scene' = scene
    BY DEF DesksNext
  <1>1. CASE scene = "runs"
    <2>1. [R!X!Next]_(R!X!exitVars)
      BY <1>1 DEF DesksNext, slots, R!X!exitVars
    <2> QED BY <1>0, <1>1, <2>1, MachineAssumptions, R!EInvInductive DEF DesksKept
  <1>2. CASE scene = "saves"
    <2>1. [E!X!Next]_(E!X!exitVars)
      BY <1>2 DEF DesksNext, slots, E!X!exitVars
    <2> QED BY <1>0, <1>2, <2>1, MachineAssumptions, E!EInvInductive DEF DesksKept
  <1>3. CASE scene = "limit"
    <2>1. [R!L!Next]_(R!L!limitVars)
      BY <1>3 DEF DesksNext, slots, R!L!limitVars
    <2> QED BY <1>0, <1>3, <2>1, MachineAssumptions, R!LInvInductive DEF DesksKept
  <1>4. CASE scene = "bets"
    <2>1. [R!Q!Next]_(R!Q!predictVars)
      BY <1>4 DEF DesksNext, slots, R!Q!predictVars
    <2> QED BY <1>0, <1>4, <2>1, MachineAssumptions, R!QInvInductive DEF DesksKept
  <1>5. CASE scene = "paper"
    <2>1. [R!P!Next]_(R!P!paperVars)
      BY <1>5 DEF DesksNext, slots, R!P!paperVars
    <2> QED BY <1>0, <1>5, <2>1, MachineAssumptions, R!PInvInductive DEF DesksKept
  <1>6. CASE scene = "candles"
    <2>1. [R!H!Next]_(R!H!candleVars)
      BY <1>6 DEF DesksNext, slots, R!H!candleVars
    <2>2. R!TimelyInv /\ R!Timely /\ R!HInv
      BY <1>6, MachineAssumptions, R!TimelyInvTimely DEF DesksKept
    <2>3. R!HInv'
      BY <2>1, <2>2, MachineAssumptions, R!HInvInductive
    <2>4. R!TimelyInv'
      BY <2>1, <2>2, MachineAssumptions, R!TimelyInvInductive
    <2> QED BY <1>0, <1>6, <2>3, <2>4 DEF DesksKept
  <1> QED BY <1>0, <1>1, <1>2, <1>3, <1>4, <1>5, <1>6 DEF DesksKept

\* jupiterOpenPositionWatcher.ts:196-198, in a run of all the desks: the peak
\* of a row was quoted for that row, whichever writes are still under way.
THEOREM RunPeakIsOwn == DesksSpec => []PeakIsOwn
  <1>1. DesksKept => PeakIsOwn
    BY MachineAssumptions, R!EInvPeak, E!EInvPeak DEF DesksKept, PeakIsOwn
  <1> QED BY <1>1, InitKept, KeptInductive, PTL DEF DesksSpec

\* jupiterOpenPositionWatcher.ts:103-104 and 239, in a run of all the desks:
\* a row's cooldown sees no more sales than there are runs.
THEOREM RunSellsPerCooldown == DesksSpec => []SellsPerCooldown
  <1>1. DesksKept => SellsPerCooldown
    BY MachineAssumptions, R!EInvSales, E!EInvSales DEF DesksKept, SellsPerCooldown
  <1> QED BY <1>1, InitKept, KeptInductive, PTL DEF DesksSpec

\* limitOrders.ts:221-240, jupiterPredictionService.ts:297-334,
\* paperExecution.ts:49-106, klineService.ts:152-167, in a run of all the
\* desks: no order is swapped, no bet is sent, no paper trade is booked and no
\* bar is announced more often than it may.
THEOREM RunDoneOnce == DesksSpec => []DoneOnce
  <1>1. DesksKept => DoneOnce
    <2> SUFFICES ASSUME DesksKept PROVE DoneOnce
      OBVIOUS
    <2>1. scene = "limit" => R!L!FillsBounded
      BY MachineAssumptions, R!LInvFills DEF DesksKept
    <2>2. scene = "paper" => R!P!PnlBookedOnce
      BY MachineAssumptions, R!PInvBooked DEF DesksKept
    <2>3. scene = "bets" => R!Q!SentOnce /\ R!Q!LogIsTrue
      BY MachineAssumptions, R!QInvSent, R!QInvLog DEF DesksKept
    <2>4. scene = "candles" => R!H!AnnouncedOnce
      BY MachineAssumptions, R!HInvAnnounced DEF DesksKept
    <2> QED BY <2>1, <2>2, <2>3, <2>4 DEF DoneOnce
  <1> QED BY <1>1, InitKept, KeptInductive, PTL DEF DesksSpec
=============================================================================
