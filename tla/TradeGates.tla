----------------------------- MODULE TradeGates -----------------------------
(***************************************************************************)
(* The gates in front of an entry of the live bot, in cents and percent:   *)
(* the size chosen at the start (exchange/liveOrderSizing.ts), readiness   *)
(* (risk/readiness.ts), the execution gate (packages/bot), the advisor     *)
(* (signals/tradeAdvisor.ts) and the size the bot keeps for its next       *)
(* entry.  A behaviour starts on a fine day and lets readings get worse,   *)
(* with ticks in between.                                                  *)
(***************************************************************************)
EXTENDS Integers, Sequences, FiniteSets, FiniteSetsExt

CONSTANTS
    Requests,    \* start requests: [pct, asked, rule], 0 for a cap not given
    FreeUsdt, EnvMax, Equity,
    MaxWorse     \* bound: readings that get worse in one behaviour

GatesAssumption == FreeUsdt \in Nat /\ EnvMax \in Nat /\ Equity \in Nat \ {0} /\ MaxWorse \in Nat

VARIABLES
    start,     \* the request the bot was started with
    size,      \* bot.orderSizeUsdt
    hub,       \* the signal the providers agree on
    level,     \* how bad each reading is: an index into its scale
    bought     \* what the last tick bought for

gateVars == <<start, size, hub, level, bought>>

-----------------------------------------------------------------------------
(* computeLiveOrderSize: the smallest of the slider's share, the caps that *)
(* are given and the share of the balance that may be spent at all.        *)
LiveOrderSize(r) ==
    Min({(FreeUsdt * Max({10, Min({100, r.pct})})) \div 100, (FreeUsdt * 95) \div 100}
        \union ({r.asked, r.rule, EnvMax} \ {0}))

(* computeAutomationReadiness: automation is on, the key can trade and not *)
(* withdraw, and the user's risk policy is enabled.                        *)
Blockers(on, key, policy) ==
    (IF on THEN {} ELSE {"disabled"}) \union (IF policy THEN {} ELSE {"policy"})
        \union (IF key = "trade_only" THEN {} ELSE {"key"})

(* /engine/start goes on only with providers, readiness and 5 USDT.        *)
Admitted(r) == Blockers(TRUE, "trade_only", TRUE) = {} /\ LiveOrderSize(r) >= 500

-----------------------------------------------------------------------------
(* The readings, from good to bad.                                         *)
Scale ==
    [conf     |-> <<50, 5>>,        \* the AI signal's confidence
     range    |-> <<10, 16, 30>>,   \* the ATR range
     losers   |-> <<5, 10>>,        \* of ten closed trades
     cooled   |-> <<TRUE, FALSE>>,
     switch   |-> <<TRUE, FALSE>>,  \* LIVE_AUTOMATION_ENABLED
     sources  |-> <<2, 1, 0>>,
     against  |-> <<1, 2, 3>>,      \* the hub's conviction turns against a buy
     change   |-> <<5, 18>>,
     funding  |-> <<0, 12>>,
     news     |-> <<0, -30>>,
     greed    |-> <<50, 80>>,
     streak   |-> <<0, 3, 5>>,
     fraction |-> <<6, 3>>]

Readings(l) == [d \in DOMAIN Scale |-> Scale[d][l[d]]]

(* The hub's confidence, for each of its signals.                          *)
HubConfidence == [BUY |-> <<80, 50, 20>>, HOLD |-> <<80, 50, 20>>, SELL |-> <<20, 40, 70>>]

(* evaluateSignal: the checks of a BUY and what each one found.            *)
EvaluateSignal(m) ==
    [confidence |-> m.conf >= 10, volatility |-> m.range <= 25, lossRate |-> m.losers * 10 <= 90, cooldown |-> m.cooled]

(* shouldExecuteTrade, for a BUY of a bot without a position whose         *)
(* drawdown halt is off.                                                   *)
ShouldExecute(m) == \A check \in DOMAIN EvaluateSignal(m) : EvaluateSignal(m)[check]

(* evaluateTradeIntent: the reasons, by severity.                          *)
Blocks(m) ==
    (IF m.switch THEN {} ELSE {"OPERATOR_MAINTENANCE"})
    \union (IF m.streak >= 5 THEN {"LOSING_STREAK_BLOCK"} ELSE {})
    \union (IF hub = "SELL" /\ HubConfidence[hub][m.against] >= 60 THEN {"CONSENSUS_SELL"} ELSE {})

Warnings(m) ==
    (IF m.sources = 0 THEN {"INSUFFICIENT_PROVIDERS"} ELSE {})
    \union (IF hub = "SELL" /\ HubConfidence[hub][m.against] \in 35..59 THEN {"CONSENSUS_SELL"} ELSE {})
    \union (IF m.change >= 18 THEN {"EXTREME_VOLATILITY"} ELSE {})
    \union (IF m.funding >= 12 THEN {"HIGH_FUNDING_LONGS"} ELSE {})
    \union (IF m.news <= -30 THEN {"NEGATIVE_NEWS"} ELSE {})
    \union (IF m.greed >= 80 THEN {"EXTREME_GREED"} ELSE {})
    \union (IF m.streak \in 3..4 THEN {"LOSING_STREAK"} ELSE {})
    \union (IF m.range >= 25 THEN {"HIGH_PROJECTED_LOSS"} ELSE {})

Notes(m) == IF hub = "BUY" /\ HubConfidence[hub][m.against] < 35 THEN {"WEAK_BUY"} ELSE {}

Halving == {"LOSING_STREAK", "EXTREME_VOLATILITY", "WEAK_BUY", "HIGH_FUNDING_LONGS", "NEGATIVE_NEWS"}
RecommendedSize(m, s) ==
    LET capped == Min({s, (Equity * Min({6, m.fraction})) \div 100})
    IN  IF (Warnings(m) \union Notes(m)) \intersect Halving # {} THEN capped \div 2 ELSE capped

(* rollUpSeverity, decisionFromSeverity                                    *)
Decision(m) == IF Blocks(m) # {} THEN "block" ELSE IF Warnings(m) # {} THEN "caution" ELSE "ok"

(* What a BUY tick spends: the whole size, or on caution the smaller of    *)
(* the two, but never under one dollar.                                    *)
Spend(l, s) ==
    LET m == Readings(l)
    IN  IF ~ShouldExecute(m) \/ Decision(m) = "block" THEN 0
        ELSE IF Decision(m) = "caution" THEN Min({s, Max({100, RecommendedSize(m, s)})}) ELSE s

-----------------------------------------------------------------------------
Init ==
    /\ start \in {r \in Requests : Admitted(r)}
    /\ size = LiveOrderSize(start)
    /\ hub \in {"BUY", "HOLD", "SELL"}
    /\ level = [d \in DOMAIN Scale |-> 1]
    /\ bought = 0

(* A BUY tick; the bot keeps a size the advisor reduced.                   *)
Tick ==
    /\ bought' = Spend(level, size)
    /\ size' = IF bought' = 0 THEN size ELSE bought'
    /\ UNCHANGED <<start, hub, level>>

Worsen(d) ==
    /\ level[d] < Len(Scale[d])
    /\ MapThenSumSet(LAMBDA e : level[e] - 1, DOMAIN Scale) < MaxWorse
    /\ level' = [level EXCEPT ![d] = @ + 1]
    /\ UNCHANGED <<start, size, hub, bought>>

Next == Tick \/ \E d \in DOMAIN Scale : Worsen(d)

Spec == Init /\ [][Next]_gateVars

-----------------------------------------------------------------------------
(* Every variable keeps its shape.                                         *)
TypeOK ==
    /\ start \in Requests /\ size \in Nat /\ bought \in Nat
    /\ hub \in {"BUY", "HOLD", "SELL"}
    /\ \A d \in DOMAIN Scale : level[d] \in 1..Len(Scale[d])

(* liveOrderSizing.ts:51-107, liveTradingBot.ts:380-436: no sequence of    *)
(* ticks buys for more than any of the caps the bot was started under, or  *)
(* leaves it with less than a dollar to trade.                             *)
WithinCaps ==
    /\ \A cap \in {start.asked, start.rule, EnvMax, (FreeUsdt * 95) \div 100} \ {0} : size <= cap /\ bought <= cap
    /\ size >= 100

(* tradeAdvisor.ts:106-384: while readings only get worse, the next entry  *)
(* never gets bigger: no warning outweighs a block, no reduction that was  *)
(* already made is undone, and no reason that appears hides another.       *)
WorseNeverBuysMore == Spend(level', size') <= Spend(level, size)
=============================================================================
