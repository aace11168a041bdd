------------------------------ MODULE Councils ------------------------------
(***************************************************************************)
(* The councils that decide whether a Super Machine may buy: the one of    *)
(* the Jupiter machine (agents/councilService.ts over jupiterRiskAgent.ts, *)
(* technicalAgent.ts, llmStrategist.ts and bot/metaPolicy.ts) and the one  *)
(* of the Binance machine (agents/cexCouncilService.ts).  They are pure    *)
(* decisions over what the feeds say; a behaviour starts with bad news     *)
(* everywhere and lets one reading after another improve.  Confidences and *)
(* scores are in percent, weights in per mille.                            *)
(***************************************************************************)
EXTENDS Integers, Sequences, FiniteSets, FiniteSetsExt, SequencesExt

CONSTANTS
    Candidates,   \* lists of candidate tokens to start from
    MaxTradeUsd   \* the user's cap per trade

CouncilAssumption == MaxTradeUsd \in Nat \ {0}

VARIABLES
    council,    \* "jupiter" or "cex"
    cand,       \* the suggestions of the trending service
    gate,       \* does the user's risk rule allow the order?
    level       \* how good each reading is: an index into its scale

councilVars == <<council, cand, gate, level>>

Agents == {"momentum", "sentiment", "technical", "risk", "llm", "orderbook", "volatility"}
Core == {"momentum", "technical", "risk"}
Vote(v, c) == [vote |-> v, conf |-> c]
Within(lo, x, hi) == Max({lo, Min({x, hi})})

(* The readings, from bad to good.  "answers" are the four LLM providers.  *)
Scale ==
    [open     |-> <<TRUE, FALSE>>,
     spread   |-> <<40, 22, 12, 5>>,
     obi      |-> <<-50, -20, 10, 40>>,
     news     |-> <<-50, -40, 35>>,
     bayes    |-> <<30, 70>>,
     cross    |-> <<"bear", "bull">>,
     strength |-> <<20, 50, 80>>,
     frames   |-> <<-50, 50>>,
     answers  |-> <<<<"AVOID">>, <<"refused", "threw", "BUY">>, <<"refused", "BUY">>>>,
     wins     |-> <<40, 75>>]
(* A trend across all the time frames, for which hub and change stand in   *)
(* on Binance.                                                             *)
CexScale ==
    [open   |-> <<TRUE, FALSE>>,
     spread |-> <<20, 5>>,
     obi    |-> <<-50, 0, 40>>,
     news   |-> <<-50, 35>>,
     hub    |-> <<-80, 0, 40, 48, 80>>,
     invest |-> <<"no", "yes">>,
     cross    |-> <<"bear", "bull">>,
     strength |-> <<20, 80>>,
     answers  |-> <<<<"AVOID">>, <<"threw", "BUY">>, <<"BUY">>>>,
     change |-> <<8, 5, 2>>,
     free   |-> <<4, 100>>]
Scales == IF council = "jupiter" THEN Scale ELSE CexScale
Readings(l) == [d \in DOMAIN Scales |-> Scales[d][l[d]]]

NewsConfidence == 60

-----------------------------------------------------------------------------
(* technicalAgent: what the candles say, overlaid with the time frames.    *)
AnalyzeCandles(cross, strength) ==
    IF cross = "bull" /\ strength >= 55
    THEN Vote("BUY", Min({90, 55 + ((strength - 55) * 12) \div 10 + 10}))
    ELSE IF cross = "bear" /\ strength < 45 THEN Vote("AVOID", 65) ELSE Vote("HOLD", 60)

ApplyContext(v, frames) ==
    IF v.vote = "BUY" /\ frames <= -50 THEN Vote("HOLD", 45)
    ELSE IF v.vote = "BUY" /\ frames >= 50 THEN Vote("BUY", Min({92, v.conf + 6}))
    ELSE v

(* llmStrategist: the providers are asked in turn.  One that refuses hands *)
(* on to the next, one that throws (a timeout) ends the consultation.      *)
Strategist(answers) ==
    LET told == SelectSeq(answers, LAMBDA x : x # "refused")
    IN  IF told = <<>> \/ Head(told) = "threw" THEN Vote("HOLD", 0) ELSE Vote(Head(told), 80)

-----------------------------------------------------------------------------
(* kelly: a quarter of the Kelly fraction, for an average win of 1.5 times *)
(* the average loss; too small a size is none.                             *)
OrderSize(pUp, equity) ==
    LET fraction == Within(0, (pUp * 15 - (100 - pUp) * 10) \div 60, 25)
        raw == (equity * fraction) \div 100
    IN  IF raw < 1 THEN 0 ELSE Min({raw, equity \div 2})

EntryThreshold(regime) == CASE regime = "TRENDING" -> 50 [] regime = "TRANSITION" -> 51 [] OTHER -> 52

(* metaPolicy.decide: the user's risk rule is asked only about an order    *)
(* the policy itself wants to place.                                       *)
Decide(bayes, rl, obi, regime, allowed) ==
    LET pUp == (5 * bayes + 3 * rl + (obi + 100)) \div 10
        wants == pUp > EntryThreshold(regime) /\ obi >= -55
        size == IF wants THEN OrderSize(pUp, 1000) ELSE 0
    IN  [pUp |-> pUp, size |-> size, blocked |-> wants /\ size > 0 /\ ~allowed]

-----------------------------------------------------------------------------
(* candidateRank.compareTradeRank: higher score first, but in a near tie   *)
(* the major.  Ranks(a, b): a comes before b.                              *)
Ranks(a, b) ==
    IF a.total - b.total >= 4 \/ b.total - a.total >= 4 THEN a.total > b.total
    ELSE IF a.major # b.major THEN a.major ELSE a.total > b.total

(* jupiterRiskAgent: volume and momentum of a candidate.                   *)
VolumeScore(v) == CASE v > 10000 -> 100 [] v > 1000 -> 85 [] v > 500 -> 70 [] v > 100 -> 55 [] OTHER -> 40

MomentumScore(c) ==
    LET hour == IF c.hour > 0 /\ c.hour < 8 THEN 10 ELSE IF c.hour > 15 THEN -10 ELSE 0
        day == IF c.day > 0 /\ c.day < 20 THEN 5 ELSE IF c.day > 50 THEN -15 ELSE IF c.day < -20 THEN -10 ELSE 0
    IN  Within(0, c.score + (IF c.board THEN 15 ELSE 0) + hour + day, 100)

Overextended(c) == c.hour > 20 \/ c.day > 60

RankTokens(list) ==
    LET scored == {[c |-> c, major |-> c.major,
                    total |-> (VolumeScore(c.volume) * 35 + MomentumScore(c) * 65) \div 100]
                      : c \in {x \in ToSet(list) : ~Overextended(x)}}
    IN  SetToSortSeq(scored, Ranks)

EntryScore(m) ==
    LET book == CASE m.spread < 8 -> 15 [] m.spread < 15 -> 8 [] m.spread > 25 -> -10 [] OTHER -> 0
        side == CASE m.obi > 20 -> 12 [] m.obi > 5 -> 6 [] m.obi < -15 -> -10 [] OTHER -> 0
        said == CASE m.news > 30 -> 10 [] m.news < -20 -> -8 [] OTHER -> 0
    IN  Within(0, 50 + book + side + said, 100)

RiskThreshold(m) == 4800 + (IF m.spread > 20 THEN 800 ELSE IF m.spread < 10 THEN -300 ELSE 0)

Meta(m) == Decide(m.bayes, 50, m.obi, "TRENDING", gate)

Confidence(m, c) ==
    Within(0, Meta(m).pUp * (IF c.sol THEN 45 ELSE 15) + (IF c.board THEN 1000 ELSE 0)
                + m.news * (IF c.sol THEN 8 ELSE 2) + c.score * (IF c.sol THEN 35 ELSE 70)
                + EntryScore(m) * 10 + VolumeScore(c.volume) * 8, 10000)

(* The three best candidates in turn; "" is one to buy, a skippable miss   *)
(* goes on to the next, and an account-wide one ends the search.           *)
Miss(m, c) ==
    IF m.news < -35 /\ c.sol THEN "negative_sentiment"
    ELSE IF Meta(m).blocked THEN "meta"
    ELSE IF Confidence(m, c) < RiskThreshold(m) THEN "low_confidence"
    ELSE IF VolumeScore(c.volume) < 45 THEN "low_volume"
    ELSE ""

NoPick == [score |-> 0, board |-> FALSE, hour |-> 0, day |-> 0, volume |-> 0, major |-> FALSE, sol |-> FALSE]
Skippable == {"negative_sentiment", "low_confidence", "low_volume"}
RiskDecision(m) ==
    LET all == RankTokens(cand)
        short == [k \in 1..Min({3, Len(all)}) |-> all[k].c]
        stops == {k \in DOMAIN short : Miss(m, short[k]) \notin Skippable}
        k == IF stops = {} THEN 1 ELSE Min(stops)
        none(why) == [pick |-> NoPick, blocked |-> why, conf |-> 0]
    IN  CASE m.open -> none("max_open_positions")
          [] m.spread > 35 -> none("sol_spread_wide")
          [] m.obi < -40 -> none("order_book_adverse")
          [] m.news < -45 -> none("extreme_negative_sentiment")
          [] short = <<>> -> none("no_qualifying_pick")
          [] OTHER -> [pick |-> short[k], blocked |-> Miss(m, short[k]), conf |-> Confidence(m, short[k]) \div 100]

-----------------------------------------------------------------------------
(* Reflection: an agent that was right more often weighs more; the bar is  *)
(* higher while the machine loses.  Weights are those of new agents here.  *)
AccuracyWeight(correct, total) ==
    IF total < 3 THEN 1000 ELSE Within(600, 600 + (correct * 800) \div total, 1400)

AdaptiveThreshold(winPct, samples) ==
    IF samples < 8 \/ (winPct >= 65 /\ winPct <= 70) THEN 630
    ELSE IF winPct < 65 THEN Min({680, 650 + (65 - winPct) * 5}) ELSE 600

ConfidenceGate(a, v) ==
    IF v.conf > 0 /\ v.conf < 63 THEN Vote("HOLD", 0)
    ELSE IF a \in Core /\ v.vote = "BUY" /\ v.conf < 72 THEN Vote("HOLD", v.conf)
    ELSE v

(* The seven votes of the Jupiter council.                                 *)
MomentumVote(r) ==
    IF r.pick = NoPick THEN Vote("HOLD", 0)
    ELSE LET m == MomentumScore(r.pick)
         IN  Vote(IF m >= 72 THEN "BUY" ELSE IF m <= 30 THEN "AVOID" ELSE "HOLD", Within(63, m, 95))

SentimentVote(m) == CASE m.news < -35 -> Vote("AVOID", Min({90, NewsConfidence + 20}))
                   [] m.news > 20 -> Vote("BUY", Min({85, 50 + m.news \div 2}))
                   [] OTHER -> Vote("HOLD", 45)

TechnicalVote(m, r) ==
    IF r.pick = NoPick THEN Vote("HOLD", 30)
    ELSE ApplyContext(AnalyzeCandles(m.cross, m.strength), m.frames)

RiskVote(r) ==
    CASE r.blocked \in {"low_confidence", "no_qualifying_pick", "max_open_positions"} -> Vote("HOLD", 75)
      [] r.blocked # "" -> Vote("AVOID", 75)
      [] r.conf >= 72 -> Vote("BUY", Min({95, r.conf}))
      [] OTHER -> Vote("HOLD", IF r.conf >= 63 THEN Min({95, r.conf}) ELSE 0)

LlmVote(m, r) == IF r.pick = NoPick \/ r.blocked # "" THEN Vote("HOLD", 0) ELSE Strategist(m.answers)

OrderbookVote(m) == CASE m.obi > 18 -> Vote("BUY", Min({85, 45 + (m.obi * 6) \div 10}))
                   [] m.obi < -18 -> Vote("AVOID", Min({85, 45 + (-m.obi * 6) \div 10}))
                   [] OTHER -> Vote("HOLD", 40)

(* Mutant: a strong trend counts as a danger.                              *)
ShunsStrength(m, r) ==
    LET s == IF r.pick = NoPick THEN 50 ELSE m.strength
    IN  CASE s >= 72 -> Vote("AVOID", Min({82, 40 + (s * 45) \div 100}))
          [] s <= 28 -> Vote("BUY", 70)
          [] OTHER -> Vote("HOLD", 42)

VolatilityVote(m, r) ==
    LET s == IF r.pick = NoPick THEN 50 ELSE m.strength
    IN  CASE s >= 72 -> Vote("BUY", Min({82, 40 + (s * 45) \div 100}))
          [] s <= 28 -> Vote("AVOID", 70)
          [] OTHER -> Vote("HOLD", 42)

Votes(m, r) ==
    LET raw == [momentum |-> MomentumVote(r), sentiment |-> SentimentVote(m), technical |-> TechnicalVote(m, r),
                risk |-> RiskVote(r), llm |-> LlmVote(m, r), orderbook |-> OrderbookVote(m),
                volatility |-> VolatilityVote(m, r)]
    IN  [a \in Agents |-> ConfidenceGate(a, raw[a])]

-----------------------------------------------------------------------------
VoteScore(v) == CASE v.vote = "BUY" -> v.conf [] v.vote = "AVOID" -> -v.conf [] OTHER -> 0

Online(votes) == {a \in Agents : votes[a].conf > 0}

(* The weighted mean of the agents that are online, mapped to 0..1, is at  *)
(* the bar (in per mille).                                                 *)
Agree(votes, bar) ==
    LET total == MapThenSumSet(LAMBDA a : AccuracyWeight(0, 0), Online(votes))
    IN  IF total = 0 THEN 500 >= bar
        ELSE 10 * MapThenSumSet(LAMBDA a : VoteScore(votes[a]) * AccuracyWeight(0, 0), Online(votes))
                >= (2 * bar - 1000) * total

Buyers(votes) == {a \in Online(votes) : votes[a].vote = "BUY"}
Vetoed(votes) == \E a \in Agents : votes[a].vote = "AVOID" /\ votes[a].conf >= 72
EnoughBuys(votes, core) ==
    \/ Cardinality(Buyers(votes)) >= 3
    \/ core \subseteq Buyers(votes) /\ Cardinality(Buyers(votes)) >= 2

(* councilEvaluate: the action of the Jupiter council.                     *)
JupiterBuys(m) ==
    LET r == RiskDecision(m)
        votes == Votes(m, r)
    IN  /\ r.blocked = "" /\ r.pick # NoPick
        /\ Agree(votes, AdaptiveThreshold(m.wins, 20))
        /\ EnoughBuys(votes, Core) /\ ~Vetoed(votes)

-----------------------------------------------------------------------------
(* cexCouncilEvaluate: the votes are not gated, and the hub's signal with  *)
(* its confidence is one number here, negative for SELL.                   *)
HubBuy(m) == m.hub > 0
CexRiskVote(m) ==
    CASE m.open -> Vote("HOLD", 70)
      [] m.free < 5 -> Vote("AVOID", 85)
      [] m.spread > 15 -> Vote("AVOID", 75)
      [] m.invest = "no" -> Vote("AVOID", 70)
      [] m.hub >= 50 -> Vote("BUY", Within(45, 50 + (m.hub * 35) \div 100, 88))
      [] OTHER -> Vote("HOLD", 50)

CexVotes(m) ==
    [momentum |-> CASE m.hub >= 45 -> Vote("BUY", Within(35, m.hub, 90))
                    [] m.hub <= -45 -> Vote("AVOID", Within(40, (-m.hub), 90))
                    [] OTHER -> Vote("HOLD", 45),
     sentiment |-> CASE m.news < -35 -> Vote("AVOID", Min({85, NewsConfidence + 15}))
                     [] m.news > 25 -> Vote("BUY", Min({80, 45 + (m.news * 4) \div 10}))
                     [] OTHER -> Vote("HOLD", 40),
     technical |-> AnalyzeCandles(m.cross, m.strength),
     risk |-> CexRiskVote(m),
     llm |-> IF m.open \/ m.free < 5 \/ ~HubBuy(m) THEN Vote("HOLD", 0) ELSE Strategist(m.answers),
     orderbook |-> CASE m.obi > 15 -> Vote("BUY", Min({85, 48 + (m.obi * 55) \div 100}))
                     [] m.obi < -15 -> Vote("AVOID", Min({85, 48 + ((-m.obi) * 55) \div 100}))
                     [] OTHER -> Vote("HOLD", 40),
     volatility |-> CASE m.change >= 6 -> Vote("AVOID", 72)
                      [] HubBuy(m) /\ m.change < 4 -> Vote("BUY", 58)
                      [] OTHER -> Vote("HOLD", 42)]

CexBuys(m) ==
    LET size == Min({MaxTradeUsd, (m.free * 95) \div 100})
    IN  /\ ~m.open /\ size >= 5
        /\ Agree(CexVotes(m), 620)
        /\ EnoughBuys(CexVotes(m), {"momentum", "technical"}) /\ ~Vetoed(CexVotes(m))
        /\ CexRiskVote(m).vote = "BUY"

Buys(l) == IF council = "jupiter" THEN JupiterBuys(Readings(l)) ELSE CexBuys(Readings(l))

-----------------------------------------------------------------------------
Init ==
    /\ \/ council = "jupiter" /\ cand \in Candidates /\ gate \in BOOLEAN
       \/ council = "cex" /\ cand = <<>> /\ gate = TRUE
    /\ level = [d \in DOMAIN Scales |-> 1]

(* One reading gets better; the others stay as they are.                   *)
Improve(d) ==
    /\ level[d] < Len(Scales[d])
    /\ level' = [level EXCEPT ![d] = @ + 1]
    /\ UNCHANGED <<council, cand, gate>>

Next == \E d \in DOMAIN Scales : Improve(d)

Spec == Init /\ [][Next]_councilVars

-----------------------------------------------------------------------------
(* Every variable keeps its shape.                                         *)
TypeOK ==
    /\ council \in {"jupiter", "cex"} /\ gate \in BOOLEAN
    /\ cand \in Candidates \union {<<>>}
    /\ \A d \in DOMAIN Scales : level[d] \in 1..Len(Scales[d])

(* councilService.ts:374-412, cexCouncilService.ts:230-273: a reading that *)
(* improves never turns a buy into a hold, although agents go offline and  *)
(* come back, the mean is taken over the agents online, and votes are      *)
(* capped and gated on the way.  Not so when the risk rule forbids the     *)
(* order: metaPolicy.ts:146-154 asks the rule only when the policy wants   *)
(* to buy, so better odds can then stop a buy that worse odds let through. *)
BetterNeverStops == gate /\ Buys(level) => Buys(level')

=============================================================================
