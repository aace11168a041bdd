--------------------------- MODULE PredictionEdge ---------------------------
(***************************************************************************)
(* The advice on prediction markets: which side of which market of an      *)
(* event is worth backing (dex/predictionMath.ts,                          *)
(* dex/predictionEdgeService.ts).  Prices and probabilities are in percent *)
(* and move while the page is shown.  The chance that the model of         *)
(* volatility gives, a real-valued formula, is a choice.                   *)
(***************************************************************************)
EXTENDS Integers

CONSTANTS
    Markets,            \* the markets of one event
    Cents, Volumes,     \* prices (0 and 100: none on that side) and volumes that occur
    Chances             \* estimates that occur

EdgeAssumption == Cents \subseteq 0..100 /\ Chances \subseteq 0..100 /\ Volumes \subseteq Nat

VARIABLE quote   \* of each market: prices, our estimate, volume, settled or not

Null == -1
MinEv == 8
MinEdge == 7
MinVolume == 5000
Quotes == [yes : Cents, no : Cents, ours : Chances \union {0, 100, Null}, volume : Volumes, settled : BOOLEAN]

(* impliedProbability: a price between 0 and 1.                            *)
Priced(q) == q.yes \in 1..99 /\ q.no \in 1..99

(* judgeEdge: expected value in percent of the stake, 100 (p / price - 1), *)
(* compared without dividing; YES wins a tie.                              *)
Price(q, side) == IF side = "YES" THEN q.yes ELSE q.no
Chance(q, side) == IF side = "YES" THEN q.ours ELSE 100 - q.ours
Best(q) == IF q.ours * q.no >= (100 - q.ours) * q.yes THEN "YES" ELSE "NO"

Qualifies(q, side) ==
    /\ 100 * Chance(q, side) >= (100 + MinEv) * Price(q, side)
    /\ Chance(q, side) - Price(q, side) >= MinEdge
    /\ q.volume >= MinVolume

(* The verdict, and SKIP for a settled market.                             *)
Verdict(q) ==
    IF Priced(q) /\ q.ours # Null /\ ~q.settled /\ Qualifies(q, Best(q)) THEN Best(q) ELSE "SKIP"

(* buildEventInsights: the actionable market with the largest expected     *)
(* value is the pick of the event.                                         *)
Value(q, r) == Chance(q, Verdict(q)) * Price(r, Verdict(r)) - Chance(r, Verdict(r)) * Price(q, Verdict(q))
Actionable(qs) == {m \in Markets : Verdict(qs[m]) # "SKIP"}
TopPicks(qs) == {m \in Actionable(qs) : \A n \in Actionable(qs) : Value(qs[m], qs[n]) >= 0}

Init == quote \in [Markets -> {q \in Quotes : q.ours = Null /\ ~q.settled}]

(* The page is asked for again: prices and volume as they are now.         *)
Reprice(m) ==
    \E side \in {"yes", "no"}, p \in Cents, v \in Volumes :
       quote' = [quote EXCEPT ![m][side] = p, ![m].volume = v]

(* estimateProbability: nothing without statistics of the asset; certain   *)
(* when the time is over, or when touching is enough and the price is      *)
(* through the strike.                                                     *)
Beliefs(stats, over, touch, through) ==
    CASE ~stats -> {Null}
      [] over -> {IF through THEN 100 ELSE 0}
      [] touch /\ through -> {100}
      [] OTHER -> Chances

Estimate(m) ==
    \E stats, over, touch, through \in BOOLEAN :
       \E p \in Beliefs(stats, over, touch, through) : quote' = [quote EXCEPT ![m].ours = p]

Settle(m) == ~quote[m].settled /\ quote' = [quote EXCEPT ![m].settled = TRUE]

Next == \E m \in Markets : Reprice(m) \/ Estimate(m) \/ Settle(m)

Spec == Init /\ [][Next]_quote

-----------------------------------------------------------------------------
(* Every variable keeps its shape.                                         *)
TypeOK == quote \in [Markets -> Quotes]

(* predictionMath.ts:231-328: in a book that is not crossed the side that  *)
(* is advised is the only one with an edge.                                *)
OneSideHasEdge(q) ==
    Verdict(q) # "SKIP" /\ q.yes + q.no >= 100 =>
       LET other == IF Verdict(q) = "YES" THEN "NO" ELSE "YES"
       IN  Chance(q, other) < Price(q, other)

(* predictionMath.ts:231-328, predictionEdgeService.ts:229-261: advice is  *)
(* stable.  When the side that is advised becomes cheaper, or our chance   *)
(* of it larger, and nothing else changes, it is still advised and a top   *)
(* pick stays one.                                                         *)
AdviceIsStable ==
    \A m \in Markets :
       LET side == Verdict(quote[m])
           better == /\ side # "SKIP" /\ Price(quote'[m], side) \in 1..Price(quote[m], side)
                     /\ quote'[m].ours # Null /\ Chance(quote'[m], side) >= Chance(quote[m], side)
                     /\ \A other \in {"YES", "NO"} \ {side} : Price(quote'[m], other) = Price(quote[m], other)
                     /\ quote'[m].volume >= quote[m].volume /\ ~quote'[m].settled
                     /\ \A n \in Markets \ {m} : quote'[n] = quote[n]
       IN  /\ OneSideHasEdge(quote[m])
           /\ better => Verdict(quote'[m]) = side /\ (m \in TopPicks(quote) => m \in TopPicks(quote'))
=============================================================================
