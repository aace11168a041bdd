---------------------------- MODULE RouteCompare ----------------------------
(***************************************************************************)
(* The execution engine (dex/executionEngineService.ts): which venue a     *)
(* Jupiter swap is sent to.  Every router is asked for a quote, the quotes *)
(* are scored by output, speed, price impact, past fills and MEV risk, and *)
(* the best one that can be executed is remembered as a success.  One      *)
(* token and side.  The routers are Jupiter's own route, one venue on its  *)
(* own, and OKX, whose quote cannot be executed.  Scores are in 1/10000.   *)
(***************************************************************************)
EXTENDS Integers, FiniteSets, FiniteSetsExt

CONSTANTS
    Quotes,          \* answers of a router: out, latency in ms, impact in percent
    OkxOuts,         \* output quoted by OKX; 0: none
    MaxSamples       \* bound: picks that are remembered

CompareAssumption ==
    /\ Quotes \subseteq [out : Nat, ms : Nat, impact : Nat] /\ OkxOuts \subseteq Nat /\ MaxSamples \in Nat

VARIABLES
    quotes,   \* the quotes of the last comparison
    cache,    \* compareCache: what it picked and how old that is
    memory,   \* routeMemory: picks and wins
    used      \* the route the last swap was sent by

compareVars == <<quotes, cache, memory, used>>

Routers == {"metis", "direct", "okx"}
Executable == {"metis", "direct"}
NoQuote == [out |-> 0, ms |-> 0, impact |-> 0]
Fresh(pick) == [pick |-> pick, age |-> 0]
NoCache == [pick |-> "none", age |-> 2]

Init ==
    /\ quotes = [r \in Routers |-> NoQuote]
    /\ cache = NoCache /\ used = "none"
    /\ memory = [samples |-> 0, metis |-> 0, direct |-> 0]

-----------------------------------------------------------------------------
Clamp(low, high, x) == Max({low, Min({high, x})})

(* historicalFillScore: picks count as fills, and none ever as a failure.  *)
HistFill(mem, r) ==
    CASE mem.samples < 3 -> 700
      [] r = "okx" -> 400
      [] OTHER -> Clamp(200, 1000, 400 + (600 * mem[r]) \div (mem.metis + mem.direct))

MevScore(r) == CASE r = "metis" -> 325 [] r = "okx" -> 350 [] OTHER -> 390

(* scoreRoute, rounded to a tenth of a percent.                            *)
Score(q, mem, r) ==
    LET best == Max({q[s].out : s \in Routers})
        output == (5000 * q[r].out) \div best
        speed == Clamp(300, 2000, 2000 - (2000 * (q[r].ms - 80)) \div 1600)
        impact == Clamp(150, 1500, 1500 - 750 * q[r].impact)
    IN  IF q[r].out = 0 THEN 0
        ELSE (output + speed + impact + HistFill(mem, r) + MevScore(r) + 5) \div 10

(* The first executable route by score; ties keep the order they were      *)
(* asked in.                                                               *)
Pick(q, mem) ==
    LET can == {r \in Executable : q[r].out > 0}
        best == {r \in can : \A s \in can : Score(q, mem, s) <= Score(q, mem, r)}
    IN  CASE best = {} -> "none"
          [] "metis" \in best -> "metis"
          [] OTHER -> "direct"

(* recordRouteOutcome, which is only ever called with success.             *)
Remember(mem, r) == [mem EXCEPT !.samples = @ + 1, ![r] = @ + 1]

(* pickBestJupiterDexFilter remembers what it picks, before it is used.    *)
Record(pick) == memory' = IF pick = "none" THEN memory ELSE Remember(memory, pick)

(* The swap goes by the pick, or unrestricted when there is none or it     *)
(* came after the swap stopped waiting.                                    *)
Send(pick) == used' \in {"metis", IF pick = "none" THEN "metis" ELSE pick}

(* compareExecutionRoutes and pickBestJupiterDexFilter, with new quotes.   *)
Compare ==
    /\ memory.samples < MaxSamples
    /\ \E m \in Quotes, d \in Quotes, o \in OkxOuts :
          quotes' = [r \in Routers |-> CASE r = "metis" -> m [] r = "direct" -> d
                                         [] OTHER -> [out |-> o, ms |-> 80, impact |-> 0]]
    /\ cache' = Fresh(Pick(quotes', memory))
    /\ Record(cache'.pick) /\ Send(cache'.pick)

(* The same, from the cache: for 5 s, or for 45 s while Jupiter limits us. *)
FromCache ==
    /\ memory.samples < MaxSamples /\ cache.age < 2
    /\ Record(cache.pick) /\ Send(cache.pick)
    /\ UNCHANGED <<quotes, cache>>

Age ==
    /\ cache.age < 2
    /\ cache' = IF cache.age = 0 THEN [cache EXCEPT !.age = 1] ELSE NoCache
    /\ UNCHANGED <<quotes, memory, used>>

Next == Compare \/ FromCache \/ Age

Spec == Init /\ [][Next]_compareVars

-----------------------------------------------------------------------------
(* Every variable keeps its shape.                                         *)
TypeOK ==
    /\ quotes \in [Routers -> [out : Nat, ms : Nat, impact : Nat]]
    /\ cache \in [pick : Executable \union {"none"}, age : 0..2]
    /\ memory \in [samples : 0..MaxSamples, metis : 0..MaxSamples, direct : 0..MaxSamples]
    /\ used \in Executable \union {"none"}

(* executionEngineService.ts:130-136, 231-261, 430-471: while no quote     *)
(* that cannot be executed sets the scale, the pick gives a quarter of the *)
(* best output at least, and 86 % when the routes are as fast and move the *)
(* price as much: whatever it remembers, history cannot outweigh more.     *)
PickIsNearBest ==
    LET pick == Pick(quotes, memory)
        best == Max({quotes[r].out : r \in Executable})
    IN  pick # "none" /\ quotes["okx"].out <= best =>
           /\ quotes[pick].out * 4 >= best
           /\ (\A r \in Executable : quotes[r].ms = quotes[pick].ms /\ quotes[r].impact = quotes[pick].impact) =>
                 quotes[pick].out * 100 >= best * 86

(* executionEngineService.ts:431-471: a route that is picked is also       *)
(* picked when it gives more, although its output sets the scale for all.  *)
MoreNeverLoses ==
    LET pick == Pick(quotes, memory)
    IN  pick # "none" => \A more \in {q.out : q \in Quotes} :
           more >= quotes[pick].out => Pick([quotes EXCEPT ![pick].out = more], memory) = pick
=============================================================================
