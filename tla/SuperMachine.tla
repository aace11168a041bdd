---------------------------- MODULE SuperMachine ----------------------------
(***************************************************************************)
(* The automatic buyers of the Jupiter desk, for one user of the monolith  *)
(* (src/src/index.ts): the Super Machine (services/agents/                 *)
(* superMachineService.ts), whose settings and daily counters are one      *)
(* database row, and the autopilot (services/dex/jupiterAutopilotService.  *)
(* ts), whose settings live in process memory.                             *)
(*                                                                         *)
(* Three kinds of actors interleave at every await: settings requests      *)
(* (read the row, build the new settings, write all of them back), passes  *)
(* of the Super Machine watcher (read the row, scan, check again, swap,    *)
(* write the counters) and passes of the autopilot.  Sizes are small       *)
(* numbers of dollars; a day is a number; "hot" says that the last trade   *)
(* is younger than the cooldown.                                           *)
(***************************************************************************)
EXTENDS Integers, FiniteSets

CONSTANTS
    Reqs,               \* settings requests that may be in flight at once
    Passes,             \* firings of the watcher timer that may coexist
    Pilots,             \* firings of the autopilot timer that may coexist
    MaxTradeUsd,        \* the most dynamic sizing can come to
    MaxDailyTrades, MaxDailyVolumeUsd, MaxOpenPositions,
    PilotMaxOpen,       \* the autopilot's own maxOpenPositions
    MaxRequests, LastDay      \* bounds of the model

ASSUME CapsArePositive ==
    MaxTradeUsd \in Nat \ {0} /\ MaxDailyTrades \in Nat \ {0} /\ MaxDailyVolumeUsd \in Nat \ {0}
ASSUME BoundsAreNats ==
    /\ LastDay \in Nat \ {0} /\ MaxRequests \in Nat
    /\ MaxOpenPositions \in Nat /\ PilotMaxOpen \in Nat
ASSUME PilotsAreFinite == IsFiniteSet(Pilots)

VARIABLES
    row,       \* the jupiterSuperMachineConfig row
    runs,      \* status of every botRun row ever created; 1 is the oldest
    req,       \* the settings requests in flight
    sent,      \* how many settings requests were sent
    busy,      \* watcherRunning
    pass,      \* the watcher passes in flight
    pilot,     \* autopilot memory: enabled, and a buy within its interval
    auto,      \* the autopilot passes in flight
    open,      \* OPEN trades of these buyers (a manual one only tightens their gates)
    day,       \* the UTC date
    charged,   \* history: the machine's buys of each day, see CountTrade
    tidy       \* history: no settings requests overlapped, died or half failed

vars == <<row, runs, req, sent, busy, pass, pilot, auto, open, day, charged, tidy>>

-----------------------------------------------------------------------------
NoRun == 0
NoDay == 0
Sizes == 1..MaxTradeUsd
RunIds == 1..(MaxRequests + 1)

(* What a client may send: turn on, turn off, pause, resume, or change     *)
(* limits without naming either switch.                                    *)
Raws == {[enabled |-> "true",   stop |-> "absent"], [enabled |-> "false",  stop |-> "absent"],
         [enabled |-> "absent", stop |-> "true"],   [enabled |-> "absent", stop |-> "false"],
         [enabled |-> "absent", stop |-> "absent"]}

Row == [enabled : BOOLEAN, stop : BOOLEAN, run : RunIds \union {NoRun},
        dayKey : NoDay..LastDay, trades : Nat, usd : Nat, hot : BOOLEAN]

Live(r) == r.enabled /\ ~r.stop

IdleReq  == [pc |-> "idle", named |-> FALSE, prev |-> FALSE, enabled |-> FALSE, stop |-> FALSE,
             existing |-> NoRun, run |-> NoRun]
EmptyRow == [enabled |-> FALSE, stop |-> FALSE, run |-> NoRun, dayKey |-> NoDay,
             trades |-> 0, usd |-> 0, hot |-> FALSE]
Counters(r) == [dayKey |-> r.dayKey, trades |-> r.trades, usd |-> r.usd, hot |-> r.hot]
IdlePass == [pc |-> "idle", row |-> Counters(EmptyRow), seen |-> 0,
             size |-> 0, filled |-> NoDay]

InFlight == {q \in Reqs : req[q].pc # "idle"}

(* A user who never used the machine, or one who turned it on earlier.     *)
Init ==
    /\ \/ row = EmptyRow /\ runs = [i \in RunIds |-> "none"]
       \/ /\ row = [EmptyRow EXCEPT !.enabled = TRUE, !.run = 1]
          /\ runs = [i \in RunIds |-> IF i = 1 THEN "RUNNING" ELSE "none"]
    /\ req = [q \in Reqs |-> IdleReq]
    /\ sent = 0
    /\ busy = FALSE
    /\ pass = [p \in Passes |-> IdlePass]
    /\ pilot = [enabled |-> FALSE, hot |-> FALSE]
    /\ auto = [a \in Pilots |-> "idle"]
    /\ open = 0
    /\ day = 1
    /\ charged = [d \in 1..LastDay |-> [n |-> 0, usd |-> 0]]
    /\ tidy = TRUE

-----------------------------------------------------------------------------
(* Settings requests: PUT /super-machine/settings.                         *)

Merge(key, old) == IF key = "absent" THEN old ELSE key = "true"

(* Mutant: the pause survives a full off.                                  *)
SetSettingsKeepsPause(q, raw) ==
    LET on == Merge(raw.enabled, row.enabled)
    IN  /\ req[q].pc = "idle" /\ sent < MaxRequests
        /\ sent' = sent + 1
        /\ req' = [req EXCEPT ![q] = [@ EXCEPT
                      !.pc = "existing", !.named = raw.enabled # "absent", !.prev = row.enabled,
                      !.enabled = on, !.stop = Merge(raw.stop, row.stop)]]
        /\ tidy' = (tidy /\ InFlight = {})
        /\ UNCHANGED <<row, runs, busy, pass, pilot, auto, open, day, charged>>

(* Read the row and build the new switches; a full off clears the pause.   *)
SetSettings(q, raw) ==
    LET on == Merge(raw.enabled, row.enabled)
    IN  /\ req[q].pc = "idle" /\ sent < MaxRequests
        /\ sent' = sent + 1
        /\ req' = [req EXCEPT ![q] = [@ EXCEPT
                      !.pc = "existing", !.named = raw.enabled # "absent", !.prev = row.enabled,
                      !.enabled = on, !.stop = on /\ Merge(raw.stop, row.stop)]]
        /\ tidy' = (tidy /\ InFlight = {})
        /\ UNCHANGED <<row, runs, busy, pass, pilot, auto, open, day, charged>>

TurningOn(r) == r.enabled /\ ~r.prev

(* The second read of the row, after the wallet call.                      *)
ReadExisting(q) ==
    /\ req[q].pc = "existing"
    /\ req' = [req EXCEPT ![q] = [@ EXCEPT
                  !.existing = row.run, !.run = row.run,
                  !.pc = IF TurningOn(req[q]) THEN "preflight" ELSE "save"]]
    /\ UNCHANGED <<row, runs, busy, pass, pilot, auto, open, day, sent, charged, tidy>>

(* Auto-preflight on the way on: in time, it also clears the pause; late,  *)
(* failed or with a pair locked, the settings stay as built.               *)
Preflight(q) ==
    /\ req[q].pc = "preflight"
    /\ \E inTime \in BOOLEAN :
          req' = [req EXCEPT ![q].pc = "stopOld", ![q].stop = ~inTime /\ @]
    /\ UNCHANGED <<row, runs, busy, pass, pilot, auto, open, day, sent, charged, tidy>>

(* updateMany where status is RUNNING.                                     *)
StopRun(id) == [i \in RunIds |-> IF i = id /\ runs[i] = "RUNNING" THEN "STOPPED" ELSE runs[i]]

(* The old run is stopped; an error here skips the new run as well.        *)
StopOldRun(q) ==
    /\ req[q].pc = "stopOld"
    /\ \/ /\ runs' = StopRun(req[q].existing)
          /\ req' = [req EXCEPT ![q].pc = "create"]
          /\ UNCHANGED tidy
       \/ /\ req' = [req EXCEPT ![q].pc = "save"]
          /\ tidy' = FALSE
          /\ UNCHANGED runs
    /\ UNCHANGED <<row, busy, pass, pilot, auto, open, day, sent, charged>>

(* The new run is created; on an error the machine starts without one.     *)
CreateRun(q) ==
    /\ req[q].pc = "create"
    /\ \/ /\ \E id \in RunIds :
                /\ runs[id] = "none" /\ \A i \in 1..(id - 1) : runs[i] # "none"
                /\ runs' = [runs EXCEPT ![id] = "RUNNING"]
                /\ req' = [req EXCEPT ![q].run = id, ![q].pc = "save"]
          /\ UNCHANGED tidy
       \/ /\ req' = [req EXCEPT ![q].pc = "save"]
          /\ tidy' = FALSE
          /\ UNCHANGED runs
    /\ UNCHANGED <<row, busy, pass, pilot, auto, open, day, sent, charged>>

(* The upsert writes every setting, the ones the client never named too.   *)
SaveSettings(q) ==
    /\ req[q].pc = "save"
    /\ row' = [row EXCEPT !.enabled = req[q].enabled, !.stop = req[q].stop,
                          !.run = IF TurningOn(req[q]) THEN req[q].run ELSE @]
    /\ req' = [req EXCEPT ![q].pc = "after"]
    /\ UNCHANGED <<runs, busy, pass, pilot, auto, open, day, sent, charged, tidy>>

(* Mutant: an off leaves the run RUNNING.                                  *)
AfterSaveLeavesRun(q) ==
    /\ req[q].pc = "after"
    /\ pilot' = [pilot EXCEPT !.enabled = @ /\ ~req[q].enabled]
    /\ req' = [req EXCEPT ![q] = IdleReq]
    /\ UNCHANGED <<row, runs, busy, pass, auto, open, day, sent, charged, tidy>>

(* On: the autopilot is switched off.  Off: the run read before is stopped.*)
AfterSave(q) ==
    LET r == req[q]
    IN  /\ r.pc = "after"
        /\ pilot' = [pilot EXCEPT !.enabled = @ /\ ~r.enabled]
        /\ runs' = IF ~r.enabled /\ r.prev THEN StopRun(r.existing) ELSE runs
        /\ req' = [req EXCEPT ![q] = IdleReq]
        /\ UNCHANGED <<row, busy, pass, auto, open, day, sent, charged, tidy>>

(* A database error outside the guarded part answers the client with 500.  *)
RequestThrows(q) ==
    /\ req[q].pc \in {"existing", "save"} \/ (req[q].pc = "after" /\ ~req[q].enabled)
    /\ req' = [req EXCEPT ![q] = IdleReq]
    /\ tidy' = FALSE
    /\ UNCHANGED <<row, runs, busy, pass, pilot, auto, open, day, sent, charged>>

-----------------------------------------------------------------------------
(* The watcher.  A pass holds watcherRunning until it returns.             *)

(* Mutant: watcherRunning is not cleared on the way out.                   *)
EndPassKeepsBusy(p) == pass' = [pass EXCEPT ![p] = IdlePass] /\ UNCHANGED busy

EndPass(p) == busy' = FALSE /\ pass' = [pass EXCEPT ![p] = IdlePass]

(* Mutant: watcherRunning is not looked at.                                *)
StartPassAlways(p) ==
    /\ pass[p].pc = "idle"
    /\ Live(row)
    /\ busy' = TRUE
    /\ pass' = [pass EXCEPT ![p] = [IdlePass EXCEPT !.pc = "reset", !.row = Counters(row)]]
    /\ UNCHANGED <<row, runs, req, pilot, auto, open, day, sent, charged, tidy>>

(* A timer firing finds no pass running, and the row on and not paused.    *)
StartPass(p) ==
    /\ pass[p].pc = "idle"
    /\ ~busy
    /\ Live(row)
    /\ busy' = TRUE
    /\ pass' = [pass EXCEPT ![p] = [IdlePass EXCEPT !.pc = "reset", !.row = Counters(row)]]
    /\ UNCHANGED <<row, runs, req, pilot, auto, open, day, sent, charged, tidy>>

WithinDailyLimits(r) == r.trades < MaxDailyTrades /\ r.usd < MaxDailyVolumeUsd

(* resetDailyCountersIfNeeded: the counters of today, judged by the row    *)
(* that was read; a reset returns the row as it is now.                    *)
Refreshed(r) ==
    IF r.dayKey = day THEN r
    ELSE [dayKey |-> day, trades |-> 0, usd |-> 0, hot |-> row.hot]

(* Daily counters are reset if the row read is of another day; then the    *)
(* daily limits and the cooldown decide whether the pass goes on.  The row *)
(* may have been read while hot and have cooled since.                     *)
ResetAndGate(p) ==
    LET r == Refreshed(pass[p].row)
    IN  /\ pass[p].pc = "reset"
        /\ row' = IF pass[p].row.dayKey = day THEN row
                  ELSE [row EXCEPT !.dayKey = day, !.trades = 0, !.usd = 0]
        /\ IF WithinDailyLimits(r) /\ ~(r.hot /\ row.hot)
             THEN pass' = [pass EXCEPT ![p].pc = "count", ![p].row = r] /\ UNCHANGED busy
             ELSE EndPass(p)
        /\ UNCHANGED <<runs, req, pilot, auto, open, day, sent, charged, tidy>>

CountOpenPositions(p) ==
    /\ pass[p].pc = "count"
    /\ pass' = [pass EXCEPT ![p].pc = "council", ![p].seen = open]
    /\ UNCHANGED <<row, runs, req, busy, pilot, auto, open, day, sent, charged, tidy>>

(* Mutant: off by one.                                                     *)
RiskAllowsOneMore(seen) == seen <= MaxOpenPositions

RiskAllows(seen) == seen < MaxOpenPositions

(* Council, preview and price gates: any of them may say no.               *)
Council(p) ==
    /\ pass[p].pc = "council"
    /\ \/ /\ RiskAllows(pass[p].seen)
          /\ \E s \in Sizes : pass' = [pass EXCEPT ![p].pc = "check", ![p].seen = 0, ![p].size = s]
          /\ UNCHANGED busy
       \/ EndPass(p)
    /\ UNCHANGED <<row, runs, req, pilot, auto, open, day, sent, charged, tidy>>

(* The last look at the switches before the swap.                          *)
CheckLive(p) ==
    /\ pass[p].pc = "check"
    /\ IF Live(row) THEN pass' = [pass EXCEPT ![p].pc = "swap"] /\ UNCHANGED busy
                    ELSE EndPass(p)
    /\ UNCHANGED <<row, runs, req, pilot, auto, open, day, sent, charged, tidy>>

(* executeJupiterSwap fills and is booked, or throws.  (That it can throw   *)
(* after the swap landed, leaving no trade, is JupiterBook's subject.)      *)
Swap(p) ==
    /\ pass[p].pc = "swap"
    /\ \/ /\ open' = open + 1
          /\ pass' = [pass EXCEPT ![p].pc = "write", ![p].filled = day]
          /\ UNCHANGED busy
       \/ EndPass(p) /\ UNCHANGED open
    /\ UNCHANGED <<row, runs, req, pilot, auto, day, sent, charged, tidy>>

(* The counters read at the start of the pass plus this trade, whatever    *)
(* day it is by now.  The history notes a buy under the day it filled if   *)
(* that is the day of the counters it is written to.                       *)
CountTrade(p) ==
    LET r == pass[p].row
    IN  /\ pass[p].pc = "write"
        /\ row' = [row EXCEPT !.hot = TRUE, !.trades = r.trades + 1,
                              !.usd = r.usd + pass[p].size]
        /\ charged' = IF r.dayKey # pass[p].filled THEN charged
                      ELSE [charged EXCEPT ![r.dayKey].n = @ + 1,
                                           ![r.dayKey].usd = @ + pass[p].size]
        /\ EndPass(p)
        /\ UNCHANGED <<runs, req, pilot, auto, open, day, sent, tidy>>

(* A database error ends the pass; after the swap, with the trade          *)
(* uncounted.                                                              *)
PassThrows(p) ==
    /\ pass[p].pc \in {"reset", "count", "check", "write"}
    /\ EndPass(p)
    /\ UNCHANGED <<row, runs, req, pilot, auto, open, day, sent, charged, tidy>>

-----------------------------------------------------------------------------
(* The autopilot.  Nothing keeps two of its passes apart.                  *)

SetPilot(on) ==
    /\ pilot.enabled # on
    /\ pilot' = [pilot EXCEPT !.enabled = on]
    /\ UNCHANGED <<row, runs, req, busy, pass, auto, open, day, sent, charged, tidy>>

PilotAllows(seen) == seen < PilotMaxOpen

StartPilot(a) ==
    /\ auto[a] = "idle"
    /\ pilot.enabled /\ ~pilot.hot
    /\ PilotAllows(open)
    /\ auto' = [auto EXCEPT ![a] = "buy"]
    /\ UNCHANGED <<row, runs, req, busy, pass, pilot, open, day, sent, charged, tidy>>

(* No pick, a blocked preview or a failed swap ends the pass.              *)
PilotBuy(a) ==
    /\ auto[a] = "buy"
    /\ auto' = [auto EXCEPT ![a] = "idle"]
    /\ \/ open' = open + 1 /\ pilot' = [pilot EXCEPT !.hot = TRUE]
       \/ UNCHANGED <<open, pilot>>
    /\ UNCHANGED <<row, runs, req, busy, pass, day, sent, charged, tidy>>

-----------------------------------------------------------------------------
(* The surroundings: exits, time, and the process.                         *)

PositionCloses ==
    /\ open > 0
    /\ open' = open - 1
    /\ UNCHANGED <<row, runs, req, busy, pass, pilot, auto, day, sent, charged, tidy>>

CooldownEnds ==
    /\ \/ row.hot /\ row' = [row EXCEPT !.hot = FALSE] /\ UNCHANGED pilot
       \/ pilot.hot /\ pilot' = [pilot EXCEPT !.hot = FALSE] /\ UNCHANGED row
    /\ UNCHANGED <<runs, req, busy, pass, auto, open, day, sent, charged, tidy>>

Midnight ==
    /\ day < LastDay
    /\ day' = day + 1
    /\ UNCHANGED <<row, runs, req, busy, pass, pilot, auto, open, sent, charged, tidy>>

(* The process dies and starts again: memory and everything in flight go.  *)
Restart ==
    /\ req' = [q \in Reqs |-> IdleReq]
    /\ tidy' = (tidy /\ InFlight = {})
    /\ busy' = FALSE
    /\ pass' = [p \in Passes |-> IdlePass]
    /\ auto' = [a \in Pilots |-> "idle"]
    /\ pilot' = [enabled |-> FALSE, hot |-> FALSE]
    /\ UNCHANGED <<row, runs, open, day, charged, sent>>

RequestStep(q) ==
    \/ ReadExisting(q) \/ Preflight(q) \/ StopOldRun(q) \/ CreateRun(q)
    \/ SaveSettings(q) \/ AfterSave(q) \/ RequestThrows(q)

PassStep(p) ==
    \/ ResetAndGate(p) \/ CountOpenPositions(p) \/ Council(p) \/ CheckLive(p)
    \/ Swap(p) \/ CountTrade(p) \/ PassThrows(p)

Next ==
    \/ \E q \in Reqs, raw \in Raws : SetSettings(q, raw)
    \/ \E q \in Reqs : RequestStep(q)
    \/ \E p \in Passes : StartPass(p) \/ PassStep(p)
    \/ \E on \in BOOLEAN : SetPilot(on)
    \/ \E a \in Pilots : StartPilot(a) \/ PilotBuy(a)
    \/ PositionCloses \/ CooldownEnds \/ Midnight \/ Restart

Spec == Init /\ [][Next]_vars

(* The timer keeps firing and a pass that started runs to its end (the     *)
(* network calls it awaits return or throw).  Clients and time owe nothing.*)
Fairness ==
    /\ WF_vars(\E p \in Passes : StartPass(p))
    /\ \A p \in Passes : WF_vars(PassStep(p))

FairSpec == Spec /\ Fairness

-----------------------------------------------------------------------------
ReqType ==
    [pc : {"idle", "existing", "preflight", "stopOld", "create", "save", "after"},
     named : BOOLEAN, prev : BOOLEAN, enabled : BOOLEAN, stop : BOOLEAN,
     existing : RunIds \union {NoRun}, run : RunIds \union {NoRun}]
PassType ==
    [pc : {"idle", "reset", "count", "council", "check", "swap", "write"},
     row : [dayKey : NoDay..LastDay, trades : Nat, usd : Nat, hot : BOOLEAN],
     seen : Nat, size : Sizes \union {0}, filled : NoDay..LastDay]

(* The row is paused only while it is on, and so is what a request writes. *)
RowOK  == row \in Row /\ (row.stop => row.enabled)
ReqOK  == req \in [Reqs -> ReqType] /\ \A q \in Reqs : req[q].stop => req[q].enabled
RunsOK == runs \in [RunIds -> {"none", "RUNNING", "STOPPED"}]
PassOK == busy \in BOOLEAN /\ pass \in [Passes -> PassType]
AutoOK == pilot \in [enabled : BOOLEAN, hot : BOOLEAN] /\ auto \in [Pilots -> {"idle", "buy"}]
RestOK ==
    /\ sent \in 0..MaxRequests /\ open \in Nat /\ day \in 1..LastDay /\ tidy \in BOOLEAN
    /\ charged \in [1..LastDay -> [n : Nat, usd : Nat]]

(* Every variable keeps its shape.  In particular the row is paused only   *)
(* while on (superMachineService.ts:302: "A full off clears the pause so   *)
(* the next on is a clean start, not a stuck emergency stop"), so turning  *)
(* the machine on again always starts it.                                  *)
TypeOK == RowOK /\ ReqOK /\ RunsOK /\ PassOK /\ AutoOK /\ RestOK

(* superMachineService.ts:579-588 and 822-829: the counters are checked at *)
(* the start of a pass and written, from the values read then, at its end, *)
(* with a network of awaits in between.  Even so the buys charged to a day *)
(* never exceed maxDailyTrades, and their volume exceeds                   *)
(* maxDailyVolumeUsd by less than one trade.  (Not charged to a day: a buy *)
(* that a pass of the day before made after midnight, and one whose        *)
(* counter write was lost.)                                                *)
DailyCaps ==
    \A d \in 1..LastDay :
        /\ charged[d].n <= MaxDailyTrades
        /\ charged[d].usd < MaxDailyVolumeUsd + MaxTradeUsd

(* What makes DailyCaps inductive.  One pass at a time, and busy while     *)
(* there is one:                                                           *)
OnePass ==
    \A p \in Passes : pass[p].pc # "idle" =>
        busy /\ \A o \in Passes : pass[o].pc # "idle" => o = p

(* so what a pass read of the counters is still what the row says, and     *)
(* past the gate they are within the limits;                               *)
FreshCounters ==
    \A p \in Passes : pass[p].pc # "idle" =>
        /\ pass[p].row.dayKey = row.dayKey
        /\ pass[p].row.trades = row.trades
        /\ pass[p].row.usd = row.usd
        /\ pass[p].pc # "reset" => WithinDailyLimits(pass[p].row)

(* and the counters of the row cover the buys charged to its day, no buy   *)
(* being charged to a later one.                                           *)
CountersCover ==
    /\ row.dayKey <= day
    /\ \A d \in 1..LastDay :
          /\ d = row.dayKey => charged[d].n <= row.trades /\ charged[d].usd <= row.usd
          /\ d > row.dayKey => charged[d].n = 0 /\ charged[d].usd = 0

CapsInv == OnePass /\ FreshCounters /\ CountersCover /\ DailyCaps

(* jupiterRiskAgent.ts:217 and jupiterAutopilotService.ts:154: open trades *)
(* are counted once, long before the swap, and nothing is reserved, so     *)
(* buyers that count at the same time add up.  How far: watcherRunning     *)
(* keeps the machine to one pass, so the buyers together exceed the larger *)
(* cap by at most one position per autopilot pass in flight.               *)
OpenCap ==
    \E cap \in {MaxOpenPositions, PilotMaxOpen} : open <= cap + Cardinality(Pilots)

(* superMachineService.ts:353-407: as long as no two settings requests     *)
(* overlapped, died half-way or met a database error, whenever none is in  *)
(* flight the machine has a RUNNING botRun exactly when it is on, the one  *)
(* its row names, and every earlier one is stopped.                        *)
RunsMatchSwitch ==
    (tidy /\ InFlight = {}) =>
        \A i \in RunIds : (runs[i] = "RUNNING") <=> (row.enabled /\ row.run = i)

(* superMachineService.ts:274: "Only flip booleans when the client         *)
(* explicitly sent the key".  The saved switch changes only by a request   *)
(* that named it.                                                          *)
OnlyNamedFlips ==
    [][row'.enabled # row.enabled =>
         \E q \in Reqs : req[q].pc = "save" /\ req[q].named /\ req'[q].pc # "save"]_vars

(* superMachineService.ts:908-942: a machine that is on and not paused is  *)
(* looked at again, or switched off or paused: no exit from a pass, early  *)
(* or by an exception, leaves watcherRunning set.                          *)
ScansAgain == Live(row) ~> (~Live(row) \/ \E p \in Passes : pass[p].pc = "reset")
=============================================================================
