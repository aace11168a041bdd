---------------------------- MODULE JupiterExits ----------------------------
(***************************************************************************)
(* Automatic exits of a user's Jupiter position                            *)
(* (trading/jupiterOpenPositionWatcher.ts) and the settings they obey      *)
(* (dex/jupiterExitSettingsService.ts).  A run of the watcher is started   *)
(* every 15 s whether or not the last one is over; it judges the row as it *)
(* read it, sells, and leaves the new trailing peak to a write it does not *)
(* wait for.  Settings live in memory and are loaded on first use, in the  *)
(* background.  Marks, the sell quotes of Jupiter, are small integers      *)
(* around the entry price.                                                 *)
(***************************************************************************)
EXTENDS Integers, FiniteSets

CONSTANTS
    Runs,                                 \* runs that may be in flight at once
    Entry, TopMark,                       \* marks are 1..TopMark
    TakeProfit, StopLoss, Tight,          \* distances from the entry; Tight after a skim
    Activation, Delta,                    \* of the trailing stop
    MaxOpens, MaxSaves                    \* bounds: positions opened, settings saved

ExitsAssumption ==
    /\ TopMark \in Nat /\ Entry \in 1..TopMark /\ {TakeProfit, StopLoss, Tight, Activation, Delta} \subseteq Nat \ {0}
    /\ MaxOpens \in Nat /\ MaxSaves \in Nat /\ IsFiniteSet(Runs)

VARIABLES
    pos,         \* the trade row; a new position is a new row
    top,         \* history: the highest mark quoted for this row
    watch,       \* the runs in flight
    peakWrite,   \* the peak writes under way, per run
    exitHot,     \* exitCooldown of the row; the sales made while it lasts
    prefs,       \* settingsByUser and hydrated
    config,      \* the jupiterExitConfig row
    opens, saves

exitVars == <<pos, top, watch, peakWrite, exitHot, prefs, config, opens, saves>>

Marks == 1..TopMark
Settings == [enabled : BOOLEAN, trailing : BOOLEAN]
Defaults == [enabled |-> TRUE, trailing |-> FALSE]
NoPos == [id |-> 0, st |-> "CLOSED", peak |-> 0, skimmed |-> FALSE]
NoRun == [pc |-> "idle", seen |-> NoPos, trails |-> FALSE]
NoWrite == [id |-> 0, peak |-> 0]
Greater(m, n) == IF m > n THEN m ELSE n

Init ==
    /\ pos = NoPos /\ top = 0
    /\ watch = [r \in Runs |-> NoRun]
    /\ peakWrite = [r \in Runs |-> NoWrite]
    /\ exitHot = [on |-> FALSE, swaps |-> 0]
    /\ prefs = [load |-> "no", val |-> Defaults]
    /\ config \in [exists : {TRUE}, val : Settings] \union {[exists |-> FALSE, val |-> Defaults]}
    /\ opens = 0 /\ saves = 0

-----------------------------------------------------------------------------
(* hydrateFromDb: the first reader starts the load and takes the defaults. *)
Hydrating == [prefs EXCEPT !.load = IF @ = "no" THEN "loading" ELSE @]

(* The row arrives and replaces what memory holds, whatever that is; an    *)
(* error lets the next reader try again.                                   *)
Hydrated ==
    /\ prefs.load \in {"loading", "late"}
    /\ prefs' = [load |-> "yes", val |-> IF config.exists THEN config.val ELSE prefs.val]
    /\ UNCHANGED <<pos, top, watch, peakWrite, exitHot, config, opens, saves>>

HydrationFails ==
    /\ prefs.load \in {"loading", "late"}
    /\ prefs' = [prefs EXCEPT !.load = "no"]
    /\ UNCHANGED <<pos, top, watch, peakWrite, exitHot, config, opens, saves>>

(* setJupiterExitSettings: the switches not named are those in memory.     *)
(* "late" is a load still under way behind a save; the upsert may fail.    *)
SaveSettings(new) ==
    /\ saves < MaxSaves /\ saves' = saves + 1
    /\ new.enabled = prefs.val.enabled \/ new.trailing = prefs.val.trailing
    /\ prefs' = [load |-> IF Hydrating.load = "yes" THEN "yes" ELSE "late", val |-> new]
    /\ config' \in {[exists |-> TRUE, val |-> new], config}
    /\ UNCHANGED <<pos, top, watch, peakWrite, exitHot, opens>>

-----------------------------------------------------------------------------
OpenPosition ==
    /\ pos.st = "CLOSED" /\ opens < MaxOpens
    /\ opens' = opens + 1
    /\ pos' = [id |-> opens + 1, st |-> "OPEN", peak |-> 0, skimmed |-> FALSE]
    /\ top' = 0 /\ exitHot' = [on |-> FALSE, swaps |-> 0]
    /\ UNCHANGED <<watch, peakWrite, prefs, config, saves>>

(* The row is closed by the user, or found empty by the reconcile.         *)
CloseElsewhere ==
    /\ pos.st = "OPEN"
    /\ pos' = [pos EXCEPT !.st = "CLOSED"]
    /\ UNCHANGED <<top, watch, peakWrite, exitHot, prefs, config, opens, saves>>

(* Mutant: a row that was just sold is tried again.                        *)
AlwaysTries == TRUE

(* A row that was just sold is left alone.                                 *)
MayTry == ~exitHot.on

(* A run reads the open rows and comes to this one, if it is not cooling   *)
(* down; if the exits are on it asks for a quote.                          *)
StartRun(r) ==
    /\ watch[r].pc = "idle" /\ pos.st = "OPEN" /\ MayTry
    /\ prefs' = Hydrating
    /\ watch' = IF ~prefs.val.enabled THEN watch
                 ELSE [watch EXCEPT ![r] = [NoRun EXCEPT !.pc = "quote", !.seen = pos, !.trails = prefs.val.trailing]]
    /\ UNCHANGED <<pos, top, peakWrite, exitHot, config, opens, saves>>

(* No price, or an error: the run goes on without this row.                *)
NoQuote(r) ==
    /\ watch[r].pc = "quote"
    /\ watch' = [watch EXCEPT ![r] = NoRun]
    /\ UNCHANGED <<pos, top, peakWrite, exitHot, prefs, config, opens, saves>>

(* The trailing stop arms Activation above the entry; its floor follows    *)
(* the peak at a distance of Delta and never lies below the entry.         *)
TrailingHit(mark, peak) ==
    peak >= Entry + Activation /\ mark <= Greater(peak - Delta, Entry) /\ mark > Entry

StopHit(row, mark) == mark <= Entry - (IF row.skimmed THEN Tight ELSE StopLoss)

(* At the take-profit the profit is skimmed; below it the trailing stop,   *)
(* if on, and the stop-loss decide.                                        *)
Reason(row, mark, peak, trailing) ==
    IF mark >= Entry + TakeProfit THEN "skim"
    ELSE IF (trailing /\ TrailingHit(mark, peak)) \/ StopHit(row, mark) THEN "exit" ELSE "none"

Judge(r, mark) ==
    LET row == watch[r].seen
        peak == Greater(row.peak, mark)
        trails == watch[r].trails /\ mark < Entry + TakeProfit
        reason == Reason(row, mark, peak, watch[r].trails)
        mine == row.id = pos.id
    IN  /\ watch[r].pc = "quote"
        /\ top' = IF mine THEN Greater(top, mark) ELSE top
        /\ peakWrite' = IF trails /\ peak > row.peak
                          THEN [peakWrite EXCEPT ![r] = [id |-> row.id, peak |-> peak]] ELSE peakWrite
        /\ watch' = [watch EXCEPT ![r] = IF reason = "none" THEN NoRun
                                         ELSE [NoRun EXCEPT !.pc = reason, !.seen = [NoPos EXCEPT !.id = row.id]]]
        /\ exitHot' = IF reason # "none" /\ mine THEN [exitHot EXCEPT !.on = TRUE] ELSE exitHot
        /\ UNCHANGED <<pos, prefs, config, opens, saves>>

(* Mutant: the peak belongs to the pair, as trailingPeakByKey did.         *)
PeakOfPair(w) == [pos EXCEPT !.peak = w.peak]

(* The update by id: last writer wins.                                     *)
PeakOfRow(w) == IF w.id = pos.id THEN [pos EXCEPT !.peak = w.peak] ELSE pos

PersistPeak(r) ==
    /\ peakWrite[r] # NoWrite
    /\ pos' \in {PeakOfRow(peakWrite[r]), pos}
    /\ peakWrite' = [peakWrite EXCEPT ![r] = NoWrite]
    /\ UNCHANGED <<top, watch, exitHot, prefs, config, opens, saves>>

(* executeJupiterSwap: a sale that books the row closed or, a skim, keeps  *)
(* it open with less; or an error, before or after the sale.               *)
Sell(r) ==
    LET row == watch[r].seen
        mine == row.id = pos.id
    IN  /\ watch[r].pc \in {"skim", "exit"}
        /\ watch' = [watch EXCEPT ![r] = NoRun]
        /\ \/ /\ exitHot' = IF mine /\ exitHot.on THEN [exitHot EXCEPT !.swaps = @ + 1] ELSE exitHot
              /\ \/ /\ mine /\ pos.st = "OPEN"
                    /\ pos' = IF watch[r].pc = "skim" THEN [pos EXCEPT !.skimmed = TRUE]
                              ELSE [pos EXCEPT !.st = "CLOSED"]
                 \/ UNCHANGED pos
           \/ UNCHANGED <<pos, exitHot>>
        /\ UNCHANGED <<top, peakWrite, prefs, config, opens, saves>>

(* A sale may outlast the cooldown.                                        *)
CooldownEnds ==
    /\ exitHot.on
    /\ exitHot' = [on |-> FALSE, swaps |-> 0]
    /\ UNCHANGED <<pos, top, watch, peakWrite, prefs, config, opens, saves>>

Restart ==
    /\ watch' = [r \in Runs |-> NoRun]
    /\ peakWrite' = [r \in Runs |-> NoWrite]
    /\ exitHot' = [on |-> FALSE, swaps |-> 0]
    /\ prefs' = [load |-> "no", val |-> Defaults]
    /\ UNCHANGED <<pos, top, config, opens, saves>>

Next ==
    \/ Hydrated \/ HydrationFails \/ (\E new \in Settings : SaveSettings(new))
    \/ OpenPosition \/ CloseElsewhere \/ CooldownEnds \/ Restart
    \/ \E r \in Runs : StartRun(r) \/ NoQuote(r) \/ (\E mark \in Marks : Judge(r, mark)) \/ PersistPeak(r) \/ Sell(r)

Spec == Init /\ [][Next]_exitVars

-----------------------------------------------------------------------------
PosType == [id : 0..MaxOpens, st : {"OPEN", "CLOSED"}, peak : 0..TopMark, skimmed : BOOLEAN]

(* Every variable keeps its shape.                                         *)
TypeOK ==
    /\ pos \in PosType /\ top \in 0..TopMark
    /\ watch \in [Runs -> [pc : {"idle", "quote", "skim", "exit"}, seen : PosType, trails : BOOLEAN]]
    /\ peakWrite \in [Runs -> [id : 0..MaxOpens, peak : 0..TopMark]]
    /\ exitHot \in [on : BOOLEAN, swaps : Nat]
    /\ prefs \in [load : {"no", "loading", "late", "yes"}, val : Settings]
    /\ config \in [exists : BOOLEAN, val : Settings]
    /\ opens \in 0..MaxOpens /\ saves \in 0..MaxSaves

(* jupiterOpenPositionWatcher.ts:196-198: "restarts no longer reset the    *)
(* floor, and a new position never inherits a stale peak": whatever writes *)
(* are still under way when a position is closed and the next one opened,  *)
(* the peak in a row was quoted for that row.                              *)
PeakIsOwn == pos.st = "OPEN" => pos.peak <= top

(* jupiterOpenPositionWatcher.ts:103-104 and 239: the cooldown is looked   *)
(* at before the quote and set after it, so runs that overlap all sell;    *)
(* but while a row cools down only the runs that were under way sell it.   *)
SellsPerCooldown == exitHot.swaps <= Cardinality(Runs)
=============================================================================
