----------------------------- MODULE DesksProofs -----------------------------
(***************************************************************************)
(* What is proved of the machines and watchers that trade, for every value *)
(* of their constants.                                                     *)
(*                                                                         *)
(* SuperMachine, for any number of requests, passes and autopilot passes,  *)
(* any limits and any number of days: the type invariant, the daily        *)
(* limits, the cap on open positions, and the runs that follow the switch. *)
(* DailyCaps is not inductive; what carries it is that watcherRunning      *)
(* makes the pass in flight the only writer of the counters, so that the   *)
(* counters it read are still those of the row.                            *)
(*                                                                         *)
(* JupiterExits (X), for any number of overlapping runs of the watcher and *)
(* any marks: the type invariant, that a row's trailing peak is its own,   *)
(* and that a cooldown is outlived by no more sales than runs were under   *)
(* way.                                                                    *)
(*                                                                         *)
(* LimitOrders (L), for any number of orders and runs: an order is swapped *)
(* once per run that overlaps and lost answer at most.  Predictions (Q):   *)
(* a request sends one transaction, and the log is true.  PaperBot (P):    *)
(* the PnL of a trade is booked once, or once per actor that raced.        *)
(* CandleStore (H): a closed bar is announced once, as long as nothing     *)
(* comes later than the retention.                                         *)
(***************************************************************************)
EXTENDS SuperMachine, Sequences, FiniteSetTheorems, WellFoundedInduction, TLAPS

\* Constants and variables of JupiterExits.
CONSTANTS Runs, Entry, TopMark, TakeProfit, StopLoss, Tight, Activation, Delta, MaxOpens, MaxSaves
VARIABLES pos, top, watch, peakWrite, exitHot, prefs, config, opens, saves

X == INSTANCE JupiterExits

\* Those of LimitOrders, which has Runs too.
CONSTANTS Kept, MaxOrders, MaxLost
VARIABLES limits, created, run, swapped, unsaid

L == INSTANCE LimitOrders

\* Those of Predictions, which has MaxRequests too.
CONSTANTS Calls, Endpoints, Steps, MaxTxs, MaxFaults
VARIABLES asked, call, txs, held, log, faults

Q == INSTANCE Predictions

\* Those of PaperBot.
CONSTANTS Engines, Actors, MaxTrades
VARIABLES engine, listed, ticking, current, trades, act, overlap, raced, died

P == INSTANCE PaperBot

\* Those of CandleStore, which has MaxFaults too.
CONSTANTS Jobs, Page, Target, Keep, Recent, FirstNow, LastNow
VARIABLES now, store, job, done, mail, look, told, odd, misses

H == INSTANCE CandleStore WITH faults <- misses

-----------------------------------------------------------------------------
(* SuperMachine *)

(* Both initial rows are rows.                                             *)
LEMMA InitialRows ==
    /\ EmptyRow \in Row /\ EmptyRow.stop = FALSE
    /\ [EmptyRow EXCEPT !.enabled = TRUE, !.run = 1] \in Row
    /\ [EmptyRow EXCEPT !.enabled = TRUE, !.run = 1].stop = FALSE
<1>1. EmptyRow \in Row
  BY BoundsAreNats DEF EmptyRow, Row, RunIds, NoRun, NoDay
<1>2. 1 \in RunIds
  BY BoundsAreNats DEF RunIds
<1>3. [EmptyRow EXCEPT !.enabled = TRUE, !.run = 1] \in Row
  BY <1>1, <1>2, Zenon DEF Row
<1>4. EmptyRow.stop = FALSE
  BY DEF EmptyRow
<1>5. [EmptyRow EXCEPT !.enabled = TRUE, !.run = 1].stop = FALSE
  BY DEF EmptyRow
<1> QED BY <1>1, <1>3, <1>4, <1>5

(* The records of an idle request and an idle pass have their types.       *)
LEMMA IdleRecords == IdleReq \in ReqType /\ IdleReq.stop = FALSE /\ IdlePass \in PassType
BY BoundsAreNats
DEF IdleReq, ReqType, IdlePass, PassType, Counters, EmptyRow, NoRun, NoDay

(* The initial states are well typed.                                      *)
LEMMA InitTypeOK == Init => TypeOK
<1> SUFFICES ASSUME Init PROVE TypeOK
  OBVIOUS
<1>1. RowOK
  <2>1. row = EmptyRow \/ row = [EmptyRow EXCEPT !.enabled = TRUE, !.run = 1]
    BY Zenon DEF Init
  <2> QED BY <2>1, InitialRows, Zenon DEF RowOK
<1>2. ReqOK
  BY IdleRecords, Zenon DEF Init, ReqOK
<1>3. RunsOK
  BY DEF Init, RunsOK
<1>4. PassOK
  BY IdleRecords DEF Init, PassOK
<1>5. AutoOK
  BY DEF Init, AutoOK
<1>6. RestOK
  BY BoundsAreNats DEF Init, RestOK
<1> QED BY <1>1, <1>2, <1>3, <1>4, <1>5, <1>6 DEF TypeOK

(* Stopping a run keeps the run table a run table.                         *)
LEMMA StopRunType == ASSUME RunsOK, NEW id PROVE StopRun(id) \in [RunIds -> {"none", "RUNNING", "STOPPED"}]
BY DEF RunsOK, StopRun

(* Every step of a settings request keeps the types, the pause included.   *)
LEMMA RequestTypeOK ==
    ASSUME TypeOK, NEW q \in Reqs,
           RequestStep(q) \/ \E raw \in Raws : SetSettings(q, raw)
    PROVE  TypeOK'
<1>0. /\ req \in [Reqs -> ReqType] /\ req[q] \in ReqType
      /\ row \in Row /\ row.run \in RunIds \union {NoRun} /\ row.enabled \in BOOLEAN
  BY DEF TypeOK, ReqOK, RowOK, Row
<1> USE DEF TypeOK
<1>1. ASSUME NEW raw \in Raws, SetSettings(q, raw) PROVE TypeOK'
  <2> DEFINE on == Merge(raw.enabled, row.enabled)
             stop == on /\ Merge(raw.stop, row.stop)
             new == [req[q] EXCEPT !.pc = "existing", !.named = raw.enabled # "absent",
                        !.prev = row.enabled, !.enabled = on, !.stop = stop]
  <2>1. on \in BOOLEAN /\ stop \in BOOLEAN
    BY <1>0, Zenon DEF Merge
  <2>2. new \in ReqType
    <3> DEFINE Merged(r, a, b, c, e) == [r EXCEPT !.pc = "existing", !.named = a, !.prev = b,
                                                  !.enabled = c, !.stop = e]
    <3>1. ASSUME NEW r \in ReqType, NEW a \in BOOLEAN, NEW b \in BOOLEAN, NEW c \in BOOLEAN, NEW e \in BOOLEAN
          PROVE  Merged(r, a, b, c, e) \in ReqType
      BY DEF ReqType
    <3>2. (raw.enabled # "absent") \in BOOLEAN
      OBVIOUS
    <3>3. req[q] \in ReqType /\ row.enabled \in BOOLEAN
      BY <1>0
    <3> HIDE DEF on, stop, ReqType
    <3>4. new = Merged(req[q], raw.enabled # "absent", row.enabled, on, stop)
      BY DEF new
    <3> HIDE DEF Merged, new
    <3> QED BY <2>1, <3>1, <3>2, <3>3, <3>4
  <2>3. new.stop => new.enabled
    BY <1>0, Zenon DEF ReqType
  <2>4. req' = [req EXCEPT ![q] = new]
    BY <1>1 DEF SetSettings
  <2>5. ReqOK'
    BY <1>0, <2>2, <2>3, <2>4, Zenon DEF ReqOK
  <2>6. tidy' \in BOOLEAN
    BY <1>1, Zenon DEF SetSettings
  <2>7. sent' \in 0..MaxRequests
    <3>1. sent < MaxRequests /\ sent' = sent + 1
      BY <1>1, Zenon DEF SetSettings
    <3>2. sent \in 0..MaxRequests
      BY DEF RestOK
    <3> QED BY <3>1, <3>2, BoundsAreNats
  <2>8. RestOK'
    BY <1>1, <2>6, <2>7 DEF SetSettings, RestOK
  <2> QED BY <1>1, <2>5, <2>8 DEF SetSettings, RowOK, RunsOK, PassOK, AutoOK
<1>2. CASE ReadExisting(q)
  <2>1. req' \in [Reqs -> ReqType]
    BY <1>0, <1>2 DEF ReadExisting, ReqType
  <2>2. \A x \in Reqs : req'[x].stop = req[x].stop /\ req'[x].enabled = req[x].enabled
    BY <1>0, <1>2 DEF ReadExisting, ReqType
  <2>3. ReqOK'
    BY <2>1, <2>2, Zenon DEF ReqOK
  <2> QED BY <1>2, <2>3 DEF ReadExisting, RowOK, RunsOK, PassOK, AutoOK, RestOK
<1>3. CASE Preflight(q)
  <2>1. PICK inTime \in BOOLEAN :
          req' = [req EXCEPT ![q].pc = "stopOld", ![q].stop = ~inTime /\ @]
    BY <1>3 DEF Preflight
  <2>2. req' \in [Reqs -> ReqType]
    BY <1>0, <2>1 DEF ReqType
  <2>3. \A x \in Reqs : (req'[x].stop => req[x].stop) /\ req'[x].enabled = req[x].enabled
    BY <1>0, <2>1 DEF ReqType
  <2>4. ReqOK'
    BY <2>2, <2>3, Zenon DEF ReqOK
  <2> QED BY <1>3, <2>4 DEF Preflight, RowOK, RunsOK, PassOK, AutoOK, RestOK
<1>4. CASE StopOldRun(q)
  <2>1. req' \in [Reqs -> ReqType]
    BY <1>0, <1>4 DEF StopOldRun, ReqType
  <2>2. \A x \in Reqs : req'[x].stop = req[x].stop /\ req'[x].enabled = req[x].enabled
    BY <1>0, <1>4 DEF StopOldRun, ReqType
  <2>3. ReqOK'
    BY <2>1, <2>2, Zenon DEF ReqOK
  <2>4. RunsOK'
    BY <1>4, StopRunType DEF StopOldRun, RunsOK
  <2> QED BY <1>4, <2>3, <2>4 DEF StopOldRun, RowOK, PassOK, AutoOK, RestOK
<1>5. CASE CreateRun(q)
  <2> DEFINE Switches == /\ req' \in [Reqs -> ReqType]
                         /\ \A x \in Reqs : /\ req'[x].stop = req[x].stop
                                            /\ req'[x].enabled = req[x].enabled
  <2>1. ASSUME NEW id \in RunIds, req' = [req EXCEPT ![q].run = id, ![q].pc = "save"]
        PROVE  Switches
    BY <1>0, <2>1 DEF ReqType
  <2>2. ASSUME req' = [req EXCEPT ![q].pc = "save"]
        PROVE  Switches
    BY <1>0, <2>2 DEF ReqType
  <2>3. Switches
    BY <1>5, <2>1, <2>2, Zenon DEF CreateRun
  <2>4. ReqOK'
    BY <2>3, Zenon DEF ReqOK
  <2>5. RunsOK'
    BY <1>5 DEF CreateRun, RunsOK
  <2>6. RestOK'
    BY <1>5 DEF CreateRun, RestOK
  <2> QED BY <1>5, <2>4, <2>5, <2>6 DEF CreateRun, RowOK, PassOK, AutoOK
<1>6. CASE SaveSettings(q)
  <2>1. row' \in Row /\ row'.enabled = req[q].enabled /\ row'.stop = req[q].stop
    BY <1>0, <1>6 DEF SaveSettings, ReqType, Row
  <2>2. RowOK'
    BY <2>1, Zenon DEF RowOK, ReqOK
  <2>3. req' \in [Reqs -> ReqType]
    BY <1>0, <1>6 DEF SaveSettings, ReqType
  <2>4. \A x \in Reqs : req'[x].stop = req[x].stop /\ req'[x].enabled = req[x].enabled
    BY <1>0, <1>6 DEF SaveSettings, ReqType
  <2>5. ReqOK'
    BY <2>3, <2>4, Zenon DEF ReqOK
  <2> QED BY <1>6, <2>2, <2>5 DEF SaveSettings, RunsOK, PassOK, AutoOK, RestOK
<1>7. CASE AfterSave(q)
  <2>1. ReqOK'
    BY <1>0, <1>7, IdleRecords, Zenon DEF AfterSave, ReqOK
  <2>2. RunsOK'
    BY <1>7, StopRunType DEF AfterSave, RunsOK
  <2>3. AutoOK'
    BY <1>7 DEF AfterSave, AutoOK
  <2> QED BY <1>7, <2>1, <2>2, <2>3 DEF AfterSave, RowOK, PassOK, RestOK
<1>8. CASE RequestThrows(q)
  <2>1. ReqOK'
    BY <1>0, <1>8, IdleRecords, Zenon DEF RequestThrows, ReqOK
  <2>2. RestOK'
    BY <1>8 DEF RequestThrows, RestOK
  <2> QED BY <1>8, <2>1, <2>2 DEF RequestThrows, RowOK, RunsOK, PassOK, AutoOK
<1> QED BY <1>1, <1>2, <1>3, <1>4, <1>5, <1>6, <1>7, <1>8 DEF RequestStep

(* Every step of a watcher pass keeps the types.                           *)
LEMMA PassTypeOK ==
    ASSUME TypeOK, NEW p \in Passes, StartPass(p) \/ PassStep(p)
    PROVE  TypeOK'
<1>0. /\ pass \in [Passes -> PassType] /\ pass[p] \in PassType /\ busy \in BOOLEAN
      /\ row \in Row /\ day \in NoDay..LastDay /\ day \in 1..LastDay
      /\ charged \in [1..LastDay -> [n : Nat, usd : Nat]]
  BY BoundsAreNats DEF TypeOK, PassOK, RowOK, RestOK, NoDay
<1>e. ASSUME EndPass(p) PROVE PassOK'
  BY <1>0, <1>e, IdleRecords DEF EndPass, PassOK
<1> USE DEF TypeOK
<1>1. CASE StartPass(p)
  <2>1. [IdlePass EXCEPT !.pc = "reset", !.row = Counters(row)] \in PassType
    BY <1>0, IdleRecords DEF PassType, Counters, Row
  <2>2. PassOK'
    BY <1>0, <1>1, <2>1 DEF StartPass, PassOK
  <2> QED BY <1>1, <2>2 DEF StartPass, RowOK, ReqOK, RunsOK, AutoOK, RestOK
<1>2. CASE ResetAndGate(p)
  <2> DEFINE r == Refreshed(pass[p].row)
  <2>1. r \in [dayKey : NoDay..LastDay, trades : Nat, usd : Nat, hot : BOOLEAN]
    BY <1>0 DEF Refreshed, PassType, Row
  <2>2. RowOK'
    <3>1. row' = row \/ row' = [row EXCEPT !.dayKey = day, !.trades = 0, !.usd = 0]
      BY <1>2, Zenon DEF ResetAndGate
    <3>2. row' \in Row /\ row'.stop = row.stop /\ row'.enabled = row.enabled
      <4>1. 0 \in Nat
        OBVIOUS
      <4>2. [row EXCEPT !.dayKey = day, !.trades = 0, !.usd = 0] \in Row
        BY <1>0, <4>1, Zenon DEF Row
      <4>3. /\ [row EXCEPT !.dayKey = day, !.trades = 0, !.usd = 0].stop = row.stop
            /\ [row EXCEPT !.dayKey = day, !.trades = 0, !.usd = 0].enabled = row.enabled
        BY <1>0 DEF Row
      <4> QED BY <1>0, <3>1, <4>2, <4>3, Zenon
    <3> QED BY <3>2, Zenon DEF RowOK
  <2>3. PassOK'
    <3>1. \/ pass' = [pass EXCEPT ![p].pc = "count", ![p].row = r] /\ busy' = busy
          \/ EndPass(p)
      BY <1>2, Zenon DEF ResetAndGate
    <3>2. ASSUME pass' = [pass EXCEPT ![p].pc = "count", ![p].row = r], busy' = busy
          PROVE  PassOK'
      BY <1>0, <2>1, <3>2 DEF PassOK, PassType
    <3> QED BY <3>1, <3>2, <1>e
  <2> QED BY <1>2, <2>2, <2>3 DEF ResetAndGate, ReqOK, RunsOK, AutoOK, RestOK
<1>3. CASE CountOpenPositions(p)
  <2>1. PassOK'
    BY <1>0, <1>3 DEF CountOpenPositions, PassOK, PassType, RestOK
  <2> QED BY <1>3, <2>1 DEF CountOpenPositions, RowOK, ReqOK, RunsOK, AutoOK, RestOK
<1>4. CASE Council(p)
  <2>1. ASSUME NEW s \in Sizes, busy' = busy,
               pass' = [pass EXCEPT ![p].pc = "check", ![p].seen = 0, ![p].size = s]
        PROVE  PassOK'
    BY <1>0, <2>1 DEF PassOK, PassType
  <2>2. PassOK'
    BY <1>4, <1>e, <2>1, Zenon DEF Council
  <2> QED BY <1>4, <2>2 DEF Council, RowOK, ReqOK, RunsOK, AutoOK, RestOK
<1>5. CASE CheckLive(p)
  <2>1. ASSUME pass' = [pass EXCEPT ![p].pc = "swap"], busy' = busy PROVE PassOK'
    BY <1>0, <2>1 DEF PassOK, PassType
  <2>2. PassOK'
    BY <1>5, <1>e, <2>1, Zenon DEF CheckLive
  <2> QED BY <1>5, <2>2 DEF CheckLive, RowOK, ReqOK, RunsOK, AutoOK, RestOK
<1>6. CASE Swap(p)
  <2>1. ASSUME pass' = [pass EXCEPT ![p].pc = "write", ![p].filled = day], busy' = busy
        PROVE  PassOK'
    BY <1>0, <2>1 DEF PassOK, PassType
  <2>2. PassOK'
    BY <1>6, <1>e, <2>1, Zenon DEF Swap
  <2>3. RestOK'
    BY <1>6 DEF Swap, RestOK
  <2> QED BY <1>6, <2>2, <2>3 DEF Swap, RowOK, ReqOK, RunsOK, AutoOK
<1>7. CASE CountTrade(p)
  <2>1. PassOK'
    BY <1>7, <1>e DEF CountTrade
  <2>2. RowOK'
    <3>1. ASSUME row' = [row EXCEPT !.hot = TRUE, !.trades = pass[p].row.trades + 1,
                                    !.usd = pass[p].row.usd + pass[p].size]
          PROVE  row' \in Row /\ row'.stop = row.stop /\ row'.enabled = row.enabled
      <4>1. pass[p].row.trades + 1 \in Nat /\ pass[p].row.usd + pass[p].size \in Nat
        BY <1>0, CapsArePositive DEF PassType, Sizes
      <4>2. row' \in Row
        BY <1>0, <3>1, <4>1, Zenon DEF Row
      <4>3. row'.stop = row.stop /\ row'.enabled = row.enabled
        BY <1>0, <3>1 DEF Row
      <4> QED BY <4>2, <4>3
    <3>2. row' \in Row /\ row'.stop = row.stop /\ row'.enabled = row.enabled
      BY <1>7, <3>1, Zenon DEF CountTrade
    <3> QED BY <3>2, Zenon DEF RowOK
  <2>3. RestOK'
    <3> DEFINE d == pass[p].row.dayKey
    <3>1. pass[p].size \in Nat
      BY <1>0, CapsArePositive DEF PassType, Sizes
    <3>2. ASSUME charged' = [charged EXCEPT ![d].n = @ + 1, ![d].usd = @ + pass[p].size]
          PROVE  charged' \in [1..LastDay -> [n : Nat, usd : Nat]]
      <4>1. CASE d \in 1..LastDay
        <5>1. charged[d].n + 1 \in Nat /\ charged[d].usd + pass[p].size \in Nat
          <6>1. charged[d] \in [n : Nat, usd : Nat]
            BY <1>0, <4>1
          <6> QED BY <3>1, <6>1
        <5>2. charged' = [charged EXCEPT ![d] = [charged[d] EXCEPT !.n = @ + 1, !.usd = @ + pass[p].size]]
          BY <1>0, <3>2, <4>1
        <5>3. [charged[d] EXCEPT !.n = @ + 1, !.usd = @ + pass[p].size] \in [n : Nat, usd : Nat]
          BY <1>0, <4>1, <5>1
        <5> QED BY <1>0, <4>1, <5>2, <5>3
      <4>2. CASE d \notin 1..LastDay
        BY <1>0, <3>2, <4>2
      <4> QED BY <4>1, <4>2
    <3>3. charged' \in [1..LastDay -> [n : Nat, usd : Nat]]
      BY <1>0, <1>7, <3>2, Zenon DEF CountTrade
    <3> QED BY <1>7, <3>3 DEF CountTrade, RestOK
  <2> QED BY <1>7, <2>1, <2>2, <2>3 DEF CountTrade, ReqOK, RunsOK, AutoOK
<1>8. CASE PassThrows(p)
  BY <1>8, <1>e DEF PassThrows, RowOK, ReqOK, RunsOK, AutoOK, RestOK
<1> QED BY <1>1, <1>2, <1>3, <1>4, <1>5, <1>6, <1>7, <1>8 DEF PassStep

(* The autopilot, the exits, time and a restart keep the types.            *)
LEMMA RestTypeOK ==
    ASSUME TypeOK,
           \/ \E on \in BOOLEAN : SetPilot(on)
           \/ \E a \in Pilots : StartPilot(a) \/ PilotBuy(a)
           \/ PositionCloses \/ CooldownEnds \/ Midnight \/ Restart
    PROVE  TypeOK'
<1> USE DEF TypeOK
<1>1. ASSUME NEW on \in BOOLEAN, SetPilot(on) PROVE TypeOK'
  <2>1. AutoOK'
    BY <1>1 DEF SetPilot, AutoOK
  <2> QED BY <1>1, <2>1 DEF SetPilot, RowOK, ReqOK, RunsOK, PassOK, RestOK
<1>2. ASSUME NEW a \in Pilots, StartPilot(a) PROVE TypeOK'
  <2>1. AutoOK'
    BY <1>2 DEF StartPilot, AutoOK
  <2> QED BY <1>2, <2>1 DEF StartPilot, RowOK, ReqOK, RunsOK, PassOK, RestOK
<1>3. ASSUME NEW a \in Pilots, PilotBuy(a) PROVE TypeOK'
  <2>1. AutoOK'
    BY <1>3 DEF PilotBuy, AutoOK
  <2>2. RestOK'
    BY <1>3 DEF PilotBuy, RestOK
  <2> QED BY <1>3, <2>1, <2>2 DEF PilotBuy, RowOK, ReqOK, RunsOK, PassOK
<1>4. CASE PositionCloses
  <2>1. RestOK'
    BY <1>4 DEF PositionCloses, RestOK
  <2> QED BY <1>4, <2>1 DEF PositionCloses, RowOK, ReqOK, RunsOK, PassOK, AutoOK
<1>5. CASE CooldownEnds
  <2>1. RowOK'
    <3>1. row' = row \/ row' = [row EXCEPT !.hot = FALSE]
      BY <1>5, Zenon DEF CooldownEnds
    <3>2. [row EXCEPT !.hot = FALSE] \in Row
      BY Zenon DEF RowOK, Row
    <3>3. /\ [row EXCEPT !.hot = FALSE].stop = row.stop
          /\ [row EXCEPT !.hot = FALSE].enabled = row.enabled
      BY DEF RowOK, Row
    <3> QED BY <3>1, <3>2, <3>3, Zenon DEF RowOK
  <2>2. AutoOK'
    BY <1>5 DEF CooldownEnds, AutoOK
  <2> QED BY <1>5, <2>1, <2>2 DEF CooldownEnds, ReqOK, RunsOK, PassOK, RestOK
<1>6. CASE Midnight
  <2>1. RestOK'
    BY <1>6, BoundsAreNats DEF Midnight, RestOK
  <2> QED BY <1>6, <2>1 DEF Midnight, RowOK, ReqOK, RunsOK, PassOK, AutoOK
<1>7. CASE Restart
  <2>1. ReqOK'
    BY <1>7, IdleRecords, Zenon DEF Restart, ReqOK
  <2>2. PassOK'
    BY <1>7, IdleRecords DEF Restart, PassOK
  <2>3. AutoOK'
    BY <1>7 DEF Restart, AutoOK
  <2>4. tidy' \in BOOLEAN
    BY <1>7, Zenon DEF Restart
  <2>5. RestOK'
    BY <1>7, <2>4 DEF Restart, RestOK
  <2> QED BY <1>7, <2>1, <2>2, <2>3, <2>5 DEF Restart, RowOK, RunsOK
<1> QED BY <1>1, <1>2, <1>3, <1>4, <1>5, <1>6, <1>7

(* A step that changes nothing keeps the types.                            *)
LEMMA StutterTypeOK == ASSUME TypeOK, UNCHANGED vars PROVE TypeOK'
BY DEF TypeOK, RowOK, ReqOK, RunsOK, PassOK, AutoOK, RestOK, vars

(* Any step keeps the types.                                               *)
LEMMA NextTypeOK == TypeOK /\ [Next]_vars => TypeOK'
BY RequestTypeOK, PassTypeOK, RestTypeOK, StutterTypeOK DEF Next

(* The row, the requests, the passes and the counters are always well      *)
(* typed and a machine that is off is never left paused, whatever requests *)
(* overlap, fail or die.                                                   *)
THEOREM TypeCorrect == Spec => []TypeOK
BY InitTypeOK, NextTypeOK, PTL DEF Spec

-----------------------------------------------------------------------------
(* The invariant looks only at the passes, the counters and the date.      *)
LEMMA CapsIgnoreTheRest ==
    ASSUME CapsInv,
           UNCHANGED <<busy, pass, charged, day>>,
           row'.dayKey = row.dayKey, row'.trades = row.trades, row'.usd = row.usd
    PROVE  CapsInv'
BY DEF CapsInv, OnePass, FreshCounters, CountersCover, DailyCaps, WithinDailyLimits

(* Nothing is charged at first.                                            *)
LEMMA InitCaps == Init => CapsInv
<1> SUFFICES ASSUME Init PROVE CapsInv
  OBVIOUS
<1>1. row.dayKey = NoDay
  <2>1. row = EmptyRow \/ row = [EmptyRow EXCEPT !.enabled = TRUE, !.run = 1]
    BY Zenon DEF Init
  <2>2. EmptyRow.dayKey = NoDay /\ [EmptyRow EXCEPT !.enabled = TRUE, !.run = 1].dayKey = NoDay
    BY DEF EmptyRow
  <2> QED BY <2>1, <2>2, Zenon
<1>2. \A p \in Passes : pass[p].pc = "idle"
  BY DEF Init, IdlePass
<1>3. \A d \in 1..LastDay : charged[d].n = 0 /\ charged[d].usd = 0
  BY DEF Init
<1>4. day = 1
  BY DEF Init
<1> QED BY <1>1, <1>2, <1>3, <1>4, BoundsAreNats, CapsArePositive
        DEF CapsInv, OnePass, FreshCounters, CountersCover, DailyCaps, NoDay

(* A settings request never touches the counters.                          *)
LEMMA RequestCaps ==
    ASSUME TypeOK, CapsInv, NEW q \in Reqs,
           RequestStep(q) \/ \E raw \in Raws : SetSettings(q, raw)
    PROVE  CapsInv'
<1>1. UNCHANGED <<busy, pass, charged, day>>
  BY DEF RequestStep, SetSettings, ReadExisting, Preflight, StopOldRun, CreateRun,
         SaveSettings, AfterSave, RequestThrows
<1>2. row'.dayKey = row.dayKey /\ row'.trades = row.trades /\ row'.usd = row.usd
  <2>1. CASE SaveSettings(q)
    BY <2>1 DEF SaveSettings, TypeOK, RowOK, Row
  <2>2. CASE ~SaveSettings(q)
    <3>1. row' = row
      BY <2>2 DEF RequestStep, SetSettings, ReadExisting, Preflight, StopOldRun, CreateRun,
                  AfterSave, RequestThrows
    <3> QED BY <3>1
  <2> QED BY <2>1, <2>2
<1> QED BY <1>1, <1>2, CapsIgnoreTheRest

(* A pass that returns leaves the rest as it was: the others are idle.     *)
LEMMA EndPassCaps ==
    ASSUME TypeOK, NEW p \in Passes, OnePass, pass[p].pc # "idle", EndPass(p)
    PROVE  \A o \in Passes : pass'[o].pc = "idle"
BY DEF EndPass, OnePass, IdlePass, TypeOK, PassOK

(* Every step of the pass in flight keeps the invariant.                   *)
LEMMA PassCaps ==
    ASSUME TypeOK, CapsInv, NEW p \in Passes, StartPass(p) \/ PassStep(p)
    PROVE  CapsInv'
<1>0. /\ pass \in [Passes -> PassType] /\ pass[p] \in PassType
      /\ row \in Row /\ day \in 1..LastDay
      /\ charged \in [1..LastDay -> [n : Nat, usd : Nat]]
      /\ row.dayKey \in Nat /\ row.trades \in Nat /\ row.usd \in Nat
  BY DEF TypeOK, PassOK, RowOK, RestOK, Row, NoDay
<1> USE DEF CapsInv
<1>a. ASSUME \A o \in Passes : pass'[o].pc = "idle" PROVE OnePass' /\ FreshCounters'
  BY <1>a DEF OnePass, FreshCounters
<1>b. ASSUME row'.dayKey = row.dayKey, row'.trades = row.trades, row'.usd = row.usd,
             charged' = charged, day' = day
      PROVE  CountersCover' /\ DailyCaps'
  BY <1>b DEF CountersCover, DailyCaps
(* Steps that move the pass on and leave row and counters alone.           *)
<1>c. ASSUME row' = row, charged' = charged, day' = day, busy' = busy, pass[p].pc # "idle",
             pass[p].pc # "reset",
             \A o \in Passes \ {p} : pass'[o] = pass[o],
             pass'[p].row = pass[p].row
      PROVE  CapsInv'
  <2>1. OnePass'
    BY <1>c DEF OnePass
  <2>2. FreshCounters'
    BY <1>c DEF OnePass, FreshCounters, WithinDailyLimits
  <2> QED BY <1>b, <1>c, <2>1, <2>2
<1>d. ASSUME EndPass(p), pass[p].pc # "idle", row' = row, charged' = charged, day' = day
      PROVE  CapsInv'
  BY <1>a, <1>b, <1>d, EndPassCaps
<1>1. CASE StartPass(p)
  <2>1. /\ busy' = TRUE /\ row' = row /\ charged' = charged /\ day' = day
        /\ \A o \in Passes : pass[o].pc = "idle"
    BY <1>1 DEF StartPass, OnePass
  <2>2. /\ \A o \in Passes \ {p} : pass'[o].pc = "idle"
        /\ pass'[p].pc = "reset"
        /\ pass'[p].row.dayKey = row.dayKey /\ pass'[p].row.trades = row.trades
        /\ pass'[p].row.usd = row.usd
    BY <1>0, <1>1, <2>1 DEF StartPass, IdlePass, Counters
  <2>3. OnePass' /\ FreshCounters'
    BY <2>1, <2>2 DEF OnePass, FreshCounters
  <2> QED BY <1>b, <2>1, <2>3
<1>2. CASE ResetAndGate(p)
  <2> DEFINE r == Refreshed(pass[p].row)
  <2>1. /\ pass[p].pc = "reset" /\ charged' = charged /\ day' = day
        /\ row' = IF pass[p].row.dayKey = day THEN row
                  ELSE [row EXCEPT !.dayKey = day, !.trades = 0, !.usd = 0]
    BY <1>2, Zenon DEF ResetAndGate
  <2>2. /\ row'.dayKey = day
        /\ row'.trades = IF row.dayKey = day THEN row.trades ELSE 0
        /\ row'.usd = IF row.dayKey = day THEN row.usd ELSE 0
    BY <1>0, <2>1 DEF FreshCounters, Row
  <2>3. r.dayKey = day /\ r.trades = row'.trades /\ r.usd = row'.usd
    BY <1>0, <2>1, <2>2 DEF FreshCounters, Refreshed
  <2>4. CountersCover'
    BY <1>0, <2>1, <2>2 DEF CountersCover
  <2>5. DailyCaps'
    BY <2>1 DEF DailyCaps
  <2>6. OnePass' /\ FreshCounters'
    <3>1. CASE EndPass(p)
      BY <1>a, <2>1, <3>1, EndPassCaps
    <3>2. ASSUME pass' = [pass EXCEPT ![p].pc = "count", ![p].row = r], busy' = busy,
                 WithinDailyLimits(r)
          PROVE  OnePass' /\ FreshCounters'
      <4>1. /\ pass'[p].pc = "count" /\ pass'[p].row = r
            /\ \A o \in Passes \ {p} : pass'[o] = pass[o]
        BY <1>0, <3>2 DEF PassType
      <4>2. OnePass'
        BY <2>1, <3>2, <4>1 DEF OnePass
      <4>3. FreshCounters'
        <5>1. \A o \in Passes \ {p} : pass'[o].pc = "idle"
          BY <2>1, <4>1 DEF OnePass
        <5>2. /\ pass'[p].row.dayKey = row'.dayKey /\ pass'[p].row.trades = row'.trades
              /\ pass'[p].row.usd = row'.usd /\ WithinDailyLimits(pass'[p].row)
          BY <2>2, <2>3, <3>2, <4>1
        <5> QED BY <4>1, <5>1, <5>2 DEF FreshCounters
      <4> QED BY <4>2, <4>3
    <3> QED BY <1>2, <3>1, <3>2, Zenon DEF ResetAndGate
  <2> QED BY <2>4, <2>5, <2>6
<1>3. CASE CountOpenPositions(p)
  <2>1. pass'[p].row = pass[p].row /\ \A o \in Passes \ {p} : pass'[o] = pass[o]
    BY <1>0, <1>3 DEF CountOpenPositions, PassType
  <2> QED BY <1>3, <1>c, <2>1 DEF CountOpenPositions
<1>4. CASE Council(p)
  <2>1. ASSUME NEW s \in Sizes, busy' = busy,
               pass' = [pass EXCEPT ![p].pc = "check", ![p].seen = 0, ![p].size = s]
        PROVE  CapsInv'
    <3>1. pass'[p].row = pass[p].row /\ \A o \in Passes \ {p} : pass'[o] = pass[o]
      BY <1>0, <2>1 DEF PassType
    <3> QED BY <1>4, <1>c, <2>1, <3>1 DEF Council
  <2>2. CASE EndPass(p)
    BY <1>4, <1>d, <2>2 DEF Council
  <2> QED BY <1>4, <2>1, <2>2, Zenon DEF Council
<1>5. CASE CheckLive(p)
  <2>1. ASSUME pass' = [pass EXCEPT ![p].pc = "swap"], busy' = busy PROVE CapsInv'
    <3>1. pass'[p].row = pass[p].row /\ \A o \in Passes \ {p} : pass'[o] = pass[o]
      BY <1>0, <2>1 DEF PassType
    <3> QED BY <1>5, <1>c, <2>1, <3>1 DEF CheckLive
  <2>2. CASE EndPass(p)
    BY <1>5, <1>d, <2>2 DEF CheckLive
  <2> QED BY <1>5, <2>1, <2>2, Zenon DEF CheckLive
<1>6. CASE Swap(p)
  <2>1. ASSUME pass' = [pass EXCEPT ![p].pc = "write", ![p].filled = day], busy' = busy
        PROVE  CapsInv'
    <3>1. pass'[p].row = pass[p].row /\ \A o \in Passes \ {p} : pass'[o] = pass[o]
      BY <1>0, <2>1 DEF PassType
    <3> QED BY <1>6, <1>c, <2>1, <3>1 DEF Swap
  <2>2. CASE EndPass(p)
    BY <1>6, <1>d, <2>2 DEF Swap
  <2> QED BY <1>6, <2>1, <2>2, Zenon DEF Swap
<1>7. CASE CountTrade(p)
  <2> DEFINE k == row.dayKey
             size == pass[p].size
  <2>1. /\ pass[p].pc = "write" /\ EndPass(p) /\ day' = day
    BY <1>7, Zenon DEF CountTrade
  <2>2. OnePass' /\ FreshCounters'
    BY <1>a, <2>1, EndPassCaps
  <2>3. ASSUME row' = [row EXCEPT !.hot = TRUE, !.trades = pass[p].row.trades + 1,
                                  !.usd = pass[p].row.usd + pass[p].size],
               charged' = IF pass[p].row.dayKey # pass[p].filled THEN charged
                          ELSE [charged EXCEPT ![pass[p].row.dayKey].n = @ + 1,
                                    ![pass[p].row.dayKey].usd = @ + pass[p].size]
        PROVE  CapsInv'
    <3>1. /\ pass[p].row.dayKey = k /\ pass[p].row.trades = row.trades
          /\ pass[p].row.usd = row.usd
          /\ row.trades < MaxDailyTrades /\ row.usd < MaxDailyVolumeUsd
      BY <2>1 DEF FreshCounters, WithinDailyLimits
    <3>2. size \in 0..MaxTradeUsd
      BY <1>0, CapsArePositive DEF PassType, Sizes
    <3>3. row'.dayKey = k /\ row'.trades = row.trades + 1 /\ row'.usd = row.usd + size
      BY <1>0, <2>3, <3>1 DEF Row
    <3>4. \A d \in 1..LastDay :
            \/ charged'[d].n = charged[d].n /\ charged'[d].usd = charged[d].usd
            \/ /\ d = k /\ charged'[d].n = charged[d].n + 1
               /\ charged'[d].usd = charged[d].usd + size
      BY <1>0, <2>3, <3>1
    <3>5. \A d \in 1..LastDay : charged[d].n \in Nat /\ charged[d].usd \in Nat
      BY <1>0
    <3>6. CountersCover'
      <4>1. row'.dayKey <= day'
        BY <2>1, <3>3 DEF CountersCover
      <4>2. ASSUME NEW d \in 1..LastDay
            PROVE  /\ d = k => charged'[d].n <= row'.trades /\ charged'[d].usd <= row'.usd
                   /\ d > k => charged'[d].n = 0 /\ charged'[d].usd = 0
        <5>1. /\ d = k => charged[d].n <= row.trades /\ charged[d].usd <= row.usd
              /\ d > k => charged[d].n = 0 /\ charged[d].usd = 0
          BY DEF CountersCover
        <5>2. k \in Nat /\ row.trades \in Nat /\ row.usd \in Nat
          BY <1>0 DEF Row
        <5> HIDE DEF k, size
        <5> QED BY <3>2, <3>3, <3>4, <3>5, <5>1, <5>2, CapsArePositive
      <4> QED BY <3>3, <4>1, <4>2 DEF CountersCover
    <3>7. DailyCaps'
      <4> SUFFICES ASSUME NEW d \in 1..LastDay
                   PROVE  /\ charged'[d].n <= MaxDailyTrades
                          /\ charged'[d].usd < MaxDailyVolumeUsd + MaxTradeUsd
        BY DEF DailyCaps
      <4>1. CASE charged'[d].n = charged[d].n /\ charged'[d].usd = charged[d].usd
        BY <4>1 DEF DailyCaps
      <4>2. CASE d = k /\ charged'[d].n = charged[d].n + 1 /\ charged'[d].usd = charged[d].usd + size
        <5>1. charged[d].n <= row.trades /\ charged[d].usd <= row.usd
          BY <4>2 DEF CountersCover
        <5>2. /\ charged[d].n \in Nat /\ charged[d].usd \in Nat
              /\ row.trades \in Nat /\ row.usd \in Nat
          BY <1>0, <3>5
        <5>3. charged[d].n + 1 <= MaxDailyTrades
          BY <3>1, <5>1, <5>2, CapsArePositive
        <5>4. charged[d].usd + size < MaxDailyVolumeUsd + MaxTradeUsd
          <6> HIDE DEF size
          <6> QED BY <3>1, <3>2, <5>1, <5>2, CapsArePositive
        <5> QED BY <4>2, <5>3, <5>4
      <4> QED BY <3>4, <4>1, <4>2
    <3> QED BY <2>2, <3>6, <3>7
  <2> QED BY <1>7, <2>3, Zenon DEF CountTrade
<1>8. CASE PassThrows(p)
  BY <1>8, <1>d DEF PassThrows
<1> QED BY <1>1, <1>2, <1>3, <1>4, <1>5, <1>6, <1>7, <1>8 DEF PassStep

(* So do the autopilot, the exits, time and a restart.                     *)
LEMMA RestCaps ==
    ASSUME TypeOK, CapsInv,
           \/ \E on \in BOOLEAN : SetPilot(on)
           \/ \E a \in Pilots : StartPilot(a) \/ PilotBuy(a)
           \/ PositionCloses \/ CooldownEnds \/ Midnight \/ Restart
    PROVE  CapsInv'
<1>1. CASE Midnight
  <2>1. row' = row /\ pass' = pass /\ busy' = busy /\ charged' = charged /\ day' = day + 1
    BY <1>1 DEF Midnight
  <2>2. row.dayKey \in Nat /\ day \in Nat
    BY DEF TypeOK, RowOK, Row, RestOK, NoDay
  <2> QED BY <2>1, <2>2 DEF CapsInv, OnePass, FreshCounters, CountersCover, DailyCaps,
                            WithinDailyLimits
<1>2. CASE Restart
  <2>1. row' = row /\ charged' = charged /\ day' = day
        /\ \A p \in Passes : pass'[p].pc = "idle"
    BY <1>2 DEF Restart, IdlePass
  <2> QED BY <2>1 DEF CapsInv, OnePass, FreshCounters, CountersCover, DailyCaps
<1>3. CASE ~Midnight /\ ~Restart
  <2>1. UNCHANGED <<busy, pass, charged, day>>
    BY <1>3 DEF SetPilot, StartPilot, PilotBuy, PositionCloses, CooldownEnds
  <2>2. row' = row \/ row' = [row EXCEPT !.hot = FALSE]
    BY <1>3 DEF SetPilot, StartPilot, PilotBuy, PositionCloses, CooldownEnds
  <2>3. row'.dayKey = row.dayKey /\ row'.trades = row.trades /\ row'.usd = row.usd
    BY <2>2 DEF TypeOK, RowOK, Row
  <2> QED BY <2>1, <2>3, CapsIgnoreTheRest
<1> QED BY <1>1, <1>2, <1>3

(* Any step keeps the invariant.                                           *)
LEMMA NextCaps == TypeOK /\ CapsInv /\ [Next]_vars => CapsInv'
<1> SUFFICES ASSUME TypeOK, CapsInv, [Next]_vars PROVE CapsInv'
  OBVIOUS
<1>1. CASE UNCHANGED vars
  BY <1>1, CapsIgnoreTheRest DEF vars
<1> QED BY <1>1, RequestCaps, PassCaps, RestCaps DEF Next

(* The buys charged to a day never exceed maxDailyTrades, nor their volume *)
(* maxDailyVolumeUsd by a whole trade, for any limits and any interleaving *)
(* of timer firings, settings requests, restarts and midnights.            *)
THEOREM DailyCapsHold == Spec => []DailyCaps
<1>1. CapsInv => DailyCaps
  BY DEF CapsInv
<1> QED BY <1>1, TypeCorrect, InitCaps, NextCaps, PTL DEF Spec

(* The watcher never runs two passes at once: what a pass read of the      *)
(* counters is still in the row when it writes them back.                  *)
THEOREM SingleWriter == Spec => [](OnePass /\ FreshCounters)
<1>1. CapsInv => OnePass /\ FreshCounters
  BY DEF CapsInv
<1> QED BY <1>1, TypeCorrect, InitCaps, NextCaps, PTL DEF Spec

-----------------------------------------------------------------------------
(* The cap on open positions.  A buyer that passed its gate and has not    *)
(* bought yet holds a claim: an autopilot pass that is to buy, and a pass  *)
(* of the machine whose count is below its cap or that has passed the risk *)
(* agent.  Positions and claims together stay within the larger cap plus   *)
(* one claim per autopilot pass: who makes a new claim saw fewer positions *)
(* than its own cap, and there is at most one claim per autopilot pass and *)
(* one of the machine.                                                     *)
Buying == {a \in Pilots : auto[a] = "buy"}
Claims(p) ==
    \/ pass[p].pc \in {"check", "swap"}
    \/ pass[p].pc = "council" /\ RiskAllows(pass[p].seen)
MachineClaims == IF \E p \in Passes : Claims(p) THEN 1 ELSE 0
LargerCap == IF MaxOpenPositions >= PilotMaxOpen THEN MaxOpenPositions ELSE PilotMaxOpen

ClaimsInv == open + Cardinality(Buying) + MachineClaims <= LargerCap + Cardinality(Pilots)

(* Claims are counted in natural numbers, at most one per autopilot pass   *)
(* and one of the machine.                                                 *)
LEMMA ClaimsAreCounted ==
    /\ Cardinality(Buying) \in Nat /\ Cardinality(Pilots) \in Nat
    /\ Cardinality(Buying) <= Cardinality(Pilots)
    /\ IsFiniteSet(Buying)
    /\ MachineClaims \in {0, 1}
    /\ LargerCap \in Nat /\ MaxOpenPositions <= LargerCap /\ PilotMaxOpen <= LargerCap
<1>1. Buying \in SUBSET Pilots
  BY DEF Buying
<1>2. IsFiniteSet(Buying) /\ Cardinality(Buying) <= Cardinality(Pilots)
  BY <1>1, FS_Subset, PilotsAreFinite
<1>3. Cardinality(Buying) \in Nat /\ Cardinality(Pilots) \in Nat
  BY <1>2, FS_CardinalityType, PilotsAreFinite
<1>4. MachineClaims \in {0, 1}
  BY DEF MachineClaims
<1>5. LargerCap \in Nat /\ MaxOpenPositions <= LargerCap /\ PilotMaxOpen <= LargerCap
  BY BoundsAreNats DEF LargerCap
<1> QED BY <1>2, <1>3, <1>4, <1>5

(* The same of the next state.                                             *)
LEMMA ClaimsAreCountedNext ==
    /\ Cardinality(Buying') \in Nat
    /\ Cardinality(Buying') <= Cardinality(Pilots)
    /\ MachineClaims' \in {0, 1}
<1>1. Buying' \in SUBSET Pilots
  BY DEF Buying
<1>2. IsFiniteSet(Buying') /\ Cardinality(Buying') <= Cardinality(Pilots)
  BY <1>1, FS_Subset, PilotsAreFinite
<1>3. Cardinality(Buying') \in Nat
  BY <1>2, FS_CardinalityType
<1>4. MachineClaims' \in {0, 1}
  BY DEF MachineClaims
<1> QED BY <1>2, <1>3, <1>4

(* A step that opens no position and makes no claim keeps the sum.         *)
LEMMA NoNewClaim ==
    ASSUME TypeOK, ClaimsInv, open' \in Nat, open' <= open,
           Cardinality(Buying') <= Cardinality(Buying), MachineClaims' <= MachineClaims
    PROVE  ClaimsInv'
<1>1. open \in Nat
  BY DEF TypeOK, RestOK
<1> HIDE DEF Buying, MachineClaims, LargerCap
<1> QED BY <1>1, ClaimsAreCounted, ClaimsAreCountedNext DEF ClaimsInv

(* The machine makes a claim only from a count below its cap, gives it up  *)
(* when it buys or when the pass ends, and holds only one.                 *)
LEMMA PassClaims ==
    ASSUME TypeOK, OnePass, ClaimsInv, NEW p \in Passes, StartPass(p) \/ PassStep(p)
    PROVE  ClaimsInv'
<1>0. /\ pass \in [Passes -> PassType] /\ pass[p] \in PassType /\ open \in Nat
  BY DEF TypeOK, PassOK, RestOK
<1>1. Buying' = Buying
  BY DEF StartPass, PassStep, ResetAndGate, CountOpenPositions, Council, CheckLive, Swap,
         CountTrade, PassThrows, Buying
<1>2. \A o \in Passes : o # p => ~Claims(o)
  BY DEF OnePass, Claims, StartPass, PassStep, ResetAndGate, CountOpenPositions, Council,
         CheckLive, Swap, CountTrade, PassThrows
<1>3. \A o \in Passes \ {p} : pass'[o] = pass[o]
  BY <1>0 DEF StartPass, PassStep, ResetAndGate, CountOpenPositions, Council, CheckLive, Swap,
         CountTrade, PassThrows, EndPass
<1>4. \A o \in Passes \ {p} : ~Claims(o)'
  BY <1>2, <1>3 DEF Claims
<1>5. MachineClaims' = (IF Claims(p)' THEN 1 ELSE 0) /\ MachineClaims = (IF Claims(p) THEN 1 ELSE 0)
  BY <1>2, <1>4 DEF MachineClaims
<1>n. ASSUME open' = open, Claims(p)' => Claims(p) PROVE ClaimsInv'
  BY <1>0, <1>1, <1>5, <1>n, ClaimsAreCounted, NoNewClaim
<1>e. ASSUME EndPass(p) PROVE ~Claims(p)'
  BY <1>0, <1>e DEF EndPass, Claims, IdlePass
<1>6. CASE StartPass(p)
  <2>1. ~Claims(p)'
    BY <1>0, <1>6 DEF StartPass, Claims, IdlePass
  <2> QED BY <1>6, <1>n, <2>1 DEF StartPass
<1>7. CASE ResetAndGate(p)
  <2>1. pass'[p].pc \in {"idle", "count"}
    BY <1>0, <1>7 DEF ResetAndGate, EndPass, IdlePass, PassType
  <2> QED BY <1>7, <1>n, <2>1 DEF ResetAndGate, Claims
<1>8. CASE CountOpenPositions(p)
  <2>1. pass'[p].pc = "council" /\ pass'[p].seen = open /\ open' = open
    BY <1>0, <1>8 DEF CountOpenPositions, PassType
  <2>2. CASE open < MaxOpenPositions
    <3>1. MachineClaims' \in {0, 1} /\ Cardinality(Buying') <= Cardinality(Pilots)
      BY ClaimsAreCountedNext
    <3> HIDE DEF MachineClaims, Buying, LargerCap
    <3> QED BY <1>0, <2>1, <2>2, <3>1, ClaimsAreCounted, ClaimsAreCountedNext, BoundsAreNats
            DEF ClaimsInv
  <2>3. CASE ~(open < MaxOpenPositions)
    BY <1>n, <2>1, <2>3 DEF Claims, RiskAllows
  <2> QED BY <2>2, <2>3
<1>9. CASE Council(p)
  <2>1. CASE EndPass(p)
    BY <1>9, <1>n, <1>e, <2>1 DEF Council
  <2>2. CASE pass[p].pc = "council" /\ RiskAllows(pass[p].seen)
    BY <1>9, <1>n, <2>2 DEF Council, Claims
  <2> QED BY <1>9, <2>1, <2>2, Zenon DEF Council
<1>10. CASE CheckLive(p) \/ PassThrows(p)
  <2>1. CASE EndPass(p)
    BY <1>10, <1>n, <1>e, <2>1 DEF CheckLive, PassThrows
  <2>2. CASE pass[p].pc = "check" /\ open' = open
    BY <1>n, <2>2 DEF Claims
  <2> QED BY <1>10, <2>1, <2>2 DEF CheckLive, PassThrows
<1>11. CASE Swap(p)
  <2>1. Claims(p)
    BY <1>11 DEF Swap, Claims
  <2>2. CASE EndPass(p) /\ open' = open
    BY <1>n, <1>e, <2>2
  <2>3. CASE open' = open + 1 /\ pass' = [pass EXCEPT ![p].pc = "write", ![p].filled = day]
    <3>1. ~Claims(p)'
      BY <1>0, <2>3 DEF Claims, PassType
    <3>2. MachineClaims = 1 /\ MachineClaims' = 0
      BY <1>5, <2>1, <3>1
    <3> HIDE DEF MachineClaims, Buying, LargerCap
    <3> QED BY <1>0, <1>1, <2>3, <3>2, ClaimsAreCounted DEF ClaimsInv
  <2> QED BY <1>11, <2>2, <2>3, Zenon DEF Swap
<1>12. CASE CountTrade(p)
  BY <1>12, <1>n, <1>e DEF CountTrade
<1> QED BY <1>6, <1>7, <1>8, <1>9, <1>10, <1>11, <1>12 DEF PassStep

(* An autopilot pass makes its claim below its own cap and turns it into   *)
(* at most one position.                                                   *)
LEMMA PilotClaims ==
    ASSUME TypeOK, ClaimsInv, NEW a \in Pilots, StartPilot(a) \/ PilotBuy(a)
    PROVE  ClaimsInv'
<1>0. auto \in [Pilots -> {"idle", "buy"}] /\ open \in Nat
  BY DEF TypeOK, AutoOK, RestOK
<1>1. MachineClaims' = MachineClaims
  BY DEF StartPilot, PilotBuy, MachineClaims, Claims
<1>2. CASE StartPilot(a)
  <2>1. open' = open /\ open < PilotMaxOpen
    BY <1>2 DEF StartPilot, PilotAllows
  <2> HIDE DEF MachineClaims, Buying, LargerCap
  <2> QED BY <1>0, <2>1, ClaimsAreCounted, ClaimsAreCountedNext, BoundsAreNats DEF ClaimsInv
<1>3. CASE PilotBuy(a)
  <2>1. Buying' = Buying \ {a} /\ a \in Buying
    BY <1>0, <1>3 DEF PilotBuy, Buying
  <2>2. Cardinality(Buying') = Cardinality(Buying) - 1
    BY <2>1, FS_RemoveElement, ClaimsAreCounted
  <2>3. open' \in {open, open + 1}
    BY <1>3 DEF PilotBuy
  <2> HIDE DEF MachineClaims, Buying, LargerCap
  <2> QED BY <1>0, <1>1, <2>2, <2>3, ClaimsAreCounted DEF ClaimsInv
<1> QED BY <1>2, <1>3

(* A restart drops every claim.                                            *)
LEMMA RestartClaims == ASSUME TypeOK, ClaimsInv, Restart PROVE ClaimsInv'
<1>1. Buying' = {}
  BY DEF Restart, Buying
<1>2. MachineClaims' = 0
  BY DEF Restart, MachineClaims, Claims, IdlePass
<1>3. Cardinality(Buying') = 0 /\ open' = open /\ open \in Nat
  BY <1>1, FS_EmptySet DEF Restart, TypeOK, RestOK
<1> QED BY <1>2, <1>3, ClaimsAreCounted, NoNewClaim

(* Nothing else opens a position or makes a claim.                         *)
LEMMA NextClaims == TypeOK /\ OnePass /\ ClaimsInv /\ [Next]_vars => ClaimsInv'
<1> SUFFICES ASSUME TypeOK, OnePass, ClaimsInv, [Next]_vars PROVE ClaimsInv'
  OBVIOUS
<1>0. open \in Nat
  BY DEF TypeOK, RestOK
<1>1. ASSUME UNCHANGED <<auto, pass>>, open' \in Nat, open' <= open PROVE ClaimsInv'
  <2>1. Buying' = Buying /\ MachineClaims' = MachineClaims
    BY <1>1 DEF Buying, MachineClaims, Claims
  <2> QED BY <1>1, <2>1, ClaimsAreCounted, NoNewClaim
<1>2. ASSUME NEW q \in Reqs, RequestStep(q) \/ \E raw \in Raws : SetSettings(q, raw)
      PROVE  ClaimsInv'
  <2>1. UNCHANGED <<auto, pass, open>>
    BY <1>2 DEF RequestStep, SetSettings, ReadExisting, Preflight, StopOldRun, CreateRun,
                SaveSettings, AfterSave, RequestThrows
  <2> QED BY <1>0, <1>1, <2>1
<1>3. ASSUME PositionCloses \/ CooldownEnds \/ Midnight \/ \E on \in BOOLEAN : SetPilot(on)
      PROVE  ClaimsInv'
  BY <1>0, <1>1, <1>3 DEF PositionCloses, CooldownEnds, Midnight, SetPilot
<1>4. CASE UNCHANGED vars
  BY <1>0, <1>1, <1>4 DEF vars
<1> QED BY <1>2, <1>3, <1>4, PassClaims, PilotClaims, RestartClaims DEF Next

(* Open positions exceed the larger of the two caps by at most one per     *)
(* autopilot pass in flight, although every buyer counts them long before  *)
(* it buys and reserves nothing.                                           *)
THEOREM OpenCapHolds == Spec => []OpenCap
<1>1. Init => ClaimsInv
  <2> SUFFICES ASSUME Init PROVE ClaimsInv
    OBVIOUS
  <2>1. Buying = {} /\ MachineClaims = 0 /\ open = 0
    BY DEF Init, Buying, MachineClaims, Claims, IdlePass
  <2>2. Cardinality(Buying) = 0
    BY <2>1, FS_EmptySet
  <2> HIDE DEF MachineClaims, Buying, LargerCap
  <2> QED BY <2>1, <2>2, ClaimsAreCounted DEF ClaimsInv
<1>2. TypeOK /\ ClaimsInv => OpenCap
  <2> SUFFICES ASSUME TypeOK, ClaimsInv PROVE OpenCap
    OBVIOUS
  <2>1. open <= LargerCap + Cardinality(Pilots)
    <3> HIDE DEF MachineClaims, Buying, LargerCap
    <3> QED BY ClaimsAreCounted DEF ClaimsInv, TypeOK, RestOK
  <2> QED BY <2>1 DEF OpenCap, LargerCap
<1> QED BY <1>1, <1>2, NextClaims, TypeCorrect, SingleWriter, PTL DEF Spec

-----------------------------------------------------------------------------
(* The runs and the switch.  While everything is tidy there is at most one *)
(* settings request, and what it does to the runs and to the row stays in  *)
(* step: until it saves, the row and the runs match, except that a request *)
(* that turns the machine on has already created the run it will name; and *)
(* after a save that turned the machine off the run to stop is the one the *)
(* request read.                                                           *)
Running(i) == runs[i] = "RUNNING"
Match == \A i \in RunIds : Running(i) <=> row.enabled /\ row.run = i

RequestInv(r) ==
    /\ r.pc \notin {"idle", "after"} => (r.prev <=> row.enabled)
    /\ r.pc \in {"preflight", "stopOld", "create"} => TurningOn(r)
    /\ r.pc \in {"existing", "preflight", "stopOld", "create"} => Match
    /\ r.pc = "save" /\ TurningOn(r) => \A i \in RunIds : Running(i) <=> i = r.run
    /\ r.pc = "save" /\ ~TurningOn(r) => Match /\ r.existing = row.run
    /\ r.pc = "after" /\ r.enabled => Match
    /\ r.pc = "after" /\ ~r.enabled =>
          ~row.enabled /\ \A i \in RunIds : Running(i) => r.prev /\ i = r.existing

TidyInv ==
    tidy => /\ \A p, q \in InFlight : p = q
            /\ InFlight = {} => Match
            /\ \A q \in InFlight : RequestInv(req[q])

(* The invariant looks only at the runs, the requests and the switches.    *)
LEMMA TidyIgnoresTheRest ==
    ASSUME TidyInv, UNCHANGED <<runs, req, tidy>>,
           row'.enabled = row.enabled, row'.run = row.run
    PROVE  TidyInv'
<1>1. Match' = Match
  BY DEF Match, Running
<1>2. ASSUME NEW r PROVE RequestInv(r)' = RequestInv(r)
  BY <1>1 DEF RequestInv, Running, TurningOn
<1>3. InFlight' = InFlight
  BY DEF InFlight
<1> QED BY <1>1, <1>2, <1>3 DEF TidyInv

(* A request that moves on stays the only one: it is enough to look at it. *)
LEMMA OnlyRequest ==
    ASSUME TypeOK, TidyInv, NEW q \in Reqs, req[q].pc # "idle", tidy' => tidy,
           \A p \in Reqs \ {q} : req'[p] = req[p],
           tidy => IF req'[q].pc = "idle" THEN Match' ELSE RequestInv(req[q])'
    PROVE  TidyInv'
<1> SUFFICES ASSUME tidy, tidy' PROVE TidyInv'
  BY DEF TidyInv
<1>1. q \in InFlight /\ InFlight = {q}
  BY DEF InFlight, TidyInv
<1>2. InFlight' = IF req'[q].pc = "idle" THEN {} ELSE {q}
  BY <1>1 DEF InFlight
<1> QED BY <1>2 DEF TidyInv

(* Every step of a settings request keeps the invariant.                   *)
LEMMA RequestTidy ==
    ASSUME TypeOK, TidyInv, NEW q \in Reqs,
           RequestStep(q) \/ \E raw \in Raws : SetSettings(q, raw)
    PROVE  TidyInv'
<1>0. /\ req \in [Reqs -> ReqType] /\ req[q] \in ReqType /\ row \in Row
      /\ runs \in [RunIds -> {"none", "RUNNING", "STOPPED"}]
  BY DEF TypeOK, ReqOK, RowOK, RunsOK
<1>q. ASSUME tidy, req[q].pc # "idle" PROVE RequestInv(req[q])
  BY <1>q DEF TidyInv, InFlight
<1>1. ASSUME NEW raw \in Raws, SetSettings(q, raw) PROVE TidyInv'
  <2> SUFFICES ASSUME tidy' PROVE TidyInv'
    BY DEF TidyInv
  <2>1. tidy /\ InFlight = {} /\ row' = row /\ runs' = runs
    BY <1>1 DEF SetSettings
  <2>2. /\ \A p \in Reqs \ {q} : req'[p] = req[p]
        /\ req'[q].pc = "existing" /\ (req'[q].prev <=> row.enabled)
    BY <1>0, <1>1 DEF SetSettings, ReqType, Row
  <2>3. InFlight' = {q}
    BY <2>1, <2>2 DEF InFlight
  <2>4. Match'
    BY <2>1 DEF TidyInv, Match, Running
  <2>5. RequestInv(req[q])'
    BY <2>1, <2>2, <2>4 DEF RequestInv
  <2> QED BY <2>3, <2>5 DEF TidyInv
<1>2. CASE ReadExisting(q)
  <2>1. /\ row' = row /\ runs' = runs /\ tidy' = tidy /\ req[q].pc = "existing"
        /\ \A p \in Reqs \ {q} : req'[p] = req[p]
        /\ req'[q].existing = row.run
        /\ req'[q].pc = IF TurningOn(req[q]) THEN "preflight" ELSE "save"
        /\ req'[q].prev = req[q].prev /\ req'[q].enabled = req[q].enabled
    BY <1>0, <1>2 DEF ReadExisting, ReqType
  <2>2. ASSUME tidy PROVE RequestInv(req[q])'
    <3>1. (req[q].prev <=> row.enabled) /\ Match
      BY <1>q, <2>1, <2>2 DEF RequestInv
    <3>2. Match' /\ (TurningOn(req'[q]) <=> TurningOn(req[q]))
      BY <2>1, <3>1 DEF Match, Running, TurningOn
    <3> QED BY <2>1, <3>1, <3>2 DEF RequestInv
  <2> QED BY <2>1, <2>2, OnlyRequest
<1>3. CASE Preflight(q)
  <2>1. /\ row' = row /\ runs' = runs /\ tidy' = tidy /\ req[q].pc = "preflight"
        /\ \A p \in Reqs \ {q} : req'[p] = req[p]
        /\ req'[q].pc = "stopOld"
        /\ req'[q].prev = req[q].prev /\ req'[q].enabled = req[q].enabled
    BY <1>0, <1>3 DEF Preflight, ReqType
  <2>2. ASSUME tidy PROVE RequestInv(req[q])'
    <3>1. (req[q].prev <=> row.enabled) /\ Match /\ TurningOn(req[q])
      BY <1>q, <2>1, <2>2 DEF RequestInv
    <3>2. Match' /\ TurningOn(req'[q])
      BY <2>1, <3>1 DEF Match, Running, TurningOn
    <3> QED BY <2>1, <3>1, <3>2 DEF RequestInv
  <2> QED BY <2>1, <2>2, OnlyRequest
<1>4. CASE StopOldRun(q)
  <2>1. /\ row' = row /\ (tidy' => tidy) /\ req[q].pc = "stopOld"
        /\ \A p \in Reqs \ {q} : req'[p] = req[p]
        /\ req'[q].prev = req[q].prev /\ req'[q].enabled = req[q].enabled
    BY <1>0, <1>4 DEF StopOldRun, ReqType
  <2>2. CASE ~tidy'
    BY <2>2 DEF TidyInv
  <2>3. CASE tidy'
    <3>1. req'[q].pc = "create" /\ runs' = StopRun(req[q].existing)
      BY <1>0, <1>4, <2>3 DEF StopOldRun, ReqType
    <3>2. (req[q].prev <=> row.enabled) /\ Match /\ TurningOn(req[q])
      BY <1>q, <2>1, <2>3 DEF RequestInv
    <3>3. \A i \in RunIds : ~Running(i) /\ ~Running(i)'
      BY <3>1, <3>2 DEF Match, TurningOn, Running, StopRun
    <3>4. Match' /\ TurningOn(req'[q])
      BY <2>1, <3>2, <3>3 DEF Match, TurningOn
    <3>5. RequestInv(req[q])'
      BY <2>1, <3>1, <3>2, <3>4 DEF RequestInv
    <3> QED BY <2>1, <3>1, <3>5, OnlyRequest
  <2> QED BY <2>2, <2>3
<1>5. CASE CreateRun(q)
  <2>1. row' = row /\ (tidy' => tidy) /\ req[q].pc = "create"
    BY <1>5 DEF CreateRun
  <2>2. CASE ~tidy'
    BY <2>2 DEF TidyInv
  <2>3. CASE tidy'
    <3>1. PICK id \in RunIds : /\ runs' = [runs EXCEPT ![id] = "RUNNING"]
                               /\ req' = [req EXCEPT ![q].run = id, ![q].pc = "save"]
      BY <1>5, <2>3 DEF CreateRun
    <3>2. /\ req'[q].pc = "save" /\ req'[q].run = id
          /\ req'[q].prev = req[q].prev /\ req'[q].enabled = req[q].enabled
          /\ \A p \in Reqs \ {q} : req'[p] = req[p]
      BY <1>0, <3>1 DEF ReqType
    <3>3. (req[q].prev <=> row.enabled) /\ Match /\ TurningOn(req[q])
      BY <1>q, <2>1, <2>3 DEF RequestInv
    <3>4. \A i \in RunIds : Running(i)' <=> i = id
      BY <1>0, <3>1, <3>3 DEF Match, TurningOn, Running
    <3>5. TurningOn(req'[q])
      BY <3>2, <3>3 DEF TurningOn
    <3>6. RequestInv(req[q])'
      BY <2>1, <3>2, <3>3, <3>4, <3>5 DEF RequestInv
    <3> QED BY <2>1, <3>2, <3>6, OnlyRequest
  <2> QED BY <2>2, <2>3
<1>6. CASE SaveSettings(q)
  <2>1. /\ runs' = runs /\ tidy' = tidy /\ req[q].pc = "save"
        /\ \A p \in Reqs \ {q} : req'[p] = req[p]
        /\ req'[q].pc = "after" /\ req'[q].existing = req[q].existing
        /\ req'[q].prev = req[q].prev /\ req'[q].enabled = req[q].enabled
    BY <1>0, <1>6 DEF SaveSettings, ReqType
  <2>2. /\ row'.enabled = req[q].enabled
        /\ row'.run = IF TurningOn(req[q]) THEN req[q].run ELSE row.run
    BY <1>0, <1>6 DEF SaveSettings, Row
  <2>3. ASSUME tidy PROVE RequestInv(req[q])'
    <3>1. RequestInv(req[q])
      BY <1>q, <2>1, <2>3
    <3>2. CASE TurningOn(req[q])
      <4>1. \A i \in RunIds : Running(i)' <=> i = req[q].run
        BY <2>1, <3>1, <3>2 DEF RequestInv, Running
      <4>2. req'[q].enabled /\ Match'
        BY <2>1, <2>2, <3>2, <4>1 DEF Match, TurningOn
      <4> QED BY <2>1, <4>2 DEF RequestInv
    <3>3. CASE ~TurningOn(req[q])
      <4>1. /\ Match /\ req[q].existing = row.run /\ (req[q].prev <=> row.enabled)
        BY <2>1, <3>1, <3>3 DEF RequestInv
      <4>2. CASE req[q].enabled
        <5>1. row.enabled /\ row'.enabled /\ row'.run = row.run
          BY <2>2, <3>3, <4>1, <4>2 DEF TurningOn
        <5>2. Match'
          BY <2>1, <4>1, <5>1 DEF Match, Running
        <5> QED BY <2>1, <4>2, <5>2 DEF RequestInv
      <4>3. CASE ~req[q].enabled
        <5>1. \A i \in RunIds : Running(i)' => req'[q].prev /\ i = req'[q].existing
          BY <2>1, <4>1 DEF Match, Running
        <5> QED BY <2>1, <2>2, <4>3, <5>1 DEF RequestInv
      <4> QED BY <4>2, <4>3
    <3> QED BY <3>2, <3>3
  <2> QED BY <2>1, <2>3, OnlyRequest
<1>7. CASE AfterSave(q)
  <2>1. /\ row' = row /\ tidy' = tidy /\ req[q].pc = "after"
        /\ \A p \in Reqs \ {q} : req'[p] = req[p]
        /\ req'[q].pc = "idle"
        /\ runs' = IF ~req[q].enabled /\ req[q].prev THEN StopRun(req[q].existing) ELSE runs
    BY <1>0, <1>7 DEF AfterSave, IdleReq
  <2>2. ASSUME tidy PROVE Match'
    <3>1. RequestInv(req[q])
      BY <1>q, <2>1, <2>2
    <3>2. CASE req[q].enabled
      BY <2>1, <3>1, <3>2 DEF RequestInv, Match, Running
    <3>3. CASE ~req[q].enabled
      <4>1. ~row.enabled /\ \A i \in RunIds : Running(i) => req[q].prev /\ i = req[q].existing
        BY <2>1, <3>1, <3>3 DEF RequestInv
      <4>2. \A i \in RunIds : ~Running(i)'
        BY <2>1, <3>3, <4>1 DEF Running, StopRun
      <4> QED BY <2>1, <4>1, <4>2 DEF Match
    <3> QED BY <3>2, <3>3
  <2> QED BY <2>1, <2>2, OnlyRequest
<1>8. CASE RequestThrows(q)
  BY <1>8 DEF RequestThrows, TidyInv
<1> QED BY <1>1, <1>2, <1>3, <1>4, <1>5, <1>6, <1>7, <1>8 DEF RequestStep

(* So does everything else.                                                *)
LEMMA NextTidy == TypeOK /\ TidyInv /\ [Next]_vars => TidyInv'
<1> SUFFICES ASSUME TypeOK, TidyInv, [Next]_vars PROVE TidyInv'
  OBVIOUS
<1>1. CASE Restart
  <2>1. InFlight' = {} /\ row' = row /\ runs' = runs /\ (tidy' => tidy /\ InFlight = {})
    BY <1>1 DEF Restart, InFlight, IdleReq
  <2> QED BY <2>1 DEF TidyInv, Match, Running
<1>2. ASSUME UNCHANGED <<runs, req, tidy>>, row' = row PROVE TidyInv'
  BY <1>2, TidyIgnoresTheRest
<1>3. ASSUME NEW p \in Passes, StartPass(p) \/ PassStep(p) PROVE TidyInv'
  <2>1. UNCHANGED <<runs, req, tidy>>
    BY <1>3 DEF StartPass, PassStep, ResetAndGate, CountOpenPositions, Council, CheckLive, Swap,
                CountTrade, PassThrows
  <2>2. row'.enabled = row.enabled /\ row'.run = row.run
    <3>1. row \in Row
      BY DEF TypeOK, RowOK
    <3>2. \/ row' = row
          \/ row' = [row EXCEPT !.dayKey = day, !.trades = 0, !.usd = 0]
          \/ row' = [row EXCEPT !.hot = TRUE, !.trades = pass[p].row.trades + 1,
                                !.usd = pass[p].row.usd + pass[p].size]
      BY <1>3 DEF StartPass, PassStep, ResetAndGate, CountOpenPositions, Council, CheckLive,
                  Swap, CountTrade, PassThrows
    <3> QED BY <3>1, <3>2 DEF Row
  <2> QED BY <2>1, <2>2, TidyIgnoresTheRest
<1>4. CASE CooldownEnds
  <2>1. row'.enabled = row.enabled /\ row'.run = row.run
    BY <1>4 DEF CooldownEnds, TypeOK, RowOK, Row
  <2> QED BY <1>4, <2>1, TidyIgnoresTheRest DEF CooldownEnds
<1>5. ASSUME NEW a \in Pilots, StartPilot(a) \/ PilotBuy(a) PROVE TidyInv'
  BY <1>2, <1>5 DEF StartPilot, PilotBuy
<1>6. ASSUME PositionCloses \/ Midnight \/ \E on \in BOOLEAN : SetPilot(on) PROVE TidyInv'
  BY <1>2, <1>6 DEF PositionCloses, Midnight, SetPilot
<1>7. CASE UNCHANGED vars
  BY <1>2, <1>7 DEF vars
<1> QED BY <1>1, <1>3, <1>4, <1>5, <1>6, <1>7, RequestTidy DEF Next

(* As long as settings requests neither overlap nor fail half-way, the     *)
(* machine that is on has exactly one RUNNING run, the one its row names,  *)
(* and the machine that is off has none.                                   *)
THEOREM RunsFollowSwitch == Spec => []RunsMatchSwitch
<1>1. Init => TidyInv
  <2> SUFFICES ASSUME Init PROVE TidyInv
    OBVIOUS
  <2>1. InFlight = {}
    BY DEF Init, InFlight, IdleReq
  <2>2. Match
    <3>1. CASE row = EmptyRow /\ runs = [i \in RunIds |-> "none"]
      BY <3>1 DEF Match, Running, EmptyRow
    <3>2. CASE /\ row = [EmptyRow EXCEPT !.enabled = TRUE, !.run = 1]
               /\ runs = [i \in RunIds |-> IF i = 1 THEN "RUNNING" ELSE "none"]
      <4>1. row.enabled /\ row.run = 1
        BY <3>2 DEF EmptyRow
      <4> QED BY <3>2, <4>1 DEF Match, Running
    <3> QED BY <3>1, <3>2, Zenon DEF Init
  <2> QED BY <2>1, <2>2 DEF TidyInv
<1>2. TidyInv => RunsMatchSwitch
  BY DEF TidyInv, RunsMatchSwitch, Match, Running
<1> QED BY <1>1, <1>2, NextTidy, TypeCorrect, PTL DEF Spec

-----------------------------------------------------------------------------
(* JupiterExits *)

RunType == [pc : {"idle", "quote", "skim", "exit"}, seen : X!PosType, trails : BOOLEAN]
WriteType == [id : 0..MaxOpens, peak : 0..TopMark]

\* What the runs read and what they are still to write belongs to a row that
\* was opened; for the present row it is no higher than the marks quoted.
Owned(w, lot, high, n) == w.id <= n /\ (w.id = lot.id => w.peak <= high)
Peaks ==
    /\ Owned(pos, pos, top, opens)
    /\ \A r \in Runs : /\ Owned(watch[r].seen, pos, top, opens)
                       /\ Owned(peakWrite[r], pos, top, opens)

\* A sale during the cooldown is made by a run that was under way when it
\* began, and no run starts meanwhile.
UnderWay == {r \in Runs : watch[r].pc # "idle"}
Sales ==
    /\ ~exitHot.on => exitHot.swaps = 0
    /\ exitHot.swaps + Cardinality(UnderWay) <= Cardinality(Runs)

\* The inductive invariant.
EInv == X!ExitsAssumption /\ X!TypeOK /\ Peaks /\ Sales

-----------------------------------------------------------------------------
(* The type invariant *)

\* The constants, and the values the variables start from.
LEMMA ExitConstants ==
    ASSUME X!ExitsAssumption
    PROVE  /\ TopMark \in Nat /\ MaxOpens \in Nat /\ MaxSaves \in Nat /\ IsFiniteSet(Runs)
           /\ X!NoPos \in X!PosType /\ X!NoRun \in RunType /\ X!NoWrite \in WriteType
           /\ X!Defaults \in X!Settings
  <1>1. TopMark \in Nat /\ MaxOpens \in Nat /\ MaxSaves \in Nat /\ IsFiniteSet(Runs)
    BY DEF X!ExitsAssumption, X!IsFiniteSet, IsFiniteSet
  <1>2. 0 \in 0..MaxOpens /\ 0 \in 0..TopMark
    BY <1>1
  <1>3. X!NoPos \in X!PosType
    BY <1>2 DEF X!NoPos, X!PosType
  <1>4. X!NoRun \in RunType /\ X!NoWrite \in WriteType
    BY <1>2, <1>3 DEF X!NoRun, RunType, X!NoWrite, WriteType
  <1> QED BY <1>1, <1>3, <1>4 DEF X!Defaults, X!Settings

\* The types, one by one.
LEMMA ExitTypes ==
    ASSUME EInv
    PROVE  /\ pos \in X!PosType /\ top \in 0..TopMark
           /\ watch \in [Runs -> RunType] /\ peakWrite \in [Runs -> WriteType]
           /\ exitHot \in [on : BOOLEAN, swaps : Nat]
           /\ prefs \in [load : {"no", "loading", "late", "yes"}, val : X!Settings]
           /\ config \in [exists : BOOLEAN, val : X!Settings]
           /\ opens \in 0..MaxOpens /\ saves \in 0..MaxSaves
  BY DEF EInv, X!TypeOK, RunType, WriteType

\* The settings: what a load, a save or a restart leaves is well typed, and
\* nothing else changes.
LEMMA SettingsType ==
    ASSUME EInv, NEW new \in X!Settings, X!Hydrated \/ X!HydrationFails \/ X!SaveSettings(new)
    PROVE  X!TypeOK'
  <1>0. /\ prefs \in [load : {"no", "loading", "late", "yes"}, val : X!Settings]
        /\ config \in [exists : BOOLEAN, val : X!Settings] /\ saves \in 0..MaxSaves
        /\ MaxSaves \in Nat
    BY ExitTypes, ExitConstants DEF EInv
  <1>1. CASE X!Hydrated
    <2>1. prefs' \in [load : {"no", "loading", "late", "yes"}, val : X!Settings]
      BY <1>0, <1>1 DEF X!Hydrated
    <2> QED BY <1>1, <2>1 DEF EInv, X!TypeOK, X!Hydrated
  <1>2. CASE X!HydrationFails
    <2>1. prefs' \in [load : {"no", "loading", "late", "yes"}, val : X!Settings]
      BY <1>0, <1>2 DEF X!HydrationFails
    <2> QED BY <1>2, <2>1 DEF EInv, X!TypeOK, X!HydrationFails
  <1>3. CASE X!SaveSettings(new)
    <2>1. prefs' \in [load : {"no", "loading", "late", "yes"}, val : X!Settings]
      BY <1>0, <1>3 DEF X!SaveSettings
    <2>2. config' \in [exists : BOOLEAN, val : X!Settings]
      <3>1. [exists |-> TRUE, val |-> new] \in [exists : BOOLEAN, val : X!Settings]
        OBVIOUS
      <3> QED BY <1>0, <1>3, <3>1 DEF X!SaveSettings
    <2>3. saves' \in 0..MaxSaves
      BY <1>0, <1>3 DEF X!SaveSettings
    <2> QED BY <1>3, <2>1, <2>2, <2>3 DEF EInv, X!TypeOK, X!SaveSettings
  <1> QED BY <1>1, <1>2, <1>3

\* The position and the clock.
LEMMA RowType ==
    ASSUME EInv, X!OpenPosition \/ X!CloseElsewhere \/ X!CooldownEnds \/ X!Restart
    PROVE  X!TypeOK'
  <1>0. /\ pos \in X!PosType /\ top \in 0..TopMark /\ opens \in 0..MaxOpens
        /\ TopMark \in Nat /\ MaxOpens \in Nat
        /\ X!NoRun \in RunType /\ X!NoWrite \in WriteType /\ X!Defaults \in X!Settings
    BY ExitTypes, ExitConstants DEF EInv
  <1>h. [on |-> FALSE, swaps |-> 0] \in [on : BOOLEAN, swaps : Nat]
    OBVIOUS
  <1>1. CASE X!OpenPosition
    <2>1. opens + 1 \in 0..MaxOpens /\ 0 \in 0..TopMark
      BY <1>0, <1>1 DEF X!OpenPosition
    <2>2. pos' \in X!PosType
      BY <1>1, <2>1 DEF X!OpenPosition, X!PosType
    <2> QED BY <1>1, <1>h, <2>1, <2>2 DEF EInv, X!TypeOK, X!OpenPosition
  <1>2. CASE X!CloseElsewhere
    <2>1. pos' \in X!PosType
      BY <1>0, <1>2 DEF X!CloseElsewhere, X!PosType
    <2> QED BY <1>2, <2>1 DEF EInv, X!TypeOK, X!CloseElsewhere
  <1>3. CASE X!CooldownEnds
    BY <1>3, <1>h DEF EInv, X!TypeOK, X!CooldownEnds
  <1>4. CASE X!Restart
    <2>1. watch' \in [Runs -> RunType] /\ peakWrite' \in [Runs -> WriteType]
      BY <1>0, <1>4 DEF X!Restart
    <2>2. prefs' \in [load : {"no", "loading", "late", "yes"}, val : X!Settings]
      BY <1>0, <1>4 DEF X!Restart
    <2> QED BY <1>4, <1>h, <2>1, <2>2 DEF EInv, X!TypeOK, X!Restart, RunType, WriteType
  <1> QED BY <1>1, <1>2, <1>3, <1>4

\* A run: it starts, has no quote, writes a peak, or sells.
LEMMA RunStepType ==
    ASSUME EInv, NEW r \in Runs, X!StartRun(r) \/ X!NoQuote(r) \/ X!PersistPeak(r) \/ X!Sell(r)
    PROVE  X!TypeOK'
  <1>0. /\ pos \in X!PosType
        /\ watch \in [Runs -> RunType] /\ peakWrite \in [Runs -> WriteType]
        /\ exitHot \in [on : BOOLEAN, swaps : Nat]
        /\ prefs \in [load : {"no", "loading", "late", "yes"}, val : X!Settings]
        /\ X!NoRun \in RunType /\ X!NoWrite \in WriteType
    BY ExitTypes, ExitConstants DEF EInv
  <1>1. CASE X!StartRun(r)
    <2>1. prefs' \in [load : {"no", "loading", "late", "yes"}, val : X!Settings]
      BY <1>0, <1>1 DEF X!StartRun, X!Hydrating
    <2>2. prefs.val.trailing \in BOOLEAN
      BY <1>0 DEF X!Settings
    <2>3. [X!NoRun EXCEPT !.pc = "quote", !.seen = pos, !.trails = prefs.val.trailing] \in RunType
      BY <1>0, <2>2 DEF RunType
    <2>4. watch' \in [Runs -> RunType]
      BY <1>0, <1>1, <2>3 DEF X!StartRun
    <2> QED BY <1>1, <2>1, <2>4 DEF EInv, X!TypeOK, X!StartRun, RunType
  <1>2. CASE X!NoQuote(r)
    <2>1. watch' \in [Runs -> RunType]
      BY <1>0, <1>2 DEF X!NoQuote
    <2> QED BY <1>2, <2>1 DEF EInv, X!TypeOK, X!NoQuote, RunType
  <1>3. CASE X!PersistPeak(r)
    <2>1. pos' \in X!PosType
      BY <1>0, <1>3 DEF X!PersistPeak, X!PeakOfRow, X!PosType, WriteType
    <2>2. peakWrite' \in [Runs -> WriteType]
      BY <1>0, <1>3 DEF X!PersistPeak
    <2> QED BY <1>3, <2>1, <2>2 DEF EInv, X!TypeOK, X!PersistPeak, WriteType
  <1>4. CASE X!Sell(r)
    <2>1. watch' \in [Runs -> RunType]
      BY <1>0, <1>4 DEF X!Sell
    <2>2. pos' \in X!PosType
      BY <1>0, <1>4 DEF X!Sell, X!PosType
    <2>3. exitHot' \in [on : BOOLEAN, swaps : Nat]
      BY <1>0, <1>4 DEF X!Sell
    <2> QED BY <1>4, <2>1, <2>2, <2>3 DEF EInv, X!TypeOK, X!Sell, RunType
  <1> QED BY <1>1, <1>2, <1>3, <1>4

\* A judgement of a mark: what becomes of the run, the peak to write, the
\* highest mark and the cooldown.
LEMMA Judged ==
    ASSUME EInv, NEW r \in Runs, NEW mark \in X!Marks, X!Judge(r, mark)
    PROVE  /\ X!TypeOK' /\ UNCHANGED <<pos, opens>>
           /\ watch[r].pc = "quote"
           /\ top' >= top /\ (watch[r].seen.id = pos.id => top' >= mark)
           /\ \E c \in RunType : /\ watch' = [watch EXCEPT ![r] = c]
                                 /\ Owned(c.seen, pos, top', opens)
           /\ \/ peakWrite' = peakWrite
              \/ \E w \in WriteType : /\ peakWrite' = [peakWrite EXCEPT ![r] = w]
                                      /\ Owned(w, pos, top', opens)
           /\ exitHot'.swaps = exitHot.swaps
           /\ exitHot.on => exitHot'.on
  <1> DEFINE lot == watch[r].seen
             peak == X!Greater(lot.peak, mark)
             reason == X!Reason(lot, mark, peak, watch[r].trails)
             mine == lot.id = pos.id
             c == IF reason = "none" THEN X!NoRun
                  ELSE [X!NoRun EXCEPT !.pc = reason, !.seen = [X!NoPos EXCEPT !.id = lot.id]]
             w == [id |-> lot.id, peak |-> peak]
  <1>0. /\ pos \in X!PosType /\ top \in 0..TopMark /\ watch[r] \in RunType /\ lot \in X!PosType
        /\ watch \in [Runs -> RunType] /\ peakWrite \in [Runs -> WriteType]
        /\ exitHot \in [on : BOOLEAN, swaps : Nat]
        /\ X!NoPos \in X!PosType /\ X!NoRun \in RunType /\ TopMark \in Nat /\ mark \in 1..TopMark
        /\ opens \in 0..MaxOpens /\ MaxOpens \in Nat
    BY ExitTypes, ExitConstants DEF EInv, RunType, X!Marks
  <1>n. lot.id \in 0..MaxOpens /\ lot.peak \in 0..TopMark /\ pos.id \in 0..MaxOpens
    BY <1>0 DEF X!PosType
  <1>1. /\ watch[r].pc = "quote"
        /\ top' = IF mine THEN X!Greater(top, mark) ELSE top
        /\ peakWrite' \in {peakWrite, [peakWrite EXCEPT ![r] = w]}
        /\ watch' = [watch EXCEPT ![r] = c]
        /\ exitHot' = IF reason # "none" /\ mine THEN [exitHot EXCEPT !.on = TRUE] ELSE exitHot
        /\ UNCHANGED <<pos, prefs, config, opens, saves>>
    BY DEF X!Judge
  <1>2. /\ peak \in 0..TopMark /\ X!Greater(top, mark) \in 0..TopMark
        /\ X!Greater(top, mark) >= top /\ X!Greater(top, mark) >= mark
        /\ peak <= X!Greater(lot.peak, mark)
    BY <1>0, <1>n DEF X!Greater
  <1>3. reason \in {"skim", "exit", "none"}
    BY DEF X!Reason
  <1>4. c \in RunType
    <2>1. [X!NoPos EXCEPT !.id = lot.id] \in X!PosType
      BY <1>0, <1>n DEF X!PosType
    <2> QED BY <1>0, <1>3, <2>1 DEF RunType
  <1>5. w \in WriteType
    BY <1>2, <1>n DEF WriteType
  <1>6. top' \in 0..TopMark /\ top' >= top /\ (mine => top' >= mark)
    BY <1>0, <1>1, <1>2
  <1>7. exitHot' \in [on : BOOLEAN, swaps : Nat] /\ exitHot'.swaps = exitHot.swaps
        /\ (exitHot.on => exitHot'.on)
    BY <1>0, <1>1
  <1>8. Owned(lot, pos, top, opens)
    BY DEF EInv, Peaks
  <1>9. Owned(c.seen, pos, top', opens)
    <2>1. CASE reason = "none"
      <3>1. c.seen.id = 0 /\ c.seen.peak = 0
        BY <2>1 DEF X!NoRun, X!NoPos
      <3> QED BY <1>0, <1>1, <1>6, <3>1 DEF Owned
    <2>2. CASE reason # "none"
      <3>1. c.seen.id = lot.id /\ c.seen.peak = 0
        BY <2>2 DEF X!NoRun, X!NoPos
      <3> QED BY <1>0, <1>1, <1>6, <1>8, <3>1 DEF Owned
    <2> QED BY <2>1, <2>2
  <1>10. Owned(w, pos, top', opens)
    <2>1. w.id = lot.id /\ w.peak = peak /\ (peak = lot.peak \/ peak = mark)
      BY DEF X!Greater
    <2>2. mine => peak <= top'
      BY <1>0, <1>n, <1>6, <1>8, <2>1 DEF Owned
    <2> QED BY <1>1, <1>8, <2>1, <2>2 DEF Owned
  <1>11. X!TypeOK'
    <2>1. watch' \in [Runs -> RunType] /\ peakWrite' \in [Runs -> WriteType]
      BY <1>0, <1>1, <1>4, <1>5
    <2> QED BY <1>1, <1>6, <1>7, <2>1 DEF EInv, X!TypeOK, RunType, WriteType
  <1> HIDE DEF lot, peak, reason, c, w
  <1>12. mine <=> watch[r].seen.id = pos.id
    BY DEF lot
  <1> QED BY <1>1, <1>4, <1>5, <1>6, <1>7, <1>9, <1>10, <1>11, <1>12

-----------------------------------------------------------------------------
(* The peaks *)

\* The numbers the peaks are compared with.
LEMMA Numbers ==
    ASSUME EInv
    PROVE  /\ top \in Nat /\ opens \in Nat /\ pos.id \in Nat /\ pos.peak \in Nat
           /\ \A r \in Runs : /\ watch[r].seen.id \in Nat /\ watch[r].seen.peak \in Nat
                              /\ peakWrite[r].id \in Nat /\ peakWrite[r].peak \in Nat
  BY ExitTypes, ExitConstants DEF EInv, X!PosType, RunType, WriteType

\* Whatever a step does, the peaks that are read, written and kept remain
\* those of their row: the writes of a run that outlived its position name
\* another row.
LEMMA PeaksKept == ASSUME EInv, [X!Next]_(X!exitVars) PROVE Peaks'
  <1>0. /\ watch \in [Runs -> RunType] /\ peakWrite \in [Runs -> WriteType] /\ pos \in X!PosType
        /\ Peaks
    BY ExitTypes DEF EInv
  <1>i. X!NoRun.seen.id = 0 /\ X!NoRun.seen.peak = 0 /\ X!NoWrite.id = 0 /\ X!NoWrite.peak = 0
    BY DEF X!NoRun, X!NoPos, X!NoWrite
  <1>1. CASE \/ X!Hydrated \/ X!HydrationFails \/ (\E new \in X!Settings : X!SaveSettings(new))
             \/ X!CooldownEnds \/ UNCHANGED X!exitVars
    <2>1. UNCHANGED <<pos, top, watch, peakWrite, opens>>
      BY <1>1 DEF X!Hydrated, X!HydrationFails, X!SaveSettings, X!CooldownEnds, X!exitVars
    <2> QED BY <1>0, <2>1 DEF Peaks
  <1>2. CASE X!OpenPosition
    <2>1. /\ pos'.id = opens + 1 /\ pos'.peak = 0 /\ top' = 0 /\ opens' = opens + 1
          /\ UNCHANGED <<watch, peakWrite>>
      BY <1>2 DEF X!OpenPosition
    <2> QED BY <1>0, <2>1, Numbers DEF Peaks, Owned
  <1>3. CASE X!CloseElsewhere
    <2>1. /\ pos'.id = pos.id /\ pos'.peak = pos.peak
          /\ UNCHANGED <<top, opens, watch, peakWrite>>
      BY <1>0, <1>3 DEF X!CloseElsewhere, X!PosType
    <2> QED BY <1>0, <2>1 DEF Peaks, Owned
  <1>4. CASE X!Restart
    <2>1. UNCHANGED <<pos, top, opens>>
          /\ \A r \in Runs : watch'[r] = X!NoRun /\ peakWrite'[r] = X!NoWrite
      BY <1>4 DEF X!Restart
    <2> QED BY <1>0, <1>i, <2>1, Numbers DEF Peaks, Owned
  <1>5. ASSUME NEW r \in Runs, X!StartRun(r) PROVE Peaks'
    <2>1. /\ UNCHANGED <<pos, top, opens, peakWrite>>
          /\ \A o \in Runs : watch'[o].seen = watch[o].seen \/ watch'[o].seen = pos
      BY <1>0, <1>5 DEF X!StartRun, X!NoRun, RunType
    <2> QED BY <1>0, <2>1 DEF Peaks
  <1>6. ASSUME NEW r \in Runs, X!NoQuote(r) PROVE Peaks'
    <2>1. /\ UNCHANGED <<pos, top, opens, peakWrite>>
          /\ \A o \in Runs : watch'[o] = watch[o] \/ watch'[o] = X!NoRun
      BY <1>0, <1>6 DEF X!NoQuote
    <2> QED BY <1>0, <1>i, <2>1, Numbers DEF Peaks, Owned
  <1>7. ASSUME NEW r \in Runs, NEW mark \in X!Marks, X!Judge(r, mark) PROVE Peaks'
    <2>1. UNCHANGED <<pos, opens>> /\ top' >= top /\ top' \in Nat
      BY <1>7, Judged, ExitConstants DEF X!TypeOK, EInv
    <2>2. PICK c \in RunType : watch' = [watch EXCEPT ![r] = c] /\ Owned(c.seen, pos, top', opens)
      BY <1>7, Judged
    <2>3. \A o \in Runs : Owned(watch[o].seen, pos, top', opens) /\ Owned(peakWrite[o], pos, top', opens)
      BY <1>0, <2>1, Numbers DEF Peaks, Owned
    <2>4. \A o \in Runs : Owned(watch'[o].seen, pos, top', opens)
      BY <1>0, <2>2, <2>3
    <2>5. \A o \in Runs : Owned(peakWrite'[o], pos, top', opens)
      <3>1. CASE peakWrite' = peakWrite
        BY <2>3, <3>1
      <3>2. CASE peakWrite' # peakWrite
        <4>1. PICK w \in WriteType : /\ peakWrite' = [peakWrite EXCEPT ![r] = w]
                                     /\ Owned(w, pos, top', opens)
          BY <1>7, <3>2, Judged
        <4> QED BY <1>0, <2>3, <4>1
      <3> QED BY <3>1, <3>2
    <2>6. Owned(pos, pos, top', opens)
      BY <1>0, <2>1, Numbers DEF Peaks, Owned
    <2> QED BY <2>1, <2>4, <2>5, <2>6 DEF Peaks
  <1>8. ASSUME NEW r \in Runs, X!PersistPeak(r) PROVE Peaks'
    <2>1. /\ UNCHANGED <<top, opens, watch>> /\ pos'.id = pos.id
          /\ \/ pos'.peak = pos.peak
             \/ peakWrite[r].id = pos.id /\ pos'.peak = peakWrite[r].peak
          /\ \A o \in Runs : peakWrite'[o] = peakWrite[o] \/ peakWrite'[o] = X!NoWrite
      BY <1>0, <1>8 DEF X!PersistPeak, X!PeakOfRow, X!PosType
    <2> QED BY <1>0, <1>i, <2>1, Numbers DEF Peaks, Owned
  <1>9. ASSUME NEW r \in Runs, X!Sell(r) PROVE Peaks'
    <2>1. /\ UNCHANGED <<top, opens, peakWrite>> /\ pos'.id = pos.id /\ pos'.peak = pos.peak
          /\ \A o \in Runs : watch'[o] = watch[o] \/ watch'[o] = X!NoRun
      BY <1>0, <1>9 DEF X!Sell, X!PosType
    <2> QED BY <1>0, <1>i, <2>1, Numbers DEF Peaks, Owned
  <1> QED BY <1>1, <1>2, <1>3, <1>4, <1>5, <1>6, <1>7, <1>8, <1>9 DEF X!Next

-----------------------------------------------------------------------------
(* The sales *)

\* Some of the runs are no more than all of them.
LEMMA SomeRuns ==
    ASSUME EInv, NEW T \in SUBSET Runs, NEW S \in SUBSET T
    PROVE  /\ Cardinality(T) \in Nat /\ Cardinality(S) \in Nat
           /\ Cardinality(S) <= Cardinality(T) /\ Cardinality(Runs) \in Nat
           /\ \A r \in T : Cardinality(T \ {r}) = Cardinality(T) - 1
  <1>1. IsFiniteSet(Runs)
    BY ExitConstants DEF EInv
  <1>2. IsFiniteSet(T)
    BY <1>1, FS_Subset
  <1>3. IsFiniteSet(S) /\ Cardinality(S) <= Cardinality(T)
    BY <1>2, FS_Subset
  <1>4. \A r \in T : Cardinality(T \ {r}) = Cardinality(T) - 1
    BY <1>2, FS_RemoveElement
  <1> QED BY <1>1, <1>2, <1>3, <1>4, FS_CardinalityType

\* No step makes room for more sales: a run starts only when there is no
\* cooldown, and one that sells is over.
LEMMA SalesKept == ASSUME EInv, [X!Next]_(X!exitVars) PROVE Sales'
  <1>0. /\ watch \in [Runs -> RunType] /\ exitHot \in [on : BOOLEAN, swaps : Nat] /\ Sales
        /\ X!NoRun.pc = "idle"
    BY ExitTypes DEF EInv, X!NoRun
  <1>w. UnderWay \in SUBSET Runs /\ UnderWay' \in SUBSET Runs
    BY DEF UnderWay
  <1>a. ASSUME UnderWay' \subseteq UnderWay, exitHot'.swaps = exitHot.swaps,
               exitHot.on => exitHot'.on
        PROVE  Sales'
    <2>1. /\ Cardinality(UnderWay') \in Nat /\ Cardinality(UnderWay) \in Nat
          /\ Cardinality(UnderWay') <= Cardinality(UnderWay) /\ Cardinality(Runs) \in Nat
      BY <1>w, <1>a, SomeRuns
    <2>2. exitHot.swaps \in Nat
      BY <1>0
    <2> QED BY <1>0, <1>a, <2>1, <2>2 DEF Sales
  <1>b. ASSUME exitHot'.swaps = 0 PROVE Sales'
    <2>1. Cardinality(UnderWay') \in Nat /\ Cardinality(UnderWay') <= Cardinality(Runs)
          /\ Cardinality(Runs) \in Nat
      BY <1>w, SomeRuns
    <2> QED BY <1>b, <2>1 DEF Sales
  <1>1. CASE \/ X!Hydrated \/ X!HydrationFails \/ (\E new \in X!Settings : X!SaveSettings(new))
             \/ X!CloseElsewhere \/ (\E r \in Runs : X!PersistPeak(r)) \/ UNCHANGED X!exitVars
    <2>1. UNCHANGED <<watch, exitHot>>
      BY <1>1 DEF X!Hydrated, X!HydrationFails, X!SaveSettings, X!CloseElsewhere, X!PersistPeak, X!exitVars
    <2> QED BY <1>a, <2>1 DEF UnderWay
  <1>2. CASE X!OpenPosition \/ X!CooldownEnds \/ X!Restart
    <2>1. exitHot'.swaps = 0
      BY <1>2 DEF X!OpenPosition, X!CooldownEnds, X!Restart
    <2> QED BY <1>b, <2>1
  <1>3. ASSUME NEW r \in Runs, X!StartRun(r) PROVE Sales'
    <2>1. exitHot'.swaps = 0
      BY <1>0, <1>3 DEF X!StartRun, X!MayTry, Sales
    <2> QED BY <1>b, <2>1
  <1>4. ASSUME NEW r \in Runs, X!NoQuote(r) PROVE Sales'
    <2>1. UnderWay' \subseteq UnderWay /\ exitHot' = exitHot
      BY <1>0, <1>4 DEF X!NoQuote, UnderWay
    <2> QED BY <1>a, <2>1
  <1>5. ASSUME NEW r \in Runs, NEW mark \in X!Marks, X!Judge(r, mark) PROVE Sales'
    <2>1. PICK c \in RunType : watch' = [watch EXCEPT ![r] = c]
      BY <1>5, Judged
    <2>2. watch[r].pc = "quote" /\ exitHot'.swaps = exitHot.swaps /\ (exitHot.on => exitHot'.on)
      BY <1>5, Judged
    <2>3. UnderWay' \subseteq UnderWay
      BY <1>0, <2>1, <2>2 DEF UnderWay
    <2> QED BY <1>a, <2>2, <2>3
  <1>6. ASSUME NEW r \in Runs, X!Sell(r) PROVE Sales'
    <2>1. /\ r \in UnderWay /\ UnderWay' = UnderWay \ {r}
      BY <1>0, <1>6 DEF X!Sell, UnderWay
    <2>2. /\ Cardinality(UnderWay') = Cardinality(UnderWay) - 1
          /\ Cardinality(UnderWay) \in Nat /\ Cardinality(Runs) \in Nat
      BY <1>w, <2>1, SomeRuns
    <2>3. \/ exitHot' = exitHot
          \/ exitHot.on /\ exitHot'.on /\ exitHot'.swaps = exitHot.swaps + 1
      BY <1>0, <1>6 DEF X!Sell
    <2>4. exitHot.swaps \in Nat
      BY <1>0
    <2> QED BY <1>0, <2>2, <2>3, <2>4 DEF Sales
  <1> QED BY <1>1, <1>2, <1>3, <1>4, <1>5, <1>6 DEF X!Next

-----------------------------------------------------------------------------
(* The theorems *)

\* Every step keeps the invariant.
LEMMA EInvInductive == EInv /\ [X!Next]_(X!exitVars) => EInv'
  <1> SUFFICES ASSUME EInv, [X!Next]_(X!exitVars) PROVE EInv'
    OBVIOUS
  <1>1. Peaks' /\ Sales'
    BY PeaksKept, SalesKept
  <1>2. X!TypeOK'
    <2>1. CASE UNCHANGED X!exitVars
      BY <2>1 DEF EInv, X!TypeOK, X!exitVars
    <2>2. CASE X!Hydrated \/ X!HydrationFails
      <3>1. X!Defaults \in X!Settings
        BY ExitConstants DEF EInv
      <3> QED BY <2>2, <3>1, SettingsType
    <2> QED BY <2>1, <2>2, SettingsType, RowType, RunStepType, Judged DEF X!Next
  <1>3. X!ExitsAssumption'
    BY DEF EInv, X!ExitsAssumption
  <1> QED BY <1>1, <1>2, <1>3 DEF EInv

\* The first state satisfies it.
LEMMA InitEInv == X!ExitsAssumption /\ X!Init => EInv
  <1> SUFFICES ASSUME X!ExitsAssumption, X!Init PROVE EInv
    OBVIOUS
  <1>0. /\ TopMark \in Nat /\ MaxOpens \in Nat /\ MaxSaves \in Nat /\ IsFiniteSet(Runs)
        /\ X!NoPos \in X!PosType /\ X!NoRun \in RunType /\ X!NoWrite \in WriteType
        /\ X!Defaults \in X!Settings
    BY ExitConstants
  <1>1. X!TypeOK
    <2>1. watch \in [Runs -> RunType] /\ peakWrite \in [Runs -> WriteType]
      BY <1>0 DEF X!Init
    <2>2. /\ prefs \in [load : {"no", "loading", "late", "yes"}, val : X!Settings]
          /\ exitHot \in [on : BOOLEAN, swaps : Nat]
      BY <1>0 DEF X!Init
    <2>3. config \in [exists : BOOLEAN, val : X!Settings]
      <3>1. [exists |-> FALSE, val |-> X!Defaults] \in [exists : BOOLEAN, val : X!Settings]
        BY <1>0
      <3>2. [exists : {TRUE}, val : X!Settings] \subseteq [exists : BOOLEAN, val : X!Settings]
        OBVIOUS
      <3> QED BY <3>1, <3>2 DEF X!Init
    <2>4. pos \in X!PosType /\ top \in 0..TopMark /\ opens \in 0..MaxOpens /\ saves \in 0..MaxSaves
      BY <1>0 DEF X!Init
    <2> QED BY <2>1, <2>2, <2>3, <2>4 DEF X!TypeOK, RunType, WriteType
  <1>2. Peaks
    BY DEF X!Init, Peaks, Owned, X!NoPos, X!NoRun, X!NoWrite
  <1>3. Sales
    <2>1. UnderWay = {} /\ exitHot.swaps = 0
      BY DEF X!Init, UnderWay, X!NoRun
    <2>2. Cardinality(UnderWay) = 0 /\ Cardinality(Runs) \in Nat
      BY <1>0, <2>1, FS_EmptySet, FS_CardinalityType
    <2> QED BY <2>1, <2>2 DEF Sales
  <1> QED BY <1>1, <1>2, <1>3 DEF EInv

\* The rows, the runs, the writes under way and the settings are always well
\* typed.
THEOREM ExitsTypeCorrect == X!ExitsAssumption /\ X!Spec => []X!TypeOK
  <1>1. EInv => X!TypeOK
    BY DEF EInv
  <1> QED BY <1>1, InitEInv, EInvInductive, PTL DEF X!Spec

\* What the invariant says of the peak ...
LEMMA EInvPeak == EInv => X!PeakIsOwn
  BY DEF EInv, Peaks, Owned, X!PeakIsOwn

\* jupiterOpenPositionWatcher.ts:196-198: however many runs overlap and
\* whichever of their writes are still under way when a position is closed
\* and the next one opened, the peak in a row was quoted for that row.
THEOREM PeakStaysWithRow == X!ExitsAssumption /\ X!Spec => []X!PeakIsOwn
  BY EInvPeak, InitEInv, EInvInductive, PTL DEF X!Spec

\* ... and of the sales.
LEMMA EInvSales == EInv => X!SellsPerCooldown
  <1> SUFFICES ASSUME EInv PROVE X!SellsPerCooldown
    OBVIOUS
  <1>1. Cardinality(UnderWay) \in Nat /\ Cardinality(Runs) \in Nat
    BY SomeRuns DEF UnderWay
  <1>2. exitHot.swaps \in Nat
    BY ExitTypes
  <1>3. X!Cardinality(Runs) = Cardinality(Runs)
    BY DEF X!Cardinality, Cardinality
  <1> QED BY <1>1, <1>2, <1>3 DEF EInv, Sales, X!SellsPerCooldown

\* jupiterOpenPositionWatcher.ts:103-104 and 239: during a row's cooldown no
\* more sales are made than there are runs, for any number of runs.
THEOREM CooldownBoundsSales == X!ExitsAssumption /\ X!Spec => []X!SellsPerCooldown
  BY EInvSales, InitEInv, EInvInductive, PTL DEF X!Spec

-----------------------------------------------------------------------------
(* LimitOrders *)

LimitRowType == [id : L!Ids, st : {"OPEN", "FILLED", "CANCELLED"}]
LimitRunType == [pc : {"idle", "next", "prices", "filled"}, todo : SUBSET L!Ids, at : L!Ids \union {L!NoOrder}]

\* The orders that are open; the runs that may still swap an order, and those
\* that swapped it and are to say so.
OpenOrders == {limits[k].id : k \in {k \in DOMAIN limits : L!IsOpen(limits[k])}}
Coming(i) == {r \in Runs : i \in run[r].todo \/ (run[r].pc = "prices" /\ run[r].at = i)}
Marking(i) == {r \in Runs : run[r].pc = "filled" /\ run[r].at = i}

LimitTypes ==
    /\ limits \in Seq(LimitRowType) /\ Len(limits) <= Kept
    /\ created \in 0..MaxOrders
    /\ run \in [Runs -> LimitRunType]
    /\ swapped \in [L!Ids -> Nat] /\ unsaid \in [L!Ids -> Nat]

\* Orders and runs name orders that were created.
NamesCreated ==
    /\ \A k \in DOMAIN limits : limits[k].id <= created
    /\ \A r \in Runs : \A i \in run[r].todo : i <= created
    /\ \A r \in Runs : run[r].at <= created
    /\ \A i \in L!Ids : i > created => swapped[i] = 0 /\ unsaid[i] = 0

\* A run tries an order once.
TriedOnce ==
    \A r \in Runs : /\ run[r].pc = "idle" => run[r].todo = {}
                    /\ run[r].pc \in {"prices", "filled"} => run[r].at \in L!Ids /\ run[r].at \notin run[r].todo

\* Every known swap of an order takes the place of a run that may still swap
\* it, and while the order is open those that made one are to say so.
SwapsCounted ==
    /\ \A i \in L!Ids : swapped[i] + Cardinality(Coming(i)) <= Cardinality(Runs) + unsaid[i]
    /\ \A i \in OpenOrders : swapped[i] <= Cardinality(Marking(i)) + unsaid[i]

FilledWasSwapped ==
    /\ \A r \in Runs : run[r].pc = "filled" => swapped[run[r].at] > 0
    /\ \A k \in DOMAIN limits : limits[k].st = "FILLED" => swapped[limits[k].id] > 0

\* The inductive invariant.
LInv == L!LimitAssumption /\ LimitTypes /\ NamesCreated /\ TriedOnce /\ SwapsCounted /\ FilledWasSwapped

-----------------------------------------------------------------------------

LEMMA LimitConstants ==
    ASSUME L!LimitAssumption
    PROVE  /\ Kept \in Nat \ {0} /\ MaxOrders \in Nat /\ MaxLost \in Nat /\ IsFiniteSet(Runs)
           /\ Cardinality(Runs) \in Nat
  <1>1. IsFiniteSet(Runs)
    BY DEF L!LimitAssumption, L!IsFiniteSet, IsFiniteSet
  <1> QED BY <1>1, FS_CardinalityType DEF L!LimitAssumption

\* Two sets of runs that differ in one run at most.
LEMMA CountRuns ==
    ASSUME IsFiniteSet(Runs), NEW S \in SUBSET Runs, NEW S1 \in SUBSET Runs, NEW r, S1 \ {r} = S \ {r}
    PROVE  /\ Cardinality(S) \in Nat /\ Cardinality(S1) \in Nat
           /\ Cardinality(S1) + (IF r \in S THEN 1 ELSE 0) = Cardinality(S) + (IF r \in S1 THEN 1 ELSE 0)
  <1>1. IsFiniteSet(S) /\ IsFiniteSet(S1)
    BY FS_Subset
  <1>2. Cardinality(S) \in Nat /\ Cardinality(S1) \in Nat
    BY <1>1, FS_CardinalityType
  <1>3. Cardinality(S \ {r}) = IF r \in S THEN Cardinality(S) - 1 ELSE Cardinality(S)
    BY <1>1, FS_RemoveElement
  <1>4. Cardinality(S1 \ {r}) = IF r \in S1 THEN Cardinality(S1) - 1 ELSE Cardinality(S1)
    BY <1>1, FS_RemoveElement
  <1> QED BY <1>2, <1>3, <1>4

\* Two disjoint sets of runs, neither with r.
LEMMA ApartFrom ==
    ASSUME IsFiniteSet(Runs), NEW S \in SUBSET Runs, NEW S1 \in SUBSET Runs, NEW r \in Runs,
           S \cap S1 = {}, r \notin S, r \notin S1
    PROVE  Cardinality(S) + Cardinality(S1) + 1 <= Cardinality(Runs)
  <1>1. IsFiniteSet(S) /\ IsFiniteSet(S1) /\ IsFiniteSet(Runs \ {r})
    BY FS_Subset
  <1>2. Cardinality(S) \in Nat /\ Cardinality(S1) \in Nat /\ Cardinality(Runs) \in Nat
    BY <1>1, FS_CardinalityType
  <1>3. Cardinality(Runs \ {r}) = Cardinality(Runs) - 1
    BY <1>2, FS_RemoveElement
  <1>4. Cardinality(S \union S1) = Cardinality(S) + Cardinality(S1)
    <2>1. Cardinality(S \union S1) = Cardinality(S) + Cardinality(S1) - Cardinality(S \cap S1)
      BY <1>1, FS_Union
    <2>2. Cardinality(S \cap S1) = 0
      BY FS_EmptySet
    <2> QED BY <1>2, <2>1, <2>2
  <1>5. Cardinality(S \union S1) <= Cardinality(Runs \ {r})
    BY <1>1, S \union S1 \in SUBSET (Runs \ {r}), FS_Subset
  <1> QED BY <1>2, <1>3, <1>4, <1>5

\* What a step of run r leaves of the counts.
Recounted(r) ==
    \A i \in L!Ids :
       /\ Cardinality(Coming(i)) \in Nat /\ Cardinality(Coming(i))' \in Nat
       /\ Cardinality(Marking(i)) \in Nat /\ Cardinality(Marking(i))' \in Nat
       /\ Cardinality(Coming(i))' + (IF r \in Coming(i) THEN 1 ELSE 0)
            = Cardinality(Coming(i)) + (IF r \in Coming(i)' THEN 1 ELSE 0)
       /\ Cardinality(Marking(i))' + (IF r \in Marking(i) THEN 1 ELSE 0)
            = Cardinality(Marking(i)) + (IF r \in Marking(i)' THEN 1 ELSE 0)

LEMMA RunMoves ==
    ASSUME LInv, NEW r \in Runs, NEW v \in LimitRunType, run' = [run EXCEPT ![r] = v]
    PROVE  /\ run' \in [Runs -> LimitRunType] /\ run'[r] = v /\ \A s \in Runs \ {r} : run'[s] = run[s]
           /\ Recounted(r)
  <1>1. run' \in [Runs -> LimitRunType] /\ run'[r] = v /\ \A s \in Runs \ {r} : run'[s] = run[s]
    BY DEF LInv, LimitTypes
  <1> SUFFICES ASSUME NEW i \in L!Ids
               PROVE  /\ Cardinality(Coming(i)) \in Nat /\ Cardinality(Coming(i))' \in Nat
                      /\ Cardinality(Marking(i)) \in Nat /\ Cardinality(Marking(i))' \in Nat
                      /\ Cardinality(Coming(i))' + (IF r \in Coming(i) THEN 1 ELSE 0)
                           = Cardinality(Coming(i)) + (IF r \in Coming(i)' THEN 1 ELSE 0)
                      /\ Cardinality(Marking(i))' + (IF r \in Marking(i) THEN 1 ELSE 0)
                           = Cardinality(Marking(i)) + (IF r \in Marking(i)' THEN 1 ELSE 0)
    BY <1>1 DEF Recounted
  <1>2. IsFiniteSet(Runs)
    BY LimitConstants DEF LInv
  <1>3. Coming(i)' \ {r} = Coming(i) \ {r} /\ Coming(i) \in SUBSET Runs /\ Coming(i)' \in SUBSET Runs
    BY <1>1 DEF Coming
  <1>4. Marking(i)' \ {r} = Marking(i) \ {r} /\ Marking(i) \in SUBSET Runs /\ Marking(i)' \in SUBSET Runs
    BY <1>1 DEF Marking
  <1>5. /\ Cardinality(Coming(i)) \in Nat /\ Cardinality(Coming(i)') \in Nat
        /\ Cardinality(Coming(i)') + (IF r \in Coming(i) THEN 1 ELSE 0)
             = Cardinality(Coming(i)) + (IF r \in Coming(i)' THEN 1 ELSE 0)
    BY <1>2, <1>3, CountRuns
  <1>6. /\ Cardinality(Marking(i)) \in Nat /\ Cardinality(Marking(i)') \in Nat
        /\ Cardinality(Marking(i)') + (IF r \in Marking(i) THEN 1 ELSE 0)
             = Cardinality(Marking(i)) + (IF r \in Marking(i)' THEN 1 ELSE 0)
    BY <1>2, <1>4, CountRuns
  <1> QED BY <1>5, <1>6

\* The orders of the list by themselves.
LEMMA LimitRow ==
    ASSUME LInv, NEW k \in DOMAIN limits
    PROVE  /\ limits[k] \in LimitRowType /\ limits[k].id <= created
           /\ limits[k].st = "OPEN" => limits[k].id \in OpenOrders
           /\ Len(limits) \in Nat /\ DOMAIN limits = 1..Len(limits)
  <1>1. limits \in Seq(LimitRowType)
    BY DEF LInv, LimitTypes
  <1>2. limits[k] \in LimitRowType /\ limits[k].id <= created
    <2>1. limits[k].id <= created
      BY DEF LInv, NamesCreated
    <2>2. k \in 1..Len(limits)
      BY <1>1
    <2>3. limits[k] \in LimitRowType
      BY <1>1, <2>2
    <2> QED BY <2>1, <2>3
  <1>3. limits[k].st = "OPEN" => limits[k].id \in OpenOrders
    BY DEF OpenOrders, L!IsOpen
  <1> QED BY <1>1, <1>2, <1>3

\* The numbers of the orders.
LEMMA LimitNumbers ==
    ASSUME LInv
    PROVE  /\ L!Ids \subseteq Nat \ {0} /\ L!NoOrder = 0 /\ created \in 0..MaxOrders
           /\ OpenOrders \subseteq L!Ids /\ \A i \in OpenOrders : i <= created
           /\ swapped \in [L!Ids -> Nat] /\ unsaid \in [L!Ids -> Nat] /\ run \in [Runs -> LimitRunType]
           /\ Cardinality(Runs) \in Nat /\ IsFiniteSet(Runs) /\ Kept \in Nat \ {0} /\ MaxOrders \in Nat
  <1>1. OpenOrders \subseteq L!Ids /\ \A i \in OpenOrders : i <= created
    BY LimitRow DEF OpenOrders, LimitRowType
  <1> QED BY <1>1, LimitConstants DEF L!Ids, L!NoOrder, LInv, LimitTypes

-----------------------------------------------------------------------------
(* The runs *)

LEMMA StartKeepsLimits == ASSUME LInv, NEW r \in Runs, L!StartRun(r) PROVE LInv'
  <1> DEFINE v == [pc |-> "next", todo |-> OpenOrders, at |-> L!NoOrder]
  <1>1. /\ run[r].pc = "idle" /\ run' = [run EXCEPT ![r] = v]
        /\ UNCHANGED <<limits, created, swapped, unsaid>>
    BY DEF L!StartRun, OpenOrders
  <1>2. v \in LimitRunType
    BY LimitNumbers DEF LimitRunType
  <1>3. /\ run' \in [Runs -> LimitRunType] /\ run'[r] = v /\ \A s \in Runs \ {r} : run'[s] = run[s]
        /\ Recounted(r)
    BY <1>1, <1>2, RunMoves
  <1>4. OpenOrders' = OpenOrders
    BY <1>1 DEF OpenOrders
  <1>5. /\ \A i \in L!Ids : r \notin Coming(i) /\ r \notin Marking(i) /\ r \notin Marking(i)'
        /\ \A i \in L!Ids : r \in Coming(i)' <=> i \in OpenOrders
    BY <1>1, <1>3 DEF LInv, TriedOnce, Coming, Marking
  <1>6. NamesCreated' /\ TriedOnce' /\ FilledWasSwapped'
    BY <1>1, <1>3, LimitNumbers DEF LInv, NamesCreated, TriedOnce, FilledWasSwapped
  <1>7. SwapsCounted'
    <2>1. ASSUME NEW i \in L!Ids PROVE swapped[i] + Cardinality(Coming(i))' <= Cardinality(Runs) + unsaid[i]
      <3>1. CASE i \notin OpenOrders
        BY <1>3, <1>5, <3>1 DEF LInv, SwapsCounted, Recounted
      <3>2. CASE i \in OpenOrders
        <4>1. Coming(i) \cap Marking(i) = {} /\ Coming(i) \in SUBSET Runs /\ Marking(i) \in SUBSET Runs
          BY DEF Coming, Marking, LInv, TriedOnce
        <4>2. Cardinality(Coming(i)) + Cardinality(Marking(i)) + 1 <= Cardinality(Runs)
          BY <1>5, <4>1, LimitNumbers, ApartFrom
        <4>3. swapped[i] <= Cardinality(Marking(i)) + unsaid[i] /\ swapped[i] \in Nat /\ unsaid[i] \in Nat
          BY <3>2, LimitNumbers DEF LInv, SwapsCounted
        <4>4. Cardinality(Coming(i))' = Cardinality(Coming(i)) + 1
          BY <1>3, <1>5, <3>2 DEF Recounted
        <4> QED BY <1>3, <4>2, <4>3, <4>4, LimitNumbers DEF Recounted
      <3> QED BY <3>1, <3>2
    <2>2. ASSUME NEW i \in OpenOrders PROVE swapped[i] <= Cardinality(Marking(i))' + unsaid[i]
      <3>1. i \in L!Ids
        BY LimitNumbers
      <3> QED BY <1>3, <1>5, <3>1 DEF LInv, SwapsCounted, Recounted
    <2> QED BY <1>1, <1>4, <2>1, <2>2 DEF SwapsCounted
  <1> QED BY <1>1, <1>3, <1>6, <1>7 DEF LInv, LimitTypes, L!LimitAssumption

\* The other steps of a run that write no list: v is where it goes next.
LEMMA MoveKeepsLimits ==
    ASSUME LInv, NEW r \in Runs, NEW v \in LimitRunType, run' = [run EXCEPT ![r] = v],
           UNCHANGED <<limits, created, swapped, unsaid>>,
           v.todo \subseteq run[r].todo, v.pc # "filled", v.pc = "idle" => v.todo = {},
           v.pc = "prices" => v.at \in run[r].todo \ v.todo, v.pc # "prices" => v.at = L!NoOrder,
           run[r].pc # "filled"
    PROVE  LInv'
  <1>1. /\ run' \in [Runs -> LimitRunType] /\ run'[r] = v /\ \A s \in Runs \ {r} : run'[s] = run[s]
        /\ Recounted(r)
    BY RunMoves
  <1>2. OpenOrders' = OpenOrders
    BY DEF OpenOrders
  <1>3. /\ \A i \in L!Ids : r \notin Marking(i) /\ r \notin Marking(i)'
        /\ \A i \in L!Ids : r \in Coming(i)' => r \in Coming(i)
    BY <1>1 DEF Coming, Marking
  <1>4. NamesCreated'
    BY <1>1, LimitNumbers DEF LInv, NamesCreated, LimitRunType
  <1>5. TriedOnce' /\ FilledWasSwapped'
    BY <1>1, LimitNumbers DEF LInv, TriedOnce, FilledWasSwapped, LimitRunType
  <1>6. SwapsCounted'
    <2>1. \A i \in L!Ids : Cardinality(Coming(i))' <= Cardinality(Coming(i))
      BY <1>1, <1>3 DEF Recounted
    <2>2. \A i \in L!Ids : Cardinality(Marking(i))' = Cardinality(Marking(i))
      BY <1>1, <1>3 DEF Recounted
    <2>3. \A i \in L!Ids : swapped[i] + Cardinality(Coming(i))' <= Cardinality(Runs) + unsaid[i]
      BY <1>1, <2>1, LimitNumbers DEF LInv, SwapsCounted, Recounted
    <2>4. \A i \in OpenOrders : swapped[i] <= Cardinality(Marking(i))' + unsaid[i]
      BY <2>2, LimitNumbers DEF LInv, SwapsCounted
    <2> QED BY <1>2, <2>3, <2>4 DEF SwapsCounted
  <1> QED BY <1>1, <1>4, <1>5, <1>6 DEF LInv, LimitTypes, L!LimitAssumption

LEMMA NextKeepsLimits == ASSUME LInv, NEW r \in Runs, L!NextOrder(r) PROVE LInv'
  <1>1. run[r] \in LimitRunType
    BY LimitNumbers
  <1>2. CASE run[r].todo = {} /\ run' = [run EXCEPT ![r] = L!IdleRun]
    <2>1. L!IdleRun \in LimitRunType /\ L!IdleRun.todo = {} /\ L!IdleRun.pc = "idle" /\ L!IdleRun.at = L!NoOrder
      BY DEF L!IdleRun, LimitRunType
    <2> QED BY <1>2, <2>1, MoveKeepsLimits DEF L!NextOrder
  <1>3. ASSUME NEW i \in run[r].todo,
               run' = [run EXCEPT ![r] = [pc |-> "prices", todo |-> run[r].todo \ {i}, at |-> i]]
        PROVE  LInv'
    <2> DEFINE v == [pc |-> "prices", todo |-> run[r].todo \ {i}, at |-> i]
    <2>1. v \in LimitRunType /\ v.todo \subseteq run[r].todo /\ v.pc = "prices" /\ v.at \in run[r].todo \ v.todo
      BY <1>1 DEF LimitRunType
    <2>2. run[r].pc = "next" /\ UNCHANGED <<limits, created, swapped, unsaid>> /\ run' = [run EXCEPT ![r] = v]
      BY <1>3 DEF L!NextOrder
    <2> HIDE DEF v
    <2> QED BY <2>1, <2>2, MoveKeepsLimits
  <1> QED BY <1>2, <1>3 DEF L!NextOrder

LEMMA PassKeepsLimits == ASSUME LInv, NEW r \in Runs, L!NotTriggered(r) PROVE LInv'
  <1> DEFINE v == [run[r] EXCEPT !.pc = "next", !.at = L!NoOrder]
  <1>1. run[r] \in LimitRunType
    BY LimitNumbers
  <1>2. v \in LimitRunType /\ v.pc = "next" /\ v.todo = run[r].todo /\ v.at = L!NoOrder
    BY <1>1 DEF LimitRunType
  <1>3. /\ run' = [run EXCEPT ![r] = v] /\ run[r].pc = "prices"
        /\ UNCHANGED <<limits, created, swapped, unsaid>>
    BY DEF L!NotTriggered
  <1> HIDE DEF v
  <1> QED BY <1>2, <1>3, MoveKeepsLimits

\* A swap: the run that may still make it becomes one that is to say so, or
\* the answer is lost.
LEMMA SwapKeepsLimits == ASSUME LInv, NEW r \in Runs, L!Swap(r) PROVE LInv'
  <1>0. PICK i \in L!Ids : i = run[r].at
    BY DEF L!Swap, LInv, TriedOnce
  <1>1. /\ run[r] \in LimitRunType /\ run[r].pc = "prices" /\ i \notin run[r].todo /\ i <= created
        /\ UNCHANGED <<limits, created>> /\ swapped' = [swapped EXCEPT ![i] = @ + 1]
    BY <1>0, LimitNumbers DEF L!Swap, LInv, TriedOnce, NamesCreated
  <1> DEFINE said == [run[r] EXCEPT !.pc = "filled"]
             lost == [run[r] EXCEPT !.pc = "next", !.at = L!NoOrder]
  <1>2. /\ said \in LimitRunType /\ said.pc = "filled" /\ said.todo = run[r].todo /\ said.at = i
        /\ lost \in LimitRunType /\ lost.pc = "next" /\ lost.todo = run[r].todo /\ lost.at = L!NoOrder
    BY <1>0, <1>1 DEF LimitRunType
  <1>3. PICK v \in {said, lost} :
           /\ run' = [run EXCEPT ![r] = v]
           /\ unsaid' = IF v = said THEN unsaid ELSE [unsaid EXCEPT ![i] = @ + 1]
    <2>1. said # lost
      BY <1>2
    <2>2. \/ run' = [run EXCEPT ![r] = said] /\ UNCHANGED unsaid
          \/ run' = [run EXCEPT ![r] = lost] /\ unsaid' = [unsaid EXCEPT ![i] = @ + 1]
      BY <1>0 DEF L!Swap
    <2> HIDE DEF said, lost
    <2> QED BY <2>1, <2>2
  <1> HIDE DEF said, lost
  <1>4. v \in LimitRunType /\ v.todo = run[r].todo /\ v.at <= created
        /\ IF v = said THEN v.pc = "filled" /\ v.at = i ELSE v.pc = "next"
    BY <1>1, <1>2, LimitNumbers
  <1>5. /\ run' \in [Runs -> LimitRunType] /\ run'[r] = v /\ \A s \in Runs \ {r} : run'[s] = run[s]
        /\ Recounted(r)
    BY <1>3, <1>4, RunMoves
  <1>6. /\ swapped' \in [L!Ids -> Nat] /\ unsaid' \in [L!Ids -> Nat]
        /\ swapped'[i] = swapped[i] + 1 /\ unsaid'[i] = unsaid[i] + (IF v = said THEN 0 ELSE 1)
        /\ \A j \in L!Ids \ {i} : swapped'[j] = swapped[j] /\ unsaid'[j] = unsaid[j]
    BY <1>1, <1>3, LimitNumbers
  <1>7. r \in Coming(i) /\ r \notin Coming(i)' /\ r \notin Marking(i) /\ (r \in Marking(i)' <=> v = said)
    BY <1>0, <1>1, <1>4, <1>5 DEF Coming, Marking
  <1>8. \A j \in L!Ids \ {i} :
           (r \in Coming(j)' <=> r \in Coming(j)) /\ r \notin Marking(j) /\ r \notin Marking(j)'
    BY <1>0, <1>1, <1>4, <1>5 DEF Coming, Marking
  <1>9. NamesCreated'
    BY <1>1, <1>4, <1>5, <1>6, LimitNumbers DEF LInv, NamesCreated
  <1>10. TriedOnce' /\ FilledWasSwapped'
    <2>1. TriedOnce'
      BY <1>1, <1>4, <1>5 DEF LInv, TriedOnce
    <2>2. \A j \in L!Ids : swapped'[j] >= swapped[j] /\ swapped[j] \in Nat /\ swapped'[i] > 0
      BY <1>1, <1>6, LimitNumbers
    <2>3. \A s \in Runs : run'[s].pc = "filled" => run'[s].at \in L!Ids /\ swapped'[run'[s].at] > 0
      BY <1>1, <1>4, <1>5, <1>6, <2>2 DEF LInv, FilledWasSwapped, TriedOnce
    <2>4. \A k \in DOMAIN limits : limits[k].st = "FILLED" => swapped'[limits[k].id] > 0
      <3> SUFFICES ASSUME NEW k \in DOMAIN limits, limits[k].st = "FILLED" PROVE swapped'[limits[k].id] > 0
        OBVIOUS
      <3>1. limits[k].id \in L!Ids
        BY LimitRow DEF LimitRowType
      <3>2. swapped[limits[k].id] > 0
        BY DEF LInv, FilledWasSwapped
      <3>3. swapped'[limits[k].id] \in Nat
        BY <1>6, <3>1
      <3> QED BY <2>2, <3>1, <3>2, <3>3
    <2> QED BY <1>1, <2>1, <2>3, <2>4 DEF FilledWasSwapped
  <1>11. SwapsCounted'
    <2>1. ASSUME NEW j \in L!Ids PROVE swapped'[j] + Cardinality(Coming(j))' <= Cardinality(Runs) + unsaid'[j]
      <3>1. swapped[j] + Cardinality(Coming(j)) <= Cardinality(Runs) + unsaid[j]
        BY DEF LInv, SwapsCounted
      <3>2. CASE j = i
        BY <1>5, <1>6, <1>7, <3>1, <3>2, LimitNumbers DEF Recounted
      <3>3. CASE j # i
        BY <1>5, <1>6, <1>8, <3>1, <3>3, LimitNumbers DEF Recounted
      <3> QED BY <3>2, <3>3
    <2>2. ASSUME NEW j \in OpenOrders PROVE swapped'[j] <= Cardinality(Marking(j))' + unsaid'[j]
      <3>1. swapped[j] <= Cardinality(Marking(j)) + unsaid[j] /\ j \in L!Ids
        BY LimitNumbers DEF LInv, SwapsCounted
      <3>2. CASE j = i
        BY <1>5, <1>6, <1>7, <3>1, <3>2, LimitNumbers DEF Recounted
      <3>3. CASE j # i
        BY <1>5, <1>6, <1>8, <3>1, <3>3, LimitNumbers DEF Recounted
      <3> QED BY <3>2, <3>3
    <2>3. OpenOrders' = OpenOrders
      BY <1>1 DEF OpenOrders
    <2> QED BY <2>1, <2>2, <2>3 DEF SwapsCounted
  <1> QED BY <1>1, <1>5, <1>6, <1>9, <1>10, <1>11 DEF LInv, LimitTypes, L!LimitAssumption

-----------------------------------------------------------------------------
(* The list *)

\* A change of the list that opens no order and moves no run that counts.
LEMMA ListKeepsCounts ==
    ASSUME LInv, UNCHANGED <<run, swapped, unsaid>>, OpenOrders' \subseteq OpenOrders
    PROVE  TriedOnce' /\ SwapsCounted'
  <1>1. \A i : Coming(i)' = Coming(i) /\ Marking(i)' = Marking(i)
    BY DEF Coming, Marking
  <1>2. TriedOnce'
    BY DEF LInv, TriedOnce
  <1>3. SwapsCounted'
    BY <1>1 DEF LInv, SwapsCounted
  <1> QED BY <1>2, <1>3

\* SetStatus, to a status that is not open.
LEMMA StatusKeepsList ==
    ASSUME LInv, NEW i \in L!Ids, NEW st \in {"FILLED", "CANCELLED"}, limits' = L!SetStatus(i, st)
    PROVE  /\ limits' \in Seq(LimitRowType) /\ Len(limits') = Len(limits) /\ DOMAIN limits' = DOMAIN limits
           /\ OpenOrders' = OpenOrders \ {i}
           /\ \A k \in DOMAIN limits :
                 /\ limits'[k].id = limits[k].id
                 /\ limits'[k].st = IF limits[k].id = i THEN st ELSE limits[k].st
  <1>1. Len(limits) \in Nat /\ DOMAIN limits = 1..Len(limits) /\ limits \in Seq(LimitRowType)
    BY DEF LInv, LimitTypes
  <1>2. ASSUME NEW k \in DOMAIN limits
        PROVE  /\ limits'[k] \in LimitRowType /\ limits'[k].id = limits[k].id
               /\ limits'[k].st = IF limits[k].id = i THEN st ELSE limits[k].st
    BY LimitRow DEF L!SetStatus, LimitRowType
  <1>3. limits' \in Seq(LimitRowType) /\ Len(limits') = Len(limits) /\ DOMAIN limits' = DOMAIN limits
    <2>1. limits' \in [1..Len(limits) -> LimitRowType]
      BY <1>1, <1>2 DEF L!SetStatus
    <2> QED BY <1>1, <2>1
  <1>4. OpenOrders' = OpenOrders \ {i}
    BY <1>2, <1>3 DEF OpenOrders, L!IsOpen
  <1> QED BY <1>2, <1>3, <1>4

LEMMA CancelKeepsLimits == ASSUME LInv, NEW i \in L!Ids, L!CancelOrder(i) PROVE LInv'
  <1>1. limits' = L!SetStatus(i, "CANCELLED") /\ UNCHANGED <<created, run, swapped, unsaid>>
    BY DEF L!CancelOrder
  <1>2. /\ limits' \in Seq(LimitRowType) /\ Len(limits') = Len(limits) /\ DOMAIN limits' = DOMAIN limits
        /\ OpenOrders' = OpenOrders \ {i}
        /\ \A k \in DOMAIN limits :
              /\ limits'[k].id = limits[k].id
              /\ limits'[k].st = IF limits[k].id = i THEN "CANCELLED" ELSE limits[k].st
    BY <1>1, StatusKeepsList
  <1>3. TriedOnce' /\ SwapsCounted'
    BY <1>1, <1>2, ListKeepsCounts
  <1>4. NamesCreated' /\ FilledWasSwapped'
    BY <1>1, <1>2 DEF LInv, NamesCreated, FilledWasSwapped
  <1> QED BY <1>1, <1>2, <1>3, <1>4 DEF LInv, LimitTypes, L!LimitAssumption

\* A new order has been tried by nobody.
LEMMA CreateKeepsLimits == ASSUME LInv, L!CreateOrder PROVE LInv'
  <1> DEFINE new == [id |-> created + 1, st |-> "OPEN"]
             rows == <<new>> \o limits
             n == IF Len(rows) < Kept THEN Len(rows) ELSE Kept
  <1>1. /\ created < MaxOrders /\ created' = created + 1 /\ limits' = SubSeq(rows, 1, n)
        /\ UNCHANGED <<run, swapped, unsaid>>
    BY DEF L!CreateOrder
  <1>2. /\ new \in LimitRowType /\ created \in Nat /\ created + 1 \in L!Ids
        /\ limits \in Seq(LimitRowType) /\ Len(limits) \in Nat /\ DOMAIN limits = 1..Len(limits)
    BY <1>1, LimitNumbers DEF LimitRowType, L!Ids, LInv, LimitTypes
  <1>3. /\ rows \in Seq(LimitRowType) /\ Len(rows) = Len(limits) + 1
        /\ rows[1] = new /\ \A k \in 2..Len(rows) : k - 1 \in DOMAIN limits /\ rows[k] = limits[k - 1]
    <2> HIDE DEF new
    <2>1. <<new>> \in Seq(LimitRowType) /\ Len(<<new>>) = 1 /\ <<new>>[1] = new
      BY <1>2
    <2> QED BY <1>2, <2>1
  <1>4. n \in 1..Len(rows) /\ n <= Kept
    BY <1>2, <1>3, LimitNumbers
  <1>5. /\ limits' \in Seq(LimitRowType) /\ Len(limits') = n /\ DOMAIN limits' = 1..n
        /\ \A k \in 1..n : limits'[k] = rows[k]
    <2> HIDE DEF rows, n
    <2> QED BY <1>1, <1>3, <1>4
  <1>6. \A k \in DOMAIN limits' : limits'[k] = new \/ \E j \in DOMAIN limits : limits'[k] = limits[j]
    <2> SUFFICES ASSUME NEW k \in 1..n PROVE rows[k] = new \/ \E j \in DOMAIN limits : rows[k] = limits[j]
      BY <1>5
    <2> QED BY <1>3, <1>4
  <1> HIDE DEF rows, n
  <1>7. OpenOrders' \subseteq OpenOrders \union {created + 1}
    BY <1>6 DEF OpenOrders, L!IsOpen
  <1> HIDE DEF new
  <1>8. new.id = created + 1 /\ new.st = "OPEN"
    BY DEF new
  <1>9. TriedOnce'
    BY <1>1 DEF LInv, TriedOnce
  <1>10. NamesCreated'
    <2>1. \A k \in DOMAIN limits' : limits'[k].id <= created + 1
      BY <1>2, <1>6, <1>8, LimitRow DEF LimitRowType, L!Ids
    <2>2. \A r \in Runs : (\A i \in run[r].todo : i <= created + 1) /\ run[r].at <= created + 1
      <3> SUFFICES ASSUME NEW r \in Runs PROVE (\A i \in run[r].todo : i <= created + 1) /\ run[r].at <= created + 1
        OBVIOUS
      <3>1. run[r].todo \subseteq Nat /\ run[r].at \in Nat
        BY LimitNumbers DEF LimitRunType
      <3> QED BY <1>2, <3>1 DEF LInv, NamesCreated
    <2>3. \A i \in L!Ids : i > created + 1 => swapped[i] = 0 /\ unsaid[i] = 0
      BY <1>2, LimitNumbers DEF LInv, NamesCreated
    <2> QED BY <1>1, <2>1, <2>2, <2>3 DEF NamesCreated
  <1>11. FilledWasSwapped'
    BY <1>1, <1>6, <1>8 DEF LInv, FilledWasSwapped
  <1>12. SwapsCounted'
    <2>1. \A i : Coming(i)' = Coming(i) /\ Marking(i)' = Marking(i)
      BY <1>1 DEF Coming, Marking
    <2>2. swapped[created + 1] = 0 /\ unsaid[created + 1] = 0
      BY <1>2 DEF LInv, NamesCreated
    <2>3. Marking(created + 1) \in SUBSET Runs /\ Cardinality(Marking(created + 1)) \in Nat
      <3>1. Marking(created + 1) \in SUBSET Runs
        BY DEF Marking
      <3> QED BY <3>1, LimitNumbers, FS_Subset, FS_CardinalityType
    <2>4. \A i \in OpenOrders' : swapped[i] <= Cardinality(Marking(i)) + unsaid[i]
      BY <1>7, <2>2, <2>3 DEF LInv, SwapsCounted
    <2> QED BY <1>1, <2>1, <2>4 DEF LInv, SwapsCounted
  <1> QED BY <1>1, <1>2, <1>4, <1>5, <1>9, <1>10, <1>11, <1>12 DEF LInv, LimitTypes, L!LimitAssumption

\* The first run that says FILLED is the last that could leave the order open.
LEMMA MarkKeepsLimits == ASSUME LInv, NEW r \in Runs, L!MarkFilled(r) PROVE LInv'
  <1>0. PICK i \in L!Ids : i = run[r].at
    BY DEF L!MarkFilled, LInv, TriedOnce
  <1> DEFINE v == [run[r] EXCEPT !.pc = "next", !.at = L!NoOrder]
  <1>1. /\ run[r] \in LimitRunType /\ run[r].pc = "filled" /\ limits' = L!SetStatus(i, "FILLED")
        /\ run' = [run EXCEPT ![r] = v] /\ UNCHANGED <<created, swapped, unsaid>>
    BY <1>0, LimitNumbers DEF L!MarkFilled
  <1>2. v \in LimitRunType /\ v.pc = "next" /\ v.todo = run[r].todo /\ v.at = L!NoOrder
    BY <1>1 DEF LimitRunType
  <1> HIDE DEF v
  <1>3. /\ run' \in [Runs -> LimitRunType] /\ run'[r] = v /\ \A s \in Runs \ {r} : run'[s] = run[s]
        /\ Recounted(r)
    BY <1>1, <1>2, RunMoves
  <1>4. /\ limits' \in Seq(LimitRowType) /\ Len(limits') = Len(limits) /\ DOMAIN limits' = DOMAIN limits
        /\ OpenOrders' = OpenOrders \ {i}
        /\ \A k \in DOMAIN limits :
              /\ limits'[k].id = limits[k].id
              /\ limits'[k].st = IF limits[k].id = i THEN "FILLED" ELSE limits[k].st
    BY <1>1, StatusKeepsList
  <1>5. /\ \A j \in L!Ids : r \in Coming(j)' <=> r \in Coming(j)
        /\ \A j \in L!Ids \ {i} : r \notin Marking(j) /\ r \notin Marking(j)'
    BY <1>0, <1>1, <1>2, <1>3 DEF Coming, Marking
  <1>6. NamesCreated' /\ TriedOnce'
    <2>1. \A k \in DOMAIN limits' : limits'[k].id <= created
      BY <1>4 DEF LInv, NamesCreated
    <2>2. \A s \in Runs : run'[s].todo = run[s].todo /\ (run'[s].at = run[s].at \/ run'[s].at = 0)
      BY <1>2, <1>3, LimitNumbers
    <2>3. \A s \in Runs : (\A j \in run'[s].todo : j <= created) /\ run'[s].at <= created
      BY <2>2, LimitNumbers DEF LInv, NamesCreated
    <2>4. TriedOnce'
      BY <1>1, <1>2, <1>3 DEF LInv, TriedOnce
    <2> QED BY <1>1, <2>1, <2>3, <2>4 DEF LInv, NamesCreated
  <1>7. FilledWasSwapped'
    BY <1>0, <1>1, <1>2, <1>3, <1>4 DEF LInv, FilledWasSwapped
  <1>8. SwapsCounted'
    <2>1. \A j \in L!Ids : Cardinality(Coming(j))' = Cardinality(Coming(j))
      BY <1>3, <1>5 DEF Recounted
    <2>2. \A j \in L!Ids \ {i} : Cardinality(Marking(j))' = Cardinality(Marking(j))
      BY <1>3, <1>5 DEF Recounted
    <2>3. \A j \in L!Ids : swapped[j] + Cardinality(Coming(j))' <= Cardinality(Runs) + unsaid[j]
      BY <2>1 DEF LInv, SwapsCounted
    <2>4. \A j \in OpenOrders' : swapped[j] <= Cardinality(Marking(j))' + unsaid[j]
      BY <1>4, <2>2, LimitNumbers DEF LInv, SwapsCounted
    <2> QED BY <1>1, <2>3, <2>4 DEF SwapsCounted
  <1> QED BY <1>1, <1>3, <1>4, <1>6, <1>7, <1>8 DEF LInv, LimitTypes, L!LimitAssumption

\* After a restart there are no orders and no runs.
LEMMA RestartKeepsLimits == ASSUME LInv, L!Restart PROVE LInv'
  <1>1. /\ limits' = <<>> /\ run' = [s \in Runs |-> L!IdleRun] /\ UNCHANGED <<created, swapped, unsaid>>
    BY DEF L!Restart
  <1>2. L!IdleRun \in LimitRunType /\ L!IdleRun.pc = "idle" /\ L!IdleRun.todo = {} /\ L!IdleRun.at = 0
    BY DEF L!IdleRun, LimitRunType, L!NoOrder
  <1>3. \A i \in L!Ids : Coming(i)' = {} /\ Marking(i)' = {}
    BY <1>1, <1>2 DEF Coming, Marking
  <1>4. OpenOrders' = {}
    BY <1>1 DEF OpenOrders
  <1>5. SwapsCounted'
    <2>1. ASSUME NEW i \in L!Ids PROVE swapped[i] <= Cardinality(Runs) + unsaid[i]
      <3>1. Coming(i) \in SUBSET Runs
        BY DEF Coming
      <3>2. Cardinality(Coming(i)) \in Nat
        BY <3>1, LimitNumbers, FS_Subset, FS_CardinalityType
      <3>3. swapped[i] + Cardinality(Coming(i)) <= Cardinality(Runs) + unsaid[i]
        BY DEF LInv, SwapsCounted
      <3> QED BY <3>2, <3>3, LimitNumbers
    <2>2. \A i \in L!Ids : Cardinality(Coming(i)') = 0
      BY <1>3, FS_EmptySet
    <2>3. \A i \in L!Ids : swapped[i] + Cardinality(Coming(i)') <= Cardinality(Runs) + unsaid[i]
      BY <2>1, <2>2, LimitNumbers
    <2> QED BY <1>1, <1>4, <2>3 DEF SwapsCounted
  <1>6. NamesCreated' /\ TriedOnce' /\ FilledWasSwapped'
    BY <1>1, <1>2, LimitNumbers DEF LInv, NamesCreated, TriedOnce, FilledWasSwapped
  <1>7. LimitTypes'
    BY <1>1, <1>2, LimitNumbers DEF LInv, LimitTypes
  <1> QED BY <1>1, <1>5, <1>6, <1>7 DEF LInv, L!LimitAssumption

LEMMA LInvInductive == LInv /\ [L!Next]_(L!limitVars) => LInv'
  <1> SUFFICES ASSUME LInv, [L!Next]_(L!limitVars) PROVE LInv'
    OBVIOUS
  <1>1. CASE UNCHANGED L!limitVars
    <2>1. OpenOrders' = OpenOrders /\ \A i : Coming(i)' = Coming(i) /\ Marking(i)' = Marking(i)
      BY <1>1 DEF L!limitVars, OpenOrders, Coming, Marking
    <2> QED BY <1>1, <2>1 DEF L!limitVars, LInv, LimitTypes, NamesCreated, TriedOnce, SwapsCounted,
                              FilledWasSwapped, L!LimitAssumption
  <1> QED BY <1>1, CreateKeepsLimits, RestartKeepsLimits, CancelKeepsLimits, StartKeepsLimits, NextKeepsLimits,
             PassKeepsLimits, SwapKeepsLimits, MarkKeepsLimits DEF L!Next

LEMMA InitLInv == L!LimitAssumption /\ L!Init => LInv
  <1> SUFFICES ASSUME L!LimitAssumption, L!Init PROVE LInv
    OBVIOUS
  <1>1. L!IdleRun \in LimitRunType /\ L!IdleRun.pc = "idle" /\ L!IdleRun.todo = {} /\ L!IdleRun.at = 0
    BY DEF L!IdleRun, LimitRunType, L!NoOrder
  <1>2. OpenOrders = {} /\ \A i \in L!Ids : Coming(i) = {} /\ Marking(i) = {}
    BY <1>1 DEF L!Init, OpenOrders, Coming, Marking
  <1>3. LimitTypes /\ NamesCreated /\ TriedOnce /\ FilledWasSwapped
    BY <1>1, LimitConstants DEF L!Init, LimitTypes, NamesCreated, TriedOnce, FilledWasSwapped
  <1>4. SwapsCounted
    <2>1. \A i \in L!Ids : Cardinality(Coming(i)) = 0 /\ swapped[i] = 0 /\ unsaid[i] = 0
      BY <1>2, FS_EmptySet DEF L!Init
    <2> QED BY <1>2, <2>1, LimitConstants DEF SwapsCounted
  <1> QED BY <1>3, <1>4 DEF LInv

\* The orders and the runs are always well typed.
THEOREM LimitsTypeCorrect == L!LimitAssumption /\ L!Spec => []L!TypeOK
  <1>1. LInv => L!TypeOK
    <2> SUFFICES ASSUME LInv PROVE L!TypeOK
      OBVIOUS
    <2>1. \A r \in Runs : run[r] \in LimitRunType
      BY LimitNumbers
    <2> QED BY <2>1 DEF LInv, LimitTypes, LimitRowType, LimitRunType, L!TypeOK
  <1> QED BY <1>1, InitLInv, LInvInductive, PTL DEF L!Spec

\* What the invariant says of the swaps.
LEMMA LInvFills == LInv => L!FillsBounded
  <1> SUFFICES ASSUME LInv PROVE L!FillsBounded
    OBVIOUS
  <1>1. L!Cardinality(Runs) = Cardinality(Runs)
    BY DEF L!Cardinality, Cardinality
  <1>2. ASSUME NEW i \in L!Ids PROVE swapped[i] <= Cardinality(Runs) + unsaid[i]
    <2>1. Coming(i) \in SUBSET Runs
      BY DEF Coming
    <2>2. Cardinality(Coming(i)) \in Nat
      BY <2>1, LimitNumbers, FS_Subset, FS_CardinalityType
    <2>3. swapped[i] + Cardinality(Coming(i)) <= Cardinality(Runs) + unsaid[i]
      BY DEF LInv, SwapsCounted
    <2> QED BY <2>2, <2>3, LimitNumbers
  <1> QED BY <1>1, <1>2 DEF LInv, FilledWasSwapped, L!FillsBounded

\* jupiterLimitOrderService.ts:110-131: however many runs of the watcher
\* overlap, however the list is cut, cancelled in and lost in a restart, an
\* order is swapped no more often than runs can overlap, plus its lost
\* answers; and FILLED is said of no order without a swap.
THEOREM FillsStayBounded == L!LimitAssumption /\ L!Spec => []L!FillsBounded
  BY LInvFills, InitLInv, LInvInductive, PTL DEF L!Spec

-----------------------------------------------------------------------------
(* Predictions *)

BetCallType ==
    [pc : {"idle", "quote", "send", "confirm", "log"}, kind : Q!Kinds, req : 0..MaxRequests, step : 1..Steps,
     tx : Nat, left : 0..Endpoints]
BetTxType == [kind : Q!Kinds, by : 1..MaxRequests, st : {"made", "afloat", "landed", "failed", "dropped"}]

\* What a call does once its transaction is prepared.
AfterPrepare == {"send", "confirm", "log"}

BetTypes ==
    /\ asked \in 0..MaxRequests /\ call \in [Calls -> BetCallType] /\ txs \in Seq(BetTxType) /\ held \in BOOLEAN
    /\ log \subseteq [tx : Nat, action : Q!Kinds] /\ faults \in 0..MaxFaults

\* No two calls serve one request.
CallsApart ==
    /\ \A c \in Calls : call[c].pc # "idle" => call[c].req \in 1..asked
    /\ \A c, d \in Calls : c # d /\ call[c].pc # "idle" /\ call[d].pc # "idle" => call[c].req # call[d].req

\* No two transactions were prepared for one request, and none for one that
\* still asks for it.
TxsApart ==
    /\ \A t \in DOMAIN txs : txs[t].by <= asked
    /\ \A t, u \in DOMAIN txs : t # u => txs[t].by # txs[u].by
    /\ \A c \in Calls : call[c].pc = "quote" => \A t \in DOMAIN txs : txs[t].by # call[c].req

\* The transaction of a call is the one prepared for its request.
TxInHand ==
    \A c \in Calls :
       /\ call[c].tx = 0 \/ call[c].tx \in DOMAIN txs
       /\ call[c].pc \in AfterPrepare => /\ call[c].tx \in DOMAIN txs /\ txs[call[c].tx].by = call[c].req
                                         /\ txs[call[c].tx].kind = call[c].kind
       /\ call[c].pc = "log" => txs[call[c].tx].st = "landed"

LogSound == \A e \in log : e.tx \in DOMAIN txs /\ txs[e.tx].st = "landed" /\ txs[e.tx].kind = e.action

\* Without failures, what was sent and may land is logged, or a call is on it.
Followed ==
    faults = 0 =>
       \A t \in DOMAIN txs : txs[t].st \in {"afloat", "landed"} =>
          (\E e \in log : e.tx = t) \/ \E c \in Calls : call[c].pc \in AfterPrepare /\ call[c].tx = t

\* The inductive invariant.
QInv == Q!PredictionsAssumption /\ BetTypes /\ CallsApart /\ TxsApart /\ TxInHand /\ LogSound /\ Followed

-----------------------------------------------------------------------------

LEMMA BetNumbers ==
    ASSUME QInv
    PROVE  /\ Endpoints \in Nat \ {0} /\ Steps \in Nat \ {0} /\ MaxRequests \in Nat /\ MaxTxs \in Nat
           /\ MaxFaults \in Nat /\ asked \in Nat /\ asked <= MaxRequests /\ faults \in Nat
           /\ Q!Quiet \in BetCallType /\ Q!Quiet.pc = "idle" /\ Q!Quiet.tx = 0
           /\ Len(txs) \in Nat /\ DOMAIN txs = 1..Len(txs) /\ \A t \in DOMAIN txs : txs[t] \in BetTxType
           /\ \A c \in Calls : call[c] \in BetCallType
  <1>1. /\ Endpoints \in Nat \ {0} /\ Steps \in Nat \ {0} /\ MaxRequests \in Nat /\ MaxTxs \in Nat
        /\ MaxFaults \in Nat
    BY DEF QInv, Q!PredictionsAssumption
  <1>2. Q!Quiet \in BetCallType /\ Q!Quiet.pc = "idle" /\ Q!Quiet.tx = 0
    BY <1>1 DEF Q!Quiet, BetCallType, Q!Kinds
  <1>3. Len(txs) \in Nat /\ DOMAIN txs = 1..Len(txs) /\ \A t \in DOMAIN txs : txs[t] \in BetTxType
    BY DEF QInv, BetTypes
  <1> QED BY <1>1, <1>2, <1>3 DEF QInv, BetTypes

\* A step of one call that prepares and sends nothing: v is where it goes.
LEMMA MoveKeepsBets ==
    ASSUME QInv, NEW c \in Calls, NEW v \in BetCallType, call' = [call EXCEPT ![c] = v],
           UNCHANGED <<asked, txs, held>>, faults' \in 0..MaxFaults, faults' = 0 => faults = 0,
           v.pc # "idle" => call[c].pc # "idle" /\ v.req = call[c].req,
           v.pc = "quote" => call[c].pc = "quote", v.tx \in {0, call[c].tx},
           v.pc \in AfterPrepare =>
              call[c].pc \in AfterPrepare /\ v.tx = call[c].tx /\ v.kind = call[c].kind,
           v.pc = "log" => txs[v.tx].st = "landed",
           log \subseteq log',
           \A e \in log' \ log : /\ e \in [tx : Nat, action : Q!Kinds]
                                 /\ e.tx \in DOMAIN txs /\ txs[e.tx].st = "landed" /\ txs[e.tx].kind = e.action,
           faults' = 0 /\ call[c].pc \in AfterPrepare /\ txs[call[c].tx].st \in {"afloat", "landed"} =>
              v.pc \in AfterPrepare \/ \E e \in log' : e.tx = call[c].tx
    PROVE  QInv'
  <1>1. call' \in [Calls -> BetCallType] /\ call'[c] = v /\ \A d \in Calls \ {c} : call'[d] = call[d]
    BY DEF QInv, BetTypes
  <1>2. BetTypes'
    BY <1>1 DEF QInv, BetTypes
  <1>3. CallsApart'
    BY <1>1 DEF QInv, CallsApart
  <1>4. TxsApart'
    BY <1>1 DEF QInv, TxsApart
  <1>5. TxInHand'
    BY <1>1 DEF QInv, TxInHand, AfterPrepare
  <1>6. LogSound'
    BY DEF QInv, LogSound
  <1>7. Followed'
    <2> SUFFICES ASSUME faults' = 0, NEW t \in DOMAIN txs, txs[t].st \in {"afloat", "landed"},
                        ~\E e \in log' : e.tx = t
                 PROVE  \E d \in Calls : call'[d].pc \in AfterPrepare /\ call'[d].tx = t
      BY DEF Followed
    <2>1. PICK d \in Calls : call[d].pc \in AfterPrepare /\ call[d].tx = t
      BY DEF QInv, Followed
    <2> QED BY <1>1, <2>1
  <1> QED BY <1>2, <1>3, <1>4, <1>5, <1>6, <1>7 DEF QInv, Q!PredictionsAssumption

LEMMA QuietKeepsBets ==
    ASSUME QInv, NEW c \in Calls, Q!Throw(c), UNCHANGED <<asked, txs, held, log>>,
           faults' \in 0..MaxFaults, faults' = 0 => faults = 0,
           \/ faults' # 0
           \/ call[c].pc \notin AfterPrepare
           \/ txs[call[c].tx].st \notin {"afloat", "landed"}
    PROVE  QInv'
  <1>1. call' = [call EXCEPT ![c] = Q!Quiet]
    BY DEF Q!Throw
  <1> QED BY <1>1, BetNumbers, MoveKeepsBets DEF AfterPrepare

-----------------------------------------------------------------------------
(* The calls *)

LEMMA RequestKeepsBets == ASSUME QInv, NEW c \in Calls, NEW kind \in Q!Kinds, Q!Request(c, kind) PROVE QInv'
  <1> DEFINE v == [Q!Quiet EXCEPT !.pc = "quote", !.kind = kind, !.req = asked + 1]
  <1>1. /\ call[c].pc = "idle" /\ asked < MaxRequests /\ asked' = asked + 1
        /\ call' = [call EXCEPT ![c] = v] /\ UNCHANGED <<txs, held, log, faults>>
    BY DEF Q!Request
  <1>2. v \in BetCallType /\ v.pc = "quote" /\ v.req = asked + 1 /\ v.tx = 0
    <2>1. asked + 1 \in 0..MaxRequests
      BY <1>1, BetNumbers
    <2>2. Q!Quiet \in BetCallType /\ Q!Quiet.tx = 0
      BY BetNumbers
    <2> QED BY <2>1, <2>2 DEF BetCallType
  <1> HIDE DEF v
  <1>3. call' \in [Calls -> BetCallType] /\ call'[c] = v /\ \A d \in Calls \ {c} : call'[d] = call[d]
    BY <1>1, <1>2 DEF QInv, BetTypes
  <1>4. BetTypes'
    BY <1>1, <1>3, BetNumbers DEF QInv, BetTypes
  <1>5. CallsApart'
    BY <1>1, <1>2, <1>3, BetNumbers DEF QInv, CallsApart
  <1>6. TxsApart'
    <2>1. \A t \in DOMAIN txs : txs[t].by \in Nat /\ txs[t].by <= asked
      BY BetNumbers DEF BetTxType, QInv, TxsApart
    <2>2. \A t \in DOMAIN txs : txs[t].by <= asked + 1 /\ txs[t].by # asked + 1
      BY <2>1, BetNumbers
    <2> QED BY <1>1, <1>2, <1>3, <2>2 DEF QInv, TxsApart
  <1>7. TxInHand' /\ LogSound' /\ Followed'
    BY <1>1, <1>2, <1>3 DEF QInv, TxInHand, LogSound, Followed, AfterPrepare
  <1> QED BY <1>4, <1>5, <1>6, <1>7 DEF QInv, Q!PredictionsAssumption

LEMMA PrepareKeepsBets == ASSUME QInv, NEW c \in Calls, Q!Prepare(c) PROVE QInv'
  <1> DEFINE new == [kind |-> call[c].kind, by |-> call[c].req, st |-> "made"]
             n == Len(txs) + 1
             v == [call[c] EXCEPT !.pc = "send", !.tx = n, !.left = Endpoints]
  <1>1. /\ call[c].pc = "quote" /\ txs' = Append(txs, new) /\ call' = [call EXCEPT ![c] = v]
        /\ UNCHANGED <<asked, held, log, faults>>
    BY DEF Q!Prepare
  <1>2. /\ v \in BetCallType /\ v.pc = "send" /\ v.tx = n /\ v.kind = call[c].kind /\ v.req = call[c].req
        /\ new \in BetTxType /\ new.by = call[c].req /\ new.kind = call[c].kind /\ new.st = "made"
    <2>1. call[c] \in BetCallType /\ n \in Nat /\ Endpoints \in 0..Endpoints
      BY BetNumbers
    <2>2. call[c].req \in 1..asked
      BY <1>1 DEF QInv, CallsApart
    <2>3. call[c].req \in 1..MaxRequests
      BY <2>2, BetNumbers
    <2> HIDE DEF n
    <2>4. v \in BetCallType /\ v.pc = "send" /\ v.tx = n /\ v.kind = call[c].kind /\ v.req = call[c].req
      BY <2>1 DEF BetCallType
    <2>5. call[c].kind \in Q!Kinds
      BY <2>1 DEF BetCallType
    <2>6. new \in BetTxType
      BY <2>3, <2>5 DEF BetTxType
    <2> QED BY <2>4, <2>6
  <1> HIDE DEF v, new
  <1>3. call' \in [Calls -> BetCallType] /\ call'[c] = v /\ \A d \in Calls \ {c} : call'[d] = call[d]
    BY <1>1, <1>2 DEF QInv, BetTypes
  <1>4. /\ txs' \in Seq(BetTxType) /\ DOMAIN txs' = 1..n /\ txs'[n] = new /\ n \in Nat /\ n \notin DOMAIN txs
        /\ DOMAIN txs' = DOMAIN txs \union {n} /\ \A t \in DOMAIN txs : txs'[t] = txs[t]
    BY <1>1, <1>2, BetNumbers DEF QInv, BetTypes
  <1> HIDE DEF n
  <1>5. BetTypes'
    BY <1>1, <1>3, <1>4 DEF QInv, BetTypes
  <1>6. CallsApart'
    BY <1>1, <1>2, <1>3 DEF QInv, CallsApart
  <1>7. TxsApart'
    <2>1. new.by <= asked /\ \A t \in DOMAIN txs : txs[t].by # new.by
      BY <1>1, <1>2, BetNumbers DEF QInv, CallsApart, TxsApart
    <2>2. \A d \in Calls : call'[d].pc = "quote" => new.by # call'[d].req /\ call[d].pc = "quote" /\ call'[d] = call[d]
      BY <1>1, <1>2, <1>3 DEF QInv, CallsApart
    <2>3. \A t \in DOMAIN txs' : txs'[t].by <= asked
      BY <1>4, <2>1 DEF QInv, TxsApart
    <2>4. \A t, u \in DOMAIN txs' : t # u => txs'[t].by # txs'[u].by
      BY <1>4, <2>1 DEF QInv, TxsApart
    <2>5. \A d \in Calls : call'[d].pc = "quote" => \A t \in DOMAIN txs' : txs'[t].by # call'[d].req
      <3> SUFFICES ASSUME NEW d \in Calls, call'[d].pc = "quote", NEW t \in DOMAIN txs' PROVE txs'[t].by # call'[d].req
        OBVIOUS
      <3>1. new.by # call'[d].req /\ call[d].pc = "quote" /\ call'[d] = call[d]
        BY <2>2
      <3>2. t \in DOMAIN txs => txs[t].by # call[d].req
        BY <3>1 DEF QInv, TxsApart
      <3> QED BY <1>4, <3>1, <3>2
    <2> QED BY <1>1, <2>3, <2>4, <2>5 DEF TxsApart
  <1>8. TxInHand'
    BY <1>1, <1>2, <1>3, <1>4 DEF QInv, TxInHand, AfterPrepare
  <1>9. LogSound'
    BY <1>1, <1>4 DEF QInv, LogSound
  <1>10. Followed'
    <2> SUFFICES ASSUME faults = 0, NEW t \in DOMAIN txs', txs'[t].st \in {"afloat", "landed"},
                        ~\E e \in log : e.tx = t
                 PROVE  \E d \in Calls : call'[d].pc \in AfterPrepare /\ call'[d].tx = t
      BY <1>1 DEF Followed
    <2>1. t \in DOMAIN txs /\ txs'[t] = txs[t]
      BY <1>2, <1>4
    <2>2. PICK d \in Calls : call[d].pc \in AfterPrepare /\ call[d].tx = t
      BY <2>1 DEF QInv, Followed
    <2> QED BY <1>1, <1>3, <2>2 DEF AfterPrepare
  <1> QED BY <1>5, <1>6, <1>7, <1>8, <1>9, <1>10 DEF QInv, Q!PredictionsAssumption

LEMMA NoLiquidityKeepsBets == ASSUME QInv, NEW c \in Calls, Q!NoLiquidity(c) PROVE QInv'
  <1>1. call[c].pc = "quote" /\ call[c] \in BetCallType /\ UNCHANGED <<asked, txs, held, log, faults>>
    BY BetNumbers DEF Q!NoLiquidity
  <1>2. faults' \in 0..MaxFaults
    BY <1>1 DEF QInv, BetTypes
  <1>3. ASSUME Q!Throw(c) PROVE QInv'
    BY <1>1, <1>2, <1>3, QuietKeepsBets DEF AfterPrepare
  <1>4. ASSUME call' = [call EXCEPT ![c].kind = "SELL"] PROVE QInv'
    <2> DEFINE v == [call[c] EXCEPT !.kind = "SELL"]
    <2>1. v \in BetCallType /\ v.pc = "quote" /\ v.req = call[c].req /\ v.tx = call[c].tx
      BY <1>1 DEF BetCallType, Q!Kinds
    <2>2. call' = [call EXCEPT ![c] = v]
      BY <1>4
    <2> HIDE DEF v
    <2> QED BY <1>1, <1>2, <2>1, <2>2, MoveKeepsBets DEF AfterPrepare
  <1>5. ASSUME call[c].step < Steps, call' = [call EXCEPT ![c].step = @ + 1] PROVE QInv'
    <2> DEFINE v == [call[c] EXCEPT !.step = @ + 1]
    <2>1. v \in BetCallType /\ v.pc = "quote" /\ v.req = call[c].req /\ v.tx = call[c].tx
      <3>1. call[c].step \in 1..Steps
        BY <1>1 DEF BetCallType
      <3>2. call[c].step + 1 \in 1..Steps
        BY <1>5, <3>1, BetNumbers
      <3> QED BY <1>1, <3>2 DEF BetCallType
    <2>2. call' = [call EXCEPT ![c] = v]
      BY <1>5
    <2> HIDE DEF v
    <2> QED BY <1>1, <1>2, <2>1, <2>2, MoveKeepsBets DEF AfterPrepare
  <1> QED BY <1>3, <1>4, <1>5 DEF Q!NoLiquidity

LEMMA ApiThrowsKeepsBets == ASSUME QInv, NEW c \in Calls, Q!ApiThrows(c) PROVE QInv'
  <1>1. call[c].pc \notin AfterPrepare /\ Q!Throw(c) /\ UNCHANGED <<asked, txs, held, log, faults>>
    BY DEF Q!ApiThrows, AfterPrepare
  <1>2. faults' \in 0..MaxFaults
    BY <1>1 DEF QInv, BetTypes
  <1> QED BY <1>1, <1>2, QuietKeepsBets

\* A change of the state of one transaction, which does not take back what
\* landed; the calls do not change, but for the one that sends it.
LEMMA TxKeepsBets ==
    ASSUME QInv, NEW t \in DOMAIN txs, NEW st \in {"made", "afloat", "landed", "failed", "dropped"},
           txs' = [txs EXCEPT ![t].st = st], txs[t].st = "landed" => st = "landed",
           held' \in BOOLEAN, UNCHANGED <<asked, log, faults>>,
           call' \in [Calls -> BetCallType],
           \A c \in Calls : call'[c] = call[c] \/ /\ call[c].pc = "send" /\ call[c].tx = t
                                                  /\ call'[c].pc = "confirm" /\ call'[c].tx = t
                                                  /\ call'[c].req = call[c].req /\ call'[c].kind = call[c].kind,
           txs[t].st \in {"afloat", "landed"} \/ st \notin {"afloat", "landed"}
             \/ \E c \in Calls : call'[c].pc = "confirm" /\ call'[c].tx = t
    PROVE  QInv'
  <1>1. /\ txs' \in Seq(BetTxType) /\ DOMAIN txs' = DOMAIN txs
        /\ \A u \in DOMAIN txs : txs'[u].by = txs[u].by /\ txs'[u].kind = txs[u].kind
        /\ \A u \in DOMAIN txs : txs'[u].st = IF u = t THEN st ELSE txs[u].st
    <2>1. DOMAIN txs' = DOMAIN txs
      OBVIOUS
    <2>2. ASSUME NEW u \in DOMAIN txs
          PROVE  /\ txs'[u] \in BetTxType /\ txs'[u].by = txs[u].by /\ txs'[u].kind = txs[u].kind
                 /\ txs'[u].st = IF u = t THEN st ELSE txs[u].st
      BY BetNumbers DEF BetTxType
    <2>3. txs' \in [1..Len(txs) -> BetTxType]
      BY <2>2, BetNumbers
    <2>4. txs' \in Seq(BetTxType)
      BY <2>3, BetNumbers
    <2> QED BY <2>1, <2>2, <2>4
  <1>2. BetTypes'
    BY <1>1 DEF QInv, BetTypes
  <1>3. CallsApart'
    BY DEF QInv, CallsApart
  <1>4. TxsApart'
    BY <1>1 DEF QInv, TxsApart
  <1>5. TxInHand'
    BY <1>1 DEF QInv, TxInHand, AfterPrepare
  <1>6. LogSound'
    BY <1>1 DEF QInv, LogSound
  <1>7. Followed'
    <2> SUFFICES ASSUME faults = 0, NEW u \in DOMAIN txs, txs'[u].st \in {"afloat", "landed"},
                        ~\E e \in log : e.tx = u
                 PROVE  \E d \in Calls : call'[d].pc \in AfterPrepare /\ call'[d].tx = u
      BY <1>1 DEF Followed
    <2>1. CASE txs[u].st \in {"afloat", "landed"}
      <3>1. PICK d \in Calls : call[d].pc \in AfterPrepare /\ call[d].tx = u
        BY <2>1 DEF QInv, Followed
      <3> QED BY <3>1 DEF AfterPrepare
    <2>2. CASE txs[u].st \notin {"afloat", "landed"}
      BY <1>1, <2>2 DEF AfterPrepare
    <2> QED BY <2>1, <2>2
  <1> QED BY <1>2, <1>3, <1>4, <1>5, <1>6, <1>7 DEF QInv, Q!PredictionsAssumption

LEMMA SendKeepsBets == ASSUME QInv, NEW c \in Calls, Q!Send(c) PROVE QInv'
  <1>0. PICK t \in DOMAIN txs : t = call[c].tx
    BY DEF Q!Send, QInv, TxInHand, AfterPrepare
  <1> DEFINE v == [call[c] EXCEPT !.pc = "confirm"]
             st == IF txs[t].st = "made" THEN "afloat" ELSE txs[t].st
  <1>1. /\ call[c].pc = "send" /\ call' = [call EXCEPT ![c] = v] /\ UNCHANGED <<asked, held, log, faults>>
        /\ txs' = [txs EXCEPT ![t].st = st]
    BY <1>0 DEF Q!Send, Q!Goto
  <1>2. /\ v \in BetCallType /\ v.pc = "confirm" /\ v.tx = t /\ v.req = call[c].req /\ v.kind = call[c].kind
        /\ st \in {"made", "afloat", "landed", "failed", "dropped"} /\ (txs[t].st = "landed" => st = "landed")
    BY <1>0, BetNumbers DEF BetCallType, BetTxType
  <1> HIDE DEF v, st
  <1>3. call' \in [Calls -> BetCallType] /\ call'[c] = v /\ \A d \in Calls \ {c} : call'[d] = call[d]
    BY <1>1, <1>2 DEF QInv, BetTypes
  <1>4. held' \in BOOLEAN
    BY <1>1 DEF QInv, BetTypes
  <1> QED BY <1>0, <1>1, <1>2, <1>3, <1>4, TxKeepsBets

LEMMA LandKeepsBets == ASSUME QInv, NEW t \in DOMAIN txs, Q!Land(t) PROVE QInv'
  <1>1. txs[t].st = "afloat" /\ UNCHANGED <<asked, call, log, faults>> /\ held' \in BOOLEAN
    BY DEF Q!Land, QInv, BetTypes
  <1>2. PICK st \in {"landed", "failed", "dropped"} : txs' = [txs EXCEPT ![t].st = st]
    BY DEF Q!Land
  <1>3. call' \in [Calls -> BetCallType] /\ \A c \in Calls : call'[c] = call[c]
    BY <1>1 DEF QInv, BetTypes
  <1> QED BY <1>1, <1>2, <1>3, TxKeepsBets

LEMMA FaultCounts == ASSUME QInv, Q!Fault PROVE faults' \in 0..MaxFaults /\ faults' # 0
  BY BetNumbers DEF Q!Fault

LEMMA SendThrowsKeepsBets == ASSUME QInv, NEW c \in Calls, Q!SendThrows(c) PROVE QInv'
  <1>1. Q!Throw(c) /\ UNCHANGED <<asked, txs, held, log>>
    BY DEF Q!SendThrows
  <1>2. CASE txs[call[c].tx].st = "made" /\ UNCHANGED faults
    <2>1. faults' \in 0..MaxFaults
      BY <1>2 DEF QInv, BetTypes
    <2> QED BY <1>1, <1>2, <2>1, QuietKeepsBets
  <1>3. CASE Q!Fault
    BY <1>1, <1>3, FaultCounts, QuietKeepsBets
  <1> QED BY <1>2, <1>3 DEF Q!SendThrows

LEMMA EndpointKeepsBets == ASSUME QInv, NEW c \in Calls, Q!NextEndpoint(c) PROVE QInv'
  <1> DEFINE v == [call[c] EXCEPT !.pc = "send", !.left = @ - 1]
  <1>1. /\ call[c].pc \in {"send", "confirm"} /\ call[c].left > 1 /\ call' = [call EXCEPT ![c] = v]
        /\ UNCHANGED <<asked, txs, held, log, faults>>
    BY DEF Q!NextEndpoint
  <1>2. call[c] \in BetCallType /\ call[c].left - 1 \in 0..Endpoints
    <2>1. call[c] \in BetCallType
      BY BetNumbers
    <2>2. call[c].left \in 0..Endpoints
      BY <2>1 DEF BetCallType
    <2>3. Endpoints \in Nat
      BY BetNumbers
    <2>4. call[c].left - 1 \in 0..Endpoints
      BY <1>1, <2>2, <2>3
    <2> QED BY <2>1, <2>4
  <1>3. /\ v \in BetCallType /\ v.pc = "send" /\ v.req = call[c].req /\ v.kind = call[c].kind /\ v.tx = call[c].tx
    BY <1>2 DEF BetCallType
  <1>4. faults' \in 0..MaxFaults
    BY <1>1 DEF QInv, BetTypes
  <1> HIDE DEF v
  <1> QED BY <1>1, <1>3, <1>4, MoveKeepsBets DEF AfterPrepare

LEMMA ConfirmKeepsBets == ASSUME QInv, NEW c \in Calls, Q!Confirm(c) PROVE QInv'
  <1>1. call[c].pc = "confirm" /\ UNCHANGED <<asked, txs, held, log>>
    BY DEF Q!Confirm
  <1>2. ASSUME UNCHANGED faults PROVE faults' \in 0..MaxFaults
    BY <1>2 DEF QInv, BetTypes
  <1>3. CASE txs[call[c].tx].st = "landed" /\ Q!Goto(c, "log") /\ UNCHANGED faults
    <2> DEFINE v == [call[c] EXCEPT !.pc = "log"]
    <2>1. call' = [call EXCEPT ![c] = v]
      BY <1>3 DEF Q!Goto
    <2>2. v \in BetCallType /\ v.pc = "log" /\ v.req = call[c].req /\ v.kind = call[c].kind /\ v.tx = call[c].tx
      BY BetNumbers DEF BetCallType
    <2> HIDE DEF v
    <2> QED BY <1>1, <1>2, <1>3, <2>1, <2>2, MoveKeepsBets DEF AfterPrepare
  <1>4. CASE txs[call[c].tx].st \in {"failed", "dropped"} /\ Q!Throw(c) /\ UNCHANGED faults
    BY <1>1, <1>2, <1>4, QuietKeepsBets
  <1>5. CASE Q!Fault /\ Q!Throw(c)
    BY <1>1, <1>5, FaultCounts, QuietKeepsBets
  <1> QED BY <1>3, <1>4, <1>5 DEF Q!Confirm

LEMMA LogKeepsBets == ASSUME QInv, NEW c \in Calls, Q!LogEvent(c) PROVE QInv'
  <1>1. call[c].pc = "log" /\ Q!Throw(c) /\ UNCHANGED <<asked, txs, held>>
    BY DEF Q!LogEvent
  <1>2. CASE Q!Fault /\ UNCHANGED log
    BY <1>1, <1>2, FaultCounts, QuietKeepsBets
  <1>3. CASE log' = log \union {[tx |-> call[c].tx, action |-> call[c].kind]} /\ UNCHANGED faults
    <2>1. call' = [call EXCEPT ![c] = Q!Quiet]
      BY <1>1 DEF Q!Throw
    <2>2. /\ call[c].tx \in DOMAIN txs /\ txs[call[c].tx].st = "landed" /\ txs[call[c].tx].kind = call[c].kind
      BY <1>1 DEF QInv, TxInHand, AfterPrepare
    <2> DEFINE event == [tx |-> call[c].tx, action |-> call[c].kind]
    <2>3. /\ event \in [tx : Nat, action : Q!Kinds] /\ event.tx = call[c].tx /\ event.action = call[c].kind
          /\ log' = log \union {event}
      BY <1>3, BetNumbers DEF BetCallType
    <2>4. faults' \in 0..MaxFaults
      BY <1>3 DEF QInv, BetTypes
    <2> HIDE DEF event
    <2>5. /\ \A e \in log' \ log : e = event
          /\ event \in log' /\ log \subseteq log'
      BY <2>3
    <2>6. Q!Quiet \in BetCallType /\ Q!Quiet.pc = "idle" /\ Q!Quiet.tx = 0
      BY BetNumbers
    <2> QED BY <1>1, <1>3, <2>1, <2>2, <2>3, <2>4, <2>5, <2>6, MoveKeepsBets DEF AfterPrepare
  <1> QED BY <1>2, <1>3 DEF Q!LogEvent

LEMMA RestartKeepsBets == ASSUME QInv, Q!Restart PROVE QInv'
  <1>1. call' = [c \in Calls |-> Q!Quiet] /\ UNCHANGED <<asked, txs, held, log>> /\ Q!Fault
    BY DEF Q!Restart
  <1>2. faults' \in 0..MaxFaults /\ faults' # 0
    BY <1>1, FaultCounts
  <1>3. call' \in [Calls -> BetCallType] /\ \A c \in Calls : call'[c].pc = "idle" /\ call'[c].tx = 0
    BY <1>1, BetNumbers
  <1> QED BY <1>1, <1>2, <1>3 DEF QInv, BetTypes, CallsApart, TxsApart, TxInHand, LogSound, Followed, AfterPrepare,
                                  Q!PredictionsAssumption

LEMMA QInvInductive == QInv /\ [Q!Next]_(Q!predictVars) => QInv'
  <1> SUFFICES ASSUME QInv, [Q!Next]_(Q!predictVars) PROVE QInv'
    OBVIOUS
  <1>1. CASE UNCHANGED Q!predictVars
    BY <1>1 DEF Q!predictVars, QInv, BetTypes, CallsApart, TxsApart, TxInHand, LogSound, Followed,
                Q!PredictionsAssumption
  <1> QED BY <1>1, RequestKeepsBets, PrepareKeepsBets, NoLiquidityKeepsBets, ApiThrowsKeepsBets, SendKeepsBets,
             SendThrowsKeepsBets, EndpointKeepsBets, ConfirmKeepsBets, LogKeepsBets, LandKeepsBets,
             RestartKeepsBets DEF Q!Next

LEMMA InitQInv == Q!PredictionsAssumption /\ Q!Init => QInv
  <1> SUFFICES ASSUME Q!PredictionsAssumption, Q!Init PROVE QInv
    OBVIOUS
  <1>1. Q!Quiet \in BetCallType /\ Q!Quiet.pc = "idle" /\ Q!Quiet.tx = 0
    BY DEF Q!PredictionsAssumption, Q!Quiet, BetCallType, Q!Kinds
  <1>2. BetTypes
    BY <1>1 DEF Q!PredictionsAssumption, Q!Init, BetTypes
  <1> QED BY <1>1, <1>2 DEF Q!Init, QInv, CallsApart, TxsApart, TxInHand, LogSound, Followed, AfterPrepare

\* The calls, the transactions and the log are always well typed.
THEOREM BetsTypeCorrect == Q!PredictionsAssumption /\ Q!Spec => []Q!TypeOK
  <1>1. QInv => Q!TypeOK
    <2> SUFFICES ASSUME QInv PROVE Q!TypeOK
      OBVIOUS
    <2>1. \A c \in Calls : call[c] \in BetCallType /\ call[c].tx \in 0..Len(txs)
      BY BetNumbers DEF QInv, TxInHand
    <2>2. \A t \in DOMAIN txs : txs[t].st \in {"made", "afloat", "landed", "failed", "dropped"}
      BY BetNumbers DEF BetTxType
    <2> QED BY <2>1, <2>2 DEF QInv, BetTypes, BetCallType, Q!TypeOK
  <1> QED BY <1>1, InitQInv, QInvInductive, PTL DEF Q!Spec

\* What the invariant says of the requests: the transactions of one request
\* are at most one.
LEMMA QInvSent == QInv => Q!SentOnce
  <1> SUFFICES ASSUME QInv, NEW r \in 1..asked
               PROVE  Q!Cardinality({t \in DOMAIN txs : txs[t].by = r /\ txs[t].st \in {"afloat", "landed"}}) <= 1
    BY DEF Q!SentOnce
  <1> DEFINE S == {t \in DOMAIN txs : txs[t].by = r /\ txs[t].st \in {"afloat", "landed"}}
  <1>1. Q!Cardinality(S) = Cardinality(S)
    BY DEF Q!Cardinality, Cardinality
  <1>2. CASE S = {}
    BY <1>1, <1>2, FS_EmptySet
  <1>3. ASSUME NEW t \in S PROVE Cardinality(S) = 1
    <2>1. S = {t}
      BY <1>3 DEF QInv, TxsApart
    <2> QED BY <2>1, FS_Singleton
  <1> QED BY <1>1, <1>2, <1>3

\* jupiterPredictionService.ts:336-366, 593-693: for any number of requests,
\* endpoints, tries and failures, one request sends one transaction at most.
THEOREM RequestsSendOnce == Q!PredictionsAssumption /\ Q!Spec => []Q!SentOnce
  BY QInvSent, InitQInv, QInvInductive, PTL DEF Q!Spec

\* The history with signatures has one entry per transaction that landed.
LEMMA HistoryOfLanded ==
    ASSUME QInv
    PROVE  Q!Cardinality(Q!History(TRUE)) = Q!Cardinality(Q!Landed)
  <1> DEFINE key(t) == <<<<"sig", t>>, txs[t].kind>>
             K == {key(t) : t \in Q!Landed}
  <1>1. Q!Landed \subseteq DOMAIN txs /\ IsFiniteSet(Q!Landed) /\ 0 \notin Q!Landed
    <2>1. Q!Landed \subseteq 1..Len(txs) /\ Len(txs) \in Nat
      BY BetNumbers DEF Q!Landed
    <2>2. IsFiniteSet(1..Len(txs))
      BY <2>1, FS_Interval
    <2>3. IsFiniteSet(Q!Landed)
      BY <2>1, <2>2, FS_Subset
    <2> QED BY <2>1, <2>3, BetNumbers
  <1>2. Q!History(TRUE) = K
    <2>1. Q!HistoryKeys(Q!ApiEvents(TRUE) \union Q!DbEvents)
            = Q!HistoryKeys(Q!ApiEvents(TRUE)) \union Q!HistoryKeys(Q!DbEvents)
      BY DEF Q!HistoryKeys
    <2>2. Q!HistoryKeys(Q!ApiEvents(TRUE)) = K
      <3> DEFINE ev(t) == [id |-> <<"jup", t>>, sig |-> t, action |-> txs[t].kind]
                 entry(e) == <<IF e.sig # 0 THEN <<"sig", e.sig>> ELSE e.id, e.action>>
      <3>1. Q!ApiEvents(TRUE) = {ev(t) : t \in Q!Landed}
        BY DEF Q!ApiEvents
      <3>2. \A t \in Q!Landed : entry(ev(t)) = key(t)
        BY <1>1
      <3>3. Q!HistoryKeys({ev(t) : t \in Q!Landed}) = {entry(e) : e \in {ev(t) : t \in Q!Landed}}
        BY DEF Q!HistoryKeys
      <3>4. {entry(e) : e \in {ev(t) : t \in Q!Landed}} = {entry(ev(t)) : t \in Q!Landed}
        <4> HIDE DEF ev, entry
        <4> QED OBVIOUS
      <3>5. {entry(ev(t)) : t \in Q!Landed} = K
        <4> HIDE DEF ev, entry, key
        <4> QED BY <3>2
      <3> QED BY <3>1, <3>3, <3>4, <3>5, Zenon
    <2>3. ASSUME NEW e \in log PROVE e.tx \in Q!Landed /\ e.action = txs[e.tx].kind
      BY DEF QInv, LogSound, Q!Landed
    <2>4. Q!HistoryKeys(Q!DbEvents) \subseteq K
      BY <1>1, <2>3 DEF Q!HistoryKeys, Q!DbEvents
    <2> QED BY <2>1, <2>2, <2>4 DEF Q!History
  <1>3. ExistsBijection(Q!Landed, K)
    <2> DEFINE f == [t \in Q!Landed |-> key(t)]
    <2>1. \A t, u \in Q!Landed : key(t) = key(u) => t = u
      OBVIOUS
    <2>2. f \in Bijection(Q!Landed, K)
      BY <2>1 DEF Bijection, Injection, Surjection, IsInjective
    <2> QED BY <2>2 DEF ExistsBijection
  <1>4. Cardinality(K) = Cardinality(Q!Landed)
    <2> HIDE DEF K
    <2> QED BY <1>1, <1>3, FS_Bijection
  <1>5. Q!Cardinality(K) = Cardinality(K) /\ Q!Cardinality(Q!Landed) = Cardinality(Q!Landed)
    BY DEF Q!Cardinality, Cardinality
  <1> QED BY <1>2, <1>4, <1>5

\* What the invariant says of the log.
LEMMA QInvLog == QInv => Q!LogIsTrue
  <1> SUFFICES ASSUME QInv PROVE Q!LogIsTrue
    OBVIOUS
  <1>1. \A e \in log : txs[e.tx].st = "landed" /\ txs[e.tx].kind = e.action
    BY DEF QInv, LogSound
  <1>2. ASSUME faults = 0, \A c \in Calls : call[c].pc = "idle" PROVE Q!Landed = {e.tx : e \in log}
    <2>1. \A t \in Q!Landed : \E e \in log : e.tx = t
      BY <1>2 DEF QInv, Followed, Q!Landed, AfterPrepare
    <2>2. \A e \in log : e.tx \in Q!Landed
      BY DEF QInv, LogSound, Q!Landed
    <2> QED BY <2>1, <2>2
  <1> QED BY <1>1, <1>2, HistoryOfLanded DEF Q!LogIsTrue

\* jupiterPredictionService.ts:297-334, 524-755: for any number of requests
\* and failures, a logged event is of a transaction that landed and names
\* what it did; without failures each one that landed is logged; and the
\* history shows each bet once.
THEOREM LogStaysTrue == Q!PredictionsAssumption /\ Q!Spec => []Q!LogIsTrue
  BY QInvLog, InitQInv, QInvInductive, PTL DEF Q!Spec

-----------------------------------------------------------------------------
(* PaperBot *)

PaperPcs ==
    {"idle", "look", "open", "opened", "find", "update", "book", "flat", "each", "drop", "probe", "lost"}
PaperNext == {"idle", "look", "each", "drop", "probe", "lost"}
PaperActType == [pc : PaperPcs, trade : 0..MaxTrades, then : PaperNext]
PaperRowType == [state : {"none", "open", "closed"}, booked : Nat]

\* The actors that found a trade open and have not booked its PnL yet.
Closing(t) == {a \in Actors : act[a].pc \in {"update", "book"} /\ act[a].trade = t}

PaperRest ==
    /\ engine \in Engines /\ listed \in BOOLEAN /\ ticking \in BOOLEAN /\ current \in 0..MaxTrades
    /\ overlap \in BOOLEAN /\ raced \in BOOLEAN /\ died \in BOOLEAN
PaperTypes ==
    /\ trades \in [P!Rows -> PaperRowType] /\ act \in [Actors -> PaperActType]
    /\ \A a \in Actors : act[a].pc \in {"opened", "find", "update", "book"} => act[a].trade \in P!Rows

\* A trade is booked by those who found it open, which nobody does once one of
\* them has closed it.
Booked ==
    \A t \in P!Rows :
       /\ trades[t].booked > 0 => trades[t].state = "closed"
       /\ \A a \in Closing(t) : act[a].pc = "book" => trades[t].state = "closed"
       /\ trades[t].booked + Cardinality(Closing(t)) <= Cardinality(Actors)
       /\ ~raced => trades[t].booked + Cardinality(Closing(t)) <= 1
       /\ trades[t].state = "closed" /\ ~died =>
             trades[t].booked > 0 \/ \E a \in Closing(t) : act[a].pc = "book"

\* The inductive invariant.
PInv == P!PaperAssumption /\ PaperRest /\ PaperTypes /\ Booked

\* A step of actor a leaves the others where they are.
PaperMoved(a) == act' \in [Actors -> PaperActType] /\ \A b \in Actors \ {a} : act'[b] = act[b]

-----------------------------------------------------------------------------

LEMMA PaperNumbers ==
    ASSUME PInv
    PROVE  /\ MaxTrades \in Nat \ {0} /\ IsFiniteSet(Actors) /\ Cardinality(Actors) \in Nat
           /\ P!Rows \subseteq Nat \ {0} /\ 0 \notin P!Rows /\ P!Rows \union {0} = 0..MaxTrades
           /\ trades \in [P!Rows -> PaperRowType] /\ act \in [Actors -> PaperActType]
           /\ P!Calm \in PaperActType /\ P!Calm.pc = "idle" /\ P!Calm.then = "idle" /\ P!Calm.trade = 0
           /\ \A t \in P!Rows : Closing(t) \in SUBSET Actors /\ Cardinality(Closing(t)) \in Nat
  <1>1. MaxTrades \in Nat \ {0} /\ IsFiniteSet(Actors)
    BY DEF PInv, P!PaperAssumption, P!IsFiniteSet, IsFiniteSet
  <1>2. P!Rows \subseteq Nat \ {0} /\ 0 \notin P!Rows /\ P!Rows \union {0} = 0..MaxTrades
    BY <1>1 DEF P!Rows
  <1>3. P!Calm \in PaperActType /\ P!Calm.pc = "idle" /\ P!Calm.then = "idle" /\ P!Calm.trade = 0
    BY <1>2 DEF P!Calm, PaperActType, PaperPcs, PaperNext
  <1>4. \A t : Closing(t) \in SUBSET Actors /\ Cardinality(Closing(t)) \in Nat
    <2> SUFFICES ASSUME NEW t PROVE Closing(t) \in SUBSET Actors /\ Cardinality(Closing(t)) \in Nat
      OBVIOUS
    <2>1. Closing(t) \in SUBSET Actors
      BY DEF Closing
    <2> QED BY <1>1, <2>1, FS_Subset, FS_CardinalityType
  <1>5. Cardinality(Actors) \in Nat
    BY <1>1, FS_CardinalityType
  <1> QED BY <1>1, <1>2, <1>3, <1>4, <1>5 DEF PInv, PaperTypes

\* The ways an actor moves on.
LEMMA GotoMoves ==
    ASSUME PInv, NEW a \in Actors, NEW x \in PaperPcs, P!Goto(a, x)
    PROVE  PaperMoved(a) /\ act'[a].pc = x /\ act'[a].trade = act[a].trade /\ act'[a].then = act[a].then
  BY PaperNumbers DEF P!Goto, PaperActType, PaperMoved

LEMMA FinishMoves ==
    ASSUME PInv, NEW a \in Actors, P!Finish(a)
    PROVE  PaperMoved(a) /\ act'[a].pc = "idle"
  BY PaperNumbers DEF P!Finish, PaperMoved

LEMMA ContinueMoves ==
    ASSUME PInv, NEW a \in Actors, P!Continue(a)
    PROVE  /\ PaperMoved(a) /\ act'[a].pc = act[a].then /\ act[a].then \in PaperNext
           /\ act[a].then # "idle" => act'[a].then = act[a].then
  <1>1. act[a].then \in PaperPcs /\ act[a].then \in PaperNext
    BY PaperNumbers DEF PaperActType, PaperPcs, PaperNext
  <1> QED BY <1>1, GotoMoves, FinishMoves DEF P!Continue

LEMMA BeginMoves ==
    ASSUME PInv, NEW a \in Actors, NEW x \in PaperPcs, NEW y \in PaperNext, P!Begin(a, x, y)
    PROVE  /\ PaperMoved(a) /\ act[a].pc = "idle" /\ act'[a].pc = x /\ act'[a].then = y
           /\ overlap' \in BOOLEAN
           /\ ~overlap' => ~overlap /\ \A b \in Actors \ {a} : act[b].pc = "idle"
  <1> DEFINE v == [P!Calm EXCEPT !.pc = x, !.then = y]
  <1>1. v \in PaperActType /\ v.pc = x /\ v.then = y
    BY PaperNumbers DEF PaperActType
  <1>2. act[a].pc = "idle" /\ act' = [act EXCEPT ![a] = v]
    BY DEF P!Begin, P!Idle
  <1> HIDE DEF v
  <1>3. PaperMoved(a) /\ act'[a].pc = x /\ act'[a].then = y
    BY <1>1, <1>2, PaperNumbers DEF PaperMoved
  <1>4. overlap' = (overlap \/ \E b \in Actors \ {a} : act[b].pc # "idle")
    BY DEF P!Begin, P!Overlaps, P!Idle
  <1> QED BY <1>2, <1>3, <1>4 DEF PInv, PaperRest

\* A step that closes no trade and books none: the actor leaves, and comes to,
\* no place where it counts.
LEMMA CalmKeepsBooks ==
    ASSUME PInv, NEW a \in Actors, PaperMoved(a), UNCHANGED trades, PaperRest',
           raced => raced', died => died',
           act[a].pc \notin {"update", "book"}, act'[a].pc \notin {"update", "book"},
           act'[a].pc \in {"opened", "find"} => act'[a].trade \in P!Rows
    PROVE  PInv'
  <1>1. \A t \in P!Rows : Closing(t)' = Closing(t)
    BY DEF Closing, PaperMoved
  <1>2. \A t \in P!Rows : \A b \in Closing(t) : act'[b] = act[b]
    BY DEF Closing, PaperMoved
  <1>3. Booked'
    BY <1>1, <1>2 DEF PInv, Booked
  <1>4. PaperTypes'
    BY DEF PInv, PaperTypes, PaperMoved
  <1> QED BY <1>3, <1>4 DEF PInv, P!PaperAssumption

LEMMA PaperRestKept == ASSUME PInv, P!Next PROVE PaperRest' /\ (raced => raced') /\ (died => died')
  <1>1. CASE P!Restart
    BY <1>1, PaperNumbers DEF P!Restart, PInv, PaperRest
  <1>2. ASSUME NEW a \in Actors, P!StartAdvanced(a) \/ P!StartTimer(a) \/ P!BeginTick(a)
        PROVE  PaperRest' /\ (raced => raced') /\ (died => died')
    BY <1>2, PaperNumbers DEF P!StartAdvanced, P!StartTimer, P!BeginTick, P!Begin, P!Overlaps, PInv, PaperRest
  <1>3. ASSUME NEW a \in Actors, P!StopAdvanced(a) \/ P!StopTimer(a) \/ P!DropBot(a)
        PROVE  PaperRest' /\ (raced => raced') /\ (died => died')
    BY <1>3, PaperNumbers DEF P!StopAdvanced, P!StopTimer, P!Begin, P!Overlaps, P!DropBot, PInv, PaperRest
  <1>4. ASSUME NEW a \in Actors, P!SetLong(a) \/ P!SetFlat(a)
        PROVE  PaperRest' /\ (raced => raced') /\ (died => died')
    BY <1>4, PaperNumbers DEF P!SetLong, P!SetFlat, PaperActType, PInv, PaperRest
  <1>5. ASSUME NEW a \in Actors, P!FindOpen(a)
        PROVE  PaperRest' /\ (raced => raced') /\ (died => died')
    BY <1>5 DEF P!FindOpen, P!Race, PInv, PaperRest
  <1>6. ASSUME NEW a \in Actors,
               \/ P!Look(a) \/ P!LookAtRows(a) \/ P!OpenTrade(a) \/ P!ProbeOpened(a)
               \/ P!CloseRow(a) \/ P!BookPnl(a) \/ P!CloseEach(a)
        PROVE  PaperRest' /\ (raced => raced') /\ (died => died')
    BY <1>6 DEF P!Look, P!LookAtRows, P!OpenTrade, P!ProbeOpened, P!CloseRow, P!BookPnl, P!CloseEach, PInv, PaperRest
  <1> QED BY <1>1, <1>2, <1>3, <1>4, <1>5, <1>6 DEF P!Next

\* The least of a set of rows is one of them.
LEMMA LeastTrade ==
    ASSUME PInv, NEW S \in SUBSET P!Rows, S # {}
    PROVE  P!Min(S) \in S
  <1>0. S \subseteq Nat
    BY PaperNumbers
  <1>1. PICK x \in S : \A y \in S : ~(<<y, x>> \in OpToRel(<, Nat))
    BY <1>0, NatLessThanWellFounded, WFMin, Zenon
  <1>2. ASSUME NEW y \in S PROVE x <= y
    <2>1. CASE y < x
      <3>1. <<y, x>> \in OpToRel(<, Nat)
        BY <1>0, <2>1 DEF OpToRel
      <3> QED BY <1>1, <3>1
    <2> QED BY <1>0, <2>1
  <1> QED BY <1>2 DEF P!Min

-----------------------------------------------------------------------------
(* The steps that neither close nor book *)

LEMMA BeginKeepsBooks ==
    ASSUME PInv, P!Next, NEW a \in Actors, NEW x \in {"look", "open", "drop", "each"}, NEW y \in PaperNext,
           P!Begin(a, x, y), UNCHANGED trades
    PROVE  PInv'
  <1>1. x \in PaperPcs
    BY DEF PaperPcs
  <1> QED BY <1>1, BeginMoves, CalmKeepsBooks, PaperRestKept

LEMMA GotoKeepsBooks ==
    ASSUME PInv, P!Next, NEW a \in Actors, NEW x \in {"look", "open", "drop", "flat"},
           P!Goto(a, x), UNCHANGED trades, act[a].pc \notin {"update", "book"}
    PROVE  PInv'
  <1>1. x \in PaperPcs
    BY DEF PaperPcs
  <1> QED BY <1>1, GotoMoves, CalmKeepsBooks, PaperRestKept

LEMMA FinishKeepsBooks ==
    ASSUME PInv, P!Next, NEW a \in Actors, P!Finish(a), UNCHANGED trades, act[a].pc \notin {"update", "book"}
    PROVE  PInv'
  BY FinishMoves, CalmKeepsBooks, PaperRestKept

LEMMA ContinueKeepsBooks ==
    ASSUME PInv, P!Next, NEW a \in Actors, P!Continue(a), UNCHANGED trades, act[a].pc \notin {"update", "book"}
    PROVE  PInv'
  BY ContinueMoves, CalmKeepsBooks, PaperRestKept DEF PaperNext

LEMMA StartsKeepBooks ==
    ASSUME PInv, P!Next, NEW a \in Actors, P!StartTimer(a) \/ P!BeginTick(a) \/ P!StopTimer(a)
    PROVE  PInv'
  <1>1. {"idle", "probe", "drop"} \subseteq PaperNext
    BY DEF PaperNext
  <1> QED BY <1>1, BeginKeepsBooks DEF P!StartTimer, P!BeginTick, P!StopTimer

\* A new bot: whoever was under way goes on with the state of the old one.
LEMMA StartAdvancedKeepsBooks == ASSUME PInv, P!Next, NEW a \in Actors, P!StartAdvanced(a) PROVE PInv'
  <1> DEFINE v == [P!Calm EXCEPT !.pc = "look"]
             w(b) == IF b = a THEN v ELSE IF P!Idle(b) THEN act[b] ELSE [act[b] EXCEPT !.then = "lost"]
  <1>1. act[a].pc = "idle" /\ UNCHANGED <<trades, raced, died>> /\ act' = [b \in Actors |-> w(b)]
    BY DEF P!StartAdvanced, P!Idle
  <1>2. v \in PaperActType /\ v.pc = "look"
    BY PaperNumbers DEF PaperActType, PaperPcs
  <1>3. ASSUME NEW b \in Actors, b # a
        PROVE  w(b) \in PaperActType /\ w(b).pc = act[b].pc /\ w(b).trade = act[b].trade
    BY <1>3, PaperNumbers DEF PaperActType, PaperNext
  <1>4. w(a) = v
    OBVIOUS
  <1> HIDE DEF v, w
  <1>5. /\ act' \in [Actors -> PaperActType] /\ act'[a].pc = "look"
        /\ \A b \in Actors : b # a => act'[b].pc = act[b].pc /\ act'[b].trade = act[b].trade
    BY <1>1, <1>2, <1>3, <1>4
  <1>6. \A t \in P!Rows : Closing(t)' = Closing(t)
    BY <1>1, <1>5 DEF Closing
  <1>7. \A t \in P!Rows : \A b \in Closing(t) : act'[b].pc = act[b].pc
    BY <1>1, <1>5 DEF Closing
  <1>8. Booked'
    BY <1>1, <1>6, <1>7 DEF PInv, Booked
  <1>9. PaperTypes'
    BY <1>1, <1>5 DEF PInv, PaperTypes
  <1> QED BY <1>8, <1>9, PaperRestKept DEF PInv, P!PaperAssumption

LEMMA StopAdvancedKeepsBooks == ASSUME PInv, P!Next, NEW a \in Actors, P!StopAdvanced(a) PROVE PInv'
  <1> DEFINE v == [pc |-> IF current = 0 THEN "drop" ELSE "find", trade |-> current, then |-> "drop"]
  <1>1. current \in 0..MaxTrades /\ (current # 0 => current \in P!Rows)
    BY PaperNumbers DEF PInv, PaperRest
  <1>2. v \in PaperActType /\ v.pc \in {"drop", "find"} /\ (v.pc = "find" => v.trade \in P!Rows)
    BY <1>1 DEF PaperActType, PaperPcs, PaperNext
  <1>3. act' = [act EXCEPT ![a] = v] /\ act[a].pc = "idle" /\ UNCHANGED trades
    BY DEF P!StopAdvanced, P!Idle
  <1> HIDE DEF v
  <1>4. PaperMoved(a) /\ act'[a] = v
    BY <1>2, <1>3, PaperNumbers DEF PaperMoved
  <1> QED BY <1>2, <1>3, <1>4, CalmKeepsBooks, PaperRestKept

LEMMA LooksKeepBooks ==
    ASSUME PInv, P!Next, NEW a \in Actors, P!Look(a) \/ P!LookAtRows(a) PROVE PInv'
  <1>1. CASE P!Look(a)
    BY <1>1, FinishKeepsBooks, GotoKeepsBooks DEF P!Look
  <1>2. CASE P!LookAtRows(a)
    <2>1. act[a].pc = "look" /\ UNCHANGED trades
      BY <1>2 DEF P!LookAtRows
    <2>2. CASE P!OpenRows # {} /\ act' = [act EXCEPT ![a].pc = "find", ![a].trade = P!Min(P!OpenRows)]
      <3>1. PICK t \in P!Rows : t = P!Min(P!OpenRows)
        <4>1. P!OpenRows \in SUBSET P!Rows
          BY DEF P!OpenRows
        <4> QED BY <2>2, <4>1, LeastTrade
      <3> DEFINE v == [act[a] EXCEPT !.pc = "find", !.trade = t]
      <3>2. act' = [act EXCEPT ![a] = v]
        BY <2>2, <3>1
      <3>3. v \in PaperActType /\ v.pc = "find" /\ v.trade = t
        BY PaperNumbers DEF PaperActType, PaperPcs
      <3> HIDE DEF v
      <3>4. PaperMoved(a) /\ act'[a] = v
        BY <3>2, <3>3, PaperNumbers DEF PaperMoved
      <3> QED BY <2>1, <3>3, <3>4, CalmKeepsBooks, PaperRestKept
    <2> QED BY <1>2, <2>1, <2>2, FinishKeepsBooks, GotoKeepsBooks DEF P!LookAtRows
  <1> QED BY <1>1, <1>2

LEMMA StepsKeepBooks ==
    ASSUME PInv, P!Next, NEW a \in Actors,
           P!SetLong(a) \/ P!ProbeOpened(a) \/ P!SetFlat(a) \/ P!DropBot(a) \/ P!CloseEach(a)
    PROVE  PInv'
  <1>0. {"look", "each"} \subseteq PaperNext
    BY DEF PaperNext
  <1>1. CASE P!SetLong(a) \/ P!DropBot(a)
    BY <1>1, FinishKeepsBooks DEF P!SetLong, P!DropBot
  <1>2. CASE P!ProbeOpened(a)
    <2> DEFINE v == [act[a] EXCEPT !.pc = "find", !.then = "look"]
    <2>1. v \in PaperActType /\ v.pc = "find" /\ v.trade = act[a].trade
      BY PaperNumbers DEF PaperActType, PaperPcs, PaperNext
    <2>2. act' = [act EXCEPT ![a] = v] /\ act[a].pc = "opened" /\ UNCHANGED trades
      BY <1>2 DEF P!ProbeOpened
    <2> HIDE DEF v
    <2>3. PaperMoved(a) /\ act'[a] = v
      BY <2>1, <2>2, PaperNumbers DEF PaperMoved
    <2>4. act[a].trade \in P!Rows
      BY <2>2 DEF PInv, PaperTypes
    <2> QED BY <2>1, <2>2, <2>3, <2>4, CalmKeepsBooks, PaperRestKept
  <1>3. CASE P!SetFlat(a)
    BY <1>3, ContinueKeepsBooks DEF P!SetFlat
  <1>4. CASE P!CloseEach(a)
    <2>1. ASSUME NEW t \in P!OpenRows, act' = [act EXCEPT ![a].pc = "find", ![a].trade = t, ![a].then = "each"]
          PROVE  PInv'
      <3> DEFINE v == [act[a] EXCEPT !.pc = "find", !.trade = t, !.then = "each"]
      <3>1. t \in P!Rows /\ act[a].pc = "each" /\ UNCHANGED trades
        BY <1>4 DEF P!OpenRows, P!CloseEach
      <3>2. v \in PaperActType /\ v.pc = "find" /\ v.trade = t
        BY <1>0, <3>1, PaperNumbers DEF PaperActType, PaperPcs
      <3>3. act' = [act EXCEPT ![a] = v]
        BY <2>1
      <3> HIDE DEF v
      <3>4. PaperMoved(a) /\ act'[a] = v
        BY <3>2, <3>3, PaperNumbers DEF PaperMoved
      <3> QED BY <3>1, <3>2, <3>4, CalmKeepsBooks, PaperRestKept
    <2> QED BY <1>4, <2>1, GotoKeepsBooks DEF P!CloseEach
  <1> QED BY <1>1, <1>2, <1>3, <1>4

-----------------------------------------------------------------------------
(* The steps that open, close and book *)

\* What the books say of one row.
RowBooked(t) ==
    /\ trades[t].booked > 0 => trades[t].state = "closed"
    /\ \A a \in Closing(t) : act[a].pc = "book" => trades[t].state = "closed"
    /\ trades[t].booked + Cardinality(Closing(t)) <= Cardinality(Actors)
    /\ ~raced => trades[t].booked + Cardinality(Closing(t)) <= 1
    /\ trades[t].state = "closed" /\ ~died =>
          trades[t].booked > 0 \/ \E a \in Closing(t) : act[a].pc = "book"

\* A step of an actor on a row leaves the other rows as they were.
LEMMA OtherRowsKept ==
    ASSUME PInv, NEW a \in Actors, NEW t \in P!Rows, PaperMoved(a), raced => raced', died => died',
           act[a].pc \in {"update", "book"} => act[a].trade = t,
           act'[a].pc \in {"update", "book"} => act'[a].trade = t,
           NEW u \in P!Rows, u # t, trades'[u] = trades[u]
    PROVE  RowBooked(u)'
  <1>1. Closing(u)' = Closing(u)
    BY DEF Closing, PaperMoved
  <1>2. \A b \in Closing(u) : act'[b] = act[b]
    BY DEF Closing, PaperMoved
  <1>3. RowBooked(u)
    BY DEF PInv, Booked, RowBooked
  <1> QED BY <1>1, <1>2, <1>3 DEF RowBooked

\* It remains to look at the row itself.
LEMMA RowKeepsBooks ==
    ASSUME PInv, P!Next, NEW a \in Actors, NEW t \in P!Rows, NEW w \in PaperRowType, PaperMoved(a),
           act[a].pc \in {"update", "book"} => act[a].trade = t,
           act'[a].pc \in {"opened", "update", "book"} => act'[a].trade = t,
           act'[a].pc # "find",
           trades' = [trades EXCEPT ![t] = w], RowBooked(t)'
    PROVE  PInv'
  <1>1. PaperRest' /\ (raced => raced') /\ (died => died')
    BY PaperRestKept
  <1>2. trades' \in [P!Rows -> PaperRowType] /\ \A u \in P!Rows \ {t} : trades'[u] = trades[u]
    BY PaperNumbers
  <1>3. \A u \in P!Rows \ {t} : RowBooked(u)'
    BY <1>1, <1>2, OtherRowsKept
  <1>4. Booked'
    BY <1>3 DEF RowBooked, Booked, P!Rows
  <1>5. PaperTypes'
    BY <1>2 DEF PInv, PaperTypes, PaperMoved, P!Rows
  <1> QED BY <1>1, <1>4, <1>5 DEF PInv, P!PaperAssumption

LEMMA OpenKeepsBooks == ASSUME PInv, P!Next, NEW a \in Actors, P!OpenTrade(a) PROVE PInv'
  <1>1. PICK t \in P!Rows : t = P!Min(P!FreshRows) /\ trades[t].state = "none"
    <2>1. P!FreshRows \in SUBSET P!Rows /\ P!FreshRows # {}
      BY DEF P!OpenTrade, P!FreshRows
    <2>2. P!Min(P!FreshRows) \in P!FreshRows
      BY <2>1, LeastTrade
    <2> QED BY <2>2 DEF P!FreshRows
  <1> DEFINE v == [act[a] EXCEPT !.pc = "opened", !.trade = t]
             w == [trades[t] EXCEPT !.state = "open"]
  <1>2. act[a].pc = "open" /\ act' = [act EXCEPT ![a] = v] /\ trades' = [trades EXCEPT ![t] = w]
        /\ UNCHANGED <<raced, died>>
    BY <1>1 DEF P!OpenTrade
  <1>3. v \in PaperActType /\ v.pc = "opened" /\ v.trade = t
    BY PaperNumbers DEF PaperActType, PaperPcs
  <1>4. w \in PaperRowType /\ w.state = "open" /\ w.booked = trades[t].booked /\ w.booked \in Nat
    BY PaperNumbers DEF PaperRowType
  <1> HIDE DEF v, w
  <1>5. PaperMoved(a) /\ act'[a] = v /\ trades'[t] = w
    BY <1>2, <1>3, PaperNumbers DEF PaperMoved
  <1>6. Closing(t)' = Closing(t)
    BY <1>2, <1>3, <1>5 DEF Closing, PaperMoved
  <1>7. \A b \in Closing(t) : act'[b] = act[b]
    BY <1>2, <1>5 DEF Closing, PaperMoved
  <1>8. RowBooked(t)'
    <2>1. trades[t].booked = 0 /\ \A b \in Closing(t) : act[b].pc # "book"
      BY <1>1, <1>4 DEF PInv, Booked
    <2>2. /\ trades[t].booked + Cardinality(Closing(t)) <= Cardinality(Actors)
          /\ ~raced => trades[t].booked + Cardinality(Closing(t)) <= 1
      BY DEF PInv, Booked
    <2> QED BY <1>2, <1>4, <1>5, <1>6, <1>7, <2>1, <2>2 DEF RowBooked
  <1> QED BY <1>2, <1>3, <1>4, <1>5, <1>8, RowKeepsBooks

LEMMA FindOpenKeepsBooks == ASSUME PInv, P!Next, NEW a \in Actors, P!FindOpen(a) PROVE PInv'
  <1>1. act[a].pc = "find" /\ UNCHANGED <<trades, died>>
    BY DEF P!FindOpen
  <1>2. PICK t \in P!Rows : t = act[a].trade
    BY <1>1 DEF PInv, PaperTypes
  <1>3. CASE trades[t].state # "open"
    BY <1>1, <1>2, <1>3, GotoKeepsBooks, ContinueKeepsBooks DEF P!FindOpen
  <1>4. CASE trades[t].state = "open"
    <2>1. P!Goto(a, "update") /\ P!Race(a) /\ "update" \in PaperPcs
      BY <1>2, <1>4 DEF P!FindOpen, PaperPcs
    <2>2. PaperMoved(a) /\ act'[a].pc = "update" /\ act'[a].trade = t
      BY <1>2, <2>1, GotoMoves
    <2>3. Closing(t)' = Closing(t) \union {a} /\ a \notin Closing(t)
      BY <1>1, <2>2 DEF Closing, PaperMoved
    <2>4. trades[t] \in PaperRowType /\ trades[t].booked \in Nat
      BY PaperNumbers DEF PaperRowType
    <2>5. trades[t].booked = 0 /\ \A b \in Closing(t) : act[b].pc = "update"
      <3>1. ~(trades[t].booked > 0) /\ \A b \in Closing(t) : act[b].pc # "book"
        BY <1>4 DEF PInv, Booked
      <3> QED BY <2>4, <3>1 DEF Closing
    <2>6. Cardinality(Closing(t)') <= Cardinality(Actors) /\ Cardinality(Closing(t)') \in Nat
      <3>1. Closing(t)' \in SUBSET Actors
        BY <2>3, PaperNumbers
      <3> QED BY <3>1, PaperNumbers, FS_Subset, FS_CardinalityType
    <2>7. ~raced' => Cardinality(Closing(t)') = 1
      <3> SUFFICES ASSUME ~raced' PROVE Cardinality(Closing(t)') = 1
        OBVIOUS
      <3>1. \A b \in Actors \ {a} : ~(act[b].pc = "update" /\ act[b].trade = t)
        BY <1>2, <2>1 DEF P!Race
      <3>2. Closing(t)' = {a}
        BY <2>3, <2>5, <3>1 DEF Closing
      <3> QED BY <3>2, FS_Singleton
    <2>8. \A b \in Closing(t)' : act'[b].pc = "update"
      BY <2>2, <2>3, <2>5 DEF PaperMoved, Closing
    <2>9. RowBooked(t)'
      BY <1>1, <1>4, <2>4, <2>5, <2>6, <2>7, <2>8 DEF RowBooked
    <2>10. trades' = [trades EXCEPT ![t] = trades[t]]
      BY <1>1, PaperNumbers
    <2> QED BY <1>1, <2>2, <2>4, <2>9, <2>10, RowKeepsBooks
  <1> QED BY <1>3, <1>4

LEMMA CloseKeepsBooks == ASSUME PInv, P!Next, NEW a \in Actors, P!CloseRow(a) PROVE PInv'
  <1>1. act[a].pc = "update" /\ UNCHANGED <<raced, died>>
    BY DEF P!CloseRow
  <1>2. PICK t \in P!Rows : t = act[a].trade
    BY <1>1 DEF PInv, PaperTypes
  <1> DEFINE w == [trades[t] EXCEPT !.state = "closed"]
  <1>3. P!Goto(a, "book") /\ "book" \in PaperPcs /\ trades' = [trades EXCEPT ![t] = w]
    BY <1>2 DEF P!CloseRow, PaperPcs
  <1>4. w \in PaperRowType /\ w.state = "closed" /\ w.booked = trades[t].booked
    BY PaperNumbers DEF PaperRowType
  <1> HIDE DEF w
  <1>5. PaperMoved(a) /\ act'[a].pc = "book" /\ act'[a].trade = t /\ trades'[t] = w
    BY <1>2, <1>3, <1>4, GotoMoves, PaperNumbers
  <1>6. Closing(t)' = Closing(t) /\ a \in Closing(t)'
    BY <1>1, <1>2, <1>5 DEF Closing, PaperMoved
  <1>7. /\ trades[t].booked + Cardinality(Closing(t)) <= Cardinality(Actors)
        /\ ~raced => trades[t].booked + Cardinality(Closing(t)) <= 1
    BY DEF PInv, Booked
  <1>8. RowBooked(t)'
    BY <1>1, <1>4, <1>5, <1>6, <1>7 DEF RowBooked
  <1> QED BY <1>1, <1>2, <1>3, <1>4, <1>5, <1>8, RowKeepsBooks

LEMMA BookKeepsBooks == ASSUME PInv, P!Next, NEW a \in Actors, P!BookPnl(a) PROVE PInv'
  <1>1. act[a].pc = "book" /\ UNCHANGED <<raced, died>>
    BY DEF P!BookPnl
  <1>2. PICK t \in P!Rows : t = act[a].trade
    BY <1>1 DEF PInv, PaperTypes
  <1>3. trades[t] \in PaperRowType /\ trades[t].booked \in Nat
    BY PaperNumbers DEF PaperRowType
  <1> DEFINE w == [trades[t] EXCEPT !.booked = trades[t].booked + 1]
  <1>4. trades' = [trades EXCEPT ![t] = w]
    BY <1>2 DEF P!BookPnl
  <1>5. w \in PaperRowType /\ w.state = trades[t].state /\ w.booked = trades[t].booked + 1
    <2>1. trades[t].booked + 1 \in Nat
      BY <1>3
    <2> QED BY <1>3, <2>1 DEF PaperRowType
  <1> HIDE DEF w
  <1>6. PaperMoved(a) /\ act'[a].pc \notin {"opened", "find", "update", "book"}
    <2>1. "flat" \in PaperPcs
      BY DEF PaperPcs
    <2> QED BY <2>1, GotoMoves, ContinueMoves DEF P!BookPnl, PaperNext
  <1>7. trades'[t] = w
    BY <1>4, PaperNumbers
  <1>8. Closing(t)' = Closing(t) \ {a} /\ a \in Closing(t)
    BY <1>1, <1>2, <1>6 DEF Closing, PaperMoved
  <1>9. Cardinality(Closing(t)') = Cardinality(Closing(t)) - 1 /\ Cardinality(Closing(t)) \in Nat
    <2>1. IsFiniteSet(Closing(t))
      BY PaperNumbers, FS_Subset
    <2> QED BY <1>8, <2>1, FS_RemoveElement, PaperNumbers
  <1>10. /\ trades[t].booked + Cardinality(Closing(t)) <= Cardinality(Actors)
         /\ ~raced => trades[t].booked + Cardinality(Closing(t)) <= 1
         /\ trades[t].state = "closed"
    BY <1>1, <1>8 DEF PInv, Booked
  <1>11. RowBooked(t)'
    BY <1>1, <1>3, <1>5, <1>7, <1>9, <1>10, PaperNumbers DEF RowBooked
  <1> QED BY <1>1, <1>2, <1>4, <1>5, <1>6, <1>11, RowKeepsBooks

LEMMA RestartKeepsBooks == ASSUME PInv, P!Next, P!Restart PROVE PInv'
  <1>1. act' = [a \in Actors |-> P!Calm] /\ UNCHANGED trades /\ died'
    BY DEF P!Restart
  <1>2. PaperTypes'
    BY <1>1, PaperNumbers DEF PaperTypes, P!Rows
  <1>3. \A t \in P!Rows : Closing(t)' = {}
    BY <1>1, PaperNumbers DEF Closing
  <1>4. Cardinality({}) = 0
    BY FS_EmptySet
  <1>5. Booked'
    <2> SUFFICES ASSUME NEW t \in P!Rows PROVE RowBooked(t)'
      BY DEF Booked, RowBooked, P!Rows
    <2>1. trades[t].booked \in Nat /\ Cardinality(Closing(t)) \in Nat
      BY PaperNumbers DEF PaperRowType
    <2>2. RowBooked(t)
      BY DEF PInv, Booked, RowBooked
    <2>3. raced => raced'
      BY PaperRestKept
    <2>4. Closing(t)' = {} /\ trades'[t] = trades[t] /\ Cardinality(Closing(t)') = 0
      BY <1>1, <1>3, <1>4
    <2>5. /\ trades[t].booked > 0 => trades[t].state = "closed"
          /\ trades[t].booked + Cardinality(Closing(t)) <= Cardinality(Actors)
          /\ ~raced => trades[t].booked + Cardinality(Closing(t)) <= 1
      BY <2>2 DEF RowBooked
    <2>6. /\ trades[t].booked + 0 <= Cardinality(Actors)
          /\ ~raced => trades[t].booked + 0 <= 1
      BY <2>1, <2>5, PaperNumbers
    <2> HIDE <2>2
    <2> QED BY <1>1, <2>3, <2>4, <2>5, <2>6 DEF RowBooked
  <1> QED BY <1>2, <1>5, PaperRestKept DEF PInv, P!PaperAssumption

-----------------------------------------------------------------------------

LEMMA PInvInductive == PInv /\ [P!Next]_(P!paperVars) => PInv'
  <1> SUFFICES ASSUME PInv, [P!Next]_(P!paperVars) PROVE PInv'
    OBVIOUS
  <1>1. CASE P!Next
    <2> USE <1>1
    <2>1. CASE P!Restart
      BY <2>1, RestartKeepsBooks
    <2>2. ASSUME NEW a \in Actors,
                 \/ P!StartAdvanced(a) \/ P!StartTimer(a) \/ P!BeginTick(a) \/ P!StopAdvanced(a) \/ P!StopTimer(a)
          PROVE  PInv'
      BY <2>2, StartsKeepBooks, StartAdvancedKeepsBooks, StopAdvancedKeepsBooks
    <2>3. ASSUME NEW a \in Actors, P!Look(a) \/ P!LookAtRows(a) PROVE PInv'
      BY <2>3, LooksKeepBooks
    <2>4. ASSUME NEW a \in Actors,
                 P!SetLong(a) \/ P!ProbeOpened(a) \/ P!SetFlat(a) \/ P!DropBot(a) \/ P!CloseEach(a)
          PROVE  PInv'
      BY <2>4, StepsKeepBooks
    <2>5. ASSUME NEW a \in Actors, P!OpenTrade(a) \/ P!FindOpen(a) \/ P!CloseRow(a) \/ P!BookPnl(a) PROVE PInv'
      BY <2>5, OpenKeepsBooks, FindOpenKeepsBooks, CloseKeepsBooks, BookKeepsBooks
    <2> QED BY <2>1, <2>2, <2>3, <2>4, <2>5 DEF P!Next
  <1>2. CASE UNCHANGED P!paperVars
    <2>1. PaperRest' /\ PaperTypes' /\ UNCHANGED <<trades, act, raced, died>>
      BY <1>2 DEF P!paperVars, PInv, PaperRest, PaperTypes
    <2>2. \A t \in P!Rows : Closing(t)' = Closing(t)
      BY <2>1 DEF Closing
    <2>3. Booked'
      BY <2>1, <2>2 DEF PInv, Booked
    <2> QED BY <2>1, <2>3 DEF PInv, P!PaperAssumption
  <1> QED BY <1>1, <1>2

LEMMA InitPInv == P!PaperAssumption /\ P!Init => PInv
  <1> SUFFICES ASSUME P!PaperAssumption, P!Init PROVE PInv
    OBVIOUS
  <1>1. MaxTrades \in Nat \ {0} /\ IsFiniteSet(Actors)
    BY DEF P!PaperAssumption, P!IsFiniteSet, IsFiniteSet
  <1>2. PaperRest
    <2>1. engine \in Engines /\ listed = FALSE /\ ticking = FALSE /\ current = 0
          /\ overlap = FALSE /\ raced = FALSE /\ died = FALSE
      BY DEF P!Init
    <2>2. current \in 0..MaxTrades
      BY <1>1, <2>1
    <2> HIDE <2>1
    <2>3. listed \in BOOLEAN /\ ticking \in BOOLEAN /\ overlap \in BOOLEAN /\ raced \in BOOLEAN /\ died \in BOOLEAN
      BY <2>1, Zenon
    <2> QED BY <2>1, <2>2, <2>3, Zenon DEF PaperRest
  <1>3. P!Calm \in PaperActType /\ P!Calm.pc = "idle"
    BY <1>1 DEF P!Calm, PaperActType, PaperPcs, PaperNext
  <1>4. [state |-> "none", booked |-> 0] \in PaperRowType
    BY DEF PaperRowType
  <1>5. act = [a \in Actors |-> P!Calm] /\ trades = [t \in P!Rows |-> [state |-> "none", booked |-> 0]]
    BY DEF P!Init
  <1>6. PaperTypes
    BY <1>3, <1>4, <1>5 DEF PaperTypes
  <1>7. \A t \in P!Rows : Closing(t) = {}
    BY <1>3, <1>5 DEF Closing
  <1>8. Cardinality({}) = 0 /\ Cardinality(Actors) \in Nat
    BY <1>1, FS_EmptySet, FS_CardinalityType
  <1>9. Booked
    BY <1>5, <1>7, <1>8 DEF Booked
  <1> QED BY <1>2, <1>6, <1>9 DEF PInv

\* bot/advancedBot.ts, packages/bot/src: for any number of ticks, probes and
\* stops in flight, the state of a paper trader keeps its shape.
THEOREM PaperTypeCorrect == P!PaperAssumption /\ P!Spec => []P!TypeOK
  <1>1. PInv => P!TypeOK
    BY DEF PInv, PaperRest, PaperTypes, PaperRowType, PaperActType, P!TypeOK
  <1> QED BY <1>1, InitPInv, PInvInductive, PTL DEF P!Spec

\* What the invariant says of the property.
LEMMA PInvBooked == PInv => P!PnlBookedOnce
  <1> SUFFICES ASSUME PInv, NEW t \in P!Rows
               PROVE  /\ trades[t].booked <= IF raced THEN P!Cardinality(Actors) ELSE 1
                      /\ trades[t].booked > 0 => trades[t].state = "closed"
                      /\ trades[t].state = "closed" /\ ~died /\ (\A a \in Actors : P!Idle(a)) => trades[t].booked > 0
    BY DEF P!PnlBookedOnce
  <1>1. P!Cardinality(Actors) = Cardinality(Actors)
    BY DEF P!Cardinality, Cardinality
  <1>2. trades[t].booked \in Nat /\ Cardinality(Closing(t)) \in Nat
    BY PaperNumbers DEF PaperRowType
  <1>3. RowBooked(t)
    BY DEF PInv, Booked, RowBooked
  <1>4. raced \in BOOLEAN
    BY DEF PInv, PaperRest
  <1> QED BY <1>1, <1>2, <1>3, <1>4, PaperNumbers DEF RowBooked, P!Idle, Closing

\* packages/bot/src/paperExecution.ts:49-106: for any number of ticks, probes
\* and stops, a trade's PnL is booked once, or once for each that found the
\* trade open together, and by nobody before the row is closed.
THEOREM PnlStaysBookedOnce == P!PaperAssumption /\ P!Spec => []P!PnlBookedOnce
  BY PInvBooked, InitPInv, PInvInductive, PTL DEF P!Spec

-----------------------------------------------------------------------------
(* CandleStore *)

\* No message of the stream, and no answer to a refresh, is older than the
\* retention when it comes.
Timely ==
    /\ \A k \in mail : k >= now - Keep
    /\ look # H!None => look - Recent + 1 >= now - Keep

\* What was announced is in the table, or too old to come again.
Remembered == \A k \in told : k \in store \/ k < now - Keep

\* The inductive invariant.
HInv ==
    /\ H!CandleAssumption
    /\ now \in Nat /\ mail \subseteq Nat /\ look \in Nat \union {H!None} /\ told \subseteq Nat
    /\ Remembered /\ H!AnnouncedOnce

LEMMA CandleNumbers ==
    ASSUME HInv
    PROVE  /\ Keep \in Nat /\ Recent \in Nat /\ now \in Nat /\ now - Keep \in Int
           /\ H!None \notin Nat
  BY DEF HInv, H!CandleAssumption, H!None

\* A write that announces nothing.
LEMMA SilentKeepsCandles ==
    ASSUME HInv, UNCHANGED <<now, mail, told>>, store \subseteq store', look' \in {look, H!None},
           odd' \ {"short", "hole"} \subseteq odd
    PROVE  HInv'
  <1>1. "twice" \notin odd'
    BY DEF HInv, H!AnnouncedOnce
  <1>2. Remembered'
    BY DEF HInv, Remembered
  <1> QED BY <1>1, <1>2 DEF HInv, H!CandleAssumption, H!AnnouncedOnce

LEMMA JobsKeepCandles ==
    ASSUME HInv, NEW j \in Jobs,
           H!StartJob(j) \/ H!ReadOldest(j) \/ H!GotPage(j) \/ H!ReadNewest(j) \/ H!GotBars(j) \/ H!JobThrows(j)
    PROVE  HInv'
  <1>1. CASE H!ReadOldest(j)
    <2>1. UNCHANGED <<now, store, mail, look, told>> /\ odd' \ {"short", "hole"} \subseteq odd
      BY <1>1 DEF H!ReadOldest, H!Note
    <2> QED BY <2>1, SilentKeepsCandles
  <1>2. CASE H!GotPage(j)
    <2>1. UNCHANGED <<now, mail, look, told, odd>> /\ store \subseteq store'
      BY <1>2 DEF H!GotPage
    <2> QED BY <2>1, SilentKeepsCandles
  <1>3. CASE H!GotBars(j)
    <2>1. UNCHANGED <<now, mail, look, told, odd>> /\ store \subseteq store'
      BY <1>3 DEF H!GotBars
    <2> QED BY <2>1, SilentKeepsCandles
  <1>4. CASE H!StartJob(j) \/ H!ReadNewest(j) \/ H!JobThrows(j)
    <2>1. UNCHANGED <<now, store, mail, look, told, odd>>
      BY <1>4 DEF H!StartJob, H!ReadNewest, H!JobThrows
    <2> QED BY <2>1, SilentKeepsCandles
  <1> QED BY <1>1, <1>2, <1>3, <1>4

\* A live write announces what was not in the table, and so what was not
\* announced before, when it is young enough.
LEMMA WriteKeepsCandles ==
    ASSUME HInv, NEW B \in SUBSET Nat, H!WriteLive(B), \A k \in B : k >= now - Keep,
           UNCHANGED now, mail' \subseteq Nat, look' \in Nat \union {H!None}
    PROVE  HInv'
  <1> DEFINE new == B \ store
  <1>1. store' = store \union B /\ told' = told \union new
    BY DEF H!WriteLive
  <1>2. new \intersect told = {}
    <2> SUFFICES ASSUME NEW k \in B, k \in told, k \notin store PROVE FALSE
      OBVIOUS
    <2>1. k < now - Keep
      BY DEF HInv, Remembered
    <2> QED BY <2>1, CandleNumbers
  <1>3. odd' \ {"hole"} \subseteq odd
    BY <1>2, Zenon DEF H!WriteLive
  <1>4. H!AnnouncedOnce'
    BY <1>3 DEF HInv, H!AnnouncedOnce
  <1>5. Remembered'
    BY <1>1 DEF HInv, Remembered
  <1>6. told' \subseteq Nat /\ now' \in Nat
    BY <1>1 DEF HInv
  <1> QED BY <1>4, <1>5, <1>6 DEF HInv, H!CandleAssumption

LEMMA StreamKeepsCandles == ASSUME HInv, Timely, NEW k \in mail, H!StreamBar(k) PROVE HInv'
  <1>1. mail' \subseteq Nat /\ look' \in Nat \union {H!None} /\ now' = now /\ H!WriteLive({k})
    BY DEF H!StreamBar, HInv
  <1>2. {k} \in SUBSET Nat /\ \A i \in {k} : i >= now - Keep
    BY DEF HInv, Timely
  <1> QED BY <1>1, <1>2, WriteKeepsCandles

LEMMA RefreshKeepsCandles == ASSUME HInv, Timely, H!GotRefresh PROVE HInv'
  <1>1. look \in Nat /\ look - Recent + 1 >= now - Keep
    BY DEF H!GotRefresh, HInv, Timely
  <1> DEFINE bars == H!Closed(H!Bars(look - Recent + 1, look))
  <1>2. bars \in SUBSET Nat /\ \A i \in bars : i >= now - Keep
    BY <1>1, CandleNumbers DEF H!Closed, H!Bars
  <1>3. mail' \subseteq Nat /\ look' \in Nat \union {H!None} /\ now' = now /\ H!WriteLive(bars)
    BY DEF H!GotRefresh, HInv
  <1> HIDE DEF bars
  <1> QED BY <1>2, <1>3, WriteKeepsCandles

LEMMA TimeKeepsCandles == ASSUME HInv, H!Tick \/ H!PruneOldBars PROVE HInv'
  <1>1. CASE H!Tick
    <2>1. now' = now + 1 /\ UNCHANGED <<store, told, odd, look>> /\ mail' \subseteq mail \union {now}
      BY <1>1 DEF H!Tick
    <2>2. \A k \in Nat : k < now - Keep => k < now' - Keep
      BY <2>1, CandleNumbers
    <2>3. Remembered'
      BY <2>1, <2>2 DEF HInv, Remembered
    <2>4. now' \in Nat /\ mail' \subseteq Nat
      BY <2>1, CandleNumbers DEF HInv
    <2> QED BY <2>1, <2>3, <2>4 DEF HInv, H!CandleAssumption, H!AnnouncedOnce
  <1>2. CASE H!PruneOldBars
    <2>1. UNCHANGED <<now, mail, look, told>> /\ odd' \ {"hole"} \subseteq odd
          /\ store' = {k \in store : k >= now - Keep}
      BY <1>2 DEF H!PruneOldBars, H!Note
    <2>2. \A k \in Nat : k >= now - Keep \/ k < now - Keep
      BY CandleNumbers
    <2>3. Remembered'
      BY <2>1, <2>2 DEF HInv, Remembered
    <2> QED BY <2>1, <2>3 DEF HInv, H!CandleAssumption, H!AnnouncedOnce
  <1> QED BY <1>1, <1>2

LEMMA HInvInductive == HInv /\ Timely /\ [H!Next]_(H!candleVars) => HInv'
  <1> SUFFICES ASSUME HInv, Timely, [H!Next]_(H!candleVars) PROVE HInv'
    OBVIOUS
  <1>1. CASE H!Refresh
    <2>1. UNCHANGED <<now, store, mail, told, odd>> /\ look' = now
      BY <1>1 DEF H!Refresh
    <2> QED BY <2>1 DEF HInv, H!CandleAssumption, H!AnnouncedOnce, Remembered
  <1>2. CASE H!Restart
    <2>1. UNCHANGED <<now, store, told, odd>> /\ mail' = {} /\ look' = H!None
      BY <1>2 DEF H!Restart
    <2> QED BY <2>1 DEF HInv, H!CandleAssumption, H!AnnouncedOnce, Remembered
  <1>3. CASE UNCHANGED H!candleVars
    BY <1>3 DEF H!candleVars, HInv, H!CandleAssumption, H!AnnouncedOnce, Remembered
  <1> QED BY <1>1, <1>2, <1>3, JobsKeepCandles, StreamKeepsCandles, RefreshKeepsCandles, TimeKeepsCandles
          DEF H!Next

LEMMA InitHInv == H!CandleAssumption /\ H!Init => HInv
  BY DEF H!CandleAssumption, H!Init, HInv, Remembered, H!AnnouncedOnce

LEMMA HInvAnnounced == HInv => H!AnnouncedOnce
  BY DEF HInv

\* market/klineService.ts:152-167, 315-330, 376-386: whatever the jobs, the
\* faults and the pruning, stream and refresh announce a closed bar once
\* between them, as long as nothing comes later than the retention.
THEOREM BarsStayAnnouncedOnce == H!CandleAssumption /\ H!Spec /\ []Timely => []H!AnnouncedOnce
  BY HInvAnnounced, InitHInv, HInvInductive, PTL DEF H!Spec

\* Over a stretch of time shorter than the retention nothing comes that late.
ShortStretch == LastNow - FirstNow + Recent <= Keep

TimelyInv ==
    /\ H!CandleAssumption /\ ShortStretch
    /\ now \in FirstNow..LastNow /\ \A k \in mail : k \in FirstNow..LastNow
    /\ look # H!None => look \in FirstNow..LastNow

LEMMA TimelyInvInductive == TimelyInv /\ [H!Next]_(H!candleVars) => TimelyInv'
  <1> SUFFICES ASSUME TimelyInv, [H!Next]_(H!candleVars) PROVE TimelyInv'
    OBVIOUS
  <1>0. FirstNow \in Nat /\ LastNow \in Nat
    BY DEF TimelyInv, H!CandleAssumption
  <1>1. now' = now \/ (now < LastNow /\ now' = now + 1)
    <2>1. H!Tick => now < LastNow /\ now' = now + 1
      BY DEF H!Tick
    <2>2. H!Tick \/ now' = now
      BY Zenon DEF H!Next, H!StartJob, H!ReadOldest, H!GotPage, H!ReadNewest, H!GotBars, H!JobThrows,
             H!StreamBar, H!Refresh, H!GotRefresh, H!PruneOldBars, H!Restart, H!candleVars
    <2> QED BY <2>1, <2>2
  <1>2. mail' \subseteq mail \union {now}
    BY DEF H!Next, H!StartJob, H!ReadOldest, H!GotPage, H!ReadNewest, H!GotBars, H!JobThrows,
           H!StreamBar, H!Refresh, H!GotRefresh, H!PruneOldBars, H!Tick, H!Restart, H!candleVars
  <1>3. look' \in {look, now, H!None}
    BY DEF H!Next, H!StartJob, H!ReadOldest, H!GotPage, H!ReadNewest, H!GotBars, H!JobThrows,
           H!StreamBar, H!Refresh, H!GotRefresh, H!PruneOldBars, H!Tick, H!Restart, H!candleVars
  <1>4. now' \in FirstNow..LastNow
    BY <1>0, <1>1 DEF TimelyInv
  <1> QED BY <1>2, <1>3, <1>4 DEF TimelyInv, H!CandleAssumption, ShortStretch

LEMMA InitTimelyInv == H!CandleAssumption /\ ShortStretch /\ FirstNow <= LastNow /\ H!Init => TimelyInv
  BY DEF H!CandleAssumption, H!Init, TimelyInv

LEMMA TimelyInvTimely == TimelyInv => Timely
  <1> SUFFICES ASSUME TimelyInv PROVE Timely
    OBVIOUS
  <1>1. FirstNow \in Nat /\ LastNow \in Nat /\ Keep \in Nat /\ Recent \in Nat
    BY DEF TimelyInv, H!CandleAssumption
  <1>2. \A k \in FirstNow..LastNow : k >= now - Keep /\ k - Recent + 1 >= now - Keep
    BY <1>1 DEF TimelyInv, ShortStretch
  <1> QED BY <1>2 DEF TimelyInv, Timely
=============================================================================
