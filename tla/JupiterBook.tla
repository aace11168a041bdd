----------------------------- MODULE JupiterBook -----------------------------
(***************************************************************************)
(* The trade book of the Jupiter desk for one user and one pair            *)
(* (src/src/services/dex/jupiterSwapService.ts).                           *)
(*                                                                         *)
(* A swap fills on chain first and is booked afterwards: a BUY tops up the *)
(* oldest OPEN row or creates one, a SELL closes the oldest OPEN row or,   *)
(* when it skims profit, takes its part off it.  Every booking reads the   *)
(* rows, awaits, and writes what it computed from them.  Routes, watchers  *)
(* and bots do this concurrently, on several servers, and a reconcile run  *)
(* tidies up behind them: it merges duplicate OPEN rows, cancels rows the  *)
(* wallet no longer backs and scales down rows it backs only in part,      *)
(* judging by the balance an RPC node shows, which lags the chain.         *)
(*                                                                         *)
(* Quantities are whole lots bought at one price, so that the quantity of  *)
(* a row equals its allocationUsd; profits are left out.                   *)
(***************************************************************************)
EXTENDS Naturals, FiniteSets, FiniteSetsExt, Functions

CONSTANTS
    Traders,    \* calls of the routes, the watchers and the bots that may overlap
    Tidiers,    \* runs of the reconcile that may overlap
    Servers,    \* server processes, each with its jupiterBuyInFlight map
    Home,       \* the server a call runs on
    Does,       \* what a caller trades: an autopilot buys, a watcher sells and skims
    MaxRows,    \* bound on the rows of the trade table
    MaxLots,    \* bound on the lots in the wallet and on the size of a request
    MaxEvents   \* bound on swaps, converts, restarts and failures of a reconcile or a merge

Procs == Traders \cup Tidiers

ASSUME BookAssumption ==
    /\ MaxRows \in Nat \ {0} /\ MaxLots \in Nat \ {0}
    /\ MaxEvents \in Nat
    /\ Traders \cap Tidiers = {}
    /\ Home \in [Procs -> Servers]
    /\ Does \in [Traders -> SUBSET {"buy", "sell", "skim", "sellOpen"}]

VARIABLES
    trade,      \* the rows, in the order of createdAt
    wallet,     \* the token balance on chain
    shown,      \* the token balance the RPC nodes show
    inFlight,   \* jupiterBuyInFlight per server: "expired" is a mark older than 45 s
    proc,       \* the calls: where each one is and what it holds in memory
    events      \* the number of them so far

chain == <<wallet, shown, events>>
vars == <<trade, chain, inFlight, proc>>

RowIds == 1..MaxRows
\* fresh: younger than RECONCILE_GRACE_MS; joined: created within
\* BURST_DEDUPE_MS of the row before it.
Rows == [status : {"none", "OPEN", "CLOSED", "CANCELLED"}, alloc : Nat,
         fresh : BOOLEAN, joined : BOOLEAN]
Calls == [pc : {"idle", "filled", "booking", "write", "merge", "mergeWrite", "mergeCancel",
                "sizing", "swap", "extras", "trim", "trimCancel",
                "burstWrite", "opens", "holdings", "decide", "tidyCancel"},
          kind : {"none", "buy", "sell", "skim", "sellOpen", "tidy"},
          size : Nat,           \* lots asked for, then lots filled
          lots : SUBSET RowIds, \* rows read before the merge
          ids : SUBSET RowIds,  \* rows read last ...
          amt : Nat]            \* ... and the quantity computed from them

TypeOK ==
    /\ trade \in [RowIds -> Rows]
    /\ wallet \in 0..MaxLots /\ shown \in 0..MaxLots
    /\ inFlight \in [Servers -> {"clear", "marked", "expired"}]
    /\ proc \in [Procs -> Calls]
    /\ events \in 0..MaxEvents

NoRow == [status |-> "none", alloc |-> 0, fresh |-> FALSE, joined |-> FALSE]
Idle == [pc |-> "idle", kind |-> "none", size |-> 0, lots |-> {}, ids |-> {}, amt |-> 0]

Init ==
    /\ trade = [r \in RowIds |-> NoRow]
    /\ wallet = 0 /\ shown = 0
    /\ inFlight = [s \in Servers |-> "clear"]
    /\ proc = [p \in Procs |-> Idle]
    /\ events = 0

OpenRows == {r \in RowIds : trade[r].status = "OPEN"}
Alloc(R) == SumFunctionOnSet([r \in RowIds |-> trade[r].alloc], R)
Oldest(R) == IF R = {} THEN {} ELSE {Min(R)}

\* Mutant: the status is spelled as that of an order.
CancelAsOrder(tr, R) ==
    [r \in RowIds |-> IF r \in R /\ tr[r].status = "OPEN"
                      THEN [tr[r] EXCEPT !.status = "CANCELED"] ELSE tr[r]]

\* updateMany where the status is OPEN.
CancelIfOpen(tr, R) ==
    [r \in RowIds |-> IF r \in R /\ tr[r].status = "OPEN"
                      THEN [tr[r] EXCEPT !.status = "CANCELLED"] ELSE tr[r]]

\* An event that disturbs the book from outside happens.
Disturbs == events < MaxEvents /\ events' = events + 1

\* A caller starts to trade; trading stops when the bound is reached.
Trades(p, kind) == proc[p].pc = "idle" /\ kind \in Does[p] /\ events < MaxEvents

Goes(p, to) == proc' = [proc EXCEPT ![p].pc = to]

-----------------------------------------------------------------------------
(* The chain, the RPC nodes and the clock *)

\* A convert or a transfer outside the book changes the wallet.
Convert ==
    /\ Disturbs
    /\ wallet' \in (0..MaxLots) \ {wallet}
    /\ UNCHANGED <<trade, shown, inFlight, proc>>

RpcCatchesUp ==
    /\ shown # wallet
    /\ shown' = wallet
    /\ UNCHANGED <<trade, wallet, inFlight, proc, events>>

GraceEnds(r) ==
    /\ trade[r].fresh
    /\ \A q \in 1..(r - 1) : ~trade[q].fresh
    /\ trade' = [trade EXCEPT ![r].fresh = FALSE]
    /\ UNCHANGED <<chain, inFlight, proc>>

MarkExpires(s) ==
    /\ inFlight[s] = "marked"
    /\ inFlight' = [inFlight EXCEPT ![s] = "expired"]
    /\ UNCHANGED <<trade, chain, proc>>

-----------------------------------------------------------------------------
(* executeJupiterSwap: the swap *)

BuyFills(p) ==
    /\ Trades(p, "buy")
    /\ Disturbs
    /\ \E n \in 1..(MaxLots - wallet) :
          /\ wallet' = wallet + n
          /\ proc' = [proc EXCEPT ![p] = [Idle EXCEPT !.pc = "filled", !.kind = "buy", !.size = n]]
    /\ UNCHANGED <<trade, shown, inFlight>>

\* The route sells what the user asks for, the watcher the lot it has read:
\* any number of lots.
StartSell(p) ==
    /\ Trades(p, "sell")
    /\ proc' = [proc EXCEPT ![p] = [Idle EXCEPT !.pc = "swap", !.kind = "sell", !.size = MaxLots]]
    /\ UNCHANGED <<trade, chain, inFlight>>

\* skimJupiterPositionProfit
StartSkim(p) ==
    /\ Trades(p, "skim")
    /\ proc' = [proc EXCEPT ![p] = [Idle EXCEPT !.pc = "merge", !.kind = "skim"]]
    /\ UNCHANGED <<trade, chain, inFlight>>

SizeSkim(p) ==
    /\ proc[p].pc = "sizing"
    /\ IF OpenRows = {} THEN proc' = [proc EXCEPT ![p] = Idle]
       ELSE proc' = [proc EXCEPT ![p].pc = "swap", ![p].size = trade[Min(OpenRows)].alloc]
    /\ UNCHANGED <<trade, chain, inFlight>>

\* sellJupiterOpenPosition
StartSellOpen(p) ==
    /\ Trades(p, "sellOpen")
    /\ OpenRows # {}
    /\ proc' = [proc EXCEPT ![p] = [Idle EXCEPT !.pc = "merge", !.kind = "sellOpen",
                                       !.size = Alloc(OpenRows), !.lots = OpenRows]]
    /\ UNCHANGED <<trade, chain, inFlight>>

\* A skim sells at most half the lot.
AtMost(p) == IF proc[p].kind = "skim" THEN proc[p].size \div 2 ELSE proc[p].size

SellFills(p) ==
    /\ proc[p].pc = "swap"
    /\ Disturbs
    /\ \E n \in 1..AtMost(p) :
          /\ n <= shown /\ n <= wallet
          /\ wallet' = wallet - n
          /\ proc' = [proc EXCEPT ![p].pc = "booking", ![p].size = n]
    /\ UNCHANGED <<trade, shown, inFlight>>

\* No balance is shown: the rows are dropped instead.
SellClearsGhosts(p) ==
    /\ proc[p].pc = "swap" /\ proc[p].kind = "sellOpen"
    /\ shown = 0
    /\ trade' = CancelIfOpen(trade, proc[p].lots)
    /\ proc' = [proc EXCEPT ![p] = Idle]
    /\ UNCHANGED <<chain, inFlight>>

-----------------------------------------------------------------------------
(* executeJupiterSwap: the booking *)

\* jupiterBuyInFlight is looked at, and set, once the swap has filled.
GuardAdmits(p) ==
    /\ proc[p].pc = "filled"
    /\ inFlight[Home[p]] # "marked"
    /\ inFlight' = [inFlight EXCEPT ![Home[p]] = "marked"]
    /\ Goes(p, "booking")
    /\ UNCHANGED <<trade, chain>>

GuardRefuses(p) ==
    /\ proc[p].pc = "filled"
    /\ inFlight[Home[p]] = "marked"
    /\ proc' = [proc EXCEPT ![p] = Idle]
    /\ UNCHANGED <<trade, chain, inFlight>>

\* Mutant: the mark of a call that throws is left behind.
KeepMark(p) == UNCHANGED inFlight

\* The finally block.
ClearMark(p) ==
    inFlight' = IF proc[p].kind = "buy" THEN [inFlight EXCEPT ![Home[p]] = "clear"] ELSE inFlight

BookReads(p) ==
    /\ proc[p].pc = "booking"
    /\ proc' = [proc EXCEPT ![p].pc = "write", ![p].ids = Oldest(OpenRows),
                            ![p].amt = Alloc(Oldest(OpenRows))]
    /\ UNCHANGED <<trade, chain, inFlight>>

\* prisma.trade.create
Insert(status, n) ==
    \E r \in RowIds, joined \in BOOLEAN :
       /\ trade[r].status = "none"
       /\ \A q \in 1..(r - 1) : trade[q].status # "none"
       /\ joined => r > 1 /\ trade[r - 1].fresh
       /\ trade' = [trade EXCEPT ![r] = [status |-> status, alloc |-> n,
                                         fresh |-> TRUE, joined |-> joined]]

BookBuy(p) ==
    /\ proc[p].pc = "write" /\ proc[p].kind = "buy"
    /\ \/ /\ proc[p].ids = {}
          /\ Insert("OPEN", proc[p].size)
          /\ ClearMark(p)
          /\ proc' = [proc EXCEPT ![p] = Idle]
       \/ /\ proc[p].ids # {}
          /\ trade' = [trade EXCEPT ![Min(proc[p].ids)].alloc = proc[p].amt + proc[p].size]
          /\ Goes(p, "merge")
          /\ UNCHANGED inFlight
    /\ UNCHANGED chain

IsPartial(p) ==
    proc[p].kind = "skim" /\ proc[p].size * 100 < proc[p].amt * 95

AfterSell(p) == IF proc[p].kind = "sellOpen" THEN [proc[p] EXCEPT !.pc = "trim"] ELSE Idle

\* A skim leaves the row OPEN with the rest, whatever became of it since.
BookSkim(p) ==
    /\ proc[p].pc = "write" /\ proc[p].ids # {}
    /\ IsPartial(p)
    /\ trade' = [trade EXCEPT ![Min(proc[p].ids)].alloc = proc[p].amt - proc[p].size,
                              ![Min(proc[p].ids)].status = "OPEN"]
    /\ proc' = [proc EXCEPT ![p] = Idle]
    /\ UNCHANGED <<chain, inFlight>>

\* Any other sale closes the row and cancels the others; the two writes are
\* BookClose and CancelExtras.
BookClose(p) ==
    /\ proc[p].pc = "write" /\ proc[p].kind # "buy" /\ proc[p].ids # {}
    /\ ~IsPartial(p)
    /\ trade' = [trade EXCEPT ![Min(proc[p].ids)].status = "CLOSED"]
    /\ Goes(p, "extras")
    /\ UNCHANGED <<chain, inFlight>>

CancelExtras(p) ==
    /\ proc[p].pc = "extras"
    /\ trade' = CancelIfOpen(trade, RowIds \ proc[p].ids)
    /\ proc' = [proc EXCEPT ![p] = AfterSell(p)]
    /\ UNCHANGED <<chain, inFlight>>

\* A sale without an OPEN row is booked as a CLOSED one.
BookLoneSell(p) ==
    /\ proc[p].pc = "write" /\ proc[p].kind # "buy" /\ proc[p].ids = {}
    /\ Insert("CLOSED", proc[p].size)
    /\ proc' = [proc EXCEPT ![p] = AfterSell(p)]
    /\ UNCHANGED <<chain, inFlight>>

\* sellJupiterOpenPosition looks for rows left OPEN and cancels all but the
\* oldest, by id.
TrimReads(p) ==
    /\ proc[p].pc = "trim"
    /\ proc' = [proc EXCEPT ![p].pc = "trimCancel", ![p].ids = OpenRows \ Oldest(OpenRows)]
    /\ UNCHANGED <<trade, chain, inFlight>>

TrimCancels(p) ==
    /\ proc[p].pc = "trimCancel"
    /\ trade' = [r \in RowIds |-> IF r \in proc[p].ids
                                  THEN [trade[r] EXCEPT !.status = "CANCELLED"] ELSE trade[r]]
    /\ proc' = [proc EXCEPT ![p] = Idle]
    /\ UNCHANGED <<chain, inFlight>>

-----------------------------------------------------------------------------
(* mergeDuplicateJupiterOpenTrades *)

AfterMerge(p) ==
    CASE proc[p].kind = "skim"     -> [proc[p] EXCEPT !.pc = "sizing", !.ids = {}, !.amt = 0]
      [] proc[p].kind = "sellOpen" -> [proc[p] EXCEPT !.pc = "swap", !.ids = {}, !.amt = 0]
      [] proc[p].kind = "tidy"     -> [proc[p] EXCEPT !.pc = "opens", !.ids = {}, !.amt = 0]
      [] OTHER                     -> Idle

\* Mutant: the smallest number of rows to merge is off by one.
ThreeRows(R) == Cardinality(R) > 2

HasDuplicates(R) == Cardinality(R) >= 2

EndMerge(p) ==
    /\ proc' = [proc EXCEPT ![p] = AfterMerge(p)]
    /\ ClearMark(p)

MergeReads(p) ==
    /\ proc[p].pc = "merge"
    /\ \/ /\ ~HasDuplicates(OpenRows)
          /\ EndMerge(p)
       \/ /\ HasDuplicates(OpenRows)
          /\ proc' = [proc EXCEPT ![p].pc = "mergeWrite", ![p].ids = OpenRows,
                                  ![p].amt = Alloc(OpenRows)]
          /\ UNCHANGED inFlight
    /\ UNCHANGED <<trade, chain>>

MergeWrites(p) ==
    /\ proc[p].pc = "mergeWrite"
    /\ trade' = [trade EXCEPT ![Min(proc[p].ids)].alloc = proc[p].amt]
    /\ Goes(p, "mergeCancel")
    /\ UNCHANGED <<chain, inFlight>>

MergeCancels(p) ==
    /\ proc[p].pc = "mergeCancel"
    /\ trade' = CancelIfOpen(trade, proc[p].ids \ Oldest(proc[p].ids))
    /\ EndMerge(p)
    /\ UNCHANGED chain

\* Every caller goes on when the merge fails, even between its two writes.
MergeThrows(p) ==
    /\ proc[p].pc \in {"merge", "mergeWrite", "mergeCancel"}
    /\ Disturbs
    /\ EndMerge(p)
    /\ UNCHANGED <<trade, wallet, shown>>

-----------------------------------------------------------------------------
(* reconcileInflatedJupiterBurstTrades and reconcileStaleJupiterOpenTrades *)

\* The rows of the burst that r belongs to, and what the correction makes of
\* them: the first row that is not CANCELLED shrinks to the smallest
\* cancelled one if it is about a multiple of it.  (Up to three rows form at
\* most one burst, so that a run makes at most one correction.)
Burst(r) ==
    {q \in RowIds : /\ trade[q].status # "none"
                    /\ \A i \in RowIds : (Min({q, r}) < i /\ i <= Max({q, r})) => trade[i].joined}
Primary(r) == Min({q \in Burst(r) : trade[q].status # "CANCELLED"})
Units(r) == {trade[q].alloc : q \in {b \in Burst(r) : trade[b].status = "CANCELLED"}} \ {0}
Inflated(r) ==
    /\ Units(r) # {}
    /\ \E q \in Burst(r) : trade[q].status # "CANCELLED"
    /\ r = Primary(r)
    /\ LET alloc == trade[r].alloc
           unit == Min(Units(r))
           factor == (2 * alloc + unit) \div (2 * unit)
           gap == IF alloc > unit * factor THEN alloc - unit * factor ELSE unit * factor - alloc
       IN  2 * alloc >= 3 * unit /\ factor >= 2 /\ 10 * gap < alloc

BurstReads(q) ==
    /\ proc[q].pc = "idle"
    /\ LET inflated == {r \in RowIds : trade[r].status # "none" /\ Inflated(r)} IN
       IF inflated = {}
       THEN proc' = [proc EXCEPT ![q] = [Idle EXCEPT !.pc = "merge", !.kind = "tidy"]]
       ELSE \E r \in inflated :
               proc' = [proc EXCEPT ![q] = [Idle EXCEPT !.pc = "burstWrite", !.kind = "tidy",
                                               !.ids = {r}, !.amt = Min(Units(r))]]
    /\ UNCHANGED <<trade, chain, inFlight>>

BurstWrites(q) ==
    /\ proc[q].pc = "burstWrite"
    /\ trade' = [trade EXCEPT ![Min(proc[q].ids)].alloc = proc[q].amt]
    /\ proc' = [proc EXCEPT ![q] = [Idle EXCEPT !.pc = "merge", !.kind = "tidy"]]
    /\ UNCHANGED <<chain, inFlight>>

\* Mutant: the age of the oldest row decides.
OldestAge(R) == R = {} \/ ~trade[Min(R)].fresh

\* youngestAt against RECONCILE_GRACE_MS.
PastGrace(R) == \A r \in R : ~trade[r].fresh

OpensRead(q) ==
    /\ proc[q].pc = "opens"
    /\ IF OpenRows # {}
       THEN proc' = [proc EXCEPT ![q].pc = "holdings", ![q].ids = OpenRows,
                                 ![q].amt = Alloc(OpenRows)]
       ELSE proc' = [proc EXCEPT ![q] = Idle]
    /\ UNCHANGED <<trade, chain, inFlight>>

HoldingsRead(q) ==
    /\ proc[q].pc = "holdings"
    /\ proc' = [proc EXCEPT ![q].pc = "decide", ![q].size = shown]
    /\ UNCHANGED <<trade, chain, inFlight>>

\* Less than 5% of the lot: a ghost.  Less than 85%: over-booked.
IsGhost(lot, held) == held * 100 < lot * 5

\* Mutant: the comparison is the wrong way round.
UnderBooked(lot, held) == held * 85 > lot * 100

IsOverbooked(lot, held) == held * 100 < lot * 85

\* Rows without a quantity are dropped at any age.
IsUnbacked(c) == c.amt = 0 \/ (PastGrace(c.ids) /\ IsGhost(c.amt, c.size))

\* A lot that seems to be a ghost may have its balance read once more.
HoldingsReread(q) ==
    /\ proc[q].pc = "decide"
    /\ PastGrace(proc[q].ids) /\ IsGhost(proc[q].amt, proc[q].size)
    /\ proc' = [proc EXCEPT ![q].size = shown]
    /\ UNCHANGED <<trade, chain, inFlight>>

CancelGhosts(q) ==
    /\ proc[q].pc = "decide"
    /\ IsUnbacked(proc[q])
    /\ trade' = CancelIfOpen(trade, proc[q].ids)
    /\ proc' = [proc EXCEPT ![q] = Idle]
    /\ UNCHANGED <<chain, inFlight>>

\* The oldest row takes what is held; the others are cancelled in a second
\* write.
ScaleDown(q) ==
    /\ proc[q].pc = "decide" /\ ~IsUnbacked(proc[q])
    /\ PastGrace(proc[q].ids)
    /\ IsOverbooked(proc[q].amt, proc[q].size)
    /\ trade' = [trade EXCEPT ![Min(proc[q].ids)].alloc = proc[q].size]
    /\ Goes(q, "tidyCancel")
    /\ UNCHANGED <<chain, inFlight>>

CancelScaled(q) ==
    /\ proc[q].pc = "tidyCancel"
    /\ trade' = CancelIfOpen(trade, proc[q].ids \ Oldest(proc[q].ids))
    /\ proc' = [proc EXCEPT ![q] = Idle]
    /\ UNCHANGED <<chain, inFlight>>

LeaveAlone(q) ==
    /\ proc[q].pc = "decide" /\ ~IsUnbacked(proc[q])
    /\ PastGrace(proc[q].ids) => ~IsOverbooked(proc[q].amt, proc[q].size)
    /\ proc' = [proc EXCEPT ![q] = Idle]
    /\ UNCHANGED <<trade, chain, inFlight>>

-----------------------------------------------------------------------------

\* An await of a call throws: a quote, a balance, the database.  A merge does
\* not throw through its callers.
Throws(p) ==
    /\ proc[p].pc \notin {"idle", "merge", "mergeWrite", "mergeCancel"}
    /\ proc' = [proc EXCEPT ![p] = Idle]
    /\ IF proc[p].pc \in {"booking", "write"} THEN ClearMark(p) ELSE UNCHANGED inFlight
    /\ UNCHANGED <<trade, chain>>

TidyThrows(q) ==
    /\ proc[q].pc \in {"burstWrite", "opens", "holdings", "decide", "tidyCancel"}
    /\ Disturbs
    /\ proc' = [proc EXCEPT ![q] = IF @.pc = "burstWrite" THEN [Idle EXCEPT !.pc = "merge", !.kind = "tidy"]
                                   ELSE Idle]
    /\ UNCHANGED <<trade, wallet, shown, inFlight>>

\* A server restarts: its calls and its map are gone.
Restart(s) ==
    /\ Disturbs
    /\ \E p \in Procs : Home[p] = s /\ proc[p] # Idle
    /\ proc' = [p \in Procs |-> IF Home[p] = s THEN Idle ELSE proc[p]]
    /\ inFlight' = [inFlight EXCEPT ![s] = "clear"]
    /\ UNCHANGED <<trade, wallet, shown>>

BookStep(p) ==
    \/ GuardAdmits(p) \/ GuardRefuses(p) \/ BookReads(p) \/ BookBuy(p) \/ BookSkim(p)
    \/ BookClose(p) \/ CancelExtras(p) \/ BookLoneSell(p) \/ TrimReads(p) \/ TrimCancels(p)

MergeStep(p) ==
    \/ MergeReads(p) \/ MergeWrites(p) \/ MergeCancels(p) \/ MergeThrows(p)

TidyStep(q) ==
    \/ BurstReads(q) \/ BurstWrites(q)
    \/ OpensRead(q) \/ HoldingsRead(q) \/ HoldingsReread(q)
    \/ CancelGhosts(q) \/ ScaleDown(q) \/ CancelScaled(q) \/ LeaveAlone(q)

Next ==
    \/ Convert \/ RpcCatchesUp
    \/ \E r \in RowIds : GraceEnds(r)
    \/ \E s \in Servers : MarkExpires(s) \/ Restart(s)
    \/ \E p \in Traders :
          \/ BuyFills(p) \/ StartSell(p) \/ StartSkim(p) \/ SizeSkim(p) \/ StartSellOpen(p)
          \/ SellFills(p) \/ SellClearsGhosts(p) \/ BookStep(p) \/ Throws(p)
    \/ \E p \in Procs : MergeStep(p)
    \/ \E q \in Tidiers : TidyStep(q) \/ TidyThrows(q)

Spec == Init /\ [][Next]_vars

\* RPC nodes catch up, time passes, every await returns or throws, and the
\* watcher starts a reconcile again and again.
FairSpec ==
    /\ Spec
    /\ WF_vars(RpcCatchesUp)
    /\ \A r \in RowIds : WF_vars(GraceEnds(r))
    /\ \A p \in Traders : WF_vars(SizeSkim(p) \/ BookStep(p) \/ MergeStep(p) \/ Throws(p))
    /\ \A q \in Tidiers : WF_vars(TidyStep(q) \/ MergeStep(q))

-----------------------------------------------------------------------------
(* Properties *)

Booked == Alloc(OpenRows)

Buying(p) == proc[p].kind = "buy" /\ proc[p].pc # "filled"

\* The mark that refuses further BUYs never outlives the booking that set it,
\* whichever way that booking ends and whoever's mark its finally deletes.
NoStaleMark ==
    \A s \in Servers : inFlight[s] # "clear" => \E p \in Traders : Home[p] = s /\ Buying(p)

\* The reconcile never cancels or scales down a row younger than the grace
\* period, however the rows change between its reads and its writes.
GraceIsKept ==
    [][\A q \in Tidiers :
          (proc[q].pc \in {"decide", "tidyCancel"} /\ proc'[q].pc # proc[q].pc) =>
          \A r \in RowIds : trade[r].fresh => trade'[r] = trade[r]]_vars

\* The wallet backs what the OPEN rows claim, up to the 15% the code allows.
Backed == \A held \in {wallet} : Booked * 85 <= held * 100

\* Once trading stops, no row stays over-booked or without backing, whatever
\* the races between bookings, merges and corrections left behind.
OverbookingHeals == <>[]Backed

\* Once trading stops, duplicate OPEN rows are merged into one.
DuplicatesMerge == <>[](Cardinality(OpenRows) <= 1)

\* "Prevent parallel duplicate BUYs for the same pair": while a BUY is being
\* booked on a server no other BUY fills there.
NoParallelBuys ==
    [][\A p, q \in Traders :
          (Home[p] = Home[q] /\ Buying(p) /\ proc[q].kind # "buy") => proc'[q].kind # "buy"]_vars
=============================================================================
