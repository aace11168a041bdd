------------------------------ MODULE TradeLog ------------------------------
(***************************************************************************)
(* The book of swaps a user signs in an external wallet, the pages of the  *)
(* trade log and the figures drawn from it (routes/trades.ts,              *)
(* lib/roundTripPnl.ts, portfolio/equityService.ts).  Money is in cents,   *)
(* prices are in tenths of a dollar, shares in 1/1000; 0 is a missing      *)
(* price and None a missing profit.                                        *)
(***************************************************************************)
EXTENDS Integers, Sequences, FiniteSets, SequencesExt, FiniteSetsExt

CONSTANTS
    Posts,            \* requests that log one sale at a time
    Fills,            \* what a client may log: pair, alloc, price
    Claims,           \* what a client may send along with a sale: pnl, exit
    Majors,           \* pairs whose price may be high
    Limit,            \* rows of a page
    Window,           \* rows fetched for a page, more than it shows
    Gas,              \* estimated gas of a round trip
    Slippages,        \* of an auto-exit
    MaxRows,          \* bounds on the rows
    MaxSales,         \* and on the sales
    None

TradeLogAssumption ==
    /\ \A f \in Fills : f.alloc \in Nat /\ f.price \in Nat \ {0}
    /\ Limit \in Nat \ {0} /\ Window >= Limit /\ Gas \in Nat /\ MaxRows \in Nat /\ MaxSales \in Nat
    /\ Slippages \subseteq 0..1000 /\ \A c \in Claims : c.pnl \in Int \union {None} /\ c.exit \in Nat

VARIABLES
    rows,             \* the user's rows, oldest first
    post,             \* the sale each request is logging: found, fill, claim
    sold,             \* sales logged
    odd               \* history: "overlap", two sales were under way at once

logVars == <<rows, post, sold, odd>>

Idle == [busy |-> FALSE]
Init == rows = <<>> /\ post = [p \in Posts |-> Idle] /\ sold = 0 /\ odd = {}

Row(f, open, exit, pnl) ==
    [pair |-> f.pair, alloc |-> f.alloc, entry |-> f.price, exit |-> exit, pnl |-> pnl, open |-> open]
Open(pair) == {k \in DOMAIN rows : rows[k].open /\ rows[k].pair = pair}
Busy == {p \in Posts : post[p].busy}

-----------------------------------------------------------------------------
(* POST /log-execution, BUY: a new open row, whatever profit was sent.     *)
LogBuy(f) ==
    /\ Len(rows) + Cardinality(Busy) < MaxRows
    /\ rows' = Append(rows, Row(f, TRUE, 0, None))
    /\ UNCHANGED <<post, sold, odd>>

(* SELL: the oldest open row of the pair is looked up ...                  *)
FindOpen(p, f, claim) ==
    /\ ~post[p].busy /\ Len(rows) + Cardinality(Busy) < MaxRows /\ sold + Cardinality(Busy) < MaxSales
    /\ post' = [post EXCEPT ![p] =
          [busy |-> TRUE, fill |-> f, claim |-> claim,
           found |-> IF Open(f.pair) = {} THEN 0 ELSE Min(Open(f.pair))]]
    /\ odd' = IF Busy = {} THEN odd ELSE odd \union {"overlap"}
    /\ UNCHANGED <<rows, sold>>

(* ... and closed, as a whole, at the price and for the money received; or *)
(* the sale becomes a closed row of its own, with what the client claims.  *)
LogSell(p) ==
    LET s == post[p]
    IN  /\ s.busy
        /\ rows' = IF s.found = 0
                   THEN Append(rows, Row(s.fill, FALSE, s.claim.exit, s.claim.pnl))
                   ELSE [rows EXCEPT ![s.found].open = FALSE, ![s.found].exit = s.fill.price,
                                     ![s.found].pnl = s.fill.alloc - rows[s.found].alloc]
        /\ post' = [post EXCEPT ![p] = Idle] /\ sold' = sold + 1
        /\ UNCHANGED odd

Next ==
    \/ \E f \in Fills : LogBuy(f)
    \/ \E p \in Posts, f \in Fills, claim \in Claims : FindOpen(p, f, claim)
    \/ \E p \in Posts : LogSell(p)

Spec == Init /\ [][Next]_logVars

-----------------------------------------------------------------------------
Abs(n) == Max({n, -n})

(* n / d rounded to whole cents.                                           *)
Rounded(n, d) == (2 * n + d) \div (2 * d)

(* displayRoundTripPnl: the profit the fills imply, and the stored one for *)
(* a row that lacks a price or an amount.                                  *)
Known(r) == r.alloc > 0 /\ r.entry > 0 /\ r.exit > 0
FillPnl(r) == Rounded(r.alloc * (r.exit - r.entry), r.entry)
Stored(r) == IF r.pnl = None THEN 0 ELSE r.pnl
ShownPnl(r) == IF Known(r) THEN FillPnl(r) ELSE Stored(r)

(* isCorruptDexFillPrices: a price only a slip of decimals explains.       *)
Corrupt(r) ==
    /\ Known(r) /\ r.pair \notin Majors
    /\ \/ (r.entry > 200 \/ r.exit > 200) /\ r.alloc < 50000
       \/ 5 * r.alloc < r.entry /\ r.alloc >= 500

(* isNoiseClosedTrade: dust, or a close at the entry price.                *)
Noise(r) ==
    \/ r.alloc > 0 /\ r.alloc < 50
    \/ /\ r.entry > 0 /\ r.exit > 0
       /\ Abs(r.exit - r.entry) * 10000 < r.entry * 8
       /\ Abs(ShownPnl(r)) < Gas + 1

InLog(r) == r.open \/ r.exit = 0 \/ (~Corrupt(r) /\ ~Noise(r))

(* limitPublicLogLosses: the newest two losses stay, a sale without a lot  *)
(* that claims a loss among them.                                          *)
IsLoss(r) == ~r.open /\ ShownPnl(r) < 0
Kept(log, k) == IsLoss(log[k]) => Cardinality({j \in 1..k - 1 : IsLoss(log[j])}) < 2

(* Mutant: the pages are counted from zero.                                *)
SkippedFromZero(page) == page * Limit

(* GET /trades: the window of a page, filtered and cut.  The rows are      *)
(* given by their places in the log.                                       *)
Skipped(page) == (page - 1) * Limit
Page(page) ==
    LET newest == [k \in DOMAIN rows |-> Len(rows) + 1 - k]
        window == SubSeq(newest, Skipped(page) + 1, Min({Len(rows), Skipped(page) + Window}))
        log == SelectSeq(window, LAMBDA k : InLog(rows[k]))
        kept == SelectSeq([k \in DOMAIN log |-> k], LAMBDA k : Kept([j \in DOMAIN log |-> rows[log[j]]], k))
    IN  [j \in 1..Min({Limit, Len(kept)}) |-> log[kept[j]]]
TotalPages == (Len(rows) + Limit - 1) \div Limit

(* summarizeLedgerWindow: closed round trips only.                         *)
Counted(r) == ~r.open /\ r.exit > 0 /\ InLog(r)
RealizedPnl == MapThenSumSet(LAMBDA k : ShownPnl(rows[k]), {k \in DOMAIN rows : Counted(rows[k])})

(* estimatedNetRoundTripUsd, times 1000 and times the entry price.         *)
EstimatedNet(r, slippage) == r.alloc * (r.exit - r.entry) * (1000 - slippage) - Gas * r.entry * 1000

-----------------------------------------------------------------------------
(* Every variable keeps its shape.                                         *)
TypeOK ==
    /\ Len(rows) <= MaxRows /\ sold \in Nat /\ odd \subseteq {"overlap"}
    /\ \A k \in DOMAIN rows : rows[k].alloc \in Nat /\ rows[k].entry \in Nat \ {0} /\ rows[k].exit \in Nat
                              /\ rows[k].pnl \in Int \union {None} /\ rows[k].open \in BOOLEAN

(* trades.ts:213-262: while sales are logged one at a time each of them is *)
(* a closed row of its own, and a row is closed only by a sale.            *)
SalesAreLogged == odd = {} => Cardinality({k \in DOMAIN rows : ~rows[k].open}) = sold

(* trades.ts:35-124: paging through the log shows every open row and every *)
(* plausible win, although a page is cut after rows were filtered out; and *)
(* no page shows more than two losses.                                     *)
PagesCoverWins ==
    /\ \A k \in DOMAIN rows : InLog(rows[k]) /\ (rows[k].open \/ ShownPnl(rows[k]) >= 0) =>
          \E page \in 1..TotalPages : k \in Range(Page(page))
    /\ \A page \in 1..TotalPages : Cardinality({j \in DOMAIN Page(page) : IsLoss(rows[Page(page)[j]])}) <= 2

(* equityService.ts:476-510, trades.ts:78-124: the round trips the log     *)
(* shows never add up to less than the realized profit of the dashboard.   *)
LogNeverUnderstates ==
    LET shown == {k \in UNION {Range(Page(page)) : page \in 1..TotalPages} : Counted(rows[k])}
    IN  MapThenSumSet(LAMBDA k : ShownPnl(rows[k]), shown) >= RealizedPnl

(* roundTripPnl.ts:82-97: the estimate an auto-exit goes by is higher than *)
(* what is left at the worst price and after gas, by the slippage on the   *)
(* cost of the lot, at every price: slippage is taken off the profit and   *)
(* not off the price.                                                      *)
EstimateOvershoots ==
    \A k \in DOMAIN rows, s \in Slippages :
        LET r == rows[k]
            left == r.alloc * (r.exit * (1000 - s) - r.entry * 1000) - Gas * r.entry * 1000
        IN  Known(r) => EstimatedNet(r, s) = left + r.alloc * s * r.entry
=============================================================================
