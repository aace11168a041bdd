---------------------------- MODULE SmartRouter ----------------------------
(***************************************************************************)
(* The smart execution router (trading/executionRouterService.ts), which   *)
(* quotes Binance Spot and 1inch side by side and trades at the better     *)
(* one, and the book of its Binance trades (trading/binanceSpotQuote-,     *)
(* binanceSpotTradeService.ts).  One user and one token, worth one dollar  *)
(* when it is filled; quoted prices are percent of Binance's mid.  What a  *)
(* 1inch trade does is the subject of OneInch; here it ends the call.      *)
(***************************************************************************)
EXTENDS Integers, Sequences, FiniteSets, FiniteSetsExt

CONSTANTS
    Calls,                        \* requests under way at once
    Amounts, MinUsdt,             \* amounts asked for; smartRouterMinUsdt
    BookPrices, DexPrices,        \* what the venues quote; 0: no quote
    DexMids,                      \* Binance's mid as the 1inch preview read it
    Cap,                          \* smartRouterMaxBuyVsBinanceBps, in percent
    Funds,                        \* USDT on Binance to begin with
    MaxAsks, MaxFaults            \* bounds: requests, answers lost

RouterAssumption == /\ {MinUsdt, Cap, Funds, MaxAsks, MaxFaults} \subseteq Nat /\ Amounts \subseteq Nat \ {0}
                    /\ 0 \in BookPrices /\ 0 \in DexPrices

VARIABLES
    free,     \* the free balances on Binance
    rows,     \* the trade book
    call,     \* what each request is doing
    asks,     \* requests so far
    sales,    \* history: sales that were filled and booked
    odd,      \* history: requests overlapped, or a sale was not of the oldest lot
    faults    \* history: answers lost

routerVars == <<free, rows, call, asks, sales, odd, faults>>

Mid == 100
NoDeal == [side |-> "BUY", amount |-> 0, forced |-> "no", book |-> 0, dex |-> 0, dexMid |-> Mid]
Idle == [pc |-> "idle", deal |-> NoDeal, venue |-> "no", row |-> 0, rest |-> <<>>]

Init ==
    /\ free = [usdt |-> Funds, base |-> 0]
    /\ rows = <<>> /\ call = [c \in Calls |-> Idle]
    /\ asks = 0 /\ sales = 0 /\ odd = FALSE /\ faults = 0

Goto(c, pc) == call' = [call EXCEPT ![c].pc = pc]
Finish(c) == call' = [call EXCEPT ![c] = Idle]
Opens == SelectSeq([r \in DOMAIN rows |-> r], LAMBDA r : rows[r].st = "OPEN")
Qty(seq) == MapThenSumSet(LAMBDA k : rows[seq[k]].qty, DOMAIN seq)

-----------------------------------------------------------------------------
(* quoteBinanceSpotForUser: a balance of zero is not listed, and one that  *)
(* is not listed is not compared.                                          *)
BinanceAvailable(deal) ==
    LET have == IF deal.side = "BUY" THEN free.usdt ELSE free.base
    IN  deal.book > 0 /\ (have = 0 \/ have * 1000 >= deal.amount * 999)

(* What a venue gives for the amount at a price.                           *)
Out(deal, price) == IF deal.side = "BUY" THEN (deal.amount * 10000) \div price ELSE deal.amount * price

PriceAt(deal, v) == IF v = "binance" THEN deal.book ELSE deal.dex
Candidates(deal) == {v \in {"binance", "oneinch"} : PriceAt(deal, v) > 0}

(* pickWinner: more out wins; Binance comes first and wins a tie.          *)
Winner(deal) ==
    LET best == {v \in Candidates(deal) :
                    \A w \in Candidates(deal) : Out(deal, PriceAt(deal, w)) <= Out(deal, PriceAt(deal, v))}
    IN  CASE best = {} -> "no"
          [] "binance" \in best -> "binance"
          [] OTHER -> "oneinch"

(* blockTrade: the winner, and only the winner, is held against the cap.   *)
Blocked(deal) ==
    \/ Winner(deal) = "no"
    \/ /\ deal.side = "BUY"
       /\ \/ PriceAt(deal, Winner(deal)) > (IF Winner(deal) = "binance" THEN Mid ELSE deal.dexMid) + Cap
          \/ deal.amount < MinUsdt

(* executeSmartTrade: the caller may name the venue.                       *)
VenueFor(deal) == IF deal.forced = "no" THEN Winner(deal) ELSE deal.forced

(* getSmartExecutionQuote and the choice of the venue.                     *)
Ask(c) ==
    /\ call[c].pc = "idle" /\ asks < MaxAsks /\ asks' = asks + 1
    /\ \E side \in {"BUY", "SELL"}, amount \in Amounts, forced \in {"no", "binance", "oneinch"},
          book \in BookPrices, dex \in DexPrices, dexMid \in DexMids :
          LET asked == [side |-> side, amount |-> amount, forced |-> forced, book |-> book, dex |-> dex,
                        dexMid |-> IF dex > 0 THEN dexMid ELSE Mid]
              deal == IF BinanceAvailable(asked) THEN asked ELSE [asked EXCEPT !.book = 0]
          IN  /\ ~Blocked(deal)
              /\ call' = [call EXCEPT ![c] = [Idle EXCEPT !.pc = "place", !.deal = deal,
                                !.venue = VenueFor(deal)]]
    /\ odd' = (odd \/ \E d \in Calls : call[d].pc # "idle")
    /\ UNCHANGED <<free, rows, sales, faults>>

(* sellBinanceOpenPosition: all open lots, or what there is of them.       *)
SellOpen(c) ==
    LET lots == Opens
        qty == IF free.base > 0 THEN Min({Qty(lots), free.base}) ELSE Qty(lots)
        deal == [NoDeal EXCEPT !.side = "SELL", !.amount = qty, !.forced = "binance", !.book = Mid]
    IN  /\ call[c].pc = "idle" /\ asks < MaxAsks /\ asks' = asks + 1
        /\ lots # <<>> /\ BinanceAvailable([deal EXCEPT !.amount = Qty(lots)])
        /\ call' = [call EXCEPT ![c] = [Idle EXCEPT !.pc = "place", !.deal = deal, !.venue = "binance",
                                                    !.rest = Tail(lots)]]
        /\ odd' = (odd \/ \E d \in Calls : call[d].pc # "idle")
        /\ UNCHANGED <<free, rows, sales, faults>>

Filled(deal) ==
    IF deal.side = "BUY" THEN [usdt |-> free.usdt - deal.amount, base |-> free.base + deal.amount]
    ELSE [usdt |-> free.usdt + deal.amount, base |-> free.base - deal.amount]

(* placeOrder: filled, filled with the answer lost, or turned down.  A     *)
(* trade at 1inch leaves this book alone.                                  *)
Place(c) ==
    LET deal == call[c].deal
    IN  /\ call[c].pc = "place"
        /\ \/ /\ call[c].venue = "binance" /\ Filled(deal).usdt >= 0 /\ Filled(deal).base >= 0
              /\ deal.side = "BUY" => deal.amount >= MinUsdt
              /\ free' = Filled(deal)
              /\ \/ call' = [call EXCEPT ![c].pc = "book", ![c].deal = [NoDeal EXCEPT !.side = deal.side,
                                                                                      !.amount = deal.amount]]
                    /\ UNCHANGED faults
                 \/ faults < MaxFaults /\ faults' = faults + 1 /\ Finish(c)
           \/ Finish(c) /\ UNCHANGED <<free, faults>>
        /\ UNCHANGED <<rows, asks, sales, odd>>

(* The lot of a buy; or the oldest open row for a sale, and if there is    *)
(* none a closed row without a profit.                                     *)
BookFill(c) ==
    LET deal == call[c].deal
    IN  /\ call[c].pc = "book"
        /\ \/ /\ deal.side = "BUY"
              /\ rows' = Append(rows, [qty |-> deal.amount, st |-> "OPEN", pnl |-> FALSE])
              /\ Finish(c) /\ UNCHANGED <<sales, odd>>
           \/ /\ deal.side = "SELL" /\ Opens # <<>>
              /\ call' = [call EXCEPT ![c].pc = "close", ![c].row = Opens[1]]
              /\ odd' = (odd \/ deal.amount # rows[Opens[1]].qty + Qty(call[c].rest))
              /\ UNCHANGED <<rows, sales>>
           \/ /\ deal.side = "SELL" /\ Opens = <<>>
              /\ rows' = Append(rows, [qty |-> deal.amount, st |-> "CLOSED", pnl |-> FALSE])
              /\ sales' = sales + 1 /\ odd' = TRUE
              /\ Goto(c, "cancel")
        /\ UNCHANGED <<free, asks, faults>>

(* The row is closed whole, whatever was sold, and without another look.   *)
CloseRow(c) ==
    /\ call[c].pc = "close"
    /\ rows' = [rows EXCEPT ![call[c].row].st = "CLOSED", ![call[c].row].pnl = TRUE]
    /\ sales' = sales + 1
    /\ Goto(c, "cancel")
    /\ UNCHANGED <<free, asks, odd, faults>>

(* After "Sell now" the other lots it read are cancelled one by one.       *)
CancelNext(c) ==
    LET rest == call[c].rest
    IN  /\ call[c].pc = "cancel"
        /\ IF rest = <<>> THEN Finish(c) /\ UNCHANGED rows
           ELSE /\ rows' = [rows EXCEPT ![Head(rest)].st = "CANCELLED"]
                /\ call' = [call EXCEPT ![c].rest = Tail(rest)]
        /\ UNCHANGED <<free, asks, sales, odd, faults>>

Next == \E c \in Calls : Ask(c) \/ SellOpen(c) \/ Place(c) \/ BookFill(c) \/ CloseRow(c) \/ CancelNext(c)

Spec == Init /\ [][Next]_routerVars

-----------------------------------------------------------------------------
Calm == \A c \in Calls : call[c].pc = "idle"

(* Every variable keeps its shape.                                         *)
TypeOK ==
    /\ free.usdt \in Nat /\ free.base \in Nat
    /\ \A r \in DOMAIN rows : rows[r].qty \in Nat /\ rows[r].st \in {"OPEN", "CLOSED", "CANCELLED"}
    /\ \A c \in Calls : /\ call[c].pc \in {"idle", "place", "book", "close", "cancel"}
                        /\ call[c].row \in 0..Len(rows) /\ call[c].venue \in {"no", "binance", "oneinch"}
    /\ asks \in 0..MaxAsks /\ sales \in 0..MaxAsks /\ odd \in BOOLEAN /\ faults \in 0..MaxFaults

(* executionRouterService.ts:65-103, 171-204: unless the caller names the  *)
(* venue, a trade goes where the price is best among the quotes there are, *)
(* and a buy pays at most Cap above Binance's mid as that quote saw it.    *)
(* The gas of the DEX is not part of the comparison.                       *)
RouteIsBest ==
    \A c \in Calls : call[c].pc = "place" /\ call[c].deal.forced = "no" =>
        LET deal == call[c].deal
            price == PriceAt(deal, call[c].venue)
        IN  /\ price > 0
            /\ call[c].venue = "oneinch" /\ deal.book > 0 =>
                  IF deal.side = "BUY" THEN price <= deal.book ELSE price >= deal.book
            /\ call[c].venue = "binance" /\ deal.dex > 0 =>
                  IF deal.side = "BUY" THEN price <= deal.dex ELSE price >= deal.dex
            /\ deal.side = "BUY" => price <= Max({Mid} \union DexMids) + Cap

(* binanceSpotTradeService.ts:121-230, 233-279: however requests overlap,  *)
(* no more rows are closed than sales were filled.  And as long as each    *)
(* sale is of the oldest lot or by "Sell now", none overlap and no answer  *)
(* is lost, the open rows add up to the tokens on Binance and each sale    *)
(* has its closed row.                                                     *)
SpotBookBalances ==
    LET closed == {r \in DOMAIN rows : rows[r].st = "CLOSED"}
    IN  /\ Cardinality(closed) <= sales
        /\ ~odd /\ faults = 0 /\ Calm => Qty(Opens) = free.base /\ Cardinality(closed) = sales
=============================================================================
