------------------------------- MODULE CexDesk -------------------------------
(***************************************************************************)
(* Auto Binance of one user: the CEX Super Machine's ticks                 *)
(* (agents/cexSuperMachineService.ts), started by a timer whether or not   *)
(* the last one is over, and the requests of the manual desk               *)
(* (trading/cexManualTradingService.ts).  They share one row with one open *)
(* lot, which every one of them reads first, trades on Binance upon, and   *)
(* writes afterwards.  A lot is of a trading pair: a coin and the          *)
(* stablecoin it is bought with.  The balances of the stablecoins are not  *)
(* followed, so that either pair of a coin may be resolved at any time.    *)
(***************************************************************************)
EXTENDS Integers, FiniteSets

CONSTANTS
    Ticks, Desk,     \* ticks and requests that may be in flight at once
    Bases, Watch,    \* coins, and watchSymbol, the pair the machine buys
    MaxOrders,       \* bound: orders sent
    MaxTroubled      \* bound: orders sent once something overlapped or was lost

(* BTCUSDT, BTCUSDC and so on.                                             *)
Symbols == [base : Bases, quote : {"USDT", "USDC"}]

CexAssumption ==
    Watch \in Symbols /\ MaxOrders \in Nat /\ MaxTroubled \in Nat /\ IsFiniteSet(Ticks)

VARIABLES
    lotRow,     \* cexSuperMachineConfig
    coins,      \* free balances on Binance
    tick, desk, \* what is in flight
    peakWrites, \* ticks whose un-awaited write of the trailing peak is under way
    skimHot,    \* skimCooldownByUser is less than 45 s old
    orders,
    entitled,   \* history: of each pair, executed for its lot and not sold through it since
    burst,      \* history: buys booked since lastBuyAt was last 8 minutes old
    serial      \* history: nothing overlapped, no answer or write was lost

cexVars == <<lotRow, coins, tick, desk, peakWrites, skimHot, orders, entitled, burst, serial>>

NoSymbol == [base |-> "none", quote |-> "none"]
Unit == 40          \* a buy, in coins of which an exchange keeps
Commission == 1     \* at most one, and a skim sells
Half == 20
NoLot == [sym |-> NoSymbol, qty |-> 0, armed |-> FALSE, skimmed |-> FALSE]
Off == [on |-> FALSE, hot |-> FALSE, lot |-> NoLot]
Rest == [pc |-> "idle", seen |-> Off, sym |-> NoSymbol, qty |-> 0]
HasLot(r) == r.lot.sym # NoSymbol /\ r.lot.qty > 0
Least(m, n) == IF m < n THEN m ELSE n
Quiet == (\A t \in Ticks : tick[t].pc = "idle") /\ (\A d \in Desk : desk[d].pc = "idle") /\ peakWrites = {}

Init ==
    /\ lotRow \in {Off, [Off EXCEPT !.on = TRUE]}
    /\ coins = [b \in Bases |-> Unit]
    /\ tick = [t \in Ticks |-> Rest] /\ desk = [d \in Desk |-> Rest]
    /\ peakWrites = {} /\ skimHot = FALSE /\ orders = 0
    /\ entitled = [s \in Symbols |-> 0]
    /\ burst = 0 /\ serial = TRUE

-----------------------------------------------------------------------------
(* placeOrder: the market order fills, is refused, or fills and the answer *)
(* is lost.  What was executed is booked, although the commission of a buy *)
(* may be taken in the coin.                                               *)
MaySend == orders < MaxOrders /\ (serial \/ orders < MaxTroubled)
Bought(s, n) ==
    /\ \E fee \in {0, Commission} : coins' = [coins EXCEPT ![s.base] = @ + n - fee]
    /\ entitled' = [entitled EXCEPT ![s] = @ + n]
Sold(s, n) ==
    /\ coins[s.base] >= n
    /\ coins' = [coins EXCEPT ![s.base] = @ - n]
    /\ entitled' = [entitled EXCEPT ![s] = @ - n]
Forgotten(s) == entitled' = [entitled EXCEPT ![s] = 0]

-----------------------------------------------------------------------------
(* tickAll reads the rows that are on; tickUser works on what it read.     *)
StartTick(t) ==
    /\ tick[t].pc = "idle" /\ lotRow.on
    /\ tick' = [tick EXCEPT ![t] = [Rest EXCEPT !.pc = "balances", !.seen = lotRow]]
    /\ serial' = (serial /\ Quiet)
    /\ UNCHANGED <<lotRow, coins, desk, peakWrites, skimHot, orders, entitled, burst>>

(* No connection, not ready, Binance or a council does not answer: the     *)
(* tick returns or throws before it trades.                                *)
TickStops(t) ==
    /\ tick[t].pc \in {"balances", "clear", "judge", "council"}
    /\ tick' = [tick EXCEPT ![t] = Rest]
    /\ UNCHANGED <<lotRow, coins, desk, peakWrites, skimHot, orders, entitled, burst, serial>>

(* GHOST_LOT_FRACTION: less than 5% of the lot is left.                    *)
IsGhostLot(lot, free) == 20 * free < lot.qty

(* The tick takes USDT off the symbol and nothing else: there is no free   *)
(* balance of a coin named BTCUSDC.                                        *)
FreeBase(s) == IF s.quote = "USDT" THEN coins[s.base] ELSE 0

ReadBalances(t) ==
    LET seen == tick[t].seen
        free == FreeBase(seen.lot.sym)
    IN  /\ tick[t].pc = "balances"
        /\ tick' = [tick EXCEPT ![t].pc = IF ~HasLot(seen) THEN "council"
                                          ELSE IF IsGhostLot(seen.lot, free) THEN "clear" ELSE "judge",
                                ![t].qty = IF HasLot(seen) THEN Least(seen.lot.qty, free) ELSE 0]
        /\ UNCHANGED <<lotRow, coins, desk, peakWrites, skimHot, orders, entitled, burst, serial>>

ClearGhost(t) ==
    /\ tick[t].pc = "clear"
    /\ lotRow' = [lotRow EXCEPT !.lot = NoLot] /\ Forgotten(tick[t].seen.lot.sym)
    /\ tick' = [tick EXCEPT ![t].pc = "council", ![t].seen.lot = NoLot]
    /\ UNCHANGED <<coins, desk, peakWrites, skimHot, orders, burst, serial>>

(* The price against the entry: at the take-profit, with a profit worth an *)
(* order of its own or not; above the entry, below the trailing floor or   *)
(* not; a little below the entry; at the stop-loss.                        *)
Prices == {"takeProfit", "smallProfit", "up", "upBelowFloor", "dip", "stopLoss"}

(* computeCexSkimSlice: at most half the lot, and less than what is free.  *)
SkimAllowed(lot, n) == ~skimHot /\ lot.qty >= 2 * Half /\ n > Half

ExitReason(lot, n, price) ==
    CASE price = "takeProfit" -> IF SkimAllowed(lot, n) THEN "skim" ELSE "exit"
      [] price = "smallProfit" \/ (price = "upBelowFloor" /\ lot.armed) -> "exit"
      [] price = "stopLoss" \/ (price = "dip" /\ lot.skimmed) -> "exit"
      [] OTHER -> "council"

(* A new peak that arms the trailing stop is written behind the tick.      *)
Judge(t, price) ==
    LET lot == tick[t].seen.lot
        reason == ExitReason(lot, tick[t].qty, price)
    IN  /\ tick[t].pc = "judge"
        /\ tick' = [tick EXCEPT ![t].pc = reason, ![t].qty = IF reason = "skim" THEN Half ELSE @]
        /\ skimHot' = (skimHot \/ reason = "skim")
        /\ peakWrites' = IF price = "up" /\ ~lot.armed THEN peakWrites \union {t} ELSE peakWrites
        /\ UNCHANGED <<lotRow, coins, desk, orders, entitled, burst, serial>>

PersistPeak(t) ==
    /\ t \in peakWrites
    /\ peakWrites' = peakWrites \ {t}
    /\ \/ lotRow' = [lotRow EXCEPT !.lot.armed = TRUE]
       \/ UNCHANGED lotRow
    /\ UNCHANGED <<coins, tick, desk, skimHot, orders, entitled, burst, serial>>

TickSells(t) ==
    /\ tick[t].pc \in {"skim", "exit"} /\ MaySend
    /\ orders' = orders + 1
    /\ \/ /\ Sold(tick[t].seen.lot.sym, tick[t].qty)
          /\ \/ /\ tick' = [tick EXCEPT ![t].pc = IF @ = "skim" THEN "bookSkim" ELSE "bookExit"]
                /\ UNCHANGED serial
             \/ tick' = [tick EXCEPT ![t] = Rest] /\ serial' = FALSE
       \/ tick' = [tick EXCEPT ![t] = Rest] /\ UNCHANGED <<coins, entitled, serial>>
    /\ UNCHANGED <<lotRow, desk, peakWrites, skimHot, burst>>

(* Mutant: the lot is marked but not cut.                                  *)
KeepsWholeLot(lot, n) == [lotRow.lot EXCEPT !.qty = lot.qty, !.skimmed = TRUE]

(* What the skim leaves of the lot that was read.                          *)
AfterSkim(lot, n) == [lotRow.lot EXCEPT !.qty = lot.qty - n, !.skimmed = TRUE]

TickBooks(t) ==
    /\ \/ tick[t].pc = "bookSkim" /\ lotRow' = [lotRow EXCEPT !.lot = AfterSkim(tick[t].seen.lot, tick[t].qty)]
                                  /\ UNCHANGED burst
                                  /\ UNCHANGED entitled
       \/ tick[t].pc = "bookExit" /\ lotRow' = [lotRow EXCEPT !.lot = NoLot] /\ UNCHANGED burst
                                  /\ Forgotten(tick[t].seen.lot.sym)
       \/ /\ tick[t].pc = "bookBuy"
          /\ lotRow' = [lotRow EXCEPT !.hot = TRUE, !.lot.sym = Watch, !.lot.qty = Unit]
          /\ burst' = burst + 1 /\ UNCHANGED entitled
    /\ tick' = [tick EXCEPT ![t] = Rest]
    /\ UNCHANGED <<coins, desk, peakWrites, skimHot, orders, serial>>

(* The write fails and is logged.                                          *)
TickBookingFails(t) ==
    /\ tick[t].pc \in {"bookSkim", "bookExit", "bookBuy"}
    /\ tick' = [tick EXCEPT ![t] = Rest]
    /\ serial' = FALSE
    /\ UNCHANGED <<lotRow, coins, desk, peakWrites, skimHot, orders, entitled, burst>>

(* Mutant: the 8 minutes since lastBuyAt are not looked at.                *)
NoBuyCooldown(seen) == ~HasLot(seen)

BuyAllowed(seen) == ~HasLot(seen) /\ ~seen.hot

(* The council says BUY and neither lot nor cooldown, as read, forbids it; *)
(* a fill of zero is not booked.                                           *)
CouncilBuys(t) ==
    /\ tick[t].pc = "council" /\ BuyAllowed(tick[t].seen) /\ MaySend
    /\ orders' = orders + 1
    /\ \/ /\ Bought(Watch, Unit)
          /\ \/ tick' = [tick EXCEPT ![t].pc = "bookBuy"] /\ UNCHANGED serial
             \/ tick' = [tick EXCEPT ![t] = Rest] /\ serial' = FALSE
       \/ tick' = [tick EXCEPT ![t] = Rest] /\ UNCHANGED <<coins, entitled, serial>>
    /\ UNCHANGED <<lotRow, desk, peakWrites, skimHot, burst>>

TickStep(t) ==
    \/ TickStops(t) \/ ReadBalances(t) \/ ClearGhost(t) \/ PersistPeak(t)
    \/ \E price \in Prices : Judge(t, price)
    \/ TickSells(t) \/ TickBooks(t) \/ TickBookingFails(t) \/ CouncilBuys(t)

-----------------------------------------------------------------------------
(* setCexSuperMachineSettings: reads the row, names the switch or not, and *)
(* writes all settings.                                                    *)
RequestSettings(d, on) ==
    /\ desk[d].pc = "idle"
    /\ desk' = [desk EXCEPT ![d] = [Rest EXCEPT !.pc = "settings", !.seen.on = on]]
    /\ serial' = (serial /\ Quiet)
    /\ UNCHANGED <<lotRow, coins, tick, peakWrites, skimHot, orders, entitled, burst>>

SaveSettings(d) ==
    /\ desk[d].pc = "settings"
    /\ lotRow' = [lotRow EXCEPT !.on = desk[d].seen.on]
    /\ desk' = [desk EXCEPT ![d] = Rest]
    /\ UNCHANGED <<coins, tick, peakWrites, skimHot, orders, entitled, burst, serial>>

(* executeManualTrade: the preflight, the order, and then the lot is read. *)
ManualBuy(d, s) ==
    /\ desk[d].pc = "idle" /\ MaySend
    /\ orders' = orders + 1
    /\ Bought(s, Unit)
    /\ \/ desk' = [desk EXCEPT ![d] = [Rest EXCEPT !.pc = "readBuy", !.sym = s, !.qty = Unit]] /\ serial' = (serial /\ Quiet)
       \/ serial' = FALSE /\ UNCHANGED desk
    /\ UNCHANGED <<lotRow, tick, peakWrites, skimHot, burst>>

(* previewManualTrade, run again before the order: a sale is of what is    *)
(* free of the coin, through the pair of the larger stablecoin balance.    *)
PreviewAdmits(s, n) == n > 0 /\ n <= coins[s.base]

ManualSell(d, s, n) ==
    /\ desk[d].pc = "idle" /\ MaySend /\ PreviewAdmits(s, n)
    /\ orders' = orders + 1
    /\ coins' = [coins EXCEPT ![s.base] = @ - n]
    /\ \/ desk' = [desk EXCEPT ![d] = [Rest EXCEPT !.pc = "readSell", !.sym = s, !.qty = n]] /\ serial' = (serial /\ Quiet)
       \/ serial' = FALSE /\ UNCHANGED desk
    /\ UNCHANGED <<lotRow, tick, peakWrites, skimHot, entitled, burst>>

ReadLot(d) ==
    /\ desk[d].pc \in {"readBuy", "readSell"}
    /\ desk' = [desk EXCEPT ![d].pc = IF @ = "readBuy" THEN "addLot" ELSE "cutLot", ![d].seen = lotRow]
    /\ UNCHANGED <<lotRow, coins, tick, peakWrites, skimHot, orders, entitled, burst, serial>>

(* A lot of another pair stays; one of this pair grows; none is replaced.  *)
(* What is not in a lot is not the machine's to sell.                      *)
AddLot(d) ==
    LET seen == desk[d].seen
        s == desk[d].sym
    IN  /\ desk[d].pc = "addLot"
        /\ IF HasLot(seen) /\ seen.lot.sym # s
             THEN entitled' = [entitled EXCEPT ![s] = @ - desk[d].qty] /\ UNCHANGED lotRow
             ELSE /\ lotRow' = [lotRow EXCEPT !.lot.sym = s,
                                  !.lot.qty = IF HasLot(seen) THEN seen.lot.qty + desk[d].qty ELSE desk[d].qty]
                  /\ UNCHANGED entitled
        /\ desk' = [desk EXCEPT ![d] = Rest]
        /\ UNCHANGED <<coins, tick, peakWrites, skimHot, orders, burst, serial>>

(* The lot shrinks; with 5% or less left it is closed, but without         *)
(* CLEAR_OPEN_LOT: what was armed or skimmed stays in the row.  A sale of  *)
(* the lot's coin through its other pair leaves the lot whole.             *)
CutLot(d) ==
    LET seen == desk[d].seen
        s == desk[d].sym
        rest == seen.lot.qty - desk[d].qty
    IN  /\ desk[d].pc = "cutLot"
        /\ IF HasLot(seen) /\ seen.lot.sym = s
             THEN IF 20 * rest <= seen.lot.qty
                    THEN lotRow' = [lotRow EXCEPT !.lot.sym = NoSymbol, !.lot.qty = 0] /\ Forgotten(s)
                    ELSE /\ lotRow' = [lotRow EXCEPT !.lot.qty = rest]
                         /\ entitled' = [entitled EXCEPT ![s] = @ - desk[d].qty]
             ELSE UNCHANGED <<lotRow, entitled>>
        /\ desk' = [desk EXCEPT ![d] = Rest]
        /\ UNCHANGED <<coins, tick, peakWrites, skimHot, orders, burst, serial>>

(* skimCexPositionProfit: the lot as read, at most half of it sold, the    *)
(* rest kept.                                                              *)
RequestSkim(d) ==
    /\ desk[d].pc = "idle" /\ HasLot(lotRow) /\ lotRow.lot.qty >= 2 * Half
    /\ desk' = [desk EXCEPT ![d] = [pc |-> "skim", seen |-> lotRow, sym |-> lotRow.lot.sym, qty |-> Half]]
    /\ serial' = (serial /\ Quiet)
    /\ UNCHANGED <<lotRow, coins, tick, peakWrites, skimHot, orders, entitled, burst>>

DeskSkims(d) ==
    /\ desk[d].pc = "skim" /\ MaySend
    /\ orders' = orders + 1
    /\ \/ /\ Sold(desk[d].sym, Half)
          /\ \/ desk' = [desk EXCEPT ![d].pc = "bookSkim"] /\ UNCHANGED serial
             \/ desk' = [desk EXCEPT ![d] = Rest] /\ serial' = FALSE
       \/ desk' = [desk EXCEPT ![d] = Rest] /\ UNCHANGED <<coins, entitled, serial>>
    /\ UNCHANGED <<lotRow, tick, peakWrites, skimHot, burst>>

DeskBooksSkim(d) ==
    /\ desk[d].pc = "bookSkim"
    /\ lotRow' = [lotRow EXCEPT !.lot = AfterSkim(desk[d].seen.lot, Half)]
    /\ desk' = [desk EXCEPT ![d] = Rest]
    /\ UNCHANGED <<coins, tick, peakWrites, skimHot, orders, entitled, burst, serial>>

(* Any of the writes after an order fails.                                 *)
DeskFails(d) ==
    /\ desk[d].pc \notin {"idle", "settings", "skim"}
    /\ desk' = [desk EXCEPT ![d] = Rest]
    /\ serial' = FALSE
    /\ UNCHANGED <<lotRow, coins, tick, peakWrites, skimHot, orders, entitled, burst>>

DeskStep(d) ==
    \/ \E on \in {TRUE, FALSE, lotRow.on} : RequestSettings(d, on)
    \/ SaveSettings(d)
    \/ \E s \in Symbols : ManualBuy(d, s) \/ \E n \in {Half, coins[s.base]} : ManualSell(d, s, n)
    \/ ReadLot(d) \/ AddLot(d) \/ CutLot(d) \/ RequestSkim(d) \/ DeskSkims(d) \/ DeskBooksSkim(d) \/ DeskFails(d)

-----------------------------------------------------------------------------
(* The user sells on Binance itself.                                       *)
SellElsewhere(b) ==
    /\ MaySend /\ coins[b] > 0
    /\ orders' = orders + 1
    /\ coins' = [coins EXCEPT ![b] = 0]
    /\ UNCHANGED <<lotRow, tick, desk, peakWrites, skimHot, entitled, burst, serial>>

BuyCooldownEnds ==
    /\ lotRow.hot
    /\ lotRow' = [lotRow EXCEPT !.hot = FALSE]
    /\ burst' = 0
    /\ UNCHANGED <<coins, tick, desk, peakWrites, skimHot, orders, entitled, serial>>

SkimCooldownEnds ==
    /\ skimHot /\ skimHot' = FALSE
    /\ UNCHANGED <<lotRow, coins, tick, desk, peakWrites, orders, entitled, burst, serial>>

Restart ==
    /\ ~Quiet
    /\ tick' = [t \in Ticks |-> Rest] /\ desk' = [d \in Desk |-> Rest]
    /\ peakWrites' = {} /\ skimHot' = FALSE /\ serial' = FALSE
    /\ UNCHANGED <<lotRow, coins, orders, entitled, burst>>

Next ==
    \/ \E t \in Ticks : StartTick(t) \/ TickStep(t)
    \/ \E d \in Desk : DeskStep(d)
    \/ \E b \in Bases : SellElsewhere(b)
    \/ BuyCooldownEnds \/ SkimCooldownEnds \/ Restart

Spec == Init /\ [][Next]_cexVars

-----------------------------------------------------------------------------
LotType == [sym : Symbols \union {NoSymbol}, qty : Int, armed : BOOLEAN, skimmed : BOOLEAN]
RowType == [on : BOOLEAN, hot : BOOLEAN, lot : LotType]
CallType ==
    [pc : {"idle", "balances", "clear", "judge", "skim", "exit", "bookSkim", "bookExit", "council", "bookBuy",
           "settings", "readBuy", "readSell", "addLot", "cutLot"},
     seen : RowType, sym : Symbols \union {NoSymbol}, qty : Nat]

(* Every variable keeps its shape; no balance and no lot goes below zero.  *)
TypeOK ==
    /\ lotRow \in RowType /\ lotRow.lot.qty >= 0
    /\ coins \in [Bases -> Nat]
    /\ tick \in [Ticks -> CallType] /\ desk \in [Desk -> CallType]
    /\ peakWrites \subseteq Ticks /\ skimHot \in BOOLEAN /\ orders \in 0..MaxOrders
    /\ entitled \in [Symbols -> Int] /\ burst \in Nat /\ serial \in BOOLEAN

(* cexManualTradingService.ts:476-555, cexSuperMachineService.ts:558-620:  *)
(* as long as ticks and requests come one after the other and no answer is *)
(* lost, the lot never claims more than was executed through its pair and  *)
(* not sold through it, however it is topped up, cut, closed by hand,      *)
(* skimmed or cleared as a ghost.  So no exit or skim sells more than      *)
(* that; but it sells coins of the user's own after a sale of the same     *)
(* coin through the other pair or on Binance itself, and instead of a      *)
(* commission.                                                             *)
LotIsBacked ==
    serial /\ Quiet =>
        /\ \A s \in Symbols : entitled[s] >= 0
        /\ HasLot(lotRow) => lotRow.lot.qty <= entitled[lotRow.lot.sym]

(* cexSuperMachineService.ts:670-672: lot and lastBuyAt are those the tick *)
(* read at its start, so ticks that overlap all buy; but a cooldown sees   *)
(* no more buys than ticks can overlap.                                    *)
BuysPerCooldown == burst <= Cardinality(Ticks)
=============================================================================
