---------------------------- MODULE CexDeskProofs ----------------------------
(***************************************************************************)
(* What the CEX machine and the manual desk of CexDesk promise for any     *)
(* number of ticks, requests and pairs: the type invariant, that the lot   *)
(* is backed as long as nothing overlaps, and that a cooldown sees no more *)
(* buys than ticks.                                                        *)
(***************************************************************************)
EXTENDS CexDesk, FiniteSetTheorems, TLAPS

\* What a tick knows of the lot it read, whatever happens meanwhile.
TickKnows(c) ==
    /\ c.pc \in {"clear", "judge", "skim", "exit", "bookSkim", "bookExit"} => HasLot(c.seen)
    /\ c.pc \in {"judge", "skim", "exit", "bookSkim", "bookExit"} => c.qty <= c.seen.lot.qty
    /\ c.pc \in {"skim", "bookSkim"} => c.seen.lot.qty > Half /\ c.qty = Half
    /\ c.pc = "bookBuy" => ~c.seen.hot

\* And a request of the desk, of the lot and of its own order.
DeskKnows(c) ==
    /\ c.pc \in {"skim", "bookSkim"} =>
          HasLot(c.seen) /\ c.seen.lot.qty > Half /\ c.qty = Half /\ c.sym = c.seen.lot.sym
    /\ c.pc \in {"readBuy", "addLot", "readSell", "cutLot"} => c.sym \in Symbols

Knowing == (\A t \in Ticks : TickKnows(tick[t])) /\ (\A d \in Desk : DeskKnows(desk[d]))

\* During a cooldown only the ticks that began before it may still buy.
Cold == {t \in Ticks : tick[t].pc # "idle" /\ ~tick[t].seen.hot}
Buys ==
    /\ ~lotRow.hot => burst = 0
    /\ burst + Cardinality(Cold) <= Cardinality(Ticks)

-----------------------------------------------------------------------------
(* The lot while nothing overlaps *)

TickBusy(t) == tick[t].pc # "idle"
DeskBusy(d) == desk[d].pc # "idle"
Alone ==
    /\ \A t, u \in Ticks : TickBusy(t) /\ TickBusy(u) => t = u
    /\ \A d, e \in Desk : DeskBusy(d) /\ DeskBusy(e) => d = e
    /\ \A t \in Ticks, d \in Desk : ~(TickBusy(t) /\ DeskBusy(d))
Still == (\A t \in Ticks : ~TickBusy(t)) /\ (\A d \in Desk : ~DeskBusy(d))

\* The lot claims no more than was bought through it, but for n coins of s.
BackedBut(row, ent, s, n) ==
    /\ \A x \in Symbols : ent[x] >= 0
    /\ HasLot(row) => row.lot.qty <= ent[row.lot.sym] + (IF row.lot.sym = s THEN n ELSE 0)
BackedRow(row, ent) == BackedBut(row, ent, NoSymbol, 0)

SameLot(row, seen) == seen.lot.sym = row.lot.sym /\ seen.lot.qty = row.lot.qty

\* What a tick has read is still so until it books; once it has sold, the lot
\* claims too much by what it sold; once it has bought, the coins are there.
TickGood(row, ent, c) ==
    /\ c.pc \in {"balances", "clear", "judge", "skim", "exit", "council"} => BackedRow(row, ent)
    /\ c.pc \in {"balances", "clear", "judge", "skim", "exit", "bookSkim", "bookExit"} =>
          SameLot(row, c.seen)
    /\ c.pc \in {"bookSkim", "bookExit"} => BackedBut(row, ent, c.seen.lot.sym, c.qty)
    /\ c.pc = "bookBuy" => (\A x \in Symbols : ent[x] >= 0) /\ ent[Watch] >= Unit

\* So for the desk; a manual buy is backed besides the lot until it is added.
DeskGood(row, ent, c) ==
    /\ c.pc \notin {"bookSkim", "readBuy", "addLot"} => BackedRow(row, ent)
    /\ c.pc \in {"skim", "bookSkim", "addLot", "cutLot"} => SameLot(row, c.seen)
    /\ c.pc = "bookSkim" => BackedBut(row, ent, c.sym, c.qty)
    /\ c.pc \in {"readBuy", "addLot"} =>
          /\ BackedRow(row, ent) /\ ent[c.sym] >= c.qty
          /\ (HasLot(row) /\ row.lot.sym = c.sym) => row.lot.qty + c.qty <= ent[c.sym]

Backing ==
    serial => /\ Alone
              /\ Still => BackedRow(lotRow, entitled)
              /\ \A t \in Ticks : TickBusy(t) => TickGood(lotRow, entitled, tick[t])
              /\ \A d \in Desk : DeskBusy(d) => DeskGood(lotRow, entitled, desk[d])

\* The inductive invariant.
CInv == CexAssumption /\ TypeOK /\ Knowing /\ Buys /\ Backing

-----------------------------------------------------------------------------
(* Types and knowledge *)

\* The amounts; and a pair is of a coin, but the absent one.
LEMMA Amounts ==
    /\ Unit \in Nat /\ Half \in Nat /\ Half > 0 /\ NoSymbol \notin Symbols
    /\ \A s \in Symbols : s.base \in Bases
  <1>1. Unit \in Nat /\ Half \in Nat /\ Half > 0
    BY DEF Unit, Half
  <1>2. \A s \in Symbols : s.base \in Bases
    BY DEF Symbols
  <1>3. NoSymbol \notin Symbols
    <2>1. \A s \in Symbols : s.quote \in {"USDT", "USDC"}
      BY DEF Symbols
    <2> QED BY <2>1 DEF NoSymbol
  <1> QED BY <1>1, <1>2, <1>3

\* The types, one by one.
LEMMA Types ==
    ASSUME CInv
    PROVE  /\ lotRow \in RowType /\ lotRow.lot.qty >= 0 /\ lotRow.lot.qty \in Int
           /\ lotRow.lot \in LotType
           /\ coins \in [Bases -> Nat] /\ tick \in [Ticks -> CallType] /\ desk \in [Desk -> CallType]
           /\ peakWrites \subseteq Ticks /\ skimHot \in BOOLEAN /\ orders \in 0..MaxOrders
           /\ entitled \in [Symbols -> Int] /\ burst \in Nat /\ serial \in BOOLEAN
           /\ Watch \in Symbols /\ MaxOrders \in Nat /\ IsFiniteSet(Ticks)
  <1>1. lotRow.lot \in LotType
    BY DEF CInv, TypeOK, RowType
  <1>2. lotRow.lot.qty \in Int
    BY <1>1 DEF LotType
  <1> QED BY <1>1, <1>2 DEF CInv, TypeOK, CexAssumption

\* The empty lot, the row that is off and a call that is over are well typed,
\* and there is nothing to know of them.
LEMMA RestFacts ==
    /\ NoLot \in LotType /\ Off \in RowType /\ Rest \in CallType
    /\ TickKnows(Rest) /\ DeskKnows(Rest) /\ Rest.pc = "idle" /\ NoLot.qty = 0 /\ ~HasLot(Off)
  <1>1. NoLot \in LotType
    BY DEF NoLot, LotType
  <1>2. Off \in RowType
    BY <1>1 DEF Off, RowType
  <1>3. Rest \in CallType
    BY <1>2 DEF Rest, CallType
  <1> QED BY <1>1, <1>2, <1>3 DEF Rest, TickKnows, DeskKnows, NoLot, Off, HasLot

\* The parts of a call.
LEMMA CallParts ==
    ASSUME NEW c \in CallType
    PROVE  /\ c.seen \in RowType /\ c.seen.lot \in LotType /\ c.seen.lot.qty \in Int /\ c.qty \in Nat
           /\ c.sym \in Symbols \union {NoSymbol} /\ c.seen.hot \in BOOLEAN
           /\ HasLot(c.seen) => c.seen.lot.sym \in Symbols /\ c.seen.lot.qty > 0
  BY DEF CallType, RowType, LotType, HasLot

\* A lot put into the row.
LEMMA LotWritten ==
    ASSUME NEW row \in RowType, NEW lot \in LotType
    PROVE  /\ [row EXCEPT !.lot = lot] \in RowType /\ [row EXCEPT !.lot = lot].lot = lot
           /\ [row EXCEPT !.lot = lot].hot = row.hot
  BY DEF RowType

\* A pair and an amount put into the row's lot, by the desk or by a buy.
PutLot(row, s, n) == [row EXCEPT !.lot.sym = s, !.lot.qty = n]
PutBuy(row, s, n) == [row EXCEPT !.hot = TRUE, !.lot.sym = s, !.lot.qty = n]

\* What such a row is.
LEMMA LotRewritten ==
    ASSUME NEW row \in RowType, NEW s \in Symbols \union {NoSymbol}, NEW n \in Int
    PROVE  /\ PutLot(row, s, n) \in RowType
           /\ PutLot(row, s, n).lot.sym = s /\ PutLot(row, s, n).lot.qty = n
           /\ PutBuy(row, s, n) \in RowType
           /\ PutBuy(row, s, n).lot.sym = s /\ PutBuy(row, s, n).lot.qty = n
  <1> DEFINE lot == [row.lot EXCEPT !.sym = s, !.qty = n]
  <1>1. row.lot \in LotType
    BY DEF RowType
  <1>2. lot \in LotType /\ lot.sym = s /\ lot.qty = n
    BY <1>1 DEF LotType
  <1>3. /\ PutLot(row, s, n) = [row EXCEPT !.lot = lot]
        /\ PutBuy(row, s, n) = [row EXCEPT !.hot = TRUE, !.lot = lot]
    BY DEF RowType, LotType, PutLot, PutBuy
  <1> HIDE DEF lot
  <1>4. PutLot(row, s, n) \in RowType /\ PutLot(row, s, n).lot = lot
    BY <1>2, <1>3 DEF RowType
  <1>5. PutBuy(row, s, n) \in RowType /\ PutBuy(row, s, n).lot = lot
    BY <1>2, <1>3 DEF RowType
  <1> QED BY <1>2, <1>4, <1>5

\* And the row whose lot the desk closed.
LEMMA LotClosedRow ==
    ASSUME NEW row \in RowType
    PROVE  /\ PutLot(row, NoSymbol, 0) \in RowType
           /\ PutLot(row, NoSymbol, 0).lot.sym = NoSymbol /\ PutLot(row, NoSymbol, 0).lot.qty = 0
  <1>1. NoSymbol \in Symbols \union {NoSymbol} /\ 0 \in Int
    OBVIOUS
  <1> QED BY <1>1, LotRewritten

\* What a skim leaves.
LEMMA LotSkimmed ==
    ASSUME lotRow.lot \in LotType, NEW lot \in LotType, lot.qty > Half
    PROVE  /\ AfterSkim(lot, Half) \in LotType /\ AfterSkim(lot, Half).qty = lot.qty - Half
           /\ AfterSkim(lot, Half).sym = lotRow.lot.sym /\ lot.qty - Half \in Nat
  <1>1. lot.qty - Half \in Nat /\ lot.qty - Half \in Int
    BY Amounts DEF LotType
  <1> DEFINE n == lot.qty - Half
  <1> HIDE DEF n
  <1>2. n \in Int
    BY <1>1 DEF n
  <1>3. /\ [lotRow.lot EXCEPT !.qty = n, !.skimmed = TRUE] \in LotType
        /\ [lotRow.lot EXCEPT !.qty = n, !.skimmed = TRUE].qty = n
        /\ [lotRow.lot EXCEPT !.qty = n, !.skimmed = TRUE].sym = lotRow.lot.sym
    BY <1>2 DEF LotType
  <1> QED BY <1>1, <1>3 DEF n, AfterSkim

\* A step of one tick, or of one request, keeps types and knowledge if the
\* call ends up knowing what it should.
LEMMA TickMoves ==
    ASSUME CInv, NEW t \in Ticks, tick' \in [Ticks -> CallType],
           \A u \in Ticks \ {t} : tick'[u] = tick[u], TickKnows(tick'[t]), desk' = desk,
           lotRow' \in RowType, lotRow'.lot.qty >= 0, coins' \in [Bases -> Nat],
           peakWrites' \subseteq Ticks, skimHot' \in BOOLEAN, orders' \in 0..MaxOrders,
           entitled' \in [Symbols -> Int], burst' \in Nat, serial' \in BOOLEAN
    PROVE  TypeOK' /\ Knowing'
  <1>1. TypeOK'
    BY Types DEF TypeOK
  <1>2. Knowing'
    BY DEF CInv, Knowing
  <1> QED BY <1>1, <1>2

\* So for the desk.
LEMMA DeskMoves ==
    ASSUME CInv, NEW d \in Desk, desk' \in [Desk -> CallType],
           \A e \in Desk \ {d} : desk'[e] = desk[e], DeskKnows(desk'[d]), tick' = tick,
           lotRow' \in RowType, lotRow'.lot.qty >= 0, coins' \in [Bases -> Nat],
           orders' \in 0..MaxOrders,
           entitled' \in [Symbols -> Int], serial' \in BOOLEAN,
           UNCHANGED <<peakWrites, skimHot, burst>>
    PROVE  TypeOK' /\ Knowing'
  <1>1. TypeOK'
    BY Types DEF TypeOK
  <1>2. Knowing'
    BY DEF CInv, Knowing
  <1> QED BY <1>1, <1>2

\* An order is counted within its bound, and moves coins.
LEMMA OrderTypes ==
    ASSUME CInv, NEW s \in Symbols, NEW n \in Nat
    PROVE  /\ MaySend => orders + 1 \in 0..MaxOrders
           /\ coins[s.base] >= n => [coins EXCEPT ![s.base] = @ - n] \in [Bases -> Nat]
           /\ [entitled EXCEPT ![s] = @ + n] \in [Symbols -> Int]
           /\ [entitled EXCEPT ![s] = @ - n] \in [Symbols -> Int]
           /\ [entitled EXCEPT ![s] = 0] \in [Symbols -> Int]
  BY Types, Amounts DEF MaySend

\* A buy brings coins, whoever takes the commission.
LEMMA BoughtTypes ==
    ASSUME CInv, NEW s \in Symbols, Bought(s, Unit)
    PROVE  coins' \in [Bases -> Nat] /\ entitled' \in [Symbols -> Int]
  <1>1. PICK fee \in {0, Commission} : coins' = [coins EXCEPT ![s.base] = @ + Unit - fee]
    BY DEF Bought
  <1>2. s.base \in Bases /\ coins \in [Bases -> Nat]
    BY Types, Amounts
  <1>3. coins[s.base] + Unit - fee \in Nat
    <2>1. coins[s.base] \in Nat
      BY <1>2
    <2> QED BY <2>1 DEF Unit, Commission
  <1>4. coins' \in [Bases -> Nat]
    BY <1>1, <1>2, <1>3
  <1>5. entitled' = [entitled EXCEPT ![s] = @ + Unit]
    BY DEF Bought
  <1> QED BY <1>4, <1>5, OrderTypes, Amounts

\* A tick starts, stops, reads the balances, clears a ghost, or judges.
LEMMA TickReadsTypes ==
    ASSUME CInv, NEW t \in Ticks,
           \/ StartTick(t) \/ TickStops(t) \/ ReadBalances(t) \/ ClearGhost(t) \/ PersistPeak(t)
           \/ \E price \in Prices : Judge(t, price)
           \/ TickBookingFails(t)
    PROVE  TypeOK' /\ Knowing'
  <1>0. /\ lotRow \in RowType /\ lotRow.lot.qty >= 0 /\ lotRow.lot.qty \in Int
        /\ lotRow.lot \in LotType
        /\ coins \in [Bases -> Nat] /\ tick \in [Ticks -> CallType]
        /\ peakWrites \subseteq Ticks /\ skimHot \in BOOLEAN /\ orders \in 0..MaxOrders
        /\ entitled \in [Symbols -> Int] /\ burst \in Nat /\ serial \in BOOLEAN
        /\ tick[t] \in CallType /\ TickKnows(tick[t])
    BY Types DEF CInv, Knowing
  <1>c. /\ tick[t].seen \in RowType /\ tick[t].seen.lot \in LotType /\ tick[t].qty \in Nat
        /\ tick[t].seen.lot.qty \in Int
        /\ HasLot(tick[t].seen) => tick[t].seen.lot.sym \in Symbols /\ tick[t].seen.lot.qty > 0
    BY <1>0, CallParts
  <1>r. NoLot \in LotType /\ Rest \in CallType /\ TickKnows(Rest) /\ NoLot.qty = 0
    BY RestFacts
  <1>1. CASE StartTick(t)
    <2>1. [Rest EXCEPT !.pc = "balances", !.seen = lotRow] \in CallType
      BY <1>0, <1>r DEF CallType
    <2>2. TickKnows([Rest EXCEPT !.pc = "balances", !.seen = lotRow])
      BY DEF Rest, TickKnows
    <2>3. /\ tick' \in [Ticks -> CallType] /\ \A u \in Ticks \ {t} : tick'[u] = tick[u]
          /\ TickKnows(tick'[t])
      BY <1>0, <1>1, <2>1, <2>2 DEF StartTick
    <2>4. serial' \in BOOLEAN
      BY <1>0, <1>1, Zenon DEF StartTick
    <2> QED BY <1>0, <1>1, <2>3, <2>4, TickMoves DEF StartTick
  <1>2. CASE TickStops(t) \/ TickBookingFails(t)
    <2>1. /\ tick' \in [Ticks -> CallType] /\ \A u \in Ticks \ {t} : tick'[u] = tick[u]
          /\ TickKnows(tick'[t])
      BY <1>0, <1>2, <1>r DEF TickStops, TickBookingFails
    <2>2. serial' \in BOOLEAN
      BY <1>0, <1>2 DEF TickStops, TickBookingFails
    <2> QED BY <1>0, <1>2, <2>1, <2>2, TickMoves DEF TickStops, TickBookingFails
  <1>3. CASE ReadBalances(t)
    <2> DEFINE seen == tick[t].seen
               pc == IF ~HasLot(seen) THEN "council"
                     ELSE IF IsGhostLot(seen.lot, FreeBase(seen.lot.sym)) THEN "clear" ELSE "judge"
               qty == IF HasLot(seen) THEN Least(seen.lot.qty, FreeBase(seen.lot.sym)) ELSE 0
    <2>1. /\ tick' = [tick EXCEPT ![t].pc = pc, ![t].qty = qty]
          /\ UNCHANGED <<lotRow, coins, desk, peakWrites, skimHot, orders, entitled, burst, serial>>
      BY <1>3 DEF ReadBalances
    <2>f. HasLot(seen) => FreeBase(seen.lot.sym) \in Nat
      BY <1>0, <1>c, Amounts DEF FreeBase
    <2>2. /\ pc \in {"council", "clear", "judge"} /\ (pc # "council" => HasLot(seen))
          /\ qty \in Nat /\ (HasLot(seen) => qty <= seen.lot.qty)
      BY <1>c, <2>f DEF Least
    <2> HIDE DEF pc, qty
    <2>3. /\ tick' \in [Ticks -> CallType] /\ \A u \in Ticks \ {t} : tick'[u] = tick[u]
          /\ tick'[t].pc = pc /\ tick'[t].qty = qty /\ tick'[t].seen = seen
      BY <1>0, <2>1, <2>2 DEF CallType
    <2>4. TickKnows(tick'[t])
      BY <2>2, <2>3 DEF TickKnows
    <2> QED BY <1>0, <2>1, <2>3, <2>4, TickMoves
  <1>4. CASE ClearGhost(t)
    <2>1. /\ lotRow' = [lotRow EXCEPT !.lot = NoLot]
          /\ tick' = [tick EXCEPT ![t].pc = "council", ![t].seen.lot = NoLot]
          /\ entitled' = [entitled EXCEPT ![tick[t].seen.lot.sym] = 0] /\ tick[t].pc = "clear"
          /\ UNCHANGED <<coins, desk, peakWrites, skimHot, orders, burst, serial>>
      BY <1>4 DEF ClearGhost, Forgotten
    <2>6. entitled' \in [Symbols -> Int]
      BY <1>0, <1>c, <2>1 DEF TickKnows
    <2>2. lotRow' \in RowType /\ lotRow'.lot.qty >= 0
      BY <1>0, <1>r, <2>1, LotWritten
    <2>3. [tick[t].seen EXCEPT !.lot = NoLot] \in RowType
      BY <1>c, <1>r, LotWritten
    <2>4. /\ tick' \in [Ticks -> CallType] /\ \A u \in Ticks \ {t} : tick'[u] = tick[u]
          /\ tick'[t].pc = "council"
      BY <1>0, <2>1, <2>3 DEF CallType
    <2>5. TickKnows(tick'[t])
      BY <2>4 DEF TickKnows
    <2> QED BY <1>0, <2>1, <2>2, <2>4, <2>5, <2>6, TickMoves
  <1>5. CASE PersistPeak(t)
    <2>1. /\ peakWrites' \subseteq Ticks /\ UNCHANGED <<coins, tick, desk, skimHot, orders, entitled, burst, serial>>
          /\ lotRow' = lotRow \/ lotRow' = [lotRow EXCEPT !.lot.armed = TRUE]
      BY <1>0, <1>5 DEF PersistPeak
    <2>2. lotRow' \in RowType /\ lotRow'.lot.qty >= 0
      BY <1>0, <2>1 DEF RowType, LotType
    <2> QED BY <1>0, <2>1, <2>2, TickMoves
  <1>6. ASSUME NEW price \in Prices, Judge(t, price) PROVE TypeOK' /\ Knowing'
    <2> DEFINE lot == tick[t].seen.lot
               reason == ExitReason(lot, tick[t].qty, price)
               qty == IF reason = "skim" THEN Half ELSE tick[t].qty
    <2>1. /\ tick[t].pc = "judge" /\ tick' = [tick EXCEPT ![t].pc = reason, ![t].qty = qty]
          /\ peakWrites' \subseteq Ticks
          /\ UNCHANGED <<lotRow, coins, desk, orders, entitled, burst, serial>>
      BY <1>0, <1>6 DEF Judge
    <2>2. skimHot' \in BOOLEAN
      BY <1>0, <1>6, Zenon DEF Judge
    <2>3. /\ reason \in {"skim", "exit", "council"}
          /\ reason = "skim" => lot.qty > Half
      <3>1. SkimAllowed(lot, tick[t].qty) => lot.qty > Half
        BY <1>c DEF SkimAllowed, Half
      <3> QED BY <1>6, <3>1 DEF ExitReason, Prices
    <2>4. HasLot(tick[t].seen) /\ tick[t].qty <= lot.qty
      BY <1>0, <2>1 DEF TickKnows
    <2>5. qty \in Nat /\ qty <= lot.qty /\ (reason = "skim" => qty = Half)
      BY <1>c, <2>3, <2>4, Amounts
    <2> HIDE DEF reason, qty
    <2>6. /\ tick' \in [Ticks -> CallType] /\ \A u \in Ticks \ {t} : tick'[u] = tick[u]
          /\ tick'[t].pc = reason /\ tick'[t].qty = qty /\ tick'[t].seen = tick[t].seen
      BY <1>0, <2>1, <2>3, <2>5 DEF CallType
    <2>7. TickKnows(tick'[t])
      BY <2>3, <2>4, <2>5, <2>6 DEF TickKnows
    <2> QED BY <1>0, <2>1, <2>2, <2>6, <2>7, TickMoves
  <1> QED BY <1>1, <1>2, <1>3, <1>4, <1>5, <1>6

\* A tick sells, buys, and books what it did.
LEMMA TickTradesTypes ==
    ASSUME CInv, NEW t \in Ticks, TickSells(t) \/ CouncilBuys(t) \/ TickBooks(t)
    PROVE  TypeOK' /\ Knowing'
  <1>0. /\ lotRow \in RowType /\ lotRow.lot.qty >= 0 /\ lotRow.lot.qty \in Int
        /\ lotRow.lot \in LotType /\ Watch \in Symbols /\ Unit \in Nat
        /\ coins \in [Bases -> Nat] /\ tick \in [Ticks -> CallType]
        /\ peakWrites \subseteq Ticks /\ skimHot \in BOOLEAN /\ orders \in 0..MaxOrders
        /\ entitled \in [Symbols -> Int] /\ burst \in Nat /\ serial \in BOOLEAN
        /\ tick[t] \in CallType /\ TickKnows(tick[t])
    BY Types DEF CInv, Knowing, Unit
  <1>c. /\ tick[t].seen \in RowType /\ tick[t].seen.lot \in LotType /\ tick[t].qty \in Nat
        /\ tick[t].seen.lot.qty \in Int
        /\ HasLot(tick[t].seen) => tick[t].seen.lot.sym \in Symbols /\ tick[t].seen.lot.qty > 0
    BY <1>0, CallParts
  <1>r. NoLot \in LotType /\ Rest \in CallType /\ TickKnows(Rest) /\ NoLot.qty = 0
    BY RestFacts
  <1>1. CASE TickSells(t)
    <2>1. /\ tick[t].pc \in {"skim", "exit"} /\ MaySend /\ orders' = orders + 1
          /\ UNCHANGED <<lotRow, desk, peakWrites, skimHot, burst>>
          /\ \/ tick' = [tick EXCEPT ![t].pc = IF @ = "skim" THEN "bookSkim" ELSE "bookExit"]
             \/ tick' = [tick EXCEPT ![t] = Rest]
          /\ \/ Sold(tick[t].seen.lot.sym, tick[t].qty)
             \/ UNCHANGED <<coins, entitled>>
      BY <1>1 DEF TickSells
    <2>2. tick[t].seen.lot.sym \in Symbols
      BY <1>0, <1>c, <2>1 DEF TickKnows
    <2>3. coins' \in [Bases -> Nat] /\ entitled' \in [Symbols -> Int] /\ orders' \in 0..MaxOrders
      <3>1. CASE UNCHANGED <<coins, entitled>>
        BY <1>0, <2>1, <2>2, <3>1, OrderTypes
      <3>2. CASE Sold(tick[t].seen.lot.sym, tick[t].qty)
        <4> DEFINE s == tick[t].seen.lot.sym
                   n == tick[t].qty
        <4>1. /\ coins[s.base] >= n /\ coins' = [coins EXCEPT ![s.base] = @ - n]
              /\ entitled' = [entitled EXCEPT ![s] = @ - n] /\ s \in Symbols /\ n \in Nat
          BY <1>c, <2>2, <3>2 DEF Sold
        <4> HIDE DEF s, n
        <4> QED BY <2>1, <4>1, OrderTypes
      <3> QED BY <2>1, <3>1, <3>2
    <2>4. /\ tick' \in [Ticks -> CallType] /\ \A u \in Ticks \ {t} : tick'[u] = tick[u]
          /\ TickKnows(tick'[t])
      BY <1>0, <1>r, <2>1 DEF CallType, TickKnows
    <2>5. serial' \in BOOLEAN
      BY <1>0, <1>1, Zenon DEF TickSells
    <2> QED BY <1>0, <2>1, <2>3, <2>4, <2>5, TickMoves
  <1>2. CASE CouncilBuys(t)
    <2>1. /\ tick[t].pc = "council" /\ ~tick[t].seen.hot /\ MaySend /\ orders' = orders + 1
          /\ UNCHANGED <<lotRow, desk, peakWrites, skimHot, burst>>
          /\ \/ tick' = [tick EXCEPT ![t].pc = "bookBuy"]
             \/ tick' = [tick EXCEPT ![t] = Rest]
          /\ \/ Bought(Watch, Unit)
             \/ UNCHANGED <<coins, entitled>>
      BY <1>2 DEF CouncilBuys, BuyAllowed
    <2>2. coins' \in [Bases -> Nat] /\ entitled' \in [Symbols -> Int] /\ orders' \in 0..MaxOrders
      BY <1>0, <2>1, OrderTypes, BoughtTypes
    <2>3. /\ tick' \in [Ticks -> CallType] /\ \A u \in Ticks \ {t} : tick'[u] = tick[u]
          /\ TickKnows(tick'[t])
      BY <1>0, <1>r, <2>1 DEF CallType, TickKnows
    <2>4. serial' \in BOOLEAN
      BY <1>0, <1>2, Zenon DEF CouncilBuys
    <2> QED BY <1>0, <2>1, <2>2, <2>3, <2>4, TickMoves
  <1>3. CASE TickBooks(t)
    <2>1. /\ tick' \in [Ticks -> CallType] /\ \A u \in Ticks \ {t} : tick'[u] = tick[u]
          /\ TickKnows(tick'[t])
      BY <1>0, <1>3, <1>r DEF TickBooks
    <2>2. burst' \in Nat
      BY <1>0, <1>3 DEF TickBooks
    <2>3. lotRow' \in RowType /\ lotRow'.lot.qty >= 0
      <3>1. CASE tick[t].pc = "bookSkim"
        <4>1. lotRow' = [lotRow EXCEPT !.lot = AfterSkim(tick[t].seen.lot, tick[t].qty)]
          BY <1>3, <3>1 DEF TickBooks
        <4>2. tick[t].qty = Half /\ tick[t].seen.lot.qty > Half
          BY <1>0, <3>1 DEF TickKnows
        <4>3. /\ AfterSkim(tick[t].seen.lot, tick[t].qty) \in LotType
              /\ AfterSkim(tick[t].seen.lot, tick[t].qty).qty >= 0
          BY <1>0, <1>c, <4>2, LotSkimmed
        <4> QED BY <1>0, <4>1, <4>3, LotWritten
      <3>2. CASE tick[t].pc = "bookExit"
        <4>1. lotRow' = [lotRow EXCEPT !.lot = NoLot]
          BY <1>3, <3>2 DEF TickBooks
        <4> QED BY <1>0, <1>r, <4>1, LotWritten
      <3>3. CASE tick[t].pc = "bookBuy"
        <4>1. lotRow' = [lotRow EXCEPT !.hot = TRUE, !.lot.sym = Watch, !.lot.qty = Unit]
          BY <1>3, <3>3 DEF TickBooks
        <4>2. lotRow' \in RowType /\ lotRow'.lot.qty = Unit
          <5>1. lotRow' = PutBuy(lotRow, Watch, Unit) /\ Watch \in Symbols \union {NoSymbol} /\ Unit \in Int
            BY <1>0, <4>1 DEF PutBuy
          <5>2. lotRow \in RowType
            BY <1>0
          <5> HIDE DEF RowType
          <5> QED BY <5>1, <5>2, LotRewritten
        <4> QED BY <4>2 DEF Unit
      <3> QED BY <1>3, <3>1, <3>2, <3>3 DEF TickBooks
    <2>4. entitled' \in [Symbols -> Int]
      <3>1. \/ entitled' = entitled
            \/ tick[t].pc = "bookExit" /\ entitled' = [entitled EXCEPT ![tick[t].seen.lot.sym] = 0]
        BY <1>3 DEF TickBooks, Forgotten
      <3> QED BY <1>0, <1>c, <3>1 DEF TickKnows
    <2>5. UNCHANGED <<coins, desk, peakWrites, skimHot, orders, serial>>
      BY <1>3 DEF TickBooks
    <2> QED BY <1>0, <2>1, <2>2, <2>3, <2>4, <2>5, TickMoves
  <1> QED BY <1>1, <1>2, <1>3

\* The desk trades.
LEMMA DeskTradesTypes ==
    ASSUME CInv, NEW d \in Desk,
           \/ \E s \in Symbols : ManualBuy(d, s) \/ \E n \in {Half, coins[s.base]} : ManualSell(d, s, n)
           \/ DeskSkims(d)
    PROVE  TypeOK' /\ Knowing'
  <1>0. /\ lotRow \in RowType /\ lotRow.lot.qty >= 0
        /\ coins \in [Bases -> Nat] /\ desk \in [Desk -> CallType] /\ orders \in 0..MaxOrders
        /\ entitled \in [Symbols -> Int] /\ serial \in BOOLEAN /\ Unit \in Nat
        /\ desk[d] \in CallType /\ DeskKnows(desk[d])
    BY Types DEF CInv, Knowing, Unit
  <1>r. Rest \in CallType /\ DeskKnows(Rest)
    BY RestFacts
  <1>s. serial' \in BOOLEAN
    BY <1>0, Zenon DEF ManualBuy, ManualSell, DeskSkims
  <1>n. ASSUME NEW pc \in {"readBuy", "readSell"}, NEW s \in Symbols, NEW n \in Nat
        PROVE  /\ [Rest EXCEPT !.pc = pc, !.sym = s, !.qty = n] \in CallType
               /\ DeskKnows([Rest EXCEPT !.pc = pc, !.sym = s, !.qty = n])
    BY <1>r DEF Rest, CallType, DeskKnows
  <1>1. ASSUME NEW s \in Symbols, ManualBuy(d, s) PROVE TypeOK' /\ Knowing'
    <2>1. /\ MaySend /\ orders' = orders + 1 /\ Bought(s, Unit)
          /\ UNCHANGED <<lotRow, tick, peakWrites, skimHot, burst>>
          /\ \/ desk' = [desk EXCEPT ![d] = [Rest EXCEPT !.pc = "readBuy", !.sym = s, !.qty = Unit]]
             \/ desk' = desk
      BY <1>1 DEF ManualBuy
    <2>2. coins' \in [Bases -> Nat] /\ entitled' \in [Symbols -> Int] /\ orders' \in 0..MaxOrders
      BY <1>0, <2>1, OrderTypes, BoughtTypes
    <2>3. /\ desk' \in [Desk -> CallType] /\ \A e \in Desk \ {d} : desk'[e] = desk[e]
          /\ DeskKnows(desk'[d])
      <3>1. CASE desk' = desk
        BY <1>0, <3>1
      <3>2. CASE desk' # desk
        <4> DEFINE new == [Rest EXCEPT !.pc = "readBuy", !.sym = s, !.qty = Unit]
        <4>1. new \in CallType /\ DeskKnows(new)
          BY <1>0, <1>n
        <4>2. desk' = [desk EXCEPT ![d] = new]
          BY <2>1, <3>2
        <4> HIDE DEF new
        <4> QED BY <1>0, <4>1, <4>2
      <3> QED BY <3>1, <3>2
    <2> QED BY <1>0, <1>s, <2>1, <2>2, <2>3, DeskMoves
  <1>2. ASSUME NEW s \in Symbols, NEW n \in {Half, coins[s.base]}, ManualSell(d, s, n) PROVE TypeOK' /\ Knowing'
    <2>0. n \in Nat
      BY <1>0, Amounts
    <2>1. /\ MaySend /\ orders' = orders + 1 /\ coins' = [coins EXCEPT ![s.base] = @ - n]
          /\ coins[s.base] >= n
          /\ UNCHANGED <<lotRow, tick, peakWrites, skimHot, entitled, burst>>
          /\ \/ desk' = [desk EXCEPT ![d] = [Rest EXCEPT !.pc = "readSell", !.sym = s, !.qty = n]]
             \/ desk' = desk
      BY <1>0, <1>2, <2>0, Amounts DEF ManualSell, PreviewAdmits
    <2>2. coins' \in [Bases -> Nat] /\ orders' \in 0..MaxOrders
      BY <1>0, <2>0, <2>1, OrderTypes
    <2>3. /\ desk' \in [Desk -> CallType] /\ \A e \in Desk \ {d} : desk'[e] = desk[e]
          /\ DeskKnows(desk'[d])
      <3>1. CASE desk' = desk
        BY <1>0, <3>1
      <3>2. CASE desk' # desk
        <4> DEFINE new == [Rest EXCEPT !.pc = "readSell", !.sym = s, !.qty = n]
        <4>1. new \in CallType /\ DeskKnows(new)
          BY <1>n, <2>0
        <4>2. desk' = [desk EXCEPT ![d] = new]
          BY <2>1, <3>2
        <4> HIDE DEF new
        <4> QED BY <1>0, <4>1, <4>2
      <3> QED BY <3>1, <3>2
    <2> QED BY <1>0, <1>s, <2>1, <2>2, <2>3, DeskMoves
  <1>3. CASE DeskSkims(d)
    <2>1. /\ desk[d].pc = "skim" /\ MaySend /\ orders' = orders + 1
          /\ UNCHANGED <<lotRow, tick, peakWrites, skimHot, burst>>
          /\ Sold(desk[d].sym, Half) \/ UNCHANGED <<coins, entitled>>
          /\ desk' = [desk EXCEPT ![d].pc = "bookSkim"] \/ desk' = [desk EXCEPT ![d] = Rest]
      BY <1>3 DEF DeskSkims
    <2>2. desk[d].sym \in Symbols
      BY <1>0, <2>1, CallParts DEF DeskKnows
    <2>3. coins' \in [Bases -> Nat] /\ entitled' \in [Symbols -> Int] /\ orders' \in 0..MaxOrders
      BY <1>0, <2>1, <2>2, OrderTypes, Amounts DEF Sold
    <2>4. /\ desk' \in [Desk -> CallType] /\ \A e \in Desk \ {d} : desk'[e] = desk[e]
          /\ DeskKnows(desk'[d])
      BY <1>0, <1>r, <2>1 DEF CallType, DeskKnows
    <2> QED BY <1>0, <1>s, <2>1, <2>3, <2>4, DeskMoves
  <1> QED BY <1>1, <1>2, <1>3

\* And it reads and writes the row.
LEMMA DeskBooksTypes ==
    ASSUME CInv, NEW d \in Desk,
           \/ \E on \in {TRUE, FALSE, lotRow.on} : RequestSettings(d, on)
           \/ SaveSettings(d) \/ ReadLot(d) \/ AddLot(d) \/ CutLot(d) \/ RequestSkim(d)
           \/ DeskBooksSkim(d) \/ DeskFails(d)
    PROVE  TypeOK' /\ Knowing'
  <1>0. /\ lotRow \in RowType /\ lotRow.lot.qty >= 0 /\ lotRow.lot \in LotType
        /\ lotRow.lot.qty \in Int
        /\ coins \in [Bases -> Nat] /\ desk \in [Desk -> CallType] /\ orders \in 0..MaxOrders
        /\ entitled \in [Symbols -> Int] /\ serial \in BOOLEAN
        /\ desk[d] \in CallType /\ DeskKnows(desk[d])
    BY Types DEF CInv, Knowing
  <1>c. /\ desk[d].seen \in RowType /\ desk[d].seen.lot \in LotType /\ desk[d].qty \in Nat
        /\ desk[d].seen.lot.qty \in Int /\ desk[d].sym \in Symbols \union {NoSymbol}
        /\ HasLot(desk[d].seen) => desk[d].seen.lot.sym \in Symbols /\ desk[d].seen.lot.qty > 0
    BY <1>0, CallParts
  <1>r. Rest \in CallType /\ DeskKnows(Rest) /\ Off \in RowType
    BY RestFacts
  <1>e. ASSUME desk' = [desk EXCEPT ![d] = Rest]
        PROVE  /\ desk' \in [Desk -> CallType] /\ \A e \in Desk \ {d} : desk'[e] = desk[e]
               /\ DeskKnows(desk'[d])
    BY <1>0, <1>r, <1>e
  <1>1. ASSUME NEW on \in {TRUE, FALSE, lotRow.on}, RequestSettings(d, on) PROVE TypeOK' /\ Knowing'
    <2>1. on \in BOOLEAN
      BY <1>0 DEF RowType
    <2>2. Rest.seen \in RowType
      BY <1>r DEF Rest
    <2>3. [Rest EXCEPT !.pc = "settings", !.seen.on = on] \in CallType
      BY <1>r, <2>1, <2>2 DEF CallType, RowType
    <2>4. DeskKnows([Rest EXCEPT !.pc = "settings", !.seen.on = on])
      BY DEF Rest, DeskKnows
    <2>5. /\ desk' \in [Desk -> CallType] /\ \A e \in Desk \ {d} : desk'[e] = desk[e]
          /\ DeskKnows(desk'[d])
      BY <1>0, <1>1, <2>3, <2>4 DEF RequestSettings
    <2>6. serial' \in BOOLEAN
      BY <1>0, <1>1, Zenon DEF RequestSettings
    <2> QED BY <1>0, <1>1, <2>5, <2>6, DeskMoves DEF RequestSettings
  <1>2. CASE SaveSettings(d)
    <2>1. desk[d].seen.on \in BOOLEAN
      BY <1>c DEF RowType
    <2>2. lotRow' \in RowType /\ lotRow'.lot = lotRow.lot
      BY <1>0, <1>2, <2>1 DEF SaveSettings, RowType
    <2> QED BY <1>0, <1>2, <1>e, <2>2, DeskMoves DEF SaveSettings
  <1>3. CASE ReadLot(d)
    <2>1. /\ desk' \in [Desk -> CallType] /\ \A e \in Desk \ {d} : desk'[e] = desk[e]
          /\ DeskKnows(desk'[d])
      BY <1>0, <1>3 DEF ReadLot, CallType, DeskKnows
    <2> QED BY <1>0, <1>3, <2>1, DeskMoves DEF ReadLot
  <1>4. CASE AddLot(d)
    <2>1. desk[d].pc = "addLot" /\ desk[d].sym \in Symbols
      BY <1>0, <1>4 DEF AddLot, DeskKnows
    <2>2. entitled' \in [Symbols -> Int]
      BY <1>0, <1>c, <1>4 DEF AddLot
    <2>3. CASE lotRow' = lotRow
      BY <1>0, <1>4, <1>e, <2>2, <2>3, DeskMoves DEF AddLot
    <2>4. CASE lotRow' # lotRow
      <3>1. PICK n \in Nat : lotRow' = [lotRow EXCEPT !.lot.sym = desk[d].sym, !.lot.qty = n]
        <4>1. CASE HasLot(desk[d].seen)
          <5>1. desk[d].seen.lot.qty + desk[d].qty \in Nat
            BY <1>c, <4>1
          <5> QED BY <1>4, <2>4, <4>1, <5>1 DEF AddLot
        <4>2. CASE ~HasLot(desk[d].seen)
          BY <1>4, <1>c, <2>4, <4>2 DEF AddLot
        <4> QED BY <4>1, <4>2
      <3>2. lotRow' \in RowType /\ lotRow'.lot.qty = n
        <4>1. lotRow' = PutLot(lotRow, desk[d].sym, n) /\ n \in Int
          BY <3>1 DEF PutLot
        <4>2. desk[d].sym \in Symbols \union {NoSymbol}
          BY <1>c
        <4>3. PutLot(lotRow, desk[d].sym, n) \in RowType /\ PutLot(lotRow, desk[d].sym, n).lot.qty = n
          BY <1>0, <4>1, <4>2, LotRewritten
        <4> QED BY <4>1, <4>3
      <3> QED BY <1>0, <1>4, <1>e, <2>2, <3>2, DeskMoves DEF AddLot
    <2> QED BY <2>3, <2>4
  <1>5. CASE CutLot(d)
    <2> DEFINE rest == desk[d].seen.lot.qty - desk[d].qty
    <2>1. desk[d].pc = "cutLot" /\ desk[d].sym \in Symbols /\ rest \in Int
      BY <1>0, <1>c, <1>5 DEF CutLot, DeskKnows
    <2>2. entitled' \in [Symbols -> Int]
      BY <1>0, <1>c, <1>5, <2>1 DEF CutLot, Forgotten
    <2>3. \/ lotRow' = lotRow
          \/ lotRow' = PutLot(lotRow, NoSymbol, 0)
          \/ HasLot(desk[d].seen) /\ ~(20 * rest <= desk[d].seen.lot.qty) /\ lotRow' = [lotRow EXCEPT !.lot.qty = rest]
      BY <1>5 DEF CutLot, PutLot
    <2>4. lotRow' \in RowType /\ lotRow'.lot.qty >= 0
      <3>1. CASE lotRow' = PutLot(lotRow, NoSymbol, 0)
        BY <1>0, <3>1, LotClosedRow
      <3>2. CASE HasLot(desk[d].seen) /\ ~(20 * rest <= desk[d].seen.lot.qty) /\ lotRow' = [lotRow EXCEPT !.lot.qty = rest]
        <4>1. rest >= 0
          BY <1>c, <2>1, <3>2
        <4> HIDE DEF rest
        <4> QED BY <1>0, <2>1, <3>2, <4>1 DEF RowType, LotType
      <3> QED BY <1>0, <2>3, <3>1, <3>2
    <2> QED BY <1>0, <1>5, <1>e, <2>2, <2>4, DeskMoves DEF CutLot
  <1>6. CASE RequestSkim(d)
    <2>1. HasLot(lotRow) /\ lotRow.lot.qty > Half /\ Half \in Nat
      BY <1>0, <1>6 DEF RequestSkim, Half
    <2>2. lotRow.lot.sym \in Symbols \union {NoSymbol}
      BY <1>0 DEF LotType
    <2>3. /\ [pc |-> "skim", seen |-> lotRow, sym |-> lotRow.lot.sym, qty |-> Half] \in CallType
          /\ DeskKnows([pc |-> "skim", seen |-> lotRow, sym |-> lotRow.lot.sym, qty |-> Half])
      BY <1>0, <2>1, <2>2 DEF CallType, DeskKnows
    <2>4. /\ desk' \in [Desk -> CallType] /\ \A e \in Desk \ {d} : desk'[e] = desk[e]
          /\ DeskKnows(desk'[d])
      BY <1>0, <1>6, <2>3 DEF RequestSkim
    <2>5. serial' \in BOOLEAN
      BY <1>0, <1>6, Zenon DEF RequestSkim
    <2> QED BY <1>0, <1>6, <2>4, <2>5, DeskMoves DEF RequestSkim
  <1>7. CASE DeskBooksSkim(d)
    <2>1. desk[d].seen.lot.qty > Half
      BY <1>0, <1>7 DEF DeskBooksSkim, DeskKnows
    <2>2. AfterSkim(desk[d].seen.lot, Half) \in LotType /\ AfterSkim(desk[d].seen.lot, Half).qty >= 0
      BY <1>0, <1>c, <2>1, LotSkimmed
    <2>3. lotRow' \in RowType /\ lotRow'.lot.qty >= 0
      BY <1>0, <1>7, <2>2, LotWritten DEF DeskBooksSkim
    <2> QED BY <1>0, <1>7, <1>e, <2>3, DeskMoves DEF DeskBooksSkim
  <1>8. CASE DeskFails(d)
    <2>1. serial' \in BOOLEAN
      BY <1>8 DEF DeskFails
    <2> QED BY <1>0, <1>8, <1>e, <2>1, DeskMoves DEF DeskFails
  <1> QED BY <1>1, <1>2, <1>3, <1>4, <1>5, <1>6, <1>7, <1>8

\* What happens outside, and a restart.
LEMMA OutsideTypes ==
    ASSUME CInv,
           \/ \E b \in Bases : SellElsewhere(b)
           \/ BuyCooldownEnds \/ SkimCooldownEnds \/ Restart \/ UNCHANGED cexVars
    PROVE  TypeOK' /\ Knowing'
  <1>0. /\ lotRow \in RowType /\ lotRow.lot.qty >= 0 /\ coins \in [Bases -> Nat]
        /\ orders \in 0..MaxOrders /\ MaxOrders \in Nat
        /\ Rest \in CallType /\ TickKnows(Rest) /\ DeskKnows(Rest)
    BY Types, RestFacts
  <1>1. ASSUME NEW b \in Bases, SellElsewhere(b) PROVE TypeOK' /\ Knowing'
    <2>1. coins' \in [Bases -> Nat] /\ orders' \in 0..MaxOrders
      BY <1>0, <1>1 DEF SellElsewhere, MaySend
    <2> QED BY <1>1, <2>1 DEF SellElsewhere, CInv, TypeOK, Knowing
  <1>2. CASE BuyCooldownEnds
    <2>1. lotRow' \in RowType /\ lotRow'.lot = lotRow.lot
      BY <1>0, <1>2 DEF BuyCooldownEnds, RowType
    <2> QED BY <1>2, <2>1 DEF BuyCooldownEnds, CInv, TypeOK, Knowing
  <1>3. CASE SkimCooldownEnds
    <2>1. skimHot' \in BOOLEAN
      BY <1>3 DEF SkimCooldownEnds
    <2> QED BY <1>3, <2>1 DEF SkimCooldownEnds, CInv, TypeOK, Knowing
  <1>4. CASE Restart
    <2>1. /\ tick' \in [Ticks -> CallType] /\ desk' \in [Desk -> CallType]
          /\ \A t \in Ticks : tick'[t] = Rest
          /\ \A d \in Desk : desk'[d] = Rest
      BY <1>0, <1>4 DEF Restart
    <2>2. skimHot' \in BOOLEAN /\ serial' \in BOOLEAN /\ peakWrites' = {}
      BY <1>4 DEF Restart
    <2>3. TypeOK'
      BY <1>4, <2>1, <2>2 DEF Restart, CInv, TypeOK
    <2>4. Knowing'
      BY <1>0, <2>1 DEF Knowing
    <2> QED BY <2>3, <2>4
  <1>5. CASE UNCHANGED cexVars
    BY <1>5 DEF cexVars, CInv, TypeOK, Knowing
  <1> QED BY <1>1, <1>2, <1>3, <1>4, <1>5

\* Every step keeps types and knowledge.
LEMMA TypesKept == ASSUME CInv, [Next]_cexVars PROVE TypeOK' /\ Knowing'
  BY TickReadsTypes, TickTradesTypes, DeskTradesTypes, DeskBooksTypes, OutsideTypes
     DEF Next, TickStep, DeskStep

-----------------------------------------------------------------------------
(* Buys *)

\* Counting ticks.
LEMMA SomeTicks ==
    ASSUME CInv, NEW T \in SUBSET Ticks, NEW S \in SUBSET T
    PROVE  /\ Cardinality(T) \in Nat /\ Cardinality(S) \in Nat
           /\ Cardinality(S) <= Cardinality(T) /\ Cardinality(Ticks) \in Nat
           /\ Cardinality(T) <= Cardinality(Ticks)
           /\ \A t \in T : Cardinality(T \ {t}) = Cardinality(T) - 1
  <1>1. IsFiniteSet(Ticks)
    BY Types
  <1>2. IsFiniteSet(T) /\ Cardinality(T) <= Cardinality(Ticks)
    BY <1>1, FS_Subset
  <1>3. IsFiniteSet(S) /\ Cardinality(S) <= Cardinality(T)
    BY <1>2, FS_Subset
  <1>4. \A t \in T : Cardinality(T \ {t}) = Cardinality(T) - 1
    BY <1>2, FS_RemoveElement
  <1> QED BY <1>1, <1>2, <1>3, <1>4, FS_CardinalityType

\* A tick that books its buy was cold and is no more; the cooldown it opens is
\* not over before burst is forgotten; and only while burst is zero does a
\* tick start cold.
LEMMA BuysKept == ASSUME CInv, [Next]_cexVars PROVE Buys'
  <1>0. /\ lotRow \in RowType /\ tick \in [Ticks -> CallType] /\ burst \in Nat
        /\ Rest \in CallType /\ Rest.pc = "idle" /\ (\A t \in Ticks : TickKnows(tick[t]))
    BY Types, RestFacts DEF CInv, Knowing
  <1>w. Cold \in SUBSET Ticks /\ Cold' \in SUBSET Ticks
    BY DEF Cold
  <1>b. (~lotRow.hot => burst = 0) /\ burst + Cardinality(Cold) <= Cardinality(Ticks)
    BY DEF CInv, Buys
  <1>a. ASSUME Cold' \subseteq Cold, lotRow'.hot = lotRow.hot, burst' = burst PROVE Buys'
    <2>1. /\ Cardinality(Cold) \in Nat /\ Cardinality(Cold') \in Nat /\ Cardinality(Ticks) \in Nat
          /\ Cardinality(Cold') <= Cardinality(Cold)
      BY <1>w, <1>a, SomeTicks
    <2> QED BY <1>0, <1>a, <1>b, <2>1 DEF Buys
  <1>z. ASSUME burst' = 0 PROVE Buys'
    <2>1. /\ Cardinality(Cold') \in Nat /\ Cardinality(Ticks) \in Nat
          /\ Cardinality(Cold') <= Cardinality(Ticks)
      BY <1>w, SomeTicks
    <2> QED BY <1>z, <2>1 DEF Buys
  <1>m. ASSUME NEW t \in Ticks, \A u \in Ticks \ {t} : tick'[u] = tick[u],
               \/ tick'[t].pc = "idle"
               \/ tick[t].pc # "idle" /\ tick'[t].seen.hot = tick[t].seen.hot
        PROVE  Cold' \subseteq Cold
    BY <1>m DEF Cold
  <1>l. ASSUME NEW lot, lotRow' = [lotRow EXCEPT !.lot = lot] PROVE lotRow'.hot = lotRow.hot
    BY <1>0, <1>l DEF RowType
  <1>1. ASSUME NEW t \in Ticks, StartTick(t) PROVE Buys'
    <2>1. CASE lotRow.hot
      <3>1. tick'[t].seen.hot /\ \A u \in Ticks \ {t} : tick'[u] = tick[u]
        BY <1>0, <1>1, <2>1 DEF StartTick, Rest
      <3>2. Cold' \subseteq Cold
        BY <3>1 DEF Cold
      <3> QED BY <1>1, <1>a, <3>2 DEF StartTick
    <2>2. CASE ~lotRow.hot
      BY <1>1, <1>b, <1>z, <2>2 DEF StartTick
    <2> QED BY <2>1, <2>2
  <1>2. ASSUME NEW t \in Ticks, TickStops(t) \/ TickBookingFails(t) PROVE Buys'
    <2>1. Cold' \subseteq Cold
      BY <1>0, <1>2, <1>m DEF TickStops, TickBookingFails
    <2> QED BY <1>2, <1>a, <2>1 DEF TickStops, TickBookingFails
  <1>3. ASSUME NEW t \in Ticks, ReadBalances(t) PROVE Buys'
    <2>1. PICK pc, qty : tick' = [tick EXCEPT ![t].pc = pc, ![t].qty = qty] /\ tick[t].pc # "idle"
      BY <1>3 DEF ReadBalances
    <2>2. Cold' \subseteq Cold
      BY <1>0, <1>m, <2>1 DEF CallType
    <2> QED BY <1>3, <1>a, <2>2 DEF ReadBalances
  <1>4. ASSUME NEW t \in Ticks, ClearGhost(t) PROVE Buys'
    <2>1. tick[t].seen \in RowType /\ tick[t].pc # "idle"
      BY <1>0, <1>4, CallParts DEF ClearGhost
    <2>2. tick'[t].seen.hot = tick[t].seen.hot /\ \A u \in Ticks \ {t} : tick'[u] = tick[u]
      BY <1>0, <1>4, <2>1 DEF ClearGhost, CallType, RowType
    <2>3. Cold' \subseteq Cold
      BY <1>m, <2>1, <2>2
    <2> QED BY <1>4, <1>a, <1>l, <2>3 DEF ClearGhost
  <1>5. ASSUME NEW t \in Ticks, PersistPeak(t) PROVE Buys'
    <2>1. lotRow'.hot = lotRow.hot
      BY <1>0, <1>5 DEF PersistPeak, RowType
    <2> QED BY <1>5, <1>a, <2>1 DEF PersistPeak, Cold
  <1>6. ASSUME NEW t \in Ticks, NEW price \in Prices, Judge(t, price) PROVE Buys'
    <2>1. PICK pc, qty : tick' = [tick EXCEPT ![t].pc = pc, ![t].qty = qty] /\ tick[t].pc # "idle"
      BY <1>6 DEF Judge
    <2>2. Cold' \subseteq Cold
      BY <1>0, <1>m, <2>1 DEF CallType
    <2> QED BY <1>6, <1>a, <2>2 DEF Judge
  <1>7. ASSUME NEW t \in Ticks, TickSells(t) \/ CouncilBuys(t) PROVE Buys'
    <2>1. /\ tick[t].pc # "idle" /\ UNCHANGED <<lotRow, burst>>
          /\ \/ \E pc : tick' = [tick EXCEPT ![t].pc = pc]
             \/ tick' = [tick EXCEPT ![t] = Rest]
      BY <1>7 DEF TickSells, CouncilBuys
    <2>2. Cold' \subseteq Cold
      BY <1>0, <1>m, <2>1 DEF CallType
    <2> QED BY <1>a, <2>1, <2>2
  <1>8. ASSUME NEW t \in Ticks, TickBooks(t) PROVE Buys'
    <2>1. tick' = [tick EXCEPT ![t] = Rest]
      BY <1>8 DEF TickBooks
    <2>2. CASE tick[t].pc = "bookBuy"
      <3>1. ~tick[t].seen.hot
        BY <1>0, <2>2 DEF TickKnows
      <3>2. t \in Cold /\ Cold' = Cold \ {t}
        BY <1>0, <2>1, <2>2, <3>1 DEF Cold
      <3>3. /\ Cardinality(Cold') = Cardinality(Cold) - 1
            /\ Cardinality(Cold) \in Nat /\ Cardinality(Ticks) \in Nat
        BY <1>w, <3>2, SomeTicks
      <3>4. lotRow'.hot /\ burst' = burst + 1
        BY <1>0, <1>8, <2>2 DEF TickBooks, RowType
      <3> QED BY <1>0, <1>b, <3>3, <3>4 DEF Buys
    <2>3. CASE tick[t].pc # "bookBuy"
      <3>1. Cold' \subseteq Cold
        BY <1>0, <1>m, <2>1
      <3> QED BY <1>8, <1>a, <1>l, <2>3, <3>1 DEF TickBooks
    <2> QED BY <2>2, <2>3
  <1>9. ASSUME NEW d \in Desk, DeskStep(d) PROVE Buys'
    <2>1. tick' = tick /\ burst' = burst
      BY <1>9 DEF DeskStep, RequestSettings, SaveSettings, ManualBuy, ManualSell, ReadLot, AddLot, CutLot,
                  RequestSkim, DeskSkims, DeskBooksSkim, DeskFails
    <2>2. lotRow'.hot = lotRow.hot
      <3>1. CASE AddLot(d) \/ CutLot(d)
        <4>1. \/ lotRow' = lotRow
              \/ \E s, n : lotRow' = [lotRow EXCEPT !.lot.sym = s, !.lot.qty = n]
              \/ \E n : lotRow' = [lotRow EXCEPT !.lot.qty = n]
          <5>1. CASE AddLot(d)
            BY <5>1, Zenon DEF AddLot
          <5>2. CASE CutLot(d)
            BY <5>2 DEF CutLot
          <5> QED BY <3>1, <5>1, <5>2
        <4> QED BY <1>0, <4>1 DEF RowType
      <3>2. CASE SaveSettings(d)
        BY <1>0, <3>2 DEF SaveSettings, RowType
      <3>3. CASE DeskBooksSkim(d)
        BY <1>l, <3>3 DEF DeskBooksSkim
      <3>4. CASE ~(AddLot(d) \/ CutLot(d) \/ SaveSettings(d) \/ DeskBooksSkim(d))
        BY <1>9, <3>4 DEF DeskStep, RequestSettings, ManualBuy, ManualSell, ReadLot, RequestSkim, DeskSkims,
                          DeskFails
      <3> QED BY <3>1, <3>2, <3>3, <3>4
    <2> QED BY <1>a, <2>1, <2>2 DEF Cold
  <1>10. CASE BuyCooldownEnds
    BY <1>10, <1>z DEF BuyCooldownEnds
  <1>11. CASE Restart
    <2>1. Cold' = {}
      BY <1>0, <1>11 DEF Restart, Cold
    <2> QED BY <1>11, <1>a, <2>1 DEF Restart
  <1>12. CASE (\E b \in Bases : SellElsewhere(b)) \/ SkimCooldownEnds \/ UNCHANGED cexVars
    BY <1>12, <1>a DEF SellElsewhere, SkimCooldownEnds, cexVars, Cold
  <1> QED BY <1>1, <1>2, <1>3, <1>4, <1>5, <1>6, <1>7, <1>8, <1>9, <1>10, <1>11, <1>12
         DEF Next, TickStep

-----------------------------------------------------------------------------
(* The lot is backed *)

\* If nothing but one tick is under way, it is enough to look at that tick.
LEMMA TickOnly ==
    ASSUME NEW t \in Ticks, \A u \in Ticks \ {t} : tick'[u] = tick[u], desk' = desk,
           serial' => /\ \A u \in Ticks \ {t} : tick[u].pc = "idle"
                      /\ \A d \in Desk : desk[d].pc = "idle"
                      /\ tick'[t].pc = "idle" => BackedRow(lotRow', entitled')
                      /\ tick'[t].pc # "idle" => TickGood(lotRow', entitled', tick'[t])
    PROVE  Backing'
  BY DEF Backing, Alone, Still, TickBusy, DeskBusy

\* So for a request.
LEMMA DeskOnly ==
    ASSUME NEW d \in Desk, \A e \in Desk \ {d} : desk'[e] = desk[e], tick' = tick,
           serial' => /\ \A t \in Ticks : tick[t].pc = "idle"
                      /\ \A e \in Desk \ {d} : desk[e].pc = "idle"
                      /\ desk'[d].pc = "idle" => BackedRow(lotRow', entitled')
                      /\ desk'[d].pc # "idle" => DeskGood(lotRow', entitled', desk'[d])
    PROVE  Backing'
  BY DEF Backing, Alone, Still, TickBusy, DeskBusy

\* Who is under way while nothing overlaps is alone, and has read well.
LEMMA BusyAlone ==
    ASSUME CInv, serial
    PROVE  /\ \A t \in Ticks : tick[t].pc # "idle" =>
                 /\ \A u \in Ticks \ {t} : tick[u].pc = "idle"
                 /\ \A d \in Desk : desk[d].pc = "idle"
                 /\ TickGood(lotRow, entitled, tick[t])
           /\ \A d \in Desk : desk[d].pc # "idle" =>
                 /\ \A t \in Ticks : tick[t].pc = "idle"
                 /\ \A e \in Desk \ {d} : desk[e].pc = "idle"
                 /\ DeskGood(lotRow, entitled, desk[d])
           /\ Quiet => BackedRow(lotRow, entitled)
  BY DEF CInv, Backing, Alone, Still, TickBusy, DeskBusy, Quiet

\* The pair and the amount of the lot say all about it.
LEMMA LotUntouched ==
    ASSUME CInv, lotRow'.lot.sym = lotRow.lot.sym, lotRow'.lot.qty = lotRow.lot.qty,
           UNCHANGED <<entitled, tick, desk, serial>>
    PROVE  Backing'
  <1>1. /\ HasLot(lotRow') <=> HasLot(lotRow)
        /\ \A s, n : BackedBut(lotRow', entitled, s, n) <=> BackedBut(lotRow, entitled, s, n)
        /\ BackedRow(lotRow', entitled) <=> BackedRow(lotRow, entitled)
        /\ \A seen : SameLot(lotRow', seen) <=> SameLot(lotRow, seen)
    BY DEF HasLot, BackedBut, BackedRow, SameLot
  <1>2. \A c : TickGood(lotRow', entitled, c) <=> TickGood(lotRow, entitled, c)
    BY <1>1 DEF TickGood
  <1>3. \A c : DeskGood(lotRow', entitled, c) <=> DeskGood(lotRow, entitled, c)
    BY <1>1 DEF DeskGood
  <1> QED BY <1>1, <1>2, <1>3 DEF CInv, Backing, Alone, Still, TickBusy, DeskBusy

\* No lot claims nothing.
LEMMA NothingClaimed ==
    ASSUME NEW row, NEW ent, \A x \in Symbols : ent[x] >= 0, row.lot.sym = NoSymbol \/ row.lot.qty <= 0,
           row.lot.qty \in Int
    PROVE  BackedRow(row, ent)
  BY DEF BackedRow, BackedBut, HasLot

\* What was bought is there besides what was; what is sold was there.
LEMMA CoinsMoved ==
    ASSUME NEW row \in RowType, NEW ent \in [Symbols -> Int], NEW s \in Symbols, NEW n \in Nat,
           BackedRow(row, ent)
    PROVE  /\ BackedRow(row, [ent EXCEPT ![s] = @ + n]) /\ [ent EXCEPT ![s] = @ + n][s] >= n
           /\ HasLot(row) /\ row.lot.sym = s => row.lot.qty + n <= [ent EXCEPT ![s] = @ + n][s]
           /\ HasLot(row) /\ row.lot.sym = s /\ n <= row.lot.qty => BackedBut(row, [ent EXCEPT ![s] = @ - n], s, n)
  <1>1. row.lot.qty \in Int /\ (HasLot(row) => row.lot.sym \in Symbols)
    BY DEF RowType, LotType, HasLot
  <1>2. \A x \in Symbols : ent[x] \in Int /\ ent[x] >= 0
    BY DEF BackedRow, BackedBut
  <1>3. HasLot(row) => row.lot.qty <= ent[row.lot.sym]
    <2>1. HasLot(row) => row.lot.sym # NoSymbol
      BY DEF HasLot
    <2> QED BY <1>1, <1>2, <2>1 DEF BackedRow, BackedBut
  <1>4. BackedRow(row, [ent EXCEPT ![s] = @ + n]) /\ [ent EXCEPT ![s] = @ + n][s] >= n
    BY <1>1, <1>2, <1>3 DEF BackedRow, BackedBut
  <1>5. HasLot(row) /\ row.lot.sym = s => row.lot.qty + n <= [ent EXCEPT ![s] = @ + n][s]
    BY <1>1, <1>2, <1>3
  <1>6. HasLot(row) /\ row.lot.sym = s /\ n <= row.lot.qty => BackedBut(row, [ent EXCEPT ![s] = @ - n], s, n)
    BY <1>1, <1>2, <1>3 DEF BackedBut
  <1> QED BY <1>4, <1>5, <1>6

\* The lot after a step that cut it, closed it or put it anew.
LEMMA ClaimFits ==
    ASSUME NEW row \in RowType, NEW ent \in [Symbols -> Int], \A x \in Symbols : ent[x] >= 0,
           HasLot(row) => row.lot.qty <= ent[row.lot.sym]
    PROVE  BackedRow(row, ent)
  <1>1. row.lot.qty \in Int /\ (HasLot(row) => row.lot.sym \in Symbols /\ row.lot.sym # NoSymbol)
    BY DEF RowType, LotType, HasLot
  <1> QED BY <1>1 DEF BackedRow, BackedBut

\* A lot that is closed claims nothing, and nothing is remembered of it.
LEMMA LotClosed ==
    ASSUME CInv, NEW s \in Symbols, Forgotten(s), \A x \in Symbols : entitled[x] >= 0,
           lotRow'.lot.sym = NoSymbol, lotRow'.lot.qty \in Int
    PROVE  BackedRow(lotRow', entitled')
  <1>1. \A x \in Symbols : entitled'[x] >= 0
    BY Types DEF Forgotten
  <1> QED BY <1>1, NothingClaimed

\* A tick's steps up to its order.
LEMMA TickReadsBacked ==
    ASSUME CInv, NEW t \in Ticks, TypeOK',
           \/ StartTick(t) \/ TickStops(t) \/ ReadBalances(t) \/ ClearGhost(t) \/ PersistPeak(t)
           \/ \E price \in Prices : Judge(t, price)
           \/ TickBookingFails(t)
    PROVE  Backing'
  <1>0. /\ lotRow \in RowType /\ lotRow.lot.qty \in Int /\ tick \in [Ticks -> CallType]
        /\ tick[t] \in CallType /\ TickKnows(tick[t]) /\ Rest.pc = "idle" /\ Rest \in CallType
        /\ serial \in BOOLEAN
    BY Types, RestFacts DEF CInv, Knowing
  <1>1. CASE StartTick(t)
    <2>1. /\ tick[t].pc = "idle" /\ UNCHANGED <<lotRow, desk, entitled>> /\ (serial' => serial /\ Quiet)
      BY <1>1 DEF StartTick
    <2>2. /\ \A u \in Ticks \ {t} : tick'[u] = tick[u]
          /\ tick'[t].pc = "balances" /\ tick'[t].seen = lotRow
      BY <1>0, <1>1 DEF StartTick, Rest
    <2>3. ASSUME serial' PROVE TickGood(lotRow', entitled', tick'[t])
      <3>1. BackedRow(lotRow, entitled)
        BY <2>1, <2>3, BusyAlone
      <3> QED BY <2>1, <2>2, <3>1 DEF TickGood, SameLot
    <2> QED BY <2>1, <2>2, <2>3, TickOnly DEF Quiet
  <1>2. CASE TickStops(t)
    <2>1. /\ tick[t].pc \in {"balances", "clear", "judge", "council"} /\ UNCHANGED <<lotRow, desk, entitled, serial>>
          /\ \A u \in Ticks \ {t} : tick'[u] = tick[u]
          /\ tick'[t].pc = "idle"
      BY <1>0, <1>2 DEF TickStops
    <2>2. ASSUME serial' PROVE BackedRow(lotRow', entitled')
      BY <2>1, <2>2, BusyAlone DEF TickGood
    <2> QED BY <2>1, <2>2, TickOnly, BusyAlone
  <1>3. CASE ReadBalances(t)
    <2>1. PICK pc, qty : /\ tick' = [tick EXCEPT ![t].pc = pc, ![t].qty = qty]
                         /\ pc \in {"council", "clear", "judge"}
      BY <1>3 DEF ReadBalances
    <2>2. tick[t].pc = "balances" /\ UNCHANGED <<lotRow, desk, entitled, serial>>
      BY <1>3 DEF ReadBalances
    <2>3. /\ \A u \in Ticks \ {t} : tick'[u] = tick[u]
          /\ tick'[t].pc = pc /\ tick'[t].seen = tick[t].seen
      BY <1>0, <2>1 DEF CallType
    <2>4. ASSUME serial' PROVE TickGood(lotRow', entitled', tick'[t])
      BY <2>1, <2>2, <2>3, <2>4, BusyAlone DEF TickGood
    <2> QED BY <2>1, <2>2, <2>3, <2>4, TickOnly, BusyAlone
  <1>4. CASE ClearGhost(t)
    <2>1. tick[t].pc = "clear" /\ UNCHANGED <<desk, serial>> /\ Forgotten(tick[t].seen.lot.sym)
      BY <1>4 DEF ClearGhost
    <2>s. tick[t].seen.lot.sym \in Symbols
      BY <1>0, <2>1, CallParts DEF TickKnows
    <2>2. /\ \A u \in Ticks \ {t} : tick'[u] = tick[u]
          /\ tick'[t].pc = "council"
      BY <1>0, <1>4 DEF ClearGhost, CallType
    <2>3. lotRow'.lot = NoLot
      BY <1>0, <1>4 DEF ClearGhost, RowType
    <2>4. ASSUME serial' PROVE TickGood(lotRow', entitled', tick'[t])
      <3>1. \A x \in Symbols : entitled[x] >= 0
        BY <2>1, <2>4, BusyAlone DEF TickGood, BackedRow, BackedBut
      <3>2. lotRow'.lot.sym = NoSymbol /\ lotRow'.lot.qty = 0
        BY <2>3 DEF NoLot
      <3>3. BackedRow(lotRow', entitled')
        BY <2>1, <2>s, <3>1, <3>2, LotClosed
      <3> QED BY <2>2, <3>3 DEF TickGood
    <2> QED BY <2>1, <2>2, <2>4, TickOnly, BusyAlone
  <1>5. CASE PersistPeak(t)
    <2>1. lotRow.lot \in LotType
      BY Types
    <2>2. lotRow'.lot.sym = lotRow.lot.sym /\ lotRow'.lot.qty = lotRow.lot.qty
      BY <1>0, <1>5, <2>1 DEF PersistPeak, RowType, LotType
    <2> QED BY <1>5, <2>2, LotUntouched DEF PersistPeak
  <1>6. ASSUME NEW price \in Prices, Judge(t, price) PROVE Backing'
    <2>1. PICK pc, qty : /\ tick' = [tick EXCEPT ![t].pc = pc, ![t].qty = qty]
                         /\ pc \in {"council", "skim", "exit"}
      <3>1. ExitReason(tick[t].seen.lot, tick[t].qty, price) \in {"council", "skim", "exit"}
        BY <1>6 DEF ExitReason, Prices
      <3> QED BY <1>6, <3>1 DEF Judge
    <2>2. tick[t].pc = "judge" /\ UNCHANGED <<lotRow, desk, entitled, serial>>
      BY <1>6 DEF Judge
    <2>3. /\ \A u \in Ticks \ {t} : tick'[u] = tick[u]
          /\ tick'[t].pc = pc /\ tick'[t].seen = tick[t].seen
      BY <1>0, <2>1 DEF CallType
    <2>4. ASSUME serial' PROVE TickGood(lotRow', entitled', tick'[t])
      BY <2>1, <2>2, <2>3, <2>4, BusyAlone DEF TickGood
    <2> QED BY <2>1, <2>2, <2>3, <2>4, TickOnly, BusyAlone
  <1>7. CASE TickBookingFails(t)
    BY <1>7 DEF TickBookingFails, Backing
  <1> QED BY <1>1, <1>2, <1>3, <1>4, <1>5, <1>6, <1>7

\* A tick sells, buys, and books.
LEMMA TickTradesBacked ==
    ASSUME CInv, NEW t \in Ticks, TypeOK', TickSells(t) \/ CouncilBuys(t) \/ TickBooks(t)
    PROVE  Backing'
  <1>0. /\ lotRow \in RowType /\ lotRow.lot.qty \in Int /\ lotRow.lot \in LotType
        /\ tick \in [Ticks -> CallType] /\ tick[t] \in CallType /\ TickKnows(tick[t])
        /\ Rest.pc = "idle" /\ Rest \in CallType /\ entitled \in [Symbols -> Int]
        /\ Watch \in Symbols /\ Unit \in Nat
    BY Types, RestFacts DEF CInv, Knowing, Unit
  <1>c. /\ tick[t].seen \in RowType /\ tick[t].seen.lot \in LotType /\ tick[t].qty \in Nat
        /\ tick[t].seen.lot.qty \in Int
        /\ HasLot(tick[t].seen) => tick[t].seen.lot.sym \in Symbols /\ tick[t].seen.lot.qty > 0
    BY <1>0, CallParts
  <1>n. lotRow' \in RowType /\ lotRow'.lot.qty \in Int /\ entitled' \in [Symbols -> Int]
    BY DEF TypeOK, RowType, LotType
  <1>1. CASE TickSells(t)
    <2>1. /\ tick[t].pc \in {"skim", "exit"} /\ UNCHANGED <<lotRow, desk>> /\ (serial' => serial)
          /\ \/ /\ Sold(tick[t].seen.lot.sym, tick[t].qty)
                /\ \/ tick' = [tick EXCEPT ![t].pc = IF @ = "skim" THEN "bookSkim" ELSE "bookExit"]
                   \/ ~serial' /\ tick' = [tick EXCEPT ![t] = Rest]
             \/ tick' = [tick EXCEPT ![t] = Rest] /\ UNCHANGED entitled
      BY <1>1 DEF TickSells
    <2>2. \A u \in Ticks \ {t} : tick'[u] = tick[u]
      BY <1>0, <2>1
    <2>3. ASSUME serial'
          PROVE  /\ tick'[t].pc = "idle" => BackedRow(lotRow', entitled')
                 /\ tick'[t].pc # "idle" => TickGood(lotRow', entitled', tick'[t])
      <3>1. BackedRow(lotRow, entitled) /\ SameLot(lotRow, tick[t].seen)
        BY <2>1, <2>3, BusyAlone DEF TickGood
      <3>2. CASE tick' = [tick EXCEPT ![t] = Rest] /\ UNCHANGED entitled
        BY <1>0, <2>1, <3>1, <3>2
      <3>3. CASE ~(tick' = [tick EXCEPT ![t] = Rest] /\ UNCHANGED entitled)
        <4> DEFINE s == tick[t].seen.lot.sym
                   n == tick[t].qty
        <4>1. /\ tick' = [tick EXCEPT ![t].pc = IF @ = "skim" THEN "bookSkim" ELSE "bookExit"]
              /\ entitled' = [entitled EXCEPT ![s] = @ - n]
          BY <2>1, <2>3, <3>3 DEF Sold
        <4>2. HasLot(tick[t].seen) /\ n <= tick[t].seen.lot.qty
          BY <1>0, <2>1 DEF TickKnows
        <4>3. HasLot(lotRow) /\ lotRow.lot.sym = s /\ n <= lotRow.lot.qty /\ s \in Symbols
          BY <1>c, <3>1, <4>2 DEF SameLot, HasLot
        <4>4. BackedBut(lotRow, entitled', s, n)
          <5>1. BackedBut(lotRow, [entitled EXCEPT ![s] = @ - n], s, n)
            BY <1>0, <1>c, <3>1, <4>3, CoinsMoved
          <5> QED BY <4>1, <5>1
        <4>5. tick'[t].seen = tick[t].seen /\ tick'[t].qty = n /\ tick'[t].pc \in {"bookSkim", "bookExit"}
          BY <1>0, <4>1 DEF CallType
        <4> HIDE DEF s, n
        <4>6. TickGood(lotRow', entitled', tick'[t])
          BY <2>1, <3>1, <4>4, <4>5 DEF TickGood, s, n
        <4> QED BY <4>5, <4>6
      <3> QED BY <3>2, <3>3
    <2> QED BY <2>1, <2>2, <2>3, TickOnly, BusyAlone
  <1>2. CASE CouncilBuys(t)
    <2>1. /\ tick[t].pc = "council" /\ UNCHANGED <<lotRow, desk>> /\ (serial' => serial)
          /\ \/ /\ entitled' = [entitled EXCEPT ![Watch] = @ + Unit]
                /\ \/ tick' = [tick EXCEPT ![t].pc = "bookBuy"]
                   \/ ~serial' /\ tick' = [tick EXCEPT ![t] = Rest]
             \/ tick' = [tick EXCEPT ![t] = Rest] /\ UNCHANGED entitled
      BY <1>2 DEF CouncilBuys, Bought
    <2>2. \A u \in Ticks \ {t} : tick'[u] = tick[u]
      BY <1>0, <2>1
    <2>3. ASSUME serial'
          PROVE  /\ tick'[t].pc = "idle" => BackedRow(lotRow', entitled')
                 /\ tick'[t].pc # "idle" => TickGood(lotRow', entitled', tick'[t])
      <3>1. BackedRow(lotRow, entitled)
        BY <2>1, <2>3, BusyAlone DEF TickGood
      <3>2. CASE tick' = [tick EXCEPT ![t] = Rest] /\ UNCHANGED entitled
        BY <1>0, <2>1, <3>1, <3>2
      <3>3. CASE ~(tick' = [tick EXCEPT ![t] = Rest] /\ UNCHANGED entitled)
        <4>1. /\ tick' = [tick EXCEPT ![t].pc = "bookBuy"]
              /\ entitled' = [entitled EXCEPT ![Watch] = @ + Unit]
          BY <2>1, <2>3, <3>3
        <4>2. BackedRow(lotRow, entitled') /\ entitled'[Watch] >= Unit
          BY <1>0, <3>1, <4>1, CoinsMoved
        <4>3. tick'[t].pc = "bookBuy"
          BY <1>0, <4>1 DEF CallType
        <4>4. TickGood(lotRow', entitled', tick'[t])
          BY <4>2, <4>3 DEF TickGood, BackedRow, BackedBut
        <4> QED BY <4>3, <4>4
      <3> QED BY <3>2, <3>3
    <2> QED BY <2>1, <2>2, <2>3, TickOnly, BusyAlone
  <1>3. CASE TickBooks(t)
    <2>1. /\ tick[t].pc \in {"bookSkim", "bookExit", "bookBuy"} /\ UNCHANGED <<desk, serial>>
          /\ tick[t].pc # "bookExit" => UNCHANGED entitled
          /\ \A u \in Ticks \ {t} : tick'[u] = tick[u]
          /\ tick'[t].pc = "idle"
      BY <1>0, <1>3 DEF TickBooks
    <2>2. ASSUME serial' PROVE BackedRow(lotRow', entitled')
      <3>1. TickGood(lotRow, entitled, tick[t])
        BY <2>1, <2>2, BusyAlone
      <3>2. \A x \in Symbols : entitled[x] >= 0
        BY <2>1, <3>1 DEF TickGood, BackedBut
      <3>3. CASE tick[t].pc = "bookSkim"
        <4>1. lotRow' = [lotRow EXCEPT !.lot = AfterSkim(tick[t].seen.lot, Half)]
              /\ tick[t].seen.lot.qty > Half /\ tick[t].qty = Half /\ Half \in Nat /\ UNCHANGED entitled
          BY <1>0, <1>3, <2>1, <3>3, Amounts DEF TickBooks, TickKnows
        <4>2. lotRow'.lot.sym = lotRow.lot.sym /\ lotRow'.lot.qty = tick[t].seen.lot.qty - Half
          BY <1>0, <1>c, <4>1, LotSkimmed, LotWritten
        <4>3. SameLot(lotRow, tick[t].seen) /\ BackedBut(lotRow, entitled, tick[t].seen.lot.sym, Half)
          BY <3>1, <3>3, <4>1 DEF TickGood
        <4>4. HasLot(lotRow') => lotRow'.lot.qty <= entitled[lotRow'.lot.sym]
          <5>1. HasLot(lotRow') => HasLot(lotRow) /\ lotRow.lot.sym \in Symbols
            BY <1>0, <4>1, <4>2, <4>3 DEF HasLot, SameLot, LotType
          <5>2. HasLot(lotRow') => lotRow.lot.qty <= entitled[lotRow.lot.sym] + Half
            BY <4>3, <5>1 DEF BackedBut, SameLot
          <5>3. \A x \in Symbols : entitled[x] \in Int
            BY <1>0
          <5> QED BY <1>0, <1>c, <4>1, <4>2, <4>3, <5>1, <5>2, <5>3 DEF SameLot
        <4> QED BY <1>n, <3>2, <4>1, <4>4, ClaimFits
      <3>4. CASE tick[t].pc = "bookExit"
        <4>1. lotRow'.lot = NoLot
          BY <1>0, <1>3, <3>4 DEF TickBooks, RowType
        <4>2. lotRow'.lot.sym = NoSymbol
          BY <4>1 DEF NoLot
        <4>3. Forgotten(tick[t].seen.lot.sym) /\ tick[t].seen.lot.sym \in Symbols
          BY <1>0, <1>c, <1>3, <3>4 DEF TickBooks, TickKnows
        <4> QED BY <1>n, <3>2, <4>2, <4>3, LotClosed
      <3>5. CASE tick[t].pc = "bookBuy"
        <4>1. lotRow' = PutBuy(lotRow, Watch, Unit)
          BY <1>3, <3>5 DEF TickBooks, PutBuy
        <4>2. Watch \in Symbols \union {NoSymbol} /\ Unit \in Int
          BY <1>0
        <4>3. lotRow'.lot.sym = Watch /\ lotRow'.lot.qty = Unit
          BY <1>0, <4>1, <4>2, LotRewritten
        <4>4. entitled[Watch] >= Unit
          BY <3>1, <3>5 DEF TickGood
        <4>5. entitled' = entitled
          BY <2>1, <3>5
        <4> QED BY <1>0, <1>n, <3>2, <4>3, <4>4, <4>5, ClaimFits
      <3> QED BY <2>1, <3>3, <3>4, <3>5
    <2> QED BY <2>1, <2>2, TickOnly, BusyAlone
  <1> QED BY <1>1, <1>2, <1>3

\* A request begins: nothing was under way, or the history is not serial.
LEMMA DeskBeginsBacked ==
    ASSUME CInv, NEW d \in Desk, TypeOK',
           \/ \E on \in {TRUE, FALSE, lotRow.on} : RequestSettings(d, on)
           \/ \E s \in Symbols : ManualBuy(d, s) \/ \E n \in {Half, coins[s.base]} : ManualSell(d, s, n)
           \/ RequestSkim(d)
    PROVE  Backing'
  <1>0. /\ lotRow \in RowType /\ desk \in [Desk -> CallType] /\ entitled \in [Symbols -> Int]
        /\ Unit \in Nat /\ Rest \in CallType
    BY Types, RestFacts DEF Unit
  <1>b. serial /\ Quiet => BackedRow(lotRow, entitled)
    BY BusyAlone
  <1>1. ASSUME NEW on \in {TRUE, FALSE, lotRow.on}, RequestSettings(d, on) PROVE Backing'
    <2>1. /\ UNCHANGED <<lotRow, tick, entitled>> /\ (serial' => serial /\ Quiet)
      BY <1>1 DEF RequestSettings
    <2>2. /\ \A e \in Desk \ {d} : desk'[e] = desk[e]
          /\ desk'[d].pc = "settings"
      BY <1>0, <1>1 DEF RequestSettings, Rest
    <2>3. ASSUME serial' PROVE DeskGood(lotRow', entitled', desk'[d])
      BY <1>b, <2>1, <2>2, <2>3 DEF DeskGood
    <2> QED BY <2>1, <2>2, <2>3, DeskOnly DEF Quiet
  <1>2. ASSUME NEW s \in Symbols, ManualBuy(d, s) PROVE Backing'
    <2>1. CASE ~serial'
      BY <2>1 DEF Backing
    <2>2. CASE serial'
      <3>1. /\ UNCHANGED <<lotRow, tick>> /\ serial /\ Quiet
            /\ entitled' = [entitled EXCEPT ![s] = @ + Unit]
            /\ desk' = [desk EXCEPT ![d] = [Rest EXCEPT !.pc = "readBuy", !.sym = s, !.qty = Unit]]
        BY <1>2, <2>2 DEF ManualBuy, Bought
      <3>2. /\ \A e \in Desk \ {d} : desk'[e] = desk[e]
            /\ desk'[d].pc = "readBuy" /\ desk'[d].sym = s /\ desk'[d].qty = Unit
        BY <1>0, <3>1 DEF Rest
      <3>3. /\ BackedRow(lotRow, entitled') /\ entitled'[s] >= Unit
            /\ HasLot(lotRow) /\ lotRow.lot.sym = s => lotRow.lot.qty + Unit <= entitled'[s]
        BY <1>0, <1>b, <3>1, CoinsMoved
      <3>4. DeskGood(lotRow', entitled', desk'[d])
        BY <3>1, <3>2, <3>3 DEF DeskGood
      <3> QED BY <3>1, <3>2, <3>4, DeskOnly DEF Quiet
    <2> QED BY <2>1, <2>2
  <1>3. ASSUME NEW s \in Symbols, NEW n \in {Half, coins[s.base]}, ManualSell(d, s, n) PROVE Backing'
    <2>1. CASE ~serial'
      BY <2>1 DEF Backing
    <2>2. CASE serial'
      <3>1. /\ UNCHANGED <<lotRow, tick, entitled>> /\ serial /\ Quiet
            /\ desk' = [desk EXCEPT ![d] = [Rest EXCEPT !.pc = "readSell", !.sym = s, !.qty = n]]
        BY <1>3, <2>2 DEF ManualSell
      <3>2. /\ \A e \in Desk \ {d} : desk'[e] = desk[e]
            /\ desk'[d].pc = "readSell"
        BY <1>0, <3>1 DEF Rest
      <3>3. DeskGood(lotRow', entitled', desk'[d])
        BY <1>b, <3>1, <3>2 DEF DeskGood
      <3> QED BY <3>1, <3>2, <3>3, DeskOnly DEF Quiet
    <2> QED BY <2>1, <2>2
  <1>4. CASE RequestSkim(d)
    <2>1. /\ UNCHANGED <<lotRow, tick, entitled>> /\ (serial' => serial /\ Quiet)
      BY <1>4 DEF RequestSkim
    <2>2. /\ \A e \in Desk \ {d} : desk'[e] = desk[e]
          /\ desk'[d].pc = "skim" /\ desk'[d].seen = lotRow
      BY <1>0, <1>4 DEF RequestSkim
    <2>3. ASSUME serial' PROVE DeskGood(lotRow', entitled', desk'[d])
      BY <1>b, <2>1, <2>2, <2>3 DEF DeskGood, SameLot
    <2> QED BY <2>1, <2>2, <2>3, DeskOnly DEF Quiet
  <1> QED BY <1>1, <1>2, <1>3, <1>4

\* A request goes on: it reads the lot, sells, writes, or fails.
LEMMA DeskGoesOnBacked ==
    ASSUME CInv, NEW d \in Desk, TypeOK',
           \/ SaveSettings(d) \/ ReadLot(d) \/ AddLot(d) \/ CutLot(d)
           \/ DeskSkims(d) \/ DeskBooksSkim(d) \/ DeskFails(d)
    PROVE  Backing'
  <1>0. /\ lotRow \in RowType /\ lotRow.lot \in LotType /\ lotRow.lot.qty \in Int
        /\ desk \in [Desk -> CallType] /\ entitled \in [Symbols -> Int]
        /\ desk[d] \in CallType /\ DeskKnows(desk[d]) /\ Rest.pc = "idle" /\ Rest \in CallType
    BY Types, RestFacts DEF CInv, Knowing
  <1>c. /\ desk[d].seen \in RowType /\ desk[d].seen.lot \in LotType /\ desk[d].qty \in Nat
        /\ desk[d].seen.lot.qty \in Int /\ desk[d].sym \in Symbols \union {NoSymbol}
        /\ HasLot(desk[d].seen) => desk[d].seen.lot.sym \in Symbols /\ desk[d].seen.lot.qty > 0
    BY <1>0, CallParts
  <1>n. lotRow' \in RowType /\ lotRow'.lot.qty \in Int /\ entitled' \in [Symbols -> Int]
    BY DEF TypeOK, RowType, LotType
  <1>k. ASSUME BackedRow(lotRow, entitled)
        PROVE  /\ \A x \in Symbols : entitled[x] \in Int /\ entitled[x] >= 0
               /\ HasLot(lotRow) => lotRow.lot.sym \in Symbols /\ lotRow.lot.qty <= entitled[lotRow.lot.sym]
    <2>1. \A x \in Symbols : entitled[x] \in Int /\ entitled[x] >= 0
      BY <1>0, <1>k DEF BackedRow, BackedBut
    <2>2. HasLot(lotRow) => lotRow.lot.sym \in Symbols /\ lotRow.lot.sym # NoSymbol
      BY <1>0 DEF HasLot, LotType
    <2> QED BY <1>k, <2>1, <2>2 DEF BackedRow, BackedBut
  <1>e. ASSUME desk' = [desk EXCEPT ![d] = Rest], tick' = tick, serial' => serial, desk[d].pc # "idle",
               serial' => BackedRow(lotRow', entitled')
        PROVE  Backing'
    <2>1. /\ \A e \in Desk \ {d} : desk'[e] = desk[e]
          /\ desk'[d].pc = "idle"
      BY <1>0, <1>e
    <2> QED BY <1>e, <2>1, DeskOnly, BusyAlone
  <1>1. CASE SaveSettings(d)
    <2>1. lotRow'.lot = lotRow.lot /\ desk[d].pc = "settings" /\ UNCHANGED <<entitled, serial>>
      BY <1>0, <1>1 DEF SaveSettings, RowType
    <2>2. serial => BackedRow(lotRow, entitled)
      BY <2>1, BusyAlone DEF DeskGood
    <2>3. serial' => BackedRow(lotRow', entitled')
      BY <2>1, <2>2 DEF BackedRow, BackedBut, HasLot
    <2> QED BY <1>1, <1>e, <2>1, <2>3 DEF SaveSettings
  <1>2. CASE ReadLot(d)
    <2>1. /\ desk[d].pc \in {"readBuy", "readSell"} /\ UNCHANGED <<lotRow, tick, entitled, serial>>
      BY <1>2 DEF ReadLot
    <2>2. /\ \A e \in Desk \ {d} : desk'[e] = desk[e]
          /\ desk'[d].pc = IF desk[d].pc = "readBuy" THEN "addLot" ELSE "cutLot"
          /\ desk'[d].seen = lotRow /\ desk'[d].sym = desk[d].sym /\ desk'[d].qty = desk[d].qty
      BY <1>0, <1>2 DEF ReadLot, CallType
    <2>3. ASSUME serial' PROVE DeskGood(lotRow', entitled', desk'[d])
      <3>1. DeskGood(lotRow, entitled, desk[d])
        BY <2>1, <2>3, BusyAlone
      <3> QED BY <2>1, <2>2, <3>1 DEF DeskGood, SameLot
    <2> QED BY <2>1, <2>2, <2>3, DeskOnly, BusyAlone
  <1>3. CASE AddLot(d)
    <2> DEFINE seen == desk[d].seen
               s == desk[d].sym
               n == desk[d].qty
    <2>1. desk[d].pc = "addLot" /\ s \in Symbols /\ serial' = serial /\ tick' = tick
          /\ desk' = [desk EXCEPT ![d] = Rest]
      BY <1>0, <1>3 DEF AddLot, DeskKnows
    <2>2. ASSUME serial' PROVE BackedRow(lotRow', entitled')
      <3>1. /\ SameLot(lotRow, seen) /\ BackedRow(lotRow, entitled) /\ entitled[s] >= n
            /\ (HasLot(lotRow) /\ lotRow.lot.sym = s) => lotRow.lot.qty + n <= entitled[s]
        BY <2>1, <2>2, BusyAlone DEF DeskGood
      <3>2. HasLot(lotRow) <=> HasLot(seen)
        BY <3>1 DEF SameLot, HasLot
      <3>3. CASE HasLot(seen) /\ seen.lot.sym # s
        <4>1. lotRow' = lotRow /\ entitled' = [entitled EXCEPT ![s] = @ - n]
          BY <1>3, <3>3 DEF AddLot
        <4>2. \A x \in Symbols : entitled'[x] >= 0
          BY <1>0, <1>c, <1>k, <2>1, <3>1, <4>1
        <4>3. HasLot(lotRow') => lotRow'.lot.qty <= entitled'[lotRow'.lot.sym]
          BY <1>0, <1>k, <3>1, <3>3, <4>1 DEF SameLot
        <4> QED BY <1>n, <4>2, <4>3, ClaimFits
      <3>4. CASE ~(HasLot(seen) /\ seen.lot.sym # s)
        <4> DEFINE m == IF HasLot(seen) THEN seen.lot.qty + n ELSE n
        <4>1. lotRow' = PutLot(lotRow, s, m) /\ entitled' = entitled
          BY <1>3, <3>4 DEF AddLot, PutLot
        <4>2. m \in Int /\ m <= entitled[s]
          BY <1>0, <1>c, <2>1, <3>1, <3>2, <3>4 DEF SameLot
        <4>0. s \in Symbols \union {NoSymbol}
          BY <1>c
        <4> HIDE DEF m, s
        <4>3. PutLot(lotRow, s, m).lot.sym = s /\ PutLot(lotRow, s, m).lot.qty = m
          BY <1>0, <4>0, <4>2, LotRewritten
        <4>4. \A x \in Symbols : entitled'[x] >= 0
          BY <1>k, <3>1, <4>1
        <4>5. lotRow'.lot.qty <= entitled'[lotRow'.lot.sym]
          BY <4>1, <4>2, <4>3
        <4> QED BY <1>n, <4>4, <4>5, ClaimFits
      <3> QED BY <3>3, <3>4
    <2> QED BY <1>e, <2>1, <2>2
  <1>4. CASE CutLot(d)
    <2> DEFINE seen == desk[d].seen
               s == desk[d].sym
               n == desk[d].qty
               rest == seen.lot.qty - n
    <2>1. desk[d].pc = "cutLot" /\ s \in Symbols /\ serial' = serial /\ tick' = tick
          /\ desk' = [desk EXCEPT ![d] = Rest]
      BY <1>0, <1>4 DEF CutLot, DeskKnows
    <2>2. ASSUME serial' PROVE BackedRow(lotRow', entitled')
      <3>1. SameLot(lotRow, seen) /\ BackedRow(lotRow, entitled)
        BY <2>1, <2>2, BusyAlone DEF DeskGood
      <3>2. HasLot(lotRow) <=> HasLot(seen)
        BY <3>1 DEF SameLot, HasLot
      <3>3. CASE ~(HasLot(seen) /\ seen.lot.sym = s)
        BY <1>4, <3>1, <3>3 DEF CutLot
      <3>4. CASE HasLot(seen) /\ seen.lot.sym = s
        <4>1. \A x \in Symbols : entitled[x] >= 0 /\ entitled[x] \in Int
          BY <1>k, <3>1
        <4>2. CASE 20 * rest <= seen.lot.qty
          <5>1. lotRow' = PutLot(lotRow, NoSymbol, 0) /\ Forgotten(s)
            BY <1>4, <3>4, <4>2 DEF CutLot, PutLot
          <5>2. lotRow'.lot.sym = NoSymbol
            BY <1>0, <5>1, LotClosedRow
          <5> QED BY <1>n, <2>1, <4>1, <5>1, <5>2, LotClosed
        <4>3. CASE ~(20 * rest <= seen.lot.qty)
          <5>1. lotRow' = [lotRow EXCEPT !.lot.qty = rest] /\ entitled' = [entitled EXCEPT ![s] = @ - n]
            BY <1>4, <3>4, <4>3 DEF CutLot
          <5>2. rest \in Int /\ rest > 0 /\ seen.lot.qty = rest + n /\ n \in Nat
            BY <1>c, <3>4, <4>3
          <5>3. seen.lot.qty <= entitled[s] /\ lotRow.lot.sym = s
            BY <1>k, <3>1, <3>2, <3>4 DEF SameLot
          <5> HIDE DEF rest, n, s
          <5>4. lotRow'.lot.sym = s /\ lotRow'.lot.qty = rest
            BY <1>0, <5>1, <5>2, <5>3 DEF RowType, LotType
          <5>5. entitled'[s] = entitled[s] - n /\ entitled[s] \in Int
            BY <1>0, <2>1, <4>1, <5>1
          <5>6. rest <= entitled'[s]
            BY <5>2, <5>3, <5>5
          <5>7. \A x \in Symbols : entitled'[x] >= 0
            BY <1>0, <2>1, <4>1, <5>1, <5>2, <5>5, <5>6
          <5> QED BY <1>n, <5>4, <5>6, <5>7, ClaimFits
        <4> QED BY <4>2, <4>3
      <3> QED BY <3>3, <3>4
    <2> QED BY <1>e, <2>1, <2>2
  <1>5. CASE DeskSkims(d)
    <2>1. /\ desk[d].pc = "skim" /\ UNCHANGED <<lotRow, tick>> /\ (serial' => serial)
          /\ \/ /\ entitled' = [entitled EXCEPT ![desk[d].sym] = @ - Half]
                /\ \/ desk' = [desk EXCEPT ![d].pc = "bookSkim"]
                   \/ ~serial' /\ desk' = [desk EXCEPT ![d] = Rest]
             \/ desk' = [desk EXCEPT ![d] = Rest] /\ UNCHANGED entitled
      BY <1>5 DEF DeskSkims, Sold
    <2>2. CASE ~serial'
      BY <2>2 DEF Backing
    <2>3. CASE serial'
      <3>1. BackedRow(lotRow, entitled) /\ SameLot(lotRow, desk[d].seen)
        BY <2>1, <2>3, BusyAlone DEF DeskGood
      <3>2. CASE desk' = [desk EXCEPT ![d] = Rest] /\ UNCHANGED entitled
        BY <1>e, <2>1, <2>3, <3>1, <3>2
      <3>3. CASE ~(desk' = [desk EXCEPT ![d] = Rest] /\ UNCHANGED entitled)
        <4> DEFINE s == desk[d].sym
        <4>1. desk' = [desk EXCEPT ![d].pc = "bookSkim"] /\ entitled' = [entitled EXCEPT ![s] = @ - Half]
          BY <2>1, <2>3, <3>3
        <4>2. HasLot(desk[d].seen) /\ desk[d].seen.lot.qty > Half /\ desk[d].qty = Half /\ s = desk[d].seen.lot.sym
          BY <1>0, <2>1 DEF DeskKnows
        <4>3. HasLot(lotRow) /\ lotRow.lot.sym = s /\ Half <= lotRow.lot.qty /\ s \in Symbols /\ Half \in Nat
          BY <1>0, <1>c, <3>1, <4>2, Amounts DEF SameLot, HasLot
        <4>4. BackedBut(lotRow, entitled', s, Half)
          <5>1. BackedBut(lotRow, [entitled EXCEPT ![s] = @ - Half], s, Half)
            BY <1>0, <3>1, <4>3, CoinsMoved
          <5> QED BY <4>1, <5>1
        <4>5. /\ desk'[d].pc = "bookSkim" /\ desk'[d].seen = desk[d].seen /\ desk'[d].sym = s
              /\ desk'[d].qty = Half /\ \A e \in Desk \ {d} : desk'[e] = desk[e]
          BY <1>0, <4>1, <4>2 DEF CallType
        <4> HIDE DEF s
        <4>6. DeskGood(lotRow', entitled', desk'[d])
          BY <2>1, <3>1, <4>4, <4>5 DEF DeskGood
        <4> QED BY <2>1, <4>5, <4>6, DeskOnly, BusyAlone
      <3> QED BY <3>2, <3>3
    <2> QED BY <2>2, <2>3
  <1>6. CASE DeskBooksSkim(d)
    <2>1. desk[d].pc = "bookSkim" /\ UNCHANGED <<tick, entitled, serial>> /\ desk' = [desk EXCEPT ![d] = Rest]
          /\ lotRow' = [lotRow EXCEPT !.lot = AfterSkim(desk[d].seen.lot, Half)]
      BY <1>6 DEF DeskBooksSkim
    <2>2. /\ desk[d].seen.lot.qty > Half /\ desk[d].qty = Half /\ desk[d].sym = desk[d].seen.lot.sym
          /\ Half \in Nat
      BY <1>0, <2>1, Amounts DEF DeskKnows
    <2>3. lotRow'.lot.sym = lotRow.lot.sym /\ lotRow'.lot.qty = desk[d].seen.lot.qty - Half
      BY <1>0, <1>c, <2>1, <2>2, LotSkimmed, LotWritten
    <2>4. ASSUME serial' PROVE BackedRow(lotRow', entitled')
      <3>1. SameLot(lotRow, desk[d].seen) /\ BackedBut(lotRow, entitled, desk[d].seen.lot.sym, Half)
        BY <2>1, <2>2, <2>4, BusyAlone DEF DeskGood
      <3>2. \A x \in Symbols : entitled[x] >= 0
        BY <3>1 DEF BackedBut
      <3>3. HasLot(lotRow') => HasLot(lotRow) /\ lotRow.lot.sym \in Symbols
        BY <1>0, <2>2, <2>3, <3>1 DEF HasLot, SameLot, LotType
      <3>4. HasLot(lotRow') => lotRow.lot.qty <= entitled[lotRow.lot.sym] + Half
        BY <3>1, <3>3 DEF BackedBut, SameLot
      <3>5. HasLot(lotRow') => lotRow'.lot.qty <= entitled[lotRow'.lot.sym]
        BY <1>0, <1>c, <2>1, <2>2, <2>3, <3>1, <3>3, <3>4 DEF SameLot
      <3> QED BY <1>n, <2>1, <3>2, <3>5, ClaimFits
    <2> QED BY <1>e, <2>1, <2>4
  <1>7. CASE DeskFails(d)
    BY <1>7 DEF DeskFails, Backing
  <1> QED BY <1>1, <1>2, <1>3, <1>4, <1>5, <1>6, <1>7

\* Every step keeps the lot backed.
LEMMA BackingKept == ASSUME CInv, [Next]_cexVars, TypeOK' PROVE Backing'
  <1>1. ASSUME NEW t \in Ticks, StartTick(t) \/ TickStep(t) PROVE Backing'
    BY <1>1, TickReadsBacked, TickTradesBacked DEF TickStep
  <1>2. ASSUME NEW d \in Desk, DeskStep(d) PROVE Backing'
    BY <1>2, DeskBeginsBacked, DeskGoesOnBacked DEF DeskStep
  <1>3. CASE \/ \E b \in Bases : SellElsewhere(b)
             \/ SkimCooldownEnds \/ UNCHANGED cexVars
    BY <1>3, LotUntouched DEF SellElsewhere, SkimCooldownEnds, cexVars
  <1>4. CASE BuyCooldownEnds
    <2>1. lotRow'.lot = lotRow.lot
      BY <1>4, Types DEF BuyCooldownEnds, RowType
    <2> QED BY <1>4, <2>1, LotUntouched DEF BuyCooldownEnds
  <1>5. CASE Restart
    BY <1>5 DEF Restart, Backing
  <1> QED BY <1>1, <1>2, <1>3, <1>4, <1>5 DEF Next

-----------------------------------------------------------------------------
(* The theorems *)

\* The invariant holds at the start.
LEMMA InitCInv == CexAssumption /\ Init => CInv
  <1> SUFFICES ASSUME CexAssumption, Init PROVE CInv
    OBVIOUS
  <1>r. /\ Off \in RowType /\ Rest \in CallType /\ TickKnows(Rest) /\ DeskKnows(Rest)
        /\ Rest.pc = "idle" /\ Off.lot = NoLot /\ NoLot.qty = 0 /\ NoLot.sym = NoSymbol
    BY RestFacts DEF Off, NoLot
  <1>1. lotRow \in RowType /\ lotRow.lot = NoLot
    BY <1>r DEF Init, RowType
  <1>2. TypeOK
    <2>1. lotRow.lot.qty >= 0 /\ coins \in [Bases -> Nat] /\ entitled \in [Symbols -> Int]
      BY <1>r, <1>1 DEF Init, Unit
    <2>2. tick \in [Ticks -> CallType] /\ desk \in [Desk -> CallType]
      BY <1>r DEF Init
    <2>3. orders \in 0..MaxOrders /\ burst \in Nat
      BY DEF Init, CexAssumption
    <2>4. peakWrites \subseteq Ticks /\ skimHot \in BOOLEAN /\ serial \in BOOLEAN
      BY DEF Init
    <2> QED BY <1>1, <2>1, <2>2, <2>3, <2>4 DEF TypeOK
  <1>3. \A t \in Ticks : tick[t] = Rest
    BY DEF Init
  <1>4. \A d \in Desk : desk[d] = Rest
    BY DEF Init
  <1>5. Knowing
    BY <1>r, <1>3, <1>4 DEF Knowing
  <1>6. Buys
    <2>1. Cold = {}
      BY <1>r, <1>3 DEF Cold
    <2>2. Cardinality(Cold) = 0 /\ Cardinality(Ticks) \in Nat
      BY <2>1, FS_EmptySet, FS_CardinalityType DEF CexAssumption
    <2> QED BY <2>2 DEF Buys, Init
  <1>7. Backing
    <2>1. \A x \in Symbols : entitled[x] >= 0
      BY DEF Init
    <2>2. BackedRow(lotRow, entitled)
      BY <1>r, <1>1, <2>1, NothingClaimed
    <2> QED BY <1>r, <1>3, <1>4, <2>2 DEF Backing, Alone, Still, TickBusy, DeskBusy
  <1> QED BY <1>2, <1>5, <1>6, <1>7 DEF CInv

\* And every step keeps it.
LEMMA CInvInductive == CInv /\ [Next]_cexVars => CInv'
  <1> SUFFICES ASSUME CInv, [Next]_cexVars PROVE CInv'
    OBVIOUS
  <1>1. TypeOK' /\ Knowing'
    BY TypesKept
  <1>2. Buys' /\ Backing'
    BY <1>1, BuysKept, BackingKept
  <1>3. CexAssumption'
    BY DEF CInv, CexAssumption
  <1> QED BY <1>1, <1>2, <1>3 DEF CInv

\* Every variable keeps its shape, whatever overlaps, fails or is lost: no
\* balance goes below zero, nor does the lot the tick, the desk and the skim
\* write from what they read.
THEOREM TypeCorrect == CexAssumption /\ Spec => []TypeOK
  <1>1. CInv => TypeOK
    BY DEF CInv
  <1> QED BY <1>1, InitCInv, CInvInductive, PTL DEF Spec

\* What the invariant says of the buys ...
LEMMA CInvBuys == CInv => BuysPerCooldown
  <1> SUFFICES ASSUME CInv PROVE BuysPerCooldown
    OBVIOUS
  <1>2. Cold \in SUBSET Ticks
    BY DEF Cold
  <1>3. Cardinality(Cold) \in Nat /\ Cardinality(Ticks) \in Nat
    BY <1>2, SomeTicks
  <1> QED BY <1>3, Types DEF CInv, Buys, BuysPerCooldown

\* cexSuperMachineService.ts:670-672: the eight minutes are judged by the
\* lastBuyAt a tick read at its start, so ticks that overlap may all buy; but
\* a cooldown never sees more buys than ticks overlap.
THEOREM CooldownBoundsBuys == CexAssumption /\ Spec => []BuysPerCooldown
  BY CInvBuys, InitCInv, CInvInductive, PTL DEF Spec

\* ... and of the lot.
LEMMA CInvBacked == CInv => LotIsBacked
  <1> SUFFICES ASSUME CInv, serial, Quiet
               PROVE  /\ \A s \in Symbols : entitled[s] >= 0
                      /\ HasLot(lotRow) => lotRow.lot.qty <= entitled[lotRow.lot.sym]
    BY DEF LotIsBacked
  <1>2. BackedRow(lotRow, entitled)
    BY BusyAlone
  <1>3. HasLot(lotRow) => lotRow.lot.sym \in Symbols /\ lotRow.lot.sym # NoSymbol
    BY Types DEF HasLot, LotType
  <1>4. \A x \in Symbols : entitled[x] \in Int
    BY Types
  <1> QED BY <1>2, <1>3, <1>4 DEF BackedRow, BackedBut

\* cexManualTradingService.ts:476-555, cexSuperMachineService.ts:558-620: as
\* long as ticks and requests come one after the other and no answer or write
\* is lost, the open lot never claims more than was executed through its pair
\* and not sold through that pair since the pair's last lot was closed.  It
\* says nothing of the balance: coins of the lot sold through the other pair,
\* or on Binance itself, are still claimed, and the exit then sells coins of
\* the user's own.
THEOREM LotStaysBacked == CexAssumption /\ Spec => []LotIsBacked
  BY CInvBacked, InitCInv, CInvInductive, PTL DEF Spec

=============================================================================
