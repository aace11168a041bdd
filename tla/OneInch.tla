------------------------------ MODULE OneInch ------------------------------
(***************************************************************************)
(* Swaps through 1inch from a user's BSC wallet (dex/oneInchSwapService.ts)*)
(* and the watcher of its book (trading/oneInchOpenPositionWatcher.ts), for *)
(* one pair.  A lot is booked by the USDT balance before and after; both   *)
(* are read once the swap is mined.  A swap moves one unit of each side.   *)
(***************************************************************************)
EXTENDS Integers, FiniteSets, FiniteSetsExt

CONSTANTS
    Callers,            \* requests and watcher runs that may be in flight at once
    Funds,              \* USDT at the start
    MaxLots, MaxAsks    \* bounds: rows, requests

OneInchAssumption == Funds \in Nat /\ MaxLots \in Nat \ {0} /\ MaxAsks \in Nat

VARIABLES
    cash, bag,      \* USDT and tokens in the wallet
    book,           \* trade rows, oldest first
    caller,         \* the calls in flight
    exitPause,      \* exitCooldown: rows the watcher leaves alone
    asks

oneInchVars == <<cash, bag, book, caller, exitPause, asks>>

Lots == 1..MaxLots
NoLot == 0
Blank == [st |-> "none", alloc |-> 0]
Still == [pc |-> "idle", side |-> "none", for |-> NoLot, qty |-> 0, before |-> 0, spent |-> 0, rest |-> {}]
Open == {l \in Lots : book[l].st = "OPEN"}
Free == {l \in Lots : book[l].st = "none"}

Init ==
    /\ cash = Funds /\ bag = 0 /\ asks = 0
    /\ book = [l \in Lots |-> Blank]
    /\ caller = [c \in Callers |-> Still]
    /\ exitPause = {}

Go(c, pc) == caller' = [caller EXCEPT ![c].pc = pc]
Leave(c) == caller' = [caller EXCEPT ![c] = Still]

-----------------------------------------------------------------------------
(* executeOneInchSwap: preview and price check, balance, allowance.        *)
RequestBuy(c) ==
    /\ caller[c].pc = "idle" /\ asks < MaxAsks /\ cash > 0
    /\ asks' = asks + 1
    /\ caller' = [caller EXCEPT ![c] = [Still EXCEPT !.pc = "swap", !.side = "BUY", !.qty = 1]]
    /\ UNCHANGED <<cash, bag, book, exitPause>>

(* sellOneInchOpenPosition: the quantity all OPEN rows record, at most     *)
(* what the wallet holds; without one it throws.                           *)
LotQty == MapThenSumSet(LAMBDA l : book[l].alloc, Open)

RequestSellNow(c) ==
    /\ caller[c].pc = "idle" /\ asks < MaxAsks
    /\ LotQty > 0 /\ bag > 0
    /\ asks' = asks + 1
    /\ caller' = [caller EXCEPT ![c] = [Still EXCEPT !.pc = "swap", !.side = "SELL", !.rest = Open \ {Min(Open)},
                                                      !.qty = IF LotQty < bag THEN LotQty ELSE bag]]
    /\ UNCHANGED <<cash, bag, book, exitPause>>

(* The transaction is mined, for no more than the wallet has, or throws.   *)
Swap(c) ==
    /\ caller[c].pc = "swap"
    /\ \/ /\ caller[c].side = "BUY" /\ cash >= 1
          /\ cash' = cash - 1 /\ bag' = bag + 1
          /\ Go(c, "before")
       \/ /\ caller[c].side = "SELL" /\ bag >= caller[c].qty
          /\ cash' = cash + caller[c].qty /\ bag' = bag - caller[c].qty
          /\ Go(c, "before")
       \/ Leave(c) /\ UNCHANGED <<cash, bag>>
    /\ UNCHANGED <<book, exitPause, asks>>

(* usdtBefore, after tx.wait.                                              *)
ReadBefore(c) ==
    /\ caller[c].pc = "before"
    /\ caller' = [caller EXCEPT ![c].pc = "after", ![c].before = cash]
    /\ UNCHANGED <<cash, bag, book, exitPause, asks>>

ReadAfter(c) ==
    LET diff == caller[c].before - cash
    IN  /\ caller[c].pc = "after"
        /\ caller' = [caller EXCEPT ![c].pc = "book", ![c].spent = IF diff > 0 THEN diff ELSE 0]
        /\ UNCHANGED <<cash, bag, book, exitPause, asks>>

(* A BUY is a new OPEN row; a SELL closes the oldest one, or is recorded   *)
(* by itself, closed.                                                      *)
Record(c) ==
    /\ caller[c].pc = "book"
    /\ IF caller[c].side = "SELL" /\ Open # {}
         THEN book' = [book EXCEPT ![Min(Open)].st = "CLOSED"]
         ELSE /\ Free # {}
              /\ book' = [book EXCEPT ![Min(Free)] =
                            [st |-> IF caller[c].side = "BUY" THEN "OPEN" ELSE "CLOSED", alloc |-> caller[c].spent]]
    /\ IF caller[c].rest = {} THEN Leave(c) ELSE Go(c, "cancel")
    /\ UNCHANGED <<cash, bag, exitPause, asks>>

(* The other rows the sale was for.                                        *)
CancelRest(c) ==
    LET l == Min(caller[c].rest)
    IN  /\ caller[c].pc = "cancel"
        /\ book' = [book EXCEPT ![l].st = "CANCELLED"]
        /\ caller' = [caller EXCEPT ![c] = IF @.rest = {l} THEN Still ELSE [@ EXCEPT !.rest = @ \ {l}]]
        /\ UNCHANGED <<cash, bag, exitPause, asks>>

CallThrows(c) ==
    /\ caller[c].pc \in {"before", "after", "book", "cancel"}
    /\ Leave(c)
    /\ exitPause' = exitPause \ {caller[c].for}
    /\ UNCHANGED <<cash, bag, book, asks>>

(* runOneInchOpenPositionWatcher: a row with a quantity, past its          *)
(* take-profit or stop-loss, is sold.                                      *)
Watched(l) == book[l].st = "OPEN" /\ book[l].alloc > 0 /\ l \notin exitPause

WatchExits(c, l) ==
    /\ caller[c].pc = "idle" /\ Watched(l)
    /\ exitPause' = exitPause \union {l}
    /\ caller' = [caller EXCEPT ![c] = [Still EXCEPT !.pc = "swap", !.side = "SELL", !.for = l, !.qty = book[l].alloc]]
    /\ UNCHANGED <<cash, bag, book, asks>>

PauseEnds(l) ==
    /\ l \in exitPause
    /\ exitPause' = exitPause \ {l}
    /\ UNCHANGED <<cash, bag, book, caller, asks>>

Next ==
    \/ \E c \in Callers :
          \/ RequestBuy(c) \/ RequestSellNow(c)
          \/ Swap(c) \/ ReadBefore(c) \/ ReadAfter(c) \/ Record(c) \/ CancelRest(c) \/ CallThrows(c)
          \/ \E l \in Lots : WatchExits(c, l)
    \/ \E l \in Lots : PauseEnds(l)

Spec == Init /\ [][Next]_oneInchVars

-----------------------------------------------------------------------------
(* Every variable keeps its shape; the wallet never owes.                  *)
TypeOK ==
    /\ cash \in Nat /\ bag \in Nat /\ asks \in 0..MaxAsks
    /\ book \in [Lots -> [st : {"none", "OPEN", "CLOSED", "CANCELLED"}, alloc : Nat]]
    /\ caller \in [Callers -> [pc : {"idle", "swap", "before", "after", "book", "cancel"},
                               side : {"none", "BUY", "SELL"}, for : Lots \union {NoLot},
                               qty : Nat, before : Nat, spent : Nat, rest : SUBSET Lots]]
    /\ exitPause \subseteq Lots

(* oneInchOpenPositionWatcher.ts:2: "Auto-exit for OPEN positions in the   *)
(* DEX 1inch BSC book."  A row opened by a buy records what it bought, or  *)
(* neither the watcher nor "Sell now" will ever act on it.                 *)
OpenRowsAreWatched == \A l \in Open : book[l].alloc > 0
=============================================================================
