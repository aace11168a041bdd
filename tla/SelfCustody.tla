---------------------------- MODULE SelfCustody ----------------------------
(***************************************************************************)
(* Jupiter swaps that the user's own wallet signs in the browser           *)
(* (dex/jupiterBrowserSwapService.ts) and the manual desk that previews    *)
(* them (dex/jupiterManualDeskService.ts).  The server builds a swap and   *)
(* keeps what it quoted in a map of the process; the signed transaction    *)
(* comes back, is relayed and booked from that memory in a book of its     *)
(* own.  One user and one token.  All amounts are in half dollars: a token *)
(* and a unit of SOL are worth one, the reserve for fees is one, the       *)
(* minimum of a trade is two.                                              *)
(***************************************************************************)
EXTENDS Integers, Sequences, FiniteSets, FiniteSetsExt

CONSTANTS
    Submits,                   \* submissions that may be under way at once
    Amounts,                   \* amounts a swap may be asked for
    Funds,                     \* of each currency in the user's wallet
    SolUsd,                    \* price of a SOL, in the unit of entry prices
    MaxBuilds, MaxFaults       \* bounds: swaps built, answers lost and restarts

SelfCustodyAssumption == /\ Amounts \subseteq Nat \ {0} /\ Funds \in Nat /\ SolUsd \in Nat \ {0}
                         /\ MaxBuilds \in Nat /\ MaxFaults \in Nat

VARIABLES
    wallet,   \* the balances of the connected wallet
    swaps,    \* the swaps built so far, with what became of their transaction
    known,    \* builds: the numbers of those the process remembers
    sub,      \* what each submission is doing
    book,     \* the rows of the self-custody book
    booked,   \* history: how often each swap was booked
    odd,      \* history: a lot paid in SOL, a sale beyond the oldest lot, or a race
    faults    \* history: answers lost, restarts

custodyVars == <<wallet, swaps, known, sub, book, booked, odd, faults>>

Reserve == 1
Minimum == 2
Orders == {o \in [side : {"BUY", "SELL"}, pay : {"usdc", "sol"}, amount : Amounts] : o.side = "SELL" => o.pay = "usdc"}
Small == {[side |-> "BUY", pay |-> "usdc", amount |-> 1], [side |-> "SELL", pay |-> "usdc", amount |-> 1],
          [side |-> "BUY", pay |-> "sol", amount |-> 1]}
BoughtLot(o) == [alloc |-> o.amount, banked |-> 0, sol |-> o.pay = "sol", cost |-> o.amount, open |-> TRUE]
Idle == [pc |-> "idle", n |-> 0, row |-> 0, read |-> [alloc |-> 0, banked |-> 0, sol |-> FALSE]]

Init ==
    /\ wallet \in [usdc : {Funds}, sol : {0, Reserve, Funds}, tok : {0, Funds}]
    /\ book \in {<<>>, <<BoughtLot([pay |-> "usdc", amount |-> Funds])>>}
    /\ swaps = <<>> /\ known = {} /\ booked = <<>>
    /\ sub = [s \in Submits |-> Idle]
    /\ odd = FALSE /\ faults = 0

Fault == faults < MaxFaults /\ faults' = faults + 1
Goto(s, pc) == sub' = [sub EXCEPT ![s].pc = pc]
Done(s) == sub' = [sub EXCEPT ![s] = Idle]

-----------------------------------------------------------------------------
(* buildBrowserJupiterSwap: why a swap is refused.                         *)
Source(o) == IF o.side = "SELL" THEN "tok" ELSE o.pay
Refusals(w, o) ==
    {r \in {"balance", "gas", "minimum"} :
        CASE r = "balance" -> w[Source(o)] < o.amount + (IF Source(o) = "sol" THEN Reserve ELSE 0)
          [] r = "gas" -> w.sol < Reserve
          [] r = "minimum" -> o.amount < Minimum}

Build(o) ==
    /\ Len(swaps) < MaxBuilds /\ Refusals(wallet, o) = {}
    /\ swaps' = Append(swaps, [o |-> o, st |-> "made"])
    /\ known' = known \union {Len(swaps) + 1}
    /\ booked' = Append(booked, 0)
    /\ UNCHANGED <<wallet, sub, book, odd, faults>>

(* pruneBuilds: 90 s later.                                                *)
BuildExpires(n) ==
    /\ n \in known /\ known' = known \ {n}
    /\ UNCHANGED <<wallet, swaps, sub, book, booked, odd, faults>>

(* submitBrowserJupiterSwap, called again perhaps while a first call is    *)
(* under way or after it threw.                                            *)
Submit(s, n) ==
    /\ sub[s].pc = "idle" /\ n \in known
    /\ sub' = [sub EXCEPT ![s] = [Idle EXCEPT !.pc = "execute", !.n = n]]
    /\ odd' = (odd \/ \E t \in Submits : sub[t].pc # "idle")
    /\ UNCHANGED <<wallet, swaps, known, book, booked, faults>>

(* What the swap moves in the wallet.                                      *)
Moved(w, o) ==
    IF o.side = "BUY" THEN [w EXCEPT ![o.pay] = @ - o.amount, !.tok = @ + o.amount]
    ELSE [w EXCEPT !.tok = @ - o.amount, !.usdc = @ + o.amount]

(* submitJupiterExecute: the transaction lands, fails for want of funds or *)
(* a better price, or its answer is lost; one that has landed is answered  *)
(* with the same signature.  Then the build is forgotten.                  *)
Execute(s) ==
    LET n == sub[s].n
        o == swaps[n].o
    IN  /\ sub[s].pc = "execute"
        /\ \/ /\ swaps[n].st = "made" /\ wallet[Source(o)] >= o.amount
              /\ swaps' = [swaps EXCEPT ![n].st = "landed"] /\ wallet' = Moved(wallet, o)
              /\ \/ Goto(s, "book") /\ known' = known \ {n} /\ UNCHANGED faults
                 \/ Fault /\ Done(s) /\ UNCHANGED known
           \/ /\ swaps[n].st = "made" /\ swaps' = [swaps EXCEPT ![n].st = "failed"]
              /\ Done(s) /\ UNCHANGED <<wallet, known, faults>>
           \/ /\ swaps[n].st = "landed" /\ Goto(s, "book") /\ known' = known \ {n}
              /\ UNCHANGED <<swaps, wallet, faults>>
           \/ swaps[n].st = "failed" /\ Done(s) /\ UNCHANGED <<swaps, wallet, known, faults>>
        /\ UNCHANGED <<book, booked, odd>>

(* A bought lot gets a row of its own; its entry price is what was paid,   *)
(* in whatever currency, per token.                                        *)
BookBuy(s) ==
    LET o == swaps[sub[s].n].o
    IN  /\ sub[s].pc = "book" /\ o.side = "BUY"
        /\ book' = Append(book, BoughtLot(o))
        /\ booked' = [booked EXCEPT ![sub[s].n] = @ + 1]
        /\ odd' = (odd \/ o.pay = "sol")
        /\ Done(s)
        /\ UNCHANGED <<wallet, swaps, known, faults>>

OpenRows == {r \in DOMAIN book : book[r].open}

(* A sale reads the oldest open row; without one it gets a closed row.     *)
ReadOldest(s) ==
    LET o == swaps[sub[s].n].o
        r == Min(OpenRows)
    IN  /\ sub[s].pc = "book" /\ o.side = "SELL"
        /\ IF OpenRows = {}
           THEN /\ book' = Append(book, [alloc |-> o.amount, banked |-> 0, sol |-> FALSE, cost |-> 0, open |-> FALSE])
                /\ booked' = [booked EXCEPT ![sub[s].n] = @ + 1]
                /\ odd' = TRUE /\ Done(s)
           ELSE /\ sub' = [sub EXCEPT ![s].pc = "write", ![s].row = r,
                              ![s].read = [alloc |-> book[r].alloc, banked |-> book[r].banked, sol |-> book[r].sol]]
                /\ odd' = (odd \/ o.amount > book[r].alloc)
                /\ UNCHANGED <<book, booked>>
        /\ UNCHANGED <<wallet, swaps, known, faults>>

(* The part of a lot that a sale closes: its quantity is allocation over   *)
(* entry price, and from 95 % of it on everything is sold.                 *)
BookedQty(lot) == lot.alloc * (IF lot.sol THEN SolUsd ELSE 1)
IsPartial(lot, sold) == sold * 100 < BookedQty(lot) * 95
ClosedAlloc(lot, sold) == IF IsPartial(lot, sold) THEN (lot.alloc * sold) \div BookedQty(lot) ELSE lot.alloc
StillOpen(lot, sold) == IsPartial(lot, sold) /\ lot.alloc - ClosedAlloc(lot, sold) > 1

(* The row is written from what was read: the rest, or all of it closed;   *)
(* the profit banked by earlier sales stays in the sum.                    *)
WriteRow(s) ==
    LET o == swaps[sub[s].n].o
        lot == sub[s].read
        keeps == StillOpen(lot, o.amount)
    IN  /\ sub[s].pc = "write"
        /\ book' = [book EXCEPT ![sub[s].row].open = keeps,
                                ![sub[s].row].alloc = IF keeps THEN lot.alloc - ClosedAlloc(lot, o.amount)
                                                      ELSE lot.alloc,
                                ![sub[s].row].banked = lot.banked + ClosedAlloc(lot, o.amount)]
        /\ booked' = [booked EXCEPT ![sub[s].n] = @ + 1]
        /\ Done(s)
        /\ UNCHANGED <<wallet, swaps, known, odd, faults>>

(* The process restarts: the builds and the submissions are gone.          *)
Restart ==
    /\ Fault /\ known' = {} /\ sub' = [s \in Submits |-> Idle]
    /\ UNCHANGED <<wallet, swaps, book, booked, odd>>

Next ==
    \/ \E o \in Orders : Build(o)
    \/ \E n \in DOMAIN swaps : BuildExpires(n)
    \/ \E s \in Submits :
          \/ \E n \in DOMAIN swaps : Submit(s, n)
          \/ Execute(s) \/ BookBuy(s) \/ ReadOldest(s) \/ WriteRow(s)
    \/ Restart

Spec == Init /\ [][Next]_custodyVars

-----------------------------------------------------------------------------
(* previewJupiterManualTrade: what blocks an order before it is built.     *)
Blockers(w, o) ==
    {r \in {"balance", "gas", "minimum"} :
        CASE r = "balance" -> IF o.side = "SELL" THEN o.amount > w.tok
                              ELSE o.amount > (IF o.pay = "sol" THEN Max({0, w.sol - Reserve}) ELSE w.usdc)
          [] r = "gas" -> w.sol < Reserve
          [] r = "minimum" -> o.side = "BUY" /\ o.pay = "usdc" /\ o.amount < Minimum}

(* getJupiterDesk: how much the desk suggests to buy, with nothing open, a *)
(* conviction in percent and the quality of the quote it probed.           *)
SuggestedSize(w, conviction, quality) ==
    IF conviction >= 50 /\ quality # "poor" /\ w.usdc >= Minimum /\ w.sol >= Reserve
    THEN (w.usdc * 95 * conviction) \div 10000 ELSE 0

-----------------------------------------------------------------------------
Calm == \A s \in Submits : sub[s].pc = "idle"
Landed == {n \in DOMAIN swaps : swaps[n].st = "landed"}

(* Every variable keeps its shape.                                         *)
TypeOK ==
    /\ \A k \in DOMAIN wallet : wallet[k] \in Nat
    /\ known \subseteq DOMAIN swaps /\ DOMAIN booked = DOMAIN swaps
    /\ \A n \in DOMAIN swaps : swaps[n].o \in Orders /\ swaps[n].st \in {"made", "landed", "failed"}
    /\ \A s \in Submits : sub[s].n \in 0..Len(swaps) /\ sub[s].row \in 0..Len(book)
    /\ odd \in BOOLEAN /\ faults \in 0..MaxFaults

(* jupiterBrowserSwapService.ts:264-395: only a swap that landed is        *)
(* booked, and no more often than it was submitted at one time; without    *)
(* faults and with nothing under way each one is booked.                   *)
SwapsBookedOnce ==
    /\ \A n \in DOMAIN swaps :
          /\ booked[n] > 0 => n \in Landed
          /\ booked[n] <= IF odd THEN Cardinality(Submits) ELSE 1
    /\ faults = 0 /\ Calm => \A n \in Landed : booked[n] > 0

(* jupiterBrowserSwapService.ts:337-361: profit is banked on the whole     *)
(* cost of a lot once, however it is sold in parts and even when sales     *)
(* overwrite each other's rows ...                                         *)
CostIsBankedOnce ==
    \A r \in DOMAIN book : book[r].cost > 0 =>
        IF book[r].open THEN book[r].alloc + book[r].banked = book[r].cost
        ELSE book[r].banked \in (book[r].cost - 1)..book[r].cost

(* ... and while lots are paid in USDC and sold oldest first, one          *)
(* submission at a time, the open rows hold what was bought and not sold,  *)
(* the last half dollar and 5 % of a lot aside.                            *)
LotsBalance ==
    ~odd /\ faults = 0 /\ Calm =>
        LET sold == MapThenSumSet(LAMBDA n : IF swaps[n].o.side = "SELL" THEN swaps[n].o.amount ELSE 0, Landed)
            left == MapThenSumSet(LAMBDA r : book[r].cost, DOMAIN book) - sold
        IN  MapThenSumSet(LAMBDA r : book[r].alloc, OpenRows) \in (left - Len(book))..left

(* jupiterManualDeskService.ts:347-394, 226-244 against                    *)
(* jupiterBrowserSwapService.ts:154-186: an order the preview lets through *)
(* is not refused when it is built, unless it is below the minimum and not *)
(* paid in USDC, which the preview only warns of; and what the desk        *)
(* suggests can be bought unless it is below the minimum.                  *)
PreviewIsHonest ==
    /\ \A o \in Orders \union Small : Blockers(wallet, o) = {} =>
          Refusals(wallet, o) \subseteq (IF o.side = "BUY" /\ o.pay = "usdc" THEN {} ELSE {"minimum"})
    /\ \A conviction \in {49, 50, 95}, quality \in {"good", "poor"} :
          LET o == [side |-> "BUY", pay |-> "usdc", amount |-> SuggestedSize(wallet, conviction, quality)]
          IN  o.amount > 0 => Refusals(wallet, o) \subseteq {"minimum"}
=============================================================================
