--------------------------- MODULE DelegateBudget ---------------------------
(***************************************************************************)
(* The hot wallet's delegated trades (services/wallet/hotWalletDelegate.ts *)
(* behind routes/hotWallet.ts).  A buy is bounded twice: by the sum of the *)
(* spend rows, and by the USDT allowance of the router, granted once.      *)
(* Both are looked at long before the row that counts the buy is written.  *)
(***************************************************************************)
EXTENDS Integers, FiniteSets

CONSTANTS
    Buyers,       \* requests that may be in flight at once
    BudgetUsdt,   \* maxTotalUsdt
    MaxPerTx,     \* maxPerTxUsdt
    MaxBuys       \* bound of the model

BudgetAssumption ==
    /\ BudgetUsdt \in Nat /\ MaxBuys \in Nat
    /\ MaxPerTx \in 1..BudgetUsdt

VARIABLES
    counted,     \* sum of the BUY rows of hotWalletDelegatedSpend
    remembered,  \* some BUY row holds an approveTxHash
    allowance,   \* what the router may still take, on the chain
    spent,       \* history: what it took
    grants,      \* history: approvals that landed
    buyer,       \* the requests in flight
    buys,        \* requests so far
    orderly      \* history: no two requests overlapped, none ended half-way

delegateVars == <<counted, remembered, allowance, spent, grants, buyer, buys, orderly>>

Waiting == [pc |-> "idle", amt |-> 0, approved |-> FALSE]
Busy == {b \in Buyers : buyer[b].pc # "idle"}

Init ==
    /\ counted = 0 /\ remembered = FALSE /\ allowance = 0
    /\ spent = 0 /\ grants = 0 /\ buys = 0 /\ orderly = TRUE
    /\ buyer = [b \in Buyers |-> Waiting]

(* Mutant: the per-transaction cap is all that is looked at.               *)
PerTxOnly(amt) == amt <= MaxPerTx

WithinBudget(amt) == amt <= MaxPerTx /\ amt <= BudgetUsdt - counted

(* The sum of the rows against the budget.                                 *)
CheckBudget(b, amt) ==
    /\ buyer[b].pc = "idle" /\ buys < MaxBuys
    /\ WithinBudget(amt)
    /\ buys' = buys + 1
    /\ orderly' = (orderly /\ Busy = {})
    /\ buyer' = [buyer EXCEPT ![b] = [pc |-> "allowance", amt |-> amt, approved |-> FALSE]]
    /\ UNCHANGED <<counted, remembered, allowance, spent, grants>>

(* ensureUsdtAllowance: enough is left; or nothing was ever approved, by   *)
(* the rows; or the buy is refused.                                        *)
CheckAllowance(b) ==
    /\ buyer[b].pc = "allowance"
    /\ buyer' = [buyer EXCEPT ![b] =
                   IF allowance >= @.amt THEN [@ EXCEPT !.pc = "swap"]
                   ELSE IF remembered THEN Waiting ELSE [@ EXCEPT !.pc = "approve"]]
    /\ UNCHANGED <<counted, remembered, allowance, spent, grants, buys, orderly>>

(* approve(router, cap) replaces whatever allowance was left.  It is mined *)
(* and waited for, or mined and given up on, or not mined.                 *)
Approve(b) ==
    /\ buyer[b].pc = "approve"
    /\ \/ /\ allowance' = BudgetUsdt /\ grants' = grants + 1
          /\ \/ /\ buyer' = [buyer EXCEPT ![b].pc = "swap", ![b].approved = TRUE]
                /\ UNCHANGED orderly
             \/ buyer' = [buyer EXCEPT ![b] = Waiting] /\ orderly' = FALSE
       \/ buyer' = [buyer EXCEPT ![b] = Waiting] /\ UNCHANGED <<allowance, grants, orderly>>
    /\ UNCHANGED <<counted, remembered, spent, buys>>

(* The swap takes the USDT if allowed; its wait may still throw.           *)
SwapUsdt(b) ==
    /\ buyer[b].pc = "swap"
    /\ \/ /\ allowance >= buyer[b].amt
          /\ allowance' = allowance - buyer[b].amt /\ spent' = spent + buyer[b].amt
          /\ \/ buyer' = [buyer EXCEPT ![b].pc = "row"] /\ UNCHANGED orderly
             \/ buyer' = [buyer EXCEPT ![b] = Waiting] /\ orderly' = FALSE
       \/ buyer' = [buyer EXCEPT ![b] = Waiting] /\ UNCHANGED <<allowance, spent, orderly>>
    /\ UNCHANGED <<counted, remembered, grants, buys>>

(* The row counts the buy and remembers the approval, or is lost.          *)
RecordSpend(b) ==
    /\ buyer[b].pc = "row"
    /\ \/ /\ counted' = counted + buyer[b].amt
          /\ remembered' = (remembered \/ buyer[b].approved)
          /\ UNCHANGED orderly
       \/ orderly' = FALSE /\ UNCHANGED <<counted, remembered>>
    /\ buyer' = [buyer EXCEPT ![b] = Waiting]
    /\ UNCHANGED <<allowance, spent, grants, buys>>

BuyerStep(b) == CheckAllowance(b) \/ Approve(b) \/ SwapUsdt(b) \/ RecordSpend(b)

(* The process dies.                                                       *)
Crash ==
    /\ Busy # {}
    /\ buyer' = [b \in Buyers |-> Waiting]
    /\ orderly' = FALSE
    /\ UNCHANGED <<counted, remembered, allowance, spent, grants, buys>>

Next ==
    \/ \E b \in Buyers : (\E amt \in 1..MaxPerTx : CheckBudget(b, amt)) \/ BuyerStep(b)
    \/ Crash

Spec == Init /\ [][Next]_delegateVars

-----------------------------------------------------------------------------
(* Every variable keeps its shape.                                         *)
TypeOK ==
    /\ counted \in Nat /\ remembered \in BOOLEAN /\ allowance \in 0..BudgetUsdt
    /\ spent \in Nat /\ grants \in Nat /\ buys \in 0..MaxBuys /\ orderly \in BOOLEAN
    /\ buyer \in [Buyers -> [pc : {"idle", "allowance", "approve", "swap", "row"},
                             amt : 0..MaxPerTx, approved : BOOLEAN]]

(* hotWalletDelegate.ts:148-166: as long as buys come one at a time and    *)
(* none ends half-way, the budget is kept although an approval is          *)
(* remembered only by the row of a buy that succeeded (a swap refused      *)
(* after its approval leaves a full allowance nobody remembers).  And      *)
(* whatever overlaps, fails or dies, the router takes no more than one     *)
(* budget for every approval it was given.                                 *)
BudgetHolds ==
    /\ orderly => spent <= BudgetUsdt
    /\ spent + allowance <= grants * BudgetUsdt
=============================================================================
