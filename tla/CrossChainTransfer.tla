------------------------- MODULE CrossChainTransfer -------------------------
(***************************************************************************)
(* Cross-chain transfers between a user's BSC and Solana wallets           *)
(* (src/src/services/wallet/crossChainTransferService.ts, its LI.FI bridge *)
(* and its credit-retry service).                                          *)
(*                                                                         *)
(* A transfer has two legs.  The request debits the user's source wallet   *)
(* into the operator's wallet on the source chain, then the credit leg     *)
(* pays the destination wallet, from the operator's inventory there or     *)
(* through the bridge.  Each leg is an on-chain transaction the code       *)
(* broadcasts and then awaits, so an error reaches the code whether or not *)
(* the transaction lands.  A credit leg that throws leaves the row         *)
(* CREDIT_PENDING, and the retry route and the 45 s sweep run the leg      *)
(* again, concurrently with the request and with each other.               *)
(*                                                                         *)
(* Every asset is counted in units of one token; the fee is taken in it.   *)
(***************************************************************************)
EXTENDS Naturals, FiniteSets

CONSTANTS
    Transfers,      \* transfers the users request; each is also its request's process
    Workers,        \* processes that retry credits: the route and the sweeps
    TxIds,          \* on-chain transactions that may exist (bound)
    NoTx, NoTransfer,
    Gross,          \* amount debited, in units of the source token
    Fee,            \* TRANSFER_FEE_USD in units of the source token
    Inventory       \* operator's initial balance on each chain

Chains == {"BSC", "SOL"}
Directions == {"BSC_TO_SOL", "SOL_TO_BSC"}
Statuses == {"none", "PENDING", "DEBITED", "COMPLETED", "CREDIT_PENDING", "FAILED"}
Actors == Transfers \cup Workers
Kinds == {"unused", "debit", "direct", "bridge", "fee"}
Payouts == {"direct", "bridge"}

ASSUME ConstantsAssumption ==
    /\ Gross \in Nat /\ Fee \in Nat /\ Inventory \in Nat
    /\ 0 < Fee /\ Fee < Gross
    /\ NoTx \notin TxIds
    /\ NoTransfer \notin Transfers
    /\ Transfers \cap Workers = {}

VARIABLES
    rec,    \* the crossChainTransfer rows; while the status is "none" there is
            \* no row and the other fields are the route the request resolved
    act,    \* the processes: where each one is and what it holds in memory
    tx,     \* the transactions on the two chains
    pool,   \* the operator's token balance per chain
    gas     \* whether the operator can pay gas per chain

vars == <<rec, act, tx, pool, gas>>

Source(d) == IF d = "BSC_TO_SOL" THEN "BSC" ELSE "SOL"
Destination(d) == IF d = "BSC_TO_SOL" THEN "SOL" ELSE "BSC"
CreditAmount == Gross - Fee

\* Mutant: the operands of the subtraction are swapped.
SwappedSourceAmount(priced) == IF priced THEN Fee - Gross ELSE Gross

\* computeBridgeSourceAmount: without a price the fee in tokens is 0.
BridgeSourceAmount(priced) == IF priced THEN Gross - Fee ELSE Gross

Rows == [status : Statuses, debitTxRef : BOOLEAN,
         direction : Directions, sameToken : BOOLEAN]
Txs == [kind : Kinds, for : Transfers \cup {NoTransfer}, amount : Nat,
        chain : Chains, st : {"unused", "sent", "landed", "done"}]
Processes == [pc : {"idle", "admitted", "created", "debiting", "picked",
                    "credit", "paying", "ended"},
              transfer : Transfers \cup {NoTransfer},
              awaits : TxIds \cup {NoTx},
              bridgeAmount : Nat]

TypeOK ==
    /\ rec \in [Transfers -> Rows]
    /\ act \in [Actors -> Processes]
    /\ tx \in [TxIds -> Txs]
    /\ pool \in [Chains -> Nat]
    /\ gas \in [Chains -> BOOLEAN]

NoTxRecord == [kind |-> "unused", for |-> NoTransfer, amount |-> 0,
               chain |-> "BSC", st |-> "unused"]
Idle == [pc |-> "idle", transfer |-> NoTransfer, awaits |-> NoTx, bridgeAmount |-> 0]
Ended == [Idle EXCEPT !.pc = "ended"]

\* A request runs once; a worker goes back to wait for its next transfer.
Resting(a) == IF a \in Transfers THEN Ended ELSE Idle

Init ==
    /\ rec = [t \in Transfers |-> [status |-> "none", debitTxRef |-> FALSE,
                                   direction |-> "BSC_TO_SOL", sameToken |-> TRUE]]
    /\ act = [a \in Actors |-> Idle]
    /\ tx = [i \in TxIds |-> NoTxRecord]
    /\ pool = [c \in Chains |-> Inventory]
    /\ gas \in [Chains -> BOOLEAN]

-----------------------------------------------------------------------------
(* The chains *)

Broadcast(i, k, t, n, c) ==
    /\ tx[i].st = "unused"
    /\ tx' = [tx EXCEPT ![i] = [kind |-> k, for |-> t, amount |-> n,
                                chain |-> c, st |-> "sent"]]

\* A debit credits the operator on its chain; every other kind debits it.
Effect(i) ==
    IF tx[i].kind = "debit" THEN pool[tx[i].chain] + tx[i].amount
                            ELSE pool[tx[i].chain] - tx[i].amount

\* A transaction lands: a direct payment or a debit is then final, a bridge
\* transaction still has to be settled on the destination chain.
TxLands(i) ==
    /\ tx[i].st = "sent"
    /\ tx[i].kind # "debit" => tx[i].amount <= pool[tx[i].chain]
    /\ tx' = [tx EXCEPT ![i].st = IF tx[i].kind = "bridge" THEN "landed" ELSE "done"]
    /\ pool' = [pool EXCEPT ![tx[i].chain] = Effect(i)]
    /\ \E left \in BOOLEAN :
          gas' = IF tx[i].kind = "debit" THEN gas
                 ELSE [gas EXCEPT ![tx[i].chain] = left]
    /\ UNCHANGED <<rec, act>>

\* It never lands: rejected, reverted or dropped.
TxDropped(i) ==
    /\ tx[i].st = "sent"
    /\ tx' = [tx EXCEPT ![i] = NoTxRecord]
    /\ act' = [a \in Actors |-> IF act[a].awaits = i
                                THEN [act[a] EXCEPT !.awaits = NoTx] ELSE act[a]]
    /\ UNCHANGED <<rec, pool, gas>>

\* LI.FI delivers on the destination chain ("DONE") ...
BridgeDelivers(i) ==
    /\ tx[i].kind = "bridge" /\ tx[i].st = "landed"
    /\ tx' = [tx EXCEPT ![i].st = "done"]
    /\ UNCHANGED <<rec, act, pool, gas>>

\* ... or gives the tokens back to the operator ("FAILED").
BridgeRefunds(i) ==
    /\ tx[i].kind = "bridge" /\ tx[i].st = "landed"
    /\ tx' = [tx EXCEPT ![i] = NoTxRecord]
    /\ pool' = [pool EXCEPT ![tx[i].chain] = @ + tx[i].amount]
    /\ act' = [a \in Actors |-> IF act[a].awaits = i
                                THEN [act[a] EXCEPT !.awaits = NoTx] ELSE act[a]]
    /\ UNCHANGED <<rec, gas>>

\* Mutant: the code goes on once the transaction is broadcast.
BroadcastSuffices(a) == act[a].awaits # NoTx

\* Mutant: a bridge transaction counts once it is on the source chain.
InclusionSuffices(a) ==
    act[a].awaits # NoTx /\ tx[act[a].awaits].st \in {"landed", "done"}

\* The call that a process awaits returns: wait(1) or confirmTransaction for
\* a transfer, pollLiFiStatus for the bridge.
Confirmed(a) == act[a].awaits # NoTx /\ tx[act[a].awaits].st = "done"

-----------------------------------------------------------------------------
(* The request: executeCrossChainTransfer *)

\* assertOperatorCanSettleCredit
OperatorCanSettle(d, same) ==
    \/ same /\ CreditAmount <= pool[Destination(d)]
    \/ gas[Source(d)]

\* The checks that precede the row; the row is created after further awaits.
AdmitTransfer(t) ==
    /\ act[t].pc = "idle"
    /\ \E d \in Directions, same \in BOOLEAN :
          /\ OperatorCanSettle(d, same)
          /\ rec' = [rec EXCEPT ![t].direction = d, ![t].sameToken = same]
    /\ act' = [act EXCEPT ![t].pc = "admitted", ![t].transfer = t,
                          ![t].bridgeAmount = BridgeSourceAmount(TRUE)]
    /\ UNCHANGED <<tx, pool, gas>>

CreateRow(t) ==
    /\ act[t].pc = "admitted"
    /\ rec' = [rec EXCEPT ![t].status = "PENDING"]
    /\ act' = [act EXCEPT ![t].pc = "created"]
    /\ UNCHANGED <<tx, pool, gas>>

SendDebit(t) ==
    /\ act[t].pc = "created"
    /\ \E i \in TxIds :
          /\ Broadcast(i, "debit", t, Gross, Source(rec[t].direction))
          /\ act' = [act EXCEPT ![t].pc = "debiting", ![t].awaits = i]
    /\ UNCHANGED <<rec, pool, gas>>

\* The send or the wait throws, whatever becomes of the transaction.
DebitThrows(t) ==
    /\ act[t].pc \in {"created", "debiting"}
    /\ rec' = [rec EXCEPT ![t].status = "FAILED"]
    /\ act' = [act EXCEPT ![t] = Ended]
    /\ UNCHANGED <<tx, pool, gas>>

DebitConfirmed(t) ==
    /\ act[t].pc = "debiting"
    /\ Confirmed(t)
    /\ rec' = [rec EXCEPT ![t].status = "DEBITED", ![t].debitTxRef = TRUE]
    /\ act' = [act EXCEPT ![t].pc = "credit", ![t].awaits = NoTx]
    /\ UNCHANGED <<tx, pool, gas>>

-----------------------------------------------------------------------------
(* The credit leg: runCreditLeg and what its two callers do with its result *)

HasInventory(t) ==
    rec[t].sameToken /\ CreditAmount <= pool[Destination(rec[t].direction)]

PayDirect(a) ==
    LET t == act[a].transfer IN
    /\ act[a].pc = "credit"
    /\ HasInventory(t)
    /\ \E i \in TxIds :
          /\ Broadcast(i, "direct", t, CreditAmount, Destination(rec[t].direction))
          /\ act' = [act EXCEPT ![a].pc = "paying", ![a].awaits = i]
    /\ UNCHANGED <<rec, pool, gas>>

\* topUpOperatorBridgeGasFromUser: BSC only, paid by the user's wallet.
TopUpGas(a) ==
    LET t == act[a].transfer IN
    /\ act[a].pc = "credit"
    /\ ~HasInventory(t)
    /\ rec[t].direction = "BSC_TO_SOL"
    /\ ~gas["BSC"]
    /\ gas' = [gas EXCEPT !["BSC"] = TRUE]
    /\ UNCHANGED <<rec, act, tx, pool>>

PayByBridge(a) ==
    LET t == act[a].transfer IN
    /\ act[a].pc = "credit"
    /\ ~HasInventory(t)
    /\ rec[t].direction = "BSC_TO_SOL" => gas["BSC"]
    /\ \E i \in TxIds :
          /\ Broadcast(i, "bridge", t, act[a].bridgeAmount, Source(rec[t].direction))
          /\ act' = [act EXCEPT ![a].pc = "paying", ![a].awaits = i]
    /\ UNCHANGED <<rec, pool, gas>>

\* Mutant: a credit leg that throws fails the transfer.
FailTransfer(t) == rec' = [rec EXCEPT ![t].status = "FAILED"]

MarkCreditPending(t) == rec' = [rec EXCEPT ![t].status = "CREDIT_PENDING"]

\* Any step of the leg throws: RPC errors, a revert, a bridge status of
\* FAILED, or the 8 minute poll running out while the bridge still works.
CreditThrows(a) ==
    /\ act[a].pc \in {"credit", "paying"}
    /\ MarkCreditPending(act[a].transfer)
    /\ act' = [act EXCEPT ![a] = Resting(a)]
    /\ UNCHANGED <<tx, pool, gas>>

\* The leg returns: the row is completed and the fee the leg withheld is
\* sent to the treasury by a call nobody awaits and whose failure is logged.
CreditConfirmed(a) ==
    LET t == act[a].transfer
        withheld == Gross - act[a].bridgeAmount IN
    /\ act[a].pc = "paying"
    /\ Confirmed(a)
    /\ rec' = [rec EXCEPT ![t].status = "COMPLETED"]
    /\ act' = [act EXCEPT ![a] = Resting(a)]
    /\ \/ UNCHANGED tx
       \/ withheld > 0 /\ \E i \in TxIds :
             Broadcast(i, "fee", t, withheld, Source(rec[t].direction))
    /\ UNCHANGED <<pool, gas>>

-----------------------------------------------------------------------------
(* The retries: retryCrossChainCredit and retryAllPendingCrossChainCredits *)

RetryByUser(w, t) ==
    /\ act[w].pc = "idle"
    /\ rec[t].status \in {"CREDIT_PENDING", "DEBITED"}
    /\ rec[t].debitTxRef
    /\ act' = [act EXCEPT ![w].pc = "picked", ![w].transfer = t]
    /\ UNCHANGED <<rec, tx, pool, gas>>

\* Mutant: the sweep looks for rows whose credit was never tried.
SweepsDebited(t) == rec[t].status = "DEBITED"

\* The where clause of the sweep.
SweepSelects(t) == rec[t].status = "CREDIT_PENDING"

RetryBySweep(w, t) ==
    /\ act[w].pc = "idle"
    /\ SweepSelects(t)
    /\ act' = [act EXCEPT ![w].pc = "picked", ![w].transfer = t]
    /\ UNCHANGED <<rec, tx, pool, gas>>

\* executeCrossChainCreditLeg reads the row again and prices the token anew.
StartCreditLeg(w) ==
    LET t == act[w].transfer IN
    /\ act[w].pc = "picked"
    /\ \/ /\ rec[t].status = "COMPLETED" \/ ~rec[t].debitTxRef
          /\ act' = [act EXCEPT ![w] = Idle]
       \/ /\ rec[t].status # "COMPLETED" /\ rec[t].debitTxRef
          /\ \E priced \in BOOLEAN :
                act' = [act EXCEPT ![w].pc = "credit",
                                   ![w].bridgeAmount = BridgeSourceAmount(priced)]
    /\ UNCHANGED <<rec, tx, pool, gas>>

-----------------------------------------------------------------------------

\* The process dies, or an await outside the try blocks throws; the row and
\* the chains keep what they have.
Crash(a) ==
    /\ act[a].pc \notin {"idle", "ended"}
    /\ act' = [act EXCEPT ![a] = Resting(a)]
    /\ UNCHANGED <<rec, tx, pool, gas>>

Next ==
    \/ \E i \in TxIds :
          TxLands(i) \/ TxDropped(i) \/ BridgeDelivers(i) \/ BridgeRefunds(i)
    \/ \E t \in Transfers :
          AdmitTransfer(t) \/ CreateRow(t) \/ SendDebit(t) \/ DebitThrows(t)
             \/ DebitConfirmed(t)
    \/ \E a \in Actors :
          PayDirect(a) \/ TopUpGas(a) \/ PayByBridge(a) \/ CreditThrows(a)
             \/ CreditConfirmed(a) \/ Crash(a)
    \/ \E w \in Workers :
          \/ \E t \in Transfers : RetryByUser(w, t) \/ RetryBySweep(w, t)
          \/ StartCreditLeg(w)

Spec == Init /\ [][Next]_vars

\* The sweep runs every 45 s whatever became of the previous one, and an
\* attempt returns or throws (WF); errors of the RPC nodes and of the bridge
\* are transient, so an attempt made again and again gets through (SF).
\* Nothing is assumed of the request itself: it may stop anywhere for good.
FairSpec ==
    /\ Spec
    /\ \A w \in Workers :
          /\ WF_vars(CreditThrows(w) \/ CreditConfirmed(w))
          /\ SF_vars(\E t \in Transfers : RetryBySweep(w, t))
          /\ SF_vars(StartCreditLeg(w))
          /\ SF_vars(TopUpGas(w))
          /\ SF_vars(PayDirect(w) \/ PayByBridge(w))
    /\ \A i \in TxIds : SF_vars(TxLands(i)) /\ SF_vars(BridgeDelivers(i))

-----------------------------------------------------------------------------
(* Properties *)

\* The debit of t has reached the operator's wallet.
Funded(t) == \E i \in TxIds : tx[i].kind = "debit" /\ tx[i].for = t /\ tx[i].st = "done"

Deliveries(t) == {i \in TxIds : tx[i].kind \in Payouts /\ tx[i].for = t /\ tx[i].st = "done"}

\* The operator never pays out, not even into the bridge, for a transfer
\* whose debit has not landed, whichever of the request, the retry route and
\* the sweep runs the credit leg and wherever one of them crashed.
PayoutBacked ==
    \A i \in TxIds : tx[i].kind \in Payouts => Funded(tx[i].for)

\* A row says COMPLETED only if a payment has reached the destination wallet,
\* even when several attempts of the credit leg overlap.
CompletedIsDelivered ==
    \A t \in Transfers : rec[t].status = "COMPLETED" => Deliveries(t) # {}

\* A transfer reported FAILED is never paid: no attempt of its credit leg is
\* under way and none will start.
FailedIsNeverPaid ==
    \A t \in Transfers : rec[t].status = "FAILED" =>
        /\ \A i \in TxIds : tx[i].for = t => tx[i].kind = "debit"
        /\ \A a \in Actors : act[a].transfer # t

\* The settlement fee leaves for the treasury only after the user was paid.
FeeAfterDelivery ==
    \A i \in TxIds : tx[i].kind = "fee" => Deliveries(tx[i].for) # {}

\* A row that waits for its credit is eventually paid.
PendingIsEventuallyPaid ==
    \A t \in Transfers : (rec[t].status = "CREDIT_PENDING") ~> (Deliveries(t) # {})

\* The destination wallet is paid at most once for a transfer.  The schema
\* describes a single credit ("Amount credited to the destination wallet").
PaidAtMostOnce ==
    \A t \in Transfers : Cardinality(Deliveries(t)) <= 1

\* A debit the user has paid for is eventually credited, as the error message
\* of the credit leg and the retry service announce.
FundedIsEventuallyPaid ==
    \A t \in Transfers : rec[t].debitTxRef ~> (Deliveries(t) # {})

\* The credit contract, seen through the rows and the chains.
Contract == INSTANCE CreditContract WITH
    Payments <- TxIds,
    funded <- {t \in Transfers : Funded(t)},
    delivered <- [t \in Transfers |-> Deliveries(t)],
    completed <- {t \in Transfers : rec[t].status = "COMPLETED"}

\* The service implements the at-least-once credit contract.
ImplementsContract == Contract!Spec
=============================================================================
