------------------------------ MODULE MCOrders ------------------------------
(***************************************************************************)
(* Model checking of Orders, and of the liveness of CrossChainTransfer.    *)
(* The two share no state: a behaviour is one of the scene's component     *)
(* while the other rests, and the scene never changes.  Fairness for one   *)
(* action of every scene is therefore fairness for their disjunction.      *)
(* Liveness is checked, so symmetry is not used.                           *)
(***************************************************************************)
EXTENDS Orders

CONSTANTS s1, s2, t1, w1, x1, x2, NoTx, NoTransfer

VARIABLES scene, rec, act, tx, pool, gas

T == INSTANCE CrossChainTransfer WITH
        Transfers <- {t1}, Workers <- {w1}, TxIds <- {x1, x2}, Gross <- 2, Fee <- 1, Inventory <- 1

transfers == <<rec, act, tx, pool, gas>>
allVars == <<scene, vars, transfers>>

InitBoth ==
    /\ scene \in {"orders", "transfers"}
    /\ Init /\ T!Init
    /\ scene # "transfers" => gas = [c \in DOMAIN gas |-> TRUE]

InOrders(A) == scene = "orders" /\ A /\ UNCHANGED <<scene, transfers>>
InTransfers(A) == scene = "transfers" /\ A /\ UNCHANGED <<scene, vars>>

NextBoth ==
    \/ scene = "orders" /\ Next /\ UNCHANGED <<scene, transfers>>
    \/ scene = "transfers" /\ T!Next /\ UNCHANGED <<scene, vars>>

FairBoth ==
    /\ InitBoth /\ [][NextBoth]_allVars
    /\ WF_allVars(InOrders(SkipStatus(s1) \/ SyncThrows(s1)) \/ InTransfers(T!CreditThrows(w1) \/ T!CreditConfirmed(w1)))
    /\ WF_allVars(InOrders(SkipStatus(s2) \/ SyncThrows(s2)))
    /\ SF_allVars(InOrders(SyncBySweep(s1)) \/ InTransfers(T!RetryBySweep(w1, t1)))
    /\ SF_allVars(InOrders(SyncBySweep(s2)) \/ InTransfers(T!StartCreditLeg(w1)))
    /\ SF_allVars(InOrders(\E o \in Orders : AskExchange(s1, o)) \/ InTransfers(T!TopUpGas(w1)))
    /\ SF_allVars(InOrders(\E o \in Orders : AskExchange(s2, o)) \/ InTransfers(T!PayDirect(w1) \/ T!PayByBridge(w1)))
    /\ SF_allVars(InOrders(WriteStatus(s1)) \/ InTransfers(T!TxLands(x1)))
    /\ SF_allVars(InOrders(WriteStatus(s2)) \/ InTransfers(T!TxLands(x2)))
    /\ SF_allVars(InTransfers(T!BridgeDelivers(x1)))
    /\ SF_allVars(InTransfers(T!BridgeDelivers(x2)))

\* CrossChainTransfer: a pending credit is paid in the end, by the sweep.
PendingIsEventuallyPaid == T!PendingIsEventuallyPaid
=============================================================================
