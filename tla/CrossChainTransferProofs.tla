---------------------- MODULE CrossChainTransferProofs ----------------------
(***************************************************************************)
(* Proofs about CrossChainTransfer, for any number of transfers, of        *)
(* retrying processes and of transactions.  The safety properties rest on  *)
(* one inductive invariant: the debit reference of a row separates what    *)
(* may happen before the user's money arrived from what may happen after.  *)
(***************************************************************************)
EXTENDS CrossChainTransfer, TLAPS

\* A request works on its own transfer, a process that rests on none, and a
\* process in the credit leg on some transfer.
ProcessesInv ==
    /\ \A t \in Transfers : act[t].transfer \in {t, NoTransfer}
    /\ \A t \in Transfers : act[t].pc \notin {"idle", "ended"} => act[t].transfer = t
    /\ \A a \in Actors : act[a].pc \in {"idle", "ended"} => act[a].transfer = NoTransfer
    /\ \A w \in Workers : act[w].pc # "idle" => act[w].transfer \in Transfers

\* Before its debit is confirmed a request has no debit reference.
BeforeDebitInv ==
    \A t \in Transfers :
        /\ act[t].pc \in {"idle", "admitted", "created", "debiting"} => ~rec[t].debitTxRef
        /\ rec[t].status \in {"DEBITED", "CREDIT_PENDING", "COMPLETED"} => rec[t].debitTxRef
        /\ rec[t].status = "FAILED" => ~rec[t].debitTxRef /\ act[t].pc = "ended"

\* A process that awaits a transaction awaits one of its own making.
AwaitsInv ==
    \A a \in Actors : act[a].awaits # NoTx =>
        /\ tx[act[a].awaits].st # "unused"
        /\ tx[act[a].awaits].for = act[a].transfer
        /\ act[a].pc = "debiting" => tx[act[a].awaits].kind = "debit"
        /\ act[a].pc = "paying" => tx[act[a].awaits].kind \in Payouts

\* A debit reference means that the debit landed.
DebitRefInv == \A t \in Transfers : rec[t].debitTxRef => Funded(t)

\* The credit leg runs, and pays, only for rows with a debit reference.
CreditInv ==
    /\ \A w \in Workers : act[w].pc # "idle" => rec[act[w].transfer].debitTxRef
    /\ \A t \in Transfers : act[t].pc \in {"credit", "paying"} => rec[t].debitTxRef
    /\ \A i \in TxIds : tx[i].kind \in Payouts \cup {"fee"} =>
          tx[i].for \in Transfers /\ rec[tx[i].for].debitTxRef
    /\ \A i \in TxIds : tx[i].kind = "unused" => tx[i].for = NoTransfer

IInv ==
    /\ TypeOK
    /\ ProcessesInv
    /\ BeforeDebitInv
    /\ AwaitsInv
    /\ DebitRefInv
    /\ CreditInv
    /\ CompletedIsDelivered
    /\ FeeAfterDelivery

-----------------------------------------------------------------------------
(* Type correctness *)

USE DEF Actors

\* Every record a transaction slot can be given is well formed.
LEMMA BroadcastType ==
    ASSUME TypeOK, NEW i \in TxIds, NEW k \in Kinds, NEW t \in Transfers \cup {NoTransfer},
           NEW n \in Nat, NEW c \in Chains, Broadcast(i, k, t, n, c)
    PROVE  tx' \in [TxIds -> Txs]
  BY DEF TypeOK, Broadcast, Txs

\* The records of a resting process and of an unused slot are well formed.
LEMMA RestingType ==
    /\ NoTxRecord \in Txs
    /\ Idle \in Processes /\ Ended \in Processes
    /\ \A a \in Actors : Resting(a) \in Processes
  <1>1. NoTxRecord \in Txs
    BY DEF NoTxRecord, Txs, Kinds, Chains
  <1>2. Idle \in Processes
    BY DEF Idle, Processes
  <1>3. Ended \in Processes
    BY <1>2 DEF Ended, Idle, Processes
  <1> QED BY <1>1, <1>2, <1>3 DEF Resting

\* The amounts of the two legs are natural numbers.
LEMMA AmountTypes ==
    /\ CreditAmount \in Nat /\ Gross \in Nat
    /\ \A b \in BOOLEAN : BridgeSourceAmount(b) \in Nat
  BY ConstantsAssumption DEF CreditAmount, BridgeSourceAmount

\* Both ends of a direction are chains.
LEMMA EndsAreChains ==
    \A d : Source(d) \in Chains /\ Destination(d) \in Chains
  BY DEF Source, Destination, Chains

\* The state stays well typed, whatever is broadcast, lost, retried or
\* interrupted.
LEMMA TypeOKInductive == TypeOK /\ [Next]_vars => TypeOK'
  <1> SUFFICES ASSUME TypeOK, [Next]_vars PROVE TypeOK'
    OBVIOUS
  <1> USE RestingType, AmountTypes, EndsAreChains
  <1>1. ASSUME NEW i \in TxIds, TxLands(i) PROVE TypeOK'
    <2>1. tx[i] \in Txs
      BY DEF TypeOK
    <2>2. tx' \in [TxIds -> Txs]
      BY <1>1, <2>1 DEF TypeOK, TxLands, Txs
    <2>3. Effect(i) \in Nat
      BY <1>1, <2>1 DEF TypeOK, TxLands, Effect, Txs
    <2>4. pool' \in [Chains -> Nat]
      BY <1>1, <2>3 DEF TypeOK, TxLands
    <2>5. gas' \in [Chains -> BOOLEAN]
      BY <1>1, <2>1 DEF TypeOK, TxLands
    <2> QED BY <1>1, <2>2, <2>4, <2>5 DEF TypeOK, TxLands
  <1>2. ASSUME NEW i \in TxIds, TxDropped(i) PROVE TypeOK'
    BY <1>2 DEF TypeOK, TxDropped, Processes
  <1>3. ASSUME NEW i \in TxIds, BridgeDelivers(i) PROVE TypeOK'
    BY <1>3 DEF TypeOK, BridgeDelivers, Txs
  <1>4. ASSUME NEW i \in TxIds, BridgeRefunds(i) PROVE TypeOK'
    <2>1. tx[i].chain \in Chains /\ tx[i].amount \in Nat
      BY DEF TypeOK, Txs
    <2>2. pool[tx[i].chain] + tx[i].amount \in Nat
      BY <2>1 DEF TypeOK
    <2>3. pool' \in [Chains -> Nat]
      BY <1>4, <2>2 DEF TypeOK, BridgeRefunds
    <2>4. act' \in [Actors -> Processes]
      BY <1>4 DEF TypeOK, BridgeRefunds, Processes
    <2> QED BY <1>4, <2>3, <2>4 DEF TypeOK, BridgeRefunds
  <1>5. ASSUME NEW t \in Transfers, AdmitTransfer(t) PROVE TypeOK'
    <2>1. PICK d \in Directions, same \in BOOLEAN :
              rec' = [rec EXCEPT ![t].direction = d, ![t].sameToken = same]
      BY <1>5 DEF AdmitTransfer
    <2>2. rec' \in [Transfers -> Rows]
      <3>1. rec[t] \in Rows
        BY DEF TypeOK
      <3>2. [[rec[t] EXCEPT !.direction = d] EXCEPT !.sameToken = same] \in Rows
        BY <3>1 DEF Rows
      <3> QED BY <2>1, <3>2 DEF TypeOK
    <2>3. act' \in [Actors -> Processes]
      <3>1. BridgeSourceAmount(TRUE) \in Nat
        OBVIOUS
      <3> HIDE DEF TypeOK
      <3>2. act \in [Actors -> Processes]
        BY DEF TypeOK
      <3>3. act' = [act EXCEPT ![t].pc = "admitted", ![t].transfer = t,
                               ![t].bridgeAmount = BridgeSourceAmount(TRUE)]
        BY <1>5 DEF AdmitTransfer
      <3> DEFINE n == BridgeSourceAmount(TRUE)
                 new == [act[t] EXCEPT !.pc = "admitted", !.transfer = t, !.bridgeAmount = n]
      <3>4. t \in Actors
        BY DEF Actors
      <3>5. act' = [act EXCEPT ![t] = new]
        BY <3>2, <3>3, <3>4
      <3> HIDE DEF n
      <3>6. new \in Processes
        BY <3>1, <3>2, <3>4 DEF Processes, n
      <3> HIDE DEF new
      <3> QED BY <3>2, <3>4, <3>5, <3>6
    <2> QED BY <1>5, <2>2, <2>3 DEF TypeOK, AdmitTransfer
  <1>6. ASSUME NEW t \in Transfers, CreateRow(t) PROVE TypeOK'
    <2>1. rec[t] \in Rows /\ act[t] \in Processes /\ t \in Actors
      BY DEF TypeOK, Actors
    <2>2. /\ rec' = [rec EXCEPT ![t] = [rec[t] EXCEPT !.status = "PENDING"]]
          /\ act' = [act EXCEPT ![t] = [act[t] EXCEPT !.pc = "created"]]
      BY <1>6, <2>1 DEF TypeOK, CreateRow
    <2>3. [rec[t] EXCEPT !.status = "PENDING"] \in Rows
      BY <2>1 DEF Rows, Statuses
    <2>4. [act[t] EXCEPT !.pc = "created"] \in Processes
      BY <2>1 DEF Processes
    <2>5. rec' \in [Transfers -> Rows] /\ act' \in [Actors -> Processes]
      BY <2>1, <2>2, <2>3, <2>4 DEF TypeOK
    <2> QED BY <1>6, <2>5 DEF TypeOK, CreateRow
  <1>7. ASSUME NEW t \in Transfers, SendDebit(t) PROVE TypeOK'
    <2>1. PICK i \in TxIds :
              /\ Broadcast(i, "debit", t, Gross, Source(rec[t].direction))
              /\ act' = [act EXCEPT ![t].pc = "debiting", ![t].awaits = i]
      BY <1>7 DEF SendDebit
    <2>2. Source(rec[t].direction) \in Chains
      BY DEF TypeOK, Rows
    <2>3. tx' \in [TxIds -> Txs]
      BY <2>1, <2>2, BroadcastType DEF Kinds
    <2>4. act' \in [Actors -> Processes]
      <3>1. act[t] \in Processes /\ t \in Actors
        BY DEF TypeOK, Actors
      <3>2. [act[t] EXCEPT !.pc = "debiting", !.awaits = i] \in Processes
        BY <3>1 DEF Processes
      <3>3. act' = [act EXCEPT ![t] = [act[t] EXCEPT !.pc = "debiting", !.awaits = i]]
        BY <2>1, <3>1 DEF TypeOK
      <3> QED BY <3>1, <3>2, <3>3 DEF TypeOK
    <2> QED BY <1>7, <2>3, <2>4 DEF TypeOK, SendDebit
  <1>8. ASSUME NEW t \in Transfers, DebitThrows(t) PROVE TypeOK'
    BY <1>8 DEF TypeOK, DebitThrows, Rows, Statuses
  <1>9. ASSUME NEW t \in Transfers, DebitConfirmed(t) PROVE TypeOK'
    <2>0. rec[t] \in Rows /\ act[t] \in Processes /\ t \in Actors
      BY DEF TypeOK, Actors
    <2>1. rec' \in [Transfers -> Rows]
      <3>1. [rec[t] EXCEPT !.status = "DEBITED", !.debitTxRef = TRUE] \in Rows
        BY <2>0 DEF Rows, Statuses
      <3>2. rec' = [rec EXCEPT ![t] = [rec[t] EXCEPT !.status = "DEBITED", !.debitTxRef = TRUE]]
        BY <1>9 DEF TypeOK, DebitConfirmed
      <3> QED BY <3>1, <3>2 DEF TypeOK
    <2>2. act' \in [Actors -> Processes]
      <3>1. [act[t] EXCEPT !.pc = "credit", !.awaits = NoTx] \in Processes
        BY <2>0 DEF Processes
      <3>2. act' = [act EXCEPT ![t] = [act[t] EXCEPT !.pc = "credit", !.awaits = NoTx]]
        BY <1>9, <2>0 DEF TypeOK, DebitConfirmed
      <3> QED BY <2>0, <3>1, <3>2 DEF TypeOK
    <2> QED BY <1>9, <2>1, <2>2 DEF TypeOK, DebitConfirmed
  <1>10. ASSUME NEW a \in Actors, PayDirect(a) \/ PayByBridge(a) PROVE TypeOK'
    <2> DEFINE t == act[a].transfer
    <2>1. t \in Transfers \cup {NoTransfer} /\ act[a].bridgeAmount \in Nat
      BY DEF TypeOK, Processes
    <2>2. rec' = rec /\ pool' = pool /\ gas' = gas
      BY <1>10 DEF PayDirect, PayByBridge
    <2>3. PICK i \in TxIds, k \in Payouts, n \in Nat, c \in Chains :
              /\ Broadcast(i, k, t, n, c)
              /\ act' = [act EXCEPT ![a].pc = "paying", ![a].awaits = i]
      <3>1. CASE PayDirect(a)
        BY <3>1 DEF PayDirect, Payouts
      <3>2. CASE PayByBridge(a)
        BY <2>1, <3>2 DEF PayByBridge, Payouts
      <3> QED BY <1>10, <3>1, <3>2
    <2>4. tx' \in [TxIds -> Txs]
      BY <2>1, <2>3, BroadcastType DEF Kinds, Payouts
    <2>5. act' \in [Actors -> Processes]
      BY <2>3 DEF TypeOK, Processes
    <2> QED BY <2>2, <2>4, <2>5 DEF TypeOK
  <1>11. ASSUME NEW a \in Actors, TopUpGas(a) PROVE TypeOK'
    BY <1>11 DEF TypeOK, TopUpGas, Chains
  <1>12. ASSUME NEW a \in Actors, CreditThrows(a) PROVE TypeOK'
    BY <1>12 DEF TypeOK, CreditThrows, MarkCreditPending, Rows, Statuses
  <1>13. ASSUME NEW a \in Actors, CreditConfirmed(a) PROVE TypeOK'
    <2> DEFINE t == act[a].transfer
               withheld == Gross - act[a].bridgeAmount
    <2>1. t \in Transfers \cup {NoTransfer} /\ act[a].bridgeAmount \in Nat
      BY DEF TypeOK, Processes
    <2>2. withheld > 0 => withheld \in Nat
      BY <2>1
    <2>3. tx' \in [TxIds -> Txs]
      <3>1. CASE UNCHANGED tx
        BY <3>1 DEF TypeOK
      <3>2. CASE withheld > 0 /\ \E i \in TxIds :
                    Broadcast(i, "fee", t, withheld, Source(rec[t].direction))
        BY <2>1, <2>2, <3>2, BroadcastType DEF Kinds
      <3> QED BY <1>13, <3>1, <3>2 DEF CreditConfirmed
    <2>4. rec' \in [Transfers -> Rows] /\ act' \in [Actors -> Processes]
      BY <1>13 DEF TypeOK, CreditConfirmed, Rows, Statuses
    <2> QED BY <1>13, <2>3, <2>4 DEF TypeOK, CreditConfirmed
  <1>14. ASSUME NEW a \in Actors, Crash(a) PROVE TypeOK'
    BY <1>14 DEF TypeOK, Crash
  <1>15. ASSUME NEW w \in Workers, NEW t \in Transfers,
                RetryByUser(w, t) \/ RetryBySweep(w, t)
         PROVE TypeOK'
    BY <1>15 DEF TypeOK, RetryByUser, RetryBySweep, Processes
  <1>16. ASSUME NEW w \in Workers, StartCreditLeg(w) PROVE TypeOK'
    BY <1>16 DEF TypeOK, StartCreditLeg, Processes
  <1>17. CASE UNCHANGED vars
    BY <1>17 DEF TypeOK, vars
  <1> QED
    BY <1>1, <1>2, <1>3, <1>4, <1>5, <1>6, <1>7, <1>8, <1>9, <1>10, <1>11,
       <1>12, <1>13, <1>14, <1>15, <1>16, <1>17 DEF Next

-----------------------------------------------------------------------------
(* The inductive invariant *)

\* A settled transaction is final: no step alters or reuses its slot.
LEMMA DoneIsFinal ==
    ASSUME TypeOK, [Next]_vars, NEW i \in TxIds, tx[i].st = "done"
    PROVE  tx'[i] = tx[i]
  <1>1. ASSUME NEW j \in TxIds, TxLands(j) \/ TxDropped(j) \/ BridgeDelivers(j) \/ BridgeRefunds(j)
        PROVE tx'[i] = tx[i]
    BY <1>1 DEF TypeOK, TxLands, TxDropped, BridgeDelivers, BridgeRefunds
  <1>2. ASSUME NEW t \in Transfers,
               AdmitTransfer(t) \/ CreateRow(t) \/ SendDebit(t) \/ DebitThrows(t) \/ DebitConfirmed(t)
        PROVE tx'[i] = tx[i]
    BY <1>2 DEF TypeOK, AdmitTransfer, CreateRow, SendDebit, DebitThrows,
       DebitConfirmed, Broadcast
  <1>3. ASSUME NEW a \in Actors,
               PayDirect(a) \/ TopUpGas(a) \/ PayByBridge(a) \/ CreditThrows(a)
                  \/ CreditConfirmed(a) \/ Crash(a)
        PROVE tx'[i] = tx[i]
    BY <1>3 DEF TypeOK, PayDirect, TopUpGas, PayByBridge, CreditThrows,
       CreditConfirmed, Crash, Broadcast
  <1>4. ASSUME NEW w \in Workers,
               StartCreditLeg(w) \/ \E t \in Transfers : RetryByUser(w, t) \/ RetryBySweep(w, t)
        PROVE tx'[i] = tx[i]
    BY <1>4 DEF StartCreditLeg, RetryByUser, RetryBySweep
  <1>5. CASE UNCHANGED vars
    BY <1>5 DEF vars
  <1> QED BY <1>1, <1>2, <1>3, <1>4, <1>5 DEF Next

\* So a debit that arrived and a payment that was delivered stay so.
LEMMA SettlementIsStable ==
    ASSUME TypeOK, [Next]_vars, NEW t
    PROVE  /\ Funded(t) => Funded(t)'
           /\ Deliveries(t) # {} => Deliveries(t)' # {}
  BY DoneIsFinal DEF Funded, Deliveries

\* Every step preserves the inductive invariant.
LEMMA IInvInductive == IInv /\ [Next]_vars => IInv'
  <1> SUFFICES ASSUME IInv, [Next]_vars PROVE IInv'
    OBVIOUS
  <1> USE ConstantsAssumption DEF TypeOK, Processes, Rows, Txs, Payouts
  <1>0. TypeOK /\ TypeOK'
    BY TypeOKInductive DEF IInv
  <1>d. \A i \in TxIds : tx[i].st = "done" => tx'[i] = tx[i]
    BY <1>0, DoneIsFinal
  <1>s. \A t : /\ Funded(t) => Funded(t)'
               /\ Deliveries(t) # {} => Deliveries(t)' # {}
    BY <1>0, SettlementIsStable
  <1>1. ASSUME NEW i \in TxIds, TxLands(i) PROVE IInv'
    <2>1. ProcessesInv' /\ BeforeDebitInv'
      BY <1>0, <1>1 DEF IInv, ProcessesInv, BeforeDebitInv, TxLands
    <2>2. AwaitsInv'
      BY <1>0, <1>1 DEF IInv, AwaitsInv, ProcessesInv, TxLands
    <2>3. DebitRefInv' /\ CreditInv'
      BY <1>0, <1>1, <1>s DEF IInv, DebitRefInv, CreditInv, ProcessesInv,
         BeforeDebitInv, TxLands
    <2>4. CompletedIsDelivered' /\ FeeAfterDelivery'
      BY <1>0, <1>1, <1>s DEF IInv, CompletedIsDelivered, FeeAfterDelivery,
         TxLands, Deliveries
    <2> QED BY <1>0, <2>1, <2>2, <2>3, <2>4 DEF IInv
  <1>2. ASSUME NEW i \in TxIds, TxDropped(i) PROVE IInv'
    <2>1. ProcessesInv' /\ BeforeDebitInv'
      BY <1>0, <1>2 DEF IInv, ProcessesInv, BeforeDebitInv, TxDropped
    <2>2. AwaitsInv'
      BY <1>0, <1>2 DEF IInv, AwaitsInv, ProcessesInv, TxDropped, NoTxRecord
    <2>3. DebitRefInv' /\ CreditInv'
      BY <1>0, <1>2, <1>s DEF IInv, DebitRefInv, CreditInv, ProcessesInv,
         BeforeDebitInv, TxDropped, NoTxRecord
    <2>4. CompletedIsDelivered' /\ FeeAfterDelivery'
      BY <1>0, <1>2, <1>s DEF IInv, CompletedIsDelivered, FeeAfterDelivery,
         TxDropped, NoTxRecord, Deliveries
    <2> QED BY <1>0, <2>1, <2>2, <2>3, <2>4 DEF IInv
  <1>3. ASSUME NEW i \in TxIds, BridgeDelivers(i) PROVE IInv'
    <2>1. ProcessesInv' /\ BeforeDebitInv'
      BY <1>0, <1>3 DEF IInv, ProcessesInv, BeforeDebitInv, BridgeDelivers
    <2>2. AwaitsInv'
      BY <1>0, <1>3 DEF IInv, AwaitsInv, ProcessesInv, BridgeDelivers
    <2>3. DebitRefInv' /\ CreditInv'
      BY <1>0, <1>3, <1>s DEF IInv, DebitRefInv, CreditInv, ProcessesInv,
         BeforeDebitInv, BridgeDelivers
    <2>4. CompletedIsDelivered' /\ FeeAfterDelivery'
      <3>1. rec' = rec /\ \A j \in TxIds : tx'[j].kind = tx[j].kind /\ tx'[j].for = tx[j].for
        BY <1>0, <1>3 DEF BridgeDelivers
      <3>2. CompletedIsDelivered'
        BY <1>s, <3>1 DEF IInv, CompletedIsDelivered
      <3>3. FeeAfterDelivery'
        BY <1>s, <3>1 DEF IInv, FeeAfterDelivery
      <3> QED BY <3>2, <3>3
    <2> QED BY <1>0, <2>1, <2>2, <2>3, <2>4 DEF IInv
  <1>4. ASSUME NEW i \in TxIds, BridgeRefunds(i) PROVE IInv'
    <2>1. ProcessesInv' /\ BeforeDebitInv'
      BY <1>0, <1>4 DEF IInv, ProcessesInv, BeforeDebitInv, BridgeRefunds
    <2>2. AwaitsInv'
      BY <1>0, <1>4 DEF IInv, AwaitsInv, ProcessesInv, BridgeRefunds, NoTxRecord
    <2>3. DebitRefInv' /\ CreditInv'
      BY <1>0, <1>4, <1>s DEF IInv, DebitRefInv, CreditInv, ProcessesInv,
         BeforeDebitInv, BridgeRefunds, NoTxRecord
    <2>4. CompletedIsDelivered' /\ FeeAfterDelivery'
      BY <1>0, <1>4, <1>s DEF IInv, CompletedIsDelivered, FeeAfterDelivery,
         BridgeRefunds, NoTxRecord, Deliveries
    <2> QED BY <1>0, <2>1, <2>2, <2>3, <2>4 DEF IInv
  <1>5. ASSUME NEW t \in Transfers, AdmitTransfer(t) PROVE IInv'
    <2>1. ProcessesInv' /\ BeforeDebitInv'
      BY <1>0, <1>5 DEF IInv, ProcessesInv, BeforeDebitInv, CreditInv, AdmitTransfer
    <2>2. AwaitsInv'
      BY <1>0, <1>5 DEF IInv, AwaitsInv, ProcessesInv, AdmitTransfer
    <2>3. DebitRefInv' /\ CreditInv'
      BY <1>0, <1>5, <1>s DEF IInv, DebitRefInv, CreditInv, ProcessesInv,
         BeforeDebitInv, AdmitTransfer
    <2>4. CompletedIsDelivered' /\ FeeAfterDelivery'
      BY <1>0, <1>5, <1>s DEF IInv, CompletedIsDelivered, FeeAfterDelivery,
         AdmitTransfer, Deliveries
    <2> QED BY <1>0, <2>1, <2>2, <2>3, <2>4 DEF IInv
  <1>6. ASSUME NEW t \in Transfers, CreateRow(t) PROVE IInv'
    <2>1. ProcessesInv' /\ BeforeDebitInv'
      BY <1>0, <1>6 DEF IInv, ProcessesInv, BeforeDebitInv, CreditInv, CreateRow
    <2>2. AwaitsInv'
      BY <1>0, <1>6 DEF IInv, AwaitsInv, ProcessesInv, CreateRow
    <2>3. DebitRefInv' /\ CreditInv'
      BY <1>0, <1>6, <1>s DEF IInv, DebitRefInv, CreditInv, ProcessesInv,
         BeforeDebitInv, CreateRow
    <2>4. CompletedIsDelivered' /\ FeeAfterDelivery'
      BY <1>0, <1>6, <1>s DEF IInv, CompletedIsDelivered, FeeAfterDelivery,
         CreateRow, Deliveries
    <2> QED BY <1>0, <2>1, <2>2, <2>3, <2>4 DEF IInv
  <1>7. ASSUME NEW t \in Transfers, SendDebit(t) PROVE IInv'
    <2>1. ProcessesInv' /\ BeforeDebitInv'
      BY <1>0, <1>7 DEF IInv, ProcessesInv, BeforeDebitInv, CreditInv, SendDebit,
         Broadcast
    <2>2. AwaitsInv'
      BY <1>0, <1>7 DEF IInv, AwaitsInv, ProcessesInv, SendDebit, Broadcast
    <2>3. DebitRefInv' /\ CreditInv'
      BY <1>0, <1>7, <1>s DEF IInv, DebitRefInv, CreditInv, ProcessesInv,
         BeforeDebitInv, SendDebit, Broadcast
    <2>4. CompletedIsDelivered' /\ FeeAfterDelivery'
      BY <1>0, <1>7, <1>s DEF IInv, CompletedIsDelivered, FeeAfterDelivery,
         SendDebit, Broadcast, Deliveries
    <2> QED BY <1>0, <2>1, <2>2, <2>3, <2>4 DEF IInv
  <1>8. ASSUME NEW t \in Transfers, DebitThrows(t) PROVE IInv'
    <2>1. ProcessesInv' /\ BeforeDebitInv'
      BY <1>0, <1>8 DEF IInv, ProcessesInv, BeforeDebitInv, CreditInv,
         DebitThrows, Idle, Ended
    <2>2. AwaitsInv'
      BY <1>0, <1>8 DEF IInv, AwaitsInv, ProcessesInv, DebitThrows, Idle, Ended
    <2>3. DebitRefInv' /\ CreditInv'
      BY <1>0, <1>8, <1>s DEF IInv, DebitRefInv, CreditInv, ProcessesInv,
         BeforeDebitInv, DebitThrows, Idle, Ended
    <2>4. CompletedIsDelivered' /\ FeeAfterDelivery'
      BY <1>0, <1>8, <1>s DEF IInv, CompletedIsDelivered, FeeAfterDelivery,
         DebitThrows, Idle, Ended, Deliveries
    <2> QED BY <1>0, <2>1, <2>2, <2>3, <2>4 DEF IInv
  <1>9. ASSUME NEW t \in Transfers, DebitConfirmed(t) PROVE IInv'
    <2>1. ProcessesInv' /\ BeforeDebitInv'
      BY <1>0, <1>9 DEF IInv, ProcessesInv, BeforeDebitInv, CreditInv,
         DebitConfirmed
    <2>2. AwaitsInv'
      BY <1>0, <1>9 DEF IInv, AwaitsInv, ProcessesInv, DebitConfirmed
    <2>3. DebitRefInv' /\ CreditInv'
      BY <1>0, <1>9, <1>s DEF IInv, DebitRefInv, CreditInv, ProcessesInv,
         BeforeDebitInv, DebitConfirmed, Confirmed, Funded, AwaitsInv
    <2>4. CompletedIsDelivered' /\ FeeAfterDelivery'
      BY <1>0, <1>9, <1>s DEF IInv, CompletedIsDelivered, FeeAfterDelivery,
         DebitConfirmed, Deliveries
    <2> QED BY <1>0, <2>1, <2>2, <2>3, <2>4 DEF IInv
  <1>10. ASSUME NEW a \in Actors, PayDirect(a) PROVE IInv'
    <2>1. ProcessesInv' /\ BeforeDebitInv'
      BY <1>0, <1>10 DEF IInv, ProcessesInv, BeforeDebitInv, CreditInv, PayDirect,
         Broadcast
    <2>2. AwaitsInv'
      BY <1>0, <1>10 DEF IInv, AwaitsInv, ProcessesInv, PayDirect, Broadcast
    <2>3. DebitRefInv' /\ CreditInv'
      <3>1. PICK i \in TxIds :
               /\ Broadcast(i, "direct", act[a].transfer, CreditAmount,
                            Destination(rec[act[a].transfer].direction))
               /\ act' = [act EXCEPT ![a].pc = "paying", ![a].awaits = i]
        BY <1>10 DEF PayDirect
      <3>2. rec' = rec /\ act[a].pc = "credit"
        BY <1>10 DEF PayDirect
      <3>3. act[a].transfer \in Transfers /\ rec[act[a].transfer].debitTxRef
        BY <3>2 DEF IInv, CreditInv, ProcessesInv, Actors
      <3>4. DebitRefInv'
        BY <1>s, <3>2 DEF IInv, DebitRefInv
      <3>5. /\ tx'[i].kind = "direct" /\ tx'[i].for = act[a].transfer
            /\ \A j \in TxIds \ {i} : tx'[j] = tx[j]
        BY <1>0, <3>1 DEF Broadcast
      <3>6. /\ act'[a].pc = "paying" /\ act'[a].transfer = act[a].transfer
            /\ \A b \in Actors \ {a} : act'[b] = act[b]
        BY <1>0, <3>1
      <3>7. CreditInv'
        <4>1. \A w \in Workers : act'[w].pc # "idle" => rec'[act'[w].transfer].debitTxRef
          BY <3>2, <3>3, <3>6 DEF IInv, CreditInv, Actors
        <4>2. \A t \in Transfers : act'[t].pc \in {"credit", "paying"} => rec'[t].debitTxRef
          BY <3>2, <3>6 DEF IInv, CreditInv, Actors
        <4>3. \A j \in TxIds : tx'[j].kind \in Payouts \cup {"fee"} =>
                 tx'[j].for \in Transfers /\ rec'[tx'[j].for].debitTxRef
          BY <3>2, <3>3, <3>5 DEF IInv, CreditInv
        <4>4. \A j \in TxIds : tx'[j].kind = "unused" => tx'[j].for = NoTransfer
          BY <3>5 DEF IInv, CreditInv
        <4> QED BY <4>1, <4>2, <4>3, <4>4 DEF CreditInv
      <3> QED BY <3>4, <3>7
    <2>4. CompletedIsDelivered' /\ FeeAfterDelivery'
      BY <1>0, <1>10, <1>s DEF IInv, CompletedIsDelivered, FeeAfterDelivery,
         PayDirect, Broadcast, Deliveries
    <2> QED BY <1>0, <2>1, <2>2, <2>3, <2>4 DEF IInv
  <1>11. ASSUME NEW a \in Actors, TopUpGas(a) PROVE IInv'
    <2>1. ProcessesInv' /\ BeforeDebitInv'
      BY <1>0, <1>11 DEF IInv, ProcessesInv, BeforeDebitInv, CreditInv, TopUpGas
    <2>2. AwaitsInv'
      BY <1>0, <1>11 DEF IInv, AwaitsInv, ProcessesInv, TopUpGas
    <2>3. DebitRefInv' /\ CreditInv'
      BY <1>0, <1>11, <1>s DEF IInv, DebitRefInv, CreditInv, ProcessesInv,
         BeforeDebitInv, TopUpGas
    <2>4. CompletedIsDelivered' /\ FeeAfterDelivery'
      BY <1>0, <1>11, <1>s DEF IInv, CompletedIsDelivered, FeeAfterDelivery,
         TopUpGas, Deliveries
    <2> QED BY <1>0, <2>1, <2>2, <2>3, <2>4 DEF IInv
  <1>12. ASSUME NEW a \in Actors, PayByBridge(a) PROVE IInv'
    <2>1. ProcessesInv' /\ BeforeDebitInv'
      BY <1>0, <1>12 DEF IInv, ProcessesInv, BeforeDebitInv, CreditInv,
         PayByBridge, Broadcast
    <2>2. AwaitsInv'
      BY <1>0, <1>12 DEF IInv, AwaitsInv, ProcessesInv, PayByBridge, Broadcast
    <2>3. DebitRefInv' /\ CreditInv'
      BY <1>0, <1>12, <1>s DEF IInv, DebitRefInv, CreditInv, ProcessesInv,
         BeforeDebitInv, PayByBridge, Broadcast
    <2>4. CompletedIsDelivered' /\ FeeAfterDelivery'
      <3>1. \A i \in TxIds : tx'[i].kind = "fee" => tx[i] = tx'[i]
        BY <1>0, <1>12 DEF PayByBridge, Broadcast
      <3>2. rec' = rec
        BY <1>12 DEF PayByBridge
      <3>3. CompletedIsDelivered'
        BY <1>s, <3>2 DEF IInv, CompletedIsDelivered
      <3>4. FeeAfterDelivery'
        BY <1>s, <3>1 DEF IInv, FeeAfterDelivery
      <3> QED BY <3>3, <3>4
    <2> QED BY <1>0, <2>1, <2>2, <2>3, <2>4 DEF IInv
  <1>13. ASSUME NEW a \in Actors, CreditThrows(a) PROVE IInv'
    <2>1. ProcessesInv' /\ BeforeDebitInv'
      BY <1>0, <1>13 DEF IInv, ProcessesInv, BeforeDebitInv, CreditInv,
         CreditThrows, MarkCreditPending, Idle, Ended, Resting
    <2>2. AwaitsInv'
      BY <1>0, <1>13 DEF IInv, AwaitsInv, ProcessesInv, CreditThrows, Idle, Ended,
         Resting
    <2>3. DebitRefInv' /\ CreditInv'
      BY <1>0, <1>13, <1>s DEF IInv, DebitRefInv, CreditInv, ProcessesInv,
         BeforeDebitInv, CreditThrows, MarkCreditPending, Idle, Ended, Resting
    <2>4. CompletedIsDelivered' /\ FeeAfterDelivery'
      BY <1>0, <1>13, <1>s DEF IInv, CompletedIsDelivered, FeeAfterDelivery,
         CreditThrows, MarkCreditPending, Idle, Ended, Resting, Deliveries
    <2> QED BY <1>0, <2>1, <2>2, <2>3, <2>4 DEF IInv
  <1>14. ASSUME NEW a \in Actors, CreditConfirmed(a) PROVE IInv'
    <2>1. ProcessesInv' /\ BeforeDebitInv'
      BY <1>0, <1>14 DEF IInv, ProcessesInv, BeforeDebitInv, CreditInv,
         CreditConfirmed, Idle, Ended, Resting
    <2>2. PICK t \in Transfers, p \in TxIds :
              /\ t = act[a].transfer /\ rec[t].debitTxRef
              /\ tx[p].kind \in Payouts /\ tx[p].for = t /\ tx[p].st = "done"
      <3>1. act[a].awaits \in TxIds /\ act[a].pc = "paying" /\ tx[act[a].awaits].st = "done"
        BY <1>0, <1>14 DEF CreditConfirmed, Confirmed
      <3>2. act[a].transfer \in Transfers /\ rec[act[a].transfer].debitTxRef
        BY <1>0, <3>1 DEF IInv, ProcessesInv, CreditInv
      <3> QED BY <3>1, <3>2 DEF IInv, AwaitsInv
    <2>3. \A i \in TxIds : \/ tx'[i] = tx[i]
                           \/ tx[i].st = "unused" /\ tx'[i].kind = "fee" /\ tx'[i].for = t
      <3>1. CASE UNCHANGED tx
        BY <3>1
      <3>2. CASE \E i \in TxIds : Broadcast(i, "fee", t, Gross - act[a].bridgeAmount,
                                            Source(rec[t].direction))
        BY <1>0, <3>2 DEF Broadcast
      <3> QED BY <1>14, <2>2, <3>1, <3>2 DEF CreditConfirmed
    <2>4. AwaitsInv'
      BY <1>0, <1>14, <2>3 DEF IInv, AwaitsInv, CreditConfirmed, Idle, Ended,
         Resting
    <2>5. \A u \in Transfers : /\ rec'[u].debitTxRef = rec[u].debitTxRef
                               /\ u # t => rec'[u].status = rec[u].status
      BY <1>0, <1>14, <2>2 DEF CreditConfirmed
    <2>6. DebitRefInv'
      BY <1>d, <2>5 DEF IInv, DebitRefInv, Funded
    <2>7. CreditInv'
      <3>1. \A b \in Actors : act'[b] = act[b] \/ (b = a /\ act'[b] = Resting(b))
        BY <1>0, <1>14 DEF CreditConfirmed
      <3>2. \A b \in Actors : Resting(b).pc \in {"idle", "ended"}
        BY DEF Resting, Idle, Ended
      <3>3. \A w \in Workers : Resting(w).pc = "idle"
        BY DEF Resting, Idle
      <3>4. \A w \in Workers : act'[w].pc # "idle" => rec'[act'[w].transfer].debitTxRef
        BY <2>5, <3>1, <3>3 DEF IInv, CreditInv, ProcessesInv
      <3>5. \A u \in Transfers : act'[u].pc \in {"credit", "paying"} => rec'[u].debitTxRef
        BY <2>5, <3>1, <3>2 DEF IInv, CreditInv
      <3>6. \A i \in TxIds : tx'[i].kind \in Payouts \cup {"fee"} =>
                tx'[i].for \in Transfers /\ rec'[tx'[i].for].debitTxRef
        BY <2>2, <2>3, <2>5 DEF IInv, CreditInv
      <3>7. \A i \in TxIds : tx'[i].kind = "unused" => tx'[i].for = NoTransfer
        BY <2>3 DEF IInv, CreditInv
      <3> QED BY <3>4, <3>5, <3>6, <3>7 DEF CreditInv
    <2>8. p \in Deliveries(t)'
      BY <1>d, <2>2 DEF Deliveries
    <2>9. CompletedIsDelivered'
      BY <1>d, <2>5, <2>8 DEF IInv, CompletedIsDelivered, Deliveries
    <2>10. FeeAfterDelivery'
      <3> SUFFICES ASSUME NEW i \in TxIds, tx'[i].kind = "fee"
                   PROVE  \E q \in TxIds : /\ tx'[q].kind \in Payouts
                                           /\ tx'[q].for = tx'[i].for /\ tx'[q].st = "done"
        BY DEF FeeAfterDelivery, Deliveries
      <3>1. CASE tx'[i].for = t
        BY <1>d, <2>2, <3>1
      <3>2. CASE tx'[i].for # t
        BY <1>d, <2>3, <3>2 DEF IInv, FeeAfterDelivery, Deliveries
      <3> QED BY <3>1, <3>2
    <2> QED BY <1>0, <2>1, <2>4, <2>6, <2>7, <2>9, <2>10 DEF IInv
  <1>15. ASSUME NEW a \in Actors, Crash(a) PROVE IInv'
    <2>1. ProcessesInv' /\ BeforeDebitInv'
      BY <1>0, <1>15 DEF IInv, ProcessesInv, BeforeDebitInv, CreditInv, Crash,
         Idle, Ended, Resting
    <2>2. AwaitsInv'
      BY <1>0, <1>15 DEF IInv, AwaitsInv, ProcessesInv, Crash, Idle, Ended, Resting
    <2>3. DebitRefInv' /\ CreditInv'
      BY <1>0, <1>15, <1>s DEF IInv, DebitRefInv, CreditInv, ProcessesInv,
         BeforeDebitInv, Crash, Idle, Ended, Resting
    <2>4. CompletedIsDelivered' /\ FeeAfterDelivery'
      BY <1>0, <1>15, <1>s DEF IInv, CompletedIsDelivered, FeeAfterDelivery,
         Crash, Idle, Ended, Resting, Deliveries
    <2> QED BY <1>0, <2>1, <2>2, <2>3, <2>4 DEF IInv
  <1>16. ASSUME NEW w \in Workers, NEW t \in Transfers,
                RetryByUser(w, t) \/ RetryBySweep(w, t)
         PROVE IInv'
    <2>1. ProcessesInv' /\ BeforeDebitInv'
      BY <1>0, <1>16 DEF IInv, ProcessesInv, BeforeDebitInv, CreditInv,
         RetryByUser, RetryBySweep, SweepSelects
    <2>2. AwaitsInv'
      BY <1>0, <1>16 DEF IInv, AwaitsInv, ProcessesInv, RetryByUser, RetryBySweep
    <2>3. DebitRefInv' /\ CreditInv'
      BY <1>0, <1>16, <1>s DEF IInv, DebitRefInv, CreditInv, ProcessesInv,
         BeforeDebitInv, RetryByUser, RetryBySweep, SweepSelects
    <2>4. CompletedIsDelivered' /\ FeeAfterDelivery'
      <3>1. UNCHANGED <<rec, tx>>
        BY <1>16 DEF RetryByUser, RetryBySweep
      <3> QED BY <3>1 DEF IInv, CompletedIsDelivered, FeeAfterDelivery, Deliveries
    <2> QED BY <1>0, <2>1, <2>2, <2>3, <2>4 DEF IInv
  <1>17. ASSUME NEW w \in Workers, StartCreditLeg(w) PROVE IInv'
    <2>1. /\ act[w].pc = "picked" /\ UNCHANGED <<rec, tx>>
          /\ \/ act' = [act EXCEPT ![w] = Idle]
             \/ \E n \in Nat : act' = [act EXCEPT ![w].pc = "credit", ![w].bridgeAmount = n]
      BY <1>17, AmountTypes DEF StartCreditLeg
    <2>2. \A a \in Actors \ {w} : act'[a] = act[a]
      BY <1>0, <2>1
    <2>3. \/ act'[w] = Idle
          \/ /\ act'[w].pc = "credit" /\ act'[w].transfer = act[w].transfer
             /\ act'[w].awaits = act[w].awaits
      BY <1>0, <2>1
    <2>4. w \notin Transfers
      OBVIOUS
    <2>5. ProcessesInv' /\ BeforeDebitInv'
      <3>1. \A t \in Transfers : act'[t] = act[t]
        BY <2>2, <2>4
      <3>2. /\ act'[w].pc \in {"idle", "ended"} => act'[w].transfer = NoTransfer
            /\ act'[w].pc # "idle" => act'[w].transfer \in Transfers
        BY <2>1, <2>3 DEF IInv, ProcessesInv, Idle
      <3>3. ProcessesInv'
        BY <2>2, <3>1, <3>2 DEF IInv, ProcessesInv
      <3> QED BY <2>1, <3>1, <3>3 DEF IInv, BeforeDebitInv
    <2>6. AwaitsInv'
      <3> SUFFICES ASSUME NEW a \in Actors, act'[a].awaits # NoTx
                   PROVE  /\ tx'[act'[a].awaits].st # "unused"
                          /\ tx'[act'[a].awaits].for = act'[a].transfer
                          /\ act'[a].pc = "debiting" => tx'[act'[a].awaits].kind = "debit"
                          /\ act'[a].pc = "paying" => tx'[act'[a].awaits].kind \in Payouts
        BY DEF AwaitsInv
      <3>1. CASE a = w
        BY <2>1, <2>3, <3>1 DEF IInv, AwaitsInv, Idle
      <3>2. CASE a # w
        BY <2>1, <2>2, <3>2 DEF IInv, AwaitsInv
      <3> QED BY <3>1, <3>2
    <2>7. DebitRefInv' /\ CreditInv'
      <3>1. DebitRefInv'
        BY <2>1 DEF IInv, DebitRefInv, Funded
      <3>2. act'[w].pc # "idle" => act'[w].transfer = act[w].transfer /\ act[w].pc = "picked"
        BY <2>1, <2>3 DEF Idle
      <3>3. CreditInv'
        BY <2>1, <2>2, <2>4, <3>2 DEF IInv, CreditInv, Actors
      <3> QED BY <3>1, <3>3
    <2>8. CompletedIsDelivered' /\ FeeAfterDelivery'
      BY <2>1 DEF IInv, CompletedIsDelivered, FeeAfterDelivery, Deliveries
    <2> QED BY <1>0, <2>5, <2>6, <2>7, <2>8 DEF IInv
  <1>u. CASE UNCHANGED vars
    BY <1>0, <1>u DEF vars, IInv, ProcessesInv, BeforeDebitInv, AwaitsInv,
       DebitRefInv,
       CreditInv, CompletedIsDelivered, FeeAfterDelivery, Funded, Deliveries
  <1> QED
    BY <1>1, <1>2, <1>3, <1>4, <1>5, <1>6, <1>7, <1>8, <1>9, <1>10, <1>11, <1>12,
       <1>13, <1>14, <1>15, <1>16, <1>17, <1>u DEF Next

-----------------------------------------------------------------------------
(* Theorems *)

\* The initial states satisfy the inductive invariant.
LEMMA InitIInv == Init => IInv
  <1> SUFFICES ASSUME Init PROVE IInv
    OBVIOUS
  <1>1. TypeOK
    BY ConstantsAssumption, RestingType DEF Init, TypeOK, Rows, Statuses, Directions
  <1>2. ProcessesInv /\ BeforeDebitInv
    BY ConstantsAssumption DEF Init, ProcessesInv, BeforeDebitInv, Idle
  <1>3. AwaitsInv /\ DebitRefInv
    BY DEF Init, AwaitsInv, DebitRefInv, Idle
  <1>4. CreditInv /\ CompletedIsDelivered /\ FeeAfterDelivery
    BY ConstantsAssumption DEF Init, CreditInv, CompletedIsDelivered,
       FeeAfterDelivery,
       Idle, NoTxRecord, Payouts
  <1> QED BY <1>1, <1>2, <1>3, <1>4 DEF IInv

\* The invariant contains the properties the runs check.
LEMMA IInvSuffices == IInv => PayoutBacked /\ FailedIsNeverPaid
  <1> SUFFICES ASSUME IInv PROVE PayoutBacked /\ FailedIsNeverPaid
    OBVIOUS
  <1>1. PayoutBacked
    BY DEF IInv, CreditInv, DebitRefInv, PayoutBacked, Payouts
  <1>2. ASSUME NEW t \in Transfers, rec[t].status = "FAILED"
        PROVE  /\ \A i \in TxIds : tx[i].for = t => tx[i].kind = "debit"
               /\ \A a \in Actors : act[a].transfer # t
    <2>1. ~rec[t].debitTxRef /\ act[t].pc = "ended"
      BY <1>2 DEF IInv, BeforeDebitInv
    <2>2. ASSUME NEW i \in TxIds, tx[i].for = t PROVE tx[i].kind = "debit"
      <3>1. tx[i].kind \in Kinds
        BY DEF IInv, TypeOK, Txs
      <3>2. tx[i].kind \notin Payouts \cup {"fee"}
        BY <2>1, <2>2 DEF IInv, CreditInv
      <3>3. tx[i].kind # "unused"
        BY <2>2, ConstantsAssumption DEF IInv, CreditInv
      <3> QED BY <3>1, <3>2, <3>3 DEF Kinds, Payouts
    <2>3. ASSUME NEW a \in Actors PROVE act[a].transfer # t
      BY <2>1, ConstantsAssumption DEF IInv, CreditInv, ProcessesInv
    <2> QED BY <2>2, <2>3
  <1> QED BY <1>1, <1>2 DEF FailedIsNeverPaid

\* The state is always well typed, whatever lands late, is lost or is retried.
THEOREM TypeCorrect == Spec => []TypeOK
  <1>1. Init => IInv
    BY InitIInv
  <1>2. IInv => TypeOK
    BY DEF IInv
  <1> QED BY <1>1, <1>2, IInvInductive, PTL DEF Spec

\* Money leaves the operator only for a transfer whose debit has landed.
THEOREM PayoutIsBacked == Spec => []PayoutBacked
  BY InitIInv, IInvInductive, IInvSuffices, PTL DEF Spec

\* A completed row has been paid.
THEOREM CompletionIsHonest == Spec => []CompletedIsDelivered
  <1>1. IInv => CompletedIsDelivered
    BY DEF IInv
  <1> QED BY <1>1, InitIInv, IInvInductive, PTL DEF Spec

\* A row reported FAILED is never paid.
THEOREM FailureIsFinal == Spec => []FailedIsNeverPaid
  BY InitIInv, IInvInductive, IInvSuffices, PTL DEF Spec

\* The treasury gets its fee only once the user has been paid.
THEOREM FeeFollowsDelivery == Spec => []FeeAfterDelivery
  <1>1. IInv => FeeAfterDelivery
    BY DEF IInv
  <1> QED BY <1>1, InitIInv, IInvInductive, PTL DEF Spec

-----------------------------------------------------------------------------
(* The refinement *)

\* Who is funded and what was delivered depends on settled transactions only.
LEMMA SettledAlone ==
    ASSUME \A i \in TxIds : tx'[i] = tx[i] \/ (tx[i].st # "done" /\ tx'[i].st # "done")
    PROVE  \A t : (Funded(t)' <=> Funded(t)) /\ Deliveries(t)' = Deliveries(t)
  BY DEF Funded, Deliveries

\* A step that settles no transaction and neither completes nor reopens a row
\* is a stuttering step of the contract.
LEMMA ContractStutters ==
    ASSUME \A i \in TxIds : tx'[i] = tx[i] \/ (tx[i].st # "done" /\ tx'[i].st # "done"),
           \A t \in Transfers : (rec'[t].status = "COMPLETED") <=> (rec[t].status = "COMPLETED")
    PROVE  UNCHANGED Contract!vars
  BY SettledAlone DEF Contract!vars

\* A broadcast takes a slot that nothing has settled in.
LEMMA BroadcastSettlesNothing ==
    ASSUME TypeOK, NEW i \in TxIds, NEW k, NEW t, NEW n, NEW c, Broadcast(i, k, t, n, c)
    PROVE  \A j \in TxIds : tx'[j] = tx[j] \/ (tx[j].st # "done" /\ tx'[j].st # "done")
  BY DEF TypeOK, Broadcast

\* When a payment settles, the contract delivers it to its transfer.
LEMMA SettledPaymentDelivers ==
    ASSUME IInv, NEW i \in TxIds, tx[i].kind \in Payouts, tx[i].st # "done",
           tx' = [tx EXCEPT ![i].st = "done"], rec' = rec
    PROVE  Contract!Deliver(tx[i].for, i)
  <1> DEFINE t == tx[i].for
  <1>1. t \in Transfers /\ Funded(t)
    BY IInvSuffices DEF IInv, CreditInv, PayoutBacked
  <1>2. \A u \in Transfers : i \notin Deliveries(u)
    BY DEF Deliveries
  <1>3. /\ tx'[i].kind = tx[i].kind /\ tx'[i].for = t /\ tx'[i].st = "done"
        /\ \A j \in TxIds \ {i} : tx'[j] = tx[j]
    BY DEF IInv, TypeOK, Txs
  <1>4. \A u \in Transfers : Funded(u)' <=> Funded(u)
    BY <1>3 DEF Funded, Payouts
  <1>5. \A u \in Transfers : Deliveries(u)' = IF u = t THEN Deliveries(u) \cup {i} ELSE Deliveries(u)
    BY <1>3 DEF Deliveries
  <1> QED BY <1>1, <1>2, <1>4, <1>5 DEF Contract!Deliver

\* Every step of the service is a step of the contract, or leaves what the
\* contract speaks of alone.
LEMMA StepIsContractStep ==
    ASSUME IInv, [Next]_vars PROVE [Contract!Next]_(Contract!vars)
  <1>0. TypeOK
    BY DEF IInv
  <1>1. ASSUME NEW i \in TxIds, TxLands(i) PROVE [Contract!Next]_(Contract!vars)
    <2> DEFINE t == tx[i].for
    <2>0. rec' = rec /\ tx[i].st = "sent"
      BY <1>1 DEF TxLands
    <2>1. CASE tx[i].kind = "bridge"
      <3>1. tx' = [tx EXCEPT ![i].st = "landed"]
        BY <1>1, <2>1 DEF TxLands
      <3>2. \A j \in TxIds : tx'[j] = tx[j] \/ (tx[j].st # "done" /\ tx'[j].st # "done")
        BY <1>0, <2>0, <3>1 DEF TypeOK, Txs
      <3> QED BY <2>0, <3>2, ContractStutters
    <2>2. CASE tx[i].kind = "direct"
      <3>1. tx' = [tx EXCEPT ![i].st = "done"]
        BY <1>1, <2>2 DEF TxLands
      <3>2. Contract!Deliver(t, i)
        BY <2>0, <2>2, <3>1, SettledPaymentDelivers DEF Payouts
      <3>3. t \in Transfers
        BY <2>2 DEF IInv, CreditInv, Payouts
      <3> QED BY <3>2, <3>3 DEF Contract!Next
    <2>3. CASE tx[i].kind \notin Payouts
      <3>1. /\ tx'[i].kind = tx[i].kind /\ tx'[i].for = t /\ tx'[i].st = "done"
            /\ \A j \in TxIds \ {i} : tx'[j] = tx[j]
        BY <1>0, <1>1, <2>3 DEF TxLands, Payouts, TypeOK, Txs
      <3>2. \A u : Deliveries(u)' = Deliveries(u)
        BY <2>3, <3>1 DEF Deliveries
      <3>3. CASE tx[i].kind = "debit" /\ t \in Transfers
        <4>1. \A u : Funded(u)' <=> Funded(u) \/ u = t
          BY <3>1, <3>3 DEF Funded
        <4>2. Contract!Fund(t)
          BY <2>0, <3>2, <3>3, <4>1 DEF Contract!Fund
        <4> QED BY <3>3, <4>2 DEF Contract!Next
      <3>4. CASE ~(tx[i].kind = "debit" /\ t \in Transfers)
        <4>1. \A u \in Transfers : Funded(u)' <=> Funded(u)
          BY <3>1, <3>4 DEF Funded
        <4> QED BY <2>0, <3>2, <4>1 DEF Contract!vars
      <3> QED BY <3>3, <3>4
    <2> QED BY <2>1, <2>2, <2>3 DEF Payouts
  <1>2. ASSUME NEW i \in TxIds, BridgeDelivers(i) PROVE [Contract!Next]_(Contract!vars)
    <2>1. Contract!Deliver(tx[i].for, i)
      BY <1>2, SettledPaymentDelivers DEF BridgeDelivers, Payouts
    <2>2. tx[i].for \in Transfers
      BY <1>2 DEF IInv, CreditInv, BridgeDelivers, Payouts
    <2> QED BY <2>1, <2>2 DEF Contract!Next
  <1>3. ASSUME NEW i \in TxIds, TxDropped(i) \/ BridgeRefunds(i) PROVE UNCHANGED Contract!vars
    <2>1. rec' = rec /\ tx' = [tx EXCEPT ![i] = NoTxRecord] /\ tx[i].st # "done"
      BY <1>3 DEF TxDropped, BridgeRefunds
    <2>2. \A j \in TxIds : tx'[j] = tx[j] \/ (tx[j].st # "done" /\ tx'[j].st # "done")
      BY <1>0, <2>1 DEF TypeOK, NoTxRecord
    <2> QED BY <2>1, <2>2, ContractStutters
  <1>4. ASSUME NEW t \in Transfers,
               AdmitTransfer(t) \/ CreateRow(t) \/ DebitThrows(t) \/ DebitConfirmed(t)
        PROVE UNCHANGED Contract!vars
    <2>1. rec[t].status # "COMPLETED"
      BY <1>4 DEF IInv, BeforeDebitInv, AdmitTransfer, CreateRow, DebitThrows, DebitConfirmed
    <2>2. tx' = tx /\ \A u \in Transfers \ {t} : rec'[u] = rec[u]
      BY <1>0, <1>4 DEF TypeOK, AdmitTransfer, CreateRow, DebitThrows, DebitConfirmed
    <2>3. rec'[t].status # "COMPLETED"
      <3>1. CASE AdmitTransfer(t)
        BY <1>0, <2>1, <3>1 DEF TypeOK, Rows, AdmitTransfer
      <3>2. CASE CreateRow(t) \/ DebitThrows(t)
        BY <1>0, <3>2 DEF TypeOK, Rows, CreateRow, DebitThrows
      <3>3. CASE DebitConfirmed(t)
        BY <1>0, <3>3 DEF TypeOK, Rows, DebitConfirmed
      <3> QED BY <1>4, <3>1, <3>2, <3>3
    <2> QED BY <2>1, <2>2, <2>3, ContractStutters
  <1>5. ASSUME NEW t \in Transfers, SendDebit(t) PROVE UNCHANGED Contract!vars
    <2>1. rec' = rec /\ \E i \in TxIds : Broadcast(i, "debit", t, Gross, Source(rec[t].direction))
      BY <1>5 DEF SendDebit
    <2> QED BY <1>0, <2>1, BroadcastSettlesNothing, ContractStutters
  <1>6. ASSUME NEW a \in Actors, PayDirect(a) \/ PayByBridge(a) PROVE UNCHANGED Contract!vars
    <2>1. rec' = rec /\ \E i \in TxIds, k \in Payouts : \E n, c : Broadcast(i, k, act[a].transfer, n, c)
      BY <1>6 DEF PayDirect, PayByBridge, Payouts
    <2> QED BY <1>0, <2>1, BroadcastSettlesNothing, ContractStutters
  <1>7. ASSUME NEW a \in Actors, CreditThrows(a) PROVE [Contract!Next]_(Contract!vars)
    <2>1. PICK t \in Transfers : t = act[a].transfer
      BY <1>7 DEF IInv, ProcessesInv, CreditThrows
    <2>2. tx' = tx /\ rec'[t].status = "CREDIT_PENDING" /\ \A u \in Transfers \ {t} : rec'[u] = rec[u]
      BY <1>0, <1>7, <2>1 DEF TypeOK, Rows, CreditThrows, MarkCreditPending
    <2>3. \A u : (Funded(u)' <=> Funded(u)) /\ Deliveries(u)' = Deliveries(u)
      BY <2>2, SettledAlone
    <2>4. CASE rec[t].status = "COMPLETED"
      <3>1. Contract!Reopen(t)
        BY <2>1, <2>2, <2>3, <2>4 DEF Contract!Reopen
      <3> QED BY <3>1 DEF Contract!Next
    <2>5. CASE rec[t].status # "COMPLETED"
      BY <2>2, <2>5, ContractStutters
    <2> QED BY <2>4, <2>5
  <1>8. ASSUME NEW a \in Actors, CreditConfirmed(a) PROVE [Contract!Next]_(Contract!vars)
    <2>1. PICK t \in Transfers : t = act[a].transfer
      BY <1>8 DEF IInv, ProcessesInv, CreditConfirmed
    <2>2. rec'[t].status = "COMPLETED" /\ \A u \in Transfers \ {t} : rec'[u] = rec[u]
      BY <1>0, <1>8, <2>1 DEF TypeOK, Rows, CreditConfirmed
    <2>3. \A i \in TxIds : tx'[i] = tx[i] \/ (tx[i].st # "done" /\ tx'[i].st # "done")
      BY <1>0, <1>8, BroadcastSettlesNothing DEF CreditConfirmed
    <2>4. \A u : (Funded(u)' <=> Funded(u)) /\ Deliveries(u)' = Deliveries(u)
      BY <2>3, SettledAlone
    <2>5. Deliveries(t) # {}
      BY <1>0, <1>8, <2>1 DEF IInv, AwaitsInv, TypeOK, Processes, CreditConfirmed, Confirmed, Deliveries
    <2>6. Contract!Complete(t)
      BY <2>1, <2>2, <2>4, <2>5 DEF Contract!Complete
    <2> QED BY <2>6 DEF Contract!Next
  <1>9. ASSUME UNCHANGED <<rec, tx>> PROVE UNCHANGED Contract!vars
    BY <1>9, ContractStutters
  <1>10. ASSUME NEW a \in Actors, TopUpGas(a) \/ Crash(a) PROVE UNCHANGED <<rec, tx>>
    BY <1>10 DEF TopUpGas, Crash
  <1>11. ASSUME NEW w \in Workers,
                StartCreditLeg(w) \/ \E t \in Transfers : RetryByUser(w, t) \/ RetryBySweep(w, t)
         PROVE UNCHANGED <<rec, tx>>
    BY <1>11 DEF StartCreditLeg, RetryByUser, RetryBySweep
  <1>12. CASE UNCHANGED vars
    BY <1>9, <1>12 DEF vars
  <1> QED
    BY <1>1, <1>2, <1>3, <1>4, <1>5, <1>6, <1>7, <1>8, <1>9, <1>10, <1>11, <1>12 DEF Next

\* The service, with its rows, its chains and its retries, implements the
\* at-least-once credit contract.
THEOREM ContractIsKept == Spec => ImplementsContract
  <1>1. Init => Contract!Init
    BY DEF Init, Contract!Init, Funded, Deliveries, NoTxRecord
  <1>2. IInv /\ [Next]_vars => [Contract!Next]_(Contract!vars)
    BY StepIsContractStep
  <1> QED BY <1>1, <1>2, InitIInv, IInvInductive, PTL DEF Spec, ImplementsContract, Contract!Spec
=============================================================================
