---------------------------- MODULE LimitOrders ----------------------------
(***************************************************************************)
(* Jupiter limit orders of one user (dex/jupiterLimitOrderService.ts).     *)
(* The orders live in memory, newest first, at most Kept of them.  Every   *)
(* 8 s a run of the watcher, whether or not the last one is over, takes    *)
(* the open ones and works through them; it does not look at them again.   *)
(***************************************************************************)
EXTENDS Integers, Sequences, FiniteSets

CONSTANTS
    Runs,        \* runs that may be in flight at once
    Kept,        \* 40 in the code
    MaxOrders, MaxLost   \* bounds: orders created, lost answers per order

LimitAssumption == Kept \in Nat \ {0} /\ MaxOrders \in Nat /\ MaxLost \in Nat /\ IsFiniteSet(Runs)

VARIABLES
    limits,     \* ordersByUser: sequence of [id, st]
    created,
    run,        \* per run: the orders it still has to try (newest first), and the one it is at
    swapped,    \* history: swaps executed per order
    unsaid      \* history: swaps per order whose answer was lost

limitVars == <<limits, created, run, swapped, unsaid>>

Ids == 1..MaxOrders
NoOrder == 0
IdleRun == [pc |-> "idle", todo |-> {}, at |-> NoOrder]

Init ==
    /\ limits = <<>> /\ created = 0
    /\ run = [r \in Runs |-> IdleRun]
    /\ swapped = [i \in Ids |-> 0] /\ unsaid = [i \in Ids |-> 0]

(* createJupiterLimitOrder: in front, and the oldest beyond Kept fall off. *)
CreateOrder ==
    /\ created < MaxOrders
    /\ created' = created + 1
    /\ LET rows == <<[id |-> created + 1, st |-> "OPEN"]>> \o limits
       IN  limits' = SubSeq(rows, 1, IF Len(rows) < Kept THEN Len(rows) ELSE Kept)
    /\ UNCHANGED <<run, swapped, unsaid>>

SetStatus(i, st) == [k \in DOMAIN limits |-> IF limits[k].id = i THEN [limits[k] EXCEPT !.st = st] ELSE limits[k]]

CancelOrder(i) ==
    /\ \E k \in DOMAIN limits : limits[k] = [id |-> i, st |-> "OPEN"]
    /\ limits' = SetStatus(i, "CANCELLED")
    /\ UNCHANGED <<created, run, swapped, unsaid>>

-----------------------------------------------------------------------------

IsOpen(o) == o.st = "OPEN"

(* runJupiterLimitOrderWatcher: the open orders of this moment.            *)
StartRun(r) ==
    /\ run[r].pc = "idle"
    /\ LET open == {k \in DOMAIN limits : IsOpen(limits[k])}
       IN  /\ open # {}
           /\ run' = [run EXCEPT ![r] = [pc |-> "next", todo |-> {limits[k].id : k \in open}, at |-> NoOrder]]
    /\ UNCHANGED <<limits, created, swapped, unsaid>>

(* tryFillOrder: prices and a preview, which trigger the swap or do not.   *)
NextOrder(r) ==
    /\ run[r].pc = "next"
    /\ \/ run[r].todo = {} /\ run' = [run EXCEPT ![r] = IdleRun]
       \/ \E i \in run[r].todo :
             /\ \A j \in run[r].todo : j <= i
             /\ run' = [run EXCEPT ![r] = [pc |-> "prices", todo |-> run[r].todo \ {i}, at |-> i]]
    /\ UNCHANGED <<limits, created, swapped, unsaid>>

NotTriggered(r) ==
    /\ run[r].pc = "prices"
    /\ run' = [run EXCEPT ![r].pc = "next", ![r].at = NoOrder]
    /\ UNCHANGED <<limits, created, swapped, unsaid>>

Swap(r) ==
    LET i == run[r].at
    IN  /\ run[r].pc = "prices"
        /\ \/ /\ run' = [run EXCEPT ![r].pc = "filled"]
              /\ swapped' = [swapped EXCEPT ![i] = @ + 1]
              /\ UNCHANGED unsaid
           \/ /\ run' = [run EXCEPT ![r].pc = "next", ![r].at = NoOrder]
              /\ unsaid[i] < MaxLost
              /\ swapped' = [swapped EXCEPT ![i] = @ + 1]
              /\ unsaid' = [unsaid EXCEPT ![i] = @ + 1]
        /\ UNCHANGED <<limits, created>>

(* The order, wherever it is by now and whatever became of it, is FILLED.  *)
MarkFilled(r) ==
    /\ run[r].pc = "filled"
    /\ limits' = SetStatus(run[r].at, "FILLED")
    /\ run' = [run EXCEPT ![r].pc = "next", ![r].at = NoOrder]
    /\ UNCHANGED <<created, swapped, unsaid>>

(* Nothing is persisted.                                                   *)
Restart ==
    /\ limits # <<>>
    /\ limits' = <<>>
    /\ run' = [r \in Runs |-> IdleRun]
    /\ UNCHANGED <<created, swapped, unsaid>>

Next ==
    \/ CreateOrder \/ Restart
    \/ \E i \in Ids : CancelOrder(i)
    \/ \E r \in Runs : StartRun(r) \/ NextOrder(r) \/ NotTriggered(r) \/ Swap(r) \/ MarkFilled(r)

Spec == Init /\ [][Next]_limitVars

-----------------------------------------------------------------------------
(* Every variable keeps its shape; the list is as long as allowed.         *)
TypeOK ==
    /\ limits \in Seq([id : Ids, st : {"OPEN", "FILLED", "CANCELLED"}]) /\ Len(limits) <= Kept
    /\ created \in 0..MaxOrders
    /\ \A r \in Runs : /\ run[r].pc \in {"idle", "next", "prices", "filled"}
                       /\ run[r].todo \subseteq Ids /\ run[r].at \in Ids \union {NoOrder}
    /\ swapped \in [Ids -> Nat] /\ unsaid \in [Ids -> Nat]

(* jupiterLimitOrderService.ts:110-131: nothing claims an order before its *)
(* swap, so runs that overlap all fill it, cancelled or pushed out of the  *)
(* list meanwhile or not.  But the first one marks it, so no order is      *)
(* swapped more often than runs can overlap, plus once for every swap      *)
(* whose answer was lost; and FILLED is said of no order without a swap.   *)
FillsBounded ==
    /\ \A i \in Ids : swapped[i] <= Cardinality(Runs) + unsaid[i]
    /\ \A k \in DOMAIN limits : limits[k].st = "FILLED" => swapped[limits[k].id] > 0
=============================================================================
