------------------------------- MODULE Orders -------------------------------
(***************************************************************************)
(* The order management service for Binance Spot: placeOrder and           *)
(* syncOrderStatus of src/src/services/orders/orderService.ts, the 20 s    *)
(* sweep of src/src/services/reconcile.ts and the transition table of      *)
(* src/src/services/orders/stateMachine.ts.                                *)
(*                                                                         *)
(* The order table mirrors orders that live on the exchange.  placeOrder   *)
(* writes the row, submits the order and links the row to it; the sync     *)
(* route and the sweeps copy the exchange's state into linked rows.  Each  *)
(* of them reads the row, awaits the exchange and then writes without      *)
(* looking again, and timers start a new sweep whatever the last one does. *)
(***************************************************************************)
EXTENDS Naturals

CONSTANTS
    Orders,     \* orders the users place
    Syncers,    \* runs of the sync route and of the sweep that may overlap
    NoOrder,
    Qty         \* quantity of an order, in lots

ASSUME OrdersAssumption ==
    /\ Qty \in Nat /\ Qty >= 1
    /\ NoOrder \notin Orders
    /\ Orders \cap Syncers = {}

Statuses == {"PENDING_SUBMIT", "NEW", "PARTIALLY_FILLED", "FILLED",
             "CANCELED", "REJECTED", "EXPIRED"}
Terminal == {"FILLED", "CANCELED", "REJECTED", "EXPIRED"}

\* The transition table of stateMachine.ts.
transitions ==
    [s \in Statuses |->
        CASE s = "PENDING_SUBMIT" -> {"NEW", "FILLED", "PARTIALLY_FILLED", "REJECTED", "CANCELED"}
          [] s = "NEW" -> {"PARTIALLY_FILLED", "FILLED", "CANCELED", "EXPIRED", "REJECTED"}
          [] s = "PARTIALLY_FILLED" -> {"FILLED", "CANCELED", "EXPIRED"}
          [] OTHER -> {}]

\* Mutant: the table has no way to EXPIRED.
CanTransitionUnexpired(from, to) == to \in transitions[from] \ {"EXPIRED"}

CanTransition(from, to) == to \in transitions[from]

VARIABLES
    row,     \* the order table
    remote,  \* the orders on the exchange
    placing, \* the request of each order: where it is and the answer it holds
    syncing  \* the runs of the route and of the sweep

vars == <<row, remote, placing, syncing>>

Lots == 0..Qty
Rows == [status : Statuses \cup {"none"}, linked : BOOLEAN, filled : Lots]
\* The exchange's view of an order; "none" is an order it has never seen.
Remotes == [status : (Statuses \ {"PENDING_SUBMIT"}) \cup {"none"}, filled : Lots]
Requests == [pc : {"idle", "created", "submitted", "linked", "failing", "ended"},
             answer : Remotes]
Runs == [todo : SUBSET Orders, seen : [Orders -> Statuses \cup {"none"}],
         asked : Orders \cup {NoOrder}, answer : Remotes]

NoRow == [status |-> "none", linked |-> FALSE, filled |-> 0]
Unknown == [status |-> "none", filled |-> 0]
NotRunning == [todo |-> {}, seen |-> [o \in Orders |-> "none"],
               asked |-> NoOrder, answer |-> Unknown]

TypeOK ==
    /\ row \in [Orders -> Rows]
    /\ remote \in [Orders -> Remotes]
    /\ placing \in [Orders -> Requests]
    /\ syncing \in [Syncers -> Runs]

Init ==
    /\ row = [o \in Orders |-> NoRow]
    /\ remote = [o \in Orders |-> Unknown]
    /\ placing = [o \in Orders |-> [pc |-> "idle", answer |-> Unknown]]
    /\ syncing = [s \in Syncers |-> NotRunning]

-----------------------------------------------------------------------------
(* The exchange *)

Live(o) == remote[o].status \in {"NEW", "PARTIALLY_FILLED"}

FillStatus(n) == IF n = Qty THEN "FILLED" ELSE "PARTIALLY_FILLED"

ExchangeFills(o) ==
    /\ Live(o)
    /\ \E n \in (remote[o].filled + 1)..Qty :
          remote' = [remote EXCEPT ![o] = [status |-> FillStatus(n), filled |-> n]]
    /\ UNCHANGED <<row, placing, syncing>>

\* The user cancels on Binance, or the order's time in force runs out.
ExchangeEnds(o) ==
    /\ Live(o)
    /\ \E s \in {"CANCELED", "EXPIRED"} : remote' = [remote EXCEPT ![o].status = s]
    /\ UNCHANGED <<row, placing, syncing>>

-----------------------------------------------------------------------------
(* placeOrder *)

\* The checks on the connection, the risk rules and the minimum notional
\* throw before there is a row.
RefuseOrder(o) ==
    /\ placing[o].pc = "idle"
    /\ placing' = [placing EXCEPT ![o].pc = "ended"]
    /\ UNCHANGED <<row, remote, syncing>>

CreateOrder(o) ==
    /\ placing[o].pc = "idle"
    /\ row' = [row EXCEPT ![o] = [NoRow EXCEPT !.status = "PENDING_SUBMIT"]]
    /\ placing' = [placing EXCEPT ![o].pc = "created"]
    /\ UNCHANGED <<remote, syncing>>

\* The exchange accepts the order: it rests, is filled at once, in whole or
\* in part, or (immediate or cancel) expires.  The request holds the answer.
SubmitOrder(o) ==
    /\ placing[o].pc = "created"
    /\ \E n \in Lots :
       \E s \in {"NEW", "PARTIALLY_FILLED", "FILLED", "EXPIRED"} :
          /\ s = "NEW" => n = 0
          /\ s = "PARTIALLY_FILLED" => 0 < n /\ n < Qty
          /\ s = "FILLED" <=> n = Qty
          /\ remote' = [remote EXCEPT ![o] = [status |-> s, filled |-> n]]
          /\ placing' = [placing EXCEPT ![o] =
                            [pc |-> "submitted", answer |-> [status |-> s, filled |-> n]]]
    /\ UNCHANGED <<row, syncing>>

\* The answer is checked against the table and the row is linked.
LinkOrder(o) ==
    LET answer == placing[o].answer IN
    /\ placing[o].pc = "submitted"
    /\ \/ /\ CanTransition("PENDING_SUBMIT", answer.status)
          /\ row' = [row EXCEPT ![o] = [status |-> answer.status, linked |-> TRUE,
                                        filled |-> answer.filled]]
          /\ placing' = [placing EXCEPT ![o].pc = "linked"]
       \/ /\ ~CanTransition("PENDING_SUBMIT", answer.status)
          /\ placing' = [placing EXCEPT ![o].pc = "failing"]
          /\ UNCHANGED row
    /\ UNCHANGED <<remote, syncing>>

\* The execution event is written and the request returns the order.
RecordSubmission(o) ==
    /\ placing[o].pc = "linked"
    /\ placing' = [placing EXCEPT ![o] = [pc |-> "ended", answer |-> Unknown]]
    /\ UNCHANGED <<row, remote, syncing>>

\* Anything in the try block throws: the exchange refuses the order, its
\* answer is lost, a database write fails.
PlacingThrows(o) ==
    /\ placing[o].pc \in {"created", "submitted", "linked"}
    /\ placing' = [placing EXCEPT ![o].pc = "failing"]
    /\ UNCHANGED <<row, remote, syncing>>

RejectOrder(o) ==
    /\ placing[o].pc = "failing"
    /\ row' = [row EXCEPT ![o].status = "REJECTED"]
    /\ placing' = [placing EXCEPT ![o] = [pc |-> "ended", answer |-> Unknown]]
    /\ UNCHANGED <<remote, syncing>>

\* The process dies, or the write in the catch block fails as well.
PlacingCrashes(o) ==
    /\ placing[o].pc \notin {"idle", "ended"}
    /\ placing' = [placing EXCEPT ![o] = [pc |-> "ended", answer |-> Unknown]]
    /\ UNCHANGED <<row, remote, syncing>>

-----------------------------------------------------------------------------
(* syncOrderStatus and reconcileOpenOrders *)

\* A run reads its rows: the route one linked row, the sweep every row whose
\* status is not terminal (it passes over the ones that are not linked).
ReadRows(s, todo) ==
    /\ syncing[s] = NotRunning
    /\ todo # {}
    /\ syncing' = [syncing EXCEPT ![s].todo = todo,
                      ![s].seen = [o \in Orders |-> IF o \in todo THEN row[o].status ELSE "none"]]
    /\ UNCHANGED <<row, remote, placing>>

SyncByUser(s, o) == row[o].linked /\ ReadRows(s, {o})

\* Mutant: the sweep also takes rows without an exchange order id.
SweepUnlinked(s) ==
    ReadRows(s, {o \in Orders : row[o].status \notin Terminal \cup {"none"}})

SyncBySweep(s) ==
    ReadRows(s, {o \in Orders : /\ row[o].status \notin Terminal \cup {"none"}
                                /\ row[o].linked})

\* getOrder for the next row: the answer is what the exchange says now.
AskExchange(s, o) ==
    /\ syncing[s].asked = NoOrder
    /\ o \in syncing[s].todo
    /\ syncing' = [syncing EXCEPT ![s].todo = @ \ {o}, ![s].asked = o,
                                  ![s].answer = remote[o]]
    /\ UNCHANGED <<row, remote, placing>>

\* What remains of a run once it is done with the row it asked about.
NextRow(s) ==
    IF syncing[s].todo = {} THEN NotRunning
    ELSE [syncing[s] EXCEPT !.seen[syncing[s].asked] = "none", !.asked = NoOrder,
                            !.answer = Unknown]

\* Mutant: executed quantities are added up.
Accumulate(r, answer) == [r EXCEPT !.status = answer.status, !.filled = @ + answer.filled]

\* Mutant: the quantity is left as it was.
CopyStatus(r, answer) == [r EXCEPT !.status = answer.status]

Copy(r, answer) == [r EXCEPT !.status = answer.status, !.filled = answer.filled]

\* The answer is checked against the status read before the call, and
\* written over whatever the row holds by now.
WriteStatus(s) ==
    LET o == syncing[s].asked
        answer == syncing[s].answer IN
    /\ o # NoOrder
    /\ CanTransition(syncing[s].seen[o], answer.status)
    /\ row' = [row EXCEPT ![o] = Copy(row[o], answer)]
    /\ syncing' = [syncing EXCEPT ![s] = NextRow(s)]
    /\ UNCHANGED <<remote, placing>>

\* The transition is not in the table: the route throws, the sweep goes on.
SkipStatus(s) ==
    LET o == syncing[s].asked IN
    /\ o # NoOrder
    /\ ~CanTransition(syncing[s].seen[o], syncing[s].answer.status)
    /\ syncing' = [syncing EXCEPT ![s] = NextRow(s)]
    /\ UNCHANGED <<row, remote, placing>>

\* The call to the exchange or the write fails: the sweep goes on with the
\* next row.
SyncThrows(s) ==
    /\ syncing[s].asked # NoOrder
    /\ syncing' = [syncing EXCEPT ![s] = NextRow(s)]
    /\ UNCHANGED <<row, remote, placing>>

SyncCrashes(s) ==
    /\ syncing[s] # NotRunning
    /\ syncing' = [syncing EXCEPT ![s] = NotRunning]
    /\ UNCHANGED <<row, remote, placing>>

-----------------------------------------------------------------------------

Next ==
    \/ \E o \in Orders :
          \/ ExchangeFills(o) \/ ExchangeEnds(o)
          \/ RefuseOrder(o) \/ CreateOrder(o) \/ SubmitOrder(o) \/ LinkOrder(o)
          \/ RecordSubmission(o) \/ PlacingThrows(o) \/ RejectOrder(o) \/ PlacingCrashes(o)
    \/ \E s \in Syncers :
          \/ \E o \in Orders : SyncByUser(s, o) \/ AskExchange(s, o)
          \/ SyncBySweep(s) \/ WriteStatus(s) \/ SkipStatus(s)
          \/ SyncThrows(s) \/ SyncCrashes(s)

Spec == Init /\ [][Next]_vars

\* The timer starts a sweep every 20 s, and the exchange and the database
\* answer sooner or later if they are asked again and again.
FairSpec ==
    /\ Spec
    /\ \A s \in Syncers :
          /\ WF_vars(SkipStatus(s) \/ SyncThrows(s))
          /\ SF_vars(SyncBySweep(s))
          /\ \A o \in Orders : SF_vars(AskExchange(s, o))
          /\ SF_vars(WriteStatus(s))

-----------------------------------------------------------------------------
(* Properties *)

\* A row never claims an end the exchange does not know: FILLED, CANCELED
\* and EXPIRED are the exchange's own final word, with its final quantity,
\* however stale the answer that wrote them.
TerminalIsTrue ==
    \A o \in Orders : row[o].status \in {"FILLED", "CANCELED", "EXPIRED"} =>
        row[o].status = remote[o].status /\ row[o].filled = remote[o].filled

\* A row never runs ahead of the exchange: it is linked only to an order the
\* exchange has, and never shows more than was executed.
RowTrailsExchange ==
    \A o \in Orders :
        /\ row[o].linked => remote[o].status # "none"
        /\ row[o].filled <= remote[o].filled

\* A row that was rejected without having been linked is never revived by a
\* sync that read it earlier.
UnlinkedRejectionIsFinal ==
    [][\A o \in Orders : row[o].status = "REJECTED" /\ ~row[o].linked => row'[o] = row[o]]_vars

\* Once the exchange is done with a linked order the table settles on what
\* the exchange says, unless the order is shown as REJECTED.
SettlesOnExchange ==
    \A o \in Orders :
        (row[o].linked /\ remote[o].status \in Terminal)
            ~> [](row[o].status \in {remote[o].status, "REJECTED"})

\* A filled order never goes back to partially filled, which the transition
\* table and its test rule out.
FilledIsFinal ==
    [][\A o \in Orders :
          row[o].status = "FILLED" => row'[o].status # "PARTIALLY_FILLED"]_vars
=============================================================================
