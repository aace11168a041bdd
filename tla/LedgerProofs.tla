---------------------------- MODULE LedgerProofs ----------------------------
(***************************************************************************)
(* What the books of a user's orders and money promise for any number of   *)
(* requests, runs and rows: the order table (Orders), the summary of the   *)
(* wallets (V), the on-ramp (P), the prices on the page (F), the swaps     *)
(* signed in the browser (Y) and the log of trades (K).                    *)
(***************************************************************************)
EXTENDS Orders, Integers, FiniteSets, FiniteSetTheorems, WellFoundedInduction, Sequences, TLAPS

CONSTANTS
    Pages, Worths, LastDay, MaxChanges,                                  \* WalletSummary
    Servers, Providers, MaxTokens,                                       \* OnRamp
    Tickers, MaxMoves, MaxFaults, MaxEchoes,                             \* PriceFeed
    Submits, Amounts, Funds, SolUsd, MaxBuilds, MaxSlips,                \* SelfCustody
    Posts, Fills, Claims, Majors, Limit, Window, Gas, Slippages,
    MaxRows, MaxSales, NoPnl                                             \* TradeLog

VARIABLES
    worth, moves, today, stored, mem, inflight, refresh,                 \* WalletSummary
    step, ramp, raw, mail, minted, token, probe, orphans,                \* OnRamp
    quote, stream, warm, depth, cache, latest, run, bus, echo, online, view,
    lost, faults,                                                        \* PriceFeed
    wallet, swaps, known, sub, book, booked, tangled, slips,             \* SelfCustody
    rows, post, sold, odd                                                \* TradeLog

V == INSTANCE WalletSummary
P == INSTANCE OnRamp
F == INSTANCE PriceFeed WITH Runs <- Tickers
Y == INSTANCE SelfCustody WITH odd <- tangled, faults <- slips, MaxFaults <- MaxSlips
K == INSTANCE TradeLog WITH None <- NoPnl

-----------------------------------------------------------------------------
(* Orders: whatever a process holds or the table shows was once the         *)
(* exchange's state of that order, and its final states do not change.      *)

\* What was once the exchange's state of an order: it shows no more lots
\* than now, and if it is final then it is the state now.
Past(a, now) ==
    /\ a.filled <= now.filled
    /\ a.status \in {"FILLED", "CANCELED", "EXPIRED"} =>
          a.status = now.status /\ a.filled = now.filled
    /\ a.status \notin {"none", "PENDING_SUBMIT", "REJECTED"} => now.status # "none"

OrderRequestsInv ==
    \A o \in Orders :
        /\ remote[o].status = "none" => remote[o].filled = 0
        /\ placing[o].pc \in {"idle", "created"} => remote[o].status = "none"
        /\ placing[o].pc = "submitted" => remote[o].status # "none"
        /\ Past(placing[o].answer, remote[o])

SyncsInv ==
    \A s \in Syncers : syncing[s].asked # NoOrder =>
        Past(syncing[s].answer, remote[syncing[s].asked])

OrderTableInv ==
    \A o \in Orders :
        /\ Past(row[o], remote[o])
        /\ row[o].linked => remote[o].status # "none"

OrdersInv == TypeOK /\ OrderRequestsInv /\ SyncsInv /\ OrderTableInv

-----------------------------------------------------------------------------
(* Type correctness *)

\* The records a process starts with or falls back to are well formed.
LEMMA OrderDefaultsType ==
    /\ NoRow \in Rows /\ Unknown \in Remotes /\ NotRunning \in Runs
    /\ [NoRow EXCEPT !.status = "PENDING_SUBMIT"] \in Rows
  <1>1. 0 \in Lots
    BY OrdersAssumption DEF Lots
  <1>2. NoRow \in Rows
    BY <1>1 DEF NoRow, Rows, Statuses
  <1>3. Unknown \in Remotes
    BY <1>1 DEF Unknown, Remotes
  <1>4. NotRunning \in Runs
    BY <1>2, <1>3 DEF NotRunning, Runs
  <1>5. [NoRow EXCEPT !.status = "PENDING_SUBMIT"] \in Rows
    BY <1>1 DEF NoRow, Rows, Statuses
  <1> QED BY <1>2, <1>3, <1>4, <1>5

\* A run that is done with one of its rows is still well formed.
LEMMA NextRowType ==
    ASSUME TypeOK, NEW s \in Syncers PROVE NextRow(s) \in Runs
  BY OrderDefaultsType DEF TypeOK, NextRow, Runs

\* The state stays well typed.
LEMMA OrdersTypeInductive == TypeOK /\ [Next]_vars => TypeOK'
  <1> SUFFICES ASSUME TypeOK, [Next]_vars PROVE TypeOK'
    OBVIOUS
  <1> USE OrderDefaultsType
  <1>1. ASSUME NEW o \in Orders, ExchangeFills(o) PROVE TypeOK'
    <2>1. PICK n \in (remote[o].filled + 1)..Qty :
              remote' = [remote EXCEPT ![o] = [status |-> FillStatus(n), filled |-> n]]
      BY <1>1 DEF ExchangeFills
    <2>2. n \in Lots
      BY OrdersAssumption DEF TypeOK, Remotes, Lots
    <2>3. [status |-> FillStatus(n), filled |-> n] \in Remotes
      BY <2>2 DEF FillStatus, Remotes, Statuses
    <2> QED BY <1>1, <2>1, <2>3 DEF TypeOK, ExchangeFills
  <1>2. ASSUME NEW o \in Orders, ExchangeEnds(o) PROVE TypeOK'
    BY <1>2 DEF TypeOK, ExchangeEnds, Remotes, Statuses
  <1>3. ASSUME NEW o \in Orders, RefuseOrder(o) \/ PlacingThrows(o) PROVE TypeOK'
    BY <1>3 DEF TypeOK, RefuseOrder, PlacingThrows, Requests
  <1>4. ASSUME NEW o \in Orders, CreateOrder(o) PROVE TypeOK'
    BY <1>4 DEF TypeOK, CreateOrder, Requests
  <1>5. ASSUME NEW o \in Orders, SubmitOrder(o) PROVE TypeOK'
    <2>1. PICK n \in Lots, st \in {"NEW", "PARTIALLY_FILLED", "FILLED", "EXPIRED"} :
              /\ remote' = [remote EXCEPT ![o] = [status |-> st, filled |-> n]]
              /\ placing' = [placing EXCEPT ![o] =
                    [pc |-> "submitted", answer |-> [status |-> st, filled |-> n]]]
      BY <1>5 DEF SubmitOrder
    <2>2. [status |-> st, filled |-> n] \in Remotes
      BY DEF Remotes, Statuses
    <2>3. [pc |-> "submitted", answer |-> [status |-> st, filled |-> n]] \in Requests
      BY <2>2 DEF Requests
    <2> QED BY <1>5, <2>1, <2>2, <2>3 DEF TypeOK, SubmitOrder
  <1>6. ASSUME NEW o \in Orders, LinkOrder(o) PROVE TypeOK'
    <2>1. placing[o].answer \in Remotes
      BY DEF TypeOK, Requests
    <2>2. row' \in [Orders -> Rows]
      <3>1. [status |-> placing[o].answer.status, linked |-> TRUE,
             filled |-> placing[o].answer.filled] \in Rows
        BY <2>1 DEF Rows, Remotes
      <3> QED BY <1>6, <3>1 DEF TypeOK, LinkOrder
    <2>3. placing' \in [Orders -> Requests]
      BY <1>6 DEF TypeOK, LinkOrder, Requests
    <2> QED BY <1>6, <2>2, <2>3 DEF TypeOK, LinkOrder
  <1>7. ASSUME NEW o \in Orders, RecordSubmission(o) \/ PlacingCrashes(o) PROVE TypeOK'
    BY <1>7 DEF TypeOK, RecordSubmission, PlacingCrashes, Requests
  <1>8. ASSUME NEW o \in Orders, RejectOrder(o) PROVE TypeOK'
    BY <1>8 DEF TypeOK, RejectOrder, Requests, Rows, Statuses
  <1>9. ASSUME NEW s \in Syncers, NEW todo \in SUBSET Orders, ReadRows(s, todo) PROVE TypeOK'
    <2>1. [o \in Orders |-> IF o \in todo THEN row[o].status ELSE "none"]
             \in [Orders -> Statuses \cup {"none"}]
      BY DEF TypeOK, Rows
    <2> QED BY <1>9, <2>1 DEF TypeOK, ReadRows, Runs
  <1>10. ASSUME NEW s \in Syncers, NEW o \in Orders, AskExchange(s, o) PROVE TypeOK'
    <2>1. remote[o] \in Remotes /\ syncing[s] \in Runs
      BY DEF TypeOK
    <2>2. syncing' \in [Syncers -> Runs]
      BY <1>10, <2>1 DEF TypeOK, AskExchange, Runs
    <2> QED BY <1>10, <2>2 DEF TypeOK, AskExchange
  <1>11. ASSUME NEW s \in Syncers, WriteStatus(s) PROVE TypeOK'
    <2>1. syncing' \in [Syncers -> Runs]
      BY <1>11, NextRowType DEF TypeOK, WriteStatus
    <2>2. syncing[s].asked \in Orders /\ syncing[s].answer \in Remotes
      BY <1>11 DEF TypeOK, WriteStatus, Runs
    <2>3. Copy(row[syncing[s].asked], syncing[s].answer) \in Rows
      BY <2>2 DEF TypeOK, Copy, Rows, Remotes
    <2> QED BY <1>11, <2>1, <2>2, <2>3 DEF TypeOK, WriteStatus
  <1>12. ASSUME NEW s \in Syncers, SkipStatus(s) \/ SyncThrows(s) \/ SyncCrashes(s)
         PROVE TypeOK'
    BY <1>12, NextRowType DEF TypeOK, SkipStatus, SyncThrows, SyncCrashes
  <1>13. CASE UNCHANGED vars
    BY <1>13 DEF TypeOK, vars
  <1> QED
    BY <1>1, <1>2, <1>3, <1>4, <1>5, <1>6, <1>7, <1>8, <1>9, <1>10, <1>11, <1>12, <1>13
       DEF Next, SyncByUser, SyncBySweep

-----------------------------------------------------------------------------
(* The inductive invariant *)

\* The exchange only moves on: what is past stays past.
LEMMA PastIsStable ==
    ASSUME TypeOK, OrderRequestsInv, [Next]_vars, NEW o \in Orders,
           NEW a, a.filled \in Nat, Past(a, remote[o])
    PROVE  Past(a, remote'[o])
  <1>1. ASSUME NEW p \in Orders, ExchangeFills(p) PROVE Past(a, remote'[o])
    BY <1>1, OrdersAssumption DEF ExchangeFills, Live, FillStatus, Past, TypeOK, Remotes, Lots
  <1>2. ASSUME NEW p \in Orders, ExchangeEnds(p) PROVE Past(a, remote'[o])
    BY <1>2 DEF ExchangeEnds, Live, Past, TypeOK, Remotes
  <1>3. ASSUME NEW p \in Orders, SubmitOrder(p) PROVE Past(a, remote'[o])
    BY <1>3 DEF SubmitOrder, OrderRequestsInv, Past, TypeOK, Remotes, Lots
  <1>4. CASE UNCHANGED remote
    BY <1>4
  <1> QED
    BY <1>1, <1>2, <1>3, <1>4 DEF Next, vars, RefuseOrder, CreateOrder, LinkOrder,
       RecordSubmission, PlacingThrows, RejectOrder, PlacingCrashes, SyncByUser, SyncBySweep,
       ReadRows, AskExchange, WriteStatus, SkipStatus, SyncThrows, SyncCrashes

\* A run that is done with one of its rows asks about none.
LEMMA NextRowAsksNone ==
    ASSUME TypeOK, NEW s \in Syncers PROVE NextRow(s).asked = NoOrder
  BY DEF TypeOK, NextRow, NotRunning, Runs

\* Every step preserves the inductive invariant.
LEMMA OrdersInvInductive == OrdersInv /\ [Next]_vars => OrdersInv'
  <1> SUFFICES ASSUME OrdersInv, [Next]_vars PROVE OrdersInv'
    OBVIOUS
  <1>0. TypeOK /\ TypeOK'
    BY OrdersTypeInductive DEF OrdersInv
  <1>t. /\ \A o \in Orders : placing[o].answer.filled \in Nat /\ row[o].filled \in Nat
        /\ \A s \in Syncers : syncing[s].answer.filled \in Nat
    BY <1>0 DEF TypeOK, Requests, Rows, Runs, Remotes, Lots
  <1>1. \A o \in Orders : /\ Past(placing[o].answer, remote'[o])
                          /\ Past(row[o], remote'[o])
    BY <1>0, <1>t, PastIsStable DEF OrdersInv, OrderRequestsInv, OrderTableInv
  <1>2. \A s \in Syncers : syncing[s].asked # NoOrder =>
            Past(syncing[s].answer, remote'[syncing[s].asked])
    <2> SUFFICES ASSUME NEW s \in Syncers, syncing[s].asked # NoOrder
                 PROVE Past(syncing[s].answer, remote'[syncing[s].asked])
      OBVIOUS
    <2>1. syncing[s].asked \in Orders
      BY <1>0 DEF TypeOK, Runs
    <2> QED BY <1>0, <1>t, <2>1, PastIsStable DEF OrdersInv, SyncsInv
  <1>3. Past(Unknown, Unknown) /\ \A o \in Orders : Past(Unknown, remote'[o])
    BY <1>0 DEF Past, Unknown, TypeOK, Remotes, Lots
  <1>4. ASSUME NEW o \in Orders, ExchangeFills(o) \/ ExchangeEnds(o) PROVE OrdersInv'
    <2>1. OrderRequestsInv'
      BY <1>0, <1>1, <1>4 DEF OrdersInv, OrderRequestsInv, ExchangeFills, ExchangeEnds, Live, FillStatus,
         TypeOK, Remotes
    <2>2. SyncsInv'
      BY <1>2, <1>4 DEF SyncsInv, ExchangeFills, ExchangeEnds
    <2>3. OrderTableInv'
      BY <1>0, <1>1, <1>4 DEF OrdersInv, OrderTableInv, ExchangeFills, ExchangeEnds, Live, FillStatus,
         TypeOK, Remotes
    <2> QED BY <1>0, <2>1, <2>2, <2>3 DEF OrdersInv
  <1>5. ASSUME NEW o \in Orders, RefuseOrder(o) \/ CreateOrder(o) PROVE OrdersInv'
    <2>1. OrderRequestsInv'
      BY <1>0, <1>1, <1>5 DEF OrdersInv, OrderRequestsInv, RefuseOrder, CreateOrder, TypeOK, Requests
    <2>2. SyncsInv'
      BY <1>2, <1>5 DEF SyncsInv, RefuseOrder, CreateOrder
    <2>3. OrderTableInv'
      <3>1. CASE RefuseOrder(o)
        BY <3>1 DEF OrdersInv, OrderTableInv, RefuseOrder
      <3>2. CASE CreateOrder(o)
        <4>1. /\ row'[o].status = "PENDING_SUBMIT" /\ ~row'[o].linked /\ row'[o].filled = 0
              /\ \A p \in Orders \ {o} : row'[p] = row[p]
          BY <1>0, <3>2 DEF CreateOrder, NoRow, TypeOK
        <4>2. 0 <= remote[o].filled
          BY <1>0 DEF TypeOK, Remotes, Lots
        <4>3. UNCHANGED remote
          BY <3>2 DEF CreateOrder
        <4> QED BY <4>1, <4>2, <4>3 DEF OrdersInv, OrderTableInv, Past
      <3> QED BY <1>5, <3>1, <3>2
    <2> QED BY <1>0, <2>1, <2>2, <2>3 DEF OrdersInv
  <1>6. ASSUME NEW o \in Orders, SubmitOrder(o) PROVE OrdersInv'
    <2>1. PICK n \in Lots, st \in {"NEW", "PARTIALLY_FILLED", "FILLED", "EXPIRED"} :
              /\ remote' = [remote EXCEPT ![o] = [status |-> st, filled |-> n]]
              /\ placing' = [placing EXCEPT ![o] =
                    [pc |-> "submitted", answer |-> [status |-> st, filled |-> n]]]
      BY <1>6 DEF SubmitOrder
    <2>2. OrderRequestsInv'
      BY <1>0, <1>1, <2>1 DEF OrdersInv, OrderRequestsInv, TypeOK, Past, Lots
    <2>3. SyncsInv' /\ OrderTableInv'
      BY <1>0, <1>1, <1>2, <1>6, <2>1 DEF OrdersInv, SyncsInv, OrderTableInv, TypeOK, SubmitOrder
    <2> QED BY <1>0, <2>2, <2>3 DEF OrdersInv
  <1>7. ASSUME NEW o \in Orders, LinkOrder(o) PROVE OrdersInv'
    <2>1. OrderRequestsInv'
      BY <1>0, <1>1, <1>7 DEF OrdersInv, OrderRequestsInv, LinkOrder, TypeOK, Requests
    <2>2. SyncsInv'
      BY <1>2, <1>7 DEF SyncsInv, LinkOrder
    <2>3. OrderTableInv'
      <3>1. UNCHANGED remote
        BY <1>7 DEF LinkOrder
      <3>2. CASE UNCHANGED row
        BY <3>1, <3>2 DEF OrdersInv, OrderTableInv
      <3>3. CASE /\ CanTransition("PENDING_SUBMIT", placing[o].answer.status)
                 /\ row' = [row EXCEPT ![o] = [status |-> placing[o].answer.status,
                                linked |-> TRUE, filled |-> placing[o].answer.filled]]
        <4>1. placing[o].answer.status \in {"NEW", "FILLED", "PARTIALLY_FILLED", "REJECTED",
                                            "CANCELED"}
          BY <3>3 DEF CanTransition, transitions, Statuses
        <4>2. placing[o].pc = "submitted"
          BY <1>7 DEF LinkOrder
        <4>3. /\ row'[o].status = placing[o].answer.status
              /\ row'[o].filled = placing[o].answer.filled
              /\ \A p \in Orders \ {o} : row'[p] = row[p]
          BY <1>0, <3>3 DEF TypeOK
        <4> QED BY <3>1, <4>1, <4>2, <4>3 DEF OrdersInv, OrderTableInv, OrderRequestsInv, Past
      <3> QED BY <1>7, <3>2, <3>3 DEF LinkOrder
    <2> QED BY <1>0, <2>1, <2>2, <2>3 DEF OrdersInv
  <1>8. ASSUME NEW o \in Orders,
               RecordSubmission(o) \/ PlacingThrows(o) \/ PlacingCrashes(o)
        PROVE OrdersInv'
    <2>1. OrderRequestsInv'
      BY <1>0, <1>1, <1>3, <1>8 DEF OrdersInv, OrderRequestsInv, RecordSubmission, PlacingThrows,
         PlacingCrashes, TypeOK, Requests
    <2>2. SyncsInv' /\ OrderTableInv'
      BY <1>1, <1>2, <1>8 DEF OrdersInv, SyncsInv, OrderTableInv, RecordSubmission, PlacingThrows,
         PlacingCrashes
    <2> QED BY <1>0, <2>1, <2>2 DEF OrdersInv
  <1>9. ASSUME NEW o \in Orders, RejectOrder(o) PROVE OrdersInv'
    <2>1. OrderRequestsInv'
      BY <1>0, <1>1, <1>3, <1>9 DEF OrdersInv, OrderRequestsInv, RejectOrder, TypeOK
    <2>2. SyncsInv'
      BY <1>2, <1>9 DEF SyncsInv, RejectOrder
    <2>3. OrderTableInv'
      BY <1>0, <1>1, <1>9 DEF OrdersInv, OrderTableInv, RejectOrder, TypeOK, Rows, Past
    <2> QED BY <1>0, <2>1, <2>2, <2>3 DEF OrdersInv
  <1>10. ASSUME NEW s \in Syncers, NEW todo \in SUBSET Orders, ReadRows(s, todo) PROVE OrdersInv'
    <2>1. SyncsInv'
      <3>1. syncing'[s].asked = NoOrder /\ \A r \in Syncers \ {s} : syncing'[r] = syncing[r]
        BY <1>0, <1>10 DEF ReadRows, TypeOK, NotRunning
      <3> QED BY <1>2, <3>1 DEF SyncsInv
    <2>2. OrderRequestsInv' /\ OrderTableInv'
      BY <1>10 DEF OrdersInv, OrderRequestsInv, OrderTableInv, ReadRows
    <2> QED BY <1>0, <2>1, <2>2 DEF OrdersInv
  <1>11. ASSUME NEW s \in Syncers, NEW o \in Orders, AskExchange(s, o) PROVE OrdersInv'
    <2>1. syncing'[s].asked = o /\ syncing'[s].answer = remote[o]
      BY <1>0, <1>11 DEF AskExchange, TypeOK, Runs
    <2>2. \A r \in Syncers \ {s} : syncing'[r] = syncing[r]
      BY <1>0, <1>11 DEF AskExchange, TypeOK
    <2>3. Past(remote[o], remote[o])
      BY <1>0 DEF Past, TypeOK, Remotes, Lots
    <2>4. UNCHANGED <<row, remote, placing>>
      BY <1>11 DEF AskExchange
    <2>5. SyncsInv'
      BY <2>1, <2>2, <2>3, <2>4 DEF OrdersInv, SyncsInv
    <2>6. OrderRequestsInv' /\ OrderTableInv'
      BY <2>4 DEF OrdersInv, OrderRequestsInv, OrderTableInv
    <2> QED BY <1>0, <2>5, <2>6 DEF OrdersInv
  <1>12. ASSUME NEW s \in Syncers, WriteStatus(s) PROVE OrdersInv'
    <2>1. SyncsInv'
      BY <1>0, <1>2, <1>12, NextRowAsksNone DEF SyncsInv, WriteStatus, TypeOK
    <2>2. OrderRequestsInv'
      BY <1>12 DEF OrdersInv, OrderRequestsInv, WriteStatus
    <2>3. PICK o \in Orders : o = syncing[s].asked
      BY <1>0, <1>12 DEF WriteStatus, TypeOK, Runs
    <2>4. /\ row'[o].status = syncing[s].answer.status
          /\ row'[o].filled = syncing[s].answer.filled
          /\ row'[o].linked = row[o].linked
          /\ \A p \in Orders \ {o} : row'[p] = row[p]
      BY <1>0, <1>12, <2>3 DEF WriteStatus, Copy, TypeOK, Rows
    <2>5. Past(syncing[s].answer, remote'[o])
      BY <1>2, <1>12, <2>3 DEF WriteStatus
    <2>6. OrderTableInv'
      BY <1>1, <1>12, <2>4, <2>5 DEF OrdersInv, OrderTableInv, WriteStatus, Past
    <2> QED BY <1>0, <2>1, <2>2, <2>6 DEF OrdersInv
  <1>13. ASSUME NEW s \in Syncers, SkipStatus(s) \/ SyncThrows(s) \/ SyncCrashes(s)
         PROVE OrdersInv'
    <2>1. SyncsInv'
      BY <1>0, <1>2, <1>13, NextRowAsksNone
         DEF SyncsInv, SkipStatus, SyncThrows, SyncCrashes, TypeOK, NotRunning
    <2>2. OrderRequestsInv' /\ OrderTableInv'
      BY <1>13 DEF OrdersInv, OrderRequestsInv, OrderTableInv, SkipStatus, SyncThrows, SyncCrashes
    <2> QED BY <1>0, <2>1, <2>2 DEF OrdersInv
  <1>14. CASE UNCHANGED vars
    BY <1>0, <1>14 DEF vars, OrdersInv, OrderRequestsInv, SyncsInv, OrderTableInv
  <1> QED
    BY <1>4, <1>5, <1>6, <1>7, <1>8, <1>9, <1>10, <1>11, <1>12, <1>13, <1>14
       DEF Next, SyncByUser, SyncBySweep

-----------------------------------------------------------------------------
(* Theorems *)

\* The initial state satisfies the inductive invariant.
LEMMA InitOrdersInv == Init => OrdersInv
  <1> SUFFICES ASSUME Init PROVE OrdersInv
    OBVIOUS
  <1>1. TypeOK
    BY OrderDefaultsType DEF Init, TypeOK, Requests
  <1>2. OrderRequestsInv /\ SyncsInv /\ OrderTableInv
    BY DEF Init, OrderRequestsInv, SyncsInv, OrderTableInv, Past, Unknown, NoRow, NotRunning
  <1> QED BY <1>1, <1>2 DEF OrdersInv

\* The state is always well typed, whatever is lost, late or overlaps.
THEOREM OrdersTypeCorrect == Spec => []TypeOK
  <1>1. OrdersInv => TypeOK
    BY DEF OrdersInv
  <1> QED BY <1>1, InitOrdersInv, OrdersInvInductive, PTL DEF Spec

\* The table never claims an end the exchange does not know, however many
\* syncs overlap and however late their answers are written.
THEOREM TableEndsAreTrue == Spec => []TerminalIsTrue
  <1>1. OrdersInv => TerminalIsTrue
    BY DEF OrdersInv, OrderTableInv, Past, TerminalIsTrue
  <1> QED BY <1>1, InitOrdersInv, OrdersInvInductive, PTL DEF Spec

\* The table never runs ahead of the exchange.
THEOREM TableTrails == Spec => []RowTrailsExchange
  <1>1. OrdersInv => RowTrailsExchange
    BY DEF OrdersInv, OrderTableInv, Past, RowTrailsExchange
  <1> QED BY <1>1, InitOrdersInv, OrdersInvInductive, PTL DEF Spec

-----------------------------------------------------------------------------
(* Rejections *)

\* A run holds only rows that are linked, so a row that a run may still
\* write is linked by then: no row is unlinked again, because a request that
\* has not written its row finds none.  A row that was rejected without
\* having been linked belongs to a request that is over.
RunsHoldLinked ==
    \A s \in Syncers, o \in Orders :
        o \in syncing[s].todo \/ o = syncing[s].asked => row[o].linked

RejectionEndsRequest ==
    \A o \in Orders :
        /\ placing[o].pc = "idle" => ~row[o].linked
        /\ row[o].status = "REJECTED" /\ ~row[o].linked => placing[o].pc = "ended"

RejectionInv == TypeOK /\ RunsHoldLinked /\ RejectionEndsRequest

\* Every step preserves what is known of rejected rows.
LEMMA RejectionInvInductive == RejectionInv /\ [Next]_vars => RejectionInv'
  <1> SUFFICES ASSUME RejectionInv, [Next]_vars PROVE RejectionInv'
    OBVIOUS
  <1>0. TypeOK /\ TypeOK'
    BY OrdersTypeInductive DEF RejectionInv
  <1>1. ASSUME NEW o \in Orders, ExchangeFills(o) \/ ExchangeEnds(o) PROVE RejectionInv'
    BY <1>0, <1>1 DEF RejectionInv, RunsHoldLinked, RejectionEndsRequest, ExchangeFills, ExchangeEnds
  <1>2. ASSUME NEW o \in Orders, RefuseOrder(o) \/ RecordSubmission(o) \/ PlacingThrows(o)
                                    \/ PlacingCrashes(o)
        PROVE RejectionInv'
    <2>1. RunsHoldLinked'
      BY <1>2 DEF RejectionInv, RunsHoldLinked, RefuseOrder, RecordSubmission, PlacingThrows,
         PlacingCrashes
    <2>2. RejectionEndsRequest'
      BY <1>0, <1>2 DEF RejectionInv, RejectionEndsRequest, RefuseOrder, RecordSubmission,
         PlacingThrows, PlacingCrashes, TypeOK, Requests
    <2> QED BY <1>0, <2>1, <2>2 DEF RejectionInv
  <1>3. ASSUME NEW o \in Orders, CreateOrder(o) PROVE RejectionInv'
    <2>1. /\ row'[o].status = "PENDING_SUBMIT" /\ ~row'[o].linked /\ ~row[o].linked
          /\ \A p \in Orders \ {o} : row'[p] = row[p]
      BY <1>0, <1>3 DEF RejectionInv, RejectionEndsRequest, CreateOrder, NoRow, TypeOK
    <2>2. RunsHoldLinked'
      BY <1>3, <2>1 DEF RejectionInv, RunsHoldLinked, CreateOrder
    <2>3. RejectionEndsRequest'
      BY <1>0, <1>3, <2>1 DEF RejectionInv, RejectionEndsRequest, CreateOrder, TypeOK, Requests
    <2> QED BY <1>0, <2>2, <2>3 DEF RejectionInv
  <1>4. ASSUME NEW o \in Orders, SubmitOrder(o) PROVE RejectionInv'
    <2>1. PICK n \in Lots, st \in {"NEW", "PARTIALLY_FILLED", "FILLED", "EXPIRED"} :
              placing' = [placing EXCEPT ![o] =
                    [pc |-> "submitted", answer |-> [status |-> st, filled |-> n]]]
      BY <1>4 DEF SubmitOrder
    <2>2. placing[o].pc = "created" /\ UNCHANGED <<row, syncing>>
      BY <1>4 DEF SubmitOrder
    <2>3. RunsHoldLinked'
      BY <2>2 DEF RejectionInv, RunsHoldLinked
    <2>4. RejectionEndsRequest'
      BY <1>0, <2>1, <2>2 DEF RejectionInv, RejectionEndsRequest, TypeOK
    <2> QED BY <1>0, <2>3, <2>4 DEF RejectionInv
  <1>5. ASSUME NEW o \in Orders, LinkOrder(o) PROVE RejectionInv'
    <2>1. /\ row'[o].linked \/ row'[o] = row[o]
          /\ \A p \in Orders \ {o} : row'[p] = row[p]
          /\ placing[o].pc = "submitted" /\ placing'[o].pc # "idle"
          /\ \A p \in Orders \ {o} : placing'[p] = placing[p]
          /\ UNCHANGED syncing
      BY <1>0, <1>5 DEF LinkOrder, TypeOK, Requests
    <2>2. RunsHoldLinked'
      BY <2>1 DEF RejectionInv, RunsHoldLinked
    <2>3. RejectionEndsRequest'
      BY <2>1 DEF RejectionInv, RejectionEndsRequest
    <2> QED BY <1>0, <2>2, <2>3 DEF RejectionInv
  <1>6. ASSUME NEW o \in Orders, RejectOrder(o) PROVE RejectionInv'
    <2>1. /\ row'[o].linked = row[o].linked /\ placing'[o].pc = "ended"
          /\ \A p \in Orders \ {o} : row'[p] = row[p] /\ placing'[p] = placing[p]
          /\ UNCHANGED syncing
      BY <1>0, <1>6 DEF RejectOrder, TypeOK, Rows
    <2> QED BY <1>0, <2>1 DEF RejectionInv, RunsHoldLinked, RejectionEndsRequest
  <1>7. ASSUME NEW s \in Syncers, NEW todo \in SUBSET Orders, ReadRows(s, todo),
               \A o \in todo : row[o].linked
        PROVE RejectionInv'
    <2>1. /\ syncing'[s].asked = NoOrder /\ syncing'[s].todo = todo
          /\ \A r \in Syncers \ {s} : syncing'[r] = syncing[r]
          /\ UNCHANGED <<row, placing>>
      BY <1>0, <1>7 DEF ReadRows, TypeOK, NotRunning
    <2>2. RunsHoldLinked'
      BY <1>7, <2>1, OrdersAssumption DEF RejectionInv, RunsHoldLinked
    <2> QED BY <1>0, <2>1, <2>2 DEF RejectionInv, RejectionEndsRequest
  <1>8. ASSUME NEW s \in Syncers, NEW o \in Orders, AskExchange(s, o) PROVE RejectionInv'
    <2>1. /\ syncing'[s].asked = o /\ syncing'[s].todo = syncing[s].todo \ {o}
          /\ o \in syncing[s].todo
          /\ \A r \in Syncers \ {s} : syncing'[r] = syncing[r]
          /\ UNCHANGED <<row, placing>>
      BY <1>0, <1>8 DEF AskExchange, TypeOK, Runs
    <2>2. RunsHoldLinked'
      BY <2>1 DEF RejectionInv, RunsHoldLinked
    <2> QED BY <1>0, <2>1, <2>2 DEF RejectionInv, RejectionEndsRequest
  <1>9. ASSUME NEW s \in Syncers,
               WriteStatus(s) \/ SkipStatus(s) \/ SyncThrows(s) \/ SyncCrashes(s)
        PROVE RejectionInv'
    <2>1. /\ syncing'[s].asked = NoOrder
          /\ syncing'[s].todo \subseteq syncing[s].todo
          /\ \A r \in Syncers \ {s} : syncing'[r] = syncing[r]
      <3>1. NextRow(s).todo \subseteq syncing[s].todo /\ NotRunning.todo \subseteq syncing[s].todo
        BY <1>0 DEF NextRow, NotRunning, TypeOK, Runs
      <3>2. NotRunning.asked = NoOrder
        BY DEF NotRunning
      <3> QED BY <1>0, <1>9, <3>1, <3>2, NextRowAsksNone
              DEF WriteStatus, SkipStatus, SyncThrows, SyncCrashes, TypeOK
    <2>2. \A o \in Orders : row'[o].linked = row[o].linked
      <3>1. CASE WriteStatus(s)
        <4>1. \A o \in Orders : \A a : Copy(row[o], a).linked = row[o].linked
          BY <1>0 DEF Copy, TypeOK, Rows
        <4> QED BY <1>0, <3>1, <4>1 DEF WriteStatus, TypeOK
      <3>2. CASE row' = row
        BY <3>2
      <3> QED BY <1>9, <3>1, <3>2 DEF SkipStatus, SyncThrows, SyncCrashes
    <2>3. RunsHoldLinked'
      BY <2>1, <2>2, OrdersAssumption DEF RejectionInv, RunsHoldLinked
    <2>4. RejectionEndsRequest'
      <3>1. UNCHANGED placing
        BY <1>9 DEF WriteStatus, SkipStatus, SyncThrows, SyncCrashes
      <3>2. \A o \in Orders : ~row[o].linked => row'[o] = row[o]
        BY <1>0, <1>9 DEF RejectionInv, RunsHoldLinked, WriteStatus, SkipStatus, SyncThrows,
           SyncCrashes, TypeOK
      <3> QED BY <2>2, <3>1, <3>2 DEF RejectionInv, RejectionEndsRequest
    <2> QED BY <1>0, <2>3, <2>4 DEF RejectionInv
  <1>10. CASE UNCHANGED vars
    BY <1>0, <1>10 DEF vars, RejectionInv, RunsHoldLinked, RejectionEndsRequest
  <1> QED
    BY <1>1, <1>2, <1>3, <1>4, <1>5, <1>6, <1>7, <1>8, <1>9, <1>10
       DEF Next, SyncByUser, SyncBySweep

\* A row rejected before it was linked keeps what it says through every step.
LEMMA RejectedRowStays ==
    ASSUME RejectionInv, [Next]_vars, NEW o \in Orders,
           row[o].status = "REJECTED", ~row[o].linked
    PROVE  row'[o] = row[o]
  <1>0. TypeOK /\ placing[o].pc = "ended"
    BY DEF RejectionInv, RejectionEndsRequest
  <1>1. ASSUME NEW p \in Orders, CreateOrder(p) \/ LinkOrder(p) \/ RejectOrder(p)
        PROVE row'[o] = row[o]
    BY <1>0, <1>1 DEF CreateOrder, LinkOrder, RejectOrder, TypeOK
  <1>2. ASSUME NEW s \in Syncers, WriteStatus(s) PROVE row'[o] = row[o]
    BY <1>0, <1>2 DEF WriteStatus, RejectionInv, RunsHoldLinked, TypeOK
  <1>3. CASE UNCHANGED row
    BY <1>3
  <1> QED
    BY <1>1, <1>2, <1>3 DEF Next, vars, ExchangeFills, ExchangeEnds, RefuseOrder, SubmitOrder,
       RecordSubmission, PlacingThrows, PlacingCrashes, SyncByUser, SyncBySweep, ReadRows,
       AskExchange, SkipStatus, SyncThrows, SyncCrashes

\* An order that was rejected without having been linked stays rejected:
\* no sync or sweep that read the table earlier writes over it.
THEOREM RejectionStands == Spec => UnlinkedRejectionIsFinal
  <1>1. Init => RejectionInv
    <2>1. ASSUME Init PROVE RunsHoldLinked /\ RejectionEndsRequest
      BY <2>1, OrdersAssumption DEF Init, RunsHoldLinked, RejectionEndsRequest, NoRow, NotRunning
    <2> QED BY <2>1, InitOrdersInv DEF RejectionInv, OrdersInv
  <1>2. RejectionInv /\ [Next]_vars =>
            [\A o \in Orders : row[o].status = "REJECTED" /\ ~row[o].linked =>
                row'[o] = row[o]]_vars
    BY RejectedRowStays
  <1> QED BY <1>1, <1>2, RejectionInvInductive, PTL DEF Spec, UnlinkedRejectionIsFinal

-----------------------------------------------------------------------------
(* WalletSummary *)

\* The inductive invariant: no refresh has an anchor of a day to come.
SummaryInv == V!SummaryAssumption /\ V!TypeOK /\ \A j \in V!Jobs : refresh[j].anchor <= today

Refreshes == [pc : {"idle", "read", "store"}, caller : BOOLEAN, anchorDay : 0..LastDay,
              usd : Worths \union {0}, anchor : 0..LastDay]

\* What the proofs below need of the invariant.
LEMMA SummaryTypes ==
    ASSUME SummaryInv
    PROVE  /\ LastDay \in Nat \ {0} /\ MaxChanges \in Nat /\ worth \in Worths /\ moves \in 0..MaxChanges
           /\ today \in 1..LastDay /\ inflight \in BOOLEAN
           /\ stored \in [usd : Worths \union {0}, fresh : BOOLEAN, anchorDay : 0..today, anchorUsd : Worths \union {0}]
           /\ mem \in [usd : Worths \union {0}, fresh : BOOLEAN]
           /\ refresh \in [V!Jobs -> Refreshes]
           /\ \A j \in V!Jobs : refresh[j].anchor <= today
           /\ V!Resting \in Refreshes /\ V!Resting.anchor = 0 /\ V!Background \in V!Jobs
  BY DEF SummaryInv, V!SummaryAssumption, V!TypeOK, V!Resting, Refreshes, V!Jobs

\* A refresh that is replaced by one that fits keeps the refreshes.
LEMMA RefreshMoves ==
    ASSUME SummaryInv, NEW j \in V!Jobs, NEW r \in Refreshes, r.anchor <= today,
           refresh' = [refresh EXCEPT ![j] = r], today' = today
    PROVE  refresh' \in [V!Jobs -> Refreshes] /\ \A k \in V!Jobs : refresh'[k].anchor <= today'
  BY SummaryTypes

\* A refresh that starts.
LEMMA RefreshStarts ==
    ASSUME SummaryInv, NEW j \in V!Jobs, refresh' = V!Start(j), today' = today
    PROVE  refresh' \in [V!Jobs -> Refreshes] /\ \A k \in V!Jobs : refresh'[k].anchor <= today'
  <1> DEFINE r == [V!Resting EXCEPT !.pc = "read", !.caller = TRUE, !.anchorDay = stored.anchorDay]
  <1>1. stored.anchorDay \in 0..LastDay
    BY SummaryTypes
  <1>2. \A q \in Refreshes, d \in 0..LastDay :
           LET n == [q EXCEPT !.pc = "read", !.caller = TRUE, !.anchorDay = d]
           IN  n \in Refreshes /\ n.anchor = q.anchor
    BY DEF Refreshes
  <1>3. /\ V!Resting \in Refreshes /\ V!Resting.anchor = 0 /\ 0 <= today
    BY SummaryTypes
  <1>4. r \in Refreshes /\ r.anchor = 0
    BY <1>1, <1>2, <1>3, Zenon
  <1> QED BY <1>3, <1>4, RefreshMoves DEF V!Start

LEMMA SummaryInvInductive == SummaryInv /\ [V!Next]_(V!summaryVars) => SummaryInv'
  <1> SUFFICES ASSUME SummaryInv, [V!Next]_(V!summaryVars) PROVE SummaryInv'
    OBVIOUS
  <1> USE SummaryTypes
  <1> DEFINE Stays == refresh' \in [V!Jobs -> Refreshes] /\ \A k \in V!Jobs : refresh'[k].anchor <= today'
  <1>q. ASSUME worth' \in Worths, moves' \in 0..MaxChanges, today' \in 1..LastDay, inflight' \in BOOLEAN,
               stored' \in [usd : Worths \union {0}, fresh : BOOLEAN, anchorDay : 0..today', anchorUsd : Worths \union {0}],
               mem' \in [usd : Worths \union {0}, fresh : BOOLEAN], Stays
        PROVE  SummaryInv'
    BY <1>q DEF SummaryInv, V!TypeOK, Refreshes
  <1>r. ASSUME NEW usd \in Worths \union {0}, mem' = [usd |-> usd, fresh |-> TRUE]
        PROVE  mem' \in [usd : Worths \union {0}, fresh : BOOLEAN]
    BY <1>r
  <1>1. CASE V!Dashboard
    <2>1. mem' \in [usd : Worths \union {0}, fresh : BOOLEAN]
      BY <1>1, <1>r DEF V!Dashboard, V!Remember
    <2>2. Stays
      <3>1. CASE refresh' = V!Start(V!Background) /\ today' = today
        BY <3>1, RefreshStarts
      <3>2. CASE refresh' = refresh /\ today' = today
        BY <3>2
      <3> QED BY <1>1, <3>1, <3>2 DEF V!Dashboard
    <2>3. UNCHANGED <<worth, moves, today, stored>> /\ inflight' \in BOOLEAN
      BY <1>1 DEF V!Dashboard
    <2> HIDE DEF Stays
    <2> QED BY <1>q, <2>1, <2>2, <2>3
  <1>2. ASSUME NEW p \in Pages, V!WalletPage(p) PROVE SummaryInv'
    <2>1. Stays
      BY <1>2, RefreshStarts DEF V!WalletPage, V!Jobs
    <2> HIDE DEF Stays
    <2> QED BY <1>2, <1>q, <2>1 DEF V!WalletPage
  <1>3. ASSUME NEW j \in V!Jobs, NEW usd \in Worths \union {0}, V!ReadChain(j, usd) PROVE SummaryInv'
    <2> DEFINE a == IF refresh[j].anchorDay < today THEN today ELSE 0
               r == [refresh[j] EXCEPT !.pc = "store", !.usd = usd, !.anchor = a]
    <2>1. a \in 0..LastDay /\ a <= today
      OBVIOUS
    <2> HIDE DEF a
    <2>2. r \in Refreshes /\ r.anchor <= today
      BY <2>1 DEF Refreshes
    <2>3. refresh' = [refresh EXCEPT ![j] = r] /\ today' = today
      BY <1>3 DEF V!ReadChain, a
    <2>4. Stays
      BY <2>2, <2>3, RefreshMoves
    <2> HIDE DEF Stays
    <2> QED BY <1>3, <1>q, <2>4 DEF V!ReadChain
  <1>4. ASSUME NEW j \in V!Jobs, V!Store(j) PROVE SummaryInv'
    <2>1. refresh' = [refresh EXCEPT ![j] = V!Resting] /\ UNCHANGED <<worth, moves, today>> /\ inflight' \in BOOLEAN
      BY <1>4 DEF V!Store, V!Finish
    <2>2. Stays
      BY <2>1, RefreshMoves
    <2>3. refresh[j].usd \in Worths \union {0} /\ refresh[j].anchor \in 0..today
      BY DEF Refreshes
    <2>4. mem' \in [usd : Worths \union {0}, fresh : BOOLEAN]
      BY <1>4, <1>r, <2>3 DEF V!Store, V!Finish, V!Remember
    <2>5. stored' \in [usd : Worths \union {0}, fresh : BOOLEAN, anchorDay : 0..today', anchorUsd : Worths \union {0}]
      BY <1>4, <2>1, <2>3 DEF V!Store
    <2> HIDE DEF Stays
    <2> QED BY <1>q, <2>1, <2>2, <2>4, <2>5
  <1>5. ASSUME NEW j \in V!Jobs, V!Timeout(j) PROVE SummaryInv'
    <2> DEFINE r == [refresh[j] EXCEPT !.caller = FALSE]
    <2>1. refresh' = [refresh EXCEPT ![j] = r] /\ UNCHANGED <<worth, moves, today, stored>> /\ inflight' \in BOOLEAN
      BY <1>5 DEF V!Timeout
    <2>2. r \in Refreshes /\ r.anchor <= today
      BY DEF Refreshes
    <2>3. Stays
      BY <2>1, <2>2, RefreshMoves
    <2>4. mem' \in [usd : Worths \union {0}, fresh : BOOLEAN]
      BY <1>5, <1>r DEF V!Timeout, V!Remember
    <2> HIDE DEF Stays
    <2> QED BY <1>q, <2>1, <2>3, <2>4
  <1>6. CASE V!MemAges \/ V!RowAges \/ V!WorthChanges
    <2>1. Stays
      BY <1>6 DEF V!MemAges, V!RowAges, V!WorthChanges
    <2> HIDE DEF Stays
    <2>2. CASE V!MemAges
      BY <2>1, <2>2, <1>q DEF V!MemAges
    <2>3. CASE V!RowAges
      BY <2>1, <2>3, <1>q DEF V!RowAges
    <2>4. CASE V!WorthChanges
      BY <2>1, <2>4, <1>q DEF V!WorthChanges
    <2> QED BY <1>6, <2>2, <2>3, <2>4
  <1>7. CASE V!Midnight
    <2>1. today' = today + 1 /\ today' \in 1..LastDay /\ UNCHANGED <<worth, moves, stored, mem, inflight, refresh>>
      BY <1>7 DEF V!Midnight
    <2>2. Stays
      BY <2>1 DEF Refreshes
    <2>3. stored' \in [usd : Worths \union {0}, fresh : BOOLEAN, anchorDay : 0..today', anchorUsd : Worths \union {0}]
      BY <2>1
    <2> HIDE DEF Stays
    <2> QED BY <1>q, <2>1, <2>2, <2>3
  <1>8. CASE V!Restart
    <2>1. Stays
      BY <1>8 DEF V!Restart
    <2> HIDE DEF Stays
    <2> QED BY <1>8, <1>q, <2>1 DEF V!Restart, V!NoMem
  <1>9. CASE UNCHANGED V!summaryVars
    BY <1>9 DEF V!summaryVars, SummaryInv, V!TypeOK
  <1> QED BY <1>1, <1>2, <1>3, <1>4, <1>5, <1>6, <1>7, <1>8, <1>9 DEF V!Next

LEMMA InitSummaryInv == V!SummaryAssumption /\ V!Init => SummaryInv
  <1> SUFFICES ASSUME V!SummaryAssumption, V!Init PROVE SummaryInv
    OBVIOUS
  <1>1. LastDay \in Nat \ {0} /\ MaxChanges \in Nat
    BY DEF V!SummaryAssumption
  <1>2. refresh = [j \in V!Jobs |-> V!Resting] /\ V!Resting \in Refreshes /\ V!Resting.anchor = 0
    BY <1>1 DEF V!Init, V!Resting, Refreshes
  <1>3. refresh \in [V!Jobs -> Refreshes] /\ \A j \in V!Jobs : refresh[j].anchor = 0
    BY <1>2
  <1>4. /\ worth \in Worths /\ moves = 0 /\ today = 1 /\ inflight = FALSE
        /\ stored = [usd |-> 0, fresh |-> FALSE, anchorDay |-> 0, anchorUsd |-> 0]
        /\ mem = [usd |-> 0, fresh |-> FALSE]
    BY DEF V!Init, V!NoMem
  <1>5. V!TypeOK
    <2>1. stored \in [usd : Worths \union {0}, fresh : BOOLEAN, anchorDay : 0..today, anchorUsd : Worths \union {0}]
      BY <1>4
    <2>2. mem \in [usd : Worths \union {0}, fresh : BOOLEAN]
      BY <1>4
    <2>3. worth \in Worths /\ moves \in 0..MaxChanges /\ today \in 1..LastDay
      BY <1>1, <1>4
    <2>4. inflight \in BOOLEAN
      BY <1>4, Zenon
    <2> QED BY <1>3, <2>1, <2>2, <2>3, <2>4 DEF V!TypeOK, Refreshes
  <1> QED BY <1>3, <1>4, <1>5 DEF SummaryInv

\* personalWalletService.ts:180-269: for any number of page requests, days and
\* balances, the stored summary keeps its shape, and neither the row nor a
\* refresh under way anchors a day that has not begun.
THEOREM SummaryTypeCorrect == V!SummaryAssumption /\ V!Spec => []V!TypeOK
  <1>1. SummaryInv => V!TypeOK
    BY DEF SummaryInv
  <1> QED BY <1>1, InitSummaryInv, SummaryInvInductive, PTL DEF V!Spec

-----------------------------------------------------------------------------
(* OnRamp *)

Ramps == [provider : Providers \union {"none"},
          status : {"none", "created", "pending", "completed", "failed"}, tx : BOOLEAN, reason : BOOLEAN]

\* What the provider did so far.
Gone == {raw[i] : i \in DOMAIN raw}

\* The row and the provider's order follow the session: no order without a
\* widget, and no widget without a row.
SessionInv ==
    /\ step = "idle" => ramp = P!NoRamp
    /\ step = "widget" => ramp.status = "created" /\ ~ramp.reason
    /\ step # "idle" => ramp # P!NoRamp
    /\ step \in {"idle", "widget", "refused"} => raw = <<>> /\ mail = {}

\* A webhook under way tells what happened.
MailInv == \A w \in mail : w.raw \in Gone /\ w.raw # P!Opened

\* The inductive invariant.
RampInv == /\ P!OnRampAssumption /\ P!TypeOK /\ ramp \in Ramps /\ raw \in Seq(P!Raws)
           /\ SessionInv /\ MailInv /\ P!RampSaysWhatHappened

\* The statuses are all different, and what the row is told of each.
LEMMA RampStatuses ==
    /\ P!MapStatus(P!Awaiting) = "pending" /\ P!MapStatus(P!Processing) = "pending"
    /\ P!MapStatus(P!Completed) = "completed"
    /\ P!MapStatus(P!Expired) = "failed" /\ P!MapStatus(P!Refunded) = "failed"
  <1>1. P!MapStatus(P!Awaiting) = "pending"
    BY DEF P!MapStatus, P!Awaiting
  <1>2. P!MapStatus(P!Processing) = "pending"
    BY DEF P!MapStatus, P!Processing
  <1>3. P!MapStatus(P!Completed) = "completed"
    BY DEF P!MapStatus, P!Completed
  <1>4. P!MapStatus(P!Expired) = "failed"
    BY DEF P!MapStatus, P!Expired
  <1>5. P!MapStatus(P!Refunded) = "failed"
    BY DEF P!MapStatus, P!Refunded
  <1> QED BY <1>1, <1>2, <1>3, <1>4, <1>5

LEMMA RawKinds == P!Raws = {P!Opened, P!Awaiting, P!Processing, P!Completed, P!Expired, P!Refunded}
  BY DEF P!Raws

\* The types, one by one.
LEMMA RampTypes ==
    ASSUME RampInv
    PROVE  /\ MaxTokens \in Nat \ {0} /\ Providers \subseteq {"transak", "moonpay"}
           /\ step \in {"idle", "widget", "open", "refused"} /\ ramp \in Ramps /\ raw \in Seq(P!Raws)
           /\ mail \subseteq [raw : P!Raws, token : 1..MaxTokens] /\ minted \in 1..MaxTokens
           /\ token \in [Servers -> 0..MaxTokens] /\ probe \in [Servers -> {"none", "ok", "no"}] /\ orphans = 0
  BY DEF RampInv, P!OnRampAssumption, P!TypeOK, P!RampSaysWhatHappened

\* What has to be shown of a step.
LEMMA RampParts ==
    ASSUME RampInv, step' \in {"idle", "widget", "open", "refused"}, ramp' \in Ramps, raw' \in Seq(P!Raws),
           mail' \subseteq [raw : P!Raws, token : 1..MaxTokens], minted' \in 1..MaxTokens,
           token' \in [Servers -> 0..MaxTokens], probe' \in [Servers -> {"none", "ok", "no"}], orphans' = 0,
           SessionInv', MailInv',
           ramp'.status = "completed" => P!Completed \in Gone' /\ ramp'.tx,
           ramp'.status = "pending" => Gone' \intersect {P!Awaiting, P!Processing} # {},
           ramp'.reason <=> ramp'.status = "failed",
           ramp'.status = "failed" => step' = "refused" \/ Gone' \intersect {P!Expired, P!Refunded} # {}
    PROVE  RampInv'
  <1>1. P!ToSet(raw') = Gone' /\ Gone' \subseteq P!Raws
    BY DEF P!ToSet, Gone
  <1>2. P!TypeOK'
    BY <1>1 DEF P!TypeOK, Ramps
  <1>3. P!RampSaysWhatHappened'
    BY <1>1 DEF P!RampSaysWhatHappened
  <1> QED BY <1>2, <1>3 DEF RampInv, P!OnRampAssumption

\* The same of the state before it.
LEMMA RampTruth ==
    ASSUME RampInv
    PROVE  /\ ramp.status = "completed" => P!Completed \in Gone /\ ramp.tx
           /\ ramp.status = "pending" => Gone \intersect {P!Awaiting, P!Processing} # {}
           /\ ramp.reason <=> ramp.status = "failed"
           /\ ramp.status = "failed" => step = "refused" \/ Gone \intersect {P!Expired, P!Refunded} # {}
  <1>1. P!ToSet(raw) = Gone
    BY DEF P!ToSet, Gone
  <1> QED BY <1>1 DEF RampInv, P!RampSaysWhatHappened

\* A server's token, and what is minted for it.
LEMMA TokenTypes ==
    ASSUME RampInv, NEW s \in Servers, P!AccessToken(s)
    PROVE  token' \in [Servers -> 0..MaxTokens] /\ minted' \in 1..MaxTokens
  BY RampTypes DEF P!AccessToken

LEMMA CreateKeepsRamp == ASSUME RampInv, NEW p \in Providers, P!CreateSession(p) PROVE RampInv'
  <1>1. /\ step = "idle" /\ ramp' = [P!NoRamp EXCEPT !.provider = p, !.status = "created"] /\ step' = "widget"
        /\ UNCHANGED <<raw, mail, minted, token, probe, orphans>>
    BY DEF P!CreateSession
  <1>2. ramp' = [provider |-> p, status |-> "created", tx |-> FALSE, reason |-> FALSE]
    BY <1>1 DEF P!NoRamp
  <1>3. ramp' \in Ramps /\ ramp' # P!NoRamp /\ ramp'.status = "created" /\ ramp'.reason = FALSE
    BY <1>2 DEF Ramps, P!NoRamp
  <1>4. raw = <<>> /\ mail = {}
    BY <1>1 DEF RampInv, SessionInv
  <1>5. SessionInv' /\ MailInv'
    BY <1>1, <1>3, <1>4 DEF SessionInv, MailInv
  <1> QED BY <1>1, <1>3, <1>5, RampTypes, RampParts

LEMMA WidgetKeepsRamp == ASSUME RampInv, NEW s \in Servers, P!OpenWidget(s) PROVE RampInv'
  <1>1. /\ step = "widget" /\ raw = <<>> /\ mail = {} /\ ramp # P!NoRamp /\ ramp.status = "created" /\ ~ramp.reason
        /\ UNCHANGED <<mail, probe, orphans>>
    BY DEF P!OpenWidget, RampInv, SessionInv
  <1>2. token' \in [Servers -> 0..MaxTokens] /\ minted' \in 1..MaxTokens
    BY TokenTypes, RampTypes DEF P!OpenWidget
  <1>3. CASE raw' = <<P!Opened>> /\ step' = "open" /\ ramp' = ramp
    <2>1. raw' \in Seq(P!Raws)
      BY <1>3, RawKinds
    <2>2. SessionInv' /\ MailInv'
      BY <1>1, <1>3 DEF SessionInv, MailInv
    <2> QED BY <1>1, <1>2, <1>3, <2>1, <2>2, RampTypes, RampParts
  <1>4. CASE ramp' = [ramp EXCEPT !.status = "failed", !.reason = TRUE] /\ step' = "refused" /\ raw' = raw
    <2>1. ramp' \in Ramps /\ ramp'.status = "failed" /\ ramp'.reason
      BY <1>4, RampTypes DEF Ramps
    <2>2. ramp' # P!NoRamp
      BY <2>1 DEF P!NoRamp
    <2>3. SessionInv' /\ MailInv'
      BY <1>1, <1>4, <2>2 DEF SessionInv, MailInv
    <2> QED BY <1>1, <1>2, <1>4, <2>1, <2>3, RampTypes, RampParts
  <1> QED BY <1>3, <1>4 DEF P!OpenWidget

\* The tokens and the probe are no part of what the row says.
LEMMA TokensKeepRamp ==
    ASSUME RampInv, UNCHANGED <<step, ramp, raw, mail, orphans>>, minted' \in 1..MaxTokens,
           token' \in [Servers -> 0..MaxTokens], probe' \in [Servers -> {"none", "ok", "no"}]
    PROVE  RampInv'
  <1>1. SessionInv' /\ MailInv' /\ Gone' = Gone
    BY DEF RampInv, SessionInv, MailInv, Gone
  <1> QED BY <1>1, RampTypes, RampTruth, RampParts

LEMMA ServerKeepsRamp ==
    ASSUME RampInv, NEW s \in Servers, P!TokenLapses(s) \/ P!GatewayStatus(s) \/ P!ProbeExpires(s)
    PROVE  RampInv'
  <1>1. UNCHANGED <<step, ramp, raw, mail, orphans>>
    BY DEF P!TokenLapses, P!GatewayStatus, P!ProbeExpires
  <1>2. token' \in [Servers -> 0..MaxTokens] /\ minted' \in 1..MaxTokens
    BY TokenTypes, RampTypes DEF P!TokenLapses, P!GatewayStatus, P!ProbeExpires
  <1>3. probe' \in [Servers -> {"none", "ok", "no"}]
    BY RampTypes DEF P!TokenLapses, P!GatewayStatus, P!ProbeExpires
  <1> QED BY <1>1, <1>2, <1>3, TokensKeepRamp

LEMMA ProviderKeepsRamp == ASSUME RampInv, P!ProviderProceeds PROVE RampInv'
  <1>1. PICK next \in P!Follows(P!Last(raw)) :
           /\ raw # <<>> /\ raw' = Append(raw, next)
           /\ mail' = IF ramp.provider = "moonpay" THEN mail ELSE mail \union {[raw |-> next, token |-> minted]}
           /\ UNCHANGED <<step, ramp, minted, token, probe, orphans>>
    BY DEF P!ProviderProceeds
  <1>2. next \in P!Raws /\ next # P!Opened
    BY RawKinds DEF P!Follows, P!Opened, P!Awaiting, P!Processing, P!Completed, P!Expired, P!Refunded
  <1>3. raw' \in Seq(P!Raws) /\ Gone' = Gone \union {next}
    <2>1. raw \in Seq(P!Raws) /\ DOMAIN raw = 1..Len(raw) /\ Len(raw) \in Nat
      BY RampTypes
    <2>2. raw' \in Seq(P!Raws) /\ DOMAIN raw' = 1..Len(raw) + 1 /\ raw'[Len(raw) + 1] = next
      BY <1>1, <1>2, <2>1
    <2>3. \A i \in DOMAIN raw : raw'[i] = raw[i] /\ i \in DOMAIN raw'
      BY <1>1, <1>2, <2>1
    <2>4. \A i \in DOMAIN raw' : i \in DOMAIN raw \/ i = Len(raw) + 1
      BY <2>1, <2>2
    <2> QED BY <2>2, <2>3, <2>4, <2>1 DEF Gone
  <1>4. mail' \subseteq [raw : P!Raws, token : 1..MaxTokens]
    BY <1>1, <1>2, RampTypes
  <1>5. MailInv'
    BY <1>1, <1>2, <1>3 DEF RampInv, MailInv
  <1>6. step = "open"
    BY <1>1, RampTypes DEF RampInv, SessionInv
  <1>7. SessionInv'
    BY <1>1, <1>6 DEF RampInv, SessionInv
  <1> QED BY <1>1, <1>3, <1>4, <1>5, <1>7, RampTypes, RampTruth, RampParts

LEMMA ResignKeepsRamp == ASSUME RampInv, NEW w \in mail, P!ProviderSignsAgain(w) PROVE RampInv'
  <1>1. /\ mail' = (mail \ {w}) \union {[w EXCEPT !.token = minted]}
        /\ UNCHANGED <<step, ramp, raw, minted, token, probe, orphans>>
    BY DEF P!ProviderSignsAgain
  <1>2. /\ w \in [raw : P!Raws, token : 1..MaxTokens]
        /\ [w EXCEPT !.token = minted] \in [raw : P!Raws, token : 1..MaxTokens]
        /\ [w EXCEPT !.token = minted].raw = w.raw
    BY RampTypes
  <1>3. Gone' = Gone /\ SessionInv'
    BY <1>1 DEF RampInv, SessionInv, Gone
  <1>4. MailInv'
    BY <1>1, <1>2, <1>3 DEF RampInv, MailInv
  <1>5. mail' \subseteq [raw : P!Raws, token : 1..MaxTokens]
    BY <1>1, <1>2, RampTypes
  <1> QED BY <1>1, <1>3, <1>4, <1>5, RampTypes, RampTruth, RampParts

\* A webhook that is taken off, or sent again unchanged.
LEMMA MailShrinks ==
    ASSUME RampInv, mail' \subseteq mail, UNCHANGED <<step, raw>>
    PROVE  /\ mail' \subseteq [raw : P!Raws, token : 1..MaxTokens] /\ MailInv' /\ Gone' = Gone
           /\ step \in {"idle", "widget", "refused"} => raw' = <<>> /\ mail' = {}
  BY RampTypes DEF RampInv, MailInv, SessionInv, Gone

LEMMA WebhookKeepsRamp == ASSUME RampInv, NEW s \in Servers, NEW w \in mail, P!Webhook(s, w) PROVE RampInv'
  <1>1. UNCHANGED <<step, raw, probe>> /\ token' \in [Servers -> 0..MaxTokens] /\ minted' \in 1..MaxTokens
    BY TokenTypes DEF P!Webhook
  <1>2. CASE UNCHANGED <<ramp, mail, orphans>>
    BY <1>1, <1>2, RampTypes, TokensKeepRamp
  <1>3. CASE ~UNCHANGED <<ramp, mail, orphans>>
    <2>1. step = "open" /\ ramp # P!NoRamp
      BY RampTypes DEF RampInv, SessionInv
    <2>2. /\ ramp' = [ramp EXCEPT !.status = P!MapStatus(w.raw), !.tx = @ \/ w.raw = P!Completed,
                                  !.reason = P!MapStatus(w.raw) = "failed"]
          /\ orphans' = orphans /\ mail' \subseteq mail
      BY <1>3, <2>1 DEF P!Webhook
    <2>3. w.raw \in Gone /\ w.raw \in P!Raws /\ w.raw # P!Opened
      BY RampTypes DEF RampInv, MailInv
    <2>4. /\ P!MapStatus(w.raw) \in {"pending", "completed", "failed"}
          /\ P!MapStatus(w.raw) = "pending" => w.raw \in {P!Awaiting, P!Processing}
          /\ P!MapStatus(w.raw) = "completed" => w.raw = P!Completed
          /\ P!MapStatus(w.raw) = "failed" => w.raw \in {P!Expired, P!Refunded}
      BY <2>3, RawKinds, RampStatuses
    <2> DEFINE st == P!MapStatus(w.raw)  tx == ramp.tx \/ w.raw = P!Completed  reason == st = "failed"
    <2> HIDE DEF st, tx, reason
    <2>5. st \in {"pending", "completed", "failed"} /\ tx \in BOOLEAN /\ reason \in BOOLEAN
      BY <2>4, RampTypes DEF st, tx, reason, Ramps
    <2>6. ramp' = [ramp EXCEPT !.status = st, !.tx = tx, !.reason = reason]
      BY <2>2 DEF st, tx, reason
    <2>7. ramp' \in Ramps /\ ramp'.status = st /\ ramp'.tx = tx /\ ramp'.reason = reason
      BY <2>5, <2>6, RampTypes DEF Ramps
    <2>8. ramp' # P!NoRamp
      BY <2>5, <2>7 DEF P!NoRamp
    <2>9. MailInv' /\ Gone' = Gone /\ mail' \subseteq [raw : P!Raws, token : 1..MaxTokens]
      BY <1>1, <2>2, MailShrinks
    <2>10. SessionInv'
      BY <1>1, <2>1, <2>8 DEF SessionInv
    <2>11. /\ ramp'.status = "completed" => P!Completed \in Gone' /\ ramp'.tx
           /\ ramp'.status = "pending" => Gone' \intersect {P!Awaiting, P!Processing} # {}
           /\ ramp'.reason <=> ramp'.status = "failed"
           /\ ramp'.status = "failed" => Gone' \intersect {P!Expired, P!Refunded} # {}
      BY <2>3, <2>4, <2>7, <2>9 DEF st, tx, reason
    <2> QED BY <1>1, <2>2, <2>7, <2>9, <2>10, <2>11, RampTypes, RampParts
  <1> QED BY <1>2, <1>3

LEMMA SwallowKeepsRamp == ASSUME RampInv, NEW s \in Servers, NEW w \in mail, P!WebhookSwallowed(s, w) PROVE RampInv'
  <1>1. mail' = mail \ {w} /\ UNCHANGED <<step, ramp, raw, minted, token, probe, orphans>>
    BY DEF P!WebhookSwallowed
  <1>2. MailInv' /\ Gone' = Gone /\ mail' \subseteq [raw : P!Raws, token : 1..MaxTokens]
    BY <1>1, MailShrinks
  <1>3. SessionInv'
    BY <1>1 DEF RampInv, SessionInv
  <1> QED BY <1>1, <1>2, <1>3, RampTypes, RampTruth, RampParts

LEMMA RampInvInductive == RampInv /\ [P!Next]_(P!rampVars) => RampInv'
  <1> SUFFICES ASSUME RampInv, [P!Next]_(P!rampVars) PROVE RampInv'
    OBVIOUS
  <1>1. CASE UNCHANGED P!rampVars
    BY <1>1, RampTypes, TokensKeepRamp DEF P!rampVars
  <1> QED BY <1>1, CreateKeepsRamp, ProviderKeepsRamp, WidgetKeepsRamp, ServerKeepsRamp, ResignKeepsRamp,
             WebhookKeepsRamp, SwallowKeepsRamp DEF P!Next

LEMMA InitRampInv == P!OnRampAssumption /\ P!Init => RampInv
  <1> SUFFICES ASSUME P!OnRampAssumption, P!Init PROVE RampInv
    OBVIOUS
  <1>1. /\ step = "idle" /\ ramp = P!NoRamp /\ raw = <<>> /\ mail = {} /\ minted = 1 /\ orphans = 0
        /\ token = [s \in Servers |-> 0] /\ probe = [s \in Servers |-> "none"] /\ MaxTokens \in Nat \ {0}
    BY DEF P!Init, P!OnRampAssumption
  <1>2. ramp \in Ramps /\ ramp.status = "none" /\ ~ramp.reason
    BY <1>1 DEF P!NoRamp, Ramps
  <1>3. raw \in Seq(P!Raws) /\ P!ToSet(raw) = {}
    BY <1>1 DEF P!ToSet
  <1>4. P!TypeOK
    BY <1>1, <1>2, <1>3 DEF P!TypeOK
  <1>5. SessionInv /\ MailInv
    BY <1>1 DEF SessionInv, MailInv
  <1>6. P!RampSaysWhatHappened
    BY <1>1, <1>2 DEF P!RampSaysWhatHappened
  <1> QED BY <1>2, <1>3, <1>4, <1>5, <1>6 DEF RampInv

\* onramp.ts:188-208, 455-514: for any number of servers and tokens, webhooks
\* that come late, twice, out of order or signed with an older token never
\* make the row tell the user what did not happen at the provider.
THEOREM RampTellsTheTruth == P!OnRampAssumption /\ P!Spec => [](P!TypeOK /\ P!RampSaysWhatHappened)
  <1>1. RampInv => P!TypeOK /\ P!RampSaysWhatHappened
    BY DEF RampInv
  <1> QED BY <1>1, InitRampInv, RampInvInductive, PTL DEF P!Spec

-----------------------------------------------------------------------------
(* PriceFeed *)

\* A price's number, and what may be sent as a tick.
Moves == 0..MaxMoves + 1
Shown == {F!None} \union {<<s, n>> : s \in {"book", "jup"}, n \in Moves}
TickerRuns == [pc : {"idle", "prices", "wait", "depth"}, ask : Moves, jup : Moves]

\* The sources of a price keep their shape.
SourceInv ==
    /\ quote \in [{"book", "jup"} -> 1..MaxMoves + 1] /\ warm \in Moves /\ depth \in Moves
    /\ cache \in [n : Moves, age : {"fresh", "old", "gone"}]
    /\ run \in [Tickers -> TickerRuns] /\ faults \in 0..MaxFaults

\* The last tick on its way through Redis is the newest one that was sent;
\* when none is, an open page that lost nothing shows the newest one.
PageInv ==
    /\ bus \in BOOLEAN /\ online \in BOOLEAN /\ lost \in BOOLEAN
    /\ latest \in Shown /\ echo \in Seq(Shown) /\ Len(echo) <= MaxEchoes
    /\ ~bus => echo = <<>>
    /\ echo # <<>> => echo[Len(echo)] = latest
    /\ F!QuietShowsLatest

\* The inductive invariant.
FeedInv == F!FeedAssumption /\ SourceInv /\ stream \in BOOLEAN /\ PageInv

\* The stream is open or it is not.
LEMMA StreamIsAFlag ==
    ASSUME FeedInv,
           \/ stream' = stream
           \/ F!Connect \/ F!StreamCloses \/ F!Restart
    PROVE  stream' \in BOOLEAN
  <1>1. stream \in BOOLEAN
    BY DEF FeedInv
  <1>2. stream' = stream \/ stream' = TRUE \/ stream' = FALSE
    BY DEF F!Connect, F!StreamCloses, F!Restart, F!Fresh
  <1> QED BY <1>1, <1>2, Zenon

LEMMA FeedKept ==
    ASSUME FeedInv, SourceInv', stream' \in BOOLEAN, PageInv' PROVE FeedInv'
  BY Zenon DEF FeedInv, F!FeedAssumption

LEMMA FeedNumbers ==
    ASSUME FeedInv
    PROVE  /\ MaxMoves \in Nat \ {0} /\ MaxFaults \in Nat /\ MaxEchoes \in Nat \ {0}
           /\ quote.book \in 1..MaxMoves + 1 /\ quote.jup \in 1..MaxMoves + 1
           /\ quote.book \in Moves /\ quote.jup \in Moves /\ 0 \in Moves
           /\ F!Sleep \in TickerRuns
  BY DEF FeedInv, F!FeedAssumption, SourceInv, Moves, F!Sleep, TickerRuns

LEMMA TicksAreShown == \A n \in Moves : F!Book(n) \in Shown /\ F!Jup(n) \in Shown
  BY DEF F!Book, F!Jup, Shown

\* A fault that is counted.
LEMMA FaultsCounted == ASSUME FeedInv, F!Fault PROVE faults' \in 0..MaxFaults
  BY FeedNumbers DEF F!Fault, FeedInv, SourceInv

\* A tick that is sent, or held to be no news, leaves the page in order.
LEMMA PushKeepsPage ==
    ASSUME FeedInv, NEW tick \in Shown, F!Push(tick), UNCHANGED <<bus, online>>
    PROVE  PageInv'
  <1>1. PageInv /\ latest' = tick
    BY DEF FeedInv, F!Push
  <1>2. CASE tick = latest
    <2>1. UNCHANGED <<echo, view, lost, latest>>
      BY <1>2 DEF F!Push
    <2> QED BY <1>1, <2>1 DEF PageInv, F!QuietShowsLatest
  <1>3. CASE tick # latest
    <2>1. /\ view' = IF online THEN tick ELSE view
          /\ lost' = (lost /\ ~online)
          /\ IF bus THEN Len(echo) < MaxEchoes /\ echo' = Append(echo, tick) ELSE echo' = echo
      BY <1>3 DEF F!Push, F!Publish
    <2>2. lost' \in BOOLEAN /\ (online => lost' = FALSE)
      BY <2>1, <1>1 DEF PageInv
    <2>3. CASE bus
      <3>1. /\ echo' = Append(echo, tick) /\ echo \in Seq(Shown) /\ Len(echo) \in Nat /\ Len(echo) < MaxEchoes
            /\ MaxEchoes \in Nat
        BY <1>1, <2>1, <2>3, FeedNumbers DEF PageInv
      <3>2. echo' \in Seq(Shown) /\ Len(echo') = Len(echo) + 1 /\ echo'[Len(echo) + 1] = tick /\ echo' # <<>>
        BY <3>1
      <3> QED BY <1>1, <2>2, <2>3, <3>1, <3>2 DEF PageInv, F!QuietShowsLatest
    <2>4. CASE ~bus
      <3>1. echo' = echo /\ echo = <<>>
        BY <1>1, <2>1, <2>4 DEF PageInv
      <3> QED BY <1>1, <2>1, <2>2, <2>4, <3>1 DEF PageInv, F!QuietShowsLatest
    <2> QED BY <2>3, <2>4
  <1> QED BY <1>2, <1>3

\* Nothing of the page changes.
LEMMA PageRests ==
    ASSUME FeedInv, UNCHANGED <<bus, echo, online, view, lost, latest>> PROVE PageInv'
  BY DEF FeedInv, PageInv, F!QuietShowsLatest

\* A run that goes on, with numbers of prices.
LEMMA RunsGoOn ==
    ASSUME FeedInv, NEW r \in Tickers, NEW n \in TickerRuns, run' = [run EXCEPT ![r] = n]
    PROVE  run' \in [Tickers -> TickerRuns]
  BY DEF FeedInv, SourceInv

\* The end of a run.
LEMMA FinishKeepsFeed ==
    ASSUME FeedInv, NEW r \in Tickers, NEW fast \in Shown, NEW jup \in Shown, F!Finish(r, fast, jup),
           UNCHANGED <<bus, online>>
    PROVE  run' \in [Tickers -> TickerRuns] /\ PageInv'
  <1>1. run' \in [Tickers -> TickerRuns]
    BY FeedNumbers, RunsGoOn DEF F!Finish
  <1> DEFINE t == IF fast # F!None /\ fast # latest THEN fast ELSE IF jup # F!None THEN jup ELSE latest
  <1>2. t \in Shown /\ F!Push(t)
    BY DEF F!Finish, FeedInv, PageInv
  <1> HIDE DEF t
  <1> QED BY <1>1, <1>2, PushKeepsPage

\* The book of a run that has Jupiter's price.
LEMMA TakeDepthKeepsFeed ==
    ASSUME FeedInv, NEW r \in Tickers, NEW j \in Moves, F!TakeDepth(r, j), UNCHANGED <<bus, online>>
    PROVE  run' \in [Tickers -> TickerRuns] /\ PageInv'
  <1>1. CASE depth # 0
    <2>1. F!Finish(r, F!Book(depth), F!Jup(j)) /\ F!Book(depth) \in Shown /\ F!Jup(j) \in Shown
      BY <1>1, TicksAreShown DEF F!TakeDepth, FeedInv, SourceInv
    <2> QED BY <2>1, FinishKeepsFeed
  <1>2. CASE depth = 0
    <2> DEFINE n == [pc |-> "depth", ask |-> quote.book, jup |-> j]
    <2>1. n \in TickerRuns
      BY FeedNumbers DEF TickerRuns
    <2>2. run' = [run EXCEPT ![r] = n] /\ UNCHANGED <<latest, echo, view, lost>>
      BY <1>2 DEF F!TakeDepth
    <2> HIDE DEF n
    <2> QED BY <2>1, <2>2, RunsGoOn, PageRests
  <1> QED BY <1>1, <1>2

LEMMA RunKeepsFeed == ASSUME FeedInv, NEW r \in Tickers, F!Tick(r) \/ F!RunStep(r) PROVE FeedInv'
  <1>0. /\ SourceInv /\ run[r] \in TickerRuns /\ run[r].ask \in Moves /\ run[r].jup \in Moves
        /\ cache.n \in Moves /\ depth \in Moves
    BY DEF FeedInv, SourceInv, TickerRuns
  <1>1. CASE F!Tick(r)
    <2> DEFINE n == [run[r] EXCEPT !.pc = "prices"]
    <2>1. n \in TickerRuns
      BY <1>0 DEF TickerRuns
    <2>2. run' \in [Tickers -> TickerRuns]
      BY <1>1, <2>1, RunsGoOn DEF F!Tick
    <2> QED BY <1>0, <1>1, <2>2, PageRests DEF F!Tick, FeedInv, SourceInv, F!FeedAssumption
  <1>2. CASE F!UseCache(r)
    <2>1. run' \in [Tickers -> TickerRuns] /\ PageInv'
      BY <1>0, <1>2, TakeDepthKeepsFeed DEF F!UseCache
    <2> QED BY <1>0, <1>2, <2>1 DEF F!UseCache, FeedInv, SourceInv, F!FeedAssumption
  <1>3. CASE F!AskJupiter(r)
    <2> DEFINE n == [run[r] EXCEPT !.pc = "wait", !.ask = quote.jup]
    <2>1. n \in TickerRuns
      BY <1>0, FeedNumbers DEF TickerRuns
    <2>2. run' \in [Tickers -> TickerRuns]
      <3>1. run' = [run EXCEPT ![r] = n]
        BY <1>3 DEF F!AskJupiter
      <3> HIDE DEF n
      <3> QED BY <2>1, <3>1, RunsGoOn
    <2> QED BY <1>0, <1>3, <2>2, PageRests DEF F!AskJupiter, FeedInv, SourceInv, F!FeedAssumption
  <1>4. CASE F!JupiterAnswers(r)
    <2>1. cache' = [n |-> run[r].ask, age |-> "fresh"] /\ cache'.n \in Moves
      BY <1>0, <1>4 DEF F!JupiterAnswers
    <2>2. run' \in [Tickers -> TickerRuns] /\ PageInv'
      BY <1>4, <2>1, TakeDepthKeepsFeed DEF F!JupiterAnswers
    <2>3. cache' \in [n : Moves, age : {"fresh", "old", "gone"}]
      BY <1>0, <2>1
    <2> QED BY <1>0, <1>4, <2>2, <2>3 DEF F!JupiterAnswers, FeedInv, SourceInv, F!FeedAssumption
  <1>5. CASE F!JupiterFails(r)
    <2>1. F!Cached(cache) \in Moves
      BY <1>0, FeedNumbers DEF F!Cached
    <2>2. run' \in [Tickers -> TickerRuns] /\ PageInv'
      BY <1>5, <2>1, TakeDepthKeepsFeed DEF F!JupiterFails
    <2> QED BY <1>0, <1>5, <2>2 DEF F!JupiterFails, FeedInv, SourceInv, F!FeedAssumption
  <1>6. CASE F!DepthAnswers(r)
    <2>1. run' \in [Tickers -> TickerRuns] /\ PageInv'
      BY <1>0, <1>6, TicksAreShown, FinishKeepsFeed DEF F!DepthAnswers
    <2> QED BY <1>0, <1>6, <2>1 DEF F!DepthAnswers, FeedInv, SourceInv, F!FeedAssumption
  <1>7. CASE F!DepthFails(r)
    <2>1. PICK mid \in IF depth # 0 THEN {depth} ELSE 0..quote.book : F!Finish(r, F!Book(mid), F!Jup(run[r].jup))
      BY <1>7 DEF F!DepthFails
    <2>2. mid \in Moves
      BY <1>0, FeedNumbers DEF Moves
    <2>3. UNCHANGED <<quote, stream, warm, depth, cache, bus, online, faults>>
      BY <1>7 DEF F!DepthFails
    <2>4. run' \in [Tickers -> TickerRuns] /\ PageInv'
      BY <1>0, <2>1, <2>2, <2>3, TicksAreShown, FinishKeepsFeed
    <2> QED BY <1>0, <2>3, <2>4 DEF FeedInv, SourceInv, F!FeedAssumption
  <1> QED BY <1>1, <1>2, <1>3, <1>4, <1>5, <1>6, <1>7 DEF F!RunStep

LEMMA SourcesKeepFeed ==
    ASSUME FeedInv,
           \/ \E source \in DOMAIN quote : F!Move(source)
           \/ F!WarmUp \/ F!Connect \/ F!StreamCloses \/ F!DepthMessage \/ F!CacheAges
    PROVE  FeedInv'
  <1>0. SourceInv
    BY DEF FeedInv
  <1>1. UNCHANGED <<bus, echo, online, view, lost, latest, run>>
    BY DEF F!Move, F!WarmUp, F!Connect, F!StreamCloses, F!DepthMessage, F!CacheAges
  <1>2. PageInv'
    BY <1>1, PageRests
  <1>3. ASSUME NEW source \in DOMAIN quote, F!Move(source) PROVE SourceInv'
    <2>1. source \in {"book", "jup"} /\ quote' = [quote EXCEPT ![source] = quote[source] + 1]
      BY <1>0, <1>3 DEF SourceInv, F!Move
    <2>2. quote[source] + 1 \in 1..MaxMoves + 1
      BY <1>3, <2>1, FeedNumbers DEF F!Move
    <2>3. quote' \in [{"book", "jup"} -> 1..MaxMoves + 1]
      BY <1>0, <2>1, <2>2 DEF SourceInv
    <2> QED BY <1>0, <1>1, <1>3, <2>3 DEF SourceInv, F!Move
  <1>4. ASSUME F!WarmUp PROVE SourceInv'
    <2>1. warm' = 0 /\ depth' \in {warm, depth} /\ UNCHANGED <<quote, cache, faults>>
      BY <1>4, Zenon DEF F!WarmUp
    <2> QED BY <1>0, <1>1, <2>1, FeedNumbers DEF SourceInv
  <1>5. ASSUME F!Connect PROVE SourceInv'
    <2>1. UNCHANGED <<quote, warm, depth, cache, faults>>
      BY <1>5, Zenon DEF F!Connect
    <2> QED BY <1>0, <1>1, <2>1 DEF SourceInv
  <1>6. ASSUME F!StreamCloses PROVE SourceInv'
    <2>1. F!Fault /\ UNCHANGED <<quote, warm, depth, cache>>
      BY <1>6, Zenon DEF F!StreamCloses
    <2> QED BY <1>0, <1>1, <2>1, FaultsCounted DEF SourceInv
  <1>7. ASSUME F!DepthMessage PROVE SourceInv'
    <2>1. depth' = quote.book /\ UNCHANGED <<quote, warm, cache, faults>>
      BY <1>7, Zenon DEF F!DepthMessage
    <2> QED BY <1>0, <1>1, <2>1, FeedNumbers DEF SourceInv
  <1>8. ASSUME F!CacheAges PROVE SourceInv'
    <2>1. cache' \in [n : Moves, age : {"fresh", "old", "gone"}]
      BY <1>0, <1>8 DEF SourceInv, F!CacheAges
    <2> QED BY <1>0, <1>1, <1>8, <2>1 DEF SourceInv, F!CacheAges
  <1>9. SourceInv'
    BY <1>3, <1>4, <1>5, <1>6, <1>7, <1>8
  <1>10. stream' \in BOOLEAN
    BY StreamIsAFlag, Zenon DEF F!Move, F!WarmUp, F!DepthMessage, F!CacheAges
  <1> QED BY <1>2, <1>9, <1>10, FeedKept

LEMMA PageKeepsFeed ==
    ASSUME FeedInv,
           F!BookTicker \/ F!RedisConnects \/ F!Echo \/ F!EchoLost \/ F!BrowserConnects \/ F!BrowserLeaves
    PROVE  FeedInv'
  <1>0. SourceInv /\ PageInv
    BY DEF FeedInv
  <1>1. SourceInv'
    <2>1. UNCHANGED <<quote, warm, depth, cache, run>>
      BY DEF F!BookTicker, F!RedisConnects, F!Echo, F!EchoLost, F!BrowserConnects, F!BrowserLeaves
    <2>2. faults' \in 0..MaxFaults
      BY <1>0, FaultsCounted
      DEF SourceInv, F!BookTicker, F!RedisConnects, F!Echo, F!EchoLost, F!BrowserConnects, F!BrowserLeaves
    <2> QED BY <1>0, <2>1, <2>2 DEF SourceInv
  <1>9. stream' \in BOOLEAN
    BY StreamIsAFlag, Zenon DEF F!BookTicker, F!RedisConnects, F!Echo, F!EchoLost, F!BrowserConnects, F!BrowserLeaves
  <1>2. CASE F!BookTicker
    <2>1. F!Push(F!Book(quote.book)) /\ UNCHANGED <<bus, online>>
      BY <1>2, Zenon DEF F!BookTicker
    <2>2. PageInv'
      BY <2>1, FeedNumbers, TicksAreShown, PushKeepsPage
    <2> QED BY <1>1, <1>9, <2>2, FeedKept
  <1>3. ASSUME echo # <<>>, echo' = Tail(echo)
        PROVE  /\ echo' \in Seq(Shown) /\ Len(echo') <= MaxEchoes /\ bus
               /\ echo' # <<>> => echo'[Len(echo')] = latest
               /\ echo' = <<>> => echo[1] = latest
    <2>1. /\ echo \in Seq(Shown) /\ Len(echo) \in Nat /\ Len(echo) <= MaxEchoes /\ MaxEchoes \in Nat /\ bus
          /\ echo[Len(echo)] = latest
      BY <1>0, <1>3, FeedNumbers DEF PageInv
    <2>2. Len(echo) > 0
      BY <1>3, <2>1
    <2>3. /\ echo' \in Seq(Shown) /\ Len(echo') = Len(echo) - 1
          /\ \A i \in 1..Len(echo) - 1 : echo'[i] = echo[i + 1]
      BY <1>3, <2>1, <2>2
    <2>4. echo' # <<>> => Len(echo') > 0
      BY <2>3
    <2>5. echo' = <<>> => Len(echo) = 1
      BY <2>1, <2>3
    <2>6. Len(echo') > 0 => echo'[Len(echo) - 1] = echo[Len(echo)]
      BY <2>1, <2>3
    <2> QED BY <2>1, <2>3, <2>4, <2>5, <2>6
  <1>4. CASE F!RedisConnects
    <2>1. PageInv'
      BY <1>0, <1>4 DEF F!RedisConnects, PageInv, F!QuietShowsLatest
    <2> QED BY <1>1, <1>9, <2>1, FeedKept
  <1>5. CASE F!Echo
    <2>0. lost \in BOOLEAN /\ UNCHANGED <<latest, bus, online>>
      BY <1>0, <1>5, Zenon DEF F!Echo, PageInv
    <2>4. IF online THEN view' = echo[1] /\ lost' = FALSE ELSE lost' = lost
      BY <1>5 DEF F!Echo
    <2>5. lost' \in BOOLEAN
      BY <2>0, <2>4, Zenon
    <2>1. /\ UNCHANGED <<latest, bus, online>> /\ lost' \in BOOLEAN
          /\ IF online THEN view' = echo[1] ELSE lost' = lost
      BY <2>0, <2>4, <2>5, Zenon
    <2>2. echo # <<>> /\ echo' = Tail(echo)
      BY <1>5 DEF F!Echo
    <2>3. PageInv'
      BY <1>0, <1>3, <2>1, <2>2 DEF PageInv, F!QuietShowsLatest
    <2> QED BY <1>1, <1>9, <2>3, FeedKept
  <1>6. CASE F!EchoLost
    <2>1. UNCHANGED <<latest, bus, online>> /\ lost' = TRUE /\ echo # <<>> /\ echo' = Tail(echo)
      BY <1>6 DEF F!EchoLost
    <2>2. PageInv'
      BY <1>0, <1>3, <2>1 DEF PageInv, F!QuietShowsLatest
    <2> QED BY <1>1, <1>9, <2>2, FeedKept
  <1>7. CASE F!BrowserConnects
    <2>1. /\ UNCHANGED <<latest, bus, echo>> /\ online' = TRUE /\ lost' \in BOOLEAN
          /\ latest # F!None => view' = latest
      BY <1>0, <1>7 DEF F!BrowserConnects, PageInv
    <2>2. PageInv'
      BY <1>0, <2>1 DEF PageInv, F!QuietShowsLatest
    <2> QED BY <1>1, <1>9, <2>2, FeedKept
  <1>8. CASE F!BrowserLeaves
    <2>1. PageInv'
      BY <1>0, <1>8 DEF F!BrowserLeaves, PageInv, F!QuietShowsLatest
    <2> QED BY <1>1, <1>9, <2>1, FeedKept
  <1> QED BY <1>2, <1>4, <1>5, <1>6, <1>7, <1>8

LEMMA RestartKeepsFeed == ASSUME FeedInv, F!Restart PROVE FeedInv'
  <1>1. /\ quote' = quote /\ stream' = FALSE /\ warm' = quote.book /\ depth' = 0 /\ cache' = [n |-> 0, age |-> "gone"]
        /\ latest' = F!None /\ run' = [r \in Tickers |-> F!Sleep]
        /\ bus' = FALSE /\ echo' = <<>> /\ online' = FALSE /\ lost' = FALSE
    BY DEF F!Restart, F!Fresh
  <1>2. faults' \in 0..MaxFaults
    BY FaultsCounted DEF F!Restart
  <1>3. SourceInv'
    BY <1>1, <1>2, FeedNumbers DEF FeedInv, SourceInv
  <1>4. echo' \in Seq(Shown) /\ Len(echo') <= MaxEchoes /\ latest' \in Shown
    BY <1>1, FeedNumbers DEF Shown
  <1>5. PageInv'
    BY <1>1, <1>4, Zenon DEF PageInv, F!QuietShowsLatest
  <1>6. stream' \in BOOLEAN
    BY <1>1, Zenon
  <1> QED BY <1>3, <1>5, <1>6, FeedKept

LEMMA FeedInvInductive == FeedInv /\ [F!Next]_(F!feedVars) => FeedInv'
  <1> SUFFICES ASSUME FeedInv, [F!Next]_(F!feedVars) PROVE FeedInv'
    OBVIOUS
  <1>1. CASE UNCHANGED F!feedVars
    <2>1. PageInv'
      BY <1>1, PageRests DEF F!feedVars
    <2>2. SourceInv'
      BY <1>1 DEF F!feedVars, FeedInv, SourceInv
    <2>3. stream' \in BOOLEAN
      BY <1>1, StreamIsAFlag, Zenon DEF F!feedVars
    <2> QED BY <2>1, <2>2, <2>3, FeedKept
  <1> QED BY <1>1, RunKeepsFeed, SourcesKeepFeed, PageKeepsFeed, RestartKeepsFeed DEF F!Next

LEMMA InitFeedInv == F!FeedAssumption /\ F!Init => FeedInv
  <1> SUFFICES ASSUME F!FeedAssumption, F!Init PROVE FeedInv
    OBVIOUS
  <1>1. MaxMoves \in Nat \ {0} /\ MaxFaults \in Nat /\ MaxEchoes \in Nat \ {0}
    BY DEF F!FeedAssumption
  <1>2. F!Sleep \in TickerRuns /\ 0 \in Moves /\ 1 \in Moves
    BY <1>1 DEF F!Sleep, TickerRuns, Moves
  <1>3. quote \in [{"book", "jup"} -> 1..MaxMoves + 1]
    BY <1>1 DEF F!Init
  <1>4. SourceInv
    BY <1>1, <1>2, <1>3 DEF F!Init, SourceInv
  <1>5. /\ latest = F!None /\ echo = <<>> /\ stream = FALSE /\ bus = FALSE /\ online = FALSE /\ lost = FALSE
    BY Zenon DEF F!Init
  <1>6. echo \in Seq(Shown) /\ Len(echo) <= MaxEchoes /\ latest \in Shown
    BY <1>1, <1>5 DEF Shown
  <1>7. PageInv
    BY <1>5, <1>6, Zenon DEF PageInv, F!QuietShowsLatest
  <1> QED BY <1>4, <1>5, <1>7, Zenon DEF FeedInv

LEMMA FeedInvTypes == FeedInv => F!TypeOK
  BY DEF FeedInv, SourceInv, PageInv, F!TypeOK, Moves, TickerRuns

\* pubsub.ts:64-80, socketServer.ts:228-250: for any number of runs, moves and
\* ticks under way, an open page that lost nothing shows the newest tick that
\* was sent once no older one is on its way.
THEOREM QuietPageShowsLatest == F!FeedAssumption /\ F!Spec => [](F!TypeOK /\ F!QuietShowsLatest)
  <1>1. FeedInv => F!TypeOK /\ F!QuietShowsLatest
    BY FeedInvTypes DEF FeedInv, PageInv
  <1> QED BY <1>1, InitFeedInv, FeedInvInductive, PTL DEF F!Spec

-----------------------------------------------------------------------------
(* SelfCustody *)

Builds == [o : Y!Orders, st : {"made", "landed", "failed"}]
BookRows == [alloc : Nat, banked : Nat, sol : BOOLEAN, cost : Nat, open : BOOLEAN]
Readings == [alloc : Nat, banked : Nat, sol : BOOLEAN]
Submissions == [pc : {"idle", "execute", "book", "write"}, n : Nat, row : Nat, read : Readings]

\* A submission is of a swap that was built; once it is to be booked the swap
\* has landed and was forgotten, and the row it is to write holds its cost.
SubmitKnows(s) ==
    /\ sub[s].n \in 0..Len(swaps) /\ sub[s].row \in 0..Len(book)
    /\ sub[s].pc # "idle" => sub[s].n # 0
    /\ sub[s].pc \in {"book", "write"} => swaps[sub[s].n].st = "landed" /\ sub[s].n \notin known
    /\ sub[s].pc = "write" =>
          /\ sub[s].row # 0
          /\ book[sub[s].row].cost > 0 => sub[s].read.alloc + sub[s].read.banked = book[sub[s].row].cost

CustodyShape ==
    /\ wallet \in [usdc : Nat, sol : Nat, tok : Nat]
    /\ swaps \in Seq(Builds) /\ known \subseteq 1..Len(swaps)
    /\ booked \in Seq(Nat) /\ Len(booked) = Len(swaps)
    /\ book \in Seq(BookRows) /\ sub \in [Submits -> Submissions] /\ slips \in 0..MaxSlips

\* A swap is booked at most once by each submission that holds it, for good
\* once it is forgotten; while nothing overlaps, by one.
Holds(n) == {s \in Submits : sub[s].pc # "idle" /\ sub[s].n = n}
BookedRight ==
    /\ \A n \in 1..Len(swaps) : booked[n] > 0 => swaps[n].st = "landed" /\ n \notin known
    /\ \A n \in 1..Len(swaps) : booked[n] + Cardinality(Holds(n)) <= Cardinality(Submits)
    /\ tangled = FALSE =>
          /\ \A s, t \in Submits : sub[s].pc # "idle" /\ sub[t].pc # "idle" => s = t
          /\ \A n \in 1..Len(swaps) : booked[n] <= 1 /\ (booked[n] = 1 => Holds(n) = {})
    /\ slips = 0 => \A n \in 1..Len(swaps) : swaps[n].st = "landed" =>
          booked[n] > 0 \/ \E s \in Submits : sub[s].pc \in {"book", "write"} /\ sub[s].n = n

\* The inductive invariant.
CustodyInv ==
    /\ Y!SelfCustodyAssumption /\ IsFiniteSet(Submits) /\ tangled \in BOOLEAN
    /\ CustodyShape /\ (\A s \in Submits : SubmitKnows(s)) /\ Y!CostIsBankedOnce /\ BookedRight

-----------------------------------------------------------------------------
LEMMA CustodyNumbers ==
    ASSUME CustodyInv
    PROVE  /\ Amounts \subseteq Nat \ {0} /\ Funds \in Nat /\ SolUsd \in Nat \ {0} /\ MaxBuilds \in Nat /\ MaxSlips \in Nat
           /\ IsFiniteSet(Submits) /\ Cardinality(Submits) \in Nat
           /\ \A o \in Y!Orders : o.side \in {"BUY", "SELL"} /\ o.pay \in {"usdc", "sol"} /\ o.amount \in Nat \ {0}
           /\ Y!Idle \in Submissions
           /\ Len(swaps) \in Nat /\ Len(book) \in Nat
           /\ DOMAIN swaps = 1..Len(swaps) /\ DOMAIN book = 1..Len(book) /\ DOMAIN booked = 1..Len(swaps)
  <1>1. /\ Amounts \subseteq Nat \ {0} /\ Funds \in Nat /\ SolUsd \in Nat \ {0} /\ MaxBuilds \in Nat /\ MaxSlips \in Nat
        /\ IsFiniteSet(Submits)
    BY DEF CustodyInv, Y!SelfCustodyAssumption
  <1>2. Cardinality(Submits) \in Nat
    BY <1>1, FS_CardinalityType
  <1>3. \A o \in Y!Orders : o.side \in {"BUY", "SELL"} /\ o.pay \in {"usdc", "sol"} /\ o.amount \in Nat \ {0}
    BY <1>1 DEF Y!Orders
  <1>4. Y!Idle \in Submissions
    BY DEF Y!Idle, Submissions, Readings
  <1>5. /\ Len(swaps) \in Nat /\ Len(book) \in Nat
        /\ DOMAIN swaps = 1..Len(swaps) /\ DOMAIN book = 1..Len(book) /\ DOMAIN booked = 1..Len(swaps)
    BY DEF CustodyInv, CustodyShape
  <1> QED BY <1>1, <1>2, <1>3, <1>4, <1>5

\* What a sale closes of a lot is a part of it.
LEMMA PartIsLess ==
    ASSUME NEW a \in Nat, NEW q \in Nat, NEW part \in Nat, part * 100 < q * 95
    PROVE  (a * part) \div q \in 0..a
  <1>1. q \in Nat \ {0} /\ q - part \in Nat
    OBVIOUS
  <1>2. a * (q - part) \in Nat /\ a * part \in Nat /\ a * q \in Nat
    BY <1>1
  <1>3. a * (q - part) = a * q - a * part
    BY <1>1
  <1>4. a * part <= a * q
    BY <1>2, <1>3
  <1> DEFINE d == (a * part) \div q
  <1>5. d \in Nat /\ d * q <= a * part
    BY <1>1, <1>2
  <1>6. ASSUME d > a PROVE FALSE
    <2>1. d - a - 1 \in Nat
      BY <1>5, <1>6
    <2>2. (d - a - 1) * q \in Nat /\ (d - a - 1) * q = d * q - a * q - q
      BY <1>1, <1>5, <2>1
    <2>3. d * q \in Nat
      BY <1>1, <1>5
    <2> HIDE DEF d
    <2> QED BY <1>1, <1>2, <1>4, <1>5, <2>2, <2>3
  <1> QED BY <1>5, <1>6

LEMMA LotCloses ==
    ASSUME NEW lot \in Readings, NEW part \in Nat, SolUsd \in Nat \ {0}
    PROVE  /\ Y!ClosedAlloc(lot, part) \in 0..lot.alloc
           /\ Y!StillOpen(lot, part) => lot.alloc - Y!ClosedAlloc(lot, part) \in Nat
           /\ ~Y!StillOpen(lot, part) => lot.alloc - Y!ClosedAlloc(lot, part) \in 0..1
           /\ Y!StillOpen(lot, part) \in BOOLEAN
  <1>1. lot.alloc \in Nat
    BY DEF Readings
  <1>2. Y!BookedQty(lot) \in Nat
    <2> DEFINE k == IF lot.sol THEN SolUsd ELSE 1
    <2>1. k \in Nat
      OBVIOUS
    <2> HIDE DEF k
    <2>2. lot.alloc * k \in Nat
      BY <1>1, <2>1
    <2> QED BY <2>2 DEF Y!BookedQty, k
  <1>3. Y!IsPartial(lot, part) => (lot.alloc * part) \div Y!BookedQty(lot) \in 0..lot.alloc
    BY <1>1, <1>2, PartIsLess DEF Y!IsPartial
  <1>4. Y!ClosedAlloc(lot, part) \in 0..lot.alloc /\ (~Y!IsPartial(lot, part) => Y!ClosedAlloc(lot, part) = lot.alloc)
    BY <1>1, <1>3 DEF Y!ClosedAlloc
  <1> DEFINE c == Y!ClosedAlloc(lot, part)
  <1>5. Y!StillOpen(lot, part) <=> Y!IsPartial(lot, part) /\ lot.alloc - c > 1
    BY DEF Y!StillOpen
  <1>6. Y!StillOpen(lot, part) \in BOOLEAN
    BY DEF Y!StillOpen, Y!IsPartial
  <1> HIDE DEF c
  <1>7. c \in 0..lot.alloc /\ (~Y!IsPartial(lot, part) => c = lot.alloc)
    BY <1>4 DEF c
  <1>8. (Y!StillOpen(lot, part) => lot.alloc - c \in Nat) /\ (~Y!StillOpen(lot, part) => lot.alloc - c \in 0..1)
    BY <1>1, <1>5, <1>7
  <1> QED BY <1>4, <1>6, <1>8 DEF c

\* The oldest open row is one.
LEMMA OldestIsOpen ==
    ASSUME CustodyInv, Y!OpenRows # {}
    PROVE  Y!Min(Y!OpenRows) \in Y!OpenRows
  <1>1. Y!OpenRows \subseteq Nat
    BY CustodyNumbers DEF Y!OpenRows
  <1>2. PICK r \in Y!OpenRows : \A q \in Y!OpenRows : ~(<<q, r>> \in OpToRel(<, Nat))
    BY <1>1, NatLessThanWellFounded, WFMin, Zenon
  <1>3. ASSUME NEW q \in Y!OpenRows PROVE r <= q
    <2>1. CASE q < r
      <3>1. <<q, r>> \in OpToRel(<, Nat)
        BY <1>1, <2>1 DEF OpToRel
      <3> QED BY <1>2, <3>1
    <2> QED BY <1>1, <2>1
  <1> QED BY <1>3 DEF Y!Min

-----------------------------------------------------------------------------
(* Who holds a swap *)

\* How often a swap was booked is a number.
LEMMA BookingsCounted == ASSUME CustodyInv, NEW n \in 1..Len(swaps) PROVE booked[n] \in Nat
  <1>1. booked \in Seq(Nat) /\ n \in 1..Len(booked)
    BY DEF CustodyInv, CustodyShape
  <1> QED BY <1>1

\* The submissions of a swap are counted.
LEMMA HoldersCounted ==
    ASSUME CustodyInv, NEW n
    PROVE  /\ IsFiniteSet(Holds(n)) /\ Cardinality(Holds(n)) \in Nat
           /\ Cardinality(Holds(n)) <= Cardinality(Submits)
  BY CustodyNumbers, FS_Subset, FS_CardinalityType DEF Holds

\* A submission that ends lets go of its swap, and takes hold of no other.
LEMMA EndLetsGo ==
    ASSUME CustodyInv, NEW s \in Submits, sub' = [sub EXCEPT ![s] = Y!Idle]
    PROVE  /\ sub' \in [Submits -> Submissions]
           /\ \A t \in Submits : sub'[t] = IF t = s THEN Y!Idle ELSE sub[t]
           /\ \A n : Holds(n)' = Holds(n) \ {s}
           /\ \A n : Cardinality(Holds(n)') \in Nat /\ Cardinality(Holds(n)') <= Cardinality(Holds(n))
           /\ \A n : sub[s].pc # "idle" /\ n = sub[s].n => Cardinality(Holds(n)') = Cardinality(Holds(n)) - 1
  <1>1. sub \in [Submits -> Submissions]
    BY DEF CustodyInv, CustodyShape
  <1>2. sub' \in [Submits -> Submissions] /\ \A t \in Submits : sub'[t] = IF t = s THEN Y!Idle ELSE sub[t]
    BY <1>1, CustodyNumbers
  <1>3. ASSUME NEW n PROVE Holds(n)' = Holds(n) \ {s}
    BY <1>2 DEF Holds, Y!Idle
  <1>4. ASSUME NEW n PROVE Cardinality(Holds(n)') \in Nat /\ Cardinality(Holds(n)') <= Cardinality(Holds(n))
    <2>1. IsFiniteSet(Holds(n)) /\ Holds(n)' \in SUBSET Holds(n)
      BY <1>3, HoldersCounted
    <2> HIDE DEF Holds
    <2> QED BY <2>1, FS_Subset, FS_CardinalityType
  <1>5. ASSUME NEW n, sub[s].pc # "idle", n = sub[s].n PROVE Cardinality(Holds(n)') = Cardinality(Holds(n)) - 1
    <2>1. s \in Holds(n) /\ IsFiniteSet(Holds(n)) /\ Cardinality(Holds(n)) \in Nat
      BY <1>5, HoldersCounted DEF Holds
    <2> HIDE DEF Holds
    <2> QED BY <1>3, <2>1, FS_RemoveElement
  <1> QED BY <1>2, <1>3, <1>4, <1>5

\* A submission that goes on with its swap still holds it.
LEMMA OthersHold ==
    ASSUME CustodyInv, NEW s \in Submits, NEW q \in Submissions, sub' = [sub EXCEPT ![s] = q],
           q.n = sub[s].n, q.pc # "idle", sub[s].pc # "idle"
    PROVE  /\ sub' \in [Submits -> Submissions]
           /\ \A t \in Submits : sub'[t] = IF t = s THEN q ELSE sub[t]
           /\ \A n : Holds(n)' = Holds(n)
  BY DEF CustodyInv, CustodyShape, Holds

-----------------------------------------------------------------------------
(* The steps of a swap *)

\* Where nothing is booked and no swap is taken hold of, what was booked stays
\* right, as long as a swap that lands is about to be booked or a fault is counted.
LEMMA BookedStays ==
    ASSUME CustodyInv, booked' = booked, Len(swaps') = Len(swaps), known' \subseteq known,
           sub' \in [Submits -> Submissions],
           \A t \in Submits : sub'[t].pc # "idle" => sub[t].pc # "idle" /\ sub'[t].n = sub[t].n,
           \A n \in 1..Len(swaps) : swaps[n].st = "landed" => swaps'[n].st = "landed",
           tangled' = tangled \/ tangled' = TRUE,
           slips' = 0 =>
              /\ slips = 0
              /\ \A n \in 1..Len(swaps) : swaps'[n].st = "landed" =>
                    \/ swaps[n].st = "landed"
                    \/ \E s \in Submits : sub'[s].pc \in {"book", "write"} /\ sub'[s].n = n
              /\ \A t \in Submits : sub[t].pc \in {"book", "write"} =>
                    sub'[t].pc \in {"book", "write"} /\ sub'[t].n = sub[t].n
    PROVE  BookedRight'
  <1>0. BookedRight /\ Len(swaps) \in Nat
    BY CustodyNumbers DEF CustodyInv
  <1>1. ASSUME NEW n PROVE Holds(n)' \in SUBSET Holds(n)
    BY DEF Holds
  <1>2. \A n \in 1..Len(swaps) : booked'[n] > 0 => swaps'[n].st = "landed" /\ n \notin known'
    BY <1>0 DEF BookedRight
  <1>3. ASSUME NEW n \in 1..Len(swaps) PROVE booked[n] + Cardinality(Holds(n)') <= Cardinality(Submits)
    <2>1. Cardinality(Holds(n)') \in Nat /\ Cardinality(Holds(n)') <= Cardinality(Holds(n))
      <3>1. IsFiniteSet(Holds(n)) /\ Holds(n)' \in SUBSET Holds(n)
        BY <1>1, HoldersCounted
      <3> HIDE DEF Holds
      <3> QED BY <3>1, FS_Subset, FS_CardinalityType
    <2>2. booked[n] \in Nat /\ Cardinality(Holds(n)) \in Nat /\ Cardinality(Submits) \in Nat
      <3>1. booked[n] \in Nat
        BY BookingsCounted
      <3> QED BY <3>1, HoldersCounted, CustodyNumbers
    <2>3. booked[n] + Cardinality(Holds(n)) <= Cardinality(Submits)
      BY <1>0 DEF BookedRight
    <2> QED BY <2>1, <2>2, <2>3
  <1>4. ASSUME tangled' = FALSE
        PROVE  /\ \A s, t \in Submits : sub'[s].pc # "idle" /\ sub'[t].pc # "idle" => s = t
               /\ \A n \in 1..Len(swaps) : booked[n] <= 1 /\ (booked[n] = 1 => Holds(n)' = {})
    <2>1. tangled = FALSE
      BY <1>4
    <2>2. \A s, t \in Submits : sub'[s].pc # "idle" /\ sub'[t].pc # "idle" => s = t
      BY <1>0, <2>1 DEF BookedRight
    <2>3. ASSUME NEW n \in 1..Len(swaps) PROVE booked[n] <= 1 /\ (booked[n] = 1 => Holds(n)' = {})
      BY <1>0, <1>1, <2>1 DEF BookedRight
    <2> QED BY <2>2, <2>3
  <1>5. ASSUME slips' = 0, NEW n \in 1..Len(swaps), swaps'[n].st = "landed"
        PROVE  booked[n] > 0 \/ \E s \in Submits : sub'[s].pc \in {"book", "write"} /\ sub'[s].n = n
    BY <1>0, <1>5 DEF BookedRight
  <1> QED BY <1>2, <1>3, <1>4, <1>5 DEF BookedRight

\* A swap is booked by a submission that then ends.
LEMMA BookingKeeps ==
    ASSUME CustodyInv, NEW s \in Submits, sub[s].pc \in {"book", "write"},
           sub' = [sub EXCEPT ![s] = Y!Idle], booked' = [booked EXCEPT ![sub[s].n] = booked[sub[s].n] + 1],
           UNCHANGED <<wallet, swaps, known, slips>>, tangled' = tangled \/ tangled' = TRUE,
           book' \in Seq(BookRows), Len(book) <= Len(book'),
           \A r \in 1..Len(book) : book'[r].cost = book[r].cost, Y!CostIsBankedOnce'
    PROVE  CustodyInv'
  <1> PICK m : m = sub[s].n
    OBVIOUS
  <1>0. /\ CustodyShape /\ SubmitKnows(s) /\ BookedRight /\ sub[s] \in Submissions /\ Len(swaps) \in Nat
        /\ Len(book) \in Nat /\ Len(book') \in Nat
    <2>1. CustodyShape /\ SubmitKnows(s) /\ BookedRight
      BY DEF CustodyInv
    <2>2. sub[s] \in Submissions /\ swaps \in Seq(Builds) /\ book \in Seq(BookRows)
      BY <2>1 DEF CustodyShape
    <2>3. Len(swaps) \in Nat /\ Len(book) \in Nat /\ Len(book') \in Nat
      BY <2>2
    <2> QED BY <2>1, <2>2, <2>3
  <1>1. /\ sub' \in [Submits -> Submissions]
        /\ \A t \in Submits : sub'[t] = IF t = s THEN Y!Idle ELSE sub[t]
        /\ \A n : Holds(n)' = Holds(n) \ {s}
        /\ \A n : Cardinality(Holds(n)') \in Nat /\ Cardinality(Holds(n)') <= Cardinality(Holds(n))
        /\ Cardinality(Holds(m)') = Cardinality(Holds(m)) - 1
    BY EndLetsGo
  <1>2. m \in 1..Len(swaps) /\ swaps[m].st = "landed" /\ m \notin known /\ s \in Holds(m)
    BY <1>0 DEF SubmitKnows, Submissions, Holds
  <1>3. /\ booked' \in Seq(Nat) /\ Len(booked') = Len(swaps)
        /\ \A n \in 1..Len(swaps) : booked[n] \in Nat /\ booked'[n] = IF n = m THEN booked[n] + 1 ELSE booked[n]
    <2>1. booked \in Seq(Nat) /\ Len(booked) = Len(swaps) /\ m \in 1..Len(booked) /\ booked' = [booked EXCEPT ![m] = booked[m] + 1]
      BY <1>0, <1>2 DEF CustodyShape
    <2>2. booked[m] + 1 \in Nat
      BY <2>1
    <2> QED BY <2>1, <2>2
  <1>4. CustodyShape'
    BY <1>0, <1>1, <1>3 DEF CustodyShape
  <1>5. ASSUME NEW t \in Submits PROVE SubmitKnows(t)'
    <2>1. CASE t = s
      BY <1>0, <1>1, <2>1 DEF SubmitKnows, Y!Idle
    <2>2. CASE t # s
      <3>1. SubmitKnows(t) /\ sub'[t] = sub[t] /\ sub[t].row \in 0..Len(book')
        BY <1>0, <1>1, <2>2 DEF CustodyInv, SubmitKnows
      <3>2. sub[t].row # 0 => book'[sub[t].row].cost = book[sub[t].row].cost
        <4>1. sub[t].row # 0 => sub[t].row \in 1..Len(book)
          BY <1>0, <3>1 DEF SubmitKnows
        <4> QED BY <4>1
      <3>3. sub[t].pc = "write" =>
                /\ sub[t].row # 0
                /\ book'[sub[t].row].cost > 0 =>
                      sub[t].read.alloc + sub[t].read.banked = book'[sub[t].row].cost
        BY <3>1, <3>2 DEF SubmitKnows
      <3>4. /\ sub[t].n \in 0..Len(swaps) /\ (sub[t].pc # "idle" => sub[t].n # 0)
            /\ sub[t].pc \in {"book", "write"} => swaps[sub[t].n].st = "landed" /\ sub[t].n \notin known
        BY <3>1 DEF SubmitKnows
      <3> QED BY <3>1, <3>3, <3>4 DEF SubmitKnows
    <2> QED BY <2>1, <2>2
  <1>6. \A n \in 1..Len(swaps) : booked'[n] > 0 => swaps[n].st = "landed" /\ n \notin known
    <2>1. \A n \in 1..Len(swaps) : booked[n] > 0 => swaps[n].st = "landed" /\ n \notin known
      BY <1>0 DEF BookedRight
    <2> QED BY <1>2, <1>3, <2>1
  <1>7. ASSUME NEW n \in 1..Len(swaps) PROVE booked'[n] + Cardinality(Holds(n)') <= Cardinality(Submits)
    <2>1. /\ booked[n] \in Nat /\ Cardinality(Holds(n)) \in Nat /\ Cardinality(Submits) \in Nat
          /\ booked[n] + Cardinality(Holds(n)) <= Cardinality(Submits)
      BY <1>0, <1>3, HoldersCounted, CustodyNumbers DEF BookedRight
    <2>2. CASE n = m
      BY <1>1, <1>3, <2>1, <2>2
    <2>3. CASE n # m
      BY <1>1, <1>3, <2>1, <2>3
    <2> QED BY <2>2, <2>3
  <1>8. ASSUME tangled' = FALSE
        PROVE  /\ \A u, t \in Submits : sub'[u].pc # "idle" /\ sub'[t].pc # "idle" => u = t
               /\ \A n \in 1..Len(swaps) : booked'[n] <= 1 /\ (booked'[n] = 1 => Holds(n)' = {})
    <2>1. tangled = FALSE
      BY <1>8
    <2>2. \A u \in Submits : sub[u].pc # "idle" => u = s
      BY <1>0, <2>1 DEF BookedRight
    <2>3. \A u \in Submits : sub'[u].pc = "idle"
      BY <1>1, <2>2 DEF Y!Idle
    <2>4. ASSUME NEW n \in 1..Len(swaps) PROVE booked'[n] <= 1 /\ (booked'[n] = 1 => Holds(n)' = {})
      <3>1. booked[n] <= 1 /\ (booked[n] = 1 => Holds(n) = {}) /\ booked[n] \in Nat
        BY <1>0, <1>3, <2>1 DEF BookedRight
      <3>2. Holds(n)' = {}
        BY <2>3 DEF Holds
      <3> QED BY <1>2, <1>3, <3>1, <3>2
    <2> QED BY <2>3, <2>4
  <1>9. ASSUME slips = 0, NEW n \in 1..Len(swaps), swaps[n].st = "landed"
        PROVE  booked'[n] > 0 \/ \E u \in Submits : sub'[u].pc \in {"book", "write"} /\ sub'[u].n = n
    <2>1. CASE n = m
      BY <1>3, <2>1
    <2>2. CASE n # m
      <3>1. booked[n] > 0 \/ \E u \in Submits : sub[u].pc \in {"book", "write"} /\ sub[u].n = n
        BY <1>0, <1>9 DEF BookedRight
      <3>2. ASSUME NEW u \in Submits, sub[u].pc \in {"book", "write"}, sub[u].n = n PROVE sub'[u] = sub[u]
        BY <1>1, <2>2, <3>2
      <3> QED BY <1>3, <2>2, <3>1, <3>2
    <2> QED BY <2>1, <2>2
  <1>10. BookedRight'
    BY <1>6, <1>7, <1>8, <1>9 DEF BookedRight
  <1>11. tangled' \in BOOLEAN
    <2>1. tangled \in BOOLEAN
      BY DEF CustodyInv
    <2> QED BY <2>1, Zenon
  <1> QED BY <1>4, <1>5, <1>10, <1>11 DEF CustodyInv, Y!SelfCustodyAssumption

-----------------------------------------------------------------------------
(* One lemma per action *)

\* A fault that is counted.
LEMMA SlipsCounted == ASSUME CustodyInv, Y!Fault PROVE slips' \in 0..MaxSlips /\ slips' # 0
  BY CustodyNumbers DEF Y!Fault, CustodyInv, CustodyShape

LEMMA BuildKeepsCustody == ASSUME CustodyInv, NEW o \in Y!Orders, Y!Build(o) PROVE CustodyInv'
  <1> DEFINE k == Len(swaps) + 1
             b == [o |-> o, st |-> "made"]
  <1>0. /\ CustodyShape /\ BookedRight /\ Len(swaps) \in Nat /\ b \in Builds
        /\ swaps' = Append(swaps, b) /\ known' = known \union {k} /\ booked' = Append(booked, 0)
        /\ UNCHANGED <<wallet, sub, book, tangled, slips>>
    BY CustodyNumbers DEF CustodyInv, Y!Build, Builds
  <1> HIDE DEF b
  <1>1. /\ swaps' \in Seq(Builds) /\ Len(swaps') = k /\ swaps'[k] = b
        /\ \A n \in 1..Len(swaps) : swaps'[n] = swaps[n]
    BY <1>0 DEF CustodyShape
  <1>2. /\ booked' \in Seq(Nat) /\ Len(booked') = k /\ booked'[k] = 0
        /\ \A n \in 1..Len(swaps) : booked'[n] = booked[n]
    BY <1>0 DEF CustodyShape
  <1>3. CustodyShape'
    <2>1. known' \subseteq 1..k
      <3>1. known' = known \union {k} /\ known \subseteq 1..Len(swaps) /\ Len(swaps) \in Nat
        BY <1>0 DEF CustodyShape
      <3>2. k \in 1..k /\ \A j \in 1..Len(swaps) : j \in 1..k
        BY <3>1
      <3> HIDE DEF k
      <3> QED BY <3>1, <3>2
    <2>2. UNCHANGED <<wallet, sub, book, slips>>
      BY <1>0
    <2> HIDE DEF k
    <2> QED BY <1>0, <1>1, <1>2, <2>1, <2>2 DEF CustodyShape
  <1>4. ASSUME NEW s \in Submits
        PROVE  SubmitKnows(s)' /\ (sub[s].pc # "idle" => sub[s].n \in 1..Len(swaps))
    <2>1. SubmitKnows(s)
      BY DEF CustodyInv
    <2> QED BY <1>0, <1>1, <2>1 DEF SubmitKnows
  <1>5. \A n : Holds(n)' = Holds(n)
    BY <1>0 DEF Holds
  <1>6. Holds(k) = {}
    BY <1>0, <1>4 DEF Holds
  <1>7. Cardinality(Holds(k)) = 0 /\ Cardinality(Submits) \in Nat
    BY <1>6, FS_EmptySet, CustodyNumbers
  <1>8. \A n \in 1..k : n \in 1..Len(swaps) \/ n = k
    BY <1>0
  <1>9. BookedRight'
    <2>1. \A n \in 1..k : booked'[n] > 0 => swaps'[n].st = "landed" /\ n \notin known'
      BY <1>0, <1>1, <1>2, <1>8 DEF BookedRight
    <2>2. \A n \in 1..k : booked'[n] + Cardinality(Holds(n)') <= Cardinality(Submits)
      BY <1>0, <1>2, <1>5, <1>7, <1>8 DEF BookedRight
    <2>3. tangled' = FALSE =>
            /\ \A s, t \in Submits : sub'[s].pc # "idle" /\ sub'[t].pc # "idle" => s = t
            /\ \A n \in 1..k : booked'[n] <= 1 /\ (booked'[n] = 1 => Holds(n)' = {})
      BY <1>0, <1>2, <1>5, <1>8 DEF BookedRight
    <2>4. slips' = 0 => \A n \in 1..k : swaps'[n].st = "landed" =>
            booked'[n] > 0 \/ \E s \in Submits : sub'[s].pc \in {"book", "write"} /\ sub'[s].n = n
      BY <1>0, <1>1, <1>2, <1>8 DEF BookedRight, b
    <2> QED BY <1>1, <2>1, <2>2, <2>3, <2>4 DEF BookedRight
  <1>10. tangled' \in BOOLEAN
    BY <1>0, Zenon DEF CustodyInv
  <1>11. Y!CostIsBankedOnce'
    BY <1>0 DEF CustodyInv, Y!CostIsBankedOnce
  <1> QED BY <1>3, <1>4, <1>9, <1>10, <1>11 DEF CustodyInv, Y!SelfCustodyAssumption

\* What forgets builds only, or ends a submission, too.
LEMMA RestKeepsCustody ==
    ASSUME CustodyInv,
           \/ \E n \in DOMAIN swaps : Y!BuildExpires(n)
           \/ Y!Restart
           \/ UNCHANGED Y!custodyVars
    PROVE  CustodyInv'
  <1>0. CustodyShape /\ BookedRight /\ Len(swaps) \in Nat /\ Len(book) \in Nat /\ Y!CostIsBankedOnce
    BY CustodyNumbers DEF CustodyInv
  <1>1. UNCHANGED <<wallet, swaps, book, booked, tangled>> /\ known' \subseteq known
    BY DEF Y!BuildExpires, Y!Restart, Y!custodyVars
  <1>2. \/ UNCHANGED <<sub, slips>>
        \/ sub' = [s \in Submits |-> Y!Idle] /\ slips' \in 0..MaxSlips /\ slips' # 0
    BY SlipsCounted DEF Y!BuildExpires, Y!Restart, Y!custodyVars
  <1>3. sub' \in [Submits -> Submissions] /\ \A s \in Submits : sub'[s] = sub[s] \/ sub'[s] = Y!Idle
    BY <1>0, <1>2, CustodyNumbers DEF CustodyShape
  <1>4. CustodyShape'
    BY <1>0, <1>1, <1>2, <1>3 DEF CustodyShape
  <1>5. ASSUME NEW s \in Submits PROVE SubmitKnows(s)'
    <2>1. SubmitKnows(s)
      BY DEF CustodyInv
    <2>2. CASE sub'[s] = sub[s]
      BY <1>1, <2>1, <2>2 DEF SubmitKnows
    <2>3. CASE sub'[s] = Y!Idle
      BY <1>0, <1>1, <2>3 DEF SubmitKnows, Y!Idle
    <2> QED BY <1>3, <2>2, <2>3
  <1>6. \A s \in Submits : sub'[s].pc # "idle" => sub[s].pc # "idle" /\ sub'[s].n = sub[s].n
    BY <1>3 DEF Y!Idle
  <1>7. BookedRight'
    BY <1>1, <1>2, <1>3, <1>6, BookedStays
  <1>8. tangled' \in BOOLEAN
    BY <1>1, Zenon DEF CustodyInv
  <1>9. Y!CostIsBankedOnce'
    BY <1>0, <1>1 DEF Y!CostIsBankedOnce
  <1> QED BY <1>4, <1>5, <1>7, <1>8, <1>9 DEF CustodyInv, Y!SelfCustodyAssumption

LEMMA SubmitKeepsCustody ==
    ASSUME CustodyInv, NEW s \in Submits, NEW m \in DOMAIN swaps, Y!Submit(s, m) PROVE CustodyInv'
  <1> DEFINE q == [Y!Idle EXCEPT !.pc = "execute", !.n = m]
  <1>0. /\ CustodyShape /\ BookedRight /\ Len(swaps) \in Nat /\ Len(book) \in Nat /\ m \in 1..Len(swaps) /\ m \in known
        /\ sub[s].pc = "idle" /\ sub' = [sub EXCEPT ![s] = q]
        /\ UNCHANGED <<wallet, swaps, known, book, booked, slips>>
    BY CustodyNumbers DEF CustodyInv, Y!Submit
  <1>1. q \in Submissions /\ q.pc = "execute" /\ q.n = m /\ q.row = 0
    <2>0. m \in Nat
      BY <1>0
    <2>1. ASSUME NEW z \in Submissions
          PROVE  /\ [z EXCEPT !.pc = "execute", !.n = m] \in Submissions
                 /\ [z EXCEPT !.pc = "execute", !.n = m].pc = "execute"
                 /\ [z EXCEPT !.pc = "execute", !.n = m].n = m
                 /\ [z EXCEPT !.pc = "execute", !.n = m].row = z.row
      BY <2>0 DEF Submissions
    <2>2. Y!Idle \in Submissions /\ Y!Idle.row = 0
      BY CustodyNumbers DEF Y!Idle
    <2> QED BY <2>1, <2>2, Zenon
  <1> HIDE DEF q
  <1>2. sub' \in [Submits -> Submissions] /\ \A t \in Submits : sub'[t] = IF t = s THEN q ELSE sub[t]
    BY <1>0, <1>1 DEF CustodyShape
  <1>3. CustodyShape'
    BY <1>0, <1>2 DEF CustodyShape
  <1>4. ASSUME NEW t \in Submits PROVE SubmitKnows(t)'
    <2>1. SubmitKnows(t)
      BY DEF CustodyInv
    <2>2. CASE t = s
      BY <1>0, <1>1, <1>2, <2>2 DEF SubmitKnows
    <2>3. CASE t # s
      BY <1>0, <1>2, <2>1, <2>3 DEF SubmitKnows
    <2> QED BY <2>2, <2>3
  <1>5. booked[m] = 0
    <2>1. booked[m] \in Nat
      BY <1>0, BookingsCounted
    <2> QED BY <1>0, <2>1 DEF BookedRight
  <1>6. \A n : n # m => Holds(n)' = Holds(n)
    BY <1>0, <1>1, <1>2 DEF Holds
  <1>7. Cardinality(Holds(m)') \in Nat /\ Cardinality(Holds(m)') <= Cardinality(Submits)
    <2>1. Holds(m)' \in SUBSET Submits
      BY DEF Holds
    <2> QED BY <2>1, CustodyNumbers, FS_Subset, FS_CardinalityType
  <1>8. \A n \in 1..Len(swaps) : booked[n] + Cardinality(Holds(n)') <= Cardinality(Submits)
    BY <1>0, <1>5, <1>6, <1>7 DEF BookedRight
  <1>9. tangled' \in BOOLEAN /\ (tangled' = FALSE => tangled = FALSE /\ \A t \in Submits : sub[t].pc = "idle")
    <2>1. tangled \in BOOLEAN /\ tangled' = (tangled \/ \E t \in Submits : sub[t].pc # "idle")
      BY Zenon DEF CustodyInv, Y!Submit
    <2> QED BY <2>1, Zenon
  <1>10. ASSUME tangled' = FALSE
         PROVE  /\ \A u, t \in Submits : sub'[u].pc # "idle" /\ sub'[t].pc # "idle" => u = t
                /\ \A n \in 1..Len(swaps) : booked[n] <= 1 /\ (booked[n] = 1 => Holds(n)' = {})
    <2>1. \A n \in 1..Len(swaps) : booked[n] <= 1 /\ (booked[n] = 1 => Holds(n) = {})
      BY <1>0, <1>9, <1>10 DEF BookedRight
    <2>2. \A u, t \in Submits : sub'[u].pc # "idle" /\ sub'[t].pc # "idle" => u = t
      BY <1>2, <1>9, <1>10
    <2> QED BY <1>5, <1>6, <2>1, <2>2
  <1>11. slips = 0 => \A n \in 1..Len(swaps) : swaps[n].st = "landed" =>
            booked[n] > 0 \/ \E u \in Submits : sub'[u].pc \in {"book", "write"} /\ sub'[u].n = n
    BY <1>0, <1>2 DEF BookedRight
  <1>12. BookedRight'
    BY <1>0, <1>8, <1>10, <1>11 DEF BookedRight
  <1>13. Y!CostIsBankedOnce'
    BY <1>0 DEF CustodyInv, Y!CostIsBankedOnce
  <1> QED BY <1>3, <1>4, <1>9, <1>12, <1>13 DEF CustodyInv, Y!SelfCustodyAssumption

\* What a swap moves leaves a wallet that could pay for it.
LEMMA SwapMovesWallet ==
    ASSUME CustodyInv, NEW o \in Y!Orders, wallet[Y!Source(o)] >= o.amount
    PROVE  Y!Moved(wallet, o) \in [usdc : Nat, sol : Nat, tok : Nat]
  <1>1. /\ wallet \in [usdc : Nat, sol : Nat, tok : Nat] /\ o.amount \in Nat
        /\ o.side \in {"BUY", "SELL"} /\ o.pay \in {"usdc", "sol"}
    BY CustodyNumbers DEF CustodyInv, CustodyShape
  <1>2. CASE o.side = "SELL"
    <2>1. wallet.tok - o.amount \in Nat /\ wallet.usdc + o.amount \in Nat
      BY <1>1, <1>2 DEF Y!Source
    <2> QED BY <1>1, <1>2, <2>1 DEF Y!Moved
  <1>3. CASE o.side = "BUY" /\ o.pay = "usdc"
    <2>1. wallet.usdc - o.amount \in Nat /\ wallet.tok + o.amount \in Nat
      BY <1>1, <1>3 DEF Y!Source
    <2> QED BY <1>1, <1>3, <2>1 DEF Y!Moved
  <1>4. CASE o.side = "BUY" /\ o.pay = "sol"
    <2>1. wallet.sol - o.amount \in Nat /\ wallet.tok + o.amount \in Nat
      BY <1>1, <1>4 DEF Y!Source
    <2> QED BY <1>1, <1>4, <2>1 DEF Y!Moved
  <1> QED BY <1>1, <1>2, <1>3, <1>4

LEMMA ExecuteKeepsCustody == ASSUME CustodyInv, NEW s \in Submits, Y!Execute(s) PROVE CustodyInv'
  <1> PICK m : m = sub[s].n
    OBVIOUS
  <1>0. /\ CustodyShape /\ Len(swaps) \in Nat /\ Len(book) \in Nat /\ SubmitKnows(s) /\ sub[s] \in Submissions
        /\ sub[s].pc = "execute" /\ m \in 1..Len(swaps) /\ swaps[m] \in Builds /\ swaps[m].o \in Y!Orders
        /\ Y!Idle \in Submissions /\ UNCHANGED <<book, booked, tangled>>
    <2>1. CustodyShape /\ Len(swaps) \in Nat /\ Len(book) \in Nat /\ SubmitKnows(s) /\ Y!Idle \in Submissions
      BY CustodyNumbers DEF CustodyInv
    <2>2. sub[s] \in Submissions /\ sub[s].pc = "execute" /\ UNCHANGED <<book, booked, tangled>>
      BY <2>1 DEF CustodyShape, Y!Execute
    <2>3. m \in 1..Len(swaps)
      BY <2>1, <2>2 DEF SubmitKnows
    <2>4. swaps[m] \in Builds
      BY <2>1, <2>3 DEF CustodyShape
    <2> QED BY <2>1, <2>2, <2>3, <2>4 DEF Builds
  <1> DEFINE q == [sub[s] EXCEPT !.pc = "book"]
  <1>1. q \in Submissions /\ q.pc = "book" /\ q.n = m /\ q.row = sub[s].row
    BY <1>0 DEF Submissions
  <1>2. \/ /\ swaps[m].st = "made" /\ wallet[Y!Source(swaps[m].o)] >= swaps[m].o.amount
           /\ swaps' = [swaps EXCEPT ![m] = [swaps[m] EXCEPT !.st = "landed"]] /\ wallet' = Y!Moved(wallet, swaps[m].o)
           /\ \/ sub' = [sub EXCEPT ![s] = q] /\ known' = known \ {m} /\ slips' = slips
              \/ Y!Fault /\ sub' = [sub EXCEPT ![s] = Y!Idle] /\ known' = known
        \/ /\ swaps[m].st = "made" /\ swaps' = [swaps EXCEPT ![m] = [swaps[m] EXCEPT !.st = "failed"]]
           /\ sub' = [sub EXCEPT ![s] = Y!Idle] /\ UNCHANGED <<wallet, known, slips>>
        \/ /\ swaps[m].st = "landed" /\ sub' = [sub EXCEPT ![s] = q] /\ known' = known \ {m}
           /\ UNCHANGED <<swaps, wallet, slips>>
        \/ sub' = [sub EXCEPT ![s] = Y!Idle] /\ UNCHANGED <<swaps, wallet, known, slips>>
    BY DEF Y!Execute, Y!Goto, Y!Done
  <1> HIDE DEF q
  <1>3. PICK k \in {q, Y!Idle} : sub' = [sub EXCEPT ![s] = k]
    BY <1>2
  <1>4. sub' \in [Submits -> Submissions] /\ \A t \in Submits : sub'[t] = IF t = s THEN k ELSE sub[t]
    BY <1>0, <1>1, <1>3 DEF CustodyShape
  <1>5. /\ swaps' \in Seq(Builds) /\ Len(swaps') = Len(swaps)
        /\ \A n \in 1..Len(swaps) : n # m => swaps'[n] = swaps[n]
        /\ swaps[m].st = "landed" => swaps'[m].st = "landed"
        /\ sub' = [sub EXCEPT ![s] = q] => swaps'[m].st = "landed" /\ known' = known \ {m}
        /\ swaps'[m].st = "landed" =>
              swaps[m].st = "landed" \/ sub' = [sub EXCEPT ![s] = q] \/ Y!Fault
    <2>1. swaps \in Seq(Builds) /\ Len(swaps) \in Nat
      BY <1>0 DEF CustodyShape
    <2>2. /\ [swaps[m] EXCEPT !.st = "landed"] \in Builds /\ [swaps[m] EXCEPT !.st = "landed"].st = "landed"
          /\ [swaps[m] EXCEPT !.st = "failed"] \in Builds /\ [swaps[m] EXCEPT !.st = "failed"].st = "failed"
      BY <1>0 DEF Builds
    <2>3. sub' = [sub EXCEPT ![s] = q] => sub' # [sub EXCEPT ![s] = Y!Idle]
      <3>1. sub' = [sub EXCEPT ![s] = q] => sub'[s] = q
        BY <1>0 DEF CustodyShape
      <3>2. sub' = [sub EXCEPT ![s] = Y!Idle] => sub'[s] = Y!Idle
        BY <1>0 DEF CustodyShape
      <3>3. Y!Idle.pc = "idle"
        BY DEF Y!Idle
      <3> QED BY <1>1, <3>1, <3>2, <3>3
    <2>4. ASSUME NEW b \in Builds, swaps' = [swaps EXCEPT ![m] = b]
          PROVE  /\ swaps' \in Seq(Builds) /\ Len(swaps') = Len(swaps) /\ swaps'[m] = b
                 /\ \A n \in 1..Len(swaps) : n # m => swaps'[n] = swaps[n]
      BY <1>0, <2>1, <2>4
    <2> QED BY <1>2, <2>1, <2>2, <2>3, <2>4
  <1>6. known' \subseteq known /\ slips' \in 0..MaxSlips /\ (slips' = 0 => slips = 0 /\ ~Y!Fault)
    <2>1. slips \in 0..MaxSlips
      BY <1>0 DEF CustodyShape
    <2> QED BY <1>2, <2>1, SlipsCounted
  <1>7. wallet' \in [usdc : Nat, sol : Nat, tok : Nat]
    BY <1>0, <1>2, SwapMovesWallet DEF CustodyShape
  <1>8. CustodyShape'
    BY <1>0, <1>4, <1>5, <1>6, <1>7 DEF CustodyShape
  <1>9. ASSUME NEW n \in 1..Len(swaps), swaps[n].st = "landed" PROVE swaps'[n].st = "landed"
    BY <1>5, <1>9
  <1>10. ASSUME NEW t \in Submits PROVE SubmitKnows(t)'
    <2>1. CASE t = s /\ k = q
      BY <1>0, <1>1, <1>3, <1>4, <1>5, <2>1 DEF SubmitKnows
    <2>2. CASE t = s /\ k = Y!Idle
      <3>1. sub'[t].pc = "idle" /\ sub'[t].n = 0 /\ sub'[t].row = 0
        BY <1>4, <2>2 DEF Y!Idle
      <3> QED BY <1>0, <1>5, <3>1 DEF SubmitKnows
    <2>3. CASE t # s
      <3>1. SubmitKnows(t) /\ sub'[t] = sub[t] /\ sub[t] \in Submissions
        BY <1>0, <1>4, <2>3 DEF CustodyInv, CustodyShape
      <3>2. sub[t].pc \in {"book", "write"} => sub[t].n \in 1..Len(swaps)
        BY <1>0, <3>1 DEF SubmitKnows
      <3> QED BY <1>0, <1>5, <1>6, <1>9, <3>1, <3>2 DEF SubmitKnows
    <2> QED BY <1>3, <2>1, <2>2, <2>3
  <1>11. \A t \in Submits : sub'[t].pc # "idle" => sub[t].pc # "idle" /\ sub'[t].n = sub[t].n
    BY <1>0, <1>1, <1>3, <1>4 DEF Y!Idle
  <1>12. \A t \in Submits : sub[t].pc \in {"book", "write"} => sub'[t] = sub[t]
    BY <1>0, <1>4
  <1>13. ASSUME slips' = 0, NEW n \in 1..Len(swaps), swaps'[n].st = "landed"
         PROVE  swaps[n].st = "landed" \/ \E u \in Submits : sub'[u].pc \in {"book", "write"} /\ sub'[u].n = n
    <2>1. CASE n # m
      BY <1>5, <1>13, <2>1
    <2>2. CASE n = m /\ sub' = [sub EXCEPT ![s] = q]
      <3>1. sub'[s] = q
        BY <1>0, <2>2 DEF CustodyShape
      <3> QED BY <1>1, <2>2, <3>1
    <2> QED BY <1>5, <1>6, <1>13, <2>1, <2>2
  <1>14. BookedRight'
    BY <1>0, <1>4, <1>5, <1>6, <1>9, <1>11, <1>12, <1>13, BookedStays
  <1>15. tangled' \in BOOLEAN
    BY <1>0, Zenon DEF CustodyInv
  <1>16. Y!CostIsBankedOnce'
    BY <1>0 DEF CustodyInv, Y!CostIsBankedOnce
  <1> QED BY <1>8, <1>10, <1>14, <1>15, <1>16 DEF CustodyInv, Y!SelfCustodyAssumption

\* A submission that is to book knows its swap.
LEMMA BookingFacts ==
    ASSUME CustodyInv, NEW s \in Submits, sub[s].pc \in {"book", "write"}
    PROVE  /\ sub[s] \in Submissions /\ sub[s].n \in 1..Len(swaps) /\ swaps[sub[s].n].o \in Y!Orders
           /\ swaps[sub[s].n].o.amount \in Nat \ {0} /\ swaps[sub[s].n].o.side \in {"BUY", "SELL"}
           /\ book \in Seq(BookRows) /\ Len(book) \in Nat /\ Y!CostIsBankedOnce
  <1>1. /\ CustodyShape /\ SubmitKnows(s) /\ Len(swaps) \in Nat /\ Y!CostIsBankedOnce
        /\ \A o \in Y!Orders : o.side \in {"BUY", "SELL"} /\ o.amount \in Nat \ {0}
    BY CustodyNumbers DEF CustodyInv
  <1>2. sub[s] \in Submissions /\ sub[s].n \in 1..Len(swaps)
    BY <1>1 DEF CustodyShape, SubmitKnows
  <1>3. swaps[sub[s].n] \in Builds
    BY <1>1, <1>2 DEF CustodyShape
  <1> QED BY <1>1, <1>2, <1>3 DEF CustodyShape, Builds

\* A row that is added: with its cost to be recovered, or without cost.
LEMMA RowAdded ==
    ASSUME CustodyInv, NEW r \in BookRows, book' = Append(book, r),
           r.cost > 0 => r.open = TRUE /\ r.alloc + r.banked = r.cost
    PROVE  /\ book' \in Seq(BookRows) /\ Len(book) <= Len(book')
           /\ \A k \in 1..Len(book) : book'[k].cost = book[k].cost
           /\ Y!CostIsBankedOnce'
  <1>1. book \in Seq(BookRows) /\ Len(book) \in Nat /\ DOMAIN book = 1..Len(book) /\ Y!CostIsBankedOnce
    BY CustodyNumbers DEF CustodyInv, CustodyShape
  <1>2. /\ book' \in Seq(BookRows) /\ Len(book') = Len(book) + 1 /\ book'[Len(book) + 1] = r
        /\ \A k \in 1..Len(book) : book'[k] = book[k]
    BY <1>1
  <1>3. DOMAIN book' = 1..Len(book) + 1
    BY <1>1, <1>2
  <1>4. ASSUME NEW k \in 1..Len(book) + 1, book'[k].cost > 0
        PROVE  IF book'[k].open THEN book'[k].alloc + book'[k].banked = book'[k].cost
               ELSE book'[k].banked \in (book'[k].cost - 1)..book'[k].cost
    <2>1. CASE k = Len(book) + 1
      BY <1>2, <1>4, <2>1
    <2>2. CASE k \in 1..Len(book)
      BY <1>1, <1>2, <1>4, <2>2 DEF Y!CostIsBankedOnce
    <2> QED BY <1>1, <2>1, <2>2
  <1>5. Y!CostIsBankedOnce'
    BY <1>3, <1>4 DEF Y!CostIsBankedOnce
  <1> QED BY <1>1, <1>2, <1>5

LEMMA BookBuyKeepsCustody == ASSUME CustodyInv, NEW s \in Submits, Y!BookBuy(s) PROVE CustodyInv'
  <1> DEFINE o == swaps[sub[s].n].o
             r == Y!BoughtLot(o)
  <1>0. sub[s].pc = "book"
    BY DEF Y!BookBuy
  <1>1. o \in Y!Orders /\ o.amount \in Nat \ {0}
    BY <1>0, BookingFacts
  <1>2. /\ book' = Append(book, r) /\ booked' = [booked EXCEPT ![sub[s].n] = booked[sub[s].n] + 1]
        /\ sub' = [sub EXCEPT ![s] = Y!Idle] /\ UNCHANGED <<wallet, swaps, known, slips>>
    BY DEF Y!BookBuy, Y!Done
  <1>3. tangled' = tangled \/ tangled' = TRUE
    <2>1. tangled \in BOOLEAN /\ (tangled' <=> tangled \/ o.pay = "sol") /\ tangled' = (tangled \/ o.pay = "sol")
      BY Zenon DEF CustodyInv, Y!BookBuy
    <2> HIDE DEF o
    <2> QED BY <2>1, Zenon
  <1>4. r \in BookRows /\ r.open = TRUE /\ r.alloc + r.banked = r.cost
    BY <1>1 DEF Y!BoughtLot, BookRows
  <1> HIDE DEF r, o
  <1> QED BY <1>0, <1>2, <1>3, <1>4, RowAdded, BookingKeeps

LEMMA ReadOldestKeepsCustody == ASSUME CustodyInv, NEW s \in Submits, Y!ReadOldest(s) PROVE CustodyInv'
  <1> DEFINE o == swaps[sub[s].n].o
  <1>0. sub[s].pc = "book" /\ UNCHANGED <<wallet, swaps, known, slips>>
    BY DEF Y!ReadOldest
  <1>1. o \in Y!Orders /\ o.amount \in Nat \ {0}
    BY <1>0, BookingFacts
  <1>2. CASE Y!OpenRows = {}
    <2> DEFINE r == [alloc |-> o.amount, banked |-> 0, sol |-> FALSE, cost |-> 0, open |-> FALSE]
    <2>1. /\ book' = Append(book, r) /\ booked' = [booked EXCEPT ![sub[s].n] = booked[sub[s].n] + 1]
          /\ sub' = [sub EXCEPT ![s] = Y!Idle] /\ tangled' = TRUE
      BY <1>2 DEF Y!ReadOldest, Y!Done
    <2>2. r \in BookRows /\ r.cost = 0
      BY <1>1 DEF BookRows
    <2> HIDE DEF r
    <2>3. /\ book' \in Seq(BookRows) /\ Len(book) <= Len(book')
          /\ \A k \in 1..Len(book) : book'[k].cost = book[k].cost
          /\ Y!CostIsBankedOnce'
      <3>1. r.cost > 0 => r.open = TRUE /\ r.alloc + r.banked = r.cost
        BY <2>2
      <3> QED BY <2>1, <2>2, <3>1, RowAdded
    <2>4. tangled' = tangled \/ tangled' = TRUE
      BY <2>1, Zenon
    <2> QED BY <1>0, <2>1, <2>3, <2>4, BookingKeeps
  <1>3. CASE Y!OpenRows # {}
    <2>1. PICK r \in Y!OpenRows : r = Y!Min(Y!OpenRows)
      BY <1>3, OldestIsOpen
    <2> DEFINE lot == [alloc |-> book[r].alloc, banked |-> book[r].banked, sol |-> book[r].sol]
               W(z, i, g) == [z EXCEPT !.pc = "write", !.row = i, !.read = g]
               q == W(sub[s], r, lot)
    <2>2. /\ CustodyShape /\ Len(swaps) \in Nat /\ Len(book) \in Nat /\ DOMAIN book = 1..Len(book)
          /\ SubmitKnows(s) /\ Y!CostIsBankedOnce /\ BookedRight /\ sub[s] \in Submissions
      BY CustodyNumbers DEF CustodyInv, CustodyShape
    <2>3. r \in 1..Len(book) /\ book[r].open /\ book[r] \in BookRows
      BY <2>2 DEF Y!OpenRows, CustodyShape
    <2>4. lot \in Readings /\ lot.alloc = book[r].alloc /\ lot.banked = book[r].banked
      BY <2>3 DEF BookRows, Readings
    <2>5. sub' = [sub EXCEPT ![s] = q] /\ UNCHANGED <<book, booked>>
      BY <1>3, <2>1, Zenon DEF Y!ReadOldest
    <2> HIDE DEF lot
    <2>6. /\ q \in Submissions /\ q.pc = "write" /\ q.n = sub[s].n /\ q.row = r
          /\ q.read.alloc = lot.alloc /\ q.read.banked = lot.banked
      <3>1. r \in Nat
        BY <2>2, <2>3
      <3>2. ASSUME NEW z \in Submissions, NEW i \in Nat, NEW g \in Readings
            PROVE  /\ W(z, i, g) \in Submissions /\ W(z, i, g).pc = "write" /\ W(z, i, g).n = z.n
                   /\ W(z, i, g).row = i /\ W(z, i, g).read = g
        BY DEF Submissions
      <3>3. q \in Submissions /\ q.pc = "write" /\ q.n = sub[s].n /\ q.row = r /\ q.read = lot
        <4>1. sub[s] \in Submissions /\ lot \in Readings /\ r \in Nat
          BY <2>2, <2>4, <3>1
        <4> HIDE DEF lot, W
        <4> QED BY <4>1, <3>2
      <3> HIDE DEF q
      <3> QED BY <3>3
    <2> HIDE DEF q
    <2>7. sub' \in [Submits -> Submissions] /\ \A t \in Submits : sub'[t] = IF t = s THEN q ELSE sub[t]
      BY <2>2, <2>5, <2>6 DEF CustodyShape
    <2>8. CustodyShape'
      BY <1>0, <2>2, <2>5, <2>7 DEF CustodyShape
    <2>9. book[r].cost > 0 => lot.alloc + lot.banked = book[r].cost
      BY <2>2, <2>3, <2>4 DEF Y!CostIsBankedOnce
    <2>10. ASSUME NEW t \in Submits PROVE SubmitKnows(t)'
      <3>1. SubmitKnows(t)
        BY DEF CustodyInv
      <3>2. CASE t = s
        BY <1>0, <2>2, <2>3, <2>5, <2>6, <2>7, <2>9, <3>2 DEF SubmitKnows
      <3>3. CASE t # s
        BY <1>0, <2>5, <2>7, <3>1, <3>3 DEF SubmitKnows
      <3> QED BY <3>2, <3>3
    <2>11. tangled' \in BOOLEAN /\ (tangled' = tangled \/ tangled' = TRUE)
      <3>1. tangled \in BOOLEAN /\ tangled' = (tangled \/ o.amount > book[r].alloc)
        BY <1>3, <2>1, Zenon DEF CustodyInv, Y!ReadOldest
      <3> HIDE DEF o
      <3> QED BY <3>1, Zenon
    <2>12. \A t \in Submits : sub'[t].pc # "idle" => sub[t].pc # "idle" /\ sub'[t].n = sub[t].n
      BY <1>0, <2>6, <2>7
    <2>13. \A t \in Submits : sub[t].pc \in {"book", "write"} => sub'[t].pc \in {"book", "write"} /\ sub'[t].n = sub[t].n
      BY <2>6, <2>7
    <2>14. BookedRight'
      BY <1>0, <2>5, <2>7, <2>11, <2>12, <2>13, BookedStays
    <2>15. Y!CostIsBankedOnce'
      BY <2>2, <2>5 DEF Y!CostIsBankedOnce
    <2> QED BY <2>8, <2>10, <2>11, <2>14, <2>15 DEF CustodyInv, Y!SelfCustodyAssumption
  <1> QED BY <1>2, <1>3

LEMMA WriteRowKeepsCustody == ASSUME CustodyInv, NEW s \in Submits, Y!WriteRow(s) PROVE CustodyInv'
  <1> DEFINE o == swaps[sub[s].n].o
             lot == sub[s].read
             keeps == Y!StillOpen(lot, o.amount)
             c == Y!ClosedAlloc(lot, o.amount)
             r == sub[s].row
  <1>0. sub[s].pc = "write"
    BY DEF Y!WriteRow
  <1>1. o.amount \in Nat /\ lot \in Readings /\ SolUsd \in Nat \ {0} /\ lot.alloc \in Nat /\ lot.banked \in Nat
    BY <1>0, BookingFacts, CustodyNumbers DEF Submissions, Readings
  <1>2. /\ book' = [book EXCEPT ![r].open = keeps, ![r].alloc = IF keeps THEN lot.alloc - c ELSE lot.alloc,
                                ![r].banked = lot.banked + c]
        /\ booked' = [booked EXCEPT ![sub[s].n] = booked[sub[s].n] + 1]
        /\ sub' = [sub EXCEPT ![s] = Y!Idle] /\ UNCHANGED <<wallet, swaps, known, tangled, slips>>
    BY DEF Y!WriteRow, Y!Done
  <1>3. /\ c \in 0..lot.alloc /\ (keeps => lot.alloc - c \in Nat) /\ (~keeps => lot.alloc - c \in 0..1)
        /\ keeps \in BOOLEAN
    BY <1>1, LotCloses
  <1>4. /\ r \in 1..Len(book) /\ (book[r].cost > 0 => lot.alloc + lot.banked = book[r].cost)
        /\ book \in Seq(BookRows) /\ Len(book) \in Nat /\ Y!CostIsBankedOnce
    <2>1. SubmitKnows(s)
      BY DEF CustodyInv
    <2> QED BY <1>0, <2>1, BookingFacts DEF SubmitKnows
  <1> HIDE DEF keeps, c, lot, r, o
  <1>5. book[r] \in BookRows /\ book[r].cost \in Nat
    <2>1. book \in Seq(BookRows) /\ r \in 1..Len(book)
      BY <1>4
    <2>2. book[r] \in BookRows
      BY <2>1
    <2> QED BY <2>2 DEF BookRows
  <1> DEFINE b == [book[r] EXCEPT !.open = keeps, !.alloc = IF keeps THEN lot.alloc - c ELSE lot.alloc,
                                  !.banked = lot.banked + c]
  <1>6. (IF keeps THEN lot.alloc - c ELSE lot.alloc) \in Nat /\ lot.banked + c \in Nat
    BY <1>1, <1>3
  <1>7. /\ b \in BookRows /\ b.cost = book[r].cost /\ b.open = keeps /\ b.banked = lot.banked + c
        /\ b.alloc = IF keeps THEN lot.alloc - c ELSE lot.alloc
    BY <1>3, <1>5, <1>6 DEF BookRows
  <1>8. book' = [book EXCEPT ![r] = b]
    BY <1>2, <1>4
  <1> HIDE DEF b
  <1>9. b.cost > 0 => IF b.open THEN b.alloc + b.banked = b.cost ELSE b.banked \in (b.cost - 1)..b.cost
    <2> HIDE DEF b
    <2>1. CASE keeps
      <3>1. b.alloc = lot.alloc - c /\ b.banked = lot.banked + c /\ b.open
        BY <1>7, <2>1
      <3>2. b.alloc + b.banked = lot.alloc + lot.banked
        BY <1>1, <1>3, <3>1
      <3>3. b.cost > 0 => b.alloc + b.banked = b.cost
        BY <1>4, <1>7, <3>2
      <3> QED BY <3>1, <3>3
    <2>2. CASE ~keeps
      <3>1. ~b.open /\ b.banked = lot.banked + c
        BY <1>7, <2>2
      <3>2. b.banked \in (lot.alloc + lot.banked - 1)..(lot.alloc + lot.banked)
        BY <1>1, <1>3, <2>2, <3>1
      <3>3. b.cost > 0 => lot.alloc + lot.banked = b.cost
        BY <1>4, <1>7
      <3>4. ASSUME b.cost > 0 PROVE b.banked \in (b.cost - 1)..b.cost
        <4>1. lot.alloc + lot.banked = b.cost
          BY <3>3, <3>4
        <4> QED BY <1>1, <3>2, <4>1
      <3> QED BY <3>1, <3>4
    <2> QED BY <2>1, <2>2
  <1>10. /\ book' \in Seq(BookRows) /\ Len(book') = Len(book) /\ DOMAIN book' = 1..Len(book)
         /\ \A k \in 1..Len(book) : book'[k] = IF k = r THEN b ELSE book[k]
    BY <1>4, <1>7, <1>8
  <1>11. Y!CostIsBankedOnce'
    BY <1>4, <1>9, <1>10 DEF Y!CostIsBankedOnce
  <1>12. \A k \in 1..Len(book) : book'[k].cost = book[k].cost
    BY <1>7, <1>10
  <1>13. tangled' = tangled \/ tangled' = TRUE
    BY <1>2, Zenon
  <1>14. Len(book) <= Len(book')
    BY <1>4, <1>10
  <1> QED BY <1>0, <1>2, <1>10, <1>11, <1>12, <1>13, <1>14, BookingKeeps

-----------------------------------------------------------------------------
(* The swaps signed in the browser *)

LEMMA CustodyInvInductive == CustodyInv /\ [Y!Next]_(Y!custodyVars) => CustodyInv'
  BY BuildKeepsCustody, RestKeepsCustody, SubmitKeepsCustody, ExecuteKeepsCustody, BookBuyKeepsCustody,
     ReadOldestKeepsCustody, WriteRowKeepsCustody DEF Y!Next

LEMMA InitCustodyInv == Y!SelfCustodyAssumption /\ IsFiniteSet(Submits) /\ Y!Init => CustodyInv
  <1> SUFFICES ASSUME Y!SelfCustodyAssumption, IsFiniteSet(Submits), Y!Init PROVE CustodyInv
    OBVIOUS
  <1>0. Funds \in Nat /\ MaxSlips \in Nat /\ Cardinality(Submits) \in Nat
    BY FS_CardinalityType DEF Y!SelfCustodyAssumption
  <1>1. /\ swaps = <<>> /\ known = {} /\ booked = <<>> /\ sub = [s \in Submits |-> Y!Idle]
        /\ tangled = FALSE /\ slips = 0
        /\ wallet \in [usdc : {Funds}, sol : {0, Y!Reserve, Funds}, tok : {0, Funds}]
    BY DEF Y!Init
  <1>2. Y!Idle \in Submissions /\ Y!Idle.pc = "idle" /\ Y!Idle.n = 0 /\ Y!Idle.row = 0
    BY DEF Y!Idle, Submissions, Readings
  <1>3. Len(swaps) = 0
    BY <1>1
  <1> DEFINE r == Y!BoughtLot([pay |-> "usdc", amount |-> Funds])
  <1>4. book = <<>> \/ book = <<r>>
    BY DEF Y!Init
  <1>5. r \in BookRows /\ r.open = TRUE /\ r.alloc + r.banked = r.cost
    BY <1>0 DEF Y!BoughtLot, BookRows
  <1> HIDE DEF r
  <1>6. book \in Seq(BookRows) /\ Len(book) \in Nat /\ Y!CostIsBankedOnce
    <2>1. CASE book = <<>>
      BY <2>1 DEF Y!CostIsBankedOnce
    <2>2. CASE book = <<r>>
      <3>1. DOMAIN book = {1} /\ book[1] = r /\ book \in Seq(BookRows) /\ Len(book) = 1
        BY <1>5, <2>2
      <3> QED BY <1>5, <3>1 DEF Y!CostIsBankedOnce
    <2> QED BY <1>4, <2>1, <2>2
  <1>7. CustodyShape
    BY <1>0, <1>1, <1>2, <1>6 DEF CustodyShape, Y!Reserve
  <1>8. ASSUME NEW s \in Submits PROVE SubmitKnows(s)
    BY <1>1, <1>2, <1>3, <1>6 DEF SubmitKnows
  <1>9. BookedRight
    <2>1. \A n : Holds(n) = {}
      BY <1>1, <1>2 DEF Holds
    <2> QED BY <1>1, <1>2, <1>3, <2>1 DEF BookedRight
  <1> QED BY <1>1, <1>6, <1>7, <1>8, <1>9 DEF CustodyInv

LEMMA CustodyInvTypes == CustodyInv => Y!TypeOK
  <1> SUFFICES ASSUME CustodyInv PROVE Y!TypeOK
    OBVIOUS
  <1>1. /\ CustodyShape /\ (\A s \in Submits : SubmitKnows(s))
        /\ DOMAIN swaps = 1..Len(swaps) /\ DOMAIN booked = 1..Len(swaps)
    BY CustodyNumbers DEF CustodyInv
  <1>2. \A k \in DOMAIN wallet : wallet[k] \in Nat
    BY <1>1 DEF CustodyShape
  <1>3. \A n \in DOMAIN swaps : swaps[n].o \in Y!Orders /\ swaps[n].st \in {"made", "landed", "failed"}
    <2> TAKE n \in DOMAIN swaps
    <2>1. swaps[n] \in Builds
      BY <1>1 DEF CustodyShape
    <2> QED BY <2>1 DEF Builds
  <1>4. \A s \in Submits : sub[s].n \in 0..Len(swaps) /\ sub[s].row \in 0..Len(book)
    BY <1>1 DEF SubmitKnows
  <1>5. tangled \in BOOLEAN
    BY DEF CustodyInv
  <1>6. known \subseteq DOMAIN swaps /\ DOMAIN booked = DOMAIN swaps /\ slips \in 0..MaxSlips
    BY <1>1 DEF CustodyShape
  <1> QED BY <1>2, <1>3, <1>4, <1>5, <1>6, Zenon DEF Y!TypeOK

LEMMA CustodyInvBooks == CustodyInv => Y!SwapsBookedOnce
  <1> SUFFICES ASSUME CustodyInv PROVE Y!SwapsBookedOnce
    OBVIOUS
  <1>1. BookedRight /\ DOMAIN swaps = 1..Len(swaps)
    BY CustodyNumbers DEF CustodyInv
  <1>2. ASSUME NEW n \in 1..Len(swaps)
        PROVE  /\ booked[n] > 0 => n \in Y!Landed
               /\ booked[n] <= IF tangled THEN Cardinality(Submits) ELSE 1
    <2>1. booked[n] > 0 => n \in Y!Landed
      BY <1>1 DEF BookedRight, Y!Landed
    <2>2. booked[n] <= Cardinality(Submits)
      <3>1. booked[n] \in Nat /\ Cardinality(Holds(n)) \in Nat /\ Cardinality(Submits) \in Nat
        BY BookingsCounted, HoldersCounted, CustodyNumbers
      <3> QED BY <1>1, <3>1 DEF BookedRight
    <2>3. tangled = FALSE => booked[n] <= 1
      BY <1>1 DEF BookedRight
    <2>4. tangled = TRUE \/ tangled = FALSE
      BY DEF CustodyInv
    <2> QED BY <2>1, <2>2, <2>3, <2>4
  <1>3. slips = 0 /\ Y!Calm => \A n \in Y!Landed : booked[n] > 0
    BY <1>1 DEF BookedRight, Y!Landed, Y!Calm
  <1>4. \A n \in DOMAIN swaps :
          /\ booked[n] > 0 => n \in Y!Landed
          /\ booked[n] <= IF tangled THEN Cardinality(Submits) ELSE 1
    BY <1>1, <1>2, Zenon
  <1>5. slips = 0 /\ Y!Calm => \A n \in Y!Landed : booked[n] > 0
    BY <1>3
  <1> HIDE DEF Y!Landed
  <1>6. Y!Cardinality(Submits) = Cardinality(Submits)
    BY DEF Y!Cardinality, Cardinality
  <1> QED BY <1>4, <1>5, <1>6 DEF Y!SwapsBookedOnce

\* The larger of two numbers.
LEMMA LargerOfTwo ==
    ASSUME NEW a \in Int, NEW b \in Int
    PROVE  Y!Max({a, b}) = IF a >= b THEN a ELSE b
  <1>1. \E u \in {a, b} : \A v \in {a, b} : u >= v
    BY DEF Y!Max
  <1>2. Y!Max({a, b}) \in {a, b} /\ \A v \in {a, b} : Y!Max({a, b}) >= v
    BY <1>1 DEF Y!Max
  <1> QED BY <1>2

\* What is refused of an order of a wallet.
LEMMA WhatIsRefused ==
    ASSUME NEW w \in [usdc : Nat, sol : Nat, tok : Nat], NEW side \in {"BUY", "SELL"}, NEW pay \in {"usdc", "sol"},
           NEW amount \in Nat, NEW o, o = [side |-> side, pay |-> pay, amount |-> amount],
           w.sol >= Y!Reserve, w[Y!Source(o)] >= amount + (IF Y!Source(o) = "sol" THEN Y!Reserve ELSE 0)
    PROVE  Y!Refusals(w, o) \subseteq {"minimum"} /\ (amount >= Y!Minimum => Y!Refusals(w, o) = {})
  <1>1. ~(w[Y!Source(o)] < o.amount + (IF Y!Source(o) = "sol" THEN Y!Reserve ELSE 0))
    BY DEF Y!Reserve, Y!Source
  <1>2. ~(w.sol < Y!Reserve)
    BY DEF Y!Reserve
  <1>3. "balance" \notin Y!Refusals(w, o)
    BY <1>1 DEF Y!Refusals
  <1>4. "gas" \notin Y!Refusals(w, o)
    BY <1>2 DEF Y!Refusals
  <1>5. "minimum" \in Y!Refusals(w, o) => o.amount < Y!Minimum
    BY DEF Y!Refusals
  <1>6. Y!Refusals(w, o) \subseteq {"balance", "gas", "minimum"}
    BY DEF Y!Refusals
  <1> QED BY <1>3, <1>4, <1>5, <1>6 DEF Y!Minimum

LEMMA CustodyInvPreviews == CustodyInv => Y!PreviewIsHonest
  <1> SUFFICES ASSUME CustodyInv PROVE Y!PreviewIsHonest
    OBVIOUS
  <1>0. wallet \in [usdc : Nat, sol : Nat, tok : Nat] /\ wallet.usdc \in Nat /\ wallet.sol \in Nat
    BY DEF CustodyInv, CustodyShape
  <1>1. ASSUME NEW o \in Y!Orders \union Y!Small
        PROVE  /\ o.side \in {"BUY", "SELL"} /\ o.pay \in {"usdc", "sol"} /\ o.amount \in Nat \ {0}
               /\ (o.side = "SELL" => o.pay = "usdc") /\ o = [side |-> o.side, pay |-> o.pay, amount |-> o.amount]
    <2>1. CASE o \in Y!Orders
      BY <2>1, CustodyNumbers DEF Y!Orders
    <2>2. CASE o \in Y!Small
      BY <2>2 DEF Y!Small
    <2> QED BY <2>1, <2>2
  <1>2. ASSUME NEW o \in Y!Orders \union Y!Small, Y!Blockers(wallet, o) = {}
        PROVE  Y!Refusals(wallet, o) \subseteq (IF o.side = "BUY" /\ o.pay = "usdc" THEN {} ELSE {"minimum"})
    <2>1. wallet.sol >= Y!Reserve
      <3>1. wallet.sol < Y!Reserve => "gas" \in Y!Blockers(wallet, o)
        BY DEF Y!Blockers
      <3> QED BY <1>0, <1>2, <3>1 DEF Y!Reserve
    <2>2. ~(IF o.side = "SELL" THEN o.amount > wallet.tok
            ELSE o.amount > (IF o.pay = "sol" THEN Y!Max({0, wallet.sol - Y!Reserve}) ELSE wallet.usdc))
      <3>1. (IF o.side = "SELL" THEN o.amount > wallet.tok
             ELSE o.amount > (IF o.pay = "sol" THEN Y!Max({0, wallet.sol - Y!Reserve}) ELSE wallet.usdc))
               => "balance" \in Y!Blockers(wallet, o)
        BY DEF Y!Blockers
      <3> QED BY <1>2, <3>1
    <2>3. wallet[Y!Source(o)] >= o.amount + (IF Y!Source(o) = "sol" THEN Y!Reserve ELSE 0)
      <3>1. CASE o.side = "SELL"
        BY <1>0, <1>1, <2>2, <3>1 DEF Y!Source
      <3>2. CASE o.side = "BUY" /\ o.pay = "usdc"
        BY <1>0, <1>1, <2>2, <3>2 DEF Y!Source
      <3>3. CASE o.side = "BUY" /\ o.pay = "sol"
        <4>1. Y!Max({0, wallet.sol - Y!Reserve}) = wallet.sol - Y!Reserve
          <5>1. wallet.sol - Y!Reserve \in Int /\ (0 >= wallet.sol - Y!Reserve => wallet.sol - Y!Reserve = 0)
            BY <1>0, <2>1 DEF Y!Reserve
          <5> QED BY <5>1, LargerOfTwo
        <4> QED BY <1>0, <1>1, <2>2, <3>3, <4>1 DEF Y!Source, Y!Reserve
      <3> QED BY <1>1, <3>1, <3>2, <3>3
    <2>4. Y!Refusals(wallet, o) \subseteq {"minimum"} /\ (o.amount >= Y!Minimum => Y!Refusals(wallet, o) = {})
      BY <1>0, <1>1, <2>1, <2>3, WhatIsRefused
    <2>5. o.side = "BUY" /\ o.pay = "usdc" => o.amount >= Y!Minimum
      <3>1. o.side = "BUY" /\ o.pay = "usdc" /\ o.amount < Y!Minimum => "minimum" \in Y!Blockers(wallet, o)
        BY DEF Y!Blockers
      <3> QED BY <1>1, <1>2, <3>1 DEF Y!Minimum
    <2> QED BY <2>4, <2>5
  <1>3. ASSUME NEW conviction \in {49, 50, 95}, NEW quality \in {"good", "poor"}, NEW o,
               o = [side |-> "BUY", pay |-> "usdc", amount |-> Y!SuggestedSize(wallet, conviction, quality)],
               o.amount > 0
        PROVE  Y!Refusals(wallet, o) \subseteq {"minimum"}
    <2>1. (wallet.usdc * 95 * conviction) \div 10000 \in 0..wallet.usdc
      BY <1>0
    <2>2. o.amount \in Nat /\ o.amount <= wallet.usdc /\ wallet.sol >= Y!Reserve
      BY <1>0, <1>3, <2>1 DEF Y!SuggestedSize
    <2>3. o = [side |-> "BUY", pay |-> "usdc", amount |-> o.amount]
      BY <1>3
    <2>4. Y!Source(o) = "usdc"
      BY <2>3 DEF Y!Source
    <2>5. wallet[Y!Source(o)] >= o.amount + (IF Y!Source(o) = "sol" THEN Y!Reserve ELSE 0)
      BY <1>0, <2>2, <2>4
    <2> QED BY <1>0, <2>2, <2>3, <2>5, WhatIsRefused
  <1> QED BY <1>2, <1>3 DEF Y!PreviewIsHonest

\* jupiterBrowserSwapService.ts:264-395, 154-186, jupiterManualDeskService.ts:347-394:
\* for any number of submissions and swaps, amounts and prices, only a swap
\* that landed is booked, once while submissions do not overlap and else no
\* more often than it was submitted, and each is in the end if nothing failed;
\* the cost of every lot is banked once; and the preview refuses what the swap
\* would be refused for.
THEOREM BrowserSwapsAreBooked ==
    Y!SelfCustodyAssumption /\ IsFiniteSet(Submits) /\ Y!Spec =>
        [](Y!TypeOK /\ Y!SwapsBookedOnce /\ Y!CostIsBankedOnce /\ Y!PreviewIsHonest)
  <1>1. CustodyInv => Y!TypeOK /\ Y!SwapsBookedOnce /\ Y!CostIsBankedOnce /\ Y!PreviewIsHonest
    BY CustodyInvTypes, CustodyInvBooks, CustodyInvPreviews DEF CustodyInv
  <1> QED BY <1>1, InitCustodyInv, CustodyInvInductive, PTL DEF Y!Spec

-----------------------------------------------------------------------------
(* TradeLog *)

LogRows == [pair : {f.pair : f \in Fills}, alloc : Nat, entry : Nat \ {0}, exit : Nat,
            pnl : Int \union {NoPnl}, open : BOOLEAN]
Sales == [busy : {TRUE}, fill : Fills, claim : Claims, found : Nat]
Closed == {k \in 1..Len(rows) : ~rows[k].open}

LogShape ==
    /\ rows \in Seq(LogRows) /\ post \in [Posts -> {K!Idle} \union Sales] /\ sold \in Nat /\ odd \in SUBSET {"overlap"}
    /\ \A p \in Posts : post[p].busy => post[p].found <= Len(rows)
    /\ Len(rows) + Cardinality(K!Busy) <= MaxRows

\* While sales do not overlap, the row a sale has found is open until it is
\* closed, and each sale that is over closed a row.
EachSaleCloses ==
    odd = {} =>
        /\ \A p, q \in Posts : post[p].busy /\ post[q].busy => p = q
        /\ \A p \in Posts : post[p].busy /\ post[p].found # 0 => rows[post[p].found].open
        /\ Cardinality(Closed) = sold

\* The inductive invariant.
LogInv == K!TradeLogAssumption /\ IsFiniteSet(Posts) /\ LogShape /\ EachSaleCloses

LEMMA LogFacts ==
    ASSUME LogInv
    PROVE  /\ LogShape /\ EachSaleCloses /\ Len(rows) \in Nat /\ DOMAIN rows = 1..Len(rows) /\ IsFiniteSet(Closed)
           /\ IsFiniteSet(K!Busy) /\ Cardinality(K!Busy) \in Nat /\ MaxRows \in Nat
           /\ \A f \in Fills : f.alloc \in Nat /\ f.price \in Nat \ {0} /\ f.pair \in {g.pair : g \in Fills}
           /\ \A c \in Claims : c.pnl \in Int \union {NoPnl} /\ c.exit \in Nat
           /\ \A p \in Posts : post[p].busy => post[p] \in Sales
  <1>1. LogShape /\ EachSaleCloses /\ Len(rows) \in Nat /\ DOMAIN rows = 1..Len(rows)
    BY DEF LogInv, LogShape
  <1>2. IsFiniteSet(Closed)
    <2>1. Closed \in SUBSET (1..Len(rows))
      BY DEF Closed
    <2>2. IsFiniteSet(1..Len(rows))
      BY <1>1, FS_Interval
    <2> HIDE DEF Closed
    <2> QED BY <2>1, <2>2, FS_Subset
  <1>3. IsFiniteSet(K!Busy) /\ Cardinality(K!Busy) \in Nat
    <2>1. K!Busy \in SUBSET Posts
      BY DEF K!Busy
    <2> QED BY <2>1, FS_Subset, FS_CardinalityType DEF LogInv
  <1>4. /\ MaxRows \in Nat
        /\ \A f \in Fills : f.alloc \in Nat /\ f.price \in Nat \ {0} /\ f.pair \in {g.pair : g \in Fills}
        /\ \A c \in Claims : c.pnl \in Int \union {NoPnl} /\ c.exit \in Nat
    BY DEF LogInv, K!TradeLogAssumption
  <1>5. ASSUME NEW p \in Posts, post[p].busy PROVE post[p] \in Sales
    <2>1. post[p] \in {K!Idle} \union Sales
      BY <1>1 DEF LogShape
    <2>2. ~K!Idle.busy
      BY DEF K!Idle
    <2> QED BY <1>5, <2>1, <2>2
  <1> QED BY <1>1, <1>2, <1>3, <1>4, <1>5

\* The oldest open row of a pair is one.
LEMMA OldestOfPair ==
    ASSUME LogInv, NEW pair, K!Open(pair) # {}
    PROVE  K!Min(K!Open(pair)) \in K!Open(pair)
  <1>1. K!Open(pair) \subseteq Nat
    BY LogFacts DEF K!Open
  <1>2. PICK r \in K!Open(pair) : \A q \in K!Open(pair) : ~(<<q, r>> \in OpToRel(<, Nat))
    BY <1>1, NatLessThanWellFounded, WFMin, Zenon
  <1>3. ASSUME NEW q \in K!Open(pair) PROVE r <= q
    <2>1. CASE q < r
      <3>1. <<q, r>> \in OpToRel(<, Nat)
        BY <1>1, <2>1 DEF OpToRel
      <3> QED BY <1>2, <3>1
    <2> QED BY <1>1, <2>1
  <1> QED BY <1>3 DEF K!Min

\* A row that is logged.
LEMMA RowLogged ==
    ASSUME LogInv, NEW f \in Fills, NEW open \in BOOLEAN, NEW exit \in Nat, NEW pnl \in Int \union {NoPnl}
    PROVE  K!Row(f, open, exit, pnl) \in LogRows /\ K!Row(f, open, exit, pnl).open = open
  BY LogFacts DEF K!Row, LogRows

\* A row that is added keeps the others.
LEMMA LogGrows ==
    ASSUME LogInv, NEW r \in LogRows, rows' = Append(rows, r)
    PROVE  /\ rows' \in Seq(LogRows) /\ Len(rows') = Len(rows) + 1
           /\ \A k \in 1..Len(rows) : rows'[k] = rows[k]
           /\ r.open => Closed' = Closed
           /\ ~r.open => Cardinality(Closed') = Cardinality(Closed) + 1
  <1>1. rows \in Seq(LogRows) /\ Len(rows) \in Nat
    BY LogFacts DEF LogShape
  <1>2. /\ rows' \in Seq(LogRows) /\ Len(rows') = Len(rows) + 1 /\ rows'[Len(rows) + 1] = r
        /\ \A k \in 1..Len(rows) : rows'[k] = rows[k]
    BY <1>1
  <1>3. \A k : k \in 1..Len(rows) + 1 <=> k \in 1..Len(rows) \/ k = Len(rows) + 1
    BY <1>1
  <1>4. r.open => Closed' = Closed
    BY <1>2, <1>3 DEF Closed
  <1>5. ~r.open => Closed' = Closed \union {Len(rows) + 1}
    BY <1>2, <1>3 DEF Closed
  <1>6. Len(rows) + 1 \notin Closed
    BY <1>1 DEF Closed
  <1>7. IsFiniteSet(Closed)
    BY LogFacts
  <1> HIDE DEF Closed
  <1>8. Cardinality(Closed \union {Len(rows) + 1}) = Cardinality(Closed) + 1
    BY <1>6, <1>7, FS_AddElement
  <1> QED BY <1>2, <1>4, <1>5, <1>8

LEMMA LogBuyKeepsLog == ASSUME LogInv, NEW f \in Fills, K!LogBuy(f) PROVE LogInv'
  <1> DEFINE r == K!Row(f, TRUE, 0, NoPnl)
  <1>1. r \in LogRows /\ r.open
    BY RowLogged
  <1>2. /\ rows' = Append(rows, r) /\ UNCHANGED <<post, sold, odd>>
        /\ Len(rows) + Cardinality(K!Busy) < MaxRows
    BY DEF K!LogBuy, K!Cardinality, Cardinality
  <1> HIDE DEF r
  <1>3. /\ rows' \in Seq(LogRows) /\ Len(rows') = Len(rows) + 1
        /\ \A k \in 1..Len(rows) : rows'[k] = rows[k]
        /\ Closed' = Closed
    BY <1>1, <1>2, LogGrows
  <1>4. K!Busy' = K!Busy
    BY <1>2 DEF K!Busy
  <1>5. LogShape'
    <2>1. \A p \in Posts : post'[p].busy => post'[p].found <= Len(rows')
      <3> SUFFICES ASSUME NEW p \in Posts, post[p].busy PROVE post[p].found <= Len(rows) + 1
        BY <1>2, <1>3
      <3>1. post[p].found \in Nat /\ post[p].found <= Len(rows) /\ Len(rows) \in Nat
        BY LogFacts DEF LogShape, Sales
      <3> QED BY <3>1
    <2>2. Len(rows) + 1 + Cardinality(K!Busy) <= MaxRows
      BY <1>2, LogFacts
    <2> QED BY <1>2, <1>3, <1>4, <2>1, <2>2, LogFacts DEF LogShape
  <1>6. EachSaleCloses'
    <2> SUFFICES ASSUME odd = {}
                 PROVE  /\ \A p, q \in Posts : post[p].busy /\ post[q].busy => p = q
                        /\ \A p \in Posts : post[p].busy /\ post[p].found # 0 => rows'[post[p].found].open
                        /\ Cardinality(Closed) = sold
      BY <1>2, <1>3 DEF EachSaleCloses
    <2>1. \A p \in Posts : post[p].busy /\ post[p].found # 0 => post[p].found \in 1..Len(rows)
      <3> SUFFICES ASSUME NEW p \in Posts, post[p].busy, post[p].found # 0 PROVE post[p].found \in 1..Len(rows)
        OBVIOUS
      <3>1. post[p].found \in Nat /\ post[p].found <= Len(rows) /\ Len(rows) \in Nat
        BY LogFacts DEF LogShape, Sales
      <3> QED BY <3>1
    <2> QED BY <1>3, <2>1, LogFacts DEF EachSaleCloses
  <1> QED BY <1>5, <1>6 DEF LogInv, K!TradeLogAssumption

LEMMA FindOpenKeepsLog ==
    ASSUME LogInv, NEW p \in Posts, NEW f \in Fills, NEW claim \in Claims, K!FindOpen(p, f, claim) PROVE LogInv'
  <1> DEFINE n == IF K!Open(f.pair) = {} THEN 0 ELSE K!Min(K!Open(f.pair))
             s == [busy |-> TRUE, fill |-> f, claim |-> claim, found |-> n]
  <1>1. n \in 0..Len(rows) /\ (n # 0 => rows[n].open)
    <2>1. CASE K!Open(f.pair) = {}
      BY <2>1, LogFacts
    <2>2. CASE K!Open(f.pair) # {}
      <3>1. n \in K!Open(f.pair)
        BY <2>2, OldestOfPair
      <3> HIDE DEF n
      <3> QED BY <3>1, LogFacts DEF K!Open
    <2> QED BY <2>1, <2>2
  <1>2. /\ ~post[p].busy /\ Len(rows) + Cardinality(K!Busy) < MaxRows
        /\ post' = [post EXCEPT ![p] = s] /\ odd' = (IF K!Busy = {} THEN odd ELSE odd \union {"overlap"})
        /\ UNCHANGED <<rows, sold>>
    BY DEF K!FindOpen, K!Cardinality, Cardinality
  <1> HIDE DEF n
  <1>3. s \in Sales /\ s.busy /\ s.found = n
    BY <1>1, LogFacts DEF Sales
  <1> HIDE DEF s
  <1>4. /\ post' \in [Posts -> {K!Idle} \union Sales]
        /\ \A q \in Posts : post'[q] = IF q = p THEN s ELSE post[q]
    BY <1>2, <1>3, LogFacts DEF LogShape
  <1>5. K!Busy' = K!Busy \union {p} /\ p \notin K!Busy
    BY <1>2, <1>3, <1>4 DEF K!Busy
  <1>6. Cardinality(K!Busy') = Cardinality(K!Busy) + 1
    BY <1>5, LogFacts, FS_AddElement
  <1>7. LogShape'
    <2>1. odd' \in SUBSET {"overlap"}
      BY <1>2, LogFacts DEF LogShape
    <2>2. \A q \in Posts : post'[q].busy => post'[q].found <= Len(rows)
      BY <1>1, <1>3, <1>4, LogFacts DEF LogShape
    <2>3. Len(rows) + Cardinality(K!Busy') <= MaxRows
      BY <1>2, <1>6, LogFacts
    <2> QED BY <1>2, <1>4, <2>1, <2>2, <2>3, LogFacts DEF LogShape
  <1>8. EachSaleCloses'
    <2> SUFFICES ASSUME odd' = {}
                 PROVE  /\ \A q, u \in Posts : post'[q].busy /\ post'[u].busy => q = u
                        /\ \A q \in Posts : post'[q].busy /\ post'[q].found # 0 => rows[post'[q].found].open
                        /\ Cardinality(Closed') = sold
      BY <1>2 DEF EachSaleCloses
    <2>1. K!Busy = {} /\ odd = {}
      BY <1>2
    <2>2. \A q \in Posts : post'[q].busy => q = p
      BY <1>4, <2>1 DEF K!Busy
    <2>3. Closed' = Closed
      BY <1>2 DEF Closed
    <2> QED BY <1>1, <1>3, <1>4, <2>1, <2>2, <2>3, LogFacts DEF EachSaleCloses
  <1> QED BY <1>7, <1>8 DEF LogInv, K!TradeLogAssumption

LEMMA LogSellKeepsLog == ASSUME LogInv, NEW p \in Posts, K!LogSell(p) PROVE LogInv'
  <1> PICK s : s = post[p]
    OBVIOUS
  <1>1. s \in Sales /\ post[p].busy /\ s.fill \in Fills /\ s.claim \in Claims /\ s.found \in 0..Len(rows)
    <2>1. post[p].busy
      BY DEF K!LogSell
    <2>2. s \in Sales /\ s.found <= Len(rows)
      BY <2>1, LogFacts DEF LogShape
    <2>3. s.fill \in Fills /\ s.claim \in Claims /\ s.found \in Nat
      BY <2>2 DEF Sales
    <2> QED BY <2>1, <2>2, <2>3, LogFacts
  <1>2. /\ rows' = IF s.found = 0
                   THEN Append(rows, K!Row(s.fill, FALSE, s.claim.exit, s.claim.pnl))
                   ELSE [rows EXCEPT ![s.found].open = FALSE, ![s.found].exit = s.fill.price,
                                     ![s.found].pnl = s.fill.alloc - rows[s.found].alloc]
        /\ post' = [post EXCEPT ![p] = K!Idle] /\ sold' = sold + 1 /\ odd' = odd
    BY DEF K!LogSell
  <1>3. /\ post' \in [Posts -> {K!Idle} \union Sales]
        /\ \A q \in Posts : post'[q] = IF q = p THEN K!Idle ELSE post[q]
    BY <1>2, LogFacts DEF LogShape
  <1>4. ~K!Idle.busy
    BY DEF K!Idle
  <1>5. K!Busy' = K!Busy \ {p} /\ p \in K!Busy
    BY <1>1, <1>3, <1>4 DEF K!Busy
  <1>6. Cardinality(K!Busy') = Cardinality(K!Busy) - 1
    BY <1>5, LogFacts, FS_RemoveElement
  <1>7. /\ rows' \in Seq(LogRows) /\ Len(rows') \in {Len(rows), Len(rows) + 1}
        /\ odd = {} => Cardinality(Closed') = Cardinality(Closed) + 1
    <2>1. CASE s.found = 0
      <3> DEFINE r == K!Row(s.fill, FALSE, s.claim.exit, s.claim.pnl)
      <3>1. s.claim.exit \in Nat /\ s.claim.pnl \in Int \union {NoPnl}
        BY <1>1, LogFacts
      <3>2. r \in LogRows /\ r.open = FALSE
        BY <1>1, <3>1, RowLogged
      <3>3. rows' = Append(rows, r)
        BY <1>2, <2>1
      <3> HIDE DEF r
      <3> QED BY <3>2, <3>3, LogGrows
    <2>2. CASE s.found # 0
      <3> PICK k : k = s.found
        OBVIOUS
      <3>1. k \in 1..Len(rows) /\ rows \in Seq(LogRows) /\ Len(rows) \in Nat
        BY <1>1, <2>2, LogFacts DEF LogShape
      <3>2. rows[k] \in LogRows /\ rows[k].alloc \in Int
        <4>1. rows[k] \in LogRows
          BY <3>1
        <4> QED BY <4>1 DEF LogRows
      <3> DEFINE W(z, x, y) == [z EXCEPT !.open = FALSE, !.exit = x, !.pnl = y]
                 r == W(rows[k], s.fill.price, s.fill.alloc - rows[k].alloc)
      <3>3. ASSUME NEW z \in LogRows, NEW x \in Nat, NEW y \in Int
            PROVE  W(z, x, y) \in LogRows /\ W(z, x, y).open = FALSE
        BY DEF LogRows
      <3>4. s.fill.price \in Nat /\ s.fill.alloc - rows[k].alloc \in Int
        BY <1>1, <3>2, LogFacts
      <3>5. rows' = [rows EXCEPT ![k] = r]
        BY <1>2, <2>2, <3>1
      <3> HIDE DEF W
      <3>6. r \in LogRows /\ r.open = FALSE
        BY <3>2, <3>3, <3>4
      <3> HIDE DEF r
      <3>7. /\ rows' \in Seq(LogRows) /\ Len(rows') = Len(rows)
            /\ \A j \in 1..Len(rows) : rows'[j] = IF j = k THEN r ELSE rows[j]
        BY <3>1, <3>5, <3>6
      <3>8. ASSUME odd = {} PROVE Cardinality(Closed') = Cardinality(Closed) + 1
        <4>1. rows[k].open
          BY <1>1, <2>2, <3>8, LogFacts DEF EachSaleCloses
        <4>2. Closed' = Closed \union {k} /\ k \notin Closed
          BY <3>1, <3>6, <3>7, <4>1 DEF Closed
        <4> HIDE DEF Closed
        <4> QED BY <4>2, LogFacts, FS_AddElement
      <3> QED BY <3>7, <3>8
    <2> QED BY <2>1, <2>2
  <1>8. LogShape'
    <2>1. ASSUME NEW q \in Posts, post'[q].busy PROVE post'[q].found <= Len(rows')
      <3>1. post'[q] = post[q] /\ post[q].busy
        BY <1>3, <1>4, <2>1
      <3>2. post[q].found \in Nat /\ post[q].found <= Len(rows) /\ Len(rows) \in Nat
        BY <3>1, LogFacts DEF LogShape, Sales
      <3> QED BY <1>7, <3>1, <3>2
    <2>2. Len(rows') + Cardinality(K!Busy') <= MaxRows
      BY <1>6, <1>7, LogFacts DEF LogShape
    <2>3. sold' \in Nat /\ odd' \in SUBSET {"overlap"}
      BY <1>2, LogFacts DEF LogShape
    <2> QED BY <1>3, <1>7, <2>1, <2>2, <2>3 DEF LogShape
  <1>9. EachSaleCloses'
    <2> SUFFICES ASSUME odd = {}
                 PROVE  /\ \A q, u \in Posts : post'[q].busy /\ post'[u].busy => q = u
                        /\ \A q \in Posts : post'[q].busy /\ post'[q].found # 0 => rows'[post'[q].found].open
                        /\ Cardinality(Closed') = sold'
      BY <1>2 DEF EachSaleCloses
    <2>1. \A q \in Posts : ~post'[q].busy
      BY <1>1, <1>3, <1>4, LogFacts DEF EachSaleCloses
    <2> QED BY <1>2, <1>7, <2>1, LogFacts DEF EachSaleCloses
  <1> QED BY <1>8, <1>9 DEF LogInv, K!TradeLogAssumption

LEMMA LogInvInductive == LogInv /\ [K!Next]_(K!logVars) => LogInv'
  <1> SUFFICES ASSUME LogInv, [K!Next]_(K!logVars) PROVE LogInv'
    OBVIOUS
  <1>1. CASE UNCHANGED K!logVars
    <2>1. UNCHANGED <<rows, post, sold, odd>>
      BY <1>1 DEF K!logVars
    <2>2. K!Busy' = K!Busy /\ Closed' = Closed
      BY <2>1 DEF K!Busy, Closed
    <2> QED BY <2>1, <2>2 DEF LogInv, LogShape, EachSaleCloses, K!TradeLogAssumption
  <1> QED BY <1>1, LogBuyKeepsLog, FindOpenKeepsLog, LogSellKeepsLog DEF K!Next

LEMMA InitLogInv == K!TradeLogAssumption /\ IsFiniteSet(Posts) /\ K!Init => LogInv
  <1> SUFFICES ASSUME K!TradeLogAssumption, IsFiniteSet(Posts), K!Init PROVE LogInv
    OBVIOUS
  <1>1. rows = <<>> /\ post = [p \in Posts |-> K!Idle] /\ sold = 0 /\ odd = {} /\ ~K!Idle.busy
    BY DEF K!Init, K!Idle
  <1>2. K!Busy = {} /\ Closed = {}
    BY <1>1 DEF K!Busy, Closed
  <1>3. Cardinality(K!Busy) = 0 /\ Cardinality(Closed) = 0 /\ MaxRows \in Nat
    BY <1>2, FS_EmptySet DEF K!TradeLogAssumption
  <1>4. LogShape
    BY <1>1, <1>3 DEF LogShape
  <1>5. EachSaleCloses
    BY <1>1, <1>3 DEF EachSaleCloses
  <1> QED BY <1>4, <1>5 DEF LogInv

LEMMA LogInvTypes == LogInv => K!TypeOK
  <1> SUFFICES ASSUME LogInv PROVE K!TypeOK
    OBVIOUS
  <1>1. Len(rows) <= MaxRows
    BY LogFacts DEF LogShape
  <1>2. ASSUME NEW k \in DOMAIN rows
        PROVE  rows[k].alloc \in Nat /\ rows[k].entry \in Nat \ {0} /\ rows[k].exit \in Nat
               /\ rows[k].pnl \in Int \union {NoPnl} /\ rows[k].open \in BOOLEAN
    <2>1. rows[k] \in LogRows
      BY LogFacts DEF LogShape
    <2> QED BY <2>1 DEF LogRows
  <1>3. sold \in Nat /\ odd \subseteq {"overlap"}
    BY LogFacts DEF LogShape
  <1> QED BY <1>1, <1>2, <1>3 DEF K!TypeOK

\* One sale at a time closes one row.
LEMMA LogInvCloses == LogInv => K!SalesAreLogged
  <1> SUFFICES ASSUME LogInv, odd = {} PROVE Cardinality({k \in DOMAIN rows : ~rows[k].open}) = sold
    BY DEF K!SalesAreLogged, K!Cardinality, Cardinality
  <1> QED BY LogFacts DEF EachSaleCloses, Closed

\* What the slippage takes of a profit and of a price.
LEMMA SlippageOnCost ==
    ASSUME NEW a \in Nat, NEW e \in Nat, NEW z \in Nat, NEW s \in Int, NEW g \in Nat
    PROVE  a * (z - e) * (1000 - s) - g * e * 1000 = a * (z * (1000 - s) - e * 1000) - g * e * 1000 + a * s * e
  OBVIOUS

LEMMA LogInvOvershoots == LogInv => K!EstimateOvershoots
  <1> SUFFICES ASSUME LogInv PROVE K!EstimateOvershoots
    OBVIOUS
  <1>1. Gas \in Nat /\ Slippages \subseteq 0..1000
    BY DEF LogInv, K!TradeLogAssumption
  <1>2. ASSUME NEW k \in DOMAIN rows, NEW s \in Slippages
        PROVE  K!EstimatedNet(rows[k], s) =
                  rows[k].alloc * (rows[k].exit * (1000 - s) - rows[k].entry * 1000) - Gas * rows[k].entry * 1000
                  + rows[k].alloc * s * rows[k].entry
    <2>1. rows[k].alloc \in Nat /\ rows[k].entry \in Nat /\ rows[k].exit \in Nat /\ s \in Int
      <3>1. rows[k] \in LogRows
        BY LogFacts DEF LogShape
      <3> QED BY <1>1, <3>1 DEF LogRows
    <2> DEFINE a == rows[k].alloc
               e == rows[k].entry
               z == rows[k].exit
    <2>2. K!EstimatedNet(rows[k], s) = a * (z - e) * (1000 - s) - Gas * e * 1000
      BY DEF K!EstimatedNet
    <2>3. a \in Nat /\ e \in Nat /\ z \in Nat
      BY <2>1
    <2> HIDE DEF a, e, z
    <2>4. a * (z - e) * (1000 - s) - Gas * e * 1000
             = a * (z * (1000 - s) - e * 1000) - Gas * e * 1000 + a * s * e
      <3>1. s \in Int /\ Gas \in Nat
        BY <1>1, <2>1
      <3> QED BY <2>3, <3>1, SlippageOnCost
    <2> QED BY <2>2, <2>4 DEF a, e, z
  <1> QED BY <1>2 DEF K!EstimateOvershoots

\* trades.ts:213-262, roundTripPnl.ts:82-97: for any number of sales and rows,
\* each sale that did not overlap another closed a row of its own, and the
\* estimate an auto-exit goes by is too high by the slippage on the cost.
THEOREM SalesCloseRows ==
    K!TradeLogAssumption /\ IsFiniteSet(Posts) /\ K!Spec =>
        [](K!TypeOK /\ K!SalesAreLogged /\ K!EstimateOvershoots)
  <1>1. LogInv => K!TypeOK /\ K!SalesAreLogged /\ K!EstimateOvershoots
    BY LogInvTypes, LogInvCloses, LogInvOvershoots
  <1> QED BY <1>1, InitLogInv, LogInvInductive, PTL DEF K!Spec
=============================================================================
