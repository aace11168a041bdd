---------------------------- MODULE WalletSummary ----------------------------
(***************************************************************************)
(* What the dashboard shows of a user's BSC wallet (personalWalletService. *)
(* ts): the value stored in the personalWallet row, the summary kept in    *)
(* memory for 30 s, and the refresh that reads the chain: started by the   *)
(* wallet page, or in the background by a dashboard that finds the row     *)
(* older than 90 s, at most one of these at a time.  A refresh is given up *)
(* after 12 s but keeps running behind the caller's back.                  *)
(***************************************************************************)
EXTENDS Integers, FiniteSets

CONSTANTS
    Pages,      \* wallet page requests that may be in flight at once
    Worths,     \* what the wallet may be worth; 0 is what a failed read adds up to
    LastDay, MaxChanges

SummaryAssumption ==
    LastDay \in Nat \ {0} /\ MaxChanges \in Nat /\ Worths \subseteq Nat \ {0} /\ Worths # {}

VARIABLES
    worth,      \* on the chain
    moves,      \* how often it changed
    today,
    stored,     \* the row: lastUsdValue, lastSyncedAt, the day anchor
    mem,        \* walletSummaryMemCache
    inflight,   \* walletSummaryInflight holds this user
    refresh     \* the refreshes under way

summaryVars == <<worth, moves, today, stored, mem, inflight, refresh>>

Background == "background"
Jobs == Pages \union {Background}
NoMem == [usd |-> 0, fresh |-> FALSE]
Resting == [pc |-> "idle", caller |-> FALSE, anchorDay |-> 0, usd |-> 0, anchor |-> 0]

Init ==
    /\ worth \in Worths /\ moves = 0 /\ today = 1
    /\ stored = [usd |-> 0, fresh |-> FALSE, anchorDay |-> 0, anchorUsd |-> 0]
    /\ mem = NoMem
    /\ inflight = FALSE
    /\ refresh = [j \in Jobs |-> Resting]

(* rememberWalletSummary.                                                  *)
Remember(usd) == mem' = [usd |-> usd, fresh |-> TRUE]

Start(j) == [refresh EXCEPT ![j] = [Resting EXCEPT !.pc = "read", !.caller = TRUE,
                                                    !.anchorDay = stored.anchorDay]]

-----------------------------------------------------------------------------
RowIsStale == ~stored.fresh

(* getPersonalWalletSummaryForDashboard: from memory while it is young,    *)
(* else from the row, which is remembered; an old row is refreshed behind  *)
(* the dashboard unless that is already under way.                         *)
Dashboard ==
    /\ ~mem.fresh
    /\ Remember(stored.usd)
    /\ IF RowIsStale /\ ~inflight /\ refresh[Background].pc = "idle"
         THEN inflight' = TRUE /\ refresh' = Start(Background)
         ELSE UNCHANGED <<inflight, refresh>>
    /\ UNCHANGED <<worth, moves, today, stored>>

WalletPage(p) ==
    /\ refresh[p].pc = "idle"
    /\ refresh' = Start(p)
    /\ UNCHANGED <<worth, moves, today, stored, mem, inflight>>

(* getPersonalWalletSummaryInner: the balances, of which a failed read     *)
(* counts as nothing, then the day anchor as the row said before.          *)
ReadChain(j, usd) ==
    /\ refresh[j].pc = "read"
    /\ refresh' = [refresh EXCEPT ![j].pc = "store", ![j].usd = usd,
                                  ![j].anchor = IF refresh[j].anchorDay < today THEN today ELSE 0]
    /\ UNCHANGED <<worth, moves, today, stored, mem, inflight>>

(* The caller, if it still waits, remembers the live summary; a background *)
(* refresh is over for walletSummaryInflight.                              *)
Finish(j) ==
    /\ refresh' = [refresh EXCEPT ![j] = Resting]
    /\ IF refresh[j].caller THEN Remember(refresh[j].usd) ELSE UNCHANGED mem
    /\ inflight' = (inflight /\ ~(j = Background /\ refresh[j].caller))

(* The row is written, or the write fails and is only logged.              *)
Store(j) ==
    /\ refresh[j].pc = "store"
    /\ \/ stored' = [stored EXCEPT !.usd = refresh[j].usd, !.fresh = TRUE,
                        !.anchorDay = IF refresh[j].anchor > 0 THEN refresh[j].anchor ELSE @,
                        !.anchorUsd = IF refresh[j].anchor > 0 THEN refresh[j].usd ELSE @]
       \/ UNCHANGED stored
    /\ Finish(j)
    /\ UNCHANGED <<worth, moves, today>>

(* Mutant: the caller that gives up does not leave walletSummaryInflight.  *)
TimeoutKeepsInflight(j) ==
    /\ refresh[j].pc # "idle" /\ refresh[j].caller
    /\ refresh' = [refresh EXCEPT ![j].caller = FALSE]
    /\ Remember(stored.usd)
    /\ UNCHANGED <<worth, moves, today, stored, inflight>>

(* After 12 s the caller takes the row as it is, remembers that, and       *)
(* leaves; the reads go on and still write the row.                        *)
Timeout(j) ==
    /\ refresh[j].pc # "idle" /\ refresh[j].caller
    /\ refresh' = [refresh EXCEPT ![j].caller = FALSE]
    /\ Remember(stored.usd)
    /\ inflight' = (inflight /\ j # Background)
    /\ UNCHANGED <<worth, moves, today, stored>>

-----------------------------------------------------------------------------
(* Time and the chain.                                                     *)
MemAges ==
    /\ mem.fresh /\ mem' = [mem EXCEPT !.fresh = FALSE]
    /\ UNCHANGED <<worth, moves, today, stored, inflight, refresh>>

RowAges ==
    /\ stored.fresh /\ stored' = [stored EXCEPT !.fresh = FALSE]
    /\ UNCHANGED <<worth, moves, today, mem, inflight, refresh>>

Midnight ==
    /\ today < LastDay /\ today' = today + 1
    /\ UNCHANGED <<worth, moves, stored, mem, inflight, refresh>>

WorthChanges ==
    /\ moves < MaxChanges /\ moves' = moves + 1
    /\ worth' \in Worths \ {worth}
    /\ UNCHANGED <<today, stored, mem, inflight, refresh>>

Restart ==
    /\ mem' = NoMem /\ inflight' = FALSE
    /\ refresh' = [j \in Jobs |-> Resting]
    /\ UNCHANGED <<worth, moves, today, stored>>

Next ==
    \/ Dashboard \/ MemAges \/ RowAges \/ Midnight \/ WorthChanges \/ Restart
    \/ \E p \in Pages : WalletPage(p)
    \/ \E j \in Jobs : ReadChain(j, worth) \/ ReadChain(j, 0) \/ Store(j) \/ Timeout(j)

Spec == Init /\ [][Next]_summaryVars

(* Somebody looks at the dashboard, memory and row get old, a background   *)
(* refresh runs on; a refresh does not fail to read the chain, to write    *)
(* the row or to survive every time.  No page request is assumed.          *)
Fairness ==
    /\ WF_summaryVars(Dashboard) /\ WF_summaryVars(MemAges) /\ WF_summaryVars(RowAges)
    /\ \A j \in Jobs : WF_summaryVars(ReadChain(j, worth) \/ ReadChain(j, 0))
    /\ \A j \in Jobs : SF_summaryVars(ReadChain(j, worth))
    /\ \A j \in Jobs : WF_summaryVars(Store(j))
    /\ \A j \in Jobs : SF_summaryVars(refresh[j].usd = worth /\ Store(j) /\ stored' # stored)

FairSpec == Spec /\ Fairness

-----------------------------------------------------------------------------
(* Every variable keeps its shape; the anchor is never of a day to come.   *)
TypeOK ==
    /\ worth \in Worths /\ moves \in 0..MaxChanges /\ today \in 1..LastDay
    /\ stored \in [usd : Worths \union {0}, fresh : BOOLEAN, anchorDay : 0..today,
                   anchorUsd : Worths \union {0}]
    /\ mem \in [usd : Worths \union {0}, fresh : BOOLEAN]
    /\ inflight \in BOOLEAN
    /\ refresh \in [Jobs -> [pc : {"idle", "read", "store"}, caller : BOOLEAN,
                             anchorDay : 0..LastDay, usd : Worths \union {0}, anchor : 0..LastDay]]

(* personalWalletService.ts:236-269: the row the dashboard is built from   *)
(* keeps coming back to what the wallet is worth, although the dashboard   *)
(* never reads the chain itself: no timeout, failed write or restart       *)
(* leaves the user in walletSummaryInflight for good, and remembering the  *)
(* row does not pass for a refresh.                                        *)
RowCatchesUp == []<>(stored.usd = worth)
=============================================================================
