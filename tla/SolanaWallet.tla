---------------------------- MODULE SolanaWallet ----------------------------
(***************************************************************************)
(* A user's Solana wallet (services/wallet/solanaPersonalWalletService.ts) *)
(* on one server: the list of holdings with its last-good snapshot, and    *)
(* withdrawals.  A holding is a mint; native SOL, which is read live on    *)
(* every listing, is left out.                                             *)
(***************************************************************************)
EXTENDS Integers, FiniteSets

CONSTANTS
    Legacy,      \* mints of the SPL token program
    Token22,     \* mints of the Token-2022 program
    MaxChanges   \* bound: how often the wallet gains or loses mints

SolanaAssumption == MaxChanges \in Nat /\ IsFiniteSet(Legacy) /\ IsFiniteSet(Token22)

VARIABLES
    held,       \* the mints the wallet holds, on the chain
    changes,
    listing,    \* the enumeration in flight; parallel callers share it
    lastGood,   \* holdingsLastGood
    shown,      \* what the last listing returned
    sure,       \* history: lastGood covered the wallet; since then the wallet has not
                \* changed and the snapshot not aged
    sent        \* a withdrawal: its row and its transaction

solanaVars == <<held, changes, listing, lastGood, shown, sure, sent>>

Mints == Legacy \union Token22
NoListing == [pc |-> "idle", seen |-> {}, legacyOk |-> FALSE]
NoSnapshot == [mints |-> {}, fresh |-> FALSE]
NotSent == [pc |-> "idle", st |-> "none", chain |-> "none"]

Init ==
    /\ held \in SUBSET Mints
    /\ changes = 0
    /\ listing = NoListing
    /\ lastGood = NoSnapshot
    /\ shown = {}
    /\ sure = FALSE
    /\ sent = NotSent

(* Trades and deposits (external).                                         *)
WalletChanges ==
    /\ changes < MaxChanges
    /\ changes' = changes + 1
    /\ \E h \in SUBSET Mints : h # held /\ held' = h
    /\ sure' = FALSE
    /\ UNCHANGED <<listing, lastGood, shown, sent>>

-----------------------------------------------------------------------------
(* listSolanaHoldingsForOwner: legacy program, then Token-2022, each of    *)
(* which may fail on every node of the pool.                               *)

StartListing ==
    /\ listing.pc = "idle"
    /\ listing' = [NoListing EXCEPT !.pc = "legacy"]
    /\ UNCHANGED <<held, changes, lastGood, shown, sure, sent>>

ReadLegacy(ok) ==
    /\ listing.pc = "legacy"
    /\ listing' = [pc |-> "token22", seen |-> IF ok THEN held \intersect Legacy ELSE {}, legacyOk |-> ok]
    /\ UNCHANGED <<held, changes, lastGood, shown, sure, sent>>

(* Mutant: one mint more may be missing before the snapshot is preferred.  *)
ShrankByThree(seen) == Cardinality(lastGood.mints) > Cardinality(seen) + 2

Shrank(seen) == Cardinality(lastGood.mints) > Cardinality(seen) + 1

(* Mutant: the age of the snapshot is not looked at.                       *)
ServesOldSnapshot(seen, legacyOk) == Shrank(seen) \/ (~legacyOk /\ lastGood.mints # {})

(* A fresh snapshot stands in for a list that lost two mints or more, and  *)
(* for any list without the legacy program.                                *)
ServesLastGood(seen, legacyOk) ==
    lastGood.fresh /\ (Shrank(seen) \/ (~legacyOk /\ lastGood.mints # {}))

(* The snapshot is replaced by a list that is not empty, or when it is old.*)
SnapshotAfter(seen, legacyOk) ==
    IF ServesLastGood(seen, legacyOk) THEN lastGood
    ELSE IF seen # {} \/ ~lastGood.fresh THEN [mints |-> seen, fresh |-> TRUE] ELSE lastGood

ReadToken22(ok) ==
    /\ listing.pc = "token22"
    /\ LET seen == listing.seen \union (IF ok THEN held \intersect Token22 ELSE {})
           good == SnapshotAfter(seen, listing.legacyOk)
       IN  /\ lastGood' = good
           /\ shown' = IF ServesLastGood(seen, listing.legacyOk) THEN lastGood.mints ELSE seen
           /\ sure' = (sure \/ (ok /\ listing.legacyOk /\ seen = held /\ held \subseteq good.mints))
    /\ listing' = NoListing
    /\ UNCHANGED <<held, changes, sent>>

(* The balance of native SOL cannot be read: the listing throws.           *)
ListingThrows ==
    /\ listing.pc = "legacy"
    /\ listing' = NoListing
    /\ UNCHANGED <<held, changes, lastGood, shown, sure, sent>>

(* Ten minutes pass.                                                       *)
SnapshotAges ==
    /\ lastGood.fresh
    /\ lastGood' = [lastGood EXCEPT !.fresh = FALSE]
    /\ sure' = FALSE
    /\ UNCHANGED <<held, changes, listing, shown, sent>>

-----------------------------------------------------------------------------
(* withdrawFromSolanaWallet: checks, PROCESSING row, sendAndConfirm, row.  *)

RequestWithdrawal ==
    /\ sent = NotSent
    /\ sent' = [NotSent EXCEPT !.pc = "send", !.st = "PROCESSING"]
    /\ UNCHANGED <<held, changes, listing, lastGood, shown, sure>>

(* Confirmed; refused before it was sent; or sent and not confirmed in     *)
(* time, which is recorded as FAILED as well.                              *)
SendAndConfirm ==
    /\ sent.pc = "send"
    /\ \/ sent' = [sent EXCEPT !.pc = "record", !.chain = "landed"]
       \/ sent' = [sent EXCEPT !.pc = "fail"]
       \/ sent' = [sent EXCEPT !.pc = "fail", !.chain = "pending"]
    /\ UNCHANGED <<held, changes, listing, lastGood, shown, sure>>

RecordFailure == sent' = [sent EXCEPT !.pc = "idle", !.st = "FAILED"]

(* The row is updated; an update that throws after COMPLETED was meant     *)
(* falls into the catch.                                                   *)
RecordWithdrawal ==
    /\ \/ sent.pc = "record" /\ sent' = [sent EXCEPT !.pc = "idle", !.st = "COMPLETED"]
       \/ sent.pc = "record" /\ sent' = [sent EXCEPT !.pc = "fail"]
       \/ sent.pc = "fail" /\ RecordFailure
       \/ sent.pc = "fail" /\ sent' = [sent EXCEPT !.pc = "idle"]
    /\ UNCHANGED <<held, changes, listing, lastGood, shown, sure>>

LateWithdrawal ==
    /\ sent.chain = "pending"
    /\ \E fate \in {"landed", "expired"} : sent' = [sent EXCEPT !.chain = fate]
    /\ UNCHANGED <<held, changes, listing, lastGood, shown, sure>>

(* The process dies and starts again with empty maps.                      *)
Restart ==
    /\ listing' = NoListing
    /\ lastGood' = NoSnapshot
    /\ sure' = FALSE
    /\ sent' = [sent EXCEPT !.pc = "idle"]
    /\ UNCHANGED <<held, changes, shown>>

Next ==
    \/ WalletChanges \/ StartListing \/ ListingThrows \/ SnapshotAges
    \/ \E ok \in BOOLEAN : ReadLegacy(ok) \/ ReadToken22(ok)
    \/ RequestWithdrawal \/ SendAndConfirm \/ RecordWithdrawal \/ LateWithdrawal
    \/ Restart

Spec == Init /\ [][Next]_solanaVars

(* The wallet page keeps polling, snapshots age, and the pool of nodes is  *)
(* not down for one of the programs every time.                            *)
Fairness ==
    /\ WF_solanaVars(StartListing) /\ WF_solanaVars(SnapshotAges)
    /\ WF_solanaVars(\E ok \in BOOLEAN : ReadLegacy(ok) \/ ReadToken22(ok))
    /\ SF_solanaVars(ReadLegacy(TRUE))
    /\ SF_solanaVars(listing.legacyOk /\ ReadToken22(TRUE))

FairSpec == Spec /\ Fairness

-----------------------------------------------------------------------------
(* Every variable keeps its shape.                                         *)
TypeOK ==
    /\ held \subseteq Mints /\ shown \subseteq Mints
    /\ changes \in 0..MaxChanges /\ sure \in BOOLEAN
    /\ listing \in [pc : {"idle", "legacy", "token22"}, seen : SUBSET Mints, legacyOk : BOOLEAN]
    /\ lastGood \in [mints : SUBSET Mints, fresh : BOOLEAN]
    /\ sent \in [pc : {"idle", "send", "record", "fail"},
                 st : {"none", "PROCESSING", "COMPLETED", "FAILED"},
                 chain : {"none", "pending", "landed", "expired"}]

(* solanaPersonalWalletService.ts:420-451: once a complete list has been   *)
(* kept, no sequence of failing enumerations makes the wallet page lose    *)
(* more than one mint that is held, until the snapshot is ten minutes old. *)
(* A list short of one mint also replaces the snapshot, and the next       *)
(* failure is measured against that; still the losses do not add up.       *)
HidesAtMostOne == sure => Cardinality(held \ shown) <= 1

(* solanaPersonalWalletService.ts:590-611: COMPLETED is only ever written  *)
(* for a transfer that left the wallet.                                    *)
SolanaCompletedIsSent == sent.st = "COMPLETED" => sent.chain = "landed"

(* The snapshot also shows mints that were sold.  It is never renewed by   *)
(* being served, so the page comes back to what the wallet holds.          *)
HoldingsCatchUp == []<>(shown = held)
=============================================================================
