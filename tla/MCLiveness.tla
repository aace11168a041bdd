----------------------------- MODULE MCLiveness -----------------------------
(***************************************************************************)
(* Liveness of five components that share no state: a behaviour is one of  *)
(* the scene's component while the others rest.  The fairness of every     *)
(* component's FairSpec is asked for in its own scene only.  The BSC       *)
(* wallet has two scenes: calls that overlap over one row, and rows that   *)
(* stand in each other's way in a watcher's pass.                          *)
(***************************************************************************)
EXTENDS Integers, FiniteSetsExt

CONSTANTS p1, p2, c1, c2, usdc, a, b

VARIABLES
    scene,
    row, runs, req, requests, busy, pass, pilot, auto, open, day, charged, tidy,
    usdt, tok, trade, call, cool, afloat, wd, conv, asked,
    usdtQ, tokQ, tradeQ, callQ, coolQ, afloatQ, wdQ, convQ, askedQ,
    held, changes, listing, lastGood, shown, sure, sent,
    worth, moves, today, stored, mem, inflight, refresh,
    quote, stream, warm, depth, cache, latest, run, bus, echo, online, view, lost, faults

M == INSTANCE SuperMachine WITH
        Reqs <- {c1}, MaxRequests <- 1, Passes <- {p1, p2}, Pilots <- {a}, MaxTradeUsd <- 1,
        MaxDailyTrades <- 1, MaxDailyVolumeUsd <- 1, MaxOpenPositions <- 1, PilotMaxOpen <- 1,
        LastDay <- 1, sent <- requests
W == INSTANCE BscWallet WITH
        Calls <- {c1, c2}, Lot <- 6, Fee <- 2, Cash <- 6, Deposit <- 0, Take <- 1, Others <- 0,
        MaxRows <- 1, MaxRequests <- 2
Q == INSTANCE BscWallet WITH
        Calls <- {c1}, Lot <- 6, Fee <- 1, Cash <- 12, Deposit <- 0, Take <- 2, Others <- 1,
        MaxRows <- 2, MaxRequests <- 2,
        usdt <- usdtQ, tok <- tokQ, trade <- tradeQ, call <- callQ, cool <- coolQ, afloat <- afloatQ, wd <- wdQ,
        conv <- convQ, asked <- askedQ
S == INSTANCE SolanaWallet WITH Legacy <- {usdc}, Token22 <- {b}, MaxChanges <- 1
V == INSTANCE WalletSummary WITH Pages <- {p1}, Worths <- {1, 2}, LastDay <- 1, MaxChanges <- 1
Empty == INSTANCE WalletSummary WITH Pages <- {p1}, Worths <- {0}, LastDay <- 1, MaxChanges <- 0
F == INSTANCE PriceFeed WITH Runs <- {c1}, MaxMoves <- 1, MaxFaults <- 1, MaxEchoes <- 1

ASSUME F!FeedAssumption /\ W!WalletAmounts /\ Q!WalletAmounts

machine == <<row, runs, req, requests, busy, pass, pilot, auto, open, day, charged, tidy>>
bsc == <<usdt, tok, trade, call, cool, afloat, wd, conv, asked>>
queue == <<usdtQ, tokQ, tradeQ, callQ, coolQ, afloatQ, wdQ, convQ, askedQ>>
solana == <<held, changes, listing, lastGood, shown, sure, sent>>
summary == <<worth, moves, today, stored, mem, inflight, refresh>>
feed == <<quote, stream, warm, depth, cache, latest, run, bus, echo, online, view, lost, faults>>
vars == <<scene, machine, bsc, queue, solana, summary, feed>>

\* A component that is not in the scene rests in a state where what it has to
\* come back to is so: an empty list, a page nobody looks at, a wallet that is
\* worth nothing.  The two worths of the wallet in the scene stand for each
\* other, so it starts with the first.
Init ==
    /\ scene \in {"machine", "bsc", "queue", "solana", "summary", "feed"}
    /\ M!Init /\ W!Init /\ Q!Init /\ S!Init /\ F!Init
    /\ scene # "machine" => row = M!EmptyRow
    /\ scene # "solana" => held = {}
    /\ IF scene = "summary" THEN worth = 1 /\ V!Init ELSE Empty!Init

Next ==
    \/ scene = "machine" /\ M!Next /\ UNCHANGED <<scene, bsc, queue, solana, summary, feed>>
    \/ scene = "bsc" /\ W!Next /\ UNCHANGED <<scene, machine, queue, solana, summary, feed>>
    \/ scene = "queue" /\ Q!Next /\ UNCHANGED <<scene, machine, bsc, solana, summary, feed>>
    \/ scene = "solana" /\ S!Next /\ UNCHANGED <<scene, machine, bsc, queue, summary, feed>>
    \/ scene = "summary" /\ V!Next /\ UNCHANGED <<scene, machine, bsc, queue, solana, feed>>
    \/ scene = "feed" /\ F!Next /\ UNCHANGED <<scene, machine, bsc, queue, solana, summary>>

Spec == Init /\ [][Next]_vars

\* The variables of the scene: a step of its component changes these.
current ==
    CASE scene = "machine" -> machine [] scene = "bsc" -> bsc [] scene = "queue" -> queue
      [] scene = "solana" -> solana [] scene = "summary" -> summary [] scene = "feed" -> feed

InMachine(A) == scene = "machine" /\ A /\ UNCHANGED scene
InBsc(A) == scene = "bsc" /\ A /\ UNCHANGED scene
InQueue(A) == scene = "queue" /\ A /\ UNCHANGED scene
InSolana(A) == scene = "solana" /\ A /\ UNCHANGED scene
InSummary(A) == scene = "summary" /\ A /\ UNCHANGED scene
InFeed(A) == scene = "feed" /\ A /\ UNCHANGED scene

\* The scene never changes, so fairness for one action of every scene is
\* fairness for their disjunction.
Weak ==
    /\ WF_current(\/ InMachine(\E p \in {p1, p2} : M!StartPass(p))
                  \/ InBsc(\E c \in {c1, c2} : W!StartWatch(c)) \/ InQueue(Q!StartWatch(c1))
                  \/ InSolana(S!StartListing)
                  \/ InSummary(V!Dashboard)
                  \/ InFeed(F!Tick(c1)))
    /\ WF_current(\/ InMachine(M!PassStep(p1)) \/ InBsc(W!CallStep(c1)) \/ InQueue(Q!CallStep(c1)) \/ InSolana(S!SnapshotAges)
                  \/ InSummary(V!MemAges) \/ InFeed(F!RunStep(c1)))
    /\ WF_current(\/ InMachine(M!PassStep(p2)) \/ InBsc(W!CallStep(c2)) \/ InSummary(V!RowAges)
                  \/ InSolana(\E ok \in BOOLEAN : S!ReadLegacy(ok) \/ S!ReadToken22(ok))
                  \/ InFeed(F!CacheAges))
    /\ WF_current(\/ InBsc(W!LateTx(c1) \/ W!WithdrawalTx(c1)) \/ InQueue(Q!LateTx(c1) \/ Q!WithdrawalTx(c1))
                  \/ InSummary(V!ReadChain(p1, worth) \/ V!ReadChain(p1, 0))
                  \/ InFeed(F!Connect))
    /\ WF_current(\/ InBsc(W!LateTx(c2) \/ W!WithdrawalTx(c2))
                  \/ InSummary(V!ReadChain(V!Background, worth) \/ V!ReadChain(V!Background, 0))
                  \/ InFeed(F!DepthMessage))
    /\ WF_current(InBsc(W!ConfirmWithdrawal(c1)) \/ InQueue(Q!ConfirmWithdrawal(c1)) \/ InSummary(V!Store(p1)) \/ InFeed(F!WarmUp))
    /\ WF_current(InBsc(W!ConfirmWithdrawal(c2)) \/ InQueue(Q!CooldownEnds(1)) \/ InSummary(V!Store(V!Background)) \/ InFeed(F!Echo))
    /\ WF_current(InBsc(W!CooldownEnds(1)) \/ InQueue(Q!CooldownEnds(2)))

Strong ==
    /\ SF_current(\/ InBsc(\E c \in {c1, c2} : call[c].rest # {} /\ Min(call[c].rest) = 1 /\ W!TryRow(c))
                  \/ InQueue(callQ[c1].rest # {} /\ Min(callQ[c1].rest) = 1 /\ Q!TryRow(c1))
                  \/ InSolana(S!ReadLegacy(TRUE))
                  \/ InSummary(V!ReadChain(p1, worth))
                  \/ InFeed(F!JupiterAnswers(c1)))
    /\ SF_current(\/ InBsc(\E c \in {c1, c2} : call[c].row = 1 /\ W!JudgeRow(c))
                  \/ InQueue(callQ[c1].row = 1 /\ Q!JudgeRow(c1))
                  \/ InSolana(listing.legacyOk /\ S!ReadToken22(TRUE))
                  \/ InSummary(V!ReadChain(V!Background, worth)))
    /\ SF_current(\/ InBsc(\E c \in {c1, c2} : call[c].row = 1 /\ W!CancelStale(c))
                  \/ InQueue(Q!CancelStale(c1))
                  \/ InSummary(refresh[p1].usd = worth /\ V!Store(p1) /\ stored' # stored))
    /\ SF_current(\/ InQueue(callQ[c1].rest # {} /\ Min(callQ[c1].rest) = 2 /\ Q!TryRow(c1))
                  \/ InSummary(refresh[V!Background].usd = worth /\ V!Store(V!Background) /\ stored' # stored))
    /\ SF_current(InQueue(callQ[c1].row = 2 /\ Q!JudgeRow(c1)))

FairSpec == Spec /\ Weak /\ Strong

\* SuperMachine: a machine that stays on is looked at again.
ScansAgain == M!ScansAgain
\* BscWallet: rows whose tokens are gone leave the book.
GhostRowsClear == W!GhostRowsClear /\ Q!GhostRowsClear
\* SolanaWallet, PriceFeed: the page comes back to what the wallet holds, and
\* to a price of now.
PagesCatchUp == S!HoldingsCatchUp /\ F!BrowserCatchesUp
\* WalletSummary: the row comes back to what the wallet is worth.
RowCatchesUp == V!RowCatchesUp
=============================================================================
