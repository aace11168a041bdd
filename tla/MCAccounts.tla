----------------------------- MODULE MCAccounts -----------------------------
(***************************************************************************)
(* The safety of what belongs to a user's account: the wallets and what is *)
(* bought for them, swaps signed in the browser and their log, the         *)
(* sessions, the Telegram chats, the inbox, the prices on the user's page, *)
(* and the Binance account the CEX machine and desk share.  The components *)
(* share no state in the model, so one run checks them side by side: a     *)
(* behaviour belongs to the component its scene names while the others     *)
(* rest, and the scene never changes.  The CEX machine against the manual  *)
(* desk has variables of its own; those of the other components are the    *)
(* first of v1, ..., v13, and the rest stay at Unused.  The state spaces   *)
(* add up and do not multiply.                                             *)
(***************************************************************************)
EXTENDS CexDesk, FiniteSetTheorems, TLC, TLAPS

CONSTANTS c1, c2, n1, n2, x, y, Unused

\* The constants of the components that are proved about.
CONSTANTS Tabs, Servers, MaxTokens, Legacy, Token22, MaxChanges, Calls, Lot, Fee, Cash, Deposit, Take, Others, MaxRows, MaxRequests,
          Users, Chats, Hooks, MaxLinks, MaxCodes, Buyers, BudgetUsdt, MaxPerTx, MaxBuys,
          Reqs, MaxAttempts, MaxFailed, MaxSent, Syncs, Signals, Keep, Day, AllocWindow, LastNow, MaxSyncs,
          AlertChats, Drains, MaxAttempt, Milestones, TopProfit, MaxAlerts, MaxLots

VARIABLES scene, v1, v2, v3, v4, v5, v6, v7, v8, v9, v10, v11, v12, v13

slots == <<v1, v2, v3, v4, v5, v6, v7, v8, v9, v10, v11, v12, v13>>
allVars == <<scene, cexVars, slots>>

\* The two actors of a component are alike.
Alike == Permutations({c1, c2})

\* What is proved about: the sessions, and with them the Solana wallet (S), the
\* BSC wallet (W), the chats (L), the delegate (D), signing in (G), the inbox
\* (I) and the alerts (A).
U == INSTANCE AccountsProofs WITH
        jar <- v1, session <- v2, grace <- v3, tab <- v4, excused <- v5,
        held <- v1, changes <- v2, listing <- v3, lastGood <- v4, shown <- v5, sure <- v6, sent <- v7,
        usdt <- v1, tok <- v2, trade <- v3, call <- v4, cool <- v5, afloat <- v6, wd <- v7, conv <- v8, asked <- v9,
        codes <- v1, links <- v2, hook <- v3, overlapped <- v4, rejoined <- v5,
        counted <- v1, remembered <- v2, allowance <- v3, spent <- v4, grants <- v5, buyer <- v6, buys <- v7,
        orderly <- v8,
        user <- v1, issued <- v2, http <- v3, sentReqs <- v4, tried <- v5, signedIn <- v6,
        now <- v1, synced <- v2, made <- v3, gone <- v4, sync <- v5, raced <- v6,
        wants <- v1, alerts <- v2, line <- v3, drain <- v4, arrived <- v5, told <- v6, position <- v7, mark <- v8,
        quiet <- v9, fired <- v10
\* The pair that the machine buys.
XUsdt == [base |-> x, quote |-> "USDT"]
\* Two overlapping ticks; one tick against the manual desk is CexDesk itself.
T == INSTANCE CexDeskProofs WITH
        lotRow <- v1, coins <- v2, tick <- v3, desk <- v4, peakWrites <- v5, skimHot <- v6, orders <- v7,
        entitled <- v8, burst <- v9, serial <- v10,
        Ticks <- {c1, c2}, Desk <- {}, Bases <- {x}, Watch <- XUsdt, MaxOrders <- 3, MaxTroubled <- 2

\* The summary of the wallets (V), the on-ramp (P), the prices on the page (F),
\* the swaps signed in the browser (Y) and the log of trades (K).  In the log
\* a lot can win or lose, is dust, or has a price with its decimals slipped; a
\* sale without a lot claims a loss, or an exit price of its own.  The orders
\* of the module have a run of their own.
Swaps == {[pair |-> "alt", alloc |-> 1000, price |-> 10], [pair |-> "alt", alloc |-> 40, price |-> 9],
          [pair |-> "alt", alloc |-> 900, price |-> 300]}
R == INSTANCE LedgerProofs WITH
        worth <- v1, moves <- v2, today <- v3, stored <- v4, mem <- v5, inflight <- v6, refresh <- v7,
        Pages <- {c1}, Worths <- {1}, LastDay <- 2, MaxChanges <- 0,
        step <- v1, ramp <- v2, raw <- v3, mail <- v4, minted <- v5, token <- v6, probe <- v7, orphans <- v8,
        Servers <- {n1, n2}, Providers <- {"transak", "moonpay"}, MaxTokens <- 2,
        quote <- v1, stream <- v2, warm <- v3, depth <- v4, cache <- v5, latest <- v6, run <- v7, bus <- v8, echo <- v9,
        online <- v10, view <- v11, lost <- v12, faults <- v13,
        Tickers <- {c1, c2}, MaxMoves <- 1, MaxFaults <- 1, MaxEchoes <- 2,
        wallet <- v1, swaps <- v2, known <- v3, sub <- v4, book <- v5, booked <- v6, tangled <- v7, slips <- v8,
        Submits <- {c1, c2}, Amounts <- {2, 4}, Funds <- 4, SolUsd <- 2, MaxBuilds <- 2, MaxSlips <- 1,
        rows <- v1, post <- v2, sold <- v3, odd <- v4, NoPnl <- Unused,
        Posts <- {c1, c2}, Fills <- Swaps, Claims <- {[pnl |-> -5, exit |-> 0], [pnl |-> 7, exit |-> 13]},
        Majors <- {}, Limit <- 3, Window <- 4, Gas <- 9, Slippages <- {10, 50}, MaxRows <- 4, MaxSales <- 3,
        row <- v1, remote <- v2, placing <- v3, syncing <- v4, Orders <- {x}, Syncers <- {c1, c2}, NoOrder <- Unused,
        Qty <- 1

ASSUME AccountsAssumption ==
    /\ U!SessionsAssumption /\ U!S!SolanaAssumption /\ U!W!WalletAmounts /\ U!L!ChatLinksAssumption
    /\ U!D!BudgetAssumption /\ U!G!SignInAssumption /\ T!CexAssumption
    /\ U!I!InboxAssumption /\ U!ShortClock /\ U!A!AlertsAssumption
ASSUME CexAssumption /\ R!V!SummaryAssumption
ASSUME LedgerAssumption ==
    /\ R!P!OnRampAssumption /\ R!F!FeedAssumption /\ R!Y!SelfCustodyAssumption
    /\ R!K!TradeLogAssumption /\ R!OrdersAssumption

after10 == <<v11, v12, v13>>
after9 == <<v10, after10>>
after8 == <<v9, after9>>
after7 == <<v8, after8>>
after6 == <<v7, after7>>
after5 == <<v6, after6>>
after4 == <<v5, after5>>

Rest10 == v11 = Unused /\ v12 = Unused /\ v13 = Unused
Rest9 == v10 = Unused /\ Rest10
Rest8 == v9 = Unused /\ Rest9
Rest7 == v8 = Unused /\ Rest8
Rest6 == v7 = Unused /\ Rest7
Rest5 == v6 = Unused /\ Rest6
Rest4 == v5 = Unused /\ Rest5
Rest0 == v1 = Unused /\ v2 = Unused /\ v3 = Unused /\ v4 = Unused /\ Rest4

AccountsInit ==
    /\ Init
    /\ \/ scene = "desk" /\ Rest0
       \/ /\ lotRow = Off
          /\ \/ scene = "bsc" /\ U!W!Init /\ Rest9
             \/ scene = "delegate" /\ U!D!Init /\ Rest8
             \/ scene = "solana" /\ U!S!Init /\ Rest7
             \/ scene = "summary" /\ R!V!Init /\ Rest7
             \/ scene = "session" /\ U!Init /\ Rest5
             \/ scene = "signin" /\ U!G!Init /\ Rest6
             \/ scene = "onramp" /\ R!P!Init /\ Rest8
             \/ scene = "links" /\ U!L!Init /\ Rest5
             \/ scene = "alerts" /\ U!A!Init /\ Rest10
             \/ scene = "ticks" /\ T!Init /\ Rest10
             \/ scene = "feed" /\ R!F!Init
             \/ scene = "inbox" /\ U!I!Init /\ Rest6
             \/ scene = "custody" /\ R!Y!Init /\ Rest8
             \/ scene = "log" /\ R!K!Init /\ Rest4

AccountsNext ==
    \/ scene = "bsc" /\ U!W!Next /\ UNCHANGED <<scene, cexVars, after9>>
    \/ scene = "delegate" /\ U!D!Next /\ UNCHANGED <<scene, cexVars, after8>>
    \/ scene = "solana" /\ U!S!Next /\ UNCHANGED <<scene, cexVars, after7>>
    \/ scene = "summary" /\ R!V!Next /\ UNCHANGED <<scene, cexVars, after7>>
    \/ scene = "session" /\ U!Next /\ UNCHANGED <<scene, cexVars, after5>>
    \/ scene = "signin" /\ U!G!Next /\ UNCHANGED <<scene, cexVars, after6>>
    \/ scene = "onramp" /\ R!P!Next /\ UNCHANGED <<scene, cexVars, after8>>
    \/ scene = "links" /\ U!L!Next /\ UNCHANGED <<scene, cexVars, after5>>
    \/ scene = "alerts" /\ U!A!Next /\ UNCHANGED <<scene, cexVars, after10>>
    \/ scene = "ticks" /\ T!Next /\ UNCHANGED <<scene, cexVars, after10>>
    \/ scene = "desk" /\ Next /\ UNCHANGED <<scene, slots>>
    \/ scene = "feed" /\ R!F!Next /\ UNCHANGED <<scene, cexVars>>
    \/ scene = "inbox" /\ U!I!Next /\ UNCHANGED <<scene, cexVars, after6>>
    \/ scene = "custody" /\ R!Y!Next /\ UNCHANGED <<scene, cexVars, after8>>
    \/ scene = "log" /\ R!K!Next /\ UNCHANGED <<scene, cexVars, after4>>

AccountsSpec == AccountsInit /\ [][AccountsNext]_allVars

\* The type invariant of the component in the scene.
Types ==
    CASE scene = "bsc" -> U!W!TypeOK
      [] scene = "delegate" -> U!D!TypeOK
      [] scene = "solana" -> U!S!TypeOK
      [] scene = "summary" -> R!V!TypeOK
      [] scene = "session" -> U!TypeOK
      [] scene = "signin" -> U!G!TypeOK
      [] scene = "onramp" -> R!P!TypeOK
      [] scene = "links" -> U!L!TypeOK
      [] scene = "alerts" -> U!A!TypeOK
      [] scene = "ticks" -> T!TypeOK
      [] scene = "desk" -> TypeOK
      [] scene = "feed" -> R!F!TypeOK
      [] scene = "inbox" -> U!I!TypeOK
      [] scene = "custody" -> R!Y!TypeOK
      [] scene = "log" -> R!K!TypeOK

\* BscWallet, SolanaWallet, OnRamp, PriceFeed, SelfCustody, TradeLog, CexDesk
\* with two ticks: a withdrawal shown as COMPLETED left the wallet, a purchase
\* is shown as what the provider did with it, the page shows the newest tick
\* that was sent, a browser-signed swap is booked once, at its cost and as its
\* preview said, each sale closed a row of the log, the estimate an auto-exit
\* goes by is too high by what it leaves out, and the lot of the CEX machine is
\* backed.
RowsTellTheTruth ==
    /\ scene = "bsc" => U!W!CompletedIsSent
    /\ scene = "solana" => U!S!SolanaCompletedIsSent
    /\ scene = "onramp" => R!P!RampSaysWhatHappened
    /\ scene = "feed" => R!F!QuietShowsLatest
    /\ scene = "custody" => R!Y!SwapsBookedOnce /\ R!Y!CostIsBankedOnce /\ R!Y!PreviewIsHonest
    /\ scene = "ticks" => T!LotIsBacked
    /\ scene = "log" => R!K!SalesAreLogged /\ R!K!EstimateOvershoots
\* SelfCustody, TradeLog: the open lots hold what was bought and not sold, the
\* pages of the log show every open row and every win, and they never add up
\* to less than the dashboard says.
SumsAgree ==
    /\ scene = "custody" => R!Y!LotsBalance
    /\ scene = "log" => R!K!PagesCoverWins /\ R!K!LogNeverUnderstates
\* BscWallet, DelegateBudget: a convert takes no more than the amount the user
\* named, and without overlaps the delegate stays within its budget.
SpendsAtMost ==
    /\ scene = "bsc" => U!W!ConvertTakesAtMost
    /\ scene = "delegate" => U!D!BudgetHolds
\* SolanaWallet: a listing that failed half-way hides one asset at most.
HidesAtMostOne == scene = "solana" => U!S!HidesAtMostOne
\* Sessions: tabs that refresh at the same time do not sign each other out.
StaysSignedIn == scene = "session" => U!StaysSignedIn
\* SignIn, ChatLinks, CexDesk with two ticks: wrong guesses per code, chats
\* per user, and buys per cooldown stay within their limit plus the overlap.
LimitsHold ==
    /\ scene = "signin" => U!G!OtpGuessesBounded
    /\ scene = "links" => U!L!LinksBounded
    /\ scene = "ticks" => T!BuysPerCooldown
\* Alerts, ChatLinks, SignalInbox: no step loses, doubles or reorders an alert
\* of a queue, announces a milestone again, puts a message into the inbox
\* twice or deletes a new one, and no chat changes its account.
AlertsReachTheirOwner ==
    [][/\ scene = "alerts" => (U!A!AlertsAreKept /\ U!A!MilestonesOnce)'
       /\ scene = "inbox" => (U!I!SaidOnce /\ U!I!NewestAreKept)'
       /\ scene = "links" => U!L!ChatKeepsAccount]_allVars

-----------------------------------------------------------------------------
(* What the components keep, a run of all of them keeps.                   *)

\* The inductive invariant of the component in the scene.
Kept ==
    /\ scene = "session" => U!SInv
    /\ scene = "solana" => U!SolanaInv
    /\ scene = "bsc" => U!BscInv
    /\ scene = "links" => U!LinkInv
    /\ scene = "delegate" => U!BudgetInv
    /\ scene = "signin" => U!SignInInv
    /\ scene = "ticks" => T!CInv
    /\ scene = "inbox" => U!InboxInv /\ U!ClockInv
    /\ scene = "alerts" => U!QueueInv /\ U!Climbs
    /\ scene = "onramp" => R!RampInv
    /\ scene = "feed" => R!FeedInv
    /\ scene = "custody" => R!CustodyInv
    /\ scene = "log" => R!LogInv

\* There are two actors of a kind at most.
LEMMA ActorsAreFinite == R!IsFiniteSet({c1, c2})
  <1>1. IsFiniteSet({c1}) /\ {c1, c2} = {c1} \union {c2}
    BY FS_Singleton
  <1>2. IsFiniteSet({c1, c2})
    BY <1>1, FS_AddElement
  <1> QED BY <1>2 DEF R!IsFiniteSet, IsFiniteSet

\* The component of the scene starts as it does by itself ...
LEMMA InitKept == AccountsInit => Kept
  <1> SUFFICES ASSUME AccountsInit PROVE Kept
    OBVIOUS
  <1>1. CASE scene = "session"
    <2>1. U!Init
      BY <1>1 DEF AccountsInit
    <2> QED BY <1>1, <2>1, AccountsAssumption, U!InitSInv DEF Kept
  <1>2. CASE scene = "solana"
    <2>1. U!S!Init
      BY <1>2 DEF AccountsInit
    <2> QED BY <1>2, <2>1, AccountsAssumption, U!InitSolanaInv DEF Kept
  <1>3. CASE scene = "bsc"
    <2>1. U!W!Init
      BY <1>3 DEF AccountsInit
    <2> QED BY <1>3, <2>1, AccountsAssumption, U!InitBscInv DEF Kept
  <1>4. CASE scene = "links"
    <2>1. U!L!Init
      BY <1>4 DEF AccountsInit
    <2> QED BY <1>4, <2>1, AccountsAssumption, U!InitLinkInv DEF Kept
  <1>5. CASE scene = "delegate"
    <2>1. U!D!Init
      BY <1>5 DEF AccountsInit
    <2> QED BY <1>5, <2>1, AccountsAssumption, U!InitBudgetInv DEF Kept
  <1>6. CASE scene = "signin"
    <2>1. U!G!Init
      BY <1>6 DEF AccountsInit
    <2> QED BY <1>6, <2>1, AccountsAssumption, U!InitSignInInv DEF Kept
  <1>7. CASE scene = "ticks"
    <2>1. T!Init
      BY <1>7 DEF AccountsInit
    <2> QED BY <1>7, <2>1, AccountsAssumption, T!InitCInv DEF Kept
  <1>8. CASE scene = "inbox"
    <2>1. U!I!Init
      BY <1>8 DEF AccountsInit
    <2> QED BY <1>8, <2>1, AccountsAssumption, U!InitInboxInv, U!InitClockInv DEF Kept
  <1>9. CASE scene = "alerts"
    <2>1. U!A!Init
      BY <1>9 DEF AccountsInit
    <2> QED BY <1>9, <2>1, AccountsAssumption, U!InitQueueInv, U!InitClimbs DEF Kept
  <1>10. CASE scene = "onramp"
    <2>1. R!P!Init
      BY <1>10 DEF AccountsInit
    <2> QED BY <1>10, <2>1, LedgerAssumption, R!InitRampInv DEF Kept
  <1>11. CASE scene = "feed"
    <2>1. R!F!Init
      BY <1>11 DEF AccountsInit
    <2> QED BY <1>11, <2>1, LedgerAssumption, R!InitFeedInv DEF Kept
  <1>12. CASE scene = "custody"
    <2>1. R!Y!Init
      BY <1>12 DEF AccountsInit
    <2> QED BY <1>12, <2>1, LedgerAssumption, ActorsAreFinite, R!InitCustodyInv DEF Kept
  <1>13. CASE scene = "log"
    <2>1. R!K!Init
      BY <1>13 DEF AccountsInit
    <2> QED BY <1>13, <2>1, LedgerAssumption, ActorsAreFinite, R!InitLogInv DEF Kept
  <1> QED BY <1>1, <1>2, <1>3, <1>4, <1>5, <1>6, <1>7, <1>8, <1>9,
            <1>10, <1>11, <1>12, <1>13 DEF Kept

\* ... and steps as it does by itself, or rests.
LEMMA KeptInductive == Kept /\ [AccountsNext]_allVars => Kept'
  <1> SUFFICES ASSUME Kept, [AccountsNext]_allVars PROVE Kept'
    OBVIOUS
  <1>0. scene' = scene
    BY DEF AccountsNext, allVars
  <1>1. CASE scene = "session"
    <2>1. [U!Next]_(U!sessionVars)
      BY <1>1 DEF AccountsNext, allVars, slots, U!sessionVars
    <2> QED BY <1>0, <1>1, <2>1, U!SInvInductive DEF Kept
  <1>2. CASE scene = "solana"
    <2>1. [U!S!Next]_(U!S!solanaVars)
      BY <1>2 DEF AccountsNext, allVars, slots, U!S!solanaVars
    <2> QED BY <1>0, <1>2, <2>1, U!SolanaInvInductive DEF Kept
  <1>3. CASE scene = "bsc"
    <2>1. [U!W!Next]_(U!W!walletVars)
      BY <1>3 DEF AccountsNext, allVars, slots, U!W!walletVars
    <2> QED BY <1>0, <1>3, <2>1, U!BscInvInductive DEF Kept
  <1>4. CASE scene = "links"
    <2>1. [U!L!Next]_(U!L!linkVars)
      BY <1>4 DEF AccountsNext, allVars, slots, U!L!linkVars
    <2> QED BY <1>0, <1>4, <2>1, U!LinkInvInductive DEF Kept
  <1>5. CASE scene = "delegate"
    <2>1. [U!D!Next]_(U!D!delegateVars)
      BY <1>5 DEF AccountsNext, allVars, slots, U!D!delegateVars
    <2> QED BY <1>0, <1>5, <2>1, U!BudgetInvInductive DEF Kept
  <1>6. CASE scene = "signin"
    <2>1. [U!G!Next]_(U!G!signInVars)
      BY <1>6 DEF AccountsNext, allVars, slots, U!G!signInVars
    <2> QED BY <1>0, <1>6, <2>1, U!SignInInvInductive DEF Kept
  <1>7. CASE scene = "ticks"
    <2>1. [T!Next]_(T!cexVars)
      BY <1>7 DEF AccountsNext, allVars, slots, T!cexVars
    <2> QED BY <1>0, <1>7, <2>1, T!CInvInductive DEF Kept
  <1>8. CASE scene = "inbox"
    <2>1. [U!I!Next]_(U!I!inboxVars)
      BY <1>8 DEF AccountsNext, allVars, slots, U!I!inboxVars
    <2>2. U!InboxInv /\ U!ClockInv /\ U!Prompt
      BY <1>8, U!ClockInvPrompt DEF Kept
    <2> QED BY <1>0, <1>8, <2>1, <2>2, U!InboxInvInductive, U!ClockInvInductive DEF Kept
  <1>9. CASE scene = "alerts"
    <2>1. [U!A!Next]_(U!A!alertVars)
      BY <1>9 DEF AccountsNext, allVars, slots, U!A!alertVars
    <2> QED BY <1>0, <1>9, <2>1, U!QueueInvInductive, U!ClimbsInductive DEF Kept
  <1>10. CASE scene = "onramp"
    <2>1. [R!P!Next]_(R!P!rampVars)
      BY <1>10 DEF AccountsNext, allVars, slots, R!P!rampVars
    <2> QED BY <1>0, <1>10, <2>1, LedgerAssumption, R!RampInvInductive DEF Kept
  <1>11. CASE scene = "feed"
    <2>1. [R!F!Next]_(R!F!feedVars)
      BY <1>11 DEF AccountsNext, allVars, slots, R!F!feedVars
    <2> QED BY <1>0, <1>11, <2>1, LedgerAssumption, R!FeedInvInductive DEF Kept
  <1>12. CASE scene = "custody"
    <2>1. [R!Y!Next]_(R!Y!custodyVars)
      BY <1>12 DEF AccountsNext, allVars, slots, R!Y!custodyVars
    <2> QED BY <1>0, <1>12, <2>1, LedgerAssumption, R!CustodyInvInductive DEF Kept
  <1>13. CASE scene = "log"
    <2>1. [R!K!Next]_(R!K!logVars)
      BY <1>13 DEF AccountsNext, allVars, slots, R!K!logVars
    <2> QED BY <1>0, <1>13, <2>1, LedgerAssumption, R!LogInvInductive DEF Kept
  <1> QED BY <1>0, <1>1, <1>2, <1>3, <1>4, <1>5, <1>6, <1>7, <1>8, <1>9,
            <1>10, <1>11, <1>12, <1>13 DEF Kept

\* auth.ts:166-170, in a run of all the components: tabs that rotate the same
\* token at the same time never sign the browser out.
THEOREM RunStaysSignedIn == AccountsSpec => []StaysSignedIn
  <1>1. Kept => StaysSignedIn
    BY U!SInvStays DEF Kept, StaysSignedIn
  <1> QED BY <1>1, InitKept, KeptInductive, PTL DEF AccountsSpec

\* solanaPersonalWalletService.ts:420-451, in a run of all the components: a
\* listing that failed half-way hides one asset at most.
THEOREM RunHidesAtMostOne == AccountsSpec => []HidesAtMostOne
  <1>1. Kept => HidesAtMostOne
    BY U!SolanaInvHides DEF Kept, HidesAtMostOne
  <1> QED BY <1>1, InitKept, KeptInductive, PTL DEF AccountsSpec

\* personalWalletService.ts:1666-1680 and hotWalletDelegate.ts:148-166, in a
\* run of all the components: a convert takes no more than the user named, but
\* for a fee that lands late, and the delegate keeps its budget, once for
\* every approval if buys overlap.
THEOREM RunSpendsAtMost == AccountsSpec => []SpendsAtMost
  <1>1. Kept => SpendsAtMost
    BY U!BscInvTakes, U!BudgetInvHolds DEF Kept, SpendsAtMost
  <1> QED BY <1>1, InitKept, KeptInductive, PTL DEF AccountsSpec

\* What the rows, the pages and the previews of RowsTellTheTruth say, in a run
\* of all the components, is what happened.
THEOREM RunTellsTheTruth == AccountsSpec => []RowsTellTheTruth
  <1>1. Kept => RowsTellTheTruth
    <2>1. U!BscInv => U!W!CompletedIsSent
      BY U!BscInvIsTrue
    <2>2. U!SolanaInv => U!S!SolanaCompletedIsSent
      BY U!SolanaInvIsTrue
    <2>3. R!RampInv => R!P!RampSaysWhatHappened
      BY DEF R!RampInv
    <2>4. R!FeedInv => R!F!QuietShowsLatest
      BY DEF R!FeedInv, R!PageInv
    <2>5. R!CustodyInv => R!Y!SwapsBookedOnce /\ R!Y!CostIsBankedOnce /\ R!Y!PreviewIsHonest
      BY LedgerAssumption, R!CustodyInvBooks, R!CustodyInvPreviews DEF R!CustodyInv
    <2>6. T!CInv => T!LotIsBacked
      BY T!CInvBacked
    <2>7. R!LogInv => R!K!SalesAreLogged /\ R!K!EstimateOvershoots
      BY LedgerAssumption, R!LogInvCloses, R!LogInvOvershoots
    <2> QED BY <2>1, <2>2, <2>3, <2>4, <2>5, <2>6, <2>7 DEF Kept, RowsTellTheTruth
  <1> QED BY <1>1, InitKept, KeptInductive, PTL DEF AccountsSpec

\* auth.ts:343-357, telegramService.ts:301-307, cexSuperMachineService.ts:670-672:
\* wrong guesses of a code, linked chats of a user and buys of a cooldown keep
\* to their limit, but for what overlaps.
THEOREM RunLimitsHold == AccountsSpec => []LimitsHold
  <1>1. Kept => LimitsHold
    BY U!SignInInvBounds, U!LinkInvBounds, T!CInvBuys DEF Kept, LimitsHold
  <1> QED BY <1>1, InitKept, KeptInductive, PTL DEF AccountsSpec

\* What the invariant says of the alerts and of the inbox.
AlertsHold == scene = "alerts" => U!A!AlertsAreKept /\ U!A!MilestonesOnce
InboxHolds == scene = "inbox" => U!I!SaidOnce /\ U!I!NewestAreKept

\* telegramService.ts:177-335, positionUpdateService.ts:69-116 and
\* inboxService.ts:70-114, in a run of all the components: no step loses,
\* doubles or reorders an alert of a queue, announces a milestone again, puts a
\* message into the inbox twice or deletes a new one, and no chat changes its
\* account.
THEOREM RunAlertsReachTheirOwner == AccountsSpec => AlertsReachTheirOwner
  <1>1. Kept => AlertsHold /\ InboxHolds
    BY U!QueueInvKeeps, U!ClimbsOnce, U!InboxInvMeans DEF Kept, AlertsHold, InboxHolds
  <1>2. Kept /\ AlertsHold' /\ InboxHolds' /\ [AccountsNext]_allVars =>
           [/\ scene = "alerts" => (U!A!AlertsAreKept /\ U!A!MilestonesOnce)'
            /\ scene = "inbox" => (U!I!SaidOnce /\ U!I!NewestAreKept)'
            /\ scene = "links" => U!L!ChatKeepsAccount]_allVars
    <2> SUFFICES ASSUME Kept, AlertsHold', InboxHolds', [AccountsNext]_allVars
                 PROVE  /\ scene = "alerts" => (U!A!AlertsAreKept /\ U!A!MilestonesOnce)'
                        /\ scene = "inbox" => (U!I!SaidOnce /\ U!I!NewestAreKept)'
                        /\ scene = "links" => U!L!ChatKeepsAccount
      OBVIOUS
    <2>1. scene' = scene
      BY DEF AccountsNext, allVars
    <2>2. scene = "links" => U!L!ChatKeepsAccount
      <3>1. scene = "links" => [U!L!Next]_(U!L!linkVars)
        BY DEF AccountsNext, allVars, slots, U!L!linkVars
      <3> QED BY <3>1, U!OwnersStay DEF Kept
    <2> QED BY <2>1, <2>2 DEF AlertsHold, InboxHolds
  <1> QED BY <1>1, <1>2, InitKept, KeptInductive, PTL DEF AccountsSpec, AlertsReachTheirOwner
=============================================================================
