------------------------------ MODULE BscWallet ------------------------------
(***************************************************************************)
(* One user's BSC wallet (services/wallet/personalWalletService.ts) and    *)
(* the trade book of one token kept beside it, with the exit watcher       *)
(* (services/trading/dexOpenPositionWatcher.ts).                           *)
(*                                                                         *)
(* Every call signs with the same key and every one reads balances, sends  *)
(* a transaction, waits and writes a row, with an await at each step.  A   *)
(* transaction whose wait throws may still land: it is then "afloat".      *)
(* One token unit is worth one USDT; the 15 bps a sell leaves behind and   *)
(* the 2% by which a sell may exceed its lot are below one unit.  The      *)
(* audit row of an orphan SELL, born CLOSED, is not kept.                  *)
(***************************************************************************)
EXTENDS Integers, FiniteSets, FiniteSetsExt

CONSTANTS
    Calls,          \* calls that may be in flight at once, the watcher's included
    Lot,            \* what a BUY, a SELL, a withdrawal or a convert asks for
    Fee,            \* the platform fee of a convert, in tokens
    Cash, Deposit,  \* USDT and tokens in the wallet at the start
    Take, Others,   \* rows a pass of the watcher reads; other users' rows that may be older
    MaxRows,        \* BUY rows
    MaxRequests     \* requests of the user

WalletAmounts ==
    /\ Lot \in Nat \ {0} /\ Fee \in Nat /\ Cash \in Nat /\ Deposit \in Nat
    /\ MaxRows \in Nat /\ MaxRequests \in Nat /\ Take \in Nat /\ Others \in Nat

VARIABLES
    usdt, tok,    \* balances on the chain
    trade,        \* the trade rows, oldest first
    call,         \* the calls in flight
    cool,         \* exitCooldown: rows the watcher leaves alone
    afloat,       \* per call slot, a transaction whose caller gave up waiting
    wd,           \* the withdrawal row of each call slot and its transaction
    conv,         \* history: what the convert of a slot has taken so far
    asked         \* requests so far

walletVars == <<usdt, tok, trade, call, cool, afloat, wd, conv, asked>>

-----------------------------------------------------------------------------
Rows == 1..MaxRows
NoRow == 0
NoTx == [kind |-> "none", amt |-> 0]
Idle == [pc |-> "idle", kind |-> "none", amt |-> 0, row |-> NoRow, rest |-> {},
         tokBefore |-> 0, usdtBefore |-> 0]
NoWithdrawal == [st |-> "none", hash |-> FALSE, chain |-> "none", waiting |-> FALSE]
NoConvert == [asked |-> 0, took |-> 0, blind |-> FALSE]

OpenRows == {r \in Rows : trade[r].st = "OPEN"}

Init ==
    /\ usdt = Cash
    /\ tok = Deposit
    /\ trade = [r \in Rows |-> [st |-> "none", lot |-> 0]]
    /\ call = [c \in Calls |-> Idle]
    /\ cool = {}
    /\ afloat = [c \in Calls |-> NoTx]
    /\ wd = [c \in Calls |-> NoWithdrawal]
    /\ conv = [c \in Calls |-> NoConvert]
    /\ asked = 0

Goto(c, pc) == call' = [call EXCEPT ![c].pc = pc]

(* The call is over, answered or thrown; a failed exit lets the watcher    *)
(* try the row again and go on with the next one.                          *)
Return(c) ==
    call' = [call EXCEPT ![c] = IF call[c].kind = "watch"
                                  THEN [Idle EXCEPT !.pc = "next", !.kind = "watch", !.rest = call[c].rest]
                                  ELSE Idle]
Throw(c) ==
    /\ Return(c)
    /\ cool' = IF call[c].kind = "watch" THEN cool \ {call[c].row} ELSE cool

-----------------------------------------------------------------------------
(* The chain (external): a transfer or swap moves funds if they are there. *)

Funded(tx) == IF tx.kind = "buy" THEN usdt >= tx.amt ELSE tok >= tx.amt

Move(tx) ==
    /\ Funded(tx)
    /\ tok' = IF tx.kind = "buy" THEN tok + tx.amt ELSE tok - tx.amt
    /\ usdt' = CASE tx.kind = "buy"  -> usdt - tx.amt
                 [] tx.kind = "sell" -> usdt + tx.amt
                 [] OTHER -> usdt

(* A transaction nobody waits for any more lands or is dropped.            *)
LateTx(c) ==
    /\ afloat[c] # NoTx
    /\ \/ /\ Move(afloat[c])
          /\ conv' = IF afloat[c].kind = "out" THEN [conv EXCEPT ![c].took = @ + afloat[c].amt] ELSE conv
       \/ UNCHANGED <<tok, usdt, conv>>
    /\ afloat' = [afloat EXCEPT ![c] = NoTx]
    /\ UNCHANGED <<trade, call, cool, wd, asked>>

-----------------------------------------------------------------------------
(* executePersonalSwap, asked for by the desk, by sellAggregatedOpen-      *)
(* Position or by the watcher.                                             *)

Requested(c) ==
    /\ call[c].pc = "idle" /\ afloat[c] = NoTx /\ wd[c].chain # "pending" /\ ~wd[c].waiting
    /\ asked < MaxRequests
    /\ asked' = asked + 1
    /\ UNCHANGED <<usdt, tok, trade, cool, afloat>>

RequestSwap(c, kind) ==
    /\ Requested(c)
    /\ kind = "buy" => \E r \in Rows : trade[r].st = "none"
    /\ call' = [call EXCEPT ![c] = [Idle EXCEPT !.pc = "size", !.kind = kind, !.amt = Lot]]
    /\ UNCHANGED <<wd, conv>>

LotSum(rs) == MapThenSumSet(LAMBDA r : trade[r].lot, rs)

(* sellAggregatedOpenPosition: all OPEN rows, capped by what the wallet    *)
(* holds; rows of unknown quantity do not cap the sale.                    *)
RequestSellAll(c) ==
    /\ Requested(c)
    /\ OpenRows # {} /\ tok > 0
    /\ LET lots == LotSum(OpenRows)
       IN  call' = [call EXCEPT ![c] = [Idle EXCEPT
                      !.pc = "size", !.kind = "sellAll", !.row = Min(OpenRows),
                      !.rest = OpenRows \ {Min(OpenRows)},
                      !.amt = IF lots \in 1..(tok - 1) THEN lots ELSE tok]]
    /\ UNCHANGED <<wd, conv>>

(* loadSigner, the balance, the size of the order, allowance and route.    *)
Size(c) ==
    /\ call[c].pc = "size"
    /\ \/ /\ call[c].kind = "buy" /\ usdt >= call[c].amt
          /\ Goto(c, "before") /\ UNCHANGED cool
       \/ /\ call[c].kind # "buy" /\ tok > 0
          /\ call' = [call EXCEPT ![c].pc = "before", ![c].amt = Min({@, tok})]
          /\ UNCHANGED cool
       \/ Throw(c)
    /\ UNCHANGED <<usdt, tok, trade, afloat, wd, conv, asked>>

ReadBefore(c) ==
    /\ call[c].pc = "before"
    /\ call' = [call EXCEPT ![c].pc = "swap", ![c].tokBefore = tok, ![c].usdtBefore = usdt]
    /\ UNCHANGED <<usdt, tok, trade, cool, afloat, wd, conv, asked>>

SwapTx(c) == [kind |-> IF call[c].kind = "buy" THEN "buy" ELSE "sell", amt |-> call[c].amt]

(* Broadcast and wait(1): mined; refused or reverted; or given up on.      *)
Swap(c) ==
    /\ call[c].pc = "swap"
    /\ \/ Move(SwapTx(c)) /\ Goto(c, "book") /\ UNCHANGED <<cool, afloat>>
       \/ Throw(c) /\ UNCHANGED <<tok, usdt, afloat>>
       \/ /\ afloat[c] = NoTx
          /\ afloat' = [afloat EXCEPT ![c] = SwapTx(c)]
          /\ Throw(c)
          /\ UNCHANGED <<tok, usdt>>
    /\ UNCHANGED <<trade, wd, conv, asked>>

(* What the row will say was bought: the change of the whole wallet, so    *)
(* other calls count too; without a token delta the quote stands in.       *)
BookedLot(c) ==
    LET spent == call[c].usdtBefore - usdt
        recv  == tok - call[c].tokBefore
    IN  IF spent <= 0 THEN 0 ELSE IF recv > 0 THEN recv ELSE spent

(* A BUY creates its OPEN row.  A SELL finds the row to close: the one     *)
(* named, if still OPEN, else (unnamed) the oldest; none makes it an       *)
(* orphan.  A database error leaves the swap unbooked.                     *)
BookBuy(c) ==
    /\ call[c].pc = "book" /\ call[c].kind = "buy"
    /\ \E r \in Rows :
          /\ trade[r].st = "none" /\ \A o \in 1..(r - 1) : trade[o].st # "none"
          /\ trade' = [trade EXCEPT ![r] = [st |-> "OPEN", lot |-> BookedLot(c)]]
    /\ Return(c)
    /\ UNCHANGED <<usdt, tok, cool, afloat, wd, conv, asked>>

Found(c) ==
    IF call[c].row = NoRow THEN IF OpenRows = {} THEN NoRow ELSE Min(OpenRows)
    ELSE IF call[c].row \in OpenRows THEN call[c].row ELSE NoRow

FindRow(c) ==
    /\ call[c].pc = "book" /\ call[c].kind # "buy"
    /\ LET pc == IF Found(c) # NoRow THEN "close"
                 ELSE IF call[c].kind = "sellAll" THEN "siblings" ELSE "done"
       IN  call' = [call EXCEPT ![c].pc = pc, ![c].row = IF Found(c) # NoRow THEN Found(c) ELSE @]
    /\ UNCHANGED <<usdt, tok, trade, cool, afloat, wd, conv, asked>>

(* The update names the row only: whatever its status has become.          *)
CloseRow(c) ==
    /\ call[c].pc = "close"
    /\ trade' = [trade EXCEPT ![call[c].row].st = "CLOSED"]
    /\ Goto(c, IF call[c].kind = "sellAll" THEN "siblings" ELSE "done")
    /\ UNCHANGED <<usdt, tok, cool, afloat, wd, conv, asked>>

(* sellAggregatedOpenPosition cancels the other rows it read, one by one.  *)
CancelSibling(c) ==
    /\ call[c].pc = "siblings" /\ call[c].rest # {}
    /\ trade' = [trade EXCEPT ![Min(call[c].rest)].st = "CANCELLED"]
    /\ call' = [call EXCEPT ![c].rest = @ \ {Min(@)}]
    /\ UNCHANGED <<usdt, tok, cool, afloat, wd, conv, asked>>

Done(c) ==
    /\ call[c].pc = "done" \/ (call[c].pc = "siblings" /\ call[c].rest = {})
    /\ Return(c)
    /\ UNCHANGED <<usdt, tok, trade, cool, afloat, wd, conv, asked>>

BookingThrows(c) ==
    /\ call[c].pc \in {"book", "close"} \/ (call[c].pc = "siblings" /\ call[c].rest # {})
    /\ Throw(c)
    /\ UNCHANGED <<usdt, tok, trade, afloat, wd, conv, asked>>

-----------------------------------------------------------------------------
(* runDexOpenPositionWatcher: every 30 s, whether or not the last pass is  *)
(* over; the oldest OPEN rows of all users are read once and tried oldest  *)
(* first, and some of the places may be taken by rows of others.           *)

Oldest(S, n) == {r \in S : Cardinality({q \in S : q < r}) < n}

StartWatch(c) ==
    /\ call[c].pc = "idle" /\ afloat[c] = NoTx /\ wd[c].chain # "pending" /\ ~wd[c].waiting
    /\ OpenRows # {}
    /\ \E n \in 0..Others :
          call' = [call EXCEPT ![c] = [Idle EXCEPT !.pc = "next", !.kind = "watch", !.rest = Oldest(OpenRows, Take - n)]]
    /\ UNCHANGED <<usdt, tok, trade, cool, afloat, wd, conv, asked>>

(* The next row is tried, unless it is on cooldown.                        *)
TryRow(c) ==
    /\ call[c].pc = "next" /\ call[c].rest # {}
    /\ Min(call[c].rest) \notin cool
    /\ call' = [call EXCEPT ![c].row = Min(call[c].rest), ![c].rest = @ \ {Min(@)}, ![c].pc = "balance"]
    /\ UNCHANGED <<usdt, tok, trade, cool, afloat, wd, conv, asked>>

(* A row on cooldown, or one without a market price just now, is skipped;  *)
(* after the last one the pass is over.                                    *)
SkipRow(c) ==
    /\ call[c].pc = "next"
    /\ LET rest == call[c].rest
       IN  call' = [call EXCEPT ![c] = IF rest = {} THEN Idle ELSE [@ EXCEPT !.rest = rest \ {Min(rest)}]]
    /\ UNCHANGED <<usdt, tok, trade, cool, afloat, wd, conv, asked>>

(* getPersonalWalletTokenBalance: an RPC error reads as an empty wallet.   *)
(* Below 5% of the lot the row is stale; else the lot is quoted, and       *)
(* profit, loss or signal decide.                                          *)
WalletReads == {0, tok}

(* Mutant: an empty wallet is taken for a failed read.                     *)
StaleIfRead(lot, bal) == lot > 0 /\ bal > 0 /\ 20 * bal < lot

Stale(lot, bal) == lot > 0 /\ 20 * bal < lot

JudgeRow(c) ==
    /\ call[c].pc = "balance"
    /\ LET lot == trade[call[c].row].lot
       IN  \E bal \in WalletReads :
             \/ /\ Stale(lot, bal)
                /\ Goto(c, "cancel") /\ UNCHANGED cool
             \/ /\ ~Stale(lot, bal)
                /\ Return(c) /\ UNCHANGED cool
             \/ /\ ~Stale(lot, bal) /\ tok > 0
                /\ call' = [call EXCEPT ![c].pc = "size",
                               ![c].amt = IF lot > 0 /\ lot < tok THEN lot ELSE tok]
                /\ cool' = cool \union {call[c].row}
    /\ UNCHANGED <<usdt, tok, trade, afloat, wd, conv, asked>>

CancelStale(c) ==
    /\ call[c].pc = "cancel"
    /\ trade' = [trade EXCEPT ![call[c].row].st = "CANCELLED"]
    /\ Return(c)
    /\ UNCHANGED <<usdt, tok, cool, afloat, wd, conv, asked>>

(* A database error ends the pass.                                         *)
WatchThrows(c) ==
    /\ call[c].pc = "cancel"
    /\ call' = [call EXCEPT ![c] = Idle]
    /\ UNCHANGED <<usdt, tok, trade, cool, afloat, wd, conv, asked>>

CooldownEnds(r) ==
    /\ r \in cool
    /\ cool' = cool \ {r}
    /\ UNCHANGED <<usdt, tok, trade, call, afloat, wd, conv, asked>>

-----------------------------------------------------------------------------
(* withdrawFromPersonalWallet: balance check, PROCESSING row, broadcast,   *)
(* hash, and the confirmation in the background.                           *)

RequestWithdrawal(c) ==
    /\ Requested(c)
    /\ wd[c].st = "none" /\ tok >= Lot
    /\ call' = [call EXCEPT ![c] = [Idle EXCEPT !.pc = "send", !.kind = "withdraw", !.amt = Lot]]
    /\ wd' = [wd EXCEPT ![c].st = "PROCESSING"]
    /\ UNCHANGED conv

FailWithdrawal(w) == [w EXCEPT !.st = "FAILED"]

Broadcast(c) ==
    /\ call[c].pc = "send"
    /\ \/ wd' = [wd EXCEPT ![c].chain = "pending"] /\ Goto(c, "hash")
       \/ wd' = [wd EXCEPT ![c] = FailWithdrawal(@)] /\ Return(c)
       \/ Return(c) /\ UNCHANGED wd
    /\ UNCHANGED <<usdt, tok, trade, cool, afloat, conv, asked>>

(* A lost hash write sends a transaction that is under way to the same     *)
(* catch as a refused one.                                                 *)
RecordHash(c) ==
    /\ call[c].pc = "hash"
    /\ \/ wd' = [wd EXCEPT ![c].hash = TRUE, ![c].waiting = TRUE]
       \/ wd' = [wd EXCEPT ![c] = FailWithdrawal(@)]
       \/ UNCHANGED wd
    /\ Return(c)
    /\ UNCHANGED <<usdt, tok, trade, cool, afloat, conv, asked>>

WithdrawalTx(c) ==
    /\ wd[c].chain = "pending"
    /\ \/ Move([kind |-> "out", amt |-> Lot]) /\ wd' = [wd EXCEPT ![c].chain = "landed"]
       \/ wd' = [wd EXCEPT ![c].chain = "reverted"] /\ UNCHANGED <<tok, usdt>>
    /\ UNCHANGED <<trade, call, cool, afloat, conv, asked>>

(* Mutant: any receipt counts as success.                                  *)
AnyReceipt(w) == [w EXCEPT !.st = "COMPLETED", !.waiting = FALSE]

(* The receipt decides.                                                    *)
OnReceipt(w) ==
    [w EXCEPT !.st = IF w.chain = "landed" THEN "COMPLETED" ELSE "FAILED", !.waiting = FALSE]

(* The wait returns a receipt, or it or the update after it throws, which  *)
(* marks the row FAILED whatever the transaction does; a second database   *)
(* error leaves it PROCESSING.                                             *)
ConfirmWithdrawal(c) ==
    /\ wd[c].waiting
    /\ \/ wd[c].chain # "pending" /\ wd' = [wd EXCEPT ![c] = OnReceipt(@)]
       \/ wd' = [wd EXCEPT ![c] = [FailWithdrawal(@) EXCEPT !.waiting = FALSE]]
       \/ wd' = [wd EXCEPT ![c].waiting = FALSE]
    /\ UNCHANGED <<usdt, tok, trade, call, cool, afloat, conv, asked>>

-----------------------------------------------------------------------------
(* convertBscTokens: the fee first, then the rest of the amount.           *)

RequestConvert(c) ==
    /\ Requested(c)
    /\ 5 * Fee < Lot
    /\ call' = [call EXCEPT ![c] = [Idle EXCEPT !.pc = "fee", !.kind = "convert", !.amt = Lot]]
    /\ conv' = [conv EXCEPT ![c] = [NoConvert EXCEPT !.asked = Lot]]
    /\ UNCHANGED wd

FeeTx == [kind |-> "out", amt |-> Fee]

(* Mutant: the whole amount is converted on top of the fee.                *)
NetOfNothing(c, charged) == call[c].amt

NetAmount(c, charged) == IF charged THEN call[c].amt - Fee ELSE call[c].amt

(* The charge is mined; or fails, and is skipped; or is given up on, which *)
(* counts as skipped although it may still land; without a price there is  *)
(* no fee.                                                                 *)
ChargeFee(c) ==
    /\ call[c].pc = "fee"
    /\ \/ /\ Move(FeeTx)
          /\ conv' = [conv EXCEPT ![c].took = @ + Fee]
          /\ call' = [call EXCEPT ![c].pc = "convert", ![c].amt = NetAmount(c, TRUE)]
          /\ UNCHANGED afloat
       \/ /\ afloat' = [afloat EXCEPT ![c] = FeeTx]
          /\ conv' = [conv EXCEPT ![c].blind = TRUE]
          /\ call' = [call EXCEPT ![c].pc = "convert", ![c].amt = NetAmount(c, FALSE)]
          /\ UNCHANGED <<tok, usdt>>
       \/ /\ call' = [call EXCEPT ![c].pc = "convert", ![c].amt = NetAmount(c, FALSE)]
          /\ UNCHANGED <<tok, usdt, afloat, conv>>
    /\ UNCHANGED <<trade, cool, wd, asked>>

ConvertTx(c) == [kind |-> "out", amt |-> Min({call[c].amt, tok})]

(* executeBscTokenSwap of what is there, at most the net amount.           *)
ConvertSwap(c) ==
    /\ call[c].pc = "convert"
    /\ \/ /\ tok > 0 /\ Move(ConvertTx(c))
          /\ conv' = [conv EXCEPT ![c].took = @ + ConvertTx(c).amt]
          /\ UNCHANGED afloat
       \/ UNCHANGED <<tok, usdt, afloat, conv>>
       \/ /\ tok > 0 /\ afloat[c] = NoTx
          /\ afloat' = [afloat EXCEPT ![c] = ConvertTx(c)]
          /\ UNCHANGED <<tok, usdt, conv>>
    /\ Return(c)
    /\ UNCHANGED <<trade, cool, wd, asked>>

-----------------------------------------------------------------------------
(* The process dies: calls, cooldowns and background waits are gone.       *)
Restart ==
    /\ call' = [c \in Calls |-> Idle]
    /\ cool' = {}
    /\ wd' = [c \in Calls |-> [wd[c] EXCEPT !.waiting = FALSE]]
    /\ UNCHANGED <<usdt, tok, trade, afloat, conv, asked>>

WatchStep(c) == TryRow(c) \/ SkipRow(c) \/ JudgeRow(c) \/ CancelStale(c) \/ WatchThrows(c)

SwapStep(c) ==
    \/ Size(c) \/ ReadBefore(c) \/ Swap(c) \/ BookBuy(c) \/ FindRow(c) \/ CloseRow(c)
    \/ CancelSibling(c) \/ Done(c) \/ BookingThrows(c)

WithdrawStep(c) == Broadcast(c) \/ RecordHash(c)

ConvertStep(c) == ChargeFee(c) \/ ConvertSwap(c)

Next ==
    \/ \E c \in Calls :
          \/ RequestSwap(c, "buy") \/ RequestSwap(c, "sell") \/ RequestSellAll(c)
          \/ RequestWithdrawal(c) \/ RequestConvert(c) \/ StartWatch(c)
          \/ SwapStep(c) \/ WatchStep(c) \/ WithdrawStep(c) \/ ConvertStep(c)
          \/ LateTx(c) \/ WithdrawalTx(c) \/ ConfirmWithdrawal(c)
    \/ \E r \in Rows : CooldownEnds(r)
    \/ Restart

Spec == Init /\ [][Next]_walletVars

(* The watcher's timer keeps firing, cooldowns run out and what was sent   *)
(* is answered.  A row that is looked at again and again is not met by a   *)
(* missing price, a database error or a restart every single time.         *)
CallStep(c) == SwapStep(c) \/ SkipRow(c) \/ WithdrawStep(c) \/ ConvertStep(c)
Fairness ==
    /\ WF_walletVars(\E c \in Calls : StartWatch(c))
    /\ \A c \in Calls :
          /\ WF_walletVars(CallStep(c))
          /\ WF_walletVars(LateTx(c) \/ WithdrawalTx(c)) /\ WF_walletVars(ConfirmWithdrawal(c))
    /\ \A r \in Rows :
          /\ WF_walletVars(CooldownEnds(r))
          /\ SF_walletVars(\E c \in Calls : call[c].rest # {} /\ Min(call[c].rest) = r /\ TryRow(c))
          /\ SF_walletVars(\E c \in Calls : call[c].row = r /\ JudgeRow(c))
          /\ SF_walletVars(\E c \in Calls : call[c].row = r /\ CancelStale(c))

FairSpec == Spec /\ Fairness

-----------------------------------------------------------------------------
TxType == [kind : {"none", "buy", "sell", "out"}, amt : Nat]
WithdrawalType ==
    [st : {"none", "PROCESSING", "COMPLETED", "FAILED"}, hash : BOOLEAN,
     chain : {"none", "pending", "landed", "reverted"}, waiting : BOOLEAN]
CallType ==
    [pc : {"idle", "size", "before", "swap", "book", "close", "siblings", "done", "next", "balance",
           "cancel", "send", "hash", "fee", "convert"},
     kind : {"none", "buy", "sell", "sellAll", "watch", "withdraw", "convert"},
     amt : Nat, row : Rows \union {NoRow}, rest : SUBSET Rows, tokBefore : Nat, usdtBefore : Nat]

(* Every variable keeps its shape; balances never go below zero.           *)
TypeOK ==
    /\ usdt \in Nat /\ tok \in Nat
    /\ trade \in [Rows -> [st : {"none", "OPEN", "CLOSED", "CANCELLED"}, lot : Nat]]
    /\ call \in [Calls -> CallType]
    /\ cool \subseteq Rows
    /\ afloat \in [Calls -> TxType]
    /\ wd \in [Calls -> WithdrawalType]
    /\ conv \in [Calls -> [asked : Nat, took : Nat, blind : BOOLEAN]]
    /\ asked \in 0..MaxRequests

(* personalWalletService.ts:697-721: the background confirmation, the      *)
(* catch of the request and restarts never make a withdrawal COMPLETED     *)
(* that did not leave the wallet, and one whose transaction was never sent *)
(* has no hash.  (FAILED promises nothing: it is also what a lost wait or  *)
(* a lost hash write is called.)                                           *)
CompletedIsSent ==
    \A c \in Calls :
        /\ wd[c].st = "COMPLETED" => wd[c].chain = "landed"
        /\ wd[c].hash => wd[c].chain # "none"

(* personalWalletService.ts:1666-1680: fee and swap together take no more  *)
(* than the user asked to convert.  The one exception is a fee transfer    *)
(* that the service gave up on and that lands after all: then the fee      *)
(* comes on top, and never more than the fee.                              *)
ConvertTakesAtMost ==
    \A c \in Calls :
        conv[c].took <= conv[c].asked + (IF conv[c].blind THEN Fee ELSE 0)

(* dexOpenPositionWatcher.ts:128-138, 285-293: once the tokens are gone    *)
(* for good and no request is left, an OPEN row that still claims some is  *)
(* taken off the book, whatever was sold, lost, cancelled half-way or      *)
(* forgotten in a restart, if a pass reads that far: rows of others and    *)
(* the user's own older rows without a quantity keep their places for      *)
(* ever, the older ones with a quantity give theirs up in turn.            *)
Settled == /\ asked = MaxRequests /\ tok = 0
           /\ \A c \in Calls : afloat[c] = NoTx /\ wd[c].chain # "pending" /\ call[c].kind \in {"none", "watch"}
InReach(r) == Others + Cardinality({q \in OpenRows : q < r /\ trade[q].lot = 0}) < Take
GhostRowsClear ==
    \A r \in Rows : (Settled /\ trade[r].st = "OPEN" /\ trade[r].lot > 0 /\ InReach(r)) ~> trade[r].st # "OPEN"
=============================================================================
