---------------------------- MODULE Predictions ----------------------------
(***************************************************************************)
(* Bets on prediction markets with the user's Solana wallet                *)
(* (dex/jupiterPredictionService.ts): buying contracts, closing and        *)
(* claiming a position.  The market's API prepares a transaction, the      *)
(* server signs it, sends it through the pool of RPC endpoints             *)
(* (solanaRpcPool.ts), waits for it and logs an event.  The history        *)
(* merges those events with what the API remembers.  One user, one         *)
(* position; amounts, prices and titles are left out.                      *)
(***************************************************************************)
EXTENDS Integers, Sequences, FiniteSets

CONSTANTS
    Calls,                     \* requests that may be under way at once
    Endpoints,                 \* RPC endpoints one send may be tried on
    Steps,                     \* CLOSE_SLIPPAGE_BPS_STEPS: tries to close
    MaxRequests, MaxTxs, MaxFaults  \* bounds: requests, prepared transactions, failures

PredictionsAssumption == /\ Endpoints \in Nat \ {0} /\ Steps \in Nat \ {0}
                         /\ MaxRequests \in Nat /\ MaxTxs \in Nat /\ MaxFaults \in Nat

VARIABLES
    asked,   \* requests so far
    call,    \* what each request under way is doing
    txs,     \* transactions prepared by the API, and what became of them
    held,    \* the position holds contracts
    log,     \* executionEvent rows: numbers of logged transactions with their action
    faults   \* history: timeouts, failed writes and restarts so far

predictVars == <<asked, call, txs, held, log, faults>>

Kinds == {"BUY", "SELL", "CLAIM"}
Quiet == [pc |-> "idle", kind |-> "BUY", req |-> 0, step |-> 1, tx |-> 0, left |-> 0]

Init == asked = 0 /\ call = [c \in Calls |-> Quiet] /\ txs = <<>> /\ held \in BOOLEAN /\ log = {} /\ faults = 0

(* An error that does not speak of liquidity ends the request.             *)
Throw(c) == call' = [call EXCEPT ![c] = Quiet]
Goto(c, pc) == call' = [call EXCEPT ![c].pc = pc]
Fault == faults < MaxFaults /\ faults' = faults + 1

(* The routes check amount and position and call the service.              *)
Request(c, kind) ==
    /\ call[c].pc = "idle" /\ asked < MaxRequests
    /\ asked' = asked + 1
    /\ call' = [call EXCEPT ![c] = [Quiet EXCEPT !.pc = "quote", !.kind = kind, !.req = asked + 1]]
    /\ UNCHANGED <<txs, held, log, faults>>

(* The API prepares a transaction.                                         *)
Prepare(c) ==
    /\ call[c].pc = "quote" /\ Len(txs) < MaxTxs
    /\ txs' = Append(txs, [kind |-> call[c].kind, by |-> call[c].req, st |-> "made"])
    /\ call' = [call EXCEPT ![c].pc = "send", ![c].tx = Len(txs) + 1, ![c].left = Endpoints]
    /\ UNCHANGED <<asked, held, log, faults>>

(* No liquidity: a claim becomes a close, a close tries the next slippage, *)
(* a buy and the last try throw.                                           *)
NoLiquidity(c) ==
    /\ call[c].pc = "quote"
    /\ \/ call[c].kind = "CLAIM" /\ call' = [call EXCEPT ![c].kind = "SELL"]
       \/ call[c].kind = "SELL" /\ call[c].step < Steps /\ call' = [call EXCEPT ![c].step = @ + 1]
       \/ (call[c].kind = "BUY" \/ call[c].step = Steps) /\ Throw(c)
    /\ UNCHANGED <<asked, txs, held, log, faults>>

(* Any other error of the API, and no transaction in its answer.           *)
ApiThrows(c) ==
    /\ call[c].pc = "quote" /\ Throw(c)
    /\ UNCHANGED <<asked, txs, held, log, faults>>

(* sendRawTransaction, without the preflight if the first send failed: the *)
(* same signed transaction, on whichever endpoint.                         *)
Send(c) ==
    /\ call[c].pc = "send"
    /\ txs' = [txs EXCEPT ![call[c].tx].st = IF @ = "made" THEN "afloat" ELSE @]
    /\ Goto(c, "confirm")
    /\ UNCHANGED <<asked, held, log, faults>>

(* Too little SOL, no endpoint reachable, or both sends refused, perhaps   *)
(* although another endpoint took the transaction before.                  *)
SendThrows(c) ==
    /\ call[c].pc = "send" /\ Throw(c)
    /\ \/ txs[call[c].tx].st = "made" /\ UNCHANGED faults
       \/ Fault
    /\ UNCHANGED <<asked, txs, held, log>>

(* withSolanaRpc gives up on an endpoint after 25 s, sent or not, and runs *)
(* send and confirmation again on the next one.                            *)
NextEndpoint(c) ==
    /\ call[c].pc \in {"send", "confirm"} /\ call[c].left > 1
    /\ call' = [call EXCEPT ![c].pc = "send", ![c].left = @ - 1]
    /\ UNCHANGED <<asked, txs, held, log, faults>>

(* waitForSignatureConfirmation: confirmed, failed, or not known in time.  *)
Confirm(c) ==
    LET st == txs[call[c].tx].st
    IN  /\ call[c].pc = "confirm"
        /\ \/ st = "landed" /\ Goto(c, "log") /\ UNCHANGED faults
           \/ st \in {"failed", "dropped"} /\ Throw(c) /\ UNCHANGED faults
           \/ Fault /\ Throw(c)
        /\ UNCHANGED <<asked, txs, held, log>>

(* logPredictEvent; a failed insert is swallowed.                          *)
LogEvent(c) ==
    /\ call[c].pc = "log"
    /\ \/ log' = log \union {[tx |-> call[c].tx, action |-> call[c].kind]} /\ UNCHANGED faults
       \/ Fault /\ UNCHANGED log
    /\ Throw(c)
    /\ UNCHANGED <<asked, txs, held>>

(* A transaction that is afloat lands or fails on the chain, or expires    *)
(* with its blockhash.                                                     *)
Land(t) ==
    /\ txs[t].st = "afloat"
    /\ \/ /\ txs[t].kind = "BUY" \/ held
          /\ txs' = [txs EXCEPT ![t].st = "landed"]
          /\ held' = (txs[t].kind = "BUY")
       \/ \E st \in {"failed", "dropped"} : txs' = [txs EXCEPT ![t].st = st] /\ UNCHANGED held
    /\ UNCHANGED <<asked, call, log, faults>>

Restart ==
    /\ Fault /\ call' = [c \in Calls |-> Quiet]
    /\ UNCHANGED <<asked, txs, held, log>>

Next ==
    \/ \E c \in Calls :
          \/ \E kind \in Kinds : Request(c, kind)
          \/ Prepare(c) \/ NoLiquidity(c) \/ ApiThrows(c)
          \/ Send(c) \/ SendThrows(c) \/ NextEndpoint(c) \/ Confirm(c) \/ LogEvent(c)
    \/ \E t \in DOMAIN txs : Land(t)
    \/ Restart

Spec == Init /\ [][Next]_predictVars

-----------------------------------------------------------------------------
(* The API remembers the transactions that landed, with their signatures   *)
(* or, as orders, without.                                                 *)
Landed == {t \in DOMAIN txs : txs[t].st = "landed"}
ApiEvents(signed) ==
    {[id |-> <<"jup", t>>, sig |-> IF signed THEN t ELSE 0, action |-> txs[t].kind] : t \in Landed}
DbEvents == {[id |-> <<"row", e.tx>>, sig |-> e.tx, action |-> e.action] : e \in log}

(* mergePredictHistory: one entry per signature, or id without one, and    *)
(* action.                                                                 *)
HistoryKeys(events) == {<<IF e.sig # 0 THEN <<"sig", e.sig>> ELSE e.id, e.action>> : e \in events}
History(signed) == HistoryKeys(ApiEvents(signed) \union DbEvents)

-----------------------------------------------------------------------------
(* Every variable keeps its shape.                                         *)
TypeOK ==
    /\ \A c \in Calls : /\ call[c].kind \in Kinds /\ call[c].step \in 1..Steps
                        /\ call[c].tx \in 0..Len(txs) /\ call[c].left \in 0..Endpoints
    /\ \A t \in DOMAIN txs : txs[t].st \in {"made", "afloat", "landed", "failed", "dropped"}
    /\ asked \in 0..MaxRequests /\ held \in BOOLEAN /\ faults \in 0..MaxFaults

(* jupiterPredictionService.ts:336-366, 593-693: however often the API and *)
(* the endpoints are tried again, with wider slippage and as a sale in the *)
(* place of a claim, one request sends one transaction at most.            *)
SentOnce ==
    \A r \in 1..asked : Cardinality({t \in DOMAIN txs : txs[t].by = r /\ txs[t].st \in {"afloat", "landed"}}) <= 1

(* jupiterPredictionService.ts:297-334, 524-755: a logged event is of a    *)
(* transaction that landed and names what it did; without failures and     *)
(* with nobody at work each one that landed is logged; and a history whose *)
(* API rows carry signatures shows each bet once.                          *)
LogIsTrue ==
    /\ \A e \in log : txs[e.tx].st = "landed" /\ txs[e.tx].kind = e.action
    /\ faults = 0 /\ (\A c \in Calls : call[c].pc = "idle") => Landed = {e.tx : e \in log}
    /\ Cardinality(History(TRUE)) = Cardinality(Landed)
=============================================================================
