--------------------------- MODULE JupiterGateway ---------------------------
(***************************************************************************)
(* The door to Jupiter's swap API (dex/jupiterClassicService.ts): quotes   *)
(* are cached, calls are spaced, a 429 starts a back-off during which old  *)
(* quotes are served, and a failed call is repeated with more slippage.    *)
(* One pair of mints.  A venue is "any" or a restriction of the route.     *)
(***************************************************************************)
EXTENDS Integers, FiniteSets, FiniteSetsExt

CONSTANTS
    Calls,           \* callers that may overlap
    Orders,          \* what they ask for: amount, venue, slip, taker, bypass
    Out,             \* what a venue gives for an amount
    Gap,             \* MIN_ORDER_GAP_MS, in ticks
    Ttl,             \* QUOTE_ORDER_TTL_MS
    MaxWait,         \* the longest wait for the end of a back-off
    Backoff,         \* RATE_LIMIT_BACKOFF_MS
    Stale,           \* QUOTE_ORDER_STALE_MS
    LastNow,         \* bounds: the clock,
    MaxAsks,         \* calls,
    MaxTrouble       \* and answers that are not an order

Auto == -1           \* slippageBps left out
GatewayAssumption ==
    /\ Orders \subseteq [amount : Nat \ {0}, venue : DOMAIN Out, slip : Nat \union {Auto}, taker : BOOLEAN, bypass : BOOLEAN]
    /\ \A o \in Orders : o.amount \in DOMAIN Out[o.venue]
    /\ Gap <= Ttl /\ Ttl < Stale /\ MaxWait < Backoff /\ Backoff < Stale
    /\ {Gap, Ttl, MaxWait, Backoff, LastNow, MaxAsks, MaxTrouble} \subseteq Nat

VARIABLES
    now,
    cache,           \* quoteOrderCache: entries key, at, out, slip
    limited,         \* swapRateLimitedUntil
    lastFetch,       \* lastOrderFetchAt
    call,            \* where each caller is: pc, order, attempt, slip, wake
    told,            \* the last answer: order, from, at, out, slip
    asks, trouble    \* calls made, answers that were no order

gatewayVars == <<now, cache, limited, lastFetch, call, told, asks, trouble>>

Idle == [pc |-> "idle"]
NoAnswer == [from |-> "none"]
At(pc, o, attempt, slip, wake) == [pc |-> pc, order |-> o, attempt |-> attempt, slip |-> slip, wake |-> wake]

Init ==
    /\ now = 0 /\ cache = {} /\ limited = 0 /\ lastFetch = -Gap
    /\ call = [c \in Calls |-> Idle] /\ told = NoAnswer /\ asks = 0 /\ trouble = 0

-----------------------------------------------------------------------------
Key(o) == [amount |-> o.amount, venue |-> o.venue, slip |-> o.slip]
Limited == now < limited
MaxAttempts(o) == IF o.taker THEN 4 ELSE 2
WindowEnd(until) == now + Max({0, Min({until - now, MaxWait})})
Raised(slip, attempt) == Min({2000, (IF slip = Auto THEN 100 ELSE slip) + 50 * attempt})

(* resolveStaleQuote: the quote of the same key, or else the newest of the *)
(* pair, whatever its size and venue, scaled to the amount.                *)
Usable == {e \in cache : now - e.at <= Stale}
Own(o) == {e \in Usable : e.key = Key(o)}
Newest == {e \in Usable : \A f \in Usable : f.at <= e.at}
Scaled(e, o) == (e.out * o.amount) \div e.key.amount
StaleQuotes(o) ==
    IF o.taker THEN {}
    ELSE IF Own(o) # {} THEN Own(o) ELSE {e \in Newest : Scaled(e, o) > 0}

Tell(c, o, e) ==
    /\ told' = [order |-> o, from |-> e.key, at |-> e.at, out |-> Scaled(e, o), slip |-> e.slip]
    /\ call' = [call EXCEPT ![c] = Idle]

(* throttleSwapOrderFetch, or its bypass; then the first attempt.          *)
Throttle(c, o) ==
    LET wait == ~o.bypass /\ now - lastFetch < Gap
    IN  /\ call' = [call EXCEPT ![c] = At(IF wait THEN "gap" ELSE "send", o, 1, o.slip,
                                          IF wait THEN lastFetch + Gap ELSE now)]
        /\ lastFetch' = IF wait \/ (o.bypass /\ Limited) THEN lastFetch ELSE now

(* getJupiterOrder, up to its first wait.                                  *)
Ask(c, o) ==
    LET fresh == {e \in cache : e.key = Key(o) /\ now - e.at < Ttl /\ ~o.taker}
    IN  /\ call[c] = Idle /\ asks < MaxAsks /\ asks' = asks + 1
        /\ \/ \E e \in fresh : Tell(c, o, e) /\ UNCHANGED lastFetch
           \/ fresh = {} /\ ~o.taker /\ Limited
              /\ \/ \E e \in StaleQuotes(o) : Tell(c, o, e)
                 \/ /\ StaleQuotes(o) = {}
                    /\ call' = [call EXCEPT ![c] = At("window", o, 1, o.slip, WindowEnd(limited))]
                    /\ UNCHANGED told
              /\ UNCHANGED lastFetch
           \/ fresh = {} /\ (o.taker \/ ~Limited) /\ Throttle(c, o) /\ UNCHANGED told
        /\ UNCHANGED <<now, cache, limited, trouble>>

(* The back-off was waited for, or as much of it as one waits.             *)
WindowOver(c) ==
    /\ call[c].pc = "window" /\ call[c].wake <= now
    /\ Throttle(c, call[c].order)
    /\ UNCHANGED <<now, cache, limited, told, asks, trouble>>

(* The gap, or the pause before another attempt, is over.                  *)
Send(c) ==
    /\ call[c].pc \in {"gap", "pause"} /\ call[c].wake <= now
    /\ call' = [call EXCEPT ![c].pc = "send"]
    /\ lastFetch' = IF call[c].pc = "gap" THEN now ELSE lastFetch
    /\ UNCHANGED <<now, cache, limited, told, asks, trouble>>

(* An order: a quote is cached under what was asked for, not under the     *)
(* slippage it was asked with in the end.                                  *)
GotOrder(c) ==
    LET o == call[c].order
        e == [key |-> Key(o), at |-> now, out |-> Out[o.venue][o.amount], slip |-> call[c].slip]
    IN  /\ call[c].pc = "send"
        /\ cache' = IF o.taker THEN cache ELSE {f \in cache : f.key # Key(o)} \union {e}
        /\ Tell(c, o, e)
        /\ UNCHANGED <<now, limited, lastFetch, asks, trouble>>

(* Another attempt, or the error goes to the caller.                       *)
Again(c, slip, wake) ==
    LET s == call[c]
    IN  call' = [call EXCEPT ![c] = IF s.attempt < MaxAttempts(s.order)
                                    THEN At("pause", s.order, s.attempt + 1, slip, wake) ELSE Idle]

(* 429, or an error that says as much.                                     *)
GotLimited(c) ==
    LET o == call[c].order
    IN  /\ call[c].pc = "send" /\ trouble < MaxTrouble /\ trouble' = trouble + 1
        /\ limited' = now + Backoff
        /\ \/ \E e \in StaleQuotes(o) : Tell(c, o, e)
           \/ StaleQuotes(o) = {} /\ Again(c, call[c].slip, WindowEnd(limited')) /\ UNCHANGED told
        /\ UNCHANGED <<now, cache, lastFetch, asks>>

(* No route or too little liquidity: more slippage.  Any other error, one  *)
(* that is thrown in the loop too: an old quote if there is one.           *)
GotError(c, retryable) ==
    LET o == call[c].order
        old == IF retryable \/ call[c].attempt = MaxAttempts(o) THEN {} ELSE StaleQuotes(o)
    IN  /\ call[c].pc = "send" /\ trouble < MaxTrouble /\ trouble' = trouble + 1
        /\ \/ \E e \in old : Tell(c, o, e)
           \/ old = {} /\ Again(c, Raised(call[c].slip, call[c].attempt), now) /\ UNCHANGED told
        /\ UNCHANGED <<now, cache, limited, lastFetch, asks>>

Tick == now < LastNow /\ now' = now + 1 /\ UNCHANGED <<cache, limited, lastFetch, call, told, asks, trouble>>

Next ==
    \/ \E c \in Calls :
          \/ \E o \in Orders : Ask(c, o)
          \/ WindowOver(c) \/ Send(c) \/ GotOrder(c) \/ GotLimited(c)
          \/ \E retryable \in BOOLEAN : GotError(c, retryable)
    \/ Tick

Spec == Init /\ [][Next]_gatewayVars

-----------------------------------------------------------------------------
(* Every variable keeps its shape.                                         *)
TypeOK ==
    /\ now \in 0..LastNow /\ lastFetch \in -Gap..LastNow /\ limited \in 0..LastNow + Backoff
    /\ asks \in 0..MaxAsks /\ trouble \in 0..MaxTrouble
    /\ \A e \in cache : e.at \in 0..now /\ e.out \in Nat
    /\ \A c \in Calls : call[c] = Idle \/ (call[c].order \in Orders /\ call[c].attempt \in 1..4)

(* jupiterClassicService.ts:53-133, 159-172, 199-251: a quote is the one   *)
(* asked for while the API has answered with orders only: of that size and *)
(* venue and younger than the short limit; after trouble it is younger     *)
(* than the long one, and promises more than the venue gives only if it    *)
(* was scaled up or came from another venue.  A swap is built on none.     *)
QuotesAreExplained ==
    told # NoAnswer =>
       LET o == told.order
       IN  /\ told.from = Key(o) \/ trouble > 0
           /\ o.taker => told.from = Key(o) /\ told.out = Out[o.venue][o.amount]
           /\ told.out > Out[o.venue][o.amount] => told.from.amount < o.amount \/ told.from.venue # o.venue

(* The same, of the step that answers: how old the quote is then.          *)
QuotesAreYoung ==
    told' # told => now - told'.at < (IF trouble' = 0 THEN Ttl ELSE Stale + 1)

(* jupiterClassicService.ts:185-190, 229, 246: over all its attempts a     *)
(* swap asks for three percent of slippage more than its caller at most,   *)
(* and a quote, from the cache too, for half a percent more; twenty        *)
(* percent bound what was raised.                                          *)
SlippageIsBounded ==
    /\ told # NoAnswer /\ told.order.slip # Auto /\ told.from = Key(told.order) =>
          told.slip <= Max({told.order.slip, Min({2000, told.order.slip + (IF told.order.taker THEN 300 ELSE 50)})})
    /\ \A e \in cache : e.slip = e.key.slip \/ (trouble > 0 /\ e.slip <= Raised(e.key.slip, 1))
=============================================================================
