----------------------------- MODULE PriceFeed -----------------------------
(***************************************************************************)
(* How a price reaches the browser: the mirror of Binance's order book     *)
(* (market/orderBook.ts), Jupiter's price with its cache                   *)
(* (dex/jupiterPriceService.ts), the live ticker that merges the two       *)
(* (dex/jupiterLiveTickerService.ts), the pub/sub that sends a tick to the *)
(* local sockets and through Redis (lib/pubsub.ts), and the socket server  *)
(* (server/socketServer.ts).  One process, one browser and SOLUSDT, which  *)
(* both sources quote.  A price is its source and how often it moved.      *)
(***************************************************************************)
EXTENDS Integers, Sequences

CONSTANTS
    Runs,                     \* runs of the ticker that may be under way at once
    MaxMoves, MaxFaults,      \* bounds: moves of the two prices; drops, losses and restarts
    MaxEchoes                 \* bound: ticks on their way through Redis

FeedAssumption == MaxMoves \in Nat \ {0} /\ MaxFaults \in Nat /\ MaxEchoes \in Nat \ {0}

VARIABLES
    quote,    \* the prices on Binance and on Jupiter
    stream,   \* the websocket to Binance is open
    warm,     \* what the REST warm-up was answered; 0 when it is over
    depth,    \* lastDepthCache; 0 when empty
    cache,    \* priceCache of Jupiter's price
    latest,   \* previousPrices and latestTicksCache
    run,      \* what each run of the ticker is doing
    bus,      \* Redis is connected and its channels are subscribed
    echo,     \* ticks on their way through Redis
    online,   \* the browser's socket is open
    view,     \* what the browser shows
    lost,     \* history: a tick was lost in Redis, and none came since
    faults    \* faults so far

feedVars == <<quote, stream, warm, depth, cache, latest, run, bus, echo, online, view, lost, faults>>

None == <<"none", 0>>
Book(n) == IF n = 0 THEN None ELSE <<"book", n>>
Jup(n) == IF n = 0 THEN None ELSE <<"jup", n>>
Sleep == [pc |-> "idle", ask |-> 0, jup |-> 0]

\* A process that starts: the warm-up has been asked for.
Fresh(q) ==
    /\ stream' = FALSE /\ warm' = q.book /\ depth' = 0 /\ cache' = [n |-> 0, age |-> "gone"]
    /\ latest' = None /\ run' = [r \in Runs |-> Sleep]
    /\ bus' = FALSE /\ echo' = <<>> /\ online' = FALSE /\ lost' = FALSE

Init ==
    /\ quote = [book |-> 1, jup |-> 1]
    /\ stream = FALSE /\ warm = 1 /\ depth = 0 /\ cache = [n |-> 0, age |-> "gone"]
    /\ latest = None /\ run = [r \in Runs |-> Sleep]
    /\ bus = FALSE /\ echo = <<>> /\ online = FALSE /\ view = None /\ lost = FALSE /\ faults = 0

Fault == faults < MaxFaults /\ faults' = faults + 1

-----------------------------------------------------------------------------
(* The markets.                                                            *)
Move(source) ==
    /\ quote.book + quote.jup < MaxMoves + 2
    /\ quote' = [quote EXCEPT ![source] = @ + 1]
    /\ UNCHANGED <<stream, warm, depth, cache, latest, run, bus, echo, online, view, lost, faults>>

(* publish: to the listeners of this process, here the sockets, at once,   *)
(* and to Redis, from where the same process hears it again.               *)
Publish(tick) ==
    /\ view' = IF online THEN tick ELSE view
    /\ lost' = (lost /\ ~online)
    /\ IF bus THEN Len(echo) < MaxEchoes /\ echo' = Append(echo, tick) ELSE UNCHANGED echo

(* A tick is sent when it differs from the last one.                       *)
Push(tick) ==
    /\ latest' = tick
    /\ IF tick = latest THEN UNCHANGED <<echo, view, lost>> ELSE Publish(tick)

-----------------------------------------------------------------------------
(* orderBookService.start asks REST for the book, before and besides the   *)
(* stream; its answer is written whenever it comes.                        *)
WarmUp ==
    /\ warm # 0 /\ warm' = 0
    /\ depth' \in {warm, depth}
    /\ UNCHANGED <<quote, stream, cache, latest, run, bus, echo, online, view, lost, faults>>

(* connectWebSocket, again 3 or 5 s after a failure or a close.            *)
Connect ==
    /\ ~stream /\ stream' = TRUE
    /\ UNCHANGED <<quote, warm, depth, cache, latest, run, bus, echo, online, view, lost, faults>>

StreamCloses ==
    /\ stream /\ stream' = FALSE /\ Fault
    /\ UNCHANGED <<quote, warm, depth, cache, latest, run, bus, echo, online, view, lost>>

(* A depth message replaces the mirror.                                    *)
DepthMessage ==
    /\ stream /\ depth' = quote.book
    /\ UNCHANGED <<quote, stream, warm, cache, latest, run, bus, echo, online, view, lost, faults>>

(* A bookTicker message is pushed at once, to connected browsers only.     *)
(* Within 150 ms of another push it is dropped, and not sent later either; *)
(* time is not modelled, so any of them may be.                            *)
BookTicker ==
    /\ stream /\ online /\ latest # Book(quote.book)
    /\ Push(Book(quote.book))
    /\ UNCHANGED <<quote, stream, warm, depth, cache, run, bus, online, faults>>

-----------------------------------------------------------------------------
(* The timer of startJupiterLiveTicker: a run a second, whether the last   *)
(* one is over or not, while a browser is connected; the list of tokens    *)
(* comes first.                                                            *)
Tick(r) ==
    /\ run[r].pc = "idle" /\ online
    /\ run' = [run EXCEPT ![r].pc = "prices"]
    /\ UNCHANGED <<quote, stream, warm, depth, cache, latest, bus, echo, online, view, lost, faults>>

(* What is left of a run once it has both prices happens in one step: the  *)
(* book's price if it is news, else Jupiter's if that is.                  *)
Finish(r, fast, jup) ==
    /\ run' = [run EXCEPT ![r] = Sleep]
    /\ Push(IF fast # None /\ fast # latest THEN fast ELSE IF jup # None THEN jup ELSE latest)

(* getDepth answers from the mirror, or asks REST.                         *)
TakeDepth(r, jup) ==
    IF depth # 0 THEN Finish(r, Book(depth), Jup(jup))
    ELSE run' = [run EXCEPT ![r] = [pc |-> "depth", ask |-> quote.book, jup |-> jup]] /\ UNCHANGED <<latest, echo, view, lost>>

Cached(c) == IF c.age = "gone" THEN 0 ELSE c.n

(* fetchJupiterPricesV3: a price younger than a second is not asked for.   *)
UseCache(r) ==
    /\ run[r].pc = "prices" /\ cache.age = "fresh"
    /\ TakeDepth(r, cache.n)
    /\ UNCHANGED <<quote, stream, warm, depth, cache, bus, online, faults>>

AskJupiter(r) ==
    /\ run[r].pc = "prices" /\ cache.age # "fresh"
    /\ run' = [run EXCEPT ![r].pc = "wait", ![r].ask = quote.jup]
    /\ UNCHANGED <<quote, stream, warm, depth, cache, latest, bus, echo, online, view, lost, faults>>

(* An answer is cached whenever it comes, as a fresh one; ...              *)
JupiterAnswers(r) ==
    /\ run[r].pc = "wait"
    /\ cache' = [n |-> run[r].ask, age |-> "fresh"]
    /\ TakeDepth(r, cache'.n)
    /\ UNCHANGED <<quote, stream, warm, depth, bus, online, faults>>

(* ... without one, the price in the cache has to do, for five minutes.    *)
JupiterFails(r) ==
    /\ run[r].pc = "wait"
    /\ TakeDepth(r, Cached(cache))
    /\ UNCHANGED <<quote, stream, warm, depth, cache, bus, online, faults>>

CacheAges ==
    /\ cache.age # "gone"
    /\ cache' = [cache EXCEPT !.age = IF @ = "fresh" THEN "old" ELSE "gone"]
    /\ UNCHANGED <<quote, stream, warm, depth, latest, run, bus, echo, online, view, lost, faults>>

(* The book that was asked for goes to the mirror.                         *)
DepthAnswers(r) ==
    /\ run[r].pc = "depth"
    /\ depth' = run[r].ask /\ Finish(r, Book(run[r].ask), Jup(run[r].jup))
    /\ UNCHANGED <<quote, stream, warm, cache, bus, online, faults>>

(* No answer: what the mirror has got by now, or what fetchBinanceBookMid  *)
(* gets or still has.                                                      *)
DepthFails(r) ==
    /\ run[r].pc = "depth"
    /\ \E mid \in IF depth # 0 THEN {depth} ELSE 0..quote.book : Finish(r, Book(mid), Jup(run[r].jup))
    /\ UNCHANGED <<quote, stream, warm, depth, cache, bus, online, faults>>

-----------------------------------------------------------------------------
(* AutoPubSub.init connects and subscribes to the channels it knows.       *)
RedisConnects ==
    /\ ~bus /\ bus' = TRUE
    /\ UNCHANGED <<quote, stream, warm, depth, cache, latest, run, echo, online, view, lost, faults>>

Echo ==
    /\ echo # <<>> /\ echo' = Tail(echo)
    /\ IF online THEN view' = Head(echo) /\ lost' = FALSE ELSE UNCHANGED <<view, lost>>
    /\ UNCHANGED <<quote, stream, warm, depth, cache, latest, run, bus, online, faults>>

(* A connection lost, or a subscription that is not confirmed yet.         *)
EchoLost ==
    /\ echo # <<>> /\ echo' = Tail(echo) /\ lost' = TRUE /\ Fault
    /\ UNCHANGED <<quote, stream, warm, depth, cache, latest, run, bus, online, view>>

(* A browser that connects is sent the latest ticks.                       *)
BrowserConnects ==
    /\ ~online /\ online' = TRUE
    /\ IF latest = None THEN UNCHANGED <<view, lost>> ELSE view' = latest /\ lost' = FALSE
    /\ UNCHANGED <<quote, stream, warm, depth, cache, latest, run, bus, echo, faults>>

BrowserLeaves ==
    /\ online /\ online' = FALSE /\ Fault
    /\ UNCHANGED <<quote, stream, warm, depth, cache, latest, run, bus, echo, view, lost>>

Restart ==
    /\ Fault /\ Fresh(quote)
    /\ UNCHANGED <<quote, view>>

RunStep(r) == UseCache(r) \/ AskJupiter(r) \/ JupiterAnswers(r) \/ JupiterFails(r) \/ DepthAnswers(r) \/ DepthFails(r)

Next ==
    \/ \E source \in DOMAIN quote : Move(source)
    \/ WarmUp \/ Connect \/ StreamCloses \/ DepthMessage \/ BookTicker
    \/ \E r \in Runs : Tick(r) \/ RunStep(r)
    \/ CacheAges \/ RedisConnects \/ Echo \/ EchoLost \/ BrowserConnects \/ BrowserLeaves \/ Restart

Spec == Init /\ [][Next]_feedVars

(* The stream reconnects and sends, the timer fires, what a run awaits     *)
(* ends, ticks come back or are lost; Jupiter answers when it is asked     *)
(* again and again.  Nothing is assumed of the browser.                    *)
FairSpec ==
    /\ Spec
    /\ WF_feedVars(Connect) /\ WF_feedVars(DepthMessage) /\ WF_feedVars(WarmUp) /\ WF_feedVars(Echo)
    /\ WF_feedVars(CacheAges)
    /\ WF_feedVars(\E r \in Runs : Tick(r))
    /\ \A r \in Runs : WF_feedVars(RunStep(r)) /\ SF_feedVars(JupiterAnswers(r))

-----------------------------------------------------------------------------
(* Every variable keeps its shape.                                         *)
TypeOK ==
    /\ quote \in [{"book", "jup"} -> 1..MaxMoves + 1] /\ stream \in BOOLEAN /\ online \in BOOLEAN
    /\ warm \in 0..MaxMoves + 1 /\ depth \in 0..MaxMoves + 1 /\ lost \in BOOLEAN /\ faults \in 0..MaxFaults
    /\ cache \in [n : 0..MaxMoves + 1, age : {"fresh", "old", "gone"}]
    /\ run \in [Runs -> [pc : {"idle", "prices", "wait", "depth"}, ask : 0..MaxMoves + 1, jup : 0..MaxMoves + 1]]
    /\ bus \in BOOLEAN /\ Len(echo) <= MaxEchoes

(* pubsub.ts:64-80, socketServer.ts:228-250: although every tick comes a   *)
(* second time, late, a browser ends up with the newest one that was sent, *)
(* whenever it connected; unless Redis lost one.                           *)
QuietShowsLatest == online /\ echo = <<>> /\ latest # None /\ ~lost => view = latest

(* jupiterLiveTickerService.ts:45-178, orderBook.ts:116-190: late REST     *)
(* answers, overlapping runs, pushes held back, echoes and restarts put    *)
(* old prices on the page; but once markets and faults rest, a page that   *)
(* stays open shows a price of now for good, be it Binance's or Jupiter's. *)
BrowserCatchesUp == <>[](online => view \in {Book(quote.book), Jup(quote.jup)})
=============================================================================
