---------------------------- MODULE CandleStore ----------------------------
(***************************************************************************)
(* The candle store (market/klineService.ts), one symbol and interval: the *)
(* backfill that walks back in pages, the sync forward from the newest     *)
(* stored bar, the live stream, the refresh of the last few bars and the   *)
(* pruning of old ones, all writing one table.  Time is counted in bars:   *)
(* at time `now` the bars 0..now-1 are closed and bar `now` is in          *)
(* progress; the market was listed with bar 0.                             *)
(***************************************************************************)
EXTENDS Integers, FiniteSets, FiniteSetsExt

CONSTANTS
    Jobs,                       \* runBackfill and calls of ensureSymbol under way
    Page,                       \* bars per request (1000)
    Target,                     \* targetBars
    Keep,                       \* retentionDays, in bars
    Recent,                     \* bars asked for by a refresh (5)
    FirstNow, LastNow,          \* the stretch of time that is followed
    MaxFaults                   \* bound: restarts, failed requests and lost messages

CandleAssumption == /\ Page \in Nat \ {0, 1} /\ Target \in Nat /\ Recent \in Nat /\ FirstNow \in Nat /\ LastNow \in Nat
                    /\ Keep \in Nat /\ Keep > Target

VARIABLES
    now,
    store,    \* the bars in the table
    job,      \* what each job is doing
    done,     \* completedJobs has the series
    mail,     \* closed bars the stream has not delivered yet
    look,     \* the refresh: when it asked, or None
    told,     \* history: bars announced by kline:closed
    odd,      \* history: "twice", one was announced again; "short", a walk began with an empty
              \* table; "hole", a live bar was written beyond the next one, or all were pruned
    faults

candleVars == <<now, store, job, done, mail, look, told, odd, faults>>

None == -1
Rest == [pc |-> "idle", hi |-> None, lo |-> None, goal |-> None]
Bars(lo, hi) == {k \in lo..hi : k >= 0}

Init ==
    /\ now = FirstNow
    /\ store \in {{}} \union {Bars(lo, hi) : lo \in 0..FirstNow, hi \in 0..FirstNow - 1}
    /\ job = [j \in Jobs |-> Rest]
    /\ done = FALSE /\ mail = {} /\ look = None
    /\ told = {} /\ odd = {} /\ faults = 0

Fault == faults < MaxFaults /\ faults' = faults + 1
Goto(j, pc) == job' = [job EXCEPT ![j].pc = pc]
Note(what, happened) == odd' = IF happened THEN odd \union {what} ELSE odd
Closed(bars) == {k \in bars : k < now}

(* runBackfill comes to the series, or ensureSymbol is called.             *)
StartJob(j) ==
    /\ job[j].pc = "idle" /\ ~done
    /\ Goto(j, "deep")
    /\ UNCHANGED <<now, store, done, mail, look, told, odd, faults>>

(* backfillHistory: deep enough, or walk back from the oldest bar; from    *)
(* now on if there is none.                                                *)
ReadOldest(j) ==
    /\ job[j].pc = "deep"
    /\ IF store # {} /\ Min(store) <= now - Target
       THEN Goto(j, "sync") /\ UNCHANGED odd
       ELSE /\ job' = [job EXCEPT ![j] = [pc |-> "page", hi |-> IF store = {} THEN now ELSE Min(store) - 1,
                                          lo |-> None, goal |-> now - Target]]
            /\ Note("short", store = {})
    /\ UNCHANGED <<now, store, done, mail, look, told, faults>>

(* A page arrives: the bar in progress is dropped; an empty or a short     *)
(* page counts as the start of the listing.                                *)
GotPage(j) ==
    LET bars == Closed(Bars(job[j].hi - Page + 1, job[j].hi))
    IN  /\ job[j].pc = "page"
        /\ store' = store \union bars
        /\ IF Cardinality(bars) < Page \/ Min(bars) <= job[j].goal
           THEN Goto(j, "sync")
           ELSE job' = [job EXCEPT ![j].hi = Min(bars) - 1]
        /\ UNCHANGED <<now, done, mail, look, told, odd, faults>>

Complete(j) == done' = TRUE /\ job' = [job EXCEPT ![j] = Rest]

(* syncForward: how many bars are missing after the newest one.            *)
ReadNewest(j) ==
    LET missing == now - Max(store) - 1
    IN  /\ job[j].pc = "sync"
        /\ IF store = {}
           THEN job' = [job EXCEPT ![j] = [@ EXCEPT !.pc = "last", !.lo = now - Page + 1, !.hi = now]] /\ UNCHANGED done
           ELSE IF missing <= 0
           THEN Complete(j)
           ELSE /\ job' = [job EXCEPT ![j] = [@ EXCEPT !.pc = "next", !.lo = Max(store) + 1,
                                                       !.hi = Max(store) + Min({Page, missing + 1})]]
                /\ UNCHANGED done
        /\ UNCHANGED <<now, store, mail, look, told, odd, faults>>

(* The bars arrive: a full request goes round again.                        *)
GotBars(j) ==
    LET bars == Closed(Bars(job[j].lo, job[j].hi))
    IN  /\ job[j].pc \in {"last", "next"}
        /\ store' = store \union bars
        /\ IF job[j].pc = "next" /\ Cardinality(bars) = job[j].hi - job[j].lo + 1
           THEN Goto(j, "sync") /\ UNCHANGED done
           ELSE Complete(j)
        /\ UNCHANGED <<now, mail, look, told, odd, faults>>

(* A request or a write fails: the job is tried again an hour later.       *)
JobThrows(j) ==
    /\ job[j].pc # "idle" /\ Fault
    /\ job' = [job EXCEPT ![j] = Rest]
    /\ UNCHANGED <<now, store, done, mail, look, told, odd>>

-----------------------------------------------------------------------------
(* A live write and, if it wrote something new, the announcement.          *)
WriteLive(bars) ==
    LET new == bars \ store
    IN  /\ store' = store \union bars
        /\ told' = told \union new
        /\ odd' = odd \union {w \in {"twice", "hole"} :
                      IF w = "twice" THEN new \intersect told # {}
                      ELSE store # {} /\ new # {} /\ Min(new) > Max(store) + 1}

(* A message of the stream arrives.                                        *)
StreamBar(k) ==
    /\ k \in mail /\ mail' = mail \ {k}
    /\ WriteLive({k})
    /\ UNCHANGED <<now, job, done, look, faults>>

(* refreshCycle asks for the last bars and gets them.                      *)
Refresh ==
    /\ look = None /\ look' = now
    /\ UNCHANGED <<now, store, job, done, mail, told, odd, faults>>

GotRefresh ==
    /\ look # None /\ look' = None
    /\ WriteLive(Closed(Bars(look - Recent + 1, look)))
    /\ UNCHANGED <<now, job, done, mail, faults>>

PruneOldBars ==
    /\ store' = {k \in store : k >= now - Keep} /\ store' # store
    /\ Note("hole", store' = {})
    /\ UNCHANGED <<now, job, done, mail, look, told, faults>>

(* A bar closes; the stream sends it, unless it is down.                   *)
Tick ==
    /\ now < LastNow /\ now' = now + 1
    /\ \/ mail' = mail \union {now} /\ UNCHANGED faults
       \/ Fault /\ UNCHANGED mail
    /\ UNCHANGED <<store, job, done, look, told, odd>>

Restart ==
    /\ Fault
    /\ job' = [j \in Jobs |-> Rest] /\ done' = FALSE /\ mail' = {} /\ look' = None
    /\ UNCHANGED <<now, store, told, odd>>

Next ==
    \/ \E j \in Jobs : StartJob(j) \/ ReadOldest(j) \/ GotPage(j) \/ ReadNewest(j) \/ GotBars(j) \/ JobThrows(j)
    \/ \E k \in mail : StreamBar(k)
    \/ Refresh \/ GotRefresh \/ PruneOldBars \/ Tick \/ Restart

Spec == Init /\ [][Next]_candleVars

-----------------------------------------------------------------------------
(* Every variable keeps its shape.                                         *)
TypeOK ==
    /\ now \in FirstNow..LastNow /\ store \subseteq 0..now - 1 /\ mail \subseteq 0..now - 1 /\ told \subseteq 0..now - 1
    /\ \A j \in Jobs : job[j].pc \in {"idle", "deep", "page", "sync", "last", "next"}
    /\ look \in Nat \union {None} /\ faults \in 0..MaxFaults
    /\ done \in BOOLEAN /\ odd \subseteq {"twice", "short", "hole"}

(* klineService.ts:171-232: what the walk back, the sync, the stream, the  *)
(* refresh and the pruning leave in the table has no holes, however they   *)
(* overlap, fail and restart, as long as no live bar was written before    *)
(* the sync got to the series after an outage, and the table was not       *)
(* pruned empty: such a hole is for ever, for both walks look only beyond  *)
(* the ends of the table.  And a completed series reaches back to its      *)
(* target or to the listing, unless the table was empty: the first page    *)
(* then lacks the bar in progress and counts as the start of the listing.  *)
StoreIsWhole ==
    "hole" \notin odd /\ store # {} =>
        /\ store = Min(store)..Max(store)
        /\ done /\ "short" \notin odd => Min(store) <= Max({0, now - Target})

(* klineService.ts:152-167, 315-330, 376-386: stream and refresh announce  *)
(* a closed bar once between them.                                         *)
AnnouncedOnce == "twice" \notin odd
=============================================================================
