------------------------------ MODULE Sessions ------------------------------
(***************************************************************************)
(* Refresh-token rotation (routes/auth.ts) for one browser whose tabs      *)
(* share one cookie jar, in front of several API servers.  A refresh looks *)
(* the token up, revokes its session, creates the next one and answers     *)
(* with new cookies; each server also remembers, in memory, the tokens it  *)
(* rotated.  A token is a number in order of issue.                        *)
(***************************************************************************)
EXTENDS Integers, FiniteSets

CONSTANTS
    Tabs, Servers,
    MaxTokens       \* bound: sessions ever created

SessionsAssumption == MaxTokens \in Nat \ {0}

VARIABLES
    jar,       \* the cf_refresh_token of the browser, or NoToken
    session,   \* authSession rows; "recent" is revoked less than REFRESH_GRACE_MS ago
    grace,     \* refreshGraceByHash of each server
    tab,       \* the refresh each tab has in flight
    excused    \* history: signed out, or an answer was lost, since the last login

sessionVars == <<jar, session, grace, tab, excused>>

NoToken == 0
Tokens == 1..MaxTokens
Quiet == [pc |-> "idle", token |-> NoToken, server |-> NoToken, next |-> NoToken]
Fresh == {k \in Tokens : session[k] = "none"}
Newest(k) == k \in Fresh /\ \A o \in 1..(k - 1) : o \notin Fresh

Init ==
    /\ jar = NoToken
    /\ session = [k \in Tokens |-> "none"]
    /\ grace = [s \in Servers |-> {}]
    /\ tab = [t \in Tabs |-> Quiet]
    /\ excused = TRUE

(* revokeRefreshSessionByToken: updateMany where revokedAt is null.        *)
Revoked(k) == [session EXCEPT ![k] = IF @ = "live" THEN "recent" ELSE @]

-----------------------------------------------------------------------------
(* POST /login (or /verify-email) by a signed-out browser.                 *)
Login ==
    /\ jar = NoToken /\ \A t \in Tabs : tab[t].pc = "idle"
    /\ \E k \in Tokens :
          /\ Newest(k)
          /\ session' = [session EXCEPT ![k] = "live"]
          /\ jar' = k
    /\ excused' = FALSE
    /\ UNCHANGED <<grace, tab>>

(* POST /logout revokes the token it was sent and clears the cookies.      *)
Logout ==
    /\ jar # NoToken
    /\ session' = Revoked(jar)
    /\ jar' = NoToken
    /\ excused' = TRUE
    /\ UNCHANGED <<grace, tab>>

(* POST /refresh by a tab, with the cookie of this moment.                 *)
SendRefresh(t, s) ==
    /\ tab[t].pc = "idle" /\ jar # NoToken /\ Fresh # {}
    /\ tab' = [tab EXCEPT ![t] = [Quiet EXCEPT !.pc = "match", !.token = jar, !.server = s]]
    /\ UNCHANGED <<jar, session, grace, excused>>

(* Mutant: only this server's own memory grants the grace.                 *)
InMemoryOnly(k, s) == k \in grace[s]

(* consumeRefreshGrace, or a session revoked within the grace period.      *)
InGrace(k, s) == k \in grace[s] \/ session[k] = "recent"

Match(t) ==
    LET k == tab[t].token
    IN  /\ tab[t].pc = "match"
        /\ tab' = [tab EXCEPT ![t].pc = IF session[k] = "live" THEN "revoke"
                                        ELSE IF InGrace(k, tab[t].server) THEN "create" ELSE "deny"]
        /\ UNCHANGED <<jar, session, grace, excused>>

Revoke(t) ==
    /\ tab[t].pc = "revoke"
    /\ session' = Revoked(tab[t].token)
    /\ grace' = [grace EXCEPT ![tab[t].server] = @ \union {tab[t].token}]
    /\ tab' = [tab EXCEPT ![t].pc = "create"]
    /\ UNCHANGED <<jar, excused>>

(* The next session; the redeemed token is remembered once more.           *)
Create(t) ==
    /\ tab[t].pc = "create"
    /\ \E k \in Tokens :
          /\ Newest(k)
          /\ session' = [session EXCEPT ![k] = "live"]
          /\ tab' = [tab EXCEPT ![t].pc = "reply", ![t].next = k]
    /\ grace' = [grace EXCEPT ![tab[t].server] = @ \union {tab[t].token}]
    /\ UNCHANGED <<jar, excused>>

(* setAuthCookies / clearAuthCookies: the answer reaches the jar.          *)
Reply(t) ==
    /\ tab[t].pc \in {"reply", "deny"}
    /\ jar' = tab[t].next
    /\ tab' = [tab EXCEPT ![t] = Quiet]
    /\ UNCHANGED <<session, grace, excused>>

(* The answer is lost on the way.                                          *)
ReplyLost(t) ==
    /\ tab[t].pc \in {"reply", "deny"}
    /\ tab' = [tab EXCEPT ![t] = Quiet]
    /\ excused' = TRUE
    /\ UNCHANGED <<jar, session, grace>>

(* A database error answers 500; the cookies stay.                         *)
RefreshThrows(t) ==
    /\ tab[t].pc \in {"match", "revoke", "create"}
    /\ tab' = [tab EXCEPT ![t] = Quiet]
    /\ excused' = TRUE
    /\ UNCHANGED <<jar, session, grace>>

-----------------------------------------------------------------------------
(* 45 s pass for a token.  A request answered at all is answered sooner,   *)
(* so it is not in flight; the servers' entries are younger than the row.  *)
GraceEnds(k) ==
    /\ session[k] = "recent"
    /\ \A t \in Tabs : tab[t].token # k
    /\ session' = [session EXCEPT ![k] = "old"]
    /\ UNCHANGED <<jar, grace, tab, excused>>

MemoryGraceEnds(k, s) ==
    /\ k \in grace[s] /\ session[k] = "old"
    /\ \A t \in Tabs : tab[t].token # k
    /\ grace' = [grace EXCEPT ![s] = @ \ {k}]
    /\ UNCHANGED <<jar, session, tab, excused>>

(* A server restarts: its map is empty, its requests die unanswered.       *)
RestartServer(s) ==
    /\ grace' = [grace EXCEPT ![s] = {}]
    /\ tab' = [t \in Tabs |-> IF tab[t].server = s THEN Quiet ELSE tab[t]]
    /\ excused' = (excused \/ \E t \in Tabs : tab[t].server = s)
    /\ UNCHANGED <<jar, session>>

Next ==
    \/ Login \/ Logout
    \/ \E t \in Tabs :
          \/ \E s \in Servers : SendRefresh(t, s)
          \/ Match(t) \/ Revoke(t) \/ Create(t) \/ Reply(t) \/ ReplyLost(t) \/ RefreshThrows(t)
    \/ \E k \in Tokens : GraceEnds(k) \/ \E s \in Servers : MemoryGraceEnds(k, s)
    \/ \E s \in Servers : RestartServer(s)

Spec == Init /\ [][Next]_sessionVars

-----------------------------------------------------------------------------
(* Every variable keeps its shape.                                         *)
TypeOK ==
    /\ jar \in Tokens \union {NoToken}
    /\ session \in [Tokens -> {"none", "live", "recent", "old"}]
    /\ grace \in [Servers -> SUBSET Tokens]
    /\ tab \in [Tabs -> [pc : {"idle", "match", "revoke", "create", "reply", "deny"},
                         token : Tokens \union {NoToken}, server : Servers \union {NoToken},
                         next : Tokens \union {NoToken}]]
    /\ excused \in BOOLEAN

(* auth.ts:166-170: tabs that rotate the same token at the same time, on   *)
(* different servers and with their answers arriving in any order, never   *)
(* sign the browser out: unless it signed out itself or an answer was      *)
(* lost, what the jar holds can always be redeemed, on every server.       *)
StaysSignedIn ==
    ~excused => /\ jar # NoToken
                /\ session[jar] = "live" \/ \A s \in Servers : InGrace(jar, s)
=============================================================================
