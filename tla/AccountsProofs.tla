--------------------------- MODULE AccountsProofs ---------------------------
(***************************************************************************)
(* What is proved of the components that belong to a user's account, for   *)
(* every value of their constants.  Sessions: tabs that rotate one refresh *)
(* token do not sign each other out.  SolanaWallet (S): a listing that     *)
(* fails half-way hides one mint at most, and COMPLETED is true.           *)
(* BscWallet (W): a convert takes no more than was asked, and COMPLETED is *)
(* true.  ChatLinks (L): a chat keeps its account, and the cap on linked   *)
(* chats holds.  DelegateBudget (D): the hot wallet's delegate keeps its   *)
(* budget.  SignIn (G): the wrong guesses of a code are bounded.           *)
(* SignalInbox (I): a message is not said twice, and the newest are kept.  *)
(* Alerts (A): no alert of a queue is lost, doubled or reordered, and      *)
(* milestones are announced once.                                          *)
(***************************************************************************)
EXTENDS Sessions, Sequences, FiniteSetTheorems, WellFoundedInduction, TLAPS

\* Constants and variables of SolanaWallet.
CONSTANTS Legacy, Token22, MaxChanges
VARIABLES held, changes, listing, lastGood, shown, sure, sent

\* Constants and variables of BscWallet.
CONSTANTS Calls, Lot, Fee, Cash, Deposit, Take, Others, MaxRows, MaxRequests
VARIABLES usdt, tok, trade, call, cool, afloat, wd, conv, asked

\* Constants and variables of ChatLinks.
CONSTANTS Users, Chats, Hooks, MaxLinks, MaxCodes
VARIABLES codes, links, hook, overlapped, rejoined

\* Constants and variables of DelegateBudget.
CONSTANTS Buyers, BudgetUsdt, MaxPerTx, MaxBuys
VARIABLES counted, remembered, allowance, spent, grants, buyer, buys, orderly

\* Constants and variables of SignIn; MaxCodes is declared above.
CONSTANTS Reqs, MaxAttempts, MaxFailed, MaxSent
VARIABLES user, issued, http, sentReqs, tried, signedIn

\* Constants and variables of SignalInbox, some under names of their own.
CONSTANTS Syncs, Signals, Keep, Day, AllocWindow, LastNow, MaxSyncs
VARIABLES now, synced, made, gone, sync, raced

\* Constants and variables of Alerts, some under names of their own.
CONSTANTS AlertChats, Drains, MaxAttempt, Milestones, TopProfit, MaxAlerts, MaxLots
VARIABLES wants, alerts, line, drain, arrived, told, position, mark, quiet, fired

S == INSTANCE SolanaWallet
W == INSTANCE BscWallet
L == INSTANCE ChatLinks
D == INSTANCE DelegateBudget
G == INSTANCE SignIn WITH codes <- issued
I == INSTANCE SignalInbox WITH asked <- synced, call <- sync, Calls <- Syncs, MaxRequests <- MaxSyncs
A == INSTANCE Alerts WITH Chats <- AlertChats, sent <- alerts, lot <- position, seen <- mark

-----------------------------------------------------------------------------
(* Sessions *)

Refreshes == [pc : {"idle", "match", "revoke", "create", "reply", "deny"},
              token : Tokens \union {NoToken}, server : Servers \union {NoToken},
              next : Tokens \union {NoToken}]
States == {"none", "live", "recent", "old"}

InFlight(t) == tab[t].pc # "idle"

\* A request redeems a token.
Redeems == \A t \in Tabs : InFlight(t) => tab[t].token \in Tokens

\* A token that is being redeemed was live or is within its grace: the grace
\* does not end while a request is in flight.
TokenUsable(t) ==
    /\ session[tab[t].token] \in {"live", "recent"}
    /\ tab[t].pc \in {"create", "reply"} => session[tab[t].token] = "recent"

\* The token of an answer on its way is live, and nobody has it yet: not the
\* jar, not a request, not another answer.
AnswerIsNew(t) ==
    /\ tab[t].next \in Tokens /\ session[tab[t].next] = "live" /\ tab[t].next # jar
    /\ \A o \in Tabs : /\ InFlight(o) => tab[o].token # tab[t].next
                       /\ (tab[o].pc = "reply" /\ o # t) => tab[o].next # tab[t].next

\* What the jar holds is live, or was rotated by a request that will put
\* another token into the jar.
JarIsGood ==
    /\ jar \in Tokens
    /\ \/ session[jar] = "live"
       \/ /\ session[jar] = "recent"
          /\ \E t \in Tabs : tab[t].token = jar /\ tab[t].pc \in {"create", "reply"}

Signed ==
    /\ JarIsGood
    /\ \A t \in Tabs : /\ tab[t].pc # "deny"
                       /\ InFlight(t) => TokenUsable(t)
                       /\ tab[t].pc = "reply" => AnswerIsNew(t)

\* The inductive invariant.
SInv == SessionsAssumption /\ TypeOK /\ Redeems /\ (~excused => Signed)

-----------------------------------------------------------------------------
(* The type invariant *)

\* Tokens are numbers, none of them is NoToken, and a quiet tab is one.
LEMMA TokenFacts ==
    ASSUME SessionsAssumption
    PROVE  Tokens \subseteq Nat /\ NoToken \notin Tokens /\ Quiet \in Refreshes
  <1>1. Tokens \subseteq Nat /\ NoToken \notin Tokens
    BY DEF SessionsAssumption, Tokens, NoToken
  <1> QED BY <1>1 DEF Quiet, Refreshes

\* The types, one by one.
LEMMA Types ==
    ASSUME SInv
    PROVE  /\ jar \in Tokens \union {NoToken} /\ session \in [Tokens -> States]
           /\ grace \in [Servers -> SUBSET Tokens] /\ tab \in [Tabs -> Refreshes]
           /\ excused \in BOOLEAN /\ SessionsAssumption
  BY DEF SInv, TypeOK, Refreshes, States

\* Revoking a token gives well-typed sessions and touches that one alone.
LEMMA RevokedType ==
    ASSUME SInv, NEW k \in Tokens
    PROVE  /\ Revoked(k) \in [Tokens -> States]
           /\ \A o \in Tokens : /\ o # k => Revoked(k)[o] = session[o]
                                /\ session[o] # "live" => Revoked(k)[o] = session[o]
           /\ session[k] = "live" => Revoked(k)[k] = "recent"
  BY Types DEF Revoked, States

\* A revocation by a token that is not one changes nothing.
LEMMA RevokedNothing ==
    ASSUME SInv, NEW k, k \notin Tokens PROVE Revoked(k) = session
  BY Types DEF Revoked

\* Every step leaves the types.
LEMMA TypeKept == ASSUME SInv, [Next]_sessionVars PROVE TypeOK'
  <1>0. /\ jar \in Tokens \union {NoToken} /\ session \in [Tokens -> States]
        /\ grace \in [Servers -> SUBSET Tokens] /\ tab \in [Tabs -> Refreshes]
        /\ excused \in BOOLEAN /\ Quiet \in Refreshes
    BY Types, TokenFacts
  <1>r. ASSUME NEW k \in Tokens \union {NoToken} PROVE Revoked(k) \in [Tokens -> States]
    BY <1>0, RevokedType, RevokedNothing
  <1>s. ASSUME /\ jar' \in Tokens \union {NoToken} /\ session' \in [Tokens -> States]
               /\ grace' \in [Servers -> SUBSET Tokens] /\ tab' \in [Tabs -> Refreshes]
               /\ excused' \in BOOLEAN
        PROVE  TypeOK'
    BY <1>s DEF TypeOK, Refreshes, States
  <1>1. CASE UNCHANGED sessionVars
    BY <1>0, <1>1, <1>s DEF sessionVars
  <1>2. CASE Login
    <2>1. PICK k \in Tokens : session' = [session EXCEPT ![k] = "live"] /\ jar' = k
      BY <1>2 DEF Login
    <2>2. session' \in [Tokens -> States]
      BY <1>0, <2>1 DEF States
    <2> QED BY <1>0, <1>2, <1>s, <2>1, <2>2 DEF Login
  <1>3. CASE Logout
    BY <1>0, <1>3, <1>r, <1>s DEF Logout
  <1>4. ASSUME NEW t \in Tabs, NEW s \in Servers, SendRefresh(t, s) PROVE TypeOK'
    <2>1. [Quiet EXCEPT !.pc = "match", !.token = jar, !.server = s] \in Refreshes
      BY <1>0 DEF Quiet, Refreshes
    <2>2. tab' \in [Tabs -> Refreshes]
      BY <1>0, <1>4, <2>1 DEF SendRefresh
    <2> QED BY <1>0, <1>4, <1>s, <2>2 DEF SendRefresh
  <1>5. ASSUME NEW t \in Tabs, Match(t) PROVE TypeOK'
    <2>1. tab' \in [Tabs -> Refreshes]
      BY <1>0, <1>5 DEF Match, Refreshes
    <2> QED BY <1>0, <1>5, <1>s, <2>1 DEF Match
  <1>g. ASSUME NEW t \in Tabs, NEW s, tab[t].token \in Tokens
        PROVE  [grace EXCEPT ![s] = @ \union {tab[t].token}] \in [Servers -> SUBSET Tokens]
    BY <1>0, <1>g
  <1>6. ASSUME NEW t \in Tabs, Revoke(t) PROVE TypeOK'
    <2>1. tab' \in [Tabs -> Refreshes]
      BY <1>0, <1>6 DEF Revoke, Refreshes
    <2>2. tab[t].token \in Tokens
      BY <1>6 DEF Revoke, SInv, Redeems, InFlight
    <2>3. grace' \in [Servers -> SUBSET Tokens]
      BY <1>6, <1>g, <2>2 DEF Revoke
    <2> QED BY <1>0, <1>6, <1>r, <1>s, <2>1, <2>2, <2>3 DEF Revoke
  <1>7. ASSUME NEW t \in Tabs, Create(t) PROVE TypeOK'
    <2>1. PICK k \in Tokens : /\ session' = [session EXCEPT ![k] = "live"]
                              /\ tab' = [tab EXCEPT ![t].pc = "reply", ![t].next = k]
      BY <1>7 DEF Create
    <2>2. tab[t].token \in Tokens
      BY <1>7 DEF Create, SInv, Redeems, InFlight
    <2>3. grace' \in [Servers -> SUBSET Tokens]
      BY <1>7, <1>g, <2>2 DEF Create
    <2>4. session' \in [Tokens -> States] /\ tab' \in [Tabs -> Refreshes]
      BY <1>0, <2>1 DEF States, Refreshes
    <2> QED BY <1>0, <1>7, <1>s, <2>3, <2>4 DEF Create
  <1>8. ASSUME NEW t \in Tabs, Reply(t) \/ ReplyLost(t) \/ RefreshThrows(t) PROVE TypeOK'
    <2>1. tab' \in [Tabs -> Refreshes] /\ tab[t].next \in Tokens \union {NoToken}
      BY <1>0, <1>8 DEF Reply, ReplyLost, RefreshThrows, Refreshes
    <2>2. jar' \in Tokens \union {NoToken} /\ UNCHANGED <<session, grace>>
      BY <1>0, <1>8, <2>1 DEF Reply, ReplyLost, RefreshThrows
    <2>3. excused' \in BOOLEAN
      BY <1>0, <1>8 DEF Reply, ReplyLost, RefreshThrows
    <2> QED BY <1>0, <1>s, <2>1, <2>2, <2>3
  <1>9. ASSUME NEW k \in Tokens, GraceEnds(k) PROVE TypeOK'
    <2>1. session' \in [Tokens -> States]
      BY <1>0, <1>9 DEF GraceEnds, States
    <2> QED BY <1>0, <1>9, <1>s, <2>1 DEF GraceEnds
  <1>10. ASSUME NEW k \in Tokens, NEW s \in Servers, MemoryGraceEnds(k, s) PROVE TypeOK'
    <2>1. grace' \in [Servers -> SUBSET Tokens]
      BY <1>0, <1>10 DEF MemoryGraceEnds
    <2> QED BY <1>0, <1>10, <1>s, <2>1 DEF MemoryGraceEnds
  <1>11. ASSUME NEW s \in Servers, RestartServer(s) PROVE TypeOK'
    <2>1. grace' \in [Servers -> SUBSET Tokens] /\ tab' \in [Tabs -> Refreshes]
      BY <1>0, <1>11 DEF RestartServer
    <2>2. excused' \in BOOLEAN
      BY <1>0, <1>11, Zenon DEF RestartServer
    <2> QED BY <1>0, <1>11, <1>s, <2>1, <2>2 DEF RestartServer
  <1> QED BY <1>1, <1>2, <1>3, <1>4, <1>5, <1>6, <1>7, <1>8, <1>9, <1>10, <1>11 DEF Next

-----------------------------------------------------------------------------
(* The rotation *)

\* A request keeps its token from first to last, and a new one takes that of
\* the jar.
LEMMA RedeemsKept == ASSUME SInv, [Next]_sessionVars PROVE Redeems'
  <1>0. tab \in [Tabs -> Refreshes] /\ Redeems /\ jar \in Tokens \union {NoToken}
        /\ Quiet.pc = "idle"
    BY Types DEF SInv, Quiet
  <1>1. ASSUME \A o \in Tabs : tab'[o].pc = "idle"
                  \/ (tab[o].pc # "idle" /\ tab'[o].token = tab[o].token)
        PROVE  Redeems'
    BY <1>0, <1>1 DEF Redeems, InFlight
  <1>2. CASE \/ UNCHANGED sessionVars \/ Login \/ Logout
             \/ \E k \in Tokens : GraceEnds(k) \/ \E s \in Servers : MemoryGraceEnds(k, s)
    <2>1. tab' = tab
      BY <1>2 DEF sessionVars, Login, Logout, GraceEnds, MemoryGraceEnds
    <2> QED BY <1>0, <1>1, <2>1
  <1>3. ASSUME NEW t \in Tabs, NEW s \in Servers, SendRefresh(t, s) PROVE Redeems'
    <2>1. jar \in Tokens /\ tab'[t].token = jar /\ \A o \in Tabs \ {t} : tab'[o] = tab[o]
      BY <1>0, <1>3 DEF SendRefresh, Quiet
    <2> QED BY <1>0, <2>1 DEF Redeems, InFlight
  <1>4. ASSUME NEW t \in Tabs, Match(t) \/ Revoke(t) \/ Create(t) PROVE Redeems'
    <2>1. \A o \in Tabs : tab'[o].token = tab[o].token /\ (tab[o].pc = "idle" => tab'[o] = tab[o])
      BY <1>0, <1>4 DEF Match, Revoke, Create, Refreshes
    <2> QED BY <1>1, <2>1
  <1>5. ASSUME NEW t \in Tabs, Reply(t) \/ ReplyLost(t) \/ RefreshThrows(t) PROVE Redeems'
    <2>1. tab'[t].pc = "idle" /\ \A o \in Tabs \ {t} : tab'[o] = tab[o]
      BY <1>0, <1>5 DEF Reply, ReplyLost, RefreshThrows
    <2> QED BY <1>1, <2>1
  <1>6. ASSUME NEW s \in Servers, RestartServer(s) PROVE Redeems'
    <2>1. \A o \in Tabs : tab'[o].pc = "idle" \/ tab'[o] = tab[o]
      BY <1>0, <1>6 DEF RestartServer
    <2> QED BY <1>1, <2>1
  <1> QED BY <1>2, <1>3, <1>4, <1>5, <1>6 DEF Next

\* A login finds no request in flight.
LEMMA LoginSigns == ASSUME SInv, Login PROVE Signed'
  <1>0. tab \in [Tabs -> Refreshes] /\ session \in [Tokens -> States]
    BY Types
  <1>1. PICK k \in Tokens : session' = [session EXCEPT ![k] = "live"] /\ jar' = k
    BY DEF Login
  <1>2. session'[jar'] = "live" /\ jar' \in Tokens
    BY <1>0, <1>1
  <1>3. \A t \in Tabs : tab'[t].pc = "idle"
    BY DEF Login
  <1> QED BY <1>2, <1>3 DEF Signed, JarIsGood, InFlight

\* A new request takes the token of the jar, which is good.
LEMMA SendSigns ==
    ASSUME SInv, Signed, NEW t \in Tabs, NEW s \in Servers, SendRefresh(t, s)
    PROVE  Signed'
  <1>0. tab \in [Tabs -> Refreshes] /\ session \in [Tokens -> States] /\ UNCHANGED <<jar, session>>
    BY Types DEF SendRefresh
  <1>1. /\ tab[t].pc = "idle" /\ \A o \in Tabs \ {t} : tab'[o] = tab[o]
        /\ tab'[t].pc = "match" /\ tab'[t].token = jar
    BY <1>0 DEF SendRefresh, Quiet
  <1>2. JarIsGood'
    BY <1>0, <1>1 DEF Signed, JarIsGood
  <1>3. \A o \in Tabs : tab'[o].pc # "deny"
    BY <1>1 DEF Signed
  <1>4. ASSUME NEW o \in Tabs, InFlight(o)' PROVE TokenUsable(o)'
    BY <1>0, <1>1, <1>4 DEF Signed, JarIsGood, TokenUsable, InFlight
  <1>5. ASSUME NEW o \in Tabs, tab'[o].pc = "reply" PROVE AnswerIsNew(o)'
    BY <1>0, <1>1, <1>5 DEF Signed, AnswerIsNew, InFlight
  <1> QED BY <1>2, <1>3, <1>4, <1>5 DEF Signed

\* A match never denies: the token is live, or within its grace on every
\* server.
LEMMA MatchSigns == ASSUME SInv, Signed, NEW t \in Tabs, Match(t) PROVE Signed'
  <1>0. tab \in [Tabs -> Refreshes] /\ session \in [Tokens -> States] /\ UNCHANGED <<jar, session>>
        /\ tab[t].pc = "match"
    BY Types DEF Match
  <1>1. TokenUsable(t)
    BY <1>0 DEF Signed, InFlight
  <1>2. /\ tab'[t].pc = IF session[tab[t].token] = "live" THEN "revoke" ELSE "create"
        /\ tab'[t].token = tab[t].token /\ \A o \in Tabs \ {t} : tab'[o] = tab[o]
    BY <1>0, <1>1 DEF Match, TokenUsable, InGrace, Refreshes
  <1>3. JarIsGood'
    BY <1>0, <1>2 DEF Signed, JarIsGood
  <1>4. \A o \in Tabs : tab'[o].pc # "deny"
    BY <1>2 DEF Signed
  <1>5. ASSUME NEW o \in Tabs, InFlight(o)' PROVE TokenUsable(o)'
    BY <1>0, <1>1, <1>2, <1>5 DEF Signed, TokenUsable, InFlight
  <1>6. ASSUME NEW o \in Tabs, tab'[o].pc = "reply" PROVE AnswerIsNew(o)'
    BY <1>0, <1>2, <1>6 DEF Signed, AnswerIsNew, InFlight
  <1> QED BY <1>3, <1>4, <1>5, <1>6 DEF Signed

\* A revocation takes no token that is on its way to the jar; if it takes
\* that of the jar, this request will replace it.
LEMMA RevokeSigns == ASSUME SInv, Signed, NEW t \in Tabs, Revoke(t) PROVE Signed'
  <1>0. /\ tab \in [Tabs -> Refreshes] /\ session \in [Tokens -> States] /\ jar' = jar
        /\ tab[t].pc = "revoke" /\ session' = Revoked(tab[t].token) /\ tab[t].token \in Tokens
    BY Types DEF Revoke, SInv, Redeems, InFlight
  <1>1. /\ \A o \in Tokens : o # tab[t].token => session'[o] = session[o]
        /\ \A o \in Tokens : session[o] # "live" => session'[o] = session[o]
        /\ session'[tab[t].token] = "recent"
    <2>1. session[tab[t].token] \in {"live", "recent"}
      BY <1>0 DEF Signed, TokenUsable, InFlight
    <2> QED BY <1>0, <2>1, RevokedType
  <1>2. /\ tab'[t].pc = "create" /\ tab'[t].token = tab[t].token
        /\ \A o \in Tabs \ {t} : tab'[o] = tab[o]
    BY <1>0 DEF Revoke, Refreshes
  <1>3. JarIsGood'
    BY <1>0, <1>1, <1>2 DEF Signed, JarIsGood
  <1>4. \A o \in Tabs : tab'[o].pc # "deny"
    BY <1>2 DEF Signed
  <1>5. ASSUME NEW o \in Tabs, InFlight(o)' PROVE TokenUsable(o)'
    <2>1. InFlight(o) /\ TokenUsable(o) /\ tab[o].token \in Tokens
      BY <1>0, <1>2, <1>5 DEF Signed, InFlight, SInv, Redeems
    <2> QED BY <1>0, <1>1, <1>2, <2>1 DEF TokenUsable
  <1>6. ASSUME NEW o \in Tabs, tab'[o].pc = "reply" PROVE AnswerIsNew(o)'
    <2>1. o # t /\ AnswerIsNew(o) /\ tab'[o] = tab[o]
      BY <1>2, <1>6 DEF Signed
    <2>2. tab[o].next # tab[t].token
      BY <1>0, <2>1 DEF AnswerIsNew, InFlight
    <2> QED BY <1>0, <1>1, <1>2, <2>1, <2>2 DEF AnswerIsNew, InFlight
  <1> QED BY <1>3, <1>4, <1>5, <1>6 DEF Signed

\* A new session has a token that is nowhere yet.
LEMMA CreateSigns == ASSUME SInv, Signed, NEW t \in Tabs, Create(t) PROVE Signed'
  <1>0. /\ tab \in [Tabs -> Refreshes] /\ session \in [Tokens -> States] /\ jar' = jar
        /\ tab[t].pc = "create" /\ Redeems
    BY Types DEF Create, SInv
  <1>1. PICK k \in Tokens : /\ session[k] = "none"
                            /\ session' = [session EXCEPT ![k] = "live"]
                            /\ tab' = [tab EXCEPT ![t].pc = "reply", ![t].next = k]
    BY DEF Create, Newest, Fresh
  <1>2. /\ tab'[t].pc = "reply" /\ tab'[t].next = k /\ tab'[t].token = tab[t].token
        /\ \A o \in Tabs \ {t} : tab'[o] = tab[o]
        /\ session'[k] = "live" /\ \A o \in Tokens \ {k} : session'[o] = session[o]
    BY <1>0, <1>1 DEF Refreshes
  <1>3. /\ k # jar
        /\ \A o \in Tabs : /\ InFlight(o) => tab[o].token # k
                           /\ tab[o].pc = "reply" => tab[o].next # k
    BY <1>1 DEF Signed, JarIsGood, TokenUsable, AnswerIsNew
  <1>4. JarIsGood'
    BY <1>0, <1>2, <1>3 DEF Signed, JarIsGood
  <1>5. \A o \in Tabs : tab'[o].pc # "deny"
    BY <1>2 DEF Signed
  <1>6. ASSUME NEW o \in Tabs, InFlight(o)' PROVE TokenUsable(o)'
    <2>1. InFlight(o) /\ TokenUsable(o) /\ tab[o].token \in Tokens
      BY <1>0, <1>2, <1>6 DEF Signed, InFlight, Redeems
    <2> QED BY <1>0, <1>2, <1>3, <2>1 DEF TokenUsable
  <1>7. ASSUME NEW o \in Tabs, tab'[o].pc = "reply" PROVE AnswerIsNew(o)'
    <2>1. CASE o = t
      BY <1>0, <1>2, <1>3, <2>1 DEF AnswerIsNew, InFlight
    <2>2. CASE o # t
      <3>1. AnswerIsNew(o) /\ tab'[o] = tab[o] /\ tab[o].pc = "reply"
        BY <1>2, <1>7, <2>2 DEF Signed
      <3>2. /\ tab[o].next # k /\ tab[o].next \in Tokens /\ tab[o].next # jar
            /\ session'[tab[o].next] = "live"
        BY <1>2, <1>3, <3>1 DEF AnswerIsNew
      <3>3. ASSUME NEW x \in Tabs
            PROVE  /\ tab'[x].pc # "idle" => tab'[x].token # tab[o].next
                   /\ (tab'[x].pc = "reply" /\ x # o) => tab'[x].next # tab[o].next
        BY <1>0, <1>2, <3>1, <3>2 DEF AnswerIsNew, InFlight
      <3> QED BY <1>0, <3>1, <3>2, <3>3 DEF AnswerIsNew, InFlight
    <2> QED BY <2>1, <2>2
  <1> QED BY <1>4, <1>5, <1>6, <1>7 DEF Signed

\* An answer puts a live token into the jar, in whichever order they arrive.
LEMMA ReplySigns == ASSUME SInv, Signed, NEW t \in Tabs, Reply(t) PROVE Signed'
  <1>0. /\ tab \in [Tabs -> Refreshes] /\ session \in [Tokens -> States] /\ session' = session
        /\ tab[t].pc = "reply" /\ jar' = tab[t].next
    BY Types DEF Reply, Signed
  <1>1. AnswerIsNew(t)
    BY <1>0 DEF Signed
  <1>2. tab'[t].pc = "idle" /\ \A o \in Tabs \ {t} : tab'[o] = tab[o]
    BY <1>0 DEF Reply, Quiet
  <1>3. JarIsGood'
    BY <1>0, <1>1 DEF AnswerIsNew, JarIsGood
  <1>4. \A o \in Tabs : tab'[o].pc # "deny"
    BY <1>2 DEF Signed
  <1>5. ASSUME NEW o \in Tabs, InFlight(o)' PROVE TokenUsable(o)'
    BY <1>0, <1>2, <1>5 DEF Signed, TokenUsable, InFlight
  <1>6. ASSUME NEW o \in Tabs, tab'[o].pc = "reply" PROVE AnswerIsNew(o)'
    <2>1. o # t /\ AnswerIsNew(o) /\ tab'[o] = tab[o] /\ tab[o].pc = "reply"
      BY <1>2, <1>6 DEF Signed
    <2> QED BY <1>0, <1>1, <1>2, <2>1 DEF AnswerIsNew, InFlight
  <1> QED BY <1>3, <1>4, <1>5, <1>6 DEF Signed

\* The grace of a token ends only when no request redeems it, so it is not
\* that of the jar.
LEMMA GraceEndSigns == ASSUME SInv, Signed, NEW k \in Tokens, GraceEnds(k) PROVE Signed'
  <1>0. /\ tab \in [Tabs -> Refreshes] /\ session \in [Tokens -> States] /\ UNCHANGED <<jar, tab>>
        /\ session[k] = "recent" /\ \A t \in Tabs : tab[t].token # k /\ Redeems
        /\ \A o \in Tokens \ {k} : session'[o] = session[o]
    BY Types DEF GraceEnds, SInv
  <1>1. jar # k
    BY <1>0 DEF Signed, JarIsGood
  <1>2. JarIsGood'
    BY <1>0, <1>1 DEF Signed, JarIsGood
  <1>3. ASSUME NEW o \in Tabs, InFlight(o)' PROVE TokenUsable(o)'
    BY <1>0, <1>3 DEF Signed, TokenUsable, InFlight, Redeems
  <1>4. ASSUME NEW o \in Tabs, tab'[o].pc = "reply" PROVE AnswerIsNew(o)'
    BY <1>0, <1>4 DEF Signed, AnswerIsNew, InFlight
  <1> QED BY <1>0, <1>2, <1>3, <1>4 DEF Signed

\* Every step keeps the browser signed in, unless it excuses it.
LEMMA SignedKept == ASSUME SInv, [Next]_sessionVars, ~excused' PROVE Signed'
  <1>1. CASE Login
    BY <1>1, LoginSigns
  <1>2. ASSUME ~excused PROVE Signed
    BY <1>2 DEF SInv
  <1>3. CASE UNCHANGED <<jar, session, tab>> /\ ~excused
    BY <1>2, <1>3 DEF Signed, JarIsGood, InFlight, TokenUsable, AnswerIsNew
  <1>4. CASE UNCHANGED sessionVars \/ \E k \in Tokens, s \in Servers : MemoryGraceEnds(k, s)
    BY <1>3, <1>4 DEF sessionVars, MemoryGraceEnds
  <1>5. ASSUME NEW s \in Servers, RestartServer(s) PROVE Signed'
    <2>1. ~excused /\ (\A t \in Tabs : tab[t].server # s) /\ UNCHANGED <<jar, session>>
      BY <1>5, Zenon DEF RestartServer
    <2>2. tab' = tab
      BY <1>5, <2>1, Types DEF RestartServer
    <2> QED BY <1>3, <2>1, <2>2
  <1>6. ASSUME NEW t \in Tabs, NEW s \in Servers, SendRefresh(t, s) PROVE Signed'
    BY <1>2, <1>6, SendSigns DEF SendRefresh
  <1>7. ASSUME NEW t \in Tabs, Match(t) \/ Revoke(t) \/ Create(t) \/ Reply(t) PROVE Signed'
    <2>1. Signed
      BY <1>2, <1>7 DEF Match, Revoke, Create, Reply
    <2> QED BY <1>7, <2>1, MatchSigns, RevokeSigns, CreateSigns, ReplySigns
  <1>8. ASSUME NEW k \in Tokens, GraceEnds(k) PROVE Signed'
    BY <1>2, <1>8, GraceEndSigns DEF GraceEnds
  <1>9. ~Logout /\ \A t \in Tabs : ~ReplyLost(t) /\ ~RefreshThrows(t)
    BY DEF Logout, ReplyLost, RefreshThrows
  <1> QED BY <1>1, <1>4, <1>5, <1>6, <1>7, <1>8, <1>9 DEF Next

\* Every step keeps the invariant.
LEMMA SInvInductive == SInv /\ [Next]_sessionVars => SInv'
  <1> SUFFICES ASSUME SInv, [Next]_sessionVars PROVE SInv'
    OBVIOUS
  <1>1. SessionsAssumption'
    BY DEF SInv, SessionsAssumption
  <1> QED BY <1>1, TypeKept, RedeemsKept, SignedKept DEF SInv

\* The first state satisfies it.
LEMMA InitSInv == SessionsAssumption /\ Init => SInv
  <1> SUFFICES ASSUME SessionsAssumption, Init PROVE SInv
    OBVIOUS
  <1>1. TypeOK
    <2>1. tab \in [Tabs -> Refreshes]
      BY TokenFacts DEF Init
    <2>2. excused \in BOOLEAN
      BY Zenon DEF Init
    <2> QED BY <2>1, <2>2 DEF Init, TypeOK, Refreshes
  <1>2. Redeems
    BY DEF Init, Redeems, InFlight, Quiet
  <1>3. excused
    BY DEF Init
  <1> QED BY <1>1, <1>2, <1>3 DEF SInv

\* The jar, the sessions, the servers' memories and the requests are always
\* well typed.
THEOREM TypeCorrect == SessionsAssumption /\ Spec => []TypeOK
  <1>1. SInv => TypeOK
    BY DEF SInv
  <1> QED BY <1>1, InitSInv, SInvInductive, PTL DEF Spec

\* What the invariant says of the jar.
LEMMA SInvStays == SInv => StaysSignedIn
  <1> SUFFICES ASSUME SInv, ~excused
               PROVE  jar # NoToken /\ (session[jar] = "live" \/ \A s \in Servers : InGrace(jar, s))
    BY DEF StaysSignedIn
  <1>1. JarIsGood
    BY DEF SInv, Signed
  <1>2. jar # NoToken
    BY <1>1, TokenFacts DEF JarIsGood, SInv
  <1> QED BY <1>1, <1>2 DEF JarIsGood, InGrace

\* auth.ts:166-170: for any number of tabs and servers, tabs that rotate the
\* same token at the same time never sign the browser out: what the jar holds
\* is live, or within its grace on every server.
THEOREM TabsStaySignedIn == SessionsAssumption /\ Spec => []StaysSignedIn
  BY SInvStays, InitSInv, SInvInductive, PTL DEF Spec

-----------------------------------------------------------------------------
(* SolanaWallet *)

Listings == [pc : {"idle", "legacy", "token22"}, seen : SUBSET S!Mints, legacyOk : BOOLEAN]
Snapshots == [mints : SUBSET S!Mints, fresh : BOOLEAN]
Withdrawals == [pc : {"idle", "send", "record", "fail"},
                st : {"none", "PROCESSING", "COMPLETED", "FAILED"},
                chain : {"none", "pending", "landed", "expired"}]

\* What the snapshot lacks of the wallet: nothing, or one mint at most, which
\* is of Token-2022.
SnapshotCovers ==
    \/ held \subseteq lastGood.mints
    \/ /\ held \intersect Legacy \subseteq lastGood.mints
       /\ Cardinality(held \ Legacy) <= 1

\* While nothing changed since the snapshot covered the wallet, it is fresh
\* and nearly covers it still, what was shown lacks one mint at most, and a
\* listing under way has seen the legacy mints or none.
Covered ==
    /\ lastGood.fresh /\ SnapshotCovers
    /\ Cardinality(held \ shown) <= 1
    /\ listing.pc = "token22" => listing.seen = IF listing.legacyOk THEN held \intersect Legacy ELSE {}

\* A row is about to be COMPLETED, or is, only for what landed, and is
\* PROCESSING until the request ends.
Landed ==
    /\ sent.pc # "idle" => sent.st = "PROCESSING"
    /\ sent.pc = "record" \/ sent.st = "COMPLETED" => sent.chain = "landed"

\* The inductive invariant of SolanaWallet.
SolanaInv == S!SolanaAssumption /\ S!TypeOK /\ Landed /\ (sure => Covered)

\* Finite and counted mean the same inside the instance.
LEMMA SolanaCounts ==
    \A T : (S!IsFiniteSet(T) <=> IsFiniteSet(T)) /\ S!Cardinality(T) = Cardinality(T)
  <1>1. \A T : S!IsFiniteSet(T) <=> IsFiniteSet(T)
    BY DEF S!IsFiniteSet, IsFiniteSet
  <1>2. \A T : S!Cardinality(T) = Cardinality(T)
    BY DEF S!Cardinality, Cardinality
  <1> QED BY <1>1, <1>2

\* What a wallet holds is finite, and so is every part of it.
LEMMA HeldIsFinite ==
    ASSUME S!SolanaAssumption, NEW T \in SUBSET S!Mints
    PROVE  IsFiniteSet(T) /\ Cardinality(T) \in Nat
  <1>1. IsFiniteSet(S!Mints)
    <2>1. IsFiniteSet(Legacy) /\ IsFiniteSet(Token22)
      BY SolanaCounts DEF S!SolanaAssumption
    <2>2. IsFiniteSet(Legacy \union Token22)
      BY <2>1, FS_Union, Zenon
    <2> QED BY <2>2 DEF S!Mints
  <1>2. IsFiniteSet(T)
    BY <1>1, FS_Subset
  <1> QED BY <1>2, FS_CardinalityType

\* Subsets count less; what is left of a set is the difference.
LEMMA MintCounts ==
    ASSUME S!SolanaAssumption, NEW T \in SUBSET S!Mints, NEW U \in SUBSET T
    PROVE  Cardinality(U) <= Cardinality(T) /\ Cardinality(T \ U) = Cardinality(T) - Cardinality(U)
  <1>1. IsFiniteSet(T) /\ IsFiniteSet(U) /\ Cardinality(T) \in Nat /\ Cardinality(U) \in Nat
    BY HeldIsFinite
  <1>2. T \intersect U = U
    OBVIOUS
  <1>3. Cardinality(T \ U) = Cardinality(T) - Cardinality(T \intersect U)
    BY <1>1, FS_Difference
  <1>4. Cardinality(U) <= Cardinality(T)
    BY <1>1, FS_Subset
  <1> QED BY <1>2, <1>3, <1>4

\* The types, one by one.
LEMMA SolanaTypes ==
    /\ S!TypeOK => /\ held \in SUBSET S!Mints /\ shown \in SUBSET S!Mints
                   /\ changes \in 0..MaxChanges /\ sure \in BOOLEAN
                   /\ listing \in Listings /\ lastGood \in Snapshots /\ sent \in Withdrawals
    /\ (/\ held' \in SUBSET S!Mints /\ shown' \in SUBSET S!Mints
        /\ changes' \in 0..MaxChanges /\ sure' \in BOOLEAN
        /\ listing' \in Listings /\ lastGood' \in Snapshots /\ sent' \in Withdrawals) => S!TypeOK'
  <1>1. S!TypeOK => /\ held \in SUBSET S!Mints /\ shown \in SUBSET S!Mints
                    /\ changes \in 0..MaxChanges /\ sure \in BOOLEAN
                    /\ listing \in Listings /\ lastGood \in Snapshots /\ sent \in Withdrawals
    BY DEF S!TypeOK, Listings, Snapshots, Withdrawals
  <1>2. (/\ held' \in SUBSET S!Mints /\ shown' \in SUBSET S!Mints
         /\ changes' \in 0..MaxChanges /\ sure' \in BOOLEAN
         /\ listing' \in Listings /\ lastGood' \in Snapshots /\ sent' \in Withdrawals) => S!TypeOK'
    BY DEF S!TypeOK, Listings, Snapshots, Withdrawals
  <1> QED BY <1>1, <1>2

\* A listing under way, or none, is one.
LEMMA ListingType ==
    ASSUME NEW pc \in {"idle", "legacy", "token22"}, NEW seen \in SUBSET S!Mints, NEW ok \in BOOLEAN
    PROVE  /\ [pc |-> pc, seen |-> seen, legacyOk |-> ok] \in Listings
           /\ S!NoListing \in Listings /\ [S!NoListing EXCEPT !.pc = "legacy"] \in Listings
           /\ S!NoSnapshot \in Snapshots
  BY DEF Listings, Snapshots, S!NoListing, S!NoSnapshot

\* The list a listing ends with is part of the wallet, while it did not
\* change, and the snapshot it leaves is one.
LEMMA SnapshotAfterType ==
    ASSUME S!TypeOK, NEW seen \in SUBSET S!Mints, NEW legacyOk \in BOOLEAN
    PROVE  S!SnapshotAfter(seen, legacyOk) \in Snapshots
  BY DEF S!TypeOK, Snapshots, S!SnapshotAfter

\* The withdrawal: every step of it keeps the row's shape and its truth.
LEMMA WithdrawalKept ==
    ASSUME SolanaInv,
           S!RequestWithdrawal \/ S!SendAndConfirm \/ S!RecordWithdrawal \/ S!LateWithdrawal
           \/ sent' = [sent EXCEPT !.pc = "idle"] \/ UNCHANGED sent
    PROVE  sent' \in Withdrawals /\ Landed'
  <1>1. sent \in Withdrawals /\ Landed
    BY SolanaTypes DEF SolanaInv
  <1>2. CASE S!RequestWithdrawal
    BY <1>1, <1>2 DEF S!RequestWithdrawal, S!NotSent, Withdrawals, Landed
  <1>3. CASE S!SendAndConfirm
    <2>1. sent.pc = "send" /\ sent.st # "COMPLETED"
      BY <1>3, <1>1 DEF S!SendAndConfirm, Landed
    <2> QED BY <1>1, <1>3, <2>1 DEF S!SendAndConfirm, Withdrawals, Landed
  <1>4. CASE S!RecordWithdrawal
    BY <1>1, <1>4 DEF S!RecordWithdrawal, S!RecordFailure, Withdrawals, Landed
  <1>5. CASE S!LateWithdrawal
    BY <1>1, <1>5 DEF S!LateWithdrawal, Withdrawals, Landed
  <1>6. CASE sent' = [sent EXCEPT !.pc = "idle"] \/ UNCHANGED sent
    BY <1>1, <1>6 DEF Withdrawals, Landed
  <1> QED BY <1>2, <1>3, <1>4, <1>5, <1>6

\* A listing ends: what it shows lacks one mint at most, and the snapshot it
\* leaves still nearly covers the wallet.
LEMMA ListingEnds ==
    ASSUME SolanaInv, NEW ok \in BOOLEAN, S!ReadToken22(ok)
    PROVE  S!TypeOK' /\ (sure' => Covered')
  <1> DEFINE seen == listing.seen \union (IF ok THEN held \intersect Token22 ELSE {})
             legacyOk == listing.legacyOk
             Serves == S!ServesLastGood(seen, legacyOk)
  <1>1. /\ held \in SUBSET S!Mints /\ seen \in SUBSET S!Mints /\ legacyOk \in BOOLEAN
        /\ lastGood \in Snapshots /\ lastGood.mints \in SUBSET S!Mints
    BY SolanaTypes DEF SolanaInv, Listings, Snapshots, S!Mints
  <1>2. /\ lastGood' = S!SnapshotAfter(seen, legacyOk) /\ held' = held
        /\ shown' = IF Serves THEN lastGood.mints ELSE seen
        /\ sure' = (sure \/ (ok /\ legacyOk /\ seen = held /\ held \subseteq S!SnapshotAfter(seen, legacyOk).mints))
        /\ listing' = S!NoListing
        /\ UNCHANGED <<changes, sent>>
    BY DEF S!ReadToken22
  <1>3. lastGood' = IF Serves THEN lastGood
                    ELSE IF seen # {} \/ ~lastGood.fresh THEN [mints |-> seen, fresh |-> TRUE] ELSE lastGood
    BY <1>2 DEF S!SnapshotAfter
  <1>4. Serves <=> lastGood.fresh /\ (S!Shrank(seen) \/ (~legacyOk /\ lastGood.mints # {}))
    BY DEF S!ServesLastGood
  <1>5. listing'.pc # "token22"
    BY <1>2 DEF S!NoListing
  <1> HIDE DEF Serves
  <1>6. S!TypeOK'
    <2>1. lastGood' \in Snapshots
      BY <1>1, <1>2, SnapshotAfterType DEF SolanaInv
    <2>2. listing' \in Listings
      BY <1>2, ListingType
    <2>3. shown' \in SUBSET S!Mints
      BY <1>1, <1>2
    <2>4. sure' \in BOOLEAN
      <3>1. sure \in BOOLEAN
        BY SolanaTypes DEF SolanaInv
      <3> QED BY <1>2, <3>1, Zenon
    <2>5. UNCHANGED <<held, changes, sent>>
      BY <1>2
    <2> QED BY <2>1, <2>2, <2>3, <2>4, <2>5 DEF SolanaInv, S!TypeOK, Listings, Snapshots, Withdrawals
  <1>7. ASSUME sure PROVE Covered'
    <2>1. Covered /\ listing.pc = "token22"
      BY <1>7 DEF SolanaInv, S!ReadToken22
    <2>2. seen = (IF legacyOk THEN held \intersect Legacy ELSE {}) \union (IF ok THEN held \intersect Token22 ELSE {})
      BY <2>1 DEF Covered
    <2> DEFINE Extra == held \ Legacy
    <2>3. /\ Cardinality(held) \in Nat /\ Cardinality(seen) \in Nat /\ Cardinality(Extra) \in Nat
          /\ Cardinality(lastGood.mints) \in Nat /\ Cardinality({}) = 0
      BY <1>1, HeldIsFinite, FS_EmptySet DEF SolanaInv
    <2>4. CASE Serves
      <3>1. lastGood' = lastGood /\ shown' = lastGood.mints
        BY <1>2, <1>3, <2>4
      <3>2. SnapshotCovers'
        BY <1>2, <2>1, <3>1 DEF Covered, SnapshotCovers
      <3>3. Cardinality(held \ lastGood.mints) <= 1
        <4>1. CASE held \subseteq lastGood.mints
          <5>1. held \ lastGood.mints = {}
            BY <4>1
          <5> QED BY <2>3, <5>1
        <4>2. CASE held \intersect Legacy \subseteq lastGood.mints /\ Cardinality(Extra) <= 1
          <5>1. held \ lastGood.mints \in SUBSET Extra /\ Extra \in SUBSET S!Mints
            BY <1>1, <4>2
          <5>2. /\ Cardinality(held \ lastGood.mints) <= Cardinality(Extra)
                /\ Cardinality(held \ lastGood.mints) \in Nat
            BY <1>1, <5>1, MintCounts, HeldIsFinite DEF SolanaInv
          <5> QED BY <2>3, <4>2, <5>2
        <4> QED BY <2>1, <4>1, <4>2 DEF Covered, SnapshotCovers
      <3> QED BY <1>2, <1>5, <2>1, <3>1, <3>2, <3>3 DEF Covered
    <2>5. CASE ~Serves
      <3>1. shown' = seen
        BY <1>2, <2>5
      <3>2. ~S!Shrank(seen) /\ (legacyOk \/ lastGood.mints = {})
        BY <1>4, <2>1, <2>5 DEF Covered
      <3>3. lastGood' = IF seen # {} THEN [mints |-> seen, fresh |-> TRUE] ELSE lastGood
        BY <1>3, <2>1, <2>5 DEF Covered
      <3>4. lastGood'.fresh
        BY <2>1, <3>3 DEF Covered
      <3>5. seen \in SUBSET held
        BY <2>2
      <3>6. CASE seen = held
        <4>1. held \ seen = {}
          BY <3>6
        <4>2. SnapshotCovers'
          BY <1>2, <3>3, <3>6 DEF SnapshotCovers
        <4> QED BY <1>2, <1>5, <2>3, <3>1, <3>4, <4>1, <4>2 DEF Covered
      <3>7. CASE legacyOk /\ ~ok
        <4>1. seen = held \intersect Legacy /\ held \ seen = Extra
          BY <2>2, <3>7
        <4>2. Cardinality(Extra) <= 1
          <5>1. CASE held \subseteq lastGood.mints
            <6>1. Cardinality(held) <= Cardinality(lastGood.mints)
              BY <1>1, <5>1, MintCounts DEF SolanaInv
            <6>2. Cardinality(lastGood.mints) <= Cardinality(seen) + 1
              BY <2>3, <3>2, SolanaCounts DEF S!Shrank
            <6>3. Cardinality(held \ seen) = Cardinality(held) - Cardinality(seen)
              BY <1>1, <3>5, MintCounts DEF SolanaInv
            <6>4. Cardinality(held) - Cardinality(seen) <= 1
              BY <2>3, <6>1, <6>2
            <6> QED BY <4>1, <6>3, <6>4
          <5>2. CASE ~(held \subseteq lastGood.mints)
            BY <2>1, <5>2 DEF Covered, SnapshotCovers
          <5> QED BY <5>1, <5>2
        <4>3. SnapshotCovers'
          <5>1. CASE seen # {}
            BY <1>2, <3>3, <4>1, <4>2, <5>1 DEF SnapshotCovers
          <5>2. CASE seen = {}
            BY <1>2, <2>1, <3>3, <5>2 DEF Covered, SnapshotCovers
          <5> QED BY <5>1, <5>2
        <4> QED BY <1>2, <1>5, <3>1, <3>4, <4>1, <4>2, <4>3 DEF Covered
      <3>8. CASE ~legacyOk /\ seen # held
        <4>1. held \intersect Legacy = {} /\ Extra = held /\ Cardinality(held) <= 1
          <5>1. lastGood.mints = {}
            BY <3>2, <3>8
          <5>2. CASE held \subseteq lastGood.mints
            BY <2>2, <3>8, <5>1, <5>2
          <5>3. CASE held \intersect Legacy \subseteq lastGood.mints /\ Cardinality(Extra) <= 1
            <6>1. held \intersect Legacy = {}
              BY <5>1, <5>3
            <6>2. Extra = held
              BY <6>1
            <6> QED BY <5>3, <6>1, <6>2
          <5> QED BY <2>1, <5>2, <5>3 DEF Covered, SnapshotCovers
        <4>2. ~ok /\ seen = {}
          <5>1. held \intersect Token22 = held
            BY <1>1, <4>1 DEF S!Mints
          <5> QED BY <2>2, <3>8, <5>1
        <4>3. held \ seen = held
          BY <4>2
        <4>4. SnapshotCovers'
          BY <1>2, <2>1, <3>3, <4>2 DEF Covered, SnapshotCovers
        <4> QED BY <1>2, <1>5, <3>1, <3>4, <4>1, <4>3, <4>4 DEF Covered
      <3>9. legacyOk /\ ok => seen = held
        <4>1. held = (held \intersect Legacy) \union (held \intersect Token22)
          BY <1>1 DEF S!Mints
        <4> QED BY <2>2, <4>1
      <3> QED BY <1>1, <3>6, <3>7, <3>8, <3>9
    <2> QED BY <2>4, <2>5
  <1>8. ASSUME ~sure, sure' PROVE Covered'
    <2>1. ok /\ legacyOk /\ seen = held /\ held \subseteq lastGood'.mints
      BY <1>2, <1>8
    <2>2. lastGood'.fresh
      BY <1>3, <1>4
    <2>3. held \subseteq shown'
      BY <1>2, <1>3, <2>1
    <2>4. held \ shown' = {} /\ Cardinality({}) = 0
      BY <2>3, FS_EmptySet
    <2>5. Cardinality(held' \ shown') <= 1
      BY <1>2, <2>4
    <2>6. SnapshotCovers'
      BY <1>2, <2>1 DEF SnapshotCovers
    <2> QED BY <1>5, <2>2, <2>5, <2>6 DEF Covered
  <1> QED BY <1>6, <1>7, <1>8

\* Only a listing that ends, a change of the wallet and a restart touch what
\* is shown and kept; the others keep the rest of the invariant as it was.
LEMMA SolanaInvInductive == SolanaInv /\ [S!Next]_(S!solanaVars) => SolanaInv'
  <1> SUFFICES ASSUME SolanaInv, [S!Next]_(S!solanaVars) PROVE SolanaInv'
    OBVIOUS
  <1>0. /\ S!SolanaAssumption /\ S!SolanaAssumption'
        /\ held \in SUBSET S!Mints /\ shown \in SUBSET S!Mints /\ changes \in 0..MaxChanges /\ sure \in BOOLEAN
        /\ listing \in Listings /\ lastGood \in Snapshots
    BY SolanaTypes DEF SolanaInv, S!SolanaAssumption
  <1>a. ASSUME /\ held' \in SUBSET S!Mints /\ shown' \in SUBSET S!Mints /\ changes' \in 0..MaxChanges
               /\ sure' \in BOOLEAN /\ listing' \in Listings /\ lastGood' \in Snapshots,
               sent' \in Withdrawals /\ Landed', sure' => Covered'
        PROVE  SolanaInv'
    BY <1>0, <1>a, SolanaTypes DEF SolanaInv
  <1>b. ASSUME UNCHANGED <<held, lastGood, shown, sure>>, listing'.pc # "token22"
        PROVE  sure' => Covered'
    BY <1>b DEF SolanaInv, Covered, SnapshotCovers
  <1>1. CASE S!WalletChanges
    <2>1. /\ held' \in SUBSET S!Mints /\ changes' \in 0..MaxChanges /\ sure' = FALSE
          /\ UNCHANGED <<listing, lastGood, shown, sent>>
      BY <1>0, <1>1 DEF S!WalletChanges, S!SolanaAssumption
    <2>2. sent' \in Withdrawals /\ Landed'
      BY <2>1, WithdrawalKept
    <2> QED BY <1>0, <1>a, <2>1, <2>2
  <1>2. CASE S!StartListing \/ S!ListingThrows
    <2>1. listing' \in Listings /\ listing'.pc # "token22" /\ UNCHANGED <<held, changes, lastGood, shown, sure, sent>>
      <3>1. /\ listing' = S!NoListing \/ listing' = [S!NoListing EXCEPT !.pc = "legacy"]
            /\ UNCHANGED <<held, changes, lastGood, shown, sure, sent>>
        BY <1>2 DEF S!StartListing, S!ListingThrows
      <3>2. S!NoListing.pc = "idle" /\ [S!NoListing EXCEPT !.pc = "legacy"].pc = "legacy"
        BY DEF S!NoListing
      <3> QED BY <3>1, <3>2, ListingType, Zenon
    <2>2. sent' \in Withdrawals /\ Landed'
      BY <2>1, WithdrawalKept
    <2>3. sure' => Covered'
      BY <1>b, <2>1
    <2> QED BY <1>0, <1>a, <2>1, <2>2, <2>3
  <1>3. ASSUME NEW ok \in BOOLEAN, S!ReadLegacy(ok) PROVE SolanaInv'
    <2>1. /\ UNCHANGED <<held, changes, lastGood, shown, sure, sent>>
          /\ listing' = [pc |-> "token22", seen |-> IF ok THEN held \intersect Legacy ELSE {}, legacyOk |-> ok]
      BY <1>3 DEF S!ReadLegacy
    <2>2. listing' \in Listings
      <3>1. (IF ok THEN held \intersect Legacy ELSE {}) \in SUBSET S!Mints
        BY <1>0
      <3> QED BY <2>1, <3>1, ListingType
    <2>3. sent' \in Withdrawals /\ Landed'
      BY <2>1, WithdrawalKept
    <2>4. sure' => Covered'
      BY <2>1 DEF SolanaInv, Covered, SnapshotCovers
    <2> QED BY <1>0, <1>a, <2>1, <2>2, <2>3, <2>4
  <1>4. ASSUME NEW ok \in BOOLEAN, S!ReadToken22(ok) PROVE SolanaInv'
    <2>1. UNCHANGED sent
      BY <1>4 DEF S!ReadToken22
    <2>2. S!TypeOK' /\ (sure' => Covered') /\ Landed'
      BY <1>4, <2>1, ListingEnds, WithdrawalKept
    <2> QED BY <1>0, <2>2 DEF SolanaInv
  <1>5. CASE S!SnapshotAges
    <2>1. lastGood' \in Snapshots /\ sure' = FALSE /\ UNCHANGED <<held, changes, listing, shown, sent>>
      BY <1>0, <1>5 DEF S!SnapshotAges, Snapshots
    <2>2. sent' \in Withdrawals /\ Landed'
      BY <2>1, WithdrawalKept
    <2> QED BY <1>0, <1>a, <2>1, <2>2
  <1>6. CASE S!RequestWithdrawal \/ S!SendAndConfirm \/ S!RecordWithdrawal \/ S!LateWithdrawal
    <2>1. UNCHANGED <<held, changes, listing, lastGood, shown, sure>>
      BY <1>6 DEF S!RequestWithdrawal, S!SendAndConfirm, S!RecordWithdrawal, S!LateWithdrawal
    <2>2. sent' \in Withdrawals /\ Landed'
      BY <1>6, WithdrawalKept
    <2>3. sure' => Covered'
      BY <2>1 DEF SolanaInv, Covered, SnapshotCovers
    <2> QED BY <1>0, <1>a, <2>1, <2>2, <2>3
  <1>7. CASE S!Restart
    <2>1. /\ listing' \in Listings /\ lastGood' \in Snapshots /\ sure' = FALSE
          /\ sent' = [sent EXCEPT !.pc = "idle"] /\ UNCHANGED <<held, changes, shown>>
      BY <1>7, ListingType DEF S!Restart
    <2>2. sent' \in Withdrawals /\ Landed'
      BY <2>1, WithdrawalKept
    <2> QED BY <1>0, <1>a, <2>1, <2>2
  <1>8. CASE UNCHANGED S!solanaVars
    <2>1. UNCHANGED <<held, changes, listing, lastGood, shown, sure, sent>>
      BY <1>8 DEF S!solanaVars
    <2>2. sent' \in Withdrawals /\ Landed'
      BY <2>1, WithdrawalKept
    <2>3. sure' => Covered'
      BY <2>1 DEF SolanaInv, Covered, SnapshotCovers
    <2> QED BY <1>0, <1>a, <2>1, <2>2, <2>3
  <1> QED BY <1>1, <1>2, <1>3, <1>4, <1>5, <1>6, <1>7, <1>8 DEF S!Next

\* The first state satisfies it.
LEMMA InitSolanaInv == S!SolanaAssumption /\ S!Init => SolanaInv
  <1> SUFFICES ASSUME S!SolanaAssumption, S!Init PROVE SolanaInv
    OBVIOUS
  <1>1. S!TypeOK
    <2>1. listing \in Listings /\ lastGood \in Snapshots /\ shown \in SUBSET S!Mints /\ held \in SUBSET S!Mints
      BY ListingType DEF S!Init
    <2>2. sent \in Withdrawals /\ changes \in 0..MaxChanges
      BY DEF S!Init, S!NotSent, Withdrawals, S!SolanaAssumption
    <2>3. sure \in BOOLEAN
      BY DEF S!Init
    <2> QED BY <2>1, <2>2, <2>3 DEF S!TypeOK, Listings, Snapshots, Withdrawals
  <1>2. Landed /\ ~sure
    BY DEF S!Init, S!NotSent, Landed
  <1> QED BY <1>1, <1>2 DEF SolanaInv

\* What the invariant says of a listing ...
LEMMA SolanaInvHides == SolanaInv => S!HidesAtMostOne
  BY SolanaCounts DEF SolanaInv, Covered, S!HidesAtMostOne

\* solanaPersonalWalletService.ts:420-451: whatever the wallet holds and
\* however its listings fail, the page never lacks more than one mint that is
\* held while the snapshot is young: the losses of several failures do not
\* add up.
THEOREM ListingHidesOne == S!SolanaAssumption /\ S!Spec => []S!HidesAtMostOne
  BY SolanaInvHides, InitSolanaInv, SolanaInvInductive, PTL DEF S!Spec

\* ... and of the rows.
LEMMA SolanaInvIsTrue == SolanaInv => S!SolanaCompletedIsSent
  BY DEF SolanaInv, Landed, S!SolanaCompletedIsSent

\* solanaPersonalWalletService.ts:590-611: COMPLETED is only ever written for a
\* transfer that left the wallet, whatever fails or restarts.
THEOREM SolanaRowsAreTrue == S!SolanaAssumption /\ S!Spec => []S!SolanaCompletedIsSent
  BY SolanaInvIsTrue, InitSolanaInv, SolanaInvInductive, PTL DEF S!Spec

-----------------------------------------------------------------------------
(* BscWallet *)

\* The steps of a trade or of the watcher: they leave withdrawals and converts
\* alone.
TradeStep(c) ==
    \/ W!RequestSwap(c, "buy") \/ W!RequestSwap(c, "sell") \/ W!RequestSellAll(c)
    \/ W!StartWatch(c) \/ W!SwapStep(c) \/ W!WatchStep(c)

\* A call that reads a balance reads it for a row.
Named(c) == call[c].pc = "balance" => call[c].row \in W!Rows

\* A withdrawal that is being sent is PROCESSING, and COMPLETED means landed.
Sent(c) ==
    /\ call[c].pc \in {"send", "hash"} => wd[c].st = "PROCESSING" /\ ~wd[c].waiting
    /\ call[c].pc = "hash" \/ wd[c].hash => wd[c].chain # "none"
    /\ wd[c].st = "COMPLETED" => wd[c].chain = "landed"

\* What a convert took, what may still land for it, and what it may still
\* send are within what was asked, or within the fee on top of it when the
\* fee was given up on.
Out(c) == IF afloat[c].kind = "out" THEN afloat[c].amt ELSE 0
Left(c) == IF call[c].pc \in {"fee", "convert"} THEN call[c].amt ELSE 0
Takes(c) ==
    /\ call[c].pc = "fee" => /\ call[c].amt = Lot /\ afloat[c] = W!NoTx /\ 5 * Fee < Lot
                             /\ conv[c].asked = Lot /\ conv[c].took = 0 /\ ~conv[c].blind
    /\ conv[c].took + Out(c) + Left(c) <= conv[c].asked + (IF conv[c].blind THEN Fee ELSE 0)

\* The inductive invariant of BscWallet.
BscInv == W!WalletAmounts /\ W!TypeOK /\ \A c \in Calls : Named(c) /\ Sent(c) /\ Takes(c)

\* Slot c of the calls takes a value of its type, the others stay.
Moved(c) == call' \in [Calls -> W!CallType] /\ \A d \in Calls \ {c} : call'[d] = call[d]

\* The least element of a set of rows.
LEMMA LeastRow ==
    ASSUME NEW T \in SUBSET Nat, T # {}
    PROVE  W!Min(T) \in T /\ \A y \in T : W!Min(T) <= y
  <1>1. PICK x \in T : \A y \in T : ~(<<y, x>> \in OpToRel(<, Nat))
    BY NatLessThanWellFounded, WFMin, Zenon
  <1>2. ASSUME NEW y \in T PROVE x <= y
    <2>1. CASE y < x
      <3>1. <<y, x>> \in OpToRel(<, Nat)
        BY <2>1 DEF OpToRel
      <3> QED BY <1>1, <3>1
    <2> QED BY <2>1
  <1> QED BY <1>2 DEF W!Min

\* The facts about the constants and the types that the steps need.
LEMMA BscFacts ==
    ASSUME W!WalletAmounts, W!TypeOK
    PROVE  /\ Lot \in Nat \ {0} /\ Fee \in Nat /\ W!Rows \subseteq Nat /\ W!NoRow \notin W!Rows
           /\ W!Idle \in W!CallType /\ W!NoTx \in W!TxType
           /\ usdt \in Nat /\ tok \in Nat /\ call \in [Calls -> W!CallType] /\ afloat \in [Calls -> W!TxType]
           /\ W!OpenRows \in SUBSET W!Rows
  <1>1. /\ Lot \in Nat \ {0} /\ Fee \in Nat /\ W!Rows \subseteq Nat /\ W!NoRow \notin W!Rows
        /\ W!OpenRows \in SUBSET W!Rows
    BY DEF W!WalletAmounts, W!Rows, W!NoRow, W!OpenRows
  <1>2. W!Idle \in W!CallType /\ W!NoTx \in W!TxType
    BY DEF W!Idle, W!CallType, W!NoTx, W!TxType, W!NoRow
  <1> QED BY <1>1, <1>2 DEF W!TypeOK

\* A call that takes a new value of its type, that only goes on, that returns
\* or that throws.
LEMMA CallMoves ==
    ASSUME W!TypeOK, NEW c \in Calls, NEW new \in W!CallType, call' = [call EXCEPT ![c] = new]
    PROVE  Moved(c) /\ call'[c] = new
  BY DEF Moved, W!TypeOK

LEMMA CallGoes ==
    ASSUME W!TypeOK, NEW c \in Calls,
           NEW pc \in {"before", "book", "siblings", "done", "cancel", "hash"}, W!Goto(c, pc)
    PROVE  Moved(c) /\ call'[c] = [call[c] EXCEPT !.pc = pc] /\ call'[c].pc = pc
  <1>1. [call[c] EXCEPT !.pc = pc] \in W!CallType /\ [call[c] EXCEPT !.pc = pc].pc = pc
    BY ZenonT(40) DEF W!TypeOK, W!CallType
  <1>2. call' = [call EXCEPT ![c] = [call[c] EXCEPT !.pc = pc]]
    BY DEF W!Goto
  <1> QED BY <1>1, <1>2, CallMoves

LEMMA CallReturns ==
    ASSUME W!WalletAmounts, W!TypeOK, NEW c \in Calls, W!Return(c)
    PROVE  Moved(c) /\ call'[c].pc \in {"idle", "next"}
  <1> DEFINE new == IF call[c].kind = "watch"
                      THEN [W!Idle EXCEPT !.pc = "next", !.kind = "watch", !.rest = call[c].rest] ELSE W!Idle
  <1>1. new \in W!CallType /\ new.pc \in {"idle", "next"}
    BY BscFacts DEF W!Idle, W!CallType
  <1>2. call' = [call EXCEPT ![c] = new]
    BY DEF W!Return
  <1> HIDE DEF new
  <1> QED BY <1>1, <1>2, CallMoves

LEMMA CallThrows ==
    ASSUME W!WalletAmounts, W!TypeOK, NEW c \in Calls, W!Throw(c)
    PROVE  Moved(c) /\ call'[c].pc \in {"idle", "next"} /\ cool' \subseteq W!Rows
  <1>1. cool' \subseteq W!Rows
    BY DEF W!Throw, W!TypeOK
  <1> QED BY <1>1, CallReturns DEF W!Throw

\* Where a step of a trade leads: never into a convert or a withdrawal, and to
\* the balance of a row only.
Traded(c) ==
    /\ Moved(c) /\ call'[c].pc \notin {"fee", "convert", "send", "hash"}
    /\ call'[c].pc = "balance" => call'[c].row \in W!Rows

\* A request starts from an idle call and counts.
LEMMA RequestsStart ==
    ASSUME BscInv, NEW c \in Calls,
           W!RequestSwap(c, "buy") \/ W!RequestSwap(c, "sell") \/ W!RequestSellAll(c) \/ W!StartWatch(c)
    PROVE  Traded(c) /\ asked' \in 0..MaxRequests /\ UNCHANGED <<usdt, tok, trade, cool, afloat, wd, conv>>
  <1>0. /\ W!WalletAmounts /\ W!TypeOK /\ W!Idle \in W!CallType /\ Lot \in Nat /\ tok \in Nat
        /\ W!OpenRows \in SUBSET W!Rows /\ W!Rows \subseteq Nat
    BY BscFacts DEF BscInv
  <1>1. ASSUME NEW kind \in {"buy", "sell"}, W!RequestSwap(c, kind) PROVE Traded(c)
    <2> DEFINE new == [W!Idle EXCEPT !.pc = "size", !.kind = kind, !.amt = Lot]
    <2>1. new \in W!CallType /\ new.pc = "size"
      BY <1>0 DEF W!CallType, W!Idle
    <2>2. call' = [call EXCEPT ![c] = new]
      BY <1>1 DEF W!RequestSwap
    <2> HIDE DEF new
    <2> QED BY <1>0, <2>1, <2>2, CallMoves DEF Traded
  <1>2. ASSUME W!RequestSellAll(c) PROVE Traded(c)
    <2> DEFINE lots == W!LotSum(W!OpenRows)
               new == [W!Idle EXCEPT !.pc = "size", !.kind = "sellAll", !.row = W!Min(W!OpenRows),
                                     !.rest = W!OpenRows \ {W!Min(W!OpenRows)},
                                     !.amt = IF lots \in 1..(tok - 1) THEN lots ELSE tok]
    <2>1. W!Min(W!OpenRows) \in W!Rows
      BY <1>0, <1>2, LeastRow DEF W!RequestSellAll
    <2>2. (IF lots \in 1..(tok - 1) THEN lots ELSE tok) \in Nat
      <3> HIDE DEF lots
      <3> QED BY <1>0
    <2>3. new \in W!CallType /\ new.pc = "size"
      <3> HIDE DEF lots
      <3> QED BY <1>0, <2>1, <2>2 DEF W!CallType, W!Idle
    <2>4. call' = [call EXCEPT ![c] = new]
      BY <1>2 DEF W!RequestSellAll
    <2> HIDE DEF new
    <2>5. Moved(c) /\ call'[c] = new
      BY <1>0, <2>3, <2>4, CallMoves
    <2> QED BY <2>3, <2>5 DEF Traded
  <1>3. ASSUME W!StartWatch(c) PROVE Traded(c)
    <2>0. PICK n \in 0..Others :
             call' = [call EXCEPT ![c] = [W!Idle EXCEPT !.pc = "next", !.kind = "watch",
                                                        !.rest = W!Oldest(W!OpenRows, Take - n)]]
      BY <1>3 DEF W!StartWatch
    <2> DEFINE rest == W!Oldest(W!OpenRows, Take - n)
               new == [W!Idle EXCEPT !.pc = "next", !.kind = "watch", !.rest = rest]
    <2>4. rest \in SUBSET W!Rows
      BY <1>0 DEF W!Oldest
    <2>1. new \in W!CallType /\ new.pc = "next"
      <3> HIDE DEF rest
      <3> QED BY <1>0, <2>4 DEF W!CallType, W!Idle
    <2>2. call' = [call EXCEPT ![c] = new]
      BY <2>0
    <2> HIDE DEF new
    <2>3. Moved(c) /\ call'[c] = new
      BY <1>0, <2>1, <2>2, CallMoves
    <2> QED BY <2>1, <2>3 DEF Traded
  <1>4. asked' \in 0..MaxRequests /\ UNCHANGED <<usdt, tok, trade, cool, afloat, wd, conv>>
    <2>1. CASE W!StartWatch(c)
      BY <1>0, <2>1 DEF W!StartWatch, W!TypeOK
    <2>2. CASE W!RequestSwap(c, "buy") \/ W!RequestSwap(c, "sell") \/ W!RequestSellAll(c)
      BY <1>0, <2>2 DEF W!RequestSwap, W!RequestSellAll, W!Requested, W!TypeOK, W!WalletAmounts
    <2> QED BY <2>1, <2>2
  <1> QED BY <1>1, <1>2, <1>3, <1>4

\* What a transaction moves, the wallet had.
LEMMA MoveTypes ==
    ASSUME W!TypeOK, NEW tx \in W!TxType, W!Move(tx)
    PROVE  usdt' \in Nat /\ tok' \in Nat
  BY DEF W!TypeOK, W!TxType, W!Move, W!Funded

\* The steps of a swap, up to the booking.
LEMMA SwapsMove ==
    ASSUME BscInv, NEW c \in Calls, W!Size(c) \/ W!ReadBefore(c) \/ W!Swap(c)
    PROVE  /\ Traded(c) /\ call[c].pc \notin {"fee", "convert", "send", "hash"}
           /\ usdt' \in Nat /\ tok' \in Nat /\ cool' \subseteq W!Rows /\ UNCHANGED <<trade, wd, conv, asked>>
           /\ \/ UNCHANGED afloat
              \/ /\ afloat[c] = W!NoTx
                 /\ \E tx \in W!TxType : tx.kind # "out" /\ afloat' = [afloat EXCEPT ![c] = tx]
  <1>0. /\ W!WalletAmounts /\ W!TypeOK /\ usdt \in Nat /\ tok \in Nat /\ call[c] \in W!CallType
        /\ cool \subseteq W!Rows
    BY BscFacts DEF BscInv, W!TypeOK
  <1>1. CASE W!Size(c)
    <2>1. CASE W!Goto(c, "before")
      <3>3. Traded(c)
        BY <1>0, <2>1, CallGoes DEF Traded
      <3> QED BY <1>0, <1>1, <3>3 DEF W!Size, W!Throw
    <2>2. CASE tok > 0 /\ call' = [call EXCEPT ![c].pc = "before", ![c].amt = W!Min({@, tok})]
      <3>1. W!Min({call[c].amt, tok}) \in Nat
        BY <1>0, LeastRow DEF W!CallType
      <3> DEFINE new == [call[c] EXCEPT !.pc = "before", !.amt = W!Min({call[c].amt, tok})]
      <3>2. new \in W!CallType /\ new.pc = "before"
        BY <1>0, <3>1 DEF W!CallType
      <3>3. call' = [call EXCEPT ![c] = new]
        BY <1>0, <2>2 DEF W!TypeOK
      <3> HIDE DEF new
      <3>4. Traded(c)
        BY <1>0, <3>2, <3>3, CallMoves DEF Traded
      <3> QED BY <1>0, <1>1, <3>4 DEF W!Size, W!Throw
    <2>3. CASE W!Throw(c)
      <3>1. Traded(c) /\ cool' \subseteq W!Rows
        BY <1>0, <2>3, CallThrows DEF Traded
      <3> QED BY <1>0, <1>1, <3>1 DEF W!Size
    <2> QED BY <1>1, <2>1, <2>2, <2>3 DEF W!Size
  <1>2. CASE W!ReadBefore(c)
    <2> DEFINE new == [call[c] EXCEPT !.pc = "swap", !.tokBefore = tok, !.usdtBefore = usdt]
    <2>1. new \in W!CallType /\ new.pc = "swap"
      BY <1>0 DEF W!CallType
    <2>2. call' = [call EXCEPT ![c] = new]
      BY <1>0, <1>2 DEF W!ReadBefore, W!TypeOK
    <2> HIDE DEF new
    <2>3. Traded(c)
      BY <1>0, <2>1, <2>2, CallMoves DEF Traded
    <2> QED BY <1>0, <1>2, <2>3 DEF W!ReadBefore
  <1>3. CASE W!Swap(c)
    <2>0. W!SwapTx(c) \in W!TxType /\ W!SwapTx(c).kind # "out"
      BY <1>0 DEF W!SwapTx, W!TxType, W!CallType
    <2>1. CASE W!Move(W!SwapTx(c)) /\ W!Goto(c, "book") /\ UNCHANGED <<cool, afloat>>
      <3>3. Traded(c)
        BY <1>0, <2>1, CallGoes DEF Traded
      <3>4. usdt' \in Nat /\ tok' \in Nat
        BY <1>0, <2>0, <2>1, MoveTypes
      <3> QED BY <1>0, <1>3, <2>1, <3>3, <3>4 DEF W!Swap
    <2>2. CASE W!Throw(c) /\ UNCHANGED <<tok, usdt, afloat>>
      <3>1. Traded(c) /\ cool' \subseteq W!Rows
        BY <1>0, <2>2, CallThrows DEF Traded
      <3> QED BY <1>0, <1>3, <2>2, <3>1 DEF W!Swap
    <2>3. CASE /\ afloat[c] = W!NoTx /\ afloat' = [afloat EXCEPT ![c] = W!SwapTx(c)]
               /\ W!Throw(c) /\ UNCHANGED <<tok, usdt>>
      <3>1. Traded(c) /\ cool' \subseteq W!Rows
        BY <1>0, <2>3, CallThrows DEF Traded
      <3> QED BY <1>0, <1>3, <2>0, <2>3, <3>1 DEF W!Swap
    <2> QED BY <1>3, <2>1, <2>2, <2>3 DEF W!Swap
  <1> QED BY <1>1, <1>2, <1>3

\* The booking of a swap.
LEMMA BookingMoves ==
    ASSUME BscInv, NEW c \in Calls,
           W!BookBuy(c) \/ W!FindRow(c) \/ W!CloseRow(c) \/ W!CancelSibling(c) \/ W!Done(c) \/ W!BookingThrows(c)
    PROVE  /\ Traded(c) /\ call[c].pc \notin {"fee", "convert", "send", "hash"}
           /\ trade' \in [W!Rows -> [st : {"none", "OPEN", "CLOSED", "CANCELLED"}, lot : Nat]]
           /\ cool' \subseteq W!Rows /\ UNCHANGED <<usdt, tok, afloat, wd, conv, asked>>
  <1>0. /\ W!WalletAmounts /\ W!TypeOK /\ usdt \in Nat /\ tok \in Nat /\ call[c] \in W!CallType
        /\ cool \subseteq W!Rows /\ W!OpenRows \in SUBSET W!Rows /\ W!Rows \subseteq Nat
        /\ trade \in [W!Rows -> [st : {"none", "OPEN", "CLOSED", "CANCELLED"}, lot : Nat]]
    BY BscFacts DEF BscInv, W!TypeOK
  <1>1. CASE W!BookBuy(c)
    <2>1. W!BookedLot(c) \in Nat
      BY <1>0 DEF W!BookedLot, W!CallType
    <2>2. Traded(c)
      BY <1>0, <1>1, CallReturns DEF W!BookBuy, Traded
    <2> QED BY <1>0, <1>1, <2>1, <2>2 DEF W!BookBuy
  <1>2. CASE W!FindRow(c)
    <2> DEFINE pc == IF W!Found(c) # W!NoRow THEN "close" ELSE IF call[c].kind = "sellAll" THEN "siblings" ELSE "done"
               new == [call[c] EXCEPT !.pc = pc, !.row = IF W!Found(c) # W!NoRow THEN W!Found(c) ELSE @]
    <2>1. W!Found(c) \in W!Rows \union {W!NoRow}
      BY <1>0, LeastRow DEF W!Found
    <2>2. new \in W!CallType /\ new.pc \in {"close", "siblings", "done"}
      BY <1>0, <2>1 DEF W!CallType
    <2>3. call' = [call EXCEPT ![c] = new]
      BY <1>0, <1>2 DEF W!FindRow, W!TypeOK
    <2> HIDE DEF new
    <2>4. Moved(c) /\ call'[c] = new
      BY <1>0, <2>2, <2>3, CallMoves
    <2> QED BY <1>0, <1>2, <2>2, <2>4 DEF W!FindRow, Traded
  <1>3. CASE W!CloseRow(c)
    <2>1. Traded(c)
      BY <1>0, <1>3, CallGoes DEF W!CloseRow, Traded
    <2> QED BY <1>0, <1>3, <2>1 DEF W!CloseRow
  <1>4. CASE W!CancelSibling(c)
    <2> DEFINE new == [call[c] EXCEPT !.rest = @ \ {W!Min(@)}]
    <2>1. new \in W!CallType /\ new.pc = call[c].pc
      BY <1>0 DEF W!CallType
    <2>2. call' = [call EXCEPT ![c] = new]
      BY <1>0, <1>4 DEF W!CancelSibling
    <2> HIDE DEF new
    <2>3. Moved(c) /\ call'[c] = new
      BY <1>0, <2>1, <2>2, CallMoves
    <2> QED BY <1>0, <1>4, <2>1, <2>3 DEF W!CancelSibling, Traded
  <1>5. CASE W!Done(c)
    <2>1. Traded(c)
      BY <1>0, <1>5, CallReturns DEF W!Done, Traded
    <2> QED BY <1>0, <1>5, <2>1 DEF W!Done
  <1>6. CASE W!BookingThrows(c)
    <2>1. Traded(c) /\ cool' \subseteq W!Rows
      BY <1>0, <1>6, CallThrows DEF W!BookingThrows, Traded
    <2> QED BY <1>0, <1>6, <2>1 DEF W!BookingThrows
  <1> QED BY <1>1, <1>2, <1>3, <1>4, <1>5, <1>6

\* A pass of the watcher.
LEMMA WatchMoves ==
    ASSUME BscInv, NEW c \in Calls, W!WatchStep(c)
    PROVE  /\ Traded(c) /\ call[c].pc \notin {"fee", "convert", "send", "hash"}
           /\ trade' \in [W!Rows -> [st : {"none", "OPEN", "CLOSED", "CANCELLED"}, lot : Nat]]
           /\ cool' \subseteq W!Rows /\ UNCHANGED <<usdt, tok, afloat, wd, conv, asked>>
  <1>0. /\ W!WalletAmounts /\ W!TypeOK /\ usdt \in Nat /\ tok \in Nat /\ call[c] \in W!CallType
        /\ W!Idle \in W!CallType /\ W!Idle.pc = "idle"
        /\ cool \subseteq W!Rows /\ W!Rows \subseteq Nat
        /\ trade \in [W!Rows -> [st : {"none", "OPEN", "CLOSED", "CANCELLED"}, lot : Nat]]
    BY BscFacts DEF BscInv, W!TypeOK, W!Idle
  <1>1. CASE W!TryRow(c)
    <2> DEFINE new == [call[c] EXCEPT !.row = W!Min(call[c].rest), !.rest = @ \ {W!Min(@)}, !.pc = "balance"]
    <2>1. W!Min(call[c].rest) \in W!Rows
      BY <1>0, <1>1, LeastRow DEF W!TryRow, W!CallType
    <2>2. call' = [call EXCEPT ![c] = new]
      BY <1>0, <1>1 DEF W!TryRow, W!TypeOK
    <2>3. new \in W!CallType /\ new.pc = "balance" /\ new.row \in W!Rows
      BY <1>0, <2>1 DEF W!CallType
    <2> HIDE DEF new
    <2>4. Moved(c) /\ call'[c] = new
      BY <1>0, <2>2, <2>3, CallMoves
    <2> QED BY <1>0, <1>1, <2>3, <2>4 DEF W!TryRow, Traded
  <1>2. CASE W!SkipRow(c)
    <2>0. /\ call[c].pc = "next" /\ UNCHANGED <<usdt, tok, trade, cool, afloat, wd, conv, asked>>
          /\ call' = [call EXCEPT ![c] = IF call[c].rest = {} THEN W!Idle
                                         ELSE [call[c] EXCEPT !.rest = call[c].rest \ {W!Min(call[c].rest)}]]
      BY <1>2 DEF W!SkipRow
    <2>1. PICK new \in {W!Idle, [call[c] EXCEPT !.rest = call[c].rest \ {W!Min(call[c].rest)}]} :
             call' = [call EXCEPT ![c] = new]
      BY <2>0
    <2>2. new \in W!CallType /\ new.pc \in {"idle", "next"}
      BY <1>0, <2>0, <2>1 DEF W!CallType
    <2>3. Moved(c) /\ call'[c] = new
      BY <1>0, <2>1, <2>2, CallMoves
    <2> QED BY <1>0, <2>0, <2>2, <2>3 DEF Traded
  <1>3. CASE W!JudgeRow(c)
    <2>0. UNCHANGED <<usdt, tok, trade, afloat, wd, conv, asked>> /\ call[c].pc = "balance"
      BY <1>3 DEF W!JudgeRow
    <2>1. ASSUME W!Goto(c, "cancel"), UNCHANGED cool PROVE Traded(c) /\ cool' \subseteq W!Rows
      BY <1>0, <2>1, CallGoes DEF Traded
    <2>2. ASSUME W!Return(c), UNCHANGED cool PROVE Traded(c) /\ cool' \subseteq W!Rows
      BY <1>0, <2>2, CallReturns DEF Traded
    <2> DEFINE lot == trade[call[c].row].lot
               amt == IF lot > 0 /\ lot < tok THEN lot ELSE tok
               new == [call[c] EXCEPT !.pc = "size", !.amt = amt]
    <2>3. ASSUME call[c].row \in W!Rows, call' = [call EXCEPT ![c].pc = "size", ![c].amt = amt],
                 cool' = cool \union {call[c].row}
          PROVE  Traded(c) /\ cool' \subseteq W!Rows
      <3>1. amt \in Nat
        BY <1>0, <2>3
      <3>2. new \in W!CallType /\ new.pc = "size"
        <4> HIDE DEF amt
        <4> QED BY <1>0, <3>1 DEF W!CallType
      <3>3. call' = [call EXCEPT ![c] = new]
        BY <1>0, <2>3 DEF W!TypeOK
      <3> HIDE DEF new
      <3>4. Moved(c) /\ call'[c] = new
        BY <1>0, <3>2, <3>3, CallMoves
      <3> QED BY <1>0, <2>3, <3>2, <3>4 DEF Traded
    <2>4. call[c].row \in W!Rows
      BY <2>0 DEF BscInv, Named
    <2> QED BY <1>0, <1>3, <2>0, <2>1, <2>2, <2>3, <2>4 DEF W!JudgeRow
  <1>4. CASE W!CancelStale(c)
    <2>1. Traded(c)
      BY <1>0, <1>4, CallReturns DEF W!CancelStale, Traded
    <2> QED BY <1>0, <1>4, <2>1 DEF W!CancelStale
  <1>5. CASE W!WatchThrows(c)
    <2>1. Traded(c)
      BY <1>0, <1>5, CallMoves DEF W!WatchThrows, Traded
    <2> QED BY <1>0, <1>5, <2>1 DEF W!WatchThrows
  <1> QED BY <1>1, <1>2, <1>3, <1>4, <1>5 DEF W!WatchStep

\* A withdrawal: the row, the broadcast, the hash, and the wait behind it.
LEMMA WithdrawalMoves ==
    ASSUME BscInv, NEW c \in Calls, W!RequestWithdrawal(c) \/ W!WithdrawStep(c)
    PROVE  /\ Moved(c) /\ call'[c].pc \in {"send", "hash", "idle", "next"}
           /\ wd' \in [Calls -> W!WithdrawalType] /\ \A d \in Calls \ {c} : wd'[d] = wd[d]
           /\ Sent(c)' /\ asked' \in 0..MaxRequests /\ UNCHANGED <<usdt, tok, trade, cool, afloat, conv>>
           /\ call[c].pc \notin {"fee", "convert"}
  <1>0. /\ W!WalletAmounts /\ W!TypeOK /\ call[c] \in W!CallType /\ W!Idle \in W!CallType /\ Lot \in Nat
        /\ wd \in [Calls -> W!WithdrawalType] /\ asked \in 0..MaxRequests /\ MaxRequests \in Nat /\ Sent(c)
    BY BscFacts DEF BscInv, W!TypeOK, W!WalletAmounts
  <1>a. ASSUME NEW w \in W!WithdrawalType, wd' = [wd EXCEPT ![c] = w]
        PROVE  wd' \in [Calls -> W!WithdrawalType] /\ wd'[c] = w /\ \A d \in Calls \ {c} : wd'[d] = wd[d]
    BY <1>0, <1>a
  <1>b. /\ W!FailWithdrawal(wd[c]) \in W!WithdrawalType
        /\ [wd[c] EXCEPT !.chain = "pending"] \in W!WithdrawalType
        /\ [wd[c] EXCEPT !.st = "PROCESSING"] \in W!WithdrawalType
        /\ [wd[c] EXCEPT !.hash = TRUE, !.waiting = TRUE] \in W!WithdrawalType
    BY <1>0 DEF W!WithdrawalType, W!FailWithdrawal
  <1>1. CASE W!RequestWithdrawal(c)
    <2> DEFINE new == [W!Idle EXCEPT !.pc = "send", !.kind = "withdraw", !.amt = Lot]
               w == [wd[c] EXCEPT !.st = "PROCESSING"]
    <2>1. new \in W!CallType /\ new.pc = "send"
      BY <1>0 DEF W!CallType, W!Idle
    <2>2. call' = [call EXCEPT ![c] = new] /\ wd' = [wd EXCEPT ![c] = w]
      BY <1>1 DEF W!RequestWithdrawal
    <2>3. w.st = "PROCESSING" /\ w.hash = wd[c].hash /\ w.chain = wd[c].chain /\ w.waiting = wd[c].waiting
      BY <1>0 DEF W!WithdrawalType
    <2>4. /\ ~wd[c].waiting /\ call[c].pc = "idle" /\ asked' \in 0..MaxRequests
          /\ UNCHANGED <<usdt, tok, trade, cool, afloat, conv>>
      BY <1>0, <1>1 DEF W!RequestWithdrawal, W!Requested
    <2> HIDE DEF new, w
    <2>5. Moved(c) /\ call'[c] = new
      BY <1>0, <2>1, <2>2, CallMoves
    <2>6. w \in W!WithdrawalType
      BY <1>b DEF w
    <2>7. wd' \in [Calls -> W!WithdrawalType] /\ wd'[c] = w /\ \A d \in Calls \ {c} : wd'[d] = wd[d]
      BY <1>a, <2>2, <2>6
    <2>8. Sent(c)'
      BY <1>0, <2>1, <2>3, <2>4, <2>5, <2>7 DEF Sent
    <2> QED BY <2>1, <2>4, <2>5, <2>7, <2>8
  <1>2. CASE W!Broadcast(c)
    <2>0. /\ call[c].pc = "send" /\ wd[c].st = "PROCESSING" /\ ~wd[c].waiting
          /\ UNCHANGED <<usdt, tok, trade, cool, afloat, conv, asked>>
      BY <1>0, <1>2 DEF W!Broadcast, Sent
    <2>1. CASE wd' = [wd EXCEPT ![c].chain = "pending"] /\ W!Goto(c, "hash")
      <3>1. wd' = [wd EXCEPT ![c] = [wd[c] EXCEPT !.chain = "pending"]]
        BY <2>1
      <3>2. wd' \in [Calls -> W!WithdrawalType] /\ wd'[c] = [wd[c] EXCEPT !.chain = "pending"]
            /\ \A d \in Calls \ {c} : wd'[d] = wd[d]
        BY <1>a, <1>b, <3>1
      <3>3. Moved(c) /\ call'[c].pc = "hash"
        BY <1>0, <2>1, CallGoes
      <3>4. Sent(c)'
        BY <1>0, <2>0, <3>2, <3>3 DEF Sent, W!WithdrawalType
      <3> QED BY <1>0, <2>0, <3>2, <3>3, <3>4
    <2>2. CASE wd' = [wd EXCEPT ![c] = W!FailWithdrawal(@)] /\ W!Return(c)
      <3>1. wd' \in [Calls -> W!WithdrawalType] /\ wd'[c] = W!FailWithdrawal(wd[c])
            /\ \A d \in Calls \ {c} : wd'[d] = wd[d]
        BY <1>a, <1>b, <2>2
      <3>2. Moved(c) /\ call'[c].pc \in {"idle", "next"}
        BY <1>0, <2>2, CallReturns
      <3>3. Sent(c)'
        BY <1>0, <2>0, <3>1, <3>2 DEF Sent, W!WithdrawalType, W!FailWithdrawal
      <3> QED BY <1>0, <2>0, <3>1, <3>2, <3>3
    <2>3. CASE W!Return(c) /\ UNCHANGED wd
      <3>1. Moved(c) /\ call'[c].pc \in {"idle", "next"}
        BY <1>0, <2>3, CallReturns
      <3>2. Sent(c)'
        BY <1>0, <2>3, <3>1 DEF Sent
      <3> QED BY <1>0, <2>0, <2>3, <3>1, <3>2
    <2> QED BY <1>2, <2>1, <2>2, <2>3 DEF W!Broadcast
  <1>3. CASE W!RecordHash(c)
    <2>0. /\ call[c].pc = "hash" /\ wd[c].st = "PROCESSING" /\ wd[c].chain # "none"
          /\ UNCHANGED <<usdt, tok, trade, cool, afloat, conv, asked>>
      BY <1>0, <1>3 DEF W!RecordHash, Sent
    <2>1. Moved(c) /\ call'[c].pc \in {"idle", "next"}
      BY <1>0, <1>3, CallReturns DEF W!RecordHash
    <2>2. CASE wd' = [wd EXCEPT ![c].hash = TRUE, ![c].waiting = TRUE]
      <3>1. wd' = [wd EXCEPT ![c] = [wd[c] EXCEPT !.hash = TRUE, !.waiting = TRUE]]
        BY <1>0, <2>2
      <3>2. wd' \in [Calls -> W!WithdrawalType] /\ wd'[c] = [wd[c] EXCEPT !.hash = TRUE, !.waiting = TRUE]
            /\ \A d \in Calls \ {c} : wd'[d] = wd[d]
        BY <1>a, <1>b, <3>1
      <3>3. Sent(c)'
        BY <1>0, <2>0, <2>1, <3>2 DEF Sent, W!WithdrawalType
      <3> QED BY <1>0, <2>0, <2>1, <3>2, <3>3
    <2>3. CASE wd' = [wd EXCEPT ![c] = W!FailWithdrawal(@)]
      <3>1. wd' \in [Calls -> W!WithdrawalType] /\ wd'[c] = W!FailWithdrawal(wd[c])
            /\ \A d \in Calls \ {c} : wd'[d] = wd[d]
        BY <1>a, <1>b, <2>3
      <3>2. Sent(c)'
        BY <1>0, <2>0, <2>1, <3>1 DEF Sent, W!WithdrawalType, W!FailWithdrawal
      <3> QED BY <1>0, <2>0, <2>1, <3>1, <3>2
    <2>4. CASE UNCHANGED wd
      <3>1. Sent(c)'
        BY <1>0, <2>1, <2>4 DEF Sent
      <3> QED BY <1>0, <2>0, <2>1, <2>4, <3>1
    <2> QED BY <1>3, <2>2, <2>3, <2>4 DEF W!RecordHash
  <1> QED BY <1>1, <1>2, <1>3 DEF W!WithdrawStep

\* What happens to a withdrawal once the request is answered.
LEMMA WithdrawalEnds ==
    ASSUME BscInv, NEW c \in Calls, W!WithdrawalTx(c) \/ W!ConfirmWithdrawal(c)
    PROVE  /\ wd' \in [Calls -> W!WithdrawalType] /\ \A d \in Calls \ {c} : wd'[d] = wd[d]
           /\ Sent(c)' /\ usdt' \in Nat /\ tok' \in Nat
           /\ UNCHANGED <<trade, call, cool, afloat, conv, asked>>
  <1>0. /\ W!WalletAmounts /\ W!TypeOK /\ Lot \in Nat /\ usdt \in Nat /\ tok \in Nat
        /\ wd \in [Calls -> W!WithdrawalType] /\ wd[c] \in W!WithdrawalType /\ Sent(c)
    BY BscFacts DEF BscInv, W!TypeOK
  <1>a. ASSUME NEW w \in W!WithdrawalType, wd' = [wd EXCEPT ![c] = w]
        PROVE  wd' \in [Calls -> W!WithdrawalType] /\ wd'[c] = w /\ \A d \in Calls \ {c} : wd'[d] = wd[d]
    BY <1>0, <1>a
  <1>1. CASE W!WithdrawalTx(c)
    <2>1. /\ usdt' \in Nat /\ tok' \in Nat /\ wd[c].chain = "pending"
          /\ UNCHANGED <<trade, call, cool, afloat, conv, asked>>
      <3>1. [kind |-> "out", amt |-> Lot] \in W!TxType
        BY <1>0 DEF W!TxType
      <3> QED BY <1>0, <1>1, <3>1, MoveTypes DEF W!WithdrawalTx
    <2>2. PICK fate \in {"landed", "reverted"} : wd' = [wd EXCEPT ![c] = [wd[c] EXCEPT !.chain = fate]]
      BY <1>1 DEF W!WithdrawalTx
    <2>3. [wd[c] EXCEPT !.chain = fate] \in W!WithdrawalType
      BY <1>0 DEF W!WithdrawalType
    <2>4. wd' \in [Calls -> W!WithdrawalType] /\ wd'[c] = [wd[c] EXCEPT !.chain = fate]
          /\ \A d \in Calls \ {c} : wd'[d] = wd[d]
      BY <1>a, <2>2, <2>3
    <2>5. Sent(c)'
      BY <1>0, <2>1, <2>4 DEF Sent, W!WithdrawalType
    <2> QED BY <2>1, <2>4, <2>5
  <1>2. CASE W!ConfirmWithdrawal(c)
    <2>1. /\ UNCHANGED <<usdt, tok, trade, call, cool, afloat, conv, asked>> /\ wd[c].waiting
          /\ call[c].pc \notin {"send", "hash"}
      BY <1>0, <1>2 DEF W!ConfirmWithdrawal, Sent
    <2>2. PICK w \in {W!OnReceipt(wd[c]), [W!FailWithdrawal(wd[c]) EXCEPT !.waiting = FALSE],
                      [wd[c] EXCEPT !.waiting = FALSE]} : wd' = [wd EXCEPT ![c] = w]
      BY <1>2 DEF W!ConfirmWithdrawal
    <2>3. /\ w \in W!WithdrawalType /\ w.hash = wd[c].hash /\ w.chain = wd[c].chain
          /\ w.st = "COMPLETED" => w.chain = "landed"
      BY <1>0, <2>2 DEF W!WithdrawalType, W!OnReceipt, W!FailWithdrawal, Sent
    <2>4. wd' \in [Calls -> W!WithdrawalType] /\ wd'[c] = w /\ \A d \in Calls \ {c} : wd'[d] = wd[d]
      BY <1>a, <2>2, <2>3
    <2>5. Sent(c)'
      BY <1>0, <2>1, <2>3, <2>4 DEF Sent
    <2> QED BY <1>0, <2>1, <2>4, <2>5
  <1> QED BY <1>1, <1>2

\* The amounts of a convert are numbers; its transactions are what they take.
LEMMA ConvertFacts ==
    ASSUME BscInv, NEW c \in Calls
    PROVE  /\ conv[c] \in [asked : Nat, took : Nat, blind : BOOLEAN] /\ afloat[c] \in W!TxType
           /\ call[c] \in W!CallType /\ Out(c) \in Nat /\ Left(c) \in Nat
           /\ W!FeeTx \in W!TxType /\ W!FeeTx.kind = "out" /\ W!FeeTx.amt = Fee
           /\ W!ConvertTx(c) \in W!TxType /\ W!ConvertTx(c).kind = "out" /\ W!ConvertTx(c).amt <= call[c].amt
  <1>1. /\ conv[c] \in [asked : Nat, took : Nat, blind : BOOLEAN] /\ afloat[c] \in W!TxType
        /\ call[c] \in W!CallType /\ tok \in Nat /\ Fee \in Nat
    BY BscFacts DEF BscInv, W!TypeOK
  <1>2. Out(c) \in Nat /\ Left(c) \in Nat
    BY <1>1 DEF Out, Left, W!TxType, W!CallType
  <1>3. W!FeeTx \in W!TxType /\ W!FeeTx.kind = "out" /\ W!FeeTx.amt = Fee
    BY <1>1 DEF W!FeeTx, W!TxType
  <1>4. W!Min({call[c].amt, tok}) \in Nat /\ W!Min({call[c].amt, tok}) <= call[c].amt
    <2>1. {call[c].amt, tok} \in SUBSET Nat /\ {call[c].amt, tok} # {} /\ call[c].amt \in {call[c].amt, tok}
      BY <1>1 DEF W!CallType
    <2> HIDE <1>1
    <2> QED BY <2>1, LeastRow
  <1>5. W!ConvertTx(c) \in W!TxType /\ W!ConvertTx(c).kind = "out" /\ W!ConvertTx(c).amt <= call[c].amt
    BY <1>4 DEF W!ConvertTx, W!TxType
  <1> QED BY <1>1, <1>2, <1>3, <1>5

\* A convert: the fee, then the rest.
LEMMA ConvertMoves ==
    ASSUME BscInv, NEW c \in Calls, W!RequestConvert(c) \/ W!ConvertStep(c)
    PROVE  /\ Moved(c) /\ call'[c].pc \in {"fee", "convert", "idle", "next"} /\ call[c].pc \notin {"send", "hash"}
           /\ afloat' \in [Calls -> W!TxType] /\ \A d \in Calls \ {c} : afloat'[d] = afloat[d]
           /\ conv' \in [Calls -> [asked : Nat, took : Nat, blind : BOOLEAN]]
           /\ \A d \in Calls \ {c} : conv'[d] = conv[d]
           /\ Takes(c)' /\ usdt' \in Nat /\ tok' \in Nat /\ asked' \in 0..MaxRequests
           /\ UNCHANGED <<trade, cool, wd>>
  <1> DEFINE Convs == [asked : Nat, took : Nat, blind : BOOLEAN]
  <1>0. /\ W!WalletAmounts /\ W!TypeOK /\ call[c] \in W!CallType /\ W!Idle \in W!CallType
        /\ Lot \in Nat \ {0} /\ Fee \in Nat /\ usdt \in Nat /\ tok \in Nat
        /\ afloat \in [Calls -> W!TxType] /\ conv \in [Calls -> Convs]
        /\ asked \in 0..MaxRequests /\ MaxRequests \in Nat /\ Takes(c)
    BY BscFacts DEF BscInv, W!TypeOK, W!WalletAmounts
  <1>a. ASSUME NEW v \in Convs, conv' = [conv EXCEPT ![c] = v]
        PROVE  conv' \in [Calls -> Convs] /\ conv'[c] = v /\ \A d \in Calls \ {c} : conv'[d] = conv[d]
    BY <1>0, <1>a
  <1>b. ASSUME NEW tx \in W!TxType, afloat' = [afloat EXCEPT ![c] = tx]
        PROVE  afloat' \in [Calls -> W!TxType] /\ afloat'[c] = tx /\ \A d \in Calls \ {c} : afloat'[d] = afloat[d]
    BY <1>0, <1>b
  <1>c. ASSUME UNCHANGED conv PROVE conv' \in [Calls -> Convs] /\ \A d \in Calls \ {c} : conv'[d] = conv[d]
    BY <1>0, <1>c
  <1>d. ASSUME UNCHANGED afloat
        PROVE  afloat' \in [Calls -> W!TxType] /\ \A d \in Calls \ {c} : afloat'[d] = afloat[d]
    BY <1>0, <1>d
  <1>1. CASE W!RequestConvert(c)
    <2> DEFINE new == [W!Idle EXCEPT !.pc = "fee", !.kind = "convert", !.amt = Lot]
               v == [W!NoConvert EXCEPT !.asked = Lot]
    <2>1. new \in W!CallType /\ new.pc = "fee" /\ new.amt = Lot
      BY <1>0 DEF W!CallType, W!Idle
    <2>2. v.asked = Lot /\ v.took = 0 /\ v.blind = FALSE /\ v \in Convs
      BY <1>0 DEF W!NoConvert
    <2>3. call' = [call EXCEPT ![c] = new] /\ conv' = [conv EXCEPT ![c] = v]
      BY <1>1 DEF W!RequestConvert
    <2>4. /\ call[c].pc = "idle" /\ afloat[c] = W!NoTx /\ asked' \in 0..MaxRequests /\ 5 * Fee < Lot
          /\ UNCHANGED <<usdt, tok, trade, cool, afloat, wd>>
      BY <1>0, <1>1 DEF W!RequestConvert, W!Requested
    <2> HIDE DEF new, v
    <2>5. Moved(c) /\ call'[c] = new
      BY <1>0, <2>1, <2>3, CallMoves
    <2>6. conv' \in [Calls -> Convs] /\ conv'[c] = v /\ \A d \in Calls \ {c} : conv'[d] = conv[d]
      BY <1>a, <2>2, <2>3
    <2>7. Takes(c)'
      <3>1. Left(c)' = Lot /\ Out(c)' = 0
        BY <2>1, <2>4, <2>5 DEF Left, Out, W!NoTx
      <3> QED BY <1>0, <2>1, <2>2, <2>4, <2>5, <2>6, <3>1 DEF Takes
    <2> QED BY <1>0, <1>d, <2>1, <2>4, <2>5, <2>6, <2>7
  <1>2. CASE W!ChargeFee(c)
    <2>0. /\ call[c].pc = "fee" /\ call[c].amt = Lot /\ afloat[c] = W!NoTx /\ 5 * Fee < Lot
          /\ conv[c].asked = Lot /\ conv[c].took = 0 /\ ~conv[c].blind
          /\ UNCHANGED <<trade, cool, wd, asked>>
      BY <1>0, <1>2 DEF W!ChargeFee, Takes
    <2>1. W!FeeTx \in W!TxType /\ W!FeeTx.kind = "out" /\ W!FeeTx.amt = Fee
      BY ConvertFacts
    <2>a. ASSUME NEW a \in Nat, call' = [call EXCEPT ![c].pc = "convert", ![c].amt = a]
          PROVE  Moved(c) /\ call'[c].pc = "convert" /\ call'[c].amt = a /\ Left(c)' = a
      <3> DEFINE new == [call[c] EXCEPT !.pc = "convert", !.amt = a]
      <3>1. new \in W!CallType /\ new.pc = "convert" /\ new.amt = a
        BY <1>0 DEF W!CallType
      <3>2. call' = [call EXCEPT ![c] = new]
        BY <1>0, <2>a DEF W!TypeOK
      <3> HIDE DEF new
      <3>3. Moved(c) /\ call'[c] = new
        BY <1>0, <3>1, <3>2, CallMoves
      <3> QED BY <3>1, <3>3 DEF Left
    <2>2. CASE /\ W!Move(W!FeeTx) /\ conv' = [conv EXCEPT ![c].took = @ + Fee] /\ UNCHANGED afloat
               /\ call' = [call EXCEPT ![c].pc = "convert", ![c].amt = W!NetAmount(c, TRUE)]
      <3>1. W!NetAmount(c, TRUE) = Lot - Fee /\ Lot - Fee \in Nat
        BY <1>0, <2>0 DEF W!NetAmount
      <3>2. Moved(c) /\ call'[c].pc = "convert" /\ Left(c)' = Lot - Fee
        BY <2>2, <2>a, <3>1
      <3>3. usdt' \in Nat /\ tok' \in Nat
        BY <1>0, <2>1, <2>2, MoveTypes
      <3> DEFINE v == [conv[c] EXCEPT !.took = @ + Fee]
      <3>4. v.asked = Lot /\ v.took = Fee /\ v.blind = FALSE /\ v \in Convs
        <4>1. conv[c] \in Convs
          BY <1>0
        <4> QED BY <1>0, <2>0, <4>1
      <3>5. conv' = [conv EXCEPT ![c] = v]
        BY <2>2
      <3> HIDE DEF v
      <3>6. conv' \in [Calls -> Convs] /\ conv'[c] = v /\ \A d \in Calls \ {c} : conv'[d] = conv[d]
        BY <1>a, <3>4, <3>5
      <3>7. Takes(c)'
        <4>1. Out(c)' = 0
          BY <2>0, <2>2 DEF Out, W!NoTx
        <4> QED BY <1>0, <3>2, <3>4, <3>6, <4>1 DEF Takes
      <3> QED BY <1>0, <1>d, <2>0, <2>2, <3>2, <3>3, <3>6, <3>7
    <2>3. CASE /\ afloat' = [afloat EXCEPT ![c] = W!FeeTx] /\ conv' = [conv EXCEPT ![c].blind = TRUE]
               /\ call' = [call EXCEPT ![c].pc = "convert", ![c].amt = W!NetAmount(c, FALSE)]
               /\ UNCHANGED <<tok, usdt>>
      <3>1. W!NetAmount(c, FALSE) = Lot
        BY <2>0 DEF W!NetAmount
      <3>2. Moved(c) /\ call'[c].pc = "convert" /\ Left(c)' = Lot
        BY <1>0, <2>3, <2>a, <3>1
      <3> DEFINE v == [conv[c] EXCEPT !.blind = TRUE]
      <3>3. v.asked = Lot /\ v.took = 0 /\ v.blind = TRUE /\ v \in Convs
        <4>1. conv[c] \in Convs
          BY <1>0
        <4> QED BY <1>0, <2>0, <4>1
      <3>4. conv' = [conv EXCEPT ![c] = v]
        BY <2>3
      <3> HIDE DEF v
      <3>5. conv' \in [Calls -> Convs] /\ conv'[c] = v /\ \A d \in Calls \ {c} : conv'[d] = conv[d]
        BY <1>a, <3>3, <3>4
      <3>6. /\ afloat' \in [Calls -> W!TxType] /\ afloat'[c] = W!FeeTx
            /\ \A d \in Calls \ {c} : afloat'[d] = afloat[d]
        BY <1>b, <2>1, <2>3
      <3>7. Takes(c)'
        <4>1. Out(c)' = Fee
          BY <2>1, <3>6 DEF Out
        <4> QED BY <1>0, <3>2, <3>3, <3>5, <4>1 DEF Takes
      <3> QED BY <1>0, <2>0, <2>3, <3>2, <3>5, <3>6, <3>7
    <2>4. CASE /\ call' = [call EXCEPT ![c].pc = "convert", ![c].amt = W!NetAmount(c, FALSE)]
               /\ UNCHANGED <<tok, usdt, afloat, conv>>
      <3>1. W!NetAmount(c, FALSE) = Lot
        BY <2>0 DEF W!NetAmount
      <3>2. Moved(c) /\ call'[c].pc = "convert" /\ Left(c)' = Lot
        BY <1>0, <2>4, <2>a, <3>1
      <3>3. Takes(c)'
        <4>1. Out(c)' = 0
          BY <2>0, <2>4 DEF Out, W!NoTx
        <4> QED BY <1>0, <2>0, <2>4, <3>2, <4>1 DEF Takes
      <3> QED BY <1>0, <1>c, <1>d, <2>0, <2>4, <3>2, <3>3
    <2> QED BY <1>2, <2>2, <2>3, <2>4 DEF W!ChargeFee
  <1>3. CASE W!ConvertSwap(c)
    <2>0. /\ call[c].pc = "convert" /\ UNCHANGED <<trade, cool, wd, asked>>
          /\ Moved(c) /\ call'[c].pc \in {"idle", "next"}
      BY <1>0, <1>3, CallReturns DEF W!ConvertSwap
    <2>1. /\ W!ConvertTx(c) \in W!TxType /\ W!ConvertTx(c).kind = "out" /\ W!ConvertTx(c).amt <= call[c].amt
          /\ W!ConvertTx(c).amt \in Nat /\ Out(c) \in Nat /\ call[c].amt \in Nat
      BY ConvertFacts DEF W!TxType, W!CallType
    <2>2. Left(c) = call[c].amt /\ Left(c)' = 0
      BY <2>0 DEF Left
    <2>3. CASE /\ W!Move(W!ConvertTx(c)) /\ conv' = [conv EXCEPT ![c].took = @ + W!ConvertTx(c).amt]
               /\ UNCHANGED afloat
      <3> DEFINE v == [conv[c] EXCEPT !.took = @ + W!ConvertTx(c).amt]
      <3>1. /\ v \in Convs /\ v.took = conv[c].took + W!ConvertTx(c).amt
            /\ v.asked = conv[c].asked /\ v.blind = conv[c].blind /\ conv[c] \in Convs
        BY <1>0, <2>1
      <3>2. conv' = [conv EXCEPT ![c] = v]
        BY <2>3
      <3> HIDE DEF v
      <3>3. conv' \in [Calls -> Convs] /\ conv'[c] = v /\ \A d \in Calls \ {c} : conv'[d] = conv[d]
        BY <1>a, <3>1, <3>2
      <3>4. usdt' \in Nat /\ tok' \in Nat
        BY <1>0, <2>1, <2>3, MoveTypes
      <3>5. Takes(c)'
        <4>1. Out(c)' = Out(c)
          BY <2>3 DEF Out
        <4> QED BY <1>0, <2>0, <2>1, <2>2, <3>1, <3>3, <4>1 DEF Takes
      <3> QED BY <1>0, <1>d, <2>0, <2>3, <3>3, <3>4, <3>5
    <2>4. CASE UNCHANGED <<tok, usdt, afloat, conv>>
      <3>1. Takes(c)'
        <4>1. Out(c)' = Out(c)
          BY <2>4 DEF Out
        <4> QED BY <1>0, <2>0, <2>1, <2>2, <2>4, <4>1 DEF Takes
      <3> QED BY <1>0, <1>c, <1>d, <2>0, <2>4, <3>1
    <2>5. CASE /\ afloat[c] = W!NoTx /\ afloat' = [afloat EXCEPT ![c] = W!ConvertTx(c)]
               /\ UNCHANGED <<tok, usdt, conv>>
      <3>1. /\ afloat' \in [Calls -> W!TxType] /\ afloat'[c] = W!ConvertTx(c)
            /\ \A d \in Calls \ {c} : afloat'[d] = afloat[d]
        BY <1>b, <2>1, <2>5
      <3>2. Takes(c)'
        <4>1. Out(c) = 0 /\ Out(c)' = W!ConvertTx(c).amt
          BY <2>1, <2>5, <3>1 DEF Out, W!NoTx
        <4> QED BY <1>0, <2>0, <2>1, <2>2, <2>5, <4>1 DEF Takes
      <3> QED BY <1>0, <1>c, <2>0, <2>5, <3>1, <3>2
    <2> QED BY <1>3, <2>3, <2>4, <2>5 DEF W!ConvertSwap
  <1> QED BY <1>1, <1>2, <1>3 DEF W!ConvertStep

\* A transaction nobody waits for any more.
LEMMA LateMoves ==
    ASSUME BscInv, NEW c \in Calls, W!LateTx(c)
    PROVE  /\ afloat' \in [Calls -> W!TxType] /\ \A d \in Calls \ {c} : afloat'[d] = afloat[d]
           /\ conv' \in [Calls -> [asked : Nat, took : Nat, blind : BOOLEAN]]
           /\ \A d \in Calls \ {c} : conv'[d] = conv[d]
           /\ Takes(c)' /\ usdt' \in Nat /\ tok' \in Nat /\ UNCHANGED <<trade, call, cool, wd, asked>>
  <1> DEFINE Convs == [asked : Nat, took : Nat, blind : BOOLEAN]
  <1>0. /\ W!WalletAmounts /\ W!TypeOK /\ W!NoTx \in W!TxType /\ usdt \in Nat /\ tok \in Nat /\ Fee \in Nat
        /\ afloat \in [Calls -> W!TxType] /\ conv \in [Calls -> Convs] /\ afloat[c] \in W!TxType
        /\ Takes(c) /\ conv[c] \in Convs /\ Out(c) \in Nat /\ Left(c) \in Nat /\ afloat[c].amt \in Nat
    BY BscFacts, ConvertFacts DEF BscInv, W!TypeOK, W!TxType
  <1>1. /\ afloat[c] # W!NoTx /\ afloat' = [afloat EXCEPT ![c] = W!NoTx] /\ UNCHANGED <<trade, call, cool, wd, asked>>
    BY DEF W!LateTx
  <1>2. /\ afloat' \in [Calls -> W!TxType] /\ afloat'[c] = W!NoTx
        /\ \A d \in Calls \ {c} : afloat'[d] = afloat[d]
    BY <1>0, <1>1
  <1>3. Out(c)' = 0 /\ Left(c)' = Left(c) /\ call[c].pc # "fee"
    BY <1>0, <1>1, <1>2 DEF Out, Left, W!NoTx, Takes
  <1>4. CASE UNCHANGED <<tok, usdt, conv>>
    <2>1. Takes(c)'
      BY <1>0, <1>1, <1>3, <1>4 DEF Takes
    <2> QED BY <1>0, <1>1, <1>2, <1>4, <2>1
  <1>5. CASE W!Move(afloat[c]) /\ conv' = conv /\ afloat[c].kind # "out"
    <2>1. Takes(c)'
      BY <1>0, <1>1, <1>3, <1>5 DEF Takes
    <2>2. usdt' \in Nat /\ tok' \in Nat
      BY <1>0, <1>5, MoveTypes
    <2> QED BY <1>0, <1>1, <1>2, <1>5, <2>1, <2>2
  <1>6. CASE W!Move(afloat[c]) /\ afloat[c].kind = "out" /\ conv' = [conv EXCEPT ![c].took = @ + afloat[c].amt]
    <2> DEFINE v == [conv[c] EXCEPT !.took = @ + afloat[c].amt]
    <2>1. v \in Convs /\ v.took = conv[c].took + afloat[c].amt /\ v.asked = conv[c].asked /\ v.blind = conv[c].blind
      BY <1>0
    <2>2. conv' = [conv EXCEPT ![c] = v]
      BY <1>6
    <2> HIDE DEF v
    <2>3. conv' \in [Calls -> Convs] /\ conv'[c] = v /\ \A d \in Calls \ {c} : conv'[d] = conv[d]
      BY <1>0, <2>1, <2>2
    <2>4. Out(c) = afloat[c].amt
      BY <1>6 DEF Out
    <2>5. Takes(c)'
      BY <1>0, <1>1, <1>3, <2>1, <2>3, <2>4 DEF Takes
    <2>6. usdt' \in Nat /\ tok' \in Nat
      BY <1>0, <1>6, MoveTypes
    <2> QED BY <1>0, <1>1, <1>2, <2>3, <2>5, <2>6
  <1> QED BY <1>4, <1>5, <1>6 DEF W!LateTx

\* What a step of call c leaves alone keeps the invariant of the other calls.
LEMMA OthersKept ==
    ASSUME BscInv, NEW d \in Calls, call'[d] = call[d]
    PROVE  /\ Named(d)'
           /\ wd'[d] = wd[d] => Sent(d)'
           /\ afloat'[d] = afloat[d] /\ conv'[d] = conv[d] => Takes(d)'
  BY DEF BscInv, Named, Sent, Takes, Out, Left

\* A step of a trade keeps the withdrawal and the convert of its slot.
LEMMA TradeKept ==
    ASSUME BscInv, NEW c \in Calls, Traded(c), call[c].pc \notin {"fee", "convert", "send", "hash"},
           UNCHANGED <<wd, conv>>,
           \/ UNCHANGED afloat
           \/ /\ afloat[c] = W!NoTx
              /\ \E tx \in W!TxType : tx.kind # "out" /\ afloat' = [afloat EXCEPT ![c] = tx]
    PROVE  /\ Named(c)' /\ Sent(c)' /\ Takes(c)' /\ afloat' \in [Calls -> W!TxType]
           /\ \A d \in Calls \ {c} : afloat'[d] = afloat[d]
  <1>0. Named(c) /\ Sent(c) /\ Takes(c) /\ afloat \in [Calls -> W!TxType]
    BY DEF BscInv, W!TypeOK
  <1>1. Named(c)' /\ Sent(c)'
    BY <1>0 DEF Traded, Named, Sent
  <1>2. Left(c) = 0 /\ Left(c)' = 0
    BY DEF Traded, Left
  <1>3. Out(c)' = Out(c) /\ afloat' \in [Calls -> W!TxType] /\ \A d \in Calls \ {c} : afloat'[d] = afloat[d]
    <2>1. CASE UNCHANGED afloat
      BY <1>0, <2>1 DEF Out
    <2>2. CASE afloat[c] = W!NoTx /\ \E tx \in W!TxType : tx.kind # "out" /\ afloat' = [afloat EXCEPT ![c] = tx]
      BY <1>0, <2>2 DEF Out, W!NoTx
    <2> QED BY <2>1, <2>2
  <1>4. Takes(c)'
    BY <1>0, <1>2, <1>3 DEF Takes, Traded
  <1> QED BY <1>1, <1>3, <1>4

LEMMA BscInvInductive == BscInv /\ [W!Next]_(W!walletVars) => BscInv'
  <1> SUFFICES ASSUME BscInv, [W!Next]_(W!walletVars) PROVE BscInv'
    OBVIOUS
  <1> DEFINE Trades == [W!Rows -> [st : {"none", "OPEN", "CLOSED", "CANCELLED"}, lot : Nat]]
             Convs == [asked : Nat, took : Nat, blind : BOOLEAN]
  <1>0. /\ W!WalletAmounts /\ W!WalletAmounts' /\ usdt \in Nat /\ tok \in Nat /\ trade \in Trades
        /\ call \in [Calls -> W!CallType] /\ cool \subseteq W!Rows /\ afloat \in [Calls -> W!TxType]
        /\ wd \in [Calls -> W!WithdrawalType] /\ conv \in [Calls -> Convs] /\ asked \in 0..MaxRequests
        /\ \A c \in Calls : Named(c) /\ Sent(c) /\ Takes(c)
    BY DEF BscInv, W!TypeOK, W!WalletAmounts
  <1>a. ASSUME /\ usdt' \in Nat /\ tok' \in Nat /\ trade' \in Trades
               /\ call' \in [Calls -> W!CallType] /\ cool' \subseteq W!Rows /\ afloat' \in [Calls -> W!TxType]
               /\ wd' \in [Calls -> W!WithdrawalType] /\ conv' \in [Calls -> Convs] /\ asked' \in 0..MaxRequests,
               \A d \in Calls : Named(d)' /\ Sent(d)' /\ Takes(d)'
        PROVE  BscInv'
    BY <1>0, <1>a DEF BscInv, W!TypeOK
  <1>1. ASSUME NEW c \in Calls, TradeStep(c) PROVE BscInv'
    <2>1. /\ Traded(c) /\ call[c].pc \notin {"fee", "convert", "send", "hash"} /\ UNCHANGED <<wd, conv>>
          /\ usdt' \in Nat /\ tok' \in Nat /\ trade' \in Trades /\ cool' \subseteq W!Rows
          /\ asked' \in 0..MaxRequests
          /\ \/ UNCHANGED afloat
             \/ /\ afloat[c] = W!NoTx
                /\ \E tx \in W!TxType : tx.kind # "out" /\ afloat' = [afloat EXCEPT ![c] = tx]
      <3>1. CASE W!RequestSwap(c, "buy") \/ W!RequestSwap(c, "sell") \/ W!RequestSellAll(c) \/ W!StartWatch(c)
        <4>1. call[c].pc = "idle"
          BY <3>1 DEF W!RequestSwap, W!RequestSellAll, W!StartWatch, W!Requested
        <4> QED BY <1>0, <3>1, <4>1, RequestsStart
      <3>2. CASE W!Size(c) \/ W!ReadBefore(c) \/ W!Swap(c)
        BY <1>0, <3>2, SwapsMove
      <3>3. CASE W!BookBuy(c) \/ W!FindRow(c) \/ W!CloseRow(c) \/ W!CancelSibling(c) \/ W!Done(c) \/ W!BookingThrows(c)
        BY <1>0, <3>3, BookingMoves
      <3>4. CASE W!WatchStep(c)
        BY <1>0, <3>4, WatchMoves
      <3> QED BY <1>1, <3>1, <3>2, <3>3, <3>4 DEF TradeStep, W!SwapStep
    <2>2. /\ Named(c)' /\ Sent(c)' /\ Takes(c)' /\ afloat' \in [Calls -> W!TxType]
          /\ \A d \in Calls \ {c} : afloat'[d] = afloat[d]
      BY <2>1, TradeKept
    <2>3. ASSUME NEW d \in Calls \ {c} PROVE Named(d)' /\ Sent(d)' /\ Takes(d)'
      <3>1. call'[d] = call[d] /\ wd'[d] = wd[d] /\ conv'[d] = conv[d] /\ afloat'[d] = afloat[d]
        BY <2>1, <2>2 DEF Traded, Moved
      <3> QED BY <3>1, OthersKept
    <2> QED BY <1>0, <1>a, <2>1, <2>2, <2>3 DEF Traded, Moved
  <1>2. ASSUME NEW c \in Calls, W!RequestWithdrawal(c) \/ W!WithdrawStep(c) PROVE BscInv'
    <2>1. /\ Moved(c) /\ call'[c].pc \in {"send", "hash", "idle", "next"}
          /\ wd' \in [Calls -> W!WithdrawalType] /\ \A d \in Calls \ {c} : wd'[d] = wd[d]
          /\ Sent(c)' /\ asked' \in 0..MaxRequests /\ UNCHANGED <<usdt, tok, trade, cool, afloat, conv>>
          /\ call[c].pc \notin {"fee", "convert"}
      BY <1>2, WithdrawalMoves
    <2>2. Named(c)'
      BY <2>1 DEF Named
    <2>3. Takes(c)'
      <3>1. Out(c)' = Out(c) /\ Left(c)' = Left(c)
        BY <2>1 DEF Out, Left
      <3> QED BY <1>0, <2>1, <3>1 DEF Takes
    <2>4. ASSUME NEW d \in Calls \ {c} PROVE Named(d)' /\ Sent(d)' /\ Takes(d)'
      <3>1. call'[d] = call[d] /\ wd'[d] = wd[d] /\ conv'[d] = conv[d] /\ afloat'[d] = afloat[d]
        BY <2>1 DEF Moved
      <3> QED BY <3>1, OthersKept
    <2> QED BY <1>0, <1>a, <2>1, <2>2, <2>3, <2>4 DEF Moved
  <1>3. ASSUME NEW c \in Calls, W!RequestConvert(c) \/ W!ConvertStep(c) PROVE BscInv'
    <2>1. /\ Moved(c) /\ call'[c].pc \in {"fee", "convert", "idle", "next"} /\ call[c].pc \notin {"send", "hash"}
          /\ afloat' \in [Calls -> W!TxType] /\ \A d \in Calls \ {c} : afloat'[d] = afloat[d]
          /\ conv' \in [Calls -> Convs] /\ \A d \in Calls \ {c} : conv'[d] = conv[d]
          /\ Takes(c)' /\ usdt' \in Nat /\ tok' \in Nat /\ asked' \in 0..MaxRequests
          /\ UNCHANGED <<trade, cool, wd>>
      BY <1>3, ConvertMoves
    <2>2. Named(c)' /\ Sent(c)'
      BY <1>0, <2>1 DEF Named, Sent
    <2>3. ASSUME NEW d \in Calls \ {c} PROVE Named(d)' /\ Sent(d)' /\ Takes(d)'
      <3>1. call'[d] = call[d] /\ wd'[d] = wd[d] /\ conv'[d] = conv[d] /\ afloat'[d] = afloat[d]
        BY <2>1 DEF Moved
      <3> QED BY <3>1, OthersKept
    <2> QED BY <1>0, <1>a, <2>1, <2>2, <2>3 DEF Moved
  <1>4. ASSUME NEW c \in Calls, W!LateTx(c) PROVE BscInv'
    <2>1. /\ afloat' \in [Calls -> W!TxType] /\ \A d \in Calls \ {c} : afloat'[d] = afloat[d]
          /\ conv' \in [Calls -> Convs] /\ \A d \in Calls \ {c} : conv'[d] = conv[d]
          /\ Takes(c)' /\ usdt' \in Nat /\ tok' \in Nat /\ UNCHANGED <<trade, call, cool, wd, asked>>
      BY <1>4, LateMoves
    <2>2. Named(c)' /\ Sent(c)'
      BY <1>0, <2>1 DEF Named, Sent
    <2>3. ASSUME NEW d \in Calls \ {c} PROVE Named(d)' /\ Sent(d)' /\ Takes(d)'
      BY <2>1, OthersKept
    <2> QED BY <1>0, <1>a, <2>1, <2>2, <2>3
  <1>5. ASSUME NEW c \in Calls, W!WithdrawalTx(c) \/ W!ConfirmWithdrawal(c) PROVE BscInv'
    <2>1. /\ wd' \in [Calls -> W!WithdrawalType] /\ \A d \in Calls \ {c} : wd'[d] = wd[d]
          /\ Sent(c)' /\ usdt' \in Nat /\ tok' \in Nat
          /\ UNCHANGED <<trade, call, cool, afloat, conv, asked>>
      BY <1>5, WithdrawalEnds
    <2>2. \A d \in Calls : Named(d)' /\ Takes(d)'
      BY <2>1, OthersKept
    <2>3. \A d \in Calls : Sent(d)'
      BY <2>1, OthersKept
    <2> QED BY <1>0, <1>a, <2>1, <2>2, <2>3
  <1>6. ASSUME NEW r \in W!Rows, W!CooldownEnds(r) PROVE BscInv'
    <2>1. cool' \subseteq W!Rows /\ UNCHANGED <<usdt, tok, trade, call, afloat, wd, conv, asked>>
      BY <1>0, <1>6 DEF W!CooldownEnds
    <2>2. \A d \in Calls : Named(d)' /\ Sent(d)' /\ Takes(d)'
      BY <2>1, OthersKept
    <2> QED BY <1>0, <1>a, <2>1, <2>2
  <1>7. CASE W!Restart
    <2>1. /\ call' = [c \in Calls |-> W!Idle] /\ cool' = {} /\ UNCHANGED <<usdt, tok, trade, afloat, conv, asked>>
          /\ wd' = [c \in Calls |-> [wd[c] EXCEPT !.waiting = FALSE]]
      BY <1>7 DEF W!Restart
    <2>2. W!Idle \in W!CallType /\ W!Idle.pc = "idle"
      BY BscFacts DEF BscInv, W!Idle
    <2>3. \A d \in Calls : /\ [wd[d] EXCEPT !.waiting = FALSE] \in W!WithdrawalType
                           /\ [wd[d] EXCEPT !.waiting = FALSE].st = wd[d].st
                           /\ [wd[d] EXCEPT !.waiting = FALSE].hash = wd[d].hash
                           /\ [wd[d] EXCEPT !.waiting = FALSE].chain = wd[d].chain
      BY <1>0, ZenonT(40) DEF W!WithdrawalType
    <2>4. ASSUME NEW d \in Calls PROVE Named(d)' /\ Sent(d)' /\ Takes(d)'
      <3>1. call'[d].pc = "idle" /\ wd'[d].st = wd[d].st /\ wd'[d].hash = wd[d].hash /\ wd'[d].chain = wd[d].chain
        BY <2>1, <2>2, <2>3
      <3>2. Named(d)' /\ Sent(d)'
        BY <1>0, <3>1 DEF Named, Sent
      <3>3. Left(d)' = 0 /\ Out(d)' = Out(d) /\ Left(d) \in Nat /\ Out(d) \in Nat /\ conv[d] \in Convs /\ Fee \in Nat
        BY <2>1, <3>1, ConvertFacts, BscFacts DEF Left, Out, BscInv
      <3>4. Takes(d)'
        BY <1>0, <2>1, <3>1, <3>3 DEF Takes
      <3> QED BY <3>2, <3>4
    <2> QED BY <1>0, <1>a, <2>1, <2>2, <2>3, <2>4
  <1>8. CASE UNCHANGED W!walletVars
    <2>1. UNCHANGED <<usdt, tok, trade, call, cool, afloat, wd, conv, asked>>
      BY <1>8 DEF W!walletVars
    <2>2. \A d \in Calls : Named(d)' /\ Sent(d)' /\ Takes(d)'
      BY <2>1, OthersKept
    <2> QED BY <1>0, <1>a, <2>1, <2>2
  <1> QED BY <1>1, <1>2, <1>3, <1>4, <1>5, <1>6, <1>7, <1>8 DEF W!Next, TradeStep

\* The first state satisfies it.
LEMMA InitBscInv == W!WalletAmounts /\ W!Init => BscInv
  <1> SUFFICES ASSUME W!WalletAmounts, W!Init PROVE BscInv
    OBVIOUS
  <1>1. W!TypeOK
    <2>1. call \in [Calls -> W!CallType] /\ afloat \in [Calls -> W!TxType]
      BY DEF W!Init, W!Idle, W!CallType, W!NoRow, W!NoTx, W!TxType
    <2>2. wd \in [Calls -> W!WithdrawalType]
      BY DEF W!Init, W!NoWithdrawal, W!WithdrawalType
    <2>3. conv \in [Calls -> [asked : Nat, took : Nat, blind : BOOLEAN]]
      BY DEF W!Init, W!NoConvert
    <2> QED BY <2>1, <2>2, <2>3 DEF W!Init, W!TypeOK, W!WalletAmounts
  <1>2. ASSUME NEW c \in Calls PROVE Named(c) /\ Sent(c) /\ Takes(c)
    BY DEF W!Init, W!WalletAmounts, Named, Sent, Takes, Out, Left, W!Idle, W!NoTx, W!NoWithdrawal, W!NoConvert
  <1> QED BY <1>1, <1>2 DEF BscInv

\* The balances, the rows, the calls and the withdrawals are always well
\* typed; in particular no transaction takes more than the wallet holds.
THEOREM BscTypeCorrect == W!WalletAmounts /\ W!Spec => []W!TypeOK
  <1>1. BscInv => W!TypeOK
    BY DEF BscInv
  <1> QED BY <1>1, InitBscInv, BscInvInductive, PTL DEF W!Spec

\* What the invariant says of a convert ...
LEMMA BscInvTakes == BscInv => W!ConvertTakesAtMost
  <1> SUFFICES ASSUME BscInv, NEW c \in Calls
               PROVE  conv[c].took <= conv[c].asked + (IF conv[c].blind THEN Fee ELSE 0)
    BY DEF W!ConvertTakesAtMost
  <1>1. /\ conv[c] \in [asked : Nat, took : Nat, blind : BOOLEAN] /\ Out(c) \in Nat /\ Left(c) \in Nat /\ Fee \in Nat
    BY ConvertFacts, BscFacts DEF BscInv
  <1> QED BY <1>1 DEF BscInv, Takes

\* personalWalletService.ts:1666-1680: for any amounts, any number of calls
\* and whatever is given up on or restarted half-way, fee and swap of a convert
\* take no more than the user named, but for a fee that lands late.
THEOREM ConvertsTakeWhatWasAsked == W!WalletAmounts /\ W!Spec => []W!ConvertTakesAtMost
  BY BscInvTakes, InitBscInv, BscInvInductive, PTL DEF W!Spec

\* ... and of the rows.
LEMMA BscInvIsTrue == BscInv => W!CompletedIsSent
  BY DEF BscInv, Sent, W!CompletedIsSent

\* personalWalletService.ts:697-721: neither the confirmation in the background
\* nor the catch of the request nor a restart makes a withdrawal COMPLETED that
\* did not leave the wallet, and a hash means that it was sent.
THEOREM BscWithdrawalsAreTrue == W!WalletAmounts /\ W!Spec => []W!CompletedIsSent
  BY BscInvIsTrue, InitBscInv, BscInvInductive, PTL DEF W!Spec

-----------------------------------------------------------------------------
(* ChatLinks *)

CodeRows == [user : Users, fresh : BOOLEAN]
LinkRows == [owner : Users \union {L!Nobody}, active : BOOLEAN]
Handlers == [pc : {"free", "off", "code", "chat", "count", "write"}, chat : Chats \union {L!Nobody},
             code : Nat, row : Users \union {L!Nobody}]

LinkTypes ==
    /\ codes \in Seq(CodeRows) /\ links \in [Chats -> LinkRows] /\ hook \in [Hooks -> Handlers]
    /\ overlapped \in BOOLEAN /\ rejoined \in [Users -> Nat]

UserOf(h) == codes[hook[h].code].user

\* A handler holds a code that exists and a chat, and the owner it read is
\* the code's user and still owns the chat.
Handles(h) ==
    /\ hook[h].code <= Len(codes)
    /\ hook[h].pc # "free" => hook[h].chat \in Chats
    /\ hook[h].pc \in {"code", "chat", "count", "write"} => hook[h].code \in 1..Len(codes)
    /\ hook[h].pc \in {"count", "write"} /\ hook[h].row # L!Nobody =>
          hook[h].row = UserOf(h) /\ links[hook[h].chat].owner = hook[h].row

\* The handlers that counted the links of u and are about to add one.
Ahead(u) == {h \in Hooks : hook[h].pc = "write" /\ hook[h].row = L!Nobody /\ UserOf(h) = u}
Slack == IF overlapped THEN Cardinality(Hooks) - 1 ELSE 0

\* Handlers that never overlapped run alone.
Serial == overlapped \/ \A g, h \in L!Busy : g = h

\* The cap covers the links and those about to be added.
Counted ==
    \A u \in Users : Cardinality(L!ActiveOf(u)) + Cardinality(Ahead(u)) <= MaxLinks + rejoined[u] + Slack

\* The inductive invariant of ChatLinks.
LinkInv == L!ChatLinksAssumption /\ LinkTypes /\ (\A h \in Hooks : Handles(h)) /\ Serial /\ Counted

\* Finite and counted mean the same inside the instance.
LEMMA LinkCounts ==
    \A T : (L!IsFiniteSet(T) <=> IsFiniteSet(T)) /\ L!Cardinality(T) = Cardinality(T)
  <1>1. \A T : L!IsFiniteSet(T) <=> IsFiniteSet(T)
    BY DEF L!IsFiniteSet, IsFiniteSet
  <1>2. \A T : L!Cardinality(T) = Cardinality(T)
    BY DEF L!Cardinality, Cardinality
  <1> QED BY <1>1, <1>2

\* A set that loses elements, gains one at most, or loses one.
LEMMA Sizes ==
    ASSUME NEW T, IsFiniteSet(T), NEW R
    PROVE  /\ Cardinality(T) \in Nat
           /\ R \subseteq T => IsFiniteSet(R) /\ Cardinality(R) \in Nat /\ Cardinality(R) <= Cardinality(T)
           /\ \A x : R \subseteq T \union {x} => Cardinality(R) \in Nat /\ Cardinality(R) <= Cardinality(T) + 1
           /\ \A x \in T : R \subseteq T \ {x} => Cardinality(R) \in Nat /\ Cardinality(R) <= Cardinality(T) - 1
  <1>1. Cardinality(T) \in Nat
    BY FS_CardinalityType
  <1>2. ASSUME R \subseteq T PROVE IsFiniteSet(R) /\ Cardinality(R) \in Nat /\ Cardinality(R) <= Cardinality(T)
    BY <1>2, FS_Subset, FS_CardinalityType
  <1>3. ASSUME NEW x, R \subseteq T \union {x}
        PROVE  Cardinality(R) \in Nat /\ Cardinality(R) <= Cardinality(T) + 1
    <2>1. /\ IsFiniteSet(T \union {x}) /\ Cardinality(T \union {x}) \in Nat
          /\ Cardinality(T \union {x}) <= Cardinality(T) + 1
      BY <1>1, FS_AddElement, FS_CardinalityType
    <2>2. IsFiniteSet(R) /\ Cardinality(R) <= Cardinality(T \union {x})
      BY <1>3, <2>1, FS_Subset
    <2>3. Cardinality(R) \in Nat
      BY <2>2, FS_CardinalityType
    <2> QED BY <1>1, <2>1, <2>2, <2>3
  <1>4. ASSUME NEW x \in T, R \subseteq T \ {x}
        PROVE  Cardinality(R) \in Nat /\ Cardinality(R) <= Cardinality(T) - 1
    <2>1. IsFiniteSet(T \ {x}) /\ Cardinality(T \ {x}) = Cardinality(T) - 1
      BY FS_RemoveElement
    <2>2. IsFiniteSet(R) /\ Cardinality(R) <= Cardinality(T \ {x})
      BY <1>4, <2>1, FS_Subset
    <2>3. Cardinality(R) \in Nat
      BY <2>2, FS_CardinalityType
    <2> QED BY <2>1, <2>2, <2>3
  <1> QED BY <1>1, <1>2, <1>3, <1>4

\* The constants, and what is counted is finite.
LEMMA LinkFacts ==
    ASSUME LinkInv
    PROVE  /\ MaxLinks \in Nat \ {0} /\ IsFiniteSet(Hooks) /\ IsFiniteSet(Chats) /\ L!Nobody \notin Users
           /\ L!Free \in Handlers /\ L!Free.pc = "free"
           /\ \A u : /\ IsFiniteSet(L!ActiveOf(u)) /\ Cardinality(L!ActiveOf(u)) \in Nat
                     /\ IsFiniteSet(Ahead(u)) /\ Cardinality(Ahead(u)) \in Nat
                     /\ Cardinality(Ahead(u)) <= Cardinality(Hooks)
           /\ Cardinality(Hooks) \in Nat
  <1>1. /\ MaxLinks \in Nat \ {0} /\ IsFiniteSet(Hooks) /\ IsFiniteSet(Chats) /\ L!Nobody \notin Users
    BY LinkCounts DEF LinkInv, L!ChatLinksAssumption, L!Nobody
  <1>2. L!Free \in Handlers /\ L!Free.pc = "free"
    BY DEF L!Free, Handlers
  <1>3. ASSUME NEW u
        PROVE  /\ IsFiniteSet(L!ActiveOf(u)) /\ Cardinality(L!ActiveOf(u)) \in Nat
               /\ IsFiniteSet(Ahead(u)) /\ Cardinality(Ahead(u)) \in Nat
               /\ Cardinality(Ahead(u)) <= Cardinality(Hooks)
    <2>1. L!ActiveOf(u) \subseteq Chats /\ Ahead(u) \subseteq Hooks
      BY DEF L!ActiveOf, Ahead
    <2> QED BY <1>1, <2>1, Sizes
  <1> QED BY <1>1, <1>2, <1>3, FS_CardinalityType

\* A step that adds no active link, nobody about to add one, and no handler
\* keeps the counts, whatever else it does.
LEMMA CountsStay ==
    ASSUME LinkInv, \A u \in Users : /\ L!ActiveOf(u)' \subseteq L!ActiveOf(u) /\ Ahead(u)' \subseteq Ahead(u),
           UNCHANGED <<overlapped, rejoined>>
    PROVE  Counted'
  <1> SUFFICES ASSUME NEW u \in Users
               PROVE  Cardinality(L!ActiveOf(u)') + Cardinality(Ahead(u)') <= MaxLinks + rejoined[u] + Slack
    BY DEF Counted, Slack
  <1>1. /\ IsFiniteSet(L!ActiveOf(u)) /\ IsFiniteSet(Ahead(u)) /\ MaxLinks \in Nat /\ Cardinality(Hooks) \in Nat
        /\ Cardinality(L!ActiveOf(u)) \in Nat /\ Cardinality(Ahead(u)) \in Nat
    BY LinkFacts
  <1>2. /\ Cardinality(L!ActiveOf(u)') \in Nat /\ Cardinality(L!ActiveOf(u)') <= Cardinality(L!ActiveOf(u))
        /\ Cardinality(Ahead(u)') \in Nat /\ Cardinality(Ahead(u)') <= Cardinality(Ahead(u))
    BY <1>1, Sizes
  <1>3. Cardinality(L!ActiveOf(u)) + Cardinality(Ahead(u)) <= MaxLinks + rejoined[u] + Slack
    BY DEF LinkInv, Counted
  <1>4. rejoined[u] \in Nat /\ Slack \in Int
    BY <1>1 DEF LinkInv, LinkTypes, Slack
  <1> QED BY <1>1, <1>2, <1>3, <1>4

\* No step changes the user of a code or takes a code away.
LEMMA CodesStay ==
    ASSUME LinkInv, [L!Next]_(L!linkVars)
    PROVE  /\ codes' \in Seq(CodeRows) /\ Len(codes') >= Len(codes)
           /\ \A k \in 1..Len(codes) : codes'[k].user = codes[k].user
  <1>0. /\ codes \in Seq(CodeRows) /\ Len(codes) \in Nat /\ DOMAIN codes = 1..Len(codes)
        /\ \A k \in 1..Len(codes) : codes[k] \in CodeRows
    BY DEF LinkInv, LinkTypes
  <1>a. ASSUME NEW k \in 1..Len(codes), codes' = [codes EXCEPT ![k].fresh = FALSE]
        PROVE  /\ codes' \in Seq(CodeRows) /\ Len(codes') >= Len(codes)
               /\ \A i \in 1..Len(codes) : codes'[i].user = codes[i].user
    <2> DEFINE new == [codes[k] EXCEPT !.fresh = FALSE]
    <2>0. codes[k] \in CodeRows
      BY <1>0
    <2>1. new \in CodeRows /\ new.user = codes[k].user
      BY <2>0 DEF CodeRows
    <2>2. codes' = [codes EXCEPT ![k] = new]
      BY <1>a
    <2> HIDE DEF new
    <2> QED BY <1>0, <2>1, <2>2
  <1>1. ASSUME NEW u \in Users, L!CreateLinkCode(u)
        PROVE  /\ codes' \in Seq(CodeRows) /\ Len(codes') >= Len(codes)
               /\ \A i \in 1..Len(codes) : codes'[i].user = codes[i].user
    <2> DEFINE used == [k \in DOMAIN codes |-> IF codes[k].user = u THEN [codes[k] EXCEPT !.fresh = FALSE] ELSE codes[k]]
               new == [user |-> u, fresh |-> TRUE]
    <2>1. codes' = Append(used, new)
      BY <1>1 DEF L!CreateLinkCode
    <2>2. \A k \in 1..Len(codes) : /\ codes[k] \in CodeRows
                                   /\ [codes[k] EXCEPT !.fresh = FALSE] \in CodeRows
                                   /\ [codes[k] EXCEPT !.fresh = FALSE].user = codes[k].user
      BY <1>0 DEF CodeRows
    <2>3. used \in [1..Len(codes) -> CodeRows] /\ \A k \in 1..Len(codes) : used[k].user = codes[k].user
      BY <1>0, <2>2
    <2>4. used \in Seq(CodeRows) /\ Len(used) = Len(codes) /\ new \in CodeRows
      BY <1>0, <2>3 DEF CodeRows
    <2> HIDE DEF used, new
    <2> QED BY <1>0, <2>1, <2>3, <2>4
  <1>2. ASSUME NEW k \in DOMAIN codes, L!CodeExpires(k)
        PROVE  /\ codes' \in Seq(CodeRows) /\ Len(codes') >= Len(codes)
               /\ \A i \in 1..Len(codes) : codes'[i].user = codes[i].user
    BY <1>0, <1>2, <1>a DEF L!CodeExpires
  <1>3. ASSUME NEW h \in Hooks, L!WriteLink(h)
        PROVE  /\ codes' \in Seq(CodeRows) /\ Len(codes') >= Len(codes)
               /\ \A i \in 1..Len(codes) : codes'[i].user = codes[i].user
    <2>1. hook[h].code \in 1..Len(codes)
      BY <1>3 DEF LinkInv, Handles, L!WriteLink
    <2>2. codes' = codes \/ codes' = [codes EXCEPT ![hook[h].code].fresh = FALSE]
      BY <1>3 DEF L!WriteLink
    <2> QED BY <1>0, <1>a, <2>1, <2>2
  <1>4. CASE UNCHANGED codes
    BY <1>0, <1>4
  <1> QED BY <1>0, <1>1, <1>2, <1>3, <1>4
          DEF L!Next, L!linkVars, L!DisconnectUser, L!Begin, L!Dispatch, L!LookUpCode, L!LookUpChat, L!CountLinks,
              L!DisconnectChat

\* Nor the owner of a chat that has one.
LEMMA OwnersStay ==
    ASSUME LinkInv, [L!Next]_(L!linkVars)
    PROVE  links' \in [Chats -> LinkRows] /\ L!ChatKeepsAccount
  <1>0. links \in [Chats -> LinkRows] /\ codes \in Seq(CodeRows)
    BY DEF LinkInv, LinkTypes
  <1>1. ASSUME NEW h \in Hooks, L!WriteLink(h) PROVE links' \in [Chats -> LinkRows] /\ L!ChatKeepsAccount
    <2> DEFINE c == hook[h].chat
               u == UserOf(h)
               new == [owner |-> IF hook[h].row = L!Nobody THEN u ELSE links[c].owner, active |-> TRUE]
    <2>1. hook[h].pc = "write" /\ c \in Chats /\ hook[h].code \in 1..Len(codes)
      BY <1>1 DEF LinkInv, Handles, L!WriteLink
    <2>2. u \in Users
      <3>1. codes[hook[h].code] \in CodeRows
        BY <1>0, <2>1
      <3> QED BY <3>1 DEF UserOf, CodeRows
    <2>3. CASE UNCHANGED links
      BY <1>0, <2>3 DEF L!ChatKeepsAccount
    <2>4. CASE ~(hook[h].row = L!Nobody /\ links[c].owner # L!Nobody) /\ links' = [links EXCEPT ![c] = new]
      <3>1. new \in LinkRows /\ (links[c].owner # L!Nobody => new.owner = links[c].owner)
        BY <1>0, <2>1, <2>2, <2>4 DEF LinkRows
      <3> HIDE DEF new
      <3>2. links' \in [Chats -> LinkRows] /\ links'[c] = new /\ \A d \in Chats \ {c} : links'[d] = links[d]
        BY <1>0, <2>1, <2>4, <3>1
      <3> QED BY <3>1, <3>2 DEF L!ChatKeepsAccount
    <2> QED BY <1>0, <1>1, <2>1, <2>3, <2>4 DEF L!WriteLink, UserOf
  <1>2. ASSUME NEW h \in Hooks, L!DisconnectChat(h) PROVE links' \in [Chats -> LinkRows] /\ L!ChatKeepsAccount
    <2>1. links' = [links EXCEPT ![hook[h].chat].active = FALSE]
      BY <1>2 DEF L!DisconnectChat
    <2> QED BY <1>0, <2>1 DEF LinkRows, L!ChatKeepsAccount
  <1>3. ASSUME NEW u \in Users, L!DisconnectUser(u) PROVE links' \in [Chats -> LinkRows] /\ L!ChatKeepsAccount
    <2>1. PICK cs : links' = [c \in Chats |-> IF c \in cs THEN [links[c] EXCEPT !.active = FALSE] ELSE links[c]]
      BY <1>3 DEF L!DisconnectUser
    <2> QED BY <1>0, <2>1 DEF LinkRows, L!ChatKeepsAccount
  <1>4. CASE UNCHANGED links
    BY <1>0, <1>4 DEF L!ChatKeepsAccount
  <1> QED BY <1>1, <1>2, <1>3, <1>4
          DEF L!Next, L!linkVars, L!CreateLinkCode, L!CodeExpires, L!Begin, L!Dispatch, L!LookUpCode, L!LookUpChat,
              L!CountLinks

\* A handler that a step leaves alone still holds its code, chat and owner.
LEMMA HandlerStays ==
    ASSUME LinkInv, [L!Next]_(L!linkVars), NEW g \in Hooks, hook'[g] = hook[g]
    PROVE  Handles(g)' /\ (hook[g].pc # "free" /\ hook[g].code \in 1..Len(codes) => UserOf(g)' = UserOf(g))
  <1>a. /\ Len(codes') >= Len(codes) /\ \A k \in 1..Len(codes) : codes'[k].user = codes[k].user
        /\ codes' \in Seq(CodeRows) /\ codes \in Seq(CodeRows)
    BY CodesStay DEF LinkInv, LinkTypes
  <1>b. Len(codes) \in Nat /\ Len(codes') \in Nat
    BY <1>a
  <1>c. hook[g].code \in Nat
    BY DEF LinkInv, LinkTypes, Handlers
  <1>1. /\ Len(codes') >= Len(codes) /\ \A k \in 1..Len(codes) : codes'[k].user = codes[k].user
        /\ Len(codes) \in Nat /\ Len(codes') \in Nat /\ hook[g].code \in Nat
    BY <1>a, <1>b, <1>c
  <1>2. L!ChatKeepsAccount /\ Handles(g)
    BY OwnersStay DEF LinkInv
  <1>3. hook[g].code \in 1..Len(codes) => UserOf(g)' = UserOf(g)
    BY <1>1 DEF UserOf
  <1>4. Handles(g)'
    BY <1>1, <1>2, <1>3 DEF Handles, L!ChatKeepsAccount
  <1> QED BY <1>3, <1>4

\* When at most one handler changes, nobody else gets ahead.
LEMMA AheadStays ==
    ASSUME LinkInv, [L!Next]_(L!linkVars), NEW h, \A g \in Hooks \ {h} : hook'[g] = hook[g]
    PROVE  /\ \A g \in Hooks \ {h} : Handles(g)'
           /\ \A u : /\ Ahead(u)' \subseteq Ahead(u) \union {h}
                     /\ h \notin Ahead(u)' => Ahead(u)' \subseteq Ahead(u) \ {h}
  <1>1. ASSUME NEW g \in Hooks \ {h} PROVE Handles(g)' /\ \A u : g \in Ahead(u)' => g \in Ahead(u)
    <2>1. /\ Handles(g)' /\ hook'[g] = hook[g] /\ Handles(g)
          /\ hook[g].pc # "free" /\ hook[g].code \in 1..Len(codes) => UserOf(g)' = UserOf(g)
      BY HandlerStays DEF LinkInv
    <2> QED BY <2>1 DEF Ahead, Handles
  <1>2. \A u : Ahead(u)' \subseteq Hooks
    BY DEF Ahead
  <1> QED BY <1>1, <1>2

\* A handler that goes on or ends leaves the others running alone.
LEMMA SerialStays ==
    ASSUME LinkInv, NEW h \in Hooks, hook[h].pc # "free", hook' = [hook EXCEPT ![h] = hook'[h]], UNCHANGED overlapped
    PROVE  Serial'
  BY DEF LinkInv, LinkTypes, Serial, L!Busy

\* A message reaches its handler.
LEMMA BeginKeeps ==
    ASSUME LinkInv, [L!Next]_(L!linkVars), NEW h \in Hooks, NEW t \in L!Texts, L!Begin(h, t)
    PROVE  LinkInv'
  <1> DEFINE new == [L!Free EXCEPT !.pc = IF t.code = 0 THEN "off" ELSE "code", !.chat = t.chat, !.code = t.code]
  <1>0. hook \in [Hooks -> Handlers] /\ codes \in Seq(CodeRows) /\ Len(codes) \in Nat /\ overlapped \in BOOLEAN
    BY DEF LinkInv, LinkTypes
  <1>1. /\ hook[h].pc = "free" /\ t.code <= Len(codes) /\ hook' = [hook EXCEPT ![h] = new]
        /\ overlapped' = (overlapped \/ L!Busy # {}) /\ UNCHANGED <<codes, links, rejoined>>
    BY DEF L!Begin
  <1>2. /\ new \in Handlers /\ new.pc = (IF t.code = 0 THEN "off" ELSE "code") /\ new.chat \in Chats
        /\ new.code \in Nat /\ new.code = t.code
    <2>1. t.chat \in Chats /\ t.code \in Nat
      BY DEF L!Texts, LinkInv, L!ChatLinksAssumption
    <2> QED BY <2>1 DEF L!Free, Handlers
  <1> HIDE DEF new
  <1>3. hook' \in [Hooks -> Handlers] /\ hook'[h] = new /\ \A g \in Hooks \ {h} : hook'[g] = hook[g]
    BY <1>0, <1>1, <1>2
  <1>4. Handles(h)'
    <2>1. new.code <= Len(codes) /\ (new.pc = "code" => new.code \in 1..Len(codes)) /\ new.pc \notin {"count", "write"}
      BY <1>0, <1>1, <1>2
    <2> QED BY <1>1, <1>2, <1>3, <2>1 DEF Handles
  <1>5. Serial'
    <2>1. ASSUME ~overlapped' PROVE L!Busy' \subseteq {h}
      BY <1>1, <1>3, <2>1 DEF L!Busy
    <2> QED BY <2>1 DEF Serial
  <1>6. Counted'
    <2> SUFFICES ASSUME NEW u \in Users
                 PROVE  Cardinality(L!ActiveOf(u)') + Cardinality(Ahead(u)') <= MaxLinks + rejoined'[u] + Slack'
      BY DEF Counted
    <2>1. h \notin Ahead(u)' /\ L!ActiveOf(u)' = L!ActiveOf(u) /\ rejoined'[u] = rejoined[u]
      BY <1>1, <1>2, <1>3 DEF Ahead, L!ActiveOf
    <2>2. Ahead(u)' \subseteq Ahead(u)
      BY <1>3, <2>1, AheadStays
    <2>3. /\ Cardinality(Ahead(u)') \in Nat /\ Cardinality(Ahead(u)') <= Cardinality(Ahead(u))
          /\ Cardinality(Ahead(u)) \in Nat /\ Cardinality(L!ActiveOf(u)) \in Nat /\ MaxLinks \in Nat
          /\ Cardinality(Hooks) \in Nat /\ IsFiniteSet(Hooks)
      BY <2>2, LinkFacts, Sizes
    <2>4. Cardinality(Hooks) # 0
      BY <2>3, FS_EmptySet
    <2>5. Slack \in Int /\ Slack' \in Int /\ Slack <= Slack'
      BY <1>0, <1>1, <2>3, <2>4 DEF Slack
    <2>6. /\ Cardinality(L!ActiveOf(u)) + Cardinality(Ahead(u)) <= MaxLinks + rejoined[u] + Slack
          /\ rejoined[u] \in Nat
      BY DEF LinkInv, Counted, LinkTypes
    <2> QED BY <2>1, <2>3, <2>5, <2>6
  <1>7. LinkTypes'
    BY <1>1, <1>3 DEF LinkInv, LinkTypes
  <1> QED BY <1>3, <1>4, <1>5, <1>6, <1>7, AheadStays DEF LinkInv

\* A handler reads the code or the chat, or disconnects a chat.
LEMMA ReadsKeep ==
    ASSUME LinkInv, [L!Next]_(L!linkVars), NEW h \in Hooks,
           L!LookUpCode(h) \/ L!LookUpChat(h) \/ L!DisconnectChat(h)
    PROVE  LinkInv'
  <1>0. /\ hook \in [Hooks -> Handlers] /\ links \in [Chats -> LinkRows] /\ Len(codes) \in Nat /\ Handles(h)
        /\ hook[h] \in Handlers
    BY DEF LinkInv, LinkTypes
  <1>1. UNCHANGED <<codes, overlapped, rejoined>> /\ hook[h].pc \in {"code", "chat", "off"}
    BY DEF L!LookUpCode, L!LookUpChat, L!DisconnectChat
  <1>2. links' = links \/ links' = [links EXCEPT ![hook[h].chat].active = FALSE]
    BY DEF L!LookUpCode, L!LookUpChat, L!DisconnectChat
  <1>a. hook[h].chat \in Chats
    BY <1>0, <1>1 DEF Handles
  <1>3. /\ hook'[h] \in Handlers /\ hook' = [hook EXCEPT ![h] = hook'[h]]
        /\ hook'[h].pc # "write" /\ Handles(h)'
    <2>1. CASE hook' = [hook EXCEPT ![h] = L!Free]
      BY <1>0, <1>1, <2>1, LinkFacts DEF Handles, L!Free
    <2>2. CASE L!LookUpCode(h) /\ hook' = [hook EXCEPT ![h].pc = "chat"]
      <3> DEFINE new == [hook[h] EXCEPT !.pc = "chat"]
      <3>1. hook' = [hook EXCEPT ![h] = new] /\ hook[h].pc = "code" /\ links' = links
        BY <2>2 DEF L!LookUpCode
      <3>2. /\ new \in Handlers /\ new.pc = "chat" /\ new.chat = hook[h].chat /\ new.code = hook[h].code
        BY <1>0 DEF Handlers
      <3> HIDE DEF new
      <3>3. hook'[h] = new
        BY <1>0, <3>1
      <3> QED BY <1>0, <1>1, <3>1, <3>2, <3>3 DEF Handles
    <2>3. CASE L!LookUpChat(h) /\ hook' # [hook EXCEPT ![h] = L!Free]
      <3> DEFINE owner == links[hook[h].chat].owner
                 new == [hook[h] EXCEPT !.pc = "count", !.row = owner]
      <3>1. /\ hook' = [hook EXCEPT ![h] = new] /\ hook[h].pc = "chat" /\ links' = links
            /\ owner \in {L!Nobody, UserOf(h)}
        BY <2>3 DEF L!LookUpChat, L!Done, UserOf
      <3>a. owner \in Users \union {L!Nobody}
        BY <1>0, <1>a DEF LinkRows
      <3>2. /\ new \in Handlers /\ new.pc = "count" /\ new.chat = hook[h].chat /\ new.code = hook[h].code
            /\ new.row = owner
        BY <1>0, <3>a DEF Handlers
      <3> HIDE DEF new
      <3>3. hook'[h] = new /\ UserOf(h)' = UserOf(h)
        BY <1>0, <1>1, <3>1, <3>2 DEF UserOf
      <3> QED BY <1>0, <1>1, <1>a, <3>1, <3>2, <3>3 DEF Handles
    <2> QED BY <2>1, <2>2, <2>3 DEF L!LookUpCode, L!LookUpChat, L!DisconnectChat, L!Goto, L!Done
  <1>4. hook' \in [Hooks -> Handlers] /\ \A g \in Hooks \ {h} : hook'[g] = hook[g]
    BY <1>0, <1>3
  <1>5. Counted'
    <2>1. ASSUME NEW u \in Users PROVE L!ActiveOf(u)' \subseteq L!ActiveOf(u) /\ Ahead(u)' \subseteq Ahead(u)
      <3>1. L!ActiveOf(u)' \subseteq L!ActiveOf(u)
        BY <1>0, <1>2 DEF L!ActiveOf, LinkRows
      <3>2. h \notin Ahead(u)'
        BY <1>3 DEF Ahead
      <3> QED BY <1>4, <3>1, <3>2, AheadStays
    <2> QED BY <1>1, <2>1, CountsStay
  <1>6. Serial'
    BY <1>1, <1>3, SerialStays
  <1>7. LinkTypes'
    BY <1>1, <1>4, OwnersStay DEF LinkInv, LinkTypes
  <1> QED BY <1>3, <1>4, <1>5, <1>6, <1>7, AheadStays DEF LinkInv

\* A handler counts the links of the user: it goes on below the cap only, and
\* when no other ever ran at the same time, nobody else is about to add one.
LEMMA CountKeeps ==
    ASSUME LinkInv, [L!Next]_(L!linkVars), NEW h \in Hooks, L!CountLinks(h)
    PROVE  LinkInv'
  <1>0. /\ hook \in [Hooks -> Handlers] /\ hook[h] \in Handlers /\ Len(codes) \in Nat /\ Handles(h) /\ Serial
        /\ overlapped \in BOOLEAN
    BY DEF LinkInv, LinkTypes
  <1>1. UNCHANGED <<codes, links, overlapped, rejoined>> /\ hook[h].pc = "count"
    BY DEF L!CountLinks
  <1>2. hook[h].chat \in Chats /\ hook[h].code \in 1..Len(codes)
    BY <1>0, <1>1 DEF Handles
  <1>3. \/ hook' = [hook EXCEPT ![h] = L!Free]
        \/ /\ hook' = [hook EXCEPT ![h].pc = "write"]
           /\ hook[h].row = L!Nobody => Cardinality(L!ActiveOf(UserOf(h))) < MaxLinks
    <2>1. Cardinality(L!ActiveOf(UserOf(h))) \in Nat /\ MaxLinks \in Nat /\ L!Cardinality(L!ActiveOf(UserOf(h))) = Cardinality(L!ActiveOf(UserOf(h)))
      BY LinkFacts, LinkCounts
    <2> QED BY <2>1 DEF L!CountLinks, L!Goto, L!Done, UserOf
  <1>4. /\ hook'[h] \in Handlers /\ hook' = [hook EXCEPT ![h] = hook'[h]] /\ Handles(h)'
        /\ hook'[h].pc = "write" => hook'[h].row = hook[h].row /\ UserOf(h)' = UserOf(h)
        /\ hook'[h].pc = "write" /\ hook[h].row = L!Nobody => Cardinality(L!ActiveOf(UserOf(h))) < MaxLinks
    <2>1. CASE hook' = [hook EXCEPT ![h] = L!Free]
      BY <1>0, <1>1, <2>1, LinkFacts DEF Handles, L!Free
    <2>2. CASE /\ hook' = [hook EXCEPT ![h].pc = "write"]
               /\ hook[h].row = L!Nobody => Cardinality(L!ActiveOf(UserOf(h))) < MaxLinks
      <3> DEFINE new == [hook[h] EXCEPT !.pc = "write"]
      <3>1. hook' = [hook EXCEPT ![h] = new]
        BY <2>2
      <3>2. /\ new \in Handlers /\ new.pc = "write" /\ new.chat = hook[h].chat /\ new.code = hook[h].code
            /\ new.row = hook[h].row
        BY <1>0 DEF Handlers
      <3> HIDE DEF new
      <3>3. hook'[h] = new /\ UserOf(h)' = UserOf(h)
        BY <1>0, <1>1, <3>1, <3>2 DEF UserOf
      <3>4. Handles(h)'
        BY <1>0, <1>1, <1>2, <3>2, <3>3 DEF Handles
      <3> QED BY <2>2, <3>1, <3>2, <3>3, <3>4
    <2> QED BY <1>3, <2>1, <2>2
  <1>5. hook' \in [Hooks -> Handlers] /\ \A g \in Hooks \ {h} : hook'[g] = hook[g]
    BY <1>0, <1>4
  <1>6. Counted'
    <2> SUFFICES ASSUME NEW u \in Users
                 PROVE  Cardinality(L!ActiveOf(u)') + Cardinality(Ahead(u)') <= MaxLinks + rejoined'[u] + Slack'
      BY DEF Counted
    <2>1. L!ActiveOf(u)' = L!ActiveOf(u) /\ rejoined'[u] = rejoined[u] /\ Slack' = Slack
      BY <1>1 DEF L!ActiveOf, Slack
    <2>2. /\ Cardinality(L!ActiveOf(u)) + Cardinality(Ahead(u)) <= MaxLinks + rejoined[u] + Slack
          /\ rejoined[u] \in Nat
      BY DEF LinkInv, Counted, LinkTypes
    <2>3. /\ Cardinality(Ahead(u)) \in Nat /\ Cardinality(L!ActiveOf(u)) \in Nat /\ MaxLinks \in Nat
          /\ Cardinality(Hooks) \in Nat /\ IsFiniteSet(Hooks) /\ IsFiniteSet(Ahead(u))
      BY LinkFacts
    <2>4. CASE h \notin Ahead(u)'
      <3>1. Ahead(u)' \subseteq Ahead(u)
        BY <1>5, <2>4, AheadStays
      <3>2. Cardinality(Ahead(u)') \in Nat /\ Cardinality(Ahead(u)') <= Cardinality(Ahead(u))
        BY <2>3, <3>1, Sizes
      <3> QED BY <1>0, <2>1, <2>2, <2>3, <3>2 DEF Slack
    <2>5. CASE h \in Ahead(u)'
      <3>1. UserOf(h) = u /\ hook'[h].pc = "write" /\ hook[h].row = L!Nobody
        BY <1>4, <2>5 DEF Ahead
      <3>2. Cardinality(L!ActiveOf(u)) < MaxLinks
        BY <1>4, <3>1
      <3>3. CASE overlapped
        <4>1. Ahead(u)' \subseteq Hooks
          BY DEF Ahead
        <4>2. Cardinality(Ahead(u)') \in Nat /\ Cardinality(Ahead(u)') <= Cardinality(Hooks)
          BY <2>3, <4>1, Sizes
        <4> QED BY <2>1, <2>2, <2>3, <3>2, <3>3, <4>2 DEF Slack
      <3>4. CASE ~overlapped
        <4>1. L!Busy \subseteq {h}
          BY <1>0, <1>1, <3>4 DEF Serial, L!Busy
        <4>2. Ahead(u)' \subseteq {h}
          BY <1>1, <1>5, <4>1, AheadStays DEF Ahead, L!Busy
        <4>3. IsFiniteSet({h}) /\ Cardinality({h}) = 1
          BY FS_Singleton
        <4>4. Cardinality(Ahead(u)') \in Nat /\ Cardinality(Ahead(u)') <= 1
          BY <4>2, <4>3, Sizes
        <4> QED BY <2>1, <2>2, <2>3, <3>2, <3>4, <4>4 DEF Slack
      <3> QED BY <3>3, <3>4
    <2> QED BY <2>4, <2>5
  <1>7. Serial'
    BY <1>1, <1>4, SerialStays
  <1>8. LinkTypes'
    BY <1>1, <1>5 DEF LinkInv, LinkTypes
  <1> QED BY <1>4, <1>5, <1>6, <1>7, <1>8, AheadStays DEF LinkInv

\* A handler writes the link: a new row takes the place of the handler that
\* was about to add it, and a row that is switched on again is one more.
LEMMA WriteKeeps ==
    ASSUME LinkInv, [L!Next]_(L!linkVars), NEW h \in Hooks, L!WriteLink(h)
    PROVE  LinkInv'
  <1> DEFINE v == UserOf(h)
             c == hook[h].chat
             more == IF hook[h].row = v /\ ~links[c].active THEN 1 ELSE 0
  <1>0. /\ hook \in [Hooks -> Handlers] /\ hook[h] \in Handlers /\ Len(codes) \in Nat /\ Handles(h)
        /\ overlapped \in BOOLEAN /\ rejoined \in [Users -> Nat] /\ links \in [Chats -> LinkRows]
        /\ codes \in Seq(CodeRows)
    BY DEF LinkInv, LinkTypes
  <1>1. hook' = [hook EXCEPT ![h] = L!Free] /\ overlapped' = overlapped /\ hook[h].pc = "write"
    BY DEF L!WriteLink, L!Done
  <1>2. c \in Chats /\ hook[h].code \in 1..Len(codes) /\ v \in Users
    <2>1. c \in Chats /\ hook[h].code \in 1..Len(codes)
      BY <1>0, <1>1 DEF Handles
    <2>2. codes[hook[h].code] \in CodeRows
      BY <1>0, <2>1
    <2> QED BY <2>1, <2>2 DEF UserOf, CodeRows
  <1>3. \/ UNCHANGED <<links, codes, rejoined>>
        \/ /\ hook[h].row # L!Nobody \/ links[c].owner = L!Nobody
           /\ links' = [links EXCEPT ![c] = [owner |-> IF hook[h].row = L!Nobody THEN v ELSE links[c].owner,
                                             active |-> TRUE]]
           /\ rejoined' = [rejoined EXCEPT ![v] = rejoined[v] + more]
    BY <1>0, <1>2 DEF L!WriteLink, UserOf
  <1>4. hook' \in [Hooks -> Handlers] /\ hook'[h] = L!Free /\ \A g \in Hooks \ {h} : hook'[g] = hook[g]
    BY <1>0, <1>1, LinkFacts
  <1>5. Handles(h)'
    <2>1. Len(codes') \in Nat
      BY CodesStay
    <2> QED BY <1>4, <2>1 DEF Handles, L!Free
  <1>6. ASSUME NEW u \in Users PROVE Ahead(u)' \subseteq Ahead(u) \ {h}
    <2>1. h \notin Ahead(u)'
      BY <1>4 DEF Ahead, L!Free
    <2> QED BY <1>4, <2>1, AheadStays
  <1>7. rejoined' \in [Users -> Nat] /\ more \in {0, 1} /\ \A u \in Users : rejoined'[u] >= rejoined[u]
    BY <1>0, <1>2, <1>3, SMTT(30)
  <1>8. ASSUME NEW u \in Users
        PROVE  \/ L!ActiveOf(u)' \subseteq L!ActiveOf(u)
               \/ /\ L!ActiveOf(u)' \subseteq L!ActiveOf(u) \union {c}
                  /\ h \in Ahead(u) \/ rejoined'[u] = rejoined[u] + 1
    <2>1. CASE UNCHANGED links
      BY <2>1 DEF L!ActiveOf
    <2>2. CASE /\ hook[h].row # L!Nobody \/ links[c].owner = L!Nobody
               /\ links' = [links EXCEPT ![c] = [owner |-> IF hook[h].row = L!Nobody THEN v ELSE links[c].owner,
                                                 active |-> TRUE]]
               /\ rejoined' = [rejoined EXCEPT ![v] = rejoined[v] + more]
      <3>1. L!ActiveOf(u)' \subseteq L!ActiveOf(u) \union {c}
        BY <1>0, <1>2, <2>2 DEF L!ActiveOf
      <3>2. links'[c].owner = v
        BY <1>0, <1>1, <1>2, <2>2 DEF Handles
      <3>3. CASE u # v
        BY <1>0, <1>2, <3>1, <3>2, <3>3 DEF L!ActiveOf
      <3>4. CASE u = v /\ hook[h].row = L!Nobody
        BY <1>1, <3>1, <3>4 DEF Ahead
      <3>5. CASE u = v /\ hook[h].row # L!Nobody /\ ~links[c].active
        BY <1>0, <1>1, <1>2, <2>2, <3>1, <3>5 DEF Handles
      <3>6. CASE u = v /\ hook[h].row # L!Nobody /\ links[c].active
        <4>1. c \in L!ActiveOf(u)
          BY <1>0, <1>1, <1>2, <3>6 DEF Handles, L!ActiveOf
        <4> QED BY <3>1, <4>1
      <3> QED BY <3>3, <3>4, <3>5, <3>6
    <2> QED BY <1>3, <2>1, <2>2
  <1>9. Counted'
    <2> SUFFICES ASSUME NEW u \in Users
                 PROVE  Cardinality(L!ActiveOf(u)') + Cardinality(Ahead(u)') <= MaxLinks + rejoined'[u] + Slack'
      BY DEF Counted
    <2>1. Cardinality(L!ActiveOf(u)) + Cardinality(Ahead(u)) <= MaxLinks + rejoined[u] + Slack
      BY DEF LinkInv, Counted
    <2>2. /\ Cardinality(Ahead(u)) \in Nat /\ Cardinality(L!ActiveOf(u)) \in Nat /\ MaxLinks \in Nat
          /\ Cardinality(Hooks) \in Nat /\ IsFiniteSet(L!ActiveOf(u)) /\ IsFiniteSet(Ahead(u))
      BY LinkFacts
    <2>3. rejoined[u] \in Nat /\ rejoined'[u] \in Nat /\ rejoined'[u] >= rejoined[u] /\ Slack' = Slack /\ Slack \in Int
      BY <1>0, <1>1, <1>7, <2>2 DEF Slack
    <2>4. Cardinality(Ahead(u)') \in Nat /\ Cardinality(Ahead(u)') <= Cardinality(Ahead(u))
      BY <1>6, <2>2, Sizes
    <2>5. CASE L!ActiveOf(u)' \subseteq L!ActiveOf(u)
      <3>1. Cardinality(L!ActiveOf(u)') \in Nat /\ Cardinality(L!ActiveOf(u)') <= Cardinality(L!ActiveOf(u))
        BY <2>2, <2>5, Sizes
      <3> QED BY <2>1, <2>2, <2>3, <2>4, <3>1
    <2>6. CASE L!ActiveOf(u)' \subseteq L!ActiveOf(u) \union {c} /\ (h \in Ahead(u) \/ rejoined'[u] = rejoined[u] + 1)
      <3>1. Cardinality(L!ActiveOf(u)') \in Nat /\ Cardinality(L!ActiveOf(u)') <= Cardinality(L!ActiveOf(u)) + 1
        BY <2>2, <2>6, Sizes
      <3>2. h \in Ahead(u) => Cardinality(Ahead(u)') <= Cardinality(Ahead(u)) - 1
        BY <1>6, <2>2, Sizes
      <3> QED BY <2>1, <2>2, <2>3, <2>4, <2>6, <3>1, <3>2
    <2> QED BY <1>8, <2>5, <2>6
  <1>10. Serial'
    BY <1>1, <1>4, SerialStays
  <1>11. LinkTypes'
    BY <1>1, <1>4, <1>7, CodesStay, OwnersStay DEF LinkInv, LinkTypes
  <1> QED BY <1>4, <1>5, <1>9, <1>10, <1>11, AheadStays DEF LinkInv

\* Every step keeps the invariant.
LEMMA LinkInvInductive == LinkInv /\ [L!Next]_(L!linkVars) => LinkInv'
  <1> SUFFICES ASSUME LinkInv, [L!Next]_(L!linkVars) PROVE LinkInv'
    OBVIOUS
  <1>1. ASSUME UNCHANGED <<hook, overlapped, rejoined>>, \A u \in Users : L!ActiveOf(u)' \subseteq L!ActiveOf(u)
        PROVE  LinkInv'
    <2>1. \A g \in Hooks : Handles(g)' /\ \A u : g \in Ahead(u)' => g \in Ahead(u)
      BY <1>1, HandlerStays DEF LinkInv, Handles, Ahead
    <2>2. \A u : Ahead(u)' \subseteq Ahead(u)
      BY <2>1 DEF Ahead
    <2>3. Counted'
      BY <1>1, <2>2, CountsStay
    <2>4. Serial' /\ LinkTypes'
      BY <1>1, CodesStay, OwnersStay DEF LinkInv, LinkTypes, Serial, L!Busy
    <2> QED BY <2>1, <2>3, <2>4 DEF LinkInv
  <1>2. ASSUME NEW u \in Users, L!CreateLinkCode(u) PROVE LinkInv'
    BY <1>1, <1>2 DEF L!CreateLinkCode, L!ActiveOf
  <1>3. ASSUME NEW u \in Users, L!DisconnectUser(u) PROVE LinkInv'
    <2>1. PICK cs : links' = [c \in Chats |-> IF c \in cs THEN [links[c] EXCEPT !.active = FALSE] ELSE links[c]]
      BY <1>3 DEF L!DisconnectUser
    <2>2. \A w \in Users : L!ActiveOf(w)' \subseteq L!ActiveOf(w)
      BY <2>1 DEF LinkInv, LinkTypes, LinkRows, L!ActiveOf
    <2> QED BY <1>1, <1>3, <2>2 DEF L!DisconnectUser
  <1>4. ASSUME NEW k \in DOMAIN codes, L!CodeExpires(k) PROVE LinkInv'
    BY <1>1, <1>4 DEF L!CodeExpires, L!ActiveOf
  <1>5. ASSUME NEW h \in Hooks, NEW t \in L!Texts, L!Begin(h, t) \/ L!Dispatch(h, t) PROVE LinkInv'
    BY <1>5, BeginKeeps DEF L!Dispatch
  <1>6. CASE UNCHANGED L!linkVars
    BY <1>1, <1>6 DEF L!linkVars, L!ActiveOf
  <1> QED BY <1>2, <1>3, <1>4, <1>5, <1>6, ReadsKeep, CountKeeps, WriteKeeps DEF L!Next

\* The first state satisfies it.
LEMMA InitLinkInv == L!ChatLinksAssumption /\ L!Init => LinkInv
  <1> SUFFICES ASSUME L!ChatLinksAssumption, L!Init PROVE LinkInv
    OBVIOUS
  <1>1. LinkTypes
    <2>1. codes \in Seq(CodeRows)
      BY DEF L!Init
    <2>2. links \in [Chats -> LinkRows] /\ hook \in [Hooks -> Handlers]
      BY DEF L!Init, L!NoLink, LinkRows, L!Free, Handlers
    <2> QED BY <2>1, <2>2 DEF L!Init, LinkTypes
  <1>2. (\A h \in Hooks : Handles(h)) /\ Serial
    BY DEF L!Init, L!Free, Handles, Serial, L!Busy
  <1>3. \A u \in Users : L!ActiveOf(u) = {} /\ Ahead(u) = {}
    BY DEF L!Init, L!Free, L!NoLink, L!ActiveOf, Ahead
  <1>4. Cardinality({}) = 0 /\ MaxLinks \in Nat
    BY FS_EmptySet DEF L!ChatLinksAssumption
  <1>5. Counted
    <2>1. Slack = 0 /\ \A u \in Users : rejoined[u] = 0
      BY DEF L!Init, Slack
    <2> QED BY <1>3, <1>4, <2>1 DEF Counted
  <1> QED BY <1>1, <1>2, <1>5 DEF LinkInv

\* telegramService.ts:287-335: for any users, chats, codes and number of
\* handlers at once, no chat ever goes from one account to another.
THEOREM ChatsKeepAccount == L!ChatLinksAssumption /\ L!Spec => [][L!ChatKeepsAccount]_(L!linkVars)
  <1>1. LinkInv /\ [L!Next]_(L!linkVars) => L!ChatKeepsAccount
    BY OwnersStay
  <1> QED BY <1>1, InitLinkInv, LinkInvInductive, PTL DEF L!Spec

\* What the invariant says of the cap.
LEMMA LinkInvBounds == LinkInv => L!LinksBounded
  <1> SUFFICES ASSUME LinkInv, NEW u \in Users
               PROVE  L!Cardinality(L!ActiveOf(u)) <=
                         MaxLinks + rejoined[u] + (IF overlapped THEN L!Cardinality(Hooks) - 1 ELSE 0)
    BY DEF L!LinksBounded
  <1>1. /\ Cardinality(L!ActiveOf(u)) \in Nat /\ Cardinality(Ahead(u)) \in Nat /\ MaxLinks \in Nat
        /\ Cardinality(Hooks) \in Nat /\ rejoined[u] \in Nat
    BY LinkFacts DEF LinkInv, LinkTypes
  <1>2. L!Cardinality(L!ActiveOf(u)) = Cardinality(L!ActiveOf(u)) /\ L!Cardinality(Hooks) = Cardinality(Hooks)
    BY LinkCounts
  <1>3. Cardinality(L!ActiveOf(u)) + Cardinality(Ahead(u)) <= MaxLinks + rejoined[u] + Slack
    BY DEF LinkInv, Counted
  <1> QED BY <1>1, <1>2, <1>3 DEF Slack

\* telegramService.ts:301-307: for any cap and any number of handlers at once,
\* a user has no more active links than the cap, the rows switched on again
\* and, if handlers ever overlapped, one for each handler but one.
THEOREM LinksStayBounded == L!ChatLinksAssumption /\ L!Spec => []L!LinksBounded
  BY LinkInvBounds, InitLinkInv, LinkInvInductive, PTL DEF L!Spec

-----------------------------------------------------------------------------
(* DelegateBudget *)

\* What a request in flight knows while requests come one at a time and none
\* ends half-way: it is alone, what it asked for still fits the budget, and
\* the rows count all that was spent, but for the swap whose row is due.
Alone == \A b, c \in D!Busy : b = c
Fits == counted <= BudgetUsdt /\ \A b \in D!Busy : buyer[b].amt <= BudgetUsdt - counted
RowsCount ==
    /\ (\A b \in Buyers : buyer[b].pc # "row") => spent = counted
    /\ \A b \in Buyers : buyer[b].pc = "row" => spent = counted + buyer[b].amt

\* The inductive invariant.
BudgetInv ==
    /\ D!BudgetAssumption /\ D!TypeOK
    /\ orderly => Alone /\ Fits /\ RowsCount
    /\ spent + allowance <= grants * BudgetUsdt

Purchases == [pc : {"idle", "allowance", "approve", "swap", "row"}, amt : 0..MaxPerTx,
             approved : BOOLEAN]

\* A request that is over is well typed.
LEMMA WaitingType == ASSUME D!BudgetAssumption PROVE D!Waiting \in Purchases
  <1>1. 0 \in 0..MaxPerTx
    BY DEF D!BudgetAssumption
  <1> QED BY <1>1 DEF D!Waiting, Purchases

\* What a request that steps leaves alone.
LEMMA OtherBuyers ==
    ASSUME D!TypeOK, NEW b \in Buyers, D!BuyerStep(b)
    PROVE  \A c \in Buyers \ {b} : buyer'[c] = buyer[c]
  BY DEF D!TypeOK, D!BuyerStep, D!CheckAllowance, D!Approve, D!SwapUsdt, D!RecordSpend

\* A request that is allowed in keeps the invariant: with nobody else in
\* flight the rows count everything, so what fits them fits the budget.
LEMMA CheckKeeps ==
    ASSUME BudgetInv, NEW b \in Buyers, NEW amt \in 1..MaxPerTx, D!CheckBudget(b, amt)
    PROVE  BudgetInv'
  <1>0. /\ BudgetUsdt \in Nat /\ MaxPerTx \in 1..BudgetUsdt /\ MaxBuys \in Nat /\ D!TypeOK
        /\ UNCHANGED <<counted, remembered, allowance, spent, grants>>
        /\ buyer' = [buyer EXCEPT ![b] = [pc |-> "allowance", amt |-> amt, approved |-> FALSE]]
        /\ buyer[b].pc = "idle"
    BY DEF BudgetInv, D!BudgetAssumption, D!CheckBudget
  <1>1. D!TypeOK'
    BY <1>0 DEF D!TypeOK, D!CheckBudget
  <1>2. ASSUME orderly' PROVE (Alone /\ Fits /\ RowsCount)'
    <2>1. orderly /\ D!Busy = {} /\ amt <= BudgetUsdt - counted
      BY <1>2 DEF D!CheckBudget, D!WithinBudget
    <2>2. \A c \in Buyers \ {b} : buyer'[c].pc = "idle"
      BY <1>0, <2>1 DEF D!Busy, D!TypeOK
    <2>3. buyer'[b].pc = "allowance" /\ buyer'[b].amt = amt
      BY <1>0 DEF D!TypeOK
    <2>4. spent = counted /\ counted <= BudgetUsdt
      BY <2>1 DEF BudgetInv, RowsCount, Fits, D!Busy
    <2>5. D!Busy' = {b}
      BY <2>2, <2>3 DEF D!Busy
    <2> QED BY <1>0, <2>1, <2>2, <2>3, <2>4, <2>5 DEF Alone, Fits, RowsCount
  <1> QED BY <1>0, <1>1, <1>2 DEF BudgetInv, D!BudgetAssumption

\* A step of a request that keeps its amount, or ends it, leaves the rest of
\* what is in flight alone.
LEMMA StillAlone ==
    ASSUME D!TypeOK, Alone, NEW b \in Buyers, D!BuyerStep(b)
    PROVE  /\ Alone' /\ D!Busy' \subseteq D!Busy
           /\ \A c \in Buyers \ {b} : buyer[c].pc = "idle" /\ buyer'[c] = buyer[c]
           /\ buyer'[b].pc # "idle" => buyer'[b].amt = buyer[b].amt
  <1>1. b \in D!Busy
    BY DEF D!Busy, D!BuyerStep, D!CheckAllowance, D!Approve, D!SwapUsdt, D!RecordSpend
  <1>2. \A c \in Buyers \ {b} : buyer[c].pc = "idle" /\ buyer'[c] = buyer[c]
    BY <1>1, OtherBuyers DEF Alone, D!Busy
  <1>3. buyer'[b].pc # "idle" => buyer'[b].amt = buyer[b].amt
    BY DEF D!TypeOK, D!BuyerStep, D!CheckAllowance, D!Approve, D!SwapUsdt, D!RecordSpend, D!Waiting
  <1>4. D!Busy' \subseteq D!Busy
    BY <1>1, <1>2 DEF D!Busy
  <1> QED BY <1>2, <1>3, <1>4 DEF Alone

\* So does each of its later steps.
LEMMA BuyerStepKeeps == ASSUME BudgetInv, NEW b \in Buyers, D!BuyerStep(b) PROVE BudgetInv'
  <1>0. /\ BudgetUsdt \in Nat /\ MaxPerTx \in 1..BudgetUsdt /\ MaxBuys \in Nat /\ D!TypeOK
        /\ buyer \in [Buyers -> [pc : {"idle", "allowance", "approve", "swap", "row"},
                                 amt : 0..MaxPerTx, approved : BOOLEAN]]
    BY DEF BudgetInv, D!BudgetAssumption, D!TypeOK
  <1>n. /\ spent \in Nat /\ allowance \in Nat /\ counted \in Nat /\ grants \in Nat
        /\ buyer[b].amt \in Nat /\ grants * BudgetUsdt \in Nat
        /\ (grants + 1) * BudgetUsdt = grants * BudgetUsdt + BudgetUsdt
        /\ spent + allowance <= grants * BudgetUsdt
    BY <1>0 DEF D!TypeOK, BudgetInv
  <1>1. D!TypeOK'
    <2>0. buyer \in [Buyers -> Purchases] /\ D!Waiting \in Purchases
      BY <1>0, WaitingType DEF BudgetInv, Purchases
    <2>1. buyer' \in [Buyers -> Purchases]
      <3>1. CASE D!CheckAllowance(b)
        BY <2>0, <3>1 DEF D!CheckAllowance, Purchases
      <3>2. CASE D!Approve(b)
        BY <2>0, <3>2 DEF D!Approve, Purchases
      <3>3. CASE D!SwapUsdt(b)
        BY <2>0, <3>3 DEF D!SwapUsdt, Purchases
      <3>4. CASE D!RecordSpend(b)
        BY <2>0, <3>4 DEF D!RecordSpend
      <3> QED BY <3>1, <3>2, <3>3, <3>4 DEF D!BuyerStep
    <2>2. allowance' \in 0..BudgetUsdt /\ spent' \in Nat /\ counted' \in Nat /\ grants' \in Nat
      BY <1>0, <1>n DEF D!TypeOK, D!BuyerStep, D!CheckAllowance, D!Approve, D!SwapUsdt, D!RecordSpend
    <2>3. buys' = buys /\ orderly' \in BOOLEAN /\ remembered' \in BOOLEAN
      BY <1>0 DEF D!TypeOK, D!BuyerStep, D!CheckAllowance, D!Approve, D!SwapUsdt, D!RecordSpend
    <2> QED BY <1>0, <2>1, <2>2, <2>3 DEF D!TypeOK, Purchases
  <1>2. (spent + allowance <= grants * BudgetUsdt)'
    <2>1. CASE D!CheckAllowance(b) \/ D!RecordSpend(b)
      BY <1>n, <2>1 DEF D!CheckAllowance, D!RecordSpend
    <2>2. CASE D!Approve(b)
      BY <1>0, <1>n, <2>2 DEF D!Approve
    <2>3. CASE D!SwapUsdt(b)
      BY <1>n, <2>3 DEF D!SwapUsdt
    <2> QED BY <2>1, <2>2, <2>3 DEF D!BuyerStep
  <1>3. ASSUME orderly' PROVE (Alone /\ Fits /\ RowsCount)'
    <2>1. orderly
      BY <1>3 DEF D!BuyerStep, D!CheckAllowance, D!Approve, D!SwapUsdt, D!RecordSpend
    <2>2. Alone /\ Fits /\ RowsCount
      BY <2>1 DEF BudgetInv
    <2>3. /\ Alone' /\ D!Busy' \subseteq D!Busy
          /\ \A c \in Buyers \ {b} : buyer[c].pc = "idle" /\ buyer'[c] = buyer[c]
          /\ buyer'[b].pc # "idle" => buyer'[b].amt = buyer[b].amt
      BY <1>0, <2>2, StillAlone
    <2>4. b \in D!Busy /\ buyer[b].amt <= BudgetUsdt - counted /\ counted <= BudgetUsdt
      BY <2>2 DEF Fits, D!Busy, D!BuyerStep, D!CheckAllowance, D!Approve, D!SwapUsdt, D!RecordSpend
    <2>5. \A c \in Buyers \ {b} : buyer'[c].pc = "idle"
      BY <2>3
    <2>6. CASE D!CheckAllowance(b) \/ D!Approve(b)
      <3>1. UNCHANGED <<counted, spent>> /\ buyer[b].pc # "row" /\ buyer'[b].pc # "row"
        BY <1>0, <2>6 DEF D!CheckAllowance, D!Approve, D!Waiting
      <3>2. spent = counted
        BY <2>2, <2>3, <3>1 DEF RowsCount
      <3> QED BY <1>n, <2>3, <2>4, <2>5, <3>1, <3>2 DEF Fits, RowsCount, D!Busy
    <2>7. CASE D!SwapUsdt(b)
      <3>1. /\ counted' = counted /\ buyer[b].pc # "row"
            /\ \/ spent' = spent /\ buyer'[b].pc = "idle"
               \/ spent' = spent + buyer[b].amt /\ buyer'[b].pc = "row"
        BY <1>0, <1>3, <2>1, <2>7 DEF D!SwapUsdt, D!Waiting
      <3>2. spent = counted
        BY <2>2, <2>3, <3>1 DEF RowsCount
      <3> QED BY <1>n, <2>3, <2>4, <2>5, <3>1, <3>2 DEF Fits, RowsCount, D!Busy
    <2>8. CASE D!RecordSpend(b)
      <3>1. /\ counted' = counted + buyer[b].amt /\ spent' = spent
            /\ buyer[b].pc = "row" /\ buyer'[b].pc = "idle"
        BY <1>0, <1>3, <2>8 DEF D!RecordSpend, D!Waiting
      <3>2. spent = counted + buyer[b].amt
        BY <2>2, <3>1 DEF RowsCount
      <3>3. D!Busy' = {} /\ \A c \in Buyers : buyer'[c].pc = "idle"
        BY <2>5, <3>1 DEF D!Busy
      <3>4. Fits'
        BY <1>0, <1>n, <2>4, <3>1, <3>3 DEF Fits
      <3>5. RowsCount'
        BY <3>1, <3>2, <3>3 DEF RowsCount
      <3> QED BY <2>3, <3>4, <3>5
    <2> QED BY <2>6, <2>7, <2>8 DEF D!BuyerStep
  <1> QED BY <1>0, <1>1, <1>2, <1>3 DEF BudgetInv, D!BudgetAssumption

\* Every step keeps the invariant.
LEMMA BudgetInvInductive == BudgetInv /\ [D!Next]_(D!delegateVars) => BudgetInv'
  <1> SUFFICES ASSUME BudgetInv, [D!Next]_(D!delegateVars) PROVE BudgetInv'
    OBVIOUS
  <1>1. CASE UNCHANGED D!delegateVars
    BY <1>1 DEF D!delegateVars, BudgetInv, D!TypeOK, Alone, Fits, RowsCount, D!Busy, D!BudgetAssumption
  <1>2. CASE D!Crash
    <2>1. D!TypeOK'
      BY <1>2, WaitingType DEF BudgetInv, D!Crash, D!TypeOK, Purchases
    <2> QED BY <1>2, <2>1 DEF BudgetInv, D!Crash, D!BudgetAssumption
  <1> QED BY <1>1, <1>2, CheckKeeps, BuyerStepKeeps DEF D!Next

\* The first state satisfies it.
LEMMA InitBudgetInv == D!BudgetAssumption /\ D!Init => BudgetInv
  <1> SUFFICES ASSUME D!BudgetAssumption, D!Init PROVE BudgetInv
    OBVIOUS
  <1>0. BudgetUsdt \in Nat /\ MaxBuys \in Nat
    BY DEF D!BudgetAssumption
  <1>1. D!TypeOK
    <2>1. buyer \in [Buyers -> Purchases]
      BY WaitingType DEF D!Init
    <2>2. remembered \in BOOLEAN /\ orderly \in BOOLEAN
      BY Zenon DEF D!Init
    <2>3. counted \in Nat /\ spent \in Nat /\ grants \in Nat
          /\ allowance \in 0..BudgetUsdt /\ buys \in 0..MaxBuys
      BY <1>0 DEF D!Init
    <2> QED BY <2>1, <2>2, <2>3 DEF D!TypeOK, Purchases
  <1>2. Alone /\ Fits /\ RowsCount
    BY <1>0 DEF D!Init, Alone, Fits, RowsCount, D!Busy, D!Waiting
  <1> QED BY <1>0, <1>1, <1>2 DEF D!Init, BudgetInv

\* The delegate's counters and requests are always well typed: the allowance
\* never goes below zero or above the budget.
THEOREM BudgetTypeCorrect == D!BudgetAssumption /\ D!Spec => []D!TypeOK
  <1>1. BudgetInv => D!TypeOK
    BY DEF BudgetInv
  <1> QED BY <1>1, InitBudgetInv, BudgetInvInductive, PTL DEF D!Spec

\* What the invariant says of the budget.
LEMMA BudgetInvHolds == BudgetInv => D!BudgetHolds
  <1> SUFFICES ASSUME BudgetInv PROVE D!BudgetHolds
    OBVIOUS
  <1>1. ASSUME orderly PROVE spent <= BudgetUsdt
    <2>1. counted \in Nat /\ BudgetUsdt \in Nat
      BY DEF BudgetInv, D!TypeOK, D!BudgetAssumption
    <2>2. CASE \E b \in Buyers : buyer[b].pc = "row"
      <3>1. PICK b \in Buyers : buyer[b].pc = "row"
        BY <2>2
      <3>2. spent = counted + buyer[b].amt /\ buyer[b].amt <= BudgetUsdt - counted
        BY <1>1, <3>1 DEF BudgetInv, RowsCount, Fits, D!Busy
      <3>3. buyer[b].amt \in Nat
        BY <3>1 DEF BudgetInv, D!TypeOK, D!BudgetAssumption
      <3> QED BY <2>1, <3>2, <3>3
    <2>3. CASE \A b \in Buyers : buyer[b].pc # "row"
      BY <1>1, <2>3 DEF BudgetInv, RowsCount, Fits
    <2> QED BY <2>2, <2>3
  <1> QED BY <1>1 DEF BudgetInv, D!BudgetHolds

\* hotWalletDelegate.ts:148-166: requests that come one at a time and all end
\* properly never spend more than the budget, and whatever overlaps, fails or
\* dies, the router never takes more than one budget per approval.
THEOREM BudgetIsKept == D!BudgetAssumption /\ D!Spec => []D!BudgetHolds
  BY BudgetInvHolds, InitBudgetInv, BudgetInvInductive, PTL DEF D!Spec

-----------------------------------------------------------------------------
(* SignIn *)

HttpRequests == [pc : {"idle", "register", "createUser", "issue", "mail", "rollback", "resend", "verify", "countAttempt",
                       "verified", "login", "countFailure", "clearFailures", "answer"},
                 kind : {"none", "register", "created", "resend", "verify", "login"},
                 right : BOOLEAN, read : G!UserType]

\* The requests that guessed wrong and are about to count it, and those that
\* may still guess.
Counting(k) == {q \in Reqs : http[q].pc = "countAttempt" /\ http[q].read.code = k}
Guessing(k) == {q \in Reqs : http[q].pc = "verify" /\ http[q].read.code = k /\ G!MayGuess(http[q].read)}

\* No code is in a row before it is issued; an account that is gone has none.
CodesAreIssued ==
    /\ user.code <= issued /\ \A q \in Reqs : http[q].read.code <= issued
    /\ ~user.exists => user.code = G!NoCode
    /\ \A k \in 1..MaxCodes : k > issued => tried[k] = 0

\* The row counts the guesses of its code, but for those about to be counted.
Tally == \A k \in 1..MaxCodes : user.code = k => tried[k] <= user.attempts + Cardinality(Counting(k))

\* The bound covers the guesses made and those that may still be made.
GuessesBounded ==
    \A k \in 1..MaxCodes : tried[k] + Cardinality(Guessing(k)) <= MaxAttempts + Cardinality(Reqs) - 1

\* The inductive invariant of SignIn.
SignInInv == G!SignInAssumption /\ G!TypeOK /\ CodesAreIssued /\ Tally /\ GuessesBounded

\* The constants, the requests, and what is counted is finite.
LEMMA SignInFacts ==
    ASSUME SignInInv
    PROVE  /\ MaxAttempts \in Nat \ {0} /\ MaxFailed \in Nat \ {0} /\ MaxCodes \in Nat /\ MaxSent \in Nat
           /\ IsFiniteSet(Reqs) /\ Cardinality(Reqs) \in Nat
           /\ user \in G!UserType /\ http \in [Reqs -> HttpRequests] /\ tried \in [1..MaxCodes -> Nat]
           /\ issued \in 0..MaxCodes /\ sentReqs \in 0..MaxSent /\ signedIn \in BOOLEAN
           /\ G!NoUser \in G!UserType /\ G!NoUser.code = G!NoCode /\ ~G!NoUser.exists /\ G!NoCode = 0
           /\ G!Off \in HttpRequests /\ G!Off.pc = "idle" /\ G!Off.read = G!NoUser
           /\ \A k : /\ IsFiniteSet(Counting(k)) /\ Cardinality(Counting(k)) \in Nat
                     /\ IsFiniteSet(Guessing(k)) /\ Cardinality(Guessing(k)) \in Nat
  <1>1. /\ MaxAttempts \in Nat \ {0} /\ MaxFailed \in Nat \ {0} /\ MaxCodes \in Nat /\ MaxSent \in Nat
        /\ IsFiniteSet(Reqs)
    <2>1. G!IsFiniteSet(Reqs) => IsFiniteSet(Reqs)
      BY DEF G!IsFiniteSet, IsFiniteSet
    <2> QED BY <2>1 DEF SignInInv, G!SignInAssumption
  <1>2. /\ user \in G!UserType /\ http \in [Reqs -> HttpRequests] /\ tried \in [1..MaxCodes -> Nat]
        /\ issued \in 0..MaxCodes /\ sentReqs \in 0..MaxSent /\ signedIn \in BOOLEAN
    BY DEF SignInInv, G!TypeOK, HttpRequests
  <1>3. /\ G!NoUser \in G!UserType /\ G!NoUser.code = G!NoCode /\ ~G!NoUser.exists /\ G!NoCode = 0
    BY <1>1 DEF G!NoUser, G!UserType, G!NoCode
  <1>4. G!Off \in HttpRequests /\ G!Off.pc = "idle" /\ G!Off.read = G!NoUser
    BY <1>3 DEF G!Off, HttpRequests
  <1>5. \A k : /\ IsFiniteSet(Counting(k)) /\ Cardinality(Counting(k)) \in Nat
               /\ IsFiniteSet(Guessing(k)) /\ Cardinality(Guessing(k)) \in Nat
    BY <1>1, FS_Subset, FS_CardinalityType DEF Counting, Guessing
  <1> QED BY <1>1, <1>2, <1>3, <1>4, <1>5, FS_CardinalityType

\* What a request makes of its own record.
LEMMA Responds ==
    ASSUME SignInInv, NEW q \in Reqs
    PROVE  /\ G!Respond(q) => /\ http' \in [Reqs -> HttpRequests] /\ http'[q] = G!Off
                              /\ \A p \in Reqs \ {q} : http'[p] = http[p]
           /\ \A pc \in {"createUser", "issue", "mail", "rollback", "countAttempt", "verified", "countFailure",
                         "clearFailures", "answer"} :
                 G!Then(q, pc) => /\ http' \in [Reqs -> HttpRequests] /\ http'[q].pc = pc
                                  /\ http'[q].read = http[q].read
                                  /\ \A p \in Reqs \ {q} : http'[p] = http[p]
  <1>1. http \in [Reqs -> HttpRequests] /\ G!Off \in HttpRequests
    BY SignInFacts
  <1>2. ASSUME G!Respond(q)
        PROVE  /\ http' \in [Reqs -> HttpRequests] /\ http'[q] = G!Off
               /\ \A p \in Reqs \ {q} : http'[p] = http[p]
    BY <1>1, <1>2 DEF G!Respond
  <1>3. ASSUME NEW pc \in {"createUser", "issue", "mail", "rollback", "countAttempt", "verified", "countFailure",
                           "clearFailures", "answer"}, G!Then(q, pc)
        PROVE  /\ http' \in [Reqs -> HttpRequests] /\ http'[q].pc = pc /\ http'[q].read = http[q].read
               /\ \A p \in Reqs \ {q} : http'[p] = http[p]
    <2> DEFINE new == [http[q] EXCEPT !.pc = pc]
    <2>1. http' = [http EXCEPT ![q] = new]
      BY <1>3 DEF G!Then
    <2>2. new \in HttpRequests /\ new.pc = pc /\ new.read = http[q].read
      BY <1>1 DEF HttpRequests
    <2> HIDE DEF new
    <2> QED BY <1>1, <2>1, <2>2
  <1> QED BY <1>2, <1>3

\* A step that neither guesses nor counts nor issues a code keeps the
\* invariant, whatever else of the row it writes.
LEMMA PlainStep ==
    ASSUME SignInInv, http' \in [Reqs -> HttpRequests], user' \in G!UserType,
           \A q \in Reqs : \/ http'[q] = http[q]
                           \/ /\ http'[q].pc \notin {"verify", "countAttempt"} /\ http[q].pc # "countAttempt"
                              /\ http'[q].read \in {http[q].read, G!NoUser},
           \/ user'.code = user.code /\ user'.attempts = user.attempts /\ user'.exists = user.exists
           \/ user'.code = G!NoCode,
           UNCHANGED <<issued, sentReqs, tried>>, signedIn' \in BOOLEAN
    PROVE  SignInInv'
  <1>0. /\ G!NoUser.code = 0 /\ G!NoCode = 0 /\ issued \in 0..MaxCodes /\ MaxCodes \in Nat
        /\ http \in [Reqs -> HttpRequests] /\ user \in G!UserType
    BY SignInFacts
  <1>1. G!TypeOK'
    BY DEF SignInInv, G!TypeOK, HttpRequests, G!UserType
  <1>2. CodesAreIssued'
    BY <1>0 DEF SignInInv, CodesAreIssued
  <1>3. \A k : Counting(k)' = Counting(k) /\ Guessing(k)' \subseteq Guessing(k)
    BY DEF Counting, Guessing, G!MayGuess
  <1>4. Tally'
    BY <1>0, <1>3 DEF SignInInv, Tally
  <1>5. GuessesBounded'
    <2> SUFFICES ASSUME NEW k \in 1..MaxCodes
                 PROVE  tried[k] + Cardinality(Guessing(k)') <= MaxAttempts + Cardinality(Reqs) - 1
      BY DEF GuessesBounded
    <2>1. IsFiniteSet(Guessing(k)) /\ Cardinality(Guessing(k)) \in Nat /\ tried[k] \in Nat /\ MaxAttempts \in Nat
          /\ Cardinality(Reqs) \in Nat
      BY SignInFacts
    <2>2. Cardinality(Guessing(k)') \in Nat /\ Cardinality(Guessing(k)') <= Cardinality(Guessing(k))
      BY <1>3, <2>1, Sizes
    <2>3. tried[k] + Cardinality(Guessing(k)) <= MaxAttempts + Cardinality(Reqs) - 1
      BY DEF SignInInv, GuessesBounded
    <2> QED BY <2>1, <2>2, <2>3
  <1> QED BY <1>1, <1>2, <1>4, <1>5 DEF SignInInv

\* The routes that leave the row alone.
LEMMA RoutesKeep ==
    ASSUME SignInInv, NEW q \in Reqs,
           \/ G!Register(q) \/ G!SendMail(q) \/ G!ResendOtp(q) \/ G!Login(q) \/ G!Answer(q)
    PROVE  SignInInv'
  <1>1. UNCHANGED <<user, issued, sentReqs, tried, signedIn>> /\ http[q].pc # "countAttempt"
    BY DEF G!Register, G!SendMail, G!ResendOtp, G!Login, G!Answer
  <1>2. \/ G!Respond(q)
        \/ \E pc \in {"createUser", "issue", "rollback", "countFailure", "clearFailures", "answer"} : G!Then(q, pc)
    BY DEF G!Register, G!SendMail, G!ResendOtp, G!Login, G!Answer
  <1>3. /\ http' \in [Reqs -> HttpRequests] /\ \A p \in Reqs \ {q} : http'[p] = http[p]
        /\ http'[q].pc \notin {"verify", "countAttempt"} /\ http'[q].read \in {http[q].read, G!NoUser}
    BY <1>2, Responds, SignInFacts
  <1>4. user' \in G!UserType /\ signedIn' \in BOOLEAN
    BY <1>1, SignInFacts
  <1> QED BY <1>1, <1>3, <1>4, PlainStep

\* The account is created, or rolled back.
LEMMA AccountKeeps ==
    ASSUME SignInInv, NEW q \in Reqs, G!CreateUser(q) \/ G!RollBack(q)
    PROVE  SignInInv'
  <1>0. /\ user \in G!UserType /\ G!NoUser \in G!UserType /\ G!NoUser.code = G!NoCode /\ signedIn \in BOOLEAN
        /\ http \in [Reqs -> HttpRequests]
    BY SignInFacts
  <1>1. UNCHANGED <<issued, sentReqs, tried, signedIn>> /\ http[q].pc # "countAttempt"
    BY DEF G!CreateUser, G!RollBack
  <1>2. G!NewUser \in G!UserType /\ G!NewUser.code = G!NoCode
    BY <1>0 DEF G!NewUser, G!NoUser, G!UserType
  <1>3. user' \in {user, G!NewUser, G!NoUser}
    BY DEF G!CreateUser, G!RollBack
  <1>4. /\ http' \in [Reqs -> HttpRequests] /\ \A p \in Reqs \ {q} : http'[p] = http[p]
        /\ http'[q].pc \notin {"verify", "countAttempt"} /\ http'[q].read \in {http[q].read, G!NoUser}
    <2>1. CASE G!Respond(q)
      BY <2>1, Responds, SignInFacts
    <2>2. CASE http' = [http EXCEPT ![q].pc = "issue", ![q].kind = "created"]
      <3> DEFINE new == [http[q] EXCEPT !.pc = "issue", !.kind = "created"]
      <3>1. http' = [http EXCEPT ![q] = new]
        BY <1>0, <2>2
      <3>2. new \in HttpRequests /\ new.pc = "issue" /\ new.read = http[q].read
        BY <1>0 DEF HttpRequests
      <3> HIDE DEF new
      <3> QED BY <1>0, <3>1, <3>2
    <2> QED BY <2>1, <2>2 DEF G!CreateUser, G!RollBack
  <1>5. /\ user' \in G!UserType
        /\ \/ user'.code = user.code /\ user'.attempts = user.attempts /\ user'.exists = user.exists
           \/ user'.code = G!NoCode
    BY <1>0, <1>2, <1>3
  <1> QED BY <1>0, <1>1, <1>4, <1>5, PlainStep

\* The address is verified, a login fails or works, or time passes.
LEMMA RowWritesKeep ==
    ASSUME SignInInv,
           \/ \E q \in Reqs : G!MarkVerified(q) \/ G!CountFailure(q) \/ G!ClearFailures(q)
           \/ G!TimePasses
    PROVE  SignInInv'
  <1>0. /\ user \in G!UserType /\ signedIn \in BOOLEAN /\ MaxFailed \in Nat \ {0} /\ MaxCodes \in Nat /\ G!NoCode = 0
        /\ http \in [Reqs -> HttpRequests]
    BY SignInFacts
  <1>1. UNCHANGED <<issued, sentReqs, tried>> /\ signedIn' \in BOOLEAN
    BY <1>0 DEF G!MarkVerified, G!CountFailure, G!ClearFailures, G!TimePasses
  <1>2. CASE \E q \in Reqs : G!MarkVerified(q) \/ G!CountFailure(q) \/ G!ClearFailures(q)
    <2>1. PICK q \in Reqs : G!MarkVerified(q) \/ G!CountFailure(q) \/ G!ClearFailures(q)
      BY <1>2
    <2>2. /\ http[q].pc # "countAttempt" /\ http[q].read \in G!UserType
          /\ G!Respond(q) \/ G!Then(q, "issue")
      BY <1>0, <2>1 DEF G!MarkVerified, G!CountFailure, G!ClearFailures, HttpRequests
    <2>3. /\ http' \in [Reqs -> HttpRequests] /\ \A p \in Reqs \ {q} : http'[p] = http[p]
          /\ http'[q].pc \notin {"verify", "countAttempt"} /\ http'[q].read \in {http[q].read, G!NoUser}
      BY <2>2, Responds, SignInFacts
    <2>4. /\ user' \in G!UserType
          /\ \/ user'.code = user.code /\ user'.attempts = user.attempts /\ user'.exists = user.exists
             \/ user'.code = G!NoCode
      <3>0. 0 \in 0..(MaxFailed - 1) /\ 0 \in 0..MaxCodes
        BY <1>0
      <3>1. CASE user' = user
        BY <1>0, <3>1
      <3>2. CASE user' = [user EXCEPT !.verified = TRUE, !.code = G!NoCode, !.live = FALSE, !.attempts = 0,
                                      !.failed = 0, !.locked = FALSE]
        <4>1. user' \in G!UserType
          BY <1>0, <3>0, <3>2 DEF G!UserType
        <4>2. user'.code = G!NoCode
          BY <1>0, <3>2 DEF G!UserType
        <4> QED BY <4>1, <4>2
      <3>3. CASE user' = [user EXCEPT !.failed = 0, !.locked = FALSE]
        <4>1. user' \in G!UserType
          BY <1>0, <3>0, <3>3 DEF G!UserType
        <4>2. user'.code = user.code /\ user'.attempts = user.attempts /\ user'.exists = user.exists
          BY <1>0, <3>3 DEF G!UserType
        <4> QED BY <4>1, <4>2
      <3>4. CASE user' = [user EXCEPT !.failed = IF G!Locks(http[q].read.failed + 1) THEN 0 ELSE http[q].read.failed + 1,
                                      !.locked = G!Locks(http[q].read.failed + 1)]
        <4> DEFINE failed == http[q].read.failed + 1
                   locks == G!Locks(failed)
        <4>1. locks \in BOOLEAN /\ (IF locks THEN 0 ELSE failed) \in 0..(MaxFailed - 1)
          <5>1. http[q].read.failed \in 0..(MaxFailed - 1)
            BY <2>2 DEF G!UserType
          <5> QED BY <1>0, <5>1 DEF G!Locks
        <4>2. user' = [user EXCEPT !.failed = IF locks THEN 0 ELSE failed, !.locked = locks]
          BY <3>4
        <4> HIDE DEF failed, locks
        <4> QED BY <1>0, <4>1, <4>2 DEF G!UserType
      <3> QED BY <2>1, <3>1, <3>2, <3>3, <3>4 DEF G!MarkVerified, G!CountFailure, G!ClearFailures
    <2> QED BY <1>1, <2>2, <2>3, <2>4, PlainStep
  <1>3. CASE G!TimePasses
    <2>1. http' = http /\ user' \in {[user EXCEPT !.live = FALSE], [user EXCEPT !.justSent = FALSE],
                                     [user EXCEPT !.locked = FALSE]}
      BY <1>3 DEF G!TimePasses
    <2>2. user' \in G!UserType /\ user'.code = user.code /\ user'.attempts = user.attempts /\ user'.exists = user.exists
      BY <1>0, <2>1 DEF G!UserType
    <2> QED BY <1>0, <1>1, <2>1, <2>2, PlainStep
  <1> QED BY <1>2, <1>3

\* A new code: nobody guessed it, and it starts with fresh attempts.
LEMMA IssueKeeps == ASSUME SignInInv, NEW q \in Reqs, G!IssueOtp(q) PROVE SignInInv'
  <1>0. /\ user \in G!UserType /\ signedIn \in BOOLEAN /\ MaxCodes \in Nat /\ issued \in 0..MaxCodes /\ G!NoCode = 0
        /\ http \in [Reqs -> HttpRequests] /\ tried \in [1..MaxCodes -> Nat]
    BY SignInFacts
  <1>1. http[q].pc = "issue" /\ UNCHANGED <<sentReqs, tried, signedIn>>
    BY DEF G!IssueOtp
  <1>2. CASE G!Respond(q) /\ UNCHANGED <<user, issued>>
    <2>1. /\ http' \in [Reqs -> HttpRequests] /\ \A p \in Reqs \ {q} : http'[p] = http[p]
          /\ http'[q].pc \notin {"verify", "countAttempt"} /\ http'[q].read \in {http[q].read, G!NoUser}
      BY <1>2, Responds, SignInFacts
    <2> QED BY <1>0, <1>1, <1>2, <2>1, PlainStep
  <1>3. CASE /\ user.exists /\ issued < MaxCodes /\ issued' = issued + 1 /\ G!Then(q, "mail")
             /\ user' = [user EXCEPT !.code = issued + 1, !.live = TRUE, !.attempts = 0, !.justSent = TRUE]
    <2>1. /\ http' \in [Reqs -> HttpRequests] /\ \A p \in Reqs \ {q} : http'[p] = http[p]
          /\ http'[q].pc = "mail" /\ http'[q].read = http[q].read
      BY <1>3, Responds
    <2>2. user' \in G!UserType /\ user'.code = issued + 1 /\ user'.attempts = 0 /\ user'.exists
      <3>1. issued + 1 \in 0..MaxCodes
        BY <1>0, <1>3
      <3> QED BY <1>0, <1>3, <3>1 DEF G!UserType
    <2>3. G!TypeOK'
      BY <1>0, <1>1, <1>3, <2>1, <2>2 DEF SignInInv, G!TypeOK, HttpRequests
    <2>4. CodesAreIssued'
      <3>1. \A p \in Reqs : http'[p].read = http[p].read /\ http[p].read.code \in Nat
        <4>1. \A p \in Reqs : http'[p].read = http[p].read
          BY <2>1
        <4>2. \A p \in Reqs : http[p].read \in G!UserType
          BY <1>0 DEF HttpRequests
        <4> QED BY <1>0, <4>1, <4>2 DEF G!UserType
      <3> QED BY <1>0, <1>1, <1>3, <2>2, <3>1 DEF SignInInv, CodesAreIssued
    <2>5. \A k : Counting(k)' \subseteq Counting(k) /\ Guessing(k)' \subseteq Guessing(k)
      BY <1>1, <2>1 DEF Counting, Guessing, G!MayGuess
    <2>6. Tally'
      <3> SUFFICES ASSUME NEW k \in 1..MaxCodes, user'.code = k
                   PROVE  tried'[k] <= user'.attempts + Cardinality(Counting(k)')
        BY DEF Tally
      <3>1. tried'[k] = 0
        BY <1>0, <1>1, <2>2 DEF SignInInv, CodesAreIssued
      <3>2. Cardinality(Counting(k)') \in Nat
        BY <2>5, SignInFacts, Sizes
      <3> QED BY <2>2, <3>1, <3>2
    <2>7. GuessesBounded'
      <3> SUFFICES ASSUME NEW k \in 1..MaxCodes
                   PROVE  tried[k] + Cardinality(Guessing(k)') <= MaxAttempts + Cardinality(Reqs) - 1
        BY <1>1 DEF GuessesBounded
      <3>1. IsFiniteSet(Guessing(k)) /\ Cardinality(Guessing(k)) \in Nat /\ tried[k] \in Nat /\ MaxAttempts \in Nat
            /\ Cardinality(Reqs) \in Nat
        BY SignInFacts
      <3>2. Cardinality(Guessing(k)') \in Nat /\ Cardinality(Guessing(k)') <= Cardinality(Guessing(k))
        BY <2>5, <3>1, Sizes
      <3>3. tried[k] + Cardinality(Guessing(k)) <= MaxAttempts + Cardinality(Reqs) - 1
        BY DEF SignInInv, GuessesBounded
      <3> QED BY <3>1, <3>2, <3>3
    <2> QED BY <2>3, <2>4, <2>6, <2>7 DEF SignInInv
  <1> QED BY <1>2, <1>3 DEF G!IssueOtp

\* A request reads the row.  If it may guess, the row's attempts are below the
\* maximum, and so is what was tried of its code, but for those counting.
LEMMA ReceiveKeeps ==
    ASSUME SignInInv, NEW q \in Reqs, NEW kind \in {"register", "resend", "verify", "login"}, NEW right \in BOOLEAN,
           G!Receive(q, kind, right)
    PROVE  SignInInv'
  <1>0. /\ user \in G!UserType /\ signedIn \in BOOLEAN /\ MaxCodes \in Nat /\ issued \in 0..MaxCodes /\ G!NoCode = 0
        /\ http \in [Reqs -> HttpRequests] /\ tried \in [1..MaxCodes -> Nat] /\ sentReqs \in 0..MaxSent /\ MaxSent \in Nat
    BY SignInFacts
  <1> DEFINE new == [pc |-> kind, kind |-> kind, right |-> right, read |-> user]
  <1>1. /\ http[q].pc = "idle" /\ sentReqs' \in 0..MaxSent /\ UNCHANGED <<user, issued, tried, signedIn>>
        /\ http' = [http EXCEPT ![q] = new]
    BY <1>0 DEF G!Receive
  <1>2. new \in HttpRequests /\ new.pc = kind /\ new.read = user
    BY <1>0 DEF HttpRequests
  <1> HIDE DEF new
  <1>3. /\ http' \in [Reqs -> HttpRequests] /\ \A p \in Reqs \ {q} : http'[p] = http[p]
        /\ http'[q].pc = kind /\ http'[q].read = user
    BY <1>0, <1>1, <1>2
  <1>4. G!TypeOK'
    BY <1>0, <1>1, <1>3 DEF SignInInv, G!TypeOK, HttpRequests
  <1>5. CodesAreIssued'
    BY <1>1, <1>3 DEF SignInInv, CodesAreIssued
  <1>6. \A k : Counting(k)' = Counting(k)
    BY <1>1, <1>3 DEF Counting
  <1>7. Tally'
    BY <1>1, <1>6 DEF SignInInv, Tally
  <1>8. GuessesBounded'
    <2> SUFFICES ASSUME NEW k \in 1..MaxCodes
                 PROVE  tried[k] + Cardinality(Guessing(k)') <= MaxAttempts + Cardinality(Reqs) - 1
      BY <1>1 DEF GuessesBounded
    <2>1. /\ IsFiniteSet(Guessing(k)) /\ Cardinality(Guessing(k)) \in Nat /\ tried[k] \in Nat /\ MaxAttempts \in Nat
          /\ Cardinality(Reqs) \in Nat /\ IsFiniteSet(Counting(k)) /\ Cardinality(Counting(k)) \in Nat
          /\ IsFiniteSet(Reqs)
      BY SignInFacts
    <2>2. tried[k] + Cardinality(Guessing(k)) <= MaxAttempts + Cardinality(Reqs) - 1
      BY DEF SignInInv, GuessesBounded
    <2>3. CASE q \notin Guessing(k)'
      <3>1. Guessing(k)' \subseteq Guessing(k)
        BY <1>3, <2>3 DEF Guessing, G!MayGuess
      <3>2. Cardinality(Guessing(k)') \in Nat /\ Cardinality(Guessing(k)') <= Cardinality(Guessing(k))
        BY <2>1, <3>1, Sizes
      <3> QED BY <2>1, <2>2, <3>2
    <2>4. CASE q \in Guessing(k)'
      <3>1. user.code = k /\ user.attempts < MaxAttempts /\ user.attempts \in Nat
        BY <1>0, <1>3, <2>4 DEF Guessing, G!MayGuess, G!UserType
      <3>2. tried[k] <= user.attempts + Cardinality(Counting(k))
        BY <3>1 DEF SignInInv, Tally
      <3>3. Guessing(k)' \subseteq Reqs /\ Guessing(k)' \intersect Counting(k) = {} /\ Counting(k) \subseteq Reqs
        BY <1>1, <1>3 DEF Guessing, Counting
      <3>4. Cardinality(Guessing(k)') + Cardinality(Counting(k)) <= Cardinality(Reqs) /\ Cardinality(Guessing(k)') \in Nat
        <4>1. IsFiniteSet(Guessing(k)') /\ Cardinality(Guessing(k)') \in Nat
          BY <2>1, <3>3, Sizes
        <4>2. Cardinality(Guessing(k)' \union Counting(k)) = Cardinality(Guessing(k)') + Cardinality(Counting(k))
          <5>1. Cardinality(Guessing(k)' \union Counting(k)) =
                   Cardinality(Guessing(k)') + Cardinality(Counting(k)) - Cardinality(Guessing(k)' \intersect Counting(k))
            BY <2>1, <4>1, FS_Union
          <5>2. Cardinality(Guessing(k)' \intersect Counting(k)) = 0
            BY <3>3, FS_EmptySet
          <5> QED BY <2>1, <4>1, <5>1, <5>2
        <4>3. Cardinality(Guessing(k)' \union Counting(k)) <= Cardinality(Reqs)
          BY <2>1, <3>3, FS_Subset
        <4> QED BY <4>1, <4>2, <4>3
      <3> QED BY <2>1, <3>1, <3>2, <3>4
    <2> QED BY <2>3, <2>4
  <1> QED BY <1>4, <1>5, <1>7, <1>8 DEF SignInInv

\* A wrong guess is one that might be made, and is to be counted.
LEMMA GuessKeeps == ASSUME SignInInv, NEW q \in Reqs, G!VerifyEmail(q) PROVE SignInInv'
  <1>0. /\ user \in G!UserType /\ signedIn \in BOOLEAN /\ MaxCodes \in Nat /\ issued \in 0..MaxCodes /\ G!NoCode = 0
        /\ http \in [Reqs -> HttpRequests] /\ tried \in [1..MaxCodes -> Nat] /\ http[q].read \in G!UserType
    BY SignInFacts DEF HttpRequests
  <1>1. http[q].pc = "verify" /\ UNCHANGED <<user, issued, sentReqs, signedIn>>
    BY DEF G!VerifyEmail
  <1>2. CASE (G!Respond(q) \/ G!Then(q, "verified")) /\ UNCHANGED tried
    <2>1. /\ http' \in [Reqs -> HttpRequests] /\ \A p \in Reqs \ {q} : http'[p] = http[p]
          /\ http'[q].pc \notin {"verify", "countAttempt"} /\ http'[q].read \in {http[q].read, G!NoUser}
      BY <1>2, Responds, SignInFacts
    <2> QED BY <1>0, <1>1, <1>2, <2>1, PlainStep
  <1>3. CASE /\ G!MayGuess(http[q].read) /\ tried' = [tried EXCEPT ![http[q].read.code] = @ + 1]
             /\ G!Then(q, "countAttempt")
    <2>0. PICK k : k = http[q].read.code
      OBVIOUS
    <2>1. /\ http' \in [Reqs -> HttpRequests] /\ \A p \in Reqs \ {q} : http'[p] = http[p]
          /\ http'[q].pc = "countAttempt" /\ http'[q].read = http[q].read
      BY <1>3, Responds
    <2>2. k \in 1..MaxCodes /\ k <= issued
      BY <1>0, <1>3, <2>0 DEF G!MayGuess, G!UserType, SignInInv, CodesAreIssued
    <2>3. tried' \in [1..MaxCodes -> Nat] /\ tried'[k] = tried[k] + 1 /\ \A j \in 1..MaxCodes \ {k} : tried'[j] = tried[j]
      BY <1>0, <1>3, <2>0, <2>2
    <2>4. /\ \A j : j # k => Counting(j)' = Counting(j) /\ Guessing(j)' = Guessing(j)
          /\ q \in Guessing(k) /\ Guessing(k)' \subseteq Guessing(k) \ {q}
          /\ q \notin Counting(k) /\ Counting(k)' = Counting(k) \union {q}
      BY <1>1, <1>3, <2>0, <2>1 DEF Counting, Guessing
    <2>a. /\ IsFiniteSet(Guessing(k)) /\ Cardinality(Guessing(k)) \in Nat /\ tried[k] \in Nat /\ MaxAttempts \in Nat
          /\ Cardinality(Reqs) \in Nat /\ IsFiniteSet(Counting(k)) /\ Cardinality(Counting(k)) \in Nat
      BY <1>0, <2>2, SignInFacts
    <2>5. G!TypeOK'
      BY <1>0, <1>1, <2>1, <2>3 DEF SignInInv, G!TypeOK, HttpRequests
    <2>6. CodesAreIssued'
      <3>1. \A p \in Reqs : http'[p].read = http[p].read
        BY <2>1
      <3>2. \A j \in 1..MaxCodes : j > issued => j # k /\ tried'[j] = 0
        BY <1>0, <2>2, <2>3, SMTT(30) DEF SignInInv, CodesAreIssued
      <3>3. user.code <= issued /\ (\A p \in Reqs : http[p].read.code <= issued) /\ (~user.exists => user.code = G!NoCode)
        BY DEF SignInInv, CodesAreIssued
      <3> QED BY <1>1, <3>1, <3>2, <3>3 DEF CodesAreIssued
    <2>7. Tally'
      <3>1. Cardinality(Counting(k)') = Cardinality(Counting(k)) + 1
        BY <2>4, <2>a, FS_AddElement
      <3>2. user.attempts \in Nat
        BY <1>0 DEF G!UserType
      <3>3. ASSUME user.code = k PROVE tried'[k] <= user.attempts + Cardinality(Counting(k)')
        <4>1. tried[k] <= user.attempts + Cardinality(Counting(k))
          BY <2>2, <3>3 DEF SignInInv, Tally
        <4> QED BY <2>3, <2>a, <3>1, <3>2, <4>1
      <3>4. \A j \in 1..MaxCodes \ {k} : user.code = j => tried'[j] <= user.attempts + Cardinality(Counting(j)')
        BY <2>3, <2>4 DEF SignInInv, Tally
      <3> QED BY <1>1, <3>3, <3>4 DEF Tally
    <2>8. GuessesBounded'
      <3>1. Cardinality(Guessing(k)') \in Nat /\ Cardinality(Guessing(k)') <= Cardinality(Guessing(k)) - 1
        BY <2>4, <2>a, Sizes
      <3>2. tried[k] + Cardinality(Guessing(k)) <= MaxAttempts + Cardinality(Reqs) - 1
        BY <2>2 DEF SignInInv, GuessesBounded
      <3>3. tried'[k] + Cardinality(Guessing(k)') <= MaxAttempts + Cardinality(Reqs) - 1
        BY <2>3, <2>a, <3>1, <3>2
      <3>4. \A j \in 1..MaxCodes \ {k} : tried'[j] + Cardinality(Guessing(j)') <= MaxAttempts + Cardinality(Reqs) - 1
        BY <2>3, <2>4 DEF SignInInv, GuessesBounded
      <3> QED BY <3>3, <3>4 DEF GuessesBounded
    <2> QED BY <2>5, <2>6, <2>7, <2>8 DEF SignInInv
  <1> QED BY <1>2, <1>3 DEF G!VerifyEmail

\* A wrong guess is counted in the row, whatever code it holds by now.
LEMMA CountAttemptKeeps == ASSUME SignInInv, NEW q \in Reqs, G!CountAttempt(q) PROVE SignInInv'
  <1>0. /\ user \in G!UserType /\ signedIn \in BOOLEAN /\ MaxCodes \in Nat /\ issued \in 0..MaxCodes /\ G!NoCode = 0
        /\ http \in [Reqs -> HttpRequests] /\ tried \in [1..MaxCodes -> Nat] /\ user.attempts \in Nat
        /\ G!NoUser.code = 0 /\ G!Off.pc = "idle" /\ G!Off.read = G!NoUser
    BY SignInFacts DEF G!UserType
  <1>1. http[q].pc = "countAttempt" /\ G!Respond(q) /\ UNCHANGED <<issued, sentReqs, tried, signedIn>>
    BY DEF G!CountAttempt
  <1>2. http' \in [Reqs -> HttpRequests] /\ http'[q] = G!Off /\ \A p \in Reqs \ {q} : http'[p] = http[p]
    BY <1>1, Responds
  <1>3. /\ user' \in G!UserType /\ user'.code = user.code /\ user'.exists = user.exists
        /\ user'.attempts = IF user.exists THEN user.attempts + 1 ELSE user.attempts
    <2>1. CASE user.exists
      <3>1. user' = [user EXCEPT !.attempts = user.attempts + 1]
        BY <2>1 DEF G!CountAttempt, G!IncrementAttempts
      <3>2. user' \in G!UserType
        BY <1>0, <3>1, SMTT(30) DEF G!UserType
      <3>3. user'.code = user.code /\ user'.exists = user.exists /\ user'.attempts = user.attempts + 1
        BY <1>0, <3>1 DEF G!UserType
      <3> QED BY <2>1, <3>2, <3>3
    <2>2. CASE ~user.exists
      BY <1>0, <2>2 DEF G!CountAttempt
    <2> QED BY <2>1, <2>2
  <1>4. G!TypeOK'
    BY <1>0, <1>1, <1>2, <1>3 DEF SignInInv, G!TypeOK, HttpRequests
  <1>5. CodesAreIssued'
    BY <1>0, <1>1, <1>2, <1>3 DEF SignInInv, CodesAreIssued
  <1>6. \A k : Counting(k) \subseteq Counting(k)' \union {q} /\ Guessing(k)' \subseteq Guessing(k) /\ Counting(k)' \subseteq Counting(k)
    BY <1>0, <1>1, <1>2 DEF Counting, Guessing
  <1>7. Tally'
    <2> SUFFICES ASSUME NEW k \in 1..MaxCodes, user'.code = k
                 PROVE  tried[k] <= user'.attempts + Cardinality(Counting(k)')
      BY <1>1 DEF Tally
    <2>1. IsFiniteSet(Counting(k)) /\ Cardinality(Counting(k)) \in Nat /\ tried[k] \in Nat
      BY <1>0, SignInFacts
    <2>2. IsFiniteSet(Counting(k)') /\ Cardinality(Counting(k)') \in Nat
      BY <1>6, <2>1, Sizes
    <2>3. Cardinality(Counting(k)) <= Cardinality(Counting(k)') + 1
      BY <1>6, <2>2, Sizes
    <2>4. tried[k] <= user.attempts + Cardinality(Counting(k)) /\ user.exists
      BY <1>0, <1>3 DEF SignInInv, Tally, CodesAreIssued
    <2> QED BY <1>0, <1>3, <2>1, <2>2, <2>3, <2>4
  <1>8. GuessesBounded'
    <2> SUFFICES ASSUME NEW k \in 1..MaxCodes
                 PROVE  tried[k] + Cardinality(Guessing(k)') <= MaxAttempts + Cardinality(Reqs) - 1
      BY <1>1 DEF GuessesBounded
    <2>1. IsFiniteSet(Guessing(k)) /\ Cardinality(Guessing(k)) \in Nat /\ tried[k] \in Nat /\ MaxAttempts \in Nat
          /\ Cardinality(Reqs) \in Nat
      BY SignInFacts
    <2>2. Cardinality(Guessing(k)') \in Nat /\ Cardinality(Guessing(k)') <= Cardinality(Guessing(k))
      BY <1>6, <2>1, Sizes
    <2>3. tried[k] + Cardinality(Guessing(k)) <= MaxAttempts + Cardinality(Reqs) - 1
      BY DEF SignInInv, GuessesBounded
    <2> QED BY <2>1, <2>2, <2>3
  <1> QED BY <1>4, <1>5, <1>7, <1>8 DEF SignInInv

\* Every step keeps the invariant.
LEMMA SignInInvInductive == SignInInv /\ [G!Next]_(G!signInVars) => SignInInv'
  <1> SUFFICES ASSUME SignInInv, [G!Next]_(G!signInVars) PROVE SignInInv'
    OBVIOUS
  <1>1. ASSUME NEW q \in Reqs, NEW kind \in {"register", "resend", "verify", "login"}, NEW right \in BOOLEAN,
               G!Receive(q, kind, right)
        PROVE  SignInInv'
    BY <1>1, ReceiveKeeps
  <1>2. ASSUME NEW q \in Reqs,
               \/ G!Register(q) \/ G!CreateUser(q) \/ G!IssueOtp(q) \/ G!SendMail(q) \/ G!RollBack(q) \/ G!ResendOtp(q)
               \/ G!VerifyEmail(q) \/ G!CountAttempt(q) \/ G!MarkVerified(q)
               \/ G!Login(q) \/ G!CountFailure(q) \/ G!ClearFailures(q) \/ G!Answer(q)
        PROVE  SignInInv'
    BY <1>2, RoutesKeep, AccountKeeps, IssueKeeps, GuessKeeps, CountAttemptKeeps, RowWritesKeep
  <1>3. CASE G!TimePasses
    BY <1>3, RowWritesKeep
  <1>4. CASE UNCHANGED G!signInVars
    BY <1>4, PlainStep, SignInFacts DEF G!signInVars
  <1> QED BY <1>1, <1>2, <1>3, <1>4 DEF G!Next

\* The first state satisfies it.
LEMMA InitSignInInv == G!SignInAssumption /\ G!Init => SignInInv
  <1> SUFFICES ASSUME G!SignInAssumption, G!Init PROVE SignInInv
    OBVIOUS
  <1>1. /\ MaxAttempts \in Nat \ {0} /\ MaxFailed \in Nat \ {0} /\ MaxCodes \in Nat /\ MaxSent \in Nat
        /\ IsFiniteSet(Reqs)
    <2>1. G!IsFiniteSet(Reqs) => IsFiniteSet(Reqs)
      BY DEF G!IsFiniteSet, IsFiniteSet
    <2> QED BY <2>1 DEF G!SignInAssumption
  <1>2. G!NoUser \in G!UserType /\ G!NoUser.code = 0 /\ G!NoCode = 0
    BY <1>1 DEF G!NoUser, G!UserType, G!NoCode
  <1>3. G!Off \in HttpRequests /\ G!Off.pc = "idle" /\ G!Off.read = G!NoUser
    BY <1>2 DEF G!Off, HttpRequests
  <1>4. user = G!NoUser /\ issued = 0 /\ http = [q \in Reqs |-> G!Off] /\ tried = [k \in 1..MaxCodes |-> 0]
        /\ sentReqs = 0 /\ signedIn = FALSE
    BY DEF G!Init
  <1>5. G!TypeOK
    <2>1. http \in [Reqs -> HttpRequests] /\ tried \in [1..MaxCodes -> Nat]
      BY <1>3, <1>4
    <2>2. issued \in 0..MaxCodes /\ sentReqs \in 0..MaxSent
      BY <1>1, <1>4
    <2> QED BY <1>2, <1>4, <2>1, <2>2 DEF G!TypeOK, HttpRequests
  <1>6. CodesAreIssued
    BY <1>1, <1>2, <1>3, <1>4 DEF CodesAreIssued
  <1>7. Tally
    BY <1>1, <1>2, <1>4 DEF Tally
  <1>8. GuessesBounded
    <2>1. \A k : Guessing(k) = {}
      BY <1>3, <1>4 DEF Guessing
    <2>2. Cardinality({}) = 0 /\ Cardinality(Reqs) \in Nat
      BY <1>1, FS_EmptySet, FS_CardinalityType
    <2>3. \A k \in 1..MaxCodes : tried[k] = 0 /\ Cardinality(Guessing(k)) = 0
      BY <1>4, <2>1, <2>2
    <2> QED BY <1>1, <2>2, <2>3 DEF GuessesBounded
  <1> QED BY <1>5, <1>6, <1>7, <1>8 DEF SignInInv

\* What the invariant says of the guesses.
LEMMA SignInInvBounds == SignInInv => G!OtpGuessesBounded
  <1> SUFFICES ASSUME SignInInv, NEW k \in 1..MaxCodes PROVE tried[k] <= MaxAttempts + G!Cardinality(Reqs) - 1
    BY DEF G!OtpGuessesBounded
  <1>1. /\ Cardinality(Guessing(k)) \in Nat /\ tried[k] \in Nat /\ MaxAttempts \in Nat /\ Cardinality(Reqs) \in Nat
    BY SignInFacts
  <1>2. tried[k] + Cardinality(Guessing(k)) <= MaxAttempts + Cardinality(Reqs) - 1
    BY DEF SignInInv, GuessesBounded
  <1>3. G!Cardinality(Reqs) = Cardinality(Reqs)
    BY DEF G!Cardinality, Cardinality
  <1> QED BY <1>1, <1>2, <1>3

\* auth.ts:343-357: for any number of attempts and of requests at once, a code
\* is guessed wrong no more often than its attempts and, but one, the requests
\* that were under way, whatever is resent, verified or rolled back meanwhile.
THEOREM GuessesStayBounded == G!SignInAssumption /\ G!Spec => []G!OtpGuessesBounded
  BY InitSignInInv, SignInInvInductive, SignInInvBounds, PTL DEF G!Spec

-----------------------------------------------------------------------------
(* SignalInbox *)

Kinds == {"alloc", "tts", "focus"}
Keys == [kind : Kinds, signal : Signals \union {"any"}, bucket : Int]
Messages == [key : Keys, at : Nat]
NoKey == [kind |-> "none"]
Todos == {<<>>, <<"focus">>, <<"alloc", "tts", "prune">>, <<"tts", "prune">>, <<"prune">>}
SyncType == [pc : {"idle", "look", "insert", "delete"}, todo : Todos, hour : Nat, key : Keys \union {NoKey}, old : SUBSET Nat]

\* A row that Keep newer ones have pushed out.
Pushed(i) == i \in DOMAIN made /\ Len(made) - i >= Keep

\* The key of a message at hand: that of an hour or of ten minutes began
\* before now.
KeyIsPast(k) == k.kind # "alloc" => k.bucket <= now
AtHand(c) ==
    /\ sync[c].pc \in {"look", "insert"} => sync[c].todo # <<>>
    /\ sync[c].pc = "insert" => sync[c].key \in Keys /\ KeyIsPast(sync[c].key)

\* An idea whose window is over.
Stale(i) == made[i].key.kind = "alloc" /\ now - made[i].at > AllocWindow

InboxTypes ==
    /\ now \in Nat /\ made \in Seq(Messages) /\ sync \in [Syncs -> SyncType]
    /\ gone \subseteq Nat /\ raced \in BOOLEAN
    /\ \A c \in Syncs : AtHand(c) /\ sync[c].hour <= now

\* Rows were made no later than now, and not before their hour.
MadeInTime ==
    \A i \in DOMAIN made : made[i].at <= now /\ (made[i].key.kind # "alloc" => made[i].key.bucket <= made[i].at)

\* What was deleted, or is to be, has been pushed out.
Pruned ==
    /\ \A i \in gone : Pushed(i)
    /\ \A c \in Syncs : \A i \in sync[c].old : Pushed(i)

\* A message about to be inserted is about to be inserted once, and is not
\* there already, up to what SaidOnce excepts.
NewsIsNew ==
    \A c \in Syncs : sync[c].pc = "insert" =>
       /\ \A d \in Syncs \ {c} : sync[d].pc = "insert" => sync[d].key # sync[c].key
       /\ \A i \in DOMAIN made : made[i].key = sync[c].key => Pushed(i) \/ Stale(i)

\* The inductive invariant.
InboxInv == I!InboxAssumption /\ InboxTypes /\ MadeInTime /\ Pruned /\ (~raced => NewsIsNew /\ I!SaidOnce)

\* A sync comes to its signals before the window of their key is over.
Prompt == \A c \in Syncs : sync[c].pc = "look" /\ sync[c].todo = <<"tts", "prune">> => now - sync[c].hour <= 5

InboxMoved(c) == sync' \in [Syncs -> SyncType] /\ \A d \in Syncs \ {c} : sync'[d] = sync[d]

-----------------------------------------------------------------------------

LEMMA InboxNumbers ==
    ASSUME InboxInv
    PROVE  /\ Keep \in Nat \ {0} /\ Day \in Nat \ {0} /\ AllocWindow \in Nat /\ now \in Nat
           /\ made \in Seq(Messages) /\ Len(made) \in Nat /\ DOMAIN made = 1..Len(made)
           /\ \A i \in DOMAIN made : made[i] \in Messages /\ made[i].at \in Nat /\ made[i].key \in Keys
           /\ sync \in [Syncs -> SyncType]
  <1>1. Keep \in Nat \ {0} /\ Day \in Nat \ {0} /\ AllocWindow \in Nat /\ now \in Nat
    BY DEF InboxInv, I!InboxAssumption, InboxTypes
  <1>2. made \in Seq(Messages) /\ sync \in [Syncs -> SyncType]
    BY DEF InboxInv, InboxTypes
  <1>3. Len(made) \in Nat /\ DOMAIN made = 1..Len(made) /\ \A i \in DOMAIN made : made[i] \in Messages
    BY <1>2
  <1>4. \A i \in DOMAIN made : made[i].at \in Nat /\ made[i].key \in Keys
    BY <1>3 DEF Messages
  <1> QED BY <1>1, <1>2, <1>3, <1>4

\* A sync that is over, and one that goes on to its next message.
LEMMA UnaskedType ==
    /\ I!Unasked \in SyncType /\ I!Unasked.pc = "idle" /\ I!Unasked.old = {} /\ I!Unasked.hour = 0
    /\ I!Unasked.todo = <<>>
  BY DEF I!Unasked, SyncType, Todos, NoKey

LEMMA AdvanceType ==
    ASSUME InboxInv, NEW c \in Syncs, sync[c].todo # <<>>
    PROVE  /\ I!Advance(c) \in SyncType /\ I!Advance(c).pc \in {"idle", "look"} /\ I!Advance(c).old = {}
           /\ I!Advance(c).hour \in {0, sync[c].hour} /\ (I!Advance(c).pc = "look" => I!Advance(c).todo # <<>>)
  <1>1. sync[c].todo \in Todos \ {<<>>} /\ sync[c].hour \in Nat
    BY InboxNumbers DEF SyncType
  <1>2. Len(sync[c].todo) = 1 \/ Tail(sync[c].todo) \in Todos
    <2>1. Tail(<<"alloc", "tts", "prune">>) = <<"tts", "prune">>
      OBVIOUS
    <2>2. Tail(<<"tts", "prune">>) = <<"prune">>
      OBVIOUS
    <2>3. Len(<<"focus">>) = 1 /\ Len(<<"prune">>) = 1
      OBVIOUS
    <2> QED BY <1>1, <2>1, <2>2, <2>3, Zenon DEF Todos
  <1> DEFINE t == Tail(sync[c].todo)
             v == [I!Unasked EXCEPT !.pc = "look", !.hour = sync[c].hour, !.todo = t]
  <1>3. t \in Todos => v \in SyncType /\ v.pc = "look" /\ v.old = {} /\ v.hour = sync[c].hour /\ v.todo = t
    <2> HIDE DEF t
    <2> QED BY <1>1, UnaskedType DEF SyncType
  <1>4. Len(sync[c].todo) # 1 => t # <<>>
    <2>1. Tail(<<"alloc", "tts", "prune">>) # <<>> /\ Tail(<<"tts", "prune">>) # <<>>
      OBVIOUS
    <2>2. Len(<<"focus">>) = 1 /\ Len(<<"prune">>) = 1
      OBVIOUS
    <2> QED BY <1>1, <2>1, <2>2, Zenon DEF Todos
  <1> HIDE DEF t
  <1> QED BY <1>2, <1>3, <1>4, UnaskedType DEF I!Advance, t

\* A step that inserts nothing and brings no message to hand.
LEMMA QuietKeepsInbox ==
    ASSUME InboxInv, NEW c \in Syncs, InboxMoved(c), UNCHANGED <<now, made, raced>>,
           sync'[c].pc # "insert", sync'[c].hour <= now, sync'[c].pc = "look" => sync'[c].todo # <<>>,
           \A i \in sync'[c].old \union gone' : Pushed(i)
    PROVE  InboxInv'
  <1>1. \A i : Pushed(i)' <=> Pushed(i)
    BY DEF Pushed
  <1>2. \A i : Stale(i)' <=> Stale(i)
    BY DEF Stale
  <1>3. \A k : KeyIsPast(k)' <=> KeyIsPast(k)
    BY DEF KeyIsPast
  <1>4. InboxTypes'
    <2>1. gone' \subseteq Nat
      BY InboxNumbers DEF Pushed
    <2>2. \A d \in Syncs : AtHand(d)' /\ sync'[d].hour <= now
      BY <1>3 DEF InboxInv, InboxTypes, InboxMoved, AtHand
    <2> QED BY <2>1, <2>2 DEF InboxInv, InboxTypes, InboxMoved
  <1>5. MadeInTime'
    BY DEF InboxInv, MadeInTime
  <1>6. Pruned'
    BY <1>1 DEF InboxInv, Pruned, InboxMoved
  <1>7. NewsIsNew => NewsIsNew'
    BY <1>1, <1>2 DEF NewsIsNew, InboxMoved
  <1>8. (~raced => I!SaidOnce) => (~raced' => I!SaidOnce')
    BY DEF I!SaidOnce
  <1> QED BY <1>4, <1>5, <1>6, <1>7, <1>8 DEF InboxInv, I!InboxAssumption

LEMMA HeadsAndTails ==
    /\ Head(<<"focus">>) = "focus" /\ Head(<<"alloc", "tts", "prune">>) = "alloc"
    /\ Head(<<"tts", "prune">>) = "tts" /\ Head(<<"prune">>) = "prune"
  OBVIOUS

\* An actor replaced by v.
LEMMA InboxStep ==
    ASSUME InboxInv, NEW c \in Syncs, NEW v \in SyncType, sync' = [sync EXCEPT ![c] = v]
    PROVE  InboxMoved(c) /\ sync'[c] = v
  BY InboxNumbers DEF InboxMoved

LEMMA RequestKeepsInbox ==
    ASSUME InboxInv, NEW c \in Syncs, NEW route \in I!Routes, I!Request(c, route)
    PROVE  InboxInv'
  <1> DEFINE v == [I!Unasked EXCEPT !.pc = "look", !.hour = now, !.todo = <<"alloc", "tts", "prune">>]
             w == [I!Unasked EXCEPT !.pc = "look", !.todo = <<"focus">>]
  <1>1. v \in SyncType /\ v.pc = "look" /\ v.old = {} /\ v.hour = now /\ v.todo # <<>>
    BY UnaskedType, InboxNumbers DEF SyncType, Todos
  <1>2. w \in SyncType /\ w.pc = "look" /\ w.old = {} /\ w.hour = 0 /\ w.todo # <<>>
    BY UnaskedType DEF SyncType, Todos
  <1>3. sync' = [sync EXCEPT ![c] = v] \/ sync' = [sync EXCEPT ![c] = w]
    BY Zenon DEF I!Request
  <1>4. UNCHANGED <<now, made, gone, raced>>
    BY DEF I!Request
  <1> HIDE DEF v, w
  <1>5. InboxMoved(c) /\ sync'[c] \in {v, w}
    BY <1>1, <1>2, <1>3, InboxStep
  <1>6. 0 <= now /\ \A i \in gone : Pushed(i)
    BY InboxNumbers DEF InboxInv, Pruned
  <1> QED BY <1>1, <1>2, <1>4, <1>5, <1>6, QuietKeepsInbox, InboxNumbers

\* On to the next message, or done.
LEMMA AdvanceKeepsInbox ==
    ASSUME InboxInv, NEW c \in Syncs, sync[c].pc \in {"look", "insert"}, sync' = [sync EXCEPT ![c] = I!Advance(c)],
           UNCHANGED <<now, made, gone, raced>>
    PROVE  InboxInv'
  <1>1. sync[c].todo # <<>> /\ sync[c].hour <= now
    BY DEF InboxInv, InboxTypes, AtHand
  <1>2. InboxMoved(c) /\ sync'[c] = I!Advance(c)
    BY <1>1, AdvanceType, InboxStep
  <1>3. 0 <= now /\ \A i \in gone : Pushed(i)
    BY InboxNumbers DEF InboxInv, Pruned
  <1> QED BY <1>1, <1>2, <1>3, AdvanceType, QuietKeepsInbox

\* The key under which a sync looks.
LEMMA KeyOfMessage ==
    ASSUME InboxInv, NEW c \in Syncs, sync[c].pc = "look", Head(sync[c].todo) # "prune", NEW signal \in Signals \union {"any"}
    PROVE  LET k == I!KeyOf(c, signal)
           IN  /\ k \in Keys /\ KeyIsPast(k)
               /\ k.kind = "focus" => k.bucket = now
               /\ k.kind = "tts" => k.bucket = sync[c].hour /\ sync[c].todo = <<"tts", "prune">>
  <1>1. sync[c].todo \in Todos \ {<<>>} /\ sync[c].hour \in Nat /\ sync[c].hour <= now
    BY InboxNumbers DEF SyncType, InboxInv, InboxTypes, AtHand
  <1> DEFINE kind == Head(sync[c].todo)
             k == I!KeyOf(c, signal)
  <1>2. kind \in Kinds /\ (kind = "tts" => sync[c].todo = <<"tts", "prune">>)
    BY <1>1, HeadsAndTails, Zenon DEF Todos, Kinds
  <1> DEFINE bucket == CASE kind = "alloc" -> now \div Day [] kind = "tts" -> sync[c].hour [] kind = "focus" -> now
  <1>3. k = [kind |-> kind, signal |-> signal, bucket |-> bucket]
    BY DEF I!KeyOf
  <1> HIDE DEF kind, k
  <1>4. /\ bucket \in Int /\ (kind = "focus" => bucket = now) /\ (kind = "tts" => bucket = sync[c].hour)
    <2>1. now \div Day \in Int
      BY InboxNumbers
    <2> HIDE DEF kind
    <2> QED BY <1>1, <1>2, <2>1, InboxNumbers DEF Kinds
  <1> HIDE DEF bucket
  <1>5. k \in Keys /\ k.kind = kind /\ k.bucket = bucket
    BY <1>2, <1>3, <1>4 DEF Keys
  <1>6. KeyIsPast(k)
    BY <1>1, <1>2, <1>4, <1>5, InboxNumbers DEF KeyIsPast, Kinds
  <1> QED BY <1>2, <1>4, <1>5, <1>6 DEF k

LEMMA LookKeepsInbox == ASSUME InboxInv, Prompt, NEW c \in Syncs, I!Look(c) PROVE InboxInv'
  <1>1. sync[c].pc = "look" /\ Head(sync[c].todo) # "prune" /\ UNCHANGED <<now, made, gone>>
    BY DEF I!Look
  <1>2. PICK signal \in Signals \union {"any"} :
          IF I!Exists(I!KeyOf(c, signal)) THEN sync' = [sync EXCEPT ![c] = I!Advance(c)] /\ UNCHANGED raced
          ELSE /\ sync' = [sync EXCEPT ![c].pc = "insert", ![c].key = I!KeyOf(c, signal)]
               /\ raced' = (raced \/ \E d \in Syncs \ {c} : sync[d].pc = "insert" /\ sync[d].key = I!KeyOf(c, signal))
    BY Zenon DEF I!Look
  <1> DEFINE k == I!KeyOf(c, signal)
  <1>3. /\ k \in Keys /\ KeyIsPast(k)
        /\ k.kind = "focus" => k.bucket = now
        /\ k.kind = "tts" => k.bucket = sync[c].hour /\ sync[c].todo = <<"tts", "prune">>
    BY <1>1, KeyOfMessage
  <1> HIDE DEF k
  <1>4. CASE I!Exists(k)
    BY <1>1, <1>2, <1>4, AdvanceKeepsInbox DEF k
  <1>5. CASE ~I!Exists(k)
    <2> DEFINE v == [sync[c] EXCEPT !.pc = "insert", !.key = k]
    <2>1. v \in SyncType /\ v.pc = "insert" /\ v.key = k /\ v.old = sync[c].old /\ v.hour = sync[c].hour /\ v.todo = sync[c].todo
      BY <1>3, InboxNumbers DEF SyncType
    <2>2. sync' = [sync EXCEPT ![c] = v]
          /\ raced' = (raced \/ \E d \in Syncs \ {c} : sync[d].pc = "insert" /\ sync[d].key = k)
      BY <1>2, <1>5 DEF k
    <2> HIDE DEF v
    <2>3. InboxMoved(c) /\ sync'[c] = v
      BY <2>1, <2>2, InboxStep
    <2>4. \A i : (Pushed(i)' <=> Pushed(i)) /\ (Stale(i)' <=> Stale(i)) /\ (KeyIsPast(i)' <=> KeyIsPast(i))
      BY <1>1 DEF Pushed, Stale, KeyIsPast
    <2>5. InboxTypes'
      <3>1. \A d \in Syncs : AtHand(d)' /\ sync'[d].hour <= now
        BY <1>1, <1>3, <2>1, <2>3, <2>4 DEF InboxInv, InboxTypes, InboxMoved, AtHand
      <3>2. raced' \in BOOLEAN
        BY <2>2 DEF InboxInv, InboxTypes
      <3> QED BY <1>1, <2>3, <3>1, <3>2 DEF InboxInv, InboxTypes, InboxMoved
    <2>6. MadeInTime'
      BY <1>1 DEF InboxInv, MadeInTime
    <2>7. Pruned'
      BY <1>1, <2>1, <2>3, <2>4 DEF InboxInv, Pruned, InboxMoved
    <2>8. \A i \in DOMAIN made : made[i].key = k => Pushed(i) \/ Stale(i)
      <3> SUFFICES ASSUME NEW i \in DOMAIN made, made[i].key = k, i \notin gone PROVE Stale(i)
        BY DEF InboxInv, Pruned
      <3>1. ~(now - made[i].at <= I!Window(k.kind))
        BY <1>5 DEF I!Exists, I!Table
      <3>2. made[i].at \in Nat /\ (k.kind # "alloc" => k.bucket <= made[i].at) /\ k.bucket \in Int /\ k.kind \in Kinds
        BY <1>3, InboxNumbers DEF InboxInv, MadeInTime, Keys
      <3>3. k.kind = "tts" => now - sync[c].hour <= 5 /\ sync[c].hour \in Nat
        BY <1>1, <1>3, InboxNumbers DEF Prompt, SyncType
      <3>4. CASE k.kind = "alloc"
        BY <3>1, <3>2, <3>4, InboxNumbers DEF I!Window, Stale
      <3>5. CASE k.kind = "tts"
        BY <1>3, <3>1, <3>2, <3>3, <3>5, InboxNumbers DEF I!Window
      <3>6. CASE k.kind = "focus"
        BY <1>3, <3>1, <3>2, <3>6, InboxNumbers DEF I!Window
      <3> QED BY <3>2, <3>4, <3>5, <3>6 DEF Kinds
    <2>9. ~raced' => NewsIsNew' /\ I!SaidOnce'
      <3> SUFFICES ASSUME ~raced' PROVE NewsIsNew' /\ I!SaidOnce'
        OBVIOUS
      <3>1. ~raced /\ \A d \in Syncs \ {c} : ~(sync[d].pc = "insert" /\ sync[d].key = k)
        BY <2>2
      <3>2. NewsIsNew'
        BY <1>1, <2>1, <2>3, <2>4, <2>8, <3>1 DEF InboxInv, NewsIsNew, InboxMoved
      <3>3. I!SaidOnce'
        BY <1>1, <3>1 DEF InboxInv, I!SaidOnce
      <3> QED BY <3>2, <3>3
    <2> QED BY <2>5, <2>6, <2>7, <2>9 DEF InboxInv, I!InboxAssumption
  <1> QED BY <1>4, <1>5

LEMMA InsertKeepsInbox == ASSUME InboxInv, NEW c \in Syncs, I!Insert(c) PROVE InboxInv'
  <1> DEFINE m == [key |-> sync[c].key, at |-> now]
             n == Len(made) + 1
  <1>1. sync[c].pc = "insert" /\ made' = Append(made, m) /\ sync' = [sync EXCEPT ![c] = I!Advance(c)]
        /\ UNCHANGED <<now, gone, raced>>
    BY DEF I!Insert
  <1>2. sync[c].key \in Keys /\ KeyIsPast(sync[c].key) /\ sync[c].todo # <<>> /\ sync[c].hour <= now
    BY <1>1 DEF InboxInv, InboxTypes, AtHand
  <1>3. m \in Messages /\ m.key = sync[c].key /\ m.at = now
    BY <1>2, InboxNumbers DEF Messages
  <1> HIDE DEF m
  <1>4. /\ made' \in Seq(Messages) /\ Len(made') = n /\ DOMAIN made' = DOMAIN made \union {n} /\ n \notin DOMAIN made
        /\ made'[n] = m /\ \A i \in DOMAIN made : made'[i] = made[i]
    BY <1>1, <1>3, InboxNumbers
  <1>5. InboxMoved(c) /\ sync'[c] = I!Advance(c)
    BY <1>1, <1>2, AdvanceType, InboxStep
  <1>6. \A i : Pushed(i) => Pushed(i)'
    BY <1>4, InboxNumbers DEF Pushed
  <1>7. \A i \in DOMAIN made : Stale(i) => Stale(i)'
    BY <1>1, <1>4 DEF Stale
  <1>8. InboxTypes'
    <2>1. \A d \in Syncs : AtHand(d)' /\ sync'[d].hour <= now
      BY <1>1, <1>2, <1>5, AdvanceType, InboxNumbers DEF InboxInv, InboxTypes, InboxMoved, AtHand, KeyIsPast
    <2> QED BY <1>1, <1>4, <1>5, <2>1 DEF InboxInv, InboxTypes, InboxMoved
  <1>9. MadeInTime'
    BY <1>1, <1>2, <1>3, <1>4, InboxNumbers DEF InboxInv, MadeInTime, KeyIsPast
  <1>10. Pruned'
    BY <1>1, <1>2, <1>5, <1>6, AdvanceType DEF InboxInv, Pruned, InboxMoved
  <1>11. ~raced => NewsIsNew'
    <2> SUFFICES ASSUME NewsIsNew, NEW d \in Syncs, d # c, sync'[d].pc = "insert"
                 PROVE  /\ \A b \in Syncs \ {d} : sync'[b].pc = "insert" => sync'[b].key # sync'[d].key
                        /\ \A i \in DOMAIN made' : made'[i].key = sync'[d].key => Pushed(i)' \/ Stale(i)'
      BY <1>2, <1>5, AdvanceType DEF InboxInv, NewsIsNew
    <2>1. sync'[d] = sync[d] /\ sync[d].key # sync[c].key
      BY <1>1, <1>5 DEF NewsIsNew, InboxMoved
    <2>2. \A b \in Syncs \ {d} : sync'[b].pc = "insert" => b # c /\ sync'[b] = sync[b]
      BY <1>2, <1>5, AdvanceType DEF InboxMoved
    <2>3. \A i \in DOMAIN made : made[i].key = sync[d].key => Pushed(i) \/ Stale(i)
      BY <2>1 DEF NewsIsNew
    <2> QED BY <1>3, <1>4, <1>6, <1>7, <2>1, <2>2, <2>3 DEF NewsIsNew
  <1>12. ~raced => I!SaidOnce'
    <2> SUFFICES ASSUME ~raced, NEW i \in DOMAIN made', NEW j \in DOMAIN made', i < j, made'[i].key = made'[j].key
                 PROVE  j - i > Keep \/ (made'[i].key.kind = "alloc" /\ made'[j].at - made'[i].at > AllocWindow)
      BY <1>1 DEF I!SaidOnce
    <2>1. i \in DOMAIN made
      BY <1>4, InboxNumbers
    <2>2. CASE j \in DOMAIN made
      BY <1>4, <2>1, <2>2 DEF InboxInv, I!SaidOnce
    <2>3. CASE j = n
      <3>1. Pushed(i) \/ Stale(i)
        BY <1>1, <1>3, <1>4, <2>1, <2>3 DEF InboxInv, NewsIsNew
      <3> QED BY <1>3, <1>4, <2>1, <2>3, <3>1, InboxNumbers DEF Pushed, Stale
    <2> QED BY <1>4, <2>2, <2>3
  <1> QED BY <1>1, <1>8, <1>9, <1>10, <1>11, <1>12 DEF InboxInv, I!InboxAssumption

LEMMA SkipKeepsInbox == ASSUME InboxInv, NEW c \in Syncs, I!Skip(c) PROVE InboxInv'
  BY AdvanceKeepsInbox DEF I!Skip

\* A row with Keep newer ones in the table has been pushed out: each of them
\* was inserted after it.
LEMMA NewerPushOut ==
    ASSUME InboxInv, NEW i \in I!Table, I!Cardinality({j \in I!Table : j > i}) >= Keep
    PROVE  Pushed(i)
  <1> DEFINE newer == {j \in I!Table : j > i}
             after == (i + 1)..Len(made)
  <1>1. i \in 1..Len(made) /\ i \in Int /\ Len(made) \in Int /\ Keep \in Nat
    BY InboxNumbers DEF I!Table
  <1>2. newer \subseteq after
    BY <1>1, InboxNumbers DEF I!Table
  <1>3. IsFiniteSet(after) /\ Cardinality(after) = Len(made) - i
    <2> HIDE DEF after
    <2>0. i + 1 \in Int /\ Len(made) \in Int
      BY <1>1
    <2>1. /\ IsFiniteSet((i + 1)..Len(made))
          /\ Cardinality((i + 1)..Len(made)) = IF i + 1 > Len(made) THEN 0 ELSE Len(made) - (i + 1) + 1
      BY <2>0, FS_Interval, Zenon
    <2> QED BY <1>1, <2>1 DEF after
  <1> HIDE DEF newer, after
  <1>4. Cardinality(newer) <= Cardinality(after) /\ Cardinality(newer) \in Nat
    BY <1>2, <1>3, FS_Subset, FS_CardinalityType
  <1>5. I!Cardinality(newer) = Cardinality(newer)
    BY DEF I!Cardinality, Cardinality
  <1>6. Cardinality(newer) >= Keep
    BY <1>5 DEF newer
  <1> QED BY <1>1, <1>3, <1>4, <1>6, InboxNumbers DEF Pushed, I!Table

LEMMA FindOldKeepsInbox == ASSUME InboxInv, NEW c \in Syncs, I!FindOld(c) PROVE InboxInv'
  <1> DEFINE old == {i \in I!Table : I!Cardinality({j \in I!Table : j > i}) >= Keep}
             v == [sync[c] EXCEPT !.pc = "delete", !.old = old]
  <1>1. /\ sync[c].pc = "look" /\ sync' = [sync EXCEPT ![c] = v] /\ UNCHANGED <<now, made, gone, raced>>
    BY DEF I!FindOld
  <1>2. \A i \in old : Pushed(i)
    BY NewerPushOut
  <1>3. old \subseteq Nat
    BY InboxNumbers DEF I!Table
  <1> HIDE DEF old
  <1>4. v \in SyncType /\ v.pc = "delete" /\ v.old = old /\ v.hour = sync[c].hour
    BY <1>3, InboxNumbers DEF SyncType
  <1> HIDE DEF v
  <1>5. InboxMoved(c) /\ sync'[c] = v
    BY <1>1, <1>4, InboxStep
  <1>6. sync[c].hour <= now /\ \A i \in gone : Pushed(i)
    BY DEF InboxInv, InboxTypes, Pruned
  <1> QED BY <1>1, <1>2, <1>4, <1>5, <1>6, QuietKeepsInbox

LEMMA DeleteOldKeepsInbox == ASSUME InboxInv, NEW c \in Syncs, I!DeleteOld(c) PROVE InboxInv'
  <1>1. gone' = gone \union sync[c].old /\ sync' = [sync EXCEPT ![c] = I!Unasked] /\ UNCHANGED <<now, made, raced>>
    BY DEF I!DeleteOld
  <1>2. InboxMoved(c) /\ sync'[c] = I!Unasked
    BY <1>1, UnaskedType, InboxStep
  <1>3. 0 <= now /\ \A i \in gone' : Pushed(i)
    BY <1>1, InboxNumbers DEF InboxInv, Pruned
  <1> QED BY <1>1, <1>2, <1>3, UnaskedType, QuietKeepsInbox

LEMMA FailKeepsInbox == ASSUME InboxInv, NEW c \in Syncs, I!Fail(c) PROVE InboxInv'
  <1>1. sync' = [sync EXCEPT ![c] = I!Unasked] /\ UNCHANGED <<now, made, gone, raced>>
    BY DEF I!Fail
  <1>2. InboxMoved(c) /\ sync'[c] = I!Unasked
    BY <1>1, UnaskedType, InboxStep
  <1>3. 0 <= now /\ \A i \in gone : Pushed(i)
    BY InboxNumbers DEF InboxInv, Pruned
  <1> QED BY <1>1, <1>2, <1>3, UnaskedType, QuietKeepsInbox

\* Time makes ideas stale and keys past, never the other way round.
LEMMA TickKeepsInbox == ASSUME InboxInv, I!Tick PROVE InboxInv'
  <1>1. now' = now + 1 /\ now' \in Nat /\ now <= now' /\ UNCHANGED <<made, gone, sync, raced>>
    BY InboxNumbers DEF I!Tick
  <1>2. \A i : Pushed(i)' <=> Pushed(i)
    BY <1>1 DEF Pushed
  <1>3. \A i \in DOMAIN made : Stale(i) => Stale(i)'
    BY <1>1, InboxNumbers DEF Stale
  <1>4. InboxTypes'
    <2>1. \A c \in Syncs : AtHand(c)'
      BY <1>1, InboxNumbers DEF InboxInv, InboxTypes, AtHand, KeyIsPast, Keys
    <2>2. \A c \in Syncs : sync'[c].hour <= now'
      BY <1>1, InboxNumbers DEF InboxInv, InboxTypes, SyncType
    <2> QED BY <1>1, <2>1, <2>2 DEF InboxInv, InboxTypes
  <1>5. MadeInTime'
    BY <1>1, InboxNumbers DEF InboxInv, MadeInTime
  <1>6. Pruned'
    BY <1>1, <1>2 DEF InboxInv, Pruned
  <1>7. NewsIsNew => NewsIsNew'
    BY <1>1, <1>2, <1>3 DEF NewsIsNew
  <1>8. I!SaidOnce => I!SaidOnce'
    BY <1>1 DEF I!SaidOnce
  <1> QED BY <1>1, <1>4, <1>5, <1>6, <1>7, <1>8 DEF InboxInv, I!InboxAssumption

-----------------------------------------------------------------------------

LEMMA InitInboxInv == I!InboxAssumption /\ I!Init => InboxInv
  <1> SUFFICES ASSUME I!InboxAssumption, I!Init PROVE InboxInv
    OBVIOUS
  <1>1. now = 0 /\ made = <<>> /\ gone = {} /\ sync = [c \in Syncs |-> I!Unasked] /\ raced = FALSE
    BY DEF I!Init
  <1>2. \A c \in Syncs : sync[c] = I!Unasked
    BY <1>1
  <1>3. sync \in [Syncs -> SyncType]
    BY <1>1, UnaskedType
  <1>4. made \in Seq(Messages) /\ DOMAIN made = {}
    BY <1>1
  <1>5. InboxTypes
    <2>1. \A c \in Syncs : AtHand(c) /\ sync[c].hour <= now
      BY <1>1, <1>2, UnaskedType DEF AtHand
    <2> QED BY <1>1, <1>3, <1>4, <2>1 DEF InboxTypes
  <1>6. MadeInTime /\ I!SaidOnce
    BY <1>4 DEF MadeInTime, I!SaidOnce
  <1>7. Pruned /\ NewsIsNew
    BY <1>1, <1>2, UnaskedType DEF Pruned, NewsIsNew
  <1> QED BY <1>5, <1>6, <1>7 DEF InboxInv

LEMMA InboxInvInductive == InboxInv /\ Prompt /\ [I!Next]_(I!inboxVars) => InboxInv'
  <1> SUFFICES ASSUME InboxInv, Prompt, [I!Next]_(I!inboxVars) PROVE InboxInv'
    OBVIOUS
  <1>1. CASE UNCHANGED I!inboxVars
    <2>1. UNCHANGED <<now, made, gone, sync, raced>>
      BY <1>1 DEF I!inboxVars
    <2>2. \A i : (Pushed(i)' <=> Pushed(i)) /\ (Stale(i)' <=> Stale(i))
      BY <2>1 DEF Pushed, Stale
    <2>3. InboxTypes' /\ MadeInTime'
      BY <2>1 DEF InboxInv, InboxTypes, MadeInTime, AtHand, KeyIsPast
    <2>4. Pruned'
      BY <2>1, <2>2 DEF InboxInv, Pruned
    <2>5. NewsIsNew => NewsIsNew'
      BY <2>1, <2>2 DEF NewsIsNew
    <2>6. I!SaidOnce => I!SaidOnce'
      BY <2>1 DEF I!SaidOnce
    <2> QED BY <2>1, <2>3, <2>4, <2>5, <2>6 DEF InboxInv, I!InboxAssumption
  <1>2. CASE I!Tick
    BY <1>2, TickKeepsInbox
  <1>3. ASSUME NEW c \in Syncs, NEW route \in I!Routes, I!Request(c, route) PROVE InboxInv'
    BY <1>3, RequestKeepsInbox
  <1>4. ASSUME NEW c \in Syncs, I!Look(c) PROVE InboxInv'
    BY <1>4, LookKeepsInbox
  <1>5. ASSUME NEW c \in Syncs, I!Skip(c) PROVE InboxInv'
    BY <1>5, SkipKeepsInbox
  <1>6. ASSUME NEW c \in Syncs, I!Insert(c) PROVE InboxInv'
    BY <1>6, InsertKeepsInbox
  <1>7. ASSUME NEW c \in Syncs, I!FindOld(c) PROVE InboxInv'
    BY <1>7, FindOldKeepsInbox
  <1>8. ASSUME NEW c \in Syncs, I!DeleteOld(c) PROVE InboxInv'
    BY <1>8, DeleteOldKeepsInbox
  <1>9. ASSUME NEW c \in Syncs, I!Fail(c) PROVE InboxInv'
    BY <1>9, FailKeepsInbox
  <1> QED BY <1>1, <1>2, <1>3, <1>4, <1>5, <1>6, <1>7, <1>8, <1>9 DEF I!Next

LEMMA InboxInvMeans == InboxInv => I!SaidOnce /\ I!NewestAreKept
  <1> SUFFICES ASSUME InboxInv PROVE I!SaidOnce /\ I!NewestAreKept
    OBVIOUS
  <1>1. I!SaidOnce
    <2>1. CASE raced
      BY <2>1 DEF I!SaidOnce
    <2>2. CASE ~raced
      BY <2>2 DEF InboxInv
    <2> QED BY <2>1, <2>2
  <1>2. I!NewestAreKept
    BY DEF InboxInv, Pruned, Pushed, I!NewestAreKept
  <1> QED BY <1>1, <1>2

\* inboxService.ts:70-77 and 101-114: provided that a sync comes to its signals
\* within the five buckets their key counts for, a message comes again only if
\* two requests missed it at once, Keep newer ones pushed it out or its window
\* was over, and none of the newest Keep messages is ever deleted.
THEOREM MessagesSaidOnce == I!InboxAssumption /\ I!Spec /\ []Prompt => []I!SaidOnce /\ []I!NewestAreKept
  BY InitInboxInv, InboxInvInductive, InboxInvMeans, PTL DEF I!Spec

\* Prompt holds as long as the clock does not pass five buckets.
ShortClock == LastNow <= 5
ClockInv == ShortClock /\ LastNow \in Nat /\ now \in 0..LastNow

LEMMA ClockInvPrompt == InboxInv /\ ClockInv => Prompt
  <1> SUFFICES ASSUME InboxInv, ClockInv, NEW c \in Syncs PROVE now - sync[c].hour <= 5
    BY DEF Prompt
  <1>1. sync[c].hour \in Nat
    BY InboxNumbers DEF SyncType
  <1> QED BY <1>1 DEF ClockInv, ShortClock

LEMMA InitClockInv == I!InboxAssumption /\ ShortClock /\ I!Init => ClockInv
  BY DEF I!InboxAssumption, I!Init, ClockInv

LEMMA ClockInvInductive == ClockInv /\ [I!Next]_(I!inboxVars) => ClockInv'
  <1> SUFFICES ASSUME ClockInv, [I!Next]_(I!inboxVars) PROVE ClockInv'
    OBVIOUS
  <1>1. now' = now \/ (now < LastNow /\ now' = now + 1)
    <2>1. CASE UNCHANGED I!inboxVars
      BY <2>1 DEF I!inboxVars
    <2>2. CASE I!Tick
      BY <2>2 DEF I!Tick
    <2>3. ASSUME NEW c \in Syncs, NEW route \in I!Routes, I!Request(c, route) PROVE now' = now
      BY <2>3 DEF I!Request
    <2>4. ASSUME NEW c \in Syncs, I!Look(c) \/ I!Skip(c) \/ I!Insert(c) PROVE now' = now
      BY <2>4 DEF I!Look, I!Skip, I!Insert
    <2>5. ASSUME NEW c \in Syncs, I!FindOld(c) \/ I!DeleteOld(c) \/ I!Fail(c) PROVE now' = now
      BY <2>5 DEF I!FindOld, I!DeleteOld, I!Fail
    <2> QED BY <2>1, <2>2, <2>3, <2>4, <2>5 DEF I!Next
  <1> QED BY <1>1 DEF ClockInv, ShortClock

-----------------------------------------------------------------------------
(* Alerts *)

AlertType == [id : Nat, attempt : Nat]
DrainType == [pc : {"asleep", "loop", "send"}, chat : AlertChats \union {"none"}, msg : Nat]
Fates == {"waits", "none", "sent", "failed"}

AlertTypes ==
    /\ alerts \in Nat /\ drain \in [Drains -> DrainType] /\ line \in [AlertChats -> Seq(AlertType)]
    /\ arrived \in [AlertChats -> Seq(Nat)] /\ told \in [AlertChats -> Seq(Fates)]

\* The messages in a queue are in the order they were made, and they are those
\* whose callers still wait.
LineInOrder(c) == \A i, j \in DOMAIN line[c] : i < j => line[c][i].id < line[c][j].id
InLine(c, m) == \E i \in DOMAIN line[c] : line[c][i].id = m
Waits(c, m) == m \in DOMAIN told[c] /\ told[c][m] = "waits"

\* What was told as sent arrived, in order, and before what is in the queue.
Came(c, m) == \E i \in DOMAIN arrived[c] : arrived[c][i] = m
ArrivedInOrder(c) ==
    /\ \A i, j \in DOMAIN arrived[c] : i < j => arrived[c][i] <= arrived[c][j]
    /\ \A i \in DOMAIN arrived[c] : /\ arrived[c][i] <= alerts
                                    /\ \A k \in DOMAIN line[c] : arrived[c][i] <= line[c][k].id

Orderly(c) ==
    /\ Len(told[c]) = alerts /\ LineInOrder(c) /\ ArrivedInOrder(c)
    /\ \A m \in Nat : InLine(c, m) <=> Waits(c, m)
    /\ \A m \in DOMAIN told[c] : told[c][m] = "sent" => Came(c, m)

\* A queue that is not empty has a drain, never two, and a drain that sends is
\* sending the head of its queue.
AtHead(d) == drain[d].pc = "send" => line[drain[d].chat] # <<>> /\ drain[d].msg = line[drain[d].chat][1].id
Served ==
    /\ \A c \in AlertChats : line[c] # <<>> => A!Draining(c)
    /\ \A d, b \in Drains : drain[d].chat = drain[b].chat /\ drain[d].chat # "none" => d = b
    /\ \A d \in Drains : AtHead(d) /\ (drain[d].pc # "asleep" => drain[d].chat # "none")

QueueInv == A!AlertsAssumption /\ AlertTypes /\ (\A c \in AlertChats : Orderly(c)) /\ Served

\* The milestones announced rise, and the last one is remembered.
Climbs ==
    /\ A!AlertsAssumption /\ position \in [id : Nat, profit : Nat] /\ mark \in Int /\ fired \in Seq(Nat)
    /\ \A i, j \in DOMAIN fired : i < j => fired[i] < fired[j]
    /\ \A i \in DOMAIN fired : fired[i] <= mark

-----------------------------------------------------------------------------

LEMMA QueueNumbers ==
    ASSUME QueueInv
    PROVE  /\ alerts \in Nat /\ drain \in [Drains -> DrainType] /\ "none" \notin AlertChats
           /\ \A c \in AlertChats : /\ line[c] \in Seq(AlertType) /\ arrived[c] \in Seq(Nat) /\ told[c] \in Seq(Fates)
                                    /\ DOMAIN told[c] = 1..alerts
           /\ A!Asleep \in DrainType /\ A!Asleep.pc = "asleep" /\ A!Asleep.chat = "none"
  <1>1. alerts \in Nat /\ drain \in [Drains -> DrainType] /\ "none" \notin AlertChats
    BY DEF QueueInv, AlertTypes, A!AlertsAssumption
  <1>2. \A c \in AlertChats : line[c] \in Seq(AlertType) /\ arrived[c] \in Seq(Nat) /\ told[c] \in Seq(Fates)
    BY DEF QueueInv, AlertTypes
  <1>3. \A c \in AlertChats : DOMAIN told[c] = 1..alerts
    BY <1>2 DEF QueueInv, Orderly
  <1>4. A!Asleep \in DrainType /\ A!Asleep.pc = "asleep" /\ A!Asleep.chat = "none"
    BY DEF A!Asleep, DrainType
  <1> QED BY <1>1, <1>2, <1>3, <1>4

\* A queue that is left alone.
LEMMA OrderlyElsewhere ==
    ASSUME NEW c, Orderly(c), alerts' = alerts, line'[c] = line[c], told'[c] = told[c], arrived'[c] = arrived[c]
    PROVE  Orderly(c)'
  BY DEF Orderly, LineInOrder, InLine, Waits, Came, ArrivedInOrder

\* What is in a queue was made.
LEMMA IdsAreAlerts ==
    ASSUME QueueInv, NEW c \in AlertChats, NEW i \in DOMAIN line[c]
    PROVE  line[c][i].id \in 1..alerts
  <1>1. line[c][i] \in AlertType
    BY QueueNumbers
  <1>2. line[c][i].id \in Nat
    BY <1>1 DEF AlertType
  <1>3. Waits(c, line[c][i].id)
    BY <1>2 DEF QueueInv, Orderly, InLine
  <1> QED BY <1>3, QueueNumbers DEF Waits

\* A sequence that rises still does with a last element as large as any.
LEMMA AppendRises ==
    ASSUME NEW s \in Seq(Nat), NEW m \in Nat, \A i \in DOMAIN s : s[i] <= m,
           \A i, j \in DOMAIN s : i < j => s[i] <= s[j]
    PROVE  /\ Append(s, m) \in Seq(Nat) /\ \E i \in DOMAIN Append(s, m) : Append(s, m)[i] = m
           /\ \A i \in DOMAIN s : i \in DOMAIN Append(s, m) /\ Append(s, m)[i] = s[i]
           /\ \A i \in DOMAIN Append(s, m) : Append(s, m)[i] \in Nat /\ Append(s, m)[i] <= m
           /\ \A i, j \in DOMAIN Append(s, m) : i < j => Append(s, m)[i] <= Append(s, m)[j]
  <1>1. PICK r, n : r = Append(s, m) /\ n = Len(s) + 1
    OBVIOUS
  <1>2. /\ r \in Seq(Nat) /\ DOMAIN r = DOMAIN s \union {n} /\ r[n] = m /\ n \in Nat
        /\ \A i \in DOMAIN s : r[i] = s[i] /\ i \in 1..(n - 1)
    BY <1>1
  <1>3. \A i \in DOMAIN r : r[i] \in Nat /\ r[i] <= m
    BY <1>2
  <1>4. ASSUME NEW i \in DOMAIN r, NEW j \in DOMAIN r, i < j PROVE r[i] <= r[j]
    <2>1. CASE j = n
      BY <1>2, <1>3, <2>1
    <2>2. CASE j \in DOMAIN s
      <3>1. i \in DOMAIN s
        BY <1>2, <1>4, <2>2
      <3> QED BY <1>2, <1>4, <2>2, <3>1
    <2> QED BY <1>2, <2>1, <2>2
  <1> QED BY <1>1, <1>2, <1>3, <1>4

\* The head of a queue is given up or told as sent.
LEMMA ShiftKeepsQueues ==
    ASSUME QueueInv, NEW d \in Drains, drain[d].pc = "send", NEW outcome \in {"sent", "failed"}, A!Shift(d, outcome),
           A!Arrives(d) \/ UNCHANGED arrived, outcome = "sent" => A!Arrives(d), alerts' = alerts
    PROVE  QueueInv'
  <1>a. drain[d].chat \in AlertChats /\ line[drain[d].chat] # <<>> /\ drain[d].msg = line[drain[d].chat][1].id
    <2>1. drain[d] \in DrainType
      BY QueueNumbers
    <2> QED BY <2>1 DEF QueueInv, Served, AtHead, DrainType
  <1>b. PICK c, m, q, n, t, v :
          /\ c = drain[d].chat /\ m = drain[d].msg /\ q = line[c] /\ n = Len(q) /\ t = Tail(q)
          /\ v = [drain[d] EXCEPT !.pc = "loop", !.msg = 0]
    OBVIOUS
  <1>1. c \in AlertChats /\ q # <<>> /\ m = q[1].id /\ line[c] = q
    BY <1>a, <1>b
  <1>2. q \in Seq(AlertType) /\ n \in Nat \ {0} /\ DOMAIN q = 1..n /\ 1 \in DOMAIN q
    BY <1>1, <1>b, QueueNumbers
  <1>3. t \in Seq(AlertType) /\ Len(t) = n - 1 /\ DOMAIN t = 1..(n - 1) /\ \A i \in DOMAIN t : i + 1 \in DOMAIN q /\ t[i] = q[i + 1]
    BY <1>1, <1>2, <1>b
  <1>4. m \in 1..alerts
    BY <1>1, <1>2, IdsAreAlerts
  <1>5. \A i \in DOMAIN q : q[i].id \in Nat
    BY <1>1, IdsAreAlerts, QueueNumbers
  <1>6. v \in DrainType /\ v.pc = "loop" /\ v.chat = c
    BY <1>b, QueueNumbers DEF DrainType
  <1>7. /\ line' = [line EXCEPT ![c] = t] /\ told' = [told EXCEPT ![c][m] = outcome] /\ drain' = [drain EXCEPT ![d] = v]
        /\ \/ arrived' = [arrived EXCEPT ![c] = Append(arrived[c], m)]
           \/ outcome # "sent" /\ arrived' = arrived
    BY <1>1, <1>b DEF A!Shift, A!Arrives
  <1>8. drain' \in [Drains -> DrainType] /\ drain'[d] = v /\ \A b \in Drains \ {d} : drain'[b] = drain[b]
    BY <1>6, <1>7, QueueNumbers
  <1>9. line'[c] = t /\ told'[c] = [told[c] EXCEPT ![m] = outcome]
        /\ \A o \in AlertChats \ {c} : line'[o] = line[o] /\ told'[o] = told[o] /\ arrived'[o] = arrived[o]
    BY <1>1, <1>7 DEF QueueInv, AlertTypes
  <1>10. arrived'[c] = Append(arrived[c], m) \/ (outcome # "sent" /\ arrived'[c] = arrived[c])
    BY <1>1, <1>7 DEF QueueInv, AlertTypes
  <1>11. told'[c] \in Seq(Fates) /\ Len(told'[c]) = alerts /\ DOMAIN told'[c] = DOMAIN told[c]
         /\ told'[c][m] = outcome /\ \A k \in DOMAIN told[c] \ {m} : told'[c][k] = told[c][k]
    BY <1>1, <1>4, <1>9, QueueNumbers DEF Fates
  <1>12. arrived'[c] \in Seq(Nat)
    <2>1. arrived[c] \in Seq(Nat) /\ m \in Nat
      BY <1>1, <1>4, QueueNumbers
    <2>2. Append(arrived[c], m) \in Seq(Nat)
      BY <2>1
    <2> QED BY <1>10, <2>1, <2>2, Zenon
  <1>13. AlertTypes'
    BY <1>3, <1>7, <1>8, <1>9, <1>11, <1>12 DEF QueueInv, AlertTypes
  <1>14. \A i \in DOMAIN q : i = 1 \/ (i - 1 \in DOMAIN t /\ t[i - 1] = q[i])
    <2> SUFFICES ASSUME NEW i \in DOMAIN q, i # 1 PROVE i - 1 \in DOMAIN t /\ t[i - 1] = q[i]
      OBVIOUS
    <2>1. i - 1 \in DOMAIN t /\ (i - 1) + 1 = i
      BY <1>2, <1>3
    <2> QED BY <1>3, <2>1
  <1>15. LineInOrder(c) /\ ArrivedInOrder(c)
    BY <1>1 DEF QueueInv, Orderly
  <1>16. \A i \in DOMAIN t : m < t[i].id
    <2> SUFFICES ASSUME NEW i \in DOMAIN t PROVE m < t[i].id
      OBVIOUS
    <2>1. i + 1 \in DOMAIN q /\ 1 < i + 1 /\ t[i] = q[i + 1]
      BY <1>2, <1>3
    <2> QED BY <1>1, <1>2, <1>15, <2>1 DEF LineInOrder
  <1>17. LineInOrder(c)'
    <2> SUFFICES ASSUME NEW i \in DOMAIN t, NEW j \in DOMAIN t, i < j PROVE t[i].id < t[j].id
      BY <1>9 DEF LineInOrder
    <2>1. i + 1 \in DOMAIN q /\ j + 1 \in DOMAIN q /\ i + 1 < j + 1 /\ t[i] = q[i + 1] /\ t[j] = q[j + 1]
      BY <1>3
    <2> QED BY <1>1, <1>15, <2>1 DEF LineInOrder
  <1>18. ArrivedInOrder(c)'
    <2>1. CASE arrived'[c] = arrived[c]
      <3>1. \A i \in DOMAIN arrived[c] : \A k \in DOMAIN t : arrived[c][i] <= t[k].id
        BY <1>1, <1>3, <1>15 DEF ArrivedInOrder
      <3> QED BY <1>7, <1>9, <1>15, <2>1, <3>1 DEF ArrivedInOrder
    <2>2. CASE arrived'[c] = Append(arrived[c], m)
      <3>1. arrived[c] \in Seq(Nat)
        BY <1>1, QueueNumbers
      <3>3. \A i \in DOMAIN arrived[c] : arrived[c][i] <= m
        BY <1>1, <1>2, <1>15 DEF ArrivedInOrder
      <3>4. \A k \in DOMAIN t : t[k].id \in Nat /\ m <= t[k].id
        BY <1>3, <1>4, <1>5, <1>16
      <3>5. \A i \in DOMAIN arrived'[c] : arrived'[c][i] <= m
        BY <1>4, <1>15, <2>2, <3>1, <3>3, AppendRises DEF ArrivedInOrder
      <3>6. \A i, j \in DOMAIN arrived'[c] : i < j => arrived'[c][i] <= arrived'[c][j]
        BY <1>4, <1>15, <2>2, <3>1, <3>3, AppendRises DEF ArrivedInOrder
      <3>7. \A i \in DOMAIN arrived'[c] : arrived'[c][i] \in Nat
        BY <1>12
      <3>8. \A i \in DOMAIN arrived'[c] : arrived'[c][i] <= alerts
        BY <1>4, <3>5, <3>7, QueueNumbers
      <3>9. \A i \in DOMAIN arrived'[c] : \A k \in DOMAIN t : arrived'[c][i] <= t[k].id
        BY <1>4, <3>4, <3>5, <3>7
      <3> QED BY <1>9, <3>6, <3>8, <3>9 DEF ArrivedInOrder
    <2> QED BY <1>10, <2>1, <2>2
  <1>19. \A k \in Nat : InLine(c, k)' <=> Waits(c, k)'
    <2> SUFFICES ASSUME NEW k \in Nat PROVE InLine(c, k)' <=> Waits(c, k)'
      OBVIOUS
    <2>1. InLine(c, k)' <=> \E i \in DOMAIN t : t[i].id = k
      BY <1>9 DEF InLine
    <2>2. Waits(c, k)' <=> k # m /\ Waits(c, k)
      BY <1>4, <1>11 DEF Waits
    <2>3. InLine(c, k) <=> Waits(c, k)
      BY <1>1 DEF QueueInv, Orderly
    <2>4. InLine(c, k) <=> k = m \/ \E i \in DOMAIN t : t[i].id = k
      BY <1>1, <1>2, <1>3, <1>14 DEF InLine
    <2>5. ~\E i \in DOMAIN t : t[i].id = m
      BY <1>4, <1>16
    <2> QED BY <2>1, <2>2, <2>3, <2>4, <2>5
  <1>20. \A k \in DOMAIN told'[c] : told'[c][k] = "sent" => Came(c, k)'
    <2> SUFFICES ASSUME NEW k \in DOMAIN told[c], told'[c][k] = "sent" PROVE Came(c, k)'
      BY <1>11
    <2>0. arrived[c] \in Seq(Nat)
      BY <1>1, QueueNumbers
    <2>1. CASE k = m
      <3>1. arrived'[c] = Append(arrived[c], m)
        BY <1>10, <1>11, <2>1
      <3>2. Len(arrived[c]) + 1 \in DOMAIN arrived'[c] /\ arrived'[c][Len(arrived[c]) + 1] = m
        BY <1>4, <2>0, <3>1
      <3> QED BY <2>1, <3>2 DEF Came
    <2>2. CASE k # m
      <3>1. Came(c, k)
        BY <1>1, <1>11, <2>2 DEF QueueInv, Orderly
      <3>2. \A i \in DOMAIN arrived[c] : i \in DOMAIN arrived'[c] /\ arrived'[c][i] = arrived[c][i]
        <4>1. CASE arrived'[c] = arrived[c]
          BY <4>1
        <4>2. CASE arrived'[c] = Append(arrived[c], m)
          BY <1>4, <2>0, <4>2
        <4> QED BY <1>10, <4>1, <4>2
      <3> QED BY <3>1, <3>2 DEF Came
    <2> QED BY <2>1, <2>2
  <1>21. Orderly(c)'
    BY <1>11, <1>17, <1>18, <1>19, <1>20 DEF Orderly
  <1>22. \A o \in AlertChats : Orderly(o)'
    BY <1>9, <1>21, OrderlyElsewhere DEF QueueInv
  <1>23. Served'
    <2>1. \A b \in Drains : drain'[b].chat = drain[b].chat
      BY <1>b, <1>6, <1>8
    <2>2. \A o \in AlertChats : line'[o] # <<>> => line[o] # <<>>
      BY <1>1, <1>9
    <2>3. \A b \in Drains \ {d} : drain[b].chat \in AlertChats => drain[b].chat # c
      BY <1>1, <1>b, QueueNumbers DEF QueueInv, Served
    <2>4. \A b \in Drains : AtHead(b)'
      <3> SUFFICES ASSUME NEW b \in Drains \ {d}, drain[b].pc = "send" PROVE AtHead(b)'
        BY <1>6, <1>8 DEF AtHead
      <3>1. drain[b].chat \in AlertChats \ {c} /\ AtHead(b)
        BY <2>3, QueueNumbers DEF QueueInv, Served, DrainType
      <3> QED BY <1>8, <1>9, <3>1 DEF AtHead
    <2>5. \A b \in Drains : drain'[b].pc # "asleep" => drain'[b].chat # "none"
      BY <1>1, <1>6, <1>8, QueueNumbers DEF QueueInv, Served
    <2> QED BY <2>1, <2>2, <2>4, <2>5 DEF QueueInv, Served, A!Draining
  <1> QED BY <1>13, <1>22, <1>23 DEF QueueInv, A!AlertsAssumption

\* The head of a queue stays there for another attempt.
LEMMA SendAgainKeepsQueues == ASSUME QueueInv, NEW d \in Drains, A!SendAgain(d) PROVE QueueInv'
  <1>a. drain[d].chat \in AlertChats /\ line[drain[d].chat] # <<>> /\ drain[d].msg = line[drain[d].chat][1].id
    <2>1. drain[d] \in DrainType /\ drain[d].pc = "send"
      BY QueueNumbers DEF A!SendAgain
    <2> QED BY <2>1 DEF QueueInv, Served, AtHead, DrainType
  <1>b. PICK c, m, q, p, v :
          /\ c = drain[d].chat /\ m = drain[d].msg /\ q = line[c] /\ p = [q EXCEPT ![1].attempt = @ + 1]
          /\ v = [drain[d] EXCEPT !.pc = "loop", !.msg = 0]
    OBVIOUS
  <1>1. c \in AlertChats /\ q # <<>> /\ m = q[1].id /\ line[c] = q /\ q \in Seq(AlertType)
    BY <1>a, <1>b, QueueNumbers
  <1>2. p \in Seq(AlertType) /\ DOMAIN p = DOMAIN q /\ p # <<>> /\ \A i \in DOMAIN q : p[i].id = q[i].id
    <2>1. 1 \in DOMAIN q /\ q[1] \in AlertType /\ Len(q) \in Nat /\ DOMAIN q = 1..Len(q)
      BY <1>1
    <2>2. [q[1] EXCEPT !.attempt = @ + 1] \in AlertType /\ [q[1] EXCEPT !.attempt = @ + 1].id = q[1].id
      BY <2>1 DEF AlertType
    <2>3. PICK w : w = [q[1] EXCEPT !.attempt = @ + 1]
      OBVIOUS
    <2>4. p = [q EXCEPT ![1] = w]
      BY <1>b, <2>3
    <2> QED BY <1>1, <2>1, <2>2, <2>3, <2>4
  <1>3. v \in DrainType /\ v.pc = "loop" /\ v.chat = c
    BY <1>b, QueueNumbers DEF DrainType
  <1>4. /\ line' = [line EXCEPT ![c] = p] /\ drain' = [drain EXCEPT ![d] = v] /\ UNCHANGED <<alerts, told>>
        /\ arrived' = [arrived EXCEPT ![c] = Append(arrived[c], m)] \/ arrived' = arrived
    BY <1>1, <1>b DEF A!SendAgain, A!Arrives
  <1>5. drain' \in [Drains -> DrainType] /\ drain'[d] = v /\ \A b \in Drains \ {d} : drain'[b] = drain[b]
    BY <1>3, <1>4, QueueNumbers
  <1>6. line'[c] = p /\ \A o \in AlertChats \ {c} : line'[o] = line[o] /\ arrived'[o] = arrived[o]
    BY <1>1, <1>4 DEF QueueInv, AlertTypes
  <1>7. m \in 1..alerts /\ \A i \in DOMAIN q : q[i].id \in Nat /\ m <= q[i].id
    <2>1. 1 \in DOMAIN q /\ \A i \in DOMAIN q : i = 1 \/ 1 < i
      BY <1>1
    <2>2. \A i \in DOMAIN q : q[i].id \in 1..alerts
      BY <1>1, IdsAreAlerts
    <2> QED BY <1>1, <2>1, <2>2, QueueNumbers DEF QueueInv, Orderly, LineInOrder
  <1>8. arrived[c] \in Seq(Nat) /\ m \in Nat /\ ArrivedInOrder(c) /\ \A i \in DOMAIN arrived[c] : arrived[c][i] <= m
    BY <1>1, <1>7, QueueNumbers DEF QueueInv, Orderly, ArrivedInOrder
  <1>9. /\ arrived'[c] \in Seq(Nat) /\ \A i \in DOMAIN arrived[c] : i \in DOMAIN arrived'[c] /\ arrived'[c][i] = arrived[c][i]
        /\ \A i \in DOMAIN arrived'[c] : arrived'[c][i] \in Nat /\ arrived'[c][i] <= m
        /\ \A i, j \in DOMAIN arrived'[c] : i < j => arrived'[c][i] <= arrived'[c][j]
    <2>1. CASE arrived' = arrived
      BY <1>8, <2>1 DEF ArrivedInOrder
    <2>2. CASE arrived' = [arrived EXCEPT ![c] = Append(arrived[c], m)]
      <3>1. arrived'[c] = Append(arrived[c], m)
        BY <1>1, <2>2 DEF QueueInv, AlertTypes
      <3> QED BY <1>8, <3>1, AppendRises DEF ArrivedInOrder
    <2> QED BY <1>4, <2>1, <2>2
  <1>10. AlertTypes'
    <2>1. arrived' \in [AlertChats -> Seq(Nat)]
      BY <1>1, <1>4, <1>9 DEF QueueInv, AlertTypes
    <2> QED BY <1>1, <1>2, <1>4, <1>5, <2>1 DEF QueueInv, AlertTypes
  <1>11. LineInOrder(c)'
    BY <1>1, <1>2, <1>6 DEF QueueInv, Orderly, LineInOrder
  <1>12. ArrivedInOrder(c)'
    <2>1. \A i \in DOMAIN arrived'[c] : arrived'[c][i] <= alerts
      BY <1>7, <1>9, QueueNumbers
    <2>2. \A i \in DOMAIN arrived'[c] : \A k \in DOMAIN p : arrived'[c][i] <= p[k].id
      BY <1>2, <1>7, <1>9
    <2> QED BY <1>4, <1>6, <1>9, <2>1, <2>2 DEF ArrivedInOrder
  <1>13. \A k \in Nat : InLine(c, k)' <=> Waits(c, k)'
    <2>1. \A k : InLine(c, k)' <=> InLine(c, k)
      BY <1>1, <1>2, <1>6 DEF InLine
    <2>2. \A k : Waits(c, k)' <=> Waits(c, k)
      BY <1>4 DEF Waits
    <2> QED BY <1>1, <2>1, <2>2 DEF QueueInv, Orderly
  <1>14. \A k : Came(c, k) => Came(c, k)'
    BY <1>9 DEF Came
  <1>15. Orderly(c)'
    BY <1>1, <1>4, <1>11, <1>12, <1>13, <1>14 DEF QueueInv, Orderly
  <1>16. \A o \in AlertChats : Orderly(o)'
    BY <1>4, <1>6, <1>15, OrderlyElsewhere DEF QueueInv
  <1>17. Served'
    <2>1. \A b \in Drains : drain'[b].chat = drain[b].chat
      BY <1>b, <1>3, <1>5
    <2>2. \A o \in AlertChats : line'[o] # <<>> => line[o] # <<>>
      BY <1>1, <1>6
    <2>3. \A b \in Drains \ {d} : drain[b].chat \in AlertChats => drain[b].chat # c
      BY <1>1, <1>b, QueueNumbers DEF QueueInv, Served
    <2>4. \A b \in Drains : AtHead(b)'
      <3> SUFFICES ASSUME NEW b \in Drains \ {d}, drain[b].pc = "send" PROVE AtHead(b)'
        BY <1>3, <1>5 DEF AtHead
      <3>1. drain[b].chat \in AlertChats \ {c} /\ AtHead(b)
        BY <2>3, QueueNumbers DEF QueueInv, Served, DrainType
      <3> QED BY <1>5, <1>6, <3>1 DEF AtHead
    <2>5. \A b \in Drains : drain'[b].pc # "asleep" => drain'[b].chat # "none"
      BY <1>1, <1>3, <1>5, QueueNumbers DEF QueueInv, Served
    <2> QED BY <2>1, <2>2, <2>4, <2>5 DEF QueueInv, Served, A!Draining
  <1> QED BY <1>10, <1>16, <1>17 DEF QueueInv, A!AlertsAssumption

\* A drain goes on to the head of its queue, or is through.
LEMMA LoopKeepsQueues == ASSUME QueueInv, NEW d \in Drains, A!Loop(d) PROVE QueueInv'
  <1>b. PICK c, v :
          /\ c = drain[d].chat
          /\ v = IF line[c] = <<>> THEN A!Asleep ELSE [drain[d] EXCEPT !.pc = "send", !.msg = Head(line[c]).id]
    OBVIOUS
  <1>1. c \in AlertChats /\ drain[d] \in DrainType
    BY <1>b, QueueNumbers DEF QueueInv, Served, DrainType, A!Loop
  <1>2. drain' = [drain EXCEPT ![d] = v] /\ UNCHANGED <<alerts, line, arrived, told>>
    BY <1>b DEF A!Loop
  <1>3. /\ v \in DrainType
        /\ line[c] = <<>> => v = A!Asleep
        /\ line[c] # <<>> => v.pc = "send" /\ v.chat = c /\ v.msg = line[c][1].id
    <2>1. CASE line[c] = <<>>
      BY <1>b, <2>1, QueueNumbers
    <2>2. CASE line[c] # <<>>
      <3>1. line[c] \in Seq(AlertType) /\ 1 \in DOMAIN line[c] /\ Head(line[c]) = line[c][1]
        BY <1>1, <2>2, QueueNumbers
      <3>2. Head(line[c]).id \in Nat
        BY <1>1, <3>1, IdsAreAlerts
      <3>3. v = [drain[d] EXCEPT !.pc = "send", !.msg = Head(line[c]).id]
        BY <1>b, <2>2
      <3> QED BY <1>1, <1>b, <2>2, <3>1, <3>2, <3>3 DEF DrainType
    <2> QED BY <2>1, <2>2
  <1>4. drain' \in [Drains -> DrainType] /\ drain'[d] = v /\ \A b \in Drains \ {d} : drain'[b] = drain[b]
    BY <1>2, <1>3, QueueNumbers
  <1>5. AlertTypes'
    BY <1>2, <1>4 DEF QueueInv, AlertTypes
  <1>6. \A o \in AlertChats : Orderly(o)'
    BY <1>2, OrderlyElsewhere DEF QueueInv
  <1>7. Served'
    <2>1. \A b \in Drains : drain'[b].chat \in {drain[b].chat, "none"}
      BY <1>b, <1>3, <1>4, QueueNumbers
    <2>2. \A o \in AlertChats : line[o] # <<>> => A!Draining(o)'
      <3> SUFFICES ASSUME NEW o \in AlertChats, line[o] # <<>> PROVE \E b \in Drains : drain'[b].chat = o
        BY DEF A!Draining
      <3>1. PICK b \in Drains : drain[b].chat = o
        BY DEF QueueInv, Served, A!Draining
      <3> QED BY <1>b, <1>3, <1>4, <3>1
    <2>3. \A b \in Drains : AtHead(b)' /\ (drain'[b].pc # "asleep" => drain'[b].chat # "none")
      <3>1. AtHead(d)' /\ (drain'[d].pc # "asleep" => drain'[d].chat # "none")
        BY <1>1, <1>2, <1>3, <1>4, QueueNumbers DEF AtHead
      <3>2. \A b \in Drains \ {d} : AtHead(b)' /\ (drain'[b].pc # "asleep" => drain'[b].chat # "none")
        BY <1>2, <1>4 DEF QueueInv, Served, AtHead
      <3> QED BY <3>1, <3>2
    <2> QED BY <1>2, <2>1, <2>2, <2>3 DEF QueueInv, Served
  <1> QED BY <1>5, <1>6, <1>7 DEF QueueInv, A!AlertsAssumption

\* Waking a drain for each chat of cs that has none.
LEMMA StartDrainsServes ==
    ASSUME QueueInv, NEW cs \in SUBSET AlertChats, A!StartDrains(cs)
    PROVE  /\ drain' \in [Drains -> DrainType]
           /\ \A c \in cs : A!Draining(c)'
           /\ \A c \in AlertChats : A!Draining(c) => A!Draining(c)'
           /\ \A d, b \in Drains : drain'[d].chat = drain'[b].chat /\ drain'[d].chat # "none" => d = b
           /\ \A d \in Drains : drain'[d] = drain[d] \/ (drain'[d].pc = "loop" /\ drain'[d].chat # "none")
  <1> DEFINE idle == {c \in cs : ~A!Draining(c)}
  <1>2. PICK wake \in [idle -> {d \in Drains : drain[d] = A!Asleep}] :
           /\ A!IsInjective(wake)
           /\ drain' = [d \in Drains |-> IF \E c \in idle : wake[c] = d
                                         THEN [A!Asleep EXCEPT !.pc = "loop", !.chat = CHOOSE c \in idle : wake[c] = d]
                                         ELSE drain[d]]
    BY DEF A!StartDrains
  <1>1. idle = {c \in cs : ~A!Draining(c)}
    OBVIOUS
  <1> HIDE DEF idle
  <1>3. idle \subseteq AlertChats /\ \A c \in idle : wake[c] \in Drains /\ drain[wake[c]] = A!Asleep
    BY <1>1, <1>2
  <1>4. \A c, o \in idle : wake[c] = wake[o] => c = o
    BY <1>2 DEF A!IsInjective
  <1>5. ASSUME NEW c \in idle
        PROVE  drain'[wake[c]] \in DrainType /\ drain'[wake[c]].pc = "loop" /\ drain'[wake[c]].chat = c
    <2>1. (CHOOSE o \in idle : wake[o] = wake[c]) = c
      BY <1>4
    <2>2. drain'[wake[c]] = [A!Asleep EXCEPT !.pc = "loop", !.chat = CHOOSE o \in idle : wake[o] = wake[c]]
      BY <1>2, <1>3
    <2>3. drain'[wake[c]] = [A!Asleep EXCEPT !.pc = "loop", !.chat = c]
      BY <2>1, <2>2
    <2>4. c \in AlertChats
      BY <1>3
    <2> QED BY <2>3, <2>4, QueueNumbers DEF DrainType
  <1>6. \A d \in Drains : (\E c \in idle : d = wake[c]) \/ drain'[d] = drain[d]
    BY <1>2
  <1>7. drain' \in [Drains -> DrainType]
    <2>1. \A d \in Drains : drain'[d] \in DrainType
      BY <1>5, <1>6, QueueNumbers
    <2>2. drain' = [d \in Drains |-> drain'[d]]
      BY <1>2
    <2> QED BY <2>1, <2>2
  <1>8. \A d \in Drains : drain[d].chat # "none" => drain'[d] = drain[d]
    BY <1>3, <1>6, QueueNumbers
  <1>9. \A c \in AlertChats : A!Draining(c) => A!Draining(c)'
    BY <1>8, QueueNumbers DEF A!Draining
  <1>10. \A c \in cs : A!Draining(c)'
    <2> SUFFICES ASSUME NEW c \in cs, ~A!Draining(c) PROVE A!Draining(c)'
      BY <1>9
    <2>1. c \in idle
      BY <1>1
    <2> QED BY <1>3, <1>5, <2>1 DEF A!Draining
  <1>11. \A d \in Drains : drain'[d] = drain[d] \/ (drain'[d].pc = "loop" /\ drain'[d].chat # "none")
    BY <1>3, <1>5, <1>6, QueueNumbers
  <1>12. ASSUME NEW d \in Drains, NEW b \in Drains, drain'[d].chat = drain'[b].chat, drain'[d].chat # "none"
         PROVE  d = b
    <2>1. ASSUME NEW c \in idle, d = wake[c] PROVE d = b
      <3>1. drain'[b].chat = c
        BY <1>5, <1>12, <2>1
      <3>2. drain'[b] # drain[b]
        BY <1>1, <2>1, <3>1 DEF A!Draining
      <3>3. PICK o \in idle : b = wake[o]
        BY <1>6, <3>2
      <3> QED BY <1>5, <2>1, <3>1, <3>3
    <2>2. ASSUME NEW c \in idle, b = wake[c] PROVE d = b
      <3>1. drain'[d].chat = c
        BY <1>5, <1>12, <2>2
      <3>2. drain'[d] # drain[d]
        BY <1>1, <2>2, <3>1 DEF A!Draining
      <3>3. PICK o \in idle : d = wake[o]
        BY <1>6, <3>2
      <3> QED BY <1>5, <2>2, <3>1, <3>3
    <2>3. CASE drain'[d] = drain[d] /\ drain'[b] = drain[b]
      BY <1>12, <2>3 DEF QueueInv, Served
    <2> QED BY <1>6, <2>1, <2>2, <2>3
  <1> QED BY <1>7, <1>9, <1>10, <1>11, <1>12

\* A message for every chat that wants it goes to the end of its queue.
LEMMA SendToUserKeepsQueues == ASSUME QueueInv, A!SendToUser, UNCHANGED arrived PROVE QueueInv'
  <1>1. PICK n, new : n = alerts + 1 /\ new = [id |-> n, attempt |-> 0]
    OBVIOUS
  <1>2. n \in Nat /\ alerts' = n /\ new \in AlertType /\ new.id = n
    BY <1>1, QueueNumbers DEF A!SendToUser, AlertType
  <1>3. A!StartDrains({c \in AlertChats : wants[c]})
    BY DEF A!SendToUser
  <1>4. /\ line' = [c \in AlertChats |-> IF wants[c] THEN Append(line[c], new) ELSE line[c]]
        /\ told' = [c \in AlertChats |-> IF wants[c] THEN Append(told[c], "waits") ELSE Append(told[c], "none")]
    BY <1>1 DEF A!SendToUser
  <1>5. ASSUME NEW c \in AlertChats
        PROVE  /\ line'[c] \in Seq(AlertType) /\ told'[c] \in Seq(Fates) /\ Orderly(c)'
               /\ line'[c] # <<>> => line[c] # <<>> \/ wants[c]
               /\ line[c] # <<>> => line'[c] # <<>> /\ line'[c][1] = line[c][1]
    <2>1. /\ line[c] \in Seq(AlertType) /\ told[c] \in Seq(Fates) /\ arrived[c] \in Seq(Nat) /\ Len(told[c]) = alerts
          /\ DOMAIN told[c] = 1..alerts /\ alerts \in Nat
      BY QueueNumbers DEF QueueInv, Orderly
    <2>2. PICK f : f = (IF wants[c] THEN "waits" ELSE "none")
      OBVIOUS
    <2>3. told'[c] = Append(told[c], f) /\ f \in Fates
      BY <1>4, <2>2 DEF Fates
    <2>4. /\ told'[c] \in Seq(Fates) /\ Len(told'[c]) = n /\ DOMAIN told'[c] = DOMAIN told[c] \union {n} /\ told'[c][n] = f
          /\ n \notin DOMAIN told[c] /\ \A k \in DOMAIN told[c] : told'[c][k] = told[c][k]
      BY <1>1, <2>1, <2>3
    <2>5. \A i \in DOMAIN line[c] : line[c][i].id \in 1..alerts
      BY IdsAreAlerts
    <2>6. LineInOrder(c) /\ ArrivedInOrder(c) /\ \A i \in DOMAIN arrived[c] : arrived[c][i] \in Nat /\ arrived[c][i] <= alerts
      BY <2>1 DEF QueueInv, Orderly, ArrivedInOrder
    <2>7. \A k \in Nat : InLine(c, k) <=> Waits(c, k)
      BY DEF QueueInv, Orderly
    <2>8. \A k \in DOMAIN told'[c] : told'[c][k] = "sent" => Came(c, k)'
      BY <2>2, <2>4 DEF QueueInv, Orderly, Came
    <2>9. CASE wants[c]
      <3>1. PICK k : k = Len(line[c]) + 1
        OBVIOUS
      <3>2. line'[c] = Append(line[c], new)
        BY <1>4, <2>9
      <3>3. /\ line'[c] \in Seq(AlertType) /\ DOMAIN line'[c] = DOMAIN line[c] \union {k} /\ line'[c][k] = new
            /\ \A i \in DOMAIN line[c] : line'[c][i] = line[c][i] /\ i \in 1..(k - 1)
            /\ k \in Nat \ {0} /\ (k = 1 <=> line[c] = <<>>) /\ DOMAIN line[c] = 1..(k - 1)
        BY <1>2, <2>1, <3>1, <3>2
      <3>4. ASSUME NEW i \in DOMAIN line'[c], NEW j \in DOMAIN line'[c], i < j PROVE line'[c][i].id < line'[c][j].id
        <4>1. i \in DOMAIN line[c]
          BY <3>3, <3>4
        <4>2. CASE j = k
          BY <1>1, <1>2, <2>1, <2>5, <3>3, <4>1, <4>2, SMTT(30)
        <4>3. CASE j \in DOMAIN line[c]
          BY <2>6, <3>3, <3>4, <4>1, <4>3 DEF LineInOrder
        <4> QED BY <3>3, <4>2, <4>3
      <3>5. \A i \in DOMAIN arrived[c] : arrived[c][i] <= n /\ \A j \in DOMAIN line'[c] : arrived[c][i] <= line'[c][j].id
        <4> SUFFICES ASSUME NEW i \in DOMAIN arrived[c]
                     PROVE  arrived[c][i] <= n /\ \A j \in DOMAIN line'[c] : arrived[c][i] <= line'[c][j].id
          OBVIOUS
        <4>1. arrived[c][i] \in Nat /\ arrived[c][i] <= n
          BY <1>1, <2>1, <2>6
        <4>2. \A j \in DOMAIN line[c] : arrived[c][i] <= line[c][j].id
          BY <2>6 DEF ArrivedInOrder
        <4> QED BY <1>2, <3>3, <4>1, <4>2
      <3>6. ASSUME NEW m \in Nat PROVE InLine(c, m)' <=> Waits(c, m)'
        <4>1. InLine(c, m)' <=> InLine(c, m) \/ m = n
          BY <1>2, <3>3 DEF InLine
        <4>2. Waits(c, m)' <=> Waits(c, m) \/ m = n
          BY <2>2, <2>4, <2>9 DEF Waits
        <4> QED BY <2>7, <4>1, <4>2
      <3>7. Orderly(c)'
        BY <1>2, <2>4, <2>6, <2>8, <3>4, <3>5, <3>6 DEF Orderly, LineInOrder, ArrivedInOrder
      <3>8. line[c] # <<>> => line'[c][1] = line[c][1]
        BY <3>3
      <3>9. line'[c] # <<>>
        BY <3>3
      <3> QED BY <2>4, <2>9, <3>3, <3>7, <3>8, <3>9
    <2>10. CASE ~wants[c]
      <3>1. line'[c] = line[c]
        BY <1>4, <2>10
      <3>2. ArrivedInOrder(c)'
        BY <1>1, <1>2, <2>1, <2>6, <3>1 DEF ArrivedInOrder
      <3>3. ASSUME NEW m \in Nat PROVE InLine(c, m)' <=> Waits(c, m)'
        <4>1. InLine(c, m)' <=> InLine(c, m)
          BY <3>1 DEF InLine
        <4>2. Waits(c, m)' <=> Waits(c, m)
          BY <2>2, <2>4, <2>10 DEF Waits
        <4> QED BY <2>7, <4>1, <4>2
      <3>4. Orderly(c)'
        BY <1>2, <2>4, <2>6, <2>8, <3>1, <3>2, <3>3 DEF Orderly, LineInOrder
      <3> QED BY <2>1, <2>4, <3>1, <3>4
    <2> QED BY <2>9, <2>10
  <1>6. AlertTypes'
    <2>1. drain' \in [Drains -> DrainType]
      BY <1>3, StartDrainsServes
    <2>2. line' \in [AlertChats -> Seq(AlertType)] /\ told' \in [AlertChats -> Seq(Fates)]
      BY <1>4, <1>5
    <2> QED BY <1>2, <2>1, <2>2 DEF QueueInv, AlertTypes
  <1>7. Served'
    <2>1. \A c \in AlertChats : line'[c] # <<>> => A!Draining(c)'
      BY <1>3, <1>5, StartDrainsServes DEF QueueInv, Served
    <2>2. \A d \in Drains : AtHead(d)' /\ (drain'[d].pc # "asleep" => drain'[d].chat # "none")
      <3> SUFFICES ASSUME NEW d \in Drains, drain'[d] = drain[d]
                   PROVE  AtHead(d)' /\ (drain'[d].pc # "asleep" => drain'[d].chat # "none")
        BY <1>3, StartDrainsServes DEF AtHead
      <3>1. drain[d].pc = "send" => drain[d].chat \in AlertChats
        BY QueueNumbers DEF QueueInv, Served, DrainType
      <3> QED BY <1>5, <3>1 DEF QueueInv, Served, AtHead
    <2> QED BY <1>3, <2>1, <2>2, StartDrainsServes DEF Served
  <1> QED BY <1>5, <1>6, <1>7 DEF QueueInv, A!AlertsAssumption

\* A restart empties the queues and drops the drains.
LEMMA RestartKeepsQueues == ASSUME QueueInv, A!Restart PROVE QueueInv'
  <1>1. /\ line' = [c \in AlertChats |-> <<>>] /\ drain' = [d \in Drains |-> A!Asleep] /\ UNCHANGED <<alerts, arrived>>
        /\ told' = [c \in AlertChats |-> [m \in DOMAIN told[c] |-> IF told[c][m] = "waits" THEN "none" ELSE told[c][m]]]
    BY DEF A!Restart
  <1>2. ASSUME NEW c \in AlertChats PROVE told'[c] \in Seq(Fates) /\ Orderly(c)'
    <2>1. told[c] \in Seq(Fates) /\ DOMAIN told[c] = 1..alerts /\ alerts \in Nat /\ Len(told[c]) = alerts
      BY QueueNumbers DEF QueueInv, Orderly
    <2>2. told'[c] = [m \in 1..alerts |-> IF told[c][m] = "waits" THEN "none" ELSE told[c][m]]
      BY <1>1, <2>1
    <2>3. \A m \in 1..alerts : told[c][m] \in Fates
      BY <2>1
    <2>4. told'[c] \in Seq(Fates) /\ Len(told'[c]) = alerts /\ DOMAIN told'[c] = 1..alerts
      BY <2>1, <2>2, <2>3 DEF Fates
    <2>5. \A m \in 1..alerts : told'[c][m] # "waits" /\ (told'[c][m] = "sent" => told[c][m] = "sent")
      BY <2>2
    <2>6. line'[c] = <<>> /\ DOMAIN line'[c] = {}
      BY <1>1
    <2>7. LineInOrder(c)' /\ ArrivedInOrder(c)'
      BY <1>1, <2>6 DEF QueueInv, Orderly, LineInOrder, ArrivedInOrder
    <2>8. \A m : ~InLine(c, m)' /\ ~Waits(c, m)'
      BY <2>4, <2>5, <2>6 DEF InLine, Waits
    <2>9. \A m \in DOMAIN told'[c] : told'[c][m] = "sent" => Came(c, m)'
      BY <1>1, <2>1, <2>4, <2>5 DEF QueueInv, Orderly, Came
    <2> QED BY <1>1, <2>4, <2>7, <2>8, <2>9 DEF Orderly
  <1>3. AlertTypes'
    <2>1. told' \in [AlertChats -> Seq(Fates)]
      BY <1>1, <1>2
    <2>2. line' \in [AlertChats -> Seq(AlertType)]
      BY <1>1
    <2> QED BY <1>1, <2>1, <2>2, QueueNumbers DEF QueueInv, AlertTypes
  <1>4. Served'
    BY <1>1, QueueNumbers DEF Served, AtHead
  <1> QED BY <1>2, <1>3, <1>4 DEF QueueInv, A!AlertsAssumption

\* Every other step leaves the queues alone.
LEMMA CalmKeepsQueues == ASSUME QueueInv, UNCHANGED <<alerts, line, drain, arrived, told>> PROVE QueueInv'
  <1>1. \A c \in AlertChats : Orderly(c)'
    BY OrderlyElsewhere DEF QueueInv
  <1>2. Served' /\ AlertTypes'
    BY DEF QueueInv, Served, AlertTypes, AtHead, A!Draining
  <1> QED BY <1>1, <1>2 DEF QueueInv, A!AlertsAssumption

LEMMA InitQueueInv == A!AlertsAssumption /\ A!Init => QueueInv
  <1> SUFFICES ASSUME A!AlertsAssumption, A!Init PROVE QueueInv
    OBVIOUS
  <1>1. /\ alerts = 0 /\ line = [c \in AlertChats |-> <<>>] /\ drain = [d \in Drains |-> A!Asleep]
        /\ arrived = [c \in AlertChats |-> <<>>] /\ told = [c \in AlertChats |-> <<>>]
    BY DEF A!Init
  <1>2. A!Asleep \in DrainType /\ A!Asleep.pc = "asleep" /\ A!Asleep.chat = "none"
    BY DEF A!Asleep, DrainType
  <1>3. AlertTypes
    BY <1>1, <1>2 DEF AlertTypes
  <1>4. \A c \in AlertChats : Orderly(c)
    BY <1>1 DEF Orderly, LineInOrder, ArrivedInOrder, InLine, Waits
  <1>5. Served
    BY <1>1, <1>2 DEF Served, AtHead
  <1> QED BY <1>3, <1>4, <1>5 DEF QueueInv

LEMMA QueueInvInductive == QueueInv /\ [A!Next]_(A!alertVars) => QueueInv'
  <1> SUFFICES ASSUME QueueInv, [A!Next]_(A!alertVars) PROVE QueueInv'
    OBVIOUS
  <1>1. CASE UNCHANGED A!alertVars
    BY <1>1, CalmKeepsQueues DEF A!alertVars
  <1>2. CASE A!Notify
    BY <1>2, SendToUserKeepsQueues DEF A!Notify
  <1>3. CASE A!Track
    BY <1>3, SendToUserKeepsQueues, CalmKeepsQueues DEF A!Track
  <1>4. CASE A!PriceMoves \/ A!TenMinutesPass \/ A!NextLot \/ A!Prune
    BY <1>4, CalmKeepsQueues DEF A!PriceMoves, A!TenMinutesPass, A!NextLot, A!Prune
  <1>5. CASE A!Restart
    BY <1>5, RestartKeepsQueues
  <1>6. ASSUME NEW d \in Drains, A!Loop(d) PROVE QueueInv'
    BY <1>6, LoopKeepsQueues
  <1>7. ASSUME NEW d \in Drains, A!SendOk(d) \/ A!SendBlocked(d) \/ A!SendFails(d) PROVE QueueInv'
    BY <1>7, ShiftKeepsQueues DEF A!SendOk, A!SendBlocked, A!SendFails
  <1>8. ASSUME NEW d \in Drains, A!SendAgain(d) PROVE QueueInv'
    BY <1>8, SendAgainKeepsQueues
  <1> QED BY <1>1, <1>2, <1>3, <1>4, <1>5, <1>6, <1>7, <1>8 DEF A!Next

LEMMA QueueInvKeeps == QueueInv => A!AlertsAreKept
  <1> SUFFICES ASSUME QueueInv, NEW c \in AlertChats
               PROVE  /\ {line[c][k].id : k \in DOMAIN line[c]} = {m \in DOMAIN told[c] : told[c][m] = "waits"}
                      /\ line[c] # <<>> => A!Draining(c)
                      /\ \A m \in DOMAIN told[c] : told[c][m] = "sent" => m \in A!ToSet(arrived[c])
                      /\ \A i, j \in DOMAIN arrived[c] : i < j => arrived[c][i] <= arrived[c][j]
    BY DEF A!AlertsAreKept
  <1>1. DOMAIN told[c] = 1..alerts /\ alerts \in Nat /\ \A m \in Nat : InLine(c, m) <=> Waits(c, m)
    BY QueueNumbers DEF QueueInv, Orderly
  <1>2. \A k \in DOMAIN line[c] : line[c][k].id \in Nat
    BY IdsAreAlerts, QueueNumbers
  <1>3. {line[c][k].id : k \in DOMAIN line[c]} = {m \in DOMAIN told[c] : told[c][m] = "waits"}
    BY <1>1, <1>2 DEF InLine, Waits
  <1>4. \A m \in DOMAIN told[c] : told[c][m] = "sent" => m \in A!ToSet(arrived[c])
    BY DEF QueueInv, Orderly, Came, A!ToSet
  <1> QED BY <1>3, <1>4 DEF QueueInv, Orderly, ArrivedInOrder, Served

\* telegramService.ts:177-250: no message leaves a queue unless its caller is
\* told what became of it, each waits in one queue once, a queue that is not
\* empty is being drained, one told as sent did arrive, and a chat gets its
\* messages in the order they were made, repeats aside.
THEOREM AlertsStayKept == A!AlertsAssumption /\ A!Spec => []A!AlertsAreKept
  BY InitQueueInv, QueueInvInductive, QueueInvKeeps, PTL DEF A!Spec

-----------------------------------------------------------------------------

\* The highest of some numbers below a bound is one of them.
LEMMA HighestIsOne ==
    ASSUME NEW M \in SUBSET Nat, M # {}, NEW p \in Nat, \A m \in M : m <= p
    PROVE  A!Max(M) \in M
  <1> DEFINE Below == {k \in Nat : p - k \in M}
  <1>1. Below \subseteq Nat /\ Below # {}
    <2>1. PICK m \in M : m <= p
      OBVIOUS
    <2>2. p - m \in Nat /\ p - (p - m) = m
      BY <2>1
    <2> QED BY <2>1, <2>2
  <1>2. PICK x \in Below : \A y \in Below : ~(<<y, x>> \in OpToRel(<, Nat))
    <2> HIDE DEF Below
    <2> QED BY <1>1, NatLessThanWellFounded, WFMin, Zenon
  <1>3. x \in Nat /\ p - x \in M
    OBVIOUS
  <1>4. ASSUME NEW m \in M PROVE p - x >= m
    <2>1. p - m \in Below /\ p - m \in Nat /\ m \in Nat
      BY DEF Below
    <2>2. CASE p - m < x
      <3>1. <<p - m, x>> \in OpToRel(<, Nat)
        BY <1>3, <2>1, <2>2 DEF OpToRel
      <3> QED BY <1>2, <2>1, <3>1
    <2> QED BY <1>3, <2>1, <2>2
  <1> QED BY <1>3, <1>4 DEF A!Max

LEMMA TrackClimbs == ASSUME Climbs, A!Track PROVE Climbs'
  <1> DEFINE reached == A!Reached(position.profit)
             crossed == {m \in reached : m > mark}
  <1>1. reached \subseteq Milestones /\ Milestones \subseteq Nat \ {0} /\ position.profit \in Nat /\ mark \in Int
        /\ \A m \in reached : m <= position.profit
    BY DEF Climbs, A!AlertsAssumption, A!Reached
  <1> HIDE DEF reached
  <1>2. crossed # {} => A!Max(crossed) \in crossed
    BY <1>1, HighestIsOne
  <1>3. A!Highest(reached) \in Int
    <2>1. reached # {} => A!Max(reached) \in reached
      BY <1>1, HighestIsOne
    <2>2. CASE reached = {}
      BY <2>2 DEF A!Highest
    <2>3. CASE reached # {}
      <3>1. A!Highest(reached) = A!Max(reached)
        BY <2>3 DEF A!Highest
      <3>2. A!Highest(reached) \in Milestones
        BY <1>1, <2>1, <2>3, <3>1, Zenon
      <3>3. PICK h : h = A!Highest(reached)
        OBVIOUS
      <3>4. h \in Nat
        BY <1>1, <3>2, <3>3, Zenon
      <3> QED BY <3>3, <3>4
    <2> QED BY <2>2, <2>3
  <1>4. position' = position
    BY DEF A!Track
  <1>5. CASE mark = A!Unseen /\ mark' = A!Highest(reached) /\ fired' = fired
    <2>1. fired \in Seq(Nat) /\ \A i \in DOMAIN fired : fired[i] <= -1
      BY <1>5 DEF Climbs, A!Unseen
    <2>2. \A i \in DOMAIN fired : fired[i] \in Nat
      BY <2>1
    <2>3. DOMAIN fired = {}
      BY <2>1, <2>2
    <2> QED BY <1>3, <1>4, <1>5, <2>1, <2>3 DEF Climbs, A!AlertsAssumption
  <1>6. CASE crossed # {} /\ mark' = A!Max(crossed) /\ fired' = Append(fired, A!Max(crossed))
    <2>1. PICK m : m = A!Max(crossed)
      OBVIOUS
    <2>2. m \in Nat /\ m > mark /\ mark' = m /\ fired' = Append(fired, m) /\ fired \in Seq(Nat)
      BY <1>1, <1>2, <1>6, <2>1 DEF Climbs
    <2>3. PICK n : n = Len(fired) + 1
      OBVIOUS
    <2>4. /\ fired' \in Seq(Nat) /\ DOMAIN fired' = DOMAIN fired \union {n} /\ fired'[n] = m /\ n \in Nat
          /\ \A i \in DOMAIN fired : fired'[i] = fired[i] /\ fired[i] \in Nat /\ i \in 1..(n - 1)
      BY <2>2, <2>3
    <2>5. \A i \in DOMAIN fired : fired[i] < m
      BY <1>1, <2>2, <2>4 DEF Climbs
    <2>6. ASSUME NEW i \in DOMAIN fired', NEW j \in DOMAIN fired', i < j PROVE fired'[i] < fired'[j]
      <3>1. i \in DOMAIN fired
        BY <2>4, <2>6
      <3> QED BY <2>4, <2>5, <2>6, <3>1 DEF Climbs
    <2>7. \A i \in DOMAIN fired' : fired'[i] <= mark'
      BY <2>2, <2>4, <2>5
    <2>8. A!AlertsAssumption' /\ position' \in [id : Nat, profit : Nat]
      BY <1>4 DEF Climbs, A!AlertsAssumption
    <2>9. mark' \in Int
      BY <2>2
    <2> QED BY <2>4, <2>6, <2>7, <2>8, <2>9 DEF Climbs
  <1>7. CASE UNCHANGED <<mark, fired>>
    BY <1>4, <1>7 DEF Climbs, A!AlertsAssumption
  <1> QED BY <1>5, <1>6, <1>7 DEF A!Track, A!Remember, reached

LEMMA InitClimbs == A!AlertsAssumption /\ A!Init => Climbs
  BY DEF A!Init, Climbs, A!Unseen

LEMMA ClimbsInductive == Climbs /\ [A!Next]_(A!alertVars) => Climbs'
  <1> SUFFICES ASSUME Climbs, [A!Next]_(A!alertVars) PROVE Climbs'
    OBVIOUS
  <1>1. CASE UNCHANGED <<position, mark, fired>>
    BY <1>1 DEF Climbs, A!AlertsAssumption
  <1>2. CASE A!Track
    BY <1>2, TrackClimbs
  <1>3. CASE A!PriceMoves
    <2>1. PICK p \in 0..TopProfit : position' = [position EXCEPT !.profit = p]
      BY <1>3 DEF A!PriceMoves
    <2>2. UNCHANGED <<mark, fired>> /\ TopProfit \in Nat
      BY <1>3 DEF A!PriceMoves, Climbs, A!AlertsAssumption
    <2>3. position' \in [id : Nat, profit : Nat]
      BY <2>1, <2>2 DEF Climbs
    <2> QED BY <2>2, <2>3 DEF Climbs, A!AlertsAssumption
  <1>4. CASE A!NextLot
    BY <1>4 DEF A!NextLot, Climbs, A!AlertsAssumption, A!Unseen
  <1>5. CASE A!Restart
    BY <1>5 DEF A!Restart, Climbs, A!AlertsAssumption, A!Unseen
  <1>9. CASE A!Prune
    BY <1>9 DEF A!Prune, Climbs, A!AlertsAssumption, A!Unseen
  <1>6. CASE A!Notify \/ A!TenMinutesPass
    BY <1>1, <1>6 DEF A!Notify, A!TenMinutesPass
  <1>7. ASSUME NEW d \in Drains, A!Loop(d) \/ A!SendOk(d) \/ A!SendBlocked(d) \/ A!SendAgain(d) \/ A!SendFails(d)
        PROVE  Climbs'
    BY <1>1, <1>7 DEF A!Loop, A!SendOk, A!SendBlocked, A!SendAgain, A!SendFails
  <1>8. CASE UNCHANGED A!alertVars
    BY <1>1, <1>8 DEF A!alertVars
  <1> QED BY <1>2, <1>3, <1>4, <1>5, <1>6, <1>7, <1>8, <1>9 DEF A!Next

LEMMA ClimbsOnce == Climbs => A!MilestonesOnce
  BY DEF Climbs, A!MilestonesOnce

\* positionUpdateService.ts:69-116: while the process lives and looks at the
\* position once a week, each of its milestones is announced once and only
\* upwards, however the price swings.
THEOREM MilestonesStayOnce == A!AlertsAssumption /\ A!Spec => []A!MilestonesOnce
  BY InitClimbs, ClimbsInductive, ClimbsOnce, PTL DEF A!Spec
=============================================================================
