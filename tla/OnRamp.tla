------------------------------- MODULE OnRamp -------------------------------
(***************************************************************************)
(* A fiat purchase or sale through a payment provider (routes/onramp.ts):  *)
(* the session route records the order and opens the provider's widget,    *)
(* and Transak reports its progress through webhooks.  A webhook is signed *)
(* with the partner's access token; each server process caches the token   *)
(* it fetched.  The provider (external) sends a webhook for every status   *)
(* and again until one is acknowledged, in any order.                      *)
(***************************************************************************)
EXTENDS Integers, Sequences, SequencesExt

CONSTANTS
    Servers,            \* processes that serve the routes
    Providers,          \* "transak", "moonpay"
    MaxTokens           \* bound: tokens the provider mints

OnRampAssumption == MaxTokens \in Nat \ {0} /\ Providers \subseteq {"transak", "moonpay"}

VARIABLES
    step,      \* where the session request is
    ramp,      \* the FiatRampOrder row, or NoRamp
    raw,       \* the statuses the provider went through so far
    mail,      \* webhooks not acknowledged yet: [raw, token]
    minted,    \* the newest access token
    token,     \* cachedAccessToken of each server, 0 for none
    probe,     \* cachedGatewayProbe of each server
    orphans    \* history: acknowledged webhooks that found no row

rampVars == <<step, ramp, raw, mail, minted, token, probe, orphans>>

NoRamp == [provider |-> "none", status |-> "none", tx |-> FALSE, reason |-> FALSE]

(* The provider's statuses, as the words they are made of.                 *)
Awaiting == {"AWAITING", "PAYMENT", "FROM", "USER"}
Processing == {"PROCESSING"}
Completed == {"COMPLETE"}
Expired == {"EXPIRED"}
Refunded == {"REFUND"}
Opened == {"ORDER"}
Raws == {Opened, Awaiting, Processing, Completed, Expired, Refunded}

(* How an order may go on at the provider.                                 *)
Follows(r) ==
    CASE r = Opened -> {Awaiting}
      [] r = Awaiting -> {Processing, Expired}
      [] r = Processing -> {Completed, Refunded}
      [] OTHER -> {}

Init ==
    /\ step = "idle" /\ ramp = NoRamp
    /\ raw = <<>> /\ mail = {}
    /\ minted = 1 /\ token = [s \in Servers |-> 0] /\ probe = [s \in Servers |-> "none"]
    /\ orphans = 0

-----------------------------------------------------------------------------
(* transakAccessToken: the cached token, or one the provider hands out;    *)
(* when that fails, none.                                                  *)
AccessToken(s) ==
    \/ token[s] # 0 /\ UNCHANGED <<token, minted>>
    \/ token[s] = 0 /\ token' = [token EXCEPT ![s] = minted] /\ UNCHANGED minted
    \/ /\ token[s] = 0 /\ minted < MaxTokens
       /\ minted' = minted + 1 /\ token' = [token EXCEPT ![s] = minted + 1]
    \/ token[s] = 0 /\ UNCHANGED <<token, minted>>

(* A cached token comes within a minute of its end.                        *)
TokenLapses(s) ==
    /\ token[s] # 0 /\ token' = [token EXCEPT ![s] = 0]
    /\ UNCHANGED <<step, ramp, raw, mail, minted, probe, orphans>>

(* GET /status: transakGatewayAuthorized caches what the gateway said, a   *)
(* failure to get a token or to reach it too, for five minutes.            *)
GatewayStatus(s) ==
    /\ probe[s] = "none"
    /\ AccessToken(s)
    /\ \/ token'[s] # 0 /\ probe' = [probe EXCEPT ![s] = "ok"]
       \/ probe' = [probe EXCEPT ![s] = "no"]
    /\ UNCHANGED <<step, ramp, raw, mail, orphans>>

ProbeExpires(s) ==
    /\ probe[s] # "none" /\ probe' = [probe EXCEPT ![s] = "none"]
    /\ UNCHANGED <<step, ramp, raw, mail, minted, token, orphans>>

-----------------------------------------------------------------------------
(* POST /session: the destination address is resolved and the provider     *)
(* chosen; the row is written ...                                          *)
CreateSession(p) ==
    /\ step = "idle"
    /\ ramp' = [NoRamp EXCEPT !.provider = p, !.status = "created"]
    /\ step' = "widget"
    /\ UNCHANGED <<raw, mail, minted, token, probe, orphans>>

(* ... and then the widget opened, which for MoonPay is only a URL.        *)
OpenWidget(s) ==
    /\ step = "widget"
    /\ IF ramp.provider = "transak"
       THEN /\ AccessToken(s)
            /\ \/ token'[s] # 0 /\ raw' = <<Opened>> /\ step' = "open" /\ UNCHANGED ramp
               \/ ramp' = [ramp EXCEPT !.status = "failed", !.reason = TRUE] /\ step' = "refused" /\ UNCHANGED raw
       ELSE raw' = <<Opened>> /\ step' = "open" /\ UNCHANGED <<ramp, token, minted>>
    /\ UNCHANGED <<mail, probe, orphans>>

(* The user goes on with the order at the provider, which reports it.      *)
ProviderProceeds ==
    /\ raw # <<>>
    /\ \E next \in Follows(Last(raw)) :
          /\ raw' = Append(raw, next)
          /\ mail' = IF ramp.provider = "moonpay" THEN mail ELSE mail \union {[raw |-> next, token |-> minted]}
    /\ UNCHANGED <<step, ramp, minted, token, probe, orphans>>

(* An unacknowledged webhook is sent again, signed anew.                   *)
ProviderSignsAgain(w) ==
    /\ w.token # minted
    /\ mail' = (mail \ {w}) \union {[w EXCEPT !.token = minted]}
    /\ UNCHANGED <<step, ramp, raw, minted, token, probe, orphans>>

-----------------------------------------------------------------------------
MapStatus(words) ==
    IF words \intersect {"COMPLETE", "SUCCESS"} # {} THEN "completed"
    ELSE IF words \intersect {"FAIL", "CANCEL", "EXPIRED", "REFUND", "DECLIN"} # {} THEN "failed"
    ELSE IF words \intersect {"PENDING", "PROCESSING", "SUBMITTED", "AWAITING", "ONGOING", "PAYMENT"} # {}
    THEN "pending" ELSE "created"

(* POST /webhook/transak reaches a server: no token (503) or a signature   *)
(* made with another one (401), and it will come again; else the row takes *)
(* the status, whatever it says by now.  The acknowledgement may get lost. *)
Webhook(s, w) ==
    /\ AccessToken(s)
    /\ IF token'[s] = 0 \/ token'[s] # w.token
       THEN UNCHANGED <<ramp, mail, orphans>>
       ELSE /\ IF ramp = NoRamp
               THEN orphans' = orphans + 1 /\ UNCHANGED ramp
               ELSE /\ ramp' = [ramp EXCEPT !.status = MapStatus(w.raw),
                                            !.tx = @ \/ w.raw = Completed,
                                            !.reason = MapStatus(w.raw) = "failed"]
                    /\ UNCHANGED orphans
            /\ mail' \in {mail, mail \ {w}}
    /\ UNCHANGED <<step, raw, probe>>

(* The update throws: the webhook is acknowledged all the same.            *)
WebhookSwallowed(s, w) ==
    /\ token[s] = w.token /\ mail' = mail \ {w}
    /\ UNCHANGED <<step, ramp, raw, minted, token, probe, orphans>>

Next ==
    \/ \E p \in Providers : CreateSession(p)
    \/ ProviderProceeds
    \/ \E s \in Servers : OpenWidget(s) \/ TokenLapses(s) \/ GatewayStatus(s) \/ ProbeExpires(s)
    \/ \E w \in mail : ProviderSignsAgain(w)
    \/ \E s \in Servers, w \in mail : Webhook(s, w) \/ WebhookSwallowed(s, w)

Spec == Init /\ [][Next]_rampVars

-----------------------------------------------------------------------------
(* Every variable keeps its shape.                                         *)
TypeOK ==
    /\ step \in {"idle", "widget", "open", "refused"}
    /\ ramp.status \in {"none", "created", "pending", "completed", "failed"}
    /\ ToSet(raw) \subseteq Raws
    /\ mail \subseteq [raw : Raws, token : 1..MaxTokens]
    /\ minted \in 1..MaxTokens /\ token \in [Servers -> 0..MaxTokens]
    /\ probe \in [Servers -> {"none", "ok", "no"}] /\ orphans \in Nat

(* onramp.ts:188-208, 455-514: what the row tells the user did happen at   *)
(* the provider: it is completed only for an order that was completed, and *)
(* pending only for one that was paid for or processed, although webhooks  *)
(* come late, twice, out of order and signed with tokens of two servers;   *)
(* and no webhook comes before the row it is about.                        *)
RampSaysWhatHappened ==
    /\ ramp.status = "completed" => Completed \in ToSet(raw) /\ ramp.tx
    /\ ramp.status = "pending" => ToSet(raw) \intersect {Awaiting, Processing} # {}
    /\ ramp.reason <=> ramp.status = "failed"
    /\ ramp.status = "failed" => step = "refused" \/ ToSet(raw) \intersect {Expired, Refunded} # {}
    /\ orphans = 0
=============================================================================
