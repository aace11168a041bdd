--------------------------- MODULE ModelPromotion ---------------------------
(***************************************************************************)
(* Promotion of the trading model (ml/modelPromotion.ts, ml/rlPolicy.ts):  *)
(* a trainer leaves a candidate and its metrics as two files; every hour   *)
(* checkAndPromote holds it against the champion's row and, if it wins,    *)
(* replaces the champion's file and row and reloads the model it serves.   *)
(* The API and the worker both run it and share the files and the table.   *)
(***************************************************************************)
EXTENDS Integers, Sequences, FiniteSets, FiniteSetsExt

CONSTANTS
    Hosts,             \* the processes that run checkAndPromote
    Sharpe,            \* the Sharpe ratio of each model the trainer may make, in percent
    Sound              \* the models within the limits on drawdown and win rate

Models == DOMAIN Sharpe
PromotionAssumption == Models \subseteq Nat \ {0} /\ Sound \subseteq Models

VARIABLES
    cand,      \* candidate.onnx, 0 if there is none
    metrics,   \* candidate_metrics.json
    champ,     \* champion.onnx
    table,     \* the rows of ModelVersion
    host,      \* what each process is doing, and which model it judged
    serving,   \* what each process predicts by: a model, Fallback, or Unset
    trained,   \* the models made so far
    odd        \* history: "torn", a candidate replaced another; "overlap"; "crash"

promotionVars == <<cand, metrics, champ, table, host, serving, trained, odd>>

Idle == [pc |-> "idle", m |-> 0]
Fallback == 0
Unset == -1

Init ==
    /\ cand = 0 /\ metrics = 0 /\ champ = 0 /\ table = <<>>
    /\ host = [h \in Hosts |-> Idle] /\ serving = [h \in Hosts |-> Unset]
    /\ trained = {} /\ odd = {}

Goto(h, pc) == host' = [host EXCEPT ![h].pc = pc]
Row(m, st) == [model |-> m, st |-> st]
Champions == {k \in DOMAIN table : table[k].st = "champion"}

-----------------------------------------------------------------------------
(* The trainer writes the model and then its metrics.                      *)
TrainModel(m) ==
    /\ m \notin trained /\ trained' = trained \union {m} /\ cand' = m
    /\ odd' = IF cand # 0 \/ metrics # 0 \/ \E h \in Hosts : host[h].pc \notin {"idle", "reload"}
              THEN odd \union {"torn"} ELSE odd
    /\ UNCHANGED <<metrics, champ, table, host, serving>>

TrainMetrics ==
    /\ cand # 0 /\ metrics # cand /\ metrics' = cand
    /\ UNCHANGED <<cand, champ, table, host, serving, trained, odd>>

(* checkAndPromote: the hard gates on what the metrics file says.          *)
Check(h) ==
    /\ host[h].pc = "idle" /\ metrics # 0
    /\ host' = [host EXCEPT ![h] = [pc |-> IF metrics \in Sound THEN "judge" ELSE "reject", m |-> metrics]]
    /\ odd' = IF \E g \in Hosts : host[g].pc # "idle" THEN odd \union {"overlap"} ELSE odd
    /\ UNCHANGED <<cand, metrics, champ, table, serving, trained>>

Beats(m, n) == Sharpe[m] * 100 > Sharpe[n] * 105

(* getChampionMetrics and the margin; then the files.                      *)
Judge(h) ==
    LET m == host[h].m
        known == Champions # {}
    IN  /\ host[h].pc = "judge"
        /\ \/ known /\ ~Beats(m, table[Max(Champions)].model)
              /\ Goto(h, "reject") /\ UNCHANGED <<cand, metrics, champ>>
           \/ /\ known => Beats(m, table[Max(Champions)].model)
              /\ CASE cand = 0 ->
                        metrics' = 0 /\ host' = [host EXCEPT ![h] = Idle] /\ UNCHANGED <<cand, champ>>
                   [] cand # 0 /\ champ # 0 /\ known ->
                        Goto(h, "archive") /\ UNCHANGED <<cand, metrics, champ>>
                   [] OTHER ->
                        champ' = cand /\ Goto(h, "create") /\ UNCHANGED <<cand, metrics>>
        /\ UNCHANGED <<table, serving, trained, odd>>

(* The champion's rows are archived and its file is overwritten; the copy  *)
(* throws if the candidate has gone.                                       *)
Archive(h) ==
    /\ host[h].pc = "archive"
    /\ table' = [k \in DOMAIN table |-> IF k \in Champions THEN [table[k] EXCEPT !.st = "archived"] ELSE table[k]]
    /\ IF cand = 0 THEN host' = [host EXCEPT ![h] = Idle] /\ UNCHANGED champ
       ELSE champ' = cand /\ Goto(h, "create")
    /\ UNCHANGED <<cand, metrics, serving, trained, odd>>

(* The new champion's row; the candidate's files are deleted.              *)
Create(h) ==
    /\ host[h].pc = "create"
    /\ table' = Append(table, Row(host[h].m, "champion"))
    /\ cand' = 0 /\ metrics' = 0 /\ Goto(h, "reload")
    /\ UNCHANGED <<champ, serving, trained, odd>>

(* _loadSession: the champion, or the fallback when it fails to load.      *)
Loaded(h) == \E m \in {champ, Fallback} : serving' = [serving EXCEPT ![h] = m]

(* reload: this process takes up the champion, the others keep theirs.     *)
Reload(h) ==
    /\ host[h].pc = "reload" /\ Loaded(h)
    /\ host' = [host EXCEPT ![h] = Idle]
    /\ UNCHANGED <<cand, metrics, champ, table, trained, odd>>

(* logRejection, whose failure is swallowed, and cleanupCandidate.         *)
Reject(h) ==
    /\ host[h].pc = "reject"
    /\ table' \in {table, Append(table, Row(host[h].m, "rejected"))}
    /\ cand' = 0 /\ metrics' = 0 /\ host' = [host EXCEPT ![h] = Idle]
    /\ UNCHANGED <<champ, serving, trained, odd>>

(* initSession: the first prediction loads what there is, once for all.    *)
Load(h) ==
    /\ serving[h] = Unset /\ Loaded(h)
    /\ UNCHANGED <<cand, metrics, champ, table, host, trained, odd>>

(* A process ends, or a write to the table throws; one is followed.        *)
Crash(h) ==
    /\ "crash" \notin odd /\ odd' = odd \union {"crash"}
    /\ host' = [host EXCEPT ![h] = Idle]
    /\ serving' \in {serving, [serving EXCEPT ![h] = Unset]}
    /\ UNCHANGED <<cand, metrics, champ, table, trained>>

Next ==
    \/ \E m \in Models : TrainModel(m)
    \/ TrainMetrics
    \/ \E h \in Hosts : Check(h) \/ Judge(h) \/ Archive(h) \/ Create(h) \/ Reload(h) \/ Reject(h) \/ Load(h) \/ Crash(h)

Spec == Init /\ [][Next]_promotionVars

-----------------------------------------------------------------------------
Calm == \A h \in Hosts : host[h].pc \in {"idle", "reload"}

(* Every variable keeps its shape.                                         *)
TypeOK ==
    /\ {cand, metrics, champ} \subseteq Models \union {0} /\ trained \subseteq Models
    /\ \A k \in DOMAIN table : table[k].model \in Models /\ table[k].st \in {"champion", "archived", "rejected"}
    /\ \A h \in Hosts : /\ host[h].pc \in {"idle", "judge", "archive", "create", "reload", "reject"}
                        /\ host[h].m \in Models \union {0} /\ serving[h] \in Models \union {Fallback, Unset}
    /\ odd \subseteq {"torn", "overlap", "crash"}

(* modelPromotion.ts:98-194: a model that is served passed the gates on    *)
(* drawdown and win rate, through crashes and overlapping checks, unless   *)
(* the trainer replaced a candidate that was still waiting.  And with one  *)
(* check at a time and no crash there is one champion row, of the model in *)
(* the champion's file.                                                    *)
ChampionIsSound ==
    /\ "torn" \notin odd =>
          /\ champ # 0 => champ \in Sound
          /\ \A h \in Hosts : serving[h] \in Models => serving[h] \in Sound
    /\ odd = {} /\ Calm =>
          {table[k].model : k \in Champions} = (IF champ = 0 THEN {} ELSE {champ}) /\ Cardinality(Champions) <= 1

(* modelPromotion.ts:120-136: while nothing is torn, overlaps or crashes,  *)
(* a champion is replaced only by one that beats it by the margin.         *)
ChampionGetsBetter ==
    odd' = {} /\ champ # 0 /\ champ' # champ => Beats(champ', champ)
=============================================================================
