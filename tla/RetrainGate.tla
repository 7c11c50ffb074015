----------------------------- MODULE RetrainGate ----------------------------
(***************************************************************************)
(* services/monitoring: the prediction log, drift reports, and the         *)
(* compound retrain gate with its audit log.                               *)
(*                                                                         *)
(* A request runs in a thread with a session of its own.  The queries of   *)
(* an evaluation see what is committed when each of them runs, so an       *)
(* evaluation is interleaved between them and before its commit.           *)
(* Timestamps are aware (UTC) when made by datetime.now(UTC) and naive     *)
(* when they were read from a DateTime column; Python subtracts only like  *)
(* from like.                                                              *)
(***************************************************************************)
EXTENDS Integers, Sequences, FiniteSets, Functions

CONSTANTS
    Orders,         \* order ids
    Injections,     \* batches of errors (actual - eta) the drift injector writes
    Checks,         \* drift checks: is_drifted of each feature reported
    Evaluations,    \* requests POST /monitoring/evaluate-gate
    Configs,        \* configurations that a request may send
    WindowSize,     \* window_size of compute_rolling_metrics
    ReportLimit,    \* limit of get_latest_drift_reports
    LateThreshold,  \* LATE_THRESHOLD_MINUTES
    None,
    MaxRows,        \* bound on the prediction log
    MaxReports,     \* bound on the drift reports
    MaxTime         \* bound on the clock

\* GateConfigRequest: the fields have no bounds.  mae is baseline_mae times
\* mae_degradation_factor, late is late_rate_threshold in percent, min is
\* min_samples, and cooldown is cooldown_seconds in ticks.
Config == [mae : Int, late : Int, min : Int, cooldown : Int]

ASSUME GateAssumption ==
    /\ None \notin Int \cup {"TRIGGERED", "SUPPRESSED"}
    /\ Injections \subseteq Seq(Int) /\ Checks \subseteq Seq(BOOLEAN)
    /\ Configs \subseteq Config
    /\ {WindowSize, ReportLimit} \subseteq Nat \ {0}
    /\ {LateThreshold, MaxRows, MaxReports, MaxTime} \subseteq Nat

VARIABLES
    log,        \* prediction_logs, oldest first
    reports,    \* is_drifted of drift_reports, oldest first
    decisions,  \* retrain_decisions, in the order of their commits
    join,       \* the answer to the last log-actual of an order
    pc,         \* where the evaluation's thread stands
    local,      \* what it has read so far
    reply,      \* the evaluation's answer
    now

tables == <<log, reports, decisions, join>>
vars == <<log, reports, decisions, join, pc, local, reply, now>>

Row == [order : Orders \cup {None}, error : Int \cup {None}]
GateResult == {"TRIGGERED", "SUPPRESSED"}
\* A decision row.  Kept for the properties: by, and how many drift reports,
\* predictions and decisions were committed when the evaluation read each table.
Decision == [by : Evaluations, result : GateResult, config : Configs,
             at : 0..MaxTime, reps : Nat, rows : Nat, seen : Nat]
Local == [config : Configs \cup {None}, drift : BOOLEAN, perf : BOOLEAN, samples : Nat,
          cooldownOk : BOOLEAN, at : 0..MaxTime, reps : Nat, rows : Nat, seen : Nat]
Blank == [config |-> None, drift |-> FALSE, perf |-> FALSE, samples |-> 0,
          cooldownOk |-> FALSE, at |-> 0, reps |-> 0, rows |-> 0, seen |-> 0]

TypeOK ==
    /\ log \in Seq(Row)
    /\ reports \in Seq(BOOLEAN)
    /\ decisions \in Seq(Decision)
    /\ join \in [Orders -> {None, "labelled", "not found", "error"}]
    /\ pc \in [Evaluations -> {"idle", "metrics", "decide", "commit", "done"}]
    /\ local \in [Evaluations -> Local]
    /\ reply \in [Evaluations -> GateResult \cup {None, "error"}]
    /\ now \in 0..MaxTime

Init ==
    /\ log = <<>> /\ reports = <<>> /\ decisions = <<>>
    /\ join = [o \in Orders |-> None]
    /\ pc = [e \in Evaluations |-> "idle"]
    /\ local = [e \in Evaluations |-> Blank]
    /\ reply = [e \in Evaluations |-> None]
    /\ now = 0

-----------------------------------------------------------------------------
(* Timestamps and windows *)

\* The zone of a timestamp that was read from a DateTime column.
LoadedZone == "none"
\* datetime.now(UTC) minus a timestamp of that zone does not raise TypeError.
Subtractable(zone) == zone = "UTC"

\* order_by(... desc()).limit(n), of a set of positions in a table.
Newest(rows, n) == {k \in rows : Cardinality({j \in rows : k < j}) < n}

\* Whether any of the newest of the first k drift reports is drifted.
Drifted(k) == \E n \in Newest(1..k, ReportLimit) : reports[n]

\* The labelled ones of the first k predictions.
Labelled(k) == {n \in 1..k : log[n].error # None}
Magnitude(n) == IF n < 0 THEN -n ELSE n
IsLate(row) == row.error > LateThreshold

\* compute_rolling_metrics over the newest labelled ones of the first k rows, and
\* what the gate makes of it under a configuration; without labels both measures
\* are 0.  (The rounding to four digits decides nothing: in these units a measure of
\* at most 200 rows that exceeds a threshold exceeds it by more than 0.00005.)
Rolling(k) == Newest(Labelled(k), WindowSize)
Total(f) == FoldFunction(+, 0, f)
Errors(k) == [n \in Rolling(k) |-> Magnitude(log[n].error)]
Count(k) == IF Rolling(k) = {} THEN 1 ELSE Cardinality(Rolling(k))
MaeDegraded(k, cfg) == Total(Errors(k)) > cfg.mae * Count(k)
LateDegraded(k, cfg) ==
    100 * Cardinality({n \in Rolling(k) : IsLate(log[n])}) > cfg.late * Count(k)
Degraded(k, cfg) == MaeDegraded(k, cfg) \/ LateDegraded(k, cfg)

-----------------------------------------------------------------------------
(* Predictions, labels and drift checks *)

LogPrediction(o) ==
    /\ Len(log) < MaxRows
    /\ log' = Append(log, [order |-> o, error |-> None])
    /\ UNCHANGED <<reports, decisions, join, pc, local, reply, now>>

Unlabelled(o) == {n \in DOMAIN log : log[n].order = o /\ log[n].error = None}

\* join_actual: the first row of the order without a label (the query names no
\* order, tables are scanned by id).  The lag is computed from its predicted_at,
\* before the flush; an exception rolls everything back.
JoinActual(o, error) ==
    LET found == Unlabelled(o) # {}
        first == CHOOSE n \in Unlabelled(o) : \A k \in Unlabelled(o) : n <= k
        labelled == found /\ Subtractable(LoadedZone)
    IN /\ log' = IF labelled THEN [log EXCEPT ![first].error = error] ELSE log
       /\ join' = [join EXCEPT ![o] = IF labelled THEN "labelled"
                                      ELSE IF found THEN "error" ELSE "not found"]
       /\ UNCHANGED <<reports, decisions, pc, local, reply, now>>

\* tools/drift_injector.py writes labelled rows into the same table.
InjectPredictions(errors) ==
    /\ Len(log) + Len(errors) <= MaxRows
    /\ log' = log \o [n \in DOMAIN errors |-> [order |-> None, error |-> errors[n]]]
    /\ UNCHANGED <<reports, decisions, join, pc, local, reply, now>>

\* run_drift_check: one report for each feature with enough values.
DriftCheck(drifted) ==
    /\ Len(reports) + Len(drifted) <= MaxReports
    /\ reports' = reports \o drifted
    /\ UNCHANGED <<log, decisions, join, pc, local, reply, now>>

-----------------------------------------------------------------------------
(* evaluate_gate_endpoint *)

Goto(e, point) == pc' = [pc EXCEPT ![e] = point]
\* The thread ends and its session is closed.
Finish(e, answer) ==
    /\ reply' = [reply EXCEPT ![e] = answer]
    /\ local' = [local EXCEPT ![e] = Blank]
    /\ Goto(e, "done")

\* get_latest_drift_reports; psi_threshold of the config plays no part.
ReadReports(e, cfg) ==
    /\ pc[e] = "idle"
    /\ local' = [local EXCEPT ![e].config = cfg, ![e].drift = Drifted(Len(reports)),
                             ![e].reps = Len(reports)]
    /\ Goto(e, "metrics")
    /\ UNCHANGED <<tables, reply, now>>

ReadMetrics(e) ==
    /\ pc[e] = "metrics"
    /\ local' = [local EXCEPT ![e].perf = Degraded(Len(log), local[e].config),
                             ![e].samples = Cardinality(Rolling(Len(log))),
                             ![e].rows = Len(log)]
    /\ Goto(e, "decide")
    /\ UNCHANGED <<tables, reply, now>>

Triggers == {n \in DOMAIN decisions : decisions[n].result = "TRIGGERED"}
\* The trigger with the latest decided_at.
LastTrigger == CHOOSE n \in Triggers : \A k \in Triggers : decisions[k].at <= decisions[n].at
\* elapsed >= cooldown_seconds.  As the code is, the comparison is never reached:
\* wherever there is a last trigger, the subtraction before it raises.
CooldownElapsed(e) ==
    Triggers = {} \/ now - decisions[LastTrigger].at >= local[e].config.cooldown

\* now - last_trigger.decided_at raises TypeError.
Raises == Triggers # {} /\ ~Subtractable(LoadedZone)

\* Mutant: condition 4 is left out.
CheckCooldownSkipped(e) ==
    /\ pc[e] = "decide"
    /\ local' = [local EXCEPT ![e].cooldownOk = TRUE,
                             ![e].at = now, ![e].seen = Len(decisions)]
    /\ Goto(e, "commit")
    /\ UNCHANGED <<tables, reply, now>>
\* The query for the last trigger and the time of the decision.
CheckCooldown(e) ==
    /\ pc[e] = "decide" /\ ~Raises
    /\ local' = [local EXCEPT ![e].cooldownOk = CooldownElapsed(e),
                             ![e].at = now, ![e].seen = Len(decisions)]
    /\ Goto(e, "commit")
    /\ UNCHANGED <<tables, reply, now>>

\* The exception leaves get_session, which rolls back: 500 and no decision row.
EvaluationRaises(e) ==
    /\ pc[e] = "decide" /\ Raises
    /\ Finish(e, "error")
    /\ UNCHANGED <<tables, now>>

\* Mutant: all rows of the log are counted, not only those in the window.
EnoughSamplesOfLog(e) == Cardinality(Labelled(Len(log))) >= local[e].config.min
EnoughSamples(e) == local[e].samples >= local[e].config.min
Verdict(e) ==
    IF local[e].drift /\ local[e].perf /\ EnoughSamples(e) /\ local[e].cooldownOk
      THEN "TRIGGERED" ELSE "SUPPRESSED"

DecisionRow(e) ==
    [by |-> e, result |-> Verdict(e), config |-> local[e].config, at |-> local[e].at,
     reps |-> local[e].reps, rows |-> local[e].rows, seen |-> local[e].seen]

\* Mutant: suppressed evaluations are not written.
LoggedIfTriggered(e) ==
    IF Verdict(e) = "SUPPRESSED" THEN decisions
    ELSE Append(decisions, DecisionRow(e))
\* The insert of the decision row, for either verdict.
Logged(e) == Append(decisions, DecisionRow(e))

CommitDecision(e) ==
    /\ pc[e] = "commit"
    /\ decisions' = Logged(e)
    /\ Finish(e, Verdict(e))
    /\ UNCHANGED <<log, reports, join, now>>

Tick ==
    /\ now < MaxTime
    /\ now' = now + 1
    /\ UNCHANGED <<tables, pc, local, reply>>

-----------------------------------------------------------------------------
Next ==
    \/ \E o \in Orders : LogPrediction(o) \/ \E error \in {0, LateThreshold + 1} : JoinActual(o, error)
    \/ \E errors \in Injections : InjectPredictions(errors)
    \/ \E drifted \in Checks : DriftCheck(drifted)
    \/ \E e \in Evaluations :
          \/ \E cfg \in Configs : ReadReports(e, cfg)
          \/ ReadMetrics(e) \/ CheckCooldown(e) \/ EvaluationRaises(e) \/ CommitDecision(e)
    \/ Tick

Spec == Init /\ [][Next]_vars

-----------------------------------------------------------------------------
\* Conditions 1 to 3, of the tables as they were when the evaluation read them.
Justified(d) ==
    /\ Drifted(d.reps)
    /\ Degraded(d.rows, d.config)
    /\ Cardinality(Rolling(d.rows)) >= d.config.min

\* "Retraining is triggered ONLY when ALL conditions are met": the audit log says
\* TRIGGERED exactly where the drift reports and the predictions that were
\* committed when the evaluation read them meet the conditions of its request,
\* although they were read at different moments and have grown since.
TriggersAreJustified ==
    \A n \in DOMAIN decisions :
        decisions[n].result = "TRIGGERED" <=> Justified(decisions[n])

\* "prevents false-alarm-driven retraining thrash": what follows a trigger in the
\* audit log was decided by an evaluation that looked for the last trigger before
\* it was committed.  Evaluations that overlap may trigger twice; any later one
\* raises, for every cooldown, and leaves no row.
OnlyOverlapsFollow ==
    \A i \in Triggers, j \in DOMAIN decisions : i < j => decisions[j].seen < i

\* An evaluation that answered has exactly one row with its verdict in the audit
\* log, one that raised has none.
AnsweredIsLogged ==
    \A e \in Evaluations :
        LET rows == {n \in DOMAIN decisions : decisions[n].by = e}
        IN IF reply[e] \in GateResult
             THEN \E n \in rows : rows = {n} /\ decisions[n].result = reply[e]
             ELSE rows = {}
=============================================================================
