-------------------------- MODULE RetrainGateProofs --------------------------
(***************************************************************************)
(* Proofs about RetrainGate, for any sets of orders, injections, drift     *)
(* checks, evaluations and configurations (every field any integer), any   *)
(* window, limit and threshold, and any length of the tables.              *)
(*                                                                         *)
(* An evaluation decides on what it read at three earlier moments.  What   *)
(* it holds is what the tables held then (ReportsRead, MetricsRead), and   *)
(* that can still be computed from the tables, because they only grow and  *)
(* no row changes: join_actual would change one, but raises on every row   *)
(* it finds.  Nor has an evaluation that is about to commit seen a trigger *)
(* (Looked, NoneSeen): the lookup raises as soon as there is one.  Both    *)
(* rest on LoadedZone, the naive timestamp of a loaded row.                *)
(***************************************************************************)
EXTENDS RetrainGate, FiniteSetTheorems, WellFoundedInduction, TLAPS

\* What an evaluation has read is what the tables held at that moment.
ReportsRead(e) ==
    pc[e] \in {"metrics", "decide", "commit"} =>
        /\ local[e].config \in Configs
        /\ local[e].reps <= Len(reports)
        /\ local[e].drift = Drifted(local[e].reps)
MetricsRead(e) ==
    pc[e] \in {"decide", "commit"} =>
        /\ local[e].rows <= Len(log)
        /\ local[e].perf = Degraded(local[e].rows, local[e].config)
        /\ local[e].samples = Cardinality(Rolling(local[e].rows))
\* It commits only if there was no trigger to look at.
Looked(e) ==
    pc[e] = "commit" => local[e].cooldownOk = TRUE /\ local[e].seen <= Len(decisions)

Unanswered(e) == pc[e] # "done" => reply[e] \notin GateResult

EvaluationInv(e) == ReportsRead(e) /\ MetricsRead(e) /\ Looked(e) /\ Unanswered(e)

\* A decision's counts lie within the tables, and its verdict follows from them.
Backed(d) ==
    /\ d.rows <= Len(log) /\ d.reps <= Len(reports)
    /\ d.result = "TRIGGERED" <=> Justified(d)
AllBacked == \A n \in DOMAIN decisions : Backed(decisions[n])

IInv ==
    /\ TypeOK
    /\ \A e \in Evaluations : EvaluationInv(e)
    /\ AllBacked /\ AnsweredIsLogged

\* A table t has all rows of s, and perhaps more.
Extended(s, t) == Len(s) <= Len(t) /\ \A n \in 1..Len(s) : t[n] = s[n]

-----------------------------------------------------------------------------
(* Numbers and sets of positions *)

\* < on the natural numbers, as a set of pairs.
NatLess == {p \in Nat \X Nat : p[1] < p[2]}

\* < is well founded on the natural numbers.
LEMMA NatLessWellFounded == IsWellFoundedOn(NatLess, Nat)
  BY NatLessThanWellFounded, Zenon DEF OpToRel, NatLess

\* A non-empty set of natural numbers has a least element.
LEMMA NatMinimum ==
    ASSUME NEW T, T \subseteq Nat, T # {}
    PROVE  \E m \in T : \A n \in T : m <= n
<1>1. PICK m \in T : \A n \in T : <<n, m>> \notin NatLess
  BY NatLessWellFounded, WFMin, Zenon
<1>2. ASSUME NEW n \in T, n < m PROVE FALSE
  <2>1. <<n, m>> \in Nat \X Nat /\ <<n, m>>[1] = n /\ <<n, m>>[2] = m
    OBVIOUS
  <2> QED
    BY <1>1, <1>2, <2>1 DEF NatLess
<1> QED
  BY <1>2

\* The newest n rows are at most n of the rows.
LEMMA NewestBound ==
    ASSUME NEW rows, rows \subseteq Nat, IsFiniteSet(rows), NEW n \in Nat
    PROVE  /\ Newest(rows, n) \subseteq rows /\ IsFiniteSet(Newest(rows, n))
           /\ Cardinality(Newest(rows, n)) \in Nat
           /\ Cardinality(Newest(rows, n)) <= Cardinality(rows)
           /\ Cardinality(Newest(rows, n)) <= n
<1> DEFINE R == Newest(rows, n)
           Later(k) == {j \in rows : k < j}
<1>1. R \subseteq rows
  BY DEF Newest
<1>2. IsFiniteSet(R) /\ Cardinality(R) \in Nat /\ Cardinality(R) <= Cardinality(rows)
  BY <1>1, FS_Subset, FS_CardinalityType
<1>3. CASE R = {}
  BY <1>2, <1>3, FS_EmptySet
<1>4. CASE R # {}
  <2>1. PICK m \in R : \A k \in R : m <= k
    BY <1>1, <1>4, NatMinimum
  <2>2. Cardinality(Later(m)) < n
    BY <2>1 DEF Newest
  <2>3. R \ {m} \subseteq Later(m)
    <3> HIDE DEF R
    <3> SUFFICES ASSUME NEW k \in R, k # m PROVE k \in rows /\ m < k
      OBVIOUS
    <3> QED
      BY <1>1, <2>1
  <2>4. IsFiniteSet(Later(m))
    BY FS_Subset
  <2>5. Cardinality(R \ {m}) <= Cardinality(Later(m)) /\ Cardinality(Later(m)) \in Nat
    BY <2>3, <2>4, FS_Subset, FS_CardinalityType
  <2>6. Cardinality(R \ {m}) = Cardinality(R) - 1
    BY <1>2, <2>1, FS_RemoveElement
  <2> HIDE DEF Later
  <2> QED
    BY <1>2, <1>1, <2>2, <2>5, <2>6
<1> HIDE DEF R
<1> QED
  BY <1>1, <1>2, <1>3, <1>4 DEF R

-----------------------------------------------------------------------------
(* What the gate reads *)

\* A table extends itself.
LEMMA ExtendedRefl == ASSUME NEW s, Len(s) \in Nat PROVE Extended(s, s)
  BY DEF Extended

\* The rolling window of the first k predictions holds at most window_size rows.
LEMMA RollingBound ==
    ASSUME NEW k \in Nat
    PROVE  Cardinality(Rolling(k)) \in Nat /\ Cardinality(Rolling(k)) <= WindowSize
<1>1. WindowSize \in Nat
  BY GateAssumption
<1>2. IsFiniteSet(1..k) /\ Labelled(k) \subseteq 1..k
  BY FS_Interval DEF Labelled
<1>3. IsFiniteSet(Labelled(k)) /\ Labelled(k) \subseteq Nat
  BY <1>2, FS_Subset
<1> QED
  BY <1>1, <1>3, NewestBound DEF Rolling

\* What the gate makes of the first k predictions does not change while these
\* rows do not.
LEMMA MetricsKept ==
    ASSUME NEW k \in Nat, NEW cfg, \A n \in 1..k : log'[n] = log[n]
    PROVE  Rolling(k)' = Rolling(k) /\ Degraded(k, cfg)' = Degraded(k, cfg)
<1>1. Labelled(k)' = Labelled(k) /\ Labelled(k) \subseteq 1..k
  BY DEF Labelled
<1>2. Rolling(k)' = Rolling(k) /\ Rolling(k) \subseteq 1..k
  BY <1>1 DEF Rolling, Newest
<1>3. Count(k)' = Count(k)
  BY <1>2 DEF Count
<1>4. Errors(k)' = Errors(k)
  BY <1>2 DEF Errors
<1>5. MaeDegraded(k, cfg)' = MaeDegraded(k, cfg)
  BY <1>3, <1>4 DEF MaeDegraded
<1>6. {n \in Rolling(k)' : IsLate(log[n])'} = {n \in Rolling(k) : IsLate(log[n])}
  BY <1>2 DEF IsLate
<1>7. LateDegraded(k, cfg)' = LateDegraded(k, cfg)
  BY <1>3, <1>6 DEF LateDegraded
<1> QED
  BY <1>2, <1>5, <1>7 DEF Degraded

\* Nor do the first k drift reports.
LEMMA ReportsKept ==
    ASSUME NEW k \in Nat, \A n \in 1..k : reports'[n] = reports[n]
    PROVE  Drifted(k)' = Drifted(k)
<1>1. Newest(1..k, ReportLimit) \subseteq 1..k
  BY DEF Newest
<1> QED
  BY <1>1 DEF Drifted

\* An evaluation that does not move keeps what it read while the tables grow.
LEMMA EvidenceKept ==
    ASSUME TypeOK, TypeOK', NEW e \in Evaluations, EvaluationInv(e),
           Extended(log, log'), Extended(reports, reports'),
           Len(decisions) <= Len(decisions'),
           pc'[e] = pc[e], local'[e] = local[e], reply'[e] = reply[e]
    PROVE  EvaluationInv(e)'
<1>1. local[e] \in Local
  BY DEF TypeOK
<1>2. /\ log \in Seq(Row) /\ log' \in Seq(Row) /\ reports \in Seq(BOOLEAN)
      /\ reports' \in Seq(BOOLEAN) /\ decisions \in Seq(Decision) /\ decisions' \in Seq(Decision)
  BY DEF TypeOK
<1>3. PICK a, b, c, la, lb, lc, na, nb, nc \in Nat :
         /\ a = local[e].reps /\ b = local[e].rows /\ c = local[e].seen
         /\ la = Len(reports) /\ lb = Len(log) /\ lc = Len(decisions)
         /\ na = Len(reports') /\ nb = Len(log') /\ nc = Len(decisions')
  <2>1. local[e].reps \in Nat /\ local[e].rows \in Nat /\ local[e].seen \in Nat
    BY <1>1 DEF Local
  <2>2. Len(reports) \in Nat /\ Len(log) \in Nat /\ Len(decisions) \in Nat
    BY <1>2
  <2>3. Len(reports') \in Nat /\ Len(log') \in Nat /\ Len(decisions') \in Nat
    BY <1>2
  <2> QED
    BY <2>1, <2>2, <2>3
<1>4. la <= na /\ lb <= nb /\ lc <= nc
  BY <1>3 DEF Extended
<1>5. PICK cfg : cfg = local[e].config
  OBVIOUS
<1>6. ReportsRead(e)'
  <2> SUFFICES ASSUME pc[e] \in {"metrics", "decide", "commit"}
               PROVE  /\ cfg \in Configs /\ a <= na
                      /\ local[e].drift = Drifted(a)'
    BY <1>3, <1>5 DEF ReportsRead
  <2>1. cfg \in Configs /\ a <= la /\ local[e].drift = Drifted(a)
    BY <1>3, <1>5 DEF EvaluationInv, ReportsRead
  <2>2. \A n \in 1..a : reports'[n] = reports[n]
    BY <1>3, <2>1 DEF Extended
  <2> QED
    BY <1>4, <2>1, <2>2, ReportsKept
<1>7. MetricsRead(e)'
  <2> SUFFICES ASSUME pc[e] \in {"decide", "commit"}
               PROVE  /\ b <= nb
                      /\ local[e].perf = Degraded(b, cfg)'
                      /\ local[e].samples = Cardinality(Rolling(b))'
    BY <1>3, <1>5 DEF MetricsRead
  <2>1. /\ b <= lb /\ local[e].perf = Degraded(b, cfg)
        /\ local[e].samples = Cardinality(Rolling(b))
    BY <1>3, <1>5 DEF EvaluationInv, MetricsRead
  <2>2. \A n \in 1..b : log'[n] = log[n]
    BY <1>3, <2>1 DEF Extended
  <2> QED
    BY <1>4, <2>1, <2>2, MetricsKept
<1>8. Looked(e)'
  BY <1>3, <1>4 DEF EvaluationInv, Looked
<1>9. Unanswered(e)'
  BY DEF EvaluationInv, Unanswered
<1> QED
  BY <1>6, <1>7, <1>8, <1>9 DEF EvaluationInv

\* What justified a verdict still does when the tables have grown.
LEMMA BackedKept ==
    ASSUME NEW d \in Decision, Backed(d), TypeOK, TypeOK',
           Extended(log, log'), Extended(reports, reports')
    PROVE  Backed(d)'
<1>1. log \in Seq(Row) /\ log' \in Seq(Row) /\ reports \in Seq(BOOLEAN) /\ reports' \in Seq(BOOLEAN)
  BY DEF TypeOK
<1>2. PICK a, b, la, lb, na, nb \in Nat :
         /\ a = d.reps /\ b = d.rows /\ la = Len(reports) /\ lb = Len(log)
         /\ na = Len(reports') /\ nb = Len(log')
  <2>1. d.reps \in Nat /\ d.rows \in Nat
    BY DEF Decision
  <2>2. Len(reports) \in Nat /\ Len(log) \in Nat
    BY <1>1
  <2>3. Len(reports') \in Nat /\ Len(log') \in Nat
    BY <1>1
  <2> QED
    BY <2>1, <2>2, <2>3
<1>3. a <= la /\ b <= lb /\ la <= na /\ lb <= nb
  BY <1>2 DEF Backed, Extended
<1>4. Drifted(a)' = Drifted(a)
  <2>1. \A n \in 1..a : reports'[n] = reports[n]
    BY <1>2, <1>3 DEF Extended
  <2> QED
    BY <2>1, ReportsKept
<1>5. PICK cfg : cfg = d.config
  OBVIOUS
<1>6. Rolling(b)' = Rolling(b) /\ Degraded(b, cfg)' = Degraded(b, cfg)
  <2>1. \A n \in 1..b : log'[n] = log[n]
    BY <1>2, <1>3 DEF Extended
  <2> QED
    BY <2>1, MetricsKept
<1>7. Justified(d)' <=> Justified(d)
  BY <1>2, <1>4, <1>5, <1>6 DEF Justified
<1> QED
  BY <1>2, <1>3, <1>7 DEF Backed

\* The audit log stays backed when it is unchanged itself.
LEMMA AllBackedKept ==
    ASSUME TypeOK, TypeOK', AllBacked, UNCHANGED decisions,
           Extended(log, log'), Extended(reports, reports')
    PROVE  AllBacked'
<1> SUFFICES ASSUME NEW n \in DOMAIN decisions PROVE Backed(decisions[n])'
  BY DEF AllBacked
<1>1. PICK d \in Decision : d = decisions[n]
  <2>1. decisions \in Seq(Decision)
    BY DEF TypeOK
  <2> QED
    BY <2>1
<1>2. Backed(d)
  BY <1>1 DEF AllBacked
<1>3. Backed(d)'
  BY <1>2, BackedKept
<1>4. decisions'[n] = d
  BY <1>1
<1> QED
  BY <1>3, <1>4

-----------------------------------------------------------------------------
(* The tables grow *)

\* Rows and reports are added: whatever an evaluation has read, and whatever
\* justified a verdict, is still there.
LEMMA TablesGrow ==
    ASSUME IInv, TypeOK', UNCHANGED <<decisions, pc, local, reply>>,
           Extended(log, log'), Extended(reports, reports')
    PROVE  IInv'
<1>1. TypeOK /\ AllBacked /\ AnsweredIsLogged /\ decisions \in Seq(Decision)
  BY DEF IInv, TypeOK
<1>2. Len(decisions) \in Nat
  BY <1>1
<1>3. Len(decisions) <= Len(decisions')
  BY <1>2
<1>4. ASSUME NEW e \in Evaluations PROVE EvaluationInv(e)'
  <2>1. EvaluationInv(e)
    BY DEF IInv
  <2>2. pc'[e] = pc[e] /\ local'[e] = local[e] /\ reply'[e] = reply[e]
    OBVIOUS
  <2> QED
    BY <1>1, <1>3, <2>1, <2>2, EvidenceKept
<1>5. AllBacked'
  BY <1>1, AllBackedKept
<1>6. AnsweredIsLogged'
  BY <1>1 DEF AnsweredIsLogged
<1> QED
  BY <1>4, <1>5, <1>6 DEF IInv

\* A prediction is logged.
LEMMA LogPredictionInv ==
    ASSUME IInv, NEW o \in Orders, LogPrediction(o)
    PROVE  IInv'
<1> DEFINE row == [order |-> o, error |-> None]
<1>1. log \in Seq(Row) /\ row \in Row /\ reports \in Seq(BOOLEAN)
  BY DEF IInv, TypeOK, Row
<1>2. /\ log' = Append(log, row) /\ UNCHANGED <<reports, decisions, join, pc, local, reply, now>>
  BY DEF LogPrediction
<1> HIDE DEF row
<1>3. log' \in Seq(Row)
  BY <1>1, <1>2
<1>4. Extended(log, log') /\ Extended(reports, reports')
  BY <1>1, <1>2 DEF Extended
<1>5. TypeOK'
  BY <1>2, <1>3 DEF IInv, TypeOK
<1> QED
  BY <1>2, <1>4, <1>5, TablesGrow

\* join_actual finds a row and raises, or finds none: the log stays as it is.
LEMMA JoinActualInv ==
    ASSUME IInv, NEW o \in Orders, NEW error, JoinActual(o, error)
    PROVE  IInv'
<1>1. /\ log' = log /\ UNCHANGED <<reports, decisions, pc, local, reply, now>>
      /\ join' \in [Orders -> {None, "labelled", "not found", "error"}]
  <2>1. ~Subtractable(LoadedZone)
    BY DEF Subtractable, LoadedZone
  <2>2. join \in [Orders -> {None, "labelled", "not found", "error"}]
    BY DEF IInv, TypeOK
  <2>3. log' = log /\ UNCHANGED <<reports, decisions, pc, local, reply, now>>
    BY <2>1 DEF JoinActual
  <2>4. join' \in [Orders -> {None, "labelled", "not found", "error"}]
    BY <2>1, <2>2 DEF JoinActual
  <2> QED
    BY <2>3, <2>4
<1>2. TypeOK'
  BY <1>1 DEF IInv, TypeOK
<1>3. log \in Seq(Row) /\ reports \in Seq(BOOLEAN)
  BY DEF IInv, TypeOK
<1>4. Extended(log, log') /\ Extended(reports, reports')
  <2>1. Len(log) \in Nat /\ Len(reports) \in Nat
    BY <1>3
  <2> QED
    BY <1>1, <2>1, ExtendedRefl
<1> QED
  BY <1>1, <1>2, <1>4, TablesGrow

\* The drift injector appends labelled rows.
LEMMA InjectPredictionsInv ==
    ASSUME IInv, NEW errors \in Injections, InjectPredictions(errors)
    PROVE  IInv'
<1> DEFINE rows == [n \in DOMAIN errors |-> [order |-> None, error |-> errors[n]]]
<1>1. log \in Seq(Row) /\ errors \in Seq(Int) /\ reports \in Seq(BOOLEAN)
  BY GateAssumption DEF IInv, TypeOK
<1>2. rows \in Seq(Row)
  <2>1. DOMAIN errors = 1..Len(errors) /\ Len(errors) \in Nat
    BY <1>1
  <2>2. \A n \in DOMAIN errors : [order |-> None, error |-> errors[n]] \in Row
    BY <1>1 DEF Row
  <2> QED
    BY <2>1, <2>2
<1>3. log' = log \o rows /\ UNCHANGED <<reports, decisions, join, pc, local, reply, now>>
  BY DEF InjectPredictions
<1> HIDE DEF rows
<1>4. log' \in Seq(Row)
  BY <1>1, <1>2, <1>3
<1>5. Extended(log, log') /\ Extended(reports, reports')
  BY <1>1, <1>2, <1>3 DEF Extended
<1>6. TypeOK'
  BY <1>3, <1>4 DEF IInv, TypeOK
<1> QED
  BY <1>3, <1>5, <1>6, TablesGrow

\* A drift check appends its reports.
LEMMA DriftCheckInv ==
    ASSUME IInv, NEW drifted \in Checks, DriftCheck(drifted)
    PROVE  IInv'
<1>1. reports \in Seq(BOOLEAN) /\ drifted \in Seq(BOOLEAN) /\ log \in Seq(Row)
  BY GateAssumption DEF IInv, TypeOK
<1>2. reports' = reports \o drifted /\ UNCHANGED <<log, decisions, join, pc, local, reply, now>>
  BY DEF DriftCheck
<1>3. reports' \in Seq(BOOLEAN)
  BY <1>1, <1>2
<1>4. Extended(log, log') /\ Extended(reports, reports')
  BY <1>1, <1>2 DEF Extended
<1>5. TypeOK'
  BY <1>2, <1>3 DEF IInv, TypeOK
<1> QED
  BY <1>2, <1>4, <1>5, TablesGrow

\* Time passes.
LEMMA TickInv ==
    ASSUME IInv, Tick
    PROVE  IInv'
<1>1. now' \in 0..MaxTime
  <2>1. now \in 0..MaxTime /\ MaxTime \in Nat
    BY GateAssumption DEF IInv, TypeOK
  <2> QED
    BY <2>1 DEF Tick
<1>2. UNCHANGED <<log, reports, decisions, join, pc, local, reply>>
  BY DEF Tick, tables
<1>3. TypeOK'
  BY <1>1, <1>2 DEF IInv, TypeOK
<1>4. log \in Seq(Row) /\ reports \in Seq(BOOLEAN)
  BY DEF IInv, TypeOK
<1>5. Extended(log, log') /\ Extended(reports, reports')
  <2>1. Len(log) \in Nat /\ Len(reports) \in Nat
    BY <1>4
  <2> QED
    BY <1>2, <2>1, ExtendedRefl
<1> QED
  BY <1>2, <1>3, <1>5, TablesGrow

-----------------------------------------------------------------------------
(* Evaluations read and decide *)

\* A step of one evaluation that writes no table and answers with no verdict.
LEMMA EvaluationReads ==
    ASSUME IInv, TypeOK', NEW e \in Evaluations, EvaluationInv(e)',
           UNCHANGED <<log, reports, decisions>>,
           reply[e] \notin GateResult, reply'[e] \notin GateResult,
           \A d \in Evaluations \ {e} :
               pc'[d] = pc[d] /\ local'[d] = local[d] /\ reply'[d] = reply[d]
    PROVE  IInv'
<1>1. /\ TypeOK /\ AllBacked /\ AnsweredIsLogged
      /\ log \in Seq(Row) /\ reports \in Seq(BOOLEAN) /\ decisions \in Seq(Decision)
  BY DEF IInv, TypeOK
<1>2. /\ Len(log) \in Nat /\ Len(reports) \in Nat /\ Len(decisions) \in Nat
  BY <1>1
<1>3. /\ Extended(log, log') /\ Extended(reports, reports') /\ Len(decisions) <= Len(decisions')
  BY <1>2, ExtendedRefl
<1>4. ASSUME NEW d \in Evaluations PROVE EvaluationInv(d)'
  <2>1. CASE d = e
    BY <2>1
  <2>2. CASE d # e
    <3>1. EvaluationInv(d) /\ pc'[d] = pc[d] /\ local'[d] = local[d] /\ reply'[d] = reply[d]
      BY <2>2 DEF IInv
    <3> QED
      BY <1>1, <1>3, <3>1, EvidenceKept
  <2> QED
    BY <2>1, <2>2
<1>5. AllBacked'
  BY <1>1, <1>3, AllBackedKept
<1>6. AnsweredIsLogged'
  <2> DEFINE Rows(d) == {n \in DOMAIN decisions : decisions[n].by = d}
             Fits(d, r) == IF r \in GateResult
                             THEN \E n \in Rows(d) : Rows(d) = {n} /\ decisions[n].result = r
                             ELSE Rows(d) = {}
  <2>1. \A d \in Evaluations : Fits(d, reply[d])
    BY <1>1 DEF AnsweredIsLogged
  <2>2. Fits(e, reply[e]) => Fits(e, reply'[e])
    OBVIOUS
  <2>3. \A d \in Evaluations : Fits(d, reply'[d])
    <3> HIDE DEF Fits
    <3> QED
      BY <2>1, <2>2
  <2>4. decisions' = decisions
    OBVIOUS
  <2> QED
    BY <2>3, <2>4 DEF AnsweredIsLogged, GateResult
<1> QED
  BY <1>4, <1>5, <1>6 DEF IInv

\* Before its answer an evaluation has no reply with a verdict.
LEMMA RunningIsUnanswered ==
    ASSUME IInv, NEW e \in Evaluations, pc[e] # "done"
    PROVE  reply[e] \notin GateResult
  BY DEF IInv, EvaluationInv, Unanswered

\* The drift reports are read.
LEMMA ReadReportsInv ==
    ASSUME IInv, NEW e \in Evaluations, NEW cfg \in Configs, ReadReports(e, cfg)
    PROVE  IInv'
<1>1. /\ local \in [Evaluations -> Local]
      /\ pc \in [Evaluations -> {"idle", "metrics", "decide", "commit", "done"}]
      /\ reports \in Seq(BOOLEAN)
  BY DEF IInv, TypeOK
<1>2. PICK l \in Local : l = local[e]
  BY <1>1
<1>3. PICK n \in Nat : n = Len(reports)
  BY <1>1
<1>4. PICK drift \in BOOLEAN : drift = Drifted(n)
  BY DEF Drifted
<1>5. PICK k : k = [l EXCEPT !.config = cfg, !.drift = drift, !.reps = n]
  OBVIOUS
<1>6. k \in Local /\ k.config = cfg /\ k.drift = drift /\ k.reps = n
  BY <1>2, <1>3, <1>4, <1>5 DEF Local
<1>7. /\ local' = [local EXCEPT ![e] = k]
      /\ pc' = [pc EXCEPT ![e] = "metrics"] /\ pc[e] = "idle"
      /\ UNCHANGED <<log, reports, decisions, join, reply, now>>
  BY <1>1, <1>2, <1>3, <1>4, <1>5 DEF ReadReports, Goto, tables
<1>8. TypeOK'
  <2>1. local' \in [Evaluations -> Local]
    BY <1>1, <1>6, <1>7
  <2>2. pc' \in [Evaluations -> {"idle", "metrics", "decide", "commit", "done"}]
    BY <1>1, <1>7
  <2> QED
    BY <1>7, <2>1, <2>2 DEF IInv, TypeOK
<1>9. reply[e] \notin GateResult
  BY <1>7, RunningIsUnanswered
<1>10. pc'[e] = "metrics" /\ local'[e] = k
  BY <1>1, <1>7
<1>11. EvaluationInv(e)'
  <2>1. Drifted(n)' = Drifted(n)
    BY <1>7 DEF Drifted
  <2>2. ReportsRead(e)'
    BY <1>3, <1>4, <1>6, <1>7, <1>10, <2>1 DEF ReportsRead
  <2>3. MetricsRead(e)' /\ Looked(e)' /\ Unanswered(e)'
    BY <1>7, <1>9, <1>10 DEF MetricsRead, Looked, Unanswered
  <2> QED
    BY <2>2, <2>3 DEF EvaluationInv
<1>12. \A d \in Evaluations \ {e} :
          pc'[d] = pc[d] /\ local'[d] = local[d] /\ reply'[d] = reply[d]
  BY <1>1, <1>7
<1> QED
  BY <1>7, <1>8, <1>9, <1>11, <1>12, EvaluationReads

\* The rolling metrics are read.
LEMMA ReadMetricsInv ==
    ASSUME IInv, NEW e \in Evaluations, ReadMetrics(e)
    PROVE  IInv'
<1>1. /\ local \in [Evaluations -> Local]
      /\ pc \in [Evaluations -> {"idle", "metrics", "decide", "commit", "done"}]
      /\ log \in Seq(Row) /\ reports \in Seq(BOOLEAN)
  BY DEF IInv, TypeOK
<1>2. PICK l \in Local : l = local[e]
  BY <1>1
<1>3. PICK n \in Nat : n = Len(log)
  BY <1>1
<1>4. PICK cfg : cfg = l.config
  OBVIOUS
<1>5. PICK perf \in BOOLEAN : perf = Degraded(n, cfg)
  BY DEF Degraded, MaeDegraded, LateDegraded
<1>6. PICK samples \in Nat : samples = Cardinality(Rolling(n))
  BY RollingBound
<1>7. PICK k : k = [l EXCEPT !.perf = perf, !.samples = samples, !.rows = n]
  OBVIOUS
<1>8. /\ k \in Local /\ k.config = cfg /\ k.drift = l.drift /\ k.reps = l.reps
      /\ k.perf = perf /\ k.samples = samples /\ k.rows = n
  BY <1>2, <1>3, <1>4, <1>5, <1>6, <1>7 DEF Local
<1>9. /\ local' = [local EXCEPT ![e] = k]
      /\ pc' = [pc EXCEPT ![e] = "decide"] /\ pc[e] = "metrics"
      /\ UNCHANGED <<log, reports, decisions, join, reply, now>>
  BY <1>1, <1>2, <1>3, <1>4, <1>5, <1>6, <1>7 DEF ReadMetrics, Goto, tables
<1>10. TypeOK'
  <2>1. local' \in [Evaluations -> Local]
    BY <1>1, <1>8, <1>9
  <2>2. pc' \in [Evaluations -> {"idle", "metrics", "decide", "commit", "done"}]
    BY <1>1, <1>9
  <2> QED
    BY <1>9, <2>1, <2>2 DEF IInv, TypeOK
<1>11. reply[e] \notin GateResult
  BY <1>9, RunningIsUnanswered
<1>12. pc'[e] = "decide" /\ local'[e] = k
  BY <1>1, <1>9
<1>13. EvaluationInv(e)'
  <2>1. \A m \in 1..n : log'[m] = log[m]
    BY <1>9
  <2>2. Rolling(n)' = Rolling(n) /\ Degraded(n, cfg)' = Degraded(n, cfg)
    BY <2>1, MetricsKept
  <2>3. MetricsRead(e)'
    BY <1>3, <1>5, <1>6, <1>8, <1>9, <1>12, <2>2 DEF MetricsRead
  <2>4. ReportsRead(e)'
    <3>1. PICK a \in Nat : a = l.reps
      BY <1>2 DEF Local
    <3>2. cfg \in Configs /\ a <= Len(reports) /\ l.drift = Drifted(a)
      BY <1>2, <1>4, <1>9, <3>1 DEF IInv, EvaluationInv, ReportsRead
    <3>3. Drifted(a)' = Drifted(a)
      BY <1>9 DEF Drifted
    <3> QED
      BY <1>8, <1>9, <1>12, <3>1, <3>2, <3>3 DEF ReportsRead
  <2>5. Looked(e)' /\ Unanswered(e)'
    BY <1>9, <1>11, <1>12 DEF Looked, Unanswered
  <2> QED
    BY <2>3, <2>4, <2>5 DEF EvaluationInv
<1>14. \A d \in Evaluations \ {e} :
          pc'[d] = pc[d] /\ local'[d] = local[d] /\ reply'[d] = reply[d]
  BY <1>1, <1>9
<1> QED
  BY <1>9, <1>10, <1>11, <1>13, <1>14, EvaluationReads

\* The lookup raises as soon as there is a trigger.
LEMMA RaisesAfterTrigger == Raises <=> Triggers # {}
  BY DEF Raises, Subtractable, LoadedZone

\* The last trigger is looked up, and there is none.
LEMMA CheckCooldownInv ==
    ASSUME IInv, NEW e \in Evaluations, CheckCooldown(e)
    PROVE  IInv'
<1>1. /\ local \in [Evaluations -> Local]
      /\ pc \in [Evaluations -> {"idle", "metrics", "decide", "commit", "done"}]
      /\ decisions \in Seq(Decision) /\ now \in 0..MaxTime
      /\ log \in Seq(Row) /\ reports \in Seq(BOOLEAN)
  BY DEF IInv, TypeOK
<1>2. PICK l \in Local : l = local[e]
  BY <1>1
<1>3. PICK n \in Nat : n = Len(decisions)
  BY <1>1
<1>4. CooldownElapsed(e) = TRUE
  BY RaisesAfterTrigger DEF CheckCooldown, CooldownElapsed
<1>5. PICK k : k = [l EXCEPT !.cooldownOk = TRUE, !.at = now, !.seen = n]
  OBVIOUS
<1>6. /\ k \in Local /\ k.config = l.config /\ k.drift = l.drift /\ k.reps = l.reps
      /\ k.perf = l.perf /\ k.samples = l.samples /\ k.rows = l.rows
      /\ k.cooldownOk = TRUE /\ k.seen = n
  BY <1>1, <1>2, <1>3, <1>5 DEF Local
<1>7. /\ local' = [local EXCEPT ![e] = k]
      /\ pc' = [pc EXCEPT ![e] = "commit"] /\ pc[e] = "decide"
      /\ UNCHANGED <<log, reports, decisions, join, reply, now>>
  BY <1>1, <1>2, <1>3, <1>4, <1>5 DEF CheckCooldown, Goto, tables
<1>8. TypeOK'
  <2>1. local' \in [Evaluations -> Local]
    BY <1>1, <1>6, <1>7
  <2>2. pc' \in [Evaluations -> {"idle", "metrics", "decide", "commit", "done"}]
    BY <1>1, <1>7
  <2> QED
    BY <1>7, <2>1, <2>2 DEF IInv, TypeOK
<1>9. reply[e] \notin GateResult
  BY <1>7, RunningIsUnanswered
<1>10. pc'[e] = "commit" /\ local'[e] = k
  BY <1>1, <1>7
<1>11. EvaluationInv(e)'
  <2>1. PICK a, b \in Nat, cfg \in Configs \cup {None} : a = l.reps /\ b = l.rows /\ cfg = l.config
    BY <1>2 DEF Local
  <2>2. /\ cfg \in Configs /\ a <= Len(reports) /\ l.drift = Drifted(a)
        /\ b <= Len(log) /\ l.perf = Degraded(b, cfg)
        /\ l.samples = Cardinality(Rolling(b))
    BY <1>2, <1>7, <2>1 DEF IInv, EvaluationInv, ReportsRead, MetricsRead
  <2>3. Drifted(a)' = Drifted(a)
    BY <1>7 DEF Drifted
  <2>4. \A m \in 1..b : log'[m] = log[m]
    BY <1>7
  <2>5. Rolling(b)' = Rolling(b) /\ Degraded(b, cfg)' = Degraded(b, cfg)
    BY <2>4, MetricsKept
  <2>6. ReportsRead(e)'
    BY <1>6, <1>7, <1>10, <2>1, <2>2, <2>3 DEF ReportsRead
  <2>7. MetricsRead(e)'
    BY <1>6, <1>7, <1>10, <2>1, <2>2, <2>5 DEF MetricsRead
  <2>8. Looked(e)' /\ Unanswered(e)'
    BY <1>3, <1>6, <1>7, <1>9, <1>10 DEF Looked, Unanswered
  <2> QED
    BY <2>6, <2>7, <2>8 DEF EvaluationInv
<1>12. \A d \in Evaluations \ {e} :
          pc'[d] = pc[d] /\ local'[d] = local[d] /\ reply'[d] = reply[d]
  BY <1>1, <1>7
<1> QED
  BY <1>7, <1>8, <1>9, <1>11, <1>12, EvaluationReads

\* An evaluation ends with an answer.
LEMMA FinishEffect ==
    ASSUME TypeOK, NEW e \in Evaluations, NEW answer \in GateResult \cup {None, "error"},
           Finish(e, answer)
    PROVE  /\ pc' \in [Evaluations -> {"idle", "metrics", "decide", "commit", "done"}]
           /\ local' \in [Evaluations -> Local]
           /\ reply' \in [Evaluations -> GateResult \cup {None, "error"}]
           /\ pc'[e] = "done" /\ reply'[e] = answer
           /\ \A d \in Evaluations \ {e} :
                 pc'[d] = pc[d] /\ local'[d] = local[d] /\ reply'[d] = reply[d]
<1>1. Blank \in Local
  BY GateAssumption DEF Blank, Local
<1>2. /\ pc \in [Evaluations -> {"idle", "metrics", "decide", "commit", "done"}]
      /\ local \in [Evaluations -> Local]
      /\ reply \in [Evaluations -> GateResult \cup {None, "error"}]
  BY DEF TypeOK
<1>3. /\ reply' = [reply EXCEPT ![e] = answer]
      /\ local' = [local EXCEPT ![e] = Blank]
      /\ pc' = [pc EXCEPT ![e] = "done"]
  BY DEF Finish, Goto
<1> QED
  BY <1>1, <1>2, <1>3

\* The subtraction of the timestamps raises.
LEMMA EvaluationRaisesInv ==
    ASSUME IInv, NEW e \in Evaluations, EvaluationRaises(e)
    PROVE  IInv'
<1>1. pc[e] = "decide" /\ Finish(e, "error") /\ UNCHANGED <<log, reports, decisions, join, now>>
  BY DEF EvaluationRaises, tables
<1>2. TypeOK
  BY DEF IInv
<1>3. /\ pc' \in [Evaluations -> {"idle", "metrics", "decide", "commit", "done"}]
      /\ local' \in [Evaluations -> Local]
      /\ reply' \in [Evaluations -> GateResult \cup {None, "error"}]
      /\ pc'[e] = "done" /\ reply'[e] = "error"
      /\ \A d \in Evaluations \ {e} :
            pc'[d] = pc[d] /\ local'[d] = local[d] /\ reply'[d] = reply[d]
  BY <1>1, <1>2, FinishEffect
<1>4. TypeOK'
  BY <1>1, <1>2, <1>3 DEF TypeOK
<1>5. reply[e] \notin GateResult /\ reply'[e] \notin GateResult
  BY <1>1, <1>3, RunningIsUnanswered DEF GateResult
<1>6. EvaluationInv(e)'
  BY <1>3 DEF EvaluationInv, ReportsRead, MetricsRead, Looked, Unanswered
<1> QED
  BY <1>1, <1>3, <1>4, <1>5, <1>6, EvaluationReads

\* What the insert of a decision row does to the audit log.
LEMMA LoggedEffect ==
    ASSUME IInv, NEW e \in Evaluations, CommitDecision(e)
    PROVE  \E row \in Decision, n \in Nat :
             /\ row = DecisionRow(e)
             /\ n = Len(decisions) + 1 /\ Verdict(e) \in GateResult
             /\ decisions' \in Seq(Decision) /\ Len(decisions') = n
             /\ DOMAIN decisions = 1..(n - 1) /\ DOMAIN decisions' = 1..n
             /\ decisions'[n] = row
             /\ \A i \in DOMAIN decisions : decisions'[i] = decisions[i]
             /\ \A i \in DOMAIN decisions' : i = n \/ i \in DOMAIN decisions
             /\ Triggers' = IF Verdict(e) = "TRIGGERED" THEN Triggers \cup {n} ELSE Triggers
<1> DEFINE row == DecisionRow(e)
           n == Len(decisions) + 1
<1>1. decisions \in Seq(Decision) /\ local[e] \in Local
  BY DEF IInv, TypeOK
<1>2. Verdict(e) \in GateResult
  BY DEF Verdict, GateResult
<1>3. local[e].config \in Configs
  BY DEF CommitDecision, IInv, EvaluationInv, ReportsRead
<1>4. row \in Decision
  BY <1>1, <1>2, <1>3 DEF Decision, Local, DecisionRow
<1>5. decisions' = Append(decisions, row)
  BY DEF CommitDecision, Logged
<1>6. row.result = Verdict(e)
  BY DEF DecisionRow
<1> HIDE DEF row
<1>7. /\ Len(decisions) \in Nat /\ DOMAIN decisions = 1..Len(decisions)
      /\ decisions' \in Seq(Decision) /\ Len(decisions') = Len(decisions) + 1
      /\ decisions'[Len(decisions) + 1] = row
      /\ \A i \in 1..Len(decisions) : decisions'[i] = decisions[i]
  BY <1>1, <1>4, <1>5
<1>8. /\ n \in Nat \ {0} /\ DOMAIN decisions = 1..(n - 1) /\ DOMAIN decisions' = 1..n
      /\ decisions'[n] = row /\ Len(decisions') = n
      /\ \A i \in DOMAIN decisions : decisions'[i] = decisions[i]
      /\ \A i \in DOMAIN decisions' : i = n \/ i \in DOMAIN decisions
  BY <1>7
<1> HIDE DEF n
<1>9. \A i : i \in DOMAIN decisions' <=> i = n \/ i \in DOMAIN decisions
  BY <1>8
<1>10. Triggers' = {i \in DOMAIN decisions' : decisions'[i].result = "TRIGGERED"}
  BY DEF Triggers
<1>11. Triggers' = IF Verdict(e) = "TRIGGERED" THEN Triggers \cup {n} ELSE Triggers
  BY <1>6, <1>8, <1>9, <1>10 DEF Triggers
<1> QED
  BY <1>2, <1>4, <1>7, <1>8, <1>11 DEF row, n

\* The verdict is committed with its row.
LEMMA CommitDecisionInv ==
    ASSUME IInv, NEW e \in Evaluations, CommitDecision(e)
    PROVE  IInv'
<1> DEFINE l == local[e]
<1>1. PICK row \in Decision, n \in Nat :
         /\ row = DecisionRow(e)
         /\ n = Len(decisions) + 1 /\ Verdict(e) \in GateResult
         /\ decisions' \in Seq(Decision) /\ Len(decisions') = n
         /\ DOMAIN decisions = 1..(n - 1) /\ DOMAIN decisions' = 1..n
         /\ decisions'[n] = row
         /\ \A i \in DOMAIN decisions : decisions'[i] = decisions[i]
         /\ \A i \in DOMAIN decisions' : i = n \/ i \in DOMAIN decisions
         /\ Triggers' = IF Verdict(e) = "TRIGGERED" THEN Triggers \cup {n} ELSE Triggers
  BY LoggedEffect
<1>2. /\ pc[e] = "commit" /\ Finish(e, Verdict(e))
      /\ UNCHANGED <<log, reports, join, now>> /\ TypeOK
  BY DEF CommitDecision, IInv
<1>3. /\ pc' \in [Evaluations -> {"idle", "metrics", "decide", "commit", "done"}]
      /\ local' \in [Evaluations -> Local]
      /\ reply' \in [Evaluations -> GateResult \cup {None, "error"}]
      /\ pc'[e] = "done" /\ reply'[e] = Verdict(e)
      /\ \A d \in Evaluations \ {e} :
            pc'[d] = pc[d] /\ local'[d] = local[d] /\ reply'[d] = reply[d]
  BY <1>1, <1>2, FinishEffect
<1>4. TypeOK'
  BY <1>1, <1>2, <1>3 DEF TypeOK
<1>5. /\ row.by = e /\ row.result = Verdict(e) /\ row.config = l.config
      /\ row.reps = l.reps /\ row.rows = l.rows
  BY <1>1 DEF DecisionRow
<1>6. Extended(log, log') /\ Extended(reports, reports') /\ Len(decisions) <= Len(decisions')
  <2>1. log \in Seq(Row) /\ reports \in Seq(BOOLEAN) /\ decisions \in Seq(Decision)
    BY <1>2 DEF TypeOK
  <2>2. Len(log) \in Nat /\ Len(reports) \in Nat /\ Len(decisions) \in Nat
    BY <2>1
  <2> QED
    BY <1>1, <1>2, <2>2, ExtendedRefl
<1>7. EvaluationInv(e) /\ l \in Local
  BY <1>2 DEF IInv, TypeOK
<1>8. ASSUME NEW d \in Evaluations PROVE EvaluationInv(d)'
  <2>1. CASE d = e
    BY <1>3, <2>1 DEF EvaluationInv, ReportsRead, MetricsRead, Looked, Unanswered
  <2>2. CASE d # e
    <3>1. EvaluationInv(d) /\ pc'[d] = pc[d] /\ local'[d] = local[d] /\ reply'[d] = reply[d]
      BY <1>3, <2>2 DEF IInv
    <3> QED
      BY <1>2, <1>4, <1>6, <3>1, EvidenceKept
  <2> QED
    BY <2>1, <2>2
<1>9. Backed(row)
  <2>1. /\ l.reps <= Len(reports) /\ l.drift = Drifted(l.reps)
        /\ l.rows <= Len(log) /\ l.perf = Degraded(l.rows, l.config)
        /\ l.samples = Cardinality(Rolling(l.rows)) /\ l.cooldownOk = TRUE
    BY <1>2, <1>7 DEF EvaluationInv, ReportsRead, MetricsRead, Looked
  <2>2. Verdict(e) = "TRIGGERED" <=> l.drift /\ l.perf /\ l.samples >= l.config.min
    BY <2>1 DEF Verdict, EnoughSamples
  <2> HIDE DEF l
  <2>3. Justified(row) <=> l.drift /\ l.perf /\ l.samples >= l.config.min
    BY <1>5, <2>1 DEF Justified
  <2> QED
    BY <1>5, <2>1, <2>2, <2>3 DEF Backed
<1>10. AllBacked'
  <2> SUFFICES ASSUME NEW i \in DOMAIN decisions' PROVE Backed(decisions[i])'
    BY DEF AllBacked
  <2>1. PICK d \in Decision : d = decisions'[i] /\ Backed(d)
    <3>1. CASE i = n
      BY <1>1, <1>9, <3>1
    <3>2. CASE i # n
      <4>1. i \in DOMAIN decisions /\ decisions'[i] = decisions[i]
        BY <1>1, <3>2
      <4>2. Backed(decisions[i]) /\ decisions[i] \in Decision
        <5>1. decisions \in Seq(Decision)
          BY <1>2 DEF TypeOK
        <5> QED
          BY <4>1, <5>1 DEF IInv, AllBacked
      <4> QED
        BY <4>1, <4>2
    <3> QED
      BY <3>1, <3>2
  <2>2. Backed(d)'
    BY <1>2, <1>4, <1>6, <2>1, BackedKept
  <2> QED
    BY <2>1, <2>2
<1>11. AnsweredIsLogged'
  <2> DEFINE Rows(d) == {i \in DOMAIN decisions : decisions[i].by = d}
             NewRows(d) == {i \in DOMAIN decisions' : decisions'[i].by = d}
  <2> SUFFICES ASSUME NEW d \in Evaluations
               PROVE  IF reply'[d] \in GateResult
                        THEN \E i \in NewRows(d) :
                                NewRows(d) = {i} /\ decisions'[i].result = reply'[d]
                        ELSE NewRows(d) = {}
    BY DEF AnsweredIsLogged
  <2>1. IF reply[d] \in GateResult
          THEN \E i \in Rows(d) : Rows(d) = {i} /\ decisions[i].result = reply[d]
          ELSE Rows(d) = {}
    BY DEF IInv, AnsweredIsLogged
  <2>2. \A i : i \in DOMAIN decisions' <=> i = n \/ i \in DOMAIN decisions
    BY <1>1
  <2>3. CASE d = e
    <3>1. reply[e] \notin GateResult
      BY <1>2, RunningIsUnanswered
    <3>2. Rows(e) = {}
      BY <2>1, <2>3, <3>1
    <3>3. decisions'[n].by = e /\ decisions'[n].result = Verdict(e)
      BY <1>1, <1>5
    <3>4. NewRows(e) = {n}
      BY <1>1, <2>2, <3>2, <3>3
    <3> QED
      BY <1>1, <1>3, <2>3, <3>3, <3>4
  <2>4. CASE d # e
    <3>1. decisions'[n].by # d
      BY <1>1, <1>5, <2>4
    <3>2. NewRows(d) = Rows(d)
      BY <1>1, <2>2, <3>1
    <3>3. reply'[d] = reply[d] /\ \A i \in Rows(d) : decisions'[i] = decisions[i]
      BY <1>1, <1>3, <2>4
    <3> HIDE DEF Rows, NewRows
    <3> QED
      BY <2>1, <3>2, <3>3
  <2> QED
    BY <2>3, <2>4
<1> QED
  BY <1>4, <1>8, <1>10, <1>11 DEF IInv

-----------------------------------------------------------------------------
(* The theorems *)

\* IInv holds initially and is preserved by every step.
THEOREM Invariance == Spec => []IInv
<1>1. Init => IInv
  <2> SUFFICES ASSUME Init PROVE IInv
    OBVIOUS
  <2>1. Blank \in Local /\ MaxTime \in Nat
    BY GateAssumption DEF Blank, Local
  <2>2. TypeOK
    BY <2>1 DEF Init, TypeOK
  <2>3. \A e \in Evaluations : reply[e] \notin GateResult
    BY GateAssumption DEF Init, GateResult
  <2>4. \A e \in Evaluations : EvaluationInv(e)
    BY <2>3 DEF Init, EvaluationInv, ReportsRead, MetricsRead, Looked, Unanswered
  <2>5. DOMAIN decisions = {}
    BY DEF Init
  <2>6. AllBacked
    BY <2>5 DEF AllBacked
  <2>7. AnsweredIsLogged
    BY <2>3, <2>5 DEF AnsweredIsLogged
  <2> QED
    BY <2>2, <2>4, <2>6, <2>7 DEF IInv
<1>2. IInv /\ [Next]_vars => IInv'
  <2> SUFFICES ASSUME IInv, [Next]_vars PROVE IInv'
    OBVIOUS
  <2>1. log \in Seq(Row) /\ reports \in Seq(BOOLEAN)
    BY DEF IInv, TypeOK
  <2>2. CASE UNCHANGED vars
    <3>1. UNCHANGED <<log, reports, decisions, join, pc, local, reply, now>>
      BY <2>2 DEF vars
    <3>2. TypeOK'
      BY <3>1 DEF IInv, TypeOK
    <3>3. Len(log) \in Nat /\ Len(reports) \in Nat
      BY <2>1
    <3>4. Extended(log, log') /\ Extended(reports, reports')
      BY <3>1, <3>3, ExtendedRefl
    <3> QED
      BY <3>1, <3>2, <3>4, TablesGrow
  <2> QED
    BY <2>2, LogPredictionInv, JoinActualInv, InjectPredictionsInv, DriftCheckInv,
       TickInv, ReadReportsInv, ReadMetricsInv, CheckCooldownInv,
       EvaluationRaisesInv, CommitDecisionInv DEF Next
<1> QED
  BY <1>1, <1>2, PTL DEF Spec

\* The tables of the monitoring service and its requests are always well typed.
THEOREM TypeCorrect == Spec => []TypeOK
  BY Invariance, PTL DEF IInv

\* The audit log says TRIGGERED exactly where the reports and predictions that the
\* evaluation read meet the conditions of its request, for every configuration
\* (thresholds below zero and no samples included), whatever was written between
\* its reads and since.
THEOREM TriggersStayJustified == Spec => []TriggersAreJustified
<1>1. IInv => TriggersAreJustified
  BY DEF IInv, AllBacked, Backed, TriggersAreJustified
<1> QED
  BY <1>1, Invariance, PTL

\* A request that asks for more samples than the window holds is never answered
\* with a trigger, however many predictions are labelled.
BeyondWindow ==
    \A n \in DOMAIN decisions :
        decisions[n].config.min > WindowSize => decisions[n].result = "SUPPRESSED"

\* min_samples above window_size suppresses retraining for good.
THEOREM BeyondWindowSuppresses == Spec => []BeyondWindow
<1>1. IInv => BeyondWindow
  <2> SUFFICES ASSUME IInv, NEW n \in DOMAIN decisions, decisions[n].config.min > WindowSize
               PROVE  decisions[n].result = "SUPPRESSED"
    BY DEF BeyondWindow
  <2>1. PICK d \in Decision : d = decisions[n] /\ Backed(d)
    <3>1. decisions \in Seq(Decision)
      BY DEF IInv, TypeOK
    <3> QED
      BY <3>1 DEF IInv, AllBacked
  <2>2. PICK k, w \in Nat, m \in Int : k = d.rows /\ w = WindowSize /\ m = d.config.min
    BY GateAssumption DEF Decision, Config
  <2>3. Cardinality(Rolling(k)) \in Nat /\ Cardinality(Rolling(k)) <= w
    BY <2>2, RollingBound
  <2>4. ~(Cardinality(Rolling(k)) >= m)
    BY <2>1, <2>2, <2>3
  <2>5. ~Justified(d)
    BY <2>2, <2>4 DEF Justified
  <2> QED
    BY <2>1, <2>5 DEF Backed, Decision, GateResult
<1> QED
  BY <1>1, Invariance, PTL

\* A verdict that was answered is in the audit log exactly once, an evaluation
\* that raised is not in it.
THEOREM AnsweredStaysLogged == Spec => []AnsweredIsLogged
  BY Invariance, PTL DEF IInv

-----------------------------------------------------------------------------
(* After a trigger *)

\* Nobody who is about to commit has seen a trigger.
NoneSeen(e) == pc[e] = "commit" => \A i \in Triggers : local[e].seen < i

StuckInv == OnlyOverlapsFollow /\ \A e \in Evaluations : NoneSeen(e)

\* A step that commits no decision.
LEMMA StuckQuiet ==
    ASSUME StuckInv, UNCHANGED decisions, \A e \in Evaluations : NoneSeen(e)'
    PROVE  StuckInv'
  BY DEF StuckInv, OnlyOverlapsFollow, Triggers

\* A step that leaves the evaluations alone.
LEMMA StuckTables ==
    ASSUME StuckInv, UNCHANGED <<decisions, pc, local>>
    PROVE  StuckInv'
<1>1. \A e \in Evaluations : NoneSeen(e)'
  BY DEF StuckInv, NoneSeen, Triggers
<1> QED
  BY <1>1, StuckQuiet

\* An evaluation that moves to another point than its commit, or that commits
\* next without having seen a trigger.
LEMMA StuckEvaluation ==
    ASSUME TypeOK, StuckInv, NEW e \in Evaluations, NEW point,
           pc' = [pc EXCEPT ![e] = point], UNCHANGED decisions,
           \A d \in Evaluations \ {e} : local'[d] = local[d],
           point = "commit" => Triggers = {}
    PROVE  StuckInv'
<1>1. ASSUME NEW d \in Evaluations PROVE NoneSeen(d)'
  <2>1. CASE d = e
    BY <2>1 DEF NoneSeen, Triggers, TypeOK
  <2>2. CASE d # e
    BY <2>2 DEF StuckInv, NoneSeen, Triggers, TypeOK
  <2> QED
    BY <2>1, <2>2
<1> QED
  BY <1>1, StuckQuiet

\* A commit: the new row has seen no trigger, and comes after what others saw.
LEMMA StuckCommit ==
    ASSUME IInv, StuckInv, NEW e \in Evaluations, CommitDecision(e)
    PROVE  StuckInv'
<1>1. PICK row \in Decision, n \in Nat :
         /\ row = DecisionRow(e)
         /\ n = Len(decisions) + 1
         /\ DOMAIN decisions = 1..(n - 1) /\ DOMAIN decisions' = 1..n
         /\ decisions'[n] = row
         /\ \A i \in DOMAIN decisions : decisions'[i] = decisions[i]
         /\ \A i \in DOMAIN decisions' : i = n \/ i \in DOMAIN decisions
         /\ Triggers' = IF Verdict(e) = "TRIGGERED" THEN Triggers \cup {n} ELSE Triggers
  BY LoggedEffect
<1>2. /\ Triggers \subseteq DOMAIN decisions
      /\ \A i \in DOMAIN decisions : i \in Nat /\ i < n
  BY <1>1 DEF Triggers
<1>3. OnlyOverlapsFollow'
  <2> SUFFICES ASSUME NEW i \in Triggers', NEW j \in DOMAIN decisions', i < j
               PROVE  decisions'[j].seen < i
    BY DEF OnlyOverlapsFollow
  <2>1. i \in Triggers
    BY <1>1, <1>2
  <2>2. CASE j = n
    <3>1. decisions'[j].seen = local[e].seen
      BY <1>1, <2>2 DEF DecisionRow
    <3> QED
      BY <2>1, <3>1 DEF CommitDecision, StuckInv, NoneSeen
  <2>3. CASE j # n
    BY <1>1, <2>1, <2>3 DEF StuckInv, OnlyOverlapsFollow
  <2> QED
    BY <2>2, <2>3
<1>4. ASSUME NEW d \in Evaluations PROVE NoneSeen(d)'
  <2>1. pc' = [pc EXCEPT ![e] = "done"] /\ local' = [local EXCEPT ![e] = Blank] /\ TypeOK
    BY DEF CommitDecision, Finish, Goto, IInv
  <2>2. CASE d = e
    BY <2>1, <2>2 DEF NoneSeen, TypeOK
  <2>3. CASE d # e
    <3> SUFFICES ASSUME pc[d] = "commit", NEW i \in Triggers' PROVE local[d].seen < i
      BY <2>1, <2>3 DEF NoneSeen, TypeOK
    <3>1. CASE i \in Triggers
      BY <3>1 DEF StuckInv, NoneSeen
    <3>2. CASE i = n
      <4>1. local[d].seen <= Len(decisions)
        BY DEF IInv, EvaluationInv, Looked
      <4>2. local[d].seen \in Nat
        BY <2>1 DEF TypeOK, Local
      <4> QED
        BY <1>1, <3>2, <4>1, <4>2
    <3> QED
      BY <1>1, <3>1, <3>2
  <2> QED
    BY <2>2, <2>3
<1> QED
  BY <1>3, <1>4 DEF StuckInv

\* The code as it is decides nothing any more once a trigger is committed: only
\* evaluations that had looked for the last trigger before follow it in the audit
\* log, for every configuration and however much time passes.
THEOREM NothingFollowsATrigger == Spec => []OnlyOverlapsFollow
<1>1. Init => StuckInv
  BY DEF Init, StuckInv, OnlyOverlapsFollow, NoneSeen, Triggers
<1>2. IInv /\ StuckInv /\ [Next]_vars => StuckInv'
  <2> SUFFICES ASSUME IInv, StuckInv, [Next]_vars PROVE StuckInv'
    OBVIOUS
  <2>1. TypeOK /\ local \in [Evaluations -> Local]
    BY DEF IInv, TypeOK
  <2>2. ASSUME NEW e \in Evaluations, NEW cfg \in Configs, ReadReports(e, cfg) PROVE StuckInv'
    BY <2>1, <2>2, StuckEvaluation DEF ReadReports, Goto, tables
  <2>3. ASSUME NEW e \in Evaluations, ReadMetrics(e) PROVE StuckInv'
    BY <2>1, <2>3, StuckEvaluation DEF ReadMetrics, Goto, tables
  <2>4. ASSUME NEW e \in Evaluations, CheckCooldown(e) PROVE StuckInv'
    BY <2>1, <2>4, StuckEvaluation, RaisesAfterTrigger DEF CheckCooldown, Goto, tables
  <2>5. ASSUME NEW e \in Evaluations, EvaluationRaises(e) PROVE StuckInv'
    BY <2>1, <2>5, StuckEvaluation DEF EvaluationRaises, Finish, Goto, tables
  <2>6. CASE \E o \in Orders : \/ LogPrediction(o)
                               \/ \E error \in {0, LateThreshold + 1} : JoinActual(o, error)
    BY <2>6, StuckTables DEF LogPrediction, JoinActual
  <2>7. CASE (\E errors \in Injections : InjectPredictions(errors))
             \/ (\E drifted \in Checks : DriftCheck(drifted)) \/ Tick
    BY <2>7, StuckTables DEF InjectPredictions, DriftCheck, Tick, tables
  <2>8. CASE UNCHANGED vars
    BY <2>8, StuckTables DEF vars
  <2> QED
    BY <2>2, <2>3, <2>4, <2>5, <2>6, <2>7, <2>8, StuckCommit DEF Next
<1>3. StuckInv => OnlyOverlapsFollow
  BY DEF StuckInv
<1> QED
  BY <1>1, <1>2, <1>3, Invariance, PTL DEF Spec
=============================================================================
