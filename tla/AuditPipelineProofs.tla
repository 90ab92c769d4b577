-------------------------- MODULE AuditPipelineProofs --------------------------
(***************************************************************************)
(* Proofs about AuditPipeline, for any runs and sources, any number of     *)
(* executors and reviewers and any files, rules and thresholds.            *)
(*                                                                         *)
(* The tables come first: what is proved about them holds whatever the     *)
(* engines (detect_issues, remediate, validate, quality_control) compute.  *)
(* The second part is about what the rows say of the data: the engines of  *)
(* EngineProofs composed over the tables.                                  *)
(***************************************************************************)
EXTENDS AuditPipeline, EngineProofs, TLAPS

-----------------------------------------------------------------------------
(***************************************************************************)
(* The inductive invariant.                                                *)
(***************************************************************************)
PlainTypes ==
    /\ edits \in 0..MaxEdits /\ clock \in 0..MaxTime
    /\ DOMAIN source \subseteq Runs
    /\ \A r \in DOMAIN source : source[r] \in DOMAIN source \union {NoRun}
    /\ outcome \in [Runs -> {"none", "succeeded", "failed"}]
    /\ \A r \in Runs : outcome[r] # "none" => r \in DOMAIN source

UniqueIds(table) == \A x, y \in table : x.task_run_id = y.task_run_id => x = y

UniqueRows ==
    /\ UniqueIds(profiles) /\ UniqueIds(detections) /\ UniqueIds(remediations)
    /\ UniqueIds(validations) /\ UniqueIds(qualityRuns)
    /\ \A x, y \in qualityRuns : x.validation_run_id = y.validation_run_id => x = y

\* A row belongs to a run that exists.
Created(table) == \A r \in table : r.task_run_id \in DOMAIN source

RowsOfRuns ==
    /\ Created(profiles) /\ Created(detections) /\ Created(remediations)
    /\ Created(validations) /\ Created(qualityRuns)

\* The rows that the snapshot of a verdict names.
VerdictChain(q) ==
    [validation |-> RowOf(validations, q.validation_run_id),
     remediation |-> RowOf(remediations, q.remediation_run_id),
     detection |-> RowOf(detections, q.issue_detection_run_id),
     profile |-> RowOf(profiles, q.data_profile_id)]

\* The rows are there, and the verdict is the one they and the frozen
\* configuration determine.
Reproducible(q) ==
    /\ HasRow(validations, q.validation_run_id)
    /\ HasRow(remediations, q.remediation_run_id)
    /\ HasRow(detections, q.issue_detection_run_id)
    /\ HasRow(profiles, q.data_profile_id)
    /\ q.post_remediation_stats = EffectiveStats(VerdictChain(q))
    /\ q.result = quality_control(EngineInput(VerdictChain(q), q.configuration))

\* What an execution holds: once it has gathered its inputs, the chain of a
\* QUALITY_CTRL run resolves; once it has computed, its row is the run's own.
Holds(x) ==
    /\ x.step \in {"idle", "gathered", "computed"}
    /\ x.step # "idle" => x.run \in DOMAIN source
    /\ x.step = "gathered" /\ Type[x.run] = "QUALITY_CTRL" =>
          HasRow(validations, source[x.run]) /\ ChainResolves(x.run)
    /\ x.step = "computed" =>
          /\ x.held.task_run_id = x.run
          /\ Type[x.run] = "QUALITY_CTRL" =>
                x.held.validation_run_id = source[x.run] /\ Reproducible(x.held)

Executing ==
    /\ DOMAIN exec = Executors
    /\ \A e \in Executors :
          /\ exec[e] = [run |-> exec[e].run, step |-> exec[e].step, held |-> exec[e].held]
          /\ Holds(exec[e])

Recorded(run) ==
    \/ HasRow(profiles, run) \/ HasRow(detections, run) \/ HasRow(remediations, run)
    \/ HasRow(validations, run) \/ HasRow(qualityRuns, run)
    \/ /\ Type[run] = "QUALITY_CTRL"
       /\ \E q \in qualityRuns : q.validation_run_id = source[run]

\* Requests and decisions are about changes of a remediation run.
Deciding ==
    /\ DOMAIN request = Reviewers
    /\ \A u \in Reviewers : request[u] # NoRequest =>
          /\ request[u].pending \subseteq ChangesOf(request[u].run)
          /\ request[u].decision \in {"approved", "rejected"}
          /\ request[u].since \in 0..clock
    /\ \A d \in decisions : /\ d.remediation_change_id \in ChangesOf(d.remediation_run_id)
                             /\ d.decision \in {"approved", "rejected"}
                             /\ d.decision_timestamp \in 0..clock

AuditInv ==
    /\ PlainTypes
    /\ UniqueRows
    /\ RowsOfRuns
    /\ Executing
    /\ \A q \in qualityRuns : Reproducible(q)
    /\ \A run \in Runs : outcome[run] = "succeeded" => Recorded(run)
    /\ Deciding

\* The invariant holds of the empty tables.
LEMMA InitAudit == Init => AuditInv
<1> SUFFICES ASSUME Init PROVE AuditInv
  OBVIOUS
<1>1. DOMAIN source = {}
  BY DEF Init
<1>2. PlainTypes
  BY <1>1, PipelineAssumption DEF Init, PlainTypes
<1>3. UniqueRows /\ RowsOfRuns /\ \A q \in qualityRuns : Reproducible(q)
  BY DEF Init, UniqueRows, UniqueIds, RowsOfRuns, Created
<1>4. Executing
  BY DEF Init, Executing, Idle, Holds
<1>5. \A run \in Runs : outcome[run] # "succeeded"
  BY DEF Init
<1>6. Deciding
  BY DEF Init, Deciding
<1> QED
  BY <1>2, <1>3, <1>4, <1>5, <1>6 DEF AuditInv

-----------------------------------------------------------------------------
(***************************************************************************)
(* Growing tables.  Runs keep their source and rows stay, so whatever an   *)
(* execution, a request or a verdict refers to stays what it was.          *)
(***************************************************************************)

\* The row found under an id is in the table and has that id.
LEMMA RowOfIsRow ==
    ASSUME NEW table, NEW id, HasRow(table, id)
    PROVE  RowOf(table, id) \in table /\ RowOf(table, id).task_run_id = id
  BY DEF HasRow, RowOf

\* Ids are unique: a table that grows keeps the row found under an id.
LEMMA RowOfStays ==
    ASSUME NEW table, NEW larger, NEW id, table \subseteq larger, UniqueIds(larger),
           HasRow(table, id)
    PROVE  HasRow(larger, id) /\ RowOf(larger, id) = RowOf(table, id)
<1>1. RowOf(table, id) \in larger /\ RowOf(table, id).task_run_id = id
  BY RowOfIsRow
<1>2. HasRow(larger, id)
  BY <1>1 DEF HasRow
<1>3. RowOf(larger, id) \in larger /\ RowOf(larger, id).task_run_id = id
  BY <1>2, RowOfIsRow
<1> QED
  BY <1>1, <1>2, <1>3 DEF UniqueIds

Grows ==
    /\ profiles \subseteq profiles' /\ detections \subseteq detections'
    /\ remediations \subseteq remediations' /\ validations \subseteq validations'
    /\ qualityRuns \subseteq qualityRuns'
    /\ UniqueRows' /\ RowsOfRuns' /\ PlainTypes'
    /\ \A r \in DOMAIN source : r \in DOMAIN source' /\ source'[r] = source[r]

\* The changes of a run stay.
LEMMA ChangesStay ==
    ASSUME Grows, NEW run
    PROVE  ChangesOf(run) \subseteq ChangesOf(run)'
<1>1. CASE HasRow(remediations, run)
  BY <1>1, RowOfStays DEF Grows, UniqueRows, ChangesOf
<1>2. CASE ~HasRow(remediations, run)
  BY <1>2 DEF ChangesOf
<1> QED
  BY <1>1, <1>2

\* A verdict stays reproducible.
LEMMA VerdictStays ==
    ASSUME Grows, NEW q, Reproducible(q)
    PROVE  Reproducible(q)'
<1>1. /\ HasRow(validations', q.validation_run_id)
      /\ RowOf(validations', q.validation_run_id) = RowOf(validations, q.validation_run_id)
  BY RowOfStays DEF Grows, UniqueRows, Reproducible
<1>2. /\ HasRow(remediations', q.remediation_run_id)
      /\ RowOf(remediations', q.remediation_run_id) = RowOf(remediations, q.remediation_run_id)
  BY RowOfStays DEF Grows, UniqueRows, Reproducible
<1>3. /\ HasRow(detections', q.issue_detection_run_id)
      /\ RowOf(detections', q.issue_detection_run_id) = RowOf(detections, q.issue_detection_run_id)
  BY RowOfStays DEF Grows, UniqueRows, Reproducible
<1>4. /\ HasRow(profiles', q.data_profile_id)
      /\ RowOf(profiles', q.data_profile_id) = RowOf(profiles, q.data_profile_id)
  BY RowOfStays DEF Grows, UniqueRows, Reproducible
<1>5. VerdictChain(q)' = VerdictChain(q)
  BY <1>1, <1>2, <1>3, <1>4 DEF VerdictChain
<1> QED
  BY <1>1, <1>2, <1>3, <1>4, <1>5 DEF Reproducible

\* The chain of a QUALITY_CTRL run stays resolved: its links are the sources
\* of runs that exist.
LEMMA ChainStays ==
    ASSUME AuditInv, Grows, NEW run \in DOMAIN source,
           HasRow(validations, source[run]), ChainResolves(run)
    PROVE  (HasRow(validations, source[run]) /\ ChainResolves(run))'
<1> DEFINE remediation == RowOf(validations, source[run]).remediation_run_id
           detect == SourceOf(remediation)
<1>1. source'[run] = source[run]
  BY DEF Grows
<1>2. /\ HasRow(validations', source'[run])
      /\ RowOf(validations', source'[run]) = RowOf(validations, source[run])
  BY <1>1, RowOfStays DEF Grows, UniqueRows
<1>3. HasRow(remediations, remediation) /\ HasRow(detections, detect)
      /\ HasRow(profiles, SourceOf(detect))
  BY DEF ChainResolves
<1>4. \A id : /\ HasRow(remediations, id) => HasRow(remediations', id)
              /\ HasRow(detections, id) => HasRow(detections', id) /\ id \in DOMAIN source
              /\ HasRow(profiles, id) => HasRow(profiles', id) /\ id \in DOMAIN source
  BY DEF Grows, HasRow, AuditInv, RowsOfRuns, Created
<1>5. \A id : SourceOf(id) \in DOMAIN source => SourceOf(id)' = SourceOf(id)
  BY PipelineAssumption DEF SourceOf, Grows, AuditInv, PlainTypes
<1>6. detect \in DOMAIN source /\ SourceOf(detect) \in DOMAIN source
  BY <1>3, <1>4
<1>7. SourceOf(remediation)' = detect /\ SourceOf(detect)' = SourceOf(detect)
  BY <1>2, <1>5, <1>6
<1> QED
  BY <1>2, <1>3, <1>4, <1>7 DEF ChainResolves

\* What an execution holds stays valid.
LEMMA HoldsStays ==
    ASSUME AuditInv, Grows, NEW x, Holds(x)
    PROVE  Holds(x)'
<1>1. x.step # "idle" => x.run \in DOMAIN source' /\ source'[x.run] = source[x.run]
  BY DEF Holds, Grows
<1>2. x.step = "gathered" /\ Type[x.run] = "QUALITY_CTRL" =>
          (HasRow(validations, source[x.run]) /\ ChainResolves(x.run))'
  BY ChainStays DEF Holds
<1>3. x.step = "computed" /\ Type[x.run] = "QUALITY_CTRL" => Reproducible(x.held)'
  BY VerdictStays DEF Holds
<1> QED
  BY <1>1, <1>2, <1>3 DEF Holds

\* A run that has its row keeps it.
LEMMA RecordedStays ==
    ASSUME Grows, NEW run \in DOMAIN source, Recorded(run)
    PROVE  Recorded(run)'
  BY DEF Grows, Recorded, HasRow

\* A step after which every execution still holds what it did, or holds
\* something valid, preserves the invariant if the tables grow and decisions
\* and outcomes are accounted for.
LEMMA GrowthStep ==
    ASSUME AuditInv, Grows,
           \A q \in qualityRuns' \ qualityRuns : Reproducible(q)',
           DOMAIN exec' = Executors,
           \A e \in Executors :
              \/ exec'[e] = exec[e]
              \/ /\ exec'[e] = [run |-> exec'[e].run, step |-> exec'[e].step,
                                held |-> exec'[e].held]
                 /\ Holds(exec[e])',
           \A run \in Runs : outcome'[run] = "succeeded" =>
                outcome[run] = "succeeded" \/ Recorded(run)',
           Deciding'
    PROVE  AuditInv'
<1>1. \A q \in qualityRuns' : Reproducible(q)'
  BY VerdictStays DEF AuditInv
<1>2. Executing'
  <2> SUFFICES ASSUME NEW e \in Executors
               PROVE  /\ exec'[e] = [run |-> exec'[e].run, step |-> exec'[e].step,
                                     held |-> exec'[e].held]
                      /\ Holds(exec[e])'
    BY DEF Executing
  <2>1. CASE exec'[e] = exec[e]
    <3>1. Holds(exec[e]) /\ exec[e] = [run |-> exec[e].run, step |-> exec[e].step, held |-> exec[e].held]
      BY DEF AuditInv, Executing
    <3>2. ASSUME NEW x, x = exec[e] PROVE Holds(x)'
      BY <3>1, <3>2, HoldsStays
    <3> QED
      BY <2>1, <3>1, <3>2
  <2> QED
    BY <2>1
<1>3. \A run \in Runs : outcome'[run] = "succeeded" => Recorded(run)'
  <2> SUFFICES ASSUME NEW run \in Runs, outcome[run] = "succeeded" PROVE Recorded(run)'
    OBVIOUS
  <2>1. run \in DOMAIN source /\ Recorded(run)
    BY DEF AuditInv, PlainTypes
  <2> QED
    BY <2>1, RecordedStays
<1> QED
  BY <1>1, <1>2, <1>3 DEF AuditInv, Grows

\* Decisions and requests stay valid while changes stay and time passes.
LEMMA DecidingStays ==
    ASSUME AuditInv, Grows, UNCHANGED <<request, decisions>>, clock' \in Int, clock <= clock'
    PROVE  Deciding'
<1>1. \A run : ChangesOf(run) \subseteq ChangesOf(run)'
  BY ChangesStay
<1>2. clock \in Int
  BY DEF AuditInv, PlainTypes
<1>3. \A t \in 0..clock : t \in 0..clock'
  BY <1>2
<1> QED
  BY <1>1, <1>3 DEF AuditInv, Deciding

\* Whatever leaves the tables alone lets them grow.
LEMMA SameTables ==
    ASSUME AuditInv, UNCHANGED <<tables, source>>, PlainTypes'
    PROVE  Grows
  BY DEF AuditInv, tables, UniqueRows, UniqueIds, RowsOfRuns, Created, Grows

-----------------------------------------------------------------------------
(***************************************************************************)
(* Users.                                                                  *)
(***************************************************************************)

\* A run is created with a source that exists, or without one.
LEMMA CreateStep ==
    ASSUME AuditInv, NEW run \in Runs, NEW src, CreateTaskRun(run, src) \/ InsertTaskRun(run, src)
    PROVE  AuditInv'
<1>1. PlainTypes /\ RowsOfRuns /\ UniqueRows
  BY DEF AuditInv
<1>2. /\ run \notin DOMAIN source /\ src \in DOMAIN source \union {NoRun}
      /\ source' = WithRun(run, src)
      /\ UNCHANGED <<inputs, outcome, tables, decisions, exec, request, clock>>
  BY DEF CreateTaskRun, InsertTaskRun
<1>3. /\ DOMAIN source' = DOMAIN source \union {run} /\ source'[run] = src
      /\ \A r \in DOMAIN source : source'[r] = source[r]
  BY <1>2 DEF WithRun
<1>4. PlainTypes'
  BY <1>1, <1>2, <1>3 DEF PlainTypes, inputs
<1>5. Grows
  BY <1>1, <1>2, <1>3, <1>4 DEF tables, UniqueRows, UniqueIds, RowsOfRuns, Created, Grows
<1>6. Deciding'
  <2>1. clock' \in Int /\ clock <= clock'
    BY <1>1, <1>2 DEF PlainTypes
  <2> QED
    BY <1>2, <1>5, <2>1, DecidingStays
<1>7. \A e \in Executors : exec'[e] = exec[e]
  BY <1>2
<1> QED
  BY <1>2, <1>5, <1>6, <1>7, GrowthStep DEF AuditInv, Executing, tables

\* Edits and the clock change nothing that is recorded.
LEMMA EditStep ==
    ASSUME AuditInv, Edit \/ Tick
    PROVE  AuditInv'
<1>1. PlainTypes
  BY DEF AuditInv
<1>2. UNCHANGED <<source, outcome, tables, decisions, exec, request>>
  BY DEF Edit, Tick, inputs
<1>3. /\ edits' \in 0..MaxEdits /\ clock' \in 0..MaxTime /\ clock <= clock'
  BY <1>1, PipelineAssumption DEF Edit, Tick, PlainTypes, inputs
<1>4. PlainTypes'
  BY <1>1, <1>2, <1>3 DEF PlainTypes
<1>5. Grows
  BY <1>2, <1>4, SameTables
<1>6. Deciding'
  BY <1>2, <1>3, <1>5, DecidingStays
<1>7. \A e \in Executors : exec'[e] = exec[e]
  BY <1>2
<1> QED
  BY <1>2, <1>5, <1>6, <1>7, GrowthStep DEF AuditInv, Executing, tables

\* A request holds changes of the run; what it inserts is about them, with a
\* timestamp between its check and now.
LEMMA DecisionStep ==
    ASSUME AuditInv, NEW u \in Reviewers,
           \/ \E run \in Runs, v \in {"approved", "rejected"} : CheckDecision(u, run, v)
           \/ InsertDecisions(u)
    PROVE  AuditInv'
<1>1. PlainTypes /\ Deciding
  BY DEF AuditInv
<1>2. UNCHANGED <<inputs, source, outcome, tables, exec, clock>>
  BY DEF CheckDecision, InsertDecisions
<1>3. PlainTypes'
  BY <1>1, <1>2 DEF PlainTypes, inputs
<1>4. Grows
  BY <1>2, <1>3, SameTables
<1>5. \A run : ChangesOf(run)' = ChangesOf(run)
  BY <1>2 DEF ChangesOf, HasRow, RowOf, tables
<1>6. CASE \E run \in Runs, v \in {"approved", "rejected"} : CheckDecision(u, run, v)
  <2>1. PICK run \in Runs, v \in {"approved", "rejected"} : CheckDecision(u, run, v)
    BY <1>6
  <2>2. PICK chosen \in {{c} : c \in ChangesOf(run)} \union {ChangesOf(run)} :
           request' = [request EXCEPT ![u] =
              [run |-> run, pending |-> PendingFor(run, chosen), decision |-> v, since |-> clock]]
    BY <2>1 DEF CheckDecision
  <2>3. PendingFor(run, chosen) \subseteq ChangesOf(run)
    BY DEF PendingFor
  <2>4. clock \in 0..clock
    BY <1>1 DEF PlainTypes
  <2>5. /\ DOMAIN request' = Reviewers
        /\ request'[u] = [run |-> run, pending |-> PendingFor(run, chosen), decision |-> v,
                          since |-> clock]
        /\ \A o \in Reviewers \ {u} : request'[o] = request[o]
    BY <1>1, <2>2 DEF Deciding
  <2>6. decisions' = decisions
    BY <2>1 DEF CheckDecision
  <2>7. Deciding'
    BY <1>1, <1>2, <1>5, <2>3, <2>4, <2>5, <2>6 DEF Deciding
  <2> QED
    BY <1>2, <1>4, <2>7, GrowthStep DEF AuditInv, Executing, tables
<1>7. CASE InsertDecisions(u)
  <2>1. PICK at \in request[u].since..clock, id \in 1..(Cardinality(Reviewers) + 1) :
           decisions' = decisions \union
             {[remediation_run_id |-> request[u].run, remediation_change_id |-> c,
               decision |-> request[u].decision, decision_timestamp |-> at, id |-> id] :
                  c \in request[u].pending}
    BY <1>7 DEF InsertDecisions
  <2>2. /\ request[u].pending \subseteq ChangesOf(request[u].run)
        /\ request[u].decision \in {"approved", "rejected"}
        /\ request[u].since \in 0..clock
    BY <1>1, <1>7 DEF InsertDecisions, Deciding
  <2>3. at \in 0..clock
    BY <1>1, <2>2 DEF PlainTypes
  <2>4. /\ DOMAIN request' = Reviewers /\ request'[u] = NoRequest
        /\ \A o \in Reviewers \ {u} : request'[o] = request[o]
    BY <1>1, <1>7 DEF Deciding, InsertDecisions
  <2>5. \A d \in decisions' : /\ d.remediation_change_id \in ChangesOf(d.remediation_run_id)
                               /\ d.decision \in {"approved", "rejected"}
                               /\ d.decision_timestamp \in 0..clock
    BY <1>1, <2>1, <2>2, <2>3 DEF Deciding
  <2>6. Deciding'
    BY <1>1, <1>2, <1>5, <2>4, <2>5 DEF Deciding
  <2> QED
    BY <1>2, <1>4, <2>6, GrowthStep DEF AuditInv, Executing, tables
<1> QED
  BY <1>6, <1>7

-----------------------------------------------------------------------------
(***************************************************************************)
(* Executions.                                                             *)
(***************************************************************************)

\* What a step that writes no table leaves to show.
LEMMA ExecutionFrame ==
    ASSUME AuditInv, UNCHANGED <<inputs, source, tables, decisions, request, clock>>,
           outcome' \in [Runs -> {"none", "succeeded", "failed"}],
           \A r \in Runs : outcome'[r] # "none" => r \in DOMAIN source
    PROVE  /\ Grows
           /\ qualityRuns' = qualityRuns
           /\ Deciding'
<1>1. PlainTypes
  BY DEF AuditInv
<1>2. PlainTypes'
  BY <1>1 DEF PlainTypes, inputs
<1>3. Grows
  BY <1>2, SameTables
<1>4. clock' \in Int /\ clock <= clock'
  BY <1>1 DEF PlainTypes
<1> QED
  BY <1>3, <1>4, DecidingStays DEF tables

\* A run is reported at most once, and only while it exists.
LEMMA Reported ==
    ASSUME AuditInv, NEW run \in DOMAIN source, NEW result \in {"succeeded", "failed"},
           Report(run, result)
    PROVE  /\ outcome' \in [Runs -> {"none", "succeeded", "failed"}]
           /\ \A r \in Runs : outcome'[r] # "none" => r \in DOMAIN source
           /\ \A r \in Runs : outcome'[r] # outcome[r] => r = run /\ outcome'[r] = result
  BY DEF Report, AuditInv, PlainTypes

\* An execution that refuses, or finds the row of an earlier one.
LEMMA AnswerStep ==
    ASSUME AuditInv, NEW e \in Executors, NEW run \in Runs,
           Refuse(e, run) \/ FindExisting(e, run)
    PROVE  AuditInv'
<1>1. /\ run \in DOMAIN source
      /\ UNCHANGED <<inputs, source, tables, decisions, exec, request, clock>>
      /\ \/ Report(run, "failed")
         \/ Report(run, "succeeded") /\ Own(run)
  BY DEF Refuse, FindExisting, Begins
<1>2. /\ outcome' \in [Runs -> {"none", "succeeded", "failed"}]
      /\ \A r \in Runs : outcome'[r] # "none" => r \in DOMAIN source
      /\ \A r \in Runs : outcome'[r] = "succeeded" =>
            outcome[r] = "succeeded" \/ (r = run /\ Own(run))
  BY <1>1, Reported
<1>3. Own(run) => Recorded(run)'
  BY <1>1 DEF Own, Recorded, tables, HasRow
<1>4. Grows /\ qualityRuns' = qualityRuns /\ Deciding'
  BY <1>1, <1>2, ExecutionFrame
<1> QED
  BY <1>1, <1>2, <1>3, <1>4, GrowthStep DEF AuditInv, Executing

\* An execution that changes what it holds and nothing else.
LEMMA HoldStep ==
    ASSUME AuditInv, NEW e \in Executors, NEW run, NEW step, NEW held,
           exec' = [exec EXCEPT ![e] = [run |-> run, step |-> step, held |-> held]],
           UNCHANGED <<inputs, source, outcome, tables, decisions, request, clock>>,
           Holds([run |-> run, step |-> step, held |-> held])
    PROVE  AuditInv'
<1> DEFINE x == [run |-> run, step |-> step, held |-> held]
<1>1. outcome \in [Runs -> {"none", "succeeded", "failed"}]
      /\ \A r \in Runs : outcome[r] # "none" => r \in DOMAIN source
  BY DEF AuditInv, PlainTypes
<1>2. Grows /\ qualityRuns' = qualityRuns /\ Deciding'
  BY <1>1, ExecutionFrame
<1>3. Holds(x)'
  BY <1>2, HoldsStays
<1>4. /\ DOMAIN exec' = Executors /\ exec'[e] = x
      /\ \A f \in Executors \ {e} : exec'[f] = exec[f]
  BY DEF AuditInv, Executing
<1>5. Holds(exec[e])'
  BY <1>3, <1>4
<1>6. exec'[e] = [run |-> exec'[e].run, step |-> exec'[e].step, held |-> exec'[e].held]
  BY <1>4
<1> QED
  BY <1>2, <1>4, <1>5, <1>6, GrowthStep

\* The inputs are gathered: a QUALITY_CTRL run has found its chain.
LEMMA GatherStep ==
    ASSUME AuditInv, NEW e \in Executors, NEW run \in Runs,
           GatherFile(e, run) \/ GatherDecisions(e, run) \/ GatherThreshold(e, run)
    PROVE  AuditInv'
<1>1. PICK held : Hold(e, run, held)
  BY DEF GatherFile, GatherDecisions, GatherThreshold
<1>2. run \in DOMAIN source /\ HasUpstream(run) /\ MayProceed(run)
  BY DEF GatherFile, GatherDecisions, GatherThreshold, Begins
<1>3. Type[run] = "QUALITY_CTRL" => HasRow(validations, source[run]) /\ ChainResolves(run)
  BY <1>2 DEF HasUpstream, MayProceed
<1>4. Holds([run |-> run, step |-> "gathered", held |-> held])
  BY <1>2, <1>3 DEF Holds
<1> QED
  BY <1>1, <1>4, HoldStep DEF Hold

\* The verdict computed from a resolved chain can be recomputed from the rows
\* its snapshot names.
LEMMA VerdictOfChain ==
    ASSUME NEW run, NEW threshold, HasRow(validations, source[run]), ChainResolves(run),
           NEW q, q = QualityControlRun(run, ChainOf(run), threshold,
                        quality_control(EngineInput(ChainOf(run), threshold)))
    PROVE  /\ q.task_run_id = run /\ q.validation_run_id = source[run]
           /\ Reproducible(q)
<1> DEFINE c == ChainOf(run)
<1>1. /\ c.validation = RowOf(validations, source[run])
      /\ c.validation.task_run_id = source[run]
  BY RowOfIsRow DEF ChainOf
<1>2. /\ HasRow(remediations, c.validation.remediation_run_id)
      /\ c.remediation = RowOf(remediations, c.validation.remediation_run_id)
      /\ c.remediation.task_run_id = c.validation.remediation_run_id
  BY <1>1, RowOfIsRow DEF ChainOf, ChainResolves
<1>3. /\ HasRow(detections, SourceOf(c.remediation.task_run_id))
      /\ c.detection = RowOf(detections, SourceOf(c.remediation.task_run_id))
      /\ c.detection.task_run_id = SourceOf(c.remediation.task_run_id)
  BY <1>1, <1>2, RowOfIsRow DEF ChainOf, ChainResolves
<1>4. /\ HasRow(profiles, SourceOf(c.detection.task_run_id))
      /\ c.profile = RowOf(profiles, SourceOf(c.detection.task_run_id))
      /\ c.profile.task_run_id = SourceOf(c.detection.task_run_id)
  BY <1>1, <1>2, <1>3, RowOfIsRow DEF ChainOf, ChainResolves
<1>5. /\ q.task_run_id = run
      /\ q.validation_run_id = c.validation.task_run_id
      /\ q.remediation_run_id = c.remediation.task_run_id
      /\ q.issue_detection_run_id = c.detection.task_run_id
      /\ q.data_profile_id = c.profile.task_run_id
      /\ q.configuration = threshold
      /\ q.post_remediation_stats = EffectiveStats(c)
      /\ q.result = quality_control(EngineInput(c, threshold))
  BY DEF QualityControlRun
<1>6. VerdictChain(q) = c
  <2>1. c = [validation |-> c.validation, remediation |-> c.remediation,
             detection |-> c.detection, profile |-> c.profile]
    BY DEF ChainOf
  <2> QED
    BY <1>1, <1>2, <1>3, <1>4, <1>5, <2>1 DEF VerdictChain
<1> QED
  BY <1>1, <1>2, <1>3, <1>4, <1>5, <1>6 DEF Reproducible

\* The engine has run: the row is the run's own.
LEMMA ComputeStep ==
    ASSUME AuditInv, NEW e \in Executors,
           \/ ComputeProfile(e) \/ ComputeIssues(e) \/ ComputeChanges(e)
           \/ ComputeResults(e) \/ ComputeVerdict(e)
    PROVE  AuditInv'
<1> DEFINE run == exec[e].run
<1>1. /\ exec[e].step = "gathered" /\ Holds(exec[e])
      /\ exec[e] = [run |-> exec[e].run, step |-> exec[e].step, held |-> exec[e].held]
  BY DEF AuditInv, Executing, ComputeProfile, ComputeIssues, ComputeChanges, ComputeResults,
     ComputeVerdict
<1>2. PICK row : /\ Computed(e, row)
                 /\ row.task_run_id = run
                 /\ Type[run] = "QUALITY_CTRL" =>
                       row.validation_run_id = source[run] /\ Reproducible(row)
  <2>1. CASE ComputeProfile(e)
    BY <2>1 DEF ComputeProfile, DataProfile
  <2>2. CASE ComputeIssues(e)
    BY <2>2 DEF ComputeIssues, IssueDetectionRun
  <2>3. CASE ComputeChanges(e)
    BY <2>3 DEF ComputeChanges, RemediationRun
  <2>4. CASE ComputeResults(e)
    BY <2>4 DEF ComputeResults, ValidationRun
  <2>5. CASE ComputeVerdict(e)
    <3>1. HasRow(validations, source[run]) /\ ChainResolves(run)
      BY <1>1, <2>5 DEF ComputeVerdict, Holds
    <3> QED
      BY <2>5, <3>1, VerdictOfChain DEF ComputeVerdict
  <2> QED
    BY <2>1, <2>2, <2>3, <2>4, <2>5
<1>3. /\ exec' = [exec EXCEPT ![e] = [run |-> run, step |-> "computed", held |-> row]]
      /\ UNCHANGED <<inputs, source, outcome, tables, decisions, request, clock>>
  BY <1>2 DEF Computed
<1>4. Holds([run |-> run, step |-> "computed", held |-> row])
  BY <1>1, <1>2 DEF Holds
<1> QED
  BY <1>3, <1>4, HoldStep

\* An execution dies.
LEMMA DieStep ==
    ASSUME AuditInv, NEW e \in Executors, Die(e)
    PROVE  AuditInv'
<1>1. Holds(Idle)
  BY DEF Holds, Idle
<1> QED
  BY <1>1, HoldStep DEF Die, Idle

\* UNIQUE (task_run_id): the table has one row for the run afterwards, the new
\* one or the one that was there.
LEMMA InsertedRow ==
    ASSUME NEW table, NEW row, UniqueIds(table)
    PROVE  /\ table \subseteq Inserted(table, row)
           /\ UniqueIds(Inserted(table, row))
           /\ HasRow(Inserted(table, row), row.task_run_id)
           /\ \A r \in Inserted(table, row) : r \in table \/ r = row
  BY DEF Inserted, UniqueIds, HasRow

\* UNIQUE (validation_run_id) as well: there is a verdict on the validation run
\* afterwards.
LEMMA InsertedVerdictRow ==
    ASSUME NEW table, NEW row, UniqueIds(table),
           \A x, y \in table : x.validation_run_id = y.validation_run_id => x = y
    PROVE  LET after == InsertedVerdict(table, row) IN
           /\ table \subseteq after
           /\ UniqueIds(after)
           /\ \A x, y \in after : x.validation_run_id = y.validation_run_id => x = y
           /\ \A r \in after : r \in table \/ r = row
           /\ \/ \E q \in after : q.validation_run_id = row.validation_run_id
              \/ HasRow(after, row.task_run_id)
<1>1. CASE \E r \in table : r.validation_run_id = row.validation_run_id
  BY <1>1 DEF InsertedVerdict
<1>2. CASE ~\E r \in table : r.validation_run_id = row.validation_run_id
  <2>1. InsertedVerdict(table, row) = Inserted(table, row)
    BY <1>2 DEF InsertedVerdict
  <2>2. \A x, y \in Inserted(table, row) : x.validation_run_id = y.validation_run_id => x = y
    BY <1>2, InsertedRow
  <2> QED
    BY <2>1, <2>2, InsertedRow
<1> QED
  BY <1>1, <1>2

\* The rows are committed, by the winner or by the loser of a race.
LEMMA CommitStep ==
    ASSUME AuditInv, NEW e \in Executors, Commit(e)
    PROVE  AuditInv'
<1>0. PICK run, row : run = exec[e].run /\ row = exec[e].held
  OBVIOUS
<1>1. /\ PlainTypes /\ UniqueRows /\ RowsOfRuns
      /\ run \in DOMAIN source /\ run \in Runs /\ row.task_run_id = run
      /\ Type[run] = "QUALITY_CTRL" =>
            row.validation_run_id = source[run] /\ Reproducible(row)
  BY <1>0 DEF AuditInv, PlainTypes, Executing, Holds, Commit
<1>2. /\ profiles' = IF Type[run] = "SYNC" THEN Inserted(profiles, row) ELSE profiles
      /\ detections' = IF Type[run] = "DETECT" THEN Inserted(detections, row) ELSE detections
      /\ remediations' = IF Type[run] = "REMEDIATE" THEN Inserted(remediations, row)
                         ELSE remediations
      /\ validations' = IF Type[run] = "VALIDATE" THEN Inserted(validations, row)
                        ELSE validations
      /\ qualityRuns' = IF Type[run] = "QUALITY_CTRL" THEN InsertedVerdict(qualityRuns, row)
                        ELSE qualityRuns
      /\ Report(run, "succeeded") \/ outcome' = outcome
      /\ exec' = [exec EXCEPT ![e] = Idle]
      /\ UNCHANGED <<inputs, source, decisions, request, clock>>
  BY <1>0 DEF Commit
<1>3. /\ profiles \subseteq profiles' /\ UniqueIds(profiles')
      /\ \A r \in profiles' : r \in profiles \/ r = row
      /\ Type[run] = "SYNC" => HasRow(profiles', run)
  BY <1>1, <1>2, InsertedRow DEF UniqueRows
<1>4. /\ detections \subseteq detections' /\ UniqueIds(detections')
      /\ \A r \in detections' : r \in detections \/ r = row
      /\ Type[run] = "DETECT" => HasRow(detections', run)
  BY <1>1, <1>2, InsertedRow DEF UniqueRows
<1>5. /\ remediations \subseteq remediations' /\ UniqueIds(remediations')
      /\ \A r \in remediations' : r \in remediations \/ r = row
      /\ Type[run] = "REMEDIATE" => HasRow(remediations', run)
  BY <1>1, <1>2, InsertedRow DEF UniqueRows
<1>6. /\ validations \subseteq validations' /\ UniqueIds(validations')
      /\ \A r \in validations' : r \in validations \/ r = row
      /\ Type[run] = "VALIDATE" => HasRow(validations', run)
  BY <1>1, <1>2, InsertedRow DEF UniqueRows
<1>7. /\ qualityRuns \subseteq qualityRuns' /\ UniqueIds(qualityRuns')
      /\ \A x, y \in qualityRuns' : x.validation_run_id = y.validation_run_id => x = y
      /\ \A r \in qualityRuns' \ qualityRuns : r = row /\ Type[run] = "QUALITY_CTRL"
      /\ Type[run] = "QUALITY_CTRL" =>
            \/ \E q \in qualityRuns' : q.validation_run_id = source[run]
            \/ HasRow(qualityRuns', run)
  <2>1. CASE Type[run] = "QUALITY_CTRL"
    <3> DEFINE after == InsertedVerdict(qualityRuns, row)
    <3>1. /\ qualityRuns \subseteq after
          /\ UniqueIds(after)
          /\ \A x, y \in after : x.validation_run_id = y.validation_run_id => x = y
          /\ \A r \in after : r \in qualityRuns \/ r = row
          /\ \/ \E q \in after : q.validation_run_id = row.validation_run_id
             \/ HasRow(after, row.task_run_id)
      BY <1>1, InsertedVerdictRow DEF UniqueRows
    <3>2. qualityRuns' = after
      BY <1>2, <2>1
    <3> QED
      BY <1>1, <2>1, <3>1, <3>2
  <2>2. CASE Type[run] # "QUALITY_CTRL"
    BY <1>1, <1>2, <2>2 DEF UniqueRows
  <2> QED
    BY <2>1, <2>2
<1>8. /\ outcome' \in [Runs -> {"none", "succeeded", "failed"}]
      /\ \A r \in Runs : outcome'[r] # "none" => r \in DOMAIN source
      /\ \A r \in Runs : outcome'[r] # outcome[r] => r = run
  BY <1>1, <1>2, Reported DEF PlainTypes
<1>9. Grows
  <2>1. PlainTypes'
    BY <1>1, <1>2, <1>8 DEF PlainTypes, inputs
  <2>2. UniqueRows'
    BY <1>3, <1>4, <1>5, <1>6, <1>7 DEF UniqueRows
  <2>3. RowsOfRuns'
    BY <1>1, <1>2, <1>3, <1>4, <1>5, <1>6, <1>7 DEF RowsOfRuns, Created
  <2> QED
    BY <1>2, <1>3, <1>4, <1>5, <1>6, <1>7, <2>1, <2>2, <2>3 DEF Grows
<1>10. \A q \in qualityRuns' \ qualityRuns : Reproducible(q)'
  BY <1>1, <1>7, <1>9, VerdictStays
<1>11. Recorded(run)'
  <2>1. Type[run] \in {"SYNC", "DETECT", "REMEDIATE", "VALIDATE", "QUALITY_CTRL"}
    BY <1>1, PipelineAssumption
  <2> QED
    BY <1>2, <1>3, <1>4, <1>5, <1>6, <1>7, <2>1 DEF Recorded
<1>12. Deciding'
  <2>1. clock' \in Int /\ clock <= clock'
    BY <1>1, <1>2 DEF PlainTypes
  <2> QED
    BY <1>2, <1>9, <2>1, DecidingStays
<1>13. /\ DOMAIN exec' = Executors /\ exec'[e] = Idle
       /\ \A f \in Executors \ {e} : exec'[f] = exec[f]
  BY <1>2 DEF AuditInv, Executing
<1>14. Holds(exec[e])' /\ exec'[e] = [run |-> exec'[e].run, step |-> exec'[e].step,
                                      held |-> exec'[e].held]
  BY <1>13 DEF Holds, Idle
<1> QED
  BY <1>8, <1>9, <1>10, <1>11, <1>12, <1>13, <1>14, GrowthStep

-----------------------------------------------------------------------------
(***************************************************************************)
(* The theorems.                                                           *)
(***************************************************************************)

\* Every step keeps the invariant.
LEMMA NextAudit == AuditInv /\ [Next]_vars => AuditInv'
<1> SUFFICES ASSUME AuditInv, [Next]_vars PROVE AuditInv'
  OBVIOUS
<1>1. ASSUME NEW run \in Runs, NEW src \in Sources[run],
             CreateTaskRun(run, src) \/ InsertTaskRun(run, src)
      PROVE  AuditInv'
  BY <1>1, CreateStep
<1>2. CASE Edit \/ Tick
  BY <1>2, EditStep
<1>3. ASSUME NEW u \in Reviewers,
             \/ \E run \in Runs, v \in {"approved", "rejected"} : CheckDecision(u, run, v)
             \/ InsertDecisions(u)
      PROVE  AuditInv'
  BY <1>3, DecisionStep
<1>4. ASSUME NEW e \in Executors, Execution(e) \/ Die(e) PROVE AuditInv'
  BY <1>4, AnswerStep, GatherStep, ComputeStep, CommitStep, DieStep DEF Execution
<1>5. CASE UNCHANGED vars
  <2>1. AuditInv /\ PlainTypes'
    BY <1>5 DEF vars, inputs, AuditInv, PlainTypes
  <2>2. Grows /\ UNCHANGED <<tables, exec, outcome, request, decisions, clock>>
    BY <1>5, <2>1, SameTables DEF vars
  <2>3. Deciding'
    BY <2>1, <2>2, DecidingStays DEF PlainTypes
  <2> QED
    BY <2>1, <2>2, <2>3, GrowthStep DEF AuditInv, Executing, tables
<1> QED
  BY <1>1, <1>2, <1>3, <1>4, <1>5 DEF Next

\* The invariant holds throughout.
THEOREM AuditInvariant == Spec => []AuditInv
  BY InitAudit, NextAudit, PTL DEF Spec

\* Sources exist before the runs that name them, and every decision is about a
\* change its remediation run still has.
THEOREM AuditTypes == Spec => []TypeOK
<1>1. AuditInv => TypeOK
  BY DEF AuditInv, PlainTypes, Executing, Holds, Deciding, TypeOK
<1> QED
  BY <1>1, AuditInvariant, PTL

\* Overlapping executions never leave two rows for one run, nor two verdicts
\* on one validation run.
THEOREM RowsAreUnique == Spec => []OneRowPerRun
<1>1. AuditInv => OneRowPerRun
  BY DEF AuditInv, UniqueRows, UniqueIds, OneRowPerRun
<1> QED
  BY <1>1, AuditInvariant, PTL

\* A success is backed by a row, also when the execution lost the race for it.
THEOREM SuccessIsRecorded == Spec => []SuccessMeansRecorded
<1>1. AuditInv => SuccessMeansRecorded
  BY DEF AuditInv, Recorded, SuccessMeansRecorded
<1> QED
  BY <1>1, AuditInvariant, PTL

\* Nothing that is edited later changes what a stored verdict follows from.
THEOREM VerdictsAreReproducible == Spec => []VerdictIsReproducible
<1>1. AuditInv => VerdictIsReproducible
  BY DEF AuditInv, Reproducible, VerdictChain, VerdictIsReproducible
<1> QED
  BY <1>1, AuditInvariant, PTL

\* No step removes or replaces a row of the audit trail.
THEOREM AuditOnlyGrows == Spec => AuditIsAppendOnly
<1> DEFINE A == /\ profiles \subseteq profiles' /\ detections \subseteq detections'
                /\ remediations \subseteq remediations' /\ validations \subseteq validations'
                /\ qualityRuns \subseteq qualityRuns' /\ decisions \subseteq decisions'
<1>1. [Next]_vars => [A]_vars
  <2> SUFFICES ASSUME Next PROVE A
    OBVIOUS
  <2>1. ASSUME NEW e \in Executors, Commit(e) PROVE A
    BY <2>1 DEF Commit, Inserted, InsertedVerdict
  <2>2. ASSUME NEW u \in Reviewers, InsertDecisions(u) PROVE A
    BY <2>2 DEF InsertDecisions, tables
  <2>3. CASE UNCHANGED <<tables, decisions>>
    BY <2>3 DEF tables
  <2> QED
    BY <2>1, <2>2, <2>3 DEF Next, CreateTaskRun, InsertTaskRun, Edit, Tick, CheckDecision,
       Execution, Refuse, FindExisting, GatherFile, GatherDecisions, GatherThreshold, Hold,
       ComputeProfile, ComputeIssues, ComputeChanges, ComputeResults, ComputeVerdict, Computed,
       Die
<1> HIDE DEF A
<1>2. Spec => [][A]_vars
  BY <1>1, PTL DEF Spec
<1> QED
  BY <1>2 DEF A, AuditIsAppendOnly

-----------------------------------------------------------------------------
(***************************************************************************)
(* The inductive invariant, on top of AuditInv: every row is what its      *)
(* engine computes from the rows it names and from configuration of the    *)
(* rule tables, and every execution holds such a row or the inputs of one. *)
(***************************************************************************)
Profiled(p) ==
    /\ p.source_sha256 \in Contents /\ p.row_count = Len(p.source_sha256)
    /\ p.duplicate_row_count \in Int /\ p.missing_value_total \in Int

Detected(d) ==
    LET found == detect_issues(d.source_sha256, d.config) IN
    /\ d.source_sha256 \in Contents
    /\ d.issues = found.issues
    /\ d.total_issues_found = found.total_issues_found

\* The detection run that a remediation run was made from.
DetectionOf(m) == RowOf(detections, m.source_task_run_id)

RemediatedFrom(m, raw, issues) ==
    /\ m.loaded = raw
    /\ AllowsAll(m.config)
    /\ m.issues_considered_count = Cardinality(issues)
    /\ m.total_changes_count = Cardinality(m.changes)
    /\ \E settings \in DatasetConfigs :
          LET result == remediate(Len(raw), issues, m.config, settings) IN
          /\ m.changes = result.changes
          /\ m.issues_skipped_count = Cardinality(result.skipped)

Remediated(m) ==
    /\ HasRow(detections, m.source_task_run_id)
    /\ RemediatedFrom(m, DetectionOf(m).source_sha256, DetectionOf(m).issues)

\* Changes of a remediation run, each of which a reviewer approved.
ApprovedOf(run, approved) ==
    /\ approved \subseteq ChangesOf(run)
    /\ \A c \in approved : \E d \in DecisionsOn(run, c) : d.decision = "approved"

JudgedFrom(v, approved) ==
    /\ \E judged \in JudgedSets(approved) : v.results = validate(approved, judged, v.config)
    /\ v.approved_changes_considered = Cardinality(v.results)
    /\ v.passed_count = Cardinality({r \in v.results : r.outcome = "passed"})
    /\ v.failed_count = Cardinality({r \in v.results : r.outcome = "failed"})
    /\ v.skipped_count = Cardinality({r \in v.results : r.outcome = "skipped"})

Judged(v) ==
    /\ HasRow(remediations, v.remediation_run_id)
    /\ \E approved \in SUBSET ChangesOf(v.remediation_run_id) :
          ApprovedOf(v.remediation_run_id, approved) /\ JudgedFrom(v, approved)

\* The weights of a threshold that its handler let through.
Weighted(threshold) ==
    \A k \in DOMAIN threshold.category_weights : threshold.category_weights[k] \in Nat

\* A verdict names the runs that its validation run leads to.
Chained(q) ==
    /\ Weighted(q.configuration)
    /\ HasRow(validations, q.validation_run_id)
    /\ q.remediation_run_id = RowOf(validations, q.validation_run_id).remediation_run_id
    /\ HasRow(remediations, q.remediation_run_id)
    /\ q.issue_detection_run_id = RowOf(remediations, q.remediation_run_id).source_task_run_id

\* A remediation run was made from the source of its run.
OfSource(m) ==
    m.task_run_id \in DOMAIN source /\ m.source_task_run_id = source[m.task_run_id]

HoldsData(x) ==
    /\ x.step = "gathered" /\ Type[x.run] \in {"SYNC", "DETECT", "REMEDIATE"} =>
          x.held.file \in Contents
    /\ x.step = "gathered" /\ Type[x.run] = "REMEDIATE" =>
          /\ HasRow(detections, source[x.run])
          /\ x.held.file = RowOf(detections, source[x.run]).source_sha256
    /\ x.step = "gathered" /\ Type[x.run] = "VALIDATE" =>
          /\ HasRow(remediations, source[x.run])
          /\ ApprovedOf(source[x.run], x.held.approved)
    /\ x.step = "gathered" /\ Type[x.run] = "QUALITY_CTRL" => Weighted(x.held.threshold)
    /\ x.step = "computed" /\ Type[x.run] = "SYNC" => Profiled(x.held)
    /\ x.step = "computed" /\ Type[x.run] = "DETECT" => Detected(x.held)
    /\ x.step = "computed" /\ Type[x.run] = "REMEDIATE" => OfSource(x.held) /\ Remediated(x.held)
    /\ x.step = "computed" /\ Type[x.run] = "VALIDATE" => Judged(x.held)
    /\ x.step = "computed" /\ Type[x.run] = "QUALITY_CTRL" => Chained(x.held)

\* What users edit is one of the contents there are.
Inputs ==
    /\ file \in Files /\ rules \in RuleTables /\ dataset \in DatasetConfigs
    /\ thresholds \in Thresholds

\* Decision rows: finitely many, with ids that can be compared.
DecisionRows ==
    /\ IsFiniteSet(decisions)
    /\ \A d \in decisions : d.id \in 1..(Cardinality(Reviewers) + 1)

RulesInv ==
    /\ Inputs
    /\ DecisionRows
    /\ \A p \in profiles : Profiled(p)
    /\ \A d \in detections : Detected(d)
    /\ \A m \in remediations : OfSource(m) /\ Remediated(m)
    /\ \A v \in validations : Judged(v)
    /\ \A q \in qualityRuns : Chained(q)
    /\ \A e \in Executors : HoldsData(exec[e])

\* The invariant holds of the empty tables.
LEMMA InitRules == Init => RulesInv
<1> SUFFICES ASSUME Init PROVE RulesInv
  OBVIOUS
<1>1. Inputs
  BY DEF Init, Inputs
<1>2. DecisionRows
  BY FS_EmptySet DEF Init, DecisionRows
<1>3. \A e \in Executors : HoldsData(exec[e])
  BY DEF Init, Idle, HoldsData
<1> QED
  BY <1>1, <1>2, <1>3 DEF Init, RulesInv

-----------------------------------------------------------------------------
(***************************************************************************)
(* What stays true while the tables grow.                                  *)
(***************************************************************************)

\* A step of the pipeline: rows and decisions stay.
LEMMA StepGrows ==
    ASSUME AuditInv, AuditInv', [Next]_vars
    PROVE  Grows /\ decisions \subseteq decisions'
<1> DEFINE A == /\ profiles \subseteq profiles' /\ detections \subseteq detections'
                /\ remediations \subseteq remediations' /\ validations \subseteq validations'
                /\ qualityRuns \subseteq qualityRuns' /\ decisions \subseteq decisions'
           B == \A r \in DOMAIN source : r \in DOMAIN source' /\ source'[r] = source[r]
<1>1. ASSUME NEW e \in Executors, Commit(e) PROVE A /\ B
  BY <1>1 DEF Commit, Inserted, InsertedVerdict
<1>2. ASSUME NEW u \in Reviewers, InsertDecisions(u) PROVE A /\ B
  BY <1>2 DEF InsertDecisions, tables
<1>3. ASSUME NEW run \in Runs, NEW src, CreateTaskRun(run, src) \/ InsertTaskRun(run, src)
      PROVE  A /\ B
  <2>1. /\ run \notin DOMAIN source /\ source' = WithRun(run, src)
        /\ UNCHANGED <<tables, decisions>>
    BY <1>3 DEF CreateTaskRun, InsertTaskRun
  <2>2. \A r \in DOMAIN source : r # run
    BY <2>1
  <2>3. \A r \in DOMAIN source : r \in DOMAIN source' /\ source'[r] = source[r]
    BY <2>1, <2>2 DEF WithRun
  <2> QED
    BY <2>1, <2>3 DEF tables
<1>4. ASSUME UNCHANGED <<tables, decisions, source>> PROVE A /\ B
  BY <1>4 DEF tables
<1>5. A /\ B
  <2> HIDE DEF A, B
  <2>1. ASSUME NEW e \in Executors, Execution(e) \/ Die(e), ~Commit(e) PROVE A /\ B
    <3>1. UNCHANGED <<tables, decisions, source>>
      BY <2>1 DEF Execution, Refuse, FindExisting, GatherFile, GatherDecisions, GatherThreshold,
         Hold, ComputeProfile, ComputeIssues, ComputeChanges, ComputeResults, ComputeVerdict,
         Computed, Die
    <3> QED
      BY <1>4, <3>1
  <2>2. CASE Edit \/ Tick \/ UNCHANGED vars
    <3>1. UNCHANGED <<tables, decisions, source>>
      BY <2>2 DEF Edit, Tick, vars
    <3> QED
      BY <1>4, <3>1
  <2>3. ASSUME NEW u \in Reviewers, NEW run \in Runs, NEW v, CheckDecision(u, run, v)
        PROVE  A /\ B
    <3>1. UNCHANGED <<tables, decisions, source>>
      BY <2>3 DEF CheckDecision
    <3> QED
      BY <1>4, <3>1
  <2> QED
    BY <1>1, <1>2, <1>3, <2>1, <2>2, <2>3 DEF Next
<1> QED
  BY <1>5 DEF Grows, AuditInv

\* The changes of a remediation run that is there are what they were.
LEMMA SameChanges ==
    ASSUME Grows, NEW run, HasRow(remediations, run)
    PROVE  HasRow(remediations, run)' /\ ChangesOf(run)' = ChangesOf(run)
  BY RowOfStays DEF Grows, UniqueRows, ChangesOf

\* What a remediation run was made from stays.
LEMMA RemediatedStays ==
    ASSUME Grows, NEW m
    PROVE  /\ Remediated(m) => Remediated(m)'
           /\ OfSource(m) => OfSource(m)'
<1>1. ASSUME Remediated(m) PROVE Remediated(m)'
  <2>1. /\ HasRow(detections, m.source_task_run_id)' /\ DetectionOf(m)' = DetectionOf(m)
    BY <1>1, RowOfStays DEF Remediated, DetectionOf, Grows, UniqueRows
  <2>2. RemediatedFrom(m, DetectionOf(m).source_sha256, DetectionOf(m).issues)'
    BY <1>1, <2>1 DEF Remediated, RemediatedFrom
  <2> QED
    BY <2>1, <2>2 DEF Remediated
<1> QED
  BY <1>1 DEF OfSource, Grows

\* Approved changes stay approved, as far as their decision rows go.
LEMMA ApprovedStays ==
    ASSUME Grows, decisions \subseteq decisions', NEW run, HasRow(remediations, run),
           NEW approved, ApprovedOf(run, approved)
    PROVE  ApprovedOf(run, approved)'
<1>1. ChangesOf(run)' = ChangesOf(run)
  BY SameChanges
<1>2. \A c : DecisionsOn(run, c) \subseteq DecisionsOn(run, c)'
  BY DEF DecisionsOn
<1> QED
  BY <1>1, <1>2 DEF ApprovedOf

\* What a validation run judged stays.
LEMMA JudgedStays ==
    ASSUME Grows, decisions \subseteq decisions', NEW v, Judged(v)
    PROVE  Judged(v)'
<1>1. PICK approved \in SUBSET ChangesOf(v.remediation_run_id) :
         ApprovedOf(v.remediation_run_id, approved) /\ JudgedFrom(v, approved)
  BY DEF Judged
<1>2. HasRow(remediations, v.remediation_run_id)
  BY DEF Judged
<1>3. /\ HasRow(remediations, v.remediation_run_id)'
      /\ ChangesOf(v.remediation_run_id)' = ChangesOf(v.remediation_run_id)
  BY <1>2, SameChanges
<1>4. ApprovedOf(v.remediation_run_id, approved)'
  BY <1>1, <1>2, ApprovedStays
<1>5. JudgedFrom(v, approved)'
  BY <1>1 DEF JudgedFrom
<1> QED
  BY <1>3, <1>4, <1>5 DEF Judged

\* The runs that a verdict names stay what they were.
LEMMA ChainedStays ==
    ASSUME Grows, NEW q, Chained(q)
    PROVE  Chained(q)'
<1>1. /\ HasRow(validations', q.validation_run_id)
      /\ RowOf(validations', q.validation_run_id) = RowOf(validations, q.validation_run_id)
  BY RowOfStays DEF Chained, Grows, UniqueRows
<1>2. /\ HasRow(remediations', q.remediation_run_id)
      /\ RowOf(remediations', q.remediation_run_id) = RowOf(remediations, q.remediation_run_id)
  BY RowOfStays DEF Chained, Grows, UniqueRows
<1> QED
  BY <1>1, <1>2 DEF Chained, Weighted

\* What an execution holds stays valid.
LEMMA HoldsDataStays ==
    ASSUME Grows, decisions \subseteq decisions', NEW x, HoldsData(x),
           x.step # "idle" => source'[x.run] = source[x.run]
    PROVE  HoldsData(x)'
<1>1. x.step # "idle" => source'[x.run] = source[x.run]
  OBVIOUS
<1>2. x.step = "gathered" /\ Type[x.run] = "REMEDIATE" =>
         /\ HasRow(detections', source'[x.run])
         /\ x.held.file = RowOf(detections', source'[x.run]).source_sha256
  BY <1>1, RowOfStays DEF HoldsData, Grows, UniqueRows
<1>3. x.step = "gathered" /\ Type[x.run] = "VALIDATE" =>
         HasRow(remediations, source[x.run])' /\ ApprovedOf(source[x.run], x.held.approved)'
  <2> SUFFICES ASSUME x.step = "gathered", Type[x.run] = "VALIDATE"
               PROVE  HasRow(remediations, source[x.run])'
                      /\ ApprovedOf(source[x.run], x.held.approved)'
    OBVIOUS
  <2>1. PICK run : run = source[x.run] /\ run = source'[x.run]
    BY <1>1
  <2>2. HasRow(remediations, run) /\ ApprovedOf(run, x.held.approved)
    BY <2>1 DEF HoldsData
  <2>3. HasRow(remediations, run)' /\ ApprovedOf(run, x.held.approved)'
    BY <2>2, SameChanges, ApprovedStays
  <2> QED
    BY <2>1, <2>3 DEF ApprovedOf, DecisionsOn, ChangesOf, HasRow
<1>4. x.step = "computed" =>
         /\ Type[x.run] = "SYNC" => Profiled(x.held)'
         /\ Type[x.run] = "DETECT" => Detected(x.held)'
         /\ Type[x.run] = "REMEDIATE" => OfSource(x.held)' /\ Remediated(x.held)'
         /\ Type[x.run] = "VALIDATE" => Judged(x.held)'
         /\ Type[x.run] = "QUALITY_CTRL" => Chained(x.held)'
  BY RemediatedStays, JudgedStays, ChainedStays DEF HoldsData, Profiled, Detected
<1>5. x.step = "gathered" /\ Type[x.run] \in {"SYNC", "DETECT", "REMEDIATE"} =>
          x.held.file \in Contents
  BY DEF HoldsData
<1>6. x.step = "gathered" /\ Type[x.run] = "QUALITY_CTRL" => Weighted(x.held.threshold)'
  BY DEF HoldsData, Weighted
<1> QED
  BY <1>2, <1>3, <1>4, <1>5, <1>6 DEF HoldsData

\* A step preserves the invariant if whatever it adds to a table, and whatever
\* an execution newly holds, is what the engines make.
LEMMA RulesStep ==
    ASSUME AuditInv, RulesInv, Grows, decisions \subseteq decisions', Inputs', DecisionRows',
           \A p \in profiles' \ profiles : Profiled(p),
           \A d \in detections' \ detections : Detected(d),
           \A m \in remediations' \ remediations : (OfSource(m) /\ Remediated(m))',
           \A v \in validations' \ validations : Judged(v)',
           \A q \in qualityRuns' \ qualityRuns : Chained(q)',
           \A e \in Executors : exec'[e] = exec[e] \/ HoldsData(exec[e])'
    PROVE  RulesInv'
<1>1. (\A p \in profiles : Profiled(p))'
  BY DEF RulesInv, Profiled
<1>2. (\A d \in detections : Detected(d))'
  BY DEF RulesInv, Detected
<1>3. (\A m \in remediations : OfSource(m) /\ Remediated(m))'
  BY RemediatedStays DEF RulesInv
<1>4. (\A v \in validations : Judged(v))'
  BY JudgedStays DEF RulesInv
<1>5. (\A q \in qualityRuns : Chained(q))'
  BY ChainedStays DEF RulesInv
<1>6. (\A e \in Executors : HoldsData(exec[e]))'
  <2> SUFFICES ASSUME NEW e \in Executors, exec'[e] = exec[e] PROVE HoldsData(exec[e])'
    OBVIOUS
  <2>1. PICK x : x = exec[e]
    OBVIOUS
  <2>2. HoldsData(x) /\ (x.step # "idle" => source'[x.run] = source[x.run])
    BY <2>1 DEF AuditInv, Executing, RulesInv, Holds, Grows
  <2>3. HoldsData(x)'
    BY <2>2, HoldsDataStays
  <2> QED
    BY <2>1, <2>3
<1> QED
  BY <1>1, <1>2, <1>3, <1>4, <1>5, <1>6 DEF RulesInv

-----------------------------------------------------------------------------
(***************************************************************************)
(* What the rows say.                                                      *)
(***************************************************************************)

\* A detection run holds findings of the bytes it scanned, counted in full.
LEMMA DetectionRows ==
    ASSUME NEW d, Detected(d)
    PROVE  /\ d.source_sha256 \in Contents
           /\ d.issues \subseteq AllFindings(d.source_sha256, d.config)
           /\ IsFiniteSet(d.issues)
           /\ d.total_issues_found \in Nat
           /\ Cardinality(d.issues) \in Nat
           /\ Cardinality(d.issues) <= d.total_issues_found
           /\ d.total_issues_found = Cardinality(d.issues) =>
                d.issues = AllFindings(d.source_sha256, d.config)
<1>1. PICK found : found = detect_issues(d.source_sha256, d.config)
  OBVIOUS
<1>2. /\ d.source_sha256 \in Contents
      /\ d.issues = found.issues /\ d.total_issues_found = found.total_issues_found
  BY <1>1 DEF Detected
<1> QED
  BY <1>1, <1>2, DetectedIssues, FS_CardinalityType

\* The changes of a remediation run: of rows of the file, and each passes
\* under the configuration it was made under.
LEMMA RemediationRows ==
    ASSUME RulesInv, NEW m, Remediated(m)
    PROVE  /\ DetectionOf(m) \in detections
           /\ m.loaded = DetectionOf(m).source_sha256 /\ m.loaded \in Contents
           /\ IsFiniteSet(m.changes)
           /\ ck_remediation_runs(m)
           /\ \A c \in m.changes :
                 /\ c.row \in 2..(Len(m.loaded) + 1)
                 /\ validate_change(c, m.config) = "passed"
                 /\ c.action \in DUPLICATE_REMOVAL_ACTIONS <=> c.proposed = Removal
<1>1. PICK d : d = DetectionOf(m)
  OBVIOUS
<1>2. d \in detections /\ Detected(d)
  BY <1>1, RowOfIsRow DEF Remediated, DetectionOf, RulesInv
<1>3. RemediatedFrom(m, d.source_sha256, d.issues)
  BY <1>1 DEF Remediated
<1>4. PICK settings, result :
         /\ result = remediate(Len(d.source_sha256), d.issues, m.config, settings)
         /\ m.changes = result.changes /\ m.issues_skipped_count = Cardinality(result.skipped)
  BY <1>3 DEF RemediatedFrom
<1>5. /\ m.loaded = d.source_sha256
      /\ AllowsAll(m.config)
      /\ m.issues_considered_count = Cardinality(d.issues)
      /\ m.total_changes_count = Cardinality(m.changes)
  BY <1>3 DEF RemediatedFrom
<1>6. d.source_sha256 \in Contents /\ d.issues \subseteq AllFindings(d.source_sha256, d.config)
  BY <1>2, DetectionRows
<1>7. /\ IsFiniteSet(result.changes)
      /\ Cardinality(d.issues) = Cardinality(result.changes) + Cardinality(result.skipped)
      /\ \A c \in result.changes :
            /\ c.row \in 2..(Len(d.source_sha256) + 1)
            /\ validate_change(c, m.config) = "passed"
            /\ c.action \in DUPLICATE_REMOVAL_ACTIONS <=> c.proposed = Removal
  <2>1. PICK raw, config : raw = d.source_sha256 /\ config = m.config
    OBVIOUS
  <2>2. raw \in Contents /\ d.issues \subseteq AllFindings(raw, d.config)
        /\ AllowsAll(config)
        /\ result = remediate(Len(raw), d.issues, config, settings)
    BY <1>4, <1>5, <1>6, <2>1
  <2>3. SoundRemediation(raw, d.issues, config, result)
    BY <2>2, RemediatedIssues
  <2> QED
    BY <2>1, <2>3 DEF SoundRemediation
<1> QED
  BY <1>1, <1>2, <1>4, <1>5, <1>6, <1>7 DEF ck_remediation_runs

\* The changes of a run are finitely many.
LEMMA ChangesFinite ==
    ASSUME RulesInv, NEW run
    PROVE  IsFiniteSet(ChangesOf(run))
<1>1. CASE HasRow(remediations, run)
  <2>1. Remediated(RowOf(remediations, run))
    BY <1>1, RowOfIsRow DEF RulesInv
  <2> QED
    BY <1>1, <2>1, RemediationRows DEF ChangesOf
<1>2. CASE ~HasRow(remediations, run)
  BY <1>2, FS_EmptySet DEF ChangesOf
<1> QED
  BY <1>1, <1>2

\* A nonempty set of numbers up to n has a greatest.
LEMMA GreatestNumber ==
    ASSUME NEW n \in Nat, NEW T, T \subseteq 0..n, T # {}
    PROVE  \E t \in T : \A o \in T : o <= t
<1> DEFINE S == {n - t : t \in T}
<1>1. S \subseteq Nat /\ S # {}
  <2>1. \A t \in T : t \in Int /\ t <= n /\ n - t \in Nat
    OBVIOUS
  <2> QED
    BY <2>1
<1>2. PICK low \in S : \A o \in S : low <= o
  <2> HIDE DEF S
  <2> QED
    BY <1>1, LeastNumber
<1>3. PICK t \in T : low = n - t
  OBVIOUS
<1>4. \A o \in T : n - t <= n - o
  BY <1>2, <1>3
<1> QED
  BY <1>4

\* The decisions on a change have a latest: one with the latest timestamp and,
\* among those, the largest id.
LEMMA LatestExists ==
    ASSUME AuditInv, RulesInv, NEW run, NEW change, DecisionsOn(run, change) # {}
    PROVE  LET latest == LatestDecision(run, change) IN
           /\ latest \in DecisionsOn(run, change)
           /\ \A o \in DecisionsOn(run, change) :
                 o.decision_timestamp < latest.decision_timestamp
                 \/ (o.decision_timestamp = latest.decision_timestamp /\ o.id <= latest.id)
<1>1. PICK ds : ds = DecisionsOn(run, change)
  OBVIOUS
<1>2. PICK n \in Nat : n = Cardinality(Reviewers) + 1
  BY PipelineAssumption, FS_CardinalityType
<1>3. clock \in Nat /\ \A d \in ds : d.decision_timestamp \in 0..clock /\ d.id \in 0..n
  BY <1>1, <1>2 DEF AuditInv, PlainTypes, Deciding, DecisionsOn, RulesInv, DecisionRows
<1>4. PICK d \in ds : \A o \in ds : o.decision_timestamp <= d.decision_timestamp
  <2> DEFINE T == {o.decision_timestamp : o \in ds}
  <2>1. T \subseteq 0..clock /\ T # {}
    BY <1>1, <1>3
  <2> HIDE DEF T
  <2>2. PICK t \in T : \A o \in T : o <= t
    BY <1>3, <2>1, GreatestNumber
  <2> QED
    BY <2>2 DEF T
<1>5. PICK e \in {o \in ds : o.decision_timestamp = d.decision_timestamp} :
         \A o \in ds : o.decision_timestamp = d.decision_timestamp => o.id <= e.id
  <2> DEFINE T == {o.id : o \in {x \in ds : x.decision_timestamp = d.decision_timestamp}}
  <2>1. T \subseteq 0..n /\ T # {}
    BY <1>3
  <2> HIDE DEF T
  <2>2. PICK t \in T : \A o \in T : o <= t
    BY <2>1, GreatestNumber
  <2> QED
    BY <2>2 DEF T
<1>6. ASSUME NEW o \in ds
      PROVE  \/ o.decision_timestamp < e.decision_timestamp
             \/ o.decision_timestamp = e.decision_timestamp /\ o.id <= e.id
  BY <1>3, <1>4, <1>5
<1>7. \E x \in ds : \A o \in ds :
         \/ o.decision_timestamp < x.decision_timestamp
         \/ o.decision_timestamp = x.decision_timestamp /\ o.id <= x.id
  BY <1>5, <1>6
<1> QED
  BY <1>1, <1>7 DEF LatestDecision

\* The snapshot of approved changes.
LEMMA Approved ==
    ASSUME AuditInv, RulesInv, NEW run, HasRow(remediations, source[run])
    PROVE  ApprovedOf(source[run], ApprovedChanges(run))
<1>1. ApprovedChanges(run) \subseteq ChangesOf(source[run])
  BY DEF ApprovedChanges, ChangesOf
<1>2. ASSUME NEW c \in ApprovedChanges(run)
      PROVE  \E d \in DecisionsOn(source[run], c) : d.decision = "approved"
  <2>1. DecisionsOn(source[run], c) # {} /\ LatestDecision(source[run], c).decision = "approved"
    BY DEF ApprovedChanges
  <2> QED
    BY <2>1, LatestExists
<1> QED
  BY <1>1, <1>2 DEF ApprovedOf

-----------------------------------------------------------------------------
(***************************************************************************)
(* Every step keeps the invariant.                                         *)
(***************************************************************************)

\* A step that writes no table and no decision.
LEMMA QuietStep ==
    ASSUME AuditInv, RulesInv, Grows, UNCHANGED <<tables, decisions>>, Inputs',
           \A e \in Executors : exec'[e] = exec[e] \/ HoldsData(exec[e])'
    PROVE  RulesInv'
<1>1. DecisionRows'
  BY DEF RulesInv, DecisionRows
<1> QED
  BY <1>1, RulesStep DEF tables

\* Runs are created, the file and the configuration are edited, time passes,
\* decisions are checked and executions give up or find a row.
LEMMA UsersKeepRules ==
    ASSUME AuditInv, RulesInv, Grows,
           \/ \E run \in Runs : \E src : CreateTaskRun(run, src) \/ InsertTaskRun(run, src)
           \/ Edit \/ Tick
           \/ \E u \in Reviewers, run \in Runs : \E v : CheckDecision(u, run, v)
           \/ \E e \in Executors, run \in Runs : Refuse(e, run) \/ FindExisting(e, run)
           \/ UNCHANGED vars
    PROVE  RulesInv'
<1>1. UNCHANGED <<tables, decisions, exec>>
  BY DEF CreateTaskRun, InsertTaskRun, Edit, Tick, CheckDecision, Refuse, FindExisting, vars
<1>2. Inputs'
  BY DEF CreateTaskRun, InsertTaskRun, Edit, Tick, CheckDecision, Refuse, FindExisting, vars,
     inputs, RulesInv, Inputs
<1> QED
  BY <1>1, <1>2, QuietStep

\* A request inserts a decision for each of its changes, finitely many.
LEMMA InsertKeepsRules ==
    ASSUME AuditInv, RulesInv, Grows, decisions \subseteq decisions',
           NEW u \in Reviewers, InsertDecisions(u)
    PROVE  RulesInv'
<1>1. PICK at \in request[u].since..clock, id \in 1..(Cardinality(Reviewers) + 1) :
         decisions' = decisions \union
           {[remediation_run_id |-> request[u].run, remediation_change_id |-> c,
             decision |-> request[u].decision, decision_timestamp |-> at, id |-> id] :
                c \in request[u].pending}
  BY DEF InsertDecisions
<1>2. IsFiniteSet(request[u].pending)
  <2>1. request[u].pending \subseteq ChangesOf(request[u].run)
    BY DEF InsertDecisions, AuditInv, Deciding
  <2> QED
    BY <2>1, ChangesFinite, FS_Subset
<1>3. DecisionRows'
  <2> DEFINE row == [c \in request[u].pending |->
                       [remediation_run_id |-> request[u].run, remediation_change_id |-> c,
                        decision |-> request[u].decision, decision_timestamp |-> at, id |-> id]]
             added == {row[c] : c \in DOMAIN row}
  <2>1. decisions' = decisions \union added
    BY <1>1
  <2>2. \A c \in DOMAIN row : row[c].id = id
    OBVIOUS
  <2>3. DOMAIN row = request[u].pending
    OBVIOUS
  <2>4. IsFiniteSet(added)
    <3> HIDE DEF row
    <3> QED
      BY <1>2, <2>3, ImageFinite
  <2>5. \A d \in added : d.id = id
    <3> HIDE DEF row
    <3> QED
      BY <2>2
  <2> HIDE DEF added
  <2> QED
    BY <2>1, <2>4, <2>5, FS_Union DEF RulesInv, DecisionRows
<1>4. Inputs' /\ UNCHANGED <<tables, exec>>
  BY DEF InsertDecisions, RulesInv, Inputs, inputs
<1> QED
  BY <1>3, <1>4, RulesStep DEF tables

\* An execution that changes what it holds and nothing else.
LEMMA HoldKeepsRules ==
    ASSUME AuditInv, RulesInv, Grows, NEW e \in Executors, NEW x,
           exec' = [exec EXCEPT ![e] = x],
           UNCHANGED <<inputs, source, outcome, tables, decisions, request, clock>>,
           HoldsData(x)
    PROVE  RulesInv'
<1>1. Inputs'
  BY DEF RulesInv, Inputs, inputs
<1>2. /\ exec'[e] = x /\ \A f \in Executors \ {e} : exec'[f] = exec[f]
  BY DEF AuditInv, Executing
<1>3. HoldsData(x)'
  BY HoldsDataStays
<1>4. HoldsData(exec[e])'
  BY <1>2, <1>3
<1> QED
  BY <1>1, <1>2, <1>4, QuietStep

\* A handler reads its inputs: a file that can be loaded, the bytes that
\* detection scanned, or the approved changes.
LEMMA GatherKeepsRules ==
    ASSUME AuditInv, RulesInv, Grows, NEW e \in Executors, NEW run \in Runs,
           GatherFile(e, run) \/ GatherDecisions(e, run) \/ GatherThreshold(e, run)
    PROVE  RulesInv'
<1>1. PICK held :
         /\ Hold(e, run, held)
         /\ GatherFile(e, run) => held = [file |-> file]
         /\ GatherDecisions(e, run) => held = [approved |-> ApprovedChanges(run)]
         /\ GatherThreshold(e, run) => held = [threshold |-> resolve_threshold(thresholds)]
  BY DEF GatherFile, GatherDecisions, GatherThreshold
<1>2. HasUpstream(run) /\ MayProceed(run)
  BY DEF GatherFile, GatherDecisions, GatherThreshold
<1> DEFINE x == [run |-> run, step |-> "gathered", held |-> held]
<1>3. Type[run] \in {"SYNC", "DETECT", "REMEDIATE"} =>
         held.file = file /\ file \in Contents
  <2>1. Type[run] \in {"SYNC", "DETECT", "REMEDIATE"} => GatherFile(e, run)
    BY DEF GatherFile, GatherDecisions, GatherThreshold
  <2>2. Type[run] \in {"SYNC", "DETECT", "REMEDIATE"} => file # Unreadable
    BY <1>2 DEF HasUpstream, MayProceed
  <2>3. file \in Contents \union {Unreadable}
    BY ContentAssumption DEF RulesInv, Inputs, Contents
  <2> QED
    BY <1>1, <2>1, <2>2, <2>3
<1>4. Type[run] = "REMEDIATE" =>
         /\ HasRow(detections, source[run])
         /\ file = RowOf(detections, source[run]).source_sha256
  BY <1>2 DEF HasUpstream, MayProceed, HashMatches
<1>5. Type[run] = "VALIDATE" =>
         HasRow(remediations, source[run]) /\ ApprovedOf(source[run], held.approved)
  <2>1. Type[run] = "VALIDATE" => held.approved = ApprovedChanges(run)
    BY <1>1 DEF GatherFile, GatherDecisions, GatherThreshold
  <2>2. Type[run] = "VALIDATE" => HasRow(remediations, source[run])
    BY <1>2 DEF HasUpstream
  <2> QED
    BY <2>1, <2>2, Approved
<1>6. Type[run] = "QUALITY_CTRL" => Weighted(held.threshold)
  <2> SUFFICES ASSUME Type[run] = "QUALITY_CTRL" PROVE Weighted(held.threshold)
    OBVIOUS
  <2>1. PICK t : t = resolve_threshold(thresholds)
    OBVIOUS
  <2>2. held.threshold = t
    BY <1>1, <2>1 DEF GatherFile, GatherDecisions, GatherThreshold
  <2>3. \A k \in DOMAIN t.category_weights : t.category_weights[k] > 0
    BY <1>2, <2>1 DEF MayProceed, validate_threshold_config
  <2>4. \A k \in DOMAIN t.category_weights : t.category_weights[k] \in Int
    BY <2>1, ContentAssumption DEF resolve_threshold, RulesInv, Inputs
  <2> QED
    BY <2>2, <2>3, <2>4 DEF Weighted
<1>7. HoldsData(x)
  <2>1. x.run = run /\ x.step = "gathered" /\ x.held = held
    OBVIOUS
  <2> HIDE DEF x
  <2> QED
    BY <1>3, <1>4, <1>5, <1>6, <2>1 DEF HoldsData
<1> QED
  BY <1>1, <1>7, HoldKeepsRules DEF Hold

\* The rule tables allow finitely many values of a column, each a cell.
LEMMA ConfigAllows ==
    ASSUME NEW t \in RuleTables
    PROVE  AllowsAll(load_column_config(t))
<1>1. AllowsCells(NoRule)
  BY FS_EmptySet DEF AllowsCells, NoRule
<1>2. ASSUME NEW c \in Columns PROVE AllowsCells(load_column_config(t)[c])
  <2>1. PICK values : values = Scoped(t.detection, c, NoDetectionRule).allowed_values
    OBVIOUS
  <2>2. load_column_config(t)[c].allowed_values = values
    <3>1. load_column_config(t)[c] =
            LET r == Scoped(t.remediation, c, NoRemediationRule) IN
            [NoRule EXCEPT !.capitalization_target = r.capitalization_target,
                           !.default_country = r.default_country,
                           !.source_date_format = r.source_date_format,
                           !.target_date_format = r.target_date_format,
                           !.allowed_values = values]
      BY <2>1 DEF load_column_config
    <3> QED
      BY <3>1 DEF NoRule
  <2>3. IsFiniteSet(values) /\ values \subseteq Fields
    <3>1. \/ values = t.detection["data_source"][c].allowed_values
          \/ values = t.detection["org_wide"][c].allowed_values
          \/ values = {}
      BY <2>1 DEF Scoped, NoDetectionRule
    <3> QED
      BY <3>1, ContentAssumption, FS_EmptySet
  <2> QED
    BY <2>2, <2>3 DEF AllowsCells
<1> QED
  BY <1>1, <1>2 DEF AllowsAll, ConfigOf

\* The rows the engines compute are what the invariant says of rows.
LEMMA ComputedProfile ==
    ASSUME NEW run, NEW raw \in Contents
    PROVE  Profiled(DataProfile(run, raw))
<1> DEFINE rows == load_csv(raw)
           cells == (DOMAIN raw) \X Columns
           stripped == [i \in DOMAIN raw |-> StrippedRow(rows[i])]
           missing == {x \in cells : strip(rows[x[1]][x[2]]) = Empty}
<1>1. PICK n : n = Len(raw) /\ n \in Nat /\ DOMAIN raw = 1..n
  BY DEF Contents
<1>2. IsFiniteSet(DOMAIN raw) /\ IsFiniteSet(Columns)
  BY <1>1, WidthAssumption, FS_Interval DEF Columns
<1>3. Cardinality({stripped[i] : i \in DOMAIN stripped}) \in Nat
  BY <1>2, ImageFinite, FS_CardinalityType
<1>4. Cardinality(missing) \in Nat
  <2>1. IsFiniteSet(cells)
    BY <1>2, FS_Product
  <2> HIDE DEF cells
  <2> QED
    BY <2>1, FS_Subset, FS_CardinalityType
<1>5. {stripped[i] : i \in DOMAIN stripped} = {StrippedRow(rows[i]) : i \in DOMAIN raw}
  OBVIOUS
<1>6. PICK p : p = DataProfile(run, raw)
  OBVIOUS
<1>7. /\ p.row_count = n /\ p.source_sha256 = raw
      /\ p.duplicate_row_count = n - Cardinality({stripped[i] : i \in DOMAIN stripped})
      /\ p.missing_value_total = Cardinality(missing)
  BY <1>1, <1>5, <1>6 DEF DataProfile, profile_csv
<1> HIDE DEF stripped, missing
<1>8. Profiled(p)
  BY <1>1, <1>3, <1>4, <1>7 DEF Profiled
<1> QED
  BY <1>6, <1>8

\* A detection row.
LEMMA ComputedDetection ==
    ASSUME NEW run, NEW raw \in Contents, NEW config
    PROVE  Detected(IssueDetectionRun(run, raw, config, detect_issues(raw, config)))
  BY DEF IssueDetectionRun, Detected

\* A remediation row, made from the row of the run's source.
LEMMA ComputedRemediation ==
    ASSUME RulesInv, NEW run \in DOMAIN source, HasRow(detections, source[run]), NEW raw,
           raw = RowOf(detections, source[run]).source_sha256,
           NEW issues, issues = RowOf(detections, source[run]).issues, NEW m,
           m = RemediationRun(run, raw, load_column_config(rules), issues,
                              remediate(Len(raw), issues, load_column_config(rules), dataset))
    PROVE  OfSource(m) /\ Remediated(m)
<1>1. PICK config, result : /\ config = load_column_config(rules)
                            /\ result = remediate(Len(raw), issues, config, dataset)
  OBVIOUS
<1>2. /\ m.task_run_id = run /\ m.source_task_run_id = source[run] /\ m.loaded = raw
      /\ m.config = config /\ m.issues_considered_count = Cardinality(issues)
      /\ m.total_changes_count = Cardinality(result.changes)
      /\ m.issues_skipped_count = Cardinality(result.skipped) /\ m.changes = result.changes
  BY <1>1 DEF RemediationRun
<1>3. dataset \in DatasetConfigs /\ AllowsAll(config)
  BY <1>1, ConfigAllows DEF RulesInv, Inputs
<1>4. RemediatedFrom(m, raw, issues)
  BY <1>1, <1>2, <1>3 DEF RemediatedFrom
<1> QED
  BY <1>2, <1>4 DEF OfSource, Remediated, DetectionOf

\* A validation row, about approved changes of the run's source.
LEMMA ComputedValidation ==
    ASSUME NEW run, HasRow(remediations, source[run]), NEW approved,
           ApprovedOf(source[run], approved), NEW judged \in JudgedSets(approved), NEW config,
           NEW v, v = ValidationRun(run, config, validate(approved, judged, config))
    PROVE  Judged(v)
<1>1. v.remediation_run_id = source[run] /\ v.config = config
  BY DEF ValidationRun
<1>2. JudgedFrom(v, approved)
  BY DEF ValidationRun, JudgedFrom
<1>3. approved \in SUBSET ChangesOf(source[run])
  BY DEF ApprovedOf
<1> QED
  BY <1>1, <1>2, <1>3 DEF Judged

\* A verdict, on the chain of the run.
LEMMA ComputedVerdict ==
    ASSUME AuditInv, RulesInv, NEW run, HasRow(validations, source[run]), ChainResolves(run),
           NEW threshold, Weighted(threshold), NEW result
    PROVE  Chained(QualityControlRun(run, ChainOf(run), threshold, result))
<1>0. PICK c, q : c = ChainOf(run) /\ q = QualityControlRun(run, c, threshold, result)
  OBVIOUS
<1>1. /\ c.validation = RowOf(validations, source[run])
      /\ c.validation.task_run_id = source[run]
  BY <1>0, RowOfIsRow DEF ChainOf
<1>2. /\ HasRow(remediations, c.validation.remediation_run_id)
      /\ c.remediation = RowOf(remediations, c.validation.remediation_run_id)
      /\ c.remediation.task_run_id = c.validation.remediation_run_id
      /\ c.remediation \in remediations
  BY <1>0, <1>1, RowOfIsRow DEF ChainOf, ChainResolves
<1>3. /\ HasRow(detections, SourceOf(c.remediation.task_run_id))
      /\ c.detection = RowOf(detections, SourceOf(c.remediation.task_run_id))
      /\ c.detection.task_run_id = SourceOf(c.remediation.task_run_id)
  BY <1>0, <1>1, <1>2, RowOfIsRow DEF ChainOf, ChainResolves
<1>4. c.remediation.source_task_run_id = SourceOf(c.remediation.task_run_id)
  BY <1>2 DEF RulesInv, OfSource, SourceOf
<1>5. /\ q.validation_run_id = c.validation.task_run_id
      /\ q.remediation_run_id = c.remediation.task_run_id
      /\ q.issue_detection_run_id = c.detection.task_run_id
      /\ q.configuration = threshold
  BY <1>0 DEF QualityControlRun
<1>6. Chained(q)
  BY <1>1, <1>2, <1>3, <1>4, <1>5 DEF Chained
<1> QED
  BY <1>0, <1>6

\* The engine runs on what the handler gathered.
LEMMA ComputeKeepsRules ==
    ASSUME AuditInv, RulesInv, Grows, NEW e \in Executors,
           \/ ComputeProfile(e) \/ ComputeIssues(e) \/ ComputeChanges(e)
           \/ ComputeResults(e) \/ ComputeVerdict(e)
    PROVE  RulesInv'
<1>0. PICK run : run = exec[e].run
  OBVIOUS
<1>1. /\ exec[e].step = "gathered" /\ Holds(exec[e]) /\ HoldsData(exec[e])
      /\ run \in DOMAIN source
  BY <1>0 DEF AuditInv, Executing, ComputeProfile, ComputeIssues, ComputeChanges,
     ComputeResults, ComputeVerdict, RulesInv, Holds
<1>2. PICK row :
         /\ Computed(e, row)
         /\ Type[run] = "SYNC" => Profiled(row)
         /\ Type[run] = "DETECT" => Detected(row)
         /\ Type[run] = "REMEDIATE" => OfSource(row) /\ Remediated(row)
         /\ Type[run] = "VALIDATE" => Judged(row)
         /\ Type[run] = "QUALITY_CTRL" => Chained(row)
  <2>1. CASE ComputeProfile(e)
    <3>1. exec[e].held.file \in Contents
      BY <1>1, <2>1 DEF HoldsData, ComputeProfile
    <3>2. Profiled(DataProfile(run, exec[e].held.file))
      BY <3>1, ComputedProfile
    <3>3. Type[run] = "SYNC" /\ Computed(e, DataProfile(run, exec[e].held.file))
      BY <1>0, <2>1 DEF ComputeProfile
    <3> QED
      BY <3>2, <3>3
  <2>2. CASE ComputeIssues(e)
    <3> DEFINE row == IssueDetectionRun(run, exec[e].held.file, load_column_rules(rules),
                          detect_issues(exec[e].held.file, load_column_rules(rules)))
    <3>1. exec[e].held.file \in Contents
      BY <1>1, <2>2 DEF HoldsData, ComputeIssues
    <3>2. Detected(row)
      BY <3>1, ComputedDetection
    <3>3. Type[run] = "DETECT" /\ Computed(e, row)
      BY <1>0, <2>2 DEF ComputeIssues
    <3> QED
      BY <3>2, <3>3
  <2>3. CASE ComputeChanges(e)
    <3> DEFINE raw == exec[e].held.file
               issues == RowOf(detections, source[run]).issues
               row == RemediationRun(run, raw, load_column_config(rules), issues,
                         remediate(Len(raw), issues, load_column_config(rules), dataset))
    <3>1. /\ HasRow(detections, source[run])
          /\ raw = RowOf(detections, source[run]).source_sha256
      BY <1>0, <1>1, <2>3 DEF HoldsData, ComputeChanges
    <3>2. OfSource(row) /\ Remediated(row)
      BY <1>1, <3>1, ComputedRemediation
    <3>3. Type[run] = "REMEDIATE" /\ Computed(e, row)
      BY <1>0, <2>3 DEF ComputeChanges
    <3> QED
      BY <3>2, <3>3
  <2>4. CASE ComputeResults(e)
    <3> DEFINE approved == exec[e].held.approved
               config == load_validation_config(rules, {c.col : c \in approved})
    <3>1. HasRow(remediations, source[run]) /\ ApprovedOf(source[run], approved)
      BY <1>0, <1>1, <2>4 DEF HoldsData, ComputeResults
    <3>2. PICK judged \in JudgedSets(approved) :
             Computed(e, ValidationRun(run, config, validate(approved, judged, config)))
      BY <1>0, <2>4 DEF ComputeResults
    <3>3. Judged(ValidationRun(run, config, validate(approved, judged, config)))
      BY <3>1, <3>2, ComputedValidation
    <3>4. Type[run] = "VALIDATE"
      BY <1>0, <2>4 DEF ComputeResults
    <3> QED
      BY <3>2, <3>3, <3>4
  <2>5. CASE ComputeVerdict(e)
    <3> DEFINE row == QualityControlRun(run, ChainOf(run), exec[e].held.threshold,
                         quality_control(EngineInput(ChainOf(run), exec[e].held.threshold)))
    <3>1. /\ HasRow(validations, source[run]) /\ ChainResolves(run)
          /\ Weighted(exec[e].held.threshold)
      BY <1>0, <1>1, <2>5 DEF ComputeVerdict, Holds, HoldsData
    <3>2. Chained(row)
      BY <3>1, ComputedVerdict
    <3>3. Type[run] = "QUALITY_CTRL" /\ Computed(e, row)
      BY <1>0, <2>5 DEF ComputeVerdict
    <3> QED
      BY <3>2, <3>3
  <2> QED
    BY <2>1, <2>2, <2>3, <2>4, <2>5
<1>3. /\ exec' = [exec EXCEPT ![e] = [run |-> run, step |-> "computed", held |-> row]]
      /\ UNCHANGED <<inputs, source, outcome, tables, decisions, request, clock>>
  BY <1>0, <1>2 DEF Computed
<1>4. HoldsData([run |-> run, step |-> "computed", held |-> row])
  BY <1>2 DEF HoldsData
<1> QED
  BY <1>3, <1>4, HoldKeepsRules

\* What an execution held is gone with it.
LEMMA DieKeepsRules ==
    ASSUME AuditInv, RulesInv, Grows, NEW e \in Executors, Die(e)
    PROVE  RulesInv'
<1>1. HoldsData(Idle)
  BY DEF HoldsData, Idle
<1> QED
  BY <1>1, HoldKeepsRules DEF Die

\* The row that is committed, if any, is the one the execution computed.
LEMMA CommitKeepsRules ==
    ASSUME AuditInv, RulesInv, Grows, NEW e \in Executors, Commit(e)
    PROVE  RulesInv'
<1>0. PICK run, row : run = exec[e].run /\ row = exec[e].held
  OBVIOUS
<1>1. exec[e].step = "computed" /\ HoldsData(exec[e])
  BY DEF Commit, RulesInv
<1>2. /\ profiles' # profiles => Type[run] = "SYNC"
      /\ detections' # detections => Type[run] = "DETECT"
      /\ remediations' # remediations => Type[run] = "REMEDIATE"
      /\ validations' # validations => Type[run] = "VALIDATE"
      /\ qualityRuns' # qualityRuns => Type[run] = "QUALITY_CTRL"
      /\ exec' = [exec EXCEPT ![e] = Idle]
      /\ UNCHANGED <<inputs, source, decisions, request, clock>>
  BY <1>0 DEF Commit
<1>3. /\ profiles' \subseteq profiles \union {row}
      /\ detections' \subseteq detections \union {row}
      /\ remediations' \subseteq remediations \union {row}
      /\ validations' \subseteq validations \union {row}
      /\ qualityRuns' \subseteq qualityRuns \union {row}
  BY <1>0 DEF Commit, Inserted, InsertedVerdict
<1>4. /\ Type[run] = "SYNC" => Profiled(row)
      /\ Type[run] = "DETECT" => Detected(row)
      /\ Type[run] = "REMEDIATE" => (OfSource(row) /\ Remediated(row))'
      /\ Type[run] = "VALIDATE" => Judged(row)'
      /\ Type[run] = "QUALITY_CTRL" => Chained(row)'
  BY <1>0, <1>1, <1>2, RemediatedStays, JudgedStays, ChainedStays DEF HoldsData
<1>5. HoldsData(Idle)'
  BY DEF HoldsData, Idle
<1>6. \A f \in Executors : exec'[f] = exec[f] \/ HoldsData(exec[f])'
  <2>1. exec'[e] = Idle /\ \A f \in Executors \ {e} : exec'[f] = exec[f]
    BY <1>2 DEF AuditInv, Executing
  <2> QED
    BY <1>5, <2>1
<1>7. Inputs' /\ DecisionRows'
  BY <1>2 DEF RulesInv, Inputs, DecisionRows, inputs
<1> QED
  BY <1>2, <1>3, <1>4, <1>6, <1>7, RulesStep

\* Every step keeps the invariant.
LEMMA NextRules == AuditInv /\ AuditInv' /\ RulesInv /\ [Next]_vars => RulesInv'
<1> SUFFICES ASSUME AuditInv, AuditInv', RulesInv, [Next]_vars PROVE RulesInv'
  OBVIOUS
<1>1. Grows /\ decisions \subseteq decisions'
  BY StepGrows
<1> QED
  BY <1>1, UsersKeepRules, InsertKeepsRules, GatherKeepsRules, ComputeKeepsRules,
     CommitKeepsRules, DieKeepsRules DEF Next, Execution

\* Every row is what its engine computes from the rows it names.
THEOREM RulesInvariant == Spec => [](AuditInv /\ RulesInv)
<1>1. AuditInv /\ RulesInv /\ [Next]_vars => (AuditInv /\ RulesInv)'
  BY NextAudit, NextRules
<1> QED
  BY <1>1, InitAudit, InitRules, PTL DEF Spec

-----------------------------------------------------------------------------
(***************************************************************************)
(* The theorems.                                                           *)
(***************************************************************************)

\* What a validation run says of a change it was given.
LEMMA ValidationRows ==
    ASSUME RulesInv, NEW v, Judged(v), NEW m, m = RowOf(remediations, v.remediation_run_id)
    PROVE  /\ m \in remediations /\ Remediated(m)
           /\ IsFiniteSet(v.results)
           /\ \A r \in v.results :
                 /\ r.change \in m.changes
                 /\ r.outcome \in {"passed", "failed", "skipped"}
                 /\ \/ r.outcome = validate_change(r.change, v.config)
                    \/ r.outcome = "skipped" /\ Cardinality(v.results) > MaxPersistedResults
                 /\ \E d \in DecisionsOn(v.remediation_run_id, r.change) :
                       d.decision = "approved"
<1>1. m \in remediations /\ Remediated(m) /\ ChangesOf(v.remediation_run_id) = m.changes
  BY RowOfIsRow DEF Judged, RulesInv, ChangesOf
<1>2. PICK approved \in SUBSET m.changes :
         ApprovedOf(v.remediation_run_id, approved) /\ JudgedFrom(v, approved)
  BY <1>1 DEF Judged
<1>3. PICK judged \in JudgedSets(approved) : v.results = validate(approved, judged, v.config)
  BY <1>2 DEF JudgedFrom
<1>4. IsFiniteSet(approved)
  BY <1>1, RemediationRows, FS_Subset
<1>5. PICK config, results : config = v.config /\ results = v.results
  OBVIOUS
<1>6. /\ IsFiniteSet(results)
      /\ \A r \in results :
            /\ r.change \in approved
            /\ r.outcome \in {"passed", "failed", "skipped"}
            /\ \/ r.outcome = validate_change(r.change, config)
               \/ r.outcome = "skipped" /\ Cardinality(results) > MaxPersistedResults
  BY <1>3, <1>4, <1>5, ValidatedChanges
<1>7. \A c \in approved : \E d \in DecisionsOn(v.remediation_run_id, c) : d.decision = "approved"
  BY <1>2 DEF ApprovedOf
<1> QED
  BY <1>1, <1>5, <1>6, <1>7

\* Remediation and validation implement every rule twice, and agree.
THEOREM RulesOfBothSidesAgree == Spec => []RulesAgree
<1>1. RulesInv => RulesAgree
  <2> SUFFICES ASSUME RulesInv, NEW v \in validations, NEW r \in v.results,
                      NEW made, made = RowOf(remediations, v.remediation_run_id),
                      ConfigOf(made.config, r.change.col) = ConfigOf(v.config, r.change.col)
               PROVE  \/ r.outcome = "passed"
                      \/ r.outcome = "skipped" /\ Cardinality(v.results) > MaxPersistedResults
    BY DEF RulesAgree
  <2>1. Judged(v)
    BY DEF RulesInv
  <2>2. /\ Remediated(made) /\ r.change \in made.changes
        /\ \/ r.outcome = validate_change(r.change, v.config)
           \/ r.outcome = "skipped" /\ Cardinality(v.results) > MaxPersistedResults
    BY <2>1, ValidationRows
  <2>3. validate_change(r.change, made.config) = "passed"
    BY <2>2, RemediationRows
  <2>4. validate_change(r.change, made.config) = validate_change(r.change, v.config)
    BY VerdictOfColumn
  <2> QED
    BY <2>2, <2>3, <2>4
<1> QED
  BY <1>1, RulesInvariant, PTL

\* The rows that a verdict names.
LEMMA VerdictRows ==
    ASSUME AuditInv, RulesInv, NEW q \in qualityRuns,
           NEW v, v = RowOf(validations, q.validation_run_id),
           NEW m, m = RowOf(remediations, q.remediation_run_id),
           NEW d, d = RowOf(detections, q.issue_detection_run_id),
           NEW p, p = RowOf(profiles, q.data_profile_id)
    PROVE  /\ Judged(v) /\ v.remediation_run_id = q.remediation_run_id
           /\ Remediated(m) /\ DetectionOf(m) = d
           /\ Detected(d) /\ Profiled(p)
<1>1. Chained(q) /\ Reproducible(q)
  BY DEF AuditInv, RulesInv
<1>2. v \in validations /\ m \in remediations /\ d \in detections /\ p \in profiles
  BY <1>1, RowOfIsRow DEF Reproducible
<1>3. Judged(v) /\ Remediated(m) /\ Detected(d) /\ Profiled(p)
  BY <1>2 DEF RulesInv
<1> QED
  BY <1>1, <1>3 DEF Chained, DetectionOf

\* End to end: a verdict other than FAIL under a threshold that tolerates no
\* unresolved issue of a severity means that each was approved and passed.
THEOREM PassingMeansFixed == Spec => []PassMeansFixed
<1>1. AuditInv /\ RulesInv => PassMeansFixed
  <2> SUFFICES ASSUME AuditInv, RulesInv, NEW q \in qualityRuns,
                      NEW d, d = RowOf(detections, q.issue_detection_run_id),
                      NEW v, v = RowOf(validations, q.validation_run_id),
                      q.result.release_recommendation # "FAIL",
                      d.total_issues_found = Cardinality(d.issues),
                      NEW f \in AllFindings(d.source_sha256, d.config),
                      \/ /\ f.severity = "CRITICAL"
                         /\ q.configuration.max_critical_severity_unresolved = 0
                      \/ /\ f.severity = "HIGH"
                         /\ q.configuration.max_high_severity_unresolved = 0
               PROVE  \E r \in v.results :
                         /\ r.outcome = "passed"
                         /\ r.change.row = f.row /\ r.change.col = f.col
                         /\ r.change.type = f.type
                         /\ \E x \in DecisionsOn(q.remediation_run_id, r.change) :
                               x.decision = "approved"
    BY DEF PassMeansFixed
  <2>1. PICK m, p : /\ m = RowOf(remediations, q.remediation_run_id)
                    /\ p = RowOf(profiles, q.data_profile_id)
    OBVIOUS
  <2>2. /\ Judged(v) /\ v.remediation_run_id = q.remediation_run_id
        /\ Detected(d)
    BY <2>1, VerdictRows
  <2>3. f \in d.issues /\ IsFiniteSet(d.issues)
    BY <2>2, DetectionRows
  <2> DEFINE addressed == UNION {SourceIssue(d.issues, c) : c \in Passed(v.results)}
             Left(s) == {x \in d.issues \ addressed : x.severity = s}
  <2>4. PICK in : /\ q.result = quality_control(in)
                  /\ in.stats.unresolved_critical_count = Cardinality(Left("CRITICAL"))
                  /\ in.stats.unresolved_high_count = Cardinality(Left("HIGH"))
                  /\ in.thresholds = q.configuration
    <3>1. Reproducible(q)
      BY DEF AuditInv
    <3>2. PICK chain : chain = VerdictChain(q)
      OBVIOUS
    <3>3. chain.validation = v /\ chain.detection = d
      BY <3>2 DEF VerdictChain
    <3>4. PICK in : in = EngineInput(chain, q.configuration)
      OBVIOUS
    <3>5. q.result = quality_control(in)
      BY <3>1, <3>2, <3>4 DEF Reproducible
    <3>6. in.stats = EffectiveStats(chain) /\ in.thresholds = q.configuration
      BY <3>4 DEF EngineInput
    <3>7. /\ EffectiveStats(chain).unresolved_critical_count = Cardinality(Left("CRITICAL"))
          /\ EffectiveStats(chain).unresolved_high_count = Cardinality(Left("HIGH"))
      BY <3>3 DEF EffectiveStats, compute_effective_stats
    <3> QED
      BY <3>5, <3>6, <3>7
  <2>5. /\ ~(in.stats.unresolved_critical_count > in.thresholds.max_critical_severity_unresolved)
        /\ ~(in.stats.unresolved_high_count > in.thresholds.max_high_severity_unresolved)
    <3>1. compute_recommendation(in) # "FAIL"
      BY <2>4 DEF quality_control
    <3> QED
      BY <3>1 DEF compute_recommendation
  <2>6. ASSUME NEW s, ~(Cardinality(Left(s)) > 0) PROVE Left(s) = {}
    <3>1. IsFiniteSet(Left(s))
      BY <2>3, FS_Subset
    <3> HIDE DEF Left
    <3>2. Cardinality(Left(s)) = 0
      BY <2>6, <3>1, FS_CardinalityType
    <3> QED
      BY <3>1, <3>2, FS_EmptySet
  <2>7. f \in addressed
    <3>1. f \notin Left(f.severity) => f \in addressed
      BY <2>3
    <3> HIDE DEF addressed, Left
    <3>2. Left(f.severity) = {}
      BY <2>4, <2>5, <2>6
    <3> QED
      BY <3>1, <3>2
  <2>8. PICK r \in v.results : /\ r.outcome = "passed"
                               /\ f \in SourceIssue(d.issues, r.change)
    BY <2>7 DEF Passed
  <2>9. r.change.row = f.row /\ r.change.col = f.col /\ r.change.type = f.type
    BY <2>8 DEF SourceIssue
  <2>10. \E x \in DecisionsOn(q.remediation_run_id, r.change) : x.decision = "approved"
    BY <2>1, <2>2, <2>8, ValidationRows
  <2> QED
    BY <2>8, <2>9, <2>10
<1> QED
  BY <1>1, RulesInvariant, PTL

\* The effective row count is never above the rows left once the removals that
\* passed are applied, and is exact unless a row is removed twice.
THEOREM RowsAreNotOverstated == Spec => []RowsNotOverstated
<1>1. AuditInv /\ RulesInv => RowsNotOverstated
  <2> SUFFICES ASSUME AuditInv, RulesInv, NEW q \in qualityRuns,
                      NEW p, p = RowOf(profiles, q.data_profile_id),
                      NEW d, d = RowOf(detections, q.issue_detection_run_id),
                      NEW v, v = RowOf(validations, q.validation_run_id),
                      p.source_sha256 = d.source_sha256
               PROVE  LET removals == {c \in Passed(v.results) : c.proposed = Removal}
                          removed == {c.row : c \in removals}
                          left == p.row_count - Cardinality(removed)
                          counted == q.post_remediation_stats.effective_row_count
                      IN  /\ counted <= left
                          /\ Cardinality(removals) = Cardinality(removed) => counted = left
    BY DEF RowsNotOverstated
  <2>0. PICK removals : removals = {c \in Passed(v.results) : c.proposed = Removal}
    OBVIOUS
  <2>1. PICK m : m = RowOf(remediations, q.remediation_run_id)
    OBVIOUS
  <2>2. /\ Judged(v) /\ v.remediation_run_id = q.remediation_run_id
        /\ Remediated(m) /\ DetectionOf(m) = d /\ Profiled(p)
    BY <2>1, VerdictRows
  <2>3. PICK n : /\ n \in Nat /\ n = Len(p.source_sha256) /\ p.row_count = n
    BY <2>2 DEF Profiled, Contents
  <2>4. /\ IsFiniteSet(v.results)
        /\ \A r \in v.results : r.change \in m.changes
    BY <2>1, <2>2, ValidationRows
  <2>5. \A c \in m.changes : /\ c.row \in 2..(n + 1)
                             /\ c.action \in DUPLICATE_REMOVAL_ACTIONS <=> c.proposed = Removal
    BY <2>2, <2>3, RemediationRows
  <2>6. /\ Passed(v.results) \subseteq m.changes /\ IsFiniteSet(Passed(v.results))
    <3> DEFINE passed == {r \in v.results : r.outcome = "passed"}
               change == [r \in passed |-> r.change]
    <3>1. Passed(v.results) = {change[r] : r \in DOMAIN change} /\ DOMAIN change = passed
      BY DEF Passed
    <3>2. IsFiniteSet(passed)
      BY <2>4, FS_Subset
    <3> HIDE DEF change
    <3>3. IsFiniteSet({change[r] : r \in DOMAIN change})
      BY <3>1, <3>2, ImageFinite
    <3> QED
      BY <2>4, <3>1, <3>3 DEF Passed
  <2>7. /\ IsFiniteSet(removals) /\ \A c \in removals : c.row \in 2..(n + 1)
        /\ removals = {c \in Passed(v.results) : c.action \in DUPLICATE_REMOVAL_ACTIONS}
    BY <2>0, <2>5, <2>6, FS_Subset
  <2>8. /\ Cardinality(removals) \in Nat /\ Cardinality({c.row : c \in removals}) \in Nat
        /\ Cardinality({c.row : c \in removals}) <= Cardinality(removals)
        /\ Cardinality({c.row : c \in removals}) <= n
    <3> DEFINE row == [c \in removals |-> c.row]
               rows == {c.row : c \in removals}
    <3>1. rows = {row[c] : c \in DOMAIN row} /\ DOMAIN row = removals
      OBVIOUS
    <3> HIDE DEF row
    <3>2. IsFiniteSet(rows) /\ Cardinality(rows) <= Cardinality(removals)
      BY <2>7, <3>1, ImageFinite
    <3>3. /\ rows \subseteq 2..(n + 1) /\ IsFiniteSet(2..(n + 1))
          /\ Cardinality(2..(n + 1)) = n
      <4>1. PICK low, high : low = 2 /\ high = n + 1 /\ low \in Int /\ high \in Int
        BY <2>3
      <4>2. /\ IsFiniteSet(low..high)
            /\ Cardinality(low..high) = IF low > high THEN 0 ELSE high - low + 1
        BY <4>1, FS_Interval
      <4>3. Cardinality(low..high) = n
        BY <2>3, <4>1, <4>2
      <4> QED
        BY <2>7, <4>1, <4>2, <4>3
    <3>4. Cardinality(rows) <= n
      BY <3>3, FS_Subset
    <3> QED
      BY <2>7, <3>2, <3>4, FS_CardinalityType
  <2>9. q.post_remediation_stats.effective_row_count = AtLeastZero(n - Cardinality(removals))
    <3>1. Reproducible(q)
      BY DEF AuditInv
    <3>2. PICK chain : chain = VerdictChain(q)
      OBVIOUS
    <3>3. chain.validation = v /\ chain.profile = p
      BY <3>2 DEF VerdictChain
    <3>4. q.post_remediation_stats = EffectiveStats(chain)
      BY <3>1, <3>2 DEF Reproducible
    <3>5. EffectiveStats(chain).effective_row_count
            = AtLeastZero(p.row_count - Cardinality(removals))
      BY <2>7, <3>3 DEF EffectiveStats, compute_effective_stats
    <3> QED
      BY <2>3, <3>4, <3>5
  <2>10. PICK rows : rows = Cardinality({c.row : c \in removals})
    OBVIOUS
  <2> QED
    BY <2>0, <2>3, <2>8, <2>9, <2>10 DEF AtLeastZero
<1> QED
  BY <1>1, RulesInvariant, PTL

\* A finite set, split by the three outcomes.
LEMMA ByOutcome ==
    ASSUME NEW S, IsFiniteSet(S), \A r \in S : r.outcome \in {"passed", "failed", "skipped"}
    PROVE  Cardinality(S) = Cardinality({r \in S : r.outcome = "passed"})
                            + Cardinality({r \in S : r.outcome = "failed"})
                            + Cardinality({r \in S : r.outcome = "skipped"})
<1> DEFINE passed == {r \in S : r.outcome = "passed"}
           failed == {r \in S : r.outcome = "failed"}
           skipped == {r \in S : r.outcome = "skipped"}
           rest == S \ passed
<1>1. /\ passed \subseteq S /\ failed \subseteq rest
      /\ rest \ failed = skipped
  OBVIOUS
<1> HIDE DEF passed, failed, skipped, rest
<1>2. /\ Cardinality(S) = Cardinality(passed) + Cardinality(rest) /\ IsFiniteSet(rest)
      /\ Cardinality(passed) \in Nat
  BY <1>1, Rest DEF rest
<1>3. /\ Cardinality(rest) = Cardinality(failed) + Cardinality(rest \ failed)
      /\ Cardinality(failed) \in Nat /\ Cardinality(rest \ failed) \in Nat
  BY <1>1, <1>2, Rest
<1>4. Cardinality(S) = Cardinality(passed) + Cardinality(failed) + Cardinality(skipped)
  BY <1>1, <1>2, <1>3
<1> QED
  BY <1>4 DEF passed, failed, skipped

\* What quality control is given for a verdict: counts of the rows it names.
LEMMA VerdictInput ==
    ASSUME AuditInv, RulesInv, NEW q \in qualityRuns
    PROVE  \E in : SoundInput(in) /\ q.result = quality_control(in)
<1>1. PICK v, m, d, p : /\ v = RowOf(validations, q.validation_run_id)
                        /\ m = RowOf(remediations, q.remediation_run_id)
                        /\ d = RowOf(detections, q.issue_detection_run_id)
                        /\ p = RowOf(profiles, q.data_profile_id)
  OBVIOUS
<1>2. /\ Judged(v) /\ v.remediation_run_id = q.remediation_run_id
      /\ Detected(d) /\ Profiled(p)
  BY <1>1, VerdictRows
<1>3. PICK chain, in : chain = VerdictChain(q) /\ in = EngineInput(chain, q.configuration)
  OBVIOUS
<1>4. chain.validation = v /\ chain.detection = d /\ chain.profile = p
  BY <1>1, <1>3 DEF VerdictChain
<1>5. q.result = quality_control(in)
  <2>1. Reproducible(q)
    BY DEF AuditInv
  <2> QED
    BY <1>3, <2>1 DEF Reproducible
<1>6. /\ in.stats = compute_effective_stats(p, d.issues, v.results)
      /\ in.results = v.results /\ in.total_issues_found = d.total_issues_found
      /\ in.thresholds = q.configuration
  BY <1>3, <1>4 DEF EngineInput, EffectiveStats
<1>7. IsFiniteSet(v.results)
  BY <1>1, <1>2, ValidationRows
<1>8. IsFiniteSet(d.issues) /\ d.total_issues_found \in Nat
  BY <1>2, DetectionRows
<1>9. /\ p.row_count \in Int /\ p.duplicate_row_count \in Int /\ p.missing_value_total \in Int
  BY <1>2 DEF Profiled, Contents
<1>10. Weighted(q.configuration)
  BY DEF RulesInv, Chained
<1>11. PICK stats : stats = in.stats
  OBVIOUS
<1>12. /\ stats.effective_row_count \in Nat /\ stats.effective_duplicate_row_count \in Nat
       /\ stats.effective_missing_value_total \in Nat
       /\ stats.unresolved_high_count \in Nat /\ stats.unresolved_critical_count \in Nat
  BY <1>6, <1>7, <1>8, <1>9, <1>11, StatsAreCounts
<1>13. SoundInput(in)
  BY <1>6, <1>7, <1>8, <1>10, <1>11, <1>12 DEF SoundInput, Weighted
<1> QED
  BY <1>5, <1>13

\* The INSERT of a row is never refused by the CHECK constraints of its table:
\* counts add up, and the overall score is between 0 and 100 per cent.
THEOREM RowsPassTheirChecks == Spec => []RowsAreLegal
<1>1. AuditInv /\ RulesInv => RowsAreLegal
  <2> SUFFICES ASSUME AuditInv, RulesInv PROVE RowsAreLegal
    OBVIOUS
  <2>1. \A r \in detections : ck_issue_detection_runs(r)
    BY DetectionRows DEF RulesInv, ck_issue_detection_runs
  <2>2. \A r \in remediations : ck_remediation_runs(r)
    BY RemediationRows DEF RulesInv
  <2>3. ASSUME NEW v \in validations PROVE ck_validation_runs(v)
    <3>1. Judged(v)
      BY DEF RulesInv
    <3>2. IsFiniteSet(v.results)
          /\ \A r \in v.results : r.outcome \in {"passed", "failed", "skipped"}
      BY <3>1, ValidationRows
    <3>3. /\ v.approved_changes_considered = Cardinality(v.results)
          /\ v.passed_count = Cardinality({r \in v.results : r.outcome = "passed"})
          /\ v.failed_count = Cardinality({r \in v.results : r.outcome = "failed"})
          /\ v.skipped_count = Cardinality({r \in v.results : r.outcome = "skipped"})
      BY <3>1 DEF Judged, JudgedFrom
    <3> QED
      BY <3>2, <3>3, ByOutcome DEF ck_validation_runs
  <2>4. ASSUME NEW q \in qualityRuns PROVE ck_quality_control_runs(q)
    <3>1. PICK in : SoundInput(in) /\ q.result = quality_control(in)
      BY VerdictInput
    <3>2. q.result.overall_score = OverallScore(in)
      BY <3>1 DEF quality_control
    <3>3. q.result.overall_score.n \in 0..q.result.overall_score.d
      BY <3>1, <3>2, OverallScoreInRange
    <3> QED
      BY <3>1, <3>3, VerdictCounts DEF ck_quality_control_runs
  <2> QED
    BY <2>1, <2>2, <2>3, <2>4 DEF RowsAreLegal
<1> QED
  BY <1>1, RulesInvariant, PTL

-----------------------------------------------------------------------------
(***************************************************************************)
(* Decisions as the API reports them.                                      *)
(***************************************************************************)

\* The decisions on a change are finitely many, and their timestamps numbers.
LEMMA DecisionsFinite ==
    ASSUME AuditInv, RulesInv, NEW run, NEW c
    PROVE  /\ IsFiniteSet(DecisionsOn(run, c))
           /\ \A d \in DecisionsOn(run, c) : d.decision_timestamp \in Int
<1>1. DecisionsOn(run, c) \subseteq decisions /\ IsFiniteSet(decisions)
  BY DEF DecisionsOn, RulesInv, DecisionRows
<1>2. \A d \in decisions : d.decision_timestamp \in Int
  BY DEF AuditInv, PlainTypes, Deciding
<1> QED
  BY <1>1, <1>2, FS_Subset

\* Without a tie, the status shown is the decision that validation goes by.
LEMMA StatusIsLatest ==
    ASSUME AuditInv, RulesInv, NEW run, NEW c, NEW ds, ds = DecisionsOn(run, c), ds # {},
           Cardinality({d.decision_timestamp : d \in ds}) = Cardinality(ds)
    PROVE  decision_status(run, c) = {LatestDecision(run, c).decision}
<1> DEFINE at == [d \in ds |-> d.decision_timestamp]
<1>1. PICK latest : latest = LatestDecision(run, c)
  OBVIOUS
<1>2. /\ latest \in ds
      /\ \A o \in ds : \/ o.decision_timestamp < latest.decision_timestamp
                       \/ o.decision_timestamp = latest.decision_timestamp /\ o.id <= latest.id
  BY <1>1, LatestExists
<1>3. IsFiniteSet(ds) /\ \A d \in ds : d.decision_timestamp \in Int
  BY DecisionsFinite
<1>4. /\ {d.decision_timestamp : d \in ds} = {at[d] : d \in DOMAIN at} /\ DOMAIN at = ds
      /\ \A d \in ds : at[d] = d.decision_timestamp
  OBVIOUS
<1> HIDE DEF at
<1>5. \A x, y \in ds : x.decision_timestamp = y.decision_timestamp => x = y
  <2>1. Cardinality({at[d] : d \in DOMAIN at}) = Cardinality(DOMAIN at) /\ IsFiniteSet(DOMAIN at)
    BY <1>3, <1>4
  <2> QED
    BY <1>4, <2>1, ImageFinite
<1>6. {x \in ds : \A o \in ds : o.decision_timestamp <= x.decision_timestamp} = {latest}
  <2>1. \A o \in ds : o.decision_timestamp <= latest.decision_timestamp
    BY <1>2, <1>3
  <2>2. ASSUME NEW x \in ds, \A o \in ds : o.decision_timestamp <= x.decision_timestamp
        PROVE  x = latest
    <3>1. x.decision_timestamp = latest.decision_timestamp
      BY <1>2, <1>3, <2>1, <2>2
    <3> QED
      BY <1>2, <1>5, <3>1
  <2> QED
    BY <1>2, <2>1, <2>2
<1>7. decision_status(run, c) =
        {d.decision : d \in {x \in ds : \A o \in ds : o.decision_timestamp <= x.decision_timestamp}}
  BY DEF decision_status
<1> QED
  BY <1>1, <1>6, <1>7

\* A finite set of at most one element.
LEMMA AtMostOne ==
    ASSUME NEW S, IsFiniteSet(S), Cardinality(S) <= 1, NEW x \in S
    PROVE  S = {x}
<1>1. IsFiniteSet({x}) /\ Cardinality({x}) = 1
  BY FS_Singleton
<1>2. /\ Cardinality(S) = Cardinality({x}) + Cardinality(S \ {x})
      /\ IsFiniteSet(S \ {x}) /\ Cardinality(S \ {x}) \in Nat
  BY Rest
<1>3. Cardinality(S \ {x}) = 0
  BY <1>1, <1>2
<1>4. S \ {x} = {}
  BY <1>2, <1>3, FS_EmptySet
<1> QED
  BY <1>4

\* The decision rows of a run with a value are as many as the changes with
\* that status, if no change has two decisions.
LEMMA CountsAreStatuses ==
    ASSUME AuditInv, RulesInv, NEW run,
           \A c \in ChangesOf(run) : Cardinality(DecisionsOn(run, c)) <= 1, NEW value
    PROVE  /\ Cardinality({d \in decisions : d.remediation_run_id = run /\ d.decision = value})
                = Cardinality({c \in ChangesOf(run) : decision_status(run, c) = {value}})
           /\ {c \in ChangesOf(run) : decision_status(run, c) = {value}}
                = {c \in ChangesOf(run) : \E d \in DecisionsOn(run, c) : d.decision = value}
<1> DEFINE rows == {d \in decisions : d.remediation_run_id = run /\ d.decision = value}
           with == {c \in ChangesOf(run) : decision_status(run, c) = {value}}
           change == [d \in rows |-> d.remediation_change_id]
<1>1. \A d \in rows : /\ d.remediation_change_id \in ChangesOf(run)
                       /\ d \in DecisionsOn(run, d.remediation_change_id)
  BY DEF AuditInv, Deciding, DecisionsOn
<1>2. ASSUME NEW c \in ChangesOf(run), NEW d \in DecisionsOn(run, c)
      PROVE  DecisionsOn(run, c) = {d} /\ decision_status(run, c) = {d.decision}
  <2>1. DecisionsOn(run, c) = {d} /\ d.decision_timestamp \in Int
    BY DecisionsFinite, AtMostOne
  <2>2. d.decision_timestamp <= d.decision_timestamp
    BY <2>1
  <2>3. {x \in DecisionsOn(run, c) : \A o \in DecisionsOn(run, c) :
            o.decision_timestamp <= x.decision_timestamp} = {d}
    BY <2>1, <2>2
  <2>4. decision_status(run, c) = {x.decision : x \in {d}}
    BY <2>3 DEF decision_status
  <2> QED
    BY <2>1, <2>4
<1>3. ASSUME NEW c \in with PROVE \E d \in rows : c = d.remediation_change_id
  <2>1. value \in decision_status(run, c)
    OBVIOUS
  <2>2. PICK d \in DecisionsOn(run, c) : d.decision = value
    BY <2>1 DEF decision_status
  <2> QED
    BY <2>2 DEF DecisionsOn
<1>4. with = {c \in ChangesOf(run) : \E d \in DecisionsOn(run, c) : d.decision = value}
  <2>1. ASSUME NEW c \in with PROVE \E d \in DecisionsOn(run, c) : d.decision = value
    BY <1>1, <1>3
  <2>2. ASSUME NEW c \in ChangesOf(run), NEW d \in DecisionsOn(run, c), d.decision = value
        PROVE  c \in with
    BY <1>2, <2>2
  <2> QED
    BY <2>1, <2>2
<1>5. \A d \in rows : d.remediation_change_id \in with
  BY <1>1, <1>2
<1>6. \A x, y \in rows : x.remediation_change_id = y.remediation_change_id => x = y
  <2> SUFFICES ASSUME NEW x \in rows, NEW y \in rows,
                      x.remediation_change_id = y.remediation_change_id
               PROVE  x = y
    OBVIOUS
  <2>1. PICK c : c = x.remediation_change_id /\ c = y.remediation_change_id
    OBVIOUS
  <2>2. c \in ChangesOf(run) /\ x \in DecisionsOn(run, c) /\ y \in DecisionsOn(run, c)
    BY <1>1, <2>1
  <2> QED
    BY <1>2, <2>2
<1>7. IsFiniteSet(rows)
  BY FS_Subset DEF RulesInv, DecisionRows
<1>8. DOMAIN change = rows /\ \A d \in rows : change[d] = d.remediation_change_id
  OBVIOUS
<1> HIDE DEF change, rows, with
<1>9. with = {change[d] : d \in DOMAIN change}
  BY <1>3, <1>5, <1>8
<1>10. Cardinality({change[d] : d \in DOMAIN change}) = Cardinality(DOMAIN change)
  <2>1. IsFiniteSet(DOMAIN change) /\ \A x, y \in DOMAIN change : change[x] = change[y] => x = y
    BY <1>6, <1>7, <1>8
  <2> QED
    BY <2>1, ImageFinite
<1>11. Cardinality(rows) = Cardinality(with)
  BY <1>8, <1>9, <1>10
<1> QED
  BY <1>4, <1>11 DEF rows, with

\* What the API shows of decisions is what validation goes by, unless decisions
\* tie or race.
THEOREM StatusesAgree == Spec => []StatusAgrees
<1>1. ASSUME AuditInv, RulesInv, NEW run,
             \A c \in ChangesOf(run) : Cardinality(DecisionsOn(run, c)) <= 1
      PROVE  decision_summary(run) =
               [pending |-> Cardinality(PendingFor(run, ChangesOf(run))),
                approved |-> Cardinality({c \in ChangesOf(run) :
                                             decision_status(run, c) = {"approved"}}),
                rejected |-> Cardinality({c \in ChangesOf(run) :
                                             decision_status(run, c) = {"rejected"}})]
  <2> DEFINE changes == ChangesOf(run)
             pending == PendingFor(run, changes)
             with(v) == {c \in changes : decision_status(run, c) = {v}}
             decided == {c \in changes : \E d \in DecisionsOn(run, c) : d.decision = "approved"}
             refused == {c \in changes : \E d \in DecisionsOn(run, c) : d.decision = "rejected"}
             count(v) == Cardinality({d \in decisions : d.remediation_run_id = run
                                                         /\ d.decision = v})
  <2>1. /\ count("approved") = Cardinality(with("approved")) /\ with("approved") = decided
        /\ count("rejected") = Cardinality(with("rejected")) /\ with("rejected") = refused
    <3>1. \A v : /\ count(v) = Cardinality(with(v))
                 /\ with(v) = {c \in changes : \E d \in DecisionsOn(run, c) : d.decision = v}
      BY <1>1, CountsAreStatuses
    <3> HIDE DEF count, with
    <3> QED
      BY <3>1
  <2>2. ASSUME NEW c \in changes, NEW x \in DecisionsOn(run, c), NEW y \in DecisionsOn(run, c)
        PROVE  x = y
    <3>1. DecisionsOn(run, c) = {x}
      BY <1>1, <2>2, DecisionsFinite, AtMostOne
    <3> QED
      BY <3>1
  <2>3. \A c, d : d \in DecisionsOn(run, c) => d.decision \in {"approved", "rejected"}
    BY <1>1 DEF DecisionsOn, AuditInv, Deciding
  <2>4. /\ decided \subseteq changes /\ refused \subseteq changes \ decided
        /\ pending = (changes \ decided) \ refused
    BY <2>2, <2>3 DEF PendingFor
  <2>5. IsFiniteSet(changes)
    BY <1>1, ChangesFinite
  <2> HIDE DEF decided, refused, pending, changes
  <2>6. /\ Cardinality(changes) = Cardinality(decided) + Cardinality(changes \ decided)
        /\ IsFiniteSet(changes \ decided) /\ Cardinality(decided) \in Nat
    BY <2>4, <2>5, Rest
  <2>7. /\ Cardinality(changes \ decided) = Cardinality(refused) + Cardinality(pending)
        /\ Cardinality(refused) \in Nat /\ Cardinality(pending) \in Nat
    <3>1. PICK left : left = changes \ decided
      OBVIOUS
    <3> QED
      BY <2>4, <2>6, <3>1, Rest
  <2>8. AtLeastZero(Cardinality(changes) - count("approved") - count("rejected"))
          = Cardinality(pending)
    <3>1. PICK a, r : /\ a = count("approved") /\ a = Cardinality(decided)
                      /\ r = count("rejected") /\ r = Cardinality(refused)
      BY <2>1
    <3>2. Cardinality(changes) - a - r = Cardinality(pending)
      BY <2>6, <2>7, <3>1
    <3> QED
      BY <2>7, <3>1, <3>2 DEF AtLeastZero
  <2> QED
    BY <2>1, <2>8 DEF decision_summary, changes, pending
<1>2. AuditInv /\ RulesInv => StatusAgrees
  BY <1>1, StatusIsLatest DEF StatusAgrees
<1> QED
  BY <1>2, RulesInvariant, PTL

=============================================================================
