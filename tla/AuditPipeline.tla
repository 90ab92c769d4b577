----------------------------- MODULE AuditPipeline -----------------------------
(***************************************************************************)
(* The review pipeline SYNC -> DETECT -> REMEDIATE -> decisions ->         *)
(* VALIDATE -> QUALITY_CTRL over the tables it shares.                     *)
(*                                                                         *)
(* A handler reads what execute() reads first (the file, the decisions or  *)
(* the threshold: Gather), then the configuration tables and the engine's  *)
(* other inputs (Compute), and commits its rows in one transaction         *)
(* (Commit).  Executions of one run may overlap, as they do after a lost   *)
(* lease, and may die at any point.  Requests that decide on changes check *)
(* and insert in two transactions.  The rules are those of IssueRules and  *)
(* QualityEngine.                                                          *)
(***************************************************************************)
EXTENDS QualityEngine

CONSTANTS
    Runs,            \* the TaskRuns that may be created
    NoRun,           \* the absence of a source_task_run_id
    Type,            \* the task_type of each run
    Sources,         \* the source_task_run_ids clients name for each run
    Executors,       \* executions under way at a time
    Reviewers,       \* decision requests under way at a time
    Files,           \* contents the CSV file can have
    RuleTables,      \* contents of the column-rule tables
    DatasetConfigs,  \* contents of remediation_dataset_configs
    Thresholds,      \* contents of quality_thresholds, by scope
    MaxEdits,        \* bound on edits of file and configuration
    MaxTime,         \* bound on the clock of decision_timestamp
    MaxDecisions     \* bound on decision rows

ASSUME PipelineAssumption ==
    /\ NoRun \notin Runs
    /\ Type \in [Runs -> {"SYNC", "DETECT", "REMEDIATE", "VALIDATE", "QUALITY_CTRL"}]
    /\ Sources \in [Runs -> SUBSET (Runs \union {NoRun})]
    /\ IsFiniteSet(Reviewers)
    /\ MaxEdits \in Nat /\ MaxTime \in Nat /\ MaxDecisions \in Nat

VARIABLES
    file, rules, dataset, thresholds, edits,   \* what users edit
    source,        \* task_runs: the source_task_run_id of every run created
    outcome,       \* what the engine recorded for a run
    profiles, detections, remediations, validations, qualityRuns,   \* tables
    decisions,     \* remediation_change_decisions
    exec,          \* what each execution holds
    request,       \* what each decision request holds
    clock

tables == <<profiles, detections, remediations, validations, qualityRuns>>
inputs == <<file, rules, dataset, thresholds, edits>>
vars == <<inputs, source, outcome, tables, decisions, exec, request, clock>>

-----------------------------------------------------------------------------
(* Configuration tables: an active row of the data source goes before an    *)
(* active row of the organization, table by table and as a whole row.       *)

\* The columns of IssueDetectionColumnRule and RemediationColumnRule, with the
\* defaults a missing row stands for.
NoDetectionRule ==
    [is_active |-> FALSE, expected_type |-> "none", is_required |-> FALSE,
     is_primary_key |-> FALSE, allowed_values |-> {}, outlier_enabled |-> FALSE,
     capitalization_check_enabled |-> FALSE]
NoRemediationRule ==
    [is_active |-> FALSE, capitalization_target |-> "none", default_country |-> "none",
     source_date_format |-> "none", target_date_format |-> "none"]

Scoped(table, c, missing) ==
    CASE table.data_source[c].is_active -> table.data_source[c]
      [] ~table.data_source[c].is_active /\ table.org_wide[c].is_active -> table.org_wide[c]
      [] OTHER -> missing

\* IssueDetectionHandler._load_column_rules
load_column_rules(t) ==
    [c \in Columns |->
       LET r == Scoped(t.detection, c, NoDetectionRule) IN
       [NoRule EXCEPT !.expected_type = r.expected_type, !.is_required = r.is_required,
                      !.is_primary_key = r.is_primary_key, !.allowed_values = r.allowed_values,
                      !.outlier_enabled = r.outlier_enabled,
                      !.capitalization_check_enabled = r.capitalization_check_enabled]]

\* RemediationHandler._load_column_config, for the columns of the file: the
\* remediation rule, and allowed_values from the detection rule.
load_column_config(t) ==
    [c \in Columns |->
       LET r == Scoped(t.remediation, c, NoRemediationRule) IN
       [NoRule EXCEPT !.capitalization_target = r.capitalization_target,
                      !.default_country = r.default_country,
                      !.source_date_format = r.source_date_format,
                      !.target_date_format = r.target_date_format,
                      !.allowed_values = Scoped(t.detection, c, NoDetectionRule).allowed_values]]

\* ValidationHandler._load_column_config, for the columns of approved changes.
load_validation_config(t, columns) ==
    [c \in Columns |-> IF c \in columns THEN load_column_config(t)[c] ELSE NoRule]

NoThreshold == [DefaultThreshold EXCEPT !.fail_score_threshold = -1]

\* _resolve_threshold; NoThreshold where it raises.
resolve_threshold(t) ==
    IF t.data_source # NoThreshold THEN t.data_source ELSE t.org_wide

\* resolve_source_path and load_csv raise CsvLoadError for such a file.
Unreadable == << <<None>> >>

\* What users put into the file and the configuration: records of fields,
\* finitely many allowed values, each the text of a cell, and whole weights.
ASSUME ContentAssumption ==
    /\ Files \subseteq Seq(Seq(Fields)) \union {Unreadable}
    /\ \A t \in RuleTables, c \in Columns, scope \in {"org_wide", "data_source"} :
          /\ IsFiniteSet(t.detection[scope][c].allowed_values)
          /\ t.detection[scope][c].allowed_values \subseteq Fields
    /\ \A t \in Thresholds, scope \in {"org_wide", "data_source"} :
          \A k \in DOMAIN t[scope].category_weights : t[scope].category_weights[k] \in Int

-----------------------------------------------------------------------------
(* Tables.  A row's id is the task_run_id it is unique for.                 *)

RowOf(table, run) == CHOOSE r \in table : r.task_run_id = run
HasRow(table, run) == \E r \in table : r.task_run_id = run

\* A row with what the handler read (config, loaded) as history.
IssueDetectionRun(run, raw, config, found) ==
    [task_run_id |-> run, source_sha256 |-> raw, config |-> config,
     issues |-> found.issues, total_issues_found |-> found.total_issues_found]

DataProfile(run, raw) ==
    LET p == profile_csv(raw) IN
    [task_run_id |-> run, row_count |-> p.row_count,
     duplicate_row_count |-> p.duplicate_row_count,
     missing_value_total |-> p.missing_value_total, source_sha256 |-> p.source_sha256]

RemediationRun(run, raw, config, considered, result) ==
    [task_run_id |-> run, source_task_run_id |-> source[run], loaded |-> raw,
     config |-> config, issues_considered_count |-> Cardinality(considered),
     total_changes_count |-> Cardinality(result.changes),
     issues_skipped_count |-> Cardinality(result.skipped), changes |-> result.changes]

ValidationRun(run, config, results) ==
    [task_run_id |-> run, remediation_run_id |-> source[run], config |-> config,
     approved_changes_considered |-> Cardinality(results),
     passed_count |-> Cardinality({r \in results : r.outcome = "passed"}),
     failed_count |-> Cardinality({r \in results : r.outcome = "failed"}),
     skipped_count |-> Cardinality({r \in results : r.outcome = "skipped"}),
     results |-> results]

EffectiveStats(chain) ==
    compute_effective_stats(chain.profile, chain.detection.issues, chain.validation.results)

\* build_snapshot: the ids of the inputs and the threshold in force.
QualityControlRun(run, chain, threshold, result) ==
    [task_run_id |-> run, validation_run_id |-> chain.validation.task_run_id,
     remediation_run_id |-> chain.remediation.task_run_id,
     issue_detection_run_id |-> chain.detection.task_run_id,
     data_profile_id |-> chain.profile.task_run_id,
     configuration |-> threshold, post_remediation_stats |-> EffectiveStats(chain),
     result |-> result]

\* The CHECK constraints of the four result tables.
ck_issue_detection_runs(r) ==
    /\ r.total_issues_found >= 0
    /\ Cardinality(r.issues) <= r.total_issues_found
ck_remediation_runs(r) ==
    r.issues_considered_count = r.total_changes_count + r.issues_skipped_count
ck_validation_runs(r) ==
    r.approved_changes_considered = r.passed_count + r.failed_count + r.skipped_count
ck_quality_control_runs(r) ==
    /\ r.result.total_findings = r.result.blocking_count + r.result.warning_count
                                   + r.result.info_count
    /\ r.result.overall_score.n \in 0..r.result.overall_score.d
    /\ Cardinality(r.result.findings) <= r.result.total_findings

-----------------------------------------------------------------------------
(* Users: runs, the file and the configuration.                            *)

\* The types for which create_task_run requires a source; for every other
\* type it refuses one.
RequiresSource == {"REMEDIATE", "VALIDATE"}

WithRun(run, src) == [r \in DOMAIN source \union {run} |-> IF r = run THEN src ELSE source[r]]

\* Mutant: the source run is not looked up.
CreateTaskRunUnchecked(run, src) ==
    /\ run \notin DOMAIN source
    /\ IF Type[run] \in RequiresSource THEN src \in Runs ELSE src = NoRun
    /\ source' = WithRun(run, src)
    /\ UNCHANGED <<inputs, outcome, tables, decisions, exec, request, clock>>

CreateTaskRun(run, src) ==
    /\ run \notin DOMAIN source
    /\ IF Type[run] \in RequiresSource THEN src \in DOMAIN source ELSE src = NoRun
    /\ source' = WithRun(run, src)
    /\ UNCHANGED <<inputs, outcome, tables, decisions, exec, request, clock>>

\* A task_runs row inserted beside the API with a source of its own, as the
\* repository's tests do for DETECT and QUALITY_CTRL: create_task_run takes no
\* source for them, and without one a QUALITY_CTRL run can only fail.
InsertTaskRun(run, src) ==
    /\ Type[run] \notin RequiresSource
    /\ run \notin DOMAIN source
    /\ src \in DOMAIN source
    /\ source' = WithRun(run, src)
    /\ UNCHANGED <<inputs, outcome, tables, decisions, exec, request, clock>>

Edit ==
    /\ edits < MaxEdits
    /\ edits' = edits + 1
    /\ \/ \E f \in Files \ {file} : file' = f /\ UNCHANGED <<rules, dataset, thresholds>>
       \/ \E t \in RuleTables \ {rules} : rules' = t /\ UNCHANGED <<file, dataset, thresholds>>
       \/ \E d \in DatasetConfigs \ {dataset} : dataset' = d /\ UNCHANGED <<file, rules, thresholds>>
       \/ \E t \in Thresholds \ {thresholds} : thresholds' = t /\ UNCHANGED <<file, rules, dataset>>
    /\ UNCHANGED <<source, outcome, tables, decisions, exec, request, clock>>

-----------------------------------------------------------------------------
(* Decisions.                                                              *)

ChangesOf(run) ==
    IF HasRow(remediations, run) THEN RowOf(remediations, run).changes ELSE {}
DecisionsOn(run, change) ==
    {d \in decisions : d.remediation_run_id = run /\ d.remediation_change_id = change}

\* Mutant: the first decision wins.
EarliestDecision(run, change) ==
    CHOOSE d \in DecisionsOn(run, change) :
        \A o \in DecisionsOn(run, change) : d.decision_timestamp <= o.decision_timestamp

\* The decision validation goes by: the latest timestamp, then the largest id.
LatestDecision(run, change) ==
    CHOOSE d \in DecisionsOn(run, change) :
        \A o \in DecisionsOn(run, change) :
            o.decision_timestamp < d.decision_timestamp
            \/ (o.decision_timestamp = d.decision_timestamp /\ o.id <= d.id)

\* What _get_decision_status_map may answer: it orders by timestamp only.
decision_status(run, change) ==
    {d.decision : d \in {x \in DecisionsOn(run, change) :
        \A o \in DecisionsOn(run, change) : o.decision_timestamp <= x.decision_timestamp}}

\* decision_summary of get_task_run_remediation.
decision_summary(run) ==
    LET Count(v) == Cardinality({d \in decisions : d.remediation_run_id = run /\ d.decision = v})
    IN  [pending |-> AtLeastZero(Cardinality(ChangesOf(run)) - Count("approved") - Count("rejected")),
         approved |-> Count("approved"), rejected |-> Count("rejected")]

NoRequest == [run |-> NoRun, pending |-> {}, decision |-> "none", since |-> 0]

\* approve, reject (one change; 409 if it has a decision) and approve-all,
\* reject-all (the changes without one) by a superuser: what is still pending.
PendingFor(run, chosen) == {c \in chosen : DecisionsOn(run, c) = {}}

CheckDecision(u, run, value) ==
    /\ request[u] = NoRequest
    /\ \E chosen \in {{c} : c \in ChangesOf(run)} \union {ChangesOf(run)} :
          /\ PendingFor(run, chosen) # {}
          /\ Cardinality(decisions) + Cardinality(PendingFor(run, chosen)) <= MaxDecisions
          /\ request' = [request EXCEPT ![u] =
                [run |-> run, pending |-> PendingFor(run, chosen), decision |-> value,
                 since |-> clock]]
    /\ UNCHANGED <<inputs, source, outcome, tables, decisions, exec, clock>>

\* _create_decision and step 3 of _bulk_decide: the timestamp is read from the
\* clock between the check and the commit; the id is a fresh uuid.
InsertDecisions(u) ==
    /\ request[u] # NoRequest
    /\ Cardinality(decisions) + Cardinality(request[u].pending) <= MaxDecisions
    /\ \E at \in request[u].since..clock, id \in 1..(Cardinality(Reviewers) + 1) :
          /\ \A d \in decisions : d.remediation_change_id \in request[u].pending => d.id # id
          /\ decisions' = decisions \union
               {[remediation_run_id |-> request[u].run, remediation_change_id |-> c,
                 decision |-> request[u].decision, decision_timestamp |-> at, id |-> id] :
                    c \in request[u].pending}
    /\ request' = [request EXCEPT ![u] = NoRequest]
    /\ UNCHANGED <<inputs, source, outcome, tables, exec, clock>>

Tick ==
    /\ clock < MaxTime
    /\ clock' = clock + 1
    /\ UNCHANGED <<inputs, source, outcome, tables, decisions, exec, request>>

-----------------------------------------------------------------------------
(* Executions.                                                             *)

Idle == [run |-> NoRun, step |-> "idle", held |-> <<>>]

\* The row each handler looks for first: its own, from an earlier execution.
Own(run) ==
    CASE Type[run] = "SYNC"      -> HasRow(profiles, run)
      [] Type[run] = "DETECT"    -> HasRow(detections, run)
      [] Type[run] = "REMEDIATE" -> HasRow(remediations, run)
      [] Type[run] = "VALIDATE"  -> HasRow(validations, run)
      [] OTHER                   -> HasRow(qualityRuns, run)

SourceOf(run) == IF run \in DOMAIN source THEN source[run] ELSE NoRun

\* Steps 4a to 4f of QualityControlHandler: the rows the verdict rests on.
ChainOf(run) ==
    LET validation == RowOf(validations, source[run])
        remediation == RowOf(remediations, validation.remediation_run_id)
        detection == RowOf(detections, SourceOf(remediation.task_run_id))
    IN  [validation |-> validation, remediation |-> remediation, detection |-> detection,
         profile |-> RowOf(profiles, SourceOf(detection.task_run_id))]

ChainResolves(run) ==
    LET remediation == RowOf(validations, source[run]).remediation_run_id
        detect == SourceOf(remediation)
    IN  /\ HasRow(remediations, remediation)
        /\ HasRow(detections, detect)
        /\ HasRow(profiles, SourceOf(detect))

\* What each handler demands of its upstream before it looks for its own row:
\* the row of its source run, whatever became of that run itself.
HasUpstream(run) ==
    CASE Type[run] \in {"SYNC", "DETECT"} -> file # Unreadable
      [] Type[run] = "REMEDIATE" -> HasRow(detections, source[run])
      [] Type[run] = "VALIDATE"  -> HasRow(remediations, source[run])
      [] OTHER                   -> HasRow(validations, source[run])

\* The checks that follow, where execute() has any.
HashMatches(run) == file = RowOf(detections, source[run]).source_sha256

MayProceed(run) ==
    CASE Type[run] = "REMEDIATE" -> file # Unreadable /\ HashMatches(run)
      [] Type[run] = "QUALITY_CTRL" ->
            /\ resolve_threshold(thresholds) # NoThreshold
            /\ validate_threshold_config(resolve_threshold(thresholds))
            /\ ChainResolves(run)
      [] OTHER -> TRUE

\* The snapshot of approved changes ValidationHandler freezes.
ApprovedChanges(run) ==
    {c \in RowOf(remediations, source[run]).changes :
        /\ DecisionsOn(source[run], c) # {}
        /\ LatestDecision(source[run], c).decision = "approved"}

Report(run, result) ==
    outcome' = IF outcome[run] = "none" THEN [outcome EXCEPT ![run] = result] ELSE outcome

Begins(e, run) ==
    /\ exec[e].step = "idle"
    /\ run \in DOMAIN source
    /\ outcome[run] = "none"

\* A PermanentExecutionError: nothing is written, the run fails.
Refuse(e, run) ==
    /\ Begins(e, run)
    /\ ~(HasUpstream(run) /\ (Own(run) \/ MayProceed(run)))
    /\ Report(run, "failed")
    /\ UNCHANGED <<inputs, source, tables, decisions, exec, request, clock>>

\* Mutant: the run is taken for done although it has no row of its own.
FindAlways(e, run) ==
    /\ Begins(e, run)
    /\ HasUpstream(run)
    /\ Report(run, "succeeded")
    /\ UNCHANGED <<inputs, source, tables, decisions, exec, request, clock>>

\* The summary of the existing row is returned.
FindExisting(e, run) ==
    /\ Begins(e, run)
    /\ HasUpstream(run) /\ Own(run)
    /\ Report(run, "succeeded")
    /\ UNCHANGED <<inputs, source, tables, decisions, exec, request, clock>>

Hold(e, run, held) ==
    /\ exec' = [exec EXCEPT ![e] = [run |-> run, step |-> "gathered", held |-> held]]
    /\ UNCHANGED <<inputs, source, outcome, tables, decisions, request, clock>>

GatherFile(e, run) ==
    /\ Begins(e, run)
    /\ Type[run] \in {"SYNC", "DETECT", "REMEDIATE"}
    /\ HasUpstream(run) /\ ~Own(run) /\ MayProceed(run)
    /\ Hold(e, run, [file |-> file])

GatherDecisions(e, run) ==
    /\ Begins(e, run)
    /\ Type[run] = "VALIDATE"
    /\ HasUpstream(run) /\ ~Own(run) /\ MayProceed(run)
    /\ Hold(e, run, [approved |-> ApprovedChanges(run)])

GatherThreshold(e, run) ==
    /\ Begins(e, run)
    /\ Type[run] = "QUALITY_CTRL"
    /\ HasUpstream(run) /\ ~Own(run) /\ MayProceed(run)
    /\ Hold(e, run, [threshold |-> resolve_threshold(thresholds)])

\* build_engine_input
EngineInput(chain, threshold) ==
    [stats |-> EffectiveStats(chain),
     results |-> chain.validation.results,
     total_issues_found |-> chain.detection.total_issues_found,
     thresholds |-> threshold]

Computed(e, row) ==
    /\ exec[e].step = "gathered"
    /\ exec' = [exec EXCEPT ![e] = [run |-> exec[e].run, step |-> "computed", held |-> row]]
    /\ UNCHANGED <<inputs, source, outcome, tables, decisions, request, clock>>

ComputeProfile(e) ==
    /\ exec[e].run \in Runs /\ Type[exec[e].run] = "SYNC"
    /\ exec[e].step = "gathered"
    /\ Computed(e, DataProfile(exec[e].run, exec[e].held.file))

ComputeIssues(e) ==
    /\ exec[e].run \in Runs /\ Type[exec[e].run] = "DETECT"
    /\ exec[e].step = "gathered"
    /\ LET raw == exec[e].held.file
           config == load_column_rules(rules)
       IN  Computed(e, IssueDetectionRun(exec[e].run, raw, config, detect_issues(raw, config)))

ComputeChanges(e) ==
    /\ exec[e].run \in Runs /\ Type[exec[e].run] = "REMEDIATE"
    /\ exec[e].step = "gathered"
    /\ LET raw == exec[e].held.file
           config == load_column_config(rules)
           issues == RowOf(detections, source[exec[e].run]).issues
       IN  Computed(e, RemediationRun(exec[e].run, raw, config, issues,
                                      remediate(Len(raw), issues, config, dataset)))

ComputeResults(e) ==
    /\ exec[e].run \in Runs /\ Type[exec[e].run] = "VALIDATE"
    /\ exec[e].step = "gathered"
    /\ LET approved == exec[e].held.approved
           config == load_validation_config(rules, {c.col : c \in approved})
       IN  \E judged \in JudgedSets(approved) :
              Computed(e, ValidationRun(exec[e].run, config, validate(approved, judged, config)))

\* Mutant: the engine reads the threshold again, the snapshot keeps the first.
ComputeVerdictLate(e) ==
    /\ exec[e].run \in Runs /\ Type[exec[e].run] = "QUALITY_CTRL"
    /\ exec[e].step = "gathered"
    /\ LET chain == ChainOf(exec[e].run) IN
       Computed(e, QualityControlRun(exec[e].run, chain, exec[e].held.threshold,
                     quality_control(EngineInput(chain, resolve_threshold(thresholds)))))

ComputeVerdict(e) ==
    /\ exec[e].run \in Runs /\ Type[exec[e].run] = "QUALITY_CTRL"
    /\ exec[e].step = "gathered"
    /\ LET chain == ChainOf(exec[e].run)
           threshold == exec[e].held.threshold
       IN  Computed(e, QualityControlRun(exec[e].run, chain, threshold,
                                         quality_control(EngineInput(chain, threshold))))

\* Mutant: a later execution replaces the row.
Upserted(table, row) == {r \in table : r.task_run_id # row.task_run_id} \union {row}

\* UNIQUE (task_run_id): the losing INSERT is rolled back, the winner fetched.
Inserted(table, row) == IF HasRow(table, row.task_run_id) THEN table ELSE table \union {row}

\* Mutant: no constraint on validation_run_id.
InsertedForRun(table, row) ==
    IF HasRow(table, row.task_run_id) THEN table ELSE table \union {row}

\* quality_control_runs is unique for the validation run as well.
InsertedVerdict(table, row) ==
    IF \E r \in table : r.validation_run_id = row.validation_run_id THEN table
    ELSE Inserted(table, row)

\* The rows are committed; the engine's own commit that follows may be lost
\* with the worker or its lease.
Commit(e) ==
    /\ exec[e].step = "computed"
    /\ LET run == exec[e].run
           row == exec[e].held
       IN  /\ profiles' = IF Type[run] = "SYNC" THEN Inserted(profiles, row) ELSE profiles
           /\ detections' = IF Type[run] = "DETECT" THEN Inserted(detections, row) ELSE detections
           /\ remediations' = IF Type[run] = "REMEDIATE" THEN Inserted(remediations, row)
                              ELSE remediations
           /\ validations' = IF Type[run] = "VALIDATE" THEN Inserted(validations, row)
                             ELSE validations
           /\ qualityRuns' = IF Type[run] = "QUALITY_CTRL" THEN InsertedVerdict(qualityRuns, row)
                             ELSE qualityRuns
           /\ Report(run, "succeeded") \/ outcome' = outcome
    /\ exec' = [exec EXCEPT ![e] = Idle]
    /\ UNCHANGED <<inputs, source, decisions, request, clock>>

\* The worker dies; what it had not committed is gone.
Die(e) ==
    /\ exec[e].step # "idle"
    /\ exec' = [exec EXCEPT ![e] = Idle]
    /\ UNCHANGED <<inputs, source, outcome, tables, decisions, request, clock>>

-----------------------------------------------------------------------------
Init ==
    /\ file \in Files /\ rules \in RuleTables
    /\ dataset \in DatasetConfigs /\ thresholds \in Thresholds
    /\ edits = 0 /\ clock = 0
    /\ source = <<>>
    /\ outcome = [r \in Runs |-> "none"]
    /\ profiles = {} /\ detections = {} /\ remediations = {}
    /\ validations = {} /\ qualityRuns = {} /\ decisions = {}
    /\ exec = [e \in Executors |-> Idle]
    /\ request = [u \in Reviewers |-> NoRequest]

Execution(e) ==
    \/ \E run \in Runs :
          \/ Refuse(e, run) \/ FindExisting(e, run)
          \/ GatherFile(e, run) \/ GatherDecisions(e, run) \/ GatherThreshold(e, run)
    \/ ComputeProfile(e) \/ ComputeIssues(e) \/ ComputeChanges(e)
    \/ ComputeResults(e) \/ ComputeVerdict(e)
    \/ Commit(e)

Next ==
    \/ \E run \in Runs : \E src \in Sources[run] : CreateTaskRun(run, src) \/ InsertTaskRun(run, src)
    \/ Edit
    \/ Tick
    \/ \E u \in Reviewers, run \in Runs, v \in {"approved", "rejected"} : CheckDecision(u, run, v)
    \/ \E u \in Reviewers : InsertDecisions(u)
    \/ \E e \in Executors : Execution(e) \/ Die(e)

Spec == Init /\ [][Next]_vars

-----------------------------------------------------------------------------
(* Properties.                                                             *)

\* Every variable has its type: runs have sources among the runs created
\* before them, executions and requests hold what their step says
\* (the columns of task_runs and of the five result tables).
TypeOK ==
    /\ edits \in 0..MaxEdits /\ clock \in 0..MaxTime
    /\ DOMAIN source \subseteq Runs
    /\ \A r \in DOMAIN source : source[r] \in DOMAIN source \union {NoRun}
    /\ outcome \in [Runs -> {"none", "succeeded", "failed"}]
    /\ \A e \in Executors : /\ exec[e].step \in {"idle", "gathered", "computed"}
                             /\ exec[e].step # "idle" => exec[e].run \in DOMAIN source
    /\ \A d \in decisions : /\ d.remediation_change_id \in ChangesOf(d.remediation_run_id)
                             /\ d.decision \in {"approved", "rejected"}
                             /\ d.decision_timestamp \in 0..clock

\* However executions of one run overlap, die and are retried, each table holds
\* at most one row for it, and a validation run gets at most one verdict: the
\* unique constraints and the refetch after an IntegrityError.
OneRowPerRun ==
    /\ \A table \in {profiles, detections, remediations, validations, qualityRuns} :
          \A x, y \in table : x.task_run_id = y.task_run_id => x = y
    /\ \A x, y \in qualityRuns : x.validation_run_id = y.validation_run_id => x = y

\* A run the engine recorded as succeeded has left its row.  A QUALITY_CTRL
\* run that lost UNIQUE (validation_run_id) to another run answers with the
\* winner's row, which judges the same validation run.
SuccessMeansRecorded ==
    \A run \in Runs :
        outcome[run] = "succeeded" =>
            \/ \E table \in {profiles, detections, remediations, validations, qualityRuns} :
                  HasRow(table, run)
            \/ /\ Type[run] = "QUALITY_CTRL"
               /\ \E q \in qualityRuns : q.validation_run_id = source[run]

\* A stored verdict can be recomputed at any later time from the rows its
\* snapshot names and the configuration it froze, whatever was edited since.
VerdictIsReproducible ==
    \A q \in qualityRuns :
        LET chain == [validation |-> RowOf(validations, q.validation_run_id),
                      remediation |-> RowOf(remediations, q.remediation_run_id),
                      detection |-> RowOf(detections, q.issue_detection_run_id),
                      profile |-> RowOf(profiles, q.data_profile_id)]
        IN  /\ q.post_remediation_stats = EffectiveStats(chain)
            /\ q.result = quality_control(EngineInput(chain, q.configuration))

\* The status the API shows for a change (latest timestamp, any order within a
\* tie) is the decision validation goes by, unless two decisions tie; and the
\* run's decision summary, which counts decision rows, counts these statuses,
\* unless racing requests decided twice on one change.
StatusAgrees ==
    \A run \in Runs :
        LET changes == ChangesOf(run)
            With(value) == {c \in changes : decision_status(run, c) = {value}}
        IN  /\ \A c \in changes :
                 LET ds == DecisionsOn(run, c) IN
                 (ds # {} /\ Cardinality({d.decision_timestamp : d \in ds}) = Cardinality(ds)) =>
                     decision_status(run, c) = {LatestDecision(run, c).decision}
            /\ (\A c \in changes : Cardinality(DecisionsOn(run, c)) <= 1) =>
                 decision_summary(run) =
                    [pending |-> Cardinality(PendingFor(run, changes)),
                     approved |-> Cardinality(With("approved")),
                     rejected |-> Cardinality(With("rejected"))]

\* No step removes or changes a committed row of the audit trail: the result
\* tables and the decisions only grow.
AuditIsAppendOnly ==
    [][/\ profiles \subseteq profiles' /\ detections \subseteq detections'
       /\ remediations \subseteq remediations' /\ validations \subseteq validations'
       /\ qualityRuns \subseteq qualityRuns' /\ decisions \subseteq decisions']_vars

\* Remediation and validation implement every rule twice.  They agree: an
\* approved proposal passes as long as the configuration of its column is the
\* one it was made under; only the ceiling on results leaves it unjudged.
RulesAgree ==
    \A v \in validations : \A r \in v.results :
        LET made == RowOf(remediations, v.remediation_run_id) IN
        ConfigOf(made.config, r.change.col) = ConfigOf(v.config, r.change.col) =>
            \/ r.outcome = "passed"
            \/ r.outcome = "skipped" /\ Cardinality(v.results) > MaxPersistedResults

\* Every row the handlers build satisfies the CHECK constraints of its table;
\* an INSERT that violates one is raised again and the run can never succeed.
RowsAreLegal ==
    /\ \A r \in detections : ck_issue_detection_runs(r)
    /\ \A r \in remediations : ck_remediation_runs(r)
    /\ \A r \in validations : ck_validation_runs(r)
    /\ \A r \in qualityRuns : ck_quality_control_runs(r)

\* End to end: under a threshold that tolerates no unresolved issue of a
\* severity, a verdict other than FAIL means that every finding of that
\* severity in the scanned bytes was proposed a change for, which a reviewer
\* approved and validation passed, provided detection was not cut short.
PassMeansFixed ==
    \A q \in qualityRuns :
        LET detection == RowOf(detections, q.issue_detection_run_id)
            validation == RowOf(validations, q.validation_run_id)
            Fixed(f) == \E r \in validation.results :
                /\ r.outcome = "passed"
                /\ r.change.row = f.row /\ r.change.col = f.col /\ r.change.type = f.type
                /\ \E d \in DecisionsOn(q.remediation_run_id, r.change) : d.decision = "approved"
            intolerable ==
                (IF q.configuration.max_critical_severity_unresolved = 0 THEN {"CRITICAL"} ELSE {})
                \union (IF q.configuration.max_high_severity_unresolved = 0 THEN {"HIGH"} ELSE {})
        IN  (/\ q.result.release_recommendation # "FAIL"
             /\ detection.total_issues_found = Cardinality(detection.issues)) =>
            \A f \in AllFindings(detection.source_sha256, detection.config) :
                f.severity \in intolerable => Fixed(f)

\* The effective row count never exceeds the rows left once the removals that
\* passed are applied, and is exact unless one row is removed under two rules.
RowsNotOverstated ==
    \A q \in qualityRuns :
        LET profile == RowOf(profiles, q.data_profile_id)
            removals == {c \in Passed(RowOf(validations, q.validation_run_id).results) :
                            c.proposed = Removal}
            removed == {c.row : c \in removals}
            left == profile.row_count - Cardinality(removed)
            counted == q.post_remediation_stats.effective_row_count
        IN  profile.source_sha256 = RowOf(detections, q.issue_detection_run_id).source_sha256 =>
              /\ counted <= left
              /\ Cardinality(removals) = Cardinality(removed) => counted = left

\* api/tasks.py:2193 of the decision summary: the 409 check of approve and reject
\* guarantees at most one decision row per change.  But the check and the INSERT
\* are separate statements, and no constraint backs the check.
OneDecisionPerChange ==
    \A run \in Runs : \A c \in ChangesOf(run) : Cardinality(DecisionsOn(run, c)) <= 1

=============================================================================
