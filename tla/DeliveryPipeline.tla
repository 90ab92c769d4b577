--------------------------- MODULE DeliveryPipeline ---------------------------
(***************************************************************************)
(* From a CSV source to the deduplicated file: CsvProfilingHandler,        *)
(* CleaningHandler, StandardizationHandler, MatchHandler and ExportHandler *)
(* as workers execute them, the approvals between the stages, the          *)
(* organization's configuration and the purging of output files.           *)
(*                                                                         *)
(* The content of a file is the sequence of its records, which is what     *)
(* _serialize_csv writes and load_csv reads; Artifacts models torn writes. *)
(* A request or an execution that is refused changes nothing and is not    *)
(* modelled.                                                               *)
(***************************************************************************)
EXTENDS Preparation, Matching

CONSTANTS
    Runs, Type, Source,      \* TaskRuns, their task types and source_task_run_id
    Workers,
    NoRun,
    Inputs,                  \* contents the source file may have
    MappingChoices,          \* [scope, column, type] a user may declare
    LookupChoices,           \* [field_type, key, value] a user may add
    RuleSetChoices,          \* [scope, rule_set] a user may create
    InitialConfigs,          \* [mappings, lookups, rules] to begin with
    MaxAttempts,             \* bound: run -> its executions
    MaxReviews,              \* bound: decisions of reviewers
    MaxEdits                 \* bound: changes of source file or configuration

Stages == {"SYNC", "TRANSFORM", "STANDARDIZE", "MATCH", "EXPORT"}
Scopes == {"org_wide", "data_source"}

\* The stage whose result each stage consumes.
Upstream == [TRANSFORM |-> "SYNC", STANDARDIZE |-> "TRANSFORM", MATCH |-> "STANDARDIZE",
             EXPORT |-> "MATCH"]

ASSUME DeliveryAssumption ==
    /\ NoRun \notin Runs
    /\ Type \in [Runs -> Stages]
    /\ \A run \in Runs : IF Type[run] = "SYNC" THEN Source[run] = NoRun
                         ELSE Source[run] \in Runs /\ Type[Source[run]] = Upstream[Type[run]]
    /\ MaxAttempts \in [Runs -> Nat] /\ MaxReviews \in Nat /\ MaxEdits \in Nat
    /\ \A file \in Inputs : file.rows \in Seq(Seq(Fields)) /\ file.width \in Nat
    /\ \A c \in InitialConfigs : c.rules \in [Scopes -> [rule_set : RuleSets, version : Nat]]
    /\ \A x \in RuleSetChoices : x.rule_set \in RuleSets

VARIABLES
    input,          \* the source file
    mappings,       \* active StandardizationColumnMapping rows
    lookups,        \* active StandardizationLookupEntry rows
    rules,          \* scope -> active MatchRuleSet and its version
    rows,           \* run -> its result row
    files,          \* run -> the file at output_file_path
    exec,           \* worker -> its progress in execute()
    attempts,       \* run -> executions begun
    reviews, edits, \* what the bounds have left
    overlapped      \* observation: runs two executions of which were in flight at once

vars == <<input, mappings, lookups, rules, rows, files, exec, attempts, reviews, edits, overlapped>>
config == <<mappings, lookups, rules>>

-----------------------------------------------------------------------------
(* Configuration, as the handlers load it.                                  *)

\* A mapping for the data source wins over an organization-wide one.
load_column_overrides ==
    [c \in Columns |->
       LET In(scope) == {x.type : x \in {y \in mappings : y.scope = scope /\ y.column = c}}
           best == IF In("data_source") # {} THEN In("data_source") ELSE In("org_wide")
       IN  IF best = {} THEN "none" ELSE CHOOSE t \in best : TRUE]

load_lookup_tables ==
    LET Table(t) == [k \in {x.key : x \in {y \in lookups : y.field_type = t}} |->
                       (CHOOSE x \in lookups : x.field_type = t /\ x.key = k).value]
    IN  [scoped |-> [t \in {x.field_type : x \in lookups} \ {"none"} |-> Table(t)],
         global |-> Table("none")]

NoActive == [rule_set |-> NoRuleSet, version |-> 0]

load_rule_set == IF rules["data_source"] # NoActive THEN rules["data_source"] ELSE rules["org_wide"]

-----------------------------------------------------------------------------
(* Result rows.  seen keeps every status a row has had: a request that      *)
(* tested the status before another one changed it may still commit.        *)

NoRow == [status |-> "none", seen |-> {}, data |-> <<>>]
NewRow(data) == [status |-> "pending_review", seen |-> {"pending_review"}, data |-> data]
HasRow(run) == rows[run].status # "none"

Missing == [there |-> FALSE, rows |-> <<>>, width |-> 0, reserved |-> FALSE]

\* An output file has the header of the file it was made from.
Output(content, from) == [there |-> TRUE, rows |-> content, width |-> from.width, reserved |-> from.reserved]

DataProfile(file) ==
    [width |-> file.width, types |-> [c \in Columns |-> dominant_type(load_csv(file.rows), c)]]

\* loaded is an observation: the rows the execution read.
CleaningRun(file, profile) ==
    LET result == clean(load_csv(file.rows), profile.types) IN
    [loaded |-> load_csv(file.rows), output |-> Output(result.rows, file),
     row_count |-> Len(result.rows),
     duplicate_row_count |-> Len(result.rows) - Cardinality({result.rows[i] : i \in DOMAIN result.rows}),
     total_changes_count |-> result.total_changes_count, changes |-> result.changes]

StandardizationRun(file, overrides, tables) ==
    LET result == standardize(load_csv(file.rows), classify_columns(overrides), tables) IN
    [loaded |-> load_csv(file.rows), output |-> Output(result.rows, file),
     row_count |-> Len(result.rows),
     total_changes_count |-> result.total_changes_count, changes |-> result.changes]

MatchRun(file, active) ==
    [loaded |-> load_csv(file.rows), rule_set |-> active.rule_set,
     rule_set_version |-> active.version, result |-> match(load_csv(file.rows), active.rule_set)]

ExportRun(file, result) ==
    LET out == materialize(load_csv(file.rows), load_groups(result)) IN
    [output |-> Output(out.rows, file), source_row_count |-> Len(file.rows),
     row_count |-> Len(out.rows), output_column_count |-> file.width + 2,
     excluded_row_count |-> out.excluded_row_count,
     exclusions |-> out.exclusions,
     duplicate_groups_materialized_count |-> Cardinality(result.groups)]

-----------------------------------------------------------------------------
(* Executions.                                                              *)

Idle == [run |-> NoRun, at |-> "idle", data |-> <<>>]

Init ==
    /\ input \in Inputs
    /\ \E c \in InitialConfigs : mappings = c.mappings /\ lookups = c.lookups /\ rules = c.rules
    /\ rows = [run \in Runs |-> NoRow]
    /\ files = [run \in Runs |-> Missing]
    /\ exec = [w \in Workers |-> Idle]
    /\ attempts = [run \in Runs |-> 0]
    /\ reviews = 0
    /\ edits = 0
    /\ overlapped = {}

\* Mutant: a result nobody rejected is good enough.
MayProceedUnlessRejected(run) ==
    CASE Type[run] = "SYNC" -> TRUE
      [] Type[run] = "TRANSFORM" -> HasRow(Source[run])
      [] OTHER -> HasRow(Source[run]) /\ rows[Source[run]].status # "rejected"

\* The gates of execute(): a profile, or an approved result of the stage before.
MayProceed(run) ==
    CASE Type[run] = "SYNC" -> TRUE
      [] Type[run] = "TRANSFORM" -> HasRow(Source[run])
      [] OTHER -> HasRow(Source[run]) /\ rows[Source[run]].status = "approved"

\* A run with a row returns "already exists".
Begin(w, run) ==
    /\ exec[w] = Idle
    /\ attempts[run] < MaxAttempts[run]
    /\ MayProceed(run)
    /\ ~HasRow(run)
    /\ exec' = [exec EXCEPT ![w] = [run |-> run, at |-> "began", data |-> <<>>]]
    /\ attempts' = [attempts EXCEPT ![run] = @ + 1]
    /\ overlapped' = IF \E v \in Workers : exec[v].run = run THEN overlapped \union {run} ELSE overlapped
    /\ UNCHANGED <<input, config, rows, files, reviews, edits>>

Began(w, type) == exec[w].at = "began" /\ Type[exec[w].run] = type

Computed(w, next, data) ==
    /\ exec' = [exec EXCEPT ![w] = [run |-> @.run, at |-> next, data |-> data]]
    /\ UNCHANGED <<input, config, rows, files, attempts, reviews, edits, overlapped>>

\* The profile of the source file.  Bound: a file of another width is never
\* profiled.
Profile(w) ==
    /\ Began(w, "SYNC")
    /\ input.there /\ input.width = Width
    /\ Computed(w, "written", DataProfile(input))

\* The source is read again, with the column types of the profile; another
\* number of columns is refused.
Clean(w) ==
    LET profile == rows[Source[exec[w].run]].data IN
    /\ Began(w, "TRANSFORM")
    /\ input.there /\ input.width = profile.width
    /\ Computed(w, "computed", CleaningRun(input, profile))

\* A file that is gone raises, here and below.
Standardize(w) ==
    LET file == files[Source[exec[w].run]] IN
    /\ Began(w, "STANDARDIZE")
    /\ file.there
    /\ Computed(w, "computed", StandardizationRun(file, load_column_overrides, load_lookup_tables))

\* A match writes no file.
Match(w) ==
    LET file == files[Source[exec[w].run]] IN
    /\ Began(w, "MATCH")
    /\ file.there
    /\ Computed(w, "written", MatchRun(file, load_rule_set))

\* The file that was matched is read again: only the number of its rows is
\* compared.  A header with a reserved column and a group whose decisions were
\* cut off are refused.
Export(w) ==
    LET matched == rows[Source[exec[w].run]].data
        file == files[Source[Source[exec[w].run]]]
    IN  /\ Began(w, "EXPORT")
        /\ file.there
        /\ Len(file.rows) = matched.result.row_count
        /\ ~file.reserved
        /\ CanLoadGroups(matched.result)
        /\ Computed(w, "computed", ExportRun(file, matched.result))

\* output_path.write_bytes
Write(w) ==
    /\ exec[w].at = "computed"
    /\ files' = [files EXCEPT ![exec[w].run] = exec[w].data.output]
    /\ exec' = [exec EXCEPT ![w] = [run |-> @.run, at |-> "written", data |-> @.data]]
    /\ UNCHANGED <<input, config, rows, attempts, reviews, edits, overlapped>>

\* On a unique violation the handler takes the row that is there.
Commit(w) ==
    /\ exec[w].at = "written"
    /\ rows' = IF HasRow(exec[w].run) THEN rows
               ELSE [rows EXCEPT ![exec[w].run] = NewRow(exec[w].data)]
    /\ exec' = [exec EXCEPT ![w] = Idle]
    /\ UNCHANGED <<input, config, files, attempts, reviews, edits, overlapped>>

\* The worker dies or the handler raises; what it has written stays.
Die(w) ==
    /\ exec[w] # Idle
    /\ exec' = [exec EXCEPT ![w] = Idle]
    /\ UNCHANGED <<input, config, rows, files, attempts, reviews, edits, overlapped>>

-----------------------------------------------------------------------------
(* Reviewers and retention.                                                 *)

StatusBefore(status) == IF status = "rolled_back" THEN "approved" ELSE "pending_review"

\* approve, reject and rollback.
Decide(run, status) ==
    /\ Type[run] # "SYNC"
    /\ reviews < MaxReviews
    /\ StatusBefore(status) \in rows[run].seen
    /\ rows[run].status # status
    /\ rows' = [rows EXCEPT ![run] = [status |-> status, seen |-> @.seen \union {status}, data |-> @.data]]
    /\ reviews' = reviews + 1
    /\ UNCHANGED <<input, config, files, exec, attempts, edits, overlapped>>

\* A retention pass removes the file of a decided run.
Purge(run) ==
    /\ Type[run] \in {"TRANSFORM", "STANDARDIZE", "EXPORT"}
    /\ rows[run].status \in {"approved", "rejected", "rolled_back"}
    /\ files[run].there
    /\ edits < MaxEdits
    /\ edits' = edits + 1
    /\ files' = [files EXCEPT ![run] = Missing]
    /\ UNCHANGED <<input, config, rows, exec, attempts, reviews, overlapped>>

-----------------------------------------------------------------------------
(* Users change the source file and the configuration.                      *)

edit == <<rows, files, exec, attempts, reviews, overlapped>>

ReplaceSource(file) ==
    /\ input # file
    /\ input' = file
    /\ UNCHANGED <<config, edit>>

\* A second active mapping of a column in one scope is a conflict.
create_standardization_column_mapping(x) ==
    /\ ~\E y \in mappings : y.scope = x.scope /\ y.column = x.column
    /\ mappings' = mappings \union {x}
    /\ UNCHANGED <<input, lookups, rules, edit>>

delete_standardization_column_mapping(x) ==
    /\ x \in mappings
    /\ mappings' = mappings \ {x}
    /\ UNCHANGED <<input, lookups, rules, edit>>

create_standardization_lookup_entry(x) ==
    /\ ~\E y \in lookups : y.field_type = x.field_type /\ y.key = x.key
    /\ lookups' = lookups \union {x}
    /\ UNCHANGED <<input, mappings, rules, edit>>

delete_standardization_lookup_entry(x) ==
    /\ x \in lookups
    /\ lookups' = lookups \ {x}
    /\ UNCHANGED <<input, mappings, rules, edit>>

\* The handler loads the fields of a rule set by created_at, which one INSERT
\* transaction gives all of them, and then by a random id: in any order.
LoadedAs(rs) ==
    {[rs EXCEPT !.fields = [k \in DOMAIN rs.fields |-> rs.fields[order[k]]]] :
        order \in Bijection(DOMAIN rs.fields, DOMAIN rs.fields)}

\* The new rule set supersedes the active one of its scope.
create_match_rule_set(scope, rs) ==
    /\ rs.review_threshold < rs.duplicate_threshold
    /\ rs.fields # <<>>
    /\ \E loaded \in LoadedAs(rs) :
          rules' = [rules EXCEPT ![scope] = [rule_set |-> loaded, version |-> @.version + 1]]
    /\ UNCHANGED <<input, mappings, lookups, edit>>

UserEdits ==
    /\ edits < MaxEdits
    /\ edits' = edits + 1
    /\ \/ \E file \in Inputs : ReplaceSource(file)
       \/ \E x \in MappingChoices : create_standardization_column_mapping(x)
       \/ \E x \in mappings : delete_standardization_column_mapping(x)
       \/ \E x \in LookupChoices : create_standardization_lookup_entry(x)
       \/ \E x \in lookups : delete_standardization_lookup_entry(x)
       \/ \E x \in RuleSetChoices : create_match_rule_set(x.scope, x.rule_set)

Step(w) ==
    \/ \E run \in Runs : Begin(w, run)
    \/ Profile(w) \/ Clean(w) \/ Standardize(w) \/ Match(w) \/ Export(w)
    \/ Write(w) \/ Commit(w) \/ Die(w)

Next ==
    \/ \E w \in Workers : Step(w)
    \/ \E run \in Runs, status \in {"approved", "rejected", "rolled_back"} : Decide(run, status)
    \/ \E run \in Runs : Purge(run)
    \/ UserEdits

Spec == Init /\ [][Next]_vars

-----------------------------------------------------------------------------
(* Properties.                                                              *)

RowsOf(type) == {run \in Runs : Type[run] = type /\ HasRow(run)}

\* The CHECK constraints of cleaning_runs and standardization_runs, but for the
\* range of confidence_score: it is the least of constants of the rules.
ck_cleaning_runs(d) ==
    /\ d.row_count >= 0
    /\ d.total_changes_count >= 0
    /\ d.duplicate_row_count >= 0

ck_standardization_runs(d) == d.row_count >= 0 /\ d.total_changes_count >= 0

\* The CHECK constraints of match_runs.  A confidence is a score: 0..1 is from
\* no matched weight to all of it.
ck_match_runs(m, full) ==
    /\ m.row_count >= 0
    /\ m.total_comparisons_count >= 0
    /\ m.duplicate_group_count >= 0
    /\ m.duplicate_pairs_count >= 0
    /\ m.ambiguous_pairs_count >= 0
    /\ m.skipped_block_count >= 0
    /\ m.confidence_score \in 0..full

\* Those of its match_groups, match_decisions (but for the range of
\* threshold_used, a copy of the rule set's) and match_skipped_blocks.
ck_match_groups(m, full) ==
    \A g \in m.groups : g.record_count >= 2 /\ g.confidence_score \in 0..full
ck_match_decisions(m, full) ==
    \A k \in DOMAIN m.decisions :
        /\ m.decisions[k].a < m.decisions[k].b
        /\ m.decisions[k].total_score \in 0..full
        /\ m.decisions[k].decision \in {"duplicate", "ambiguous"}
ck_match_skipped_blocks(m) == \A b \in m.skipped_blocks : b.block_size > 0

\* The CHECK constraints of export_runs, but for the size of the file in bytes
\* and csv_format_version, a constant.
ck_export_runs(d) ==
    /\ d.source_row_count >= 0
    /\ d.row_count >= 0
    /\ d.row_count <= d.source_row_count
    /\ d.excluded_row_count >= 0
    /\ d.excluded_row_count = d.source_row_count - d.row_count
    /\ d.duplicate_groups_materialized_count >= 0
    /\ d.output_column_count >= 1

\* Every row has a status of the approval state machine and satisfies the CHECK
\* constraints of its table stated above, whatever was read and however
\* executions overlapped: scores stay between 0 and 1 for any weights, a pair
\* is in row order, a group has two rows, and an export counts the rows it
\* leaves out whether or not their exclusions were persisted.  A row that fails
\* a CHECK is never inserted: its run fails at the last step of every attempt.
RowsAreLegal ==
    /\ \A run \in Runs : rows[run].status \in
         {"none", "pending_review", "approved", "rejected", "rolled_back"}
    /\ \A run \in RowsOf("TRANSFORM") : ck_cleaning_runs(rows[run].data)
    /\ \A run \in RowsOf("STANDARDIZE") : ck_standardization_runs(rows[run].data)
    /\ \A run \in RowsOf("MATCH") :
         LET m == rows[run].data.result
             full == FullScore(rows[run].data.rule_set)
         IN  /\ ck_match_runs(m, full) /\ ck_match_groups(m, full)
             /\ ck_match_decisions(m, full) /\ ck_match_skipped_blocks(m)
    /\ \A run \in RowsOf("EXPORT") : ck_export_runs(rows[run].data)

\* The groups a match run records are the classes of rows that exact equality
\* and the rule set's duplicate pairs connect, directly or through other rows,
\* although match() compares one representative per set of identical rows,
\* block by block, and joins them by union-find.
GroupsAreComponents ==
    \A run \in RowsOf("MATCH") :
        LET d == rows[run].data IN
        {<<g.canonical_row_index, g.record_count>> : g \in d.result.groups}
          = {<<Smallest(c), Cardinality(c)>> :
               c \in {x \in DuplicateClasses(d.loaded, d.rule_set) : Cardinality(x) >= 2}}

\* An export, which reconstructs the groups from the persisted decisions and
\* reads the standardized file anew, holds exactly the first row of every class
\* of duplicates in the file that was matched, under the rule set in force at
\* the time, in order, provided no two executions of the standardization
\* overlapped.
ExportIsExact ==
    \A run \in RowsOf("EXPORT") :
        LET matched == rows[Source[run]].data IN
        Source[Source[run]] \notin overlapped =>
            rows[run].data.output.rows = Deduplicated(matched.loaded, matched.rule_set)

\* The audit trail explains the result: unless a log was cut off at its
\* ceiling or executions of the cleaning overlapped, applying the logged
\* cleaning changes and then the logged standardization changes, each to the
\* value it says it replaces, turns the source rows into the standardized file.
ChangesReplay ==
    \A run \in RowsOf("STANDARDIZE") :
        LET cleaned == rows[Source[run]].data
            standardized == rows[run].data
            Complete(d) == Len(d.changes) = d.total_changes_count
        IN  Complete(cleaned) /\ Complete(standardized) /\ Source[run] \notin overlapped =>
              Replay(Replay(cleaned.loaded, cleaned.changes), standardized.changes)
                = standardized.output.rows

\* Nothing is exported without three approvals: the cleaning, standardization
\* and match results an export descends from were each approved at some time,
\* whatever reviewers and late executions did in between.
ExportIsApproved ==
    \A run \in RowsOf("EXPORT") :
        LET m == Source[run]
            z == Source[m]
        IN  \A r \in {m, z, Source[z]} : "approved" \in rows[r].seen

=============================================================================
