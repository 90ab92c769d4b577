# TLA+ models of the AI Data Operations backend

This directory holds a formal model of the backend under `src/backend/app`: TLA+
modules, the TLC configurations that check them, and proofs checked by TLAPS.
`PROJECT.json` is the index: which definition models which lines, what each run
checks, the hazards the properties are aimed at, and the disagreements found.

## 1. Inventory

The backend is a multi-tenant data pipeline: a FastAPI application, a PostgreSQL
database, a directory of files, and worker processes. The API and the workers
share no memory; everything they tell each other is a row or a file.

| Component | State | Operations | Correct when |
|---|---|---|---|
| Execution engine (`worker/engine.py`, `runner.py`, `reaper.py`) | `task_runs`, `task_run_events`; per worker a claimed batch, a session's copies of rows, a heartbeat thread | claim, heartbeat, complete, retry, reap | each attempt is counted and closed once, an ended run stays ended, late workers are harmless, every run ends |
| Scheduler (`worker/scheduler.py`) | `tasks.schedule_interval_seconds`, `next_run_at` | a pass over due tasks, one transaction per task | one run per due occurrence, missed periods collapse, failing tasks do not block others |
| Task API (`api/tasks.py`) | `tasks`, `task_runs` | create, PATCH, soft delete, trigger | a schedule is only on a SYNC task |
| File-producing handlers (`worker/handlers/{cleaning,standardization,export}.py`) | one file and one run row per TaskRun | compute, write, insert | file and recorded digest agree |
| Approval workflow (`api/tasks.py`) | `status` and decision timestamps of a run row | approve, reject, rollback | the documented state machine |
| Download (`api/tasks.py`, `artifacts/download.py`) | open descriptor, audit row | verify, stream | the reader gets the recorded bytes |
| Retention (`worker/retention.py`) | `output_deleted_at`, audit rows | a pass over decided artifacts | deletes only what is due, records it once, finishes after a crash |
| Issue detection (`detection/`, handler) | `issue_detection_runs`, `issues` | scan a file under column rules | order and ceiling are deterministic, counts are legal |
| Remediation (`remediation/`, handler) | `remediation_runs`, `remediation_changes` | propose at most one change per issue | only for the bytes that were scanned; considered = proposed + skipped |
| Decision queue (`api/tasks.py`) | `remediation_change_decisions` | approve, reject, approve-all, reject-all | one effective decision per change, the same for every reader |
| Validation (`validation/`, handler) | `validation_runs`, `validation_results` | freeze approved changes, judge each again | agrees with remediation; considered = passed + failed + skipped |
| Quality control (`quality/`, handler) | `quality_control_runs`, findings | effective statistics, scores, recommendation | a verdict can be recomputed from what it names; PASS means fixed |
| Cleaning and standardization (`cleaning/`, `standardization/`) | run row, change log, file | rewrite cells | the log replays to the output |
| Matching (`matching/`, handler) | `match_runs`, groups, decisions | exact classes, blocks, scores, union-find | the groups are the classes that links connect |
| Export (`export/`, handler) | `export_runs`, exclusions, file | rebuild groups, leave out duplicates | exactly the first row of every class, three approvals |
| Profiling (`profiling/`, handler) | `data_profiles` | count and type columns | input of cleaning and of quality control |
| Review queue, auth, data sources, metrics | rows | CRUD, read-only queries | see section 7 |

Interactions. The scheduler and the API insert pending `task_runs`; workers claim
them; a handler reads the output file and run row of the stage before it (which
must be approved) and writes its own; users decide on run rows and download
files; retention removes files of decided runs. One worker loop
(`runner.run_forever`) runs a scheduler pass, a claim, the executions, a reaper
pass and a retention pass in turn, and every worker does so concurrently.

What is hard. Workers lose leases while they run; the reaper acts on rows it
selected in an earlier transaction; SQLAlchemy sessions hold copies of rows that
are refreshed at surprising moments; API requests test a status and write it
later; the database and the file system commit separately; any process may die
between two steps; configuration and source files change between the stages that
read them; and every list that is persisted has a ceiling that later stages must
not mistake for the whole. `PROJECT.json` lists each hazard at its line.

## 2. Plan

1. **Done.** `RunLifecycle`, `TaskEngine`, their runs, and `TaskEngineProofs`.
2. **Done.** `Scheduler` and its runs; `Artifacts` and its runs.
3. **Done.** The review pipeline: `Cells`, `IssueRules` and `QualityEngine` (pure
   engines), composed with runs, decisions and configuration in `AuditPipeline`.
4. **Done.** The delivery pipeline: `Preparation` and `Matching` (pure engines),
   composed with files, approvals and edits in `DeliveryPipeline`.
5. **Done.** `RetentionPass`: several artifacts, run types and workers.
6. **Done.** Proofs of the components: `TaskEngineProofs`, `SchedulerProofs`,
   `ArtifactsProofs`, `RetentionPassProofs`; of the review engines and of their
   pipeline: `EngineProofs`, `AuditPipelineProofs`; of the delivery engines and of
   their pipeline: `DeliveryEngineProofs`, `DeliveryPipelineProofs`.

Every safety property the passing runs check is now also a theorem; liveness is
checked only (section 7).

Abstract specifications: `RunLifecycle` for the engine. Matching and
deduplication have reference definitions (`DuplicateClasses`, `Deduplicated`)
that the algorithm is checked against.

## 3. Modules

| Module | What it is |
|---|---|
| `RunLifecycle` | abstract specification: a run is created, attempts start, each ends in a retry, a success or a failure |
| `TaskEngine` | the engine; extends nothing of the project, instantiates `RunLifecycle` |
| `TaskEngineProofs` | theorems about `TaskEngine` |
| `Scheduler` | schedule columns, API requests and scheduler passes |
| `SchedulerProofs` | theorems about `Scheduler` |
| `Artifacts` | one artifact: executions, decisions, downloads, a consuming stage, retention |
| `ArtifactsProofs` | theorems about `Artifacts` |
| `RetentionPass` | the passes of several workers over several artifacts, sharing a budget |
| `RetentionPassProofs` | theorems about `RetentionPass` |
| `Cells` | CSV cells and the functions on them that several engines share |
| `IssueRules` | detection, remediation and validation as pure functions (extends `Cells`) |
| `QualityEngine` | effective statistics, scores, recommendation (extends `IssueRules`) |
| `AuditPipeline` | SYNC, DETECT, REMEDIATE, decisions, VALIDATE, QUALITY_CTRL over their tables (extends `QualityEngine`) |
| `EngineProofs` | lemmas about the engines of `IssueRules` and `QualityEngine` |
| `AuditPipelineProofs` | theorems about the tables of `AuditPipeline`, whatever the engines compute, and about what their rows say of the data |
| `Preparation` | the cleaning and standardization engines (extends `Cells`) |
| `Matching` | the matching and export engines, and the reference definition (extends `Cells`) |
| `DeliveryPipeline` | SYNC, TRANSFORM, STANDARDIZE, MATCH, EXPORT over rows and files (extends both) |
| `DeliveryEngineProofs` | the engines of `Preparation` and `Matching` meet their reference definitions, by induction |
| `DeliveryPipelineProofs` | theorems about the approvals of `DeliveryPipeline`, whatever the engines compute, and about what its results hold |
| `MC...` | model values, instances and bounds for TLC |

Each `Mutant:` (or `Mutated:`) definition is a plausible slip in the operator below
it. It is not used by the specification; replacing that operator by it must break
the property that `PROJECT.json` pairs it with.

### TaskEngine

An action is one database transaction. `runs` is the table; time is two bits of
a row, `expired` (`lease_expires_at < now()`) and `due` (`next_retry_at` passed),
which `LeaseExpires` and `RetryDue` set at any moment. `audit` counts the rows of
`task_run_events` by type and keeps the worker of the last claim and of its
close. A lease token, a fresh uuid4 in the code, is the ordinal of the claim.

A worker goes round `claim -> exec -> run -> reap -> reaping -> reclaim`.
`snap` is the copy of the row in its SQLAlchemy session: `StartExecution` fills
it when `execute_one` reads `task_run.lease_token`. A commit expires loaded
instances, so this reads the row as it is then, not as it was claimed;
`complete_failure` later gets this same copy from the identity map by `db.get`
and decides about the retry from it. Its UPDATE is guarded by token and status
of the current row. Transactions before and after the handler are separate
actions, so everything may happen while it runs. `FailureLeaseLost` follows
Python's rule that an exception raised in one `except` clause is not caught by
another of the same `try`. `locked` in `Claim` and `ReapSelect` stands for the
rows a rival transaction holds and `SKIP LOCKED` passes over.

All runs belong to one task, whose `max_attempts` a PATCH may change at any time.
Runs of different tasks interact only through the queue, which is modelled.

### Scheduler

`run_due_schedules` is one transaction per task: `Select` locks the first due
row, `Fire` advances it and inserts the run, `FireFails` rolls back and excludes
the task for the rest of the pass. `pass[p].now` is read once per pass, as in the
code. A PATCH is two steps, `UpdateTask` (load, apply, validate) and
`CommitUpdate` (the UPDATE of the columns whose value changed, subject to the
CHECK constraint on the two schedule columns). `Poison` are tasks whose
scheduling always raises. A request takes less time than a schedule interval.
`TypeOK` includes `ScheduleConsistent` of every row: a task has a next run exactly
if it has an interval.

### Artifacts

File and row are separate variables. An execution checks for a row, computes,
truncates, writes and commits (`write_bytes` is two steps: other processes can
see the truncated file); it may be abandoned anywhere. `input` is what a handler
would compute now, and users may change it between executions. Decisions are
load-and-test, then commit. A download keeps its descriptor: it follows a rewrite
in place but survives an unlink. Retention holds the row lock from the claim to
the commit and unlinks in between. A decision timestamp is null, inside the
retention window, or past it. The cleaning handler is the one mapped line by
line; standardization and export run the same steps.

A PATCH of `task_type` and one of `schedule_interval_seconds` that overlap can
both validate against the old row and leave a scheduled task that is not SYNC,
which the scheduler then fires (`scheduler.py:17-19` says that cannot be). Two
requests in `Requests` show it; the runs use one. Likewise, in `TaskEngine` a
heartbeat between the reaper's SELECT and UPDATE does not save the run, and
`LeaseLostError` raised while reporting a failure ends the worker
(`FailureLeaseLost`); in `Artifacts` two of approve, reject and rollback that both
pass the status test overwrite each other.

### RetentionPass

A pass goes through the run types in order; `k` is its position. `Claim` selects
and locks the oldest candidate, `Evaluate` unlinks, `Commit` writes
`output_deleted_at` and the event in one transaction and then counts, `Abort` is
the `except Exception` of the loop, `Die` a crash. `due` is what the cutoff lets
the pass see: it is computed once, at `Start`, and artifacts expire later in the
order of their decisions. The lock a claim holds is `claim`, and `Locked` is what
`SKIP LOCKED` passes over. `backlog` is the gauge the pass sets at its end.

### Cells

A cell is what the rules tell apart: a `word` (its stripped, case-folded text),
its casing, white space before and after, and runs of white space inside. A word
represents a class of texts, and small tables say what the parsers (numbers,
dates, phones, e-mail, countries) make of it. Text that no rule distinguishes is
not spelled out, so nothing is claimed about the parsers themselves. A word that a
column type never meets in the instances may be missing from that type's table
(`1234.5` as a time, for one); no property depends on which texts parse.

### IssueRules and QualityEngine

One operator per rule, action, validator and category, under the source's name.
Detection, remediation and validation are written twice in the code, once to
propose and once to judge, and so they are here. `JudgedSets` are the sets of
changes that the result ceiling may let through: two trims of one cell tie in the
sort key, and the database returns them in any order. Scores are exact
fractions; the code's floats differ from them only by rounding.

### Preparation and Matching

An engine of `Preparation` gives every cell the list of values it passes through;
the log has an entry for each step that alters the value (`record`), row by row in
the order of columns (`Log`), and is cut off at its ceiling (`Rewritten`). `Replay`
is the reference: it applies a log to the rows that were read, and yields nothing
if an entry does not find the value it replaces.

`match` decides exact classes first, then pairs of representatives block by block
in the order of blocking keys (`AllDecisions`), and joins rows by a union-find with
ranks and path compression (`Forests`: the forest after each decision). `PathUp` is
the walk to the root, as the least set that holds a node and is closed under
parents. A score is the matched weight, not divided by the total, and thresholds are
in the same unit: `FullScore`, the total weight, stands for the code's 1.0. Weights
are whole numbers; fractions become whole by a common denominator. `DuplicateClasses` and `Deduplicated` are the references. The definitions
use recursive functions and folds, no recursive operators, so that they can be
proved about.

### AuditPipeline

A row's id is the run it is unique for. `execute()` is three steps. `Gather` reads
what the handler reads first, with all its gates: the file, the decisions, or the
threshold. `Compute` reads configuration tables and upstream rows and runs the
engine. `Commit` is the one transaction; on a unique violation the handler
answers with the row that won. Between any two of them users edit, reviewers
decide, and another execution of the same run may do the same. `Commit` may or
may not be followed by the engine's own commit of the outcome, which is why a
finished run can be executed again. A decision request is `CheckDecision` and
`InsertDecisions`: the timestamp is read in between. What the handlers read
(`config`, `loaded`, `source_sha256`) is kept in rows as history.

`create_task_run` requires a source for REMEDIATE and VALIDATE and refuses one for
DETECT and QUALITY_CTRL (`api/tasks.py:379-409`), though the quality-control
handler fails without one and
`docs/module-18-quality-control-engine-design.md:38` demands it; the tests insert
or patch such rows directly. `InsertTaskRun` does the same, since otherwise no
quality-control run could ever succeed.

### DeliveryPipeline

Executions are `Begin` (gates), one action per stage that reads its inputs and
computes, `Write` for stages with a file, and `Commit`. `overlapped` observes
runs two executions of which were in flight together; torn writes are the business
of `Artifacts`. A decision request that tested the status before another changed
it may commit later: `seen` keeps the statuses a row has had, so that `Decide` is
one action. `Purge` is a retention pass seen from here. Users replace the source
file, add and remove mappings and lookup entries, and supersede rule sets. The fields
of a new rule set load in any order (`LoadedAs`): the handler sorts them by
`created_at`, which `func.now()` makes one value per transaction, and then by a random
id, although `matching/types.py:15-22` calls that the order of creation. Between fields
of equal weight this decides which one makes the blocks.

`RowsAreLegal` states the CHECK constraints of `cleaning_runs`,
`standardization_runs`, `match_runs`, `match_groups`, `match_decisions`,
`match_skipped_blocks` and `export_runs`, each in an operator with the prefix of the
constraints' names (`ck_match_runs` and so on). Left out, since the columns are not
modelled: the range of `confidence_score` of cleaning and standardization, that of
`threshold_used` (a copy of the rule set's), `output_file_size_bytes`,
`csv_format_version`, and the tables of changes and exclusions.

The docstring of `standardize()` promises that its output standardizes to itself.
Lookup values an organization enters break that (a value that is itself a key),
and so does a currency amount that keeps its sign; nothing in the program relies
on it and no property states it.

## 4. Runs

| Run | Result | Shows |
|---|---|---|
| `engine_safety` | pass | 2 workers, 2 runs, 2 attempts, batches of 2, a crash: all safety properties and the refinement |
| `engine_liveness` | pass | `EveryRunFinishes` |
| `engine_fencing` | violation | a worker closes another worker's attempt with that worker's token |
| `scheduler_safety` | pass | one run per task and pass, exclusive claims, nothing after a delete |
| `scheduler_liveness` | pass | a failing task does not starve another |
| `artifacts` | pass | file, row, readers and retention of one artifact |
| `artifacts_intact` | violation | a stale execution overwrites a decided artifact |
| `retention` | pass | budget, tallies, exclusions and progress of passes that run at once |
| `audit_flow` | pass | the review pipeline under overlap, crashes, races and edits |
| `audit_data` | pass | the rules of its engines, end to end |
| `audit_decisions` | violation | two reviewers leave two decisions on one change |
| `delivery` | pass | rows, groups, export, change logs and approvals |

The violations are explained under `findings` in `PROJECT.json`, with the
sentence of the repository each one contradicts.

`TokensFence` and `ClosedByOwner` are a pair: a token acts for one attempt only,
but it may be in the hands of a worker that did not make the claim.
`FileMatchesRow` and `ReadersGetRecordedBytes` hold while executions of the
TaskRun do not overlap; `DecidedFileIsIntact` shows what overlap does. It is also
why `ExportIsExact` and `ChangesReplay` except runs whose upstream executions
overlapped. `StatusAgrees` and `OneDecisionPerChange` are a pair as well: with one
decision per change the summary is right, and with two the readers still agree
unless timestamps tie, but two there may be.

Some hazards are covered in part or not at all, and `PROJECT.json` says so with each:
files rewritten by overlapping executions under a reader, an export or a download
(the properties except them, `DecidedFileIsIntact` shows the rewriting); decisions
with equal timestamps; a profile that is older than the file that is cleaned (the
logs replay whatever column types are used); and a rollback that comes after the next
stage has begun (`ExportIsApproved` says that each result was approved at some time,
which is what the gates ensure).

### Bounds

* Engine: two workers are a claimer and a rival; a second run in a batch is what
  waits unheartbeated while the first executes; two attempts have a retry and a
  last attempt; one crash falls at every point. The proofs remove these bounds.
* Engine liveness: one run and two crashes; fairness over two runs multiplies the
  state without adding a way for runs to block each other beyond row locks.
* Scheduler: two tasks, one of which always fails, a batch of two so that the
  budget can run out, an interval of two ticks so that periods can be missed and
  a pass can be older than a period, five ticks for two periods and a late pass.
  The clock stops at `MaxTime`; `NoStarvation` speaks of tasks already due. One
  request at a time.
* Artifacts: two executions, two decisions and two contents are the smallest race
  of each kind; the retention worker repeats, crashes and changes mode freely.
* Retention: three artifacts of two run types, the faulty one the oldest, and a
  budget of two: a pass can end by budget and by lack of candidates, inside and
  between run types. One crash or passing error.
* Audit, flow: one column, a file with one fixable cell and a clean one, so at
  most one change; two executions, two reviewers, one edit (of the file, or of the
  threshold the organization has at first), two instants, two decisions.
  `NextOneWaits` lets a run be created when the one before is finished, while late
  executions of finished runs still overlap with it. That loses no interference: a
  later stage refuses to start before the row it needs exists, and it reads
  nothing of an unfinished run. The two QUALITY_CTRL runs do run at once;
  decisions, clock and other executions rest then, since quality control reads
  none of what they write: its inputs are committed rows.
* Audit, data: two columns and seven files of up to four rows, chosen so that
  every rule, action, validator and category fires and every kind of skip occurs;
  ceilings of four changes and three results and findings are reached. `OneByOne`
  removes the interleavings, which `audit_flow` covers, and confines the edit to
  the time after remediation, where `RulesAgree` needs it.
* Delivery: `OneIsDisturbed` is the same division in one run: the chain over one
  file meets overlapping executions, one edit or purge, four review decisions and
  racing statuses, and every other pair of sixteen files and fourteen
  configurations goes through the stages undisturbed. Blocks of three, two match
  decisions and one exclusion make every ceiling bind; two executions of the
  cleaning and standardization runs are where the next stage reads a file.

The runs of the two pipelines switch deadlock checking off: they end when runs,
decisions and edits are used up. The others check for deadlock.

## 5. Fairness

* Engine: workers loop for ever (`run_forever`), containers are restarted
  (`docker-compose.yml`), handlers return or raise, clocks advance. Claims and
  reaper passes are strongly fair, since a rival's locks may hide rows from some
  passes and the poll interval lets only some iterations reap. Nothing is assumed
  of the heartbeat, of users, or of which outcome an execution has. A handler
  that never returns keeps its lease alive for ever; that is outside the
  assumption.
* Scheduler: passes are started and end, a PATCH commits, a task outside `Poison`
  does not fail every time it is tried. `NoStarvation` needs fewer permanently
  failing tasks than `scheduler_claim_batch_size`: exclusion lasts one pass, so as
  many failing tasks as the budget, always the oldest, use up every pass.
* Artifacts: executions end, the window passes (only when no execution is in
  flight: the window is at least seven days), retention runs in real mode again
  and again, and unlink and commit do not fail every time.
* Retention: workers keep starting passes (`retention_poll_interval_seconds`) and
  go on with the one they are in; no step of a pass waits for another transaction
  (`SKIP LOCKED`). `NoneStarved` needs fewer faulty artifacts than
  `retention_claim_batch_size`, for the reason `NoStarvation` does: the oldest come
  first in every pass.

## 6. Proofs

Every theorem holds for all values of the constants that satisfy the named
assumptions of the module it is about; nothing else is assumed. `PROJECT.json`
lists the theorems with the property of a run that each one states. Two kinds of
assumption are about the model and not the code. A value that stands for absence
is no member of the set it marks the absence from (`"nobody"` is no pass, `missing`
and `partial` no contents, `NoRun` no run). And what a real system has finitely many
of is finite (artifacts, reviewers, the records of a file, the words of `KEYS`). `MaxTime` of the scheduler is at least 1,
because a schedule column holds a time.

### TaskEngine

`TypeOK`, `RowConstraints`, `AttemptsBounded`, `AuditBalanced`,
`ReclaimedOnlyAfterLapse`, `TokensFence`, `TerminalIsFinal`, and that the engine
implements `RunLifecycle`, for every set of workers, number of runs, largest
`max_attempts`, batch size and number of crashes.

None of the properties is inductive: that the reaper needs a lapse, or that a
retry is within bounds, depends on what stale copies and tokens may still do.
`EngineInv` therefore has three parts: the types; `RunInv`, one run's row, trail
and lapse bit in agreement (among others, a running row's token is the number of
its claims, which is its attempt count); and `HeldInv`, what a worker may hold: a
token at most the number of claims, a copy whose attempt count is its token, and
for the reaper a token that, if it still matches, belongs to a lapsed lease.
`Advances` says how a step may move a run (claims only grow, a powerless token
stays powerless), and `HeldStep` shows that whatever others hold stays harmless
under such a step. Each action is then one claim, close, heartbeat or idle step of
runs (`ClaimStep`, `CloseStep`, `OneRun`, `NoRun`) and a change of one worker's
hands (`OneWorker`, `NoWorker`). For the refinement, `SeenStep` lists the kinds of
change of the table an observer can see, and each is a step of `RunLifecycle` or a
stutter.

### Scheduler

`TypeOK`, `OneCatchUpPerPass`, `ClaimIsExclusive` and `NoRunAfterDelete`, for any
tasks, passes, requests, interval and batch size. Of `TypeOK`, the part that interval
and next run are null together rests on the CHECK for the UPDATE of a PATCH, and on
the re-check of the interval under the row lock for a pass.

What could break `OneCatchUpPerPass` is a PATCH that commits between two claims of
one pass and sets `next_run_at` back into the pass's past. `SchedulerInv` rules that
out with two facts that lean on each other: `WriteAhead`, a request under way is
younger than an interval, so the time it will write is still ahead of the clock;
and `FiredBeyond`, what a pass has fired is due only after the pass's own time.
`ClaimHeld` says that a claimed row is locked and still the one that was read. The
proof that a pass moves a row past its own `now` uses only that the interval is
positive; that a request is shorter than an interval is a guard of the clock, and
the theorem depends on it.

### Artifacts

`TypeOK`, `FileMatchesRow`, `ReadersGetRecordedBytes`, `PurgedIsGone`,
`RecordIsImmutable` and `PurgesOnlyExpired`, for any executors, reviewers,
downloads, consumers, retention workers and contents; the second and third as long
as executions of the TaskRun do not overlap (without that they are false, see
section 4).

File and row are committed apart, so `ArtifactInv` says where each process is
between the two: `Unrecorded` (before the row, nobody reviews, reads or consumes),
`Settled` (an expired decision finds every execution over), `Purging` (one retention
transaction has the row, and if it unlinked, the file is gone), and `Alone` (while
`overlapped` is false, one execution is under way, a written file holds its bytes, a
recorded file is intact or was removed, and whoever streams has the recorded bytes
open). `ReadersGetRecordedBytes` needs all four: a reader opened what it verified
before any purge, and no execution can rewrite it in place once the row exists.

### RetentionPass

`TypeOK`, `TalliesMatchEvents` and `OncePerPass`, for any finite set of artifacts
of the three run types, any workers, batch size and number of failures.

Other workers mark artifacts as deleted in the middle of a pass, so `PassOK`
describes one pass relative to sets of expired and of deleted artifacts that may
grow: `Paid` (budget), `Tallied` (counts and events), `Holding` (the artifact in hand
has no event yet) and `Handled` (an artifact with an event is behind the pass, put
aside, or deleted). A step of one worker keeps every other pass because these facts
are monotone in both sets; `Exclusive` (the row locks) is what keeps two workers from
holding one artifact.

### AuditPipeline, the tables

`TypeOK`, `OneRowPerRun`, `SuccessMeansRecorded`, `VerdictIsReproducible` and
`AuditIsAppendOnly` in `AuditPipelineProofs`. The engines are never expanded, so
these hold whatever they compute. `AuditInv` says that ids are unique, that every row
belongs to a run that was created, that an execution which has gathered its inputs
has found its whole chain of rows, and that a row which is computed and not yet
committed is already reproducible. `VerdictIsReproducible` follows since rows are only
added (`Grows`): whatever a chain resolves to, it resolves to for ever.

### AuditPipeline, the data

`RulesAgree`, `PassMeansFixed`, `RowsNotOverstated`, `RowsAreLegal` and `StatusAgrees`
in the second part of `AuditPipelineProofs`, for any files, rule tables, thresholds and ceilings, and any
interleaving of executions, reviewers and edits. `RulesInv` says of every row that it
is what its engine computes from the rows it names and from the configuration it
keeps, and of every execution that it holds such a row or the inputs of one; it is
proved together with `AuditInv`. What the engines compute is in `EngineProofs`:

* `FindingsIdentified`: row, column and type identify a finding. This is what makes
  `issues_considered = proposed + skipped` true, and what lets a finding be traced to
  the change made for it. Each detection rule has a lemma of its own.
* `RemediatedIssues`, with `SoundRemediation`: a proposal is for exactly one issue, and
  the validator of its type accepts it under the same configuration. Here the two
  implementations of every rule meet. It needs that the values a column rule allows
  are values of cells (`ContentAssumption`): a removal proposes no value in the code,
  and in the model a value that no cell has.
* `VerdictCounts`, `AllGraded`, `GradedSets`: a recommendation other than FAIL bounds the
  unresolved issues of a severity by the threshold.

* `RowsPassTheirChecks` (the property `RowsAreLegal`): no INSERT of a result row is
  refused by a CHECK constraint. The counts are cardinalities of sets that divide the
  issues or the changes; the overall score is a weighted mean (`AccumulatedSum`,
  `OverallScoreInRange`) of category scores that each lie between 0 and 1. The weights
  are positive because `validate_threshold_config` stops the run otherwise, and whole
  by `ContentAssumption`: `quality/types.py:142` declares `dict[str, int]`, while the
  validator would also let a fraction pass, which multiplying all the weights by a
  common denominator turns into whole ones with the same mean.

### The delivery engines

`DeliveryEngineProofs` shows that the algorithms compute their reference
definitions, for every file, rule set, lookup table, block size and ceiling.
Induction comes from the least element of a set of naturals (`LeastNatural`, from the
well-foundedness of `<`): a property of a recursive function's values is proved by
looking at the first index where it fails. Folds over sequences (`FlattenSeq`) are
first shown to be such functions (`FlattenIs`).

* Union-find. `Rooted(uf, n, rep, m)` describes a forest by the function `rep` from
  nodes to roots and by ranks that grow strictly along parents and are at most the
  number `m` of joins so far; ranks are what makes every path end (`FindIs`).
  Compression keeps `rep` (`CompressIs`) and a union replaces one root by another
  (`UnionIs`).
* Decisions. `JoinedRowsAreLinked` and `DecisionsAreLinks`: a duplicate decision joins
  rows that are linked, and the decisions together leave no set of rows that a link
  leaves, although only one representative per class of identical rows is compared.
  It needs that scores are symmetric (`ScoresAreSymmetric`), as a block compares a
  pair in one order only.
* `MatchPartitions`: hence the trees are the `DuplicateClasses`. `MatchFindsDuplicates`
  says so of the recorded groups.
* `MatchIsLegal`: counts, sizes and scores of a match are within the CHECK
  constraints. A matched weight is at most the total (`WeightsAreBounded`, by induction
  over the fields), so every decision's score is (`DecisionsAreLegal`), and so are the
  minima that groups and run take as their confidence (`ConfidenceIs`, `LowestIs`).
* `ExportKeepsFirst`: when no group's decisions were cut off (`CanLoadGroups`, a
  cardinality test in the code), the members rebuilt from decisions are the group, so
  what `materialize` keeps is `Deduplicated`.
* `RewrittenIs`: the log of a cell takes it through its values (`CellReplays`), that of
  a row leaves other rows alone (`RowReplays`), and that of a file is theirs in turn
  (`LogReplays`), in whatever order the columns are visited. It is stated for
  any engine of that form; `CleanIs` and `StandardizeIs` apply it.

### DeliveryPipeline

`ExportIsApproved`, for any runs, workers, files and configurations and whatever the
engines compute, and `ResultsAreKept`, which no run checks: what a run recorded
is never recorded again. A gate tests an approval at the start of an execution, and
the row is committed much later, possibly after the approval was rolled back; so
`DeliveryInv` carries `Cleared` (the upstream result has been approved at some time)
from `Begin` to the row, and `History`, by which a row that was rolled back has been
approved before.

`RowsAreLegal`, `GroupsAreComponents`, `ExportIsExact` and `ChangesReplay` follow from
`DataInv`, proved on top of `DeliveryInv`. None of them is inductive: an execution
computes from a file that another execution may rewrite and retention may remove
before the row is committed, and the property relates that row to a row further up.
So `Sound` says of every result, recorded or still in a worker's hands, that it is
what the engine makes of what was read, and that what was read is what the run above
recorded unless that run's executions overlapped; `Readable` says that every file
between the stages has whole rows, whatever overlapped; and `Alone` says of a run whose
executions did not overlap that one worker at most has it, none after its row, and that
its file is the recorded one or gone. `Sound` lasts because rows are never
recorded again (`RowsMade`) and overlaps are not forgotten (`OverlapsKept`). The
invariant was model-checked on the instance of `delivery` before it was proved.

## 7. What is only model-checked, and what is not modelled

Liveness (`EveryRunFinishes`, `NoStarvation`, `EventuallyPurged`, `NoneStarved`) is
out of the prover's reach and stays with TLC. The three violations are TLC's
counterexamples. The theorems speak of the models: what the tables of words in `Cells`
and `Preparation` say of texts is taken from the code and not proved.

Not modelled:

* Authentication and organizations: every query is scoped by organization, and
  the models look at one.
* Data sources and credentials, and the CRUD of column rules, dataset configs and
  thresholds: single-row writes. Their contents enter the models as edits of
  whole tables.
* The review queue: read-only SQL with keyset pagination over rows the modelled
  components write.
* Metrics (but for the retention backlog), logging, schemas, settings.
* Texts: what the date, phone, number and e-mail parsers accept beyond the words
  of the tables, CSV dialects and encodings, size limits, samples of profiles,
  float rounding of scores.
* The audit rows of downloads, and artifact paths.
* The switch that turns retention off, which makes a pass return at once.

A request refused with 404 or 409 before it writes changes nothing and is no
action.
