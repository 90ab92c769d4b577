------------------------------ MODULE Artifacts -----------------------------
(***************************************************************************)
(* One output artifact of the pipeline, from the handler that produces it  *)
(* to the retention pass that deletes it: the file <task_run_id>.csv and   *)
(* the row of cleaning_runs, standardization_runs or export_runs (the      *)
(* three differ only in table and directory) that records its SHA-256.     *)
(*                                                                         *)
(* The database and the file system commit separately.  Handlers write the *)
(* file before they insert the row; retention unlinks the file before it   *)
(* marks the row.  Four kinds of actors share the artifact: the workers    *)
(* that execute the TaskRun (two at once when a lease lapsed, see          *)
(* TaskEngine), the users who decide on it, the users who download it and  *)
(* the handlers of the next pipeline stage, and the retention passes.      *)
(*                                                                         *)
(* A request that is refused changes nothing and is not modelled.          *)
(***************************************************************************)
EXTENDS Integers

CONSTANTS
    Executors,      \* workers that may execute the TaskRun
    Reviewers,      \* approve, reject and rollback requests
    Downloads,      \* download requests
    Consumers,      \* executions of the next stage on this artifact
    Purgers,        \* workers that run retention passes
    Contents,       \* output bytes a handler may compute
    Modes,          \* values of output_retention_dry_run in use
    MaxAttempts     \* bound: executions of the TaskRun

ASSUME ArtifactsAssumption ==
    /\ MaxAttempts \in Nat \ {0}
    /\ Modes \subseteq BOOLEAN
    /\ Contents # {}
    /\ {"missing", "partial"} \cap Contents = {}

Missing == "missing"        \* no file at output_file_path
Partial == "partial"        \* opened for writing and truncated
FileStates == Contents \cup {Missing, Partial}

Decisions == {"approved", "rejected", "rolled_back"}    \* _TERMINAL_STATUSES
Stamps == {"null", "fresh", "old"}  \* a decision timestamp against the cutoff

VARIABLES
    input,          \* the output bytes a handler would compute now
    file,           \* what is at output_file_path
    row,            \* the run row
    exec,           \* executor -> its progress in execute()
    attempts,       \* executions started
    review,         \* reviewer -> the transition it is about to commit
    purge,          \* purger -> the transaction it holds on the row
    download,       \* download -> its progress
    consume,        \* consumer -> its progress
    overlapped,     \* observation: two executions were ever in flight at once
    purges,         \* observation: real purges recorded in the audit table
    read            \* observation: bytes given to downloads and consumers

vars == <<input, file, row, exec, attempts, review, purge, download, consume,
          overlapped, purges, read>>

Idle == "idle"

RunRow == [exists : BOOLEAN, sha : Contents,
           status : Decisions \cup {"pending_review"},
           at : [Decisions -> Stamps], deleted : BOOLEAN]

NotYet == [exists |-> FALSE, sha |-> CHOOSE c \in Contents : TRUE,
           status |-> "pending_review", at |-> [d \in Decisions |-> "null"],
           deleted |-> FALSE]

ExecStates == [at : {Idle, "checked", "computed", "truncated", "written"},
               bytes : Contents \cup {Missing}]
PurgeStates == [at : {Idle, "claimed", "acted"}, dry : BOOLEAN, gone : BOOLEAN]

\* fd is what the open descriptor reads; it follows the file while linked.
DownloadStates == [at : {Idle, "started", "streaming"}, linked : BOOLEAN,
                   fd : FileStates]

NotExecuting == [at |-> Idle, bytes |-> Missing]
NotPurging == [at |-> Idle, dry |-> FALSE, gone |-> FALSE]
NotDownloading == [at |-> Idle, linked |-> FALSE, fd |-> Missing]

Init ==
    /\ input \in Contents
    /\ file = Missing
    /\ row = NotYet
    /\ exec = [e \in Executors |-> NotExecuting]
    /\ attempts = 0
    /\ review = [u \in Reviewers |-> Idle]
    /\ purge = [g \in Purgers |-> NotPurging]
    /\ download = [d \in Downloads |-> NotDownloading]
    /\ consume = [c \in Consumers |-> Idle]
    /\ overlapped = FALSE
    /\ purges = 0
    /\ read = {}

\* The row is locked while a purge transaction holds it FOR UPDATE.
Locked == \E g \in Purgers : purge[g].at # Idle

-----------------------------------------------------------------------------
(***************************************************************************)
(* The handler: CleaningHandler, StandardizationHandler, ExportHandler.    *)
(***************************************************************************)
execVars == <<input, review, purge, consume, purges, read>>

\* A source file, a column mapping, a lookup entry: what the handler computes
\* depends on state that users may change between two executions.
InputChanges(c) ==
    /\ input # c
    /\ input' = c
    /\ UNCHANGED <<file, row, exec, attempts, review, purge, download, consume,
                   overlapped, purges, read>>

\* No run row exists for this TaskRun.  With a row the execution returns
\* "already exists" and changes nothing.
CheckExisting(e) ==
    /\ exec[e].at = Idle
    /\ attempts < MaxAttempts
    /\ ~row.exists
    /\ attempts' = attempts + 1
    /\ exec' = [exec EXCEPT ![e].at = "checked"]
    /\ overlapped' = (overlapped \/ \E f \in Executors : exec[f].at # Idle)
    /\ UNCHANGED <<file, row, download, execVars>>

\* Mutated: the handler goes on without having loaded its input.
ComputeNothing(e) ==
    /\ exec[e].at = "checked"
    /\ exec' = [exec EXCEPT ![e] = [at |-> "computed", bytes |-> Missing]]
    /\ UNCHANGED <<file, row, attempts, download, overlapped, execVars>>

\* load_csv, the engine and _serialize_csv.
Compute(e) ==
    /\ exec[e].at = "checked"
    /\ exec' = [exec EXCEPT ![e] = [at |-> "computed", bytes |-> input]]
    /\ UNCHANGED <<file, row, attempts, download, overlapped, execVars>>

\* write_bytes keeps the inode of an existing file, so descriptors that are
\* open on it see the change.
Rewritten(content) ==
    [d \in Downloads |->
        IF download[d].linked THEN [download[d] EXCEPT !.fd = content]
                              ELSE download[d]]

Truncate(e) ==
    /\ exec[e].at = "computed"
    /\ file' = Partial
    /\ download' = Rewritten(Partial)
    /\ exec' = [exec EXCEPT ![e].at = "truncated"]
    /\ UNCHANGED <<row, attempts, overlapped, execVars>>

WriteBytes(e) ==
    /\ exec[e].at = "truncated"
    /\ file' = exec[e].bytes
    /\ download' = Rewritten(exec[e].bytes)
    /\ exec' = [exec EXCEPT ![e].at = "written"]
    /\ UNCHANGED <<row, attempts, overlapped, execVars>>

\* Mutated: an upsert instead of the unique constraint.
Upserted(bytes) ==
    IF row.exists THEN [row EXCEPT !.sha = bytes]
                  ELSE [NotYet EXCEPT !.exists = TRUE, !.sha = bytes]

\* INSERT; on a unique violation the handler takes the row that is there.
Inserted(bytes) ==
    IF row.exists THEN row ELSE [NotYet EXCEPT !.exists = TRUE, !.sha = bytes]

\* Mutated: the row is committed before the file is written.
CommitRunEarly(e) ==
    /\ exec[e].at \in {"computed", "written"}
    /\ row' = Inserted(exec[e].bytes)
    /\ exec' = IF exec[e].at = "written"
               THEN [exec EXCEPT ![e] = NotExecuting] ELSE exec
    /\ UNCHANGED <<file, attempts, download, overlapped, execVars>>

CommitRun(e) ==
    /\ exec[e].at = "written"
    /\ row' = Inserted(exec[e].bytes)
    /\ exec' = [exec EXCEPT ![e] = NotExecuting]
    /\ UNCHANGED <<file, attempts, download, overlapped, execVars>>

\* An exception or the death of the worker: the file stays as it is.
Abandon(e) ==
    /\ exec[e].at # Idle
    /\ exec' = [exec EXCEPT ![e] = NotExecuting]
    /\ UNCHANGED <<file, row, attempts, download, overlapped, execVars>>

-----------------------------------------------------------------------------
(***************************************************************************)
(* approve, reject, rollback: the request loads the row, tests its status, *)
(* and later commits an UPDATE by primary key.                             *)
(***************************************************************************)
From(decision) == IF decision = "rolled_back" THEN "approved"
                                              ELSE "pending_review"

LoadForReview(u, decision) ==
    /\ review[u] = Idle
    /\ row.exists
    /\ row.status = From(decision)
    /\ review' = [review EXCEPT ![u] = decision]
    /\ UNCHANGED <<input, file, row, exec, attempts, purge, download, consume,
                   overlapped, purges, read>>

Decided(decision) ==
    [row EXCEPT !.status = decision, !.at[decision] = "fresh"]

CommitReview(u) ==
    /\ review[u] # Idle
    /\ ~Locked
    /\ row' = Decided(review[u])
    /\ review' = [review EXCEPT ![u] = Idle]
    /\ UNCHANGED <<input, file, exec, attempts, purge, download, consume,
                   overlapped, purges, read>>

-----------------------------------------------------------------------------
(***************************************************************************)
(* _download_artifact.                                                     *)
(***************************************************************************)
downloadVars == <<input, file, row, exec, attempts, review, purge, consume,
                  overlapped, purges>>

\* The started audit row.
StartDownload(d) ==
    /\ download[d].at = Idle
    /\ row.exists
    /\ row.status \in {"approved", "rolled_back"}
    /\ ~row.deleted
    /\ download' = [download EXCEPT ![d].at = "started"]
    /\ UNCHANGED <<downloadVars, read>>

\* open_verified_artifact: one open, a full read, the digest compared.
OpenVerified(d) ==
    /\ download[d].at = "started"
    /\ file = row.sha
    /\ download' = [download EXCEPT ![d] =
                      [at |-> "streaming", linked |-> TRUE, fd |-> file]]
    /\ UNCHANGED <<downloadVars, read>>

\* file_missing or integrity_failed.
RefuseDownload(d) ==
    /\ download[d].at = "started"
    /\ file # row.sha
    /\ download' = [download EXCEPT ![d] = NotDownloading]
    /\ UNCHANGED <<downloadVars, read>>

Stream(d) ==
    /\ download[d].at = "streaming"
    /\ read' = read \cup {download[d].fd}
    /\ download' = [download EXCEPT ![d] = NotDownloading]
    /\ UNCHANGED downloadVars

\* stream_failed, or the API process dies.
StreamFails(d) ==
    /\ download[d].at # Idle
    /\ download' = [download EXCEPT ![d] = NotDownloading]
    /\ UNCHANGED <<downloadVars, read>>

-----------------------------------------------------------------------------
(***************************************************************************)
(* The handler of the next stage: it requires an approved row, then loads  *)
(* the file; it does not compare the digest.                               *)
(***************************************************************************)
consumeVars == <<input, file, row, exec, attempts, review, purge, download,
                 overlapped, purges>>

RequireApproved(c) ==
    /\ consume[c] = Idle
    /\ row.exists
    /\ row.status = "approved"
    /\ consume' = [consume EXCEPT ![c] = "gated"]
    /\ UNCHANGED <<consumeVars, read>>

LoadCsv(c) ==
    /\ consume[c] = "gated"
    /\ read' = IF file = Missing THEN read ELSE read \cup {file}
    /\ consume' = [consume EXCEPT ![c] = Idle]
    /\ UNCHANGED consumeVars

-----------------------------------------------------------------------------
(***************************************************************************)
(* Retention.                                                              *)
(***************************************************************************)
purgeVars == <<input, exec, attempts, review, consume, overlapped, read>>

\* The retention window passes.  An execution does not last that long: the
\* window is at least seven days.
WindowPasses ==
    /\ \E d \in Decisions : row.at[d] = "fresh"
    /\ \A e \in Executors : exec[e].at = Idle
    /\ row' = [row EXCEPT !.at = [d \in Decisions |->
                 IF row.at[d] = "fresh" THEN "old" ELSE row.at[d]]]
    /\ UNCHANGED <<file, purge, download, purges, purgeVars>>

\* Mutated: the oldest decision counts.
FirstStamp == IF row.at["approved"] # "null" THEN row.at["approved"]
              ELSE IF row.status \in Decisions THEN row.at[row.status] ELSE "null"

\* _decision_timestamp_expression: the timestamp of the current status.
DecisionStamp == IF row.status \in Decisions THEN row.at[row.status] ELSE "null"

Eligible == row.exists /\ ~row.deleted /\ DecisionStamp = "old"

\* SELECT ... FOR UPDATE SKIP LOCKED
ClaimPurge(g, dry) ==
    /\ purge[g].at = Idle
    /\ ~Locked
    /\ Eligible
    /\ purge' = [purge EXCEPT ![g] = [at |-> "claimed", dry |-> dry,
                                      gone |-> FALSE]]
    /\ UNCHANGED <<file, row, download, purges, purgeVars>>

\* Mutated: a file that is already missing counts as a failure.
UnlinkExisting(g) ==
    /\ purge[g].at = "claimed"
    /\ ~purge[g].dry
    /\ file # Missing
    /\ file' = Missing
    /\ download' = [d \in Downloads |-> [download[d] EXCEPT !.linked = FALSE]]
    /\ purge' = [purge EXCEPT ![g].at = "acted", ![g].gone = TRUE]
    /\ UNCHANGED <<row, purges, purgeVars>>

\* storage.delete: completed or already_missing.  Open descriptors live on.
Unlink(g) ==
    /\ purge[g].at = "claimed"
    /\ ~purge[g].dry
    /\ file' = Missing
    /\ download' = [d \in Downloads |-> [download[d] EXCEPT !.linked = FALSE]]
    /\ purge' = [purge EXCEPT ![g].at = "acted", ![g].gone = TRUE]
    /\ UNCHANGED <<row, purges, purgeVars>>

\* A dry run, or an OSError: nothing is removed.
KeepFile(g) ==
    /\ purge[g].at = "claimed"
    /\ purge' = [purge EXCEPT ![g].at = "acted"]
    /\ UNCHANGED <<file, row, download, purges, purgeVars>>

\* Mutated: a failed deletion marks the row as well.
SetDeletedAlways(g) == ~purge[g].dry

\* set_deleted_at, and the guard of the UPDATE.
SetDeleted(g) == purge[g].gone /\ ~row.deleted

CommitPurge(g) ==
    /\ purge[g].at = "acted"
    /\ row' = IF SetDeleted(g) THEN [row EXCEPT !.deleted = TRUE] ELSE row
    /\ purges' = IF SetDeleted(g) THEN purges + 1 ELSE purges
    /\ purge' = [purge EXCEPT ![g] = NotPurging]
    /\ UNCHANGED <<file, download, purgeVars>>

\* The transaction rolls back; a file that was unlinked stays unlinked.
PurgeDies(g) ==
    /\ purge[g].at # Idle
    /\ purge' = [purge EXCEPT ![g] = NotPurging]
    /\ UNCHANGED <<file, row, download, purges, purgeVars>>

-----------------------------------------------------------------------------
Execute(e) ==
    \/ CheckExisting(e) \/ Compute(e) \/ Truncate(e) \/ WriteBytes(e)
    \/ CommitRun(e) \/ Abandon(e)

Review(u) ==
    \/ \E decision \in Decisions : LoadForReview(u, decision)
    \/ CommitReview(u)

Download(d) ==
    \/ StartDownload(d) \/ OpenVerified(d) \/ RefuseDownload(d)
    \/ Stream(d) \/ StreamFails(d)

Consume(c) == RequireApproved(c) \/ LoadCsv(c)

Purge(g) ==
    \/ \E dry \in Modes : ClaimPurge(g, dry)
    \/ Unlink(g) \/ KeepFile(g) \/ CommitPurge(g) \/ PurgeDies(g)

Next ==
    \/ \E c \in Contents : InputChanges(c)
    \/ \E e \in Executors : Execute(e)
    \/ \E u \in Reviewers : Review(u)
    \/ \E d \in Downloads : Download(d)
    \/ \E c \in Consumers : Consume(c)
    \/ WindowPasses
    \/ \E g \in Purgers : Purge(g)

Spec == Init /\ [][Next]_vars

\* Executions and requests end, time passes, retention runs in real mode, and
\* neither the file system nor the database fails for ever.
Fairness ==
    /\ \A e \in Executors :
         /\ WF_vars(Compute(e)) /\ WF_vars(Truncate(e))
         /\ WF_vars(WriteBytes(e)) /\ WF_vars(CommitRun(e))
    /\ WF_vars(WindowPasses)
    /\ \A g \in Purgers :
         /\ SF_vars(ClaimPurge(g, FALSE)) /\ SF_vars(Unlink(g))
         /\ SF_vars(SetDeleted(g) /\ CommitPurge(g)) /\ WF_vars(CommitPurge(g))
         /\ WF_vars(KeepFile(g))

FairSpec == Spec /\ Fairness

-----------------------------------------------------------------------------
\* Every variable has the shape the model gives it.
TypeOK ==
    /\ input \in Contents
    /\ file \in FileStates
    /\ row \in RunRow
    /\ exec \in [Executors -> ExecStates]
    /\ attempts \in 0..MaxAttempts
    /\ review \in [Reviewers -> Decisions \cup {Idle}]
    /\ purge \in [Purgers -> PurgeStates]
    /\ download \in [Downloads -> DownloadStates]
    /\ consume \in [Consumers -> {Idle, "gated"}]
    /\ overlapped \in BOOLEAN
    /\ purges \in Nat
    /\ read \subseteq FileStates

\* As long as executions of the TaskRun do not overlap, a crash between the
\* write and the commit, or a retry on changed input, never leaves a run whose
\* file is not the one it recorded; and a file disappears only from a run a
\* user has decided on.
FileMatchesRow ==
    ~overlapped /\ row.exists =>
        \/ file = row.sha
        \/ file = Missing /\ row.status # "pending_review"

\* As long as executions do not overlap, whoever downloads the artifact or
\* builds the next stage on it gets the recorded bytes, even while retention
\* unlinks the file and the approval is rolled back.
ReadersGetRecordedBytes ==
    ~overlapped => read \subseteq {row.sha}

\* output_deleted_at is the authoritative "this file no longer exists": it is
\* never set over a file, whatever passes failed, crashed after the unlink or
\* were dry, and the audit table records the purge exactly once.
PurgedIsGone ==
    /\ row.deleted => file = Missing
    /\ purges = IF row.deleted THEN 1 ELSE 0

\* A run's identity is immutable: racing executions and later decisions never
\* replace the recorded digest or take back a purge.
RecordIsImmutable ==
    [][row.exists => /\ row'.exists
                     /\ row'.sha = row.sha
                     /\ row.deleted => row'.deleted]_vars

\* Retention removes a file only when the decision in force is older than the
\* window: not while it is pending, and not because an earlier decision is.
PurgesOnlyExpired ==
    [][file # Missing /\ file' = Missing =>
          row.status \in Decisions /\ row.at[row.status] = "old"]_vars

\* A decided artifact is eventually purged, although passes crash between the
\* unlink and the commit and deletions fail.
EventuallyPurged ==
    row.exists /\ row.status # "pending_review" ~> row.deleted

\* MASTER_BLUEPRINT: a worker whose lease was reclaimed can never corrupt
\* state it no longer owns, even if it is still running: once all executions
\* have ended, the file of a decided run is the one that was decided on, until
\* retention removes it.
DecidedFileIsIntact ==
    /\ row.exists
    /\ row.status # "pending_review"
    /\ \A e \in Executors : exec[e].at = Idle
    => file \in {row.sha, Missing}
=============================================================================
