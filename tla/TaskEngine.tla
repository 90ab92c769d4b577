----------------------------- MODULE TaskEngine -----------------------------
(***************************************************************************)
(* The execution engine of the backend: the table task_runs and the worker *)
(* processes that claim, execute, heartbeat, complete, requeue and reap    *)
(* its rows (backend/app/worker/engine.py, runner.py and reaper.py).       *)
(*                                                                         *)
(* An action is one database transaction, because PostgreSQL makes exactly *)
(* that atomic; between two transactions of a worker every other worker    *)
(* may run.  Time is abstracted to what the code asks of it: a lease is    *)
(* past its lease_expires_at or not, a requeued run is past its            *)
(* next_retry_at or not, and both may change at any moment.                *)
(***************************************************************************)
EXTENDS Naturals, FiniteSets

CONSTANTS
    Workers,        \* worker processes (runner.run_forever)
    MaxRuns,        \* bound: TaskRuns ever created
    MaxAttempts,    \* largest max_attempts a Task may be given
    BatchSize,      \* worker_claim_batch_size
    MaxCrashes      \* bound: times a worker process is killed

Runs == 1..MaxRuns     \* in the order of created_at
Nobody == "nobody"     \* no worker_id
Reaper == "reaper"     \* the worker_id the reaper reports under
NullToken == 0         \* lease_token IS NULL

\* A worker's id ends in a random suffix, so it is never the reaper's.
ASSUME EngineAssumption ==
    /\ MaxRuns \in Nat
    /\ MaxAttempts \in Nat \ {0}
    /\ BatchSize \in Nat \ {0}
    /\ MaxCrashes \in Nat
    /\ Reaper \notin Workers
    /\ Nobody \notin Workers

Statuses == {"absent", "pending", "running", "success", "failed"}
Terminal == {"success", "failed"}

VARIABLES
    (* the database *)
    runs,       \* run -> its task_runs row
    audit,      \* run -> its task_run_events, counted by event_type, and
                \*        the worker_id of the last claim and of its close
    limit,      \* effective max_attempts of the task the runs belong to
    (* the worker processes *)
    pc,         \* worker -> where run_forever is
    batch,      \* worker -> runs it claimed and has not started
    snap,       \* worker -> the row as its session last loaded it
    hb,         \* worker -> the heartbeat thread is alive
    reapq,      \* worker -> (run, token) pairs its reaper pass selected
    (* observation only *)
    lapsed,     \* run -> the current claim's lease has been past its end
    crashes     \* number of crashes so far

dbVars == <<runs, audit, limit>>
workerVars == <<pc, batch, snap, hb, reapq>>
vars == <<runs, audit, limit, pc, batch, snap, hb, reapq, lapsed, crashes>>

(***************************************************************************)
(* Rows.  The row operators are the SET clauses of the engine's UPDATEs.   *)
(***************************************************************************)
Row == [status   : Statuses,
        started  : BOOLEAN,    \* started_at IS NOT NULL
        finished : BOOLEAN,    \* finished_at IS NOT NULL
        error    : BOOLEAN,    \* error_message IS NOT NULL
        token    : Nat,        \* lease_token
        expired  : BOOLEAN,    \* lease_expires_at < now()
        attempts : Nat,        \* attempt_count
        due      : BOOLEAN]    \* next_retry_at IS NULL OR <= now()

AuditTrail == [claimed   : Nat, requeued : Nat, succeeded : Nat, failed : Nat,
               claimant  : Workers \cup {Nobody},
               closer    : Workers \cup {Nobody, Reaper}]

Snapshot == [run : Runs \cup {0}, token : Nat, status : Statuses,
             attempts : Nat, limit : Nat]

NoSnapshot == [run |-> 0, token |-> NullToken, status |-> "absent",
               attempts |-> 0, limit |-> 1]

\* The columns of a row in the order of Row.
MakeRow(status, started, finished, error, token, expired, attempts, due) ==
    [status |-> status, started |-> started, finished |-> finished,
     error |-> error, token |-> token, expired |-> expired,
     attempts |-> attempts, due |-> due]

AbsentRow == MakeRow("absent", FALSE, FALSE, FALSE, NullToken, FALSE, 0, TRUE)

NewRow == MakeRow("pending", FALSE, FALSE, FALSE, NullToken, FALSE, 0, TRUE)

\* Mutated: the token is not renewed by a later claim.
FixedToken(r) == IF r \in Runs THEN 1 ELSE NullToken

\* A claim's lease_token is a fresh uuid4: the ordinal of the run's claim.
FreshToken(r) == audit[r].claimed + 1

ClaimedRow(row, token) ==
    MakeRow("running", TRUE, row.finished, row.error, token, FALSE,
            row.attempts + 1, row.due)

HeartbeatRow(row) ==
    MakeRow(row.status, row.started, row.finished, row.error, row.token,
            FALSE, row.attempts, row.due)

SucceededRow(row) ==
    MakeRow("success", row.started, TRUE, row.error, NullToken, FALSE,
            row.attempts, row.due)

\* Mutated: the requeue forgets to reset started_at.
RequeuedRowStarted(row) ==
    MakeRow("pending", row.started, FALSE, FALSE, NullToken, FALSE,
            row.attempts, FALSE)

RequeuedRow(row) ==
    MakeRow("pending", FALSE, FALSE, FALSE, NullToken, FALSE,
            row.attempts, FALSE)

FailedRow(row) ==
    MakeRow("failed", row.started, TRUE, TRUE, NullToken, FALSE,
            row.attempts, row.due)

\* What the clock does to a row: lease_expires_at or next_retry_at passes.
ExpiredRow(row) ==
    MakeRow(row.status, row.started, row.finished, row.error, row.token,
            TRUE, row.attempts, row.due)

DueRow(row) ==
    MakeRow(row.status, row.started, row.finished, row.error, row.token,
            row.expired, row.attempts, TRUE)

(***************************************************************************)
(* Events.  engine._record_event adds one row to task_run_events in the    *)
(* transaction of the UPDATE it reports.                                   *)
(***************************************************************************)
MakeTrail(claimed, requeued, succeeded, failed, claimant, closer) ==
    [claimed |-> claimed, requeued |-> requeued, succeeded |-> succeeded,
     failed |-> failed, claimant |-> claimant, closer |-> closer]

EmptyTrail == MakeTrail(0, 0, 0, 0, Nobody, Nobody)

ClaimedEvent(a, w) ==
    MakeTrail(a.claimed + 1, a.requeued, a.succeeded, a.failed, w, Nobody)

RequeuedEvent(a, by) ==
    MakeTrail(a.claimed, a.requeued + 1, a.succeeded, a.failed, a.claimant, by)

SucceededEvent(a, by) ==
    MakeTrail(a.claimed, a.requeued, a.succeeded + 1, a.failed, a.claimant, by)

FailedEvent(a, by) ==
    MakeTrail(a.claimed, a.requeued, a.succeeded, a.failed + 1, a.claimant, by)

(***************************************************************************)
(* WHERE clauses.                                                          *)
(***************************************************************************)

\* Mutated: the WHERE clause leaves out status = 'running'.
OwnsByToken(r, token) == runs[r].token = token

\* Mutated: the WHERE clause leaves out lease_token = :token.
OwnsByStatus(r, token) == runs[r].status = "running" /\ token = token

\* The guard of every heartbeat and completion UPDATE.
Owns(r, token) == /\ runs[r].status = "running"
                  /\ runs[r].token = token

\* Mutated: anything that is not running is claimed.
ClaimableNotRunning == {r \in Runs : /\ runs[r].status \notin {"running", "absent"}
                                     /\ runs[r].due}

Claimable == {r \in Runs : runs[r].status = "pending" /\ runs[r].due}

\* Mutated: lease_expires_at > now().
ReapableLive == {r \in Runs : runs[r].status = "running" /\ ~runs[r].expired}

Reapable == {r \in Runs : runs[r].status = "running" /\ runs[r].expired}

\* ORDER BY created_at LIMIT n
Oldest(S, n) == {r \in S : Cardinality({q \in S : q < r}) < n}

\* Mutated: one retry too many.
RetryOnceMore(s, retryable) == retryable /\ s.attempts <= s.limit

ShouldRetry(s, retryable) == retryable /\ s.attempts < s.limit

-----------------------------------------------------------------------------
Init ==
    /\ runs = [r \in Runs |-> AbsentRow]
    /\ audit = [r \in Runs |-> EmptyTrail]
    /\ limit = MaxAttempts
    /\ pc = [w \in Workers |-> "claim"]
    /\ batch = [w \in Workers |-> {}]
    /\ snap = [w \in Workers |-> NoSnapshot]
    /\ hb = [w \in Workers |-> FALSE]
    /\ reapq = [w \in Workers |-> {}]
    /\ lapsed = [r \in Runs |-> FALSE]
    /\ crashes = 0

(***************************************************************************)
(* The API and the scheduler: POST /tasks/{id}/runs inserts a pending run, *)
(* PATCH /tasks/{id} changes max_attempts while runs are in flight.        *)
(***************************************************************************)
CreateTaskRun(r) ==
    /\ runs[r].status = "absent"
    /\ \A q \in Runs : q < r => runs[q].status # "absent"
    /\ runs' = [runs EXCEPT ![r] = NewRow]
    /\ UNCHANGED <<audit, limit, workerVars, lapsed, crashes>>

\* Mutated: max_attempts = 0 is let through.
UpdateMaxAttemptsFromZero(n) ==
    /\ limit' = n - 1
    /\ UNCHANGED <<runs, audit, workerVars, lapsed, crashes>>

UpdateMaxAttempts(n) ==
    /\ limit' = n
    /\ UNCHANGED <<runs, audit, workerVars, lapsed, crashes>>

(***************************************************************************)
(* Time passes.                                                            *)
(***************************************************************************)
LeaseExpires(r) ==
    /\ runs[r].status = "running"
    /\ ~runs[r].expired
    /\ runs' = [runs EXCEPT ![r] = ExpiredRow(@)]
    /\ lapsed' = [lapsed EXCEPT ![r] = TRUE]
    /\ UNCHANGED <<audit, limit, workerVars, crashes>>

RetryDue(r) ==
    /\ runs[r].status = "pending"
    /\ ~runs[r].due
    /\ runs' = [runs EXCEPT ![r] = DueRow(@)]
    /\ UNCHANGED <<audit, limit, workerVars, lapsed, crashes>>

(***************************************************************************)
(* engine.claim_batch: one transaction for the whole batch.  `locked' are  *)
(* the rows that another claim_batch holds FOR UPDATE at this moment and   *)
(* SKIP LOCKED passes over.                                                *)
(***************************************************************************)
Claim(w, locked) ==
    /\ pc[w] = "claim"
    /\ locked # {} => \E v \in Workers \ {w} : pc[v] = "claim"
    /\ LET claimed == Oldest(Claimable \ locked, BatchSize) IN
       /\ runs' = [r \in Runs |-> IF r \in claimed
                                  THEN ClaimedRow(runs[r], FreshToken(r))
                                  ELSE runs[r]]
       /\ audit' = [r \in Runs |->
                      IF r \in claimed
                      THEN ClaimedEvent(audit[r], w)
                      ELSE audit[r]]
       /\ lapsed' = [r \in Runs |-> r \notin claimed /\ lapsed[r]]
       /\ batch' = [batch EXCEPT ![w] = claimed]
       /\ pc' = [pc EXCEPT ![w] = IF claimed = {} THEN "reap" ELSE "exec"]
    /\ UNCHANGED <<limit, snap, hb, reapq, crashes>>

(***************************************************************************)
(* runner.execute_one.  The commit that ended the last transaction has     *)
(* expired the claimed TaskRun instance, so reading task_run.lease_token   *)
(* loads the row AS IT IS NOW into the session; complete_failure later     *)
(* takes this same copy from the session's identity map.                   *)
(***************************************************************************)
Load(r, token) == [run |-> r, token |-> token, status |-> runs[r].status,
                   attempts |-> runs[r].attempts, limit |-> limit]

StartExecution(w) ==
    /\ pc[w] = "exec"
    /\ \E r \in batch[w] :
         /\ \A q \in batch[w] : r <= q
         /\ snap' = [snap EXCEPT ![w] = Load(r, runs[r].token)]
         /\ batch' = [batch EXCEPT ![w] = @ \ {r}]
    /\ hb' = [hb EXCEPT ![w] = TRUE]
    /\ pc' = [pc EXCEPT ![w] = "run"]
    /\ UNCHANGED <<dbVars, reapq, lapsed, crashes>>

\* engine.heartbeat in the heartbeat thread; LeaseLostError ends the thread.
Heartbeat(w) ==
    LET r == snap[w].run IN
    /\ pc[w] = "run" /\ hb[w]
    /\ \/ /\ Owns(r, snap[w].token)
          /\ runs' = [runs EXCEPT ![r] = HeartbeatRow(@)]
          /\ UNCHANGED hb
       \/ /\ ~Owns(r, snap[w].token)
          /\ hb' = [hb EXCEPT ![w] = FALSE]
          /\ UNCHANGED runs
    /\ UNCHANGED <<audit, limit, pc, batch, snap, reapq, lapsed, crashes>>

\* Any other exception (a database error) ends the thread too, silently.
HeartbeatDies(w) ==
    /\ pc[w] = "run" /\ hb[w]
    /\ hb' = [hb EXCEPT ![w] = FALSE]
    /\ UNCHANGED <<dbVars, pc, batch, snap, reapq, lapsed, crashes>>

\* The finally clause of execute_one, then the for loop of run_forever.
LeaveExecution(w) ==
    /\ hb' = [hb EXCEPT ![w] = FALSE]
    /\ snap' = [snap EXCEPT ![w] = NoSnapshot]
    /\ pc' = [pc EXCEPT ![w] = IF batch[w] = {} THEN "reap" ELSE "exec"]
    /\ UNCHANGED batch

\* The process exits: what it held in memory is gone, the rows are not.
Exit(w) ==
    /\ pc' = [pc EXCEPT ![w] = "down"]
    /\ batch' = [batch EXCEPT ![w] = {}]
    /\ snap' = [snap EXCEPT ![w] = NoSnapshot]
    /\ hb' = [hb EXCEPT ![w] = FALSE]

\* Mutated: the event is recorded although the UPDATE affected no row.
CompleteSuccessUnchecked(w) ==
    LET r == snap[w].run IN
    /\ pc[w] = "run"
    /\ \/ /\ Owns(r, snap[w].token)
          /\ runs' = [runs EXCEPT ![r] = SucceededRow(@)]
       \/ /\ ~Owns(r, snap[w].token)
          /\ UNCHANGED runs
    /\ audit' = [audit EXCEPT ![r] = SucceededEvent(@, w)]
    /\ LeaveExecution(w)
    /\ UNCHANGED <<limit, reapq, lapsed, crashes>>

CompleteSuccess(w) ==
    LET r == snap[w].run IN
    /\ pc[w] = "run"
    /\ \/ /\ Owns(r, snap[w].token)
          /\ runs' = [runs EXCEPT ![r] = SucceededRow(@)]
          /\ audit' = [audit EXCEPT ![r] = SucceededEvent(@, w)]
       \/ /\ ~Owns(r, snap[w].token)          \* LeaseLostError, caught
          /\ UNCHANGED <<runs, audit>>
    /\ LeaveExecution(w)
    /\ UNCHANGED <<limit, reapq, lapsed, crashes>>

(***************************************************************************)
(* engine.complete_failure for the copy s of the row: requeue while        *)
(* attempts remain, otherwise fail.                                        *)
(***************************************************************************)
CanComplete(s) == s.status = "running" /\ Owns(s.run, s.token)

WriteFailure(s, retryable, by) ==
    \/ /\ ShouldRetry(s, retryable)
       /\ runs' = [runs EXCEPT ![s.run] = RequeuedRow(@)]
       /\ audit' = [audit EXCEPT ![s.run] = RequeuedEvent(@, by)]
    \/ /\ ~ShouldRetry(s, retryable)
       /\ runs' = [runs EXCEPT ![s.run] = FailedRow(@)]
       /\ audit' = [audit EXCEPT ![s.run] = FailedEvent(@, by)]

\* The handler raised TransientExecutionError, PermanentExecutionError (or
\* the handler lookup failed), or anything else.
Outcomes == {"transient", "permanent", "unexpected"}

CompleteFailure(w, outcome) ==
    /\ pc[w] = "run"
    /\ CanComplete(snap[w])
    /\ WriteFailure(snap[w], outcome # "permanent", w)
    /\ LeaveExecution(w)
    /\ UNCHANGED <<limit, reapq, lapsed, crashes>>

\* complete_failure raises LeaseLostError.  It is raised inside an except
\* clause, so the sibling `except LeaseLostError' does not see it: only the
\* handler of unexpected errors has a try of its own.
FailureLeaseLost(w, outcome) ==
    /\ pc[w] = "run"
    /\ ~CanComplete(snap[w])
    /\ IF outcome = "unexpected" THEN LeaveExecution(w) ELSE Exit(w)
    /\ UNCHANGED <<dbVars, reapq, lapsed, crashes>>

(***************************************************************************)
(* reaper.reap_expired_runs: one transaction selects, and then, its locks  *)
(* released, complete_failure reads and updates each row.                  *)
(***************************************************************************)
ReaperNotDue(w) ==
    /\ pc[w] = "reap"
    /\ pc' = [pc EXCEPT ![w] = "claim"]
    /\ UNCHANGED <<dbVars, batch, snap, hb, reapq, lapsed, crashes>>

ReapSelect(w, locked) ==
    /\ pc[w] = "reap"
    /\ locked # {} => \E v \in Workers \ {w} : pc[v] # "down"
    /\ reapq' = [reapq EXCEPT ![w] =
                   {<<r, runs[r].token>> : r \in Reapable \ locked}]
    /\ pc' = [pc EXCEPT ![w] = "reaping"]
    /\ UNCHANGED <<dbVars, batch, snap, hb, lapsed, crashes>>

ReapRead(w) ==
    /\ pc[w] = "reaping"
    /\ \E e \in reapq[w] :
         /\ reapq' = [reapq EXCEPT ![w] = @ \ {e}]
         /\ \/ /\ Owns(e[1], e[2])
               /\ snap' = [snap EXCEPT ![w] = Load(e[1], e[2])]
               /\ pc' = [pc EXCEPT ![w] = "reclaim"]
            \/ /\ ~Owns(e[1], e[2])
               /\ UNCHANGED <<snap, pc>>
    /\ UNCHANGED <<dbVars, batch, hb, lapsed, crashes>>

ReapWrite(w) ==
    /\ pc[w] = "reclaim"
    /\ \/ /\ CanComplete(snap[w])
          /\ WriteFailure(snap[w], TRUE, Reaper)
       \/ /\ ~CanComplete(snap[w])            \* rolled back, next row
          /\ UNCHANGED <<runs, audit>>
    /\ snap' = [snap EXCEPT ![w] = NoSnapshot]
    /\ pc' = [pc EXCEPT ![w] = "reaping"]
    /\ UNCHANGED <<limit, batch, hb, reapq, lapsed, crashes>>

ReapEnd(w) ==
    /\ pc[w] = "reaping"
    /\ reapq[w] = {}
    /\ pc' = [pc EXCEPT ![w] = "claim"]
    /\ UNCHANGED <<dbVars, batch, snap, hb, reapq, lapsed, crashes>>

(***************************************************************************)
(* A worker is killed, or dies of a database error, at any point; the      *)
(* container's restart policy starts it again.                             *)
(***************************************************************************)
Crash(w) ==
    /\ pc[w] # "down"
    /\ crashes < MaxCrashes
    /\ Exit(w)
    /\ reapq' = [reapq EXCEPT ![w] = {}]
    /\ crashes' = crashes + 1
    /\ UNCHANGED <<dbVars, lapsed>>

Restart(w) ==
    /\ pc[w] = "down"
    /\ pc' = [pc EXCEPT ![w] = "claim"]
    /\ UNCHANGED <<dbVars, batch, snap, hb, reapq, lapsed, crashes>>

-----------------------------------------------------------------------------
Environment ==
    \/ \E r \in Runs : CreateTaskRun(r) \/ LeaseExpires(r) \/ RetryDue(r)
    \/ \E n \in 1..MaxAttempts : UpdateMaxAttempts(n)

Execute(w) ==
    \/ StartExecution(w)
    \/ Heartbeat(w)
    \/ HeartbeatDies(w)
    \/ CompleteSuccess(w)
    \/ \E o \in Outcomes : CompleteFailure(w, o) \/ FailureLeaseLost(w, o)

Reap(w) ==
    \/ ReaperNotDue(w)
    \/ \E locked \in SUBSET Reapable : ReapSelect(w, locked)
    \/ ReapRead(w)
    \/ ReapWrite(w)
    \/ ReapEnd(w)

Next ==
    \/ Environment
    \/ \E w \in Workers :
         \/ \E locked \in SUBSET Claimable : Claim(w, locked)
         \/ Execute(w)
         \/ Reap(w)
         \/ Crash(w)
         \/ Restart(w)

Spec == Init /\ [][Next]_vars

\* Handlers return or raise, workers keep looping, killed workers are
\* restarted, clocks advance.  Claim and ReapSelect are strongly fair because
\* a rival's row locks may hide rows from some passes, but not from all, and
\* because reaper_poll_interval_seconds lets only some passes reap.
Fairness ==
    /\ \A r \in Runs : WF_vars(LeaseExpires(r)) /\ WF_vars(RetryDue(r))
    /\ \A w \in Workers :
         /\ WF_vars(Restart(w))
         /\ SF_vars(Claim(w, {}))
         /\ WF_vars(StartExecution(w))
         /\ WF_vars(\/ CompleteSuccess(w)
                    \/ \E o \in Outcomes :
                          CompleteFailure(w, o) \/ FailureLeaseLost(w, o))
         /\ SF_vars(ReapSelect(w, {}))
         /\ WF_vars(ReapRead(w))
         /\ WF_vars(ReapWrite(w))
         /\ WF_vars(ReapEnd(w))

FairSpec == Spec /\ Fairness

-----------------------------------------------------------------------------
(***************************************************************************)
(* Properties.                                                             *)
(***************************************************************************)

\* Every variable has the shape the model gives it.
TypeOK ==
    /\ runs \in [Runs -> Row]
    /\ audit \in [Runs -> AuditTrail]
    /\ limit \in 1..MaxAttempts
    /\ pc \in [Workers -> {"claim", "exec", "run", "reap", "reaping",
                           "reclaim", "down"}]
    /\ batch \in [Workers -> SUBSET Runs]
    /\ snap \in [Workers -> Snapshot]
    /\ hb \in [Workers -> BOOLEAN]
    /\ reapq \in [Workers -> SUBSET (Runs \X Nat)]
    /\ lapsed \in [Runs -> BOOLEAN]
    /\ crashes \in 0..MaxCrashes

\* No interleaving of claims, completions, requeues and reclaims ever asks
\* the database for a row that ck_task_runs_status_invariants or
\* ck_task_runs_lease_consistency (models/task_run.py) would refuse: such a
\* row would make the worker's commit fail and lose its result.
RowConstraints ==
    \A r \in Runs : LET row == runs[r] IN
        /\ row.status \in {"absent", "pending"} =>
              ~row.started /\ ~row.finished /\ ~row.error
        /\ row.status = "running" => row.started /\ ~row.finished
        /\ row.status = "success" => row.started /\ row.finished /\ ~row.error
        /\ row.status = "failed" => row.started /\ row.finished /\ row.error
        /\ (row.status = "running") = (row.token # NullToken)
        /\ row.status # "running" => ~row.expired

\* However stale the copy of the row a worker or the reaper decides from, and
\* however max_attempts is edited meanwhile, no run is executed more often
\* than the largest max_attempts allows, and a run waits for a retry only
\* while one is left (complete_failure's attempt_count < max_attempts).
AttemptsBounded ==
    \A r \in Runs :
        /\ runs[r].attempts <= MaxAttempts
        /\ runs[r].status = "pending" => runs[r].attempts < MaxAttempts

\* The append-only event table and the row never disagree: each claim is
\* counted by attempt_count and is closed by exactly one requeued, succeeded
\* or failed event, except the claim that is running.  A completion that
\* lost its lease records nothing; none is recorded twice.
AuditBalanced ==
    \A r \in Runs : LET a == audit[r] IN
        /\ a.claimed = runs[r].attempts
        /\ a.claimed = a.requeued + a.succeeded + a.failed
                         + (IF runs[r].status = "running" THEN 1 ELSE 0)
        /\ a.succeeded = (IF runs[r].status = "success" THEN 1 ELSE 0)
        /\ a.failed = (IF runs[r].status = "failed" THEN 1 ELSE 0)

\* The reaper never takes a run from a worker whose lease has been in force
\* without a break since it was claimed, even though it acts on tokens
\* selected in an earlier transaction.
ReclaimedOnlyAfterLapse ==
    \A r \in Runs : audit[r].closer = Reaper => lapsed[r]

\* A lease_token in anybody's hands can act for one attempt only.  Tokens
\* held by an execution or by a reaper pass are never ahead of the run's last
\* claim; one that still matches a running row comes with the attempt_count
\* of that very attempt, so complete_failure decides from it as if it read
\* the row now; and one a reaper pass holds belongs to a lease that lapsed.
TokensFence ==
    /\ \A r \in Runs :
         /\ runs[r].status = "running" => runs[r].token = audit[r].claimed
         /\ runs[r].expired => lapsed[r]
    /\ \A w \in Workers : LET s == snap[w] IN
         /\ pc[w] \in {"run", "reclaim"} => s.run \in Runs
         /\ s.run \in Runs => s.token <= audit[s.run].claimed
         /\ s.status = "running" => s.attempts = s.token
         /\ s.limit <= MaxAttempts
         /\ (pc[w] = "reclaim" /\ Owns(s.run, s.token)) => lapsed[s.run]
    /\ \A w \in Workers : \A e \in reapq[w] :
         /\ e[2] <= audit[e[1]].claimed
         /\ Owns(e[1], e[2]) => lapsed[e[1]]

\* A finished run is never touched again: no late heartbeat, completion or
\* reclaim changes a row in a terminal status.
TerminalIsFinal ==
    [][\A r \in Runs : runs[r].status \in Terminal => runs'[r] = runs[r]]_vars

\* With workers, leases, tokens and stale copies hidden, the engine is the
\* bounded-retry machine RunLifecycle: whatever workers do, an observer of
\* task_runs sees attempts start one at a time and a run end at most once.
LC == INSTANCE RunLifecycle WITH
        Runs <- Runs,
        life <- [r \in Runs |-> [status |-> runs[r].status,
                                 attempts |-> runs[r].attempts]]
ImplementsLifecycle == LC!Lifecycle

\* Every run that is created ends as success or failed: no crash between two
\* steps, lost lease, stale reaper entry or skipped row strands it.
EveryRunFinishes ==
    \A r \in Runs :
        runs[r].status = "pending" ~> runs[r].status \in Terminal

(***************************************************************************)
(* What the documentation says and the code does not do.                   *)
(***************************************************************************)

\* models/task_run.py and README.md: a worker whose lease expired and was
\* reclaimed by someone else can never complete a run it no longer owns.
ClosedByOwner ==
    \A r \in Runs :
        audit[r].closer \in {Nobody, Reaper, audit[r].claimant}
=============================================================================
