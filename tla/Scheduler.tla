----------------------------- MODULE Scheduler ------------------------------
(***************************************************************************)
(* Scheduled tasks: the columns of the table tasks that scheduling uses,   *)
(* the API requests that edit them (backend/app/api/tasks.py) and the      *)
(* scheduler passes of the workers (backend/app/worker/scheduler.py).      *)
(*                                                                         *)
(* A pass claims one due task at a time: it locks the row, then advances   *)
(* next_run_at and inserts a pending TaskRun in the same transaction.  A   *)
(* PATCH reads the row, validates, and writes only the columns whose value *)
(* it changed; nothing stops another transaction in between.  A request    *)
(* that answers 404 or 409 before it writes changes nothing and is not     *)
(* modelled.                                                               *)
(***************************************************************************)
EXTENDS Integers, FiniteSets

CONSTANTS
    MaxTasks,       \* bound: tasks ever created; ids break ties
    Passes,         \* workers that run scheduler passes
    Requests,       \* concurrent PATCH /tasks/{id} requests
    Poison,         \* tasks whose scheduling transaction always raises
    BatchSize,      \* scheduler_claim_batch_size
    Interval,       \* the schedule_interval_seconds in use, in ticks
    MaxDeaths,      \* bound: passes cut short by the death of their worker
    MaxTime         \* bound: the last tick of the clock

Tasks == 1..MaxTasks

\* A PATCH takes less time than the smallest schedule interval (30 s).
ASSUME SchedulerAssumption ==
    /\ MaxTasks \in Nat
    /\ Poison \subseteq Tasks
    /\ BatchSize \in Nat \ {0}
    /\ Interval \in Nat \ {0, 1}
    /\ MaxTime \in Nat \ {0}
    /\ MaxDeaths \in Nat
    /\ "nobody" \notin Passes

Null == 0           \* SQL NULL of schedule_interval_seconds and next_run_at
Keep == -1          \* a column that the PATCH does not write
NoTask == 0

Types == {"SYNC", "OTHER"}     \* OTHER: every task_type but SYNC

VARIABLES
    tasks,      \* task -> its row
    lock,       \* task -> the pass that holds the row FOR UPDATE
    pass,       \* pass -> its local variables
    req,        \* request -> the UPDATE it is about to send
    clock,      \* now
    deaths,     \* passes cut short so far
    fired       \* observation: pass -> task -> runs this pass created

vars == <<tasks, lock, pass, req, clock, deaths, fired>>

TaskRow == [exists : BOOLEAN, active : BOOLEAN, type : Types,
            interval : {Null, Interval}, next : 0..(MaxTime + Interval)]

PassState == [at : {"idle", "select", "claimed"}, now : 0..MaxTime,
              attempted : 0..BatchSize, excluded : SUBSET Tasks,
              task : Tasks \cup {NoTask}, old : 0..(MaxTime + Interval)]

Write == [task : Tasks \cup {NoTask}, type : Types \cup {"keep"},
          interval : {Keep, Null, Interval},
          next : {Keep} \cup 0..(MaxTime + Interval), since : 0..MaxTime]

Idle == [at |-> "idle", now |-> 0, attempted |-> 0, excluded |-> {},
         task |-> NoTask, old |-> 0]
NoWrite == [task |-> NoTask, type |-> "keep", interval |-> Keep,
            next |-> Keep, since |-> 0]
NoLock == "nobody"

Init ==
    /\ tasks = [t \in Tasks |-> [exists |-> FALSE, active |-> FALSE,
                                 type |-> "SYNC", interval |-> Null,
                                 next |-> Null]]
    /\ lock = [t \in Tasks |-> NoLock]
    /\ pass = [p \in Passes |-> Idle]
    /\ req = [q \in Requests |-> NoWrite]
    /\ clock = 1
    /\ deaths = 0
    /\ fired = [p \in Passes |-> [t \in Tasks |-> 0]]

-----------------------------------------------------------------------------
\* _validate_schedule_interval_task_type
ValidSchedule(type, interval) == interval # Null => type = "SYNC"

\* _compute_next_run_at
NextRunAt(interval) == IF interval = Null THEN Null ELSE clock + interval

CreateTask(t, type, interval) ==
    /\ ~tasks[t].exists
    /\ \A u \in Tasks : u < t => tasks[u].exists
    /\ ValidSchedule(type, interval)
    /\ tasks' = [tasks EXCEPT ![t] =
                   [exists |-> TRUE, active |-> TRUE, type |-> type,
                    interval |-> interval, next |-> NextRunAt(interval)]]
    /\ UNCHANGED <<lock, pass, req, clock, deaths, fired>>

\* The column is written only if the request assigns a value other than the
\* one it loaded.
Changed(loaded, given, keep) == IF given = loaded THEN keep ELSE given

\* update_task up to its commit: load the row, apply the payload to the
\* loaded copy, validate the result.
UpdateTask(q, t, type, interval) ==
    LET row == tasks[t]
        final == IF interval = Keep THEN row.interval ELSE interval
    IN  /\ req[q].task = NoTask
        /\ row.exists /\ row.active
        /\ ValidSchedule(IF type = "keep" THEN row.type ELSE type, final)
        /\ req' = [req EXCEPT ![q] =
             [task |-> t,
              type |-> IF type = "keep" THEN "keep"
                       ELSE Changed(row.type, type, "keep"),
              interval |-> Changed(row.interval, final, Keep),
              next |-> CASE interval = Keep -> Keep
                         [] interval = Null -> Changed(row.next, Null, Keep)
                         [] OTHER -> NextRunAt(interval),
              since |-> clock]]
        /\ UNCHANGED <<tasks, lock, pass, clock, deaths, fired>>

\* ck_tasks_schedule_consistency
ScheduleConsistent(row) == (row.interval = Null) = (row.next = Null)

Written(row, u) ==
    [row EXCEPT !.type = IF u.type = "keep" THEN @ ELSE u.type,
                !.interval = IF u.interval = Keep THEN @ ELSE u.interval,
                !.next = IF u.next = Keep THEN @ ELSE u.next]

\* The UPDATE waits for the row lock; a CHECK violation rolls it back.
CommitUpdate(q) ==
    LET t == req[q].task IN
    /\ t # NoTask
    /\ lock[t] = NoLock
    /\ tasks' = [tasks EXCEPT ![t] = IF ScheduleConsistent(Written(@, req[q]))
                                     THEN Written(@, req[q]) ELSE @]
    /\ req' = [req EXCEPT ![q] = NoWrite]
    /\ UNCHANGED <<lock, pass, clock, deaths, fired>>

\* delete_task is a soft delete; the schedule columns stay as they are.
DeleteTask(t) ==
    /\ tasks[t].active
    /\ lock[t] = NoLock
    /\ tasks' = [tasks EXCEPT ![t].active = FALSE]
    /\ UNCHANGED <<lock, pass, req, clock, deaths, fired>>

Tick ==
    /\ clock < MaxTime
    /\ \A q \in Requests :
          req[q].task # NoTask => clock + 1 < req[q].since + Interval
    /\ clock' = clock + 1
    /\ UNCHANGED <<tasks, lock, pass, req, deaths, fired>>

(***************************************************************************)
(* run_due_schedules.                                                      *)
(***************************************************************************)
StartPass(p) ==
    /\ pass[p].at = "idle"
    /\ pass' = [pass EXCEPT ![p] = [Idle EXCEPT !.at = "select", !.now = clock]]
    /\ fired' = [fired EXCEPT ![p] = [t \in Tasks |-> 0]]
    /\ UNCHANGED <<tasks, lock, req, clock, deaths>>

\* Mutated: a soft-deleted task is still scheduled.
ScheduledThoughDeleted(t) == tasks[t].exists /\ tasks[t].interval # Null

Scheduled(t) == tasks[t].active /\ tasks[t].interval # Null

\* Mutated: a task that failed in this pass is selected again.
DueAgain(p) == {t \in Tasks : /\ Scheduled(t)
                              /\ tasks[t].next <= pass[p].now}

Due(p) == {t \in Tasks : /\ Scheduled(t)
                         /\ tasks[t].next <= pass[p].now
                         /\ t \notin pass[p].excluded}

\* Mutated: a row that another pass has locked is selected too.
UnlockedOrNot(S) == S

Unlocked(S) == {t \in S : lock[t] = NoLock}

\* ORDER BY next_run_at, id LIMIT 1
First(S) == CHOOSE t \in S : \A u \in S :
               \/ tasks[t].next < tasks[u].next
               \/ tasks[t].next = tasks[u].next /\ t <= u

\* SELECT ... FOR UPDATE SKIP LOCKED.
Select(p) ==
    LET S == Unlocked(Due(p)) IN
    /\ pass[p].at = "select"
    /\ pass[p].attempted < BatchSize
    /\ S # {}
    /\ lock' = [lock EXCEPT ![First(S)] = p]
    /\ pass' = [pass EXCEPT ![p].at = "claimed", ![p].attempted = @ + 1,
                            ![p].task = First(S), ![p].old = tasks[First(S)].next]
    /\ UNCHANGED <<tasks, req, clock, deaths, fired>>

EndPass(p) ==
    /\ pass[p].at = "select"
    /\ pass[p].attempted = BatchSize \/ Unlocked(Due(p)) = {}
    /\ pass' = [pass EXCEPT ![p] = Idle]
    /\ UNCHANGED <<tasks, lock, req, clock, deaths, fired>>

\* Mutated: anchored to the old next_run_at instead of to the pass.
AdvancedFromOld(p, t) == tasks[t].next + tasks[t].interval

\* Mutated: one more period is skipped.
AdvancedTwice(p, t) == pass[p].now + 2 * tasks[t].interval

\* The missed-schedule policy.
Advanced(p, t) == pass[p].now + tasks[t].interval

\* The guard of the UPDATE that advances next_run_at.
StillDue(p, t) == Scheduled(t) /\ tasks[t].next = pass[p].old

Fire(p) ==
    LET t == pass[p].task IN
    /\ pass[p].at = "claimed"
    /\ t \notin Poison
    /\ StillDue(p, t)
    /\ tasks' = [tasks EXCEPT ![t].next = Advanced(p, t)]
    /\ fired' = [fired EXCEPT ![p][t] = @ + 1]
    /\ lock' = [lock EXCEPT ![t] = NoLock]
    /\ pass' = [pass EXCEPT ![p].at = "select", ![p].task = NoTask,
                            ![p].old = 0]
    /\ UNCHANGED <<req, clock, deaths>>

\* Any exception, or an UPDATE that affected no row: roll back and exclude.
FireFails(p) ==
    LET t == pass[p].task IN
    /\ pass[p].at = "claimed"
    /\ lock' = [lock EXCEPT ![t] = NoLock]
    /\ pass' = [pass EXCEPT ![p].at = "select", ![p].task = NoTask,
                            ![p].old = 0, ![p].excluded = @ \cup {t}]
    /\ UNCHANGED <<tasks, req, clock, deaths, fired>>

\* The worker dies; PostgreSQL rolls its transaction back.
PassDies(p) ==
    /\ pass[p].at # "idle"
    /\ deaths < MaxDeaths
    /\ deaths' = deaths + 1
    /\ lock' = [t \in Tasks |-> IF lock[t] = p THEN NoLock ELSE lock[t]]
    /\ pass' = [pass EXCEPT ![p] = Idle]
    /\ UNCHANGED <<tasks, req, clock, fired>>

-----------------------------------------------------------------------------
Api ==
    \/ \E t \in Tasks, type \in Types, i \in {Null, Interval} :
          CreateTask(t, type, i)
    \/ \E q \in Requests, t \in Tasks, type \in Types \cup {"keep"},
          i \in {Keep, Null, Interval} : UpdateTask(q, t, type, i)
    \/ \E q \in Requests : CommitUpdate(q)
    \/ \E t \in Tasks : DeleteTask(t)

RunDueSchedules(p) ==
    \/ StartPass(p) \/ Select(p) \/ EndPass(p)
    \/ Fire(p) \/ FireFails(p) \/ PassDies(p)

Next == Api \/ Tick \/ \E p \in Passes : RunDueSchedules(p)

Spec == Init /\ [][Next]_vars

\* Workers keep polling (run_forever), a transaction ends, and a task that is
\* not malformed does not fail every time it is tried.  Users are under no
\* obligation.
Fairness ==
    /\ \A q \in Requests : WF_vars(CommitUpdate(q))
    /\ \A p \in Passes :
         /\ WF_vars(StartPass(p)) /\ SF_vars(Select(p)) /\ WF_vars(EndPass(p))
         /\ WF_vars(FireFails(p))
         /\ \A t \in Tasks : SF_vars(pass[p].task = t /\ Fire(p))

FairSpec == Spec /\ Fairness

-----------------------------------------------------------------------------
\* Every variable has the shape the model gives it, and a task has an interval
\* exactly if it has a next run, although PATCHes write the two columns one by
\* one over rows that have changed since they were loaded.
TypeOK ==
    /\ tasks \in [Tasks -> TaskRow]
    /\ \A t \in Tasks : ScheduleConsistent(tasks[t])
    /\ lock \in [Tasks -> Passes \cup {NoLock}]
    /\ pass \in [Passes -> PassState]
    /\ req \in [Requests -> Write]
    /\ clock \in 0..MaxTime
    /\ deaths \in 0..MaxDeaths
    /\ fired \in [Passes -> [Tasks -> Nat]]

\* Any number of missed periods collapses into one run per task and pass,
\* whatever PATCHes and other passes do to next_run_at meanwhile.
OneCatchUpPerPass ==
    \A p \in Passes, t \in Tasks : fired[p][t] <= 1

\* Two passes never hold the same due occurrence, so it cannot be given two
\* runs: a claimed task is locked by its claimer, and unchanged since.
ClaimIsExclusive ==
    \A p \in Passes : pass[p].at = "claimed" =>
        /\ lock[pass[p].task] = p
        /\ StillDue(p, pass[p].task)

\* A soft-deleted task gets no further scheduled run, even from a pass that
\* began before the delete.
NoRunAfterDelete ==
    [][\A p \in Passes, t \in Tasks :
         fired'[p][t] > fired[p][t] => tasks[t].active]_vars

\* A due task that can be scheduled is not starved by one that always fails:
\* it fires, or the schedule that made it due is edited or deleted.
NoStarvation ==
    \A t \in Tasks \ Poison :
        (Scheduled(t) /\ tasks[t].next <= clock)
            ~> ~(Scheduled(t) /\ tasks[t].next <= clock)
=============================================================================
