--------------------------- MODULE SchedulerProofs ---------------------------
(***************************************************************************)
(* Proofs about Scheduler, for any number of tasks, passes and requests    *)
(* and any batch size and interval.                                        *)
(***************************************************************************)
EXTENDS Scheduler, WellFoundedInduction, TLAPS

(***************************************************************************)
(* The inductive invariant.  The two safety properties lean on each other: *)
(* the row lock keeps a claimed occurrence as it was read, and a PATCH,    *)
(* which takes no lock until it writes, is younger than an interval, so    *)
(* the next_run_at it is about to write lies beyond every pass under way.  *)
(***************************************************************************)

\* Soft deletion and creation never leave an active task that does not exist.
ActiveExists == \A t \in Tasks : tasks[t].active => tasks[t].exists

\* A pass that has claimed an occurrence holds its row, unchanged since.
ClaimHeld(p) ==
    pass[p].at = "claimed" =>
        /\ pass[p].task \in Tasks
        /\ lock[pass[p].task] = p
        /\ StillDue(p, pass[p].task)
        /\ pass[p].old <= pass[p].now

\* What a pass has fired is no longer due for it.
FiredBeyond(p) ==
    \A t \in Tasks :
        /\ fired[p][t] <= 1
        /\ (pass[p].at # "idle" /\ fired[p][t] = 1 /\ tasks[t].interval # Null)
              => tasks[t].next > pass[p].now

\* An UPDATE under way writes no next_run_at, NULL or a time still ahead, and
\* it turns a schedule on only together with such a time.
WriteAhead(q) ==
    req[q].task # NoTask =>
        /\ clock < req[q].since + Interval
        /\ req[q].next \in {Keep, Null, req[q].since + Interval}
        /\ req[q].interval = Interval => req[q].next = req[q].since + Interval

SchedulerInv ==
    /\ TypeOK
    /\ ActiveExists
    /\ \A p \in Passes : pass[p].now <= clock /\ ClaimHeld(p) /\ FiredBeyond(p)
    /\ \A q \in Requests : WriteAhead(q)

\* The invariant holds initially.
LEMMA InitSchedulerInv == Init => SchedulerInv
<1> SUFFICES ASSUME Init PROVE SchedulerInv
  OBVIOUS
<1>1. TypeOK
  BY SchedulerAssumption DEF Init, TypeOK, ScheduleConsistent, TaskRow, Types, PassState, Write, Idle, NoWrite,
     Null, Keep, NoTask, NoLock, Tasks
<1>2. ActiveExists
  BY DEF Init, ActiveExists
<1>3. \A p \in Passes : pass[p].now <= clock /\ ClaimHeld(p) /\ FiredBeyond(p)
  BY DEF Init, ClaimHeld, FiredBeyond, Idle
<1>4. \A q \in Requests : WriteAhead(q)
  BY DEF Init, WriteAhead, NoWrite, NoTask
<1> QED
  BY <1>1, <1>2, <1>3, <1>4 DEF SchedulerInv

\* The operators that build a row or an UPDATE keep to their types, and an
\* UPDATE that is written over a row obeys the CHECK constraint.
LEMMA RowTypes ==
    ASSUME TypeOK, NEW row \in TaskRow, NEW u \in Write
    PROVE  /\ Written(row, u) \in TaskRow
           /\ Written(row, u).active = row.active
           /\ Written(row, u).exists = row.exists
           /\ Written(row, u).interval = (IF u.interval = Keep THEN row.interval ELSE u.interval)
           /\ Written(row, u).next = (IF u.next = Keep THEN row.next ELSE u.next)
BY SchedulerAssumption DEF Written, TaskRow, Write, Types, Keep, Null

\* A step that leaves rows, locks, passes and firings alone, and the clock,
\* preserves what is known of the passes.
LEMMA SamePasses ==
    ASSUME SchedulerInv, UNCHANGED <<tasks, lock, pass, fired, clock>>
    PROVE  /\ ActiveExists'
           /\ \A p \in Passes : (pass[p].now <= clock /\ ClaimHeld(p) /\ FiredBeyond(p))'
BY DEF SchedulerInv, ActiveExists, ClaimHeld, FiredBeyond, StillDue, Scheduled

\* The same for the UPDATEs under way.
LEMMA SameRequests ==
    ASSUME SchedulerInv, UNCHANGED <<req, clock>>
    PROVE  \A q \in Requests : WriteAhead(q)'
BY DEF SchedulerInv, WriteAhead

(***************************************************************************)
(* The requests.                                                           *)
(***************************************************************************)
LEMMA CreateTaskStep ==
    ASSUME SchedulerInv, NEW t \in Tasks, NEW type \in Types,
           NEW i \in {Null, Interval}, CreateTask(t, type, i)
    PROVE  SchedulerInv'
<1> USE SchedulerAssumption
<1> DEFINE row == [exists |-> TRUE, active |-> TRUE, type |-> type,
                   interval |-> i, next |-> NextRunAt(i)]
<1>1. /\ tasks \in [Tasks -> TaskRow] /\ clock \in 0..MaxTime
      /\ tasks' = [tasks EXCEPT ![t] = row]
      /\ UNCHANGED <<lock, pass, req, clock, deaths, fired>>
  BY DEF SchedulerInv, TypeOK, CreateTask
<1>2. row \in TaskRow /\ ScheduleConsistent(row)
  BY <1>1 DEF TaskRow, NextRunAt, ScheduleConsistent, Null
<1>3. TypeOK'
  <2> HIDE DEF row
  <2>1. \A x \in Tasks : ScheduleConsistent(tasks'[x])
    BY <1>1, <1>2 DEF SchedulerInv, TypeOK
  <2> QED
    BY <1>1, <1>2, <2>1 DEF SchedulerInv, TypeOK, ScheduleConsistent
<1>4. ActiveExists'
  BY <1>1 DEF SchedulerInv, ActiveExists
<1>5. ASSUME NEW p \in Passes
      PROVE  (pass[p].now <= clock /\ ClaimHeld(p) /\ FiredBeyond(p))'
  <2>1. pass[p].now <= clock /\ ClaimHeld(p) /\ FiredBeyond(p)
    BY DEF SchedulerInv
  <2>2. ~tasks[t].active
    BY DEF SchedulerInv, ActiveExists, CreateTask
  <2>3. ClaimHeld(p)'
    BY <1>1, <2>1, <2>2 DEF ClaimHeld, StillDue, Scheduled
  <2>4. pass[p].now \in Nat
    BY DEF SchedulerInv, TypeOK, PassState
  <2>5. FiredBeyond(p)'
    BY <1>1, <2>1, <2>4 DEF FiredBeyond, NextRunAt, Null
  <2> QED
    BY <1>1, <2>1, <2>3, <2>5
<1>6. \A q \in Requests : WriteAhead(q)'
  BY <1>1, SameRequests
<1> QED
  BY <1>3, <1>4, <1>5, <1>6 DEF SchedulerInv

\* A PATCH loads the row and computes what it will write.
LEMMA UpdateTaskStep ==
    ASSUME SchedulerInv, NEW q \in Requests, NEW t \in Tasks,
           NEW type \in Types \cup {"keep"}, NEW i \in {Keep, Null, Interval},
           UpdateTask(q, t, type, i)
    PROVE  SchedulerInv'
<1> USE SchedulerAssumption
<1> DEFINE row == tasks[t]
           final == IF i = Keep THEN row.interval ELSE i
           u == [task |-> t,
                 type |-> IF type = "keep" THEN "keep" ELSE Changed(row.type, type, "keep"),
                 interval |-> Changed(row.interval, final, Keep),
                 next |-> CASE i = Keep -> Keep
                            [] i = Null -> Changed(row.next, Null, Keep)
                            [] OTHER -> NextRunAt(i),
                 since |-> clock]
<1>1. /\ row \in TaskRow /\ clock \in 0..MaxTime /\ req \in [Requests -> Write]
      /\ req' = [req EXCEPT ![q] = u]
      /\ UNCHANGED <<tasks, lock, pass, clock, deaths, fired>>
  BY DEF SchedulerInv, TypeOK, UpdateTask
<1>2. u \in Write
  BY <1>1 DEF Write, TaskRow, Changed, NextRunAt, Null, Keep, Types
<1>3. /\ clock < u.since + Interval
      /\ u.next \in {Keep, Null, u.since + Interval}
      /\ u.interval = Interval => u.next = u.since + Interval
  BY <1>1 DEF Changed, NextRunAt, Null, Keep, TaskRow
<1>4. TypeOK'
  <2> HIDE DEF u
  <2> QED
    BY <1>1, <1>2 DEF SchedulerInv, TypeOK
<1>5. \A r \in Requests : WriteAhead(r)'
  <2> HIDE DEF u
  <2> QED
    BY <1>1, <1>3 DEF SchedulerInv, WriteAhead
<1> QED
  BY <1>1, <1>4, <1>5, SamePasses DEF SchedulerInv

\* It writes what it computed, perhaps over a row that has changed.
LEMMA CommitUpdateStep ==
    ASSUME SchedulerInv, NEW q \in Requests, CommitUpdate(q)
    PROVE  SchedulerInv'
<1> USE SchedulerAssumption
<1> DEFINE t == req[q].task
           new == Written(tasks[t], req[q])
<1>1. /\ req[q] \in Write /\ t \in Tasks /\ lock[t] = NoLock
      /\ tasks \in [Tasks -> TaskRow] /\ tasks[t] \in TaskRow
      /\ req' = [req EXCEPT ![q] = NoWrite]
      /\ UNCHANGED <<lock, pass, clock, deaths, fired>>
  BY DEF SchedulerInv, TypeOK, CommitUpdate, Write
<1>2. tasks' = [tasks EXCEPT ![t] = IF ScheduleConsistent(new) THEN new ELSE tasks[t]]
  BY DEF CommitUpdate
<1>3. /\ new \in TaskRow /\ new.active = tasks[t].active /\ new.exists = tasks[t].exists
      /\ new.interval = (IF req[q].interval = Keep THEN tasks[t].interval ELSE req[q].interval)
      /\ new.next = (IF req[q].next = Keep THEN tasks[t].next ELSE req[q].next)
  BY <1>1, RowTypes DEF SchedulerInv
<1> HIDE DEF new
<1>4. TypeOK'
  <2>1. NoWrite \in Write
    BY DEF NoWrite, Write, NoTask, Keep
  <2>2. tasks' \in [Tasks -> TaskRow]
    BY <1>1, <1>2, <1>3
  <2>3. \A x \in Tasks : ScheduleConsistent(tasks'[x])
    BY <1>1, <1>2 DEF SchedulerInv, TypeOK
  <2> QED
    BY <1>1, <2>1, <2>2, <2>3 DEF SchedulerInv, TypeOK, ScheduleConsistent
<1>5. ActiveExists'
  BY <1>1, <1>2, <1>3 DEF SchedulerInv, ActiveExists
<1>6. ASSUME NEW p \in Passes
      PROVE  (pass[p].now <= clock /\ ClaimHeld(p) /\ FiredBeyond(p))'
  <2>1. /\ pass[p].now <= clock /\ ClaimHeld(p) /\ FiredBeyond(p) /\ WriteAhead(q)
        /\ pass[p].now \in Nat /\ clock \in Nat
    BY DEF SchedulerInv, TypeOK, PassState
  <2>2. ClaimHeld(p)'
    BY <1>1, <1>2, <2>1 DEF ClaimHeld, StillDue, Scheduled, NoLock
  <2>3. ASSUME ScheduleConsistent(new), new.interval # Null
        PROVE  \/ new.next = tasks[t].next /\ tasks[t].interval # Null
               \/ new.next > clock
    <3>1. /\ clock < req[q].since + Interval
          /\ req[q].next \in {Keep, Null, req[q].since + Interval}
          /\ req[q].interval = Interval => req[q].next = req[q].since + Interval
      BY <1>1, <2>1 DEF WriteAhead, NoTask, Tasks
    <3>2. new.next # Null
      BY <2>3 DEF ScheduleConsistent
    <3>3. req[q].since + Interval \in Nat /\ req[q].interval \in {Keep, Null, Interval}
      BY <1>1 DEF Write
    <3> QED
      BY <1>3, <2>1, <2>3, <3>1, <3>2, <3>3 DEF Keep, Null
  <2>4. ASSUME NEW x \in Tasks
        PROVE  (/\ fired[p][x] <= 1
                /\ (pass[p].at # "idle" /\ fired[p][x] = 1 /\ tasks[x].interval # Null)
                      => tasks[x].next > pass[p].now)'
    <3>1. CASE x = t /\ ScheduleConsistent(new)
      <4>1. tasks'[x] = new /\ new.next \in Int /\ tasks[t].next \in Int
        BY <1>1, <1>2, <1>3, <3>1 DEF TaskRow
      <4> QED
        BY <1>1, <2>1, <2>3, <3>1, <4>1 DEF FiredBeyond
    <3>2. CASE ~(x = t /\ ScheduleConsistent(new))
      BY <1>1, <1>2, <2>1, <3>2 DEF FiredBeyond
    <3> QED
      BY <3>1, <3>2
  <2> QED
    BY <1>1, <2>1, <2>2, <2>4 DEF FiredBeyond
<1>7. \A r \in Requests : WriteAhead(r)'
  BY <1>1 DEF SchedulerInv, TypeOK, WriteAhead, NoWrite
<1> QED
  BY <1>4, <1>5, <1>6, <1>7 DEF SchedulerInv

\* A soft delete.
LEMMA DeleteTaskStep ==
    ASSUME SchedulerInv, NEW t \in Tasks, DeleteTask(t)
    PROVE  SchedulerInv'
<1>1. /\ tasks \in [Tasks -> TaskRow] /\ tasks[t] \in TaskRow /\ lock[t] = NoLock
      /\ tasks' = [tasks EXCEPT ![t] = [tasks[t] EXCEPT !.active = FALSE]]
      /\ UNCHANGED <<lock, pass, req, clock, deaths, fired>>
  BY DEF SchedulerInv, TypeOK, DeleteTask
<1>2. TypeOK'
  <2>1. [tasks[t] EXCEPT !.active = FALSE] \in TaskRow
    BY <1>1 DEF TaskRow
  <2> QED
    BY <1>1, <2>1 DEF SchedulerInv, TypeOK, ScheduleConsistent, TaskRow
<1>3. ActiveExists'
  BY <1>1 DEF SchedulerInv, ActiveExists, TaskRow
<1>4. ASSUME NEW p \in Passes
      PROVE  (pass[p].now <= clock /\ ClaimHeld(p) /\ FiredBeyond(p))'
  <2>1. /\ pass[p].now <= clock /\ ClaimHeld(p) /\ FiredBeyond(p)
        /\ \A x \in Tasks : /\ tasks'[x].interval = tasks[x].interval
                            /\ tasks'[x].next = tasks[x].next
    BY <1>1 DEF SchedulerInv, TaskRow
  <2>2. ClaimHeld(p)'
    BY <1>1, <2>1, SchedulerAssumption DEF ClaimHeld, StillDue, Scheduled, NoLock
  <2>3. FiredBeyond(p)'
    BY <1>1, <2>1 DEF FiredBeyond
  <2> QED
    BY <1>1, <2>1, <2>2, <2>3
<1> QED
  BY <1>1, <1>2, <1>3, <1>4, SameRequests DEF SchedulerInv

\* Time passes, but no request outlasts an interval.
LEMMA TickStep ==
    ASSUME SchedulerInv, Tick
    PROVE  SchedulerInv'
<1> USE SchedulerAssumption
<1>1. /\ clock \in 0..MaxTime /\ clock < MaxTime /\ clock' = clock + 1
      /\ \A q \in Requests : req[q].task # NoTask => clock + 1 < req[q].since + Interval
      /\ UNCHANGED <<tasks, lock, pass, req, deaths, fired>>
  BY DEF SchedulerInv, TypeOK, Tick
<1>2. TypeOK'
  BY <1>1 DEF SchedulerInv, TypeOK
<1>3. ActiveExists'
  BY <1>1 DEF SchedulerInv, ActiveExists
<1>4. ASSUME NEW p \in Passes
      PROVE  (pass[p].now <= clock /\ ClaimHeld(p) /\ FiredBeyond(p))'
  <2>1. pass[p].now <= clock /\ ClaimHeld(p) /\ FiredBeyond(p) /\ pass[p].now \in Nat
    BY DEF SchedulerInv, TypeOK, PassState
  <2> QED
    BY <1>1, <2>1 DEF ClaimHeld, FiredBeyond, StillDue, Scheduled
<1>5. \A q \in Requests : WriteAhead(q)'
  BY <1>1 DEF SchedulerInv, WriteAhead
<1> QED
  BY <1>2, <1>3, <1>4, <1>5 DEF SchedulerInv

(***************************************************************************)
(* The passes.                                                             *)
(***************************************************************************)

\* A set of numbers that is not empty has a least element.
LEMMA LeastNumber ==
    ASSUME NEW S \in SUBSET Nat, S # {}
    PROVE  \E x \in S : \A y \in S : x <= y
<1>1. PICK x \in S : \A y \in S : <<y, x>> \notin OpToRel(<, Nat)
  BY NatLessThanWellFounded, WFMin
<1>2. \A y \in S : ~(y < x)
  BY <1>1 DEF OpToRel
<1> QED
  BY <1>2

\* ORDER BY next_run_at, id LIMIT 1 returns a row whenever one qualifies.
LEMMA FirstExists ==
    ASSUME SchedulerInv, NEW S \in SUBSET Tasks, S # {}
    PROVE  First(S) \in S
<1>1. \A t \in S : tasks[t].next \in Nat /\ t \in Nat
  BY SchedulerAssumption DEF SchedulerInv, TypeOK, TaskRow, Tasks
<1> DEFINE times == {tasks[t].next : t \in S}
<1>2. PICK n \in times : \A m \in times : n <= m
  <2>1. times \in SUBSET Nat /\ times # {}
    BY <1>1
  <2> HIDE DEF times
  <2> QED
    BY <2>1, LeastNumber
<1> DEFINE earliest == {t \in S : tasks[t].next = n}
<1>3. PICK t \in earliest : \A u \in earliest : t <= u
  <2>1. earliest \in SUBSET Nat /\ earliest # {}
    BY <1>1, <1>2
  <2> HIDE DEF earliest
  <2> QED
    BY <2>1, LeastNumber
<1>4. ASSUME NEW u \in S
      PROVE  \/ tasks[t].next < tasks[u].next
             \/ tasks[t].next = tasks[u].next /\ t <= u
  <2>1. tasks[t].next = n /\ tasks[u].next \in times
    BY <1>3
  <2>2. n <= tasks[u].next
    BY <1>2, <2>1
  <2>3. tasks[u].next = n => t <= u
    BY <1>3
  <2> QED
    BY <1>1, <1>3, <2>1, <2>2, <2>3
<1> QED
  BY <1>3, <1>4 DEF First

\* A pass starts and reads the clock, once.
LEMMA StartPassStep ==
    ASSUME SchedulerInv, NEW p \in Passes, StartPass(p)
    PROVE  SchedulerInv'
<1> USE SchedulerAssumption
<1>1. /\ pass \in [Passes -> PassState] /\ clock \in 0..MaxTime
      /\ fired \in [Passes -> [Tasks -> Nat]]
      /\ pass' = [pass EXCEPT ![p] = [Idle EXCEPT !.at = "select", !.now = clock]]
      /\ fired' = [fired EXCEPT ![p] = [t \in Tasks |-> 0]]
      /\ UNCHANGED <<tasks, lock, req, clock, deaths>>
  BY DEF SchedulerInv, TypeOK, StartPass
<1>2. TypeOK'
  <2>1. [Idle EXCEPT !.at = "select", !.now = clock] \in PassState
    <3>1. Idle \in PassState
      BY DEF Idle, PassState, NoTask
    <3> QED
      BY <1>1, <3>1, Zenon DEF PassState
  <2>2. fired' \in [Passes -> [Tasks -> Nat]]
    BY <1>1
  <2>3. pass' \in [Passes -> PassState]
    BY <1>1, <2>1
  <2> QED
    BY <1>1, <2>2, <2>3 DEF SchedulerInv, TypeOK
<1>3. ASSUME NEW x \in Passes
      PROVE  (pass[x].now <= clock /\ ClaimHeld(x) /\ FiredBeyond(x))'
  <2>1. pass[x].now <= clock /\ ClaimHeld(x) /\ FiredBeyond(x)
    BY DEF SchedulerInv
  <2>2. CASE x = p
    <3>1. pass'[x].at = "select" /\ pass'[x].now = clock /\ \A t \in Tasks : fired'[x][t] = 0
      BY <1>1, <2>2 DEF Idle
    <3> QED
      BY <1>1, <3>1 DEF ClaimHeld, FiredBeyond
  <2>3. CASE x # p
    BY <1>1, <2>1, <2>3 DEF ClaimHeld, FiredBeyond, StillDue, Scheduled
  <2> QED
    BY <2>2, <2>3
<1> QED
  BY <1>1, <1>2, <1>3, SameRequests DEF SchedulerInv, ActiveExists

\* The pass locks the first due task.
LEMMA SelectStep ==
    ASSUME SchedulerInv, NEW p \in Passes, Select(p)
    PROVE  SchedulerInv'
<1> USE SchedulerAssumption
<1> DEFINE t == First(Unlocked(Due(p)))
<1>1. t \in Unlocked(Due(p))
  <2>1. Unlocked(Due(p)) \in SUBSET Tasks /\ Unlocked(Due(p)) # {}
    BY DEF Select, Unlocked, Due
  <2> QED
    BY <2>1, FirstExists
<1>2. t \in Tasks /\ lock[t] = NoLock /\ Scheduled(t) /\ tasks[t].next <= pass[p].now
  BY <1>1 DEF Unlocked, Due
<1>3. /\ pass \in [Passes -> PassState] /\ pass[p].at = "select"
      /\ pass[p].attempted < BatchSize /\ lock \in [Tasks -> Passes \cup {NoLock}]
      /\ lock' = [lock EXCEPT ![t] = p]
      /\ pass' = [pass EXCEPT ![p] = [pass[p] EXCEPT !.at = "claimed",
                    !.attempted = pass[p].attempted + 1, !.task = t, !.old = tasks[t].next]]
      /\ UNCHANGED <<tasks, req, clock, deaths, fired>>
  BY DEF SchedulerInv, TypeOK, Select
<1> HIDE DEF t
<1>4. TypeOK'
  <2>1. pass[p] \in PassState /\ tasks[t].next \in 0..(MaxTime + Interval)
    BY <1>2, <1>3 DEF SchedulerInv, TypeOK, TaskRow
  <2>2. [pass[p] EXCEPT !.at = "claimed", !.attempted = pass[p].attempted + 1,
                        !.task = t, !.old = tasks[t].next] \in PassState
    <3>1. pass[p].attempted + 1 \in 0..BatchSize
      BY <1>3, <2>1 DEF PassState
    <3> QED
      BY <1>2, <2>1, <3>1, Zenon DEF PassState
  <2>3. lock' \in [Tasks -> Passes \cup {NoLock}] /\ pass' \in [Passes -> PassState]
    BY <1>2, <1>3, <2>2
  <2> QED
    BY <1>3, <2>3 DEF SchedulerInv, TypeOK
<1>5. ASSUME NEW x \in Passes
      PROVE  (pass[x].now <= clock /\ ClaimHeld(x) /\ FiredBeyond(x))'
  <2>1. pass[x].now <= clock /\ ClaimHeld(x) /\ FiredBeyond(x)
    BY DEF SchedulerInv
  <2>2. CASE x = p
    <3>1. /\ pass'[x].at = "claimed" /\ pass'[x].now = pass[x].now
          /\ pass'[x].task = t /\ pass'[x].old = tasks[t].next
      BY <1>3, <2>2 DEF PassState
    <3>2. ClaimHeld(x)'
      BY <1>2, <1>3, <2>2, <3>1 DEF ClaimHeld, StillDue, Scheduled
    <3>3. FiredBeyond(x)'
      BY <1>3, <2>1, <2>2, <3>1 DEF FiredBeyond
    <3> QED
      BY <1>3, <2>1, <3>1, <3>2, <3>3
  <2>3. CASE x # p
    <3>1. pass'[x] = pass[x]
      BY <1>3, <2>3
    <3>2. ClaimHeld(x)'
      BY <1>2, <1>3, <2>1, <3>1 DEF ClaimHeld, StillDue, Scheduled, NoLock
    <3>3. FiredBeyond(x)'
      BY <1>3, <2>1, <3>1 DEF FiredBeyond
    <3> QED
      BY <1>3, <2>1, <3>1, <3>2, <3>3
  <2> QED
    BY <2>2, <2>3
<1> QED
  BY <1>3, <1>4, <1>5, SameRequests DEF SchedulerInv, ActiveExists

\* A pass that stops, at its end or by the death of its worker, takes nothing
\* from the others.
LEMMA EndPassStep ==
    ASSUME SchedulerInv, NEW p \in Passes, EndPass(p) \/ PassDies(p)
    PROVE  SchedulerInv'
<1> USE SchedulerAssumption
<1>1. /\ pass \in [Passes -> PassState] /\ lock \in [Tasks -> Passes \cup {NoLock}]
      /\ pass' = [pass EXCEPT ![p] = Idle]
      /\ lock' = lock \/ lock' = [t \in Tasks |-> IF lock[t] = p THEN NoLock ELSE lock[t]]
      /\ deaths' \in 0..MaxDeaths
      /\ UNCHANGED <<tasks, req, clock, fired>>
  BY DEF SchedulerInv, TypeOK, EndPass, PassDies
<1>2. TypeOK'
  <2>1. Idle \in PassState
    BY DEF Idle, PassState, NoTask
  <2> QED
    BY <1>1, <2>1 DEF SchedulerInv, TypeOK
<1>3. ASSUME NEW x \in Passes
      PROVE  (pass[x].now <= clock /\ ClaimHeld(x) /\ FiredBeyond(x))'
  <2>1. /\ pass[x].now <= clock /\ ClaimHeld(x) /\ FiredBeyond(x) /\ clock \in Nat
    BY DEF SchedulerInv, TypeOK
  <2>2. CASE x = p
    BY <1>1, <2>1, <2>2 DEF ClaimHeld, FiredBeyond, Idle
  <2>3. CASE x # p
    BY <1>1, <2>1, <2>3 DEF ClaimHeld, FiredBeyond, StillDue, Scheduled
  <2> QED
    BY <2>2, <2>3
<1> QED
  BY <1>1, <1>2, <1>3, SameRequests DEF SchedulerInv, ActiveExists

\* What both ends of a claim do: the row is unlocked, the pass goes on.
LEMMA Released ==
    ASSUME SchedulerInv, NEW p \in Passes, NEW next \in PassState,
           pass[p].at = "claimed",
           next.at = "select", next.now = pass[p].now,
           lock' = [lock EXCEPT ![pass[p].task] = NoLock],
           pass' = [pass EXCEPT ![p] = next]
    PROVE  /\ lock' \in [Tasks -> Passes \cup {NoLock}]
           /\ pass' \in [Passes -> PassState]
           /\ pass'[p].at = "select" /\ pass'[p].now = pass[p].now
           /\ \A x \in Passes \ {p} :
                /\ pass'[x] = pass[x]
                /\ pass[x].at = "claimed" =>
                      pass[x].task # pass[p].task /\ lock'[pass[x].task] = x
<1>1. /\ pass \in [Passes -> PassState]
      /\ lock \in [Tasks -> Passes \cup {NoLock}]
      /\ \A x \in Passes : pass[x].at = "claimed" =>
            pass[x].task \in Tasks /\ lock[pass[x].task] = x
  BY DEF SchedulerInv, TypeOK, ClaimHeld
<1> QED
  BY <1>1

\* It fires the task: what it wrote is beyond its own time.
LEMMA FireStep ==
    ASSUME SchedulerInv, NEW p \in Passes, Fire(p)
    PROVE  SchedulerInv'
<1> USE SchedulerAssumption
<1> DEFINE t == pass[p].task
           new == pass[p].now + tasks[t].interval
           next == [pass[p] EXCEPT !.at = "select", !.task = NoTask, !.old = 0]
<1>1. /\ pass \in [Passes -> PassState] /\ pass[p] \in PassState
      /\ tasks \in [Tasks -> TaskRow] /\ fired \in [Passes -> [Tasks -> Nat]]
      /\ t \in Tasks /\ tasks[t] \in TaskRow /\ clock \in Nat
      /\ pass[p].at = "claimed" /\ StillDue(p, t) /\ pass[p].old <= pass[p].now
      /\ pass[p].now <= clock /\ lock[t] = p
  BY DEF SchedulerInv, TypeOK, Fire, ClaimHeld
<1>2. /\ tasks' = [tasks EXCEPT ![t] = [tasks[t] EXCEPT !.next = new]]
      /\ fired' = [fired EXCEPT ![p] = [fired[p] EXCEPT ![t] = fired[p][t] + 1]]
      /\ lock' = [lock EXCEPT ![t] = NoLock]
      /\ pass' = [pass EXCEPT ![p] = next]
      /\ UNCHANGED <<req, clock, deaths>>
  BY <1>1 DEF Fire, Advanced
<1>3. /\ tasks[t].interval = Interval /\ new = pass[p].now + Interval
      /\ new \in 0..(MaxTime + Interval) /\ tasks[t].next <= pass[p].now
      /\ pass[p].now \in Nat /\ tasks[t].next \in Nat
  BY <1>1 DEF StillDue, Scheduled, TaskRow, PassState
<1>4. fired[p][t] = 0
  <2>1. FiredBeyond(p)
    BY DEF SchedulerInv
  <2>2. fired[p][t] \in Nat /\ tasks[t].interval # Null /\ pass[p].at # "idle"
    BY <1>1, <1>3 DEF Null
  <2>3. fired[p][t] = 1 => tasks[t].next > pass[p].now
    BY <1>1, <2>1, <2>2, Zenon DEF FiredBeyond
  <2>4. fired[p][t] <= 1
    BY <1>1, <2>1, Zenon DEF FiredBeyond
  <2> QED
    BY <1>3, <2>2, <2>3, <2>4
<1>5. next \in PassState /\ next.at = "select" /\ next.now = pass[p].now
  <2>1. 0 \in 0..(MaxTime + Interval) /\ pass[p] \in PassState
    BY <1>1
  <2>2. next \in PassState
    BY <2>1, Zenon DEF PassState
  <2>3. next.at = "select" /\ next.now = pass[p].now
    BY <2>1, Zenon DEF PassState
  <2> QED
    BY <2>2, <2>3
<1> HIDE DEF next
<1>6. /\ lock' \in [Tasks -> Passes \cup {NoLock}]
      /\ pass' \in [Passes -> PassState]
      /\ pass'[p].at = "select" /\ pass'[p].now = pass[p].now
      /\ \A x \in Passes \ {p} :
           /\ pass'[x] = pass[x]
           /\ pass[x].at = "claimed" => pass[x].task # t /\ lock'[pass[x].task] = x
  BY <1>1, <1>2, <1>5, Released
<1> HIDE DEF new
<1>7. TypeOK'
  <2>1. [tasks[t] EXCEPT !.next = new] \in TaskRow
    BY <1>1, <1>3 DEF TaskRow
  <2>2. tasks' \in [Tasks -> TaskRow]
    BY <1>1, <1>2, <2>1
  <2>3. fired' \in [Passes -> [Tasks -> Nat]]
    BY <1>1, <1>2
  <2>4. ScheduleConsistent([tasks[t] EXCEPT !.next = new])
    BY <1>1, <1>3 DEF ScheduleConsistent, TaskRow, Null
  <2>5. \A x \in Tasks : ScheduleConsistent(tasks'[x])
    BY <1>1, <1>2, <2>4 DEF SchedulerInv, TypeOK
  <2> QED
    BY <1>2, <1>6, <2>2, <2>3, <2>5 DEF SchedulerInv, TypeOK, ScheduleConsistent
<1>8. ActiveExists'
  BY <1>1, <1>2 DEF SchedulerInv, ActiveExists, TaskRow
<1>9. /\ tasks'[t].next = new /\ tasks'[t].interval = Interval
      /\ \A y \in Tasks \ {t} : tasks'[y] = tasks[y]
  BY <1>1, <1>2, <1>3 DEF TaskRow
<1>10. ASSUME NEW x \in Passes
       PROVE  (pass[x].now <= clock /\ ClaimHeld(x) /\ FiredBeyond(x))'
  <2>1. /\ pass[x].now <= clock /\ ClaimHeld(x) /\ FiredBeyond(x)
        /\ pass[x].now \in Nat
    BY DEF SchedulerInv, TypeOK, PassState
  <2>2. CASE x = p
    <3>1. ClaimHeld(x)'
      BY <1>6, <2>2 DEF ClaimHeld
    <3>2. FiredBeyond(x)'
      BY <1>1, <1>2, <1>3, <1>4, <1>6, <1>9, <2>1, <2>2 DEF FiredBeyond
    <3> QED
      BY <1>2, <1>6, <2>1, <2>2, <3>1, <3>2
  <2>3. CASE x # p
    <3>1. ClaimHeld(x)'
      BY <1>6, <1>9, <2>1, <2>3 DEF ClaimHeld, StillDue, Scheduled
    <3>2. FiredBeyond(x)'
      \* The task was due for p, so if x has fired it x began before p.
      BY <1>1, <1>2, <1>3, <1>6, <1>9, <2>1, <2>3 DEF FiredBeyond
    <3> QED
      BY <1>2, <1>6, <2>1, <2>3, <3>1, <3>2
  <2> QED
    BY <2>2, <2>3
<1> QED
  BY <1>2, <1>7, <1>8, <1>10, SameRequests DEF SchedulerInv

\* It fails to, and excludes the task.
LEMMA FireFailsStep ==
    ASSUME SchedulerInv, NEW p \in Passes, FireFails(p)
    PROVE  SchedulerInv'
<1> USE SchedulerAssumption
<1> DEFINE t == pass[p].task
           next == [pass[p] EXCEPT !.at = "select", !.task = NoTask, !.old = 0,
                                   !.excluded = pass[p].excluded \cup {t}]
<1>1. /\ pass \in [Passes -> PassState] /\ pass[p] \in PassState
      /\ t \in Tasks /\ pass[p].at = "claimed"
  BY DEF SchedulerInv, TypeOK, FireFails, ClaimHeld
<1>2. /\ lock' = [lock EXCEPT ![t] = NoLock]
      /\ pass' = [pass EXCEPT ![p] = next]
      /\ UNCHANGED <<tasks, req, clock, deaths, fired>>
  BY DEF FireFails
<1>3. next \in PassState /\ next.at = "select" /\ next.now = pass[p].now
  <2>1. 0 \in 0..(MaxTime + Interval) /\ pass[p] \in PassState
    BY <1>1
  <2>0. pass[p].excluded \cup {t} \in SUBSET Tasks
    BY <1>1 DEF PassState
  <2>2. next \in PassState
    BY <2>1, <2>0, Zenon DEF PassState
  <2>3. next.at = "select" /\ next.now = pass[p].now
    BY <2>1, Zenon DEF PassState
  <2> QED
    BY <2>2, <2>3
<1> HIDE DEF next
<1>4. /\ lock' \in [Tasks -> Passes \cup {NoLock}]
      /\ pass' \in [Passes -> PassState]
      /\ pass'[p].at = "select" /\ pass'[p].now = pass[p].now
      /\ \A x \in Passes \ {p} :
           /\ pass'[x] = pass[x]
           /\ pass[x].at = "claimed" => pass[x].task # t /\ lock'[pass[x].task] = x
  BY <1>1, <1>2, <1>3, Released
<1>5. TypeOK'
  BY <1>2, <1>4 DEF SchedulerInv, TypeOK
<1>6. ASSUME NEW x \in Passes
      PROVE  (pass[x].now <= clock /\ ClaimHeld(x) /\ FiredBeyond(x))'
  <2>1. pass[x].now <= clock /\ ClaimHeld(x) /\ FiredBeyond(x)
    BY DEF SchedulerInv
  <2>2. CASE x = p
    BY <1>1, <1>2, <1>4, <2>1, <2>2 DEF ClaimHeld, FiredBeyond
  <2>3. CASE x # p
    BY <1>2, <1>4, <2>1, <2>3 DEF ClaimHeld, FiredBeyond, StillDue, Scheduled
  <2> QED
    BY <2>2, <2>3
<1> QED
  BY <1>2, <1>5, <1>6, SameRequests DEF SchedulerInv, ActiveExists

-----------------------------------------------------------------------------
\* Every step preserves the invariant.
LEMMA NextSchedulerInv == SchedulerInv /\ [Next]_vars => SchedulerInv'
<1> SUFFICES ASSUME SchedulerInv, [Next]_vars
             PROVE  SchedulerInv'
  OBVIOUS
<1>1. CASE UNCHANGED vars
  <2>1. TypeOK'
    BY <1>1 DEF SchedulerInv, TypeOK, vars
  <2>2. UNCHANGED <<tasks, lock, pass, fired, clock, req>>
    BY <1>1 DEF vars
  <2> QED
    BY <2>1, <2>2, SamePasses, SameRequests DEF SchedulerInv
<1>2. CASE Api
  BY <1>2, CreateTaskStep, UpdateTaskStep, CommitUpdateStep, DeleteTaskStep DEF Api
<1>3. CASE Tick
  BY <1>3, TickStep
<1>4. ASSUME NEW p \in Passes, RunDueSchedules(p)
      PROVE  SchedulerInv'
  BY <1>4, StartPassStep, SelectStep, EndPassStep, FireStep, FireFailsStep
     DEF RunDueSchedules
<1> QED
  BY <1>1, <1>2, <1>3, <1>4 DEF Next

\* The inductive invariant holds of every behavior of the scheduler.
THEOREM SchedulerInvariant == Spec => []SchedulerInv
BY InitSchedulerInv, NextSchedulerInv, PTL DEF Spec

\* Rows, locks, passes and requests keep their types under every interleaving,
\* and every row satisfies ck_tasks_schedule_consistency: a task has a next run
\* exactly if it has an interval.
THEOREM SchedulerTypes == Spec => []TypeOK
<1>1. SchedulerInv => TypeOK
  BY DEF SchedulerInv
<1> QED
  BY <1>1, SchedulerInvariant, PTL

\* run_due_schedules: however far a schedule lies behind, and whatever PATCHes
\* and other passes do meanwhile, a pass creates at most one run for a task.
THEOREM OneRunPerTaskAndPass == Spec => []OneCatchUpPerPass
<1>1. SchedulerInv => OneCatchUpPerPass
  BY DEF SchedulerInv, FiredBeyond, OneCatchUpPerPass
<1> QED
  BY <1>1, SchedulerInvariant, PTL

\* FOR UPDATE SKIP LOCKED: a claimed occurrence is locked by its claimer and
\* is what the claimer read, so no two passes fire it.
THEOREM ClaimsAreExclusive == Spec => []ClaimIsExclusive
<1>1. SchedulerInv => ClaimIsExclusive
  BY DEF SchedulerInv, ClaimHeld, ClaimIsExclusive
<1> QED
  BY <1>1, SchedulerInvariant, PTL

\* delete_task: a soft-deleted task gets no further scheduled run.
THEOREM DeletedTasksRest == Spec => NoRunAfterDelete
<1> DEFINE A == \A p \in Passes, t \in Tasks :
                   fired'[p][t] > fired[p][t] => tasks[t].active
<1>1. SchedulerInv /\ [Next]_vars => [A]_vars
  <2> SUFFICES ASSUME SchedulerInv, Next, NEW p \in Passes, NEW t \in Tasks,
                      fired'[p][t] > fired[p][t]
               PROVE  tasks[t].active
    OBVIOUS
  <2>1. fired \in [Passes -> [Tasks -> Nat]]
    BY DEF SchedulerInv, TypeOK
  <2>2. ASSUME NEW x \in Passes, StartPass(x) PROVE tasks[t].active
    BY <2>1, <2>2 DEF StartPass
  <2>3. ASSUME NEW x \in Passes, Fire(x) PROVE tasks[t].active
    BY <2>1, <2>3 DEF Fire, StillDue, Scheduled
  <2>4. ASSUME UNCHANGED fired PROVE tasks[t].active
    BY <2>1, <2>4
  <2> QED
    BY <2>2, <2>3, <2>4 DEF Next, Api, CreateTask, UpdateTask, CommitUpdate, DeleteTask,
       Tick, RunDueSchedules, Select, EndPass, FireFails, PassDies
<1> HIDE DEF A
<1>2. Spec => [][A]_vars
  BY <1>1, SchedulerInvariant, PTL DEF Spec
<1> QED
  BY <1>2 DEF A, NoRunAfterDelete

=============================================================================
