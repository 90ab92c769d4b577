-------------------------- MODULE TaskEngineProofs --------------------------
(***************************************************************************)
(* Proofs about TaskEngine, for any number of workers, runs, attempts and  *)
(* crashes and any batch size.                                             *)
(***************************************************************************)
EXTENDS TaskEngine, TLAPS

(***************************************************************************)
(* Type correctness.                                                       *)
(***************************************************************************)

\* Every row operator maps a row to a row.
LEMMA RowOperators ==
    ASSUME NEW row \in Row
    PROVE  /\ \A t \in Nat : ClaimedRow(row, t) \in Row
           /\ HeartbeatRow(row) \in Row
           /\ ExpiredRow(row) \in Row
           /\ DueRow(row) \in Row
           /\ SucceededRow(row) \in Row
           /\ RequeuedRow(row) \in Row
           /\ FailedRow(row) \in Row
           /\ AbsentRow \in Row
           /\ NewRow \in Row
BY DEF Row, Statuses, NullToken, MakeRow, ClaimedRow, HeartbeatRow,
       ExpiredRow, DueRow, SucceededRow, RequeuedRow, FailedRow, AbsentRow,
       NewRow

\* Every event operator maps a trail to a trail.
LEMMA EventOperators ==
    ASSUME NEW a \in AuditTrail, NEW by \in Workers \cup {Reaper}
    PROVE  /\ by \in Workers => ClaimedEvent(a, by) \in AuditTrail
           /\ RequeuedEvent(a, by) \in AuditTrail
           /\ SucceededEvent(a, by) \in AuditTrail
           /\ FailedEvent(a, by) \in AuditTrail
BY DEF AuditTrail, MakeTrail, ClaimedEvent, RequeuedEvent, SucceededEvent,
       FailedEvent

\* What a session loads is a snapshot.
LEMMA SnapshotTypes ==
    ASSUME TypeOK, NEW r \in Runs, NEW t \in Nat
    PROVE  /\ Load(r, t) \in Snapshot
           /\ NoSnapshot \in Snapshot
<1>1. runs[r] \in Row /\ limit \in Nat
  BY EngineAssumption DEF TypeOK
<1>2. runs[r].status \in Statuses /\ runs[r].attempts \in Nat
  BY <1>1 DEF Row
<1> QED
  BY <1>1, <1>2 DEF Load, NoSnapshot, Snapshot, Statuses, NullToken

\* complete_failure's two UPDATEs keep the types, whoever reports.
LEMMA WriteFailureType ==
    ASSUME TypeOK, NEW s \in Snapshot, NEW b \in BOOLEAN,
           NEW by \in Workers \cup {Reaper}, WriteFailure(s, b, by)
    PROVE  runs' \in [Runs -> Row] /\ audit' \in [Runs -> AuditTrail]
<1>1. CASE s.run \in Runs
  <2>1. runs[s.run] \in Row /\ audit[s.run] \in AuditTrail
    BY <1>1 DEF TypeOK
  <2>2. /\ RequeuedRow(runs[s.run]) \in Row
        /\ FailedRow(runs[s.run]) \in Row
        /\ RequeuedEvent(audit[s.run], by) \in AuditTrail
        /\ FailedEvent(audit[s.run], by) \in AuditTrail
    BY <2>1, RowOperators, EventOperators
  <2> QED
    BY <2>2 DEF WriteFailure, TypeOK
<1>2. CASE s.run \notin Runs
  BY <1>2 DEF WriteFailure, TypeOK
<1> QED
  BY <1>1, <1>2

\* Init satisfies the type invariant.
LEMMA InitType == Init => TypeOK
<1> SUFFICES ASSUME Init PROVE TypeOK
  OBVIOUS
<1>1. AbsentRow \in Row
  BY DEF AbsentRow, MakeRow, Row, Statuses, NullToken
<1>2. NoSnapshot \in Snapshot
  BY DEF NoSnapshot, Snapshot, Statuses, NullToken
<1>3. audit \in [Runs -> AuditTrail]
  BY DEF Init, EmptyTrail, MakeTrail, AuditTrail
<1> QED
  BY <1>1, <1>2, <1>3, EngineAssumption DEF Init, TypeOK

\* Each kind of step keeps the type invariant.
LEMMA NextType == TypeOK /\ [Next]_vars => TypeOK'
<1> SUFFICES ASSUME TypeOK, [Next]_vars PROVE TypeOK'
  OBVIOUS
<1> USE EngineAssumption
<1>rows. \A r \in Runs : runs[r] \in Row /\ audit[r] \in AuditTrail
  BY DEF TypeOK
<1>snaps. \A w \in Workers : snap[w] \in Snapshot
  BY DEF TypeOK
<1>none. NoSnapshot \in Snapshot
  BY DEF NoSnapshot, Snapshot, Statuses, NullToken
<1>1. ASSUME NEW r \in Runs, CreateTaskRun(r) PROVE TypeOK'
  <2>1. NewRow \in Row
    BY <1>rows, RowOperators
  <2> QED
    BY <1>1, <2>1 DEF CreateTaskRun, TypeOK, workerVars
<1>2. ASSUME NEW r \in Runs, LeaseExpires(r) PROVE TypeOK'
  <2>1. ExpiredRow(runs[r]) \in Row
    BY <1>rows, RowOperators
  <2> QED
    BY <1>2, <2>1 DEF LeaseExpires, TypeOK, workerVars
<1>3. ASSUME NEW r \in Runs, RetryDue(r) PROVE TypeOK'
  <2>1. DueRow(runs[r]) \in Row
    BY <1>rows, RowOperators
  <2> QED
    BY <1>3, <2>1 DEF RetryDue, TypeOK, workerVars
<1>4. ASSUME NEW n \in 1..MaxAttempts, UpdateMaxAttempts(n) PROVE TypeOK'
  BY <1>4 DEF UpdateMaxAttempts, TypeOK, workerVars
<1>5. ASSUME NEW w \in Workers, NEW locked \in SUBSET Claimable,
             Claim(w, locked)
      PROVE  TypeOK'
  <2> DEFINE claimed == Oldest(Claimable \ locked, BatchSize)
  <2>1. claimed \subseteq Runs
    BY DEF Oldest, Claimable
  <2>2. \A r \in Runs : /\ ClaimedRow(runs[r], FreshToken(r)) \in Row
                        /\ ClaimedEvent(audit[r], w) \in AuditTrail
    <3> SUFFICES ASSUME NEW r \in Runs
                 PROVE  /\ ClaimedRow(runs[r], FreshToken(r)) \in Row
                        /\ ClaimedEvent(audit[r], w) \in AuditTrail
      OBVIOUS
    <3>1. FreshToken(r) \in Nat
      BY <1>rows DEF FreshToken, AuditTrail
    <3> QED
      BY <3>1, <1>rows, RowOperators, EventOperators
  <2>3. runs' \in [Runs -> Row] /\ audit' \in [Runs -> AuditTrail]
    BY <1>5, <1>rows, <2>2 DEF Claim
  <2>4. lapsed' \in [Runs -> BOOLEAN]
    BY <1>5 DEF Claim, TypeOK
  <2> HIDE DEF claimed
  <2>5. batch' \in [Workers -> SUBSET Runs]
    BY <1>5, <2>1 DEF Claim, TypeOK, claimed
  <2> QED
    BY <1>5, <2>3, <2>4, <2>5 DEF Claim, TypeOK
<1>6. ASSUME NEW w \in Workers, StartExecution(w) PROVE TypeOK'
  <2>1. PICK r \in batch[w] :
          /\ snap' = [snap EXCEPT ![w] = Load(r, runs[r].token)]
          /\ batch' = [batch EXCEPT ![w] = @ \ {r}]
    BY <1>6 DEF StartExecution
  <2>2. r \in Runs /\ runs[r].token \in Nat
    BY <1>rows DEF TypeOK, Row
  <2>3. Load(r, runs[r].token) \in Snapshot
    BY <2>2, SnapshotTypes
  <2> QED
    BY <1>6, <2>1, <2>3 DEF StartExecution, TypeOK, dbVars
<1>7. ASSUME NEW w \in Workers, Heartbeat(w) PROVE TypeOK'
  <2>1. CASE Owns(snap[w].run, snap[w].token)
    <3>1. CASE snap[w].run \in Runs
      <4>1. HeartbeatRow(runs[snap[w].run]) \in Row
        BY <3>1, <1>rows, RowOperators
      <4> QED
        BY <1>7, <2>1, <4>1 DEF Heartbeat, TypeOK
    <3>2. CASE snap[w].run \notin Runs
      BY <1>7, <2>1, <3>2 DEF Heartbeat, TypeOK
    <3> QED
      BY <3>1, <3>2
  <2>2. CASE ~Owns(snap[w].run, snap[w].token)
    BY <1>7, <2>2 DEF Heartbeat, TypeOK
  <2> QED
    BY <2>1, <2>2
<1>8. ASSUME NEW w \in Workers, HeartbeatDies(w) PROVE TypeOK'
  BY <1>8 DEF HeartbeatDies, TypeOK, dbVars
<1>9. ASSUME NEW w \in Workers, CompleteSuccess(w) PROVE TypeOK'
  <2>1. runs' \in [Runs -> Row] /\ audit' \in [Runs -> AuditTrail]
    <3>1. CASE snap[w].run \in Runs
      <4>1. /\ SucceededRow(runs[snap[w].run]) \in Row
            /\ SucceededEvent(audit[snap[w].run], w) \in AuditTrail
        BY <3>1, <1>rows, RowOperators, EventOperators
      <4> QED
        BY <1>9, <4>1 DEF CompleteSuccess, TypeOK
    <3>2. CASE snap[w].run \notin Runs
      BY <1>9, <3>2 DEF CompleteSuccess, TypeOK
    <3> QED
      BY <3>1, <3>2
  <2> QED
    BY <1>9, <1>none, <2>1 DEF CompleteSuccess, LeaveExecution, TypeOK
<1>10. ASSUME NEW w \in Workers, NEW o \in Outcomes, CompleteFailure(w, o)
       PROVE  TypeOK'
  <2>1. runs' \in [Runs -> Row] /\ audit' \in [Runs -> AuditTrail]
    <3>1. WriteFailure(snap[w], o # "permanent", w)
      BY <1>10 DEF CompleteFailure
    <3>2. CASE o # "permanent"
      <4>1. WriteFailure(snap[w], TRUE, w)
        BY <3>1, <3>2 DEF WriteFailure, ShouldRetry
      <4> QED
        BY <4>1, <1>snaps, WriteFailureType
    <3>3. CASE o = "permanent"
      <4>1. WriteFailure(snap[w], FALSE, w)
        BY <3>1, <3>3 DEF WriteFailure, ShouldRetry
      <4> QED
        BY <4>1, <1>snaps, WriteFailureType
    <3> QED
      BY <3>2, <3>3
  <2> QED
    BY <1>10, <1>none, <2>1 DEF CompleteFailure, LeaveExecution, TypeOK
<1>11. ASSUME NEW w \in Workers, NEW o \in Outcomes, FailureLeaseLost(w, o)
       PROVE  TypeOK'
  <2>1. CASE LeaveExecution(w)
    BY <1>11, <1>none, <2>1 DEF FailureLeaseLost, LeaveExecution, TypeOK, dbVars
  <2>2. CASE Exit(w)
    BY <1>11, <1>none, <2>2 DEF FailureLeaseLost, Exit, TypeOK, dbVars
  <2> QED
    BY <1>11, <2>1, <2>2 DEF FailureLeaseLost
<1>12. ASSUME NEW w \in Workers, ReaperNotDue(w) PROVE TypeOK'
  BY <1>12 DEF ReaperNotDue, TypeOK, dbVars
<1>13. ASSUME NEW w \in Workers, NEW locked \in SUBSET Reapable,
              ReapSelect(w, locked)
       PROVE  TypeOK'
  <2>1. {<<r, runs[r].token>> : r \in Reapable \ locked} \subseteq Runs \X Nat
    <3>1. \A r \in Runs : runs[r].token \in Nat
      BY <1>rows DEF Row
    <3> QED
      BY <3>1 DEF Reapable
  <2> QED
    BY <1>13, <2>1 DEF ReapSelect, TypeOK, dbVars
<1>14. ASSUME NEW w \in Workers, ReapRead(w) PROVE TypeOK'
  <2>1. PICK e \in reapq[w] :
          /\ reapq' = [reapq EXCEPT ![w] = @ \ {e}]
          /\ \/ /\ snap' = [snap EXCEPT ![w] = Load(e[1], e[2])]
                /\ pc' = [pc EXCEPT ![w] = "reclaim"]
             \/ UNCHANGED <<snap, pc>>
    BY <1>14 DEF ReapRead
  <2>2. e[1] \in Runs /\ e[2] \in Nat
    BY DEF TypeOK
  <2>3. Load(e[1], e[2]) \in Snapshot
    BY <2>2, SnapshotTypes
  <2> QED
    BY <1>14, <2>1, <2>3 DEF ReapRead, TypeOK, dbVars
<1>15. ASSUME NEW w \in Workers, ReapWrite(w) PROVE TypeOK'
  <2>1. runs' \in [Runs -> Row] /\ audit' \in [Runs -> AuditTrail]
    <3>1. CASE WriteFailure(snap[w], TRUE, Reaper)
      BY <3>1, <1>snaps, WriteFailureType
    <3>2. CASE UNCHANGED <<runs, audit>>
      BY <3>2 DEF TypeOK
    <3> QED
      BY <1>15, <3>1, <3>2 DEF ReapWrite
  <2> QED
    BY <1>15, <1>none, <2>1 DEF ReapWrite, TypeOK
<1>16. ASSUME NEW w \in Workers, ReapEnd(w) PROVE TypeOK'
  BY <1>16 DEF ReapEnd, TypeOK, dbVars
<1>17. ASSUME NEW w \in Workers, Crash(w) PROVE TypeOK'
  BY <1>17, <1>none DEF Crash, Exit, TypeOK, dbVars
<1>18. ASSUME NEW w \in Workers, Restart(w) PROVE TypeOK'
  BY <1>18 DEF Restart, TypeOK, dbVars
<1>19. CASE UNCHANGED vars
  BY <1>19 DEF TypeOK, vars
<1> QED
  BY <1>1, <1>2, <1>3, <1>4, <1>5, <1>6, <1>7, <1>8, <1>9, <1>10, <1>11,
     <1>12, <1>13, <1>14, <1>15, <1>16, <1>17, <1>18, <1>19
  DEF Next, Environment, Execute, Reap

\* The variables always have the shapes TypeOK gives them, for every number
\* of workers, runs, attempts and crashes.
THEOREM TypeCorrect == Spec => []TypeOK
  BY InitType, NextType, PTL DEF Spec

-----------------------------------------------------------------------------
(***************************************************************************)
(* The inductive invariant.  RunInv is about one run: its row, its trail   *)
(* and whether its lease lapsed.  Everything else is about the tokens that *)
(* workers and reaper passes hold; for them it matters only that a step    *)
(* moves a run forward in the sense of Advances.                           *)
(***************************************************************************)
RunInv(row, a, l) ==
    /\ row.status \in {"absent", "pending"} =>
          ~row.started /\ ~row.finished /\ ~row.error
    /\ row.status = "running" => row.started /\ ~row.finished /\ ~row.error
    /\ row.status = "success" => row.started /\ row.finished /\ ~row.error
    /\ row.status = "failed" => row.started /\ row.finished /\ row.error
    /\ row.status = "running" => row.token # NullToken
    /\ row.status # "running" => row.token = NullToken
    /\ row.status # "running" => ~row.expired
    /\ row.attempts <= MaxAttempts
    /\ row.status \in {"absent", "pending"} => row.attempts < MaxAttempts
    /\ row.status = "absent" => row.attempts = 0
    /\ a.claimed = row.attempts
    /\ a.claimed = a.requeued + a.succeeded + a.failed
                     + (IF row.status = "running" THEN 1 ELSE 0)
    /\ a.succeeded = (IF row.status = "success" THEN 1 ELSE 0)
    /\ a.failed = (IF row.status = "failed" THEN 1 ELSE 0)
    /\ a.closer = Reaper => l
    /\ row.status = "running" => row.token = a.claimed
    /\ row.expired => l

\* t is the token of the row's running claim only if that claim lapsed.
LapsedToken(t, row, l) == (row.status = "running" /\ row.token = t) => l

\* A step moves a run forward: claims are only added, and an old token that
\* was powerless, or belonged to a lapsed lease, stays so.
Advances(row, a, l, row2, a2, l2) ==
    /\ a.claimed <= a2.claimed
    /\ \A t \in Nat : (t <= a.claimed /\ LapsedToken(t, row, l))
                         => LapsedToken(t, row2, l2)

\* What a worker at p with session copy s and reaper entries q may hold, in
\* a database with rows R, trails A and lapse bits L.
HeldBy(p, s, q, R, A, L) ==
    /\ p \in {"run", "reclaim"} => s.run \in Runs
    /\ s.run \in Runs => s.token <= A[s.run].claimed
    /\ s.status = "running" => s.attempts = s.token
    /\ s.limit <= MaxAttempts
    /\ (p = "reclaim" /\ s.run \in Runs)
          => LapsedToken(s.token, R[s.run], L[s.run])
    /\ \A e \in q : /\ e[2] <= A[e[1]].claimed
                    /\ LapsedToken(e[2], R[e[1]], L[e[1]])

HeldInv ==
    \A w \in Workers : HeldBy(pc[w], snap[w], reapq[w], runs, audit, lapsed)

EngineInv ==
    /\ TypeOK
    /\ \A r \in Runs : RunInv(runs[r], audit[r], lapsed[r])
    /\ HeldInv

\* The inductive invariant has the checked invariants as consequences.
LEMMA EngineInvImplies ==
    EngineInv => /\ RowConstraints /\ AttemptsBounded /\ AuditBalanced
                 /\ ReclaimedOnlyAfterLapse /\ TokensFence
<1> SUFFICES ASSUME EngineInv
             PROVE  /\ RowConstraints /\ AttemptsBounded /\ AuditBalanced
                    /\ ReclaimedOnlyAfterLapse /\ TokensFence
  OBVIOUS
<1>1. \A r \in Runs : RunInv(runs[r], audit[r], lapsed[r])
  BY DEF EngineInv
<1>2. RowConstraints
  BY <1>1 DEF RowConstraints, RunInv
<1>3. AttemptsBounded
  BY <1>1 DEF AttemptsBounded, RunInv
<1>4. AuditBalanced
  BY <1>1 DEF AuditBalanced, RunInv
<1>5. ReclaimedOnlyAfterLapse
  BY <1>1 DEF ReclaimedOnlyAfterLapse, RunInv
<1>6. TokensFence
  <2>1. \A r \in Runs :
          /\ runs[r].status = "running" => runs[r].token = audit[r].claimed
          /\ runs[r].expired => lapsed[r]
    BY <1>1 DEF RunInv
  <2>2. \A w \in Workers : \A e \in reapq[w] : e[1] \in Runs
    BY DEF EngineInv, TypeOK
  <2> QED
    BY <2>1, <2>2 DEF TokensFence, EngineInv, HeldInv, HeldBy, LapsedToken, Owns
<1> QED
  BY <1>2, <1>3, <1>4, <1>5, <1>6

\* What each row operator and its event do to one run.
LEMMA RunSteps ==
    ASSUME NEW row \in Row, NEW a \in AuditTrail, NEW l \in BOOLEAN,
           RunInv(row, a, l)
    PROVE  /\ row.status = "absent" =>
                /\ RunInv(NewRow, a, l)
                /\ Advances(row, a, l, NewRow, a, l)
           /\ row.status = "running" =>
                /\ RunInv(ExpiredRow(row), a, TRUE)
                /\ Advances(row, a, l, ExpiredRow(row), a, TRUE)
                /\ RunInv(HeartbeatRow(row), a, l)
                /\ Advances(row, a, l, HeartbeatRow(row), a, l)
           /\ RunInv(DueRow(row), a, l)
           /\ Advances(row, a, l, DueRow(row), a, l)
<1> USE EngineAssumption
    DEF RunInv, Advances, LapsedToken, Row, AuditTrail, Statuses, NullToken,
        MakeRow
<1>1. row.status = "absent" => RunInv(NewRow, a, l)
                               /\ Advances(row, a, l, NewRow, a, l)
  BY DEF NewRow
<1>2. row.status = "running" => RunInv(ExpiredRow(row), a, TRUE)
                       /\ Advances(row, a, l, ExpiredRow(row), a, TRUE)
  BY DEF ExpiredRow
<1>3. row.status = "running" => RunInv(HeartbeatRow(row), a, l)
                       /\ Advances(row, a, l, HeartbeatRow(row), a, l)
  BY DEF HeartbeatRow
<1>4. RunInv(DueRow(row), a, l) /\ Advances(row, a, l, DueRow(row), a, l)
  BY DEF DueRow
<1> QED
  BY <1>1, <1>2, <1>3, <1>4

\* A claim starts an attempt that the run still has.
LEMMA ClaimStep ==
    ASSUME NEW row \in Row, NEW a \in AuditTrail, NEW l \in BOOLEAN,
           NEW w \in Workers, RunInv(row, a, l), row.status = "pending"
    PROVE  /\ RunInv(ClaimedRow(row, a.claimed + 1), ClaimedEvent(a, w), FALSE)
           /\ Advances(row, a, l, ClaimedRow(row, a.claimed + 1),
                       ClaimedEvent(a, w), FALSE)
BY EngineAssumption
DEF RunInv, Advances, LapsedToken, Row, AuditTrail, Statuses, NullToken,
    MakeRow, MakeTrail, ClaimedRow, ClaimedEvent, Nobody, Reaper

\* The three ways to close a claim.  A requeue needs an attempt left; the
\* reaper needs a lapsed lease.
LEMMA CloseStep ==
    ASSUME NEW row \in Row, NEW a \in AuditTrail, NEW l \in BOOLEAN,
           NEW by \in Workers \cup {Reaper}, RunInv(row, a, l),
           row.status = "running", by = Reaper => l
    PROVE  /\ RunInv(SucceededRow(row), SucceededEvent(a, by), l)
           /\ Advances(row, a, l, SucceededRow(row), SucceededEvent(a, by), l)
           /\ RunInv(FailedRow(row), FailedEvent(a, by), l)
           /\ Advances(row, a, l, FailedRow(row), FailedEvent(a, by), l)
           /\ row.attempts < MaxAttempts =>
                RunInv(RequeuedRow(row), RequeuedEvent(a, by), l)
           /\ Advances(row, a, l, RequeuedRow(row), RequeuedEvent(a, by), l)
<1> USE EngineAssumption
    DEF RunInv, Advances, LapsedToken, Row, AuditTrail, Statuses, NullToken,
        MakeRow, MakeTrail
<1>1. /\ RunInv(SucceededRow(row), SucceededEvent(a, by), l)
      /\ Advances(row, a, l, SucceededRow(row), SucceededEvent(a, by), l)
  BY DEF SucceededRow, SucceededEvent
<1>2. /\ RunInv(FailedRow(row), FailedEvent(a, by), l)
      /\ Advances(row, a, l, FailedRow(row), FailedEvent(a, by), l)
  BY DEF FailedRow, FailedEvent
<1>3. /\ row.attempts < MaxAttempts =>
           RunInv(RequeuedRow(row), RequeuedEvent(a, by), l)
      /\ Advances(row, a, l, RequeuedRow(row), RequeuedEvent(a, by), l)
  BY DEF RequeuedRow, RequeuedEvent
<1> QED
  BY <1>1, <1>2, <1>3

\* A run that a step leaves alone.
LEMMA IdleStep ==
    ASSUME NEW row \in Row, NEW a \in AuditTrail, NEW l \in BOOLEAN
    PROVE  Advances(row, a, l, row, a, l)
BY DEF Advances, AuditTrail

\* The part of the invariant about runs, and forward movement of every run.
RunsAdvance ==
    \A r \in Runs :
        /\ RunInv(runs[r], audit[r], lapsed[r])'
        /\ Advances(runs[r], audit[r], lapsed[r],
                    runs'[r], audit'[r], lapsed'[r])

\* A step that changes the row, trail and lapse bit of at most one run k.
LEMMA OneRun ==
    ASSUME EngineInv, NEW k \in Runs,
           \A r \in Runs \ {k} : /\ runs'[r] = runs[r]
                                 /\ audit'[r] = audit[r]
                                 /\ lapsed'[r] = lapsed[r],
           RunInv(runs'[k], audit'[k], lapsed'[k]),
           Advances(runs[k], audit[k], lapsed[k],
                    runs'[k], audit'[k], lapsed'[k])
    PROVE  RunsAdvance
<1> SUFFICES ASSUME NEW r \in Runs
             PROVE  /\ RunInv(runs'[r], audit'[r], lapsed'[r])
                    /\ Advances(runs[r], audit[r], lapsed[r],
                                runs'[r], audit'[r], lapsed'[r])
  BY DEF RunsAdvance
<1>1. CASE r = k
  BY <1>1
<1>2. CASE r # k
  <2>1. runs[r] \in Row /\ audit[r] \in AuditTrail /\ lapsed[r] \in BOOLEAN
    BY DEF EngineInv, TypeOK
  <2>2. RunInv(runs[r], audit[r], lapsed[r])
    BY DEF EngineInv
  <2>3. runs'[r] = runs[r] /\ audit'[r] = audit[r] /\ lapsed'[r] = lapsed[r]
    BY <1>2
  <2> QED
    BY <2>1, <2>2, <2>3, IdleStep
<1> QED
  BY <1>1, <1>2

\* A step that leaves all runs alone.
LEMMA NoRun ==
    ASSUME EngineInv, UNCHANGED <<runs, audit, lapsed>>
    PROVE  RunsAdvance
<1> SUFFICES ASSUME NEW r \in Runs
             PROVE  /\ RunInv(runs'[r], audit'[r], lapsed'[r])
                    /\ Advances(runs[r], audit[r], lapsed[r],
                                runs'[r], audit'[r], lapsed'[r])
  BY DEF RunsAdvance
<1>1. runs[r] \in Row /\ audit[r] \in AuditTrail /\ lapsed[r] \in BOOLEAN
  BY DEF EngineInv, TypeOK
<1>2. RunInv(runs[r], audit[r], lapsed[r])
  BY DEF EngineInv
<1> QED
  BY <1>1, <1>2, IdleStep

\* Whatever a worker holds stays harmless while runs move forward.
LEMMA HeldStep ==
    ASSUME EngineInv, TypeOK', RunsAdvance, NEW p, NEW s \in Snapshot,
           NEW q \in SUBSET (Runs \X Nat),
           HeldBy(p, s, q, runs, audit, lapsed)
    PROVE  HeldBy(p, s, q, runs', audit', lapsed')
<1>1. \A r \in Runs : audit[r].claimed \in Nat /\ audit'[r].claimed \in Nat
  BY DEF EngineInv, TypeOK, AuditTrail
<1>2. \A r \in Runs : audit[r].claimed <= audit'[r].claimed
  BY DEF RunsAdvance, Advances
<1>3. ASSUME NEW r \in Runs, NEW t \in Nat, t <= audit[r].claimed
      PROVE  /\ t <= audit'[r].claimed
             /\ LapsedToken(t, runs[r], lapsed[r])
                  => LapsedToken(t, runs'[r], lapsed'[r])
  BY <1>1, <1>2, <1>3 DEF RunsAdvance, Advances
<1>4. s.token \in Nat /\ \A e \in q : e[1] \in Runs /\ e[2] \in Nat
  BY DEF Snapshot
<1> QED
  BY <1>3, <1>4 DEF HeldBy

\* The step's obligation for HeldInv: the acting worker w holds nothing
\* harmful afterwards; the others hold what they held.
LEMMA OneWorker ==
    ASSUME EngineInv, TypeOK', RunsAdvance, NEW w \in Workers,
           \A v \in Workers \ {w} : /\ pc'[v] = pc[v]
                                    /\ snap'[v] = snap[v]
                                    /\ reapq'[v] = reapq[v],
           HeldBy(pc'[w], snap'[w], reapq'[w], runs', audit', lapsed')
    PROVE  EngineInv'
<1>1. \A v \in Workers :
        HeldBy(pc'[v], snap'[v], reapq'[v], runs', audit', lapsed')
  <2> SUFFICES ASSUME NEW v \in Workers, v # w
               PROVE  HeldBy(pc'[v], snap'[v], reapq'[v], runs', audit', lapsed')
    OBVIOUS
  <2>1. snap[v] \in Snapshot /\ reapq[v] \in SUBSET (Runs \X Nat)
    BY DEF EngineInv, TypeOK
  <2>2. HeldBy(pc[v], snap[v], reapq[v], runs, audit, lapsed)
    BY DEF EngineInv, HeldInv
  <2>3. HeldBy(pc[v], snap[v], reapq[v], runs', audit', lapsed')
    BY <2>1, <2>2, HeldStep
  <2> QED
    BY <2>3
<1>2. \A r \in Runs : RunInv(runs'[r], audit'[r], lapsed'[r])
  BY DEF RunsAdvance
<1> QED
  BY <1>1, <1>2 DEF EngineInv, HeldInv

\* A step in which no worker changes what it holds.
LEMMA NoWorker ==
    ASSUME EngineInv, TypeOK', RunsAdvance, UNCHANGED <<pc, snap, reapq>>
    PROVE  EngineInv'
<1>1. \A v \in Workers :
        HeldBy(pc'[v], snap'[v], reapq'[v], runs', audit', lapsed')
  <2> SUFFICES ASSUME NEW v \in Workers
               PROVE  HeldBy(pc[v], snap[v], reapq[v], runs', audit', lapsed')
    OBVIOUS
  <2>1. snap[v] \in Snapshot /\ reapq[v] \in SUBSET (Runs \X Nat)
    BY DEF EngineInv, TypeOK
  <2>2. HeldBy(pc[v], snap[v], reapq[v], runs, audit, lapsed)
    BY DEF EngineInv, HeldInv
  <2> QED
    BY <2>1, <2>2, HeldStep
<1>2. \A r \in Runs : RunInv(runs'[r], audit'[r], lapsed'[r])
  BY DEF RunsAdvance
<1> QED
  BY <1>1, <1>2 DEF EngineInv, HeldInv

\* A worker may drop its copy of the row and go anywhere but into an
\* execution or a reclaim.
LEMMA EmptyHanded ==
    ASSUME EngineInv, NEW p, p \notin {"run", "reclaim"}, NEW q,
           \A e \in q : /\ e[2] <= audit'[e[1]].claimed
                        /\ LapsedToken(e[2], runs'[e[1]], lapsed'[e[1]])
    PROVE  HeldBy(p, NoSnapshot, q, runs', audit', lapsed')
<1>1. NoSnapshot.run \notin Runs
  BY EngineAssumption DEF NoSnapshot, Runs
<1> QED
  BY <1>1, EngineAssumption DEF HeldBy, NoSnapshot

\* complete_failure under the current token closes the run's claim and
\* nothing else; the reaper may only do it after a lapse.
LEMMA FailureStep ==
    ASSUME EngineInv, NEW s \in Snapshot, NEW b \in BOOLEAN,
           NEW by \in Workers \cup {Reaper},
           s.run \in Runs, CanComplete(s), s.attempts = s.token,
           s.limit <= MaxAttempts, by = Reaper => lapsed[s.run],
           WriteFailure(s, b, by), UNCHANGED lapsed
    PROVE  RunsAdvance
<1> DEFINE k == s.run
<1>1. /\ runs[k] \in Row /\ audit[k] \in AuditTrail /\ lapsed[k] \in BOOLEAN
      /\ runs \in [Runs -> Row] /\ audit \in [Runs -> AuditTrail]
  BY DEF EngineInv, TypeOK
<1>2. RunInv(runs[k], audit[k], lapsed[k]) /\ runs[k].status = "running"
  BY DEF EngineInv, CanComplete, Owns
<1>3. runs[k].token = s.token /\ runs[k].attempts = s.token
  BY <1>2 DEF CanComplete, Owns, RunInv
<1>4. ShouldRetry(s, b) => runs[k].attempts < MaxAttempts
  BY <1>1, <1>3, EngineAssumption DEF ShouldRetry, Snapshot, Row
<1>5. \A r \in Runs \ {k} : runs'[r] = runs[r] /\ audit'[r] = audit[r]
  BY <1>1 DEF WriteFailure
<1>6. CASE ShouldRetry(s, b)
  <2>1. runs'[k] = RequeuedRow(runs[k]) /\ audit'[k] = RequeuedEvent(audit[k], by)
    BY <1>1, <1>6 DEF WriteFailure
  <2> HIDE DEF k
  <2> QED
    BY <1>1, <1>2, <1>4, <1>5, <1>6, <2>1, CloseStep, OneRun DEF k
<1>7. CASE ~ShouldRetry(s, b)
  <2>1. runs'[k] = FailedRow(runs[k]) /\ audit'[k] = FailedEvent(audit[k], by)
    BY <1>1, <1>7 DEF WriteFailure
  <2> HIDE DEF k
  <2> QED
    BY <1>1, <1>2, <1>5, <2>1, CloseStep, OneRun DEF k
<1> QED
  BY <1>6, <1>7

\* An empty table and idle workers satisfy the inductive invariant.
LEMMA InitEngineInv == Init => EngineInv
<1> SUFFICES ASSUME Init PROVE EngineInv
  OBVIOUS
<1>1. TypeOK
  BY InitType
<1>2. RunInv(AbsentRow, EmptyTrail, FALSE)
  BY EngineAssumption DEF RunInv, AbsentRow, EmptyTrail, MakeRow, MakeTrail,
     NullToken, Nobody, Reaper
<1>3. \A r \in Runs : RunInv(runs[r], audit[r], lapsed[r])
  BY <1>2 DEF Init
<1>4. NoSnapshot.run \notin Runs
  BY EngineAssumption DEF NoSnapshot, Runs
<1>5. HeldInv
  BY <1>4, EngineAssumption DEF Init, HeldInv, HeldBy, NoSnapshot
<1> QED
  BY <1>1, <1>3, <1>5 DEF EngineInv

\* Every step keeps the inductive invariant and moves every run forward.
LEMMA NextEngineInv == EngineInv /\ [Next]_vars => EngineInv'
<1> SUFFICES ASSUME EngineInv, [Next]_vars PROVE EngineInv'
  OBVIOUS
<1>t. TypeOK /\ TypeOK'
  BY NextType DEF EngineInv
<1>r. \A r \in Runs : /\ runs[r] \in Row /\ audit[r] \in AuditTrail
                      /\ lapsed[r] \in BOOLEAN
                      /\ RunInv(runs[r], audit[r], lapsed[r])
  BY DEF EngineInv, TypeOK
<1>f. /\ runs \in [Runs -> Row] /\ audit \in [Runs -> AuditTrail]
      /\ lapsed \in [Runs -> BOOLEAN] /\ snap \in [Workers -> Snapshot]
      /\ reapq \in [Workers -> SUBSET (Runs \X Nat)]
      /\ pc \in [Workers -> {"claim", "exec", "run", "reap", "reaping",
                             "reclaim", "down"}]
  BY DEF EngineInv, TypeOK
<1>h. \A w \in Workers :
        HeldBy(pc[w], snap[w], reapq[w], runs, audit, lapsed)
  BY DEF EngineInv, HeldInv
<1>1. ASSUME NEW k \in Runs, CreateTaskRun(k) PROVE EngineInv'
  <2>1. /\ runs'[k] = NewRow /\ UNCHANGED <<audit, lapsed>>
        /\ \A r \in Runs \ {k} : runs'[r] = runs[r]
    BY <1>1, <1>f DEF CreateTaskRun
  <2>2. runs[k].status = "absent"
    BY <1>1 DEF CreateTaskRun
  <2>3. RunsAdvance
    <3>1. /\ RunInv(runs'[k], audit'[k], lapsed'[k])
          /\ Advances(runs[k], audit[k], lapsed[k],
                      runs'[k], audit'[k], lapsed'[k])
      BY <1>r, <2>1, <2>2, RunSteps
    <3> QED
      BY <2>1, <3>1, OneRun
  <2> QED
    BY <1>1, <1>t, <2>3, NoWorker DEF CreateTaskRun, workerVars
<1>2. ASSUME NEW k \in Runs, LeaseExpires(k) PROVE EngineInv'
  <2>1. /\ runs'[k] = ExpiredRow(runs[k]) /\ lapsed'[k] = TRUE
        /\ UNCHANGED audit
        /\ \A r \in Runs \ {k} : runs'[r] = runs[r] /\ lapsed'[r] = lapsed[r]
    BY <1>2, <1>f DEF LeaseExpires
  <2>2. runs[k].status = "running"
    BY <1>2 DEF LeaseExpires
  <2>3. RunsAdvance
    <3>1. /\ RunInv(runs'[k], audit'[k], lapsed'[k])
          /\ Advances(runs[k], audit[k], lapsed[k],
                      runs'[k], audit'[k], lapsed'[k])
      BY <1>r, <2>1, <2>2, RunSteps
    <3> QED
      BY <2>1, <3>1, OneRun
  <2> QED
    BY <1>2, <1>t, <2>3, NoWorker DEF LeaseExpires, workerVars
<1>3. ASSUME NEW k \in Runs, RetryDue(k) PROVE EngineInv'
  <2>1. /\ runs'[k] = DueRow(runs[k]) /\ UNCHANGED <<audit, lapsed>>
        /\ \A r \in Runs \ {k} : runs'[r] = runs[r]
    BY <1>3, <1>f DEF RetryDue
  <2>2. RunsAdvance
    <3>1. /\ RunInv(runs'[k], audit'[k], lapsed'[k])
          /\ Advances(runs[k], audit[k], lapsed[k],
                      runs'[k], audit'[k], lapsed'[k])
      BY <1>r, <2>1, RunSteps
    <3> QED
      BY <2>1, <3>1, OneRun
  <2> QED
    BY <1>3, <1>t, <2>2, NoWorker DEF RetryDue, workerVars
<1>4. ASSUME NEW n \in 1..MaxAttempts, UpdateMaxAttempts(n) PROVE EngineInv'
  <2>1. RunsAdvance
    BY <1>4, NoRun DEF UpdateMaxAttempts
  <2> QED
    BY <1>4, <1>t, <2>1, NoWorker DEF UpdateMaxAttempts, workerVars
<1>5. ASSUME NEW w \in Workers, NEW locked \in SUBSET Claimable,
             Claim(w, locked)
      PROVE  EngineInv'
  <2> DEFINE claimed == Oldest(Claimable \ locked, BatchSize)
  <2>1. \A r \in claimed : r \in Runs /\ runs[r].status = "pending"
    BY DEF Oldest, Claimable
  <2>2. /\ \A r \in Runs : r \in claimed =>
             /\ runs'[r] = ClaimedRow(runs[r], audit[r].claimed + 1)
             /\ audit'[r] = ClaimedEvent(audit[r], w)
             /\ lapsed'[r] = FALSE
        /\ \A r \in Runs : r \notin claimed =>
             /\ runs'[r] = runs[r] /\ audit'[r] = audit[r]
             /\ lapsed'[r] = lapsed[r]
    BY <1>5, <1>f DEF Claim, FreshToken
  <2> HIDE DEF claimed
  <2>3. RunsAdvance
    <3> SUFFICES ASSUME NEW r \in Runs
                 PROVE  /\ RunInv(runs'[r], audit'[r], lapsed'[r])
                        /\ Advances(runs[r], audit[r], lapsed[r],
                                    runs'[r], audit'[r], lapsed'[r])
      BY DEF RunsAdvance
    <3>1. CASE r \in claimed
      BY <1>r, <2>1, <2>2, <3>1, ClaimStep
    <3>2. CASE r \notin claimed
      BY <1>r, <2>2, <3>2, IdleStep
    <3> QED
      BY <3>1, <3>2
  <2>4. pc'[w] \notin {"run", "reclaim"} /\ pc[w] \notin {"run", "reclaim"}
    BY <1>5, <1>f DEF Claim
  <2>5. HeldBy(pc[w], snap[w], reapq[w], runs', audit', lapsed')
    BY <1>t, <1>f, <1>h, <2>3, HeldStep
  <2>6. HeldBy(pc'[w], snap'[w], reapq'[w], runs', audit', lapsed')
    BY <1>5, <2>4, <2>5 DEF Claim, HeldBy
  <2>7. \A v \in Workers \ {w} : pc'[v] = pc[v] /\ snap'[v] = snap[v]
                                 /\ reapq'[v] = reapq[v]
    BY <1>5, <1>f DEF Claim
  <2> QED
    BY <1>t, <2>3, <2>6, <2>7, OneWorker
<1>6. ASSUME NEW w \in Workers, StartExecution(w) PROVE EngineInv'
  <2>1. PICK k \in batch[w] :
          snap' = [snap EXCEPT ![w] = Load(k, runs[k].token)]
    BY <1>6 DEF StartExecution
  <2>2. k \in Runs
    BY DEF EngineInv, TypeOK
  <2>3. RunsAdvance
    BY <1>6, NoRun DEF StartExecution, dbVars
  <2>4. snap'[w] = Load(k, runs[k].token) /\ pc'[w] = "run"
        /\ reapq' = reapq /\ runs' = runs /\ audit' = audit /\ lapsed' = lapsed
    BY <1>6, <1>f, <2>1 DEF StartExecution, dbVars
  <2>5. /\ runs[k].token <= audit[k].claimed
        /\ runs[k].status = "running" => runs[k].attempts = runs[k].token
    BY <1>r, <2>2 DEF RunInv, Row, AuditTrail, NullToken
  <2>6. limit <= MaxAttempts
    BY EngineAssumption DEF EngineInv, TypeOK
  <2>7. HeldBy(pc'[w], snap'[w], reapq'[w], runs', audit', lapsed')
    BY <1>h, <2>2, <2>4, <2>5, <2>6 DEF HeldBy, Load
  <2>8. \A v \in Workers \ {w} : pc'[v] = pc[v] /\ snap'[v] = snap[v]
                                 /\ reapq'[v] = reapq[v]
    BY <1>6, <1>f, <2>1 DEF StartExecution
  <2> QED
    BY <1>t, <2>3, <2>7, <2>8, OneWorker
<1>7. ASSUME NEW w \in Workers, Heartbeat(w) PROVE EngineInv'
  <2> DEFINE k == snap[w].run
  <2>1. k \in Runs
    BY <1>7, <1>h DEF Heartbeat, HeldBy
  <2>2. RunsAdvance
    <3>1. CASE Owns(k, snap[w].token)
      <4>1. /\ runs'[k] = HeartbeatRow(runs[k]) /\ UNCHANGED <<audit, lapsed>>
            /\ \A r \in Runs \ {k} : runs'[r] = runs[r]
        BY <1>7, <1>f, <2>1, <3>1 DEF Heartbeat
      <4>2. runs[k].status = "running"
        BY <3>1 DEF Owns
      <4> HIDE DEF k
      <4>3. /\ RunInv(runs'[k], audit'[k], lapsed'[k])
            /\ Advances(runs[k], audit[k], lapsed[k],
                        runs'[k], audit'[k], lapsed'[k])
        BY <1>r, <2>1, <4>1, <4>2, RunSteps
      <4> QED
        BY <2>1, <4>1, <4>3, OneRun
    <3>2. CASE ~Owns(k, snap[w].token)
      BY <1>7, <3>2, NoRun DEF Heartbeat
    <3> QED
      BY <3>1, <3>2
  <2> QED
    BY <1>7, <1>t, <2>2, NoWorker DEF Heartbeat
<1>8. ASSUME NEW w \in Workers, HeartbeatDies(w) PROVE EngineInv'
  <2>1. RunsAdvance
    BY <1>8, NoRun DEF HeartbeatDies, dbVars
  <2> QED
    BY <1>8, <1>t, <2>1, NoWorker DEF HeartbeatDies
<1>q. ASSUME RunsAdvance, NEW w \in Workers
      PROVE  \A e \in reapq[w] :
               /\ e[2] <= audit'[e[1]].claimed
               /\ LapsedToken(e[2], runs'[e[1]], lapsed'[e[1]])
  <2>1. HeldBy(pc[w], snap[w], reapq[w], runs', audit', lapsed')
    BY <1>q, <1>t, <1>f, <1>h, HeldStep
  <2> QED
    BY <2>1 DEF HeldBy
<1>e. ASSUME RunsAdvance, NEW w \in Workers, LeaveExecution(w) \/ Exit(w),
             UNCHANGED reapq
      PROVE  EngineInv'
  <2>1. pc'[w] \notin {"run", "reclaim"} /\ snap'[w] = NoSnapshot
    BY <1>e, <1>f DEF LeaveExecution, Exit
  <2>2. HeldBy(pc'[w], snap'[w], reapq'[w], runs', audit', lapsed')
    BY <1>e, <1>q, <2>1, EmptyHanded
  <2>3. \A v \in Workers \ {w} : pc'[v] = pc[v] /\ snap'[v] = snap[v]
                                 /\ reapq'[v] = reapq[v]
    BY <1>e, <1>f DEF LeaveExecution, Exit
  <2> QED
    BY <1>e, <1>t, <2>2, <2>3, OneWorker
<1>9. ASSUME NEW w \in Workers, CompleteSuccess(w) PROVE EngineInv'
  <2> DEFINE k == snap[w].run
  <2>1. k \in Runs
    BY <1>9, <1>h DEF CompleteSuccess, HeldBy
  <2>2. RunsAdvance
    <3>1. CASE Owns(k, snap[w].token)
      <4>1. /\ runs'[k] = SucceededRow(runs[k])
            /\ audit'[k] = SucceededEvent(audit[k], w)
            /\ lapsed' = lapsed
            /\ \A r \in Runs \ {k} : runs'[r] = runs[r] /\ audit'[r] = audit[r]
        BY <1>9, <1>f, <2>1, <3>1 DEF CompleteSuccess
      <4>2. runs[k].status = "running" /\ (w = Reaper => lapsed[k])
        BY <3>1, EngineAssumption DEF Owns
      <4> HIDE DEF k
      <4>3. /\ RunInv(runs'[k], audit'[k], lapsed'[k])
            /\ Advances(runs[k], audit[k], lapsed[k],
                        runs'[k], audit'[k], lapsed'[k])
        BY <1>r, <2>1, <4>1, <4>2, CloseStep
      <4> QED
        BY <2>1, <4>1, <4>3, OneRun
    <3>2. CASE ~Owns(k, snap[w].token)
      BY <1>9, <3>2, NoRun DEF CompleteSuccess
    <3> QED
      BY <3>1, <3>2
  <2> QED
    BY <1>9, <1>e, <2>2 DEF CompleteSuccess
<1>10. ASSUME NEW w \in Workers, NEW o \in Outcomes, CompleteFailure(w, o)
       PROVE  EngineInv'
  <2>1. /\ snap[w] \in Snapshot /\ snap[w].run \in Runs
        /\ CanComplete(snap[w]) /\ snap[w].limit <= MaxAttempts
        /\ snap[w].attempts = snap[w].token
        /\ w \in Workers \cup {Reaper} /\ w # Reaper /\ lapsed' = lapsed
    BY <1>10, <1>f, <1>h, EngineAssumption
    DEF CompleteFailure, HeldBy, CanComplete
  <2>2. RunsAdvance
    <3>1. CASE o # "permanent"
      <4>1. WriteFailure(snap[w], TRUE, w)
        BY <1>10, <3>1 DEF CompleteFailure, WriteFailure, ShouldRetry
      <4> QED
        BY <2>1, <4>1, FailureStep
    <3>2. CASE o = "permanent"
      <4>1. WriteFailure(snap[w], FALSE, w)
        BY <1>10, <3>2 DEF CompleteFailure, WriteFailure, ShouldRetry
      <4> QED
        BY <2>1, <4>1, FailureStep
    <3> QED
      BY <3>1, <3>2
  <2> QED
    BY <1>10, <1>e, <2>2 DEF CompleteFailure
<1>11. ASSUME NEW w \in Workers, NEW o \in Outcomes, FailureLeaseLost(w, o)
       PROVE  EngineInv'
  <2>1. RunsAdvance
    BY <1>11, NoRun DEF FailureLeaseLost, dbVars
  <2> QED
    BY <1>11, <1>e, <2>1 DEF FailureLeaseLost
<1>m. ASSUME RunsAdvance, NEW w \in Workers, pc[w] \notin {"run", "reclaim"},
             pc'[w] \notin {"run", "reclaim"}, UNCHANGED snap,
             \A v \in Workers \ {w} : pc'[v] = pc[v] /\ reapq'[v] = reapq[v],
             \A e \in reapq'[w] :
               /\ e[2] <= audit'[e[1]].claimed
               /\ LapsedToken(e[2], runs'[e[1]], lapsed'[e[1]])
      PROVE  EngineInv'
  <2>1. HeldBy(pc[w], snap[w], reapq[w], runs', audit', lapsed')
    BY <1>m, <1>t, <1>f, <1>h, HeldStep
  <2>2. HeldBy(pc'[w], snap'[w], reapq'[w], runs', audit', lapsed')
    BY <1>m, <2>1 DEF HeldBy
  <2> QED
    BY <1>m, <1>t, <2>2, OneWorker
<1>12. ASSUME NEW w \in Workers, ReaperNotDue(w) \/ ReapEnd(w) \/ Restart(w)
       PROVE  EngineInv'
  <2>1. RunsAdvance
    BY <1>12, NoRun DEF ReaperNotDue, ReapEnd, Restart, dbVars
  <2>2. /\ pc[w] \notin {"run", "reclaim"} /\ pc'[w] \notin {"run", "reclaim"}
        /\ UNCHANGED <<snap, reapq>>
        /\ \A v \in Workers \ {w} : pc'[v] = pc[v]
    BY <1>12, <1>f DEF ReaperNotDue, ReapEnd, Restart
  <2> QED
    BY <1>m, <1>q, <2>1, <2>2
<1>13. ASSUME NEW w \in Workers, NEW locked \in SUBSET Reapable,
              ReapSelect(w, locked)
       PROVE  EngineInv'
  <2>1. RunsAdvance
    BY <1>13, NoRun DEF ReapSelect, dbVars
  <2>2. /\ pc[w] \notin {"run", "reclaim"} /\ pc'[w] \notin {"run", "reclaim"}
        /\ UNCHANGED <<snap, runs, audit, lapsed>>
        /\ \A v \in Workers \ {w} : pc'[v] = pc[v] /\ reapq'[v] = reapq[v]
    BY <1>13, <1>f DEF ReapSelect, dbVars
  <2>3. reapq'[w] = {<<r, runs[r].token>> : r \in Reapable \ locked}
    BY <1>13, <1>f DEF ReapSelect
  <2>4. \A r \in Reapable : /\ r \in Runs
                            /\ runs[r].token <= audit[r].claimed
                            /\ LapsedToken(runs[r].token, runs[r], lapsed[r])
    BY <1>r DEF Reapable, RunInv, LapsedToken, Row, AuditTrail
  <2>5. \A e \in reapq'[w] :
          /\ e[2] <= audit'[e[1]].claimed
          /\ LapsedToken(e[2], runs'[e[1]], lapsed'[e[1]])
    BY <2>2, <2>3, <2>4
  <2> QED
    BY <1>m, <2>1, <2>2, <2>5
<1>14. ASSUME NEW w \in Workers, ReapRead(w) PROVE EngineInv'
  <2>1. PICK e \in reapq[w] :
          /\ reapq' = [reapq EXCEPT ![w] = @ \ {e}]
          /\ \/ /\ Owns(e[1], e[2])
                /\ snap' = [snap EXCEPT ![w] = Load(e[1], e[2])]
                /\ pc' = [pc EXCEPT ![w] = "reclaim"]
             \/ UNCHANGED <<snap, pc>>
    BY <1>14 DEF ReapRead
  <2>2. RunsAdvance
    BY <1>14, NoRun DEF ReapRead, dbVars
  <2>3. /\ UNCHANGED <<runs, audit, lapsed>> /\ pc[w] = "reaping"
        /\ reapq'[w] = reapq[w] \ {e}
        /\ \A v \in Workers \ {w} : reapq'[v] = reapq[v]
        /\ e[1] \in Runs /\ e[2] \in Nat
    BY <1>14, <1>f, <2>1 DEF ReapRead, dbVars
  <2>4. \A x \in reapq'[w] : /\ x[2] <= audit'[x[1]].claimed
                             /\ LapsedToken(x[2], runs'[x[1]], lapsed'[x[1]])
    BY <1>q, <2>2, <2>3
  <2>5. CASE UNCHANGED <<snap, pc>>
    BY <1>m, <2>2, <2>3, <2>4, <2>5
  <2>6. CASE /\ Owns(e[1], e[2])
             /\ snap' = [snap EXCEPT ![w] = Load(e[1], e[2])]
             /\ pc' = [pc EXCEPT ![w] = "reclaim"]
    <3>1. e[2] <= audit[e[1]].claimed /\ LapsedToken(e[2], runs[e[1]], lapsed[e[1]])
      BY <1>h DEF HeldBy
    <3>2. runs[e[1]].attempts = e[2]
      BY <1>r, <2>3, <2>6 DEF Owns, RunInv
    <3>3. limit <= MaxAttempts
      BY EngineAssumption DEF EngineInv, TypeOK
    <3>4. snap'[w] = Load(e[1], e[2]) /\ pc'[w] = "reclaim"
      BY <1>f, <2>6
    <3>5. HeldBy(pc'[w], snap'[w], reapq'[w], runs', audit', lapsed')
      BY <2>3, <2>4, <3>1, <3>2, <3>3, <3>4 DEF HeldBy, Load
    <3>6. \A v \in Workers \ {w} : pc'[v] = pc[v] /\ snap'[v] = snap[v]
                                   /\ reapq'[v] = reapq[v]
      BY <1>f, <2>3, <2>6
    <3> QED
      BY <1>t, <2>2, <3>5, <3>6, OneWorker
  <2> QED
    BY <2>1, <2>5, <2>6
<1>15. ASSUME NEW w \in Workers, ReapWrite(w) PROVE EngineInv'
  <2>1. RunsAdvance
    <3>1. CASE CanComplete(snap[w]) /\ WriteFailure(snap[w], TRUE, Reaper)
      <4>1. /\ snap[w] \in Snapshot /\ snap[w].run \in Runs
            /\ snap[w].limit <= MaxAttempts
            /\ snap[w].attempts = snap[w].token
            /\ lapsed[snap[w].run] /\ lapsed' = lapsed
        BY <1>15, <1>f, <1>h, <3>1
        DEF ReapWrite, HeldBy, CanComplete, Owns, LapsedToken
      <4> QED
        BY <3>1, <4>1, FailureStep
    <3>2. CASE UNCHANGED <<runs, audit>>
      BY <1>15, <3>2, NoRun DEF ReapWrite
    <3> QED
      BY <1>15, <3>1, <3>2 DEF ReapWrite
  <2>2. pc'[w] \notin {"run", "reclaim"} /\ snap'[w] = NoSnapshot
    BY <1>15, <1>f DEF ReapWrite
  <2>3. HeldBy(pc'[w], snap'[w], reapq'[w], runs', audit', lapsed')
    BY <1>15, <1>q, <2>1, <2>2, EmptyHanded DEF ReapWrite
  <2>4. \A v \in Workers \ {w} : pc'[v] = pc[v] /\ snap'[v] = snap[v]
                                 /\ reapq'[v] = reapq[v]
    BY <1>15, <1>f DEF ReapWrite
  <2> QED
    BY <1>t, <2>1, <2>3, <2>4, OneWorker
<1>16. ASSUME NEW w \in Workers, Crash(w) PROVE EngineInv'
  <2>1. RunsAdvance
    BY <1>16, NoRun DEF Crash, dbVars
  <2>2. /\ pc'[w] \notin {"run", "reclaim"} /\ snap'[w] = NoSnapshot
        /\ reapq'[w] = {}
    BY <1>16, <1>f DEF Crash, Exit
  <2>3. HeldBy(pc'[w], snap'[w], reapq'[w], runs', audit', lapsed')
    BY <2>2, EmptyHanded
  <2>4. \A v \in Workers \ {w} : pc'[v] = pc[v] /\ snap'[v] = snap[v]
                                 /\ reapq'[v] = reapq[v]
    BY <1>16, <1>f DEF Crash, Exit
  <2> QED
    BY <1>t, <2>1, <2>3, <2>4, OneWorker
<1>17. CASE UNCHANGED vars
  <2>1. RunsAdvance
    BY <1>17, NoRun DEF vars
  <2> QED
    BY <1>17, <1>t, <2>1, NoWorker DEF vars
<1> QED
  BY <1>1, <1>2, <1>3, <1>4, <1>5, <1>6, <1>7, <1>8, <1>9, <1>10, <1>11,
     <1>12, <1>13, <1>14, <1>15, <1>16, <1>17
  DEF Next, Environment, Execute, Reap

\* The inductive invariant holds of every reachable state.
THEOREM EngineInvariant == Spec => []EngineInv
  BY InitEngineInv, NextEngineInv, PTL DEF Spec

\* No reachable row is one the CHECK constraints of task_runs refuse.
THEOREM RowsAreLegal == Spec => []RowConstraints
  BY EngineInvariant, EngineInvImplies, PTL

\* No run is attempted more often than max_attempts ever allowed.
THEOREM AttemptsAreBounded == Spec => []AttemptsBounded
  BY EngineInvariant, EngineInvImplies, PTL

\* Row and event trail agree: every claim is closed by exactly one event.
THEOREM AuditIsBalanced == Spec => []AuditBalanced
  BY EngineInvariant, EngineInvImplies, PTL

\* The reaper closes only claims whose lease has lapsed.
THEOREM ReclaimNeedsLapse == Spec => []ReclaimedOnlyAfterLapse
  BY EngineInvariant, EngineInvImplies, PTL

\* A lease_token acts for one attempt only, whoever holds it.
THEOREM TokensAreFencing == Spec => []TokensFence
  BY EngineInvariant, EngineInvImplies, PTL

-----------------------------------------------------------------------------
(***************************************************************************)
(* What one step does to the rows, as the abstract lifecycle sees it.      *)
(***************************************************************************)
\* A step creates one run, starts attempts of waiting runs, closes the
\* attempt of one running run, or changes nothing an observer sees; and a
\* run that had ended keeps its whole row.
SeenStep ==
    \/ \E k \in Runs :
         /\ runs[k].status = "absent"
         /\ runs' = [runs EXCEPT ![k] = NewRow]
    \/ \E S \in SUBSET Runs :
         /\ \A r \in S : runs[r].status = "pending"
         /\ \A r \in S : /\ runs'[r].status = "running"
                         /\ runs'[r].attempts = runs[r].attempts + 1
         /\ \A r \in Runs \ S : runs'[r] = runs[r]
    \/ \E k \in Runs :
         /\ runs[k].status = "running"
         /\ runs'[k].status \in {"success", "failed", "pending"}
         /\ runs'[k].status = "pending" => runs[k].attempts < MaxAttempts
         /\ runs'[k].attempts = runs[k].attempts
         /\ \A r \in Runs \ {k} : runs'[r] = runs[r]
    \/ \E k \in Runs :
         /\ runs[k].status \in {"pending", "running"}
         /\ runs'[k].status = runs[k].status
         /\ runs'[k].attempts = runs[k].attempts
         /\ \A r \in Runs \ {k} : runs'[r] = runs[r]
    \/ UNCHANGED runs

\* complete_failure under the current token is a visible end of an attempt.
LEMMA FailureSeen ==
    ASSUME EngineInv, NEW s \in Snapshot, NEW b, NEW by,
           s.run \in Runs, CanComplete(s), s.attempts = s.token,
           s.limit <= MaxAttempts, WriteFailure(s, b, by)
    PROVE  SeenStep
<1> DEFINE k == s.run
<1>1. runs[k] \in Row /\ runs \in [Runs -> Row]
  BY DEF EngineInv, TypeOK
<1>2. RunInv(runs[k], audit[k], lapsed[k]) /\ runs[k].status = "running"
  BY DEF EngineInv, CanComplete, Owns
<1>3. runs[k].attempts = s.attempts
  BY <1>2 DEF CanComplete, Owns, RunInv
<1>4. ShouldRetry(s, b) => runs[k].attempts < MaxAttempts
  BY <1>1, <1>3, EngineAssumption DEF ShouldRetry, Snapshot, Row
<1>5. /\ runs'[k].status \in {"success", "failed", "pending"}
      /\ runs'[k].status = "pending" => ShouldRetry(s, b)
      /\ runs'[k].attempts = runs[k].attempts
      /\ \A r \in Runs \ {k} : runs'[r] = runs[r]
  BY <1>1 DEF WriteFailure, RequeuedRow, FailedRow, MakeRow
<1> QED
  BY <1>2, <1>4, <1>5 DEF SeenStep

\* Every step of the engine is one of the kinds of SeenStep.
LEMMA NextSeen == EngineInv /\ [Next]_vars => SeenStep
<1> SUFFICES ASSUME EngineInv, [Next]_vars PROVE SeenStep
  OBVIOUS
<1>f. /\ runs \in [Runs -> Row] /\ snap \in [Workers -> Snapshot]
  BY DEF EngineInv, TypeOK
<1>h. \A w \in Workers :
        HeldBy(pc[w], snap[w], reapq[w], runs, audit, lapsed)
  BY DEF EngineInv, HeldInv
<1>1. ASSUME NEW k \in Runs, CreateTaskRun(k) PROVE SeenStep
  BY <1>1 DEF CreateTaskRun, SeenStep
<1>2. ASSUME NEW k \in Runs, LeaseExpires(k) \/ RetryDue(k) PROVE SeenStep
  <2>1. /\ runs[k].status \in {"pending", "running"}
        /\ runs'[k].status = runs[k].status
        /\ runs'[k].attempts = runs[k].attempts
        /\ \A r \in Runs \ {k} : runs'[r] = runs[r]
    BY <1>2, <1>f DEF LeaseExpires, RetryDue, ExpiredRow, DueRow, MakeRow
  <2> QED
    BY <2>1 DEF SeenStep
<1>3. ASSUME NEW w \in Workers, NEW locked \in SUBSET Claimable,
             Claim(w, locked)
      PROVE  SeenStep
  <2> DEFINE S == Oldest(Claimable \ locked, BatchSize)
  <2>1. S \in SUBSET Runs /\ \A r \in S : runs[r].status = "pending"
    BY DEF Oldest, Claimable
  <2>2. \A r \in Runs : /\ r \in S =>
                             runs'[r] = ClaimedRow(runs[r], FreshToken(r))
                        /\ r \notin S => runs'[r] = runs[r]
    BY <1>3 DEF Claim
  <2> HIDE DEF S
  <2>3. \A r \in S : /\ runs'[r].status = "running"
                     /\ runs'[r].attempts = runs[r].attempts + 1
    <3> SUFFICES ASSUME NEW r \in S
                 PROVE  /\ runs'[r].status = "running"
                        /\ runs'[r].attempts = runs[r].attempts + 1
      OBVIOUS
    <3>1. runs'[r] = ClaimedRow(runs[r], FreshToken(r))
      BY <2>1, <2>2
    <3> QED
      BY <3>1 DEF ClaimedRow, MakeRow
  <2> QED
    BY <2>1, <2>2, <2>3 DEF SeenStep
<1>4. ASSUME NEW w \in Workers, Heartbeat(w) PROVE SeenStep
  <2> DEFINE k == snap[w].run
  <2>1. k \in Runs
    BY <1>4, <1>h DEF Heartbeat, HeldBy
  <2>2. CASE Owns(k, snap[w].token)
    <3>1. /\ runs[k].status = "running"
          /\ runs'[k].status = runs[k].status
          /\ runs'[k].attempts = runs[k].attempts
          /\ \A r \in Runs \ {k} : runs'[r] = runs[r]
      BY <1>4, <1>f, <2>1, <2>2 DEF Heartbeat, Owns, HeartbeatRow, MakeRow
    <3> QED
      BY <2>1, <3>1 DEF SeenStep
  <2>3. CASE ~Owns(k, snap[w].token)
    BY <1>4, <2>3 DEF Heartbeat, SeenStep
  <2> QED
    BY <2>2, <2>3
<1>5. ASSUME NEW w \in Workers, CompleteSuccess(w) PROVE SeenStep
  <2> DEFINE k == snap[w].run
  <2>1. k \in Runs
    BY <1>5, <1>h DEF CompleteSuccess, HeldBy
  <2>2. CASE Owns(k, snap[w].token)
    <3>1. /\ runs[k].status = "running" /\ runs'[k].status = "success"
          /\ runs'[k].attempts = runs[k].attempts
          /\ \A r \in Runs \ {k} : runs'[r] = runs[r]
      BY <1>5, <1>f, <2>1, <2>2
      DEF CompleteSuccess, Owns, SucceededRow, MakeRow
    <3> QED
      BY <2>1, <3>1 DEF SeenStep
  <2>3. CASE ~Owns(k, snap[w].token)
    BY <1>5, <2>3 DEF CompleteSuccess, SeenStep
  <2> QED
    BY <2>2, <2>3
<1>6. ASSUME NEW w \in Workers, NEW o \in Outcomes, CompleteFailure(w, o)
      PROVE  SeenStep
  <2>1. /\ snap[w] \in Snapshot /\ snap[w].run \in Runs
        /\ CanComplete(snap[w]) /\ snap[w].limit <= MaxAttempts
        /\ snap[w].attempts = snap[w].token
    BY <1>6, <1>f, <1>h DEF CompleteFailure, HeldBy, CanComplete
  <2>2. WriteFailure(snap[w], TRUE, w) \/ WriteFailure(snap[w], FALSE, w)
    BY <1>6 DEF CompleteFailure, WriteFailure, ShouldRetry
  <2> QED
    BY <2>1, <2>2, FailureSeen
<1>7. ASSUME NEW w \in Workers, ReapWrite(w) PROVE SeenStep
  <2>1. CASE CanComplete(snap[w]) /\ WriteFailure(snap[w], TRUE, Reaper)
    <3>1. /\ snap[w] \in Snapshot /\ snap[w].run \in Runs
          /\ snap[w].limit <= MaxAttempts
          /\ snap[w].attempts = snap[w].token
      BY <1>7, <1>f, <1>h, <2>1 DEF ReapWrite, HeldBy, CanComplete
    <3> QED
      BY <2>1, <3>1, FailureSeen
  <2>2. CASE UNCHANGED runs
    BY <2>2 DEF SeenStep
  <2> QED
    BY <1>7, <2>1, <2>2 DEF ReapWrite
<1>8. CASE UNCHANGED runs
  BY <1>8 DEF SeenStep
<1>9. ASSUME NEW w \in Workers, NEW locked, NEW o, NEW n,
             \/ UpdateMaxAttempts(n) \/ StartExecution(w)
             \/ HeartbeatDies(w) \/ FailureLeaseLost(w, o)
             \/ ReaperNotDue(w) \/ ReapSelect(w, locked) \/ ReapRead(w)
             \/ ReapEnd(w) \/ Crash(w) \/ Restart(w) \/ UNCHANGED vars
      PROVE  UNCHANGED runs
  BY <1>9 DEF UpdateMaxAttempts, StartExecution, HeartbeatDies,
     FailureLeaseLost, ReaperNotDue, ReapSelect, ReapRead, ReapEnd, Crash,
     Restart, dbVars, vars
<1>10. ASSUME NEW n \in 1..MaxAttempts, UpdateMaxAttempts(n)
       PROVE  UNCHANGED runs
  BY <1>10 DEF UpdateMaxAttempts
<1>11. UNCHANGED vars => UNCHANGED runs
  BY DEF vars
<1> QED
  BY <1>1, <1>2, <1>3, <1>4, <1>5, <1>6, <1>7, <1>8, <1>9, <1>10, <1>11
  DEF Next, Environment, Execute, Reap

\* A run that has ended keeps its row for good.
THEOREM EndedRunsAreFinal == Spec => TerminalIsFinal
<1>1. EngineInv /\ [Next]_vars =>
        [\A r \in Runs : runs[r].status \in Terminal => runs'[r] = runs[r]]_vars
  <2> SUFFICES ASSUME EngineInv, [Next]_vars, NEW r \in Runs,
                      runs[r].status \in Terminal
               PROVE  runs'[r] = runs[r]
    OBVIOUS
  <2>1. SeenStep
    BY NextSeen
  <2>2. runs \in [Runs -> Row]
    BY DEF EngineInv, TypeOK
  <2> QED
    BY <2>1, <2>2 DEF SeenStep, Terminal
<1> QED
  BY <1>1, EngineInvariant, PTL DEF Spec, TerminalIsFinal

\* The engine implements the abstract lifecycle, for every instance.
THEOREM EngineImplementsLifecycle == Spec => ImplementsLifecycle
<1>1. Init => LC!lifeInit
  BY DEF Init, LC!lifeInit, AbsentRow, MakeRow
<1>2. EngineInv /\ [Next]_vars => [LC!lifeNext]_([r \in Runs |->
         [status |-> runs[r].status, attempts |-> runs[r].attempts]])
  <2> SUFFICES ASSUME EngineInv, [Next]_vars
               PROVE  \/ LC!lifeNext
                      \/ \A r \in Runs :
                            /\ runs'[r].status = runs[r].status
                            /\ runs'[r].attempts = runs[r].attempts
    OBVIOUS
  <2>1. SeenStep
    BY NextSeen
  <2>2. runs \in [Runs -> Row]
    BY DEF EngineInv, TypeOK
  <2>3. \A r \in Runs : runs[r].status = "absent" => runs[r].attempts = 0
    BY DEF EngineInv, RunInv
  <2>4. ASSUME NEW k \in Runs, runs[k].status = "absent",
               runs' = [runs EXCEPT ![k] = NewRow]
        PROVE  LC!lifeNext
    <3>1. LC!Create(k)
      BY <2>2, <2>3, <2>4 DEF LC!Create, NewRow, MakeRow
    <3> QED
      BY <3>1 DEF LC!lifeNext
  <2>5. ASSUME NEW S \in SUBSET Runs,
               \A r \in S : runs[r].status = "pending",
               \A r \in S : /\ runs'[r].status = "running"
                            /\ runs'[r].attempts = runs[r].attempts + 1,
               \A r \in Runs \ S : runs'[r] = runs[r]
        PROVE  LC!lifeNext
    <3>1. LC!Start(S)
      BY <2>5 DEF LC!Start
    <3> QED
      BY <3>1 DEF LC!lifeNext
  <2>6. ASSUME NEW k \in Runs, runs[k].status = "running",
               runs'[k].status \in {"success", "failed", "pending"},
               runs'[k].status = "pending" => runs[k].attempts < MaxAttempts,
               runs'[k].attempts = runs[k].attempts,
               \A r \in Runs \ {k} : runs'[r] = runs[r]
        PROVE  LC!lifeNext
    <3>1. CASE runs'[k].status = "success"
      <4>1. LC!End(k, "success")
        BY <2>2, <2>6, <3>1 DEF LC!End
      <4> QED
        BY <4>1 DEF LC!lifeNext
    <3>2. CASE runs'[k].status = "failed"
      <4>1. LC!End(k, "failed")
        BY <2>2, <2>6, <3>2 DEF LC!End
      <4> QED
        BY <4>1 DEF LC!lifeNext
    <3>3. CASE runs'[k].status = "pending"
      <4>1. LC!End(k, "pending")
        BY <2>2, <2>6, <3>3 DEF LC!End
      <4> QED
        BY <4>1 DEF LC!lifeNext
    <3> QED
      BY <2>6, <3>1, <3>2, <3>3
  <2> QED
    BY <2>1, <2>4, <2>5, <2>6 DEF SeenStep
<1> QED
  BY <1>1, <1>2, EngineInvariant, PTL
  DEF Spec, ImplementsLifecycle, LC!Lifecycle

=============================================================================
