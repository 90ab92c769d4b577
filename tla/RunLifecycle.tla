---------------------------- MODULE RunLifecycle ----------------------------
(***************************************************************************)
(* What the execution engine promises about one TaskRun, without workers,  *)
(* leases or tokens: a run is executed at most MaxAttempts times, one      *)
(* attempt at a time, and ends at most once.  TaskEngine implements it.    *)
(***************************************************************************)
EXTENDS Naturals

CONSTANTS Runs, MaxAttempts

VARIABLE life      \* run -> status and number of attempts started

lifeInit == life = [r \in Runs |-> [status |-> "absent", attempts |-> 0]]

Create(r) ==
    /\ life[r].status = "absent"
    /\ life' = [life EXCEPT ![r].status = "pending"]

\* A set of waiting runs starts an attempt each.
Start(S) ==
    /\ \A r \in S : life[r].status = "pending"
    /\ life' = [r \in Runs |->
                  IF r \in S
                  THEN [status |-> "running", attempts |-> life[r].attempts + 1]
                  ELSE life[r]]

\* The attempt ends: the run succeeded, failed, or waits for a retry that
\* it still has.
End(r, status) ==
    /\ life[r].status = "running"
    /\ status = "pending" => life[r].attempts < MaxAttempts
    /\ life' = [life EXCEPT ![r].status = status]

lifeNext ==
    \/ \E r \in Runs : Create(r)
    \/ \E S \in SUBSET Runs : Start(S)
    \/ \E r \in Runs, status \in {"success", "failed", "pending"} :
          End(r, status)

Lifecycle == lifeInit /\ [][lifeNext]_life
=============================================================================
