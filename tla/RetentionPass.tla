----------------------------- MODULE RetentionPass -----------------------------
(***************************************************************************)
(* purge_expired_artifacts: the retention passes that workers run over all *)
(* output artifacts.  Artifacts follows one artifact through its life;     *)
(* here many artifacts of the three run tables compete for the shared      *)
(* budget of a pass, while other workers run passes of their own.          *)
(***************************************************************************)
EXTENDS Integers, Sequences, FiniteSets

CONSTANTS
    Artifacts,      \* run rows with an output file
    RunType,        \* artifact -> its table
    DecidedAt,      \* artifact -> the order of decision timestamp and id
    Faulty,         \* artifacts with an unsafe path or a file nobody may touch
    Workers,
    BatchSize,      \* retention_claim_batch_size
    MaxGlitches     \* bound: crashes and passing errors of all workers

\* The fixed order of the run types.
RUN_TYPE_CONFIGS == <<"cleaning", "standardization", "export">>

ASSUME RetentionAssumption ==
    /\ IsFiniteSet(Artifacts)
    /\ RunType \in [Artifacts -> {RUN_TYPE_CONFIGS[k] : k \in 1..3}]
    /\ DecidedAt \in [Artifacts -> Nat]
    /\ \A x, y \in Artifacts : x # y => DecidedAt[x] # DecidedAt[y]
    /\ Faulty \subseteq Artifacts
    /\ BatchSize \in Nat \ {0} /\ MaxGlitches \in Nat

VARIABLES
    dry_run,        \* output_retention_dry_run
    expired,        \* artifacts whose decision is older than the cutoff
    file,           \* artifacts whose file exists
    deleted,        \* artifacts with output_deleted_at set
    pass,           \* worker -> its pass
    backlog,        \* worker -> its retention_backlog_artifacts gauge
    glitches

vars == <<dry_run, expired, file, deleted, pass, backlog, glitches>>

Outcomes == {"completed", "already_missing", "failed"}
NoArtifact == "none"
NoTally == [o \in Outcomes |-> 0]

\* due is what the cutoff, computed once, lets the pass see; k counts run types;
\* budget is what this run type may attempt; events is what the pass has
\* committed to artifact_retention_events.
NoPass == [at |-> "idle", due |-> {}, k |-> 1, budget |-> 0, attempted |-> 0, excluded |-> {},
           claim |-> {}, outcome |-> NoArtifact, tally |-> NoTally, events |-> <<>>]

Older(x) == {y \in Artifacts : DecidedAt[y] < DecidedAt[x]}

Init ==
    /\ dry_run \in BOOLEAN
    /\ expired \in {S \in SUBSET Artifacts : \A x \in S : Older(x) \subseteq S}
    /\ file = Artifacts
    /\ deleted = {}
    /\ pass = [w \in Workers |-> NoPass]
    /\ backlog = [w \in Workers |-> 0]
    /\ glitches = 0

Eligible(p) == p.due \ deleted

\* Rows a transaction holds FOR UPDATE.
Locked == UNION {pass[w].claim : w \in Workers}

\* SKIP LOCKED: rows of other transactions are passed over.
Candidates(w) ==
    {x \in Eligible(pass[w]) \ (pass[w].excluded \union Locked) : RunType[x] = RUN_TYPE_CONFIGS[pass[w].k]}

-----------------------------------------------------------------------------
\* The retention window of a decision passes, the oldest first.
Expire(x) ==
    /\ x \notin expired
    /\ Older(x) \subseteq expired
    /\ expired' = expired \union {x}
    /\ UNCHANGED <<dry_run, file, deleted, pass, backlog, glitches>>

Start(w) ==
    /\ pass[w].at = "idle"
    /\ pass' = [pass EXCEPT ![w] = [NoPass EXCEPT !.at = "looping", !.due = expired,
                                                  !.budget = BatchSize]]
    /\ UNCHANGED <<dry_run, expired, file, deleted, backlog, glitches>>

\* Mutant: one attempt too many.
WithinBudgetAndOne(p) == p.attempted <= p.budget

WithinBudget(p) == p.attempted < p.budget

\* The oldest candidate is selected and locked.
Claim(w) ==
    /\ pass[w].at = "looping"
    /\ WithinBudget(pass[w])
    /\ \E x \in Candidates(w) :
         /\ \A y \in Candidates(w) : DecidedAt[x] <= DecidedAt[y]
         /\ pass' = [pass EXCEPT ![w].at = "claimed", ![w].claim = {x}, ![w].attempted = @ + 1]
    /\ UNCHANGED <<dry_run, expired, file, deleted, backlog, glitches>>

\* _evaluate_and_act: a dry run looks, a real pass unlinks.
Evaluate(w) ==
    /\ pass[w].at = "claimed"
    /\ \E x \in pass[w].claim :
         LET outcome == IF x \in Faulty THEN "failed"
                        ELSE IF x \in file THEN "completed" ELSE "already_missing" IN
         /\ pass' = [pass EXCEPT ![w].at = "acted", ![w].outcome = outcome]
         /\ file' = IF outcome = "completed" /\ ~dry_run THEN file \ {x} ELSE file
    /\ UNCHANGED <<dry_run, expired, deleted, backlog, glitches>>

\* An OSError that will not last.
EvaluateFails(w) ==
    /\ pass[w].at = "claimed"
    /\ glitches < MaxGlitches
    /\ glitches' = glitches + 1
    /\ pass' = [pass EXCEPT ![w].at = "acted", ![w].outcome = "failed"]
    /\ UNCHANGED <<dry_run, expired, file, deleted, backlog>>

SetDeleted(p) == ~dry_run /\ p.outcome \in {"completed", "already_missing"}

\* Mutant: only failures are put aside.
PutAsideFailed(p) == p.outcome = "failed"

\* Mutant: only what a dry run has seen is put aside.
PutAsideDry(p) == dry_run

\* What still matches the query is put aside for the rest of the pass.
PutAside(p) == dry_run \/ p.outcome = "failed"

\* output_deleted_at and the event commit together; then the pass counts.  A
\* row that another transaction has marked is put aside without an event.
Commit(w) ==
    LET p == pass[w]
        raced == SetDeleted(p) /\ p.claim \subseteq deleted
        done == [p EXCEPT !.at = "looping", !.claim = {}, !.outcome = NoArtifact]
    IN  /\ p.at = "acted"
        /\ deleted' = IF SetDeleted(p) THEN deleted \union p.claim ELSE deleted
        /\ pass' = [pass EXCEPT ![w] =
             IF raced THEN [done EXCEPT !.excluded = @ \union p.claim]
             ELSE [done EXCEPT !.excluded = IF PutAside(p) THEN @ \union p.claim ELSE @,
                               !.tally[p.outcome] = @ + 1,
                               !.events = Append(@, [artifact |-> p.claim, outcome |-> p.outcome])]]
        /\ UNCHANGED <<dry_run, expired, file, backlog, glitches>>

\* An unexpected exception: rolled back and put aside.
Abort(w) ==
    /\ pass[w].at \in {"claimed", "acted"}
    /\ glitches < MaxGlitches
    /\ glitches' = glitches + 1
    /\ pass' = [pass EXCEPT ![w].at = "looping", ![w].excluded = @ \union pass[w].claim,
                            ![w].claim = {}, ![w].outcome = NoArtifact]
    /\ UNCHANGED <<dry_run, expired, file, deleted, backlog>>

\* Mutant: every run type gets an allowance of its own.
FreshBudget(p) == BatchSize

Remaining(p) == p.budget - p.attempted

\* Neither the loop's budget nor its candidates are left: on to the next type.
NextType(w) ==
    /\ pass[w].at = "looping"
    /\ pass[w].k < 3
    /\ WithinBudget(pass[w]) => Candidates(w) = {}
    /\ pass' = [pass EXCEPT ![w].k = @ + 1, ![w].budget = Remaining(pass[w]),
                            ![w].attempted = 0, ![w].excluded = {}]
    /\ UNCHANGED <<dry_run, expired, file, deleted, backlog, glitches>>

\* The last type is done; the backlog is counted.
Finish(w) ==
    /\ pass[w].at = "looping"
    /\ pass[w].k = 3
    /\ WithinBudget(pass[w]) => Candidates(w) = {}
    /\ pass' = [pass EXCEPT ![w] = NoPass]
    /\ backlog' = [backlog EXCEPT ![w] = Cardinality(Eligible(pass[w]))]
    /\ UNCHANGED <<dry_run, expired, file, deleted, glitches>>

\* The worker dies: its transaction rolls back, a file it unlinked stays away.
Die(w) ==
    /\ pass[w].at # "idle"
    /\ glitches < MaxGlitches
    /\ glitches' = glitches + 1
    /\ pass' = [pass EXCEPT ![w] = NoPass]
    /\ UNCHANGED <<dry_run, expired, file, deleted, backlog>>

Pass(w) ==
    Start(w) \/ Claim(w) \/ Evaluate(w) \/ Commit(w) \/ NextType(w) \/ Finish(w)

Next ==
    \/ \E x \in Artifacts : Expire(x)
    \/ \E w \in Workers : Pass(w) \/ EvaluateFails(w) \/ Abort(w) \/ Die(w)

\* The worker loop starts a pass every retention_poll_interval_seconds and
\* nothing in a pass waits for another transaction.
Fairness == \A w \in Workers : WF_vars(Pass(w))

Spec == Init /\ [][Next]_vars /\ Fairness

-----------------------------------------------------------------------------
\* Every variable has the shape the model gives it; in particular the budget
\* of a run type never falls below what it has attempted.
TypeOK ==
    /\ dry_run \in BOOLEAN
    /\ expired \subseteq Artifacts /\ file \subseteq Artifacts /\ deleted \subseteq expired
    /\ \A w \in Workers :
         /\ pass[w].at \in {"idle", "looping", "claimed", "acted"}
         /\ pass[w].due \subseteq expired
         /\ pass[w].k \in 1..3
         /\ pass[w].budget \in 0..BatchSize
         /\ pass[w].attempted \in 0..pass[w].budget
         /\ pass[w].excluded \union pass[w].claim \subseteq Artifacts
         /\ pass[w].outcome \in Outcomes \union {NoArtifact}
         /\ \A o \in Outcomes : pass[w].tally[o] \in 0..BatchSize
         /\ backlog[w] \in 0..Cardinality(Artifacts)
    /\ glitches \in 0..MaxGlitches

\* RetentionPassResult tells what the pass did: each count is the number of
\* events with that outcome the pass committed, and the three run tables
\* together never get more than retention_claim_batch_size events, whatever
\* failed or was put aside on the way.
TalliesMatchEvents ==
    \A w \in Workers :
        LET events == pass[w].events IN
        /\ Len(events) <= BatchSize
        /\ \A o \in Outcomes :
             pass[w].tally[o] = Cardinality({n \in DOMAIN events : events[n].outcome = o})

\* A pass spends its budget on distinct artifacts: none gets two events in one
\* pass, although a failed or dry-run artifact still matches the query, and no
\* two workers ever work on the same one at once.
OncePerPass ==
    /\ \A w \in Workers :
         \A n, m \in DOMAIN pass[w].events :
           pass[w].events[n].artifact = pass[w].events[m].artifact => n = m
    /\ \A w, v \in Workers : w # v => pass[w].claim \intersect pass[v].claim = {}

\* Fewer faulty artifacts than the budget starve nobody: every other expired
\* artifact is eventually purged, and in the end each worker's backlog gauge
\* counts just the faulty ones.
NoneStarved ==
    ~dry_run =>
        /\ \A x \in Artifacts \ Faulty : x \in expired ~> x \in deleted
        /\ <>[](\A w \in Workers : backlog[w] = Cardinality(expired \intersect Faulty))

=============================================================================
