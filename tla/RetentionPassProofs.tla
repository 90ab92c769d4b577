-------------------------- MODULE RetentionPassProofs --------------------------
(***************************************************************************)
(* Proofs about RetentionPass, for any finite set of artifacts, any number *)
(* of workers, every batch size and any number of failures.                *)
(***************************************************************************)
EXTENDS RetentionPass, FiniteSetTheorems, TLAPS

-----------------------------------------------------------------------------
(***************************************************************************)
(* The inductive invariant.  A pass is described by five facts that refer  *)
(* to no other pass: the set E of expired artifacts and the set D of those *)
(* marked as deleted are parameters, because other workers make both grow  *)
(* in the middle of a pass, and only ever grow.                            *)
(***************************************************************************)
Events == [artifact : SUBSET Artifacts, outcome : Outcomes]

PassRecord ==
    [at : {"idle", "looping", "claimed", "acted"}, due : SUBSET Artifacts, k : 1..3,
     budget : 0..BatchSize, attempted : 0..BatchSize, excluded : SUBSET Artifacts,
     claim : SUBSET Artifacts, outcome : Outcomes \union {NoArtifact},
     tally : [Outcomes -> Nat], events : Seq(Events)]

InHand(p) == p.at \in {"claimed", "acted"}

\* Each event, and the artifact in hand, was paid for from the shared budget.
Paid(p) ==
    /\ p.attempted <= p.budget
    /\ Len(p.events) + (IF InHand(p) THEN 1 ELSE 0) <= (BatchSize - p.budget) + p.attempted

WithOutcome(events, o) == {n \in DOMAIN events : events[n].outcome = o}

Tallied(p) == \A o \in Outcomes : p.tally[o] = Cardinality(WithOutcome(p.events, o))

\* The artifact in hand belongs to the current run type and has no event yet.
Holding(p) ==
    /\ ~InHand(p) => p.claim = {}
    /\ InHand(p) => \E x \in p.due :
          /\ p.claim = {x}
          /\ RunType[x] = RUN_TYPE_CONFIGS[p.k]
          /\ \A n \in DOMAIN p.events : p.events[n].artifact # {x}
    /\ p.at = "acted" => p.outcome \in Outcomes

\* An artifact with an event is out of the pass's sight: its run type is done
\* with, or it was put aside or marked as deleted.
Handled(p, D) ==
    /\ \A n \in DOMAIN p.events : \E x \in Artifacts, j \in 1..p.k :
          /\ p.events[n].artifact = {x}
          /\ RunType[x] = RUN_TYPE_CONFIGS[j]
          /\ j = p.k => x \in p.excluded \union D
    /\ \A n, m \in DOMAIN p.events : p.events[n].artifact = p.events[m].artifact => n = m

PassOK(p, E, D) == p.due \subseteq E /\ Paid(p) /\ Tallied(p) /\ Holding(p) /\ Handled(p, D)

Exclusive == \A w, v \in Workers : w # v => pass[w].claim \intersect pass[v].claim = {}

GlobalTypes ==
    /\ dry_run \in BOOLEAN
    /\ expired \subseteq Artifacts /\ file \subseteq Artifacts /\ deleted \subseteq expired
    /\ backlog \in [Workers -> 0..Cardinality(Artifacts)]
    /\ glitches \in 0..MaxGlitches

PassTypes == pass \in [Workers -> PassRecord]

RetentionInv ==
    /\ GlobalTypes
    /\ PassTypes
    /\ \A w \in Workers : PassOK(pass[w], expired, deleted)
    /\ Exclusive

-----------------------------------------------------------------------------
(***************************************************************************)
(* Lemmas about run types, events and records.                             *)
(***************************************************************************)

\* The run types are distinct.
LEMMA DistinctTypes ==
    ASSUME NEW j \in 1..3, NEW k \in 1..3, RUN_TYPE_CONFIGS[j] = RUN_TYPE_CONFIGS[k]
    PROVE  j = k
  BY DEF RUN_TYPE_CONFIGS

\* Counting events by outcome: none in an empty pass, one more after Append.
LEMMA CountEvents ==
    ASSUME NEW events \in Seq(Events), NEW o \in Outcomes
    PROVE  /\ IsFiniteSet(WithOutcome(events, o))
           /\ Cardinality(WithOutcome(events, o)) \in 0..Len(events)
           /\ \A e \in Events :
                Cardinality(WithOutcome(Append(events, e), o)) =
                    Cardinality(WithOutcome(events, o)) + (IF e.outcome = o THEN 1 ELSE 0)
<1>1. /\ IsFiniteSet(1..Len(events)) /\ Cardinality(1..Len(events)) = Len(events)
      /\ WithOutcome(events, o) \subseteq 1..Len(events)
  <2>1. Len(events) \in Nat /\ DOMAIN events = 1..Len(events)
    OBVIOUS
  <2>2. IsFiniteSet(1..Len(events)) /\ Cardinality(1..Len(events)) = Len(events)
    BY <2>1, FS_Interval
  <2> QED
    BY <2>1, <2>2 DEF WithOutcome
<1>2. /\ IsFiniteSet(WithOutcome(events, o))
      /\ Cardinality(WithOutcome(events, o)) <= Len(events)
  BY <1>1, FS_Subset
<1>3. Cardinality(WithOutcome(events, o)) \in Nat
  BY <1>2, FS_CardinalityType
<1>4. ASSUME NEW e \in Events
      PROVE  Cardinality(WithOutcome(Append(events, e), o)) =
                 Cardinality(WithOutcome(events, o)) + (IF e.outcome = o THEN 1 ELSE 0)
  <2>1. /\ DOMAIN Append(events, e) = DOMAIN events \union {Len(events) + 1}
        /\ \A n \in DOMAIN events : Append(events, e)[n] = events[n]
        /\ Append(events, e)[Len(events) + 1] = e
        /\ Len(events) + 1 \notin DOMAIN events
    OBVIOUS
  <2>2. CASE e.outcome = o
    <3>1. WithOutcome(Append(events, e), o) = WithOutcome(events, o) \union {Len(events) + 1}
      BY <2>1, <2>2 DEF WithOutcome
    <3>2. Len(events) + 1 \notin WithOutcome(events, o)
      BY <2>1 DEF WithOutcome
    <3> QED
      BY <3>1, <3>2, <1>2, <2>2, FS_AddElement
  <2>3. CASE e.outcome # o
    <3>1. WithOutcome(Append(events, e), o) = WithOutcome(events, o)
      BY <2>1, <2>3 DEF WithOutcome
    <3> QED
      BY <3>1, <1>3, <2>3
  <2> QED
    BY <2>2, <2>3
<1> QED
  BY <1>2, <1>3, <1>4

\* No artifact yet: a worker between two passes.
LEMMA NoPassOK ==
    ASSUME NEW E, NEW D
    PROVE  NoPass \in PassRecord /\ PassOK(NoPass, E, D)
<1>1. /\ NoPass.at = "idle" /\ NoPass.due = {} /\ NoPass.budget = 0 /\ NoPass.attempted = 0
      /\ NoPass.claim = {} /\ NoPass.events = <<>> /\ NoPass.tally = NoTally
  BY DEF NoPass
<1>2. NoTally \in [Outcomes -> Nat] /\ <<>> \in Seq(Events) /\ BatchSize \in Nat
  BY RetentionAssumption DEF NoTally
<1>3. NoPass \in PassRecord
  <2>1. 1 \in 1..3 /\ 0 \in 0..BatchSize /\ {} \in SUBSET Artifacts
    BY <1>2
  <2> QED
    BY <1>2, <2>1, Zenon DEF NoPass, PassRecord
<1>4. Paid(NoPass)
  BY <1>1, <1>2 DEF Paid, InHand
<1>5. Tallied(NoPass)
  <2>1. \A o \in Outcomes : WithOutcome(NoPass.events, o) = {}
    BY <1>1 DEF WithOutcome
  <2> QED
    BY <1>1, <2>1, FS_EmptySet DEF Tallied, NoTally
<1>6. Holding(NoPass) /\ Handled(NoPass, D)
  BY <1>1 DEF Holding, Handled, InHand
<1> QED
  BY <1>1, <1>3, <1>4, <1>5, <1>6 DEF PassOK

\* An artifact given up without an event was paid for.
LEMMA GivenUp ==
    ASSUME NEW p \in PassRecord, NEW q, Paid(p), InHand(p), ~InHand(q),
           q.events = p.events, q.budget = p.budget, q.attempted = p.attempted
    PROVE  Paid(q)
<1>1. Len(p.events) \in Nat /\ p.budget \in Nat /\ p.attempted \in Nat /\ BatchSize \in Nat
  BY RetentionAssumption DEF PassRecord
<1>2. Len(p.events) + 1 <= (BatchSize - p.budget) + p.attempted /\ p.attempted <= p.budget
  BY DEF Paid
<1> QED
  BY <1>1, <1>2 DEF Paid

\* What other workers do to a pass: more artifacts expire, more are deleted.
LEMMA PassGrows ==
    ASSUME NEW p, NEW E, NEW D, NEW E2, NEW D2,
           PassOK(p, E, D), E \subseteq E2, D \subseteq D2
    PROVE  PassOK(p, E2, D2)
<1>1. Handled(p, D2)
  BY DEF PassOK, Handled
<1> QED
  BY <1>1 DEF PassOK

\* A step of one worker: its own pass is checked, the others only grow.
LEMMA OneWorker ==
    ASSUME RetentionInv, PassTypes', NEW w \in Workers,
           \A v \in Workers \ {w} : pass'[v] = pass[v],
           expired \subseteq expired', deleted \subseteq deleted',
           PassOK(pass'[w], expired', deleted'),
           pass'[w].claim \subseteq pass[w].claim \/ pass'[w].claim \intersect Locked = {}
    PROVE  /\ \A v \in Workers : PassOK(pass[v], expired, deleted)'
           /\ Exclusive'
<1>1. \A v \in Workers : PassOK(pass'[v], expired', deleted')
  <2> SUFFICES ASSUME NEW v \in Workers, v # w PROVE PassOK(pass'[v], expired', deleted')
    OBVIOUS
  <2>1. pass'[v] = pass[v] /\ PassOK(pass[v], expired, deleted)
    BY DEF RetentionInv
  <2> QED
    BY <2>1, PassGrows
<1>2. \A v \in Workers \ {w} : pass'[w].claim \intersect pass[v].claim = {}
  BY DEF RetentionInv, Exclusive, Locked
<1>3. Exclusive'
  BY <1>2 DEF RetentionInv, Exclusive
<1> QED
  BY <1>1, <1>3

-----------------------------------------------------------------------------
(***************************************************************************)
(* Every step keeps the invariant.                                         *)
(***************************************************************************)

\* A pass starts with the whole budget and nothing in hand.
LEMMA StartStep ==
    ASSUME RetentionInv, NEW w \in Workers, Start(w)
    PROVE  RetentionInv'
<1> DEFINE q == pass'[w]
<1>1. GlobalTypes /\ PassTypes
  BY DEF RetentionInv
<1>2. NoPass \in PassRecord /\ PassOK(NoPass, expired, deleted)
  BY NoPassOK
<1>3. /\ pass' = [pass EXCEPT ![w] = [NoPass EXCEPT !.at = "looping", !.due = expired,
                                                    !.budget = BatchSize]]
      /\ UNCHANGED <<dry_run, expired, file, deleted, backlog, glitches>>
  BY DEF Start
<1>4. /\ q.at = "looping" /\ q.due = expired /\ q.budget = BatchSize /\ q.k = 1
      /\ q.attempted = 0 /\ q.excluded = {} /\ q.claim = {} /\ q.outcome = NoArtifact
      /\ q.tally = NoTally /\ q.events = <<>>
      /\ \A v \in Workers \ {w} : pass'[v] = pass[v]
  BY <1>1, <1>3 DEF PassTypes, NoPass
<1>5. PassTypes'
  <2>1. BatchSize \in 0..BatchSize /\ expired \in SUBSET Artifacts
    BY <1>1, RetentionAssumption DEF GlobalTypes
  <2>2. [NoPass EXCEPT !.at = "looping", !.due = expired, !.budget = BatchSize] \in PassRecord
    BY <1>2, <2>1 DEF PassRecord
  <2> QED
    BY <1>1, <1>3, <2>2 DEF PassTypes
<1>6. PassOK(q, expired, deleted)
  <2>1. Paid(q)
    BY <1>4, RetentionAssumption DEF Paid, InHand
  <2>2. Tallied(q)
    BY <1>2, <1>4 DEF PassOK, Tallied, NoPass
  <2>3. Holding(q) /\ Handled(q, deleted)
    BY <1>4 DEF Holding, Handled, InHand
  <2> QED
    BY <1>4, <2>1, <2>2, <2>3 DEF PassOK
<1> QED
  BY <1>1, <1>3, <1>4, <1>5, <1>6, OneWorker DEF RetentionInv, GlobalTypes

\* A candidate has no event yet: it would be put aside or deleted.
LEMMA ClaimStep ==
    ASSUME RetentionInv, NEW w \in Workers, Claim(w)
    PROVE  RetentionInv'
<1> DEFINE p == pass[w]
           q == pass'[w]
<1>1. /\ GlobalTypes /\ PassTypes /\ p \in PassRecord
      /\ p.due \subseteq expired /\ Paid(p) /\ Tallied(p) /\ Handled(p, deleted)
  BY DEF RetentionInv, PassOK, PassTypes
<1>2. PICK x \in Candidates(w) :
         pass' = [pass EXCEPT ![w].at = "claimed", ![w].claim = {x}, ![w].attempted = @ + 1]
  BY DEF Claim
<1>3. /\ p.at = "looping" /\ p.attempted < p.budget
      /\ UNCHANGED <<dry_run, expired, file, deleted, backlog, glitches>>
  BY DEF Claim, WithinBudget
<1>4. /\ x \in p.due /\ x \notin deleted /\ x \notin p.excluded /\ x \notin Locked
      /\ RunType[x] = RUN_TYPE_CONFIGS[p.k]
      /\ x \in Artifacts
  BY <1>1 DEF Candidates, Eligible, GlobalTypes
<1>5. /\ q.at = "claimed" /\ q.claim = {x} /\ q.attempted = p.attempted + 1
      /\ q.due = p.due /\ q.k = p.k /\ q.budget = p.budget /\ q.excluded = p.excluded
      /\ q.tally = p.tally /\ q.events = p.events
      /\ \A v \in Workers \ {w} : pass'[v] = pass[v]
  BY <1>1, <1>2 DEF PassTypes, PassRecord
<1>6. PassTypes'
  <2>1. p.attempted + 1 \in 0..BatchSize /\ {x} \in SUBSET Artifacts
    BY <1>1, <1>3, <1>4, RetentionAssumption DEF PassRecord
  <2> QED
    BY <1>1, <1>2, <2>1 DEF PassTypes, PassRecord
<1>7. \A n \in DOMAIN p.events : p.events[n].artifact # {x}
  <2> SUFFICES ASSUME NEW n \in DOMAIN p.events, p.events[n].artifact = {x} PROVE FALSE
    OBVIOUS
  <2>1. PICK j \in 1..p.k : /\ RunType[x] = RUN_TYPE_CONFIGS[j]
                            /\ j = p.k => x \in p.excluded \union deleted
    BY <1>1 DEF Handled
  <2>2. p.k \in 1..3 /\ j \in 1..3
    BY <1>1 DEF PassRecord
  <2>3. j = p.k
    BY <1>4, <2>1, <2>2, DistinctTypes
  <2> QED
    BY <1>4, <2>1, <2>3
<1>8. PassOK(q, expired, deleted)
  <2>1. Paid(q)
    <3>1. Len(p.events) \in Nat /\ p.budget \in Nat /\ p.attempted \in Nat
      BY <1>1 DEF PassRecord
    <3>2. ~InHand(p) /\ InHand(q)
      BY <1>3, <1>5 DEF InHand
    <3>3. Len(p.events) <= (BatchSize - p.budget) + p.attempted
      BY <1>1, <3>1, <3>2, RetentionAssumption DEF Paid
    <3>4. /\ Len(p.events) + 1 <= (BatchSize - p.budget) + (p.attempted + 1)
          /\ p.attempted + 1 <= p.budget
      <4>1. BatchSize \in Nat /\ p.attempted < p.budget
        BY <1>3, RetentionAssumption
      <4> HIDE DEF p
      <4> QED
        BY <4>1, <3>1, <3>3
    <3> QED
      BY <1>5, <3>2, <3>4 DEF Paid
  <2>2. Tallied(q)
    BY <1>1, <1>5 DEF Tallied
  <2>3. Holding(q)
    BY <1>4, <1>5, <1>7 DEF Holding, InHand
  <2>4. Handled(q, deleted)
    BY <1>1, <1>5 DEF Handled
  <2> QED
    BY <1>1, <1>5, <2>1, <2>2, <2>3, <2>4 DEF PassOK
<1>9. q.claim \intersect Locked = {}
  BY <1>4, <1>5
<1> QED
  BY <1>1, <1>3, <1>5, <1>6, <1>8, <1>9, OneWorker DEF RetentionInv, GlobalTypes

\* Looking at the artifact in hand changes its outcome only.
LEMMA EvaluateStep ==
    ASSUME RetentionInv, NEW w \in Workers, Evaluate(w) \/ EvaluateFails(w)
    PROVE  RetentionInv'
<1> DEFINE p == pass[w]
           q == pass'[w]
<1>1. /\ GlobalTypes /\ PassTypes /\ p \in PassRecord
      /\ p.due \subseteq expired /\ Paid(p) /\ Tallied(p) /\ Holding(p) /\ Handled(p, deleted)
  BY DEF RetentionInv, PassOK, PassTypes
<1>2. PICK outcome \in Outcomes :
         pass' = [pass EXCEPT ![w].at = "acted", ![w].outcome = outcome]
  BY DEF Evaluate, EvaluateFails, Outcomes
<1>3. /\ p.at = "claimed" /\ UNCHANGED <<dry_run, expired, deleted, backlog>>
      /\ file' \subseteq file /\ glitches' \in 0..MaxGlitches
  BY <1>1, RetentionAssumption DEF Evaluate, EvaluateFails, GlobalTypes
<1>4. /\ q.at = "acted" /\ q.outcome = outcome
      /\ q.claim = p.claim /\ q.attempted = p.attempted
      /\ q.due = p.due /\ q.k = p.k /\ q.budget = p.budget /\ q.excluded = p.excluded
      /\ q.tally = p.tally /\ q.events = p.events
      /\ \A v \in Workers \ {w} : pass'[v] = pass[v]
  BY <1>1, <1>2 DEF PassTypes, PassRecord
<1>5. PassTypes'
  BY <1>1, <1>2 DEF PassTypes, PassRecord
<1>6. PassOK(q, expired, deleted)
  <2>1. InHand(p) /\ InHand(q)
    BY <1>3, <1>4 DEF InHand
  <2>2. Paid(q) /\ Tallied(q) /\ Handled(q, deleted)
    BY <1>1, <1>4, <2>1 DEF Paid, Tallied, Handled
  <2>3. Holding(q)
    BY <1>1, <1>4, <2>1 DEF Holding
  <2> QED
    BY <1>1, <1>4, <2>2, <2>3 DEF PassOK
<1> QED
  BY <1>1, <1>3, <1>4, <1>5, <1>6, OneWorker DEF RetentionInv, GlobalTypes

\* An abort puts the artifact in hand aside without an event.
LEMMA AbortStep ==
    ASSUME RetentionInv, NEW w \in Workers, Abort(w)
    PROVE  RetentionInv'
<1> DEFINE p == pass[w]
           q == pass'[w]
<1>1. /\ GlobalTypes /\ PassTypes /\ p \in PassRecord
      /\ p.due \subseteq expired /\ Paid(p) /\ Tallied(p) /\ Holding(p) /\ Handled(p, deleted)
  BY DEF RetentionInv, PassOK, PassTypes
<1>2. pass' = [pass EXCEPT ![w].at = "looping", ![w].excluded = @ \union pass[w].claim,
                           ![w].claim = {}, ![w].outcome = NoArtifact]
  BY DEF Abort
<1>3. /\ InHand(p) /\ UNCHANGED <<dry_run, expired, file, deleted, backlog>>
      /\ glitches' \in 0..MaxGlitches
  BY <1>1, RetentionAssumption DEF Abort, InHand, GlobalTypes
<1>4. /\ q.at = "looping" /\ q.outcome = NoArtifact /\ q.claim = {}
      /\ q.attempted = p.attempted /\ p.excluded \subseteq q.excluded
      /\ q.due = p.due /\ q.k = p.k /\ q.budget = p.budget
      /\ q.tally = p.tally /\ q.events = p.events
      /\ \A v \in Workers \ {w} : pass'[v] = pass[v]
  BY <1>1, <1>2 DEF PassTypes, PassRecord
<1>5. PassTypes'
  BY <1>1, <1>2 DEF PassTypes, PassRecord
<1>6. PassOK(q, expired, deleted)
  <2>1. Paid(q)
    <3>1. ~InHand(q)
      BY <1>4 DEF InHand
    <3> QED
      BY <1>1, <1>3, <1>4, <3>1, GivenUp
  <2>2. Tallied(q) /\ Holding(q)
    BY <1>1, <1>4 DEF Tallied, Holding, InHand
  <2>3. Handled(q, deleted)
    BY <1>1, <1>4 DEF Handled
  <2> QED
    BY <1>1, <1>4, <2>1, <2>2, <2>3 DEF PassOK
<1> QED
  BY <1>1, <1>3, <1>4, <1>5, <1>6, OneWorker DEF RetentionInv, GlobalTypes

\* A commit without an event: another transaction has marked the row.
LEMMA RacedCommit ==
    ASSUME RetentionInv, NEW w \in Workers, Commit(w),
           SetDeleted(pass[w]) /\ pass[w].claim \subseteq deleted
    PROVE  RetentionInv'
<1> DEFINE p == pass[w]
           q == pass'[w]
<1>1. /\ GlobalTypes /\ PassTypes /\ p \in PassRecord
      /\ p.due \subseteq expired /\ Paid(p) /\ Tallied(p) /\ Holding(p) /\ Handled(p, deleted)
  BY DEF RetentionInv, PassOK, PassTypes
<1>2. /\ InHand(p) /\ UNCHANGED <<dry_run, expired, file, deleted, backlog, glitches>>
      /\ pass' = [pass EXCEPT ![w] =
                    [[p EXCEPT !.at = "looping", !.claim = {}, !.outcome = NoArtifact]
                        EXCEPT !.excluded = @ \union p.claim]]
  BY DEF Commit, InHand
<1>3. /\ q.at = "looping" /\ q.outcome = NoArtifact /\ q.claim = {}
      /\ q.attempted = p.attempted /\ p.excluded \subseteq q.excluded
      /\ q.due = p.due /\ q.k = p.k /\ q.budget = p.budget
      /\ q.tally = p.tally /\ q.events = p.events
      /\ \A v \in Workers \ {w} : pass'[v] = pass[v]
  BY <1>1, <1>2 DEF PassTypes, PassRecord
<1>4. PassTypes'
  BY <1>1, <1>2 DEF PassTypes, PassRecord
<1>5. PassOK(q, expired, deleted)
  <2>1. Paid(q)
    <3>1. ~InHand(q)
      BY <1>3 DEF InHand
    <3> QED
      BY <1>1, <1>2, <1>3, <3>1, GivenUp
  <2>2. Tallied(q) /\ Holding(q)
    BY <1>1, <1>3 DEF Tallied, Holding, InHand
  <2>3. Handled(q, deleted)
    BY <1>1, <1>3 DEF Handled
  <2> QED
    BY <1>1, <1>3, <2>1, <2>2, <2>3 DEF PassOK
<1> QED
  BY <1>1, <1>2, <1>3, <1>4, <1>5, OneWorker DEF RetentionInv, GlobalTypes

\* A commit with an event: the artifact in hand is put aside or marked as
\* deleted, and its tally grows with the events.
LEMMA CountedCommit ==
    ASSUME RetentionInv, NEW w \in Workers, Commit(w),
           ~(SetDeleted(pass[w]) /\ pass[w].claim \subseteq deleted)
    PROVE  RetentionInv'
<1> DEFINE p == pass[w]
           q == pass'[w]
           e == [artifact |-> p.claim, outcome |-> p.outcome]
           out == IF PutAside(p) THEN p.excluded \union p.claim ELSE p.excluded
<1>1. /\ GlobalTypes /\ PassTypes /\ p \in PassRecord
      /\ p.due \subseteq expired /\ Paid(p) /\ Tallied(p) /\ Holding(p) /\ Handled(p, deleted)
  BY DEF RetentionInv, PassOK, PassTypes
<1>2. /\ p.at = "acted" /\ UNCHANGED <<dry_run, expired, file, backlog, glitches>>
      /\ deleted' = IF SetDeleted(p) THEN deleted \union p.claim ELSE deleted
      /\ pass' = [pass EXCEPT ![w] =
                    [[p EXCEPT !.at = "looping", !.claim = {}, !.outcome = NoArtifact]
                        EXCEPT !.excluded = IF PutAside(p) THEN @ \union p.claim ELSE @,
                               !.tally[p.outcome] = @ + 1,
                               !.events = Append(@, e)]]
  BY DEF Commit
<1>3. /\ q.at = "looping" /\ q.outcome = NoArtifact /\ q.claim = {}
      /\ q.attempted = p.attempted /\ q.excluded = out
      /\ q.due = p.due /\ q.k = p.k /\ q.budget = p.budget
      /\ q.tally = [p.tally EXCEPT ![p.outcome] = @ + 1] /\ q.events = Append(p.events, e)
      /\ \A v \in Workers \ {w} : pass'[v] = pass[v]
  BY <1>1, <1>2 DEF PassTypes, PassRecord
<1>4. PICK x \in p.due : /\ p.claim = {x}
                         /\ RunType[x] = RUN_TYPE_CONFIGS[p.k]
                         /\ \A n \in DOMAIN p.events : p.events[n].artifact # {x}
  BY <1>1, <1>2 DEF Holding, InHand
<1>5. /\ p.outcome \in Outcomes /\ e \in Events /\ x \in Artifacts
      /\ p.events \in Seq(Events) /\ p.tally \in [Outcomes -> Nat]
      /\ p.k \in 1..3 /\ p.k \in 1..p.k
  BY <1>1, <1>2, <1>4 DEF Holding, Events, PassRecord
<1>6. deleted \subseteq deleted' /\ deleted' \subseteq expired
  BY <1>1, <1>2, <1>4 DEF GlobalTypes
<1>7. x \in q.excluded \union deleted'
  BY <1>1, <1>2, <1>3, <1>4, <1>5 DEF PutAside, SetDeleted, Outcomes
<1>8. PassTypes'
  <2>1. out \in SUBSET Artifacts /\ Append(p.events, e) \in Seq(Events)
    BY <1>1, <1>5 DEF PassRecord
  <2>2. [p.tally EXCEPT ![p.outcome] = @ + 1] \in [Outcomes -> Nat]
    BY <1>5
  <2>3. q \in PassRecord
    <3>1. q = [at |-> "looping", due |-> p.due, k |-> p.k, budget |-> p.budget,
               attempted |-> p.attempted, excluded |-> out, claim |-> {},
               outcome |-> NoArtifact, tally |-> [p.tally EXCEPT ![p.outcome] = @ + 1],
               events |-> Append(p.events, e)]
      BY <1>1, <1>2 DEF PassTypes, PassRecord
    <3> QED
      BY <1>1, <2>1, <2>2, <3>1 DEF PassRecord
  <2> QED
    BY <1>1, <1>2, <2>3 DEF PassTypes
<1>9. PassOK(q, expired, deleted')
  <2>1. Paid(q)
    <3>1. Len(p.events) \in Nat /\ p.budget \in Nat /\ p.attempted \in Nat
      BY <1>1 DEF PassRecord
    <3>2. Len(q.events) = Len(p.events) + 1
      BY <1>3, <1>5
    <3>3. InHand(p) /\ ~InHand(q)
      BY <1>2, <1>3 DEF InHand
    <3>4. Len(p.events) + 1 <= (BatchSize - p.budget) + p.attempted /\ p.attempted <= p.budget
      BY <1>1, <3>3 DEF Paid
    <3>5. Len(q.events) + 0 <= (BatchSize - q.budget) + q.attempted
      BY <1>3, <3>1, <3>2, <3>4
    <3> QED
      BY <1>3, <3>3, <3>4, <3>5 DEF Paid
  <2>2. Tallied(q)
    <3> SUFFICES ASSUME NEW o \in Outcomes
                 PROVE  q.tally[o] = Cardinality(WithOutcome(q.events, o))
      BY DEF Tallied
    <3>1. Cardinality(WithOutcome(Append(p.events, e), o)) =
              Cardinality(WithOutcome(p.events, o)) + (IF e.outcome = o THEN 1 ELSE 0)
      BY <1>5, CountEvents
    <3>2. p.tally[o] = Cardinality(WithOutcome(p.events, o)) /\ p.tally[o] \in Nat
      BY <1>1, <1>5 DEF Tallied
    <3>3. q.tally[o] = p.tally[o] + (IF p.outcome = o THEN 1 ELSE 0)
      BY <1>3, <1>5, <3>2
    <3>4. e.outcome = p.outcome
      OBVIOUS
    <3> QED
      BY <1>3, <3>1, <3>2, <3>3, <3>4
  <2>3. Holding(q)
    BY <1>3 DEF Holding, InHand
  <2>4. Handled(q, deleted')
    <3>1. /\ DOMAIN q.events = DOMAIN p.events \union {Len(p.events) + 1}
          /\ \A n \in DOMAIN p.events : q.events[n] = p.events[n]
          /\ q.events[Len(p.events) + 1].artifact = {x}
      BY <1>3, <1>4, <1>5
    <3>2. ASSUME NEW n \in DOMAIN q.events
          PROVE  \E y \in Artifacts, j \in 1..q.k :
                    /\ q.events[n].artifact = {y}
                    /\ RunType[y] = RUN_TYPE_CONFIGS[j]
                    /\ j = q.k => y \in q.excluded \union deleted'
      <4>1. CASE n \in DOMAIN p.events
        <5>1. PICK y \in Artifacts, j \in 1..p.k :
                 /\ p.events[n].artifact = {y}
                 /\ RunType[y] = RUN_TYPE_CONFIGS[j]
                 /\ j = p.k => y \in p.excluded \union deleted
          BY <1>1, <4>1 DEF Handled
        <5>2. j = q.k => y \in q.excluded \union deleted'
          BY <1>3, <1>6, <5>1
        <5> QED
          BY <1>3, <3>1, <4>1, <5>1, <5>2
      <4>2. CASE n = Len(p.events) + 1
        BY <1>3, <1>4, <1>5, <1>7, <3>1, <4>2
      <4> QED
        BY <3>1, <4>1, <4>2
    <3>3. \A n, m \in DOMAIN q.events : q.events[n].artifact = q.events[m].artifact => n = m
      BY <1>1, <1>4, <3>1 DEF Handled
    <3> QED
      BY <3>2, <3>3 DEF Handled
  <2> QED
    BY <1>1, <1>3, <2>1, <2>2, <2>3, <2>4 DEF PassOK
<1> QED
  BY <1>1, <1>2, <1>3, <1>6, <1>8, <1>9, OneWorker DEF RetentionInv, GlobalTypes

\* The next run type gets what is left of the budget; what has an event is of
\* an earlier type from now on.
LEMMA NextTypeStep ==
    ASSUME RetentionInv, NEW w \in Workers, NextType(w)
    PROVE  RetentionInv'
<1> DEFINE p == pass[w]
           q == pass'[w]
<1>1. /\ GlobalTypes /\ PassTypes /\ p \in PassRecord
      /\ p.due \subseteq expired /\ Paid(p) /\ Tallied(p) /\ Holding(p) /\ Handled(p, deleted)
  BY DEF RetentionInv, PassOK, PassTypes
<1>2. /\ p.at = "looping" /\ p.k < 3
      /\ UNCHANGED <<dry_run, expired, file, deleted, backlog, glitches>>
      /\ pass' = [pass EXCEPT ![w].k = @ + 1, ![w].budget = Remaining(p),
                              ![w].attempted = 0, ![w].excluded = {}]
  BY DEF NextType
<1>3. /\ q.at = "looping" /\ q.claim = p.claim /\ q.k = p.k + 1
      /\ q.budget = p.budget - p.attempted /\ q.attempted = 0
      /\ q.due = p.due /\ q.tally = p.tally /\ q.events = p.events /\ q.outcome = p.outcome
      /\ \A v \in Workers \ {w} : pass'[v] = pass[v]
  BY <1>1, <1>2 DEF PassTypes, PassRecord, Remaining
<1>4. /\ BatchSize \in Nat /\ p.budget \in 0..BatchSize /\ p.attempted \in 0..p.budget
      /\ p.k \in 1..3 /\ Len(p.events) \in Nat
  BY <1>1, RetentionAssumption DEF PassRecord, Paid
<1>5. p.k + 1 \in 1..3 /\ Remaining(p) \in 0..BatchSize /\ 0 \in 0..BatchSize
  BY <1>2, <1>4 DEF Remaining
<1>6. PassTypes'
  BY <1>1, <1>2, <1>5 DEF PassTypes, PassRecord
<1>7. PassOK(q, expired, deleted)
  <2>1. ~InHand(p) /\ ~InHand(q)
    BY <1>2, <1>3 DEF InHand
  <2>2. Len(p.events) <= (BatchSize - p.budget) + p.attempted
    BY <1>1, <1>4, <2>1 DEF Paid
  <2>3. Len(p.events) <= (BatchSize - (p.budget - p.attempted)) + 0 /\ 0 <= p.budget - p.attempted
    <3> HIDE DEF p
    <3> QED
      BY <1>4, <2>2
  <2>4. Paid(q)
    BY <1>3, <1>4, <2>1, <2>3 DEF Paid
  <2>5. Tallied(q) /\ Holding(q)
    BY <1>1, <1>2, <1>3, <2>1 DEF Tallied, Holding
  <2>6. Handled(q, deleted)
    <3>1. ASSUME NEW n \in DOMAIN q.events
          PROVE  \E y \in Artifacts, j \in 1..q.k :
                    /\ q.events[n].artifact = {y}
                    /\ RunType[y] = RUN_TYPE_CONFIGS[j]
                    /\ j = q.k => y \in q.excluded \union deleted
      <4>1. PICK y \in Artifacts, j \in 1..p.k :
               p.events[n].artifact = {y} /\ RunType[y] = RUN_TYPE_CONFIGS[j]
        BY <1>1, <1>3 DEF Handled
      <4>2. j \in 1..q.k /\ j # q.k
        BY <1>3, <1>4
      <4> QED
        BY <1>3, <4>1, <4>2
    <3> QED
      BY <1>1, <1>3, <3>1 DEF Handled
  <2> QED
    BY <1>1, <1>3, <2>4, <2>5, <2>6 DEF PassOK
<1> QED
  BY <1>1, <1>2, <1>3, <1>6, <1>7, OneWorker DEF RetentionInv, GlobalTypes

\* A pass ends, or its worker dies, with nothing in hand.
LEMMA EndStep ==
    ASSUME RetentionInv, NEW w \in Workers, Finish(w) \/ Die(w)
    PROVE  RetentionInv'
<1>1. GlobalTypes /\ PassTypes /\ PassOK(pass[w], expired, deleted)
  BY DEF RetentionInv
<1>2. NoPass \in PassRecord /\ PassOK(NoPass, expired, deleted) /\ NoPass.claim = {}
  BY NoPassOK DEF NoPass
<1>3. /\ pass' = [pass EXCEPT ![w] = NoPass]
      /\ UNCHANGED <<dry_run, expired, file, deleted>>
  BY DEF Finish, Die
<1>4. PassTypes' /\ pass'[w] = NoPass /\ \A v \in Workers \ {w} : pass'[v] = pass[v]
  BY <1>1, <1>2, <1>3 DEF PassTypes
<1>5. Cardinality(Eligible(pass[w])) \in 0..Cardinality(Artifacts)
  <2>1. Eligible(pass[w]) \subseteq Artifacts
    BY <1>1 DEF PassOK, Eligible, GlobalTypes
  <2>2. /\ IsFiniteSet(Eligible(pass[w]))
        /\ Cardinality(Eligible(pass[w])) <= Cardinality(Artifacts)
    BY <2>1, FS_Subset, RetentionAssumption
  <2>3. Cardinality(Eligible(pass[w])) \in Nat /\ Cardinality(Artifacts) \in Nat
    BY <2>2, FS_CardinalityType, RetentionAssumption
  <2> QED
    BY <2>2, <2>3
<1>6. backlog' \in [Workers -> 0..Cardinality(Artifacts)] /\ glitches' \in 0..MaxGlitches
  BY <1>1, <1>5, RetentionAssumption DEF Finish, Die, GlobalTypes
<1> QED
  BY <1>1, <1>2, <1>3, <1>4, <1>6, OneWorker DEF RetentionInv, GlobalTypes

-----------------------------------------------------------------------------
(***************************************************************************)
(* The theorems.                                                           *)
(***************************************************************************)

\* No artifact has an event yet.
LEMMA InitRetention == Init => RetentionInv
<1> SUFFICES ASSUME Init PROVE RetentionInv
  OBVIOUS
<1>1. /\ pass = [w \in Workers |-> NoPass] /\ NoPass.claim = {}
      /\ NoPass \in PassRecord /\ PassOK(NoPass, expired, deleted)
  BY NoPassOK DEF Init, NoPass
<1>2. GlobalTypes
  <2>1. Cardinality(Artifacts) \in Nat /\ MaxGlitches \in Nat
    BY FS_CardinalityType, RetentionAssumption
  <2> QED
    BY <2>1 DEF Init, GlobalTypes
<1> QED
  BY <1>1, <1>2 DEF RetentionInv, PassTypes, Exclusive

\* Every step keeps the invariant.
LEMMA NextRetention == RetentionInv /\ [Next]_vars => RetentionInv'
<1> SUFFICES ASSUME RetentionInv, [Next]_vars PROVE RetentionInv'
  OBVIOUS
<1>1. ASSUME NEW x \in Artifacts, Expire(x) PROVE RetentionInv'
  <2>1. /\ expired \subseteq expired' /\ GlobalTypes'
        /\ UNCHANGED <<pass, deleted>>
    BY <1>1 DEF Expire, RetentionInv, GlobalTypes
  <2>2. \A w \in Workers : PassOK(pass[w], expired', deleted)
    BY <2>1, PassGrows DEF RetentionInv
  <2> QED
    BY <2>1, <2>2 DEF RetentionInv, PassTypes, Exclusive
<1>2. ASSUME NEW w \in Workers, Commit(w) PROVE RetentionInv'
  BY <1>2, RacedCommit, CountedCommit
<1>3. ASSUME NEW w \in Workers, Pass(w) \/ EvaluateFails(w) \/ Abort(w) \/ Die(w)
      PROVE  RetentionInv'
  BY <1>2, <1>3, StartStep, ClaimStep, EvaluateStep, AbortStep, NextTypeStep, EndStep DEF Pass
<1>4. CASE UNCHANGED vars
  BY <1>4 DEF vars, RetentionInv, GlobalTypes, PassTypes, Exclusive
<1> QED
  BY <1>1, <1>3, <1>4 DEF Next

\* The invariant holds throughout.
THEOREM RetentionInvariant == Spec => []RetentionInv
  BY InitRetention, NextRetention, PTL DEF Spec

\* With n events of the pass, each outcome has at most n of them.
LEMMA EventsWithinBatch ==
    ASSUME RetentionInv, NEW w \in Workers
    PROVE  /\ Len(pass[w].events) \in 0..BatchSize
           /\ \A o \in Outcomes : pass[w].tally[o] \in 0..BatchSize
<1>1. pass[w] \in PassRecord /\ Paid(pass[w]) /\ Tallied(pass[w])
  BY DEF RetentionInv, PassTypes, PassOK
<1>2. /\ Len(pass[w].events) \in Nat /\ pass[w].budget \in Nat /\ pass[w].attempted \in Nat
      /\ BatchSize \in Nat /\ pass[w].events \in Seq(Events)
  BY <1>1, RetentionAssumption DEF PassRecord
<1>3. Len(pass[w].events) <= BatchSize
  <2>1. /\ pass[w].attempted <= pass[w].budget
        /\ \/ Len(pass[w].events) + 1 <= (BatchSize - pass[w].budget) + pass[w].attempted
           \/ Len(pass[w].events) + 0 <= (BatchSize - pass[w].budget) + pass[w].attempted
    BY <1>1 DEF Paid
  <2> QED
    BY <1>2, <2>1
<1>4. ASSUME NEW o \in Outcomes PROVE pass[w].tally[o] \in 0..BatchSize
  <2>1. pass[w].tally[o] \in 0..Len(pass[w].events)
    BY <1>1, <1>2, CountEvents DEF Tallied
  <2> QED
    BY <1>2, <1>3, <2>1
<1> QED
  BY <1>2, <1>3, <1>4

\* Every variable keeps its type: in particular the budget that is left for a
\* run type, budget - attempted, is never negative.
THEOREM RetentionTypes == Spec => []TypeOK
<1>1. RetentionInv => TypeOK
  <2> SUFFICES ASSUME RetentionInv PROVE TypeOK
    OBVIOUS
  <2>1. ASSUME NEW w \in Workers
        PROVE  /\ pass[w].at \in {"idle", "looping", "claimed", "acted"}
               /\ pass[w].due \subseteq expired
               /\ pass[w].k \in 1..3
               /\ pass[w].budget \in 0..BatchSize
               /\ pass[w].attempted \in 0..pass[w].budget
               /\ pass[w].excluded \union pass[w].claim \subseteq Artifacts
               /\ pass[w].outcome \in Outcomes \union {NoArtifact}
    <3>1. pass[w] \in PassRecord /\ Paid(pass[w]) /\ pass[w].due \subseteq expired
      BY DEF RetentionInv, PassTypes, PassOK
    <3>2. pass[w].attempted <= pass[w].budget
      BY <3>1 DEF Paid
    <3>3. pass[w].budget \in 0..BatchSize /\ pass[w].attempted \in 0..BatchSize
      BY <3>1 DEF PassRecord
    <3>4. pass[w].attempted \in 0..pass[w].budget
      BY <3>2, <3>3, RetentionAssumption
    <3> QED
      BY <3>1, <3>3, <3>4 DEF PassRecord
  <2>2. \A w \in Workers : backlog[w] \in 0..Cardinality(Artifacts)
    BY DEF RetentionInv, GlobalTypes
  <2> QED
    BY <2>1, <2>2, EventsWithinBatch DEF TypeOK, RetentionInv, GlobalTypes
<1> QED
  BY <1>1, RetentionInvariant, PTL

\* The result of a pass agrees with the events it committed, and the three run
\* types share one budget, whatever aborts, fails or is put aside.
THEOREM TalliesAgree == Spec => []TalliesMatchEvents
<1>1. RetentionInv => TalliesMatchEvents
  BY EventsWithinBatch
     DEF TalliesMatchEvents, RetentionInv, PassOK, Tallied, WithOutcome
<1> QED
  BY <1>1, RetentionInvariant, PTL

\* No pass records an artifact twice, and no two workers have the same one in
\* hand.
THEOREM ArtifactsOncePerPass == Spec => []OncePerPass
<1>1. RetentionInv => OncePerPass
  BY DEF OncePerPass, RetentionInv, PassOK, Handled, Exclusive
<1> QED
  BY <1>1, RetentionInvariant, PTL

=============================================================================
