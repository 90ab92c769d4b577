------------------------- MODULE DeliveryPipelineProofs -------------------------
(***************************************************************************)
(* Proofs about DeliveryPipeline, for any runs, workers, files and         *)
(* configurations.  The approvals come first: what is proved of them holds *)
(* whatever the engines (clean, standardize, match, materialize) compute.  *)
(* What the recorded results hold then follows from the lemmas about the   *)
(* engines in DeliveryEngineProofs.                                        *)
(***************************************************************************)
EXTENDS DeliveryPipeline, DeliveryEngineProofs, TLAPS

-----------------------------------------------------------------------------
(***************************************************************************)
(* The inductive invariant.                                                *)
(***************************************************************************)
Decisions == {"approved", "rejected", "rolled_back"}

\* What a row remembers of its statuses: the one it has, the first one, and
\* that it was approved before it was rolled back.
History(row) ==
    \/ row.status = "none" /\ row.seen = {}
    \/ /\ row.status \in Decisions \union {"pending_review"}
       /\ row.seen \subseteq Decisions \union {"pending_review"}
       /\ {row.status, "pending_review"} \subseteq row.seen
       /\ "rolled_back" \in row.seen => "approved" \in row.seen

\* The stages behind an approval gate.
Gated == Stages \ {"SYNC", "TRANSFORM"}

\* A run past its gate: the result it consumes was approved at some time.
Cleared(run) == Type[run] \in Gated => "approved" \in rows[Source[run]].seen

Results ==
    /\ DOMAIN rows = Runs
    /\ \A run \in Runs : /\ rows[run] = [status |-> rows[run].status, seen |-> rows[run].seen,
                                         data |-> rows[run].data]
                         /\ History(rows[run])
                         /\ HasRow(run) => Cleared(run)

Executing ==
    /\ DOMAIN exec = Workers
    /\ \A w \in Workers : /\ exec[w] = [run |-> exec[w].run, at |-> exec[w].at,
                                        data |-> exec[w].data]
                          /\ exec[w].at # "idle" => exec[w].run \in Runs /\ Cleared(exec[w].run)

DeliveryInv == Results /\ Executing

\* The invariant holds before the first execution.
LEMMA InitDelivery == Init => DeliveryInv
  BY DEF Init, DeliveryInv, Results, Executing, NoRow, History, HasRow, Idle

\* A step that writes no row keeps the invariant if the executions it changes
\* are past their gates.
LEMMA NoRowStep ==
    ASSUME DeliveryInv, UNCHANGED rows, NEW w \in Workers, NEW x,
           exec' = [exec EXCEPT ![w] = x],
           x = [run |-> x.run, at |-> x.at, data |-> x.data],
           x.at # "idle" => x.run \in Runs /\ Cleared(x.run)
    PROVE  DeliveryInv'
<1>1. Results'
  BY DEF DeliveryInv, Results, Cleared, HasRow
<1>2. /\ DOMAIN exec' = Workers /\ exec'[w] = x
      /\ \A v \in Workers \ {w} : exec'[v] = exec[v]
  BY DEF DeliveryInv, Executing
<1>3. \A run : Cleared(run)' = Cleared(run)
  BY DEF Cleared
<1>4. Executing'
  BY <1>2, <1>3 DEF DeliveryInv, Executing
<1> QED
  BY <1>1, <1>4 DEF DeliveryInv

\* An execution begins behind an approved result, and stays behind it.
LEMMA ExecutionStep ==
    ASSUME DeliveryInv, NEW w \in Workers,
           \/ \E run \in Runs : Begin(w, run)
           \/ Profile(w) \/ Clean(w) \/ Standardize(w) \/ Match(w) \/ Export(w)
           \/ Write(w) \/ Die(w)
    PROVE  DeliveryInv'
<1>1. ASSUME NEW run \in Runs, Begin(w, run) PROVE DeliveryInv'
  <2> DEFINE x == [run |-> run, at |-> "began", data |-> <<>>]
  <2>1. /\ x = [run |-> x.run, at |-> x.at, data |-> x.data]
        /\ x.run = run
    OBVIOUS
  <2>2. Cleared(run)
    <3>1. Type[run] \in Gated =>
            rows[Source[run]].status = "approved" /\ Source[run] \in Runs
      BY <1>1, DeliveryAssumption DEF Begin, MayProceed, Gated, Stages
    <3> QED
      BY <3>1 DEF Cleared, DeliveryInv, Results, History
  <2>3. exec' = [exec EXCEPT ![w] = x] /\ UNCHANGED rows
    BY <1>1 DEF Begin
  <2> HIDE DEF x
  <2> QED
    BY <2>1, <2>2, <2>3, NoRowStep
<1>2. ASSUME NEW at, NEW data, exec[w].at # "idle", UNCHANGED rows,
             exec' = [exec EXCEPT ![w] = [run |-> exec[w].run, at |-> at, data |-> data]]
      PROVE  DeliveryInv'
  <2>1. exec[w].run \in Runs /\ Cleared(exec[w].run)
    BY <1>2 DEF DeliveryInv, Executing
  <2> QED
    BY <1>2, <2>1, NoRowStep
<1>3. exec[w] = [run |-> exec[w].run, at |-> exec[w].at, data |-> exec[w].data]
      /\ DOMAIN exec = Workers
  BY DEF DeliveryInv, Executing
<1>4. ASSUME NEW next, NEW data, Computed(w, next, data), exec[w].at = "began"
      PROVE  DeliveryInv'
  <2>1. exec' = [exec EXCEPT ![w] = [run |-> exec[w].run, at |-> next, data |-> data]]
    BY <1>3, <1>4 DEF Computed
  <2> QED
    BY <1>2, <1>4, <2>1 DEF Computed
<1>5. CASE Profile(w) \/ Clean(w) \/ Standardize(w) \/ Match(w) \/ Export(w)
  BY <1>4, <1>5 DEF Profile, Clean, Standardize, Match, Export, Began
<1>6. CASE Write(w)
  <2>1. exec' = [exec EXCEPT ![w] = [run |-> exec[w].run, at |-> "written", data |-> exec[w].data]]
    BY <1>3, <1>6 DEF Write
  <2> QED
    BY <1>2, <1>6, <2>1 DEF Write
<1>7. CASE Die(w)
  <2>1. Idle = [run |-> Idle.run, at |-> Idle.at, data |-> Idle.data] /\ Idle.at = "idle"
    BY DEF Idle
  <2> QED
    BY <1>7, <2>1, NoRowStep DEF Die
<1> QED
  BY <1>1, <1>5, <1>6, <1>7

\* A row that is written keeps what others rely on: statuses only accumulate.
LEMMA RowStep ==
    ASSUME DeliveryInv, NEW run \in Runs, NEW row,
           rows' = [rows EXCEPT ![run] = row],
           row = [status |-> row.status, seen |-> row.seen, data |-> row.data],
           History(row), rows[run].seen \subseteq row.seen, Cleared(run)
    PROVE  Results' /\ \A r \in Runs : Cleared(r) => Cleared(r)'
<1>1. /\ DOMAIN rows' = Runs /\ rows'[run] = row
      /\ \A r \in Runs \ {run} : rows'[r] = rows[r]
  BY DEF DeliveryInv, Results
<1>2. \A r \in Runs : rows[r].seen \subseteq rows'[r].seen
  BY <1>1
<1>3. \A r \in Runs : Cleared(r) => Cleared(r)'
  BY <1>2, DeliveryAssumption DEF Cleared, Gated, Stages
<1>4. Results'
  BY <1>1, <1>3 DEF DeliveryInv, Results, HasRow
<1> QED
  BY <1>3, <1>4

\* The row of an execution: its run was past its gate when it began.
LEMMA CommitStep ==
    ASSUME DeliveryInv, NEW w \in Workers, Commit(w)
    PROVE  DeliveryInv'
<1>1. PICK run, data : run = exec[w].run /\ data = exec[w].data
  OBVIOUS
<1>2. run \in Runs /\ Cleared(run)
  BY <1>1 DEF Commit, DeliveryInv, Executing
<1>3. Results' /\ \A r \in Runs : Cleared(r) => Cleared(r)'
  <2>1. CASE HasRow(run)
    BY <1>1, <2>1 DEF Commit, DeliveryInv, Results, HasRow, Cleared
  <2>2. CASE ~HasRow(run)
    <3>1. rows' = [rows EXCEPT ![run] = NewRow(data)]
      BY <1>1, <2>2 DEF Commit
    <3>2. PICK row : row = NewRow(data)
      OBVIOUS
    <3>3. /\ row = [status |-> row.status, seen |-> row.seen, data |-> row.data]
          /\ History(row)
      BY <3>2 DEF NewRow, History, Decisions
    <3>4. rows[run].seen = {}
      BY <1>2, <2>2 DEF DeliveryInv, Results, History, HasRow, Decisions
    <3> QED
      BY <1>2, <3>1, <3>2, <3>3, <3>4, RowStep
  <2> QED
    BY <2>1, <2>2
<1>4. /\ DOMAIN exec' = Workers /\ exec'[w] = Idle
      /\ \A v \in Workers \ {w} : exec'[v] = exec[v]
  BY DEF Commit, DeliveryInv, Executing
<1>5. Executing'
  <2>1. Idle = [run |-> Idle.run, at |-> Idle.at, data |-> Idle.data] /\ Idle.at = "idle"
    BY DEF Idle
  <2> QED
    BY <1>3, <1>4, <2>1 DEF Executing, DeliveryInv
<1> QED
  BY <1>3, <1>5 DEF DeliveryInv

\* A reviewer decides: a rollback is of a row that was approved.
LEMMA DecideStep ==
    ASSUME DeliveryInv, NEW run \in Runs, NEW status \in Decisions, Decide(run, status)
    PROVE  DeliveryInv'
<1>1. /\ StatusBefore(status) \in rows[run].seen
      /\ rows' = [rows EXCEPT ![run] = [status |-> status, seen |-> @.seen \union {status},
                                        data |-> @.data]]
      /\ UNCHANGED exec
  BY DEF Decide
<1>2. /\ DOMAIN rows = Runs /\ History(rows[run]) /\ (HasRow(run) => Cleared(run))
      /\ rows[run] = [status |-> rows[run].status, seen |-> rows[run].seen,
                      data |-> rows[run].data]
  BY DEF DeliveryInv, Results
<1>3. PICK row : row = [status |-> status, seen |-> rows[run].seen \union {status},
                        data |-> rows[run].data]
  OBVIOUS
<1>4. rows' = [rows EXCEPT ![run] = row]
  BY <1>1, <1>2, <1>3
<1>5. rows[run].seen # {}
  BY <1>1
<1>6. HasRow(run) /\ History(row)
  <2>1. /\ HasRow(run)
        /\ rows[run].seen \subseteq Decisions \union {"pending_review"}
        /\ "pending_review" \in rows[run].seen
        /\ "rolled_back" \in rows[run].seen => "approved" \in rows[run].seen
    BY <1>2, <1>5 DEF History, HasRow, Decisions
  <2>2. row.status = status /\ row.seen = rows[run].seen \union {status}
    BY <1>3
  <2>3. status = "rolled_back" => "approved" \in rows[run].seen
    BY <1>1 DEF StatusBefore
  <2> QED
    BY <2>1, <2>2, <2>3 DEF History, Decisions
<1>7. Results' /\ \A r \in Runs : Cleared(r) => Cleared(r)'
  <2>1. /\ row = [status |-> row.status, seen |-> row.seen, data |-> row.data]
        /\ rows[run].seen \subseteq row.seen
    BY <1>3
  <2> QED
    BY <1>2, <1>4, <1>6, <2>1, RowStep
<1>8. Executing'
  BY <1>1, <1>7 DEF DeliveryInv, Executing
<1> QED
  BY <1>7, <1>8 DEF DeliveryInv

\* Every step keeps the invariant.
LEMMA NextDelivery == DeliveryInv /\ [Next]_vars => DeliveryInv'
<1> SUFFICES ASSUME DeliveryInv, [Next]_vars PROVE DeliveryInv'
  OBVIOUS
<1>1. ASSUME NEW w \in Workers, Step(w) PROVE DeliveryInv'
  BY <1>1, ExecutionStep, CommitStep DEF Step
<1>2. ASSUME NEW run \in Runs, NEW status \in Decisions, Decide(run, status)
      PROVE  DeliveryInv'
  BY <1>2, DecideStep
<1>3. ASSUME UNCHANGED <<rows, exec>> PROVE DeliveryInv'
  BY <1>3 DEF DeliveryInv, Results, Executing, Cleared, HasRow
<1>4. (\E run \in Runs : Purge(run)) \/ UserEdits \/ UNCHANGED vars => UNCHANGED <<rows, exec>>
  BY DEF Purge, UserEdits, ReplaceSource, create_standardization_column_mapping,
     delete_standardization_column_mapping, create_standardization_lookup_entry,
     delete_standardization_lookup_entry, create_match_rule_set, edit, vars
<1> QED
  BY <1>1, <1>2, <1>3, <1>4 DEF Next, Decisions

-----------------------------------------------------------------------------
(***************************************************************************)
(* The theorems.                                                           *)
(***************************************************************************)

\* Every row follows the approval state machine and every execution, however
\* late, is behind a result that was approved.
THEOREM DeliveryInvariant == Spec => []DeliveryInv
  BY InitDelivery, NextDelivery, PTL DEF Spec

\* Nothing is exported without three approvals.
THEOREM ExportsAreApproved == Spec => []ExportIsApproved
<1>1. DeliveryInv => ExportIsApproved
  <2> SUFFICES ASSUME DeliveryInv, NEW run \in RowsOf("EXPORT")
               PROVE  \A r \in {Source[run], Source[Source[run]], Source[Source[Source[run]]]} :
                         "approved" \in rows[r].seen
    BY DEF ExportIsApproved
  <2>1. ASSUME NEW r \in Runs, HasRow(r), Type[r] \in Gated
        PROVE  /\ "approved" \in rows[Source[r]].seen /\ HasRow(Source[r])
               /\ Source[r] \in Runs /\ Type[Source[r]] = Upstream[Type[r]]
    <3>1. /\ "approved" \in rows[Source[r]].seen
          /\ Source[r] \in Runs /\ Type[Source[r]] = Upstream[Type[r]]
      BY <2>1, DeliveryAssumption DEF DeliveryInv, Results, Cleared, Gated, Stages
    <3> QED
      BY <3>1 DEF DeliveryInv, Results, History, HasRow, Decisions
  <2>2. /\ Upstream["EXPORT"] = "MATCH" /\ Upstream["MATCH"] = "STANDARDIZE"
        /\ {"EXPORT", "MATCH", "STANDARDIZE"} \subseteq Gated
    BY DEF Upstream, Gated, Stages
  <2>3. run \in Runs /\ Type[run] = "EXPORT" /\ HasRow(run)
    BY DEF RowsOf
  <2> QED
    BY <2>1, <2>2, <2>3
<1> QED
  BY <1>1, DeliveryInvariant, PTL

\* What a run recorded is never recorded again, by a late execution or by a
\* reviewer, and no status it has had is forgotten.
THEOREM ResultsAreKept ==
    Spec => [][\A run \in Runs : HasRow(run) =>
                 /\ rows'[run].data = rows[run].data
                 /\ rows[run].seen \subseteq rows'[run].seen]_vars
<1> DEFINE A == \A run \in Runs : HasRow(run) =>
                  /\ rows'[run].data = rows[run].data
                  /\ rows[run].seen \subseteq rows'[run].seen
<1>1. DeliveryInv /\ [Next]_vars => [A]_vars
  <2> SUFFICES ASSUME DeliveryInv, Next PROVE A
    OBVIOUS
  <2>1. DOMAIN rows = Runs
        /\ \A run \in Runs : rows[run] = [status |-> rows[run].status, seen |-> rows[run].seen,
                                          data |-> rows[run].data]
    BY DEF DeliveryInv, Results
  <2>2. ASSUME NEW w \in Workers, Commit(w) PROVE A
    BY <2>1, <2>2 DEF Commit, HasRow
  <2>3. ASSUME NEW run \in Runs, NEW status, Decide(run, status) PROVE A
    <3>1. rows' = [rows EXCEPT ![run] = [status |-> status, seen |-> @.seen \union {status},
                                         data |-> @.data]]
      BY <2>3 DEF Decide
    <3>2. \A r \in Runs \ {run} : rows'[r] = rows[r]
      BY <2>1, <3>1
    <3>3. /\ rows'[run].data = rows[run].data
          /\ rows'[run].seen = rows[run].seen \union {status}
      BY <2>1, <3>1
    <3> QED
      BY <3>2, <3>3
  <2>4. CASE UNCHANGED rows
    BY <2>4
  <2>5. (\E w \in Workers : Step(w) /\ ~Commit(w)) \/ (\E run \in Runs : Purge(run)) \/ UserEdits
          => UNCHANGED rows
    BY DEF Step, Begin, Profile, Clean, Standardize, Match, Export, Computed, Write, Die, Purge,
       UserEdits, ReplaceSource, create_standardization_column_mapping,
       delete_standardization_column_mapping, create_standardization_lookup_entry,
       delete_standardization_lookup_entry, create_match_rule_set, edit
  <2> HIDE DEF A
  <2> QED
    BY <2>2, <2>3, <2>4, <2>5 DEF Next
<1> HIDE DEF A
<1>2. Spec => [][A]_vars
  BY <1>1, DeliveryInvariant, PTL DEF Spec
<1> QED
  BY <1>2 DEF A

-----------------------------------------------------------------------------
(***************************************************************************)
(* What the recorded results hold.                                         *)
(***************************************************************************)

\* Rows that have all their columns.
Shaped(content) == Len(content) \in Nat /\ IsGrid(content, Len(content))

\* A result whose complete log turns what was read into what was written.
Explained(d) ==
    /\ Shaped(d.loaded) /\ Shaped(d.output.rows) /\ d.output.width \in Nat
    /\ Len(d.changes) <= d.total_changes_count
    /\ Len(d.changes) = d.total_changes_count => Replay(d.loaded, d.changes) = d.output.rows

\* What was read is the output of the run above, if its executions did not
\* overlap.
ReadFrom(content, run) == run \notin overlapped => content = rows[run].data.output.rows

\* The result of an execution, recorded or about to be.
Sound(run, d) ==
    /\ Type[run] \in {"TRANSFORM", "STANDARDIZE"} => Explained(d)
    /\ Type[run] = "TRANSFORM" => ck_cleaning_runs(d)
    /\ Type[run] = "STANDARDIZE" => ck_standardization_runs(d)
    /\ Type[run] \in {"STANDARDIZE", "MATCH"} => ReadFrom(d.loaded, Source[run])
    /\ Type[run] = "MATCH" => /\ Shaped(d.loaded) /\ d.rule_set \in RuleSets
                              /\ d.result = match(d.loaded, d.rule_set)
    /\ Type[run] = "EXPORT" =>
         /\ ck_export_runs(d)
         /\ Source[Source[run]] \notin overlapped =>
              d.output.rows = Deduplicated(rows[Source[run]].data.loaded,
                                           rows[Source[run]].data.rule_set)

SoundResults ==
    /\ \A run \in Runs : HasRow(run) => Sound(run, rows[run].data)
    /\ \A w \in Workers : exec[w].at \in {"computed", "written"} => Sound(exec[w].run, exec[w].data)

\* What the handlers read: the source file, the files between the stages, and
\* the rule sets.
Readable ==
    /\ input \in Inputs
    /\ DOMAIN files = Runs
    /\ \A run \in Runs : Type[run] \in {"TRANSFORM", "STANDARDIZE"} /\ files[run].there =>
                           Shaped(files[run].rows) /\ files[run].width \in Nat
    /\ DOMAIN rules = Scopes
    /\ \A scope \in Scopes : rules[scope].rule_set \in RuleSets

\* A run whose executions did not overlap: one execution at a time, none after
\* its result, and the file is the one of that result, or gone.
Writing == {"TRANSFORM", "STANDARDIZE", "EXPORT"}
Alone(run) ==
    /\ \A v, w \in Workers : exec[v].run = run /\ exec[w].run = run => v = w
    /\ HasRow(run) => \A w \in Workers : exec[w].run # run
    /\ Type[run] \in Writing =>
         /\ \A w \in Workers : exec[w].run = run /\ exec[w].at = "written" =>
                                 files[run] = exec[w].data.output
         /\ HasRow(run) => files[run] \in {Missing, rows[run].data.output}

DataInv == SoundResults /\ Readable /\ \A run \in Runs \ overlapped : Alone(run)

\* No step forgets a result, and only a commit records one.
LEMMA RowsMade ==
    ASSUME DeliveryInv, [Next]_vars, NEW run \in Runs
    PROVE  /\ HasRow(run) => HasRow(run)' /\ rows'[run].data = rows[run].data
           /\ HasRow(run)' => \/ HasRow(run)
                              \/ \E w \in Workers : /\ Commit(w) /\ exec[w].run = run
                                                    /\ rows'[run].data = exec[w].data
<1>1. /\ DOMAIN rows = Runs
      /\ \A r \in Runs : rows[r] = [status |-> rows[r].status, seen |-> rows[r].seen,
                                    data |-> rows[r].data]
      /\ \A r \in Runs : History(rows[r])
  BY DEF DeliveryInv, Results
<1> DEFINE Kept == /\ HasRow(run) => HasRow(run)' /\ rows'[run].data = rows[run].data
                   /\ HasRow(run)' => \/ HasRow(run)
                                      \/ \E w \in Workers : /\ Commit(w) /\ exec[w].run = run
                                                            /\ rows'[run].data = exec[w].data
<1>2. ASSUME NEW w \in Workers, Commit(w) PROVE Kept
  <2>1. CASE HasRow(exec[w].run)
    BY <1>2, <2>1 DEF Commit, HasRow
  <2>2. CASE ~HasRow(exec[w].run)
    <3>1. rows' = [rows EXCEPT ![exec[w].run] = NewRow(exec[w].data)]
      BY <1>2, <2>2 DEF Commit
    <3>2. CASE run = exec[w].run
      <4>1. rows'[run] = NewRow(exec[w].data)
        BY <1>1, <3>1, <3>2
      <4>2. rows'[run].data = exec[w].data
        BY <4>1 DEF NewRow
      <4> QED
        BY <1>2, <2>2, <3>2, <4>2
    <3>3. CASE run # exec[w].run
      <4>1. rows'[run] = rows[run]
        BY <1>1, <3>1, <3>3
      <4> QED
        BY <4>1 DEF HasRow
    <3> QED
      BY <3>2, <3>3
  <2> QED
    BY <2>1, <2>2
<1>3. ASSUME NEW r \in Runs, NEW status \in Decisions, Decide(r, status) PROVE Kept
  <2>1. /\ rows' = [rows EXCEPT ![r] = [status |-> status, seen |-> @.seen \union {status},
                                        data |-> @.data]]
        /\ StatusBefore(status) \in rows[r].seen
    BY <1>3 DEF Decide
  <2>2. CASE run = r
    <3>1. rows'[run].data = rows[run].data /\ HasRow(run)
      BY <1>1, <2>1, <2>2 DEF History, HasRow, Decisions
    <3>2. rows'[run].status = status
      BY <1>1, <2>1, <2>2
    <3> QED
      BY <3>1, <3>2 DEF HasRow, Decisions
  <2>3. CASE run # r
    <3>1. rows'[run] = rows[run]
      BY <1>1, <2>1, <2>3
    <3> QED
      BY <3>1 DEF HasRow
  <2> QED
    BY <2>2, <2>3
<1>4. ASSUME UNCHANGED rows PROVE Kept
  BY <1>4 DEF HasRow
<1>5. (\E w \in Workers : Step(w) /\ ~Commit(w)) \/ (\E r \in Runs : Purge(r)) \/ UserEdits
        \/ UNCHANGED vars => UNCHANGED rows
  BY DEF Step, Begin, Profile, Clean, Standardize, Match, Export, Computed, Write, Die, Purge,
     UserEdits, ReplaceSource, create_standardization_column_mapping,
     delete_standardization_column_mapping, create_standardization_lookup_entry,
     delete_standardization_lookup_entry, create_match_rule_set, edit, vars
<1> HIDE DEF Kept
<1>6. Kept
  <2>1. CASE \E r \in Runs, status \in Decisions : Decide(r, status)
    BY <1>3, <2>1
  <2>2. CASE \E w \in Workers : Commit(w)
    BY <1>2, <2>2
  <2>3. (\E r \in Runs, status \in Decisions : Decide(r, status)) \/ (\E w \in Workers : Commit(w))
        \/ UNCHANGED rows
    BY <1>5 DEF Next, Decisions
  <2> QED
    BY <1>4, <2>1, <2>2, <2>3
<1> QED
  BY <1>6 DEF Kept

\* Overlapping executions are remembered.
LEMMA OverlapsKept == [Next]_vars => overlapped \subseteq overlapped'
  BY DEF Next, Step, Begin, Profile, Clean, Standardize, Match, Export, Computed, Write, Commit, Die,
     Decide, Purge, UserEdits, ReplaceSource, create_standardization_column_mapping,
     delete_standardization_column_mapping, create_standardization_lookup_entry,
     delete_standardization_lookup_entry, create_match_rule_set, edit, vars

\* Behind its gate a run has the result it consumes.
LEMMA UpstreamRow ==
    ASSUME DeliveryInv, NEW run \in Runs, Cleared(run), Type[run] \in Gated
    PROVE  /\ Source[run] \in Runs /\ HasRow(Source[run]) /\ Cleared(Source[run])
           /\ Type[Source[run]] = Upstream[Type[run]]
<1>1. /\ "approved" \in rows[Source[run]].seen
      /\ Source[run] \in Runs /\ Type[Source[run]] = Upstream[Type[run]]
  BY DeliveryAssumption DEF Cleared, Gated, Stages
<1>2. HasRow(Source[run])
  BY <1>1 DEF DeliveryInv, Results, History, HasRow, Decisions
<1>3. Cleared(Source[run])
  BY <1>1, <1>2 DEF DeliveryInv, Results
<1> QED
  BY <1>1, <1>2, <1>3

\* The stages and what each consumes.
LEMMA StageNames ==
    /\ {"STANDARDIZE", "MATCH", "EXPORT"} \subseteq Gated
    /\ Upstream["STANDARDIZE"] = "TRANSFORM" /\ Upstream["MATCH"] = "STANDARDIZE"
    /\ Upstream["EXPORT"] = "MATCH" /\ Upstream["TRANSFORM"] = "SYNC"
  BY DEF Gated, Stages, Upstream

\* A sound result stays sound: what it was made from is kept.
LEMMA SoundStays ==
    ASSUME DeliveryInv, [Next]_vars, NEW run \in Runs, Cleared(run), NEW d, Sound(run, d)
    PROVE  Sound(run, d)'
<1>1. \A r \in Runs : HasRow(r) => rows'[r].data = rows[r].data
  BY RowsMade
<1>2. overlapped \subseteq overlapped'
  BY OverlapsKept
<1>3. ASSUME Type[run] \in {"STANDARDIZE", "MATCH"} PROVE ReadFrom(d.loaded, Source[run])'
  <2>1. Source[run] \in Runs /\ HasRow(Source[run])
    BY <1>3, StageNames, UpstreamRow
  <2>2. rows'[Source[run]].data = rows[Source[run]].data
    BY <1>1, <2>1
  <2> QED
    BY <1>2, <1>3, <2>2 DEF Sound, ReadFrom
<1>4. ASSUME Type[run] = "EXPORT", Source[Source[run]] \notin overlapped'
      PROVE  d.output.rows = Deduplicated(rows'[Source[run]].data.loaded,
                                           rows'[Source[run]].data.rule_set)
  <2>1. Source[run] \in Runs /\ HasRow(Source[run])
    BY <1>4, StageNames, UpstreamRow
  <2>2. rows'[Source[run]].data = rows[Source[run]].data
    BY <1>1, <2>1
  <2>3. Source[Source[run]] \notin overlapped
    BY <1>2, <1>4
  <2> QED
    BY <1>4, <2>2, <2>3 DEF Sound
<1>5. Explained(d)' <=> Explained(d)
  BY DEF Explained, Shaped
<1>6. /\ ck_cleaning_runs(d)' <=> ck_cleaning_runs(d)
      /\ ck_standardization_runs(d)' <=> ck_standardization_runs(d)
      /\ ck_export_runs(d)' <=> ck_export_runs(d)
  BY DEF ck_cleaning_runs, ck_standardization_runs, ck_export_runs
<1>7. Shaped(d.loaded)' <=> Shaped(d.loaded)
  BY DEF Shaped
<1> QED
  BY <1>3, <1>4, <1>5, <1>6, <1>7 DEF Sound

\* Nothing is recorded, written or executing at the beginning.
LEMMA InitData == Init => DataInv
<1> SUFFICES ASSUME Init PROVE DataInv
  OBVIOUS
<1>1. /\ rows = [run \in Runs |-> NoRow] /\ files = [run \in Runs |-> Missing]
      /\ exec = [w \in Workers |-> Idle] /\ input \in Inputs
      /\ \E c \in InitialConfigs : rules = c.rules
  BY DEF Init
<1>2. \A run \in Runs : ~HasRow(run)
  BY <1>1 DEF HasRow, NoRow
<1>3. \A w \in Workers : exec[w].at = "idle" /\ exec[w].run = NoRun
  BY <1>1 DEF Idle
<1>4. \A run \in Runs : files[run] = Missing /\ ~files[run].there
  BY <1>1 DEF Missing
<1>5. SoundResults
  BY <1>2, <1>3 DEF SoundResults
<1>6. Readable
  BY <1>1, <1>4, DeliveryAssumption DEF Readable
<1>7. \A run \in Runs : Alone(run)
  BY <1>2, <1>3, DeliveryAssumption DEF Alone
<1> QED
  BY <1>5, <1>6, <1>7 DEF DataInv

\* There are no more different rows than rows.
LEMMA DistinctRows ==
    ASSUME NEW content, IsSeq(content)
    PROVE  /\ Cardinality({content[i] : i \in DOMAIN content}) \in Nat
           /\ Cardinality({content[i] : i \in DOMAIN content}) <= Len(content)
<1>1. PICK n \in Nat : n = Len(content) /\ DOMAIN content = 1..n
  BY SeqLen DEF IsSeq
<1>2. IsFiniteSet(1..n) /\ Cardinality(1..n) = n
  BY FS_Interval
<1>3. PICK S : S = {content[i] : i \in 1..n}
  OBVIOUS
<1>4. PICK f : f = [i \in 1..n |-> content[i]]
  OBVIOUS
<1>5. f \in Surjection(1..n, S)
  BY <1>3, <1>4 DEF Surjection
<1>6. IsFiniteSet(S) /\ Cardinality(S) <= n
  BY <1>2, <1>5, FS_Surjection
<1> QED
  BY <1>1, <1>3, <1>6, FS_CardinalityType

\* A match records finitely many groups.
LEMMA RecordedGroups ==
    ASSUME NEW content, IsSeq(content), NEW rs
    PROVE  Cardinality(match(content, rs).groups) \in Nat
<1> DEFINE all == AllDecisions(content, rs)
           groups == Groups(Len(content), all)
           Group(c) == [canonical_row_index |-> Smallest(c), record_count |-> Cardinality(c),
                        confidence_score |-> Confidence(c, all, rs)]
<1>1. match(content, rs).groups = {Group(c) : c \in groups}
  BY DEF match
<1>2. IsFiniteSet(groups)
  BY GroupsAre
<1> HIDE DEF groups, Group
<1>3. IsFiniteSet({Group(c) : c \in groups})
  <2>1. PICK f : f = [c \in groups |-> Group(c)]
    OBVIOUS
  <2>2. PICK S : S = {Group(c) : c \in groups}
    OBVIOUS
  <2>3. f \in Surjection(groups, S)
    BY <2>1, <2>2 DEF Surjection
  <2> QED
    BY <1>2, <2>2, <2>3, FS_Surjection
<1> QED
  BY <1>1, <1>3, FS_CardinalityType

\* A cleaning computes a sound result.
LEMMA CleanComputes ==
    ASSUME DeliveryInv, DataInv, NEW w \in Workers, Clean(w)
    PROVE  \E d : Computed(w, "computed", d) /\ Sound(exec[w].run, d)
<1>1. PICK profile : profile = rows[Source[exec[w].run]].data
  OBVIOUS
<1>2. PICK d : d = CleaningRun(input, profile)
  OBVIOUS
<1>3. Computed(w, "computed", d) /\ Type[exec[w].run] = "TRANSFORM"
  BY <1>1, <1>2 DEF Clean, Began
<1>4. input.rows \in Seq(Seq(Fields)) /\ input.width \in Nat
  BY DeliveryAssumption DEF DataInv, Readable
<1>5. PICK raw : raw = input.rows
  OBVIOUS
<1>6. IsSeq(raw)
  BY <1>4, <1>5 DEF IsSeq
<1>7. Len(raw) \in Nat /\ IsGrid(load_csv(raw), Len(raw)) /\ Len(load_csv(raw)) = Len(raw)
  BY <1>6, LoadIs
<1>8. PICK result : result = clean(load_csv(raw), profile.types)
  OBVIOUS
<1>9. RewrittenOf(result, load_csv(raw), Len(raw))
  BY <1>7, <1>8, CleanIs
<1>10. /\ d.loaded = load_csv(raw) /\ d.output.rows = result.rows /\ d.changes = result.changes
       /\ d.total_changes_count = result.total_changes_count
       /\ d.row_count = Len(result.rows) /\ d.output.width = input.width
       /\ d.duplicate_row_count
            = Len(result.rows) - Cardinality({result.rows[i] : i \in DOMAIN result.rows})
  BY <1>2, <1>5, <1>8 DEF CleaningRun, Output
<1>11. IsGrid(result.rows, Len(raw)) /\ Len(result.rows) = Len(raw)
  BY <1>7, <1>9, LoadGrid DEF RewrittenOf
<1>12. Explained(d)
  BY <1>4, <1>7, <1>9, <1>10, <1>11 DEF Explained, Shaped, RewrittenOf
<1>13. Cardinality({result.rows[i] : i \in DOMAIN result.rows}) <= Len(result.rows)
  BY <1>7, <1>11, LoadGrid, DistinctRows
<1>14. Cardinality({result.rows[i] : i \in DOMAIN result.rows}) \in Nat
  BY <1>7, <1>11, LoadGrid, DistinctRows
<1>15. result.total_changes_count \in Nat
  BY <1>9 DEF RewrittenOf
<1>16. ck_cleaning_runs(d)
  BY <1>7, <1>10, <1>11, <1>13, <1>14, <1>15 DEF ck_cleaning_runs
<1> QED
  BY <1>3, <1>12, <1>16 DEF Sound

\* Of a stage that reads the file of the run above: it has all its columns and
\* is what that run recorded, unless executions of it overlapped.
LEMMA FileIsRead ==
    ASSUME DeliveryInv, DataInv, NEW run \in Runs, HasRow(run), files[run].there,
           Type[run] \in {"TRANSFORM", "STANDARDIZE"}
    PROVE  /\ Shaped(files[run].rows) /\ files[run].width \in Nat
           /\ load_csv(files[run].rows) = files[run].rows
           /\ ReadFrom(files[run].rows, run)
<1>1. Shaped(files[run].rows) /\ files[run].width \in Nat
  BY DEF DataInv, Readable
<1>2. load_csv(files[run].rows) = files[run].rows
  BY <1>1, LoadGrid DEF Shaped
<1>3. ~Missing.there
  BY DEF Missing
<1>4. run \notin overlapped => files[run] \in {Missing, rows[run].data.output}
  BY DEF DataInv, Alone, Writing
<1> QED
  BY <1>1, <1>2, <1>3, <1>4 DEF ReadFrom

\* So does a standardization.
LEMMA StandardizeComputes ==
    ASSUME DeliveryInv, DataInv, NEW w \in Workers, Standardize(w)
    PROVE  \E d : Computed(w, "computed", d) /\ Sound(exec[w].run, d)
<1>1. PICK run : run = exec[w].run
  OBVIOUS
<1>2. PICK file : file = files[Source[run]]
  OBVIOUS
<1>3. PICK d : d = StandardizationRun(file, load_column_overrides, load_lookup_tables)
  OBVIOUS
<1>4. /\ Computed(w, "computed", d) /\ Type[run] = "STANDARDIZE" /\ file.there
      /\ exec[w].at = "began"
  BY <1>1, <1>2, <1>3 DEF Standardize, Began
<1>5. run \in Runs /\ Cleared(run)
  BY <1>1, <1>4 DEF DeliveryInv, Executing
<1>6. Source[run] \in Runs /\ HasRow(Source[run]) /\ Type[Source[run]] = "TRANSFORM"
  BY <1>4, <1>5, UpstreamRow, StageNames
<1>7. Shaped(file.rows) /\ load_csv(file.rows) = file.rows /\ ReadFrom(file.rows, Source[run])
      /\ file.width \in Nat
  BY <1>2, <1>4, <1>6, FileIsRead
<1>8. PICK from : from = file.rows
  OBVIOUS
<1>9. PICK n : n = Len(from)
  OBVIOUS
<1>10. n \in Nat /\ IsGrid(from, n)
  BY <1>7, <1>8, <1>9 DEF Shaped
<1>11. PICK types, tables : types = classify_columns(load_column_overrides) /\ tables = load_lookup_tables
  OBVIOUS
<1>12. PICK result : result = standardize(from, types, tables)
  OBVIOUS
<1>13. RewrittenOf(result, from, n)
  BY <1>10, <1>12, StandardizeIs
<1>14. /\ d.loaded = from /\ d.output.rows = result.rows /\ d.changes = result.changes
       /\ d.total_changes_count = result.total_changes_count
       /\ d.row_count = Len(result.rows) /\ d.output.width = file.width
  BY <1>3, <1>7, <1>8, <1>11, <1>12 DEF StandardizationRun, Output
<1>15. IsGrid(result.rows, n) /\ Len(result.rows) = n
  BY <1>10, <1>13, LoadGrid DEF RewrittenOf
<1>16. Explained(d)
  BY <1>7, <1>9, <1>10, <1>13, <1>14, <1>15 DEF Explained, Shaped, RewrittenOf
<1>17. ck_standardization_runs(d)
  BY <1>10, <1>13, <1>14, <1>15 DEF ck_standardization_runs, RewrittenOf
<1> QED
  BY <1>1, <1>4, <1>7, <1>8, <1>14, <1>16, <1>17 DEF Sound

\* A matching computes a sound result.
LEMMA MatchComputes ==
    ASSUME DeliveryInv, DataInv, NEW w \in Workers, Match(w)
    PROVE  \E d : Computed(w, "written", d) /\ Sound(exec[w].run, d)
<1>1. PICK run : run = exec[w].run
  OBVIOUS
<1>2. PICK file : file = files[Source[run]]
  OBVIOUS
<1>3. PICK active : active = load_rule_set
  OBVIOUS
<1>4. PICK d : d = MatchRun(file, active)
  OBVIOUS
<1>5. /\ Computed(w, "written", d) /\ Type[run] = "MATCH" /\ file.there
      /\ exec[w].at = "began"
  BY <1>1, <1>2, <1>3, <1>4 DEF Match, Began
<1>6. run \in Runs /\ Cleared(run)
  BY <1>1, <1>5 DEF DeliveryInv, Executing
<1>7. Source[run] \in Runs /\ HasRow(Source[run]) /\ Type[Source[run]] = "STANDARDIZE"
  BY <1>5, <1>6, UpstreamRow, StageNames
<1>8. Shaped(file.rows) /\ load_csv(file.rows) = file.rows /\ ReadFrom(file.rows, Source[run])
  BY <1>2, <1>5, <1>7, FileIsRead
<1>9. active.rule_set \in RuleSets
  <2>1. rules["data_source"].rule_set \in RuleSets /\ rules["org_wide"].rule_set \in RuleSets
    BY DEF DataInv, Readable, Scopes
  <2> QED
    BY <1>3, <2>1 DEF load_rule_set
<1>10. /\ d.loaded = file.rows /\ d.rule_set = active.rule_set
       /\ d.result = match(file.rows, active.rule_set)
  BY <1>4, <1>8 DEF MatchRun
<1> QED
  BY <1>1, <1>5, <1>8, <1>9, <1>10 DEF Sound

\* An export computes a sound result: the rows it reads anew are the rows that
\* were matched, unless executions of the standardization overlapped.
LEMMA ExportComputes ==
    ASSUME DeliveryInv, DataInv, NEW w \in Workers, Export(w)
    PROVE  \E d : Computed(w, "computed", d) /\ Sound(exec[w].run, d)
<1>1. PICK run : run = exec[w].run
  OBVIOUS
<1>2. PICK matched : matched = rows[Source[run]].data
  OBVIOUS
<1>3. PICK file : file = files[Source[Source[run]]]
  OBVIOUS
<1>4. PICK result : result = matched.result
  OBVIOUS
<1>5. PICK d : d = ExportRun(file, result)
  OBVIOUS
<1>6. /\ Computed(w, "computed", d) /\ Type[run] = "EXPORT" /\ file.there
      /\ exec[w].at = "began" /\ CanLoadGroups(result)
  BY <1>1, <1>2, <1>3, <1>4, <1>5 DEF Export, Began
<1>7. run \in Runs /\ Cleared(run)
  BY <1>1, <1>6 DEF DeliveryInv, Executing
<1>8. /\ Source[run] \in Runs /\ HasRow(Source[run]) /\ Type[Source[run]] = "MATCH"
      /\ Cleared(Source[run])
  BY <1>6, <1>7, UpstreamRow, StageNames
<1>9. PICK z : z = Source[Source[run]]
  OBVIOUS
<1>10. z \in Runs /\ HasRow(z) /\ Type[z] = "STANDARDIZE"
  BY <1>8, <1>9, UpstreamRow, StageNames
<1>11. Shaped(file.rows) /\ load_csv(file.rows) = file.rows /\ ReadFrom(file.rows, z)
       /\ file.width \in Nat
  BY <1>3, <1>6, <1>9, <1>10, FileIsRead
<1>12. Sound(Source[run], matched)
  BY <1>2, <1>8 DEF DataInv, SoundResults
<1>13. /\ ReadFrom(matched.loaded, z)
       /\ result = match(matched.loaded, matched.rule_set)
  BY <1>4, <1>8, <1>9, <1>12 DEF Sound
<1>14. PICK content : content = file.rows
  OBVIOUS
<1>15. content = load_csv(content) /\ Len(content) \in Nat /\ IsSeq(content)
  BY <1>11, <1>14, LoadGrid DEF Shaped
<1>16. PICK groups : groups = load_groups(result)
  OBVIOUS
<1>17. PICK out : out = materialize(content, groups)
  OBVIOUS
<1>18. /\ Len(out.rows) \in Nat /\ Len(out.rows) <= Len(content)
       /\ out.excluded_row_count = Len(content) - Len(out.rows)
  BY <1>15, <1>17, ExportCounts
<1>19. /\ d.output.rows = out.rows /\ d.source_row_count = Len(content)
       /\ d.row_count = Len(out.rows) /\ d.excluded_row_count = out.excluded_row_count
       /\ d.duplicate_groups_materialized_count = Cardinality(result.groups)
       /\ d.output_column_count = file.width + 2
  BY <1>5, <1>14, <1>15, <1>16, <1>17 DEF ExportRun, Output
<1>20. ck_export_runs(d)
  <2>1. PICK from, rs : from = matched.loaded /\ rs = matched.rule_set
    OBVIOUS
  <2>2. IsSeq(from) /\ result = match(from, rs)
    BY <1>8, <1>12, <1>13, <2>1, LoadGrid DEF Sound, Shaped
  <2>3. Cardinality(result.groups) \in Nat
    BY <2>2, RecordedGroups
  <2> QED
    BY <1>11, <1>15, <1>18, <1>19, <2>3 DEF ck_export_runs
<1>21. ASSUME z \notin overlapped
       PROVE  d.output.rows = Deduplicated(matched.loaded, matched.rule_set)
  <2>1. matched.loaded = content
    BY <1>11, <1>13, <1>14, <1>21 DEF ReadFrom
  <2>2. PICK rs : rs = matched.rule_set
    OBVIOUS
  <2>3. result = match(content, rs) /\ CanLoadGroups(match(content, rs))
    BY <1>6, <1>13, <2>1, <2>2
  <2>4. out.rows = Deduplicated(content, rs)
    BY <1>15, <1>16, <1>17, <2>3, ExportKeepsFirst
  <2> QED
    BY <1>19, <2>1, <2>2, <2>4
<1> QED
  BY <1>1, <1>2, <1>6, <1>9, <1>20, <1>21 DEF Sound

\* A result an execution holds was sound when it was computed or is computed now.
LEMMA ResultsHeld ==
    ASSUME DeliveryInv, DataInv, [Next]_vars, NEW v \in Workers,
           exec'[v].at \in {"computed", "written"}
    PROVE  \E d : /\ d = exec'[v].data /\ exec'[v].run = exec[v].run
                  /\ exec[v].at # "idle" /\ Sound(exec[v].run, d)
<1> DEFINE Held == \E d : /\ d = exec'[v].data /\ exec'[v].run = exec[v].run
                          /\ exec[v].at # "idle" /\ Sound(exec[v].run, d)
<1>1. /\ DOMAIN exec = Workers
      /\ \A w \in Workers : exec[w] = [run |-> exec[w].run, at |-> exec[w].at,
                                       data |-> exec[w].data]
  BY DEF DeliveryInv, Executing
<1>2. ASSUME exec[v].at \in {"computed", "written"}, exec'[v].run = exec[v].run,
             exec'[v].data = exec[v].data
      PROVE  Held
  <2>1. Sound(exec[v].run, exec[v].data)
    BY <1>2 DEF DataInv, SoundResults
  <2> QED
    BY <1>2, <2>1
<1>3. ASSUME exec'[v] = exec[v] PROVE Held
  BY <1>2, <1>3
<1>4. ASSUME NEW w \in Workers, exec[w].at = "began", NEW at, NEW d, Computed(w, at, d),
             Sound(exec[w].run, d)
      PROVE  Held
  <2>1. CASE v = w
    <3>1. exec'[v].run = exec[v].run /\ exec'[v].data = d
      BY <1>1, <1>4, <2>1 DEF Computed
    <3> QED
      BY <1>4, <2>1, <3>1
  <2>2. CASE v # w
    BY <1>1, <1>3, <1>4, <2>2 DEF Computed
  <2> QED
    BY <2>1, <2>2
<1>5. ASSUME NEW w \in Workers, Write(w) PROVE Held
  <2>1. CASE v = w
    <3>1. /\ exec'[v].run = exec[v].run /\ exec'[v].data = exec[v].data
          /\ exec[v].at = "computed"
      BY <1>1, <1>5, <2>1 DEF Write
    <3> QED
      BY <1>2, <3>1
  <2>2. CASE v # w
    BY <1>1, <1>3, <1>5, <2>2 DEF Write
  <2> QED
    BY <2>1, <2>2
<1>6. ASSUME NEW w \in Workers, NEW x, exec' = [exec EXCEPT ![w] = x], x.at \in {"began", "idle"}
      PROVE  Held
  <2>1. v # w
    BY <1>1, <1>6
  <2> QED
    BY <1>1, <1>3, <1>6, <2>1
<1>7. ASSUME NEW w \in Workers, NEW run \in Runs, Begin(w, run) PROVE Held
  <2>1. PICK x : x = [run |-> run, at |-> "began", data |-> <<>>]
    OBVIOUS
  <2> QED
    BY <1>6, <1>7, <2>1 DEF Begin
<1>8. ASSUME NEW w \in Workers, Commit(w) \/ Die(w) PROVE Held
  <2>1. PICK x : x = Idle
    OBVIOUS
  <2> QED
    BY <1>6, <1>8, <2>1 DEF Commit, Die, Idle
<1>9. ASSUME NEW w \in Workers, Profile(w) PROVE Held
  <2>1. PICK d : d = DataProfile(input)
    OBVIOUS
  <2>2. exec[w].at = "began" /\ Computed(w, "written", d) /\ Type[exec[w].run] = "SYNC"
    BY <1>9, <2>1 DEF Profile, Began
  <2>3. Sound(exec[w].run, d)
    BY <2>2 DEF Sound
  <2> QED
    BY <1>4, <2>2, <2>3
<1>10. ASSUME NEW w \in Workers, Clean(w) \/ Standardize(w) \/ Match(w) \/ Export(w)
       PROVE  Held
  <2>1. exec[w].at = "began"
    BY <1>10 DEF Clean, Standardize, Match, Export, Began
  <2>2. \E at, d : Computed(w, at, d) /\ Sound(exec[w].run, d)
    BY <1>10, CleanComputes, StandardizeComputes, MatchComputes, ExportComputes
  <2> QED
    BY <1>4, <2>1, <2>2
<1>11. (\E r \in Runs, status \in Decisions : Decide(r, status)) \/ (\E r \in Runs : Purge(r))
         \/ UserEdits \/ UNCHANGED vars => UNCHANGED exec
  BY DEF Decide, Purge, UserEdits, ReplaceSource, create_standardization_column_mapping,
     delete_standardization_column_mapping, create_standardization_lookup_entry,
     delete_standardization_lookup_entry, create_match_rule_set, edit, vars
<1> HIDE DEF Held
<1>12. ASSUME NEW w \in Workers, Step(w) PROVE Held
  BY <1>5, <1>7, <1>8, <1>9, <1>10, <1>12 DEF Step
<1>13. Held
  <2>1. CASE \E w \in Workers : Step(w)
    BY <1>12, <2>1
  <2>2. (\E w \in Workers : Step(w)) \/ UNCHANGED exec
    BY <1>11 DEF Next, Decisions
  <2> QED
    BY <1>3, <2>1, <2>2
<1> QED
  BY <1>13 DEF Held

\* Every step keeps the results sound.
LEMMA SoundStep ==
    ASSUME DeliveryInv, DataInv, [Next]_vars
    PROVE  SoundResults'
<1>1. ASSUME NEW run \in Runs, HasRow(run)' PROVE Sound(run, rows[run].data)'
  <2>1. PICK d : d = rows'[run].data
    OBVIOUS
  <2>2. Sound(run, d) /\ Cleared(run)
    <3>1. CASE HasRow(run)
      <4>1. rows'[run].data = rows[run].data
        BY <3>1, RowsMade
      <4> QED
        BY <2>1, <3>1, <4>1 DEF DataInv, SoundResults, DeliveryInv, Results
    <3>2. CASE ~HasRow(run)
      <4>1. PICK w \in Workers : Commit(w) /\ exec[w].run = run /\ rows'[run].data = exec[w].data
        BY <1>1, <3>2, RowsMade
      <4>2. exec[w].at = "written"
        BY <4>1 DEF Commit
      <4> QED
        BY <2>1, <4>1, <4>2 DEF DataInv, SoundResults, DeliveryInv, Executing
    <3> QED
      BY <3>1, <3>2
  <2>3. Sound(run, d)'
    BY <2>2, SoundStays
  <2> QED
    BY <2>1, <2>3 DEF Sound, Explained, Shaped, ReadFrom, ck_cleaning_runs,
       ck_standardization_runs, ck_export_runs
<1>2. ASSUME NEW v \in Workers, exec'[v].at \in {"computed", "written"}
      PROVE  Sound(exec[v].run, exec[v].data)'
  <2>1. PICK d : /\ d = exec'[v].data /\ exec'[v].run = exec[v].run
                 /\ exec[v].at # "idle" /\ Sound(exec[v].run, d)
    BY <1>2, ResultsHeld
  <2>2. PICK run : run = exec[v].run
    OBVIOUS
  <2>3. run \in Runs /\ Cleared(run)
    BY <2>1, <2>2 DEF DeliveryInv, Executing
  <2>4. Sound(run, d)'
    BY <2>1, <2>2, <2>3, SoundStays
  <2>5. run = exec'[v].run
    BY <2>1, <2>2
  <2> QED
    BY <2>1, <2>4, <2>5 DEF Sound, Explained, Shaped, ReadFrom, ck_cleaning_runs,
       ck_standardization_runs, ck_export_runs
<1> QED
  BY <1>1, <1>2 DEF SoundResults

\* A rule set stays one in whatever order its fields load.
LEMMA LoadedIsRuleSet ==
    ASSUME NEW rs \in RuleSets, NEW loaded \in LoadedAs(rs)
    PROVE  loaded \in RuleSets
<1>1. PICK order \in Bijection(DOMAIN rs.fields, DOMAIN rs.fields) :
          loaded = [rs EXCEPT !.fields = [k \in DOMAIN rs.fields |-> rs.fields[order[k]]]]
  BY DEF LoadedAs
<1> DEFINE fields == [k \in DOMAIN rs.fields |-> rs.fields[order[k]]]
<1>2. rs.fields \in Seq(RuleFields) /\ DOMAIN rs.fields = 1..Len(rs.fields)
  BY DEF RuleSets
<1>3. order \in [DOMAIN rs.fields -> DOMAIN rs.fields]
  BY DEF Bijection, Injection
<1>4. \A k \in 1..Len(rs.fields) : rs.fields[order[k]] \in RuleFields
  <2> SUFFICES ASSUME NEW k \in 1..Len(rs.fields) PROVE rs.fields[order[k]] \in RuleFields
    OBVIOUS
  <2>1. order[k] \in 1..Len(rs.fields)
    BY <1>2, <1>3
  <2> QED
    BY <1>2, <2>1
<1>5. fields \in Seq(RuleFields)
  <2>1. fields \in [1..Len(rs.fields) -> RuleFields] /\ Len(rs.fields) \in Nat
    BY <1>2, <1>4
  <2> QED
    BY <2>1, SMT
<1> QED
  BY <1>1, <1>5 DEF RuleSets

\* Every step keeps what the handlers read readable.
LEMMA ReadableStep ==
    ASSUME DeliveryInv, DataInv, [Next]_vars
    PROVE  Readable'
<1> USE DEF Shaped
<1>1. /\ input \in Inputs /\ DOMAIN files = Runs /\ DOMAIN rules = Scopes
      /\ \A run \in Runs : Type[run] \in {"TRANSFORM", "STANDARDIZE"} /\ files[run].there =>
                             Shaped(files[run].rows) /\ files[run].width \in Nat
      /\ \A scope \in Scopes : rules[scope].rule_set \in RuleSets
  BY DEF DataInv, Readable
<1>2. ASSUME UNCHANGED <<input, files, rules>> PROVE Readable'
  BY <1>1, <1>2 DEF Readable
<1>3. ASSUME NEW w \in Workers, Write(w) PROVE Readable'
  <2>1. PICK run, d : run = exec[w].run /\ d = exec[w].data
    OBVIOUS
  <2>2. run \in Runs /\ Sound(run, d)
    BY <1>3, <2>1 DEF Write, DeliveryInv, Executing, DataInv, SoundResults
  <2>3. /\ files' = [files EXCEPT ![run] = d.output]
        /\ UNCHANGED <<input, rules>>
    BY <1>3, <2>1 DEF Write, config
  <2>4. Type[run] \in {"TRANSFORM", "STANDARDIZE"} => Shaped(d.output.rows) /\ d.output.width \in Nat
    BY <2>2 DEF Sound, Explained
  <2> QED
    BY <1>1, <2>2, <2>3, <2>4 DEF Readable
<1>4. ASSUME NEW run \in Runs, Purge(run) PROVE Readable'
  <2>1. files' = [files EXCEPT ![run] = Missing] /\ UNCHANGED <<input, rules>>
    BY <1>4 DEF Purge, config
  <2>2. ~Missing.there
    BY DEF Missing
  <2> QED
    BY <1>1, <2>1, <2>2 DEF Readable
<1>5. ASSUME NEW file \in Inputs, ReplaceSource(file) PROVE Readable'
  BY <1>1, <1>5 DEF ReplaceSource, config, edit, Readable
<1>6. ASSUME NEW scope, NEW rs \in RuleSets, create_match_rule_set(scope, rs) PROVE Readable'
  <2>1. PICK loaded \in LoadedAs(rs) :
            rules' = [rules EXCEPT ![scope] = [rule_set |-> loaded, version |-> @.version + 1]]
    BY <1>6 DEF create_match_rule_set
  <2>2. UNCHANGED <<input, files>>
    BY <1>6 DEF create_match_rule_set, edit
  <2>3. loaded \in RuleSets
    BY LoadedIsRuleSet
  <2>4. \A s \in Scopes : rules'[s].rule_set \in RuleSets
    BY <1>1, <2>1, <2>3
  <2> QED
    BY <1>1, <2>1, <2>2, <2>4 DEF Readable
<1>7. UserEdits => \/ \E file \in Inputs : ReplaceSource(file)
                   \/ \E scope, rs : rs \in RuleSets /\ create_match_rule_set(scope, rs)
                   \/ UNCHANGED <<input, files, rules>>
  BY DeliveryAssumption DEF UserEdits, create_standardization_column_mapping,
     delete_standardization_column_mapping, create_standardization_lookup_entry,
     delete_standardization_lookup_entry, edit
<1>8. (\E w \in Workers : Step(w) /\ ~Write(w)) \/ UNCHANGED vars
        \/ (\E r \in Runs, status \in Decisions : Decide(r, status))
          => UNCHANGED <<input, files, rules>>
  BY DEF Step, Begin, Profile, Clean, Standardize, Match, Export, Computed, Commit, Die, Decide,
     config, vars
<1> QED
  BY <1>2, <1>3, <1>4, <1>5, <1>6, <1>7, <1>8 DEF Next, Decisions

\* A step that changes neither the executions nor the result nor the file of a
\* run leaves it as it is.
LEMMA AloneKept ==
    ASSUME NEW run \in Runs, Alone(run), UNCHANGED files[run],
           HasRow(run)' => HasRow(run) /\ rows'[run].data = rows[run].data,
           \A v \in Workers : exec'[v].run = run =>
             /\ exec[v].run = run
             /\ Type[run] \in Writing /\ exec'[v].at = "written" =>
                  exec[v].at = "written" /\ exec'[v].data = exec[v].data
    PROVE  Alone(run)'
<1>1. \A v, w \in Workers : exec'[v].run = run /\ exec'[w].run = run => v = w
  BY DEF Alone
<1>2. HasRow(run)' => \A w \in Workers : exec'[w].run # run
  BY DEF Alone
<1>3. ASSUME Type[run] \in Writing, NEW w \in Workers, exec'[w].run = run, exec'[w].at = "written"
      PROVE  files'[run] = exec'[w].data.output
  BY <1>3 DEF Alone
<1>4. Type[run] \in Writing /\ HasRow(run)' => files'[run] \in {Missing, rows'[run].data.output}
  BY DEF Alone
<1> QED
  BY <1>1, <1>2, <1>3, <1>4 DEF Alone

\* An execution of a run that has not overlapped begins when there is no other,
\* and has the run to itself until its result is there.
LEMMA AloneExecutes ==
    ASSUME DeliveryInv, DOMAIN files = Runs, NEW run \in Runs, run \notin overlapped', Alone(run),
           NEW w \in Workers, Step(w)
    PROVE  Alone(run)'
<1>1. /\ DOMAIN exec = Workers
      /\ \A v \in Workers : exec[v] = [run |-> exec[v].run, at |-> exec[v].at,
                                       data |-> exec[v].data]
      /\ DOMAIN rows = Runs
  BY DEF DeliveryInv, Executing, Results
<1>2. Idle.run # run
  BY DeliveryAssumption DEF Idle
<1>3. ASSUME NEW r \in Runs, Begin(w, r) PROVE Alone(run)'
  <2>1. /\ exec' = [exec EXCEPT ![w] = [run |-> r, at |-> "began", data |-> <<>>]]
        /\ UNCHANGED <<rows, files>> /\ ~HasRow(r)
        /\ (\E v \in Workers : exec[v].run = r) => r \in overlapped'
    BY <1>3 DEF Begin
  <2>2. /\ exec'[w].run = r /\ exec'[w].at = "began"
        /\ \A v \in Workers \ {w} : exec'[v] = exec[v]
    BY <1>1, <2>1
  <2>3. CASE r = run
    <3>1. \A v \in Workers \ {w} : exec'[v].run # run
      BY <2>1, <2>2, <2>3
    <3>2. ~HasRow(run)'
      BY <2>1, <2>3 DEF HasRow
    <3> QED
      BY <2>2, <3>1, <3>2 DEF Alone
  <2>4. CASE r # run
    BY <2>1, <2>2, <2>4, AloneKept DEF HasRow
  <2> QED
    BY <2>3, <2>4
<1>4. ASSUME NEW at, NEW d, Computed(w, at, d), at = "written" => Type[exec[w].run] \notin Writing
      PROVE  Alone(run)'
  <2>1. /\ exec'[w].run = exec[w].run /\ exec'[w].at = at
        /\ \A v \in Workers \ {w} : exec'[v] = exec[v]
        /\ UNCHANGED <<rows, files>>
    BY <1>1, <1>4 DEF Computed
  <2> QED
    BY <1>4, <2>1, AloneKept DEF HasRow
<1>5. CASE Profile(w) \/ Clean(w) \/ Standardize(w) \/ Match(w) \/ Export(w)
  <2>1. \E at, d : Computed(w, at, d) /\ (at = "written" => Type[exec[w].run] \in {"SYNC", "MATCH"})
    BY <1>5 DEF Profile, Clean, Standardize, Match, Export, Began
  <2> QED
    BY <1>4, <2>1 DEF Writing
<1>6. CASE Write(w)
  <2>1. PICK r, d : r = exec[w].run /\ d = exec[w].data
    OBVIOUS
  <2>2. /\ exec'[w].run = r /\ exec'[w].data = d
        /\ \A v \in Workers \ {w} : exec'[v] = exec[v]
        /\ UNCHANGED rows /\ files' = [files EXCEPT ![r] = d.output] /\ exec[w].at = "computed"
    BY <1>1, <1>6, <2>1 DEF Write
  <2>3. CASE r = run
    <3>1. files'[run] = d.output
      BY <2>2, <2>3
    <3>2. \A v \in Workers : exec[v].run = run => v = w
      BY <2>1, <2>3 DEF Alone
    <3>3. \A v \in Workers : exec'[v].run = run => v = w
      BY <2>2, <3>2
    <3>4. ~HasRow(run)
      BY <2>1, <2>3 DEF Alone
    <3>5. ~HasRow(run)'
      BY <2>2, <3>4 DEF HasRow
    <3> QED
      BY <2>2, <3>1, <3>3, <3>5 DEF Alone
  <2>4. CASE r # run
    <3>1. UNCHANGED files[run]
      BY <2>2, <2>4
    <3> QED
      BY <2>2, <2>4, <3>1, AloneKept DEF HasRow
  <2> QED
    BY <2>3, <2>4
<1>7. CASE Commit(w)
  <2>1. PICK r, d : r = exec[w].run /\ d = exec[w].data
    OBVIOUS
  <2>2. /\ exec'[w].run # run
        /\ \A v \in Workers \ {w} : exec'[v] = exec[v]
        /\ UNCHANGED files /\ exec[w].at = "written"
        /\ rows' = IF HasRow(r) THEN rows ELSE [rows EXCEPT ![r] = NewRow(d)]
    BY <1>1, <1>2, <1>7, <2>1 DEF Commit
  <2>3. CASE r = run
    <3>1. ~HasRow(run)
      BY <2>1, <2>3 DEF Alone
    <3>2. rows'[run] = NewRow(d)
      BY <1>1, <2>2, <2>3, <3>1
    <3>3. rows'[run].data = d
      BY <3>2 DEF NewRow
    <3>4. \A v \in Workers : exec'[v].run # run
      BY <2>1, <2>2, <2>3 DEF Alone
    <3>5. Type[run] \in Writing => files'[run] = d.output
      BY <2>1, <2>2, <2>3 DEF Alone
    <3> QED
      BY <3>3, <3>4, <3>5 DEF Alone
  <2>4. CASE r # run
    <3>1. rows'[run] = rows[run]
      BY <2>2, <2>4
    <3> QED
      BY <2>2, <3>1, AloneKept DEF HasRow
  <2> QED
    BY <2>3, <2>4
<1>8. CASE Die(w)
  <2>1. /\ exec'[w].run # run
        /\ \A v \in Workers \ {w} : exec'[v] = exec[v]
        /\ UNCHANGED <<rows, files>>
    BY <1>1, <1>2, <1>8 DEF Die
  <2> QED
    BY <2>1, AloneKept DEF HasRow
<1> QED
  BY <1>3, <1>5, <1>6, <1>7, <1>8 DEF Step

\* A file is purged when its run is decided, hence over.
LEMMA AloneStep ==
    ASSUME DeliveryInv, DataInv, [Next]_vars, NEW run \in Runs, run \notin overlapped'
    PROVE  Alone(run)'
<1>1. Alone(run)
  BY OverlapsKept DEF DataInv
<1>2. CASE \E w \in Workers : Step(w)
  BY <1>1, <1>2, OverlapsKept, AloneExecutes DEF DataInv, Readable
<1>3. ASSUME NEW r \in Runs, NEW status \in Decisions, Decide(r, status) PROVE Alone(run)'
  <2>1. UNCHANGED <<exec, files>>
    BY <1>3 DEF Decide
  <2>2. ~\E w \in Workers : Commit(w)
    BY <2>1 DEF Commit, DeliveryInv, Executing, Idle
  <2>3. HasRow(run)' => HasRow(run) /\ rows'[run].data = rows[run].data
    BY <2>2, RowsMade
  <2> QED
    BY <1>1, <2>1, <2>3, AloneKept
<1>4. ASSUME NEW r \in Runs, Purge(r) PROVE Alone(run)'
  <2>1. /\ files' = [files EXCEPT ![r] = Missing] /\ UNCHANGED <<rows, exec>> /\ HasRow(r)
    BY <1>4 DEF Purge, HasRow
  <2>2. CASE r = run
    <3>1. files'[run] = Missing
      BY <2>1, <2>2 DEF DataInv, Readable
    <3> QED
      BY <1>1, <2>1, <2>2, <3>1 DEF Alone, HasRow
  <2>3. CASE r # run
    <3>1. UNCHANGED files[run]
      BY <2>1, <2>3
    <3> QED
      BY <1>1, <2>1, <3>1, AloneKept DEF HasRow
  <2> QED
    BY <2>2, <2>3
<1>5. ASSUME UNCHANGED <<rows, files, exec>> PROVE Alone(run)'
  BY <1>1, <1>5, AloneKept DEF HasRow
<1>6. UserEdits \/ UNCHANGED vars => UNCHANGED <<rows, files, exec>>
  BY DEF UserEdits, ReplaceSource, create_standardization_column_mapping,
     delete_standardization_column_mapping, create_standardization_lookup_entry,
     delete_standardization_lookup_entry, create_match_rule_set, edit, vars
<1> QED
  BY <1>2, <1>3, <1>4, <1>5, <1>6 DEF Next, Decisions

\* Every step keeps the invariant.
LEMMA NextData == DeliveryInv /\ DataInv /\ [Next]_vars => DataInv'
<1> SUFFICES ASSUME DeliveryInv, DataInv, [Next]_vars PROVE DataInv'
  OBVIOUS
<1>1. SoundResults' /\ Readable'
  BY SoundStep, ReadableStep
<1>2. ASSUME NEW run \in Runs \ overlapped' PROVE Alone(run)'
  BY <1>2, AloneStep
<1> QED
  BY <1>1, <1>2 DEF DataInv

\* Every result that is recorded or about to be is what the engines make of
\* what its execution read, and a run whose executions did not overlap has the
\* file it recorded until the file is purged.
THEOREM DataInvariant == Spec => []DataInv
  BY InitData, NextData, DeliveryInvariant, PTL DEF Spec

\* What the invariant says of a recorded result.
LEMMA RecordedIsSound ==
    ASSUME DataInv, NEW type, NEW run \in RowsOf(type)
    PROVE  \E d : d = rows[run].data /\ Sound(run, d) /\ Type[run] = type /\ run \in Runs /\ HasRow(run)
  BY DEF DataInv, SoundResults, RowsOf

\* A recorded matching is what match() makes of the rows it read.
LEMMA RecordedMatch ==
    ASSUME DataInv, NEW run \in RowsOf("MATCH")
    PROVE  \E d, content, rs : /\ d = rows[run].data /\ content = d.loaded /\ rs = d.rule_set
                               /\ IsSeq(content) /\ d.result = match(content, rs)
                               /\ rs \in RuleSets
<1>1. PICK d : d = rows[run].data /\ Sound(run, d) /\ Type[run] = "MATCH"
  BY RecordedIsSound
<1>2. /\ Shaped(d.loaded) /\ d.result = match(d.loaded, d.rule_set)
      /\ d.rule_set \in RuleSets
  BY <1>1 DEF Sound
<1>3. PICK content, rs : content = d.loaded /\ rs = d.rule_set
  OBVIOUS
<1>4. IsSeq(content)
  BY <1>2, <1>3, LoadGrid DEF Shaped
<1> QED
  BY <1>1, <1>2, <1>3, <1>4

\* Every row has a status of the approval state machine and satisfies the CHECK
\* constraints of its table that RowsAreLegal states, whatever the file, the
\* weights and thresholds of the rule set and the ceilings: no count is
\* negative, every score and confidence of a match is between 0 and 1, no group
\* is smaller than two, and an export counts exactly the rows it leaves out.
THEOREM ResultsMeetTheirConstraints == Spec => []RowsAreLegal
<1>1. DeliveryInv /\ DataInv => RowsAreLegal
  <2> SUFFICES ASSUME DeliveryInv, DataInv PROVE RowsAreLegal
    OBVIOUS
  <2>1. \A run \in Runs : rows[run].status \in
          {"none", "pending_review", "approved", "rejected", "rolled_back"}
    BY DEF DeliveryInv, Results, History, Decisions
  <2>2. /\ \A run \in RowsOf("TRANSFORM") : ck_cleaning_runs(rows[run].data)
        /\ \A run \in RowsOf("STANDARDIZE") : ck_standardization_runs(rows[run].data)
        /\ \A run \in RowsOf("EXPORT") : ck_export_runs(rows[run].data)
    BY RecordedIsSound DEF Sound
  <2>3. ASSUME NEW run \in RowsOf("MATCH"), NEW m, m = rows[run].data.result,
               NEW full, full = FullScore(rows[run].data.rule_set)
        PROVE  /\ ck_match_runs(m, full) /\ ck_match_groups(m, full)
               /\ ck_match_decisions(m, full) /\ ck_match_skipped_blocks(m)
    <3>1. PICK d, content, rs :
             /\ d = rows[run].data /\ content = d.loaded /\ rs = d.rule_set
             /\ IsSeq(content) /\ d.result = match(content, rs) /\ rs \in RuleSets
      BY RecordedMatch
    <3>2. m = match(content, rs) /\ full = FullScore(rs)
      BY <2>3, <3>1
    <3>3. LegalMatch(m, full)
      BY <3>1, <3>2, MatchIsLegal
    <3> QED
      BY <3>3 DEF LegalMatch, ck_match_runs, ck_match_groups, ck_match_decisions,
                  ck_match_skipped_blocks
  <2> QED
    BY <2>1, <2>2, <2>3 DEF RowsAreLegal
<1> QED
  BY <1>1, DeliveryInvariant, DataInvariant, PTL

\* The groups a match run records are the classes of rows that exact equality
\* and the rule set's duplicate pairs connect, for every file, block size and
\* rule set: comparing one representative of identical rows, block by block,
\* and joining by union-find with path compression misses none and adds none.
THEOREM MatchedGroupsAreComponents == Spec => []GroupsAreComponents
<1>1. DataInv => GroupsAreComponents
  <2> SUFFICES ASSUME DataInv, NEW run \in RowsOf("MATCH")
               PROVE  {<<g.canonical_row_index, g.record_count>> : g \in rows[run].data.result.groups}
                        = {<<Smallest(c), Cardinality(c)>> :
                             c \in {x \in DuplicateClasses(rows[run].data.loaded,
                                                           rows[run].data.rule_set) :
                                      Cardinality(x) >= 2}}
    BY DEF GroupsAreComponents
  <2>1. PICK d, content, rs :
           /\ d = rows[run].data /\ content = d.loaded /\ rs = d.rule_set
           /\ IsSeq(content) /\ d.result = match(content, rs) /\ rs \in RuleSets
    BY RecordedMatch
  <2>2. {<<g.canonical_row_index, g.record_count>> : g \in match(content, rs).groups}
          = {<<Smallest(c), Cardinality(c)>> :
               c \in {x \in DuplicateClasses(content, rs) : Cardinality(x) >= 2}}
    BY <2>1, MatchFindsDuplicates
  <2> QED
    BY <2>1, <2>2
<1> QED
  BY <1>1, DataInvariant, PTL

\* An export holds exactly the first row of every class of duplicates in the
\* file that was matched, in order, although it knows the groups from the
\* persisted decisions only and reads the standardized file anew, unless
\* executions of the standardization overlapped.
THEOREM ExportsAreExact == Spec => []ExportIsExact
<1>1. DataInv => ExportIsExact
  <2> SUFFICES ASSUME DataInv, NEW run \in RowsOf("EXPORT"), Source[Source[run]] \notin overlapped
               PROVE  rows[run].data.output.rows
                        = Deduplicated(rows[Source[run]].data.loaded, rows[Source[run]].data.rule_set)
    BY DEF ExportIsExact
  <2>1. PICK d : d = rows[run].data /\ Sound(run, d) /\ Type[run] = "EXPORT"
    BY RecordedIsSound
  <2> QED
    BY <2>1 DEF Sound
<1> QED
  BY <1>1, DataInvariant, PTL

\* The audit trail explains the result: the complete log of the cleaning, then
\* the complete log of the standardization, turn the source rows into the
\* standardized file, unless executions of the cleaning overlapped.
THEOREM LogsExplainTheResult == Spec => []ChangesReplay
<1>1. DeliveryInv /\ DataInv => ChangesReplay
  <2> SUFFICES ASSUME DeliveryInv, DataInv, NEW run \in RowsOf("STANDARDIZE"),
                      NEW d, d = rows[run].data, NEW c, c = rows[Source[run]].data,
                      Len(c.changes) = c.total_changes_count,
                      Len(d.changes) = d.total_changes_count, Source[run] \notin overlapped
               PROVE  Replay(Replay(c.loaded, c.changes), d.changes) = d.output.rows
    BY DEF ChangesReplay
  <2>1. Sound(run, d) /\ Type[run] = "STANDARDIZE" /\ run \in Runs /\ HasRow(run)
    BY RecordedIsSound
  <2>2. Source[run] \in Runs /\ HasRow(Source[run]) /\ Type[Source[run]] = "TRANSFORM"
    BY <2>1, UpstreamRow, StageNames DEF DeliveryInv, Results
  <2>3. Sound(Source[run], c)
    BY <2>2 DEF DataInv, SoundResults
  <2>4. /\ Replay(c.loaded, c.changes) = c.output.rows
        /\ Replay(d.loaded, d.changes) = d.output.rows
        /\ d.loaded = c.output.rows
    BY <2>1, <2>2, <2>3 DEF Sound, Explained, ReadFrom
  <2> QED
    BY <2>4
<1> QED
  BY <1>1, DeliveryInvariant, DataInvariant, PTL

=============================================================================
