---------------------------- MODULE MCAuditPipeline ----------------------------
(***************************************************************************)
(* Instances of AuditPipeline.  Two columns; each file and rule table is   *)
(* chosen to make particular rules fire.                                   *)
(***************************************************************************)
EXTENDS AuditPipeline, TLC

CONSTANTS s1, d1, r1, v1, q1, q2

Cell(w, k) == Plain(w, k)
Padded(w, k) == [Plain(w, k) EXCEPT !.lead = TRUE, !.trail = TRUE]
Gapped(w, k, n) == [Plain(w, k) EXCEPT !.gaps = n]

NoDetection == [c \in Columns |-> NoDetectionRule]
NoRemediation == [c \in Columns |-> NoRemediationRule]
DetectionRule == [NoDetectionRule EXCEPT !.is_active = TRUE]
RemediationRule == [NoRemediationRule EXCEPT !.is_active = TRUE]
Unscoped(det, rem) ==
    [detection |-> [org_wide |-> det, data_source |-> NoDetection],
     remediation |-> [org_wide |-> rem, data_source |-> NoRemediation]]

\* The chain of runs, each naming the run before it.
ChainRuns == {s1, d1, r1, v1, q1}
ChainType == (s1 :> "SYNC") @@ (d1 :> "DETECT") @@ (r1 :> "REMEDIATE") @@ (v1 :> "VALIDATE")
             @@ (q1 :> "QUALITY_CTRL")
ChainSources == (s1 :> {NoRun}) @@ (d1 :> {s1}) @@ (r1 :> {d1}) @@ (v1 :> {r1}) @@ (q1 :> {v1})

-----------------------------------------------------------------------------
(* Data: every rule of the three engines on files of up to four rows.       *)

TextFile == << <<Padded("foo", "lower"), Cell("7", "none")>>,
               <<Cell("foo", "upper"), Cell("1,234", "none")>>,
               <<Gapped("a b c", "lower", 2), Empty>>,
               <<Cell("don't", "title")>> >>
TypedFile == << <<Cell("yes", "lower"), Cell("31/01/2024", "none")>>,
                <<Cell("1", "none"), Cell("2024-01-31", "none")>>,
                <<Cell("maybe", "lower"), Padded("31/01/2024", "none")>> >>
KeyedFile == << <<Cell("k", "lower"), Cell("null", "lower")>>,
                <<Cell("k", "lower"), Cell("null", "lower")>>,
                <<Cell("k", "lower"), Cell("555", "none")>> >>
EnumFile == << <<Cell("red", "upper"), Cell("+1555", "none")>>,
               <<Padded("red", "lower"), Cell("555", "none")>>,
               <<Cell("blue", "lower"), Padded("+44555", "none")>> >>
NumberFile == << <<Cell("0", "none"), Cell("1,234.5", "none")>>,
                 <<Cell("1", "none"), Cell("a,b.c", "lower")>>,
                 <<Cell("7", "none"), Cell("1,5", "none")>>,
                 <<Cell("1234", "none"), Cell("1234", "none")>> >>
HeaderOnly == <<>>
DataFiles == {TextFile, TypedFile, KeyedFile, EnumFile, NumberFile, HeaderOnly, Unreadable}

TextRules == Unscoped(
    (1 :> [DetectionRule EXCEPT !.capitalization_check_enabled = TRUE])
      @@ (2 :> [DetectionRule EXCEPT !.expected_type = "numeric", !.is_required = TRUE]),
    (1 :> [RemediationRule EXCEPT !.capitalization_target = "lower"]) @@ (2 :> NoRemediationRule))
TypedRules == Unscoped(
    (1 :> [DetectionRule EXCEPT !.expected_type = "boolean"])
      @@ (2 :> [DetectionRule EXCEPT !.expected_type = "date"]),
    (1 :> NoRemediationRule)
      @@ (2 :> [RemediationRule EXCEPT !.source_date_format = "dmy", !.target_date_format = "iso"]))
KeyedRules == Unscoped(
    (1 :> [DetectionRule EXCEPT !.is_primary_key = TRUE, !.outlier_enabled = TRUE])
      @@ (2 :> [DetectionRule EXCEPT !.expected_type = "phone"]),
    (1 :> NoRemediationRule) @@ (2 :> [RemediationRule EXCEPT !.default_country = "US"]))
\* The data source's own rows hide the organization's.
EnumRules ==
    [detection |-> [org_wide |-> KeyedRules.detection.org_wide,
                    data_source |->
                      (1 :> [DetectionRule EXCEPT !.allowed_values =
                               {Cell("red", "lower"), Cell("blue", "lower"), Cell("blue", "upper")}])
                        @@ (2 :> [DetectionRule EXCEPT !.expected_type = "email"])],
     remediation |-> [org_wide |-> KeyedRules.remediation.org_wide,
                      data_source |-> (1 :> NoRemediationRule)
                        @@ (2 :> [RemediationRule EXCEPT !.default_country = "GB"])]]
DataRules == {TextRules, TypedRules, KeyedRules, EnumRules}
BothRemovals ==
    [remove_duplicate_rows_enabled |-> TRUE, remove_duplicate_primary_keys_enabled |-> TRUE]
DataDatasets == {NoDatasetConfig, BothRemovals}
Lenient == [DefaultThreshold EXCEPT !.fail_score_threshold = 10, !.pass_score_threshold = 40,
              !.max_validation_failure_rate = 50]
OrgThreshold == [org_wide |-> Lenient, data_source |-> NoThreshold]
DataThresholds == {OrgThreshold, [org_wide |-> NoThreshold, data_source |-> NoThreshold]}

\* One actor at a time: runs one after the other, decisions between remediation
\* and validation, an edit of the configuration after remediation.  The flow
\* instance explores the interleavings.
OneByOne ==
    /\ Cardinality({r \in DOMAIN source : outcome[r] = "none"}) <= 1
    /\ edits = 0 => dataset = BothRemovals /\ thresholds = OrgThreshold
    /\ edits > 0 => remediations # {} /\ \A p \in profiles : p.source_sha256 = file
    /\ \A u \in Reviewers : request[u] # NoRequest => v1 \notin DOMAIN source

-----------------------------------------------------------------------------
(* Flow: one column and at most one change, but two executions of every run *)
(* at once, two reviewers, edits between any two steps and two QUALITY_CTRL *)
(* runs for one validation run.                                            *)

FlowRuns == {s1, d1, r1, v1, q1, q2}
FlowType == ChainType @@ (q2 :> "QUALITY_CTRL")
FlowSources == ChainSources @@ (q2 :> {v1})
Trailing == << <<[Plain("foo", "lower") EXCEPT !.trail = TRUE]>>, <<Plain("7", "none")>>, <<Empty>> >>
Clean == << <<Plain("foo", "lower")>>, <<Plain("7", "none")>>, <<Empty>> >>
FlowFiles == {Trailing, Clean}
FlowRules == {Unscoped(NoDetection, NoRemediation)}
FlowDatasets == {NoDatasetConfig}
FlowThresholds == {OrgThreshold,
    [OrgThreshold EXCEPT !.data_source = [Lenient EXCEPT !.max_warnings_for_clean_pass = 1]]}

\* Unfinished runs: one at a time, but the two QUALITY_CTRL runs together.  Late
\* executions of finished runs overlap with the next run.  Quality control does
\* not read decisions or clock, so both are at rest when its runs exist, and
\* the executions left are its own.  The threshold in force at first is the
\* organization's; the edit may replace it.
Quality == {q1, q2}
Unfinished == {r \in DOMAIN source : outcome[r] = "none"}
NextOneWaits ==
    /\ edits = 0 => thresholds = OrgThreshold
    /\ Cardinality(Unfinished) <= 1 \/ Unfinished \subseteq Quality
    /\ Quality \intersect DOMAIN source # {} =>
          /\ clock = MaxTime
          /\ \A e \in Executors : exec[e].run \in Quality \union {NoRun}
          /\ \A u \in Reviewers : request[u] = NoRequest

Interchangeable == Permutations(Executors) \union Permutations(Reviewers)

=============================================================================
