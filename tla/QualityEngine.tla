----------------------------- MODULE QualityEngine -----------------------------
(***************************************************************************)
(* The pure quality-control engine: effective statistics, the scored       *)
(* categories, the weighted overall score and the release recommendation   *)
(* (app.quality and the private helpers of QualityControlHandler).         *)
(*                                                                         *)
(* A score is a fraction n/d of one hundred per cent with 0 <= n <= d, so  *)
(* every comparison of the code is an exact one between integers; rates    *)
(* and thresholds are whole percentages.                                   *)
(***************************************************************************)
EXTENDS IssueRules

CONSTANT MaxPersistedFindings     \* quality_max_persisted_findings

ASSUME FindingLimitAssumption == MaxPersistedFindings \in Nat

-----------------------------------------------------------------------------
(* Thresholds.                                                             *)

\* QualityThresholdConfig's defaults; no weight is overridden.
DefaultThreshold ==
    [fail_score_threshold |-> 60, pass_score_threshold |-> 85,
     max_validation_failure_rate |-> 0, max_validation_skip_rate |-> 50,
     max_high_severity_unresolved |-> 0, max_critical_severity_unresolved |-> 0,
     max_warnings_for_clean_pass |-> 0, category_weights |-> <<>>]

\* The CHECK constraints of quality_thresholds: what a row can hold at all.
ck_quality_thresholds(t) ==
    /\ t.fail_score_threshold \in 0..100
    /\ t.pass_score_threshold \in 0..100
    /\ t.pass_score_threshold > t.fail_score_threshold
    /\ t.max_validation_failure_rate \in 0..100
    /\ t.max_validation_skip_rate \in 0..100
    /\ t.max_high_severity_unresolved >= 0
    /\ t.max_critical_severity_unresolved >= 0
    /\ t.max_warnings_for_clean_pass >= 0

QUALITY_CATEGORIES == {"completeness", "uniqueness", "validity", "consistency",
    "referential_integrity", "business_rule_compliance", "unresolved_risk",
    "validation_coverage"}

\* The same checks again before the engine runs, and the weights, which no
\* constraint covers; a failed check is a PermanentExecutionError.
validate_threshold_config(t) ==
    /\ ck_quality_thresholds(t)
    /\ \A k \in DOMAIN t.category_weights :
          k \in QUALITY_CATEGORIES /\ t.category_weights[k] > 0

-----------------------------------------------------------------------------
(* Effective statistics.                                                   *)

\* Mutant: removals under a primary key are forgotten.
ROW_REMOVAL_ACTIONS == {"remove_duplicate_row"}
DUPLICATE_REMOVAL_ACTIONS == {"remove_duplicate_row", "remove_duplicate_primary_key"}
MISSING_VALUE_ISSUE_TYPES == {"missing_value", "empty_string", "null_value"}

AtLeastZero(n) == IF n < 0 THEN 0 ELSE n

Passed(results) == {r.change : r \in {x \in results : x.outcome = "passed"}}

\* Mutant: a change addresses every issue of its row.
SameRow(issues, change) == {x \in issues : x.row = change.row}

\* source_issue_id: the issue a change was proposed for.
SourceIssue(issues, change) ==
    {x \in issues : x.row = change.row /\ x.col = change.col /\ x.type = change.type}

compute_effective_stats(profile, issues, results) ==
    LET removals == {c \in Passed(results) : c.action \in DUPLICATE_REMOVAL_ACTIONS}
        missingFixes == {c \in Passed(results) : c.type \in MISSING_VALUE_ISSUE_TYPES}
        addressed == UNION {SourceIssue(issues, c) : c \in Passed(results)}
        Unresolved(s) == Cardinality({x \in issues \ addressed : x.severity = s})
    IN  [effective_row_count |-> AtLeastZero(profile.row_count - Cardinality(removals)),
         effective_duplicate_row_count |->
            AtLeastZero(profile.duplicate_row_count - Cardinality(removals)),
         effective_missing_value_total |->
            AtLeastZero(profile.missing_value_total - Cardinality(missingFixes)),
         unresolved_high_count |-> Unresolved("HIGH"),
         unresolved_critical_count |-> Unresolved("CRITICAL")]

-----------------------------------------------------------------------------
(* Categories.  An input is [stats, results, total_issues_found,           *)
(* thresholds]; an evaluation is a score and a set of findings.             *)

QualityFinding(category, rule, severity) ==
    [category |-> category, rule |-> rule, severity |-> severity, affected_column |-> 0]

Considered(in) == Cardinality(in.results)
Outcomes(in, o) == Cardinality({r \in in.results : r.outcome = o})

\* 100 * (1 - bad / of), clamped at zero.
Share(bad, of) == [n |-> AtLeastZero(of - bad), d |-> of]
Below(score, percent) == score.n * 100 < percent * score.d

\* The severity by score that three of the categories use: below 60 blocks,
\* below 85 warns, anything else is worth a note.
ByScore(score) ==
    IF Below(score, 60) THEN "blocking" ELSE IF Below(score, 85) THEN "warning" ELSE "info"

CompletenessCategory(in) ==
    LET cells == in.stats.effective_row_count * Width
        missing == in.stats.effective_missing_value_total
        score == Share(missing, cells)
    IN  IF in.stats.effective_row_count = 0
        THEN [score |-> [n |-> 0, d |-> 1],
              findings |-> {QualityFinding("completeness", "missing_rate", "blocking")}]
        ELSE [score |-> score,
              findings |-> IF missing = 0 THEN {}
                           ELSE {QualityFinding("completeness", "missing_rate", ByScore(score))}]

UniquenessCategory(in) ==
    LET duplicates == in.stats.effective_duplicate_row_count
        score == Share(duplicates, in.stats.effective_row_count)
    IN  [score |-> score,
         findings |-> IF duplicates = 0 THEN {}
                      ELSE {QualityFinding("uniqueness", "duplicate_rate", ByScore(score))}]

ValidityCategory(in) ==
    LET score == [n |-> Outcomes(in, "passed"), d |-> Considered(in)]
    IN  [score |-> score,
         findings |-> IF Outcomes(in, "passed") = Considered(in) THEN {}
                      ELSE {QualityFinding("validity", "validation_pass_rate", ByScore(score))}]

CONSISTENCY_ACTIONS == {"standardize_capitalization", "normalize_boolean",
                        "normalize_date", "normalize_enum_value"}

\* build_engine_input gives every result snapshot column_name None, and the
\* category leaves such results out: no pair is ever formed.
ConsistencyColumns(in) == {}

ConsistencyCategory(in) ==
    LET pairs == {<<r.change.action, r.change.col>> :
                     r \in {x \in in.results : /\ x.change.action \in CONSISTENCY_ACTIONS
                                               /\ x.change.col \in ConsistencyColumns(in)}}
        Has(p, o) == \E r \in in.results :
                        r.outcome = o /\ r.change.action = p[1] /\ r.change.col = p[2]
        inconsistent == {p \in pairs : Has(p, "passed") /\ Has(p, "failed")}
    IN  [score |-> IF pairs = {} THEN [n |-> 1, d |-> 1]
                   ELSE Share(Cardinality(inconsistent), Cardinality(pairs)),
         findings |-> {[QualityFinding("consistency", p[1], "warning") EXCEPT !.affected_column = p[2]] :
                          p \in inconsistent}]

UnresolvedRiskCategory(in) ==
    LET critical == in.stats.unresolved_critical_count
        high == in.stats.unresolved_high_count
    IN  [score |-> IF critical + high = 0 THEN [n |-> 1, d |-> 1]
                   ELSE Share(critical + high, in.total_issues_found),
         findings |->
            (IF critical > 0
             THEN {QualityFinding("unresolved_risk", "unresolved_critical", "blocking")} ELSE {})
            \union
            (IF high > 0
             THEN {QualityFinding("unresolved_risk", "unresolved_high", "warning")} ELSE {})]

ValidationCoverageCategory(in) ==
    LET skipped == Outcomes(in, "skipped")
        over == skipped * 100 > in.thresholds.max_validation_skip_rate * Considered(in)
    IN  [score |-> Share(skipped, Considered(in)),
         findings |-> IF skipped = 0 THEN {}
                      ELSE {QualityFinding("validation_coverage", "skip_rate",
                                           IF over THEN "blocking" ELSE "warning")}]

\* is_applicable; referential_integrity and business_rule_compliance never are.
Applicable(in) ==
    {"completeness"}
    \union (IF in.stats.effective_row_count > 0 THEN {"uniqueness"} ELSE {})
    \union (IF Considered(in) > 0 THEN {"validity", "validation_coverage"} ELSE {})
    \union (IF \E r \in in.results : r.change.action \in CONSISTENCY_ACTIONS
            THEN {"consistency"} ELSE {})
    \union (IF in.total_issues_found > 0 THEN {"unresolved_risk"} ELSE {})

evaluate(category, in) ==
    CASE category = "completeness"    -> CompletenessCategory(in)
      [] category = "uniqueness"      -> UniquenessCategory(in)
      [] category = "validity"        -> ValidityCategory(in)
      [] category = "consistency"     -> ConsistencyCategory(in)
      [] category = "unresolved_risk" -> UnresolvedRiskCategory(in)
      [] OTHER                        -> ValidationCoverageCategory(in)

default_weight == [completeness |-> 20, uniqueness |-> 15, validity |-> 25,
                   consistency |-> 10, referential_integrity |-> 10,
                   business_rule_compliance |-> 15, unresolved_risk |-> 25,
                   validation_coverage |-> 15]

\* _effective_weight
effective_weight(category, in) ==
    IF category \in DOMAIN in.thresholds.category_weights
    THEN in.thresholds.category_weights[category] ELSE default_weight[category]

\* _category_status
category_status(category, in) ==
    LET e == evaluate(category, in)
        Has(s) == \E f \in e.findings : f.severity = s
    IN  CASE category \notin Applicable(in) -> "skipped"
          [] category \in Applicable(in) /\ (Has("blocking") \/ Below(e.score, 60)) -> "failed"
          [] category \in Applicable(in) /\ ~Has("blocking") /\ ~Has("warning")
               /\ ~Below(e.score, 85) -> "passed"
          [] OTHER -> "warning"

-----------------------------------------------------------------------------
(* The engine.                                                             *)

\* One category of the loop: weighted_score_sum, as a fraction n/d, and
\* weight_sum.
Accumulate(sum, category, in) ==
    LET score == evaluate(category, in).score
        weight == effective_weight(category, in)
    IN  IF category \notin Applicable(in) THEN sum
        ELSE [n |-> sum.n * score.d + weight * score.n * sum.d, d |-> sum.d * score.d,
              weight_sum |-> sum.weight_sum + weight]

\* weighted_score_sum / weight_sum, over the categories that may apply.
OverallScore(in) ==
    LET sum1 == Accumulate([n |-> 0, d |-> 1, weight_sum |-> 0], "completeness", in)
        sum2 == Accumulate(sum1, "uniqueness", in)
        sum3 == Accumulate(sum2, "validity", in)
        sum4 == Accumulate(sum3, "consistency", in)
        sum5 == Accumulate(sum4, "unresolved_risk", in)
        sum6 == Accumulate(sum5, "validation_coverage", in)
    IN  [n |-> sum6.n, d |-> sum6.d * sum6.weight_sum]

Findings(in) == UNION {evaluate(c, in).findings : c \in Applicable(in)}
Severity(in, s) == Cardinality({f \in Findings(in) : f.severity = s})

\* _finding_sort_key: by category, rule and column.
FindingRank(f) ==
    CASE f.category = "completeness"        -> <<1, 0>>
      [] f.category = "consistency"         -> <<2, ActionRank(f.rule) * (Width + 1) + f.affected_column>>
      [] f.category = "uniqueness"          -> <<3, 0>>
      [] f.rule = "unresolved_critical"     -> <<4, 0>>
      [] f.rule = "unresolved_high"         -> <<4, 1>>
      [] f.category = "validation_coverage" -> <<5, 0>>
      [] OTHER                              -> <<6, 0>>

FindingBefore(f, g) ==
    \/ FindingRank(f)[1] < FindingRank(g)[1]
    \/ FindingRank(f)[1] = FindingRank(g)[1] /\ FindingRank(f)[2] < FindingRank(g)[2]

\* The counts are taken before the cap, the quality_findings rows after it.
PersistedFindings(in) ==
    {f \in Findings(in) :
        Cardinality({g \in Findings(in) : FindingBefore(g, f)}) < MaxPersistedFindings}

\* _compute_recommendation: the first condition that holds decides.
compute_recommendation(in) ==
    LET t == in.thresholds
        score == OverallScore(in)
        blocked ==
            \/ Severity(in, "blocking") > 0
            \/ Below(score, t.fail_score_threshold)
            \/ /\ Considered(in) > 0
               /\ Outcomes(in, "failed") * 100 > t.max_validation_failure_rate * Considered(in)
            \/ in.stats.unresolved_critical_count > t.max_critical_severity_unresolved
            \/ in.stats.unresolved_high_count > t.max_high_severity_unresolved
    IN  IF blocked THEN "FAIL"
        ELSE IF /\ ~Below(score, t.pass_score_threshold)
                /\ Severity(in, "warning") <= t.max_warnings_for_clean_pass
             THEN "PASS" ELSE "PASS_WITH_WARNINGS"

\* quality_control(): completeness always applies, so a score always exists.
quality_control(in) ==
    [overall_score |-> OverallScore(in),
     category_statuses |-> [c \in QUALITY_CATEGORIES |-> category_status(c, in)],
     findings |-> PersistedFindings(in),
     release_recommendation |-> compute_recommendation(in),
     total_findings |-> Cardinality(Findings(in)),
     blocking_count |-> Severity(in, "blocking"),
     warning_count |-> Severity(in, "warning"),
     info_count |-> Severity(in, "info")]

=============================================================================
