------------------------------ MODULE IssueRules ------------------------------
(***************************************************************************)
(* The pure rules of the review pipeline: which issues app.detection finds *)
(* in a file, which changes app.remediation proposes for them and how      *)
(* app.validation judges a proposal.                                       *)
(***************************************************************************)
EXTENDS Cells

CONSTANTS
    MaxPersistedIssues,       \* issue_detection_max_persisted_issues
    MaxPersistedChanges,      \* remediation_max_persisted_changes
    MaxPersistedResults       \* validation_max_persisted_results

ASSUME LimitsAssumption ==
    /\ MaxPersistedIssues \in Nat
    /\ MaxPersistedChanges \in Nat
    /\ MaxPersistedResults \in Nat

Shortest(m, n) == IF m < n THEN m ELSE n

-----------------------------------------------------------------------------
(* app.detection.validators.                                               *)

\* re.sub(r"(\S)\s{2,}(\S)", r"\1 \2", value): a match consumes the letter on
\* its right, so of the runs between one-letter words every other one is left.
Collapse(c) == [c EXCEPT !.gaps = @ \div 2]

NULL_SENTINELS == {"null", "n/a"}

BOOLEAN_TOKEN_FAMILIES ==
    [true_false |-> {"true", "false"}, yes_no |-> {"yes", "no"}, one_zero |-> {"1", "0"}]

\* The family of a boolean token, or "none" for any other text.
classify_boolean_token(c) ==
    IF \E f \in DOMAIN BOOLEAN_TOKEN_FAMILIES : c.word \in BOOLEAN_TOKEN_FAMILIES[f]
    THEN CHOOSE f \in DOMAIN BOOLEAN_TOKEN_FAMILIES : c.word \in BOOLEAN_TOKEN_FAMILIES[f]
    ELSE "none"

\* What Decimal accepts once thousands commas are taken out, telephone numbers
\* included, and twice what it denotes.
NumericWords == [w \in {"0", "1", "7", "555", "+1555", "+44555", "1234", "1,234", "1234.5"} |->
                   CASE w = "0" -> 0 [] w = "1" -> 2 [] w = "7" -> 14 [] w = "555" -> 1110
                     [] w = "+1555" -> 3110 [] w = "+44555" -> 89110
                     [] w = "1234.5" -> 2469 [] OTHER -> 2468]
is_valid_numeric(c) == c.word \in DOMAIN NumericWords

is_valid_iso_date(c) == c.word = "2024-01-31"
is_valid_phone_international(c) == c.word \in {"+1555", "+44555"} /\ ~c.lead
is_valid_email_syntax(c) == c.word = "a@b.co"

is_valid(type, c) ==
    CASE type = "numeric" -> is_valid_numeric(c)
      [] type = "date"    -> is_valid_iso_date(c)
      [] type = "phone"   -> is_valid_phone_international(c)
      [] type = "email"   -> is_valid_email_syntax(c)
      [] OTHER            -> TRUE

-----------------------------------------------------------------------------
(* Configuration.                                                          *)

\* What one column's IssueDetectionColumnRule and RemediationColumnRule say;
\* a column without a row has every check off and nothing configured.
NoRule == [expected_type |-> "none", is_required |-> FALSE, is_primary_key |-> FALSE,
           allowed_values |-> {}, outlier_enabled |-> FALSE,
           capitalization_check_enabled |-> FALSE, capitalization_target |-> "none",
           default_country |-> "none", source_date_format |-> "none",
           target_date_format |-> "none"]

\* RemediationDatasetConfig: both flags are off unless a row says otherwise.
NoDatasetConfig == [remove_duplicate_rows_enabled |-> FALSE,
                    remove_duplicate_primary_keys_enabled |-> FALSE]

-----------------------------------------------------------------------------
(* app.detection: one operator per rule, the set of its findings.           *)

Finding(i, c, type, severity, original, fix) ==
    [row |-> i + 1, col |-> c, type |-> type, severity |-> severity,
     original |-> original, fix |-> fix]

CellsWhere(rows, P(_, _)) == {x \in (DOMAIN rows) \X Columns : P(x[1], x[2])}

MissingValueRule(raw) ==
    {Finding(x[1], x[2], "missing_value", "MEDIUM", None, None) : x \in PaddedCells(raw)}

EmptyStringRule(raw, rows) ==
    LET Hit(i, c) == <<i, c>> \notin PaddedCells(raw) /\ rows[i][c] = Empty IN
    {Finding(x[1], x[2], "empty_string", "LOW", Empty, None) : x \in CellsWhere(rows, Hit)}

NullValueRule(rows) ==
    LET Hit(i, c) == rows[i][c] # Empty /\ rows[i][c].word \in NULL_SENTINELS IN
    {Finding(x[1], x[2], "null_value", "LOW", rows[x[1]][x[2]], None) : x \in CellsWhere(rows, Hit)}

DuplicateRowRule(rows) ==
    {Finding(i, 0, "duplicate_row", "MEDIUM", None, None) :
        i \in {k \in DOMAIN rows : \E j \in 1..(k - 1) : rows[j] = rows[k]}}

\* The finding names the key columns; it is placed at the first of them.
DuplicatePrimaryKeyRule(rows, config) ==
    LET keys == {c \in Columns : config[c].is_primary_key}
        first == CHOOSE c \in keys : \A d \in keys : c <= d
    IN  IF keys = {} THEN {}
        ELSE {Finding(i, first, "duplicate_primary_key", "CRITICAL", None, None) :
                 i \in {k \in DOMAIN rows :
                          \E j \in 1..(k - 1) : \A c \in keys : rows[j][c] = rows[k][c]}}

\* _ExpectedTypeRule and its four subclasses.
InvalidFormatRule(rows, config) ==
    LET TypeOf(c) == config[c].expected_type
        Hit(i, c) == /\ TypeOf(c) \in {"email", "phone", "date", "numeric"}
                     /\ rows[i][c] # Empty
                     /\ ~is_valid(TypeOf(c), rows[i][c])
        Name(c) == CASE TypeOf(c) = "email" -> "invalid_email"
                     [] TypeOf(c) = "phone" -> "invalid_phone"
                     [] TypeOf(c) = "date" -> "invalid_date"
                     [] OTHER -> "invalid_numeric"
    IN  {Finding(x[1], x[2], Name(x[2]), "MEDIUM", rows[x[1]][x[2]], None) :
            x \in CellsWhere(rows, Hit)}

\* A cell of white space only is neither "" nor a sentinel: it is not reported.
RequiredFieldViolationRule(rows, config) ==
    LET Hit(i, c) == /\ config[c].is_required
                     /\ rows[i][c] = Empty \/ rows[i][c].word \in NULL_SENTINELS
        Original(v) == IF v = Empty THEN None ELSE v
    IN  {Finding(x[1], x[2], "required_field_violation", "HIGH", Original(rows[x[1]][x[2]]), None) :
            x \in CellsWhere(rows, Hit)}

WhitespaceRules(rows) ==
    LET Rule(type, Fix(_)) ==
            LET Hit(i, c) == rows[i][c] # Empty /\ Fix(rows[i][c]) # rows[i][c] IN
            {Finding(x[1], x[2], type, "INFO", rows[x[1]][x[2]], Fix(rows[x[1]][x[2]])) :
                x \in CellsWhere(rows, Hit)}
    IN  Rule("leading_whitespace", lstrip) \union Rule("trailing_whitespace", rstrip)
          \union Rule("multiple_internal_spaces", Collapse)

\* The label most rows of a column carry; ties go to the label ranked first.
Dominant(rowsOf, label, order) ==
    LET Count(l) == Cardinality({i \in rowsOf : label[i] = l})
        Rank(l) == CHOOSE k \in DOMAIN order : order[k] = l
        labels == {label[i] : i \in rowsOf}
    IN  CHOOSE l \in labels :
           \A m \in labels \ {l} :
              Count(m) < Count(l) \/ (Count(m) = Count(l) /\ Rank(l) < Rank(m))

\* str.title() upper-cases the letter after an apostrophe, so "Don't" is mixed.
classify_casing(c) ==
    IF c.casing = "title" /\ c.word = "don't" THEN "mixed" ELSE c.casing

InconsistentCapitalizationRule(rows, config) ==
    UNION {LET pattern == [i \in DOMAIN rows |-> classify_casing(rows[i][c])]
               cased == {i \in DOMAIN rows : pattern[i] # "none"}
           IN  {Finding(i, c, "inconsistent_capitalization", "LOW", rows[i][c], None) :
                   i \in {k \in cased :
                            pattern[k] # Dominant(cased, pattern, <<"lower", "title", "upper", "mixed">>)}} :
           c \in {d \in Columns : config[d].capitalization_check_enabled}}

BooleanInconsistencyRule(rows, config) ==
    UNION {LET family == [i \in DOMAIN rows |-> classify_boolean_token(rows[i][c])]
               filled == {i \in DOMAIN rows : rows[i][c] # Empty}
               known == {i \in filled : family[i] # "none"}
           IN  {Finding(i, c, "boolean_inconsistency", "HIGH", rows[i][c], None) :
                   i \in filled \ known}
               \union
               {Finding(i, c, "boolean_inconsistency", "MEDIUM", rows[i][c], None) :
                   i \in {k \in known :
                            family[k] # Dominant(known, family, <<"one_zero", "true_false", "yes_no">>)}} :
           c \in {d \in Columns : config[d].expected_type = "boolean"}}

InvalidEnumValueRule(rows, config) ==
    LET Hit(i, c) == /\ config[c].allowed_values # {}
                     /\ rows[i][c] # Empty
                     /\ rows[i][c] \notin config[c].allowed_values
    IN  {Finding(x[1], x[2], "invalid_enum_value", "HIGH", rows[x[1]][x[2]], None) :
            x \in CellsWhere(rows, Hit)}

\* The k-th smallest value (counting from 0) of f on the finite set S.
OrderStatistic(S, f, k) ==
    CHOOSE v \in {f[i] : i \in S} :
        /\ Cardinality({i \in S : f[i] < v}) <= k
        /\ Cardinality({i \in S : f[i] <= v}) > k

\* Twice the median, to stay within the integers.
TwiceMedian(S, f) ==
    LET n == Cardinality(S)
        mid == n \div 2
    IN  IF n % 2 = 1 THEN 2 * OrderStatistic(S, f, mid)
        ELSE OrderStatistic(S, f, mid - 1) + OrderStatistic(S, f, mid)

Abs(n) == IF n < 0 THEN -n ELSE n

\* |0.6745 * (v - median) / MAD| > 3.5, multiplied out.
OutlierRule(rows, config) ==
    UNION {LET numeric == {i \in DOMAIN rows : is_valid_numeric(rows[i][c])}
               value == [i \in numeric |-> NumericWords[rows[i][c].word]]
               median2 == TwiceMedian(numeric, value)
               deviation2 == [i \in numeric |-> Abs(2 * value[i] - median2)]
               mad4 == TwiceMedian(numeric, deviation2)
           IN  IF Cardinality(numeric) < 2 \/ mad4 = 0 THEN {}
               ELSE {Finding(i, c, "outlier", "MEDIUM", rows[i][c], None) :
                        i \in {k \in numeric : 6745 * 2 * deviation2[k] > 35000 * mad4}} :
           c \in {d \in Columns : config[d].outlier_enabled}}

\* BrokenFkReferenceRule is registered and finds nothing.
AllFindings(raw, config) ==
    LET rows == load_csv(raw) IN
    UNION {MissingValueRule(raw), EmptyStringRule(raw, rows), NullValueRule(rows),
           DuplicateRowRule(rows), DuplicatePrimaryKeyRule(rows, config),
           InvalidFormatRule(rows, config), RequiredFieldViolationRule(rows, config),
           WhitespaceRules(rows), InconsistentCapitalizationRule(rows, config),
           BooleanInconsistencyRule(rows, config), InvalidEnumValueRule(rows, config),
           OutlierRule(rows, config)}

\* The issue types in alphabetical order, the third component of the sort keys.
ISSUE_TYPES ==
    <<"boolean_inconsistency", "broken_fk_reference", "duplicate_primary_key",
      "duplicate_row", "empty_string", "inconsistent_capitalization", "invalid_date",
      "invalid_email", "invalid_enum_value", "invalid_numeric", "invalid_phone",
      "leading_whitespace", "missing_value", "multiple_internal_spaces", "null_value",
      "outlier", "required_field_violation", "trailing_whitespace">>

TypeRank(t) == CHOOSE k \in DOMAIN ISSUE_TYPES : ISSUE_TYPES[k] = t

\* _sort_key of the detection engine and _issue_sort_key of remediation.
IssueBefore(x, y) ==
    \/ x.row < y.row
    \/ x.row = y.row /\ x.col < y.col
    \/ x.row = y.row /\ x.col = y.col /\ TypeRank(x.type) < TypeRank(y.type)

\* The first n members of a set of issues in their sort order.
FirstIssues(S, n) == {x \in S : Cardinality({y \in S : IssueBefore(y, x)}) < n}

detect_issues(raw, config) ==
    LET found == AllFindings(raw, config) IN
    [issues |-> FirstIssues(found, MaxPersistedIssues),
     total_issues_found |-> Cardinality(found)]

-----------------------------------------------------------------------------
(* Functions shared by remediation and validation.                         *)

DateWord(format) == IF format = "iso" THEN "2024-01-31" ELSE "31/01/2024"

\* datetime.strptime takes the value as it stands, white space included.
strptime(c, format) == c = Plain(DateWord(format), "none")
strftime(format) == Plain(DateWord(format), "none")

\* The allowed values equal to a cell up to case and surrounding white space.
Candidates(c, config) == {a \in config.allowed_values : a.word = c.word}

-----------------------------------------------------------------------------
(* app.remediation: what each action proposes for an issue, None when it    *)
(* skips.  A removal proposes no value, so it is told apart by Removal.     *)

Removal == [Empty EXCEPT !.word = "REMOVE"]

propose_trim(issue) ==
    IF issue.fix \in {None, Empty} THEN None ELSE Rewrite(issue.original, issue.fix)

propose_collapse(issue) ==
    IF issue.fix \in {None, Empty} THEN None ELSE Rewrite(issue.original, issue.fix)

propose_standardize_capitalization(issue, config) ==
    IF config.capitalization_target = "none" \/ issue.original \in {None, Empty} THEN None
    ELSE Rewrite(issue.original, Recase(issue.original, config.capitalization_target))

propose_normalize_boolean(issue) == standardize_boolean(issue.original)

propose_normalize_numeric(issue) == standardize_numeric(issue.original)

propose_normalize_phone(issue, config) ==
    IF config.default_country = "none" THEN None
    ELSE standardize_phone(issue.original, config.default_country)

propose_normalize_date(issue, config) ==
    IF \/ config.source_date_format = "none"
       \/ config.target_date_format = "none"
       \/ ~strptime(issue.original, config.source_date_format)
    THEN None
    ELSE Rewrite(issue.original, strftime(config.target_date_format))

propose_normalize_enum_value(issue, config) ==
    LET matches == Candidates(issue.original, config) IN
    IF issue.original \in {None, Empty} \/ Cardinality(matches) # 1 THEN None
    ELSE Rewrite(issue.original, CHOOSE a \in matches : TRUE)

propose_remove_duplicate_row(dataset) ==
    IF dataset.remove_duplicate_rows_enabled THEN Removal ELSE None

propose_remove_duplicate_primary_key(dataset) ==
    IF dataset.remove_duplicate_primary_keys_enabled THEN Removal ELSE None

\* REMEDIATION_RULES: the action an issue type maps to, "none" if it has none.
get_rule_for_issue_type(type) ==
    CASE type \in {"leading_whitespace", "trailing_whitespace"} -> "trim_whitespace"
      [] type = "multiple_internal_spaces"    -> "collapse_multiple_spaces"
      [] type = "inconsistent_capitalization" -> "standardize_capitalization"
      [] type = "boolean_inconsistency"       -> "normalize_boolean"
      [] type = "invalid_date"                -> "normalize_date"
      [] type = "invalid_phone"               -> "normalize_phone"
      [] type = "invalid_numeric"             -> "normalize_numeric"
      [] type = "invalid_enum_value"          -> "normalize_enum_value"
      [] type = "duplicate_row"               -> "remove_duplicate_row"
      [] type = "duplicate_primary_key"       -> "remove_duplicate_primary_key"
      [] OTHER -> "none"

\* A finding without a column is looked up without a column configuration.
ConfigOf(config, col) == IF col \in Columns THEN config[col] ELSE NoRule

propose(issue, config, dataset) ==
    LET column == ConfigOf(config, issue.col)
        action == get_rule_for_issue_type(issue.type)
    IN  CASE action = "trim_whitespace" -> propose_trim(issue)
          [] action = "collapse_multiple_spaces" -> propose_collapse(issue)
          [] action = "standardize_capitalization" -> propose_standardize_capitalization(issue, column)
          [] action = "normalize_boolean" -> propose_normalize_boolean(issue)
          [] action = "normalize_date" -> propose_normalize_date(issue, column)
          [] action = "normalize_phone" -> propose_normalize_phone(issue, column)
          [] action = "normalize_numeric" -> propose_normalize_numeric(issue)
          [] action = "normalize_enum_value" -> propose_normalize_enum_value(issue, column)
          [] action = "remove_duplicate_row" -> propose_remove_duplicate_row(dataset)
          [] action = "remove_duplicate_primary_key" -> propose_remove_duplicate_primary_key(dataset)
          [] OTHER -> None

\* Mutant: proposals past the ceiling are neither kept nor counted as skipped.
remediate_uncounted(rowCount, issues, config, dataset) ==
    LET pending == {x \in issues : /\ x.row \in 2..(rowCount + 1)
                                   /\ propose(x, config, dataset) # None}
        kept == FirstIssues(pending, MaxPersistedChanges)
    IN  [changes |-> {[row |-> x.row, col |-> x.col, type |-> x.type,
                       action |-> get_rule_for_issue_type(x.type),
                       original |-> x.original,
                       proposed |-> propose(x, config, dataset)] : x \in kept},
         skipped |-> issues \ pending]

\* Every issue is proposed a change for or skipped; past the ceiling the tail
\* of the proposals, in issue order, is skipped as well.
remediate(rowCount, issues, config, dataset) ==
    LET pending == {x \in issues : /\ x.row \in 2..(rowCount + 1)
                                   /\ propose(x, config, dataset) # None}
        kept == FirstIssues(pending, MaxPersistedChanges)
    IN  [changes |-> {[row |-> x.row, col |-> x.col, type |-> x.type,
                       action |-> get_rule_for_issue_type(x.type),
                       original |-> x.original,
                       proposed |-> propose(x, config, dataset)] : x \in kept},
         skipped |-> issues \ kept]

-----------------------------------------------------------------------------
(* app.validation: each rule recomputes the proposal from the original      *)
(* value and the configuration of the moment.                               *)

Verdict(holds) == IF holds THEN "passed" ELSE "failed"

\* Mutant: both ends are trimmed, as propose_trim's issues never ask for.
validate_trim_both(change) ==
    IF change.original = None THEN "skipped"
    ELSE Verdict(change.proposed = strip(change.original))

validate_trim(change) ==
    IF change.original = None THEN "skipped"
    ELSE Verdict(change.proposed \in {lstrip(change.original), rstrip(change.original)})

validate_collapse(change) ==
    IF change.original = None THEN "skipped"
    ELSE Verdict(change.proposed = Collapse(change.original))

validate_capitalization(change, config) ==
    IF config.capitalization_target = "none" \/ change.original \in {None, Empty} THEN "skipped"
    ELSE Verdict(change.proposed = Recase(change.original, config.capitalization_target))

validate_boolean(change) ==
    LET new == standardize_boolean(change.original) IN
    Verdict(new # None /\ change.proposed = new)

validate_numeric(change) ==
    LET new == standardize_numeric(change.original) IN
    Verdict(new # None /\ change.proposed = new)

validate_phone(change, config) ==
    LET new == standardize_phone(change.original, config.default_country) IN
    IF config.default_country = "none" THEN "skipped"
    ELSE Verdict(new # None /\ change.proposed = new)

validate_date(change, config) ==
    IF \/ "none" \in {config.source_date_format, config.target_date_format}
       \/ change.original \in {None, Empty}
    THEN "skipped"
    ELSE Verdict(/\ strptime(change.original, config.source_date_format)
                 /\ change.proposed = strftime(config.target_date_format))

validate_enum_value(change, config) ==
    IF config.allowed_values = {} \/ change.original \in {None, Empty} THEN "skipped"
    ELSE Verdict(Candidates(change.original, config) = {change.proposed})

validate_duplicate_removal(change) == Verdict(change.proposed = Removal)

\* VALIDATION_RULES covers every action REMEDIATION_RULES can propose.
validate_change(change, config) ==
    LET column == ConfigOf(config, change.col) IN
    CASE change.action = "trim_whitespace" -> validate_trim(change)
      [] change.action = "collapse_multiple_spaces" -> validate_collapse(change)
      [] change.action = "standardize_capitalization" -> validate_capitalization(change, column)
      [] change.action = "normalize_boolean" -> validate_boolean(change)
      [] change.action = "normalize_date" -> validate_date(change, column)
      [] change.action = "normalize_phone" -> validate_phone(change, column)
      [] change.action = "normalize_numeric" -> validate_numeric(change)
      [] change.action = "normalize_enum_value" -> validate_enum_value(change, column)
      [] OTHER -> validate_duplicate_removal(change)

\* The actions in alphabetical order, the third component of the sort key.
REMEDIATION_ACTIONS ==
    <<"collapse_multiple_spaces", "normalize_boolean", "normalize_date",
      "normalize_enum_value", "normalize_numeric", "normalize_phone",
      "remove_duplicate_primary_key", "remove_duplicate_row",
      "standardize_capitalization", "trim_whitespace">>

ActionRank(a) == CHOOSE k \in DOMAIN REMEDIATION_ACTIONS : REMEDIATION_ACTIONS[k] = a

\* _change_sort_key; two trims of one cell tie.
ChangeBefore(x, y) ==
    \/ x.row < y.row
    \/ x.row = y.row /\ x.col < y.col
    \/ x.row = y.row /\ x.col = y.col /\ ActionRank(x.action) < ActionRank(y.action)

\* The changes judged before the ceiling is reached: a tie may go either way.
JudgedSets(changes) ==
    {J \in SUBSET changes :
        /\ Cardinality(J) = Shortest(Cardinality(changes), MaxPersistedResults)
        /\ \A x \in J, y \in changes \ J : ~ChangeBefore(y, x)}

\* The ValidationResult rows when the changes in judged come before the ceiling.
validate(changes, judged, config) ==
    {[change |-> x, outcome |-> IF x \in judged THEN validate_change(x, config) ELSE "skipped"] :
        x \in changes}

=============================================================================
