----------------------------- MODULE EngineProofs -----------------------------
(***************************************************************************)
(* Lemmas about the pure engines of the review pipeline, for any width,    *)
(* ceilings, file and configuration: what identifies a finding, when a     *)
(* proposal passes validation, what the counts of a run add up to and what *)
(* a verdict other than FAIL says of the issues left.                      *)
(***************************************************************************)
EXTENDS QualityEngine, FiniteSetTheorems, TLAPS

Contents == Seq(Seq(Fields))

-----------------------------------------------------------------------------
(***************************************************************************)
(* Finite sets.                                                            *)
(***************************************************************************)

\* The image of a finite set is finite, and as large only if no two elements
\* share an image.
LEMMA ImageFinite ==
    ASSUME NEW f, IsFiniteSet(DOMAIN f)
    PROVE  LET T == {f[x] : x \in DOMAIN f} IN
           /\ IsFiniteSet(T)
           /\ Cardinality(T) <= Cardinality(DOMAIN f)
           /\ Cardinality(T) = Cardinality(DOMAIN f)
                <=> \A x, y \in DOMAIN f : f[x] = f[y] => x = y
<1> DEFINE S == DOMAIN f
           T == {f[x] : x \in S}
           g == [x \in S |-> f[x]]
<1>1. g \in Surjection(S, T)
  BY DEF Surjection
<1>2. g \in Injection(S, T) <=> \A x, y \in S : f[x] = f[y] => x = y
  BY DEF Injection, IsInjective
<1> HIDE DEF g, T
<1>3. /\ IsFiniteSet(T)
      /\ Cardinality(T) <= Cardinality(S)
      /\ Cardinality(T) = Cardinality(S) <=> g \in Injection(S, T)
  BY <1>1, FS_Surjection
<1> QED
  BY <1>2, <1>3 DEF T

\* A set whose elements a function tells apart by finitely many keys is finite.
LEMMA KeyedFinite ==
    ASSUME NEW S, NEW Keys, IsFiniteSet(Keys), NEW key \in [S -> Keys],
           \A x, y \in S : key[x] = key[y] => x = y
    PROVE  IsFiniteSet(S)
<1>1. key \in Injection(S, Keys)
  BY DEF Injection, IsInjective
<1> QED
  BY <1>1, FS_Injection

-----------------------------------------------------------------------------
(***************************************************************************)
(* Cells.                                                                  *)
(***************************************************************************)

\* A loaded record is padded with empty cells.
Loaded == Fields \union {Empty}

\* Empty, None and Removal, told apart by their words.
LEMMA SpecialCells ==
    /\ Empty.word = "" /\ Empty.lead = FALSE /\ Empty.trail = FALSE
    /\ None.word = "NULL" /\ Removal.word = "REMOVE"
    /\ None # Empty /\ None # Removal
<1>1. Empty.word = "" /\ Empty.lead = FALSE /\ Empty.trail = FALSE
  BY DEF Empty
<1>2. None.word = "NULL"
  BY DEF None, Empty
<1>3. Removal.word = "REMOVE"
  BY DEF Removal, Empty
<1> QED
  BY <1>1, <1>2, <1>3

\* A cell's word is neither of the two that mark the absence of a value.
LEMMA CellWord ==
    ASSUME NEW c \in Loaded
    PROVE  c.word \notin {"NULL", "REMOVE"} /\ c # None /\ c # Removal
<1>1. c.word \notin {"NULL", "REMOVE"}
  BY SpecialCells DEF Loaded, Fields
<1> QED
  BY <1>1, SpecialCells

\* Stripping, collapsing and recasing leave the word alone.
LEMMA SameWord ==
    ASSUME NEW c \in Loaded \union {None}, NEW target
    PROVE  /\ lstrip(c).word = c.word /\ rstrip(c).word = c.word /\ strip(c).word = c.word
           /\ Collapse(c).word = c.word /\ Recase(c, target).word = c.word
           /\ "word" \in DOMAIN strip(c)
<1>1. "word" \in DOMAIN Empty /\ "word" \in DOMAIN c
  <2>1. "word" \in DOMAIN Empty
    BY DEF Empty
  <2>2. "word" \in DOMAIN None
    BY <2>1 DEF None
  <2>3. c \in Fields => "word" \in DOMAIN c
    BY DEF Fields
  <2> QED
    BY <2>1, <2>2, <2>3 DEF Loaded
<1>2. \A d, w : "word" \in DOMAIN d =>
         /\ [d EXCEPT !.lead = w].word = d.word /\ DOMAIN [d EXCEPT !.lead = w] = DOMAIN d
         /\ [d EXCEPT !.trail = w].word = d.word /\ DOMAIN [d EXCEPT !.trail = w] = DOMAIN d
         /\ [d EXCEPT !.gaps = w].word = d.word /\ [d EXCEPT !.casing = w].word = d.word
  OBVIOUS
<1>3. \A d : "word" \in DOMAIN d =>
         /\ lstrip(d).word = d.word /\ "word" \in DOMAIN lstrip(d)
         /\ rstrip(d).word = d.word /\ "word" \in DOMAIN rstrip(d)
  BY <1>1, <1>2, SpecialCells DEF lstrip, rstrip
<1>4. strip(c).word = c.word /\ "word" \in DOMAIN strip(c)
  BY <1>1, <1>3 DEF strip
<1>5. Collapse(c).word = c.word /\ Recase(c, target).word = c.word
  BY <1>1, <1>2 DEF Collapse, Recase
<1> QED
  BY <1>1, <1>3, <1>4, <1>5

\* Every cell of a loaded file is a field.
LEMMA LoadedCells ==
    ASSUME NEW raw \in Contents
    PROVE  /\ DOMAIN load_csv(raw) = 1..Len(raw) /\ DOMAIN raw = 1..Len(raw) /\ Len(raw) \in Nat
           /\ \A i \in 1..Len(raw), c \in Columns : load_csv(raw)[i][c] \in Loaded
<1>1. DOMAIN raw = 1..Len(raw) /\ Len(raw) \in Nat
  BY DEF Contents
<1>2. ASSUME NEW i \in 1..Len(raw), NEW c \in Columns
      PROVE  load_csv(raw)[i][c] \in Loaded
  <2>1. raw[i] \in Seq(Fields)
    BY <1>1 DEF Contents
  <2>2. c <= Len(raw[i]) => raw[i][c] \in Fields
    BY <2>1, WidthAssumption DEF Columns
  <2> QED
    BY <1>1, <2>2 DEF load_csv, Loaded
<1> QED
  BY <1>1, <1>2 DEF load_csv

-----------------------------------------------------------------------------
(***************************************************************************)
(* Findings.  Each rule has its own issue types, and reports a cell, a row *)
(* or a key at most once: row, column and type identify a finding.         *)
(***************************************************************************)
Identified(S, types, n) ==
    /\ \A x \in S : /\ x.type \in types /\ x.row \in 2..(n + 1) /\ x.col \in 0..Width
                     /\ x.original \in Loaded \union {None}
    /\ \A x, y \in S : x.row = y.row /\ x.col = y.col /\ x.type = y.type => x = y

\* Two rules with types of their own.
LEMMA IdentifiedUnion ==
    ASSUME NEW S, NEW T, NEW A, NEW B, NEW n, Identified(S, A, n), Identified(T, B, n),
           A \intersect B = {}
    PROVE  Identified(S \union T, A \union B, n)
  BY DEF Identified

\* The fields of a finding.
LEMMA FindingFields ==
    ASSUME NEW i, NEW c, NEW type, NEW severity, NEW original, NEW fix
    PROVE  LET x == Finding(i, c, type, severity, original, fix) IN
           /\ x.row = i + 1 /\ x.col = c /\ x.type = type /\ x.severity = severity
           /\ x.original = original /\ x.fix = fix
  BY DEF Finding

\* A rule that reports cells: what it finds is a function of the cell.
OfCells(found, types, n) ==
    \A x \in (1..n) \X Columns : /\ found[x].row = x[1] + 1 /\ found[x].col = x[2]
                                 /\ found[x].type \in types
                                 /\ found[x].original \in Loaded \union {None}

\* A set of such findings is identified by type, row and column.
LEMMA CellsIdentified ==
    ASSUME NEW n \in Nat, NEW types, NEW S, NEW found, OfCells(found, types, n),
           \A z \in S : \E x \in (1..n) \X Columns : z = found[x]
    PROVE  Identified(S, types, n)
<1>1. \A x \in (1..n) \X Columns : x = <<x[1], x[2]>> /\ x[1] \in 1..n /\ x[2] \in 1..Width
  BY DEF Columns
<1>2. \A z \in S : /\ z.type \in types /\ z.row \in 2..(n + 1) /\ z.col \in 0..Width
                   /\ z.original \in Loaded \union {None}
  BY <1>1, WidthAssumption DEF OfCells
<1>3. ASSUME NEW x \in (1..n) \X Columns, NEW y \in (1..n) \X Columns,
             found[x].row = found[y].row, found[x].col = found[y].col
      PROVE  x = y
  <2>1. x[1] = y[1] /\ x[2] = y[2]
    BY <1>1, <1>3 DEF OfCells
  <2> QED
    BY <1>1, <2>1
<1> QED
  BY <1>2, <1>3 DEF Identified

FormatTypes == {"invalid_email", "invalid_phone", "invalid_date", "invalid_numeric"}

\* One finding per cell at most: missing_value.
LEMMA MissingIdentified ==
    ASSUME NEW raw \in Contents
    PROVE  Identified(MissingValueRule(raw), {"missing_value"}, Len(raw))
<1> DEFINE rows == load_csv(raw)
           cells == (1..Len(raw)) \X Columns
           found == [x \in cells |-> Finding(x[1], x[2], "missing_value", "MEDIUM", None, None)]
<1>1. /\ Len(raw) \in Nat /\ DOMAIN raw = 1..Len(raw)
      /\ DOMAIN rows = 1..Len(raw)
  BY LoadedCells
<1>2. \A z \in MissingValueRule(raw) : \E x \in cells : z = found[x]
  BY <1>1 DEF MissingValueRule, PaddedCells
<1>3. OfCells(found, {"missing_value"}, Len(raw))
  BY FindingFields, LoadedCells DEF OfCells, Loaded
<1> HIDE DEF found, rows
<1> QED
  BY <1>1, <1>2, <1>3, CellsIdentified

\* One finding per cell at most: empty_string.
LEMMA EmptyIdentified ==
    ASSUME NEW raw \in Contents
    PROVE  Identified(EmptyStringRule(raw, load_csv(raw)), {"empty_string"}, Len(raw))
<1> DEFINE rows == load_csv(raw)
           cells == (1..Len(raw)) \X Columns
           found == [x \in cells |-> Finding(x[1], x[2], "empty_string", "LOW", Empty, None)]
<1>1. /\ Len(raw) \in Nat /\ DOMAIN raw = 1..Len(raw)
      /\ DOMAIN rows = 1..Len(raw)
  BY LoadedCells
<1>2. \A z \in EmptyStringRule(raw, load_csv(raw)) : \E x \in cells : z = found[x]
  BY <1>1 DEF EmptyStringRule, CellsWhere
<1>3. OfCells(found, {"empty_string"}, Len(raw))
  BY FindingFields, LoadedCells DEF OfCells, Loaded
<1> HIDE DEF found, rows
<1> QED
  BY <1>1, <1>2, <1>3, CellsIdentified

\* One finding per cell at most: null_value.
LEMMA NullIdentified ==
    ASSUME NEW raw \in Contents
    PROVE  Identified(NullValueRule(load_csv(raw)), {"null_value"}, Len(raw))
<1> DEFINE rows == load_csv(raw)
           cells == (1..Len(raw)) \X Columns
           found == [x \in cells |-> Finding(x[1], x[2], "null_value", "LOW", rows[x[1]][x[2]], None)]
<1>1. /\ Len(raw) \in Nat /\ DOMAIN raw = 1..Len(raw)
      /\ DOMAIN rows = 1..Len(raw)
  BY LoadedCells
<1>2. \A z \in NullValueRule(load_csv(raw)) : \E x \in cells : z = found[x]
  BY <1>1 DEF NullValueRule, CellsWhere
<1>3. OfCells(found, {"null_value"}, Len(raw))
  BY FindingFields, LoadedCells DEF OfCells, Loaded
<1> HIDE DEF found, rows
<1> QED
  BY <1>1, <1>2, <1>3, CellsIdentified

\* One finding per cell at most: the invalid formats.
LEMMA FormatIdentified ==
    ASSUME NEW raw \in Contents, NEW config
    PROVE  Identified(InvalidFormatRule(load_csv(raw), config), FormatTypes, Len(raw))
<1> DEFINE rows == load_csv(raw)
           cells == (1..Len(raw)) \X Columns
           found == [x \in cells |->
               Finding(x[1], x[2],
                       CASE config[x[2]].expected_type = "email" -> "invalid_email"
                         [] config[x[2]].expected_type = "phone" -> "invalid_phone"
                         [] config[x[2]].expected_type = "date" -> "invalid_date"
                         [] OTHER -> "invalid_numeric",
                       "MEDIUM", rows[x[1]][x[2]], None)]
<1>1. /\ Len(raw) \in Nat /\ DOMAIN raw = 1..Len(raw)
      /\ DOMAIN rows = 1..Len(raw)
  BY LoadedCells
<1>2. \A z \in InvalidFormatRule(load_csv(raw), config) : \E x \in cells : z = found[x]
  BY <1>1 DEF InvalidFormatRule, CellsWhere
<1>3. OfCells(found, FormatTypes, Len(raw))
  BY FindingFields, LoadedCells DEF OfCells, FormatTypes, Loaded
<1> HIDE DEF found, rows
<1> QED
  BY <1>1, <1>2, <1>3, CellsIdentified

\* One finding per cell at most: required_field_violation.
LEMMA RequiredIdentified ==
    ASSUME NEW raw \in Contents, NEW config
    PROVE  Identified(RequiredFieldViolationRule(load_csv(raw), config), {"required_field_violation"}, Len(raw))
<1> DEFINE rows == load_csv(raw)
           cells == (1..Len(raw)) \X Columns
           found == [x \in cells |->
               Finding(x[1], x[2], "required_field_violation", "HIGH",
                       IF rows[x[1]][x[2]] = Empty THEN None ELSE rows[x[1]][x[2]], None)]
<1>1. /\ Len(raw) \in Nat /\ DOMAIN raw = 1..Len(raw)
      /\ DOMAIN rows = 1..Len(raw)
  BY LoadedCells
<1>2. \A z \in RequiredFieldViolationRule(load_csv(raw), config) : \E x \in cells : z = found[x]
  BY <1>1 DEF RequiredFieldViolationRule, CellsWhere
<1>3. OfCells(found, {"required_field_violation"}, Len(raw))
  BY FindingFields, LoadedCells DEF OfCells, Loaded
<1> HIDE DEF found, rows
<1> QED
  BY <1>1, <1>2, <1>3, CellsIdentified

\* One finding per cell at most: invalid_enum_value.
LEMMA EnumIdentified ==
    ASSUME NEW raw \in Contents, NEW config
    PROVE  Identified(InvalidEnumValueRule(load_csv(raw), config), {"invalid_enum_value"}, Len(raw))
<1> DEFINE rows == load_csv(raw)
           cells == (1..Len(raw)) \X Columns
           found == [x \in cells |-> Finding(x[1], x[2], "invalid_enum_value", "HIGH", rows[x[1]][x[2]], None)]
<1>1. /\ Len(raw) \in Nat /\ DOMAIN raw = 1..Len(raw)
      /\ DOMAIN rows = 1..Len(raw)
  BY LoadedCells
<1>2. \A z \in InvalidEnumValueRule(load_csv(raw), config) : \E x \in cells : z = found[x]
  BY <1>1 DEF InvalidEnumValueRule, CellsWhere
<1>3. OfCells(found, {"invalid_enum_value"}, Len(raw))
  BY FindingFields, LoadedCells DEF OfCells, Loaded
<1> HIDE DEF found, rows
<1> QED
  BY <1>1, <1>2, <1>3, CellsIdentified

\* One finding per cell at most: inconsistent_capitalization.
LEMMA CapitalizationIdentified ==
    ASSUME NEW raw \in Contents, NEW config
    PROVE  Identified(InconsistentCapitalizationRule(load_csv(raw), config), {"inconsistent_capitalization"}, Len(raw))
<1> DEFINE rows == load_csv(raw)
           cells == (1..Len(raw)) \X Columns
           found == [x \in cells |->
               Finding(x[1], x[2], "inconsistent_capitalization", "LOW", rows[x[1]][x[2]], None)]
<1>1. /\ Len(raw) \in Nat /\ DOMAIN raw = 1..Len(raw)
      /\ DOMAIN rows = 1..Len(raw)
  BY LoadedCells
<1>2. \A z \in InconsistentCapitalizationRule(load_csv(raw), config) : \E x \in cells : z = found[x]
  <2>1. \A z \in InconsistentCapitalizationRule(rows, config) : \E c \in Columns, i \in DOMAIN rows :
           z = Finding(i, c, "inconsistent_capitalization", "LOW", rows[i][c], None)
    BY DEF InconsistentCapitalizationRule
  <2>2. \A c \in Columns, i \in DOMAIN rows : <<i, c>> \in cells
    BY <1>1
  <2> QED
    BY <2>1, <2>2
<1>3. OfCells(found, {"inconsistent_capitalization"}, Len(raw))
  BY FindingFields, LoadedCells DEF OfCells, Loaded
<1> HIDE DEF found, rows
<1> QED
  BY <1>1, <1>2, <1>3, CellsIdentified

\* One finding per cell at most: outlier.
LEMMA OutlierIdentified ==
    ASSUME NEW raw \in Contents, NEW config
    PROVE  Identified(OutlierRule(load_csv(raw), config), {"outlier"}, Len(raw))
<1> DEFINE rows == load_csv(raw)
           cells == (1..Len(raw)) \X Columns
           found == [x \in cells |-> Finding(x[1], x[2], "outlier", "MEDIUM", rows[x[1]][x[2]], None)]
<1>1. /\ Len(raw) \in Nat /\ DOMAIN raw = 1..Len(raw)
      /\ DOMAIN rows = 1..Len(raw)
  BY LoadedCells
<1>2. \A z \in OutlierRule(load_csv(raw), config) : \E x \in cells : z = found[x]
  <2>1. ASSUME NEW z \in OutlierRule(rows, config)
        PROVE  \E c \in Columns, i \in DOMAIN rows :
                  z = Finding(i, c, "outlier", "MEDIUM", rows[i][c], None)
    <3> DEFINE Numeric(c) == {i \in DOMAIN rows : is_valid_numeric(rows[i][c])}
               Values(c) == [i \in Numeric(c) |-> NumericWords[rows[i][c].word]]
               Deviations(c) ==
                  [i \in Numeric(c) |-> Abs(2 * Values(c)[i] - TwiceMedian(Numeric(c), Values(c)))]
               mad(c) == TwiceMedian(Numeric(c), Deviations(c))
               Far(c) == {k \in Numeric(c) : 6745 * 2 * Deviations(c)[k] > 35000 * mad(c)}
               Found(c) == IF Cardinality(Numeric(c)) < 2 \/ mad(c) = 0 THEN {}
                           ELSE {Finding(i, c, "outlier", "MEDIUM", rows[i][c], None) : i \in Far(c)}
    <3>1. OutlierRule(rows, config) = UNION {Found(c) : c \in {d \in Columns : config[d].outlier_enabled}}
      BY DEF OutlierRule
    <3>2. \A c : Far(c) \subseteq DOMAIN rows
      OBVIOUS
    <3> HIDE DEF Far, mad
    <3>3. PICK c \in Columns : z \in Found(c)
      BY <3>1
    <3> QED
      BY <3>2, <3>3
  <2>2. \A c \in Columns, i \in DOMAIN rows : <<i, c>> \in cells
    BY <1>1
  <2> QED
    BY <2>1, <2>2
<1>3. OfCells(found, {"outlier"}, Len(raw))
  BY FindingFields, LoadedCells DEF OfCells, Loaded
<1> HIDE DEF found, rows
<1> QED
  BY <1>1, <1>2, <1>3, CellsIdentified

\* One finding per cell at most: boolean_inconsistency.
LEMMA BooleanIdentified ==
    ASSUME NEW raw \in Contents, NEW config
    PROVE  Identified(BooleanInconsistencyRule(load_csv(raw), config), {"boolean_inconsistency"}, Len(raw))
<1> DEFINE rows == load_csv(raw)
           cells == (1..Len(raw)) \X Columns
           found == [x \in cells |->
               Finding(x[1], x[2], "boolean_inconsistency",
                       IF classify_boolean_token(rows[x[1]][x[2]]) = "none" THEN "HIGH" ELSE "MEDIUM",
                       rows[x[1]][x[2]], None)]
<1>1. /\ Len(raw) \in Nat /\ DOMAIN raw = 1..Len(raw)
      /\ DOMAIN rows = 1..Len(raw)
  BY LoadedCells
<1>2. \A z \in BooleanInconsistencyRule(load_csv(raw), config) : \E x \in cells : z = found[x]
  <2>1. \A z \in BooleanInconsistencyRule(rows, config) : \E c \in Columns, i \in DOMAIN rows :
           z = Finding(i, c, "boolean_inconsistency",
                       IF classify_boolean_token(rows[i][c]) = "none" THEN "HIGH" ELSE "MEDIUM", rows[i][c], None)
    BY DEF BooleanInconsistencyRule
  <2>2. \A c \in Columns, i \in DOMAIN rows : <<i, c>> \in cells
    BY <1>1
  <2> QED
    BY <2>1, <2>2
<1>3. OfCells(found, {"boolean_inconsistency"}, Len(raw))
  BY FindingFields, LoadedCells DEF OfCells, Loaded
<1> HIDE DEF found, rows
<1> QED
  BY <1>1, <1>2, <1>3, CellsIdentified

\* The white-space rules: what they find and the fix they suggest.
Trimmed(rows, type, fixed) ==
    {Finding(x[1], x[2], type, "INFO", rows[x[1]][x[2]], fixed[x]) :
        x \in {y \in (DOMAIN rows) \X Columns :
                 rows[y[1]][y[2]] # Empty /\ fixed[y] # rows[y[1]][y[2]]}}

\* The three white-space rules are three rules of that form.
LEMMA WhitespaceSplit ==
    ASSUME NEW rows
    PROVE  LET cells == (DOMAIN rows) \X Columns IN
           WhitespaceRules(rows) =
             Trimmed(rows, "leading_whitespace", [x \in cells |-> lstrip(rows[x[1]][x[2]])])
             \union Trimmed(rows, "trailing_whitespace", [x \in cells |-> rstrip(rows[x[1]][x[2]])])
             \union Trimmed(rows, "multiple_internal_spaces", [x \in cells |-> Collapse(rows[x[1]][x[2]])])
  BY DEF WhitespaceRules, CellsWhere, Trimmed

\* Each of them identifies its findings.
LEMMA TrimmedIdentified ==
    ASSUME NEW raw \in Contents, NEW type, NEW fixed
    PROVE  Identified(Trimmed(load_csv(raw), type, fixed), {type}, Len(raw))
<1> DEFINE rows == load_csv(raw)
           cells == (1..Len(raw)) \X Columns
           found == [x \in cells |->
                       Finding(x[1], x[2], type, "INFO", rows[x[1]][x[2]], fixed[x])]
<1>1. Len(raw) \in Nat /\ DOMAIN rows = 1..Len(raw)
  BY LoadedCells
<1>2. \A z \in Trimmed(load_csv(raw), type, fixed) : \E x \in cells : z = found[x]
  BY <1>1 DEF Trimmed
<1>3. OfCells(found, {type}, Len(raw))
  BY FindingFields, LoadedCells DEF OfCells, Loaded
<1> HIDE DEF found, rows
<1> QED
  BY <1>1, <1>2, <1>3, CellsIdentified

WhitespaceTypes == {"leading_whitespace", "trailing_whitespace"} \union {"multiple_internal_spaces"}

\* One finding per cell at most: white space.
LEMMA WhitespaceIdentified ==
    ASSUME NEW raw \in Contents
    PROVE  Identified(WhitespaceRules(load_csv(raw)), WhitespaceTypes, Len(raw))
<1> DEFINE rows == load_csv(raw)
           cells == (DOMAIN rows) \X Columns
           L == Trimmed(rows, "leading_whitespace", [x \in cells |-> lstrip(rows[x[1]][x[2]])])
           T == Trimmed(rows, "trailing_whitespace", [x \in cells |-> rstrip(rows[x[1]][x[2]])])
           C == Trimmed(rows, "multiple_internal_spaces", [x \in cells |-> Collapse(rows[x[1]][x[2]])])
<1>1. /\ Identified(L, {"leading_whitespace"}, Len(raw))
      /\ Identified(T, {"trailing_whitespace"}, Len(raw))
      /\ Identified(C, {"multiple_internal_spaces"}, Len(raw))
  BY TrimmedIdentified
<1>2. WhitespaceRules(rows) = (L \union T) \union C
  BY WhitespaceSplit
<1> HIDE DEF L, T, C
<1>3. Identified(L \union T, {"leading_whitespace"} \union {"trailing_whitespace"}, Len(raw))
  BY <1>1, IdentifiedUnion
<1>4. {"leading_whitespace"} \union {"trailing_whitespace"} = {"leading_whitespace", "trailing_whitespace"}
  OBVIOUS
<1>5. Identified((L \union T) \union C, WhitespaceTypes, Len(raw))
  BY <1>1, <1>3, <1>4, IdentifiedUnion DEF WhitespaceTypes
<1> QED
  BY <1>2, <1>5

\* The rules that report rows and keys.
LEMMA DuplicateRowsIdentified ==
    ASSUME NEW raw \in Contents
    PROVE  Identified(DuplicateRowRule(load_csv(raw)), {"duplicate_row"}, Len(raw))
<1>1. Len(raw) \in Nat /\ DOMAIN load_csv(raw) = 1..Len(raw)
  BY LoadedCells
<1>2. \A z \in DuplicateRowRule(load_csv(raw)) : \E i \in 1..Len(raw) :
         /\ z = Finding(i, 0, "duplicate_row", "MEDIUM", None, None)
         /\ z.row = i + 1 /\ z.col = 0 /\ z.type = "duplicate_row" /\ z.original = None
  BY <1>1, FindingFields DEF DuplicateRowRule
<1>3. \A z \in DuplicateRowRule(load_csv(raw)) :
         /\ z.type \in {"duplicate_row"} /\ z.row \in 2..(Len(raw) + 1) /\ z.col \in 0..Width
         /\ z.original \in Loaded \union {None}
  BY <1>1, <1>2, WidthAssumption
<1>4. ASSUME NEW y \in DuplicateRowRule(load_csv(raw)), NEW z \in DuplicateRowRule(load_csv(raw)),
             y.row = z.row
      PROVE  y = z
  <2>1. PICK i \in 1..Len(raw) :
           y = Finding(i, 0, "duplicate_row", "MEDIUM", None, None) /\ y.row = i + 1
    BY <1>2
  <2>2. PICK j \in 1..Len(raw) :
           z = Finding(j, 0, "duplicate_row", "MEDIUM", None, None) /\ z.row = j + 1
    BY <1>2
  <2>3. i = j
    BY <1>1, <1>4, <2>1, <2>2
  <2> QED
    BY <2>1, <2>2, <2>3
<1> QED
  BY <1>3, <1>4 DEF Identified

\* A set of numbers that is not empty has a least element.
LEMMA LeastNumber ==
    ASSUME NEW S \in SUBSET Nat, S # {}
    PROVE  \E x \in S : \A y \in S : x <= y
<1>1. PICK x \in S : \A y \in S : <<y, x>> \notin OpToRel(<, Nat)
  BY NatLessThanWellFounded, WFMin
<1>2. \A y \in S : ~(y < x)
  BY <1>1 DEF OpToRel
<1> QED
  BY <1>2

\* Duplicates of the primary key: one finding per row, in one column.
LEMMA DuplicateKeysIdentified ==
    ASSUME NEW raw \in Contents, NEW config
    PROVE  Identified(DuplicatePrimaryKeyRule(load_csv(raw), config), {"duplicate_primary_key"},
                      Len(raw))
<1> DEFINE S == DuplicatePrimaryKeyRule(load_csv(raw), config)
           keys == {c \in Columns : config[c].is_primary_key}
           first == CHOOSE c \in keys : \A d \in keys : c <= d
<1>1. Len(raw) \in Nat /\ DOMAIN load_csv(raw) = 1..Len(raw)
  BY LoadedCells
<1>2. CASE keys = {}
  <2>1. S = {}
    BY <1>2 DEF DuplicatePrimaryKeyRule
  <2> QED
    BY <2>1 DEF Identified
<1>3. CASE keys # {}
  <2>1. first \in 0..Width
    <3>1. keys \in SUBSET Nat
      BY DEF Columns
    <3>2. \E c \in keys : \A d \in keys : c <= d
      <4> HIDE DEF keys
      <4> QED
        BY <1>3, <3>1, LeastNumber
    <3>3. first \in keys
      BY <3>2
    <3> QED
      BY <3>3, WidthAssumption DEF Columns
  <2>2. \A z \in S : \E i \in 1..Len(raw) :
           z = Finding(i, first, "duplicate_primary_key", "CRITICAL", None, None)
    BY <1>1, <1>3 DEF DuplicatePrimaryKeyRule
  <2> HIDE DEF S, first
  <2>3. \A z \in S : \E i \in 1..Len(raw) :
           /\ z = Finding(i, first, "duplicate_primary_key", "CRITICAL", None, None)
           /\ z.row = i + 1 /\ z.col = first /\ z.type = "duplicate_primary_key" /\ z.original = None
    BY <2>2, FindingFields
  <2>4. \A z \in S :
           /\ z.type \in {"duplicate_primary_key"} /\ z.row \in 2..(Len(raw) + 1) /\ z.col \in 0..Width
           /\ z.original \in Loaded \union {None}
    BY <1>1, <2>1, <2>3
  <2>5. ASSUME NEW y \in S, NEW z \in S, y.row = z.row PROVE y = z
    <3>1. PICK i \in 1..Len(raw) :
             /\ y = Finding(i, first, "duplicate_primary_key", "CRITICAL", None, None)
             /\ y.row = i + 1
      BY <2>3
    <3>2. PICK j \in 1..Len(raw) :
             /\ z = Finding(j, first, "duplicate_primary_key", "CRITICAL", None, None)
             /\ z.row = j + 1
      BY <2>3
    <3>3. i = j
      BY <1>1, <2>5, <3>1, <3>2
    <3> QED
      BY <3>1, <3>2, <3>3
  <2> QED
    BY <2>4, <2>5 DEF S, Identified
<1> QED
  BY <1>2, <1>3

\* The types that are found at all.
IssueTypes ==
    {"missing_value", "empty_string", "null_value", "duplicate_row", "duplicate_primary_key"}
      \union FormatTypes \union {"required_field_violation"} \union WhitespaceTypes
      \union {"inconsistent_capitalization", "boolean_inconsistency", "invalid_enum_value", "outlier"}

\* Row, column and type identify a finding, whatever rule it comes from.
LEMMA FindingsIdentified ==
    ASSUME NEW raw \in Contents, NEW config
    PROVE  Identified(AllFindings(raw, config), IssueTypes, Len(raw))
<1> DEFINE n == Len(raw)
           R1 == MissingValueRule(raw)
           R2 == EmptyStringRule(raw, load_csv(raw))
           R3 == NullValueRule(load_csv(raw))
           R4 == DuplicateRowRule(load_csv(raw))
           R5 == DuplicatePrimaryKeyRule(load_csv(raw), config)
           R6 == InvalidFormatRule(load_csv(raw), config)
           R7 == RequiredFieldViolationRule(load_csv(raw), config)
           R8 == WhitespaceRules(load_csv(raw))
           R9 == InconsistentCapitalizationRule(load_csv(raw), config)
           R10 == BooleanInconsistencyRule(load_csv(raw), config)
           R11 == InvalidEnumValueRule(load_csv(raw), config)
           R12 == OutlierRule(load_csv(raw), config)
           S2 == R1 \union R2
           S3 == S2 \union R3
           S4 == S3 \union R4
           S5 == S4 \union R5
           S6 == S5 \union R6
           S7 == S6 \union R7
           S8 == S7 \union R8
           S9 == S8 \union R9
           S10 == S9 \union R10
           S11 == S10 \union R11
           S12 == S11 \union R12
           T2 == {"missing_value"} \union {"empty_string"}
           T3 == T2 \union {"null_value"}
           T4 == T3 \union {"duplicate_row"}
           T5 == T4 \union {"duplicate_primary_key"}
           T6 == T5 \union FormatTypes
           T7 == T6 \union {"required_field_violation"}
           T8 == T7 \union WhitespaceTypes
           T9 == T8 \union {"inconsistent_capitalization"}
           T10 == T9 \union {"boolean_inconsistency"}
           T11 == T10 \union {"invalid_enum_value"}
           T12 == T11 \union {"outlier"}
<1>1. /\ Identified(R1, {"missing_value"}, n)
      /\ Identified(R2, {"empty_string"}, n)
      /\ Identified(R3, {"null_value"}, n)
      /\ Identified(R4, {"duplicate_row"}, n)
      /\ Identified(R5, {"duplicate_primary_key"}, n)
      /\ Identified(R6, FormatTypes, n)
      /\ Identified(R7, {"required_field_violation"}, n)
      /\ Identified(R8, WhitespaceTypes, n)
      /\ Identified(R9, {"inconsistent_capitalization"}, n)
      /\ Identified(R10, {"boolean_inconsistency"}, n)
      /\ Identified(R11, {"invalid_enum_value"}, n)
      /\ Identified(R12, {"outlier"}, n)
  BY MissingIdentified, EmptyIdentified, NullIdentified, DuplicateRowsIdentified,
     DuplicateKeysIdentified, FormatIdentified, RequiredIdentified, WhitespaceIdentified,
     CapitalizationIdentified, BooleanIdentified, EnumIdentified, OutlierIdentified
<1>2. AllFindings(raw, config) = S12
  BY DEF AllFindings
<1>3. IssueTypes = T12
  BY DEF IssueTypes
<1> HIDE DEF R1, R2, R3, R4, R5, R6, R7, R8, R9, R10, R11, R12
<1>4. Identified(S2, T2, n)
  <2>1. {"missing_value"} \intersect {"empty_string"} = {}
    BY DEF FormatTypes, WhitespaceTypes
  <2> QED
    BY <1>1, <2>1, IdentifiedUnion
<1>5. Identified(S3, T3, n)
  <2>1. T2 \intersect {"null_value"} = {}
    BY DEF FormatTypes, WhitespaceTypes
  <2> HIDE DEF T2, S2
  <2> QED
    BY <1>1, <1>4, <2>1, IdentifiedUnion
<1>6. Identified(S4, T4, n)
  <2>1. T3 \intersect {"duplicate_row"} = {}
    BY DEF FormatTypes, WhitespaceTypes
  <2> HIDE DEF T3, S3
  <2> QED
    BY <1>1, <1>5, <2>1, IdentifiedUnion
<1>7. Identified(S5, T5, n)
  <2>1. T4 \intersect {"duplicate_primary_key"} = {}
    BY DEF FormatTypes, WhitespaceTypes
  <2> HIDE DEF T4, S4
  <2> QED
    BY <1>1, <1>6, <2>1, IdentifiedUnion
<1>8. Identified(S6, T6, n)
  <2>1. T5 \intersect FormatTypes = {}
    BY DEF FormatTypes, WhitespaceTypes
  <2> HIDE DEF T5, S5
  <2> QED
    BY <1>1, <1>7, <2>1, IdentifiedUnion
<1>9. Identified(S7, T7, n)
  <2>1. T6 \intersect {"required_field_violation"} = {}
    BY DEF FormatTypes, WhitespaceTypes
  <2> HIDE DEF T6, S6
  <2> QED
    BY <1>1, <1>8, <2>1, IdentifiedUnion
<1>10. Identified(S8, T8, n)
  <2>1. T7 \intersect WhitespaceTypes = {}
    BY DEF FormatTypes, WhitespaceTypes
  <2> HIDE DEF T7, S7
  <2> QED
    BY <1>1, <1>9, <2>1, IdentifiedUnion
<1>11. Identified(S9, T9, n)
  <2>1. T8 \intersect {"inconsistent_capitalization"} = {}
    BY DEF FormatTypes, WhitespaceTypes
  <2> HIDE DEF T8, S8
  <2> QED
    BY <1>1, <1>10, <2>1, IdentifiedUnion
<1>12. Identified(S10, T10, n)
  <2>1. T9 \intersect {"boolean_inconsistency"} = {}
    BY DEF FormatTypes, WhitespaceTypes
  <2> HIDE DEF T9, S9
  <2> QED
    BY <1>1, <1>11, <2>1, IdentifiedUnion
<1>13. Identified(S11, T11, n)
  <2>1. T10 \intersect {"invalid_enum_value"} = {}
    BY DEF FormatTypes, WhitespaceTypes
  <2> HIDE DEF T10, S10
  <2> QED
    BY <1>1, <1>12, <2>1, IdentifiedUnion
<1>14. Identified(S12, T12, n)
  <2>1. T11 \intersect {"outlier"} = {}
    BY DEF FormatTypes, WhitespaceTypes
  <2> HIDE DEF T11, S11
  <2> QED
    BY <1>1, <1>13, <2>1, IdentifiedUnion
<1> QED
  BY <1>2, <1>3, <1>14

\* The findings of a file are finitely many.
LEMMA FindingsFinite ==
    ASSUME NEW raw \in Contents, NEW config
    PROVE  IsFiniteSet(AllFindings(raw, config))
<1> DEFINE S == AllFindings(raw, config)
           n == Len(raw)
           Types == {ISSUE_TYPES[k] : k \in DOMAIN ISSUE_TYPES}
           Keys == (2..(n + 1)) \X ((0..Width) \X Types)
           key == [x \in S |-> <<x.row, <<x.col, x.type>>>>]
<1>1. Identified(S, IssueTypes, n) /\ n \in Nat
  BY FindingsIdentified, LoadedCells
<1>2. IssueTypes \subseteq Types
  <2>1. DOMAIN ISSUE_TYPES = 1..18
    BY DEF ISSUE_TYPES
  <2> QED
    BY <2>1 DEF ISSUE_TYPES, IssueTypes, FormatTypes, WhitespaceTypes
<1>3. IsFiniteSet(Types)
  <2>1. DOMAIN ISSUE_TYPES = 1..18
    BY DEF ISSUE_TYPES
  <2>2. PICK last \in Int : DOMAIN ISSUE_TYPES = 1..last
    BY <2>1
  <2>3. IsFiniteSet(DOMAIN ISSUE_TYPES)
    BY <2>2, FS_Interval
  <2> QED
    BY <2>3, ImageFinite
<1> HIDE DEF Types, S
<1>4. IsFiniteSet(2..(n + 1)) /\ IsFiniteSet(0..Width)
  BY <1>1, FS_Interval, WidthAssumption
<1>5. IsFiniteSet(Keys)
  BY <1>3, <1>4, FS_Product
<1>6. key \in [S -> Keys]
  BY <1>1, <1>2 DEF Identified
<1>7. \A x, y \in S : key[x] = key[y] => x = y
  BY <1>1 DEF Identified
<1> HIDE DEF Keys, key
<1>8. IsFiniteSet(S)
  BY <1>5, <1>6, <1>7, KeyedFinite
<1> QED
  BY <1>8 DEF S

\* What a white-space rule suggests for a cell.
LEMMA WhitespaceFixes ==
    ASSUME NEW raw \in Contents, NEW config, NEW x \in AllFindings(raw, config)
    PROVE  /\ x.type \in {"leading_whitespace", "trailing_whitespace"} =>
                /\ x.original \in Loaded
                /\ x.fix \in {lstrip(x.original), rstrip(x.original)}
           /\ x.type = "multiple_internal_spaces" =>
                x.original \in Loaded /\ x.fix = Collapse(x.original)
<1> DEFINE rows == load_csv(raw)
           cells == (DOMAIN rows) \X Columns
<1>1. CASE x \in WhitespaceRules(rows)
  <2>0. \A c \in cells : rows[c[1]][c[2]] \in Loaded
    BY LoadedCells
  <2>1. ASSUME NEW type, NEW fixed, x \in Trimmed(rows, type, fixed)
        PROVE  \E c \in cells : /\ x.type = type /\ x.original = rows[c[1]][c[2]]
                                /\ x.fix = fixed[c] /\ x.original \in Loaded
    BY <2>0, <2>1, FindingFields DEF Trimmed
  <2>2. CASE x \in Trimmed(rows, "leading_whitespace", [c \in cells |-> lstrip(rows[c[1]][c[2]])])
    BY <2>1, <2>2
  <2>3. CASE x \in Trimmed(rows, "trailing_whitespace", [c \in cells |-> rstrip(rows[c[1]][c[2]])])
    BY <2>1, <2>3
  <2>4. CASE x \in Trimmed(rows, "multiple_internal_spaces", [c \in cells |-> Collapse(rows[c[1]][c[2]])])
    BY <2>1, <2>4
  <2> QED
    BY <1>1, <2>2, <2>3, <2>4, WhitespaceSplit
<1>2. CASE x \notin WhitespaceRules(rows)
  <2>1. x.type \notin WhitespaceTypes
    BY <1>2, MissingIdentified, EmptyIdentified, NullIdentified, DuplicateRowsIdentified,
       DuplicateKeysIdentified, FormatIdentified, RequiredIdentified,
       CapitalizationIdentified, BooleanIdentified, EnumIdentified, OutlierIdentified
       DEF Identified, AllFindings, WhitespaceTypes, FormatTypes
  <2> QED
    BY <2>1 DEF WhitespaceTypes
<1> QED
  BY <1>1, <1>2

\* Detection keeps all findings or, past the ceiling, some of them.
LEMMA DetectedIssues ==
    ASSUME NEW raw \in Contents, NEW config, NEW d, d = detect_issues(raw, config)
    PROVE  /\ d.issues \subseteq AllFindings(raw, config)
           /\ IsFiniteSet(d.issues)
           /\ d.total_issues_found = Cardinality(AllFindings(raw, config))
           /\ d.total_issues_found \in Nat
           /\ Cardinality(d.issues) <= d.total_issues_found
           /\ d.total_issues_found = Cardinality(d.issues) => d.issues = AllFindings(raw, config)
<1> DEFINE found == AllFindings(raw, config)
<1>1. d.issues \subseteq found /\ d.total_issues_found = Cardinality(found)
  BY DEF detect_issues, FirstIssues
<1>2. IsFiniteSet(found)
  BY FindingsFinite
<1> HIDE DEF found
<1>3. IsFiniteSet(d.issues) /\ Cardinality(d.issues) <= Cardinality(found)
      /\ (Cardinality(found) = Cardinality(d.issues) => found = d.issues)
  BY <1>1, <1>2, FS_Subset
<1>4. Cardinality(found) \in Nat
  BY <1>2, FS_CardinalityType
<1> QED
  BY <1>1, <1>3, <1>4 DEF found

-----------------------------------------------------------------------------
(***************************************************************************)
(* Proposals.                                                              *)
(***************************************************************************)

\* What every configuration of a column allows: finitely many values, each the
\* text of a cell.
AllowsCells(column) ==
    IsFiniteSet(column.allowed_values) /\ column.allowed_values \subseteq Fields

\* A finding without a column has column 0.
AllowsAll(config) == \A col \in 0..Width : AllowsCells(ConfigOf(config, col))

\* The change remediate() makes of an issue.
ChangeFor(x, config, dataset) ==
    [row |-> x.row, col |-> x.col, type |-> x.type, action |-> get_rule_for_issue_type(x.type),
     original |-> x.original, proposed |-> propose(x, config, dataset)]

\* The action of an issue type, and back.
LEMMA ActionTypes ==
    ASSUME NEW type
    PROVE  LET action == get_rule_for_issue_type(type) IN
           /\ action \in {"trim_whitespace", "collapse_multiple_spaces",
                          "standardize_capitalization", "normalize_boolean", "normalize_date",
                          "normalize_phone", "normalize_numeric", "normalize_enum_value",
                          "remove_duplicate_row", "remove_duplicate_primary_key", "none"}
           /\ action = "trim_whitespace" => type \in {"leading_whitespace", "trailing_whitespace"}
           /\ action = "collapse_multiple_spaces" => type = "multiple_internal_spaces"
  BY DEF get_rule_for_issue_type

\* A rewritten cell differs from what was there.
LEMMA Rewritten ==
    ASSUME NEW c, NEW canonical, Rewrite(c, canonical) # None
    PROVE  Rewrite(c, canonical) = canonical
  BY DEF Rewrite

\* The canonical forms remediation borrows from standardization are no Removal.
LEMMA PlainWord ==
    ASSUME NEW word, NEW casing
    PROVE  Plain(word, casing).word = word
<1>1. Empty = [word |-> "", casing |-> "none", lead |-> FALSE, trail |-> FALSE, gaps |-> 0]
  BY DEF Empty
<1> QED
  BY DEF Plain, Empty

\* No canonical form of a cell is the mark that a row is removed.
LEMMA CanonicalForms ==
    ASSUME NEW c \in Loaded \union {None}, NEW country
    PROVE  /\ standardize_boolean(c) # Removal
           /\ standardize_numeric(c) # Removal
           /\ standardize_phone(c, country) # Removal
<1>1. \A d : d.word # "REMOVE" => Rewrite(c, d) # Removal
  BY SpecialCells DEF Rewrite
<1>2. ASSUME NEW w, NEW k, w # "REMOVE"
      PROVE  Rewrite(c, Plain(w, k)) # Removal /\ Plain(w, k) # Removal
  <2>1. Plain(w, k).word # "REMOVE"
    BY <1>2, PlainWord
  <2> QED
    BY <1>1, <2>1, SpecialCells
<1>3. standardize_boolean(c) # Removal
  <2>1. Rewrite(c, Plain("true", "lower")) # Removal /\ Rewrite(c, Plain("false", "lower")) # Removal
    BY <1>2
  <2> QED
    BY <2>1, SpecialCells DEF standardize_boolean
<1>4. standardize_phone(c, country) # Removal
  <2>1. /\ Plain("+1555", "none") # Removal /\ Plain("+44555", "none") # Removal
        /\ c.word \in {"+1555", "+44555"} => Rewrite(c, Plain(c.word, "none")) # Removal
    BY <1>2
  <2> QED
    BY <2>1, SpecialCells DEF standardize_phone
<1>5. standardize_numeric(c) # Removal
  <2>1. c.word # "REMOVE"
    BY CellWord, SpecialCells
  <2>2. Rewrite(c, strip(c)) # Removal
    BY <1>1, <2>1, SameWord
  <2>3. \A w : w # "REMOVE" => Rewrite(c, [strip(c) EXCEPT !.word = w]) # Removal
    BY <1>1, SameWord
  <2>4. /\ Rewrite(c, [strip(c) EXCEPT !.word = "1234.5"]) # Removal
        /\ Rewrite(c, [strip(c) EXCEPT !.word = "1234"]) # Removal
        /\ Rewrite(c, [strip(c) EXCEPT !.word = "ab.c"]) # Removal
    BY <2>3
  <2> QED
    BY <2>2, <2>4, SpecialCells DEF standardize_numeric
<1> QED
  BY <1>3, <1>4, <1>5

\* A finding as the rules make it.
IsFinding(x) ==
    /\ x.original \in Loaded \union {None}
    /\ x.type \in {"leading_whitespace", "trailing_whitespace"} =>
          x.original \in Loaded /\ x.fix \in {lstrip(x.original), rstrip(x.original)}
    /\ x.type = "multiple_internal_spaces" =>
          x.original \in Loaded /\ x.fix = Collapse(x.original)

\* What detection finds has the shape and the place of a finding.
LEMMA FindingsAreFindings ==
    ASSUME NEW raw \in Contents, NEW config, NEW x \in AllFindings(raw, config)
    PROVE  IsFinding(x) /\ x.row \in 2..(Len(raw) + 1) /\ x.col \in 0..Width
  BY FindingsIdentified, WhitespaceFixes DEF Identified, IsFinding

\* Remediation and validation, each with rules of its own, agree: what is
\* proposed passes under the configuration it was proposed under; and the
\* removals are told apart from every value.
LEMMA ProposalPasses ==
    ASSUME NEW x, IsFinding(x), NEW config, AllowsCells(ConfigOf(config, x.col)), NEW dataset,
           propose(x, config, dataset) # None,
           NEW c, c = ChangeFor(x, config, dataset)
    PROVE  /\ validate_change(c, config) = "passed"
           /\ c.action \in DUPLICATE_REMOVAL_ACTIONS <=> c.proposed = Removal
<1>0. PICK column, action, p : /\ column = ConfigOf(config, x.col)
                               /\ action = get_rule_for_issue_type(x.type)
                               /\ p = propose(x, config, dataset)
  OBVIOUS
<1>1. /\ c.col = x.col /\ c.action = action /\ c.original = x.original /\ c.proposed = p
      /\ p # None /\ AllowsCells(column)
  BY <1>0 DEF ChangeFor
<1>2. x.original # None => x.original \in Loaded
  BY DEF IsFinding
<1>3. CASE action = "trim_whitespace"
  <2>1. /\ x.original \in Loaded /\ x.fix \in {lstrip(x.original), rstrip(x.original)}
    BY <1>0, <1>3, ActionTypes DEF IsFinding
  <2>2. p = x.fix
    BY <1>0, <1>1, <1>3, Rewritten DEF propose, propose_trim
  <2>3. p.word = x.original.word
    BY <2>1, <2>2, SameWord
  <2>4. x.original # None /\ p # Removal
    BY <2>1, <2>3, CellWord, SpecialCells
  <2>5. validate_change(c, config) = "passed"
    BY <1>1, <1>3, <2>1, <2>2, <2>4 DEF validate_change, validate_trim, Verdict
  <2> QED
    BY <1>1, <1>3, <2>4, <2>5 DEF DUPLICATE_REMOVAL_ACTIONS
<1>4. CASE action = "collapse_multiple_spaces"
  <2>1. x.original \in Loaded /\ x.fix = Collapse(x.original)
    BY <1>0, <1>4, ActionTypes DEF IsFinding
  <2>2. p = x.fix
    BY <1>0, <1>1, <1>4, Rewritten DEF propose, propose_collapse
  <2>3. p.word = x.original.word
    BY <2>1, <2>2, SameWord
  <2>4. x.original # None /\ p # Removal
    BY <2>1, <2>3, CellWord, SpecialCells
  <2>5. validate_change(c, config) = "passed"
    BY <1>1, <1>4, <2>1, <2>2, <2>4 DEF validate_change, validate_collapse, Verdict
  <2> QED
    BY <1>1, <1>4, <2>4, <2>5 DEF DUPLICATE_REMOVAL_ACTIONS
<1>5. CASE action = "standardize_capitalization"
  <2>1. p = propose_standardize_capitalization(x, column)
    BY <1>0, <1>5 DEF propose
  <2>2. /\ column.capitalization_target # "none" /\ x.original \notin {None, Empty}
        /\ p = Recase(x.original, column.capitalization_target)
    BY <1>1, <2>1, Rewritten DEF propose_standardize_capitalization
  <2>3. p # Removal
    <3>1. x.original \in Loaded
      BY <1>2, <2>2
    <3>2. p.word = x.original.word
      BY <2>2, <3>1, SameWord
    <3> QED
      BY <3>1, <3>2, CellWord, SpecialCells
  <2>4. validate_change(c, config) = "passed"
    BY <1>0, <1>1, <1>5, <2>2 DEF validate_change, validate_capitalization, Verdict
  <2> QED
    BY <1>1, <1>5, <2>3, <2>4 DEF DUPLICATE_REMOVAL_ACTIONS
<1>6. CASE action = "normalize_boolean"
  <2>1. p = standardize_boolean(x.original)
    BY <1>0, <1>6 DEF propose, propose_normalize_boolean
  <2>2. p # Removal
    BY <2>1, CanonicalForms DEF IsFinding
  <2>3. validate_change(c, config) = "passed"
    BY <1>1, <1>6, <2>1 DEF validate_change, validate_boolean, Verdict
  <2> QED
    BY <1>1, <1>6, <2>2, <2>3 DEF DUPLICATE_REMOVAL_ACTIONS
<1>7. CASE action = "normalize_numeric"
  <2>1. p = standardize_numeric(x.original)
    BY <1>0, <1>7 DEF propose, propose_normalize_numeric
  <2>2. p # Removal
    BY <2>1, CanonicalForms DEF IsFinding
  <2>3. validate_change(c, config) = "passed"
    BY <1>1, <1>7, <2>1 DEF validate_change, validate_numeric, Verdict
  <2> QED
    BY <1>1, <1>7, <2>2, <2>3 DEF DUPLICATE_REMOVAL_ACTIONS
<1>8. CASE action = "normalize_phone"
  <2>1. p = propose_normalize_phone(x, column)
    BY <1>0, <1>8 DEF propose
  <2>2. column.default_country # "none" /\ p = standardize_phone(x.original, column.default_country)
    BY <1>1, <2>1 DEF propose_normalize_phone
  <2>3. p # Removal
    BY <2>2, CanonicalForms DEF IsFinding
  <2>4. validate_change(c, config) = "passed"
    BY <1>0, <1>1, <1>8, <2>2 DEF validate_change, validate_phone, Verdict
  <2> QED
    BY <1>1, <1>8, <2>3, <2>4 DEF DUPLICATE_REMOVAL_ACTIONS
<1>9. CASE action = "normalize_date"
  <2>1. p = propose_normalize_date(x, column)
    BY <1>0, <1>9 DEF propose
  <2>2. /\ column.source_date_format # "none" /\ column.target_date_format # "none"
        /\ strptime(x.original, column.source_date_format)
        /\ p = strftime(column.target_date_format)
    BY <1>1, <2>1, Rewritten DEF propose_normalize_date
  <2>3. x.original.word \in {"2024-01-31", "31/01/2024"} /\ p.word \in {"2024-01-31", "31/01/2024"}
    BY <2>2, PlainWord DEF strptime, strftime, DateWord
  <2>4. x.original \notin {None, Empty} /\ p # Removal
    BY <2>3, SpecialCells
  <2>5. validate_change(c, config) = "passed"
    BY <1>0, <1>1, <1>9, <2>2, <2>4 DEF validate_change, validate_date, Verdict
  <2> QED
    BY <1>1, <1>9, <2>4, <2>5 DEF DUPLICATE_REMOVAL_ACTIONS
<1>10. CASE action = "normalize_enum_value"
  <2> DEFINE matches == Candidates(x.original, column)
  <2>1. p = propose_normalize_enum_value(x, column)
    BY <1>0, <1>10 DEF propose
  <2>2. /\ x.original \notin {None, Empty} /\ Cardinality(matches) = 1
        /\ p = CHOOSE a \in matches : TRUE
    BY <1>1, <2>1, Rewritten DEF propose_normalize_enum_value
  <2>3. matches \subseteq column.allowed_values
    BY DEF Candidates
  <2>4. IsFiniteSet(matches)
    BY <1>1, <2>3, FS_Subset DEF AllowsCells
  <2>5. PICK a : matches = {a}
    BY <2>2, <2>4, FS_Singleton
  <2>6. matches = {p} /\ p \in Fields
    BY <1>1, <2>2, <2>3, <2>5 DEF AllowsCells
  <2>7. p # Removal
    BY <2>6, CellWord DEF Loaded
  <2>8. column.allowed_values # {}
    BY <2>3, <2>6
  <2>9. validate_change(c, config) = "passed"
    BY <1>0, <1>1, <1>10, <2>2, <2>6, <2>8 DEF validate_change, validate_enum_value, Verdict
  <2> QED
    BY <1>1, <1>10, <2>7, <2>9 DEF DUPLICATE_REMOVAL_ACTIONS
<1>11. CASE action \in {"remove_duplicate_row", "remove_duplicate_primary_key"}
  <2>1. p = Removal
    BY <1>0, <1>1, <1>11 DEF propose, propose_remove_duplicate_row,
       propose_remove_duplicate_primary_key
  <2>2. validate_change(c, config) = "passed"
    BY <1>1, <1>11, <2>1 DEF validate_change, validate_duplicate_removal, Verdict
  <2> QED
    BY <1>1, <1>11, <2>1, <2>2 DEF DUPLICATE_REMOVAL_ACTIONS
<1>12. action # "none"
  BY <1>0, <1>1 DEF propose
<1> QED
  BY <1>0, <1>3, <1>4, <1>5, <1>6, <1>7, <1>8, <1>9, <1>10, <1>11, <1>12, ActionTypes

\* A verdict depends on the configuration of the change's column only.
LEMMA VerdictOfColumn ==
    ASSUME NEW c, NEW config, NEW other, ConfigOf(config, c.col) = ConfigOf(other, c.col)
    PROVE  validate_change(c, config) = validate_change(c, other)
  BY DEF validate_change

\* Every validator answers with one of the three outcomes.
LEMMA VerdictIsOutcome ==
    ASSUME NEW c, NEW config
    PROVE  validate_change(c, config) \in {"passed", "failed", "skipped"}
<1>1. \A holds \in BOOLEAN : Verdict(holds) \in {"passed", "failed"}
  BY DEF Verdict
<1> QED
  BY DEF validate_change, validate_trim, validate_collapse, validate_capitalization,
     validate_boolean, validate_date, validate_phone, validate_numeric, validate_enum_value,
     validate_duplicate_removal, Verdict

\* A finite set and the part of it that is left.
LEMMA Rest ==
    ASSUME NEW S, IsFiniteSet(S), NEW T, T \subseteq S
    PROVE  /\ IsFiniteSet(T) /\ IsFiniteSet(S \ T)
           /\ Cardinality(T) \in Nat /\ Cardinality(S \ T) \in Nat
           /\ Cardinality(S) = Cardinality(T) + Cardinality(S \ T)
<1>1. IsFiniteSet(T) /\ IsFiniteSet(S \ T)
  BY FS_Subset, FS_Difference
<1>2. /\ Cardinality(T) \in Nat /\ Cardinality(S \ T) \in Nat /\ Cardinality(S) \in Nat
  BY <1>1, FS_CardinalityType
<1>3. S \intersect T = T
  OBVIOUS
<1>4. Cardinality(S \ T) = Cardinality(S) - Cardinality(T)
  BY <1>3, FS_Difference
<1> QED
  BY <1>1, <1>2, <1>4

\* Every issue is proposed a change for or skipped; every change is of a row
\* of the file, passes under the configuration it was made under, and removes
\* its row exactly if its action is a removal.
SoundRemediation(raw, issues, config, r) ==
    /\ IsFiniteSet(r.changes)
    /\ Cardinality(issues) = Cardinality(r.changes) + Cardinality(r.skipped)
    /\ \A c \in r.changes :
          /\ c.row \in 2..(Len(raw) + 1)
          /\ validate_change(c, config) = "passed"
          /\ c.action \in DUPLICATE_REMOVAL_ACTIONS <=> c.proposed = Removal

\* What remediate() makes of some of the findings is sound.
LEMMA RemediatedIssues ==
    ASSUME NEW raw \in Contents, NEW detecting, NEW issues,
           issues \subseteq AllFindings(raw, detecting), NEW config, AllowsAll(config),
           NEW settings, NEW r, r = remediate(Len(raw), issues, config, settings)
    PROVE  SoundRemediation(raw, issues, config, r)
<1> DEFINE pending == {x \in issues : /\ x.row \in 2..(Len(raw) + 1)
                                      /\ propose(x, config, settings) # None}
           kept == FirstIssues(pending, MaxPersistedChanges)
           change == [x \in kept |-> ChangeFor(x, config, settings)]
<1>1. kept \subseteq pending
  BY DEF FirstIssues
<1>2. r.changes = {change[x] : x \in DOMAIN change} /\ r.skipped = issues \ kept
  BY DEF remediate, ChangeFor
<1>3. kept \subseteq issues /\ IsFiniteSet(issues)
  BY <1>1, FindingsFinite, FS_Subset
<1>4. /\ IsFiniteSet(kept) /\ Cardinality(kept) \in Nat
      /\ Cardinality(issues) = Cardinality(kept) + Cardinality(issues \ kept)
  <2> HIDE DEF kept
  <2> QED
    BY <1>3, Rest
<1>5. \A x, y \in kept : change[x] = change[y] => x = y
  <2>1. Identified(AllFindings(raw, detecting), IssueTypes, Len(raw))
    BY FindingsIdentified
  <2>2. \A x \in kept : /\ change[x].row = x.row /\ change[x].col = x.col
                         /\ change[x].type = x.type
    BY DEF ChangeFor
  <2> HIDE DEF change, kept
  <2> QED
    BY <1>3, <2>1, <2>2 DEF Identified
<1>6. \A x \in kept : change[x] = ChangeFor(x, config, settings)
  OBVIOUS
<1>7. DOMAIN change = kept
  OBVIOUS
<1> HIDE DEF kept, change
<1>8. IsFiniteSet(r.changes) /\ Cardinality(r.changes) = Cardinality(kept)
  <2>1. IsFiniteSet(DOMAIN change)
    BY <1>4, <1>7
  <2>2. \A x, y \in DOMAIN change : change[x] = change[y] => x = y
    BY <1>5, <1>7
  <2> QED
    BY <1>2, <1>7, <2>1, <2>2, ImageFinite
<1>9. ASSUME NEW c \in r.changes
      PROVE  /\ c.row \in 2..(Len(raw) + 1)
             /\ validate_change(c, config) = "passed"
             /\ c.action \in DUPLICATE_REMOVAL_ACTIONS <=> c.proposed = Removal
  <2>1. PICK x \in kept : c = ChangeFor(x, config, settings)
    BY <1>2, <1>6, <1>7
  <2>2. /\ x \in AllFindings(raw, detecting) /\ propose(x, config, settings) # None
        /\ IsFinding(x) /\ x.col \in 0..Width /\ x.row \in 2..(Len(raw) + 1)
    BY <1>1, FindingsAreFindings
  <2>3. c.row = x.row
    BY <2>1 DEF ChangeFor
  <2> QED
    BY <2>1, <2>2, <2>3, ProposalPasses DEF AllowsAll
<1> QED
  BY <1>2, <1>4, <1>8, <1>9 DEF SoundRemediation

\* Every change considered is judged once, or skipped because the results are
\* more than the ceiling.
LEMMA ValidatedChanges ==
    ASSUME NEW changes, IsFiniteSet(changes), NEW judged \in JudgedSets(changes), NEW config,
           NEW results, results = validate(changes, judged, config)
    PROVE  /\ IsFiniteSet(results) /\ Cardinality(results) = Cardinality(changes)
           /\ \A r \in results :
                 /\ r.change \in changes
                 /\ r.outcome \in {"passed", "failed", "skipped"}
                 /\ \/ r.outcome = validate_change(r.change, config)
                    \/ r.outcome = "skipped" /\ Cardinality(results) > MaxPersistedResults
<1> DEFINE result == [x \in changes |->
                        [change |-> x, outcome |-> IF x \in judged THEN validate_change(x, config)
                                                   ELSE "skipped"]]
<1>1. results = {result[x] : x \in DOMAIN result} /\ DOMAIN result = changes
  BY DEF validate
<1>2. \A x \in changes : /\ result[x].change = x
                         /\ result[x].outcome = IF x \in judged THEN validate_change(x, config)
                                                ELSE "skipped"
  OBVIOUS
<1> HIDE DEF result
<1>3. \A x, y \in changes : result[x] = result[y] => x = y
  BY <1>2
<1>4. IsFiniteSet(results) /\ Cardinality(results) = Cardinality(changes)
  BY <1>1, <1>3, ImageFinite
<1>5. \A r \in results : \E x \in changes : r = result[x]
  BY <1>1
<1>6. ASSUME NEW x \in changes, x \notin judged PROVE Cardinality(changes) > MaxPersistedResults
  <2>1. judged \subseteq changes
        /\ Cardinality(judged) = Shortest(Cardinality(changes), MaxPersistedResults)
    BY DEF JudgedSets
  <2>2. Cardinality(judged) \in Nat /\ Cardinality(changes) \in Nat
        /\ Cardinality(judged) <= Cardinality(changes)
        /\ Cardinality(judged) # Cardinality(changes)
    BY <1>6, <2>1, FS_Subset, FS_CardinalityType
  <2> QED
    BY <2>1, <2>2, LimitsAssumption DEF Shortest
<1>7. ASSUME NEW r \in results
      PROVE  /\ r.change \in changes
             /\ r.outcome \in {"passed", "failed", "skipped"}
             /\ \/ r.outcome = validate_change(r.change, config)
                \/ r.outcome = "skipped" /\ Cardinality(results) > MaxPersistedResults
  <2>1. PICK x \in changes : r = result[x]
    BY <1>5
  <2> QED
    BY <1>2, <1>4, <1>6, <2>1, VerdictIsOutcome
<1> QED
  BY <1>4, <1>7

-----------------------------------------------------------------------------
(***************************************************************************)
(* The counts of a verdict.                                                *)
(***************************************************************************)

\* Finitely many findings, each of one of the three severities.
Graded(S) ==
    IsFiniteSet(S) /\ \A f \in S : f.severity \in {"blocking", "warning", "info"}

\* How such sets come about.
LEMMA GradedSets ==
    /\ Graded({})
    /\ \A c, r : \A s \in {"blocking", "warning", "info"} : Graded({QualityFinding(c, r, s)})
    /\ \A A, B : Graded(A) /\ Graded(B) => Graded(A \union B)
<1>1. Graded({})
  BY FS_EmptySet DEF Graded
<1>2. \A c, r : \A s \in {"blocking", "warning", "info"} : Graded({QualityFinding(c, r, s)})
  <2> SUFFICES ASSUME NEW c, NEW r, NEW s \in {"blocking", "warning", "info"}
               PROVE  Graded({QualityFinding(c, r, s)})
    OBVIOUS
  <2>0. QualityFinding(c, r, s).severity = s
    BY DEF QualityFinding
  <2>1. PICK f : f = QualityFinding(c, r, s) /\ f.severity = s
    BY <2>0
  <2>2. IsFiniteSet({f})
    BY FS_Singleton
  <2> QED
    BY <2>1, <2>2 DEF Graded
<1>3. \A A, B : Graded(A) /\ Graded(B) => Graded(A \union B)
  BY FS_Union DEF Graded
<1> QED
  BY <1>1, <1>2, <1>3

\* Every applicable category reports such a set.
LEMMA CategoryFindings ==
    ASSUME NEW in, NEW c \in Applicable(in)
    PROVE  Graded(evaluate(c, in).findings)
<1>0. \A score : ByScore(score) \in {"blocking", "warning", "info"}
  BY DEF ByScore
<1>1. Graded(CompletenessCategory(in).findings)
  BY <1>0, GradedSets DEF CompletenessCategory
<1>2. Graded(UniquenessCategory(in).findings)
  BY <1>0, GradedSets DEF UniquenessCategory
<1>3. Graded(ValidityCategory(in).findings)
  BY <1>0, GradedSets DEF ValidityCategory
<1>4. Graded(ConsistencyCategory(in).findings)
  <2>1. ConsistencyCategory(in).findings = {}
    BY DEF ConsistencyCategory, ConsistencyColumns
  <2> QED
    BY <2>1, GradedSets
<1>5. Graded(UnresolvedRiskCategory(in).findings)
  BY GradedSets DEF UnresolvedRiskCategory
<1>6. Graded(ValidationCoverageCategory(in).findings)
  BY GradedSets DEF ValidationCoverageCategory
<1> QED
  BY <1>1, <1>2, <1>3, <1>4, <1>5, <1>6 DEF evaluate

\* The findings of all categories.
LEMMA AllGraded ==
    ASSUME NEW in
    PROVE  Graded(Findings(in))
<1> DEFINE Of(c) == IF c \in Applicable(in) THEN evaluate(c, in).findings ELSE {}
           S == Of("completeness") \union Of("uniqueness") \union Of("validity")
                \union Of("consistency") \union Of("unresolved_risk")
                \union Of("validation_coverage")
<1>1. \A c : Graded(Of(c))
  BY CategoryFindings, GradedSets
<1>2. Applicable(in) \subseteq {"completeness", "uniqueness", "validity", "consistency",
                               "unresolved_risk", "validation_coverage"}
  BY DEF Applicable
<1>3. Findings(in) = S
  BY <1>2 DEF Findings
<1> HIDE DEF Of
<1>4. Graded(S)
  BY <1>1, GradedSets
<1> QED
  BY <1>3, <1>4

\* The counts of a verdict add up, and at most as many findings are stored.
LEMMA VerdictCounts ==
    ASSUME NEW in, NEW result, result = quality_control(in)
    PROVE  /\ result.total_findings = result.blocking_count + result.warning_count
                                        + result.info_count
           /\ Cardinality(result.findings) <= result.total_findings
<1> DEFINE all == Findings(in)
           blocking == {f \in all : f.severity = "blocking"}
           warning == {f \in all : f.severity = "warning"}
           info == {f \in all : f.severity = "info"}
           rest == all \ blocking
<1>1. /\ result.total_findings = Cardinality(all)
      /\ result.blocking_count = Cardinality(blocking)
      /\ result.warning_count = Cardinality(warning)
      /\ result.info_count = Cardinality(info)
      /\ result.findings \subseteq all
  BY DEF quality_control, Severity, PersistedFindings
<1>2. Graded(all)
  BY AllGraded
<1>3. /\ blocking \subseteq all /\ warning \subseteq rest /\ rest \ warning = info
      /\ IsFiniteSet(all)
  BY <1>2 DEF Graded
<1> HIDE DEF all, blocking, warning, info, rest
<1>4. /\ Cardinality(all) = Cardinality(blocking) + Cardinality(rest) /\ IsFiniteSet(rest)
      /\ Cardinality(blocking) \in Nat
  BY <1>3, Rest DEF rest
<1>5. /\ Cardinality(rest) = Cardinality(warning) + Cardinality(info)
      /\ Cardinality(warning) \in Nat /\ Cardinality(info) \in Nat
  BY <1>3, <1>4, Rest
<1>6. Cardinality(result.findings) <= Cardinality(all)
  BY <1>1, <1>3, FS_Subset
<1> QED
  BY <1>1, <1>4, <1>5, <1>6

-----------------------------------------------------------------------------
(***************************************************************************)
(* The overall score: a weighted mean of scores between 0 and 100 per      *)
(* cent, whatever the weights.                                             *)
(***************************************************************************)
IsScore(score) == score.n \in Nat /\ score.d \in Nat /\ score.n <= score.d

\* The state of the loop: the sum is at most the weight of what was summed.
IsSum(sum) ==
    /\ sum.n \in Nat /\ sum.d \in Nat /\ sum.weight_sum \in Nat
    /\ sum.n <= sum.d * sum.weight_sum

\* What the engine is given: counts, a finite set of results and weights.
SoundInput(in) ==
    /\ in.stats.effective_row_count \in Nat
    /\ in.stats.effective_duplicate_row_count \in Nat
    /\ in.stats.effective_missing_value_total \in Nat
    /\ in.stats.unresolved_high_count \in Nat
    /\ in.stats.unresolved_critical_count \in Nat
    /\ in.total_issues_found \in Nat
    /\ IsFiniteSet(in.results)
    /\ \A k \in DOMAIN in.thresholds.category_weights : in.thresholds.category_weights[k] \in Nat

\* The changes that passed are finitely many.
LEMMA PassedFinite ==
    ASSUME NEW results, IsFiniteSet(results)
    PROVE  IsFiniteSet(Passed(results))
<1> DEFINE passed == {r \in results : r.outcome = "passed"}
           change == [r \in passed |-> r.change]
<1>1. Passed(results) = {change[r] : r \in DOMAIN change} /\ DOMAIN change = passed
  BY DEF Passed
<1>2. IsFiniteSet(passed)
  BY FS_Subset
<1> HIDE DEF change
<1> QED
  BY <1>1, <1>2, ImageFinite

\* Effective statistics are counts.
LEMMA StatsAreCounts ==
    ASSUME NEW profile, profile.row_count \in Int, profile.duplicate_row_count \in Int,
           profile.missing_value_total \in Int,
           NEW issues, IsFiniteSet(issues), NEW results, IsFiniteSet(results),
           NEW stats, stats = compute_effective_stats(profile, issues, results)
    PROVE  /\ stats.effective_row_count \in Nat
           /\ stats.effective_duplicate_row_count \in Nat
           /\ stats.effective_missing_value_total \in Nat
           /\ stats.unresolved_high_count \in Nat
           /\ stats.unresolved_critical_count \in Nat
<1> DEFINE removals == {c \in Passed(results) : c.action \in DUPLICATE_REMOVAL_ACTIONS}
           missingFixes == {c \in Passed(results) : c.type \in MISSING_VALUE_ISSUE_TYPES}
           addressed == UNION {SourceIssue(issues, c) : c \in Passed(results)}
           Unresolved(s) == {x \in issues \ addressed : x.severity = s}
<1>1. Cardinality(removals) \in Nat /\ Cardinality(missingFixes) \in Nat
  <2>1. IsFiniteSet(removals) /\ IsFiniteSet(missingFixes)
    BY PassedFinite, FS_Subset
  <2> QED
    BY <2>1, FS_CardinalityType
<1>2. \A s : Cardinality(Unresolved(s)) \in Nat
  <2>1. \A s : IsFiniteSet(Unresolved(s))
    BY FS_Subset
  <2> QED
    BY <2>1, FS_CardinalityType
<1>3. /\ stats.effective_row_count = AtLeastZero(profile.row_count - Cardinality(removals))
      /\ stats.effective_duplicate_row_count
           = AtLeastZero(profile.duplicate_row_count - Cardinality(removals))
      /\ stats.effective_missing_value_total
           = AtLeastZero(profile.missing_value_total - Cardinality(missingFixes))
      /\ stats.unresolved_high_count = Cardinality(Unresolved("HIGH"))
      /\ stats.unresolved_critical_count = Cardinality(Unresolved("CRITICAL"))
  BY DEF compute_effective_stats
<1>4. \A i \in Int : AtLeastZero(i) \in Nat
  BY DEF AtLeastZero
<1> HIDE DEF removals, missingFixes, Unresolved
<1> QED
  BY <1>1, <1>2, <1>3, <1>4

\* A share of a whole.
LEMMA Shares ==
    ASSUME NEW bad \in Nat, NEW of \in Nat
    PROVE  IsScore(Share(bad, of))
  BY DEF Share, AtLeastZero, IsScore

\* No result has a column name, so no pair of an action and a column is formed.
LEMMA ConsistencyScore ==
    ASSUME NEW in
    PROVE  ConsistencyCategory(in).score = [n |-> 1, d |-> 1]
<1>1. {<<r.change.action, r.change.col>> :
          r \in {x \in in.results : /\ x.change.action \in CONSISTENCY_ACTIONS
                                    /\ x.change.col \in ConsistencyColumns(in)}} = {}
  BY DEF ConsistencyColumns
<1> QED
  BY <1>1 DEF ConsistencyCategory

\* Every category's score is one.
LEMMA CategoryScores ==
    ASSUME NEW in, SoundInput(in), NEW category
    PROVE  IsScore(evaluate(category, in).score)
<1> DEFINE rows == in.stats.effective_row_count
           whole == Considered(in)
<1>1. /\ whole \in Nat
      /\ \A o : Outcomes(in, o) \in Nat /\ Outcomes(in, o) <= whole
  <2>1. ASSUME NEW o
        PROVE  LET T == {r \in in.results : r.outcome = o} IN
               IsFiniteSet(T) /\ Cardinality(T) <= Cardinality(in.results)
    <3>1. {r \in in.results : r.outcome = o} \subseteq in.results /\ IsFiniteSet(in.results)
      BY DEF SoundInput
    <3> QED
      BY <3>1, FS_Subset
  <2> QED
    BY <2>1, FS_CardinalityType DEF SoundInput, Considered, Outcomes
<1>2. IsScore([n |-> 0, d |-> 1]) /\ IsScore([n |-> 1, d |-> 1])
  BY DEF IsScore
<1>3. IsScore(CompletenessCategory(in).score)
  <2>1. rows * Width \in Nat /\ in.stats.effective_missing_value_total \in Nat
    BY WidthAssumption DEF SoundInput
  <2>2. IsScore(Share(in.stats.effective_missing_value_total, rows * Width))
    BY <2>1, Shares
  <2>3. \/ CompletenessCategory(in).score = [n |-> 0, d |-> 1]
        \/ CompletenessCategory(in).score = Share(in.stats.effective_missing_value_total, rows * Width)
    BY DEF CompletenessCategory
  <2> QED
    BY <1>2, <2>2, <2>3
<1>4. IsScore(UniquenessCategory(in).score)
  BY Shares DEF UniquenessCategory, SoundInput
<1>5. IsScore(ValidityCategory(in).score)
  BY <1>1 DEF ValidityCategory, IsScore
<1>6. IsScore(ConsistencyCategory(in).score)
  BY <1>2, ConsistencyScore
<1>7. IsScore(UnresolvedRiskCategory(in).score)
  <2>1. /\ in.stats.unresolved_critical_count + in.stats.unresolved_high_count \in Nat
        /\ in.total_issues_found \in Nat
    BY DEF SoundInput
  <2>2. IsScore(Share(in.stats.unresolved_critical_count + in.stats.unresolved_high_count,
                      in.total_issues_found))
    BY <2>1, Shares
  <2>3. \/ UnresolvedRiskCategory(in).score = [n |-> 1, d |-> 1]
        \/ UnresolvedRiskCategory(in).score
             = Share(in.stats.unresolved_critical_count + in.stats.unresolved_high_count,
                     in.total_issues_found)
    BY DEF UnresolvedRiskCategory
  <2> QED
    BY <1>2, <2>2, <2>3
<1>8. IsScore(ValidationCoverageCategory(in).score)
  <2>1. ValidationCoverageCategory(in).score = Share(Outcomes(in, "skipped"), Considered(in))
    BY DEF ValidationCoverageCategory
  <2> QED
    BY <1>1, <2>1, Shares
<1> QED
  BY <1>3, <1>4, <1>5, <1>6, <1>7, <1>8 DEF evaluate

\* One more score, weighted, keeps the sum in range.
LEMMA WeightedSum ==
    ASSUME NEW n \in Nat, NEW d \in Nat, NEW total \in Nat, n <= d * total,
           NEW a \in Nat, NEW b \in Nat, a <= b, NEW w \in Nat
    PROVE  /\ n * b + w * a * d \in Nat /\ d * b \in Nat /\ total + w \in Nat
           /\ n * b + w * a * d <= (d * b) * (total + w)
<1>1. \A x, y, z \in Nat : x * y \in Nat /\ (x <= y => x * z <= y * z)
  OBVIOUS
<1>2. PICK p \in Nat, q \in Nat : p = d * total /\ q = d * b
  BY <1>1
<1>3. n * b <= p * b
  BY <1>1, <1>2
<1>4. PICK u \in Nat, v \in Nat : u = w * a /\ v = w * b
  BY <1>1
<1>5. u <= v
  BY <1>1, <1>4
<1>6. u * d <= v * d
  BY <1>1, <1>5
<1>7. p * b + v * d = q * (total + w)
  BY <1>2, <1>4
<1>8. n * b \in Nat /\ u * d \in Nat /\ p * b \in Nat /\ v * d \in Nat /\ q * (total + w) \in Nat
  BY <1>1
<1>9. n * b + u * d <= q * (total + w)
  BY <1>3, <1>6, <1>7, <1>8
<1> QED
  BY <1>2, <1>4, <1>8, <1>9

\* A category is added with a weight that is a number.
LEMMA AccumulatedSum ==
    ASSUME NEW in, SoundInput(in), NEW category \in DOMAIN default_weight, NEW sum, IsSum(sum)
    PROVE  IsSum(Accumulate(sum, category, in))
<1>1. PICK score, weight : /\ score = evaluate(category, in).score
                           /\ weight = effective_weight(category, in)
  OBVIOUS
<1>2. IsScore(score)
  BY <1>1, CategoryScores
<1>3. weight \in Nat
  BY <1>1 DEF effective_weight, default_weight, SoundInput
<1>4. CASE category \in Applicable(in)
  <2>1. Accumulate(sum, category, in) =
          [n |-> sum.n * score.d + weight * score.n * sum.d, d |-> sum.d * score.d,
           weight_sum |-> sum.weight_sum + weight]
    BY <1>1, <1>4 DEF Accumulate
  <2>2. /\ sum.n * score.d + weight * score.n * sum.d \in Nat /\ sum.d * score.d \in Nat
        /\ sum.weight_sum + weight \in Nat
        /\ sum.n * score.d + weight * score.n * sum.d
             <= (sum.d * score.d) * (sum.weight_sum + weight)
    BY <1>2, <1>3, WeightedSum DEF IsSum, IsScore
  <2> QED
    BY <2>1, <2>2 DEF IsSum
<1>5. CASE category \notin Applicable(in)
  BY <1>5 DEF Accumulate
<1> QED
  BY <1>4, <1>5

\* The overall score is between 0 and 100 per cent.
LEMMA OverallScoreInRange ==
    ASSUME NEW in, SoundInput(in)
    PROVE  OverallScore(in).n \in 0..OverallScore(in).d
<1>1. IsSum([n |-> 0, d |-> 1, weight_sum |-> 0])
  BY DEF IsSum
<1>2. {"completeness", "uniqueness", "validity", "consistency", "unresolved_risk",
       "validation_coverage"} \subseteq DOMAIN default_weight
  BY DEF default_weight
<1>3. \E sum : IsSum(sum) /\ OverallScore(in) = [n |-> sum.n, d |-> sum.d * sum.weight_sum]
  <2>1. PICK s1 : s1 = Accumulate([n |-> 0, d |-> 1, weight_sum |-> 0], "completeness", in)
    OBVIOUS
  <2>2. PICK s2 : s2 = Accumulate(s1, "uniqueness", in)
    OBVIOUS
  <2>3. PICK s3 : s3 = Accumulate(s2, "validity", in)
    OBVIOUS
  <2>4. PICK s4 : s4 = Accumulate(s3, "consistency", in)
    OBVIOUS
  <2>5. PICK s5 : s5 = Accumulate(s4, "unresolved_risk", in)
    OBVIOUS
  <2>6. PICK s6 : s6 = Accumulate(s5, "validation_coverage", in)
    OBVIOUS
  <2>7. IsSum(s1)
    BY <1>1, <1>2, <2>1, AccumulatedSum
  <2>8. IsSum(s2)
    BY <1>2, <2>2, <2>7, AccumulatedSum
  <2>9. IsSum(s3)
    BY <1>2, <2>3, <2>8, AccumulatedSum
  <2>10. IsSum(s4)
    BY <1>2, <2>4, <2>9, AccumulatedSum
  <2>11. IsSum(s5)
    BY <1>2, <2>5, <2>10, AccumulatedSum
  <2>12. IsSum(s6)
    BY <1>2, <2>6, <2>11, AccumulatedSum
  <2>13. OverallScore(in) = [n |-> s6.n, d |-> s6.d * s6.weight_sum]
    BY <2>1, <2>2, <2>3, <2>4, <2>5, <2>6 DEF OverallScore
  <2> QED
    BY <2>12, <2>13
<1>4. PICK sum : IsSum(sum) /\ OverallScore(in) = [n |-> sum.n, d |-> sum.d * sum.weight_sum]
  BY <1>3
<1>5. PICK whole : whole = sum.d * sum.weight_sum
  OBVIOUS
<1>6. whole \in Nat /\ sum.n \in Nat /\ sum.n <= whole
  BY <1>4, <1>5 DEF IsSum
<1> QED
  BY <1>4, <1>5, <1>6

=============================================================================
