--------------------------------- MODULE Cells ---------------------------------
(***************************************************************************)
(* CSV cells and the pure functions on them that several engines share:    *)
(* load_csv, the profiler, app.cleaning.rules.trim_whitespace and the      *)
(* standardization rules that remediation and validation reuse.            *)
(*                                                                         *)
(* A cell is abstracted to what the rules tell apart: its stripped,        *)
(* case-folded text (word), how that text is cased, whether white space    *)
(* surrounds it, and how many runs of white space stand between successive *)
(* one-letter words (gaps).  A word is a representative of a class of      *)
(* texts; the tables say how the parsers treat it.                         *)
(***************************************************************************)
EXTENDS Integers, Sequences, FiniteSets

CONSTANT Width      \* number of columns of the header row

ASSUME WidthAssumption == Width \in Nat \ {0}

Columns == 1..Width

-----------------------------------------------------------------------------
(* White space and case.                                                   *)

Empty == [word |-> "", casing |-> "none", lead |-> FALSE, trail |-> FALSE, gaps |-> 0]

\* The absence of a value (a NULL column); no cell of a file.
None == [Empty EXCEPT !.word = "NULL"]

\* The cells of a file: words are folded texts, so the capitals that name None
\* here and Removal in IssueRules are no cell's word.
Fields ==
    [word : STRING \ {"NULL", "REMOVE"}, casing : {"none", "lower", "title", "upper", "mixed"},
     lead : BOOLEAN, trail : BOOLEAN, gaps : Nat]

Plain(word, casing) == [Empty EXCEPT !.word = word, !.casing = casing]

lstrip(c) == IF c.word = "" THEN Empty ELSE [c EXCEPT !.lead = FALSE]
rstrip(c) == IF c.word = "" THEN Empty ELSE [c EXCEPT !.trail = FALSE]
strip(c) == lstrip(rstrip(c))

\* re.sub(r"\s+", " ", value.strip())
trim_whitespace(c) == [strip(c) EXCEPT !.gaps = 0]

\* lower_case, upper_case and title_case.
Recase(c, target) == IF c.casing = "none" THEN c ELSE [c EXCEPT !.casing = target]

-----------------------------------------------------------------------------
(* load_csv and profile_csv.  A raw file is a sequence of records, each a   *)
(* sequence of fields; the header row is CSV row 1, so row i is number i+1. *)

load_csv(raw) ==
    [i \in DOMAIN raw |->
       [c \in Columns |-> IF c <= Len(raw[i]) THEN raw[i][c] ELSE Empty]]

\* The cells load_csv made up to pad a record with too few fields.
PaddedCells(raw) == {x \in (DOMAIN raw) \X Columns : x[2] > Len(raw[x[1]])}

StrippedRow(row) == [c \in Columns |-> strip(row[c])]

profile_csv(raw) ==
    LET rows == load_csv(raw) IN
    [row_count |-> Len(raw),
     duplicate_row_count |-> Len(raw) - Cardinality({StrippedRow(rows[i]) : i \in DOMAIN raw}),
     missing_value_total |->
        Cardinality({x \in (DOMAIN raw) \X Columns : strip(rows[x[1]][x[2]]) = Empty}),
     source_sha256 |-> raw]

\* An E.164 number is a signed integer to the profiler.
value_type(c) ==
    CASE c.word = "" -> "null"
      [] c.word \in {"true", "false", "yes", "no"} -> "boolean"
      [] c.word \in {"0", "1", "7", "1234", "555", "+1555", "+44555", "12345", "123456789"} ->
            "integer"
      [] c.word \in {"1234.5", "7.0"} -> "decimal"
      [] c.word = "2024-01-31t00:00:00" -> "datetime"
      [] c.word = "2024-01-31" -> "date"
      [] OTHER -> "string"

\* The reported type of column c: a type that covers 80% of the values and is
\* not tied with another.
dominant_type(rows, c) ==
    LET filled == {i \in DOMAIN rows : strip(rows[i][c]) # Empty}
        types == {value_type(rows[i][c]) : i \in filled}
        Count(t) == Cardinality({i \in filled : value_type(rows[i][c]) = t})
        top == {t \in types : \A u \in types : Count(u) <= Count(t)}
    IN  IF filled = {} THEN "null"
        ELSE IF Cardinality(top) > 1
                  \/ \E t \in top : 10 * Count(t) < 8 * Cardinality(filled) THEN "mixed"
             ELSE CHOOSE t \in top : TRUE

-----------------------------------------------------------------------------
(* app.standardization.rules, as far as they are shared.  Each returns the  *)
(* canonical form of a cell, or None where the code returns no rule.        *)

\* A canonical form counts only if it differs from what is there.
Rewrite(c, canonical) == IF canonical = c THEN None ELSE canonical

standardize_boolean(c) ==
    CASE c.word \in {"true", "yes", "1"} -> Rewrite(c, Plain("true", "lower"))
      [] c.word \in {"false", "no", "0"} -> Rewrite(c, Plain("false", "lower"))
      [] OTHER -> None

\* locale is None in every caller: a comma that is neither a thousands
\* separator nor accompanied by a dot is ambiguous and left alone.
standardize_numeric(c) ==
    CASE c = Empty \/ c.word = "1,5" -> None
      [] c.word = "1,234.5" -> Rewrite(c, [strip(c) EXCEPT !.word = "1234.5"])
      [] c.word = "1,234" -> Rewrite(c, [strip(c) EXCEPT !.word = "1234"])
      [] c.word = "a,b.c" -> Rewrite(c, [strip(c) EXCEPT !.word = "ab.c"])
      [] OTHER -> Rewrite(c, strip(c))

\* phonenumbers.parse / is_valid_number / format_number(E164).
standardize_phone(c, country) ==
    CASE country = "none" -> None
      [] c.word \in {"+1555", "+44555"} -> Rewrite(c, Plain(c.word, "none"))
      [] c.word = "555" /\ country = "US" -> Plain("+1555", "none")
      [] c.word = "555" /\ country = "GB" -> Plain("+44555", "none")
      [] OTHER -> None

=============================================================================
