------------------------------ MODULE Preparation ------------------------------
(***************************************************************************)
(* app.cleaning and app.standardization: the two pure engines that rewrite *)
(* a file cell by cell and log every rewriting.                            *)
(*                                                                         *)
(* A cell passes through a fixed list of rules.  Each engine is given by   *)
(* the values the cell has after each rule; a change is logged for every   *)
(* rule that altered the value.                                            *)
(***************************************************************************)
EXTENDS Cells, SequencesExt

CONSTANTS
    HeaderType,              \* the field type the header of each column suggests
    MaxCleaningChanges,      \* cleaning_max_persisted_changes
    MaxStandardChanges       \* standardization_max_persisted_changes

FieldTypes ==
    {"person_name", "company_name", "email", "phone", "postal_address", "city",
     "state_province", "country", "postal_code", "date", "time", "boolean",
     "numeric", "currency"}

ASSUME PreparationAssumption ==
    /\ HeaderType \in [Columns -> FieldTypes \union {"none"}]
    /\ MaxCleaningChanges \in Nat
    /\ MaxStandardChanges \in Nat

\* What a rule makes of a cell it has no canonical form for: the cell itself.
Applied(c, canonical) == IF canonical = None THEN c ELSE canonical

-----------------------------------------------------------------------------
(* The log of an engine.  values is the list of values of one cell, from    *)
(* the value read to the value written.                                     *)

Change(i, c, before, after) ==
    [row |-> i, col |-> c, original_value |-> before, new_value |-> after]

record(i, c, values) ==
    FlattenSeq([k \in 1..(Len(values) - 1) |->
        IF values[k] = values[k + 1] THEN <<>> ELSE <<Change(i, c, values[k], values[k + 1])>>])

\* The log of all cells, visited row by row, in the given order of columns.
Log(n, order, values) ==
    FlattenSeq([i \in 1..n |->
        FlattenSeq([k \in Columns |-> record(i, order[k], values[i][order[k]])])])

\* What an engine returns: the rows rewritten, the number of changes, and the
\* log up to its ceiling.
Rewritten(rows, order, values, ceiling) ==
    LET log == Log(Len(rows), order, values)
    IN  [rows |-> [i \in DOMAIN rows |-> [c \in Columns |-> Last(values[i][c])]],
         total_changes_count |-> Len(log),
         changes |-> SubSeq(log, 1, IF Len(log) < ceiling THEN Len(log) ELSE ceiling)]

-----------------------------------------------------------------------------
(* app.cleaning: trim, blank, coerce to the column's profiled type.         *)

normalize_blank(c) ==
    IF c.word \in {"null", "n/a", "na", "-", "none"} THEN Empty ELSE c

coerce_integer(c) == IF c.word = "7.0" THEN Plain("7", "none") ELSE c

\* Decimal.normalize drops a trailing zero and the plus sign.
coerce_decimal(c) ==
    CASE c.word = "7.0" -> Plain("7", "none")
      [] c.word = "+1555" -> Plain("1555", "none")
      [] c.word = "+44555" -> Plain("44555", "none")
      [] OTHER -> c

\* datetime.fromisoformat comes first and accepts a date: it gains a time.
coerce_date(c) ==
    IF c.word \in {"2024-01-31", "2024-01-31t00:00:00"}
    THEN Plain("2024-01-31t00:00:00", "upper") ELSE c

coerce_type(c, type) ==
    CASE type = "integer" -> coerce_integer(c)
      [] type = "decimal" -> coerce_decimal(c)
      [] type = "boolean" -> Applied(c, standardize_boolean(c))
      [] type \in {"date", "datetime"} -> coerce_date(c)
      [] OTHER -> c

CleanedValues(raw, type) ==
    LET trimmed == trim_whitespace(raw)
        filled == normalize_blank(trimmed)
    IN  <<raw, trimmed, filled, coerce_type(filled, type)>>

\* Mutant: every rule is logged against the value read from the file.
clean_from_raw(rows, types) ==
    LET values == [i \in DOMAIN rows |-> [c \in Columns |-> CleanedValues(rows[i][c], types[c])]]
        good == Rewritten(rows, [c \in Columns |-> c], values, MaxCleaningChanges)
        FromRaw(x) == [x EXCEPT !.original_value = rows[x.row][x.col]]
    IN  [good EXCEPT !.changes = [k \in DOMAIN @ |-> FromRaw(@[k])]]

clean(rows, types) ==
    LET values == [i \in DOMAIN rows |-> [c \in Columns |-> CleanedValues(rows[i][c], types[c])]] IN
    Rewritten(rows, [c \in Columns |-> c], values, MaxCleaningChanges)

-----------------------------------------------------------------------------
(* app.standardization.  overrides gives columns the field type of a        *)
(* StandardizationColumnMapping; lookups gives words the value of a         *)
(* StandardizationLookupEntry, scoped to one field type or global.          *)

for_field_type(lookups, t) ==
    IF t \in DOMAIN lookups.scoped THEN lookups.scoped[t] ELSE [w \in {} |-> Empty]

classify_columns(overrides) ==
    [c \in Columns |-> IF overrides[c] # "none" THEN overrides[c] ELSE HeaderType[c]]

\* The value a table has for the cell, if any.
LookedUp(c, table) == IF c.word \in DOMAIN table THEN table[c.word] ELSE c

standardize_company_name(c, lookup) ==
    IF c.word \in DOMAIN lookup THEN lookup[c.word] ELSE Recase(c, "title")

standardize_email(c) == IF c.word = "a@b.co" THEN Recase(c, "lower") ELSE c

\* Country names are replaced by ISO codes; an organization's entry wins.
CountryNames(lookup) ==
    [w \in {"us", "usa", "gb", "ca", "canada"} \union DOMAIN lookup |->
       CASE w \in DOMAIN lookup -> lookup[w]
         [] w \notin DOMAIN lookup /\ w \in {"us", "usa"} -> Plain("us", "upper")
         [] w \notin DOMAIN lookup /\ w = "gb" -> Plain("gb", "upper")
         [] OTHER -> Plain("ca", "upper")]

\* The code the other rules compare with, for a value of the country column.
CodeOf(c) ==
    CASE c = Plain("us", "upper") -> "US"
      [] c = Plain("gb", "upper") -> "GB"
      [] c = Plain("ca", "upper") -> "CA"
      [] OTHER -> "other"

\* Looked up again, although the value may be canonical already; any two
\* letters pass for a code.
resolve_country_code(c, lookup) ==
    CASE c.word \in DOMAIN CountryNames(lookup) -> CodeOf(CountryNames(lookup)[c.word])
      [] c.word \notin DOMAIN CountryNames(lookup) /\ c.word \in {"ga", "no", "on", "zz"} ->
            CodeOf(Plain(c.word, "upper"))
      [] OTHER -> "none"

standardize_state_province(c, country) ==
    CASE country = "US" /\ c.word = "georgia" -> Plain("ga", "upper")
      [] country = "CA" /\ c.word = "ontario" -> Plain("on", "upper")
      [] OTHER -> c

standardize_postal_code(c, country) ==
    CASE country = "US" /\ c.word \in {"123456789", "12345 6789"} -> Plain("12345-6789", "none")
      [] country = "CA" /\ c.word \in {"k1a0b1", "k1a 0b1"} -> Plain("k1a 0b1", "upper")
      [] OTHER -> c

\* Token by token: the last word of "main st" is an abbreviation.
expand_address_abbreviations(c, lookup) ==
    LET token == IF "st" \in DOMAIN lookup THEN lookup["st"] ELSE Plain("street", "title") IN
    IF c.word # "main st" THEN c
    ELSE [c EXCEPT !.word = IF token.word = "street" THEN "main street" ELSE "main strasse",
                   !.casing = IF @ = token.casing THEN @ ELSE "mixed"]

\* No output format is ever configured, so as coerce_date.
standardize_date(c) == coerce_date(c)

\* time.fromisoformat takes hours, minutes and seconds without colons too.
standardize_time(c) ==
    CASE c.word = "10:00" -> Plain("10:00:00", "none")
      [] c.word = "1234" -> Plain("12:34:00", "none")
      [] c.word = "1555" -> Plain("15:55:00", "none")
      [] c.word \in {"123456789", "12345 6789"} -> Plain("12:34:56.789000", "none")
      [] OTHER -> c

\* A dollar sign is ambiguous and no default currency is ever configured; of
\* two known symbols only the first is consumed.
standardize_currency(c) ==
    CASE c.word = "(euro)1,234" -> Plain("1234 eur", "upper")
      [] c.word = "(pound)1(euro)" -> Plain("(pound)1 eur", "upper")
      [] c.word = "(pound)1 eur" -> Plain("1 eur gbp", "upper")
      [] OTHER -> c

\* The rule of each field type other than country.
StandardizedAs(c, type, country, lookups) ==
    CASE type \in {"person_name", "city"} -> Recase(c, "title")
      [] type = "company_name" -> standardize_company_name(c, for_field_type(lookups, type))
      [] type = "email" -> standardize_email(c)
      [] type = "phone" -> Applied(c, standardize_phone(c, country))
      [] type = "state_province" -> standardize_state_province(c, country)
      [] type = "postal_code" -> standardize_postal_code(c, country)
      [] type = "date" -> standardize_date(c)
      [] type = "time" -> standardize_time(c)
      [] type = "boolean" -> Applied(c, standardize_boolean(c))
      [] type = "numeric" -> Applied(c, standardize_numeric(c))
      [] type = "currency" -> standardize_currency(c)
      [] OTHER -> c

\* The field types the generic abbreviation pass applies to.
GenericTypes == {"person_name", "company_name", "city", "state_province", "country"}

\* A country other than the first is given no rule of its own, only the
\* generic pass.
StandardizedValues(raw, type, isCountry, country, lookups) ==
    LET trimmed == trim_whitespace(raw)
        address == expand_address_abbreviations(trimmed, for_field_type(lookups, type))
        typed == StandardizedAs(trimmed, type, country, lookups)
    IN  CASE type = "none" -> <<raw>>
          [] isCountry ->
                <<raw, trimmed,
                  LookedUp(trimmed, CountryNames(for_field_type(lookups, "country")))>>
          [] type = "postal_address" -> <<raw, trimmed, address, Recase(address, "title")>>
          [] type \in GenericTypes /\ ~isCountry ->
                <<raw, trimmed, typed, LookedUp(typed, lookups.global)>>
          [] OTHER -> <<raw, trimmed, typed>>

\* The first country column is standardized before the others in every row: it
\* decides how phones, states and postal codes are read.
standardize(rows, types, lookups) ==
    LET countries == {c \in Columns : types[c] = "country"}
        first == IF countries = {} THEN 0 ELSE CHOOSE c \in countries : \A d \in countries : c <= d
        order == [k \in Columns |-> IF k > first THEN k ELSE IF k = 1 THEN first ELSE k - 1]
        CountryAt(i) ==
            IF first = 0 THEN "none"
            ELSE resolve_country_code(
                   Last(StandardizedValues(rows[i][first], "country", TRUE, "none", lookups)),
                   for_field_type(lookups, "country"))
        values == [i \in DOMAIN rows |-> [c \in Columns |->
                      StandardizedValues(rows[i][c], types[c], c = first, CountryAt(i), lookups)]]
    IN  Rewritten(rows, order, values, MaxStandardChanges)

Applying(rows, x) ==
    IF rows # <<>> /\ rows[x.row][x.col] = x.original_value
    THEN [rows EXCEPT ![x.row][x.col] = x.new_value] ELSE <<>>

\* Reference: the file obtained by applying a log to the rows that were read,
\* or <<>> if an entry does not find the value it replaces.
Replay(rows, log) ==
    LET after[k \in 0..Len(log)] ==
            IF k = 0 THEN rows ELSE Applying(after[k - 1], log[k])
    IN  after[Len(log)]

=============================================================================
