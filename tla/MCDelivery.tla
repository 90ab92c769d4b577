------------------------------ MODULE MCDelivery ------------------------------
(***************************************************************************)
(* An instance of DeliveryPipeline: one chain of runs over files of three  *)
(* columns.  The chain is disturbed (overlapping executions, edits,        *)
(* purges) on one file and configuration; every other pair of a file and a *)
(* configuration is taken through the stages undisturbed.                  *)
(***************************************************************************)
EXTENDS DeliveryPipeline

CONSTANTS s1, c1, z1, m1, e1, a, b

ChainRuns == {s1, c1, z1, m1, e1}
ChainType == (s1 :> "SYNC") @@ (c1 :> "TRANSFORM") @@ (z1 :> "STANDARDIZE") @@ (m1 :> "MATCH")
             @@ (e1 :> "EXPORT")
ChainSource == (s1 :> NoRun) @@ (c1 :> s1) @@ (z1 :> c1) @@ (m1 :> z1) @@ (e1 :> m1)

\* Executions overlap where the next stage reads a file.
Executions == (s1 :> 1) @@ (c1 :> 2) @@ (z1 :> 2) @@ (m1 :> 1) @@ (e1 :> 1)
Interchangeable == Permutations(Workers)

Words == <<"(euro)1,234", "(pound)1 eur", "(pound)1(euro)", "+1555", "+44555",
           "0", "1", "1 eur gbp", "1,234", "1,234.5", "1,5", "10:00",
           "10:00:00", "1234", "1234 eur", "1234.5", "12345 6789",
           "12345-6789", "123456789", "12:34:00", "12:34:56.789000", "1555",
           "15:55:00", "2024-01-31", "2024-01-31t00:00:00", "44555", "555",
           "7", "7.0", "a,b.c", "a@b.co", "ab.c", "acme", "acme corp", "ann",
           "bob", "ca", "canada", "false", "ga", "gb", "georgia", "k1a 0b1",
           "k1a0b1", "main st", "main strasse", "main street", "n/a", "no",
           "on", "ontario", "true", "us", "usa", "yes", "zz">>

-----------------------------------------------------------------------------
(* Source files.                                                            *)

W(word, casing) == Plain(word, casing)
N(word) == Plain(word, "none")
Padded(word, casing) == [Plain(word, casing) EXCEPT !.lead = TRUE, !.trail = TRUE]
File(raw) == [there |-> TRUE, rows |-> raw, width |-> 3, reserved |-> FALSE]

\* Rows that become identical, rows that differ in one column, a short record.
Companies == File(<< <<Padded("acme", "lower"), W("usa", "upper")>>,
                     <<W("acme corp", "lower"), W("us", "lower")>>,
                     <<W("acme", "upper"), W("us", "upper")>>,
                     <<W("acme", "title")>> >>)
People == File(<< <<W("bob", "lower"), N("555")>>,
                  <<W("ann", "lower"), Padded("n/a", "upper")>>,
                  <<Padded("bob", "upper"), N("+1555")>> >>)
\* Four different rows of one block.
Crowd == File(<< <<W("acme", "lower"), N("0")>>, <<W("acme", "lower"), N("1")>>,
                 <<W("acme", "lower"), N("7")>>, <<W("acme", "lower"), N("1234")>> >>)
\* The first row is like the second and like the third, which are not alike.
Chain == File(<< <<W("acme", "lower"), N("0"), N("7")>>, <<W("acme", "lower"), N("0"), N("1")>>,
                 <<W("acme", "lower"), N("1"), N("7")>> >>)
Copies == File([i \in 1..4 |-> <<W("acme", "lower")>>])
Phones == File(<< <<N("555"), W("gb", "lower")>>, <<N("+44555"), W("zz", "upper")>>,
                  <<N("555"), W("usa", "lower")>> >>)
Places == File(<< <<W("georgia", "title"), W("us", "upper")>>,
                  <<W("ontario", "title"), W("canada", "title")>>,
                  <<W("georgia", "title"), W("on", "upper")>> >>)
Codes == File(<< <<N("123456789"), W("us", "upper")>>, <<W("k1a0b1", "lower"), W("ca", "upper")>>,
                 <<N("12345 6789"), Empty>> >>)
Addresses == File(<< <<W("main st", "title"), Padded("bob", "lower")>>,
                     <<W("main st", "lower"), W("ann", "upper")>> >>)
Times == File(<< <<N("2024-01-31"), N("10:00")>>, <<W("2024-01-31t00:00:00", "upper"), N("10:00")>> >>)
Numbers == File(<< <<W("yes", "upper"), N("1,234.5")>>, <<N("0"), W("a,b.c", "lower")>>,
                   <<N("1"), N("1,5")>>, <<W("true", "lower"), N("1,234")>> >>)
Amounts == File(<< <<N("(euro)1,234"), W("a@b.co", "upper")>>, <<N("(pound)1(euro)"), N("7.0")>>,
                   <<N("7.0"), N("7.0")>> >>)
HeaderOnly == File(<<>>)
Reshaped == [Companies EXCEPT !.width = 2]
Reserved == [People EXCEPT !.reserved = TRUE]
SourceFiles == {Companies, People, Crowd, Chain, Copies, Phones, Places, Codes, Addresses, Times,
                Numbers, Amounts, HeaderOnly, Reshaped, Reserved, Missing}

-----------------------------------------------------------------------------
(* Configurations.                                                          *)

Headers == <<"company_name", "country", "none">>

Mapping(scope, c, t) == [scope |-> scope, column |-> c, type |-> t]
Mapped(t, u) == {Mapping("org_wide", 1, t), Mapping("data_source", 2, u), Mapping("org_wide", 2, "email")}
MappingEdits == {Mapping("org_wide", 1, "person_name"), Mapping("data_source", 2, "phone")}
Entry(t, k, v) == [field_type |-> t, key |-> k, value |-> v]
Entries == {Entry("company_name", "acme corp", W("acme", "title")), Entry("none", "ann", W("bob", "title"))}
GeoEntries == {Entry("country", "zz", W("gb", "upper")), Entry("postal_address", "st", W("strasse", "lower")),
               Entry("none", "ga", W("georgia", "title"))}

Field(c, t, n) == [column_name |-> c, comparison_type |-> t, weight |-> n]
RuleSet(fields, dup, review) ==
    [fields |-> fields, duplicate_threshold |-> dup, review_threshold |-> review]
Weighted == RuleSet(<<Field(1, "normalized_exact", 2), Field(2, "exact", 1)>>, 3, 2)
Lenient == RuleSet(<<Field(1, "normalized_exact", 1)>>, 1, 0)
Composite == RuleSet(<<Field(1, "exact", 2), Field(2, "exact", 1), Field(3, "exact", 1)>>, 3, 2)
\* A fourth column, which no file has, matches in every pair.
Absent == RuleSet(<<Field(2, "normalized_exact", 2), Field(4, "exact", 1)>>, 3, 1)
RuleSetEdits == {[scope |-> "data_source", rule_set |-> Lenient], [scope |-> "org_wide", rule_set |-> Absent]}

Active(rs) == [rule_set |-> rs, version |-> 1]
NoRules == [s \in Scopes |-> NoActive]
Config(ms, ls, rs) == [mappings |-> ms, lookups |-> ls, rules |-> [NoRules EXCEPT !["org_wide"] = rs]]

FlowConfig == Config({}, Entries, Active(Weighted))
Configs ==
    {FlowConfig, Config({}, {}, NoActive), Config({}, {}, Active(Composite)), Config({}, GeoEntries, Active(Lenient)),
     [Config({}, {}, Active(Weighted)) EXCEPT !.rules["data_source"] = Active(Absent)]}
    \union {Config(Mapped(t, u), GeoEntries, Active(Absent)) :
              <<t, u>> \in {<<"phone", "country">>, <<"state_province", "country">>,
                           <<"postal_code", "country">>, <<"postal_address", "city">>,
                           <<"date", "time">>, <<"boolean", "numeric">>, <<"currency", "email">>,
                           <<"country", "country">>, <<"person_name", "phone">>}}

\* Only the chain over Companies is disturbed, by a few files in its place.
Undisturbed ==
    /\ edits = 0 /\ overlapped = {}
    /\ \A run \in Runs : rows[run].status \in {"none", "pending_review", "approved"}
    /\ Cardinality({w \in Workers : exec[w] # Idle}) <= 1
OneIsDisturbed ==
    \/ edits # 0
    \/ /\ input = Companies /\ lookups = Entries /\ mappings = {}
       /\ input' \in {Companies, People, Reshaped, Missing}
    \/ Undisturbed'

=============================================================================
