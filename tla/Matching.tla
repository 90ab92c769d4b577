------------------------------- MODULE Matching -------------------------------
(***************************************************************************)
(* app.matching and app.export: which rows of a standardized file are      *)
(* duplicates of each other, and the file without them.                    *)
(*                                                                         *)
(* Scores are numbers of matched weight: all scores of one run have the    *)
(* same total weight, and a threshold is the least matched weight that     *)
(* reaches it.                                                             *)
(***************************************************************************)
EXTENDS Cells, SequencesExt

CONSTANTS
    MaxBlockSize,            \* match_max_block_size
    MaxDecisions,            \* match_max_persisted_decisions
    MaxExclusions,           \* export_max_persisted_exclusions
    KEYS                     \* the words of the files, in the order of Python's strings;
                             \* a word it does not have would come last

ASSUME MatchingAssumption ==
    /\ MaxBlockSize \in Nat \ {0}
    /\ MaxDecisions \in Nat
    /\ MaxExclusions \in Nat
    /\ KEYS \in Seq(STRING)

Smallest(S) == CHOOSE i \in S : \A j \in S : i <= j

\* The members of a finite set, those of lower rank first.
InOrder(S, rank) ==
    CHOOSE s \in [1..Cardinality(S) -> S] :
        \A j \in DOMAIN s : \A i \in 1..(j - 1) : s[i] # s[j] /\ rank[s[i]] <= rank[s[j]]

\* A set of integers as an increasing sequence.
Ascending(S) == InOrder(S, [i \in S |-> i])

-----------------------------------------------------------------------------
(* Rule sets: the fields, in the order in which the handler loads them, and *)
(* two thresholds.  NoRuleSet: none is active, or it has no field.          *)

RuleFields ==
    [column_name : Nat, comparison_type : {"exact", "normalized_exact"}, weight : Nat \ {0}]
RuleSets == [fields : Seq(RuleFields), duplicate_threshold : Nat, review_threshold : Nat]

NoRuleSet == [fields |-> <<>>, duplicate_threshold |-> 0, review_threshold |-> 0]

\* A field whose column the file does not have reads "" in every row.
CellAt(row, column) == IF column \in Columns THEN row[column] ELSE Empty

\* Trimmed, white space collapsed, case-folded.
normalize_blocking_value(c) == c.word

compare_field(a, b, type) ==
    IF type = "normalized_exact"
    THEN normalize_blocking_value(a) = normalize_blocking_value(b) ELSE a = b

\* The sum of the weights of the fields that match.
MatchedWeight(fields, matched) ==
    LET sum[k \in 0..Len(fields)] ==
            IF k = 0 THEN 0
            ELSE IF matched[k] THEN sum[k - 1] + fields[k].weight ELSE sum[k - 1]
    IN  sum[Len(fields)]

\* The matched weight of two rows.
compare_pair(a, b, fields) ==
    MatchedWeight(fields,
        [k \in DOMAIN fields |->
           compare_field(CellAt(a, fields[k].column_name), CellAt(b, fields[k].column_name),
                         fields[k].comparison_type)])

TotalWeight(fields) == MatchedWeight(fields, [k \in DOMAIN fields |-> TRUE])

\* The score 1.0: that of identical rows and the greatest there is.
FullScore(rs) == IF rs.fields = <<>> THEN 1 ELSE TotalWeight(rs.fields)

\* The heaviest field, the first of several as they are loaded.
select_blocking_field(fields) ==
    fields[Smallest({k \in DOMAIN fields : \A j \in DOMAIN fields : fields[j].weight <= fields[k].weight})]

BlockKey(rows, i, fields) ==
    normalize_blocking_value(CellAt(rows[i], select_blocking_field(fields).column_name))

\* The blocks of the candidate rows; a row with a blank key is in none.
build_blocks(candidates, rows, fields) ==
    {{i \in candidates : BlockKey(rows, i, fields) = k} :
        k \in {BlockKey(rows, i, fields) : i \in candidates} \ {""}}

-----------------------------------------------------------------------------
(* UnionFind: a forest of parents, each root with a rank.                   *)

Forest(n) == [parent |-> [i \in 1..n |-> i], rank |-> [i \in 1..n |-> 0]]

\* The nodes from x up to its root: those in every set that holds x and, with
\* a node, its parent.
PathUp(parent, x) ==
    LET Upward == {S \in SUBSET DOMAIN parent : \A i \in S : parent[i] \in S} IN
    {y \in DOMAIN parent : \A S \in Upward : x \in S => y \in S}

find(uf, x) == CHOOSE r \in PathUp(uf.parent, x) : uf.parent[r] = r

\* find also points every node on its way at the root.
compress(uf, x) ==
    LET path == PathUp(uf.parent, x)
        root == find(uf, x)
    IN  [uf EXCEPT !.parent = [i \in DOMAIN @ |-> IF i \in path THEN root ELSE @[i]]]

\* Mutant: the first element is attached, not its root.
union_element(uf, a, b) ==
    LET flat == compress(compress(uf, a), b)
        ra == find(flat, a)
        rb == find(flat, b)
    IN  IF ra = rb THEN flat ELSE [flat EXCEPT !.parent[a] = rb]

union(uf, a, b) ==
    LET flat == compress(compress(uf, a), b)
        ra == find(flat, a)
        rb == find(flat, b)
        high == IF flat.rank[ra] < flat.rank[rb] THEN rb ELSE ra
        low == IF high = ra THEN rb ELSE ra
    IN  IF ra = rb THEN flat
        ELSE [flat EXCEPT !.parent[low] = high,
                          !.rank[high] = IF flat.rank[low] = @ THEN @ + 1 ELSE @]

components(uf) == {{i \in DOMAIN uf.parent : find(uf, i) = r} : r \in {find(uf, i) : i \in DOMAIN uf.parent}}

-----------------------------------------------------------------------------
(* match().                                                                 *)

Decision(a, b, rule, score, label) ==
    [a |-> a, b |-> b, rule_name |-> rule, total_score |-> score, decision |-> label]

\* Stage 1: the classes of identical rows, linked in chains.
ExactClasses(rows) ==
    {{j \in DOMAIN rows : rows[j] = rows[i]} : i \in DOMAIN rows}

ChainLinks(class, weight) ==
    LET s == Ascending(class) IN
    [k \in 1..(Len(s) - 1) |-> Decision(s[k], s[k + 1], "exact_row_match", weight, "duplicate")]

ExactDecisions(rows, weight) ==
    FlattenSeq([k \in DOMAIN rows |->
        LET class == {j \in DOMAIN rows : rows[j] = rows[k]} IN
        IF k = Smallest(class) THEN ChainLinks(class, weight) ELSE <<>>])

\* Stage 2 compares one representative of each class.
Candidates2(rows) == {Smallest(class) : class \in ExactClasses(rows)}

\* The pairs of a block, first row by first row.
PairsOf(block) ==
    LET s == Ascending(block) IN
    FlattenSeq([i \in DOMAIN s |-> [j \in 1..(Len(s) - i) |-> <<s[i], s[i + j]>>]])

Label(score, rs) ==
    IF score >= rs.duplicate_threshold THEN "duplicate"
    ELSE IF score >= rs.review_threshold THEN "ambiguous" ELSE "none"

\* The decision on a pair: below the review threshold there is none.
PairDecision(p, rows, rs) ==
    LET rule == IF Len(rs.fields) = 1 THEN "normalized_exact_match" ELSE "composite_weighted_match"
        score == compare_pair(rows[p[1]], rows[p[2]], rs.fields)
        label == Label(score, rs)
    IN  IF label = "none" THEN <<>> ELSE <<Decision(p[1], p[2], rule, score, label)>>

BlockDecisions(block, rows, rs) ==
    LET pairs == PairsOf(block) IN
    FlattenSeq([k \in DOMAIN pairs |-> PairDecision(pairs[k], rows, rs)])

\* The file's blocks, those small enough to be compared, and the order in
\* which they are: by key.
Blocks(rows, rs) == IF rs.fields = <<>> THEN {} ELSE build_blocks(Candidates2(rows), rows, rs.fields)
Compared(rows, rs) == {b \in Blocks(rows, rs) : Cardinality(b) <= MaxBlockSize}

KeyRank(k) == Smallest({n \in DOMAIN KEYS : KEYS[n] = k} \union {Len(KEYS) + 1})
ByKey(rows, rs) ==
    LET blocks == Compared(rows, rs) IN
    InOrder(blocks, [b \in blocks |-> KeyRank(BlockKey(rows, Smallest(b), rs.fields))])

AllDecisions(rows, rs) ==
    LET blocks == ByKey(rows, rs)
    IN  ExactDecisions(rows, FullScore(rs))
          \o FlattenSeq([k \in DOMAIN blocks |-> BlockDecisions(blocks[k], rows, rs)])

\* The comparisons counted: the links of stage 1 and the pairs of stage 2.
Comparisons(rows, rs) ==
    LET blocks == ByKey(rows, rs)
    IN  Len(ExactDecisions(rows, FullScore(rs)))
          + Len(FlattenSeq([k \in DOMAIN blocks |-> PairsOf(blocks[k])]))

\* The forest after the first k decisions: a duplicate joins its two rows.
Forests(n, all) ==
    LET after[k \in 0..Len(all)] ==
            IF k = 0 THEN Forest(n)
            ELSE IF all[k].decision = "duplicate" THEN union(after[k - 1], all[k].a, all[k].b)
                 ELSE after[k - 1]
    IN  after

Groups(n, all) == {g \in components(Forests(n, all)[Len(all)]) : Cardinality(g) >= 2}

\* The canonical row of the group a decision fed, or 0.
Fed(d, groups) ==
    IF d.decision = "duplicate" THEN Smallest(CHOOSE g \in groups : d.a \in g) ELSE 0

\* min(scores, default=1.0)
Lowest(scores, rs) == Smallest(IF scores = {} THEN {FullScore(rs)} ELSE scores)

\* A group is as certain as the weakest link between its rows.
Confidence(g, all, rs) ==
    LET links == {k \in DOMAIN all : all[k].decision = "duplicate" /\ all[k].a \in g}
    IN  Lowest({all[k].total_score : k \in links}, rs)

\* A decision is kept with the group it fed.
match(rows, rs) ==
    LET all == AllDecisions(rows, rs)
        groups == Groups(Len(rows), all)
        links == {k \in DOMAIN all : all[k].decision = "duplicate"}
        skipped == Blocks(rows, rs) \ Compared(rows, rs)
        kept == IF Len(all) < MaxDecisions THEN Len(all) ELSE MaxDecisions
    IN  [row_count |-> Len(rows),
         total_comparisons_count |-> Comparisons(rows, rs),
         duplicate_group_count |-> Cardinality(groups),
         skipped_block_count |-> Cardinality(skipped),
         confidence_score |-> Lowest({Confidence(g, all, rs) : g \in groups}, rs),
         groups |-> {[canonical_row_index |-> Smallest(g), record_count |-> Cardinality(g),
                      confidence_score |-> Confidence(g, all, rs)] : g \in groups},
         decisions |-> [k \in 1..kept |->
                          [a |-> all[k].a, b |-> all[k].b, rule_name |-> all[k].rule_name,
                           total_score |-> all[k].total_score, decision |-> all[k].decision,
                           group |-> Fed(all[k], groups)]],
         duplicate_pairs_count |-> Cardinality(links),
         ambiguous_pairs_count |-> Len(all) - Cardinality(links),
         skipped_blocks |-> {[blocking_key |-> BlockKey(rows, Smallest(b), rs.fields),
                              block_size |-> Cardinality(b)] : b \in skipped}]

-----------------------------------------------------------------------------
(* app.export.                                                              *)

\* The members of a group as the persisted decisions tell.
MembersOf(run, g) ==
    {g.canonical_row_index} \union
      UNION {{run.decisions[k].a, run.decisions[k].b} :
               k \in {n \in DOMAIN run.decisions : run.decisions[n].group = g.canonical_row_index}}

\* Mutant: the groups are taken as they come.
CanLoadAnyGroups(run) == TRUE

\* _load_groups fails for a group whose decisions were cut off.
CanLoadGroups(run) ==
    \A g \in run.groups : Cardinality(MembersOf(run, g)) = g.record_count

load_groups(run) ==
    {[canonical_row_index |-> g.canonical_row_index, members |-> MembersOf(run, g)] : g \in run.groups}

ExcludedRows(groups) == UNION {g.members \ {g.canonical_row_index} : g \in groups}

\* Mutant: the excluded rows counted are the persisted ones.
materialize_counting_log(rows, groups) ==
    LET kept == Ascending((DOMAIN rows) \ ExcludedRows(groups))
        excluded == Cardinality(ExcludedRows(groups))
    IN  [rows |-> [k \in DOMAIN kept |-> [cells |-> rows[kept[k]], source_row_index |-> kept[k]]],
         excluded_row_count |-> IF excluded < MaxExclusions THEN excluded ELSE MaxExclusions,
         exclusions |-> IF excluded < MaxExclusions THEN excluded ELSE MaxExclusions]

\* The rows that stay, each with its index in the input, in their order.
materialize(rows, groups) ==
    LET kept == Ascending((DOMAIN rows) \ ExcludedRows(groups))
        excluded == Len(rows) - Len(kept)
    IN  [rows |-> [k \in DOMAIN kept |-> [cells |-> rows[kept[k]], source_row_index |-> kept[k]]],
         excluded_row_count |-> excluded,
         exclusions |-> IF excluded < MaxExclusions THEN excluded ELSE MaxExclusions]

-----------------------------------------------------------------------------
(* Reference: two rows are linked if they are identical or were compared,   *)
(* in a block that is not too large, with a score that makes them           *)
(* duplicates; duplicates are what links connect, directly or through       *)
(* other rows.                                                              *)

Linked(rows, rs) ==
    LET blocks == Compared(rows, rs) IN
    {l \in (DOMAIN rows) \X (DOMAIN rows) :
       \/ rows[l[1]] = rows[l[2]]
       \/ /\ \E b \in blocks : \E x \in b, y \in b : rows[x] = rows[l[1]] /\ rows[y] = rows[l[2]]
          /\ compare_pair(rows[l[1]], rows[l[2]], rs.fields) >= rs.duplicate_threshold}

\* The classes of duplicates: the smallest sets of rows that no link leaves.
\* Every row is linked with itself, so without links there are no rows.
DuplicateClasses(rows, rs) ==
    LET links == Linked(rows, rs)
        Left(U) == \E l \in links : l[1] \in U /\ l[2] \notin U
        Closed == {U \in (SUBSET DOMAIN rows) \ {{}} : ~Left(U)}
    IN  IF links = {} THEN {}
        ELSE {U \in Closed : \A V \in (SUBSET U) \ {{}, U} : Left(V)}

Deduplicated(rows, rs) ==
    LET kept == Ascending({Smallest(c) : c \in DuplicateClasses(rows, rs)}) IN
    [k \in DOMAIN kept |-> [cells |-> rows[kept[k]], source_row_index |-> kept[k]]]

=============================================================================
