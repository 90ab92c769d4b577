-------------------------- MODULE DeliveryEngineProofs --------------------------
(***************************************************************************)
(* What the pure engines of DeliveryPipeline compute, for every file and   *)
(* rule set: match() finds the classes of duplicates, materialize() keeps  *)
(* the first row of each, and the change logs of cleaning and              *)
(* standardization replay.  The engines loop; each loop is an induction,   *)
(* which rests on the least element of a set of naturals.                  *)
(***************************************************************************)
EXTENDS Preparation, Matching, FiniteSetTheorems, WellFoundedInduction, TLAPS

-----------------------------------------------------------------------------
(***************************************************************************)
(* Induction, sequences and smallest elements.                             *)
(***************************************************************************)

\* Every set of naturals has a least element.
LEMMA LeastNatural ==
    ASSUME NEW T \in SUBSET Nat, T # {}
    PROVE  \E n \in T : \A m \in T : n <= m
<1> DEFINE R == OpToRel(<, Nat)
<1>1. \A x, y \in Nat : x < y => <<x, y>> \in R
  BY DEF OpToRel
<1>2. IsWellFoundedOn(R, Nat)
  BY NatLessThanWellFounded
<1> HIDE DEF R
<1>3. \E n \in T : \A m \in T : ~ (<<m, n>> \in R)
  BY <1>2, WFMin
<1>4. PICK n \in T : \A m \in T : ~ (<<m, n>> \in R)
  BY <1>3
<1>5. n \in Nat /\ \A m \in T : m \in Nat
  OBVIOUS
<1>6. \A m \in T : ~ (m < n)
  BY <1>1, <1>4, <1>5
<1> QED
  BY <1>4, <1>5, <1>6

\* Induction: a set with 0 and the successors of its members has them all.
LEMMA Induction ==
    ASSUME NEW T \in SUBSET Nat, 0 \in T, \A n \in T : n + 1 \in T
    PROVE  \A n \in Nat : n \in T
<1> SUFFICES ASSUME Nat \ T # {} PROVE FALSE
  OBVIOUS
<1>1. PICK n \in Nat \ T : \A m \in Nat \ T : n <= m
  BY LeastNatural
<1>2. n # 0 /\ n - 1 \in Nat /\ n - 1 \in T
  BY <1>1
<1>3. (n - 1) + 1 = n
  BY <1>1
<1> QED
  BY <1>1, <1>2, <1>3

\* The smallest of a set of naturals is one of them, and below the others.
LEMMA SmallestIs ==
    ASSUME NEW S \in SUBSET Nat, S # {}
    PROVE  Smallest(S) \in S /\ \A j \in S : Smallest(S) <= j
<1>1. \E i \in S : \A j \in S : i <= j
  BY LeastNatural
<1> QED
  BY <1>1 DEF Smallest

IsSeq(s) == \E n \in Nat : s = [k \in 1..n |-> s[k]]

\* A function on 1..n is a sequence.
LEMMA FunctionIsSeq ==
    ASSUME NEW X, NEW n \in Nat, NEW s \in [1..n -> X]
    PROVE  s \in Seq(X)
  BY SMT

\* The length of a sequence given by its members.
LEMMA SeqLen ==
    ASSUME NEW s, NEW n \in Nat, s = [k \in 1..n |-> s[k]]
    PROVE  Len(s) = n /\ DOMAIN s = 1..n /\ IsSeq(s)
<1> DEFINE X == {s[k] : k \in 1..n}
<1>1. s \in [1..n -> X]
  OBVIOUS
<1>2. s \in Seq(X)
  <2> HIDE DEF X
  <2> QED
    BY <1>1, FunctionIsSeq
<1>3. DOMAIN s = 1..n /\ DOMAIN s = 1..Len(s) /\ Len(s) \in Nat
  BY <1>1, <1>2
<1>4. Len(s) = n
  BY <1>3
<1> QED
  BY <1>3, <1>4 DEF IsSeq

IsInOrder(s, rank) ==
    \A j \in DOMAIN s : \A i \in 1..(j - 1) : s[i] # s[j] /\ rank[s[i]] <= rank[s[j]]

\* Every finite set can be put in order: a member of least rank, then the rest.
LEMMA OrderExists ==
    ASSUME NEW S, IsFiniteSet(S), NEW rank \in [S -> Nat]
    PROVE  \E s \in [1..Cardinality(S) -> S] : IsInOrder(s, rank)
<1> DEFINE T == {n \in Nat : \A U \in SUBSET S :
                   Cardinality(U) = n => \E s \in [1..n -> U] : IsInOrder(s, rank)}
<1>1. 0 \in T
  <2> SUFFICES ASSUME NEW U \in SUBSET S PROVE \E s \in [1..0 -> U] : IsInOrder(s, rank)
    OBVIOUS
  <2>1. [k \in 1..0 |-> k] \in [1..0 -> U] /\ IsInOrder([k \in 1..0 |-> k], rank)
    BY DEF IsInOrder
  <2> QED
    BY <2>1
<1>2. ASSUME NEW n \in T PROVE n + 1 \in T
  <2> SUFFICES ASSUME NEW U \in SUBSET S, Cardinality(U) = n + 1
               PROVE  \E s \in [1..(n + 1) -> U] : IsInOrder(s, rank)
    OBVIOUS
  <2>1. IsFiniteSet(U)
    BY FS_Subset
  <2>2. U # {}
    BY <2>1, FS_EmptySet
  <2> DEFINE R == {rank[u] : u \in U}
  <2>3. R \in SUBSET Nat /\ R # {}
    <3>1. \A u \in U : rank[u] \in Nat
      OBVIOUS
    <3> QED
      BY <2>2, <3>1
  <2>4. PICK m \in U : \A u \in U : rank[m] <= rank[u]
    <3>1. PICK r \in R : \A q \in R : r <= q
      BY <2>3, LeastNatural
    <3>2. PICK m \in U : rank[m] = r
      OBVIOUS
    <3>3. \A u \in U : rank[u] \in R
      OBVIOUS
    <3> QED
      BY <3>1, <3>2, <3>3
  <2>5. Cardinality(U \ {m}) = n
    <3>1. n \in Nat /\ m \in U
      BY <2>4
    <3>2. Cardinality(U \ {m}) = Cardinality(U) - 1
      BY <2>1, <3>1, FS_RemoveElement
    <3> QED
      BY <3>1, <3>2
  <2>6. PICK s \in [1..n -> U \ {m}] : IsInOrder(s, rank)
    BY <2>5
  <2> DEFINE t == [k \in 1..(n + 1) |-> IF k = 1 THEN m ELSE s[k - 1]]
  <2>7. \A k \in 2..(n + 1) : k - 1 \in 1..n /\ t[k] = s[k - 1] /\ t[k] \in U \ {m}
    OBVIOUS
  <2>8. t[1] = m /\ DOMAIN t = 1..(n + 1)
    OBVIOUS
  <2>9. t \in [1..(n + 1) -> U]
    BY <2>7
  <2> HIDE DEF t
  <2>10. ASSUME NEW j \in 1..(n + 1), NEW i \in 1..(j - 1)
         PROVE  t[i] # t[j] /\ rank[t[i]] <= rank[t[j]]
    <3>1. j \in 2..(n + 1) /\ j - 1 \in 1..n
      BY <2>10
    <3>2. CASE i = 1
      BY <2>4, <2>7, <2>8, <3>1, <3>2
    <3>3. CASE i # 1
      <4>1. i \in 2..(n + 1) /\ i - 1 \in 1..((j - 1) - 1)
        BY <2>10, <3>3
      <4> QED
        BY <2>6, <2>7, <3>1, <4>1 DEF IsInOrder
    <3> QED
      BY <3>2, <3>3
  <2> QED
    BY <2>8, <2>9, <2>10 DEF IsInOrder
<1>3. Cardinality(S) \in Nat
  BY FS_CardinalityType
<1>4. Cardinality(S) \in T
  <2> HIDE DEF T
  <2>1. T \in SUBSET Nat
    BY DEF T
  <2> QED
    BY <1>1, <1>2, <1>3, <2>1, Induction
<1> QED
  BY <1>4

\* What InOrder returns: every member once, those of lower rank first.
LEMMA InOrderIs ==
    ASSUME NEW S, IsFiniteSet(S), NEW rank \in [S -> Nat]
    PROVE  /\ Cardinality(S) \in Nat
           /\ InOrder(S, rank) \in [1..Cardinality(S) -> S]
           /\ IsInOrder(InOrder(S, rank), rank)
           /\ Len(InOrder(S, rank)) = Cardinality(S)
           /\ \A x \in S : \E k \in 1..Cardinality(S) : InOrder(S, rank)[k] = x
<1> DEFINE n == Cardinality(S)
           s == InOrder(S, rank)
<1>1. n \in Nat
  BY FS_CardinalityType
<1>2. s \in [1..n -> S] /\ IsInOrder(s, rank)
  BY OrderExists DEF InOrder, IsInOrder
<1> HIDE DEF s
<1>3. Len(s) = n
  BY <1>1, <1>2, SeqLen
<1>4. \A i, j \in 1..n : i # j => s[i] # s[j]
  <2> SUFFICES ASSUME NEW i \in 1..n, NEW j \in 1..n, i # j PROVE s[i] # s[j]
    OBVIOUS
  <2>1. i \in 1..(j - 1) \/ j \in 1..(i - 1)
    BY <1>1
  <2> QED
    BY <1>2, <2>1 DEF IsInOrder
<1>5. s \in Injection(1..n, S)
  BY <1>2, <1>4 DEF Injection, IsInjective
<1>6. IsFiniteSet(1..n) /\ Cardinality(1..n) = n
  BY <1>1, FS_Interval
<1>7. s \in Surjection(1..n, S)
  BY <1>5, <1>6, FS_Injection
<1>8. \A x \in S : \E k \in 1..n : s[k] = x
  BY <1>7 DEF Surjection
<1> QED
  BY <1>1, <1>2, <1>3, <1>8 DEF s

\* Ascending lists a finite set of naturals.
LEMMA AscendingIs ==
    ASSUME NEW S \in SUBSET Nat, IsFiniteSet(S)
    PROVE  /\ Cardinality(S) \in Nat
           /\ Ascending(S) \in [1..Cardinality(S) -> S]
           /\ Len(Ascending(S)) = Cardinality(S)
           /\ \A x \in S : \E k \in 1..Cardinality(S) : Ascending(S)[k] = x
           /\ \A j \in 1..Cardinality(S) : \A i \in 1..(j - 1) : Ascending(S)[i] < Ascending(S)[j]
<1> DEFINE rank == [i \in S |-> i]
<1>1. rank \in [S -> Nat]
  OBVIOUS
<1>2. Ascending(S) = InOrder(S, rank)
  BY DEF Ascending
<1>3. /\ Cardinality(S) \in Nat
      /\ Ascending(S) \in [1..Cardinality(S) -> S]
      /\ IsInOrder(Ascending(S), rank)
      /\ Len(Ascending(S)) = Cardinality(S)
      /\ \A x \in S : \E k \in 1..Cardinality(S) : Ascending(S)[k] = x
  <2> HIDE DEF rank
  <2> QED
    BY <1>1, <1>2, InOrderIs
<1>4. ASSUME NEW j \in 1..Cardinality(S), NEW i \in 1..(j - 1)
      PROVE  Ascending(S)[i] < Ascending(S)[j]
  <2>1. i \in 1..Cardinality(S)
    BY <1>3
  <2>2. Ascending(S)[i] \in S /\ Ascending(S)[j] \in S
    BY <1>3, <2>1
  <2>3. /\ Ascending(S)[i] # Ascending(S)[j]
        /\ rank[Ascending(S)[i]] <= rank[Ascending(S)[j]]
    <3> HIDE DEF rank
    <3>1. DOMAIN Ascending(S) = 1..Cardinality(S)
      BY <1>3
    <3> QED
      BY <1>3, <3>1 DEF IsInOrder
  <2>4. rank[Ascending(S)[i]] = Ascending(S)[i] /\ rank[Ascending(S)[j]] = Ascending(S)[j]
    BY <2>2
  <2>5. Ascending(S)[i] \in Nat /\ Ascending(S)[j] \in Nat
    BY <2>2
  <2> HIDE DEF rank
  <2> QED
    BY <2>3, <2>4, <2>5
<1> QED
  BY <1>3, <1>4

-----------------------------------------------------------------------------
(***************************************************************************)
(* FlattenSeq, as the loops that append to a list use it.                  *)
(***************************************************************************)

\* Appending one sequence to another.
LEMMA Concatenated ==
    ASSUME NEW s, NEW t, IsSeq(s), IsSeq(t)
    PROVE  /\ Len(s) \in Nat /\ Len(t) \in Nat
           /\ DOMAIN s = 1..Len(s) /\ DOMAIN t = 1..Len(t)
           /\ DOMAIN (s \o t) = 1..(Len(s) + Len(t))
           /\ Len(s \o t) = Len(s) + Len(t)
           /\ IsSeq(s \o t)
           /\ \A k \in 1..Len(s) : (s \o t)[k] = s[k]
           /\ \A k \in 1..Len(t) : (s \o t)[Len(s) + k] = t[k]
<1>1. PICK m \in Nat : s = [k \in 1..m |-> s[k]]
  BY DEF IsSeq
<1>2. PICK n \in Nat : t = [k \in 1..n |-> t[k]]
  BY DEF IsSeq
<1>3. Len(s) = m /\ Len(t) = n /\ DOMAIN s = 1..m /\ DOMAIN t = 1..n
  BY <1>1, <1>2, SeqLen
<1> DEFINE X == {s[k] : k \in 1..m} \union {t[k] : k \in 1..n}
<1>4. s \in Seq(X) /\ t \in Seq(X)
  <2>1. s \in [1..m -> X] /\ t \in [1..n -> X]
    BY <1>1, <1>2
  <2> HIDE DEF X
  <2>2. s \in Seq(X)
    BY <2>1, FunctionIsSeq
  <2>3. t \in Seq(X)
    BY <2>1, FunctionIsSeq
  <2> QED
    BY <2>2, <2>3
<1> HIDE DEF X
<1>5. s \o t \in Seq(X) /\ Len(s \o t) = m + n
  BY <1>3, <1>4
<1>6. DOMAIN (s \o t) = 1..(m + n) /\ s \o t = [k \in 1..(m + n) |-> (s \o t)[k]]
  <2> DEFINE u == s \o t
  <2>1. u \in Seq(X) /\ Len(u) = m + n
    BY <1>5
  <2> HIDE DEF u
  <2>2. u \in [1..(m + n) -> X]
    BY <2>1
  <2>3. DOMAIN u = 1..(m + n) /\ u = [k \in 1..(m + n) |-> u[k]]
    BY <2>2
  <2> QED
    BY <2>3 DEF u
<1>7. \A k \in 1..m : (s \o t)[k] = s[k]
  BY <1>3, <1>4
<1>8. \A k \in 1..n : (s \o t)[m + k] = t[k]
  BY <1>3, <1>4
<1>9. IsSeq(s \o t)
  <2>1. m + n \in Nat
    OBVIOUS
  <2> QED
    BY <1>6, <2>1, SeqLen
<1> QED
  BY <1>3, <1>5, <1>6, <1>7, <1>8, <1>9

\* The list after each of the sequences appended to it.
IsAppending(F, seqs, n) ==
    /\ F[0] = <<>>
    /\ \A i \in 1..n : F[i] = F[i - 1] \o seqs[i]
    /\ \A i \in 0..n : IsSeq(F[i])

\* FlattenSeq appends its sequences one after the other.
LEMMA FlattenIs ==
    ASSUME NEW n \in Nat, NEW seqs, seqs = [i \in 1..n |-> seqs[i]],
           \A i \in 1..n : IsSeq(seqs[i])
    PROVE  \E F : IsAppending(F, seqs, n) /\ FlattenSeq(seqs) = F[n]
<1>1. Len(seqs) = n
  BY SeqLen
<1>2. IsSeq(<<>>) /\ Len(<<>>) = 0
  <2>1. <<>> = [k \in 1..0 |-> <<>>[k]]
    OBVIOUS
  <2> QED
    BY <2>1, SeqLen
<1>3. CASE n = 0
  <2>1. seqs = <<>>
    BY <1>3
  <2>2. IsAppending([i \in {0} |-> <<>>], seqs, n)
    BY <1>2, <1>3 DEF IsAppending
  <2> QED
    BY <1>1, <1>3, <2>1, <2>2 DEF FlattenSeq
<1>4. CASE n # 0
  <2> DEFINE Step(f, k) == [i \in 1..k |-> IF i = 1 THEN seqs[i] ELSE f[i - 1] \o seqs[i]]
             T == {k \in Nat : \E f : f = Step(f, k)}
  <2>1. 0 \in T
    <3>1. [i \in 1..0 |-> 0] = Step([i \in 1..0 |-> 0], 0)
      OBVIOUS
    <3> QED
      BY <3>1
  <2>2. ASSUME NEW k \in T PROVE k + 1 \in T
    <3>1. k \in Nat
      OBVIOUS
    <3>2. PICK f : f = Step(f, k)
      OBVIOUS
    <3> DEFINE g == [i \in 1..(k + 1) |-> IF i <= k THEN f[i]
                                          ELSE IF i = 1 THEN seqs[i] ELSE f[i - 1] \o seqs[i]]
    <3>3. ASSUME NEW i \in 1..(k + 1)
          PROVE  g[i] = IF i = 1 THEN seqs[i] ELSE g[i - 1] \o seqs[i]
      <4>1. i # 1 => i - 1 \in 1..(k + 1) /\ g[i - 1] = f[i - 1]
        BY <3>1
      <4>2. CASE i <= k
        <5>1. i \in 1..k
          BY <3>1, <4>2
        <5>2. f[i] = IF i = 1 THEN seqs[i] ELSE f[i - 1] \o seqs[i]
          BY <3>2, <5>1
        <5> QED
          BY <4>1, <4>2, <5>2
      <4>3. CASE ~(i <= k)
        BY <3>1, <4>1, <4>3
      <4> QED
        BY <4>2, <4>3
    <3>4. DOMAIN g = 1..(k + 1) /\ g = [i \in 1..(k + 1) |-> g[i]]
      OBVIOUS
    <3> HIDE DEF g
    <3>5. g = Step(g, k + 1)
      BY <3>3, <3>4
    <3>6. k + 1 \in Nat
      BY <3>1
    <3> QED
      BY <3>5, <3>6
  <2>3. n \in T
    <3> HIDE DEF T
    <3>1. T \in SUBSET Nat
      BY DEF T
    <3> QED
      BY <2>1, <2>2, <3>1, Induction
  <2>4. \E f : f = Step(f, n)
    BY <2>3
  <2> DEFINE f == CHOOSE h : h = Step(h, n)
  <2>5. f = Step(f, n)
    BY <2>4
  <2>6. FlattenSeq(seqs) = f[n]
    BY <1>1, <1>4 DEF FlattenSeq
  <2> HIDE DEF f
  <2> DEFINE F == [i \in 0..n |-> IF i = 0 THEN <<>> ELSE f[i]]
  <2>7. F[0] = <<>> /\ F[n] = f[n]
    BY <1>4
  <2>8. f[1] = seqs[1]
    BY <1>4, <2>5
  <2>9. ASSUME NEW i \in 1..n PROVE F[i] = F[i - 1] \o seqs[i]
    <3>1. CASE i = 1
      <4>1. F[1] = seqs[1] /\ F[0] = <<>>
        BY <1>4, <2>7, <2>8
      <4>2. IsSeq(seqs[1])
        BY <1>4
      <4>3. <<>> \o seqs[1] = seqs[1]
        <5>1. PICK m \in Nat : seqs[1] = [k \in 1..m |-> seqs[1][k]]
          BY <4>2 DEF IsSeq
        <5> DEFINE X == {seqs[1][k] : k \in 1..m}
        <5>2. seqs[1] \in [1..m -> X]
          BY <5>1
        <5> HIDE DEF X
        <5>3. seqs[1] \in Seq(X)
          BY <5>2, FunctionIsSeq
        <5> QED
          BY <5>3
      <4>4. F[1] = F[0] \o seqs[1]
        BY <4>1, <4>3
      <4>5. i - 1 = 0
        BY <3>1
      <4> HIDE DEF F
      <4> QED
        BY <3>1, <4>4, <4>5
    <3>2. CASE i # 1
      <4>1. i - 1 \in 1..n /\ F[i - 1] = f[i - 1] /\ F[i] = f[i]
        BY <3>2
      <4> QED
        BY <2>5, <3>2, <4>1
    <3> QED
      BY <3>1, <3>2
  <2> HIDE DEF F
  <2>10. \A i \in 0..n : IsSeq(F[i])
    <3> DEFINE U == {i \in Nat : i <= n => IsSeq(F[i])}
    <3>1. 0 \in U
      BY <1>2, <2>7
    <3>2. ASSUME NEW i \in U PROVE i + 1 \in U
      <4> SUFFICES ASSUME i + 1 <= n PROVE IsSeq(F[i + 1])
        OBVIOUS
      <4>1. i + 1 \in 1..n /\ IsSeq(F[i])
        OBVIOUS
      <4>2. F[i + 1] = F[(i + 1) - 1] \o seqs[i + 1]
        BY <2>9, <4>1
      <4>3. F[(i + 1) - 1] = F[i]
        OBVIOUS
      <4> QED
        BY <4>1, <4>2, <4>3, Concatenated
    <3>3. U \in SUBSET Nat
      OBVIOUS
    <3>4. \A i \in Nat : i \in U
      <4> HIDE DEF U
      <4> QED
        BY <3>1, <3>2, <3>3, Induction
    <3> QED
      BY <3>4
  <2>11. IsAppending(F, seqs, n)
    BY <2>7, <2>9, <2>10 DEF IsAppending
  <2> QED
    BY <2>6, <2>7, <2>11
<1> QED
  BY <1>3, <1>4

Members(s) == {s[k] : k \in DOMAIN s}

\* The members of two sequences, one after the other.
LEMMA ConcatenatedMembers ==
    ASSUME NEW s, NEW t, IsSeq(s), IsSeq(t)
    PROVE  Members(s \o t) = Members(s) \union Members(t)
<1>1. /\ Len(s) \in Nat /\ Len(t) \in Nat
      /\ DOMAIN s = 1..Len(s) /\ DOMAIN t = 1..Len(t)
      /\ DOMAIN (s \o t) = 1..(Len(s) + Len(t))
      /\ \A k \in 1..Len(s) : (s \o t)[k] = s[k]
      /\ \A k \in 1..Len(t) : (s \o t)[Len(s) + k] = t[k]
  BY Concatenated
<1>2. ASSUME NEW x \in Members(s \o t) PROVE x \in Members(s) \union Members(t)
  <2>1. PICK k \in 1..(Len(s) + Len(t)) : x = (s \o t)[k]
    BY <1>1, <1>2 DEF Members
  <2>2. CASE k <= Len(s)
    <3>1. k \in 1..Len(s)
      BY <1>1, <2>2
    <3> QED
      BY <1>1, <2>1, <3>1 DEF Members
  <2>3. CASE ~(k <= Len(s))
    <3>1. k - Len(s) \in 1..Len(t) /\ Len(s) + (k - Len(s)) = k
      BY <1>1, <2>3
    <3>2. (s \o t)[Len(s) + (k - Len(s))] = t[k - Len(s)]
      BY <1>1, <3>1
    <3> QED
      BY <1>1, <2>1, <3>1, <3>2 DEF Members
  <2> QED
    BY <2>2, <2>3
<1>3. ASSUME NEW x \in Members(s) PROVE x \in Members(s \o t)
  <2>1. PICK k \in 1..Len(s) : x = s[k]
    BY <1>1, <1>3 DEF Members
  <2>2. k \in 1..(Len(s) + Len(t)) /\ (s \o t)[k] = s[k]
    BY <1>1
  <2> QED
    BY <1>1, <2>1, <2>2 DEF Members
<1>4. ASSUME NEW x \in Members(t) PROVE x \in Members(s \o t)
  <2>1. PICK k \in 1..Len(t) : x = t[k]
    BY <1>1, <1>4 DEF Members
  <2>2. Len(s) + k \in 1..(Len(s) + Len(t)) /\ (s \o t)[Len(s) + k] = t[k]
    BY <1>1
  <2> QED
    BY <1>1, <2>1, <2>2 DEF Members
<1> QED
  BY <1>2, <1>3, <1>4

\* The members of a flattened sequence are those of its sequences.
LEMMA FlattenMembers ==
    ASSUME NEW n \in Nat, NEW seqs, seqs = [i \in 1..n |-> seqs[i]],
           \A i \in 1..n : IsSeq(seqs[i])
    PROVE  /\ IsSeq(FlattenSeq(seqs))
           /\ \A x : x \in Members(FlattenSeq(seqs)) <=> \E i \in 1..n : x \in Members(seqs[i])
<1>1. PICK F : IsAppending(F, seqs, n) /\ FlattenSeq(seqs) = F[n]
  BY FlattenIs
<1> DEFINE T == {k \in Nat : k <= n =>
                   \A x : x \in Members(F[k]) <=> \E i \in 1..k : x \in Members(seqs[i])}
<1>2. 0 \in T
  <2>1. Members(F[0]) = {}
    BY <1>1 DEF IsAppending, Members
  <2> QED
    BY <2>1
<1>3. ASSUME NEW k \in T PROVE k + 1 \in T
  <2>0. k \in Nat
    OBVIOUS
  <2>1. CASE k + 1 <= n
    <3>1. k + 1 \in 1..n /\ k \in 0..n /\ (k + 1) - 1 = k
      BY <2>0, <2>1
    <3>2. F[k + 1] = F[k] \o seqs[k + 1] /\ IsSeq(F[k]) /\ IsSeq(seqs[k + 1])
      BY <1>1, <3>1 DEF IsAppending
    <3>3. Members(F[k + 1]) = Members(F[k]) \union Members(seqs[k + 1])
      BY <3>2, ConcatenatedMembers
    <3>4. \A x : x \in Members(F[k]) <=> \E i \in 1..k : x \in Members(seqs[i])
      BY <3>1
    <3>5. \A i : i \in 1..(k + 1) <=> i \in 1..k \/ i = k + 1
      BY <2>0
    <3>6. \A x : x \in Members(F[k + 1]) <=> \E i \in 1..(k + 1) : x \in Members(seqs[i])
      BY <3>3, <3>4, <3>5
    <3> QED
      BY <2>0, <3>6
  <2>2. CASE ~(k + 1 <= n)
    BY <2>0, <2>2
  <2> QED
    BY <2>1, <2>2
<1>4. n \in T
  <2> HIDE DEF T
  <2>1. T \in SUBSET Nat
    BY DEF T
  <2> QED
    BY <1>2, <1>3, <2>1, Induction
<1>5. IsSeq(F[n])
  BY <1>1 DEF IsAppending
<1> QED
  BY <1>1, <1>4, <1>5

-----------------------------------------------------------------------------
(***************************************************************************)
(* The decisions of match(): which pairs of rows they join.                *)
(***************************************************************************)

\* The rows identical to one row.
ClassOf(rows, k) == {j \in DOMAIN rows : rows[j] = rows[k]}

\* A set of row numbers is a finite set of naturals.
LEMMA RowSets ==
    ASSUME NEW rows, IsSeq(rows), NEW S \in SUBSET DOMAIN rows
    PROVE  /\ S \in SUBSET Nat /\ IsFiniteSet(S) /\ Cardinality(S) \in Nat
           /\ Len(rows) \in Nat /\ DOMAIN rows = 1..Len(rows)
           /\ IsFiniteSet(DOMAIN rows)
           /\ S # {} => Smallest(S) \in S /\ \A j \in S : Smallest(S) <= j
<1>1. PICK n \in Nat : rows = [k \in 1..n |-> rows[k]]
  BY DEF IsSeq
<1>2. Len(rows) = n /\ DOMAIN rows = 1..n
  BY <1>1, SeqLen
<1>3. IsFiniteSet(1..n) /\ S \in SUBSET (1..n) /\ S \in SUBSET Nat
  BY <1>2, FS_Interval
<1>4. IsFiniteSet(S)
  BY <1>3, FS_Subset
<1>5. Cardinality(S) \in Nat
  BY <1>4, FS_CardinalityType
<1>6. S # {} => Smallest(S) \in S /\ \A j \in S : Smallest(S) <= j
  BY <1>3, SmallestIs
<1> QED
  BY <1>2, <1>3, <1>4, <1>5, <1>6

\* A function on an interval from 1 is a sequence.
LEMMA IntervalSeq ==
    ASSUME NEW s, NEW n \in Int, s = [k \in 1..n |-> s[k]]
    PROVE  IsSeq(s) /\ DOMAIN s = 1..n /\ Len(s) = IF n < 0 THEN 0 ELSE n
<1>1. CASE n \in Nat
  BY <1>1, SeqLen
<1>2. CASE n \notin Nat
  <2>1. 1..n = 1..0
    BY <1>2
  <2>2. s = [k \in 1..0 |-> s[k]]
    BY <2>1
  <2>3. IsSeq(s) /\ DOMAIN s = 1..0 /\ Len(s) = 0
    BY <2>2, SeqLen
  <2>4. n < 0
    BY <1>2
  <2> QED
    BY <2>1, <2>3, <2>4
<1> QED
  BY <1>1, <1>2

\* Stage 1 chains the rows of a class, each to the next.
LEMMA ChainLinksAre ==
    ASSUME NEW C \in SUBSET Nat, IsFiniteSet(C), NEW weight
    PROVE  /\ IsSeq(ChainLinks(C, weight))
           /\ \A d : d \in Members(ChainLinks(C, weight)) <=>
                \E k \in 1..(Cardinality(C) - 1) :
                   d = Decision(Ascending(C)[k], Ascending(C)[k + 1], "exact_row_match",
                                weight, "duplicate")
<1> DEFINE s == Ascending(C)
           n == Cardinality(C) - 1
           D(k) == Decision(s[k], s[k + 1], "exact_row_match", weight, "duplicate")
<1>1. Len(s) = Cardinality(C) /\ n \in Int
  BY AscendingIs
<1>2. ChainLinks(C, weight) = [k \in 1..n |-> D(k)]
  BY <1>1 DEF ChainLinks
<1> DEFINE t == ChainLinks(C, weight)
<1>3. t = [k \in 1..n |-> t[k]] /\ \A k \in 1..n : t[k] = D(k)
  BY <1>2
<1> HIDE DEF t, D, n, s
<1>4. IsSeq(t) /\ DOMAIN t = 1..n
  BY <1>1, <1>3, IntervalSeq
<1>5. \A d : d \in Members(t) <=> \E k \in 1..n : d = D(k)
  BY <1>3, <1>4 DEF Members
<1> QED
  BY <1>4, <1>5 DEF t, D, n, s

\* The decisions of stage 1 are the chain links of the classes.
LEMMA ExactDecisionsAre ==
    ASSUME NEW rows, IsSeq(rows), NEW weight
    PROVE  /\ IsSeq(ExactDecisions(rows, weight))
           /\ \A d : d \in Members(ExactDecisions(rows, weight)) <=>
                \E k \in DOMAIN rows : /\ k = Smallest(ClassOf(rows, k))
                                       /\ d \in Members(ChainLinks(ClassOf(rows, k), weight))
<1> DEFINE n == Len(rows)
           links(k) == IF k = Smallest(ClassOf(rows, k)) THEN ChainLinks(ClassOf(rows, k), weight)
                       ELSE <<>>
           seqs == [k \in 1..n |-> links(k)]
<1>1. n \in Nat /\ DOMAIN rows = 1..n
  BY RowSets
<1>2. ExactDecisions(rows, weight) = FlattenSeq(seqs)
  BY <1>1 DEF ExactDecisions, ClassOf
<1>3. IsSeq(<<>>) /\ Members(<<>>) = {}
  <2>1. <<>> = [k \in 1..0 |-> <<>>[k]]
    OBVIOUS
  <2>2. IsSeq(<<>>) /\ DOMAIN <<>> = 1..0
    BY <2>1, SeqLen
  <2> QED
    BY <2>2 DEF Members
<1>4. \A k \in 1..n : IsSeq(links(k))
  <2> SUFFICES ASSUME NEW k \in 1..n PROVE IsSeq(links(k))
    OBVIOUS
  <2>1. ClassOf(rows, k) \in SUBSET Nat /\ IsFiniteSet(ClassOf(rows, k))
    <3>1. ClassOf(rows, k) \in SUBSET DOMAIN rows
      BY DEF ClassOf
    <3> QED
      BY <3>1, RowSets
  <2>2. IsSeq(ChainLinks(ClassOf(rows, k), weight))
    BY <2>1, ChainLinksAre
  <2> QED
    BY <1>3, <2>2
<1>5. seqs = [k \in 1..n |-> seqs[k]] /\ \A k \in 1..n : seqs[k] = links(k)
  OBVIOUS
<1> HIDE DEF seqs, links
<1>6. /\ IsSeq(FlattenSeq(seqs))
      /\ \A d : d \in Members(FlattenSeq(seqs)) <=> \E k \in 1..n : d \in Members(seqs[k])
  BY <1>1, <1>4, <1>5, FlattenMembers
<1>7. \A d, k : d \in Members(links(k)) <=>
         k = Smallest(ClassOf(rows, k)) /\ d \in Members(ChainLinks(ClassOf(rows, k), weight))
  BY <1>3 DEF links
<1> QED
  BY <1>1, <1>2, <1>5, <1>6, <1>7

\* The pairs of a block: every two of its rows, the smaller number first.
LEMMA PairsAre ==
    ASSUME NEW b \in SUBSET Nat, IsFiniteSet(b)
    PROVE  /\ IsSeq(PairsOf(b))
           /\ \A p : p \in Members(PairsOf(b)) <=> \E x, y \in b : x < y /\ p = <<x, y>>
<1> DEFINE s == Ascending(b)
           c == Cardinality(b)
           from(i) == [j \in 1..(c - i) |-> <<s[i], s[i + j]>>]
           seqs == [i \in 1..c |-> from(i)]
<1>1. /\ c \in Nat /\ s \in [1..c -> b] /\ Len(s) = c
      /\ \A x \in b : \E k \in 1..c : s[k] = x
      /\ \A j \in 1..c : \A i \in 1..(j - 1) : s[i] < s[j]
  BY AscendingIs
<1>2. DOMAIN s = 1..c
  BY <1>1
<1>3. PairsOf(b) = FlattenSeq(seqs)
  BY <1>1, <1>2 DEF PairsOf
<1>4. seqs = [i \in 1..c |-> seqs[i]] /\ \A i \in 1..c : seqs[i] = from(i)
  OBVIOUS
<1> HIDE DEF s, c, seqs
<1>5. ASSUME NEW i \in 1..c
      PROVE  /\ IsSeq(from(i))
             /\ \A p : p \in Members(from(i)) <=> \E j \in 1..(c - i) : p = <<s[i], s[i + j]>>
  <2> DEFINE t == from(i)
  <2>1. t = [j \in 1..(c - i) |-> t[j]] /\ \A j \in 1..(c - i) : t[j] = <<s[i], s[i + j]>>
    OBVIOUS
  <2>2. c - i \in Int
    BY <1>1
  <2> HIDE DEF t
  <2>3. IsSeq(t) /\ DOMAIN t = 1..(c - i)
    BY <2>1, <2>2, IntervalSeq
  <2>4. \A p : p \in Members(t) <=> \E j \in 1..(c - i) : p = <<s[i], s[i + j]>>
    BY <2>1, <2>3 DEF Members
  <2> QED
    BY <2>3, <2>4 DEF t
<1> HIDE DEF from
<1>6. /\ IsSeq(FlattenSeq(seqs))
      /\ \A p : p \in Members(FlattenSeq(seqs)) <=> \E i \in 1..c : p \in Members(seqs[i])
  <2>1. \A i \in 1..c : IsSeq(seqs[i])
    BY <1>4, <1>5
  <2> QED
    BY <1>1, <1>4, <2>1, FlattenMembers
<1>7. ASSUME NEW p, NEW i \in 1..c, p \in Members(from(i))
      PROVE  \E x, y \in b : x < y /\ p = <<x, y>>
  <2>1. PICK j \in 1..(c - i) : p = <<s[i], s[i + j]>>
    BY <1>5, <1>7
  <2>2. i + j \in 1..c /\ i \in 1..((i + j) - 1)
    BY <1>1
  <2>3. s[i] \in b /\ s[i + j] \in b /\ s[i] < s[i + j]
    BY <1>1, <2>2
  <2> QED
    BY <2>1, <2>3
<1>8. ASSUME NEW x \in b, NEW y \in b, x < y
      PROVE  \E i \in 1..c : <<x, y>> \in Members(from(i))
  <2>1. PICK i \in 1..c : s[i] = x
    BY <1>1
  <2>2. PICK k \in 1..c : s[k] = y
    BY <1>1
  <2>3. i < k
    <3> SUFFICES ASSUME ~(i < k) PROVE FALSE
      OBVIOUS
    <3>1. i = k \/ k \in 1..(i - 1)
      BY <1>1
    <3>2. x \in Nat /\ y \in Nat
      OBVIOUS
    <3>3. CASE i = k
      BY <1>8, <2>1, <2>2, <3>2, <3>3
    <3>4. CASE k \in 1..(i - 1)
      <4>1. s[k] < s[i]
        BY <1>1, <3>4
      <4> QED
        BY <1>8, <2>1, <2>2, <3>2, <4>1
    <3> QED
      BY <3>1, <3>3, <3>4
  <2>4. k - i \in 1..(c - i) /\ i + (k - i) = k
    BY <1>1, <2>3
  <2>5. <<x, y>> = <<s[i], s[i + (k - i)]>>
    BY <2>1, <2>2, <2>4
  <2> QED
    BY <1>5, <2>4, <2>5
<1> QED
  BY <1>3, <1>4, <1>6, <1>7, <1>8

\* A score does not depend on the order of the two rows.
LEMMA ScoresAreSymmetric ==
    ASSUME NEW a, NEW b, NEW fields
    PROVE  compare_pair(a, b, fields) = compare_pair(b, a, fields)
<1> DEFINE matched(x, y) ==
             [k \in DOMAIN fields |->
                compare_field(CellAt(x, fields[k].column_name), CellAt(y, fields[k].column_name),
                              fields[k].comparison_type)]
<1>1. \A x, y, type : compare_field(x, y, type) = compare_field(y, x, type)
  BY DEF compare_field
<1>2. matched(a, b) = matched(b, a)
  BY <1>1
<1>3. \A x, y : compare_pair(x, y, fields) = MatchedWeight(fields, matched(x, y))
  BY DEF compare_pair
<1> QED
  BY <1>2, <1>3

\* The decision on two rows, if it joins them.
RuleName(rs) == IF Len(rs.fields) = 1 THEN "normalized_exact_match" ELSE "composite_weighted_match"
Score(p, rows, rs) == compare_pair(rows[p[1]], rows[p[2]], rs.fields)

\* A pair has at most one decision; it joins the two rows exactly if their
\* score reaches the duplicate threshold.
LEMMA PairDecisionIs ==
    ASSUME NEW p, NEW rows, NEW rs
    PROVE  /\ IsSeq(PairDecision(p, rows, rs))
           /\ \A d \in Members(PairDecision(p, rows, rs)) :
                /\ d.a = p[1] /\ d.b = p[2] /\ d.total_score = Score(p, rows, rs)
                /\ d.decision \in {"duplicate", "ambiguous"}
                /\ d.decision = "duplicate" => Score(p, rows, rs) >= rs.duplicate_threshold
           /\ Score(p, rows, rs) >= rs.duplicate_threshold =>
                \E d \in Members(PairDecision(p, rows, rs)) :
                   d.a = p[1] /\ d.b = p[2] /\ d.decision = "duplicate"
<1> DEFINE label == Label(Score(p, rows, rs), rs)
           d == Decision(p[1], p[2], RuleName(rs), Score(p, rows, rs), label)
<1>1. PairDecision(p, rows, rs) = IF label = "none" THEN <<>> ELSE <<d>>
  BY DEF PairDecision, RuleName, Score
<1>2. d.a = p[1] /\ d.b = p[2] /\ d.decision = label /\ d.total_score = Score(p, rows, rs)
  BY DEF Decision
<1>3. /\ label \in {"duplicate", "ambiguous", "none"}
      /\ label = "duplicate" => Score(p, rows, rs) >= rs.duplicate_threshold
      /\ Score(p, rows, rs) >= rs.duplicate_threshold => label = "duplicate"
  BY DEF Label
<1> HIDE DEF d, label
<1>4. IsSeq(<<>>) /\ Members(<<>>) = {}
  <2>1. <<>> = [k \in 1..0 |-> <<>>[k]]
    OBVIOUS
  <2>2. IsSeq(<<>>) /\ DOMAIN <<>> = 1..0
    BY <2>1, SeqLen
  <2> QED
    BY <2>2 DEF Members
<1>5. IsSeq(<<d>>) /\ Members(<<d>>) = {d}
  <2>1. <<d>> = [k \in 1..1 |-> <<d>>[k]]
    OBVIOUS
  <2>2. IsSeq(<<d>>) /\ DOMAIN <<d>> = 1..1
    BY <2>1, SeqLen
  <2>3. \A k \in 1..1 : <<d>>[k] = d
    OBVIOUS
  <2> QED
    BY <2>2, <2>3 DEF Members
<1> QED
  BY <1>1, <1>2, <1>3, <1>4, <1>5

\* The rows of a block are rows of the file, a block has at least one, and
\* there are finitely many.
LEMMA BlocksAre ==
    ASSUME NEW rows, IsSeq(rows), NEW rs
    PROVE  /\ Blocks(rows, rs) \subseteq (SUBSET DOMAIN rows) \ {{}}
           /\ IsFiniteSet(Blocks(rows, rs))
<1>1. Candidates2(rows) \subseteq DOMAIN rows
  <2> SUFFICES ASSUME NEW k \in DOMAIN rows PROVE Smallest(ClassOf(rows, k)) \in DOMAIN rows
    BY DEF Candidates2, ExactClasses, ClassOf
  <2>1. ClassOf(rows, k) \in SUBSET DOMAIN rows /\ k \in ClassOf(rows, k)
    BY DEF ClassOf
  <2> QED
    BY <2>1, RowSets
<1>2. Blocks(rows, rs) \subseteq (SUBSET DOMAIN rows) \ {{}}
  <2> SUFFICES ASSUME NEW b \in Blocks(rows, rs), rs.fields # <<>>
               PROVE  b \in SUBSET DOMAIN rows /\ b # {}
    BY DEF Blocks
  <2>1. PICK k \in {BlockKey(rows, i, rs.fields) : i \in Candidates2(rows)} :
            b = {i \in Candidates2(rows) : BlockKey(rows, i, rs.fields) = k}
    BY DEF Blocks, build_blocks
  <2> QED
    BY <1>1, <2>1
<1>3. IsFiniteSet(DOMAIN rows)
  BY RowSets
<1>4. IsFiniteSet(SUBSET DOMAIN rows)
  BY <1>3, FS_SUBSET
<1> QED
  BY <1>2, <1>4, FS_Subset

\* So has every block that is compared.
LEMMA ComparedAre ==
    ASSUME NEW rows, IsSeq(rows), NEW rs
    PROVE  /\ Compared(rows, rs) \subseteq SUBSET DOMAIN rows
           /\ IsFiniteSet(Compared(rows, rs))
<1>1. Compared(rows, rs) \subseteq Blocks(rows, rs)
  BY DEF Compared
<1> QED
  BY <1>1, BlocksAre, FS_Subset

\* s lists the members of S.
Lists(s, S) == \E n \in Nat : s \in [1..n -> S] /\ \A x \in S : \E k \in 1..n : s[k] = x

\* ByKey lists the blocks that are compared.
LEMMA ByKeyIs ==
    ASSUME NEW rows, IsSeq(rows), NEW rs
    PROVE  Lists(ByKey(rows, rs), Compared(rows, rs))
<1> DEFINE blocks == Compared(rows, rs)
           rank == [b \in blocks |-> KeyRank(BlockKey(rows, Smallest(b), rs.fields))]
<1>1. IsFiniteSet(blocks)
  BY ComparedAre
<1>2. ASSUME NEW k PROVE KeyRank(k) \in Nat
  <2> DEFINE S == {n \in DOMAIN KEYS : KEYS[n] = k} \union {Len(KEYS) + 1}
  <2>1. DOMAIN KEYS = 1..Len(KEYS) /\ Len(KEYS) \in Nat
    BY MatchingAssumption
  <2>2. S \in SUBSET Nat /\ S # {}
    BY <2>1
  <2> HIDE DEF S
  <2>3. Smallest(S) \in Nat
    BY <2>2, SmallestIs
  <2> QED
    BY <2>3 DEF KeyRank, S
<1>3. rank \in [blocks -> Nat]
  BY <1>2
<1>4. ByKey(rows, rs) = InOrder(blocks, rank)
  BY DEF ByKey
<1> HIDE DEF rank, blocks
<1>5. /\ Cardinality(blocks) \in Nat
      /\ InOrder(blocks, rank) \in [1..Cardinality(blocks) -> blocks]
      /\ \A b \in blocks : \E k \in 1..Cardinality(blocks) : InOrder(blocks, rank)[k] = b
  BY <1>1, <1>3, InOrderIs
<1> QED
  BY <1>4, <1>5 DEF blocks, Lists

\* The decisions on a block are those on its pairs.
LEMMA BlockDecisionsAre ==
    ASSUME NEW b \in SUBSET Nat, IsFiniteSet(b), NEW rows, NEW rs
    PROVE  /\ IsSeq(BlockDecisions(b, rows, rs))
           /\ \A d : d \in Members(BlockDecisions(b, rows, rs)) <=>
                \E p \in Members(PairsOf(b)) : d \in Members(PairDecision(p, rows, rs))
<1> DEFINE pairs == PairsOf(b)
           n == Len(pairs)
           seqs == [k \in 1..n |-> PairDecision(pairs[k], rows, rs)]
<1>1. PICK m \in Nat : pairs = [k \in 1..m |-> pairs[k]]
  BY PairsAre DEF IsSeq
<1>2. n \in Nat /\ DOMAIN pairs = 1..n
  BY <1>1, SeqLen
<1>3. BlockDecisions(b, rows, rs) = FlattenSeq(seqs)
  BY <1>2 DEF BlockDecisions
<1>4. seqs = [k \in 1..n |-> seqs[k]]
      /\ \A k \in 1..n : seqs[k] = PairDecision(pairs[k], rows, rs)
  OBVIOUS
<1> HIDE DEF seqs, n
<1>5. \A k \in 1..n : IsSeq(seqs[k])
  BY <1>4, PairDecisionIs
<1>6. /\ IsSeq(FlattenSeq(seqs))
      /\ \A d : d \in Members(FlattenSeq(seqs)) <=> \E k \in 1..n : d \in Members(seqs[k])
  BY <1>2, <1>4, <1>5, FlattenMembers
<1>7. \A d : (\E k \in 1..n : d \in Members(PairDecision(pairs[k], rows, rs)))
               <=> \E p \in Members(pairs) : d \in Members(PairDecision(p, rows, rs))
  BY <1>2 DEF Members
<1> QED
  BY <1>3, <1>4, <1>6, <1>7

\* The decisions of match(): chain links and decisions on pairs of blocks.
LEMMA AllDecisionsAre ==
    ASSUME NEW rows, IsSeq(rows), NEW rs
    PROVE  /\ IsSeq(AllDecisions(rows, rs))
           /\ \E weight : weight = FullScore(rs) /\ \A d : d \in Members(AllDecisions(rows, rs)) <=>
                \/ \E k \in DOMAIN rows : /\ k = Smallest(ClassOf(rows, k))
                                          /\ d \in Members(ChainLinks(ClassOf(rows, k), weight))
                \/ \E b \in Compared(rows, rs) : d \in Members(BlockDecisions(b, rows, rs))
<1> DEFINE weight == FullScore(rs)
           blocks == ByKey(rows, rs)
<1>1. PICK n \in Nat : /\ blocks \in [1..n -> Compared(rows, rs)]
                       /\ \A b \in Compared(rows, rs) : \E k \in 1..n : blocks[k] = b
  <2>1. Lists(blocks, Compared(rows, rs))
    BY ByKeyIs
  <2> HIDE DEF blocks
  <2> QED
    BY <2>1 DEF Lists
<1> DEFINE seqs == [k \in 1..n |-> BlockDecisions(blocks[k], rows, rs)]
<1>2. AllDecisions(rows, rs) = ExactDecisions(rows, weight) \o FlattenSeq(seqs)
  BY <1>1 DEF AllDecisions
<1>3. seqs = [k \in 1..n |-> seqs[k]]
      /\ \A k \in 1..n : seqs[k] = BlockDecisions(blocks[k], rows, rs)
  OBVIOUS
<1> HIDE DEF seqs, blocks, weight
<1>4. \A k \in 1..n : IsSeq(seqs[k])
  <2> SUFFICES ASSUME NEW k \in 1..n PROVE IsSeq(seqs[k])
    OBVIOUS
  <2>1. blocks[k] \in SUBSET DOMAIN rows
    BY <1>1, ComparedAre
  <2>2. blocks[k] \in SUBSET Nat /\ IsFiniteSet(blocks[k])
    BY <2>1, RowSets
  <2> QED
    BY <1>3, <2>2, BlockDecisionsAre
<1>5. /\ IsSeq(FlattenSeq(seqs))
      /\ \A d : d \in Members(FlattenSeq(seqs)) <=> \E k \in 1..n : d \in Members(seqs[k])
  BY <1>3, <1>4, FlattenMembers
<1>6. \A d : (\E k \in 1..n : d \in Members(seqs[k]))
               <=> \E b \in Compared(rows, rs) : d \in Members(BlockDecisions(b, rows, rs))
  BY <1>1, <1>3
<1>7. /\ IsSeq(ExactDecisions(rows, weight))
      /\ \A d : d \in Members(ExactDecisions(rows, weight)) <=>
           \E k \in DOMAIN rows : /\ k = Smallest(ClassOf(rows, k))
                                  /\ d \in Members(ChainLinks(ClassOf(rows, k), weight))
  BY ExactDecisionsAre
<1>8. /\ IsSeq(AllDecisions(rows, rs))
      /\ Members(AllDecisions(rows, rs)) = Members(ExactDecisions(rows, weight))
                                             \union Members(FlattenSeq(seqs))
  BY <1>2, <1>5, <1>7, Concatenated, ConcatenatedMembers
<1> QED
  BY <1>5, <1>6, <1>7, <1>8 DEF weight

\* No duplicate decision has only one of its two rows in U.
Respects(U, all) ==
    \A d \in Members(all) : d.decision = "duplicate" => (d.a \in U <=> d.b \in U)

\* A set that no chain link of a class leaves has all of the class or nothing.
LEMMA ChainSpans ==
    ASSUME NEW C \in SUBSET Nat, IsFiniteSet(C), NEW weight, NEW U,
           \A d \in Members(ChainLinks(C, weight)) : d.a \in U <=> d.b \in U,
           NEW x \in C, NEW y \in C
    PROVE  x \in U <=> y \in U
<1> DEFINE s == Ascending(C)
           n == Cardinality(C)
<1>1. n \in Nat /\ \A z \in C : \E k \in 1..n : s[k] = z
  BY AscendingIs
<1>2. ASSUME NEW k \in 1..(n - 1) PROVE s[k] \in U <=> s[k + 1] \in U
  <2> DEFINE d == Decision(s[k], s[k + 1], "exact_row_match", weight, "duplicate")
  <2>1. d.a = s[k] /\ d.b = s[k + 1]
    BY DEF Decision
  <2>2. d \in Members(ChainLinks(C, weight))
    BY ChainLinksAre
  <2> QED
    BY <2>1, <2>2
<1> HIDE DEF s, n
<1> DEFINE T == {k \in Nat : k + 1 <= n => (s[k + 1] \in U <=> s[1] \in U)}
<1>3. 0 \in T
  OBVIOUS
<1>4. ASSUME NEW k \in T PROVE k + 1 \in T
  <2>1. k \in Nat
    OBVIOUS
  <2>2. CASE (k + 1) + 1 <= n
    <3>1. k + 1 \in 1..(n - 1) /\ k + 1 <= n
      BY <1>1, <2>1, <2>2
    <3>2. s[k + 1] \in U <=> s[(k + 1) + 1] \in U
      BY <1>2, <3>1
    <3> QED
      BY <2>1, <3>1, <3>2
  <2>3. CASE ~((k + 1) + 1 <= n)
    BY <2>1, <2>3
  <2> QED
    BY <2>2, <2>3
<1>5. \A k \in Nat : k \in T
  <2> HIDE DEF T
  <2>1. T \in SUBSET Nat
    BY DEF T
  <2> QED
    BY <1>3, <1>4, <2>1, Induction
<1>6. ASSUME NEW k \in 1..n PROVE s[k] \in U <=> s[1] \in U
  <2>1. k - 1 \in Nat /\ (k - 1) + 1 = k /\ k <= n
    BY <1>1
  <2>2. k - 1 \in T
    BY <1>5, <2>1
  <2> QED
    BY <2>1, <2>2
<1>7. PICK i \in 1..n : s[i] = x
  BY <1>1
<1>8. PICK j \in 1..n : s[j] = y
  BY <1>1
<1> QED
  BY <1>6, <1>7, <1>8

\* The classes of identical rows.
LEMMA ClassesAre ==
    ASSUME NEW rows, IsSeq(rows), NEW i \in DOMAIN rows
    PROVE  /\ ClassOf(rows, i) \in SUBSET DOMAIN rows
           /\ ClassOf(rows, i) \in SUBSET Nat /\ IsFiniteSet(ClassOf(rows, i))
           /\ i \in ClassOf(rows, i)
           /\ Smallest(ClassOf(rows, i)) \in ClassOf(rows, i)
           /\ \A j \in ClassOf(rows, i) : ClassOf(rows, j) = ClassOf(rows, i)
<1>1. ClassOf(rows, i) \in SUBSET DOMAIN rows /\ i \in ClassOf(rows, i)
  BY DEF ClassOf
<1>2. \A j \in ClassOf(rows, i) : ClassOf(rows, j) = ClassOf(rows, i)
  BY DEF ClassOf
<1> QED
  BY <1>1, <1>2, RowSets

\* A duplicate decision is on two different rows that are linked.
LEMMA JoinedRowsAreLinked ==
    ASSUME NEW rows, IsSeq(rows), NEW rs,
           NEW d \in Members(AllDecisions(rows, rs)), d.decision = "duplicate"
    PROVE  /\ d.a \in DOMAIN rows /\ d.b \in DOMAIN rows /\ d.a # d.b
           /\ <<d.a, d.b>> \in Linked(rows, rs)
<1> DEFINE L(i, j) == \/ rows[i] = rows[j]
                      \/ /\ \E b \in Compared(rows, rs) : \E x \in b, y \in b :
                               rows[x] = rows[i] /\ rows[y] = rows[j]
                         /\ compare_pair(rows[i], rows[j], rs.fields) >= rs.duplicate_threshold
<1>1. PICK weight : \A x : x \in Members(AllDecisions(rows, rs)) <=>
                \/ \E k \in DOMAIN rows : /\ k = Smallest(ClassOf(rows, k))
                                          /\ x \in Members(ChainLinks(ClassOf(rows, k), weight))
                \/ \E b \in Compared(rows, rs) : x \in Members(BlockDecisions(b, rows, rs))
  BY AllDecisionsAre
<1>2. ASSUME NEW k \in DOMAIN rows, d \in Members(ChainLinks(ClassOf(rows, k), weight))
      PROVE  d.a \in DOMAIN rows /\ d.b \in DOMAIN rows /\ d.a # d.b /\ L(d.a, d.b)
  <2> DEFINE C == ClassOf(rows, k)
             s == Ascending(C)
  <2>1. C \in SUBSET DOMAIN rows /\ C \in SUBSET Nat /\ IsFiniteSet(C)
    BY ClassesAre
  <2>2. PICK n \in 1..(Cardinality(C) - 1) :
            d = Decision(s[n], s[n + 1], "exact_row_match", weight, "duplicate")
    <3> HIDE DEF C
    <3> QED
      BY <1>2, <2>1, ChainLinksAre DEF C
  <2>3. /\ Cardinality(C) \in Nat /\ s \in [1..Cardinality(C) -> C]
        /\ \A j \in 1..Cardinality(C) : \A i \in 1..(j - 1) : s[i] < s[j]
    <3> HIDE DEF C
    <3> QED
      BY <2>1, AscendingIs
  <2>4. n \in 1..Cardinality(C) /\ n + 1 \in 1..Cardinality(C) /\ n \in 1..((n + 1) - 1)
    BY <2>3
  <2>5. s[n] \in C /\ s[n + 1] \in C /\ s[n] < s[n + 1]
    BY <2>3, <2>4
  <2>6. d.a = s[n] /\ d.b = s[n + 1]
    BY <2>2 DEF Decision
  <2>7. d.a # d.b
    BY <2>1, <2>5, <2>6
  <2> QED
    BY <2>1, <2>5, <2>6, <2>7 DEF ClassOf
<1>3. ASSUME NEW b \in Compared(rows, rs), d \in Members(BlockDecisions(b, rows, rs))
      PROVE  d.a \in DOMAIN rows /\ d.b \in DOMAIN rows /\ d.a # d.b /\ L(d.a, d.b)
  <2>1. b \in SUBSET DOMAIN rows
    BY ComparedAre
  <2>2. b \in SUBSET Nat /\ IsFiniteSet(b)
    BY <2>1, RowSets
  <2>3. PICK p \in Members(PairsOf(b)) : d \in Members(PairDecision(p, rows, rs))
    BY <1>3, <2>2, BlockDecisionsAre
  <2>4. PICK x \in b, y \in b : x < y /\ p = <<x, y>>
    BY <2>2, <2>3, PairsAre
  <2>5. d.a = p[1] /\ d.b = p[2] /\ Score(p, rows, rs) >= rs.duplicate_threshold
    BY <2>3, PairDecisionIs
  <2>6. d.a = x /\ d.b = y /\ x # y
        /\ compare_pair(rows[x], rows[y], rs.fields) >= rs.duplicate_threshold
    BY <2>2, <2>4, <2>5 DEF Score
  <2> QED
    BY <2>1, <2>6
<1>4. d.a \in DOMAIN rows /\ d.b \in DOMAIN rows /\ d.a # d.b /\ L(d.a, d.b)
  BY <1>1, <1>2, <1>3
<1>5. PICK l : l = <<d.a, d.b>>
  OBVIOUS
<1>6. l \in (DOMAIN rows) \X (DOMAIN rows) /\ L(l[1], l[2])
  BY <1>4, <1>5
<1>7. l \in Linked(rows, rs)
  BY <1>6 DEF Linked
<1> QED
  BY <1>4, <1>5, <1>7

\* The duplicate decisions and the links of the reference connect the same
\* rows: a set that no decision straddles is one that no link leaves.
LEMMA DecisionsAreLinks ==
    ASSUME NEW rows, IsSeq(rows), NEW rs, NEW U \in SUBSET DOMAIN rows
    PROVE  Respects(U, AllDecisions(rows, rs))
             <=> ~ \E l \in Linked(rows, rs) : l[1] \in U /\ l[2] \notin U
<1> DEFINE all == AllDecisions(rows, rs)
           L(i, j) == \/ rows[i] = rows[j]
                      \/ /\ \E b \in Compared(rows, rs) : \E x \in b, y \in b :
                               rows[x] = rows[i] /\ rows[y] = rows[j]
                         /\ compare_pair(rows[i], rows[j], rs.fields) >= rs.duplicate_threshold
<1>1. PICK weight : \A d : d \in Members(all) <=>
                \/ \E k \in DOMAIN rows : /\ k = Smallest(ClassOf(rows, k))
                                          /\ d \in Members(ChainLinks(ClassOf(rows, k), weight))
                \/ \E b \in Compared(rows, rs) : d \in Members(BlockDecisions(b, rows, rs))
  BY AllDecisionsAre
<1>2. \A l : l \in Linked(rows, rs) <=> l \in (DOMAIN rows) \X (DOMAIN rows) /\ L(l[1], l[2])
  BY DEF Linked
<1>3. \A i, j : L(i, j) => L(j, i)
  BY ScoresAreSymmetric
<1>4. \A b \in Compared(rows, rs) :
         b \in SUBSET DOMAIN rows /\ b \in SUBSET Nat /\ IsFiniteSet(b)
  <2> SUFFICES ASSUME NEW b \in Compared(rows, rs)
               PROVE  b \in SUBSET DOMAIN rows /\ b \in SUBSET Nat /\ IsFiniteSet(b)
    OBVIOUS
  <2>1. b \in SUBSET DOMAIN rows
    BY ComparedAre
  <2> QED
    BY <2>1, RowSets
<1>5. ASSUME \A i, j \in DOMAIN rows : L(i, j) /\ i \in U => j \in U,
             NEW d \in Members(all), d.decision = "duplicate"
      PROVE  d.a \in U <=> d.b \in U
  <2>1. d.a \in DOMAIN rows /\ d.b \in DOMAIN rows /\ L(d.a, d.b)
    <3>1. <<d.a, d.b>> \in Linked(rows, rs)
      BY <1>5, JoinedRowsAreLinked
    <3>2. PICK l : l = <<d.a, d.b>>
      OBVIOUS
    <3>3. l[1] = d.a /\ l[2] = d.b /\ l \in (DOMAIN rows) \X (DOMAIN rows) /\ L(l[1], l[2])
      BY <1>2, <3>1, <3>2
    <3> QED
      BY <3>3
  <2> QED
    BY <1>3, <1>5, <2>1
<1>6. ASSUME Respects(U, all), NEW i \in DOMAIN rows, NEW j \in DOMAIN rows, rows[i] = rows[j]
      PROVE  i \in U <=> j \in U
  <2> DEFINE C == ClassOf(rows, i)
  <2>1. PICK k : k = Smallest(C)
    OBVIOUS
  <2>2. /\ C \in SUBSET DOMAIN rows /\ C \in SUBSET Nat /\ IsFiniteSet(C)
        /\ i \in C /\ k \in C /\ ClassOf(rows, k) = C
    BY <2>1, ClassesAre
  <2>3. j \in C
    BY <1>6 DEF ClassOf
  <2> HIDE DEF C
  <2>4. ASSUME NEW d \in Members(ChainLinks(C, weight)) PROVE d.a \in U <=> d.b \in U
    <3>1. d \in Members(all)
      BY <1>1, <2>1, <2>2, <2>4
    <3>2. d.decision = "duplicate"
      BY <2>2, <2>4, ChainLinksAre DEF Decision
    <3> QED
      BY <1>6, <3>1, <3>2 DEF Respects
  <2> QED
    BY <2>2, <2>3, <2>4, ChainSpans
<1>7. ASSUME Respects(U, all), NEW i \in DOMAIN rows, NEW j \in DOMAIN rows, L(i, j), i \in U
      PROVE  j \in U
  <2>1. CASE rows[i] = rows[j]
    BY <1>6, <1>7, <2>1
  <2>2. CASE rows[i] # rows[j]
    <3>0. PICK b \in Compared(rows, rs) :
              \E x \in b, y \in b : rows[x] = rows[i] /\ rows[y] = rows[j]
      BY <1>7, <2>2
    <3>1. PICK x \in b, y \in b : rows[x] = rows[i] /\ rows[y] = rows[j]
      BY <3>0
    <3>2. compare_pair(rows[i], rows[j], rs.fields) >= rs.duplicate_threshold
      BY <1>7, <2>2
    <3>3. x # y /\ x \in Nat /\ y \in Nat /\ x \in DOMAIN rows /\ y \in DOMAIN rows
      BY <1>4, <2>2, <3>1
    <3>4. /\ compare_pair(rows[x], rows[y], rs.fields) >= rs.duplicate_threshold
          /\ compare_pair(rows[y], rows[x], rs.fields) >= rs.duplicate_threshold
      BY <3>1, <3>2, ScoresAreSymmetric
    <3>5. ASSUME NEW v \in b, NEW w \in b, v < w,
                 compare_pair(rows[v], rows[w], rs.fields) >= rs.duplicate_threshold
          PROVE  v \in U <=> w \in U
      <4>1. PICK p : p = <<v, w>>
        OBVIOUS
      <4>2. p \in Members(PairsOf(b))
        BY <1>4, <3>5, <4>1, PairsAre
      <4>3. Score(p, rows, rs) >= rs.duplicate_threshold /\ p[1] = v /\ p[2] = w
        BY <3>5, <4>1 DEF Score
      <4>4. PICK d \in Members(PairDecision(p, rows, rs)) :
                d.a = p[1] /\ d.b = p[2] /\ d.decision = "duplicate"
        BY <4>3, PairDecisionIs
      <4>5. d \in Members(all)
        BY <1>1, <1>4, <4>2, <4>4, BlockDecisionsAre
      <4> QED
        BY <1>7, <4>3, <4>4, <4>5 DEF Respects
    <3>6. x \in U <=> y \in U
      <4>1. CASE x < y
        BY <3>1, <3>4, <3>5, <4>1
      <4>2. CASE y < x
        BY <3>1, <3>4, <3>5, <4>2
      <4> QED
        BY <3>3, <4>1, <4>2
    <3>7. (i \in U <=> x \in U) /\ (j \in U <=> y \in U)
      BY <1>6, <1>7, <3>1, <3>3
    <3> QED
      BY <1>7, <3>6, <3>7
  <2> QED
    BY <2>1, <2>2
<1> HIDE DEF L
<1>8. (~ \E l \in Linked(rows, rs) : l[1] \in U /\ l[2] \notin U)
        <=> \A i, j \in DOMAIN rows : L(i, j) /\ i \in U => j \in U
  <2>1. ASSUME \A i, j \in DOMAIN rows : L(i, j) /\ i \in U => j \in U,
               NEW l \in Linked(rows, rs), l[1] \in U
        PROVE  l[2] \in U
    <3>1. l \in (DOMAIN rows) \X (DOMAIN rows) /\ L(l[1], l[2])
      BY <1>2, <2>1
    <3>2. l[1] \in DOMAIN rows /\ l[2] \in DOMAIN rows
      BY <3>1
    <3> QED
      BY <2>1, <3>1, <3>2
  <2>2. ASSUME ~ \E l \in Linked(rows, rs) : l[1] \in U /\ l[2] \notin U,
               NEW i \in DOMAIN rows, NEW j \in DOMAIN rows, L(i, j), i \in U
        PROVE  j \in U
    <3>1. PICK l : l = <<i, j>>
      OBVIOUS
    <3>2. l \in (DOMAIN rows) \X (DOMAIN rows) /\ l[1] = i /\ l[2] = j
      BY <3>1
    <3>3. l \in Linked(rows, rs)
      BY <1>2, <2>2, <3>2
    <3> QED
      BY <2>2, <3>2, <3>3
  <2> QED
    BY <2>1, <2>2
<1> QED
  BY <1>5, <1>7, <1>8 DEF Respects

-----------------------------------------------------------------------------
(***************************************************************************)
(* Union-find: the forest of match() after each decision.                  *)
(***************************************************************************)

\* rep gives the root of every node; ranks grow on the way up, to at most m.
Rooted(uf, n, rep, m) ==
    /\ uf = [parent |-> uf.parent, rank |-> uf.rank]
    /\ uf.parent \in [1..n -> 1..n] /\ uf.rank \in [1..n -> 0..m]
    /\ rep \in [1..n -> 1..n]
    /\ \A i \in 1..n :
         /\ rep[rep[i]] = rep[i] /\ rep[uf.parent[i]] = rep[i]
         /\ uf.parent[i] = i <=> rep[i] = i
         /\ uf.parent[i] # i => uf.rank[i] < uf.rank[uf.parent[i]]
         /\ rep[i] # i => uf.rank[i] < uf.rank[rep[i]]

\* find returns the root, and its way up stays below it.
LEMMA FindIs ==
    ASSUME NEW n \in Nat, NEW m \in Nat, NEW uf, NEW rep, Rooted(uf, n, rep, m), NEW x \in 1..n
    PROVE  /\ find(uf, x) = rep[x]
           /\ PathUp(uf.parent, x) \subseteq {y \in 1..n : rep[y] = rep[x]}
           /\ x \in PathUp(uf.parent, x)
<1> DEFINE path == PathUp(uf.parent, x)
           below == {y \in 1..n : rep[y] = rep[x]}
<1>1. /\ uf.parent \in [1..n -> 1..n] /\ uf.rank \in [1..n -> 0..m] /\ DOMAIN uf.parent = 1..n
      /\ rep \in [1..n -> 1..n]
      /\ \A i \in 1..n : /\ rep[rep[i]] = rep[i] /\ rep[uf.parent[i]] = rep[i]
                         /\ uf.parent[i] = i <=> rep[i] = i
                         /\ uf.parent[i] # i => uf.rank[i] < uf.rank[uf.parent[i]]
  BY DEF Rooted
<1>2. /\ path \subseteq 1..n /\ x \in path
      /\ \A y \in path : uf.parent[y] \in path
      /\ \A S \in SUBSET (1..n) : (\A i \in S : uf.parent[i] \in S) /\ x \in S => path \subseteq S
  BY <1>1 DEF PathUp
<1> HIDE DEF path
<1>3. path \subseteq below
  <2>1. below \in SUBSET (1..n) /\ x \in below
    OBVIOUS
  <2>2. \A i \in below : uf.parent[i] \in below
    BY <1>1
  <2> QED
    BY <1>2, <2>1, <2>2
<1>4. PICK r \in path : uf.parent[r] = r
  <2> DEFINE T == {m - uf.rank[y] : y \in path}
  <2>1. \A y \in path : uf.rank[y] \in 0..m
    BY <1>1, <1>2
  <2>2. T \in SUBSET Nat /\ T # {}
    BY <1>2, <2>1
  <2>3. PICK t \in T : \A u \in T : t <= u
    BY <2>2, LeastNatural
  <2>4. PICK r \in path : t = m - uf.rank[r]
    OBVIOUS
  <2>5. uf.parent[r] \in path /\ m - uf.rank[uf.parent[r]] \in T
    BY <1>2
  <2>6. m - uf.rank[r] <= m - uf.rank[uf.parent[r]]
    BY <2>3, <2>4, <2>5
  <2>7. ~(uf.rank[r] < uf.rank[uf.parent[r]])
    BY <2>1, <2>5, <2>6
  <2> QED
    BY <1>1, <1>2, <2>7
<1>5. \A q \in path : uf.parent[q] = q => q = rep[x]
  <2> SUFFICES ASSUME NEW q \in path, uf.parent[q] = q PROVE q = rep[x]
    OBVIOUS
  <2>1. q \in 1..n /\ rep[q] = rep[x]
    BY <1>3
  <2> QED
    BY <1>1, <2>1
<1>6. find(uf, x) = rep[x]
  <2>1. find(uf, x) \in path /\ uf.parent[find(uf, x)] = find(uf, x)
    BY <1>4 DEF find, path
  <2> QED
    BY <1>5, <2>1
<1> QED
  BY <1>2, <1>3, <1>6 DEF path

\* Compression moves no node to another root.
LEMMA CompressIs ==
    ASSUME NEW n \in Nat, NEW m \in Nat, NEW uf, NEW rep, Rooted(uf, n, rep, m), NEW x \in 1..n
    PROVE  Rooted(compress(uf, x), n, rep, m)
<1> DEFINE path == PathUp(uf.parent, x)
           parent == [i \in 1..n |-> IF i \in path THEN rep[x] ELSE uf.parent[i]]
<1>1. /\ uf = [parent |-> uf.parent, rank |-> uf.rank]
      /\ uf.parent \in [1..n -> 1..n] /\ uf.rank \in [1..n -> 0..m] /\ DOMAIN uf.parent = 1..n
      /\ rep \in [1..n -> 1..n]
      /\ \A i \in 1..n : /\ rep[rep[i]] = rep[i] /\ rep[uf.parent[i]] = rep[i]
                         /\ uf.parent[i] = i <=> rep[i] = i
                         /\ uf.parent[i] # i => uf.rank[i] < uf.rank[uf.parent[i]]
                         /\ rep[i] # i => uf.rank[i] < uf.rank[rep[i]]
  BY DEF Rooted
<1>2. find(uf, x) = rep[x] /\ \A i \in path : i \in 1..n /\ rep[i] = rep[x]
  BY FindIs
<1>3. compress(uf, x) = [parent |-> parent, rank |-> uf.rank]
  <2>1. compress(uf, x) = [uf EXCEPT !.parent = [i \in DOMAIN uf.parent |->
                             IF i \in path THEN find(uf, x) ELSE uf.parent[i]]]
    BY <1>1 DEF compress
  <2>2. compress(uf, x) = [uf EXCEPT !.parent = parent]
    BY <1>1, <1>2, <2>1
  <2> HIDE DEF parent
  <2>3. \A p, r, q : [[parent |-> p, rank |-> r] EXCEPT !.parent = q] = [parent |-> q, rank |-> r]
    OBVIOUS
  <2> QED
    BY <1>1, <2>2, <2>3
<1>4. parent \in [1..n -> 1..n]
  BY <1>1
<1>5. ASSUME NEW i \in 1..n
      PROVE  /\ rep[parent[i]] = rep[i]
             /\ parent[i] = i <=> rep[i] = i
             /\ parent[i] # i => uf.rank[i] < uf.rank[parent[i]]
  <2>1. CASE i \in path
    <3>1. parent[i] = rep[x] /\ rep[i] = rep[x]
      BY <1>2, <2>1
    <3> HIDE DEF parent
    <3> QED
      BY <1>1, <3>1
  <2>2. CASE i \notin path
    <3>1. parent[i] = uf.parent[i]
      BY <2>2
    <3> HIDE DEF parent
    <3> QED
      BY <1>1, <3>1
  <2> QED
    BY <2>1, <2>2
<1> HIDE DEF parent
<1> DEFINE flat == [parent |-> parent, rank |-> uf.rank]
<1>6. flat = [parent |-> flat.parent, rank |-> flat.rank]
      /\ flat.parent = parent /\ flat.rank = uf.rank
  OBVIOUS
<1> HIDE DEF flat
<1>7. Rooted(flat, n, rep, m)
  BY <1>1, <1>4, <1>5, <1>6 DEF Rooted
<1> QED
  BY <1>3, <1>7 DEF flat

\* The roots after the tree of low has been put under high.
Attached(rep, low, high) == [i \in DOMAIN rep |-> IF rep[i] = low THEN high ELSE rep[i]]

\* union merges the trees of its two nodes and no others.
LEMMA UnionIs ==
    ASSUME NEW n \in Nat, NEW m \in Nat, NEW uf, NEW rep, Rooted(uf, n, rep, m),
           NEW a \in 1..n, NEW b \in 1..n
    PROVE  \E low, high : /\ {low, high} = {rep[a], rep[b]}
                          /\ Rooted(union(uf, a, b), n, Attached(rep, low, high), m + 1)
<1> DEFINE flat == compress(compress(uf, a), b)
           ra == find(flat, a)
           rb == find(flat, b)
           high == IF flat.rank[ra] < flat.rank[rb] THEN rb ELSE ra
           low == IF high = ra THEN rb ELSE ra
           raised == IF flat.rank[low] = flat.rank[high] THEN flat.rank[high] + 1 ELSE flat.rank[high]
<1>1. Rooted(flat, n, rep, m)
  BY CompressIs
<1>2. union(uf, a, b) = IF ra = rb THEN flat
                        ELSE [flat EXCEPT !.parent[low] = high,
                                          !.rank[high] = IF flat.rank[low] = @ THEN @ + 1 ELSE @]
  BY DEF union
<1>3. PICK uf2 : uf2 = union(uf, a, b)
  OBVIOUS
<1> HIDE DEF flat
<1>4. ra = rep[a] /\ rb = rep[b]
  BY <1>1, FindIs
<1> HIDE DEF ra, rb
<1>5. {low, high} = {rep[a], rep[b]}
  BY <1>4
<1>6. /\ flat = [parent |-> flat.parent, rank |-> flat.rank]
      /\ flat.parent \in [1..n -> 1..n] /\ flat.rank \in [1..n -> 0..m]
      /\ DOMAIN flat.parent = 1..n /\ DOMAIN flat.rank = 1..n
      /\ rep \in [1..n -> 1..n] /\ DOMAIN rep = 1..n
      /\ \A i \in 1..n : /\ rep[rep[i]] = rep[i] /\ rep[flat.parent[i]] = rep[i]
                         /\ flat.parent[i] = i <=> rep[i] = i
                         /\ flat.parent[i] # i => flat.rank[i] < flat.rank[flat.parent[i]]
                         /\ rep[i] # i => flat.rank[i] < flat.rank[rep[i]]
  BY <1>1 DEF Rooted
<1>7. CASE ra = rb
  <2>1. low = rep[a] /\ high = rep[a]
    BY <1>4, <1>7
  <2>2. Attached(rep, rep[a], rep[a]) = rep
    BY <1>6 DEF Attached
  <2>3. Rooted(flat, n, rep, m + 1)
    <3>1. flat.rank \in [1..n -> 0..(m + 1)]
      BY <1>6
    <3> QED
      BY <1>1, <3>1 DEF Rooted
  <2>4. union(uf, a, b) = flat
    BY <1>2, <1>7
  <2> QED
    BY <1>5, <2>1, <2>2, <2>3, <2>4
<1>8. CASE ra # rb
  <2>1. /\ low \in 1..n /\ high \in 1..n /\ low # high
        /\ rep[low] = low /\ rep[high] = high
        /\ flat.rank[low] <= flat.rank[high]
    <3>1. ra \in 1..n /\ rb \in 1..n /\ rep[ra] = ra /\ rep[rb] = rb
      BY <1>4, <1>6
    <3>2. flat.rank[ra] \in Nat /\ flat.rank[rb] \in Nat
      BY <1>6, <3>1
    <3> QED
      BY <1>8, <3>1, <3>2
  <2> HIDE DEF low, high
  <2> DEFINE parent == [flat.parent EXCEPT ![low] = high]
             rank == [flat.rank EXCEPT ![high] = raised]
             rep2 == Attached(rep, low, high)
             new == [parent |-> parent, rank |-> rank]
  <2>2. union(uf, a, b) = new
    BY <1>2, <1>6, <1>8
  <2>3. /\ raised \in 0..(m + 1) /\ flat.rank[low] < raised /\ flat.rank[high] <= raised
        /\ \A i \in 1..n : flat.rank[i] \in 0..m
    BY <1>6, <2>1
  <2> HIDE DEF raised
  <2>4. /\ parent \in [1..n -> 1..n]
        /\ parent[low] = high /\ \A i \in 1..n : i # low => parent[i] = flat.parent[i]
    BY <1>6, <2>1
  <2>5. /\ rank \in [1..n -> 0..(m + 1)]
        /\ rank[high] = raised /\ \A i \in 1..n : i # high => rank[i] = flat.rank[i]
    BY <1>6, <2>1, <2>3
  <2>6. /\ rep2 \in [1..n -> 1..n]
        /\ \A i \in 1..n : rep2[i] = IF rep[i] = low THEN high ELSE rep[i]
    BY <1>6, <2>1 DEF Attached
  <2>7. new = [parent |-> new.parent, rank |-> new.rank] /\ new.parent = parent /\ new.rank = rank
    OBVIOUS
  <2> HIDE DEF parent, rank, rep2, new
  <2>8. ASSUME NEW i \in 1..n
        PROVE  /\ rep2[rep2[i]] = rep2[i] /\ rep2[parent[i]] = rep2[i]
               /\ parent[i] = i <=> rep2[i] = i
               /\ parent[i] # i => rank[i] < rank[parent[i]]
               /\ rep2[i] # i => rank[i] < rank[rep2[i]]
    <3>1. /\ rep[i] \in 1..n /\ rep[rep[i]] = rep[i] /\ rep[flat.parent[i]] = rep[i]
          /\ flat.parent[i] \in 1..n
          /\ flat.parent[i] = i <=> rep[i] = i
          /\ flat.parent[i] # i => flat.rank[i] < flat.rank[flat.parent[i]]
          /\ rep[i] # i => flat.rank[i] < flat.rank[rep[i]]
      BY <1>6
    <3>2. rep2[low] = high /\ rep2[high] = high
      BY <2>1, <2>6
    <3>3. \A j \in 1..n : flat.rank[j] <= rank[j] /\ (j # high => rank[j] = flat.rank[j])
      BY <2>1, <2>3, <2>5
    <3>4. rep2[rep2[i]] = rep2[i]
      BY <2>1, <2>6, <3>1, <3>2
    <3>5. CASE i = low
      <4>1. parent[i] = high /\ rep2[i] = high /\ rank[i] = flat.rank[low] /\ rank[high] = raised
        BY <2>1, <2>4, <2>5, <3>2, <3>5
      <4> QED
        BY <2>1, <2>3, <3>2, <3>4, <3>5, <4>1
    <3>6. CASE i # low
      <4>1. parent[i] = flat.parent[i]
        BY <2>4, <3>6
      <4>2. rep2[parent[i]] = rep2[i]
        BY <2>6, <3>1, <4>1
      <4>3. parent[i] = i <=> rep2[i] = i
        BY <2>1, <2>6, <3>1, <3>6, <4>1
      <4>4. parent[i] # i => rank[i] < rank[parent[i]]
        <5> SUFFICES ASSUME parent[i] # i PROVE rank[i] < rank[parent[i]]
          OBVIOUS
        <5>1. i # high
          BY <1>6, <2>1, <3>1, <4>1
        <5>2. rank[i] = flat.rank[i] /\ flat.rank[flat.parent[i]] <= rank[flat.parent[i]]
          BY <3>1, <3>3, <5>1
        <5>3. rank[flat.parent[i]] \in Nat /\ flat.rank[i] \in Nat /\ flat.rank[flat.parent[i]] \in Nat
          BY <2>3, <2>5, <3>1
        <5> QED
          BY <3>1, <4>1, <5>2, <5>3
      <4>5. rep2[i] # i => rank[i] < rank[rep2[i]]
        <5> SUFFICES ASSUME rep2[i] # i PROVE rank[i] < rank[rep2[i]]
          OBVIOUS
        <5>1. i # high /\ rep[i] # i
          BY <2>1, <2>6, <3>1, <3>2, <3>6
        <5>2. rank[i] = flat.rank[i] /\ flat.rank[i] < flat.rank[rep[i]]
          BY <3>1, <3>3, <5>1
        <5>3. flat.rank[i] \in Nat /\ flat.rank[rep[i]] \in Nat /\ rank[rep[i]] \in Nat /\ raised \in Nat
              /\ flat.rank[low] \in Nat
          BY <2>1, <2>3, <2>5, <3>1
        <5>4. CASE rep[i] = low
          <6>1. rep2[i] = high /\ rank[high] = raised
            BY <2>5, <2>6, <5>4
          <6> QED
            BY <2>3, <5>2, <5>3, <5>4, <6>1
        <5>5. CASE rep[i] # low
          <6>1. rep2[i] = rep[i] /\ flat.rank[rep[i]] <= rank[rep[i]]
            BY <2>6, <3>1, <3>3, <5>5
          <6> QED
            BY <5>2, <5>3, <6>1
        <5> QED
          BY <5>4, <5>5
      <4> QED
        BY <3>4, <4>2, <4>3, <4>4, <4>5
    <3> QED
      BY <3>5, <3>6
  <2>9. Rooted(new, n, rep2, m + 1)
    BY <2>4, <2>5, <2>6, <2>7, <2>8 DEF Rooted
  <2> QED
    BY <1>5, <2>2, <2>9 DEF rep2
<1> QED
  BY <1>7, <1>8

\* The forests of match(): from separate rows, every duplicate joins two.
LEMMA ForestsAre ==
    ASSUME NEW n, NEW all, Len(all) \in Nat
    PROVE  /\ Forests(n, all)[0] = Forest(n)
           /\ \A k \in 1..Len(all) :
                Forests(n, all)[k] =
                  IF all[k].decision = "duplicate"
                  THEN union(Forests(n, all)[k - 1], all[k].a, all[k].b)
                  ELSE Forests(n, all)[k - 1]
<1> DEFINE Next1(f, k) == IF k = 0 THEN Forest(n)
                          ELSE IF all[k].decision = "duplicate" THEN union(f[k - 1], all[k].a, all[k].b)
                               ELSE f[k - 1]
           Steps(f, m) == [k \in 0..m |-> Next1(f, k)]
           T == {m \in Nat : \E f : f = Steps(f, m)}
<1>1. 0 \in T
  <2> DEFINE g == [k \in 0..0 |-> Forest(n)]
  <2>1. \A k \in 0..0 : Next1(g, k) = Forest(n)
    OBVIOUS
  <2>2. g = Steps(g, 0)
    <3> HIDE DEF Next1
    <3> QED
      BY <2>1
  <2> QED
    BY <2>2
<1>2. ASSUME NEW m \in T PROVE m + 1 \in T
  <2>1. m \in Nat
    OBVIOUS
  <2>2. PICK f : f = Steps(f, m)
    OBVIOUS
  <2> DEFINE g == [k \in 0..(m + 1) |-> IF k <= m THEN f[k] ELSE Next1(f, k)]
  <2>3. ASSUME NEW k \in 0..(m + 1) PROVE g[k] = Next1(g, k)
    <3>1. k # 0 => k - 1 \in 0..(m + 1) /\ g[k - 1] = f[k - 1]
      <4> HIDE DEF Next1
      <4> QED
        BY <2>1
    <3>2. Next1(g, k) = Next1(f, k)
      <4> HIDE DEF g
      <4> QED
        BY <3>1
    <3> HIDE DEF Next1
    <3>3. CASE k <= m
      <4>1. k \in 0..m
        BY <2>1, <3>3
      <4>2. f[k] = Next1(f, k)
        BY <2>2, <4>1
      <4> QED
        BY <3>2, <3>3, <4>2
    <3>4. CASE ~(k <= m)
      BY <3>2, <3>4
    <3> QED
      BY <3>3, <3>4
  <2>4. g = [k \in 0..(m + 1) |-> g[k]]
    <3> HIDE DEF Next1
    <3> QED
      OBVIOUS
  <2> HIDE DEF g, Next1
  <2>5. g = Steps(g, m + 1)
    BY <2>3, <2>4
  <2>6. m + 1 \in Nat
    BY <2>1
  <2> QED
    BY <2>5, <2>6
<1>3. Len(all) \in T
  <2> HIDE DEF T
  <2>1. T \in SUBSET Nat
    BY DEF T
  <2> QED
    BY <1>1, <1>2, <2>1, Induction
<1> DEFINE F == CHOOSE f : f = Steps(f, Len(all))
<1>4. \E f : f = Steps(f, Len(all))
  BY <1>3
<1>5. F = Steps(F, Len(all))
  BY <1>4
<1>6. Forests(n, all) = F
  BY DEF Forests
<1> HIDE DEF F
<1>7. \A k \in 0..Len(all) : F[k] = Next1(F, k)
  <2> HIDE DEF Next1
  <2> QED
    BY <1>5
<1>8. F[0] = Forest(n)
  BY <1>7
<1>9. \A k \in 1..Len(all) : k \in 0..Len(all) /\ k # 0
  OBVIOUS
<1> QED
  BY <1>6, <1>7, <1>8, <1>9

\* After k decisions two rows have one root if a duplicate joined them, and
\* only rows that some chain of duplicates connects do.
JoinedBy(rep, n, all, k) ==
    /\ \A j \in 1..k : all[j].decision = "duplicate" => rep[all[j].a] = rep[all[j].b]
    /\ \A U \in SUBSET (1..n) :
         (\A j \in 1..k : all[j].decision = "duplicate" => (all[j].a \in U <=> all[j].b \in U))
           => \A i \in 1..n : i \in U <=> rep[i] \in U

\* The forest joins what the duplicates among its decisions connect.
LEMMA ForestJoins ==
    ASSUME NEW n \in Nat, NEW all, Len(all) \in Nat,
           \A k \in 1..Len(all) : all[k].decision = "duplicate" => all[k].a \in 1..n /\ all[k].b \in 1..n,
           NEW k \in 0..Len(all)
    PROVE  \E rep : Rooted(Forests(n, all)[k], n, rep, k) /\ JoinedBy(rep, n, all, k)
<1> DEFINE F == Forests(n, all)
           T == {m \in Nat : m <= Len(all) => \E rep : Rooted(F[m], n, rep, m) /\ JoinedBy(rep, n, all, m)}
<1>1. /\ F[0] = Forest(n)
      /\ \A m \in 1..Len(all) : F[m] = IF all[m].decision = "duplicate"
                                       THEN union(F[m - 1], all[m].a, all[m].b) ELSE F[m - 1]
  BY ForestsAre
<1> HIDE DEF F
<1>2. 0 \in T
  <2> DEFINE rep == [i \in 1..n |-> i]
             uf == Forest(n)
  <2>1. /\ uf = [parent |-> uf.parent, rank |-> uf.rank]
        /\ uf.parent = rep /\ uf.rank = [i \in 1..n |-> 0]
    BY DEF Forest
  <2> HIDE DEF uf
  <2>2. Rooted(uf, n, rep, 0)
    BY <2>1 DEF Rooted
  <2>3. JoinedBy(rep, n, all, 0)
    BY DEF JoinedBy
  <2>4. F[0] = uf
    BY <1>1 DEF uf
  <2> HIDE DEF rep
  <2> QED
    BY <2>2, <2>3, <2>4
<1>3. ASSUME NEW m \in T PROVE m + 1 \in T
  <2>1. m \in Nat
    OBVIOUS
  <2> SUFFICES ASSUME m + 1 <= Len(all)
               PROVE  \E rep : Rooted(F[m + 1], n, rep, m + 1) /\ JoinedBy(rep, n, all, m + 1)
    BY <2>1
  <2>2. PICK rep : Rooted(F[m], n, rep, m) /\ JoinedBy(rep, n, all, m)
    BY <2>1
  <2>3. m + 1 \in 1..Len(all) /\ (m + 1) - 1 = m
    BY <2>1
  <2> DEFINE d == all[m + 1]
  <2>4. F[m + 1] = IF d.decision = "duplicate" THEN union(F[m], d.a, d.b) ELSE F[m]
    BY <1>1, <2>3
  <2>5. \A j \in 1..(m + 1) : j \in 1..m \/ j = m + 1
    BY <2>1
  <2>6. \A j \in 1..m : j \in 1..(m + 1) /\ j \in 1..Len(all)
    BY <2>1, <2>3
  <2>7. /\ rep \in [1..n -> 1..n] /\ F[m].rank \in [1..n -> 0..m]
    BY <2>2 DEF Rooted
  <2>8. CASE d.decision # "duplicate"
    <3>1. Rooted(F[m], n, rep, m + 1)
      <4>1. F[m].rank \in [1..n -> 0..(m + 1)]
        <5>1. PICK rank : rank = F[m].rank
          OBVIOUS
        <5>2. 0..m \subseteq 0..(m + 1)
          BY <2>1
        <5>3. rank \in [1..n -> 0..(m + 1)]
          BY <2>7, <5>1, <5>2
        <5> QED
          BY <5>1, <5>3
      <4> QED
        BY <2>2, <4>1 DEF Rooted
    <3>2. JoinedBy(rep, n, all, m + 1)
      BY <2>2, <2>5, <2>6, <2>8 DEF JoinedBy
    <3> QED
      BY <2>4, <2>8, <3>1, <3>2
  <2>9. CASE d.decision = "duplicate"
    <3>1. d.a \in 1..n /\ d.b \in 1..n
      BY <2>3, <2>9
    <3>2. PICK low, high : /\ {low, high} = {rep[d.a], rep[d.b]}
                           /\ Rooted(union(F[m], d.a, d.b), n, Attached(rep, low, high), m + 1)
      <4>1. PICK uf : uf = F[m]
        OBVIOUS
      <4>2. Rooted(uf, n, rep, m)
        BY <2>2, <4>1
      <4> HIDE DEF d
      <4>3. \E low, high : /\ {low, high} = {rep[d.a], rep[d.b]}
                           /\ Rooted(union(uf, d.a, d.b), n, Attached(rep, low, high), m + 1)
        BY <2>1, <3>1, <4>2, UnionIs
      <4> QED
        BY <4>1, <4>3
    <3> DEFINE rep2 == Attached(rep, low, high)
    <3>3. \A i \in 1..n : rep2[i] = IF rep[i] = low THEN high ELSE rep[i]
      BY <2>7 DEF Attached
    <3> HIDE DEF rep2, d
    <3>4. rep2[d.a] = rep2[d.b]
      BY <3>1, <3>2, <3>3
    <3>5. \A j \in 1..(m + 1) : all[j].decision = "duplicate" => rep2[all[j].a] = rep2[all[j].b]
      <4> SUFFICES ASSUME NEW j \in 1..(m + 1), all[j].decision = "duplicate"
                   PROVE  rep2[all[j].a] = rep2[all[j].b]
        OBVIOUS
      <4>1. CASE j = m + 1
        BY <3>4, <4>1 DEF d
      <4>2. CASE j \in 1..m
        <5>1. rep[all[j].a] = rep[all[j].b] /\ all[j].a \in 1..n /\ all[j].b \in 1..n
          BY <2>2, <2>6, <4>2 DEF JoinedBy
        <5> QED
          BY <3>3, <5>1
      <4> QED
        BY <2>5, <4>1, <4>2
    <3>6. ASSUME NEW U \in SUBSET (1..n),
                 \A j \in 1..(m + 1) : all[j].decision = "duplicate" => (all[j].a \in U <=> all[j].b \in U),
                 NEW i \in 1..n
          PROVE  i \in U <=> rep2[i] \in U
      <4>1. \A v \in 1..n : v \in U <=> rep[v] \in U
        BY <2>2, <2>6, <3>6 DEF JoinedBy
      <4>2. m + 1 \in 1..(m + 1)
        BY <2>1
      <4>3. d.a \in U <=> d.b \in U
        BY <2>9, <3>6, <4>2 DEF d
      <4>4. low \in U <=> high \in U
        <5>1. rep[d.a] \in U <=> rep[d.b] \in U
          BY <3>1, <4>1, <4>3
        <5>2. \/ low = rep[d.a] /\ high = rep[d.b]
              \/ low = rep[d.b] /\ high = rep[d.a]
          BY <3>2
        <5> QED
          BY <5>1, <5>2
      <4> QED
        BY <3>3, <4>1, <4>4
    <3>7. JoinedBy(rep2, n, all, m + 1)
      BY <3>5, <3>6 DEF JoinedBy
    <3>8. Rooted(F[m + 1], n, rep2, m + 1)
      BY <2>4, <2>9, <3>2 DEF d, rep2
    <3> QED
      BY <3>7, <3>8
  <2> QED
    BY <2>8, <2>9
<1>4. k \in T
  <2> HIDE DEF T
  <2>1. T \in SUBSET Nat
    BY DEF T
  <2> QED
    BY <1>2, <1>3, <2>1, Induction
<1> QED
  BY <1>4 DEF F

-----------------------------------------------------------------------------
(***************************************************************************)
(* match() finds the classes of duplicates.                                *)
(***************************************************************************)

\* The rows with the same root as row i, and all such trees.
Tree(rep, n, i) == {j \in 1..n : rep[j] = rep[i]}
Trees(rep, n) == {Tree(rep, n, i) : i \in 1..n}

\* The components of a forest are its trees.
LEMMA ComponentsAre ==
    ASSUME NEW n \in Nat, NEW m \in Nat, NEW uf, NEW rep, Rooted(uf, n, rep, m)
    PROVE  components(uf) = Trees(rep, n)
<1>1. DOMAIN uf.parent = 1..n /\ rep \in [1..n -> 1..n]
  BY DEF Rooted
<1>2. \A i \in 1..n : find(uf, i) = rep[i]
  BY FindIs
<1>3. components(uf) = {{i \in 1..n : rep[i] = r} : r \in {rep[i] : i \in 1..n}}
  BY <1>1, <1>2 DEF components
<1> QED
  BY <1>3 DEF Trees, Tree

\* The trees after all decisions are the smallest sets of rows that no link
\* leaves.
LEMMA TreesAreClasses ==
    ASSUME NEW rows, IsSeq(rows), NEW rs, NEW rep \in [DOMAIN rows -> DOMAIN rows],
           \A i \in DOMAIN rows : rep[rep[i]] = rep[i],
           JoinedBy(rep, Len(rows), AllDecisions(rows, rs), Len(AllDecisions(rows, rs)))
    PROVE  Trees(rep, Len(rows)) = DuplicateClasses(rows, rs)
<1> DEFINE n == Len(rows)
           all == AllDecisions(rows, rs)
           links == Linked(rows, rs)
           Left(U) == \E l \in links : l[1] \in U /\ l[2] \notin U
           Closed == {U \in (SUBSET DOMAIN rows) \ {{}} : ~Left(U)}
           Minimal == {U \in Closed : \A V \in (SUBSET U) \ {{}, U} : Left(V)}
<1>1. n \in Nat /\ DOMAIN rows = 1..n
  BY RowSets
<1>2. DOMAIN all = 1..Len(all)
  <2>1. IsSeq(all)
    BY AllDecisionsAre
  <2> QED
    BY <2>1, SeqLen DEF IsSeq
<1>3. \A U \in SUBSET DOMAIN rows : Respects(U, all) <=> ~Left(U)
  BY DecisionsAreLinks
<1>4. \A U : Respects(U, all) <=>
         \A j \in 1..Len(all) : all[j].decision = "duplicate" => (all[j].a \in U <=> all[j].b \in U)
  BY <1>2 DEF Respects, Members
<1> HIDE DEF all, Left
<1>5. \A U \in SUBSET DOMAIN rows : ~Left(U) => \A i \in 1..n : i \in U <=> rep[i] \in U
  BY <1>1, <1>3, <1>4 DEF JoinedBy, all
<1>6. \A j \in 1..Len(all) : all[j].decision = "duplicate" => rep[all[j].a] = rep[all[j].b]
  BY DEF JoinedBy, all
<1>7. \A j \in 1..Len(all) : all[j].decision = "duplicate" =>
         all[j].a \in DOMAIN rows /\ all[j].b \in DOMAIN rows
  BY <1>2, JoinedRowsAreLinked DEF Members, all
<1>8. ASSUME NEW i \in 1..n
      PROVE  Tree(rep, n, i) \in Minimal
  <2> DEFINE U == Tree(rep, n, i)
  <2>1. U \in SUBSET DOMAIN rows /\ i \in U
    BY <1>1 DEF Tree
  <2>2. Respects(U, all)
    BY <1>1, <1>4, <1>6, <1>7 DEF Tree
  <2>3. U \in Closed
    BY <1>3, <2>1, <2>2
  <2>4. ASSUME NEW V \in (SUBSET U) \ {{}, U}, ~Left(V) PROVE FALSE
    <3>1. PICK j \in V : TRUE
      OBVIOUS
    <3>2. V \in SUBSET DOMAIN rows /\ j \in 1..n /\ rep[j] = rep[i]
      BY <1>1, <2>1, <3>1 DEF Tree
    <3>3. \A v \in 1..n : v \in V <=> rep[v] \in V
      BY <1>5, <2>4, <3>2
    <3>4. rep[i] \in V
      BY <3>1, <3>2, <3>3
    <3>5. \A v \in U : v \in 1..n /\ rep[v] = rep[i]
      BY DEF Tree
    <3>6. U \subseteq V
      BY <3>3, <3>4, <3>5
    <3> QED
      BY <3>6
  <2> QED
    BY <2>3, <2>4
<1>9. ASSUME NEW U \in Minimal
      PROVE  U \in Trees(rep, n)
  <2>1. U \in SUBSET DOMAIN rows /\ U # {} /\ ~Left(U)
        /\ \A V \in (SUBSET U) \ {{}, U} : Left(V)
    OBVIOUS
  <2>2. PICK i \in U : TRUE
    BY <2>1
  <2>3. i \in 1..n /\ \A v \in 1..n : v \in U <=> rep[v] \in U
    BY <1>1, <1>5, <2>1
  <2> DEFINE V == Tree(rep, n, i)
  <2>4. V \subseteq U /\ i \in V
    BY <2>2, <2>3 DEF Tree
  <2>5. V \in Minimal
    BY <1>8, <2>3
  <2>6. ~Left(V)
    BY <2>5
  <2> HIDE DEF V
  <2>7. V = U
    BY <2>1, <2>4, <2>6
  <2> QED
    BY <2>3, <2>7 DEF V, Trees
<1>10. Trees(rep, n) = Minimal
  <2> HIDE DEF Minimal
  <2>1. Trees(rep, n) \subseteq Minimal
    BY <1>8 DEF Trees
  <2> QED
    BY <1>9, <2>1
<1>11. DuplicateClasses(rows, rs) = IF links = {} THEN {} ELSE Minimal
  BY DEF DuplicateClasses, Left
<1>12. links = {} => Trees(rep, n) = {}
  <2> SUFFICES ASSUME links = {} PROVE 1..n = {}
    BY DEF Trees
  <2>1. ASSUME NEW i \in DOMAIN rows PROVE FALSE
    <3>1. PICK l : l = <<i, i>>
      OBVIOUS
    <3>2. l \in (DOMAIN rows) \X (DOMAIN rows) /\ rows[l[1]] = rows[l[2]]
      BY <3>1
    <3>3. l \in links
      BY <3>2 DEF Linked
    <3> QED
      BY <3>3
  <2> QED
    BY <1>1, <2>1
<1> QED
  BY <1>10, <1>11, <1>12

\* match() partitions the rows into the classes of duplicates, and the two
\* rows of a duplicate decision are in one class.
THEOREM MatchPartitions ==
    ASSUME NEW rows, IsSeq(rows), NEW rs
    PROVE  \E rep \in [DOMAIN rows -> DOMAIN rows] :
             /\ components(Forests(Len(rows), AllDecisions(rows, rs))[Len(AllDecisions(rows, rs))])
                  = Trees(rep, Len(rows))
             /\ DuplicateClasses(rows, rs) = Trees(rep, Len(rows))
             /\ \A d \in Members(AllDecisions(rows, rs)) :
                  d.decision = "duplicate" => rep[d.a] = rep[d.b]
<1> DEFINE n == Len(rows)
           all == AllDecisions(rows, rs)
           uf == Forests(n, all)[Len(all)]
<1>1. n \in Nat /\ DOMAIN rows = 1..n
  BY RowSets
<1>2. Len(all) \in Nat /\ DOMAIN all = 1..Len(all)
  <2>1. IsSeq(all)
    BY AllDecisionsAre
  <2> QED
    BY <2>1, SeqLen DEF IsSeq
<1>3. \A k \in 1..Len(all) : all[k].decision = "duplicate" => all[k].a \in 1..n /\ all[k].b \in 1..n
  <2> SUFFICES ASSUME NEW k \in 1..Len(all), all[k].decision = "duplicate"
               PROVE  all[k].a \in 1..n /\ all[k].b \in 1..n
    OBVIOUS
  <2>1. all[k] \in Members(all)
    BY <1>2 DEF Members
  <2> QED
    BY <1>1, <2>1, JoinedRowsAreLinked
<1>4. Len(all) \in 0..Len(all)
  BY <1>2
<1>5. PICK rep : Rooted(uf, n, rep, Len(all)) /\ JoinedBy(rep, n, all, Len(all))
  <2> HIDE DEF all, n
  <2> QED
    BY <1>1, <1>2, <1>3, <1>4, ForestJoins
<1>6. rep \in [1..n -> 1..n] /\ \A i \in 1..n : rep[rep[i]] = rep[i]
  BY <1>5 DEF Rooted
<1>7. components(uf) = Trees(rep, n)
  <2> HIDE DEF uf, n
  <2> QED
    BY <1>1, <1>2, <1>5, ComponentsAre
<1>8. Trees(rep, n) = DuplicateClasses(rows, rs)
  BY <1>1, <1>5, <1>6, TreesAreClasses
<1>9. \A d \in Members(all) : d.decision = "duplicate" => rep[d.a] = rep[d.b]
  BY <1>2, <1>5 DEF JoinedBy, Members
<1> QED
  BY <1>1, <1>6, <1>7, <1>8, <1>9

\* What a run records of its decisions and of the groups they make.
Records(run, n, all, groups) ==
    /\ \A g \in run.groups : \E c \in groups :
          g.canonical_row_index = Smallest(c) /\ g.record_count = Cardinality(c)
    /\ \A c \in groups : \E g \in run.groups :
          g.canonical_row_index = Smallest(c) /\ g.record_count = Cardinality(c)
    /\ run.row_count = n
    /\ DOMAIN run.decisions \subseteq DOMAIN all
    /\ \A k \in DOMAIN run.decisions :
         /\ run.decisions[k].a = all[k].a /\ run.decisions[k].b = all[k].b
         /\ run.decisions[k].group = Fed(all[k], groups)
    /\ run.duplicate_pairs_count = Cardinality({k \in DOMAIN all : all[k].decision = "duplicate"})
    /\ run.ambiguous_pairs_count
         = Len(all) - Cardinality({k \in DOMAIN all : all[k].decision = "duplicate"})

\* match() records its groups and, up to the ceiling, its decisions.
LEMMA MatchIs ==
    ASSUME NEW rows, IsSeq(rows), NEW rs
    PROVE  Records(match(rows, rs), Len(rows), AllDecisions(rows, rs),
                   Groups(Len(rows), AllDecisions(rows, rs)))
<1> DEFINE all == AllDecisions(rows, rs)
           groups == Groups(Len(rows), all)
           links == {k \in DOMAIN all : all[k].decision = "duplicate"}
           Group(c) == [canonical_row_index |-> Smallest(c), record_count |-> Cardinality(c),
                        confidence_score |-> Confidence(c, all, rs)]
           kept == IF Len(all) < MaxDecisions THEN Len(all) ELSE MaxDecisions
           Kept(k) == [a |-> all[k].a, b |-> all[k].b, rule_name |-> all[k].rule_name,
                       total_score |-> all[k].total_score, decision |-> all[k].decision,
                       group |-> Fed(all[k], groups)]
           run == match(rows, rs)
<1>1. /\ run.groups = {Group(c) : c \in groups}
      /\ run.decisions = [k \in 1..kept |-> Kept(k)]
      /\ run.row_count = Len(rows)
      /\ run.duplicate_pairs_count = Cardinality(links)
      /\ run.ambiguous_pairs_count = Len(all) - Cardinality(links)
  BY DEF match
<1>0. Len(all) \in Nat /\ DOMAIN all = 1..Len(all)
  <2>1. IsSeq(all)
    BY AllDecisionsAre
  <2> QED
    BY <2>1, SeqLen DEF IsSeq
<1> HIDE DEF all, groups, links, run
<1>2. \A c : Group(c).canonical_row_index = Smallest(c) /\ Group(c).record_count = Cardinality(c)
  OBVIOUS
<1>3. \A k : Kept(k).a = all[k].a /\ Kept(k).b = all[k].b /\ Kept(k).group = Fed(all[k], groups)
  OBVIOUS
<1> HIDE DEF Group, Kept
<1>4. 1..kept \subseteq DOMAIN all
  BY <1>0, MatchingAssumption
<1> HIDE DEF kept
<1>5. DOMAIN run.decisions = 1..kept /\ \A k \in 1..kept : run.decisions[k] = Kept(k)
  BY <1>1
<1>6. Records(run, Len(rows), all, groups)
  BY <1>1, <1>2, <1>3, <1>4, <1>5 DEF Records, links
<1> QED
  BY <1>6 DEF all, groups, run

\* What match_runs must satisfy, and what its groups are, for every file and
\* rule set: the classes of two and more that exact equality and the duplicate
\* pairs connect.
LEMMA MatchFindsDuplicates ==
    ASSUME NEW rows, IsSeq(rows), NEW rs
    PROVE  /\ {<<g.canonical_row_index, g.record_count>> : g \in match(rows, rs).groups}
                = {<<Smallest(c), Cardinality(c)>> :
                     c \in {x \in DuplicateClasses(rows, rs) : Cardinality(x) >= 2}}
           /\ match(rows, rs).duplicate_pairs_count >= 0
           /\ match(rows, rs).ambiguous_pairs_count >= 0
           /\ \A g \in match(rows, rs).groups :
                 g.record_count >= 2 /\ g.canonical_row_index \in DOMAIN rows
<1> DEFINE all == AllDecisions(rows, rs)
           groups == Groups(Len(rows), all)
           links == {k \in DOMAIN all : all[k].decision = "duplicate"}
           run == match(rows, rs)
<1>1. PICK rep \in [DOMAIN rows -> DOMAIN rows] :
             /\ components(Forests(Len(rows), all)[Len(all)]) = Trees(rep, Len(rows))
             /\ DuplicateClasses(rows, rs) = Trees(rep, Len(rows))
  BY MatchPartitions
<1>2. groups = {x \in DuplicateClasses(rows, rs) : Cardinality(x) >= 2}
  BY <1>1 DEF Groups
<1>3. /\ \A g \in run.groups : \E c \in groups :
                     g.canonical_row_index = Smallest(c) /\ g.record_count = Cardinality(c)
      /\ \A c \in groups : \E g \in run.groups :
                     g.canonical_row_index = Smallest(c) /\ g.record_count = Cardinality(c)
      /\ run.duplicate_pairs_count = Cardinality(links)
      /\ run.ambiguous_pairs_count = Len(all) - Cardinality(links)
  <2>1. Records(run, Len(rows), all, groups)
    BY MatchIs
  <2> HIDE DEF run, all, groups
  <2> QED
    BY <2>1 DEF Records
<1>4. /\ Len(all) \in Nat /\ DOMAIN all = 1..Len(all)
  <2>1. IsSeq(all)
    BY AllDecisionsAre
  <2> QED
    BY <2>1, SeqLen DEF IsSeq
<1>5. Cardinality(links) \in Nat /\ Cardinality(links) <= Len(all)
  <2> HIDE DEF all
  <2>1. links \in SUBSET (1..Len(all))
    BY <1>4
  <2> HIDE DEF links
  <2>2. IsFiniteSet(1..Len(all)) /\ Cardinality(1..Len(all)) = Len(all)
    <3>1. PICK n \in Nat : n = Len(all)
      BY <1>4
    <3>2. IsFiniteSet(1..n) /\ Cardinality(1..n) = n
      BY FS_Interval
    <3> QED
      BY <3>1, <3>2
  <2>3. IsFiniteSet(links) /\ Cardinality(links) <= Cardinality(1..Len(all))
    BY <2>1, <2>2, FS_Subset
  <2> QED
    BY <2>2, <2>3, FS_CardinalityType
<1>6. \A c \in groups : Cardinality(c) >= 2 /\ Smallest(c) \in DOMAIN rows
  <2> SUFFICES ASSUME NEW c \in groups PROVE Cardinality(c) >= 2 /\ Smallest(c) \in DOMAIN rows
    OBVIOUS
  <2>1. c \in Trees(rep, Len(rows)) /\ Cardinality(c) >= 2
    BY <1>1, <1>2
  <2>2. PICK i \in 1..Len(rows) : c = Tree(rep, Len(rows), i)
    BY <2>1 DEF Trees
  <2>3. c \in SUBSET DOMAIN rows /\ c # {}
    BY <2>2, RowSets DEF Tree
  <2> QED
    BY <2>1, <2>3, RowSets
<1> HIDE DEF all, groups, links, run
<1>7. {<<g.canonical_row_index, g.record_count>> : g \in run.groups}
        = {<<Smallest(c), Cardinality(c)>> : c \in groups}
  BY <1>3
<1>8. run.duplicate_pairs_count >= 0 /\ run.ambiguous_pairs_count >= 0
  BY <1>3, <1>4, <1>5
<1>9. \A g \in run.groups : g.record_count >= 2 /\ g.canonical_row_index \in DOMAIN rows
  BY <1>3, <1>6
<1> QED
  BY <1>2, <1>7, <1>8, <1>9 DEF run

\* Two members make a set of at least two.
LEMMA TwoMembers ==
    ASSUME NEW S, IsFiniteSet(S), NEW x \in S, NEW y \in S, x # y
    PROVE  Cardinality(S) >= 2
<1>1. IsFiniteSet({x}) /\ Cardinality({x}) = 1
  BY FS_Singleton
<1>2. IsFiniteSet({x} \union {y}) /\ Cardinality({x} \union {y}) = 1 + 1
  BY <1>1, FS_AddElement
<1>3. {x} \union {y} \in SUBSET S
  OBVIOUS
<1>4. Cardinality({x} \union {y}) <= Cardinality(S)
  BY <1>3, FS_Subset
<1>5. Cardinality(S) \in Nat
  BY FS_CardinalityType
<1> QED
  BY <1>2, <1>4, <1>5

\* The trees of the rows: disjoint, none empty, each with its smallest row.
LEMMA TreesAre ==
    ASSUME NEW rows, IsSeq(rows), NEW rep, NEW t \in Trees(rep, Len(rows))
    PROVE  /\ t \in SUBSET DOMAIN rows /\ t # {} /\ IsFiniteSet(t)
           /\ Smallest(t) \in t /\ Smallest(t) \in Nat \ {0}
           /\ \A i \in t : t = Tree(rep, Len(rows), i)
<1>1. Len(rows) \in Nat /\ DOMAIN rows = 1..Len(rows)
  BY RowSets
<1>2. PICK k \in 1..Len(rows) : t = Tree(rep, Len(rows), k)
  BY DEF Trees
<1>3. t \in SUBSET DOMAIN rows /\ t # {} /\ \A i \in t : t = Tree(rep, Len(rows), i)
  BY <1>1, <1>2 DEF Tree
<1>4. IsFiniteSet(t) /\ Smallest(t) \in t
  BY <1>3, RowSets
<1> QED
  BY <1>1, <1>3, <1>4

\* The members of a group that can be loaded are those of the class it records.
LEMMA LoadedMembersAre ==
    ASSUME NEW rows, IsSeq(rows), NEW rs, CanLoadGroups(match(rows, rs)),
           NEW c \in Groups(Len(rows), AllDecisions(rows, rs)),
           NEW g \in match(rows, rs).groups,
           g.canonical_row_index = Smallest(c), g.record_count = Cardinality(c)
    PROVE  MembersOf(match(rows, rs), g) = c
<1> DEFINE all == AllDecisions(rows, rs)
           n == Len(rows)
           groups == Groups(n, all)
           run == match(rows, rs)
<1>1. PICK rep \in [DOMAIN rows -> DOMAIN rows] :
             /\ components(Forests(n, all)[Len(all)]) = Trees(rep, n)
             /\ \A d \in Members(all) : d.decision = "duplicate" => rep[d.a] = rep[d.b]
  BY MatchPartitions
<1>2. groups = {t \in Trees(rep, n) : Cardinality(t) >= 2}
  BY <1>1 DEF Groups
<1>3. n \in Nat /\ DOMAIN rows = 1..n
  BY RowSets
<1>4. /\ DOMAIN run.decisions \subseteq DOMAIN all
      /\ \A k \in DOMAIN run.decisions :
           /\ run.decisions[k].a = all[k].a /\ run.decisions[k].b = all[k].b
           /\ run.decisions[k].group = Fed(all[k], groups)
  <2>1. Records(run, n, all, groups)
    BY MatchIs
  <2> HIDE DEF run, all, groups, n
  <2> QED
    BY <2>1 DEF Records
<1>5. Cardinality(MembersOf(run, g)) = Cardinality(c)
  BY DEF CanLoadGroups
<1>6. \A d \in Members(all) : d.decision = "duplicate" =>
         d.a \in DOMAIN rows /\ d.b \in DOMAIN rows /\ d.a # d.b
  BY JoinedRowsAreLinked
<1>7. c \in groups
  OBVIOUS
<1> HIDE DEF all, groups, run
<1>8. \A t \in groups : /\ t \in Trees(rep, n) /\ t \in SUBSET DOMAIN rows /\ IsFiniteSet(t)
                        /\ Smallest(t) \in t /\ Smallest(t) \in Nat \ {0}
                        /\ \A i \in t : t = Tree(rep, n, i)
  BY <1>2, TreesAre
<1>9. ASSUME NEW k \in DOMAIN run.decisions, run.decisions[k].group = g.canonical_row_index
      PROVE  run.decisions[k].a \in c /\ run.decisions[k].b \in c
  <2> DEFINE d == all[k]
             t == CHOOSE x \in groups : d.a \in x
  <2>1. d \in Members(all)
    BY <1>4 DEF Members
  <2>2. Fed(d, groups) = Smallest(c)
    BY <1>4, <1>9
  <2>3. Smallest(c) # 0
    BY <1>7, <1>8
  <2>4. d.decision = "duplicate"
    BY <2>2, <2>3 DEF Fed
  <2>5. d.a \in 1..n /\ d.b \in 1..n /\ d.a # d.b /\ rep[d.a] = rep[d.b]
    BY <1>1, <1>3, <1>6, <2>1, <2>4
  <2>6. \E x \in groups : d.a \in x
    <3> DEFINE x == Tree(rep, n, d.a)
    <3>1. d.a \in x /\ d.b \in x /\ x \in Trees(rep, n)
      BY <2>5 DEF Tree, Trees
    <3>2. IsFiniteSet(x)
      BY <3>1, TreesAre
    <3>3. Cardinality(x) >= 2
      BY <2>5, <3>1, <3>2, TwoMembers
    <3> QED
      BY <1>2, <3>1, <3>3
  <2>7. t \in groups /\ d.a \in t
    BY <2>6
  <2>8. Smallest(t) = Smallest(c)
    BY <2>2, <2>4 DEF Fed
  <2> HIDE DEF t, d
  <2>9. t = c
    BY <1>7, <1>8, <2>7, <2>8
  <2>10. d.a \in c /\ c = Tree(rep, n, d.a)
    BY <1>8, <2>7, <2>9
  <2>11. d.b \in c
    BY <2>5, <2>10 DEF Tree
  <2> QED
    BY <1>4, <2>10, <2>11 DEF d
<1>10. MembersOf(run, g) \in SUBSET c
  BY <1>7, <1>8, <1>9 DEF MembersOf
<1>11. MembersOf(run, g) = c
  BY <1>5, <1>7, <1>8, <1>10, FS_Subset
<1> QED
  BY <1>11 DEF run

\* The rows an export leaves out: all but the first of every class.
THEOREM ExportKeepsFirst ==
    ASSUME NEW rows, IsSeq(rows), NEW rs, CanLoadGroups(match(rows, rs))
    PROVE  materialize(rows, load_groups(match(rows, rs))).rows = Deduplicated(rows, rs)
<1> DEFINE all == AllDecisions(rows, rs)
           n == Len(rows)
           groups == Groups(n, all)
           run == match(rows, rs)
           excluded == ExcludedRows(load_groups(run))
           kept == {Smallest(c) : c \in DuplicateClasses(rows, rs)}
<1>1. PICK rep \in [DOMAIN rows -> DOMAIN rows] :
             /\ components(Forests(n, all)[Len(all)]) = Trees(rep, n)
             /\ DuplicateClasses(rows, rs) = Trees(rep, n)
  BY MatchPartitions
<1>2. groups = {t \in Trees(rep, n) : Cardinality(t) >= 2}
  BY <1>1 DEF Groups
<1>3. n \in Nat /\ DOMAIN rows = 1..n
  BY RowSets
<1>4. /\ \A g \in run.groups : \E c \in groups :
                     g.canonical_row_index = Smallest(c) /\ g.record_count = Cardinality(c)
      /\ \A c \in groups : \E g \in run.groups :
                     g.canonical_row_index = Smallest(c) /\ g.record_count = Cardinality(c)
  <2>1. Records(run, n, all, groups)
    BY MatchIs
  <2> HIDE DEF run, all, groups, n
  <2> QED
    BY <2>1 DEF Records
<1>5. \A c \in groups, g \in run.groups :
        g.canonical_row_index = Smallest(c) /\ g.record_count = Cardinality(c)
          => MembersOf(run, g) = c
  BY LoadedMembersAre
<1> HIDE DEF all, groups, run
<1>6. excluded = UNION {c \ {Smallest(c)} : c \in groups}
  <2>1. excluded = UNION {MembersOf(run, g) \ {g.canonical_row_index} : g \in run.groups}
    <3> DEFINE loaded(g) == [canonical_row_index |-> g.canonical_row_index,
                             members |-> MembersOf(run, g)]
    <3>1. excluded = UNION {x.members \ {x.canonical_row_index} : x \in {loaded(g) : g \in run.groups}}
      BY DEF ExcludedRows, load_groups
    <3>2. \A g : loaded(g).members = MembersOf(run, g)
                 /\ loaded(g).canonical_row_index = g.canonical_row_index
      OBVIOUS
    <3> HIDE DEF loaded, excluded
    <3> QED
      BY <3>1, <3>2
  <2>2. \A g \in run.groups : \E c \in groups :
           MembersOf(run, g) \ {g.canonical_row_index} = c \ {Smallest(c)}
    BY <1>4, <1>5
  <2>3. \A c \in groups : \E g \in run.groups :
           MembersOf(run, g) \ {g.canonical_row_index} = c \ {Smallest(c)}
    BY <1>4, <1>5
  <2> HIDE DEF excluded
  <2> QED
    BY <2>1, <2>2, <2>3
<1> HIDE DEF excluded
<1>7. \A t \in Trees(rep, n) : /\ t \in SUBSET DOMAIN rows /\ IsFiniteSet(t)
                               /\ Smallest(t) \in t
                               /\ \A i \in t : t = Tree(rep, n, i)
  BY TreesAre
<1>8. ASSUME NEW i \in DOMAIN rows PROVE i \notin excluded <=> i = Smallest(Tree(rep, n, i))
  <2> DEFINE t == Tree(rep, n, i)
  <2>1. t \in Trees(rep, n) /\ i \in t
    BY <1>3 DEF Tree, Trees
  <2>2. i \in excluded <=> Cardinality(t) >= 2 /\ i # Smallest(t)
    <3>1. \A c \in groups : i \in c => c = t
      BY <1>2, <1>7
    <3>2. t \in groups <=> Cardinality(t) >= 2
      BY <1>2, <2>1
    <3>3. i \in excluded <=> \E c \in groups : i \in c /\ i # Smallest(c)
      BY <1>6
    <3> HIDE DEF t
    <3> QED
      BY <2>1, <3>1, <3>2, <3>3
  <2>3. i # Smallest(t) => Cardinality(t) >= 2
    BY <1>7, <2>1, TwoMembers
  <2> QED
    BY <2>2, <2>3
<1>9. (DOMAIN rows) \ excluded = kept
  <2>1. ASSUME NEW i \in (DOMAIN rows) \ excluded PROVE i \in kept
    <3>1. i = Smallest(Tree(rep, n, i)) /\ Tree(rep, n, i) \in Trees(rep, n)
      BY <1>3, <1>8, <2>1 DEF Trees
    <3> QED
      BY <1>1, <3>1
  <2>2. ASSUME NEW i \in kept PROVE i \in (DOMAIN rows) \ excluded
    <3>1. PICK t \in Trees(rep, n) : i = Smallest(t)
      BY <1>1
    <3>2. i \in DOMAIN rows /\ t = Tree(rep, n, i)
      BY <1>7, <3>1
    <3> QED
      BY <1>8, <3>1, <3>2
  <2> QED
    BY <2>1, <2>2
<1>10. materialize(rows, load_groups(run)).rows
         = [k \in DOMAIN Ascending(kept) |-> [cells |-> rows[Ascending(kept)[k]],
                                              source_row_index |-> Ascending(kept)[k]]]
  BY <1>9 DEF materialize, excluded
<1>11. Deduplicated(rows, rs)
         = [k \in DOMAIN Ascending(kept) |-> [cells |-> rows[Ascending(kept)[k]],
                                              source_row_index |-> Ascending(kept)[k]]]
  BY DEF Deduplicated
<1> QED
  BY <1>10, <1>11 DEF run

\* An export leaves out what it does not keep, and counts no more of it than
\* there is.
LEMMA ExportCounts ==
    ASSUME NEW rows, IsSeq(rows), NEW groups
    PROVE  LET out == materialize(rows, groups) IN
           /\ Len(out.rows) \in Nat /\ Len(out.rows) <= Len(rows)
           /\ out.excluded_row_count = Len(rows) - Len(out.rows)
           /\ out.exclusions <= MaxExclusions
<1> DEFINE S == (DOMAIN rows) \ ExcludedRows(groups)
           kept == Ascending(S)
           out == materialize(rows, groups)
           excluded == Len(rows) - Len(kept)
<1>1. /\ Len(rows) \in Nat /\ DOMAIN rows = 1..Len(rows) /\ S \in SUBSET DOMAIN rows
      /\ S \in SUBSET Nat /\ IsFiniteSet(S)
  BY RowSets
<1>2. /\ Cardinality(S) \in Nat /\ kept \in [1..Cardinality(S) -> S]
      /\ Len(kept) = Cardinality(S)
  <2> HIDE DEF S
  <2> QED
    BY <1>1, AscendingIs
<1>3. Cardinality(S) <= Len(rows)
  <2>1. PICK n \in Nat : n = Len(rows)
    BY <1>1
  <2>2. IsFiniteSet(1..n) /\ Cardinality(1..n) = n
    BY FS_Interval
  <2> HIDE DEF S
  <2> QED
    BY <1>1, <2>1, <2>2, FS_Subset
<1>4. /\ out.rows = [k \in DOMAIN kept |-> [cells |-> rows[kept[k]], source_row_index |-> kept[k]]]
      /\ out.excluded_row_count = excluded
      /\ out.exclusions = IF excluded < MaxExclusions THEN excluded ELSE MaxExclusions
  BY DEF materialize
<1> HIDE DEF out, kept, S
<1>5. DOMAIN kept = 1..Cardinality(S)
  BY <1>2
<1>6. Len(out.rows) = Cardinality(S)
  <2>1. out.rows = [k \in 1..Cardinality(S) |-> out.rows[k]]
    BY <1>4, <1>5
  <2> QED
    BY <1>2, <2>1, SeqLen
<1>7. out.exclusions <= MaxExclusions
  BY <1>1, <1>2, <1>4, MatchingAssumption
<1> QED
  BY <1>1, <1>2, <1>3, <1>4, <1>6, <1>7 DEF out

-----------------------------------------------------------------------------
(***************************************************************************)
(* The change logs of cleaning and standardization replay.                 *)
(***************************************************************************)

\* The entries of the log, applied one after the other, turn from into to.
ReplaysTo(from, log, to) ==
    \E f : /\ f[0] = from /\ f[Len(log)] = to
           /\ \A k \in 1..Len(log) : f[k] = Applying(f[k - 1], log[k])

\* Replay computes it.
LEMMA ReplayIs ==
    ASSUME NEW from, NEW log, NEW to, Len(log) \in Nat, ReplaysTo(from, log, to)
    PROVE  Replay(from, log) = to
<1> DEFINE n == Len(log)
           Next1(f, k) == IF k = 0 THEN from ELSE Applying(f[k - 1], log[k])
           Steps(f) == [k \in 0..n |-> Next1(f, k)]
           F == CHOOSE f : f = Steps(f)
<1>1. PICK f : /\ f[0] = from /\ f[n] = to
               /\ \A k \in 1..n : f[k] = Applying(f[k - 1], log[k])
  BY DEF ReplaysTo
<1> DEFINE g == [k \in 0..n |-> f[k]]
<1>2. g = Steps(g)
  <2>1. ASSUME NEW k \in 0..n PROVE g[k] = Next1(g, k)
    <3>1. CASE k = 0
      BY <1>1, <3>1
    <3>2. CASE k # 0
      <4>1. k \in 1..n /\ k - 1 \in 0..n
        BY <3>2
      <4>2. g[k] = f[k] /\ g[k - 1] = f[k - 1]
        BY <4>1
      <4> HIDE DEF g
      <4> QED
        BY <1>1, <3>2, <4>1, <4>2
    <3> QED
      BY <3>1, <3>2
  <2>2. g = [k \in 0..n |-> g[k]]
    OBVIOUS
  <2> HIDE DEF g, Next1
  <2> QED
    BY <2>1, <2>2
<1>3. F = Steps(F)
  <2>1. \E h : h = Steps(h)
    BY <1>2
  <2> HIDE DEF Next1
  <2> QED
    BY <2>1
<1>4. Replay(from, log) = F[n]
  BY DEF Replay
<1> HIDE DEF F
<1>5. \A k \in 0..n : F[k] = Next1(F, k)
  <2> HIDE DEF Next1
  <2> QED
    BY <1>3
<1> DEFINE T == {k \in Nat : k <= n => F[k] = f[k]}
<1>6. 0 \in T
  BY <1>1, <1>5
<1>7. ASSUME NEW k \in T PROVE k + 1 \in T
  <2>1. k \in Nat
    OBVIOUS
  <2>2. CASE k + 1 <= n
    <3>1. k + 1 \in 0..n /\ k + 1 \in 1..n /\ k + 1 # 0 /\ (k + 1) - 1 = k /\ k <= n
      BY <2>1, <2>2
    <3>2. F[k + 1] = Applying(F[k], log[k + 1]) /\ f[k + 1] = Applying(f[k], log[k + 1])
      BY <1>1, <1>5, <3>1
    <3> QED
      BY <2>1, <3>1, <3>2
  <2>3. CASE ~(k + 1 <= n)
    BY <2>1, <2>3
  <2> QED
    BY <2>2, <2>3
<1>8. n \in T
  <2> HIDE DEF T
  <2>1. T \in SUBSET Nat
    BY DEF T
  <2> QED
    BY <1>6, <1>7, <2>1, Induction
<1> QED
  BY <1>1, <1>4, <1>8

\* An empty log changes nothing.
LEMMA ReplayEmpty == \A rows : ReplaysTo(rows, <<>>, rows)
<1> SUFFICES ASSUME NEW rows PROVE ReplaysTo(rows, <<>>, rows)
  OBVIOUS
<1>1. Len(<<>>) = 0 /\ 1..Len(<<>>) = {}
  OBVIOUS
<1>2. PICK f : f = [k \in {0} |-> rows]
  OBVIOUS
<1>3. f[0] = rows
  BY <1>2
<1> QED
  BY <1>1, <1>3 DEF ReplaysTo

\* One log after the other.
LEMMA ReplayConcatenated ==
    ASSUME NEW r, NEW s, NEW t, NEW l1, NEW l2, IsSeq(l1), IsSeq(l2),
           ReplaysTo(r, l1, s), ReplaysTo(s, l2, t)
    PROVE  ReplaysTo(r, l1 \o l2, t)
<1>1. /\ Len(l1) \in Nat /\ Len(l2) \in Nat /\ Len(l1 \o l2) = Len(l1) + Len(l2)
      /\ \A k \in 1..Len(l1) : (l1 \o l2)[k] = l1[k]
      /\ \A k \in 1..Len(l2) : (l1 \o l2)[Len(l1) + k] = l2[k]
  BY Concatenated
<1>2. PICK m, n, l : m = Len(l1) /\ n = Len(l2) /\ l = l1 \o l2
  OBVIOUS
<1>3. PICK f : /\ f[0] = r /\ f[m] = s /\ \A k \in 1..m : f[k] = Applying(f[k - 1], l1[k])
  BY <1>2 DEF ReplaysTo
<1>4. PICK g : /\ g[0] = s /\ g[n] = t /\ \A k \in 1..n : g[k] = Applying(g[k - 1], l2[k])
  BY <1>2 DEF ReplaysTo
<1> DEFINE h == [k \in 0..(m + n) |-> IF k <= m THEN f[k] ELSE g[k - m]]
<1>5. m \in Nat /\ n \in Nat
  BY <1>1, <1>2
<1>6. \A k \in 0..m : h[k] = f[k]
  BY <1>5
<1>7. \A k \in 0..n : h[m + k] = g[k]
  <2> SUFFICES ASSUME NEW k \in 0..n PROVE h[m + k] = g[k]
    OBVIOUS
  <2>1. CASE k = 0
    BY <1>3, <1>4, <1>5, <1>6, <2>1
  <2>2. CASE k # 0
    <3>1. m + k \in 0..(m + n) /\ ~(m + k <= m) /\ (m + k) - m = k
      BY <1>5, <2>2
    <3> QED
      BY <3>1
  <2> QED
    BY <2>1, <2>2
<1> HIDE DEF h
<1>8. ASSUME NEW k \in 1..(m + n) PROVE h[k] = Applying(h[k - 1], l[k])
  <2>1. CASE k <= m
    <3>1. k \in 1..m /\ k \in 0..m /\ k - 1 \in 0..m
      BY <1>5, <2>1
    <3>2. l[k] = l1[k]
      BY <1>1, <1>2, <3>1
    <3> QED
      BY <1>3, <1>6, <3>1, <3>2
  <2>2. CASE ~(k <= m)
    <3>1. k - m \in 1..n /\ k - m \in 0..n /\ (k - m) - 1 \in 0..n
          /\ m + (k - m) = k /\ m + ((k - m) - 1) = k - 1
      BY <1>5, <2>2
    <3>2. l[k] = l2[k - m]
      BY <1>1, <1>2, <3>1
    <3>3. h[k] = g[k - m] /\ h[k - 1] = g[(k - m) - 1]
      BY <1>7, <3>1
    <3> QED
      BY <1>4, <3>1, <3>2, <3>3
  <2> QED
    BY <2>1, <2>2
<1>9. h[0] = r /\ h[m + n] = t /\ Len(l) = m + n
  BY <1>1, <1>2, <1>3, <1>4, <1>5, <1>6, <1>7
<1> QED
  BY <1>2, <1>8, <1>9 DEF ReplaysTo

\* The logs of a list of logs, each from one state to the next.
LEMMA ReplayFlattened ==
    ASSUME NEW n \in Nat, NEW logs, logs = [i \in 1..n |-> logs[i]], NEW states,
           \A i \in 1..n : IsSeq(logs[i]) /\ ReplaysTo(states[i - 1], logs[i], states[i])
    PROVE  IsSeq(FlattenSeq(logs)) /\ ReplaysTo(states[0], FlattenSeq(logs), states[n])
<1>1. PICK F : IsAppending(F, logs, n) /\ FlattenSeq(logs) = F[n]
  BY FlattenIs
<1> DEFINE T == {k \in Nat : k <= n => ReplaysTo(states[0], F[k], states[k])}
<1>2. 0 \in T
  BY <1>1, ReplayEmpty DEF IsAppending
<1>3. ASSUME NEW k \in T PROVE k + 1 \in T
  <2>1. k \in Nat
    OBVIOUS
  <2>2. CASE k + 1 <= n
    <3>1. k + 1 \in 1..n /\ k \in 0..n /\ (k + 1) - 1 = k /\ k <= n
      BY <2>1, <2>2
    <3>2. F[k + 1] = F[k] \o logs[k + 1] /\ IsSeq(F[k]) /\ IsSeq(logs[k + 1])
      BY <1>1, <3>1 DEF IsAppending
    <3>3. ReplaysTo(states[0], F[k], states[k]) /\ ReplaysTo(states[k], logs[k + 1], states[k + 1])
      BY <3>1
    <3>4. ReplaysTo(states[0], F[k] \o logs[k + 1], states[k + 1])
      BY <3>2, <3>3, ReplayConcatenated
    <3>5. ReplaysTo(states[0], F[k + 1], states[k + 1])
      BY <3>2, <3>4
    <3> QED
      BY <3>1, <3>5
  <2>3. CASE ~(k + 1 <= n)
    BY <2>1, <2>3
  <2> QED
    BY <2>2, <2>3
<1>4. n \in T
  <2> HIDE DEF T
  <2>1. T \in SUBSET Nat
    BY DEF T
  <2> QED
    BY <1>2, <1>3, <2>1, Induction
<1>5. IsSeq(F[n])
  BY <1>1 DEF IsAppending
<1> QED
  BY <1>1, <1>4, <1>5

\* A file of n rows of all columns.
IsGrid(rows, n) ==
    rows = [i \in 1..n |-> rows[i]] /\ \A i \in 1..n : rows[i] = [c \in Columns |-> rows[i][c]]

\* The log of one cell takes it through its values.
LEMMA CellReplays ==
    ASSUME NEW n \in Nat, NEW rows, IsGrid(rows, n), NEW i \in 1..n, NEW c \in Columns,
           NEW values, IsSeq(values), Len(values) >= 1, values[1] = rows[i][c]
    PROVE  /\ IsSeq(record(i, c, values))
           /\ ReplaysTo(rows, record(i, c, values), [rows EXCEPT ![i][c] = Last(values)])
<1> DEFINE m == Len(values) - 1
           entry(k) == Change(i, c, values[k], values[k + 1])
           log(k) == IF values[k] = values[k + 1] THEN <<>> ELSE <<entry(k)>>
           logs == [k \in 1..m |-> log(k)]
           states == [k \in 0..m |-> [rows EXCEPT ![i][c] = values[k + 1]]]
<1>1. m \in Nat /\ m + 1 = Len(values)
  <2>1. PICK l \in Nat : values = [k \in 1..l |-> values[k]]
    BY DEF IsSeq
  <2>2. Len(values) = l
    BY <2>1, SeqLen
  <2> QED
    BY <2>2
<1>2. record(i, c, values) = FlattenSeq(logs)
  BY DEF record
<1>3. logs = [k \in 1..m |-> logs[k]] /\ \A k \in 1..m : logs[k] = log(k)
  OBVIOUS
<1>4. DOMAIN rows = 1..n /\ \A j \in 1..n : DOMAIN rows[j] = Columns
  <2>1. rows = [j \in 1..n |-> rows[j]]
    BY DEF IsGrid
  <2>2. DOMAIN rows = 1..n
    BY <2>1
  <2>3. \A j \in 1..n : rows[j] = [d \in Columns |-> rows[j][d]]
    BY DEF IsGrid
  <2> QED
    BY <2>2, <2>3
<1>5. \A k \in 0..m : states[k] = [rows EXCEPT ![i][c] = values[k + 1]]
  OBVIOUS
<1>6. states[0] = rows
  <2>1. PICK row : row = rows[i]
    OBVIOUS
  <2>2. [row EXCEPT ![c] = row[c]] = row
    <3>1. row = [d \in Columns |-> row[d]]
      BY <2>1 DEF IsGrid
    <3> QED
      BY <3>1
  <2>3. [rows EXCEPT ![i] = rows[i]] = rows
    <3>1. rows = [j \in 1..n |-> rows[j]]
      BY DEF IsGrid
    <3> QED
      BY <3>1
  <2>4. states[0] = [rows EXCEPT ![i] = [rows[i] EXCEPT ![c] = values[0 + 1]]]
    BY <1>1, <1>5
  <2> QED
    BY <2>1, <2>2, <2>3, <2>4
<1>7. states[m] = [rows EXCEPT ![i][c] = Last(values)]
  BY <1>1, <1>5 DEF Last
<1> HIDE DEF logs, states, m
<1>8. ASSUME NEW k \in 1..m
      PROVE  IsSeq(logs[k]) /\ ReplaysTo(states[k - 1], logs[k], states[k])
  <2> DEFINE R == states[k - 1]
             S == states[k]
  <2>1. /\ R = [rows EXCEPT ![i][c] = values[k]] /\ S = [rows EXCEPT ![i][c] = values[k + 1]]
        /\ logs[k] = log(k)
    <3>1. k - 1 \in 0..m /\ k \in 0..m /\ (k - 1) + 1 = k
      BY <1>1
    <3> QED
      BY <1>3, <1>5, <3>1
  <2> HIDE DEF R, S
  <2>2. R[i][c] = values[k] /\ S = [R EXCEPT ![i][c] = values[k + 1]] /\ DOMAIN R = 1..n
    BY <1>4, <2>1
  <2>3. CASE values[k] = values[k + 1]
    <3>1. logs[k] = <<>> /\ R = S
      BY <2>1, <2>3
    <3>2. IsSeq(<<>>)
      <4>1. <<>> = [l \in 1..0 |-> <<>>[l]]
        OBVIOUS
      <4> QED
        BY <4>1, SeqLen
    <3> QED
      BY <3>1, <3>2, ReplayEmpty DEF R, S
  <2>4. CASE values[k] # values[k + 1]
    <3> DEFINE x == entry(k)
    <3>1. logs[k] = <<x>>
      BY <2>1, <2>4
    <3>2. x.row = i /\ x.col = c /\ x.original_value = values[k] /\ x.new_value = values[k + 1]
      BY DEF Change
    <3> HIDE DEF x
    <3>3. Applying(R, x) = S
      <4>1. R # <<>>
        BY <2>2
      <4> QED
        BY <2>2, <3>2, <4>1 DEF Applying
    <3>4. IsSeq(<<x>>) /\ Len(<<x>>) = 1
      <4>1. <<x>> = [l \in 1..1 |-> <<x>>[l]]
        OBVIOUS
      <4> QED
        BY <4>1, SeqLen
    <3>5. ReplaysTo(R, <<x>>, S)
      <4>1. PICK f : f = [l \in 0..1 |-> IF l = 0 THEN R ELSE S]
        OBVIOUS
      <4>2. f[0] = R /\ f[1] = S
        BY <4>1
      <4>3. <<x>>[1] = x
        OBVIOUS
      <4>4. \A l \in 1..1 : f[l] = Applying(f[l - 1], <<x>>[l])
        BY <3>3, <4>2, <4>3
      <4> QED
        BY <3>4, <4>2, <4>4 DEF ReplaysTo
    <3> QED
      BY <3>1, <3>4, <3>5 DEF R, S
  <2> QED
    BY <2>3, <2>4
<1>9. IsSeq(FlattenSeq(logs)) /\ ReplaysTo(states[0], FlattenSeq(logs), states[m])
  BY <1>1, <1>3, <1>8, ReplayFlattened
<1> QED
  BY <1>2, <1>6, <1>7, <1>9

\* An order of the columns: each comes once.
IsOrder(order) ==
    /\ order \in [Columns -> Columns]
    /\ \A j, k \in Columns : order[j] = order[k] => j = k
    /\ \A c \in Columns : \E k \in Columns : order[k] = c

RowLog(i, order, values) == FlattenSeq([k \in Columns |-> record(i, order[k], values[order[k]])])

\* The log of a row takes every cell to its last value.
LEMMA RowReplays ==
    ASSUME NEW n \in Nat, NEW rows, IsGrid(rows, n), NEW i \in 1..n, NEW order, IsOrder(order),
           NEW values, values = [c \in Columns |-> values[c]],
           \A c \in Columns : IsSeq(values[c]) /\ Len(values[c]) >= 1 /\ values[c][1] = rows[i][c]
    PROVE  /\ IsSeq(RowLog(i, order, values))
           /\ ReplaysTo(rows, RowLog(i, order, values),
                        [rows EXCEPT ![i] = [c \in Columns |-> Last(values[c])]])
<1> DEFINE w == Width
           logs == [k \in 1..w |-> record(i, order[k], values[order[k]])]
           Row(k) == [c \in Columns |-> IF \E j \in 1..k : order[j] = c THEN Last(values[c])
                                        ELSE rows[i][c]]
           states == [k \in 0..w |-> [rows EXCEPT ![i] = Row(k)]]
<1>1. w \in Nat /\ Columns = 1..w
  BY WidthAssumption DEF Columns
<1>2. logs = [k \in 1..w |-> logs[k]]
      /\ \A k \in 1..w : logs[k] = record(i, order[k], values[order[k]])
  OBVIOUS
<1>3. rows = [j \in 1..n |-> rows[j]] /\ \A j \in 1..n : rows[j] = [c \in Columns |-> rows[j][c]]
  BY DEF IsGrid
<1>4. \A k \in 0..w : states[k] = [rows EXCEPT ![i] = Row(k)]
  OBVIOUS
<1>5. states[0] = rows
  <2>1. Row(0) = [c \in Columns |-> rows[i][c]]
    OBVIOUS
  <2>2. Row(0) = rows[i]
    BY <1>3, <2>1
  <2> HIDE DEF Row
  <2>3. [rows EXCEPT ![i] = rows[i]] = rows
    BY <1>3
  <2>4. states[0] = [rows EXCEPT ![i] = Row(0)]
    BY <1>1, <1>4
  <2> QED
    BY <2>2, <2>3, <2>4
<1>6. states[w] = [rows EXCEPT ![i] = [c \in Columns |-> Last(values[c])]]
  <2>1. Row(w) = [c \in Columns |-> Last(values[c])]
    BY <1>1 DEF IsOrder
  <2> HIDE DEF Row
  <2> QED
    BY <1>1, <1>4, <2>1
<1> HIDE DEF logs, states
<1>7. ASSUME NEW k \in 1..w
      PROVE  IsSeq(logs[k]) /\ ReplaysTo(states[k - 1], logs[k], states[k])
  <2> DEFINE c == order[k]
             R == states[k - 1]
             S == states[k]
  <2>1. c \in Columns /\ k \in Columns /\ order[k] = c
    BY <1>1 DEF IsOrder
  <2>2. R = [rows EXCEPT ![i] = Row(k - 1)] /\ S = [rows EXCEPT ![i] = Row(k)]
    <3>1. k - 1 \in 0..w /\ k \in 0..w
      BY <1>1
    <3> HIDE DEF Row
    <3> QED
      BY <1>4, <3>1
  <2>3. \A j \in 1..(k - 1) : order[j] # c
    <3> SUFFICES ASSUME NEW j \in 1..(k - 1), order[j] = c PROVE FALSE
      OBVIOUS
    <3>1. j \in Columns /\ j # k
      BY <1>1
    <3> QED
      BY <2>1, <3>1 DEF IsOrder
  <2>4. Row(k - 1)[c] = rows[i][c]
    BY <2>1, <2>3
  <2> HIDE DEF c
  <2>5. Row(k) = [Row(k - 1) EXCEPT ![c] = Last(values[c])]
    <3>1. \A d \in Columns : (\E j \in 1..k : order[j] = d)
                               <=> (d = c \/ \E j \in 1..(k - 1) : order[j] = d)
      <4>1. \A j : j \in 1..k <=> j \in 1..(k - 1) \/ j = k
        BY <1>1
      <4> QED
        BY <2>1, <4>1
    <3>2. ASSUME NEW d \in Columns
          PROVE  Row(k)[d] = IF d = c THEN Last(values[c]) ELSE Row(k - 1)[d]
      BY <3>1, <3>2
    <3>3. /\ Row(k) = [d \in Columns |-> Row(k)[d]]
          /\ Row(k - 1) = [d \in Columns |-> Row(k - 1)[d]]
      OBVIOUS
    <3> HIDE DEF Row
    <3> QED
      BY <3>2, <3>3
  <2>6. Row(k - 1) = [d \in Columns |-> Row(k - 1)[d]]
    OBVIOUS
  <2> HIDE DEF R, S, Row
  <2>7. R[i][c] = rows[i][c] /\ S = [R EXCEPT ![i][c] = Last(values[c])]
    BY <1>3, <2>1, <2>2, <2>4, <2>5
  <2>8. IsGrid(R, n)
    BY <1>3, <2>2, <2>6 DEF IsGrid
  <2>9. IsSeq(values[c]) /\ Len(values[c]) >= 1 /\ values[c][1] = R[i][c]
    BY <2>1, <2>7
  <2>10. /\ IsSeq(record(i, c, values[c]))
         /\ ReplaysTo(R, record(i, c, values[c]), [R EXCEPT ![i][c] = Last(values[c])])
    BY <2>1, <2>8, <2>9, CellReplays
  <2>11. logs[k] = record(i, c, values[c])
    BY <1>2, <2>1
  <2> QED
    BY <2>7, <2>10, <2>11 DEF R, S
<1>8. IsSeq(FlattenSeq(logs)) /\ ReplaysTo(states[0], FlattenSeq(logs), states[w])
  BY <1>1, <1>2, <1>7, ReplayFlattened
<1>9. logs = [k \in Columns |-> record(i, order[k], values[order[k]])]
  BY <1>1 DEF logs
<1> HIDE DEF Row
<1> QED
  BY <1>5, <1>6, <1>8, <1>9 DEF RowLog

\* The lists of values an engine makes of a file: each begins with what is read.
AreValues(values, rows, n) ==
    /\ values = [i \in 1..n |-> values[i]]
    /\ \A i \in 1..n :
         /\ values[i] = [c \in Columns |-> values[i][c]]
         /\ \A c \in Columns : /\ IsSeq(values[i][c]) /\ Len(values[i][c]) >= 1
                               /\ values[i][c][1] = rows[i][c]

\* The file with the last value of every cell.
LastOf(values, n) == [i \in 1..n |-> [c \in Columns |-> Last(values[i][c])]]

\* The log of a file takes every cell to its last value.
LEMMA LogReplays ==
    ASSUME NEW n \in Nat, NEW rows, IsGrid(rows, n), NEW order, IsOrder(order),
           NEW values, AreValues(values, rows, n)
    PROVE  IsSeq(Log(n, order, values)) /\ ReplaysTo(rows, Log(n, order, values), LastOf(values, n))
<1> DEFINE log(i) == FlattenSeq([k \in Columns |-> record(i, order[k], values[i][order[k]])])
           logs == [i \in 1..n |-> log(i)]
           Done(i) == [c \in Columns |-> Last(values[i][c])]
           State(m) == [i \in 1..n |-> IF i <= m THEN Done(i) ELSE rows[i]]
           states == [m \in 0..n |-> State(m)]
<1>1. Log(n, order, values) = FlattenSeq(logs)
  BY DEF Log
<1> HIDE DEF log, Done
<1>2. logs = [i \in 1..n |-> logs[i]] /\ \A i \in 1..n : logs[i] = log(i)
  OBVIOUS
<1>3. rows = [j \in 1..n |-> rows[j]] /\ \A j \in 1..n : rows[j] = [c \in Columns |-> rows[j][c]]
  BY DEF IsGrid
<1>4. \A m \in 0..n : states[m] = State(m)
  OBVIOUS
<1>5. states[0] = rows
  <2>1. State(0) = [i \in 1..n |-> rows[i]]
    OBVIOUS
  <2> HIDE DEF State
  <2> QED
    BY <1>3, <1>4, <2>1
<1>6. states[n] = LastOf(values, n)
  <2>1. State(n) = [i \in 1..n |-> Done(i)]
    OBVIOUS
  <2>2. n \in 0..n
    OBVIOUS
  <2> HIDE DEF State
  <2>3. states[n] = [i \in 1..n |-> Done(i)]
    BY <1>4, <2>1, <2>2
  <2> QED
    BY <2>3 DEF LastOf, Done
<1> HIDE DEF logs, states
<1>7. ASSUME NEW m \in 1..n
      PROVE  IsSeq(logs[m]) /\ ReplaysTo(states[m - 1], logs[m], states[m])
  <2> DEFINE R == states[m - 1]
             S == states[m]
  <2>1. R = State(m - 1) /\ S = State(m)
    <3>1. m - 1 \in 0..n /\ m \in 0..n
      OBVIOUS
    <3> HIDE DEF State
    <3> QED
      BY <1>4, <3>1
  <2> HIDE DEF R, S
  <2>2. R = [i \in 1..n |-> R[i]] /\ \A i \in 1..n : R[i] = IF i <= m - 1 THEN Done(i) ELSE rows[i]
    BY <2>1
  <2>3. R[m] = rows[m]
    BY <2>2
  <2>4. S = [R EXCEPT ![m] = Done(m)]
    <3>1. S = [i \in 1..n |-> S[i]] /\ \A i \in 1..n : S[i] = IF i <= m THEN Done(i) ELSE rows[i]
      BY <2>1
    <3>2. \A i \in 1..n : S[i] = IF i = m THEN Done(i) ELSE R[i]
      BY <2>2, <3>1
    <3> QED
      BY <2>2, <3>1, <3>2
  <2>5. IsGrid(R, n)
    <3>1. \A i \in 1..n : Done(i) = [c \in Columns |-> Done(i)[c]]
      BY DEF Done
    <3>2. ASSUME NEW i \in 1..n PROVE R[i] = [c \in Columns |-> R[i][c]]
      <4>1. CASE i <= m - 1
        <5>1. R[i] = Done(i)
          BY <2>2, <4>1
        <5> QED
          BY <3>1, <5>1
      <4>2. CASE ~(i <= m - 1)
        <5>1. R[i] = rows[i]
          BY <2>2, <4>2
        <5> QED
          BY <1>3, <5>1
      <4> QED
        BY <4>1, <4>2
    <3> QED
      BY <2>2, <3>2 DEF IsGrid
  <2>6. PICK vals : vals = values[m]
    OBVIOUS
  <2>7. /\ vals = [c \in Columns |-> vals[c]]
        /\ \A c \in Columns : IsSeq(vals[c]) /\ Len(vals[c]) >= 1 /\ vals[c][1] = R[m][c]
    BY <2>3, <2>6 DEF AreValues
  <2>8. /\ IsSeq(RowLog(m, order, vals))
        /\ ReplaysTo(R, RowLog(m, order, vals), [R EXCEPT ![m] = [c \in Columns |-> Last(vals[c])]])
    BY <2>5, <2>7, RowReplays
  <2>9. logs[m] = RowLog(m, order, vals)
    BY <1>2, <2>6 DEF log, RowLog
  <2>10. [c \in Columns |-> Last(vals[c])] = Done(m)
    BY <2>6 DEF Done
  <2> QED
    BY <2>4, <2>8, <2>9, <2>10 DEF R, S
<1>8. IsSeq(FlattenSeq(logs)) /\ ReplaysTo(states[0], FlattenSeq(logs), states[n])
  BY <1>2, <1>7, ReplayFlattened
<1> QED
  BY <1>1, <1>5, <1>6, <1>8

\* What an engine returns: a file of the same shape, a log within its ceiling
\* and, if it is within, a log that replays.
RewrittenOf(result, rows, n) ==
    /\ IsGrid(result.rows, n)
    /\ Len(result.changes) \in Nat /\ result.total_changes_count \in Nat
    /\ Len(result.changes) <= result.total_changes_count
    /\ Len(result.changes) = result.total_changes_count =>
         Replay(rows, result.changes) = result.rows

\* Every engine that rewrites cell by cell and logs what it alters has a log
\* that, unless the ceiling cut it off, turns the rows it read into its output.
THEOREM RewrittenIs ==
    ASSUME NEW n \in Nat, NEW rows, IsGrid(rows, n), NEW order, IsOrder(order),
           NEW values, AreValues(values, rows, n), NEW ceiling \in Nat
    PROVE  RewrittenOf(Rewritten(rows, order, values, ceiling), rows, n)
<1> DEFINE log == Log(n, order, values)
           m == IF Len(log) < ceiling THEN Len(log) ELSE ceiling
           result == Rewritten(rows, order, values, ceiling)
<1>1. Len(rows) = n /\ DOMAIN rows = 1..n
  BY SeqLen DEF IsGrid
<1>2. /\ result.rows = LastOf(values, n) /\ result.total_changes_count = Len(log)
      /\ result.changes = SubSeq(log, 1, m)
  BY <1>1 DEF Rewritten, LastOf
<1>3. IsSeq(log) /\ ReplaysTo(rows, log, LastOf(values, n))
  BY LogReplays
<1> HIDE DEF log, result
<1>4. PICK l \in Nat : log = [k \in 1..l |-> log[k]]
  BY <1>3 DEF IsSeq
<1>5. Len(log) = l
  BY <1>4, SeqLen
<1>6. log \in Seq({log[k] : k \in 1..l})
  <2> DEFINE X == {log[k] : k \in 1..l}
  <2>1. log \in [1..l -> X]
    BY <1>4
  <2> HIDE DEF X
  <2>2. log \in Seq(X)
    BY <2>1, FunctionIsSeq
  <2> QED
    BY <2>2 DEF X
<1>7. Len(SubSeq(log, 1, m)) = m /\ m \in Nat /\ m <= Len(log)
  <2>1. PICK X : log \in Seq(X)
    BY <1>6
  <2>2. m \in 0..Len(log)
    BY <1>5
  <2> HIDE DEF m
  <2> QED
    BY <1>5, <2>1, <2>2
<1>8. m = Len(log) => SubSeq(log, 1, m) = log
  <2>1. PICK X : log \in Seq(X)
    BY <1>6
  <2> HIDE DEF m
  <2> QED
    BY <2>1
<1>9. Replay(rows, log) = LastOf(values, n)
  BY <1>3, <1>5, ReplayIs
<1>10. IsGrid(LastOf(values, n), n)
  BY DEF IsGrid, LastOf
<1> HIDE DEF m
<1> QED
  BY <1>2, <1>5, <1>7, <1>8, <1>9, <1>10 DEF RewrittenOf, result

\* A file that was read has all its columns in every row.
LEMMA LoadIs ==
    ASSUME NEW raw, IsSeq(raw)
    PROVE  /\ Len(raw) \in Nat /\ IsGrid(load_csv(raw), Len(raw))
           /\ IsSeq(load_csv(raw)) /\ Len(load_csv(raw)) = Len(raw)
           /\ DOMAIN load_csv(raw) = 1..Len(raw)
<1>1. Len(raw) \in Nat /\ DOMAIN raw = 1..Len(raw)
  BY SeqLen DEF IsSeq
<1> DEFINE row(i) == [c \in Columns |-> IF c <= Len(raw[i]) THEN raw[i][c] ELSE Empty]
           rows == load_csv(raw)
<1>2. rows = [i \in 1..Len(raw) |-> row(i)]
  BY <1>1 DEF load_csv
<1>3. \A i : row(i) = [c \in Columns |-> row(i)[c]]
  OBVIOUS
<1> HIDE DEF rows, row
<1>4. rows = [i \in 1..Len(raw) |-> rows[i]] /\ \A i \in 1..Len(raw) : rows[i] = row(i)
  BY <1>2
<1>5. IsGrid(rows, Len(raw))
  BY <1>3, <1>4 DEF IsGrid
<1>6. IsSeq(rows) /\ Len(rows) = Len(raw) /\ DOMAIN rows = 1..Len(raw)
  BY <1>1, <1>4, SeqLen
<1> QED
  BY <1>1, <1>5, <1>6 DEF rows

\* A file that was written is read back as it is.
LEMMA LoadGrid ==
    ASSUME NEW n \in Nat, NEW rows, IsGrid(rows, n)
    PROVE  load_csv(rows) = rows /\ IsSeq(rows) /\ Len(rows) = n
<1>1. rows = [i \in 1..n |-> rows[i]] /\ \A i \in 1..n : rows[i] = [c \in Columns |-> rows[i][c]]
  BY DEF IsGrid
<1>2. Len(rows) = n /\ DOMAIN rows = 1..n /\ IsSeq(rows)
  BY <1>1, SeqLen
<1> DEFINE row(i) == [c \in Columns |-> IF c <= Len(rows[i]) THEN rows[i][c] ELSE Empty]
<1>3. ASSUME NEW i \in 1..n PROVE row(i) = rows[i]
  <2>1. PICK r : r = rows[i]
    OBVIOUS
  <2>2. r = [c \in 1..Width |-> r[c]] /\ Width \in Nat
    BY <1>1, <2>1, WidthAssumption DEF Columns
  <2>3. Len(r) = Width
    BY <2>2, SeqLen
  <2>4. \A c \in Columns : c <= Width
    BY <2>2 DEF Columns
  <2>5. row(i) = [c \in Columns |-> r[c]]
    BY <2>1, <2>3, <2>4
  <2> QED
    BY <1>1, <2>1, <2>5
<1>4. load_csv(rows) = [i \in 1..n |-> row(i)]
  BY <1>2 DEF load_csv
<1> HIDE DEF row
<1>5. load_csv(rows) = [i \in 1..n |-> rows[i]]
  BY <1>3, <1>4
<1> QED
  BY <1>1, <1>2, <1>5

\* A list of values of a cell that begins with the value read.
Begins(v, raw) == IsSeq(v) /\ Len(v) >= 1 /\ v[1] = raw

\* The lists that are written out begin with their first value.
LEMMA ShortLists ==
    \A a, b, c, d : Begins(<<a>>, a) /\ Begins(<<a, b, c>>, a) /\ Begins(<<a, b, c, d>>, a)
<1> SUFFICES ASSUME NEW a, NEW b, NEW c, NEW d
             PROVE  Begins(<<a>>, a) /\ Begins(<<a, b, c>>, a) /\ Begins(<<a, b, c, d>>, a)
  OBVIOUS
<1>1. \A v : \A n \in Nat : n >= 1 /\ v = [k \in 1..n |-> v[k]] /\ v[1] = a => Begins(v, a)
  BY SeqLen DEF Begins
<1>2. <<a>> = [k \in 1..1 |-> <<a>>[k]] /\ <<a>>[1] = a
  OBVIOUS
<1>3. <<a, b, c>> = [k \in 1..3 |-> <<a, b, c>>[k]] /\ <<a, b, c>>[1] = a
  OBVIOUS
<1>4. <<a, b, c, d>> = [k \in 1..4 |-> <<a, b, c, d>>[k]] /\ <<a, b, c, d>>[1] = a
  OBVIOUS
<1>5. Begins(<<a>>, a)
  BY <1>1, <1>2
<1>6. Begins(<<a, b, c>>, a)
  <2>1. PICK v, n : v = <<a, b, c>> /\ n = 3
    OBVIOUS
  <2>2. n \in Nat /\ n >= 1 /\ v = [k \in 1..n |-> v[k]] /\ v[1] = a
    BY <1>3, <2>1
  <2> QED
    BY <1>1, <2>1, <2>2
<1>7. Begins(<<a, b, c, d>>, a)
  <2>1. PICK v, n : v = <<a, b, c, d>> /\ n = 4
    OBVIOUS
  <2>2. n \in Nat /\ n >= 1 /\ v = [k \in 1..n |-> v[k]] /\ v[1] = a
    BY <1>4, <2>1
  <2> QED
    BY <1>1, <2>1, <2>2
<1> QED
  BY <1>5, <1>6, <1>7

\* The columns in their own order.
LEMMA OwnOrder == IsOrder([c \in Columns |-> c])
  BY DEF IsOrder

\* The log of a cleaning replays.
LEMMA CleanIs ==
    ASSUME NEW n \in Nat, NEW rows, IsGrid(rows, n), NEW types
    PROVE  RewrittenOf(clean(rows, types), rows, n)
<1> DEFINE values == [i \in 1..n |-> [c \in Columns |-> CleanedValues(rows[i][c], types[c])]]
           order == [c \in Columns |-> c]
<1>1. DOMAIN rows = 1..n
  BY SeqLen DEF IsGrid
<1>2. clean(rows, types) = Rewritten(rows, order, values, MaxCleaningChanges)
  BY <1>1 DEF clean
<1>3. \A raw, type : Begins(CleanedValues(raw, type), raw)
  BY ShortLists DEF CleanedValues
<1>4. AreValues(values, rows, n)
  BY <1>3 DEF AreValues, Begins
<1> HIDE DEF values, order
<1>5. MaxCleaningChanges \in Nat /\ IsOrder(order)
  BY PreparationAssumption, OwnOrder DEF order
<1> QED
  BY <1>2, <1>4, <1>5, RewrittenIs

\* Every cell's list of values begins with the value read.
LEMMA StandardizedValuesAre ==
    ASSUME NEW raw, NEW type, NEW isCountry, NEW country, NEW tables
    PROVE  Begins(StandardizedValues(raw, type, isCountry, country, tables), raw)
<1> DEFINE v == StandardizedValues(raw, type, isCountry, country, tables)
<1>1. \/ v = <<raw>>
      \/ \E b, c : v = <<raw, b, c>>
      \/ \E b, c, d : v = <<raw, b, c, d>>
  BY DEF StandardizedValues
<1> HIDE DEF v
<1> QED
  BY <1>1, ShortLists DEF v

\* The order of standardization: one column first, then the others.
LEMMA CountryFirst ==
    ASSUME NEW first \in Columns \union {0}
    PROVE  IsOrder([k \in Columns |-> IF k > first THEN k ELSE IF k = 1 THEN first ELSE k - 1])
<1> DEFINE order == [k \in Columns |-> IF k > first THEN k ELSE IF k = 1 THEN first ELSE k - 1]
<1>1. Width \in Nat /\ Columns = 1..Width
  BY WidthAssumption DEF Columns
<1>2. order \in [Columns -> Columns]
  BY <1>1
<1>3. \A j, k \in Columns : order[j] = order[k] => j = k
  BY <1>1
<1>4. ASSUME NEW c \in Columns PROVE \E k \in Columns : order[k] = c
  <2>1. CASE c > first
    <3>1. order[c] = c
      BY <2>1
    <3> QED
      BY <3>1
  <2>2. CASE c = first
    <3>1. 1 \in Columns /\ order[1] = c
      BY <1>1, <2>2
    <3> QED
      BY <3>1
  <2>3. CASE c < first
    <3>1. c + 1 \in Columns /\ order[c + 1] = c
      BY <1>1, <2>3
    <3> QED
      BY <3>1
  <2> QED
    BY <1>1, <2>1, <2>2, <2>3
<1> QED
  BY <1>2, <1>3, <1>4 DEF IsOrder

\* The log of a standardization replays.
LEMMA StandardizeIs ==
    ASSUME NEW n \in Nat, NEW rows, IsGrid(rows, n), NEW types, NEW tables
    PROVE  RewrittenOf(standardize(rows, types, tables), rows, n)
<1> DEFINE countries == {c \in Columns : types[c] = "country"}
           first == IF countries = {} THEN 0 ELSE CHOOSE c \in countries : \A d \in countries : c <= d
           order == [k \in Columns |-> IF k > first THEN k ELSE IF k = 1 THEN first ELSE k - 1]
           CountryAt(i) ==
             IF first = 0 THEN "none"
             ELSE resolve_country_code(
                    Last(StandardizedValues(rows[i][first], "country", TRUE, "none", tables)),
                    for_field_type(tables, "country"))
           value(i, c) == StandardizedValues(rows[i][c], types[c], c = first, CountryAt(i), tables)
           values == [i \in 1..n |-> [c \in Columns |-> value(i, c)]]
<1>1. DOMAIN rows = 1..n
  BY SeqLen DEF IsGrid
<1>2. standardize(rows, types, tables) = Rewritten(rows, order, values, MaxStandardChanges)
  BY <1>1 DEF standardize
<1>3. \A i, c : Begins(value(i, c), rows[i][c])
  BY StandardizedValuesAre
<1>4. first \in Columns \union {0}
  <2>1. countries \in SUBSET Nat
    BY DEF Columns
  <2>2. countries # {} => \E c \in countries : \A d \in countries : c <= d
    <3> HIDE DEF countries
    <3> QED
      BY <2>1, LeastNatural
  <2>3. countries # {} => first \in countries
    BY <2>2
  <2> QED
    BY <2>3
<1> HIDE DEF value, first
<1>5. IsOrder(order)
  BY <1>4, CountryFirst
<1>6. AreValues(values, rows, n)
  BY <1>3 DEF AreValues, Begins
<1> HIDE DEF values, order
<1>7. MaxStandardChanges \in Nat
  BY PreparationAssumption
<1> QED
  BY <1>2, <1>5, <1>6, <1>7, RewrittenIs

-----------------------------------------------------------------------------
(***************************************************************************)
(* The scores and counts of match(): what its tables accept.               *)
(***************************************************************************)

\* The sums after each of the first n fields.
Weighing(f, fields, matched) ==
    /\ f[0] = 0
    /\ \A k \in 1..Len(fields) :
         f[k] = IF matched[k] THEN f[k - 1] + fields[k].weight ELSE f[k - 1]

\* MatchedWeight adds them up.
LEMMA MatchedWeightIs ==
    ASSUME NEW fields, Len(fields) \in Nat, NEW matched
    PROVE  \E f : Weighing(f, fields, matched) /\ MatchedWeight(fields, matched) = f[Len(fields)]
<1> DEFINE Next1(f, k) == IF k = 0 THEN 0
                          ELSE IF matched[k] THEN f[k - 1] + fields[k].weight ELSE f[k - 1]
           Steps(f, m) == [k \in 0..m |-> Next1(f, k)]
           T == {m \in Nat : \E f : f = Steps(f, m)}
<1>1. 0 \in T
  <2> DEFINE g == [k \in 0..0 |-> 0]
  <2>1. \A k \in 0..0 : Next1(g, k) = 0
    OBVIOUS
  <2>2. g = Steps(g, 0)
    <3> HIDE DEF Next1
    <3> QED
      BY <2>1
  <2> QED
    BY <2>2
<1>2. ASSUME NEW m \in T PROVE m + 1 \in T
  <2>1. m \in Nat
    OBVIOUS
  <2>2. PICK f : f = Steps(f, m)
    OBVIOUS
  <2> DEFINE g == [k \in 0..(m + 1) |-> IF k <= m THEN f[k] ELSE Next1(f, k)]
  <2>3. ASSUME NEW k \in 0..(m + 1) PROVE g[k] = Next1(g, k)
    <3>1. k # 0 => k - 1 \in 0..(m + 1) /\ g[k - 1] = f[k - 1]
      <4> HIDE DEF Next1
      <4> QED
        BY <2>1
    <3>2. Next1(g, k) = Next1(f, k)
      <4> HIDE DEF g
      <4> QED
        BY <3>1
    <3> HIDE DEF Next1
    <3>3. CASE k <= m
      <4>1. k \in 0..m
        BY <2>1, <3>3
      <4>2. f[k] = Next1(f, k)
        BY <2>2, <4>1
      <4> QED
        BY <3>2, <3>3, <4>2
    <3>4. CASE ~(k <= m)
      BY <3>2, <3>4
    <3> QED
      BY <3>3, <3>4
  <2>4. g = [k \in 0..(m + 1) |-> g[k]]
    <3> HIDE DEF Next1
    <3> QED
      OBVIOUS
  <2> HIDE DEF g, Next1
  <2>5. g = Steps(g, m + 1)
    BY <2>3, <2>4
  <2>6. m + 1 \in Nat
    BY <2>1
  <2> QED
    BY <2>5, <2>6
<1>3. Len(fields) \in T
  <2> HIDE DEF T
  <2>1. T \in SUBSET Nat
    BY DEF T
  <2> QED
    BY <1>1, <1>2, <2>1, Induction
<1> DEFINE F == CHOOSE f : f = Steps(f, Len(fields))
<1>4. F = Steps(F, Len(fields))
  <2>1. \E f : f = Steps(f, Len(fields))
    BY <1>3
  <2> QED
    BY <2>1
<1>5. MatchedWeight(fields, matched) = F[Len(fields)]
  BY DEF MatchedWeight
<1> HIDE DEF F
<1>6. \A k \in 0..Len(fields) : F[k] = Next1(F, k)
  <2> HIDE DEF Next1
  <2> QED
    BY <1>4
<1>7. \A k \in 1..Len(fields) : k \in 0..Len(fields) /\ k # 0
  OBVIOUS
<1>8. Weighing(F, fields, matched)
  BY <1>6, <1>7 DEF Weighing
<1> QED
  BY <1>5, <1>8

\* The fields that match weigh no more than all of them.
LEMMA WeightsAreBounded ==
    ASSUME NEW fields \in Seq(RuleFields), NEW matched
    PROVE  /\ MatchedWeight(fields, matched) \in Nat /\ TotalWeight(fields) \in Nat
           /\ MatchedWeight(fields, matched) <= TotalWeight(fields)
           /\ Len(fields) = 0 => TotalWeight(fields) = 0
<1> DEFINE n == Len(fields)
           all == [k \in DOMAIN fields |-> TRUE]
<1>1. n \in Nat /\ DOMAIN fields = 1..n /\ \A k \in 1..n : fields[k].weight \in Nat
  <2>1. n \in Nat /\ DOMAIN fields = 1..n /\ \A k \in 1..n : fields[k] \in RuleFields
    OBVIOUS
  <2>2. \A x \in RuleFields : x.weight \in Nat
    BY DEF RuleFields
  <2> QED
    BY <2>1, <2>2
<1>2. PICK f : Weighing(f, fields, matched) /\ MatchedWeight(fields, matched) = f[n]
  BY <1>1, MatchedWeightIs
<1>3. PICK g : Weighing(g, fields, all) /\ TotalWeight(fields) = g[n]
  <2>1. \E g : Weighing(g, fields, all) /\ MatchedWeight(fields, all) = g[n]
    <3> HIDE DEF all
    <3> QED
      BY <1>1, MatchedWeightIs
  <2> QED
    BY <2>1 DEF TotalWeight
<1>4. \A k \in 1..n : all[k] = TRUE
  BY <1>1
<1> HIDE DEF n, all
<1> DEFINE T == {k \in Nat : k <= n => f[k] \in Nat /\ g[k] \in Nat /\ f[k] <= g[k]}
<1>5. 0 \in T
  BY <1>2, <1>3 DEF Weighing
<1>6. ASSUME NEW k \in T PROVE k + 1 \in T
  <2>1. CASE k + 1 <= n
    <3>1. k \in Nat /\ k + 1 \in 1..n /\ (k + 1) - 1 = k
      BY <1>1, <2>1
    <3>2. f[k] \in Nat /\ g[k] \in Nat /\ f[k] <= g[k]
      BY <1>1, <2>1, <3>1
    <3>3. g[k + 1] = g[k] + fields[k + 1].weight
      BY <1>3, <1>4, <3>1 DEF Weighing, n
    <3>4. f[k + 1] = f[k] + fields[k + 1].weight \/ f[k + 1] = f[k]
      BY <1>2, <3>1 DEF Weighing, n
    <3> QED
      BY <1>1, <3>1, <3>2, <3>3, <3>4
  <2>2. CASE ~(k + 1 <= n)
    BY <2>2
  <2> QED
    BY <2>1, <2>2
<1>7. n \in T
  <2> HIDE DEF T
  <2>1. T \in SUBSET Nat
    BY DEF T
  <2> QED
    BY <1>1, <1>5, <1>6, <2>1, Induction
<1>8. n = 0 => g[n] = 0
  BY <1>3 DEF Weighing
<1> QED
  BY <1>1, <1>2, <1>3, <1>7, <1>8 DEF n

\* A score is between 0 and that of identical rows.
LEMMA ScoresAreBounded ==
    ASSUME NEW rs \in RuleSets, NEW p, NEW rows
    PROVE  FullScore(rs) \in Nat /\ Score(p, rows, rs) \in 0..FullScore(rs)
<1>1. PICK fields : fields = rs.fields
  OBVIOUS
<1>2. fields \in Seq(RuleFields)
  BY <1>1 DEF RuleSets
<1>3. PICK matched : Score(p, rows, rs) = MatchedWeight(fields, matched)
  BY <1>1 DEF Score, compare_pair
<1>4. /\ MatchedWeight(fields, matched) \in Nat /\ TotalWeight(fields) \in Nat
      /\ MatchedWeight(fields, matched) <= TotalWeight(fields)
      /\ Len(fields) = 0 => TotalWeight(fields) = 0
  BY <1>2, WeightsAreBounded
<1>5. FullScore(rs) = IF fields = <<>> THEN 1 ELSE TotalWeight(fields)
  BY <1>1 DEF FullScore
<1>6. fields = <<>> => Len(fields) = 0
  OBVIOUS
<1> QED
  BY <1>3, <1>4, <1>5, <1>6

\* Every decision is on two rows in their order, with a score and a verdict.
LEMMA DecisionsAreLegal ==
    ASSUME NEW rows, IsSeq(rows), NEW rs \in RuleSets, NEW d \in Members(AllDecisions(rows, rs))
    PROVE  /\ d.a < d.b /\ d.total_score \in 0..FullScore(rs)
           /\ d.decision \in {"duplicate", "ambiguous"}
<1>1. PICK weight : weight = FullScore(rs) /\ \A x : x \in Members(AllDecisions(rows, rs)) <=>
                \/ \E k \in DOMAIN rows : /\ k = Smallest(ClassOf(rows, k))
                                          /\ x \in Members(ChainLinks(ClassOf(rows, k), weight))
                \/ \E b \in Compared(rows, rs) : x \in Members(BlockDecisions(b, rows, rs))
  BY AllDecisionsAre
<1>2. weight \in Nat
  BY <1>1, ScoresAreBounded
<1>3. ASSUME NEW k \in DOMAIN rows, d \in Members(ChainLinks(ClassOf(rows, k), weight))
      PROVE  d.a < d.b /\ d.total_score \in 0..weight /\ d.decision = "duplicate"
  <2>1. PICK C : C = ClassOf(rows, k)
    OBVIOUS
  <2>2. C \in SUBSET Nat /\ IsFiniteSet(C)
    BY <2>1, ClassesAre
  <2>3. PICK s : s = Ascending(C)
    OBVIOUS
  <2>4. PICK n \in 1..(Cardinality(C) - 1) :
            d = Decision(s[n], s[n + 1], "exact_row_match", weight, "duplicate")
    BY <1>3, <2>1, <2>2, <2>3, ChainLinksAre
  <2>5. /\ Cardinality(C) \in Nat
        /\ \A j \in 1..Cardinality(C) : \A i \in 1..(j - 1) : s[i] < s[j]
    BY <2>2, <2>3, AscendingIs
  <2>6. n + 1 \in 1..Cardinality(C) /\ n \in 1..((n + 1) - 1)
    BY <2>5
  <2> QED
    BY <1>2, <2>4, <2>5, <2>6 DEF Decision
<1>4. ASSUME NEW b \in Compared(rows, rs), d \in Members(BlockDecisions(b, rows, rs))
      PROVE  /\ d.a < d.b /\ d.total_score \in 0..weight
             /\ d.decision \in {"duplicate", "ambiguous"}
  <2>1. b \in SUBSET DOMAIN rows
    BY ComparedAre
  <2>2. b \in SUBSET Nat /\ IsFiniteSet(b)
    BY <2>1, RowSets
  <2>3. PICK p \in Members(PairsOf(b)) : d \in Members(PairDecision(p, rows, rs))
    BY <1>4, <2>2, BlockDecisionsAre
  <2>4. PICK x \in b, y \in b : x < y /\ p = <<x, y>>
    BY <2>2, <2>3, PairsAre
  <2>5. /\ d.a = p[1] /\ d.b = p[2] /\ d.total_score = Score(p, rows, rs)
        /\ d.decision \in {"duplicate", "ambiguous"}
    BY <2>3, PairDecisionIs
  <2>6. Score(p, rows, rs) \in 0..weight
    BY <1>1, ScoresAreBounded
  <2> QED
    BY <2>4, <2>5, <2>6
<1> QED
  BY <1>1, <1>3, <1>4

\* The groups are sets of rows, finitely many.
LEMMA GroupsAre ==
    ASSUME NEW rows, IsSeq(rows), NEW rs
    PROVE  LET groups == Groups(Len(rows), AllDecisions(rows, rs)) IN
           /\ IsFiniteSet(groups)
           /\ \A c \in groups : Cardinality(c) >= 2
<1> DEFINE all == AllDecisions(rows, rs)
           groups == Groups(Len(rows), all)
<1>1. PICK rep \in [DOMAIN rows -> DOMAIN rows] :
             /\ components(Forests(Len(rows), all)[Len(all)]) = Trees(rep, Len(rows))
             /\ DuplicateClasses(rows, rs) = Trees(rep, Len(rows))
  BY MatchPartitions
<1>2. groups = {x \in DuplicateClasses(rows, rs) : Cardinality(x) >= 2}
  BY <1>1 DEF Groups
<1> HIDE DEF groups, all
<1>3. DuplicateClasses(rows, rs) \subseteq SUBSET DOMAIN rows
  BY DEF DuplicateClasses
<1>4. IsFiniteSet(SUBSET DOMAIN rows)
  BY RowSets, FS_SUBSET
<1>5. IsFiniteSet(groups)
  BY <1>2, <1>3, <1>4, FS_Subset
<1> QED
  BY <1>2, <1>5 DEF groups, all

\* The pairs compared, in both stages, are counted.
LEMMA ComparisonsAre ==
    ASSUME NEW rows, IsSeq(rows), NEW rs
    PROVE  Comparisons(rows, rs) \in Nat
<1>1. PICK blocks : blocks = ByKey(rows, rs)
  OBVIOUS
<1>2. PICK n \in Nat : blocks \in [1..n -> Compared(rows, rs)]
  BY <1>1, ByKeyIs DEF Lists
<1> DEFINE seqs == [k \in 1..n |-> PairsOf(blocks[k])]
<1>3. seqs = [k \in 1..n |-> seqs[k]] /\ \A k \in 1..n : seqs[k] = PairsOf(blocks[k])
  OBVIOUS
<1>4. DOMAIN blocks = 1..n
  BY <1>2
<1>5. PICK first : first = ExactDecisions(rows, FullScore(rs))
  OBVIOUS
<1>6. Comparisons(rows, rs) = Len(first) + Len(FlattenSeq(seqs))
  BY <1>1, <1>4, <1>5 DEF Comparisons
<1> HIDE DEF seqs
<1>7. ASSUME NEW k \in 1..n PROVE IsSeq(seqs[k])
  <2>1. PICK b : b = blocks[k]
    OBVIOUS
  <2>2. b \in SUBSET DOMAIN rows
    BY <1>2, <2>1, ComparedAre
  <2>3. b \in SUBSET Nat /\ IsFiniteSet(b)
    BY <2>2, RowSets
  <2> QED
    BY <1>3, <2>1, <2>3, PairsAre
<1>8. IsSeq(FlattenSeq(seqs))
  BY <1>3, <1>7, FlattenMembers
<1>9. IsSeq(first)
  BY <1>5, ExactDecisionsAre
<1>10. \A s : IsSeq(s) => Len(s) \in Nat
  BY SeqLen DEF IsSeq
<1> QED
  BY <1>6, <1>8, <1>9, <1>10

\* The least of scores is a score.
LEMMA LowestIs ==
    ASSUME NEW rs \in RuleSets, NEW scores \in SUBSET (0..FullScore(rs))
    PROVE  Lowest(scores, rs) \in 0..FullScore(rs)
<1>1. PICK full \in Nat : full = FullScore(rs)
  BY ScoresAreBounded
<1>2. PICK S : S = IF scores = {} THEN {full} ELSE scores
  OBVIOUS
<1>3. S \in SUBSET (0..full) /\ S \in SUBSET Nat /\ S # {}
  BY <1>1, <1>2
<1>4. Smallest(S) \in S
  BY <1>3, SmallestIs
<1> QED
  BY <1>1, <1>2, <1>3, <1>4 DEF Lowest

\* A group is as certain as a decision is.
LEMMA ConfidenceIs ==
    ASSUME NEW rows, IsSeq(rows), NEW rs \in RuleSets, NEW g
    PROVE  Confidence(g, AllDecisions(rows, rs), rs) \in 0..FullScore(rs)
<1>1. PICK all : all = AllDecisions(rows, rs)
  OBVIOUS
<1>2. \A k \in DOMAIN all : all[k].total_score \in 0..FullScore(rs)
  BY <1>1, DecisionsAreLegal DEF Members
<1> DEFINE links == {k \in DOMAIN all : all[k].decision = "duplicate" /\ all[k].a \in g}
           scores == {all[k].total_score : k \in links}
<1>3. scores \in SUBSET (0..FullScore(rs))
  BY <1>2
<1>4. Confidence(g, all, rs) = Lowest(scores, rs)
  BY DEF Confidence
<1> HIDE DEF scores
<1> QED
  BY <1>1, <1>3, <1>4, LowestIs

\* What match() returns for a rule set: counts, groups of two and more, pairs
\* in row order, blocks that are not empty, and scores between 0 and that of
\* identical rows.
LegalMatch(m, full) ==
    /\ m.row_count \in Nat /\ m.total_comparisons_count \in Nat
    /\ m.duplicate_group_count \in Nat /\ m.skipped_block_count \in Nat
    /\ m.duplicate_pairs_count >= 0 /\ m.ambiguous_pairs_count >= 0
    /\ m.confidence_score \in 0..full
    /\ \A g \in m.groups : g.record_count >= 2 /\ g.confidence_score \in 0..full
    /\ \A k \in DOMAIN m.decisions :
         /\ m.decisions[k].a < m.decisions[k].b
         /\ m.decisions[k].total_score \in 0..full
         /\ m.decisions[k].decision \in {"duplicate", "ambiguous"}
    /\ \A b \in m.skipped_blocks : b.block_size > 0

\* For every file and rule set, match() returns such a result.
THEOREM MatchIsLegal ==
    ASSUME NEW rows, IsSeq(rows), NEW rs \in RuleSets
    PROVE  LegalMatch(match(rows, rs), FullScore(rs))
<1> DEFINE m == match(rows, rs)
           all == AllDecisions(rows, rs)
           groups == Groups(Len(rows), all)
           skipped == Blocks(rows, rs) \ Compared(rows, rs)
           kept == IF Len(all) < MaxDecisions THEN Len(all) ELSE MaxDecisions
           Kept(k) == [a |-> all[k].a, b |-> all[k].b, rule_name |-> all[k].rule_name,
                       total_score |-> all[k].total_score, decision |-> all[k].decision,
                       group |-> Fed(all[k], groups)]
           Group(c) == [canonical_row_index |-> Smallest(c), record_count |-> Cardinality(c),
                        confidence_score |-> Confidence(c, all, rs)]
           Skip(b) == [blocking_key |-> BlockKey(rows, Smallest(b), rs.fields),
                       block_size |-> Cardinality(b)]
<1>1. /\ m.row_count = Len(rows) /\ m.total_comparisons_count = Comparisons(rows, rs)
      /\ m.duplicate_group_count = Cardinality(groups)
      /\ m.skipped_block_count = Cardinality(skipped)
      /\ m.confidence_score = Lowest({Confidence(c, all, rs) : c \in groups}, rs)
      /\ m.groups = {Group(c) : c \in groups}
      /\ m.decisions = [k \in 1..kept |-> Kept(k)]
      /\ m.skipped_blocks = {Skip(b) : b \in skipped}
  BY DEF match
<1>2. Len(all) \in Nat /\ DOMAIN all = 1..Len(all)
  <2>1. IsSeq(all)
    BY AllDecisionsAre
  <2> QED
    BY <2>1, SeqLen DEF IsSeq
<1>3. \A c : Confidence(c, all, rs) \in 0..FullScore(rs)
  BY ConfidenceIs
<1>4. IsFiniteSet(groups) /\ \A c \in groups : Cardinality(c) >= 2
  BY GroupsAre
<1>5. \A k \in 1..Len(all) : /\ all[k].a < all[k].b /\ all[k].total_score \in 0..FullScore(rs)
                             /\ all[k].decision \in {"duplicate", "ambiguous"}
  <2> SUFFICES ASSUME NEW k \in 1..Len(all)
               PROVE  /\ all[k].a < all[k].b /\ all[k].total_score \in 0..FullScore(rs)
                      /\ all[k].decision \in {"duplicate", "ambiguous"}
    OBVIOUS
  <2>1. all[k] \in Members(all)
    BY <1>2 DEF Members
  <2> QED
    BY <2>1, DecisionsAreLegal
<1>6. m.duplicate_pairs_count >= 0 /\ m.ambiguous_pairs_count >= 0
  BY MatchFindsDuplicates
<1>7. Comparisons(rows, rs) \in Nat /\ Len(rows) \in Nat
  BY ComparisonsAre, RowSets
<1>8. /\ IsFiniteSet(skipped)
      /\ \A b \in skipped : b \in SUBSET DOMAIN rows /\ b # {}
  BY BlocksAre, FS_Subset
<1>9. \A b \in skipped : Cardinality(b) \in Nat /\ Cardinality(b) > 0
  <2> SUFFICES ASSUME NEW b \in skipped PROVE Cardinality(b) \in Nat /\ Cardinality(b) > 0
    OBVIOUS
  <2>1. IsFiniteSet(b) /\ b # {}
    BY <1>8, RowSets
  <2> QED
    BY <2>1, FS_CardinalityType, FS_EmptySet
<1> HIDE DEF m, all, groups, skipped
<1>10. /\ \A c : Group(c).record_count = Cardinality(c)
                   /\ Group(c).confidence_score = Confidence(c, all, rs)
       /\ \A b : Skip(b).block_size = Cardinality(b)
       /\ \A k : /\ Kept(k).a = all[k].a /\ Kept(k).b = all[k].b
                 /\ Kept(k).total_score = all[k].total_score
                 /\ Kept(k).decision = all[k].decision
  OBVIOUS
<1> HIDE DEF Group, Skip, Kept
<1>11. \A k \in 1..kept : k \in 1..Len(all)
  BY <1>2, MatchingAssumption
<1> HIDE DEF kept
<1>12. DOMAIN m.decisions = 1..kept /\ \A k \in 1..kept : m.decisions[k] = Kept(k)
  BY <1>1
<1>13. \A k \in DOMAIN m.decisions :
         /\ m.decisions[k].a < m.decisions[k].b
         /\ m.decisions[k].total_score \in 0..FullScore(rs)
         /\ m.decisions[k].decision \in {"duplicate", "ambiguous"}
  BY <1>5, <1>10, <1>11, <1>12
<1>14. \A g \in m.groups : g.record_count >= 2 /\ g.confidence_score \in 0..FullScore(rs)
  BY <1>1, <1>3, <1>4, <1>10
<1>15. \A b \in m.skipped_blocks : b.block_size > 0
  BY <1>1, <1>9, <1>10
<1>16. m.confidence_score \in 0..FullScore(rs)
  <2>1. {Confidence(c, all, rs) : c \in groups} \in SUBSET (0..FullScore(rs))
    BY <1>3
  <2> QED
    BY <1>1, <2>1, LowestIs
<1>17. Cardinality(groups) \in Nat /\ Cardinality(skipped) \in Nat
  BY <1>4, <1>8, FS_CardinalityType
<1> QED
  BY <1>1, <1>6, <1>7, <1>13, <1>14, <1>15, <1>16, <1>17 DEF LegalMatch, m

=============================================================================
