----------------------------- MODULE SourceProofs -----------------------------
(***************************************************************************)
(* Theorems about Source, for any packs, selections and numbers of starts  *)
(* and passes: frames come in order and nothing of them disappears, what   *)
(* is delivered again is a duplicate, and live frames move the values.     *)
(***************************************************************************)
EXTENDS Source, SequenceTheorems, FiniteSetTheorems, TLAPS

-------------------------------------------------------------------------------
(* Induction, as facts about sets of numbers. *)

\* A set of numbers that is not empty has a least one.
LEMMA Least ==
    ASSUME NEW T \in SUBSET Nat, T # {}
    PROVE  \E n \in T : \A m \in T : n <= m
  <1>1. PICK n \in T : \A m \in T : ~ (<<m, n>> \in OpToRel(<, Nat))
    BY WFMin, NatLessThanWellFounded
  <1>2. \A m \in T : ~(m < n)
    BY <1>1 DEF OpToRel
  <1> QED BY <1>2

\* What holds at 0 and passes from k to k + 1 holds up to n.
LEMMA UpTo ==
    ASSUME NEW n \in Nat, NEW T, 0 \in T, \A k \in 0..n : k < n /\ k \in T => k + 1 \in T
    PROVE  \A k \in 0..n : k \in T
  <1> DEFINE missing == {k \in 0..n : k \notin T}
  <1> SUFFICES ASSUME missing # {} PROVE FALSE
    OBVIOUS
  <1>1. missing \in SUBSET Nat
    OBVIOUS
  <1> HIDE DEF missing
  <1>2. PICK m \in missing : \A k \in missing : m <= k
    BY <1>1, Least
  <1>3. m # 0 /\ m - 1 \in 0..n /\ m - 1 \in T
    BY <1>2 DEF missing
  <1> QED BY <1>2, <1>3 DEF missing

-------------------------------------------------------------------------------
(* Arranged. *)

\* R orders S.
Orders(R, S) ==
    /\ \A x \in S : <<x, x>> \notin R
    /\ \A x, y \in S : x # y => <<x, y>> \in R \/ <<y, x>> \in R
    /\ \A x, y, z \in S : <<x, y>> \in R /\ <<y, z>> \in R => <<x, z>> \in R

Below(R, S, x) == {y \in S : <<y, x>> \in R}

\* The numbers of elements below are those from 0, each once.
LEMMA Places ==
    ASSUME NEW S, IsFiniteSet(S), NEW R, Orders(R, S)
    PROVE  /\ Cardinality(S) \in Nat
           /\ \A k \in 1..Cardinality(S) : \E x \in S : Cardinality(Below(R, S, x)) = k - 1
           /\ \A x \in S : Cardinality(Below(R, S, x)) + 1 \in 1..Cardinality(S)
           /\ \A x, y \in S : Cardinality(Below(R, S, x)) = Cardinality(Below(R, S, y)) => x = y
  <1> DEFINE place == [x \in S |-> Cardinality(Below(R, S, x)) + 1]
             n == Cardinality(S)
  <1>1. n \in Nat
    BY FS_CardinalityType
  <1>2. ASSUME NEW x \in S
        PROVE  /\ IsFiniteSet(Below(R, S, x)) /\ Cardinality(Below(R, S, x)) \in Nat
               /\ Cardinality(Below(R, S, x)) < n
    <2>1. Below(R, S, x) \in SUBSET S /\ Below(R, S, x) # S
      BY DEF Below, Orders
    <2>2. /\ IsFiniteSet(Below(R, S, x))
          /\ Cardinality(Below(R, S, x)) <= n /\ Cardinality(Below(R, S, x)) # n
      BY <2>1, FS_Subset
    <2>3. Cardinality(Below(R, S, x)) \in Nat
      BY <2>2, FS_CardinalityType
    <2> QED BY <1>1, <2>2, <2>3
  <1>3. ASSUME NEW x \in S, NEW y \in S, <<x, y>> \in R
        PROVE  Cardinality(Below(R, S, x)) < Cardinality(Below(R, S, y))
    <2>1. Below(R, S, x) \in SUBSET Below(R, S, y) /\ Below(R, S, x) # Below(R, S, y)
      BY <1>3 DEF Below, Orders
    <2>2. /\ Cardinality(Below(R, S, x)) <= Cardinality(Below(R, S, y))
          /\ Cardinality(Below(R, S, x)) # Cardinality(Below(R, S, y))
      BY <1>2, <2>1, FS_Subset
    <2> QED BY <1>2, <2>2
  <1>4. \A x, y \in S : Cardinality(Below(R, S, x)) = Cardinality(Below(R, S, y)) => x = y
    <2> SUFFICES ASSUME NEW a \in S, NEW b \in S,
                        Cardinality(Below(R, S, a)) = Cardinality(Below(R, S, b)), a # b
                 PROVE  FALSE
      OBVIOUS
    <2>1. <<a, b>> \in R \/ <<b, a>> \in R
      BY DEF Orders
    <2>2. Cardinality(Below(R, S, a)) < Cardinality(Below(R, S, b))
          \/ Cardinality(Below(R, S, b)) < Cardinality(Below(R, S, a))
      BY <1>3, <2>1
    <2> QED BY <1>2, <2>2
  <1>5. place \in Injection(S, 1..n)
    <2>1. \A x \in S : place[x] \in 1..n
      BY <1>1, <1>2
    <2>2. \A x, y \in S : place[x] = place[y] => x = y
      <3>1. \A x, y \in S : place[x] = place[y] =>
               Cardinality(Below(R, S, x)) = Cardinality(Below(R, S, y))
        BY <1>2
      <3> QED BY <1>4, <3>1
    <2> HIDE DEF n
    <2> QED BY <2>1, <2>2 DEF Injection, IsInjective
  <1>6. IsFiniteSet(1..n) /\ Cardinality(1..n) = n
    BY <1>1, FS_Interval
  <1>7. place \in Surjection(S, 1..n)
    BY <1>5, <1>6, FS_Injection
  <1>8. \A k \in 1..n : \E x \in S : place[x] = k
    BY <1>7 DEF Surjection
  <1>9. \A k \in 1..n : \E x \in S : Cardinality(Below(R, S, x)) = k - 1
    <2>1. \A x \in S, k \in 1..n : place[x] = k => Cardinality(Below(R, S, x)) = k - 1
      BY <1>1, <1>2
    <2> HIDE DEF place
    <2> QED BY <1>8, <2>1
  <1> QED BY <1>1, <1>2, <1>4, <1>9

LEMMA Listed ==
    ASSUME NEW S, NEW n \in Nat, NEW s \in [1..n -> S], \A x \in S : \E k \in 1..n : s[k] = x
    PROVE  s \in Seq(S) /\ Range(s) = S
  BY DEF Range

\* What is arranged is all there.
LEMMA ArrangedIsAll ==
    ASSUME NEW S, IsFiniteSet(S), NEW R, Orders(R, S), NEW s,
           s = [k \in 1..Cardinality(S) |-> s[k]],
           \A k \in 1..Cardinality(S) :
               (\E x \in S : Cardinality(Below(R, S, x)) = k - 1) =>
                   s[k] \in S /\ Cardinality(Below(R, S, s[k])) = k - 1
    PROVE  s \in Seq(S) /\ Range(s) = S
  <1> DEFINE n == Cardinality(S)
             depth(x) == Cardinality(Below(R, S, x))
  <1>1. /\ n \in Nat
        /\ \A k \in 1..n : \E x \in S : depth(x) = k - 1
        /\ \A x \in S : depth(x) + 1 \in 1..n /\ depth(x) \in Nat
        /\ \A x, y \in S : depth(x) = depth(y) => x = y
    <2>1. \A x \in S : depth(x) \in Nat
      <3>1. \A x \in S : Below(R, S, x) \in SUBSET S
        BY DEF Below
      <3> QED BY <3>1, FS_Subset, FS_CardinalityType
    <2> QED BY <2>1, Places
  <1>2. s = [k \in 1..n |-> s[k]]
    OBVIOUS
  <1> HIDE DEF n, depth
  <1>3. \A k \in 1..n : s[k] \in S /\ depth(s[k]) = k - 1
    BY <1>1 DEF n, depth
  <1>4. \A x \in S : s[depth(x) + 1] = x
    <2> SUFFICES ASSUME NEW x \in S PROVE s[depth(x) + 1] = x
      OBVIOUS
    <2>1. depth(x) + 1 \in 1..n /\ depth(x) \in Nat
      BY <1>1
    <2>2. s[depth(x) + 1] \in S /\ depth(s[depth(x) + 1]) = (depth(x) + 1) - 1
      BY <1>3, <2>1
    <2>3. depth(s[depth(x) + 1]) = depth(x)
      BY <2>1, <2>2
    <2> QED BY <1>1, <2>2, <2>3
  <1>5. s \in [1..n -> S] /\ DOMAIN s = 1..n
    BY <1>2, <1>3
  <1>6. \A x \in S : \E k \in 1..n : s[k] = x
    BY <1>1, <1>4
  <1> QED BY <1>1, <1>5, <1>6, Listed

-------------------------------------------------------------------------------
(* Folds and flattened sequences, step by step. *)

LEMMA Greatest ==
    ASSUME NEW n \in Nat, NEW T \in SUBSET (1..n), T # {}
    PROVE  Max(T) \in T /\ \A m \in T : m <= Max(T)
  <1> DEFINE other == {n - m : m \in T}
  <1>1. other \in SUBSET Nat /\ other # {}
    <2>1. \A m \in 1..n : n - m \in Nat
      OBVIOUS
    <2> QED BY <2>1
  <1>2. PICK x \in other : \A y \in other : x <= y
    <2> HIDE DEF other
    <2> QED BY <1>1, Least
  <1>3. PICK m \in T : x = n - m
    BY <1>2
  <1>4. \A k \in T : n - k \in other
    OBVIOUS
  <1>5. \A k \in T : m >= k
    <2> HIDE DEF other
    <2> QED BY <1>2, <1>3, <1>4
  <1>6. \E k \in T : \A j \in T : k >= j
    BY <1>5
  <1>7. Max(T) \in T /\ \A j \in T : Max(T) >= j
    <2> HIDE DEF other
    <2> QED BY <1>6 DEF Max
  <1> QED BY <1>7

\* A function of sets of numbers that ingests the events at these places.
Folded(g, b, seq, S) ==
    g = [s \in SUBSET S |->
            IF s = {} THEN b ELSE Ingested(g[s \ {Max(s)}], seq[Max(s)])]

\* A fold is a function on the sets of places.
LEMMA FoldedExists ==
    ASSUME NEW seq, NEW b, NEW n \in Nat
    PROVE  \E g : Folded(g, b, seq, 1..n)
  <1> DEFINE T == {k \in 0..n : \E g : Folded(g, b, seq, 1..k)}
  <1>1. 0 \in T
    <2> DEFINE g == [s \in SUBSET (1..0) |-> b]
    <2>1. \A s \in SUBSET (1..0) : s = {}
      OBVIOUS
    <2>2. Folded(g, b, seq, 1..0)
      BY <2>1 DEF Folded
    <2> QED BY <2>2
  <1>2. ASSUME NEW k \in 0..n, k < n, k \in T
        PROVE  k + 1 \in T
    <2>1. PICK g : Folded(g, b, seq, 1..k)
      BY <1>2
    <2> DEFINE g2 == [s \in SUBSET (1..(k + 1)) |->
                         IF s \in SUBSET (1..k) THEN g[s]
                         ELSE Ingested(g[s \ {k + 1}], seq[k + 1])]
    <2>2. ASSUME NEW s \in SUBSET (1..(k + 1))
          PROVE  g2[s] = IF s = {} THEN b ELSE Ingested(g2[s \ {Max(s)}], seq[Max(s)])
      <3>1. CASE s \in SUBSET (1..k)
        <4>1. s # {} => s \ {Max(s)} \in SUBSET (1..k) /\ s \ {Max(s)} \in SUBSET (1..(k + 1))
          BY <3>1
        <4>2. g[s] = IF s = {} THEN b ELSE Ingested(g[s \ {Max(s)}], seq[Max(s)])
          BY <2>1, <3>1 DEF Folded
        <4> QED BY <3>1, <4>1, <4>2
      <3>2. CASE s \notin SUBSET (1..k)
        <4>1. k + 1 \in s /\ s # {} /\ s \ {k + 1} \in SUBSET (1..k)
              /\ s \ {k + 1} \in SUBSET (1..(k + 1))
          BY <3>2
        <4>2. k + 1 \in Nat
          OBVIOUS
        <4>3. Max(s) \in s /\ \A m \in s : m <= Max(s)
          BY <4>1, <4>2, Greatest
        <4>4. Max(s) \in 1..(k + 1) /\ k + 1 <= Max(s)
          BY <4>1, <4>3
        <4>5. Max(s) = k + 1
          BY <4>2, <4>4
        <4> QED BY <3>2, <4>1, <4>5
      <3> QED BY <3>1, <3>2
    <2>3. Folded(g2, b, seq, 1..(k + 1))
      <3>1. g2 = [s \in SUBSET (1..(k + 1)) |-> g2[s]]
        OBVIOUS
      <3> HIDE DEF g2
      <3> QED BY <2>2, <3>1 DEF Folded
    <2> QED BY <1>2, <2>3
  <1>3. n \in T
    <2> HIDE DEF T
    <2> QED BY <1>1, <1>2, UpTo
  <1> QED BY <1>3

\* A fold passes through a state for each event.
LEMMA FoldSteps ==
    ASSUME NEW S, NEW seq \in Seq(S), NEW b
    PROVE  \E h : /\ h[0] = b /\ h[Len(seq)] = IngestedFrame(b, seq)
                  /\ \A k \in 1..Len(seq) : h[k] = Ingested(h[k - 1], seq[k])
  <1> DEFINE n == Len(seq)
             fold == CHOOSE g : Folded(g, b, seq, DOMAIN seq)
             h == [k \in 0..n |-> fold[1..k]]
  <1>1. n \in Nat /\ DOMAIN seq = 1..n
    OBVIOUS
  <1>2. IngestedFrame(b, seq) = fold[DOMAIN seq]
    BY DEF IngestedFrame, FoldLeft, MapThenFoldSet, Folded
  <1>3. Folded(fold, b, seq, 1..n)
    BY <1>1, FoldedExists
  <1> HIDE DEF n, fold
  <1>4. h[0] = b
    <2>1. 1..0 = {} /\ {} \in SUBSET (1..n)
      OBVIOUS
    <2> QED BY <1>1, <1>3, <2>1 DEF Folded
  <1>5. ASSUME NEW k \in 1..n
        PROVE  h[k] = Ingested(h[k - 1], seq[k])
    <2>1. 1..k \in SUBSET (1..n) /\ 1..k # {} /\ k \in Nat /\ k - 1 \in 0..n /\ k \in 0..n
      BY <1>1
    <2>2. Max(1..k) \in 1..k /\ \A m \in 1..k : m <= Max(1..k)
      BY <2>1, Greatest
    <2>3. Max(1..k) = k /\ (1..k) \ {k} = 1..(k - 1)
      BY <2>1, <2>2
    <2>4. fold[1..k] = Ingested(fold[1..(k - 1)], seq[k])
      BY <1>3, <2>1, <2>3 DEF Folded
    <2> QED BY <2>1, <2>4
  <1>6. h[n] = IngestedFrame(b, seq)
    BY <1>1, <1>2
  <1> QED BY <1>4, <1>5, <1>6 DEF n

LEMMA JoinedRange ==
    ASSUME NEW T, NEW s \in Seq(T), NEW t \in Seq(T)
    PROVE  s \o t \in Seq(T) /\ Range(s \o t) = Range(s) \cup Range(t)
  <1>1. /\ s \o t \in Seq(T) /\ Len(s \o t) = Len(s) + Len(t)
        /\ \A i \in 1..(Len(s) + Len(t)) :
              (s \o t)[i] = IF i <= Len(s) THEN s[i] ELSE t[i - Len(s)]
        /\ Len(s) \in Nat /\ Len(t) \in Nat
        /\ DOMAIN s = 1..Len(s) /\ DOMAIN t = 1..Len(t) /\ DOMAIN (s \o t) = 1..Len(s \o t)
    OBVIOUS
  <1>2. \A i \in DOMAIN s : i \in DOMAIN (s \o t) /\ (s \o t)[i] = s[i]
    BY <1>1
  <1>3. ASSUME NEW i \in DOMAIN t
        PROVE  \E j \in DOMAIN (s \o t) : (s \o t)[j] = t[i]
    <2>1. i + Len(s) \in DOMAIN (s \o t) /\ (s \o t)[i + Len(s)] = t[i]
      BY <1>1
    <2> QED BY <2>1
  <1>4. ASSUME NEW j \in DOMAIN (s \o t)
        PROVE  (s \o t)[j] \in Range(s) \cup Range(t)
    <2>1. j \in 1..(Len(s) + Len(t))
      BY <1>1
    <2>2. CASE j <= Len(s)
      <3>1. j \in DOMAIN s /\ (s \o t)[j] = s[j]
        BY <1>1, <2>1, <2>2
      <3> QED BY <3>1 DEF Range
    <2>3. CASE ~(j <= Len(s))
      <3>1. j - Len(s) \in DOMAIN t /\ (s \o t)[j] = t[j - Len(s)]
        BY <1>1, <2>1, <2>3
      <3> QED BY <3>1 DEF Range
    <2> QED BY <2>2, <2>3
  <1> QED BY <1>1, <1>2, <1>3, <1>4 DEF Range

Joined(g, ss, n) ==
    g = [i \in 1..n |-> IF i = 1 THEN ss[i] ELSE g[i - 1] \o ss[i]]

\* The first n sequences can be joined, for every n.
LEMMA JoinedExists ==
    ASSUME NEW ss, NEW n \in Nat
    PROVE  \E g : Joined(g, ss, n)
  <1> DEFINE T == {k \in 0..n : \E g : Joined(g, ss, k)}
  <1>1. 0 \in T
    <2>1. Joined([i \in 1..0 |-> 0], ss, 0)
      BY DEF Joined
    <2> QED BY <2>1
  <1>2. ASSUME NEW k \in 0..n, k < n, k \in T
        PROVE  k + 1 \in T
    <2>1. PICK g : Joined(g, ss, k)
      BY <1>2
    <2> DEFINE g2 == [i \in 1..(k + 1) |->
                         IF i \in 1..k THEN g[i]
                         ELSE IF i = 1 THEN ss[i] ELSE g[i - 1] \o ss[i]]
    <2>2. ASSUME NEW i \in 1..(k + 1)
          PROVE  g2[i] = IF i = 1 THEN ss[i] ELSE g2[i - 1] \o ss[i]
      <3>1. i # 1 => i - 1 \in 1..k /\ i - 1 \in 1..(k + 1) /\ g2[i - 1] = g[i - 1]
        OBVIOUS
      <3>2. CASE i \in 1..k
        <4>1. g[i] = IF i = 1 THEN ss[i] ELSE g[i - 1] \o ss[i]
          BY <2>1, <3>2 DEF Joined
        <4>2. g2[i] = g[i]
          BY <3>2
        <4> HIDE DEF g2
        <4> QED BY <3>1, <4>1, <4>2
      <3>3. CASE i \notin 1..k
        <4>1. g2[i] = IF i = 1 THEN ss[i] ELSE g[i - 1] \o ss[i]
          BY <3>3
        <4> HIDE DEF g2
        <4> QED BY <3>1, <4>1
      <3> QED BY <3>2, <3>3
    <2>3. Joined(g2, ss, k + 1)
      <3>1. g2 = [i \in 1..(k + 1) |-> g2[i]]
        OBVIOUS
      <3> HIDE DEF g2
      <3> QED BY <2>2, <3>1 DEF Joined
    <2> QED BY <1>2, <2>3
  <1>3. n \in T
    <2> HIDE DEF T
    <2> QED BY <1>1, <1>2, UpTo
  <1> QED BY <1>3

\* A flattened sequence has the elements of its sequences.
LEMMA Flattened ==
    ASSUME NEW T, NEW ss \in Seq(Seq(T))
    PROVE  /\ FlattenSeq(ss) \in Seq(T)
           /\ \A e : e \in Range(FlattenSeq(ss)) <=> \E i \in DOMAIN ss : e \in Range(ss[i])
  <1> DEFINE n == Len(ss)
             flat == CHOOSE g : Joined(g, ss, n)
             Good(k) == /\ flat[k] \in Seq(T)
                        /\ \A e : e \in Range(flat[k]) <=> \E i \in 1..k : e \in Range(ss[i])
             U == {k \in 0..n : k = 0 \/ Good(k)}
  <1>1. n \in Nat /\ DOMAIN ss = 1..n
    OBVIOUS
  <1>2. CASE n = 0
    <2>1. ss = <<>>
      BY <1>2
    <2>2. <<>> \in Seq(T) /\ Range(<<>>) = {} /\ Len(<<>>) = 0
      BY DEF Range
    <2>3. FlattenSeq(ss) = <<>>
      BY <2>1, <2>2 DEF FlattenSeq
    <2> QED BY <1>1, <1>2, <2>2, <2>3
  <1>3. CASE n # 0
    <2>1. FlattenSeq(ss) = flat[n]
      BY <1>3 DEF FlattenSeq, Joined
    <2>2. Joined(flat, ss, n)
      BY <1>1, JoinedExists
    <2> HIDE DEF flat
    <2>3. flat[1] = ss[1] /\ \A k \in 1..n : k # 1 => flat[k] = flat[k - 1] \o ss[k]
      <3>1. 1 \in 1..n
        BY <1>1, <1>3
      <3> HIDE DEF n
      <3>2. \A k \in 1..n : flat[k] = IF k = 1 THEN ss[k] ELSE flat[k - 1] \o ss[k]
        BY <2>2 DEF Joined
      <3> QED BY <3>1, <3>2
    <2>4. \A k \in 1..n : ss[k] \in Seq(T)
      BY <1>1
    <2> HIDE DEF n
    <2>5. ASSUME NEW k \in 0..n, k < n, k \in U
          PROVE  k + 1 \in U
      <3>1. k + 1 \in 1..n
        BY <1>1, <2>5
      <3>2. CASE k = 0
        <4>1. \A e : e \in Range(ss[1]) <=> \E i \in 1..1 : e \in Range(ss[i])
          OBVIOUS
        <4> QED BY <2>3, <2>4, <3>1, <3>2, <4>1
      <3>3. CASE k # 0
        <4>1. Good(k) /\ flat[k + 1] = flat[k] \o ss[k + 1] /\ ss[k + 1] \in Seq(T)
          <5>1. Good(k)
            <6> HIDE DEF Good
            <6> QED BY <2>5, <3>3
          <5>2. (k + 1) - 1 = k /\ k + 1 # 1
            BY <3>3
          <5>3. flat[k + 1] = flat[(k + 1) - 1] \o ss[k + 1]
            BY <2>3, <3>1, <5>2
          <5> QED BY <2>4, <3>1, <5>1, <5>2, <5>3
        <4>2. flat[k + 1] \in Seq(T) /\ Range(flat[k + 1]) = Range(flat[k]) \cup Range(ss[k + 1])
          BY <4>1, JoinedRange
        <4>3. \A i : i \in 1..(k + 1) <=> i \in 1..k \/ i = k + 1
          BY <3>1
        <4>4. Good(k + 1)
          BY <4>1, <4>2, <4>3
        <4> QED BY <3>1, <4>4
      <3> QED BY <3>2, <3>3
    <2>6. 0 \in U
      BY <1>1
    <2>7. n \in U
      <3> HIDE DEF U
      <3>1. \A k \in 0..n : k < n /\ k \in U => k + 1 \in U
        BY <2>5
      <3>2. \A k \in 0..n : k \in U
        BY <1>1, <2>6, <3>1, UpTo
      <3> QED BY <1>1, <3>2
    <2> QED BY <1>1, <1>3, <2>1, <2>7
  <1> QED BY <1>2, <1>3

-------------------------------------------------------------------------------
(* The inductive invariant. *)

\* The points a row measures; 0 stands for an unknown piece of equipment.
Parts(row) == IF row.equipment \in DOMAIN PointsOf THEN PointsOf[row.equipment] ELSE {0}

Failed(row, p) == row.equipment \notin DOMAIN PointsOf \/ row.raw[p] = "invalid"

\* Outcomes of events that are not, or not quite, new.
Remarks == {"rejected", "duplicate", "late"}

\* Histories, current observations and notes of the events of E.
Stores(E) ==
    [history : SUBSET E, current : [Points -> E \cup {None}], notes : SUBSET (Remarks \X E)]

Store == [history |-> history, current |-> current, notes |-> notes]

\* What a store shows of events.
Seen(st) == st.history \cup {n[2] : n \in st.notes}

\* What was delivered.
Said == (UNION {Range(stream[k]) : k \in DOMAIN stream}) \cup Seen(Store)

TypeOK ==
    /\ pack \in Packs /\ mode \in {"replay", "live", "demo"}
    /\ hash \in Hashes /\ steps \in Nat
    /\ run \in Nat /\ cycle \in Nat /\ published \in Nat /\ clock \in Nat
    /\ next \in [Files -> Nat] /\ high \in [Files -> Nat]
    /\ \A f \in Files : next[f] \in 1..(Len(pack[f]) + 1)
    /\ due \in Nat /\ previous \in Nat
    /\ group \in Seq([file : Files, row : Rows(pack)])
    /\ stream \in Seq(Seq(Events))
    /\ Store \in Stores(Events)

\* The rows of the group were just read; what was read is not later than the
\* frame, what is pending not earlier.
Schedule ==
    /\ \A k \in DOMAIN group : \E j \in 1..(next[group[k].file] - 1) :
          group[k].row = pack[group[k].file][j]
    /\ \A f \in Files : \A j \in 1..(next[f] - 1) : pack[f][j].observed <= high[f]
    /\ \A f \in Files : high[f] <= due
    /\ \A f \in Pending : due <= Delivery(f)
    /\ group = <<>> => due = previous /\ \A f \in Pending : previous < Delivery(f)
    /\ group # <<>> => previous < due

\* e is of point p and row i of file f.
Stems(e, f, i, p) ==
    /\ Len(e.id) = IF mode = "live" THEN 5 ELSE 3
    /\ e.id[Len(e.id) - 2] = f
    /\ e.id[Len(e.id) - 1] = pack[f][i].record
    /\ e.id[Len(e.id)] = p
    /\ e.point = p
    /\ e.observed = pack[f][i].observed
    /\ e.raw = IF p = 0 THEN None ELSE pack[f][i].raw[p]
    /\ e.error = Failed(pack[f][i], p)
    /\ mode # "live" => e.at = e.observed

FromRows(E) ==
    \A e \in E : \E f \in Files : \E i \in DOMAIN pack[f] : \E p \in Parts(pack[f][i]) :
        Stems(e, f, i, p)

Collected(f, i) ==
    \E k \in DOMAIN group : group[k].file = f /\ group[k].row = pack[f][i]

\* A row that was read is in the group, or was delivered.
Covered ==
    \A f \in Files : \A i \in 1..(next[f] - 1) :
        Selected(pack[f][i]) =>
            \/ Collected(f, i)
            \/ \A p \in Parts(pack[f][i]) : \E e \in Said :
                  e.id = Identity(f, pack[f][i], p) /\ e.observed = pack[f][i].observed

\* A store keeps one observation for an identity, and one for a point and time.
Clash(e, h) == e # h /\ (e.id = h.id \/ (e.point = h.point /\ e.at = h.at))

Kept(st) ==
    /\ \A h \in st.history : ~h.error
    /\ \A g, h \in st.history : ~Clash(g, h)
    /\ \A n \in st.notes : n[1] = "rejected" /\ ~n[2].error =>
          \E h \in st.history : Clash(n[2], h)
    /\ \A p \in Points : st.current[p] # None =>
          st.current[p] \in st.history /\ st.current[p].point = p
    /\ \A h \in st.history : st.current[h.point] # None /\ st.current[h.point].at >= h.at

\* The events of a live source: each frame has a time of its own, later than
\* what was ingested, and is of one pass.
Live1 ==
    /\ \A e \in Said :
          /\ e.at <= clock /\ e.id[1] <= run
          /\ e.id[1] = run => e.id[2] <= cycle
    /\ \A d, e \in Said : d.at = e.at => d.id[1] = e.id[1] /\ d.id[2] = e.id[2]
    /\ \A k, l \in DOMAIN stream : \A d \in Range(stream[k]), e \in Range(stream[l]) :
          (k = l => d.at = e.at) /\ (k < l => d.at < e.at)
    /\ \A h \in history, k \in DOMAIN stream : \A e \in Range(stream[k]) : h.at < e.at

\* What this pass delivered is not of a record still to come, and an identity
\* is used at one time.
Numbered ==
    /\ \A e \in Said : e.id[1] = run /\ e.id[2] = cycle =>
          /\ \A i \in next[e.id[3]]..Len(pack[e.id[3]]) : pack[e.id[3]][i].record # e.id[4]
          /\ \A k \in DOMAIN group : group[k].file = e.id[3] => group[k].row.record # e.id[4]
    /\ \A d, e \in Said : d.id = e.id => d.at = e.at

IInv ==
    /\ TypeOK /\ Schedule /\ FromRows(Said) /\ Covered /\ Kept(Store)
    /\ mode = "live" => Live1
    /\ mode = "live" /\ WellNumbered => Numbered

-------------------------------------------------------------------------------
(* Ingestion of a frame. *)

\* The ways of an event into a store.
LEMMA IngestedCases ==
    ASSUME NEW E \in SUBSET Events, NEW st \in Stores(E), NEW e \in E,
           ~e.error => e.point \in Points
    PROVE  LET r == Ingested(st, e)
               out == Outcome(st, e)
           IN  /\ r \in Stores(E) /\ out \in {"rejected", "duplicate", "accepted"}
               /\ out = "accepted" =>
                     /\ ~e.error
                     /\ r.history = st.history \cup {e}
                     /\ \A h \in st.history : ~(h.id = e.id) /\ ~(h.point = e.point /\ h.at = e.at)
                     /\ r.current = IF Newer(st, e) THEN [st.current EXCEPT ![e.point] = e]
                                    ELSE st.current
                     /\ r.notes = IF Newer(st, e) THEN st.notes ELSE st.notes \cup {<<"late", e>>}
               /\ out # "accepted" =>
                     /\ r.history = st.history /\ r.current = st.current
                     /\ r.notes = st.notes \cup {<<out, e>>}
  <1> DEFINE r == Ingested(st, e)
             out == Outcome(st, e)
  <1>1. st.history \in SUBSET E /\ st.current \in [Points -> E \cup {None}]
        /\ st.notes \in SUBSET (Remarks \X E)
    BY DEF Stores
  <1>2. st = [history |-> st.history, current |-> st.current, notes |-> st.notes]
    BY DEF Stores
  <1>3. out \in {"rejected", "duplicate", "accepted"}
    BY DEF Outcome
  <1>4. CASE out = "accepted"
    <2>1. ~e.error /\ \A h \in st.history : ~(h.id = e.id) /\ ~(h.point = e.point /\ h.at = e.at)
      BY <1>4 DEF Outcome
    <2>2. r = [history |-> st.history \cup {e},
               current |-> IF Newer(st, e) THEN [st.current EXCEPT ![e.point] = e]
                           ELSE st.current,
               notes |-> IF Newer(st, e) THEN st.notes ELSE st.notes \cup {<<"late", e>>}]
      BY <1>4 DEF Ingested
    <2>3. r.history \in SUBSET E
      BY <1>1, <2>2
    <2>4. r.current \in [Points -> E \cup {None}]
      BY <1>1, <2>1, <2>2
    <2>5. r.notes \in SUBSET (Remarks \X E)
      BY <1>1, <2>2 DEF Remarks
    <2>6. r = [history |-> r.history, current |-> r.current, notes |-> r.notes]
      BY <2>2
    <2> HIDE DEF r, out
    <2>7. r \in Stores(E)
      BY <2>3, <2>4, <2>5, <2>6 DEF Stores
    <2> QED BY <1>3, <1>4, <2>1, <2>2, <2>7 DEF r, out
  <1>5. CASE out # "accepted"
    <2>1. r = [st EXCEPT !.notes = @ \cup {<<out, e>>}]
      BY <1>5 DEF Ingested
    <2>2. r = [history |-> st.history, current |-> st.current,
               notes |-> st.notes \cup {<<out, e>>}]
      BY <1>2, <2>1
    <2>3. <<out, e>> \in Remarks \X E
      BY <1>3, <1>5 DEF Remarks
    <2> HIDE DEF r, out
    <2>4. r \in Stores(E)
      BY <1>1, <2>2, <2>3 DEF Stores
    <2> QED BY <1>3, <1>5, <2>2, <2>4 DEF r, out
  <1> QED BY <1>4, <1>5

\* What a store has seen are events.
LEMMA NotedEvents ==
    ASSUME NEW N, NEW out, NEW e
    PROVE  {n[2] : n \in N \cup {<<out, e>>}} = {n[2] : n \in N} \cup {e}
  <1>1. <<out, e>>[2] = e
    OBVIOUS
  <1>2. e \in {n[2] : n \in N \cup {<<out, e>>}}
    <2>1. <<out, e>> \in N \cup {<<out, e>>}
      OBVIOUS
    <2> QED BY <1>1, <2>1
  <1>3. \A n \in N : n[2] \in {m[2] : m \in N \cup {<<out, e>>}}
    OBVIOUS
  <1>4. \A n \in N \cup {<<out, e>>} : n[2] \in {m[2] : m \in N} \cup {e}
    BY <1>1
  <1> QED BY <1>2, <1>3, <1>4

\* Ingesting an event keeps what a store promises, and the event is seen.
LEMMA IngestedKeeps ==
    ASSUME NEW E \in SUBSET Events, NEW st \in Stores(E), NEW e \in E,
           \A x \in E : ~x.error => x.point \in Points,
           Kept(st)
    PROVE  /\ Ingested(st, e) \in Stores(E) /\ Kept(Ingested(st, e))
           /\ Seen(Ingested(st, e)) = Seen(st) \cup {e}
           /\ Ingested(st, e).history \subseteq st.history \cup {e}
  <1> DEFINE r == Ingested(st, e)
             out == Outcome(st, e)
  <1>1. /\ r \in Stores(E) /\ out \in {"rejected", "duplicate", "accepted"}
        /\ out = "accepted" =>
              /\ ~e.error
              /\ r.history = st.history \cup {e}
              /\ \A h \in st.history : ~(h.id = e.id) /\ ~(h.point = e.point /\ h.at = e.at)
              /\ r.current = IF Newer(st, e) THEN [st.current EXCEPT ![e.point] = e]
                             ELSE st.current
              /\ r.notes = IF Newer(st, e) THEN st.notes ELSE st.notes \cup {<<"late", e>>}
        /\ out # "accepted" =>
              /\ r.history = st.history /\ r.current = st.current
              /\ r.notes = st.notes \cup {<<out, e>>}
    BY IngestedCases
  <1>2. /\ st.history \in SUBSET E /\ st.current \in [Points -> E \cup {None}]
        /\ st.notes \in SUBSET (Remarks \X E)
    BY DEF Stores
  <1>3. \A x \in E : x.at \in Nat /\ x # None /\ (~x.error => x.point \in Points)
    BY NoneAssumption DEF Events
  <1>4. out = "rejected" /\ ~e.error => \E h \in st.history : Clash(e, h)
    BY DEF Outcome, Clash
  <1> HIDE DEF r, out
  <1>5. Seen(r) = Seen(st) \cup {e} /\ r.history \subseteq st.history \cup {e}
    <2>1. CASE out = "accepted"
      <3>1. {n[2] : n \in st.notes \cup {<<"late", e>>}} = {n[2] : n \in st.notes} \cup {e}
        BY NotedEvents
      <3> QED BY <1>1, <2>1, <3>1 DEF Seen
    <2>2. CASE out # "accepted"
      <3>1. {n[2] : n \in st.notes \cup {<<out, e>>}} = {n[2] : n \in st.notes} \cup {e}
        BY NotedEvents
      <3> QED BY <1>1, <2>2, <3>1 DEF Seen
    <2> QED BY <2>1, <2>2
  <1>6. CASE out # "accepted"
    <2>1. \A n \in r.notes : n[1] = "rejected" /\ ~n[2].error =>
              \E h \in r.history : Clash(n[2], h)
      BY <1>1, <1>4, <1>6 DEF Kept
    <2> QED BY <1>1, <1>5, <1>6, <2>1 DEF Kept, r
  <1>7. CASE out = "accepted"
    <2>1. r.history = st.history \cup {e} /\ e.point \in Points
      BY <1>1, <1>3, <1>7
    <2>2. \A h \in r.history : ~h.error
      BY <1>1, <1>7 DEF Kept
    <2>3. \A g, h \in r.history : ~Clash(g, h)
      BY <1>1, <1>7 DEF Kept, Clash
    <2>4. \A n \in r.notes : n[1] = "rejected" /\ ~n[2].error =>
              \E h \in r.history : Clash(n[2], h)
      <3> SUFFICES ASSUME NEW n \in r.notes, n[1] = "rejected", ~n[2].error
                   PROVE  \E h \in r.history : Clash(n[2], h)
        OBVIOUS
      <3>1. n \in st.notes
        BY <1>1, <1>7
      <3> QED BY <2>1, <3>1 DEF Kept
    <2>5. /\ \A p \in Points : r.current[p] # None =>
                r.current[p] \in r.history /\ r.current[p].point = p
          /\ \A h \in r.history : r.current[h.point] # None /\ r.current[h.point].at >= h.at
      <3>1. /\ \A p \in Points : st.current[p] # None =>
                  st.current[p] \in st.history /\ st.current[p].point = p
            /\ \A h \in st.history : st.current[h.point] # None /\ st.current[h.point].at >= h.at
        BY DEF Kept
      <3>2. \A h \in r.history : h \in E /\ h.point \in Points
        BY <1>2, <1>3, <2>1, <2>2
      <3>3. CASE Newer(st, e)
        <4>1. r.current = [st.current EXCEPT ![e.point] = e]
          BY <1>1, <1>7, <3>3
        <4>2. r.current[e.point] = e /\ \A p \in Points : p # e.point => r.current[p] = st.current[p]
          BY <1>2, <2>1, <4>1
        <4>3. \A h \in st.history : h.point = e.point => e.at >= h.at
          <5> SUFFICES ASSUME NEW h \in st.history, h.point = e.point PROVE e.at >= h.at
            OBVIOUS
          <5>1. st.current[e.point].at < e.at /\ st.current[e.point].at >= h.at
            BY <3>1, <3>3 DEF Newer
          <5>2. st.current[e.point] \in E /\ h \in E
            BY <1>2, <2>1, <3>1
          <5> QED BY <1>3, <5>1, <5>2
        <4> QED BY <1>3, <2>1, <3>1, <3>2, <4>2, <4>3
      <3>4. CASE ~Newer(st, e)
        <4>1. r.current = st.current
          BY <1>1, <1>7, <3>4
        <4>2. st.current[e.point] # None /\ ~(st.current[e.point].at < e.at)
          BY <3>4 DEF Newer
        <4>3. st.current[e.point] \in E
          BY <1>2, <2>1, <4>2
        <4>4. st.current[e.point].at >= e.at
          BY <1>3, <4>2, <4>3
        <4> QED BY <2>1, <3>1, <4>1, <4>2, <4>4
      <3> QED BY <3>3, <3>4
    <2> QED BY <1>1, <1>5, <2>2, <2>3, <2>4, <2>5 DEF Kept, r
  <1> QED BY <1>6, <1>7

\* So does ingesting a frame.
LEMMA FrameKept ==
    ASSUME NEW E \in SUBSET Events, NEW b \in Stores(E), Kept(b), NEW seq \in Seq(E),
           \A x \in E : ~x.error => x.point \in Points
    PROVE  LET r == IngestedFrame(b, seq)
           IN  /\ r \in Stores(E) /\ Kept(r) /\ Seen(r) = Seen(b) \cup Range(seq)
               /\ r.history \subseteq b.history \cup Range(seq)
  <1> DEFINE n == Len(seq)
  <1>1. PICK h : /\ h[0] = b /\ h[n] = IngestedFrame(b, seq)
                 /\ \A k \in 1..n : h[k] = Ingested(h[k - 1], seq[k])
    BY FoldSteps
  <1> DEFINE Done1(k) == {seq[j] : j \in 1..k}
             Good(k) == /\ h[k] \in Stores(E) /\ Kept(h[k]) /\ Seen(h[k]) = Seen(b) \cup Done1(k)
                        /\ h[k].history \subseteq b.history \cup Done1(k)
             T == {k \in 0..n : Good(k)}
  <1>2. n \in Nat /\ DOMAIN seq = 1..n /\ \A k \in 1..n : seq[k] \in E
    OBVIOUS
  <1>3. Range(seq) = Done1(n)
    BY <1>2 DEF Range
  <1> HIDE DEF n
  <1>4. 0 \in T
    <2>1. Done1(0) = {}
      OBVIOUS
    <2> HIDE DEF Done1
    <2> QED BY <1>1, <1>2, <2>1
  <1>5. ASSUME NEW k \in 0..n, k < n, k \in T
        PROVE  k + 1 \in T
    <2>1. k + 1 \in 1..n /\ (k + 1) - 1 = k
      BY <1>2, <1>5
    <2>2. h[k + 1] = Ingested(h[k], seq[k + 1]) /\ seq[k + 1] \in E
      BY <1>1, <1>2, <2>1
    <2>3. Done1(k + 1) = Done1(k) \cup {seq[k + 1]}
      <3>1. \A j : j \in 1..(k + 1) <=> j \in 1..k \/ j = k + 1
        OBVIOUS
      <3> QED BY <3>1
    <2> HIDE DEF Done1
    <2>4. Good(k)
      BY <1>5
    <2>5. /\ h[k + 1] \in Stores(E) /\ Kept(h[k + 1])
          /\ Seen(h[k + 1]) = Seen(h[k]) \cup {seq[k + 1]}
          /\ h[k + 1].history \subseteq h[k].history \cup {seq[k + 1]}
      BY <2>2, <2>4, IngestedKeeps
    <2>6. Good(k + 1)
      BY <2>3, <2>4, <2>5
    <2> QED BY <2>1, <2>6
  <1>6. n \in T
    <2> HIDE DEF T
    <2>1. \A k \in 0..n : k < n /\ k \in T => k + 1 \in T
      BY <1>5
    <2>2. \A k \in 0..n : k \in T
      BY <1>2, <1>4, <2>1, UpTo
    <2> QED BY <1>2, <2>2
  <1> HIDE DEF Done1
  <1> QED BY <1>1, <1>3, <1>6

\* The current observation of a point is of time t; or is older, and there is
\* none of this time.
Moved(st, p, t) == st.current[p] # None /\ st.current[p].at = t

Fresh(st, p, t) ==
    /\ st.current[p] = None \/ st.current[p].at < t
    /\ \A h \in st.history : h.point = p => h.at # t

\* A fresh event becomes current, and a current one of its time stays.
LEMMA IngestedMoves ==
    ASSUME NEW E \in SUBSET Events, NEW st \in Stores(E), NEW e \in E,
           ~e.error => e.point \in Points,
           \A h \in E : h.id = e.id => h.at = e.at /\ h.point = e.point,
           \A p \in Points : Moved(st, p, e.at) \/ Fresh(st, p, e.at)
    PROVE  LET r == Ingested(st, e)
           IN  /\ r \in Stores(E)
               /\ \A p \in Points : Moved(r, p, e.at) \/ Fresh(r, p, e.at)
               /\ \A p \in Points : Moved(st, p, e.at) => Moved(r, p, e.at)
               /\ ~e.error => Moved(r, e.point, e.at)
  <1> DEFINE r == Ingested(st, e)
             out == Outcome(st, e)
  <1>1. /\ r \in Stores(E) /\ out \in {"rejected", "duplicate", "accepted"}
        /\ out = "accepted" =>
              /\ ~e.error
              /\ r.history = st.history \cup {e}
              /\ \A h \in st.history : ~(h.id = e.id) /\ ~(h.point = e.point /\ h.at = e.at)
              /\ r.current = IF Newer(st, e) THEN [st.current EXCEPT ![e.point] = e]
                             ELSE st.current
              /\ r.notes = IF Newer(st, e) THEN st.notes ELSE st.notes \cup {<<"late", e>>}
        /\ out # "accepted" =>
              /\ r.history = st.history /\ r.current = st.current
              /\ r.notes = st.notes \cup {<<out, e>>}
    BY IngestedCases
  <1>2. st.history \in SUBSET E /\ st.current \in [Points -> E \cup {None}]
    BY DEF Stores
  <1>3. \A x \in E : x.at \in Nat /\ x # None
    BY NoneAssumption DEF Events
  <1>4. ~e.error /\ Fresh(st, e.point, e.at) => out = "accepted" /\ Newer(st, e)
    <2> SUFFICES ASSUME ~e.error, Fresh(st, e.point, e.at)
                 PROVE  out = "accepted" /\ Newer(st, e)
      OBVIOUS
    <2>1. \A h \in st.history : h.id # e.id
      BY <1>2 DEF Fresh
    <2>2. \A h \in st.history : ~(h.point = e.point /\ h.at = e.at)
      BY DEF Fresh
    <2> QED BY <2>1, <2>2 DEF Outcome, Newer, Fresh
  <1>5. Moved(st, e.point, e.at) => ~Newer(st, e)
    BY <1>3 DEF Moved, Newer
  <1> HIDE DEF r, out
  <1>6. CASE out # "accepted"
    <2>1. \A p \in Points : (Moved(r, p, e.at) <=> Moved(st, p, e.at))
                            /\ (Fresh(r, p, e.at) <=> Fresh(st, p, e.at))
      BY <1>1, <1>6 DEF Moved, Fresh
    <2> QED BY <1>1, <1>4, <1>6, <2>1 DEF r
  <1>7. CASE out = "accepted" /\ Newer(st, e)
    <2>1. r.current[e.point] = e /\ \A p \in Points : p # e.point => r.current[p] = st.current[p]
      BY <1>1, <1>2, <1>7
    <2>2. Moved(r, e.point, e.at)
      BY <1>3, <2>1 DEF Moved
    <2>3. \A p \in Points : p # e.point =>
              (Moved(r, p, e.at) <=> Moved(st, p, e.at))
              /\ (Fresh(r, p, e.at) <=> Fresh(st, p, e.at))
      BY <1>1, <1>7, <2>1 DEF Moved, Fresh
    <2> QED BY <1>1, <1>5, <1>7, <2>2, <2>3 DEF r
  <1>8. CASE out = "accepted" /\ ~Newer(st, e)
    <2>1. Moved(st, e.point, e.at)
      BY <1>1, <1>4, <1>8
    <2>2. \A p \in Points : (Moved(r, p, e.at) <=> Moved(st, p, e.at))
                            /\ (p # e.point => (Fresh(r, p, e.at) <=> Fresh(st, p, e.at)))
      BY <1>1, <1>8 DEF Moved, Fresh
    <2> QED BY <1>1, <1>8, <2>1, <2>2 DEF r
  <1> QED BY <1>6, <1>7, <1>8

\* A frame of a time later than the history moves every point it measures.
LEMMA FrameMoves ==
    ASSUME NEW E \in SUBSET Events, NEW b \in Stores(E), Kept(b), NEW seq \in Seq(E),
           \A x \in E : ~x.error => x.point \in Points,
           NEW t \in Nat, \A k \in 1..Len(seq) : seq[k].at = t,
           \A h \in b.history : h.at < t,
           \A h \in E, k \in 1..Len(seq) :
               h.id = seq[k].id => h.at = seq[k].at /\ h.point = seq[k].point
    PROVE  \A k \in 1..Len(seq) :
               ~seq[k].error => IngestedFrame(b, seq).current[seq[k].point].at = t
  <1> DEFINE n == Len(seq)
  <1>1. PICK h : /\ h[0] = b /\ h[n] = IngestedFrame(b, seq)
                 /\ \A k \in 1..n : h[k] = Ingested(h[k - 1], seq[k])
    BY FoldSteps
  <1> DEFINE Good(k) == /\ h[k] \in Stores(E)
                        /\ \A p \in Points : Moved(h[k], p, t) \/ Fresh(h[k], p, t)
                        /\ \A j \in 1..k : ~seq[j].error => Moved(h[k], seq[j].point, t)
             T == {k \in 0..n : Good(k)}
  <1>2. n \in Nat /\ \A k \in 1..n : seq[k] \in E
    OBVIOUS
  <1>3. \A k \in 1..n : /\ seq[k].at = t
                        /\ \A g \in E : g.id = seq[k].id => g.at = t /\ g.point = seq[k].point
    OBVIOUS
  <1> HIDE DEF n
  <1>4. 0 \in T
    <2>1. b.history \in SUBSET Events
      BY DEF Stores
    <2>2. \A x \in b.history : x.at < t /\ x.at \in Nat
      BY <2>1 DEF Events
    <2>3. \A p \in Points : Fresh(b, p, t)
      <3> SUFFICES ASSUME NEW p \in Points PROVE Fresh(b, p, t)
        OBVIOUS
      <3>1. b.current[p] # None => b.current[p] \in b.history
        BY DEF Kept
      <3> QED BY <2>2, <3>1 DEF Fresh
    <2> QED BY <1>1, <1>2, <2>3
  <1>5. ASSUME NEW k \in 0..n, k < n, k \in T
        PROVE  k + 1 \in T
    <2>1. k + 1 \in 1..n /\ (k + 1) - 1 = k
      BY <1>2, <1>5
    <2>2. /\ h[k + 1] = Ingested(h[k], seq[k + 1]) /\ seq[k + 1] \in E /\ seq[k + 1].at = t
          /\ \A g \in E : g.id = seq[k + 1].id => g.at = seq[k + 1].at /\ g.point = seq[k + 1].point
      BY <1>1, <1>2, <1>3, <2>1
    <2>3. Good(k)
      BY <1>5
    <2>4. /\ h[k + 1] \in Stores(E)
          /\ \A p \in Points : Moved(h[k + 1], p, t) \/ Fresh(h[k + 1], p, t)
          /\ \A p \in Points : Moved(h[k], p, t) => Moved(h[k + 1], p, t)
          /\ ~seq[k + 1].error => Moved(h[k + 1], seq[k + 1].point, t)
      BY <2>2, <2>3, IngestedMoves
    <2>5. ASSUME NEW j \in 1..(k + 1), ~seq[j].error
          PROVE  Moved(h[k + 1], seq[j].point, t)
      <3>1. CASE j = k + 1
        BY <2>4, <2>5, <3>1
      <3>2. CASE j # k + 1
        <4>1. j \in 1..k /\ j \in 1..n
          BY <1>2, <2>1, <3>2
        <4>2. seq[j] \in E /\ seq[j].point \in Points
          BY <1>2, <2>5, <4>1
        <4> QED BY <2>3, <2>4, <2>5, <4>1, <4>2
      <3> QED BY <3>1, <3>2
    <2>6. Good(k + 1)
      BY <2>4, <2>5
    <2> QED BY <2>1, <2>6
  <1>6. n \in T
    <2> HIDE DEF T
    <2>1. \A k \in 0..n : k < n /\ k \in T => k + 1 \in T
      BY <1>5
    <2>2. \A k \in 0..n : k \in T
      BY <1>2, <1>4, <2>1, UpTo
    <2> QED BY <1>2, <2>2
  <1> QED BY <1>1, <1>6 DEF Moved, n

-------------------------------------------------------------------------------
(* The events of a frame. *)

LEMMA NumbersArranged ==
    ASSUME NEW S \in SUBSET Nat, IsFiniteSet(S), NEW s,
           s = [k \in 1..Cardinality(S) |-> s[k]],
           \A k \in 1..Cardinality(S) :
               (\E x \in S : Cardinality({y \in S : y < x}) = k - 1) =>
                   s[k] \in S /\ Cardinality({y \in S : y < s[k]}) = k - 1
    PROVE  s \in Seq(S) /\ Range(s) = S
  <1> DEFINE R == {z \in S \X S : z[1] < z[2]}
  <1>1. \A x, y \in S : <<x, y>> \in R <=> x < y
    OBVIOUS
  <1> HIDE DEF R
  <1>2. Orders(R, S)
    BY <1>1 DEF Orders
  <1>3. \A x \in S : {y \in S : y < x} = Below(R, S, x)
    BY <1>1 DEF Below
  <1>4. \A k \in 1..Cardinality(S) :
            (\E x \in S : Cardinality(Below(R, S, x)) = k - 1) =>
                s[k] \in S /\ Cardinality(Below(R, S, s[k])) = k - 1
    BY <1>3
  <1> QED BY <1>2, <1>4, ArrangedIsAll

LEMMA PointsArranged ==
    ASSUME NEW eq \in DOMAIN PointsOf
    PROVE  /\ Arranged(PointsOf[eq], <) \in Seq(PointsOf[eq])
           /\ Range(Arranged(PointsOf[eq], <)) = PointsOf[eq]
  <1>1. PointsOf[eq] \in SUBSET Nat /\ IsFiniteSet(PointsOf[eq])
    BY PointsAssumption
  <1> DEFINE S == PointsOf[eq]
             at(k) == CHOOSE x \in S : Cardinality({y \in S : y < x}) = k - 1
             s == [k \in 1..Cardinality(S) |-> at(k)]
  <1>2. s = [k \in 1..Cardinality(S) |-> s[k]]
    <2> HIDE DEF at
    <2> QED OBVIOUS
  <1>3. \A k \in 1..Cardinality(S) :
            (\E x \in S : Cardinality({y \in S : y < x}) = k - 1) =>
                s[k] \in S /\ Cardinality({y \in S : y < s[k]}) = k - 1
    OBVIOUS
  <1>4. s \in Seq(S) /\ Range(s) = S
    <2> HIDE DEF s
    <2> QED BY <1>1, <1>2, <1>3, NumbersArranged
  <1> QED BY <1>4 DEF Arranged

Original(f, row, p) == Event(f, row, p, Failed(row, p))

LEMMA OriginalIsEvent ==
    ASSUME pack \in Packs, NEW f \in Files, NEW row \in Rows(pack), NEW p \in Parts(row)
    PROVE  Original(f, row, p) \in Events
  <1>1. row.record \in Nat /\ row.observed \in Nat /\ f \in Nat
    BY PacksAssumption DEF Files
  <1>2. p \in Nat /\ (p # 0 => p \in Points)
    BY PointsAssumption DEF Parts, Points
  <1>3. <<f, row.record, p>> \in Seq(Nat)
    BY <1>1, <1>2
  <1>4. Failed(row, p) \in BOOLEAN
    BY DEF Failed
  <1> DEFINE raws == {None} \cup
                 UNION {{r.raw[q] : r \in Rows(files), q \in Points} : files \in Packs}
             raw == IF p = 0 THEN None ELSE row.raw[p]
  <1>5. raw \in raws
    BY <1>2
  <1>6. Original(f, row, p) =
            [id |-> <<f, row.record, p>>, point |-> p, at |-> row.observed,
             observed |-> row.observed, raw |-> raw, error |-> Failed(row, p)]
    BY DEF Original, Event
  <1>7. Events = [id : Seq(Nat), point : Nat, at : Nat, observed : Nat, error : BOOLEAN,
                  raw : raws]
    BY DEF Events
  <1> HIDE DEF raws, raw
  <1> QED BY <1>1, <1>2, <1>3, <1>4, <1>5, <1>6, <1>7

\* A row has an event for each of its parts.
LEMMA PointEventsOf ==
    ASSUME pack \in Packs, NEW f \in Files, NEW row \in Rows(pack)
    PROVE  /\ PointEvents(f, row) \in Seq(Events)
           /\ \A e : e \in Range(PointEvents(f, row)) <=>
                     \E p \in Parts(row) : e = Original(f, row, p)
  <1>1. CASE row.equipment \notin DOMAIN PointsOf
    <2>1. PointEvents(f, row) = <<Original(f, row, 0)>> /\ Parts(row) = {0}
      BY <1>1 DEF PointEvents, Parts, Original, Failed
    <2>2. Original(f, row, 0) \in Events
      BY <2>1, OriginalIsEvent
    <2> HIDE DEF Original
    <2>3. Range(<<Original(f, row, 0)>>) = {Original(f, row, 0)}
      BY DEF Range
    <2> QED BY <2>1, <2>2, <2>3
  <1>2. CASE row.equipment \in DOMAIN PointsOf
    <2> DEFINE points == Arranged(PointsOf[row.equipment], <)
    <2>1. points \in Seq(Parts(row)) /\ Range(points) = Parts(row)
      BY <1>2, PointsArranged DEF Parts
    <2>2. PointEvents(f, row) = [i \in DOMAIN points |->
                                    Event(f, row, points[i], row.raw[points[i]] = "invalid")]
      BY <1>2 DEF PointEvents
    <2>3. \A p : Original(f, row, p) = Event(f, row, p, row.raw[p] = "invalid")
      BY <1>2 DEF Original, Failed
    <2> HIDE DEF points
    <2>4. PointEvents(f, row) = [i \in DOMAIN points |-> Original(f, row, points[i])]
      BY <2>2, <2>3
    <2>5. \A p \in Parts(row) : Original(f, row, p) \in Events
      BY OriginalIsEvent
    <2>6. \A p : p \in Parts(row) <=> \E i \in DOMAIN points : points[i] = p
      BY <2>1 DEF Range
    <2>7. DOMAIN points = 1..Len(points) /\ Len(points) \in Nat
      BY <2>1
    <2> HIDE DEF Original
    <2>8. PointEvents(f, row) \in Seq(Events)
      BY <2>4, <2>5, <2>6, <2>7
    <2>9. \A e : e \in Range(PointEvents(f, row)) <=>
                 \E i \in DOMAIN points : e = Original(f, row, points[i])
      BY <2>4 DEF Range
    <2> QED BY <2>6, <2>8, <2>9
  <1> QED BY <1>1, <1>2

\* A batch has the events of its selected rows.
LEMMA BatchOf ==
    ASSUME pack \in Packs, NEW rows \in Seq([file : Files, row : Rows(pack)])
    PROVE  /\ Batch(rows) \in Seq(Events)
           /\ \A e : e \in Range(Batch(rows)) <=>
                  \E k \in DOMAIN rows : Selected(rows[k].row)
                      /\ \E p \in Parts(rows[k].row) : e = Original(rows[k].file, rows[k].row, p)
  <1> DEFINE ss == [i \in DOMAIN rows |->
                       IF Selected(rows[i].row) THEN PointEvents(rows[i].file, rows[i].row)
                       ELSE <<>>]
  <1>1. Batch(rows) = FlattenSeq(ss)
    BY DEF Batch
  <1>2. \A k \in DOMAIN rows : rows[k].file \in Files /\ rows[k].row \in Rows(pack)
    <2> DEFINE T == [file : Files, row : Rows(pack)]
    <2>1. rows \in Seq(T)
      OBVIOUS
    <2>2. \A t \in T : t.file \in Files /\ t.row \in Rows(pack)
      OBVIOUS
    <2> HIDE DEF T
    <2>3. \A k \in DOMAIN rows : rows[k] \in T
      BY <2>1
    <2> QED BY <2>2, <2>3
  <1>3. DOMAIN ss = DOMAIN rows /\ DOMAIN rows = 1..Len(rows) /\ Len(rows) \in Nat
    OBVIOUS
  <1>4. Range(<<>>) = {} /\ <<>> \in Seq(Events)
    BY DEF Range
  <1>5. ASSUME NEW k \in DOMAIN rows
        PROVE  /\ ss[k] \in Seq(Events)
               /\ \A e : e \in Range(ss[k]) <=>
                      Selected(rows[k].row)
                      /\ \E p \in Parts(rows[k].row) : e = Original(rows[k].file, rows[k].row, p)
    <2>1. CASE Selected(rows[k].row)
      <3>1. ss[k] = PointEvents(rows[k].file, rows[k].row)
        BY <2>1
      <3> HIDE DEF ss
      <3> QED BY <1>2, <2>1, <3>1, PointEventsOf
    <2>2. CASE ~Selected(rows[k].row)
      <3>1. ss[k] = <<>>
        BY <2>2
      <3> HIDE DEF ss
      <3> QED BY <1>4, <2>2, <3>1
    <2> QED BY <2>1, <2>2
  <1>6. ss = [k \in 1..Len(rows) |-> ss[k]]
    BY <1>3
  <1> HIDE DEF ss
  <1>7. ss \in Seq(Seq(Events))
    BY <1>3, <1>5, <1>6
  <1>8. /\ FlattenSeq(ss) \in Seq(Events)
        /\ \A e : e \in Range(FlattenSeq(ss)) <=> \E k \in DOMAIN ss : e \in Range(ss[k])
    BY <1>7, Flattened
  <1> DEFINE Wanted(e) == \E k \in DOMAIN rows : Selected(rows[k].row)
                 /\ \E p \in Parts(rows[k].row) : e = Original(rows[k].file, rows[k].row, p)
  <1>9. \A e : (\E k \in DOMAIN ss : e \in Range(ss[k])) <=> Wanted(e)
    BY <1>3, <1>5
  <1> HIDE DEF Wanted
  <1>10. \A e : e \in Range(FlattenSeq(ss)) <=> Wanted(e)
    BY <1>8, <1>9
  <1> QED BY <1>1, <1>8, <1>10 DEF Wanted

LEMMA RowsOfPack ==
    ASSUME pack \in Packs
    PROVE  /\ Files \in SUBSET Nat
           /\ \A f \in Files : Len(pack[f]) \in Nat /\ DOMAIN pack[f] = 1..Len(pack[f])
           /\ \A f \in Files : \A i \in DOMAIN pack[f] : pack[f][i] \in Rows(pack)
           /\ \A row \in Rows(pack) : row.observed \in Nat \ {0} /\ row.record \in Nat
  <1>1. pack \in Seq(Range(pack)) /\ \A f \in DOMAIN pack : pack[f] \in Seq(Range(pack[f]))
    BY PacksAssumption
  <1>2. Files \in SUBSET Nat
    BY <1>1 DEF Files
  <1>3. ASSUME NEW f \in Files
        PROVE  Len(pack[f]) \in Nat /\ DOMAIN pack[f] = 1..Len(pack[f])
    <2>1. pack[f] \in Seq(Range(pack[f]))
      BY <1>1 DEF Files
    <2> QED BY <2>1
  <1>4. \A f \in Files : \A i \in DOMAIN pack[f] : pack[f][i] \in Rows(pack)
    BY DEF Rows, Files, Range
  <1>5. \A row \in Rows(pack) : row.observed \in Nat \ {0} /\ row.record \in Nat
    BY PacksAssumption
  <1> QED BY <1>2, <1>3, <1>4, <1>5

\* The worker takes all the events of a frame, each in its place.
LEMMA OrderedOf ==
    ASSUME TypeOK, NEW frame \in Seq(Events), FromRows(Range(frame))
    PROVE  Ordered(frame) \in Seq(Range(frame)) /\ Range(Ordered(frame)) = Range(frame)
  <1> DEFINE D == DOMAIN frame
             rank(i) == Rank(frame[i])
             first(i, j) == \/ Before(frame[i], frame[j])
                            \/ ~Before(frame[j], frame[i]) /\ i < j
  <1>1. ASSUME NEW i \in D
        PROVE  rank(i)[1] \in Nat /\ rank(i)[2] \in Nat
    <2>1. frame[i] \in Events /\ frame[i] \in Range(frame)
      BY DEF Range
    <2>2. PICK f \in Files : \E j \in DOMAIN pack[f] : \E p \in Parts(pack[f][j]) :
              Stems(frame[i], f, j, p)
      BY <2>1 DEF FromRows
    <2>3. PICK j \in DOMAIN pack[f] : \E p \in Parts(pack[f][j]) : Stems(frame[i], f, j, p)
      BY <2>2
    <2>4. pack[f][j] \in Rows(pack) /\ pack[f][j].record \in Nat
          /\ hash[pack[f][j].record] \in Nat
      <3>1. pack \in Packs /\ hash \in Hashes
        BY DEF TypeOK
      <3>2. pack[f][j] \in Rows(pack) /\ pack[f][j].record \in Nat
        BY <3>1, RowsOfPack
      <3> QED BY <3>1, <3>2, HashesAssumption
    <2>5. frame[i].id[Len(frame[i].id) - 1] = pack[f][j].record /\ frame[i].point \in Nat
      BY <2>1, <2>3 DEF Stems, Events
    <2> QED BY <2>4, <2>5 DEF Rank
  <1>2. \A i, j \in D : Before(frame[i], frame[j]) <=>
            rank(i)[1] < rank(j)[1] \/ (rank(i)[1] = rank(j)[1] /\ rank(i)[2] < rank(j)[2])
    BY DEF Before
  <1>3. D = 1..Len(frame) /\ Len(frame) \in Nat
    OBVIOUS
  <1> HIDE DEF rank
  <1>4. /\ \A i \in D : ~first(i, i)
        /\ \A i, j \in D : i # j => first(i, j) \/ first(j, i)
        /\ \A i, j, k \in D : first(i, j) /\ first(j, k) => first(i, k)
    <2> DEFINE before(i, j) == \/ rank(i)[1] < rank(j)[1]
                               \/ rank(i)[1] = rank(j)[1] /\ rank(i)[2] < rank(j)[2]
                               \/ rank(i)[1] = rank(j)[1] /\ rank(i)[2] = rank(j)[2] /\ i < j
    <2>1. \A i, j \in D : first(i, j) <=> before(i, j)
      BY <1>1, <1>2
    <2> HIDE DEF first
    <2>2. /\ \A i \in D : ~before(i, i)
          /\ \A i, j \in D : i # j => before(i, j) \/ before(j, i)
      BY <1>1, <1>3
    <2>3. \A i, j, k \in D : before(i, j) /\ before(j, k) => before(i, k)
      BY <1>1, <1>3
    <2> HIDE DEF before
    <2> QED BY <2>1, <2>2, <2>3
  <1> DEFINE R == {z \in D \X D : first(z[1], z[2])}
  <1>5. \A i, j \in D : <<i, j>> \in R <=> first(i, j)
    <2> HIDE DEF first
    <2> QED OBVIOUS
  <1> HIDE DEF R, first
  <1>6. Orders(R, D)
    BY <1>4, <1>5 DEF Orders
  <1>7. \A i \in D : {j \in D : first(j, i)} = Below(R, D, i)
    BY <1>5 DEF Below
  <1>8. IsFiniteSet(D)
    BY <1>3, FS_Interval
  <1> DEFINE at(k) == CHOOSE i \in D : Cardinality({j \in D : first(j, i)}) = k - 1
             s == [k \in 1..Cardinality(D) |-> at(k)]
  <1>9. s = [k \in 1..Cardinality(D) |-> s[k]]
    <2> HIDE DEF at
    <2> QED OBVIOUS
  <1>10. \A k \in 1..Cardinality(D) :
             (\E i \in D : Cardinality({j \in D : first(j, i)}) = k - 1) =>
                 s[k] \in D /\ Cardinality({j \in D : first(j, s[k])}) = k - 1
    OBVIOUS
  <1>11. Ordered(frame) = [i \in D |-> frame[s[i]]]
    BY DEF Ordered, Arranged, first
  <1> HIDE DEF s
  <1>12. \A k \in 1..Cardinality(D) :
             (\E i \in D : Cardinality(Below(R, D, i)) = k - 1) =>
                 s[k] \in D /\ Cardinality(Below(R, D, s[k])) = k - 1
    BY <1>7, <1>10
  <1>13. s \in Seq(D) /\ Range(s) = D
    BY <1>6, <1>8, <1>9, <1>12, ArrangedIsAll
  <1>14. Cardinality(D) = Len(frame)
    BY <1>3, FS_Interval
  <1>15. s \in [D -> D] /\ \A i \in D : \E k \in D : s[k] = i
    <2>1. DOMAIN s = D
      BY <1>3, <1>9, <1>14
    <2> HIDE DEF D
    <2> QED BY <1>13, <2>1 DEF Range
  <1>16. \A i \in D : frame[i] \in Range(frame)
    BY DEF Range
  <1>17. \A x \in Range(frame) : \E i \in D : frame[i] = x
    BY DEF Range
  <1>18. Ordered(frame) \in [1..Len(frame) -> Range(frame)]
    BY <1>3, <1>11, <1>15, <1>16
  <1>19. \A x \in Range(frame) : \E k \in 1..Len(frame) : Ordered(frame)[k] = x
    BY <1>3, <1>11, <1>15, <1>17
  <1> QED BY <1>3, <1>18, <1>19, Listed

LEMMA FromRowsPoints ==
    ASSUME NEW E, FromRows(E)
    PROVE  \A e \in E : ~e.error => e.point \in Points
  <1> SUFFICES ASSUME NEW e \in E, ~e.error PROVE e.point \in Points
    OBVIOUS
  <1>1. PICK f \in Files : \E i \in DOMAIN pack[f] : \E p \in Parts(pack[f][i]) : Stems(e, f, i, p)
    BY DEF FromRows
  <1>2. PICK i \in DOMAIN pack[f] : \E p \in Parts(pack[f][i]) : Stems(e, f, i, p)
    BY <1>1
  <1> QED BY <1>2 DEF Stems, Parts, Failed, Points

\* The store keeps what was said.
LEMMA SaidStored ==
    ASSUME TypeOK, FromRows(Said), Kept(Store)
    PROVE  /\ Said \in SUBSET Events
           /\ Store \in Stores(Said)
           /\ \A e \in Said : ~e.error => e.point \in Points
           /\ \A k \in DOMAIN stream : stream[k] \in Seq(Said) /\ Range(stream[k]) \subseteq Said
           /\ Seen(Store) \subseteq Said /\ history \subseteq Said
  <1>1. /\ history \in SUBSET Events /\ current \in [Points -> Events \cup {None}]
        /\ notes \in SUBSET (Remarks \X Events)
    BY DEF TypeOK, Store, Stores
  <1>2. Seen(Store) = history \cup {n[2] : n \in notes}
    BY DEF Seen, Store
  <1>3. history \subseteq Said /\ Seen(Store) \subseteq Said /\ \A n \in notes : n[2] \in Said
    BY <1>2 DEF Said
  <1>4. \A k \in DOMAIN stream : stream[k] \in Seq(Events) /\ Range(stream[k]) \subseteq Said
    <2>1. stream \in Seq(Seq(Events))
      BY DEF TypeOK
    <2>2. \A k \in DOMAIN stream : stream[k] \in Seq(Events)
      BY <2>1
    <2> QED BY <2>2 DEF Said
  <1>5. Said \in SUBSET Events
    <2>1. \A k \in DOMAIN stream : Range(stream[k]) \subseteq Events
      BY <1>4 DEF Range
    <2>2. \A n \in notes : n[2] \in Events
      BY <1>1
    <2> QED BY <1>1, <1>2, <2>1, <2>2 DEF Said
  <1>6. current \in [Points -> Said \cup {None}]
    <2>1. \A p \in Points : current[p] # None => current[p] \in history
      BY DEF Kept, Store
    <2> QED BY <1>1, <1>3, <2>1
  <1>7. notes \in SUBSET (Remarks \X Said)
    <2>1. \A n \in notes : n = <<n[1], n[2]>> /\ n[1] \in Remarks
      BY <1>1
    <2> QED BY <1>3, <2>1
  <1>8. Store \in Stores(Said)
    BY <1>3, <1>6, <1>7 DEF Store, Stores
  <1>9. \A k \in DOMAIN stream : stream[k] \in Seq(Said)
    <2> SUFFICES ASSUME NEW k \in DOMAIN stream PROVE stream[k] \in Seq(Said)
      OBVIOUS
    <2>1. \A i \in 1..Len(stream[k]) : stream[k][i] \in Said
      BY <1>4 DEF Range
    <2> HIDE DEF Said
    <2> QED BY <1>4, <2>1
  <1> QED BY <1>3, <1>4, <1>5, <1>8, <1>9, FromRowsPoints

\* Ingestion of a frame of E.
LEMMA StoreStep ==
    ASSUME TypeOK, FromRows(Said), Kept(Store), NEW E \in SUBSET Events, Said \subseteq E,
           \A e \in E : ~e.error => e.point \in Points,
           NEW seq \in Seq(E), Ingest(seq)
    PROVE  /\ Store' \in Stores(Events) /\ Kept(Store')
           /\ Seen(Store') = Seen(Store) \cup Range(seq)
           /\ history' \subseteq history \cup Range(seq)
  <1> DEFINE r == IngestedFrame(Store, seq)
  <1>1. Store \in Stores(E)
    <2>1. Store \in Stores(Said)
      BY SaidStored
    <2>2. SUBSET Said \subseteq SUBSET E /\ SUBSET (Remarks \X Said) \subseteq SUBSET (Remarks \X E)
      OBVIOUS
    <2>3. history \in SUBSET Said /\ current \in [Points -> Said \cup {None}]
          /\ notes \in SUBSET (Remarks \X Said)
      BY <2>1 DEF Store, Stores
    <2>4. current \in [Points -> E \cup {None}]
      BY <2>3
    <2> QED BY <2>2, <2>3, <2>4 DEF Store, Stores
  <1>2. /\ r \in Stores(E) /\ Kept(r) /\ Seen(r) = Seen(Store) \cup Range(seq)
        /\ r.history \subseteq Store.history \cup Range(seq)
    BY <1>1, FrameKept
  <1>3. Store' = [history |-> r.history, current |-> r.current, notes |-> r.notes]
    BY DEF Ingest, Store
  <1> HIDE DEF r
  <1>4. r = [history |-> r.history, current |-> r.current, notes |-> r.notes]
    BY <1>2 DEF Stores
  <1>5. Store' = r
    BY <1>3, <1>4
  <1>6. r \in Stores(Events)
    <2>1. r.history \in SUBSET Events
      BY <1>2 DEF Stores
    <2>2. r.current \in [Points -> Events \cup {None}]
      BY <1>2 DEF Stores
    <2>3. r.notes \in SUBSET (Remarks \X Events)
      BY <1>2 DEF Stores
    <2> QED BY <1>4, <2>1, <2>2, <2>3 DEF Stores
  <1>7. history' = r.history /\ Store.history = history
    BY <1>3, <1>4, <1>5 DEF Store
  <1> QED BY <1>2, <1>5, <1>6, <1>7

\* The event of a row is of that row.
LEMMA OriginalStems ==
    ASSUME pack \in Packs, mode # "live",
           NEW f \in Files, NEW i \in DOMAIN pack[f], NEW p \in Parts(pack[f][i])
    PROVE  LET e == Original(f, pack[f][i], p)
           IN  /\ e \in Events /\ Stems(e, f, i, p)
               /\ e.id = Identity(f, pack[f][i], p) /\ e.observed = pack[f][i].observed
  <1>1. pack[f][i] \in Rows(pack)
    BY RowsOfPack
  <1>2. Original(f, pack[f][i], p) \in Events
    BY <1>1, OriginalIsEvent
  <1>3. Len(<<f, pack[f][i].record, p>>) = 3
    OBVIOUS
  <1> QED BY <1>2, <1>3 DEF Original, Event, Stems, Identity

\* A run and a pass put before an identity leave its last parts.
LEMMA Prefixed ==
    ASSUME NEW a \in Nat, NEW b \in Nat, NEW c \in Nat, NEW d \in Nat, NEW e \in Nat
    PROVE  <<a, b>> \o <<c, d, e>> = <<a, b, c, d, e>>
  <1> DEFINE s == <<a, b>>
             t == <<c, d, e>>
             u == <<a, b, c, d, e>>
  <1>1. s \in Seq(Nat) /\ t \in Seq(Nat) /\ u \in Seq(Nat)
    OBVIOUS
  <1>2. Len(s) = 2 /\ Len(t) = 3 /\ Len(u) = 5
    OBVIOUS
  <1>3. s[1] = u[1] /\ s[2] = u[2] /\ t[1] = u[3] /\ t[2] = u[4] /\ t[3] = u[5]
    OBVIOUS
  <1> HIDE DEF s, t, u
  <1> DEFINE joined == s \o t
  <1>4. /\ joined \in Seq(Nat) /\ Len(joined) = Len(s) + Len(t)
        /\ \A i \in 1..(Len(s) + Len(t)) :
              joined[i] = IF i <= Len(s) THEN s[i] ELSE t[i - Len(s)]
    BY <1>1, ConcatProperties
  <1> HIDE DEF joined
  <1>5. Len(joined) = 5 /\ \A i \in 1..5 : joined[i] = IF i <= 2 THEN s[i] ELSE t[i - 2]
    BY <1>2, <1>4
  <1>6. joined[1] = s[1] /\ joined[2] = s[2] /\ joined[3] = t[1] /\ joined[4] = t[2]
        /\ joined[5] = t[3]
    BY <1>5
  <1>7. \A i \in 1..5 : joined[i] = u[i]
    <2>1. \A i \in 1..5 : i = 1 \/ i = 2 \/ i = 3 \/ i = 4 \/ i = 5
      OBVIOUS
    <2> QED BY <1>3, <1>6, <2>1
  <1>8. joined = u
    BY <1>1, <1>2, <1>4, <1>5, <1>7, SeqEqual
  <1> QED BY <1>8 DEF joined, s, t, u

LEMMA LiveOf ==
    ASSUME pack \in Packs, mode = "live", run \in Nat, cycle \in Nat, NEW at \in Nat,
           NEW f \in Files, NEW i \in DOMAIN pack[f], NEW p \in Parts(pack[f][i])
    PROVE  LET e == LiveEvent(Original(f, pack[f][i], p), at)
           IN  /\ e \in Events /\ Stems(e, f, i, p) /\ e.at = at
               /\ e.id = Identity(f, pack[f][i], p) /\ e.observed = pack[f][i].observed
               /\ e.id[1] = run /\ e.id[2] = cycle
               /\ e.id[3] = f /\ e.id[4] = pack[f][i].record /\ e.id[5] = p
  <1> DEFINE o == Original(f, pack[f][i], p)
             e == LiveEvent(o, at)
             record == pack[f][i].record
             id == <<run, cycle, f, record, p>>
  <1>1. pack[f][i] \in Rows(pack) /\ record \in Nat /\ f \in Nat /\ p \in Nat
    BY RowsOfPack, PointsAssumption DEF Parts
  <1>2. o \in Events
    BY <1>1, OriginalIsEvent
  <1>3. o.id = <<f, record, p>>
    BY DEF Original, Event
  <1>4. <<run, cycle>> \o <<f, record, p>> = id
    BY <1>1, Prefixed
  <1>5. e = [o EXCEPT !.id = id, !.at = at]
    BY <1>3, <1>4 DEF LiveEvent
  <1>6. id \in Seq(Nat) /\ Len(id) = 5
    BY <1>1
  <1>7. o = [id |-> o.id, point |-> o.point, at |-> o.at, observed |-> o.observed,
             error |-> o.error, raw |-> o.raw]
    BY <1>2 DEF Events
  <1> HIDE DEF id
  <1>8. e = [id |-> id, point |-> o.point, at |-> at, observed |-> o.observed,
             error |-> o.error, raw |-> o.raw]
    <2> HIDE DEF o
    <2> QED BY <1>5, <1>7
  <1>9. e \in Events
    <2> HIDE DEF e, o
    <2> QED BY <1>2, <1>6, <1>8 DEF Events
  <1>10. e.id = id /\ e.at = at
    BY <1>8
  <1>11. e.point = p /\ e.observed = pack[f][i].observed /\ e.error = Failed(pack[f][i], p)
         /\ e.raw = IF p = 0 THEN None ELSE pack[f][i].raw[p]
    BY <1>8 DEF Original, Event
  <1>12. /\ id[1] = run /\ id[2] = cycle /\ id[3] = f /\ id[4] = record /\ id[5] = p
         /\ id[Len(id)] = p /\ id[Len(id) - 1] = record /\ id[Len(id) - 2] = f
         /\ id = Identity(f, pack[f][i], p)
    BY DEF id, Identity
  <1> HIDE DEF e
  <1>13. Stems(e, f, i, p)
    BY <1>6, <1>10, <1>11, <1>12 DEF Stems
  <1> QED BY <1>9, <1>10, <1>11, <1>12, <1>13 DEF e

\* What a batch of the group has.
LEMMA BatchRows ==
    ASSUME TypeOK, Schedule
    PROVE  /\ Batch(group) \in Seq(Events)
           /\ \A e \in Range(Batch(group)) : \E k \in DOMAIN group :
                 \E i \in 1..(next[group[k].file] - 1) :
                    /\ group[k].row = pack[group[k].file][i] /\ group[k].file \in Files
                    /\ i \in DOMAIN pack[group[k].file]
                    /\ \E p \in Parts(pack[group[k].file][i]) :
                          e = Original(group[k].file, pack[group[k].file][i], p)
           /\ \A k \in DOMAIN group : Selected(group[k].row) =>
                 \A p \in Parts(group[k].row) :
                    Original(group[k].file, group[k].row, p) \in Range(Batch(group))
  <1>1. pack \in Packs /\ group \in Seq([file : Files, row : Rows(pack)])
    BY DEF TypeOK
  <1>2. /\ Batch(group) \in Seq(Events)
        /\ \A e : e \in Range(Batch(group)) <=>
               \E k \in DOMAIN group : Selected(group[k].row)
                   /\ \E p \in Parts(group[k].row) : e = Original(group[k].file, group[k].row, p)
    BY <1>1, BatchOf
  <1>3. \A k \in DOMAIN group : group[k].file \in Files
    <2> DEFINE T == [file : Files, row : Rows(pack)]
    <2>1. group \in Seq(T) /\ \A t \in T : t.file \in Files
      BY <1>1
    <2> HIDE DEF T
    <2> QED BY <2>1
  <1>4. ASSUME NEW k \in DOMAIN group
        PROVE  \E i \in 1..(next[group[k].file] - 1) :
                  /\ group[k].row = pack[group[k].file][i]
                  /\ i \in DOMAIN pack[group[k].file]
    <2> DEFINE f == group[k].file
    <2>1. PICK i \in 1..(next[f] - 1) : group[k].row = pack[f][i]
      BY DEF Schedule
    <2>2. f \in Files /\ next[f] \in 1..(Len(pack[f]) + 1) /\ Len(pack[f]) \in Nat
          /\ DOMAIN pack[f] = 1..Len(pack[f])
      BY <1>1, <1>3, RowsOfPack DEF TypeOK
    <2>3. i \in DOMAIN pack[f]
      BY <2>2
    <2> QED BY <2>1, <2>3
  <1>5. ASSUME NEW e \in Range(Batch(group))
        PROVE  \E k \in DOMAIN group : \E i \in 1..(next[group[k].file] - 1) :
                    /\ group[k].row = pack[group[k].file][i] /\ group[k].file \in Files
                    /\ i \in DOMAIN pack[group[k].file]
                    /\ \E p \in Parts(pack[group[k].file][i]) :
                          e = Original(group[k].file, pack[group[k].file][i], p)
    <2>1. PICK k \in DOMAIN group :
              \E p \in Parts(group[k].row) : e = Original(group[k].file, group[k].row, p)
      BY <1>2
    <2>2. PICK i \in 1..(next[group[k].file] - 1) :
              group[k].row = pack[group[k].file][i] /\ i \in DOMAIN pack[group[k].file]
      BY <1>4
    <2> HIDE DEF Original
    <2> QED BY <1>3, <2>1, <2>2
  <1>6. \A k \in DOMAIN group : Selected(group[k].row) =>
            \A p \in Parts(group[k].row) :
                Original(group[k].file, group[k].row, p) \in Range(Batch(group))
    BY <1>2
  <1> QED BY <1>2, <1>5, <1>6

-------------------------------------------------------------------------------
(* What the actions do to what was said. *)

Frames(s) == UNION {Range(s[k]) : k \in DOMAIN s}

LEMMA AppendedFrame ==
    ASSUME NEW T, NEW s \in Seq(T), NEW x \in T
    PROVE  Frames(Append(s, x)) = Frames(s) \cup Range(x)
  <1> DEFINE t == Append(s, x)
  <1>1. /\ DOMAIN t = 1..(Len(s) + 1) /\ DOMAIN s = 1..Len(s) /\ Len(s) \in Nat
        /\ \A k \in 1..Len(s) : t[k] = s[k]
        /\ t[Len(s) + 1] = x
    OBVIOUS
  <1> HIDE DEF t
  <1>2. \A k \in DOMAIN t : k \in DOMAIN s \/ k = Len(s) + 1
    BY <1>1
  <1>3. \A k \in DOMAIN s : k \in DOMAIN t /\ t[k] = s[k]
    BY <1>1
  <1>4. Len(s) + 1 \in DOMAIN t
    BY <1>1
  <1>5. \A e : e \in Frames(t) <=> \E k \in DOMAIN t : e \in Range(t[k])
    BY DEF Frames
  <1>6. \A e : e \in Frames(s) <=> \E k \in DOMAIN s : e \in Range(s[k])
    BY DEF Frames
  <1>7. \A e : e \in Frames(t) <=> e \in Frames(s) \/ e \in Range(x)
    BY <1>1, <1>2, <1>3, <1>4, <1>5, <1>6
  <1> QED BY <1>7 DEF t

LEMMA TakenFrame ==
    ASSUME NEW T, NEW s \in Seq(T), s # <<>>
    PROVE  /\ Frames(s) = Range(Head(s)) \cup Frames(Tail(s)) /\ Head(s) = s[1]
           /\ Head(s) \in T /\ Tail(s) \in Seq(T)
           /\ 1 \in DOMAIN s
           /\ \A k \in DOMAIN Tail(s) : k + 1 \in DOMAIN s /\ Tail(s)[k] = s[k + 1] /\ k \in Nat
  <1> DEFINE t == Tail(s)
  <1>1. /\ DOMAIN t = 1..(Len(s) - 1) /\ DOMAIN s = 1..Len(s) /\ Len(s) \in Nat \ {0}
        /\ \A k \in 1..(Len(s) - 1) : t[k] = s[k + 1]
        /\ Head(s) = s[1] /\ t \in Seq(T) /\ Head(s) \in T
    OBVIOUS
  <1> HIDE DEF t
  <1>2. \A k \in DOMAIN t : k + 1 \in DOMAIN s /\ t[k] = s[k + 1] /\ k \in Nat
    BY <1>1
  <1>3. \A k \in DOMAIN s : k = 1 \/ (k - 1 \in DOMAIN t /\ t[k - 1] = s[k])
    BY <1>1
  <1>4. 1 \in DOMAIN s
    BY <1>1
  <1>5. \A e : e \in Frames(t) <=> \E k \in DOMAIN t : e \in Range(t[k])
    BY DEF Frames
  <1>6. \A e : e \in Frames(s) <=> \E k \in DOMAIN s : e \in Range(s[k])
    BY DEF Frames
  <1>7. \A e : e \in Frames(s) <=> e \in Range(Head(s)) \/ e \in Frames(t)
    BY <1>1, <1>2, <1>3, <1>4, <1>5, <1>6
  <1> QED BY <1>1, <1>2, <1>4, <1>7 DEF t

LiveFrame == [i \in DOMAIN Batch(group) |-> LiveEvent(Batch(group)[i], clock + 1)]

NewFrame == IF mode = "live" THEN LiveFrame ELSE Batch(group)

\* e is the event of point p and row i of file f that is delivered now.
Delivers(e, f, i, p) ==
    /\ Stems(e, f, i, p) /\ e.id = Identity(f, pack[f][i], p)
    /\ e.observed = pack[f][i].observed
    /\ mode = "live" =>
          /\ e.at = clock + 1 /\ e.id[1] = run /\ e.id[2] = cycle
          /\ e.id[3] = f /\ e.id[4] = pack[f][i].record

\* A delivered frame holds every selected row of the group, and nothing else.
LEMMA NewFrameOf ==
    ASSUME TypeOK, Schedule
    PROVE  /\ NewFrame \in Seq(Events)
           /\ \A e \in Range(NewFrame) : \E k \in DOMAIN group :
                 \E i \in 1..(next[group[k].file] - 1) :
                    /\ group[k].row = pack[group[k].file][i] /\ group[k].file \in Files
                    /\ i \in DOMAIN pack[group[k].file]
                    /\ \E p \in Parts(pack[group[k].file][i]) : Delivers(e, group[k].file, i, p)
           /\ \A k \in DOMAIN group : Selected(group[k].row) =>
                 \A p \in Parts(group[k].row) : \E e \in Range(NewFrame) :
                    /\ e.id = Identity(group[k].file, group[k].row, p)
                    /\ e.observed = group[k].row.observed
  <1> DEFINE events == Batch(group)
             made(o) == IF mode = "live" THEN LiveEvent(o, clock + 1) ELSE o
             From(e, k, i) == /\ group[k].row = pack[group[k].file][i] /\ group[k].file \in Files
                              /\ i \in DOMAIN pack[group[k].file]
                              /\ \E p \in Parts(pack[group[k].file][i]) :
                                    e = Original(group[k].file, pack[group[k].file][i], p)
  <1>1. /\ events \in Seq(Events)
        /\ \A e \in Range(events) : \E k \in DOMAIN group :
              \E i \in 1..(next[group[k].file] - 1) : From(e, k, i)
        /\ \A k \in DOMAIN group : Selected(group[k].row) =>
              \A p \in Parts(group[k].row) :
                 Original(group[k].file, group[k].row, p) \in Range(events)
    BY BatchRows
  <1>2. pack \in Packs /\ run \in Nat /\ cycle \in Nat /\ clock + 1 \in Nat
    BY DEF TypeOK
  <1>3. ASSUME NEW f \in Files, NEW i \in DOMAIN pack[f], NEW p \in Parts(pack[f][i])
        PROVE  /\ Delivers(made(Original(f, pack[f][i], p)), f, i, p)
               /\ made(Original(f, pack[f][i], p)) \in Events
    <2> HIDE DEF LiveEvent, Original
    <2>1. CASE mode = "live"
      <3> DEFINE e == LiveEvent(Original(f, pack[f][i], p), clock + 1)
      <3>1. made(Original(f, pack[f][i], p)) = e
        BY <2>1
      <3>2. /\ e \in Events /\ Stems(e, f, i, p) /\ e.at = clock + 1
            /\ e.id = Identity(f, pack[f][i], p) /\ e.observed = pack[f][i].observed
            /\ e.id[1] = run /\ e.id[2] = cycle
            /\ e.id[3] = f /\ e.id[4] = pack[f][i].record /\ e.id[5] = p
        BY <1>2, <2>1, LiveOf
      <3> HIDE DEF made, e
      <3> QED BY <3>1, <3>2 DEF Delivers
    <2>2. CASE mode # "live"
      <3>1. made(Original(f, pack[f][i], p)) = Original(f, pack[f][i], p)
        BY <2>2
      <3> QED BY <1>2, <2>2, <3>1, OriginalStems DEF Delivers
    <2> QED BY <2>1, <2>2
  <1>4. DOMAIN events = 1..Len(events) /\ Len(events) \in Nat
    BY <1>1
  <1>5. NewFrame = [j \in DOMAIN events |-> made(events[j])]
    <2>1. events = [j \in DOMAIN events |-> events[j]]
      BY <1>1
    <2> QED BY <2>1 DEF NewFrame, LiveFrame
  <1> HIDE DEF events, made, From
  <1>6. \A j \in DOMAIN events : events[j] \in Range(events)
    BY DEF Range
  <1>7. \A o \in Range(events) : \E j \in DOMAIN events : events[j] = o
    BY DEF Range
  <1>8. ASSUME NEW o \in Range(events)
        PROVE  /\ made(o) \in Events
               /\ \E k \in DOMAIN group : \E i \in 1..(next[group[k].file] - 1) :
                    /\ group[k].row = pack[group[k].file][i] /\ group[k].file \in Files
                    /\ i \in DOMAIN pack[group[k].file]
                    /\ \E p \in Parts(pack[group[k].file][i]) :
                          Delivers(made(o), group[k].file, i, p)
    <2>1. PICK k \in DOMAIN group : \E i \in 1..(next[group[k].file] - 1) : From(o, k, i)
      BY <1>1
    <2>2. PICK i \in 1..(next[group[k].file] - 1) : From(o, k, i)
      BY <2>1
    <2>3. PICK p \in Parts(pack[group[k].file][i]) :
              o = Original(group[k].file, pack[group[k].file][i], p)
      BY <2>2 DEF From
    <2>4. group[k].file \in Files /\ i \in DOMAIN pack[group[k].file]
          /\ group[k].row = pack[group[k].file][i]
      BY <2>2 DEF From
    <2>5. Delivers(made(o), group[k].file, i, p) /\ made(o) \in Events
      BY <1>3, <2>3, <2>4
    <2> QED BY <2>4, <2>5
  <1>9. \A e \in Range(NewFrame) : \E o \in Range(events) : e = made(o)
    BY <1>5, <1>6 DEF Range
  <1>10. \A o \in Range(events) : made(o) \in Range(NewFrame)
    BY <1>5, <1>7 DEF Range
  <1>11. NewFrame \in Seq(Events)
    <2>1. \A j \in DOMAIN events : made(events[j]) \in Events
      BY <1>6, <1>8
    <2> QED BY <1>4, <1>5, <2>1
  <1>12. \A e \in Range(NewFrame) : \E k \in DOMAIN group :
            \E i \in 1..(next[group[k].file] - 1) :
               /\ group[k].row = pack[group[k].file][i] /\ group[k].file \in Files
               /\ i \in DOMAIN pack[group[k].file]
               /\ \E p \in Parts(pack[group[k].file][i]) : Delivers(e, group[k].file, i, p)
    BY <1>8, <1>9
  <1>13. ASSUME NEW k \in DOMAIN group, Selected(group[k].row), NEW p \in Parts(group[k].row)
         PROVE  \E e \in Range(NewFrame) :
                    /\ e.id = Identity(group[k].file, group[k].row, p)
                    /\ e.observed = group[k].row.observed
    <2> DEFINE o == Original(group[k].file, group[k].row, p)
    <2>1. o \in Range(events)
      BY <1>1, <1>13
    <2>2. PICK i \in 1..(next[group[k].file] - 1) : group[k].row = pack[group[k].file][i]
      BY DEF Schedule
    <2>3. group[k].file \in Files /\ i \in DOMAIN pack[group[k].file]
      <3>1. group \in Seq([file : Files, row : Rows(pack)])
        BY DEF TypeOK
      <3> DEFINE T == [file : Files, row : Rows(pack)]
      <3>2. group \in Seq(T) /\ \A t \in T : t.file \in Files
        BY <3>1
      <3> HIDE DEF T
      <3>3. group[k].file \in Files
        BY <3>2
      <3>4. next[group[k].file] \in 1..(Len(pack[group[k].file]) + 1)
            /\ Len(pack[group[k].file]) \in Nat
            /\ DOMAIN pack[group[k].file] = 1..Len(pack[group[k].file])
        BY <1>2, <3>3, RowsOfPack DEF TypeOK
      <3> QED BY <3>3, <3>4
    <2>4. Delivers(made(o), group[k].file, i, p)
      BY <1>3, <2>2, <2>3
    <2>5. made(o) \in Range(NewFrame)
      BY <1>10, <2>1
    <2> HIDE DEF o
    <2> QED BY <2>2, <2>4, <2>5 DEF Delivers
  <1> QED BY <1>11, <1>12, <1>13

LEMMA SaidSame ==
    ASSUME stream' = stream, UNCHANGED store
    PROVE  Said' = Said /\ Store' = Store
  BY DEF Said, Store, store, Seen

LEMMA FromRowsSame ==
    ASSUME pack' = pack, mode' = mode, FromRows(Said')
    PROVE  FromRows(Said)'
  BY DEF FromRows, Stems, Files

LEMMA SaidIsFrames ==
    /\ Said = Frames(stream) \cup Seen(Store)
    /\ Said' = Frames(stream') \cup Seen(Store')
  BY DEF Said, Frames, Seen, Store

Deliver == Replay \/ Live \/ Demo

\* What a delivery does, in each mode.
LEMMA DeliverStep ==
    ASSUME TypeOK, Schedule, FromRows(Said), Kept(Store), Deliver
    PROVE  /\ Delivered
           /\ stream' \in Seq(Seq(Events)) /\ Store' \in Stores(Events) /\ Kept(Store')
           /\ Said' = Said \cup Range(NewFrame)
           /\ FromRows(Said)'
           /\ mode = "live" => stream' = Append(stream, NewFrame) /\ UNCHANGED store
  <1>1. stream \in Seq(Seq(Events)) /\ NewFrame \in Seq(Events) /\ Store \in Stores(Events)
    BY NewFrameOf DEF TypeOK
  <1>2. Said \in SUBSET Events /\ FromRows(Range(NewFrame)) /\ Range(NewFrame) \subseteq Events
    <2>1. Range(NewFrame) \subseteq Events
      BY <1>1 DEF Range
    <2>2. \A e \in Range(NewFrame) : \E f \in Files : \E i \in DOMAIN pack[f] :
              \E p \in Parts(pack[f][i]) : Stems(e, f, i, p)
      BY NewFrameOf DEF Delivers
    <2> QED BY <2>1, <2>2, SaidStored DEF FromRows
  <1>3. FromRows(Said \cup Range(NewFrame))
    BY <1>2 DEF FromRows
  <1>4. CASE Replay \/ Live
    <2>1. Delivered /\ stream' = Append(stream, NewFrame) /\ UNCHANGED store
      <3>1. clock' = clock + 1
        BY <1>4 DEF Replay, Live, Delivered
      <3> QED BY <1>4, <3>1 DEF Replay, Live, NewFrame, LiveFrame
    <2>2. Store' = Store
      BY <2>1 DEF Store, store
    <2>3. stream' \in Seq(Seq(Events)) /\ Frames(stream') = Frames(stream) \cup Range(NewFrame)
      BY <1>1, <2>1, AppendedFrame
    <2>4. Said' = Said \cup Range(NewFrame)
      BY <2>2, <2>3, SaidIsFrames
    <2>5. FromRows(Said')
      BY <1>3, <2>4
    <2>6. FromRows(Said)'
      BY <2>1, <2>5, FromRowsSame DEF Delivered, command
    <2> QED BY <1>1, <2>1, <2>2, <2>3, <2>4, <2>6
  <1>5. CASE Demo
    <2>1. Delivered /\ mode = "demo" /\ Ingest(NewFrame) /\ stream' = stream
      BY <1>5 DEF Demo, NewFrame
    <2> DEFINE E == Said \cup Range(NewFrame)
    <2>2. NewFrame \in Seq(E)
      <3>1. \A i \in 1..Len(NewFrame) : NewFrame[i] \in E
        BY <1>1 DEF Range
      <3> HIDE DEF E
      <3> QED BY <1>1, <3>1
    <2>3. /\ E \in SUBSET Events /\ Said \subseteq E /\ \A e \in E : ~e.error => e.point \in Points
      BY <1>2, <1>3, FromRowsPoints
    <2> HIDE DEF E
    <2>4. /\ Store' \in Stores(Events) /\ Kept(Store')
          /\ Seen(Store') = Seen(Store) \cup Range(NewFrame)
      BY <2>1, <2>2, <2>3, StoreStep
    <2>5. Said' = Said \cup Range(NewFrame)
      BY <2>1, <2>4, SaidIsFrames
    <2>6. FromRows(Said')
      BY <1>3, <2>5
    <2>7. FromRows(Said)'
      BY <2>1, <2>6, FromRowsSame DEF Delivered, command
    <2> QED BY <1>1, <2>1, <2>4, <2>5, <2>7
  <1> QED BY <1>4, <1>5 DEF Deliver

\* What the worker does with the frame it takes.
LEMMA WorkStep ==
    ASSUME TypeOK, FromRows(Said), Kept(Store), Work
    PROVE  /\ UNCHANGED <<command, source>> /\ stream # <<>> /\ stream' = Tail(stream)
           /\ stream' \in Seq(Seq(Events)) /\ Store' \in Stores(Events) /\ Kept(Store')
           /\ Said' = Said /\ FromRows(Said)'
           /\ history' \subseteq history \cup Range(Head(stream))
           /\ Ordered(Head(stream)) \in Seq(Said)
           /\ Range(Ordered(Head(stream))) = Range(Head(stream))
           /\ Ingest(Ordered(Head(stream)))
  <1> DEFINE frame == Head(stream)
  <1>1. UNCHANGED <<command, source>> /\ stream # <<>> /\ stream' = Tail(stream)
        /\ Ingest(Ordered(frame))
    BY DEF Work
  <1>2. stream \in Seq(Seq(Events))
    BY DEF TypeOK
  <1>3. /\ Frames(stream) = Range(frame) \cup Frames(stream')
        /\ frame = stream[1] /\ 1 \in DOMAIN stream
        /\ frame \in Seq(Events) /\ stream' \in Seq(Seq(Events))
    BY <1>1, <1>2, TakenFrame
  <1> HIDE DEF frame
  <1>4. /\ Said \in SUBSET Events /\ \A e \in Said : ~e.error => e.point \in Points
        /\ Range(frame) \subseteq Said
    BY <1>3, SaidStored
  <1>5. FromRows(Range(frame))
    BY <1>4 DEF FromRows
  <1>6. Ordered(frame) \in Seq(Range(frame)) /\ Range(Ordered(frame)) = Range(frame)
    BY <1>3, <1>5, OrderedOf
  <1>7. Ordered(frame) \in Seq(Said)
    BY <1>4, <1>6
  <1>8. /\ Store' \in Stores(Events) /\ Kept(Store')
        /\ Seen(Store') = Seen(Store) \cup Range(frame)
        /\ history' \subseteq history \cup Range(frame)
    BY <1>1, <1>4, <1>6, <1>7, StoreStep
  <1>9. Said' = Said
    BY <1>3, <1>8, SaidIsFrames
  <1>10. FromRows(Said)'
    BY <1>1, <1>9, FromRowsSame DEF command
  <1> QED BY <1>1, <1>3, <1>6, <1>7, <1>8, <1>9, <1>10 DEF frame

-------------------------------------------------------------------------------
(* The parts of the invariant, each over the steps. *)

LEMMA HeadRow ==
    ASSUME TypeOK, NEW f \in Pending
    PROVE  /\ f \in Files /\ next[f] \in DOMAIN pack[f] /\ next[f] \in Nat
           /\ Head1(f) \in Rows(pack) /\ Head1(f) = pack[f][next[f]]
           /\ Head1(f).observed \in Nat \ {0} /\ Delivery(f) \in Nat
           /\ Delivery(f) >= high[f] /\ Delivery(f) >= Head1(f).observed
           /\ (Delivery(f) = high[f] \/ Delivery(f) = Head1(f).observed)
  <1>1. /\ f \in Files /\ next[f] <= Len(pack[f]) /\ pack \in Packs
        /\ next[f] \in 1..(Len(pack[f]) + 1) /\ high[f] \in Nat
    BY DEF Pending, TypeOK
  <1>2. next[f] \in DOMAIN pack[f] /\ next[f] \in Nat
    BY <1>1, RowsOfPack
  <1>3. Head1(f) \in Rows(pack) /\ Head1(f).observed \in Nat \ {0}
    BY <1>1, <1>2, RowsOfPack DEF Head1
  <1> QED BY <1>1, <1>2, <1>3 DEF Delivery, Head1

LEMMA HeadRowNext ==
    ASSUME TypeOK', NEW f \in Pending'
    PROVE  Delivery(f)' \in Nat /\ Delivery(f)' >= high'[f] /\ Delivery(f)' # 0 /\ f \in Files'
  <1>1. /\ f \in Files' /\ next'[f] <= Len(pack'[f]) /\ pack' \in Packs
        /\ next'[f] \in 1..(Len(pack'[f]) + 1) /\ high'[f] \in Nat
    BY DEF Pending, TypeOK
  <1>2. f \in DOMAIN pack' /\ pack'[f] \in Seq(Range(pack'[f]))
    BY <1>1, PacksAssumption DEF Files
  <1>3. next'[f] \in DOMAIN pack'[f]
    BY <1>1, <1>2
  <1>4. pack'[f][next'[f]] \in Rows(pack')
    BY <1>2, <1>3 DEF Rows, Range
  <1>5. pack'[f][next'[f]].observed \in Nat \ {0}
    BY <1>1, <1>4, PacksAssumption
  <1> QED BY <1>1, <1>5 DEF Delivery, Head1

\* When a frame is complete, what is pending is later.
LEMMA CompleteIsOver ==
    ASSUME TypeOK, Schedule, Complete
    PROVE  \A f \in Pending : due < Delivery(f)
  <1> SUFFICES ASSUME NEW f \in Pending, ~(due < Delivery(f)) PROVE FALSE
    OBVIOUS
  <1>1. \A g \in Pending : due <= Delivery(g) /\ Delivery(g) \in Nat /\ g \in Nat
    BY HeadRow, RowsOfPack DEF Schedule, TypeOK
  <1>2. due \in Nat
    BY DEF TypeOK
  <1> DEFINE now == {g \in Pending : Delivery(g) = due}
  <1>3. now \in SUBSET Nat /\ now # {}
    BY <1>1, <1>2
  <1> HIDE DEF now
  <1>4. PICK g \in now : \A h \in now : g <= h
    BY <1>3, Least
  <1>5. g \in Pending /\ Delivery(g) = due
    BY <1>4 DEF now
  <1>6. \A h \in Pending : Delivery(g) < Delivery(h) \/ (Delivery(g) = Delivery(h) /\ g <= h)
    BY <1>1, <1>2, <1>4, <1>5 DEF now
  <1>7. First(g) /\ g \in Files
    BY <1>5, <1>6 DEF First, Pending
  <1> QED BY <1>5, <1>7 DEF Complete

\* Every step keeps each part of the invariant.
LEMMA TypeStep ==
    ASSUME IInv, [Next]_vars
    PROVE  TypeOK'
  <1> USE DEF IInv
  <1>1. ASSUME NEW f \in Files, Merge(f)
        PROVE  TypeOK'
    <2>1. f \in Pending
      BY <1>1 DEF Merge, First
    <2>2. /\ UNCHANGED <<command, run, cycle, previous, published, clock, stream, store>>
          /\ group' = Append(group, [file |-> f, row |-> Head1(f)]) /\ due' = Delivery(f)
          /\ high' = [high EXCEPT ![f] = Delivery(f)] /\ next' = [next EXCEPT ![f] = @ + 1]
      BY <1>1 DEF Merge
    <2> DEFINE T == [file : Files, row : Rows(pack)]
    <2>3. [file |-> f, row |-> Head1(f)] \in T /\ Delivery(f) \in Nat
      BY <2>1, HeadRow
    <2>4. group \in Seq(T)
      BY DEF TypeOK
    <2>5. group' \in Seq(T)
      <3> HIDE DEF T
      <3> QED BY <2>2, <2>3, <2>4
    <2>6. Files' = Files /\ pack' = pack /\ T' = T
      BY <2>2 DEF command, Files
    <2>7. high' \in [Files -> Nat] /\ next' \in [Files -> Nat]
      BY <2>2, <2>3 DEF TypeOK
    <2>8. ASSUME NEW g \in Files
          PROVE  next'[g] \in 1..(Len(pack[g]) + 1)
      <3>1. next[g] \in 1..(Len(pack[g]) + 1) /\ next \in [Files -> Nat] /\ Len(pack[g]) \in Nat
        BY RowsOfPack DEF TypeOK
      <3>2. next'[g] = IF g = f THEN next[g] + 1 ELSE next[g]
        BY <2>2, <3>1
      <3>3. g = f => next[g] <= Len(pack[g])
        BY <2>1 DEF Pending
      <3> QED BY <3>1, <3>2, <3>3
    <2>9. Store' = Store
      BY <2>2 DEF Store, store
    <2> QED BY <2>2, <2>3, <2>5, <2>6, <2>7, <2>8, <2>9 DEF TypeOK, command
  <1>2. ASSUME Deliver
        PROVE  TypeOK'
    <2>1. /\ Delivered /\ stream' \in Seq(Seq(Events)) /\ Store' \in Stores(Events)
      BY <1>2, DeliverStep
    <2>2. /\ UNCHANGED <<command, run, cycle, next, high, due>>
          /\ group' = <<>> /\ previous' = due /\ published' = published + 1 /\ clock' = clock + 1
      BY <2>1 DEF Delivered
    <2>3. Files' = Files /\ Rows(pack)' = Rows(pack)
      BY <2>2 DEF command, Files
    <2>4. group' \in Seq([file : Files, row : Rows(pack)])
      BY <2>2
    <2>5. published' \in Nat /\ clock' \in Nat
      BY <2>2 DEF TypeOK
    <2> QED BY <2>1, <2>2, <2>3, <2>4, <2>5 DEF TypeOK, command
  <1>3. ASSUME Work
        PROVE  TypeOK'
    <2>1. /\ UNCHANGED <<command, source>> /\ stream' \in Seq(Seq(Events))
          /\ Store' \in Stores(Events)
      BY <1>3, WorkStep
    <2> QED BY <2>1 DEF TypeOK, command, source, Files
  <1>4. ASSUME Cycle \/ Restart
        PROVE  TypeOK'
    <2>1. /\ FromTheStart /\ UNCHANGED <<command, stream, store>>
          /\ run' \in Nat /\ cycle' \in Nat /\ published' \in Nat /\ clock' \in Nat
      BY <1>4 DEF Cycle, Restart, TypeOK
    <2>2. Store' = Store /\ Files' = Files
      BY <2>1 DEF Store, store, command, Files
    <2>3. group' \in Seq([file : Files, row : Rows(pack)])
      BY <2>1 DEF FromTheStart
    <2>4. /\ next' \in [Files -> Nat] /\ high' \in [Files -> Nat]
          /\ \A f \in Files : next'[f] \in 1..(Len(pack[f]) + 1)
      <3>1. \A f \in Files : Len(pack[f]) \in Nat
        BY RowsOfPack DEF TypeOK
      <3> QED BY <2>1, <3>1 DEF FromTheStart
    <2> QED BY <2>1, <2>2, <2>3, <2>4 DEF TypeOK, command, FromTheStart
  <1>5. ASSUME UNCHANGED vars
        PROVE  TypeOK'
    BY <1>5 DEF vars, TypeOK, Files, Store, command, source, store
  <1> QED BY <1>1, <1>2, <1>3, <1>4, <1>5 DEF Next, Deliver

LEMMA ScheduleStep ==
    ASSUME IInv, TypeOK', [Next]_vars
    PROVE  Schedule'
  <1> USE DEF IInv
  <1>1. ASSUME NEW f \in Files, Merge(f)
        PROVE  Schedule'
    <2>1. f \in Pending /\ \A g \in Pending : Delivery(f) <= Delivery(g)
      <3>1. f \in Pending /\ \A g \in Pending :
                Delivery(f) < Delivery(g) \/ (Delivery(f) = Delivery(g) /\ f <= g)
        BY <1>1 DEF Merge, First
      <3> QED BY <3>1, HeadRow
    <2>2. /\ UNCHANGED <<command, run, cycle, previous, published, clock, stream, store>>
          /\ group' = Append(group, [file |-> f, row |-> Head1(f)]) /\ due' = Delivery(f)
          /\ high' = [high EXCEPT ![f] = Delivery(f)] /\ next' = [next EXCEPT ![f] = @ + 1]
          /\ (group = <<>> \/ Delivery(f) = due)
      BY <1>1 DEF Merge
    <2>3. /\ Delivery(f) \in Nat /\ Delivery(f) >= high[f] /\ Delivery(f) >= Head1(f).observed
          /\ Head1(f) = pack[f][next[f]] /\ next[f] \in Nat /\ Head1(f).observed \in Nat
          /\ next[f] \in DOMAIN pack[f]
      BY <2>1, HeadRow
    <2>4. /\ high \in [Files -> Nat] /\ next \in [Files -> Nat] /\ pack' = pack /\ Files' = Files
          /\ due \in Nat /\ previous \in Nat /\ pack \in Packs
      BY <2>2 DEF TypeOK, command, Files
    <2>5. /\ \A g \in Files : high'[g] = IF g = f THEN Delivery(f) ELSE high[g]
          /\ \A g \in Files : next'[g] = IF g = f THEN next[g] + 1 ELSE next[g]
      BY <2>2, <2>4
    <2>6. /\ \A g \in Files : high[g] <= due
          /\ \A g \in Pending : due <= Delivery(g)
          /\ (group = <<>> => due = previous /\ \A g \in Pending : previous < Delivery(g))
          /\ (group # <<>> => previous < due)
      BY DEF Schedule
    <2>7. ASSUME NEW k \in DOMAIN group'
          PROVE  \E j \in 1..(next'[group'[k].file] - 1) :
                    group'[k].row = pack[group'[k].file][j]
      <3> DEFINE T == [file : Files, row : Rows(pack)]
                 x == [file |-> f, row |-> Head1(f)]
      <3>1. group \in Seq(T)
        BY DEF TypeOK
      <3>2. \A t \in T : t.file \in Files
        OBVIOUS
      <3>3. x.file = f /\ x.row = pack[f][next[f]] /\ x \in T
        BY <2>1, <2>3, HeadRow
      <3>4. next[f] \in 1..(next'[f] - 1)
        BY <2>3, <2>4, <2>5, HeadRow, <2>1 DEF TypeOK
      <3> HIDE DEF T, x
      <3>5. CASE k \in DOMAIN group
        <4>1. group'[k] = group[k] /\ group[k].file \in Files
          BY <2>2, <3>1, <3>2, <3>5, <3>3 DEF x
        <4>2. PICK j \in 1..(next[group[k].file] - 1) : group[k].row = pack[group[k].file][j]
          BY <3>5 DEF Schedule
        <4>3. j \in 1..(next'[group[k].file] - 1)
          BY <2>4, <2>5, <4>1, <4>2
        <4> QED BY <4>1, <4>2, <4>3
      <3>6. CASE k \notin DOMAIN group
        <4>1. group'[k] = x
          BY <2>2, <3>1, <3>6, <3>3 DEF x
        <4> QED BY <3>3, <3>4, <4>1
      <3> QED BY <3>5, <3>6
    <2>8. ASSUME NEW g \in Files, NEW j \in 1..(next'[g] - 1)
          PROVE  pack[g][j].observed <= high'[g]
      <3>1. CASE j \in 1..(next[g] - 1)
        <4>1. pack[g][j].observed <= high[g] /\ high[g] \in Nat
          BY <2>4, <3>1 DEF Schedule
        <4>2. pack[g][j].observed \in Nat
          <5>1. next[g] \in 1..(Len(pack[g]) + 1) /\ Len(pack[g]) \in Nat
                /\ DOMAIN pack[g] = 1..Len(pack[g])
            BY <2>4, RowsOfPack DEF TypeOK
          <5>2. j \in DOMAIN pack[g]
            BY <3>1, <5>1
          <5> QED BY <2>4, <5>2, RowsOfPack
        <4> QED BY <2>3, <2>5, <4>1, <4>2
      <3>2. CASE j \notin 1..(next[g] - 1)
        <4>1. g = f /\ j = next[f]
          BY <2>4, <2>5, <3>2
        <4> QED BY <2>3, <2>5, <4>1
      <3> QED BY <3>1, <3>2
    <2>9. due <= due'
      BY <2>1, <2>2, <2>6
    <2>10. \A g \in Files : high'[g] <= due'
      BY <2>2, <2>3, <2>4, <2>5, <2>6, <2>9
    <2>11. ASSUME NEW g \in Pending'
           PROVE  due' <= Delivery(g)'
      <3>1. CASE g = f
        <4>1. Delivery(g)' >= high'[g]
          BY <2>11, HeadRowNext
        <4>2. high'[g] = Delivery(f)
          BY <2>5, <3>1
        <4>3. Delivery(g)' \in Nat
          BY <2>11, HeadRowNext
        <4> QED BY <2>2, <2>3, <4>1, <4>2, <4>3
      <3>2. CASE g # f
        <4>1. g \in Files /\ next'[g] = next[g] /\ high'[g] = high[g]
          BY <2>4, <2>5, <2>11, <3>2 DEF Pending
        <4>2. g \in Pending
          BY <2>4, <2>11, <4>1 DEF Pending
        <4>3. Delivery(g)' = Delivery(g)
          BY <2>4, <4>1 DEF Delivery, Head1
        <4> QED BY <2>1, <2>2, <4>2, <4>3
      <3> QED BY <3>1, <3>2
    <2>12. group' # <<>> /\ previous' < due'
      <3>1. group' # <<>>
        <4>1. Len(group') = Len(group) + 1 /\ Len(group) \in Nat
          BY <2>2 DEF TypeOK
        <4> QED BY <4>1
      <3>2. previous < Delivery(f)
        BY <2>1, <2>2, <2>6
      <3> QED BY <2>2, <3>1, <3>2
    <2> QED BY <2>4, <2>7, <2>8, <2>10, <2>11, <2>12 DEF Schedule
  <1>2. ASSUME Deliver
        PROVE  Schedule'
    <2>1. Complete /\ UNCHANGED <<command, run, cycle, next, high, due>>
          /\ group' = <<>> /\ previous' = due
      BY <1>2, DeliverStep DEF Delivered
    <2>2. \A f \in Pending : due < Delivery(f)
      BY <2>1, CompleteIsOver
    <2>3. Pending' = Pending /\ Files' = Files /\ pack' = pack
          /\ \A f \in Pending : Delivery(f)' = Delivery(f)
      BY <2>1 DEF Pending, Files, Delivery, Head1, command
    <2>4. DOMAIN group' = {}
      BY <2>1
    <2> QED BY <2>1, <2>2, <2>3, <2>4 DEF Schedule
  <1>3. ASSUME Work \/ UNCHANGED vars
        PROVE  Schedule'
    <2>1. UNCHANGED <<command, source>>
      BY <1>3 DEF Work, vars
    <2> QED BY <2>1 DEF Schedule, command, source, Files, Pending, Delivery, Head1
  <1>4. ASSUME Cycle \/ Restart
        PROVE  Schedule'
    <2>1. FromTheStart /\ UNCHANGED command
      BY <1>4 DEF Cycle, Restart
    <2>2. /\ Files' = Files /\ pack' = pack /\ DOMAIN group' = {}
          /\ \A f \in Files : next'[f] = 1 /\ high'[f] = 0
          /\ group' = <<>> /\ due' = 0 /\ previous' = 0
      BY <2>1 DEF FromTheStart, command, Files
    <2>3. \A f \in Pending' : Delivery(f)' \in Nat /\ Delivery(f)' # 0
      BY HeadRowNext
    <2>4. \A f \in Files : \A j \in 1..(next'[f] - 1) : FALSE
      BY <2>2
    <2> QED BY <2>2, <2>3, <2>4 DEF Schedule
  <1> QED BY <1>1, <1>2, <1>3, <1>4 DEF Next, Deliver

LEMMA KeptStep ==
    ASSUME IInv, [Next]_vars
    PROVE  FromRows(Said)' /\ Kept(Store)'
  <1> USE DEF IInv
  <1>1. CASE Deliver
    BY <1>1, DeliverStep
  <1>2. CASE Work
    BY <1>2, WorkStep
  <1>3. ASSUME NEW f \in Files, Merge(f)
        PROVE  FromRows(Said)' /\ Kept(Store)'
    <2>1. UNCHANGED <<command, stream, store>>
      BY <1>3 DEF Merge
    <2>2. Said' = Said /\ Store' = Store
      BY <2>1, SaidSame
    <2> QED BY <2>1, <2>2, FromRowsSame DEF command
  <1>4. CASE Cycle \/ Restart \/ UNCHANGED vars
    <2>1. UNCHANGED <<command, stream, store>>
      BY <1>4 DEF Cycle, Restart, vars
    <2>2. Said' = Said /\ Store' = Store
      BY <2>1, SaidSame
    <2> QED BY <2>1, <2>2, FromRowsSame DEF command
  <1> QED BY <1>1, <1>2, <1>3, <1>4 DEF Next, Deliver

LEMMA CoveredStep ==
    ASSUME IInv, [Next]_vars
    PROVE  Covered'
  <1> USE DEF IInv
  <1> DEFINE Told(f, i) == \A p \in Parts(pack[f][i]) : \E e \in Said :
                 e.id = Identity(f, pack[f][i], p) /\ e.observed = pack[f][i].observed
  <1>1. ASSUME NEW f \in Files, Merge(f)
        PROVE  Covered'
    <2>1. f \in Pending
      BY <1>1 DEF Merge, First
    <2>2. /\ UNCHANGED <<command, run, cycle, stream, store>>
          /\ group' = Append(group, [file |-> f, row |-> Head1(f)])
          /\ next' = [next EXCEPT ![f] = @ + 1]
      BY <1>1 DEF Merge
    <2>3. Said' = Said
      BY <2>2, SaidSame
    <2>4. /\ pack' = pack /\ Files' = Files /\ next \in [Files -> Nat] /\ mode' = mode
          /\ selected' = selected /\ run' = run /\ cycle' = cycle
      BY <2>2 DEF TypeOK, command, Files
    <2> DEFINE x == [file |-> f, row |-> Head1(f)]
               T == [file : Files, row : Rows(pack)]
    <2>5. x.file = f /\ x.row = pack[f][next[f]] /\ x \in T /\ group \in Seq(T)
      BY <2>1, HeadRow DEF TypeOK
    <2> HIDE DEF x, T
    <2>6. /\ \A k \in DOMAIN group : k \in DOMAIN group' /\ group'[k] = group[k]
          /\ Len(group) + 1 \in DOMAIN group' /\ group'[Len(group) + 1] = x
      BY <2>2, <2>5 DEF x
    <2>7. ASSUME NEW g \in Files, NEW i \in 1..(next'[g] - 1), Selected(pack[g][i])
          PROVE  Collected(g, i)' \/ Told(g, i)'
      <3>1. CASE i \in 1..(next[g] - 1)
        <4>1. Collected(g, i) \/ Told(g, i)
          BY <2>7, <3>1 DEF Covered
        <4>2. Collected(g, i) => Collected(g, i)'
          BY <2>4, <2>6 DEF Collected
        <4>3. Told(g, i) => Told(g, i)'
          BY <2>3, <2>4 DEF Identity
        <4> QED BY <4>1, <4>2, <4>3
      <3>2. CASE i \notin 1..(next[g] - 1)
        <4>1. g = f /\ i = next[f]
          BY <2>2, <2>4, <3>2
        <4>2. Collected(g, i)'
          BY <2>4, <2>5, <2>6, <4>1 DEF Collected
        <4> QED BY <4>2
      <3> QED BY <3>1, <3>2
    <2> HIDE DEF Told
    <2>8. \A row : Selected(row)' <=> Selected(row)
      BY <2>4 DEF Selected
    <2>9. \A g \in Files' : \A i \in 1..(next'[g] - 1) :
              Selected(pack[g][i])' => Collected(g, i)' \/ Told(g, i)'
      BY <2>4, <2>7, <2>8
    <2> QED BY <2>9 DEF Covered, Told
  <1>2. ASSUME Deliver
        PROVE  Covered'
    <2>1. /\ UNCHANGED <<command, run, cycle, next>> /\ Said' = Said \cup Range(NewFrame)
      BY <1>2, DeliverStep DEF Delivered
    <2>2. /\ pack' = pack /\ Files' = Files /\ mode' = mode
          /\ selected' = selected /\ run' = run /\ cycle' = cycle
      BY <2>1 DEF command, Files
    <2>3. ASSUME NEW g \in Files, NEW i \in 1..(next[g] - 1), Selected(pack[g][i])
          PROVE  Told(g, i)'
      <3>1. CASE Collected(g, i)
        <4>1. PICK k \in DOMAIN group : group[k].file = g /\ group[k].row = pack[g][i]
          BY <3>1 DEF Collected
        <4>2. \A p \in Parts(pack[g][i]) : \E e \in Range(NewFrame) :
                  e.id = Identity(g, pack[g][i], p) /\ e.observed = pack[g][i].observed
          BY <2>3, <4>1, NewFrameOf
        <4> QED BY <2>1, <2>2, <4>2 DEF Identity
      <3>2. CASE ~Collected(g, i)
        <4>1. Told(g, i)
          BY <2>3, <3>2 DEF Covered
        <4> QED BY <2>1, <2>2, <4>1 DEF Identity
      <3> QED BY <3>1, <3>2
    <2> HIDE DEF Told
    <2>4. \A row : Selected(row)' <=> Selected(row)
      BY <2>2 DEF Selected
    <2>5. \A g \in Files' : \A i \in 1..(next'[g] - 1) :
              Selected(pack[g][i])' => Told(g, i)'
      BY <2>1, <2>2, <2>3, <2>4
    <2> QED BY <2>5 DEF Covered, Told
  <1>3. ASSUME Work \/ UNCHANGED vars
        PROVE  Covered'
    <2>1. UNCHANGED <<command, source>> /\ Said' = Said
      BY <1>3, WorkStep, SaidSame DEF vars
    <2> QED BY <2>1 DEF Covered, command, source, Files, Selected, Collected, Identity
  <1>4. ASSUME Cycle \/ Restart
        PROVE  Covered'
    <2>1. \A f \in Files' : next'[f] = 1
      BY <1>4 DEF Cycle, Restart, FromTheStart, command, Files
    <2>2. \A f \in Files' : \A i \in 1..(next'[f] - 1) : FALSE
      BY <2>1
    <2> QED BY <2>2 DEF Covered
  <1> QED BY <1>1, <1>2, <1>3, <1>4 DEF Next, Deliver

\* The parts of a live identity.
LEMMA LiveIds ==
    ASSUME TypeOK, FromRows(Said), Kept(Store), mode = "live"
    PROVE  \A e \in Said :
              /\ e.at \in Nat /\ e.id \in Seq(Nat) /\ Len(e.id) = 5
              /\ \A i \in 1..5 : e.id[i] \in Nat
              /\ e.id[3] \in Files /\ e.id[5] = e.point
              /\ \E i \in DOMAIN pack[e.id[3]] : e.id[4] = pack[e.id[3]][i].record
  <1> SUFFICES ASSUME NEW e \in Said
               PROVE  /\ e.at \in Nat /\ e.id \in Seq(Nat) /\ Len(e.id) = 5
                      /\ \A i \in 1..5 : e.id[i] \in Nat
                      /\ e.id[3] \in Files /\ e.id[5] = e.point
                      /\ \E i \in DOMAIN pack[e.id[3]] : e.id[4] = pack[e.id[3]][i].record
    OBVIOUS
  <1>1. e.at \in Nat /\ e.id \in Seq(Nat)
    BY SaidStored DEF Events
  <1>2. PICK f \in Files : \E i \in DOMAIN pack[f] : \E p \in Parts(pack[f][i]) : Stems(e, f, i, p)
    BY DEF FromRows
  <1>3. PICK i \in DOMAIN pack[f] : \E p \in Parts(pack[f][i]) : Stems(e, f, i, p)
    BY <1>2
  <1>4. /\ Len(e.id) = 5 /\ e.id[Len(e.id) - 2] = f
        /\ e.id[Len(e.id) - 1] = pack[f][i].record /\ e.id[Len(e.id)] = e.point
    BY <1>3 DEF Stems
  <1>5. e.id[3] = f /\ e.id[4] = pack[f][i].record /\ e.id[5] = e.point
    BY <1>4
  <1>6. \A j \in 1..5 : e.id[j] \in Nat
    BY <1>1, <1>4
  <1> QED BY <1>1, <1>4, <1>5, <1>6

LEMMA NewFrameLive ==
    ASSUME TypeOK, Schedule, mode = "live"
    PROVE  \A e \in Range(NewFrame) :
              /\ e.at = clock + 1 /\ e.id[1] = run /\ e.id[2] = cycle
              /\ \E k \in DOMAIN group : \E i \in 1..(next[group[k].file] - 1) :
                    /\ group[k].row = pack[group[k].file][i] /\ group[k].file \in Files
                    /\ i \in DOMAIN pack[group[k].file]
                    /\ e.id[3] = group[k].file /\ e.id[4] = group[k].row.record
  BY NewFrameOf DEF Delivers

LEMMA Live1Step ==
    ASSUME IInv, [Next]_vars, mode = "live"
    PROVE  Live1'
  <1> USE DEF IInv
  <1>1. run \in Nat /\ cycle \in Nat /\ clock \in Nat
    BY DEF TypeOK
  <1>2. /\ \A e \in Said :
              /\ e.at <= clock /\ e.id[1] <= run
              /\ e.id[1] = run => e.id[2] <= cycle
        /\ \A d, e \in Said : d.at = e.at => d.id[1] = e.id[1] /\ d.id[2] = e.id[2]
        /\ \A k, l \in DOMAIN stream : \A d \in Range(stream[k]), e \in Range(stream[l]) :
              (k = l => d.at = e.at) /\ (k < l => d.at < e.at)
        /\ \A h \in history, k \in DOMAIN stream : \A e \in Range(stream[k]) : h.at < e.at
    BY DEF Live1
  <1>3. \A e \in Said : e.at \in Nat /\ e.id[1] \in Nat /\ e.id[2] \in Nat
    BY LiveIds
  <1>4. /\ history \subseteq Said /\ \A k \in DOMAIN stream : Range(stream[k]) \subseteq Said
    BY SaidStored
  <1>5. ASSUME UNCHANGED <<stream, store>>, clock' \in Nat, clock' >= clock,
               run' \in Nat, cycle' \in Nat,
               (run' = run /\ cycle' >= cycle) \/ run' > run
        PROVE  Live1'
    <2>1. Said' = Said /\ history' = history
      BY <1>5, SaidSame DEF store
    <2>2. \A e \in Said : /\ e.at <= clock' /\ e.id[1] <= run'
                          /\ e.id[1] = run' => e.id[2] <= cycle'
      BY <1>1, <1>2, <1>3, <1>5
    <2> QED BY <1>2, <1>5, <2>1, <2>2 DEF Live1
  <1>6. ASSUME NEW f \in Files, Merge(f)
        PROVE  Live1'
    <2>1. UNCHANGED <<stream, store, clock, run, cycle>>
      BY <1>6 DEF Merge
    <2> QED BY <1>1, <1>5, <2>1
  <1>7. CASE Cycle
    <2>1. UNCHANGED <<stream, store, clock, run>> /\ cycle' = cycle + 1
      BY <1>7 DEF Cycle
    <2> QED BY <1>1, <1>5, <2>1
  <1>8. CASE Restart
    <2>1. UNCHANGED <<stream, store>> /\ clock' = clock + 1 /\ run' = run + 1 /\ cycle' = 0
      BY <1>8 DEF Restart
    <2> QED BY <1>1, <1>5, <2>1
  <1>9. CASE UNCHANGED vars
    <2>1. UNCHANGED <<stream, store, clock, run, cycle>>
      BY <1>9 DEF vars, source
    <2> QED BY <1>1, <1>5, <2>1
  <1>10. CASE Deliver
    <2>1. /\ Delivered /\ Said' = Said \cup Range(NewFrame)
          /\ stream' = Append(stream, NewFrame) /\ UNCHANGED store
      BY <1>10, DeliverStep
    <2>2. clock' = clock + 1 /\ run' = run /\ cycle' = cycle /\ history' = history
      BY <2>1 DEF Delivered, store
    <2>3. \A e \in Range(NewFrame) : e.at = clock + 1 /\ e.id[1] = run /\ e.id[2] = cycle
      BY NewFrameLive
    <2>4. stream \in Seq(Seq(Events)) /\ NewFrame \in Seq(Events)
      BY NewFrameOf DEF TypeOK
    <2> DEFINE n == Len(stream)
    <2>5. /\ n \in Nat /\ DOMAIN stream = 1..n /\ DOMAIN stream' = 1..(n + 1)
          /\ \A k \in 1..n : stream'[k] = stream[k]
          /\ stream'[n + 1] = NewFrame
      BY <2>1, <2>4
    <2> HIDE DEF n
    <2>6. \A k \in DOMAIN stream' : k \in DOMAIN stream \/ k = n + 1
      BY <2>5
    <2>7. \A e \in Said' : /\ e.at <= clock' /\ e.id[1] <= run'
                           /\ e.id[1] = run' => e.id[2] <= cycle'
      BY <1>1, <1>2, <1>3, <2>1, <2>2, <2>3
    <2>8. \A d, e \in Said' : d.at = e.at => d.id[1] = e.id[1] /\ d.id[2] = e.id[2]
      <3>1. \A d \in Said : d.at # clock + 1
        BY <1>1, <1>2, <1>3
      <3> QED BY <1>2, <2>1, <2>3, <3>1
    <2>9. ASSUME NEW k \in DOMAIN stream', NEW l \in DOMAIN stream',
                 NEW d \in Range(stream'[k]), NEW e \in Range(stream'[l])
          PROVE  (k = l => d.at = e.at) /\ (k < l => d.at < e.at)
      <3>1. CASE k \in DOMAIN stream /\ l \in DOMAIN stream
        <4>1. stream'[k] = stream[k] /\ stream'[l] = stream[l]
          BY <2>5, <3>1
        <4> QED BY <1>2, <3>1, <4>1
      <3>2. CASE k \in DOMAIN stream /\ l = n + 1
        <4>1. d \in Said /\ e \in Range(NewFrame) /\ k # l
          BY <1>4, <2>5, <3>2
        <4>2. d.at <= clock /\ d.at \in Nat /\ e.at = clock + 1
          BY <1>2, <1>3, <2>3, <4>1
        <4> QED BY <1>1, <4>1, <4>2
      <3>3. CASE k = n + 1
        <4>1. ~(k < l) /\ d \in Range(NewFrame)
          BY <2>5, <3>3
        <4> QED BY <2>3, <2>5, <3>3, <4>1
      <3> QED BY <2>6, <3>1, <3>2, <3>3
    <2>10. ASSUME NEW h \in history', NEW k \in DOMAIN stream', NEW e \in Range(stream'[k])
           PROVE  h.at < e.at
      <3>1. CASE k \in DOMAIN stream
        BY <1>2, <2>2, <2>5, <2>10, <3>1
      <3>2. CASE k = n + 1
        <4>1. e.at = clock + 1 /\ h.at <= clock /\ h.at \in Nat
          BY <1>2, <1>3, <1>4, <2>2, <2>3, <2>5, <2>10, <3>2
        <4> QED BY <1>1, <4>1
      <3> QED BY <2>6, <3>1, <3>2
    <2> QED BY <2>7, <2>8, <2>9, <2>10 DEF Live1
  <1>11. CASE Work
    <2>1. /\ UNCHANGED source /\ stream' = Tail(stream) /\ stream # <<>> /\ Said' = Said
          /\ history' \subseteq history \cup Range(Head(stream))
      BY <1>11, WorkStep
    <2>2. stream \in Seq(Seq(Events)) /\ UNCHANGED <<run, cycle, clock>>
      BY <2>1 DEF TypeOK, source
    <2>3. /\ Head(stream) = stream[1] /\ 1 \in DOMAIN stream
          /\ \A k \in DOMAIN stream' : k + 1 \in DOMAIN stream /\ stream'[k] = stream[k + 1]
                                       /\ k \in Nat
      BY <2>1, <2>2, TakenFrame
    <2>4. \A k \in DOMAIN stream' : 1 < k + 1
      <3>1. DOMAIN stream' = 1..(Len(stream) - 1) /\ Len(stream) \in Nat
        BY <2>1, <2>2
      <3> QED BY <3>1
    <2>5. ASSUME NEW h \in history', NEW k \in DOMAIN stream', NEW e \in Range(stream'[k])
          PROVE  h.at < e.at
      <3>1. k + 1 \in DOMAIN stream /\ e \in Range(stream[k + 1]) /\ 1 < k + 1
        BY <2>3, <2>4, <2>5
      <3>2. CASE h \in history
        BY <1>2, <3>1, <3>2
      <3>3. CASE h \in Range(stream[1])
        BY <1>2, <2>3, <3>1, <3>3
      <3> QED BY <2>1, <2>3, <2>5, <3>2, <3>3
    <2>6. ASSUME NEW k \in DOMAIN stream', NEW l \in DOMAIN stream',
                 NEW d \in Range(stream'[k]), NEW e \in Range(stream'[l])
          PROVE  (k = l => d.at = e.at) /\ (k < l => d.at < e.at)
      <3>1. /\ k + 1 \in DOMAIN stream /\ l + 1 \in DOMAIN stream
            /\ d \in Range(stream[k + 1]) /\ e \in Range(stream[l + 1]) /\ k \in Nat /\ l \in Nat
        BY <2>3, <2>6
      <3>2. (k + 1 = l + 1 => d.at = e.at) /\ (k + 1 < l + 1 => d.at < e.at)
        BY <1>2, <3>1
      <3> QED BY <3>1, <3>2
    <2> QED BY <1>2, <2>1, <2>2, <2>5, <2>6 DEF Live1
  <1> QED BY <1>6, <1>7, <1>8, <1>9, <1>10, <1>11 DEF Next, Deliver

LEMMA NumberedStep ==
    ASSUME IInv, [Next]_vars, mode = "live", WellNumbered
    PROVE  Numbered'
  <1> USE DEF IInv
  <1>1. /\ \A e \in Said : e.id[1] = run /\ e.id[2] = cycle =>
              /\ \A i \in next[e.id[3]]..Len(pack[e.id[3]]) :
                    pack[e.id[3]][i].record # e.id[4]
              /\ \A k \in DOMAIN group : group[k].file = e.id[3] => group[k].row.record # e.id[4]
        /\ \A d, e \in Said : d.id = e.id => d.at = e.at
    BY DEF Numbered
  <1>2. /\ \A e \in Said : e.id[3] \in Files /\ e.id[1] \in Nat /\ e.id[2] \in Nat
        /\ \A e \in Said : e.id[1] <= run /\ (e.id[1] = run => e.id[2] <= cycle)
        /\ run \in Nat /\ cycle \in Nat
    BY LiveIds DEF Live1, TypeOK
  <1>3. \A f \in Files : /\ Len(pack[f]) \in Nat /\ DOMAIN pack[f] = 1..Len(pack[f])
                         /\ next[f] \in 1..(Len(pack[f]) + 1)
    BY RowsOfPack DEF TypeOK
  <1>4. ASSUME NEW f \in Files, Merge(f)
        PROVE  Numbered'
    <2>1. f \in Pending
      BY <1>4 DEF Merge, First
    <2>2. /\ UNCHANGED <<command, run, cycle, stream, store>>
          /\ group' = Append(group, [file |-> f, row |-> Head1(f)])
          /\ next' = [next EXCEPT ![f] = @ + 1]
      BY <1>4 DEF Merge
    <2>3. Said' = Said /\ pack' = pack
      BY <2>2, SaidSame DEF command
    <2> DEFINE x == [file |-> f, row |-> Head1(f)]
               T == [file : Files, row : Rows(pack)]
    <2>4. x.file = f /\ x.row = pack[f][next[f]] /\ x \in T /\ group \in Seq(T)
          /\ next[f] \in next[f]..Len(pack[f])
      BY <1>3, <2>1, HeadRow DEF TypeOK
    <2> HIDE DEF x, T
    <2>5. \A k \in DOMAIN group' : (k \in DOMAIN group /\ group'[k] = group[k]) \/ group'[k] = x
      BY <2>2, <2>4 DEF x
    <2>6. \A g \in Files : next'[g] = IF g = f THEN next[g] + 1 ELSE next[g]
      BY <2>2 DEF TypeOK
    <2>7. \A g \in Files : next'[g]..Len(pack[g]) \subseteq next[g]..Len(pack[g])
      BY <1>3, <2>6
    <2>8. ASSUME NEW e \in Said, e.id[1] = run, e.id[2] = cycle
          PROVE  /\ \A i \in next'[e.id[3]]..Len(pack[e.id[3]]) :
                       pack[e.id[3]][i].record # e.id[4]
                 /\ \A k \in DOMAIN group' :
                       group'[k].file = e.id[3] => group'[k].row.record # e.id[4]
      <3>1. \A i \in next'[e.id[3]]..Len(pack[e.id[3]]) : pack[e.id[3]][i].record # e.id[4]
        BY <1>1, <1>2, <2>7, <2>8
      <3>2. ASSUME NEW k \in DOMAIN group', group'[k].file = e.id[3]
            PROVE  group'[k].row.record # e.id[4]
        <4>1. CASE k \in DOMAIN group /\ group'[k] = group[k]
          BY <1>1, <2>8, <3>2, <4>1
        <4>2. CASE group'[k] = x
          <5>1. e.id[3] = f /\ group'[k].row = pack[f][next[f]]
            BY <2>4, <3>2, <4>2
          <5> QED BY <1>1, <2>4, <2>8, <5>1
        <4> QED BY <2>5, <4>1, <4>2
      <3> QED BY <3>1, <3>2
    <2> QED BY <1>1, <2>2, <2>3, <2>8 DEF Numbered
  <1>5. ASSUME Cycle \/ Restart
        PROVE  Numbered'
    <2>1. Said' = Said
      BY <1>5, SaidSame DEF Cycle, Restart
    <2>2. (run' = run /\ cycle' = cycle + 1) \/ run' = run + 1
      BY <1>5 DEF Cycle, Restart
    <2>3. \A e \in Said : ~(e.id[1] = run' /\ e.id[2] = cycle')
      BY <1>2, <2>2
    <2> QED BY <1>1, <2>1, <2>3 DEF Numbered
  <1>6. ASSUME Work \/ UNCHANGED vars
        PROVE  Numbered'
    <2>1. UNCHANGED <<command, source>> /\ Said' = Said
      BY <1>6, WorkStep, SaidSame DEF vars
    <2> QED BY <1>1, <2>1 DEF Numbered, command, source
  <1>7. CASE Deliver
    <2>1. Complete /\ Said' = Said \cup Range(NewFrame)
          /\ UNCHANGED <<command, run, cycle, next>> /\ group' = <<>>
      BY <1>7, DeliverStep DEF Delivered
    <2>2. pack' = pack /\ DOMAIN group' = {}
      BY <2>1 DEF command
    <2>3. ASSUME NEW e \in Range(NewFrame), NEW i \in next[e.id[3]]..Len(pack[e.id[3]]),
                 pack[e.id[3]][i].record = e.id[4]
          PROVE  FALSE
      <3>1. PICK k \in DOMAIN group : \E j \in 1..(next[group[k].file] - 1) :
                /\ group[k].row = pack[group[k].file][j] /\ group[k].file \in Files
                /\ j \in DOMAIN pack[group[k].file]
                /\ e.id[3] = group[k].file /\ e.id[4] = group[k].row.record
        BY NewFrameLive
      <3> DEFINE f == group[k].file
      <3>2. PICK j \in 1..(next[f] - 1) :
                /\ group[k].row = pack[f][j] /\ f \in Files
                /\ j \in DOMAIN pack[f]
                /\ e.id[3] = f /\ e.id[4] = group[k].row.record
        BY <3>1
      <3> HIDE DEF f
      <3>3. /\ i \in next[f]..Len(pack[f]) /\ pack[f][i].record = pack[f][j].record
            /\ i \in DOMAIN pack[f] /\ next[f] \in j..i /\ next[f] <= Len(pack[f])
        BY <1>3, <2>3, <3>2
      <3>4. pack[f][next[f]] = pack[f][j]
        BY <3>2, <3>3 DEF WellNumbered
      <3>5. f \in Pending
        BY <3>2, <3>3 DEF Pending
      <3>6. pack[f][j].observed <= high[f] /\ high[f] <= due /\ high[f] \in Nat /\ due \in Nat
        BY <3>2 DEF Schedule, TypeOK
      <3>7. /\ Delivery(f) = high[f] \/ Delivery(f) = pack[f][j].observed
            /\ Delivery(f) \in Nat
        BY <3>4, <3>5, HeadRow
      <3>8. due < Delivery(f)
        BY <2>1, <3>5, CompleteIsOver
      <3> QED BY <3>6, <3>7, <3>8
    <2>4. \A d \in Said, e \in Range(NewFrame) : d.id # e.id
      <3> SUFFICES ASSUME NEW d \in Said, NEW e \in Range(NewFrame), d.id = e.id PROVE FALSE
        OBVIOUS
      <3>1. e.id[1] = run /\ e.id[2] = cycle /\
            \E k \in DOMAIN group :
                e.id[3] = group[k].file /\ e.id[4] = group[k].row.record
        BY NewFrameLive
      <3>2. d.id[1] = run /\ d.id[2] = cycle /\
            \E k \in DOMAIN group :
                d.id[3] = group[k].file /\ d.id[4] = group[k].row.record
        BY <3>1
      <3> QED BY <1>1, <3>2
    <2>5. \A d, e \in Said' : d.id = e.id => d.at = e.at
      <3>1. \A e \in Range(NewFrame) : e.at = clock + 1
        BY NewFrameLive
      <3> QED BY <1>1, <2>1, <2>4, <3>1
    <2>6. \A e \in Said' : e.id[1] = run /\ e.id[2] = cycle =>
              \A i \in next[e.id[3]]..Len(pack[e.id[3]]) : pack[e.id[3]][i].record # e.id[4]
      BY <1>1, <2>1, <2>3
    <2> QED BY <2>1, <2>2, <2>5, <2>6 DEF Numbered
  <1> QED BY <1>4, <1>5, <1>6, <1>7 DEF Next, Deliver

-------------------------------------------------------------------------------
(* The theorems. *)

\* The source starts with nothing read and nothing said.
LEMMA InitInv == Init => IInv
  <1> SUFFICES ASSUME Init PROVE IInv
    OBVIOUS
  <1>1. pack \in Packs /\ \A f \in Files : Len(pack[f]) \in Nat
    BY RowsOfPack DEF Init
  <1>2. stream = <<>> /\ DOMAIN stream = {} /\ DOMAIN group = {}
    BY DEF Init
  <1>3. Store = [history |-> {}, current |-> [p \in Points |-> None], notes |-> {}]
    BY DEF Init, Store
  <1>4. Said = {}
    BY <1>2, <1>3 DEF Said, Seen
  <1>5. TypeOK
    <2>1. Store \in Stores(Events)
      BY <1>3 DEF Stores
    <2>2. group \in Seq([file : Files, row : Rows(pack)]) /\ stream \in Seq(Seq(Events))
      BY DEF Init
    <2>3. /\ next \in [Files -> Nat] /\ high \in [Files -> Nat]
          /\ \A f \in Files : next[f] \in 1..(Len(pack[f]) + 1)
      BY <1>1 DEF Init
    <2>4. steps \in Nat
      BY LimitsAssumption DEF Init
    <2> QED BY <2>1, <2>2, <2>3, <2>4 DEF Init, TypeOK
  <1>6. \A f \in Files : next[f] = 1 /\ high[f] = 0 /\ \A j \in 1..(next[f] - 1) : FALSE
    BY DEF Init
  <1>7. Schedule
    <2>1. \A f \in Pending : Delivery(f) \in Nat \ {0}
      <3>1. \A f \in Pending : Delivery(f) \in Nat /\ Delivery(f) >= Head1(f).observed
                               /\ Head1(f).observed \in Nat \ {0}
        BY <1>5, HeadRow
      <3> QED BY <3>1
    <2>2. group = <<>> /\ due = 0 /\ previous = 0
      BY DEF Init
    <2> QED BY <1>2, <1>6, <2>1, <2>2 DEF Schedule
  <1>8. Kept(Store)
    BY <1>3 DEF Kept
  <1>9. FromRows(Said) /\ Covered
    BY <1>4, <1>6 DEF FromRows, Covered
  <1>10. Live1 /\ Numbered
    <2>1. history = {}
      BY DEF Init
    <2> QED BY <1>2, <1>4, <2>1 DEF Live1, Numbered
  <1> QED BY <1>5, <1>7, <1>8, <1>9, <1>10 DEF IInv

LEMMA StepInv == IInv /\ [Next]_vars => IInv'
  <1> SUFFICES ASSUME IInv, [Next]_vars PROVE IInv'
    OBVIOUS
  <1>1. TypeOK'
    BY TypeStep
  <1>2. Schedule'
    BY <1>1, ScheduleStep
  <1>3. FromRows(Said)' /\ Kept(Store)' /\ Covered'
    BY KeptStep, CoveredStep
  <1>4. mode' = mode /\ pack' = pack
    <2>1. \A f \in Files : Merge(f) => UNCHANGED command
      BY DEF Merge
    <2>2. Work \/ Cycle \/ Restart \/ UNCHANGED vars => UNCHANGED command
      BY DEF Work, Cycle, Restart, vars
    <2>3. Deliver => UNCHANGED command
      BY DEF Deliver, Replay, Live, Demo, Delivered
    <2> QED BY <2>1, <2>2, <2>3 DEF Next, Deliver, command
  <1>5. mode' = "live" => Live1'
    BY <1>4, Live1Step
  <1>6. mode' = "live" /\ WellNumbered' => Numbered'
    <2>1. WellNumbered' => WellNumbered
      BY <1>4 DEF WellNumbered, Files
    <2> QED BY <1>4, <2>1, NumberedStep
  <1> QED BY <1>1, <1>2, <1>3, <1>5, <1>6 DEF IInv

\* The inductive invariant (starter_pack.py:86-178, ingestion.py:15-128,
\* simulation/live.py:15-88).
THEOREM Invariant == Spec => []IInv
  BY InitInv, StepInv, PTL DEF Spec

\* Frames come in order, each time once, and whatever was delivered and
\* ingested can be seen (starter_pack.py:98-111, :114-178).
THEOREM Faithful == Spec => []DeliveryFaithful
  <1>1. IInv => FramesInOrder
    <2> SUFFICES ASSUME IInv, group # <<>>
                 PROVE  previous < due /\ \A k \in DOMAIN group : group[k].row.observed <= due
      BY DEF FramesInOrder
    <2>1. previous < due
      BY DEF IInv, Schedule
    <2>2. ASSUME NEW k \in DOMAIN group
          PROVE  group[k].row.observed <= due
      <3> DEFINE T == [file : Files, row : Rows(pack)]
      <3>1. group \in Seq(T) /\ \A t \in T : t.file \in Files /\ t.row \in Rows(pack)
        BY DEF IInv, TypeOK
      <3> HIDE DEF T
      <3>2. group[k].file \in Files /\ group[k].row \in Rows(pack)
        BY <3>1
      <3>3. PICK j \in 1..(next[group[k].file] - 1) : group[k].row = pack[group[k].file][j]
        BY DEF IInv, Schedule
      <3>4. group[k].row.observed <= high[group[k].file] /\ high[group[k].file] <= due
        BY <3>2, <3>3 DEF IInv, Schedule
      <3>5. group[k].row.observed \in Nat
        BY <3>2, RowsOfPack DEF IInv, TypeOK
      <3>6. high[group[k].file] \in Nat /\ due \in Nat
        BY <3>2 DEF IInv, TypeOK
      <3> QED BY <3>4, <3>5, <3>6
    <2> QED BY <2>1, <2>2
  <1>2. IInv => EverythingVisible
    <2> SUFFICES ASSUME IInv, group = <<>>, stream = <<>>,
                        NEW f \in Files, NEW i \in 1..(next[f] - 1), Selected(pack[f][i]),
                        NEW p \in Parts(pack[f][i])
                 PROVE  Shown(f, pack[f][i], p)
      BY DEF EverythingVisible, Parts
    <2>1. DOMAIN group = {} /\ DOMAIN stream = {}
      OBVIOUS
    <2>2. Said = history \cup {n[2] : n \in notes}
      BY <2>1 DEF Said, Seen, Store
    <2>3. \E e \in Said : e.id = Identity(f, pack[f][i], p) /\ e.observed = pack[f][i].observed
      BY <2>1 DEF IInv, Covered, Collected
    <2> QED BY <2>2, <2>3 DEF Shown
  <1> QED BY <1>1, <1>2, Invariant, PTL DEF DeliveryFaithful

\* What is delivered again is a duplicate, never a conflict with itself
\* (ingestion.py:36-60; simulation/live.py:17, :26).
THEOREM Repeats == Spec => []RepeatIsDuplicate
  <1>1. IInv => RepeatIsDuplicate
    <2> SUFFICES ASSUME IInv, NEW n \in notes, NEW h \in history,
                        n[1] = "rejected", n[2].point = h.point, n[2].at = h.at,
                        n[2].id[Len(n[2].id) - 1] = h.id[Len(h.id) - 1],
                        n[2].observed = h.observed, n[2].raw = h.raw
                 PROVE  FALSE
      BY DEF RepeatIsDuplicate
    <2> DEFINE e == n[2]
    <2>1. e \in Said /\ h \in Said
      BY DEF Said, Seen, Store
    <2>2. e \in Events /\ h \in Events
      BY <2>1, SaidStored DEF IInv
    <2>3. PICK f \in Files : \E i \in DOMAIN pack[f] : \E p \in Parts(pack[f][i]) :
              Stems(e, f, i, p)
      BY <2>1 DEF IInv, FromRows
    <2>4. PICK i \in DOMAIN pack[f] : \E p \in Parts(pack[f][i]) : Stems(e, f, i, p)
      BY <2>3
    <2>5. PICK p \in Parts(pack[f][i]) : Stems(e, f, i, p)
      BY <2>4
    <2>6. PICK g \in Files : \E j \in DOMAIN pack[g] : \E q \in Parts(pack[g][j]) :
              Stems(h, g, j, q)
      BY <2>1 DEF IInv, FromRows
    <2>7. PICK j \in DOMAIN pack[g] : \E q \in Parts(pack[g][j]) : Stems(h, g, j, q)
      BY <2>6
    <2>8. PICK q \in Parts(pack[g][j]) : Stems(h, g, j, q)
      BY <2>7
    <2> HIDE DEF e
    <2>9. ~h.error /\ Kept(Store) /\ pack \in Packs
      BY DEF IInv, Kept, Store, TypeOK
    <2>10. pack[g][j].equipment \in DOMAIN PointsOf /\ q \in PointsOf[pack[g][j].equipment]
           /\ pack[g][j].raw[q] # "invalid" /\ q # 0 /\ h.raw = pack[g][j].raw[q]
      BY <2>8, <2>9, PointsAssumption DEF Stems, Failed, Parts
    <2>11. p = q
      BY <2>5, <2>8 DEF Stems, e
    <2>12. pack[f][i].equipment \in DOMAIN PointsOf /\ p \in PointsOf[pack[f][i].equipment]
      BY <2>5, <2>10, <2>11 DEF Parts
    <2>13. e.raw = pack[f][i].raw[p] /\ ~e.error
      <3>1. e.raw = pack[f][i].raw[p]
        BY <2>5, <2>10, <2>11 DEF Stems
      <3>2. e.raw # "invalid"
        BY <2>10 DEF e
      <3> QED BY <2>5, <2>12, <3>1, <3>2 DEF Stems, Failed
    <2>14. f = g
      <3>1. pack[f][i].equipment = pack[g][j].equipment
        BY <2>10, <2>11, <2>12, PointsAssumption
      <3>2. pack[f][i] \in Range(pack[f]) /\ pack[g][j] \in Range(pack[g])
        BY DEF Range
      <3> QED BY <2>9, <2>12, <3>1, <3>2, FilesAssumption DEF Files
    <2>15. e.id = h.id
      <3>1. /\ Len(e.id) = Len(h.id) /\ Len(e.id) = IF mode = "live" THEN 5 ELSE 3
            /\ e.id[Len(e.id)] = h.id[Len(e.id)]
            /\ e.id[Len(e.id) - 1] = h.id[Len(e.id) - 1]
            /\ e.id[Len(e.id) - 2] = h.id[Len(e.id) - 2]
            /\ e.id \in Seq(Nat) /\ h.id \in Seq(Nat)
        BY <2>2, <2>5, <2>8, <2>11, <2>14 DEF Stems, Events, e
      <3>2. mode = "live" => e.id[1] = h.id[1] /\ e.id[2] = h.id[2]
        BY <2>1 DEF IInv, Live1, e
      <3>3. \A k \in 1..Len(e.id) : e.id[k] = h.id[k]
        <4>1. CASE mode = "live"
          <5>1. Len(e.id) = 5 /\ Len(h.id) = 5
            BY <3>1, <4>1
          <5>2. e.id[5] = h.id[5] /\ e.id[5 - 1] = h.id[5 - 1] /\ e.id[5 - 2] = h.id[5 - 2]
            BY <3>1, <5>1
          <5>3. /\ e.id[1] = h.id[1] /\ e.id[2] = h.id[2] /\ e.id[3] = h.id[3]
                /\ e.id[4] = h.id[4] /\ e.id[5] = h.id[5]
            <6>1. 5 - 1 = 4 /\ 5 - 2 = 3
              OBVIOUS
            <6> QED BY <3>2, <4>1, <5>2, <6>1
          <5>4. \A k \in 1..5 : k = 1 \/ k = 2 \/ k = 3 \/ k = 4 \/ k = 5
            OBVIOUS
          <5> QED BY <5>1, <5>3, <5>4
        <4>2. CASE mode # "live"
          <5>1. Len(e.id) = 3 /\ Len(h.id) = 3
            BY <3>1, <4>2
          <5>2. e.id[3] = h.id[3] /\ e.id[3 - 1] = h.id[3 - 1] /\ e.id[3 - 2] = h.id[3 - 2]
            BY <3>1, <5>1
          <5>3. e.id[1] = h.id[1] /\ e.id[2] = h.id[2] /\ e.id[3] = h.id[3]
            <6>1. 3 - 1 = 2 /\ 3 - 2 = 1
              OBVIOUS
            <6> QED BY <5>2, <6>1
          <5>4. \A k \in 1..3 : k = 1 \/ k = 2 \/ k = 3
            OBVIOUS
          <5> QED BY <5>1, <5>3, <5>4
        <4> QED BY <4>1, <4>2
      <3> QED BY <3>1, <3>3, SeqEqual
    <2>16. e = h
      <3>1. /\ e.id = h.id /\ e.point = h.point /\ e.at = h.at /\ e.observed = h.observed
            /\ e.error = h.error /\ e.raw = h.raw
        BY <2>2, <2>9, <2>13, <2>15 DEF e, Events
      <3> QED BY <2>2, <3>1 DEF Events
    <2>17. PICK x \in history : Clash(e, x)
      BY <2>9, <2>13 DEF Kept, Store, e
    <2> QED BY <2>9, <2>16, <2>17 DEF Kept, Store, Clash
  <1> QED BY <1>1, Invariant, PTL

\* The current value of a point is the latest of its history
\* (ingestion.py:76-128).
THEOREM Latest == Spec => []CurrentIsLatest
  <1>1. IInv => CurrentIsLatest
    BY DEF IInv, Kept, Store, CurrentIsLatest
  <1> QED BY <1>1, Invariant, PTL

\* A live frame moves each point it measures (simulation/live.py:54-88).
THEOREM Moves == Spec => LiveMoves
  <1> DEFINE A == mode = "live" /\ WellNumbered /\ stream # <<>> /\ stream' = Tail(stream) =>
                    \A i \in DOMAIN Head(stream) :
                        ~Head(stream)[i].error =>
                            current'[Head(stream)[i].point].at = Head(stream)[i].at
  <1>1. IInv /\ [Next]_vars => A
    <2> SUFFICES ASSUME IInv, [Next]_vars, mode = "live", WellNumbered,
                        stream # <<>>, stream' = Tail(stream),
                        NEW i \in DOMAIN Head(stream), ~Head(stream)[i].error
                 PROVE  current'[Head(stream)[i].point].at = Head(stream)[i].at
      OBVIOUS
    <2> USE DEF IInv
    <2>1. stream \in Seq(Seq(Events))
      BY DEF TypeOK
    <2>2. Work
      <3>1. Len(stream') = Len(stream) - 1 /\ Len(stream) \in Nat \ {0}
        BY <2>1
      <3>2. stream' # stream /\ Len(stream') # Len(stream) + 1
        <4> DEFINE n == Len(stream)
                   m == Len(stream')
        <4>1. m = n - 1 /\ n \in Nat
          BY <3>1
        <4> HIDE DEF n, m
        <4>2. m # n /\ m # n + 1
          BY <4>1
        <4>3. n = Len(stream) /\ m = Len(stream')
          BY DEF n, m
        <4>4. stream' = stream => m = n
          BY <4>3
        <4> QED BY <4>2, <4>3, <4>4
      <3>3. ~Deliver
        <4> SUFFICES ASSUME Deliver PROVE FALSE
          OBVIOUS
        <4>1. stream' = Append(stream, NewFrame)
          BY DeliverStep
        <4>2. Len(stream') = Len(stream) + 1
          BY <2>1, <4>1
        <4> QED BY <3>2, <4>2
      <3>4. \A f \in Files : ~Merge(f)
        BY <3>2 DEF Merge
      <3>5. ~Cycle /\ ~Restart /\ ~UNCHANGED vars
        BY <3>2 DEF Cycle, Restart, vars
      <3> QED BY <3>3, <3>4, <3>5 DEF Next, Deliver
    <2> DEFINE frame == Head(stream)
               seq == Ordered(frame)
               t == frame[i].at
    <2>3. /\ seq \in Seq(Said) /\ Range(seq) = Range(frame) /\ Ingest(seq)
      BY <2>2, WorkStep
    <2>4. frame = stream[1] /\ 1 \in DOMAIN stream /\ frame \in Seq(Events)
      BY <2>1, TakenFrame
    <2>5. /\ Said \in SUBSET Events /\ Store \in Stores(Said)
          /\ \A e \in Said : ~e.error => e.point \in Points
          /\ Range(frame) \subseteq Said
      BY <2>4, SaidStored
    <2> HIDE DEF seq, frame
    <2>6. frame[i] \in Range(frame) /\ frame[i] \in Said
      BY <2>5 DEF Range, frame
    <2>7. /\ \A d, e \in Range(frame) : d.at = e.at
          /\ \A h \in history, e \in Range(frame) : h.at < e.at
      BY <2>4 DEF Live1
    <2>8. \A k \in 1..Len(seq) : seq[k] \in Range(frame)
      <3>1. DOMAIN seq = 1..Len(seq)
        BY <2>3
      <3> QED BY <2>3, <3>1 DEF Range
    <2>9. t \in Nat /\ \A k \in 1..Len(seq) : seq[k].at = t
      <3>1. t \in Nat
        BY <2>5, <2>6 DEF Events
      <3> QED BY <2>6, <2>7, <2>8, <3>1
    <2>10. \A h \in Store.history : h.at < t
      BY <2>6, <2>7 DEF Store
    <2>11. \A h \in Said, k \in 1..Len(seq) :
               h.id = seq[k].id => h.at = seq[k].at /\ h.point = seq[k].point
      <3>1. \A d, e \in Said : d.id = e.id => d.at = e.at
        BY DEF Numbered
      <3>2. \A d, e \in Said : d.id = e.id => d.point = e.point
        BY LiveIds
      <3> QED BY <2>5, <2>8, <3>1, <3>2
    <2> HIDE DEF t
    <2>12. \A k \in 1..Len(seq) :
               ~seq[k].error => IngestedFrame(Store, seq).current[seq[k].point].at = t
      BY <2>3, <2>5, <2>9, <2>10, <2>11, FrameMoves
    <2>13. \E k \in 1..Len(seq) : seq[k] = frame[i]
      <3>1. DOMAIN seq = 1..Len(seq)
        BY <2>3
      <3> QED BY <2>3, <2>6, <3>1 DEF Range
    <2>14. current' = IngestedFrame(Store, seq).current
      BY <2>3 DEF Ingest, Store
    <2> QED BY <2>12, <2>13, <2>14 DEF t, frame
  <1>2. IInv /\ [Next]_vars => [A]_vars
    BY <1>1
  <1> QED BY <1>2, Invariant, PTL DEF Spec, LiveMoves
==============================================================================
