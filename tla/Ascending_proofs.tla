--------------------------- MODULE Ascending_proofs ---------------------------
(***************************************************************************)
(* Facts about least, greatest and ascending elements of sets of numbers   *)
(* and about lists, which the proofs about the other modules cite.         *)
(* Induction goes through the least element of a set of counterexamples.   *)
(***************************************************************************)
EXTENDS Ascending, SequencesExt, FiniteSetTheorems, FunctionTheorems, SequenceTheorems,
        WellFoundedInduction, TLAPS

\* Every nonempty set of natural numbers has a least element: a search that finds
\* something finds a first place.
LEMMA LeastNatural ==
    ASSUME NEW T, T \subseteq Nat, T # {}
    PROVE  \E x \in T : \A y \in T : x <= y
<1>1. IsWellFoundedOn(OpToRel(<, Nat), Nat)
    BY NatLessThanWellFounded
<1>2. PICK x \in T : \A y \in T : ~(<<y, x>> \in OpToRel(<, Nat))
    BY <1>1, WFMin, Zenon
<1>3. \A y \in T : ~(y < x)
    BY <1>2, Zenon DEF OpToRel
<1>4. QED
    BY <1>3

\* A finite set of numbers can be listed from the lowest to the highest.
LEMMA AscendingExists ==
    \A S \in SUBSET Nat : IsFiniteSet(S) =>
        \E f \in [1..Cardinality(S) -> S] :
            \A i, j \in 1..Cardinality(S) : i < j => f[i] < f[j]
<1> DEFINE Listed(S) == \E f \in [1..Cardinality(S) -> S] :
                            \A i, j \in 1..Cardinality(S) : i < j => f[i] < f[j]
           Bad == {n \in Nat : \E S \in SUBSET Nat :
                        IsFiniteSet(S) /\ Cardinality(S) = n /\ ~Listed(S)}
<1> SUFFICES Bad = {}
    BY FS_CardinalityType
<1> SUFFICES ASSUME Bad # {} PROVE FALSE
    OBVIOUS
<1>1. PICK n \in Bad : \A m \in Bad : n <= m
    <2>1. Bad \subseteq Nat
        OBVIOUS
    <2> HIDE DEF Bad
    <2> QED
        BY <2>1, LeastNatural
<1>2. PICK S \in SUBSET Nat : IsFiniteSet(S) /\ Cardinality(S) = n /\ ~Listed(S)
    BY <1>1
<1>3. n \in Nat
    BY <1>1
<1>4. S # {}
    <2>1. ASSUME S = {} PROVE Listed(S)
        <3>1. Cardinality(S) = 0
            BY <2>1, FS_EmptySet
        <3>2. [i \in 1..0 |-> 0] \in [1..0 -> S]
            OBVIOUS
        <3>3. \A i, j \in 1..0 : i < j => [k \in 1..0 |-> 0][i] < [k \in 1..0 |-> 0][j]
            OBVIOUS
        <3>4. \E f \in [1..0 -> S] : \A i, j \in 1..0 : i < j => f[i] < f[j]
            BY <3>2, <3>3
        <3> QED
            BY <3>1, <3>4
    <2> QED
        BY <2>1, <1>2
<1>5. PICK x \in S : \A y \in S : x <= y
    BY <1>4, LeastNatural
<1> DEFINE R == S \ {x}
<1>6. IsFiniteSet(R) /\ Cardinality(R) = n - 1 /\ n > 0
    <2>1. IsFiniteSet(R) /\ Cardinality(R) = n - 1
        BY <1>2, <1>5, FS_RemoveElement
    <2>2. Cardinality(R) \in Nat
        BY <2>1, FS_CardinalityType
    <2> QED
        BY <2>1, <2>2, <1>3
<1>7. Listed(R)
    <2>1. n - 1 \notin Bad
        BY <1>1, <1>3
    <2>2. n - 1 \in Nat /\ R \in SUBSET Nat
        BY <1>3, <1>6
    <2> QED
        BY <2>1, <2>2, <1>6
<1>8. PICK f \in [1..(n - 1) -> R] : \A i, j \in 1..(n - 1) : i < j => f[i] < f[j]
    BY <1>7, <1>6
<1> DEFINE g == [i \in 1..n |-> IF i = 1 THEN x ELSE f[i - 1]]
<1>9. g \in [1..n -> S]
    <2>1. ASSUME NEW i \in 1..n PROVE g[i] \in S
        <3>1. CASE i = 1
            BY <3>1, <1>5
        <3>2. CASE i # 1
            <4>1. i - 1 \in 1..(n - 1)
                BY <3>2, <1>3
            <4> QED
                BY <4>1, <3>2, <1>8
        <3> QED
            BY <3>1, <3>2
    <2> QED
        BY <2>1
<1>10. ASSUME NEW i \in 1..n, NEW j \in 1..n, i < j PROVE g[i] < g[j]
    <2>1. j - 1 \in 1..(n - 1) /\ j # 1
        BY <1>10, <1>3
    <2>2. f[j - 1] \in R
        BY <2>1, <1>8
    <2>3. CASE i = 1
        <3>1. x < f[j - 1]
            <4>1. x <= f[j - 1] /\ x # f[j - 1] /\ x \in Nat /\ f[j - 1] \in Nat
                BY <2>2, <1>5
            <4> QED
                BY <4>1
        <3> QED
            BY <3>1, <2>3, <2>1
    <2>4. CASE i # 1
        <3>1. i - 1 \in 1..(n - 1) /\ i - 1 < j - 1
            BY <2>4, <1>10, <1>3
        <3>2. f[i - 1] < f[j - 1]
            BY <3>1, <2>1, <1>8
        <3> QED
            BY <3>2, <2>4, <2>1
    <2> QED
        BY <2>3, <2>4
<1>11. QED
    <2> HIDE DEF g
    <2> QED
        BY <1>9, <1>10, <1>2

\* Ascending lists every member of a finite set once, the lowest first.
LEMMA AscendingProperties ==
    ASSUME NEW S, S \subseteq Nat, IsFiniteSet(S)
    PROVE  /\ Cardinality(S) \in Nat
           /\ Ascending(S) \in [1..Cardinality(S) -> S]
           /\ \A i, j \in 1..Cardinality(S) : i < j => Ascending(S)[i] < Ascending(S)[j]
           /\ \A x \in S : \E i \in 1..Cardinality(S) : Ascending(S)[i] = x
<1> DEFINE n == Cardinality(S)
           f == Ascending(S)
<1>1. n \in Nat
    BY FS_CardinalityType
<1>2. /\ f \in [1..n -> S]
      /\ \A i, j \in 1..n : i < j => f[i] < f[j]
    <2>1. \E h \in [1..n -> S] : \A i, j \in DOMAIN h : i < j => h[i] < h[j]
        <3>1. PICK h \in [1..n -> S] : \A i, j \in 1..n : i < j => h[i] < h[j]
            BY AscendingExists
        <3> QED
            BY <3>1
    <2>2. f \in [1..n -> S] /\ \A i, j \in DOMAIN f : i < j => f[i] < f[j]
        BY <2>1, Zenon DEF Ascending
    <2> QED
        BY <2>2
<1> HIDE DEF f
<1>3. f \in Injection(1..n, S)
    <2>1. ASSUME NEW i \in 1..n, NEW j \in 1..n, f[i] = f[j] PROVE i = j
        <3>1. f[i] \in Nat
            BY <1>2
        <3>2. ~(i < j) /\ ~(j < i)
            BY <1>2, <2>1, <3>1
        <3> QED
            BY <3>2, <1>1
    <2> QED
        BY <2>1, <1>2 DEF Injection, IsInjective
<1>4. f \in Surjection(1..n, S)
    <2>1. IsFiniteSet(1..n) /\ Cardinality(1..n) = n
        BY <1>1, FS_Interval
    <2> QED
        BY <2>1, <1>3, FS_Injection
<1>5. QED
    BY <1>1, <1>2, <1>4 DEF Surjection, f

\* A finite nonempty set of numbers has a greatest element.
LEMMA GreatestNatural ==
    ASSUME NEW S, S \subseteq Nat, IsFiniteSet(S), S # {}
    PROVE  \E x \in S : \A y \in S : x >= y
<1> DEFINE n == Cardinality(S)
<1>1. /\ n \in Nat
      /\ Ascending(S) \in [1..n -> S]
      /\ \A i, j \in 1..n : i < j => Ascending(S)[i] < Ascending(S)[j]
      /\ \A x \in S : \E i \in 1..n : Ascending(S)[i] = x
    BY AscendingProperties
<1>2. n # 0
    BY FS_EmptySet
<1>3. n \in 1..n
    BY <1>1, <1>2
<1>4. ASSUME NEW y \in S PROVE Ascending(S)[n] >= y
    <2>1. PICK i \in 1..n : Ascending(S)[i] = y
        BY <1>1
    <2>2. i = n \/ i < n
        BY <2>1, <1>1
    <2>3. Ascending(S)[i] \in Nat /\ Ascending(S)[n] \in Nat
        BY <1>1, <1>3
    <2>4. i < n => Ascending(S)[i] < Ascending(S)[n]
        BY <1>1, <1>3
    <2> QED
        BY <2>1, <2>2, <2>3, <2>4
<1>5. QED
    BY <1>1, <1>3, <1>4

\* Min, by which searches are modelled, is the first place that was found.
LEMMA MinProperties ==
    ASSUME NEW S, S \subseteq Nat, S # {}
    PROVE  Min(S) \in S /\ \A y \in S : Min(S) <= y
<1>1. \E x \in S : \A y \in S : x <= y
    BY LeastNatural
<1> QED
    BY <1>1, Zenon DEF Min

\* Max of a finite set of numbers is one of them.
LEMMA MaxProperties ==
    ASSUME NEW S, S \subseteq Nat, IsFiniteSet(S), S # {}
    PROVE  Max(S) \in S
<1>1. \E x \in S : \A y \in S : x >= y
    BY GreatestNatural
<1> QED
    BY <1>1, Zenon DEF Max

\* Removing an entry of a list closes the gap: what was behind it moves down by one.
LEMMA RemoveAtProperties ==
    ASSUME NEW S, NEW s \in Seq(S), NEW i \in 1..Len(s)
    PROVE  /\ RemoveAt(s, i) \in Seq(S)
           /\ Len(RemoveAt(s, i)) = Len(s) - 1
           /\ \A j \in 1..(Len(s) - 1) :
                 RemoveAt(s, i)[j] = IF j < i THEN s[j] ELSE s[j + 1]
<1> DEFINE front == SubSeq(s, 1, i - 1)
           back == SubSeq(s, i + 1, Len(s))
<1>1. Len(s) \in Nat /\ \A j \in 1..Len(s) : s[j] \in S
    BY LenProperties, ElementOfSeq
<1>2. /\ front \in Seq(S)
      /\ Len(front) = i - 1
      /\ \A j \in 1..(i - 1) : front[j] = s[j]
    <2>1. 1 \in Int /\ i - 1 \in Int /\ \A j \in 1..(i - 1) : s[j] \in S
        BY <1>1
    <2>2. /\ front \in Seq(S)
          /\ Len(front) = IF 1 <= i - 1 THEN (i - 1) - 1 + 1 ELSE 0
          /\ \A j \in 1..((i - 1) - 1 + 1) : front[j] = s[1 + j - 1]
        BY <2>1, SubSeqProperties
    <2> HIDE DEF front
    <2> QED
        BY <2>2, <1>1
<1>3. /\ back \in Seq(S)
      /\ Len(back) = Len(s) - i
      /\ \A j \in 1..(Len(s) - i) : back[j] = s[i + j]
    <2>1. i + 1 \in Int /\ Len(s) \in Int /\ \A j \in (i + 1)..Len(s) : s[j] \in S
        BY <1>1
    <2>2. /\ back \in Seq(S)
          /\ Len(back) = IF i + 1 <= Len(s) THEN Len(s) - (i + 1) + 1 ELSE 0
          /\ \A j \in 1..(Len(s) - (i + 1) + 1) : back[j] = s[(i + 1) + j - 1]
        BY <2>1, SubSeqProperties
    <2> HIDE DEF back
    <2>3. ASSUME NEW j \in 1..(Len(s) - i) PROVE back[j] = s[i + j]
        <3>1. j \in 1..(Len(s) - (i + 1) + 1) /\ (i + 1) + j - 1 = i + j
            BY <1>1
        <3> QED
            BY <3>1, <2>2
    <2> QED
        BY <2>2, <2>3, <1>1
<1>4. RemoveAt(s, i) = front \o back
    BY DEF RemoveAt
<1> HIDE DEF front, back
<1>5. /\ front \o back \in Seq(S)
      /\ Len(front \o back) = Len(front) + Len(back)
      /\ \A j \in 1..(Len(front) + Len(back)) :
            (front \o back)[j] = IF j <= Len(front) THEN front[j] ELSE back[j - Len(front)]
    BY <1>2, <1>3, ConcatProperties
<1>6. ASSUME NEW j \in 1..(Len(s) - 1)
      PROVE  (front \o back)[j] = IF j < i THEN s[j] ELSE s[j + 1]
    <2>1. j \in 1..(Len(front) + Len(back))
        BY <1>1, <1>2, <1>3
    <2>2. CASE j < i
        BY <2>1, <2>2, <1>1, <1>2, <1>5
    <2>3. CASE ~(j < i)
        <3>1. j - (i - 1) \in 1..(Len(s) - i) /\ i + (j - (i - 1)) = j + 1 /\ ~(j <= i - 1)
            BY <2>3, <1>1
        <3>2. (front \o back)[j] = back[j - (i - 1)]
            BY <2>1, <3>1, <1>2, <1>5
        <3>3. back[j - (i - 1)] = s[j + 1]
            BY <3>1, <1>3
        <3> QED
            BY <3>2, <3>3, <2>3
    <2> QED
        BY <2>2, <2>3
<1> QED
    BY <1>1, <1>2, <1>3, <1>4, <1>5, <1>6

\* There is only one way to list a set of numbers from the lowest to the highest.
LEMMA AscendingUnique ==
    ASSUME NEW S, S \subseteq Nat, IsFiniteSet(S), NEW g \in [1..Cardinality(S) -> S],
           \A i, j \in 1..Cardinality(S) : i < j => g[i] < g[j]
    PROVE  Ascending(S) = g
<1> DEFINE n == Cardinality(S)
           f == Ascending(S)
           Increasing(h) == \A i, j \in 1..n : i < j => h[i] < h[j]
           Onto(h) == \A x \in S : \E i \in 1..n : h[i] = x
<1>1. n \in Nat /\ f \in [1..n -> S] /\ Increasing(f) /\ Onto(f)
    BY AscendingProperties
<1>2. Onto(g)
    <2>1. ASSUME NEW i \in 1..n, NEW j \in 1..n, g[i] = g[j] PROVE i = j
        <3>1. g[i] \in Nat
            OBVIOUS
        <3>2. ~(i < j) /\ ~(j < i)
            BY <2>1, <3>1
        <3> QED
            BY <3>2, <1>1
    <2>2. g \in Injection(1..n, S)
        BY <2>1 DEF Injection, IsInjective
    <2>3. IsFiniteSet(1..n) /\ Cardinality(1..n) = n
        BY <1>1, FS_Interval
    <2>4. g \in Surjection(1..n, S)
        BY <2>2, <2>3, FS_Injection
    <2> QED
        BY <2>4 DEF Surjection
<1> HIDE DEF f, n
<1>3. ASSUME NEW h1 \in [1..n -> S], NEW h2 \in [1..n -> S],
             Increasing(h1), Increasing(h2), Onto(h2),
             NEW k \in 1..n, \A j \in 1..n : j < k => h1[j] = h2[j]
      PROVE  ~(h1[k] < h2[k])
    <2>1. SUFFICES ASSUME h1[k] < h2[k] PROVE FALSE
        OBVIOUS
    <2>2. PICK j \in 1..n : h2[j] = h1[k]
        BY <1>3
    <2>3. h1[j] \in Nat /\ h1[k] \in Nat /\ h2[j] \in Nat /\ h2[k] \in Nat
        BY <1>3
    <2>4. j < k => h1[j] < h1[k] /\ h1[j] = h2[j]
        BY <1>3
    <2>5. j > k => h2[k] < h2[j]
        BY <1>3
    <2>6. j < k \/ j = k \/ j > k
        BY <1>1
    <2> QED
        BY <2>1, <2>2, <2>3, <2>4, <2>5, <2>6
<1>4. \A k \in 1..n : f[k] = g[k]
    <2> DEFINE Bad == {k \in 1..n : f[k] # g[k]}
    <2>1. SUFFICES ASSUME Bad # {} PROVE FALSE
        OBVIOUS
    <2>2. Bad \subseteq Nat
        OBVIOUS
    <2>3. PICK k \in Bad : \A j \in Bad : k <= j
        <3> HIDE DEF Bad
        <3> QED
            BY <2>1, <2>2, LeastNatural
    <2>4. k \in 1..n /\ \A j \in 1..n : j < k => f[j] = g[j]
        BY <2>3
    <2>5. g \in [1..n -> S] /\ Increasing(g)
        BY DEF n
    <2>6. ~(f[k] < g[k])
        BY <1>1, <1>2, <1>3, <2>4, <2>5
    <2>7. \A j \in 1..n : j < k => g[j] = f[j]
        BY <2>4
    <2>8. ~(g[k] < f[k])
        BY <1>1, <1>2, <1>3, <2>4, <2>5, <2>7
    <2>9. f[k] \in Nat /\ g[k] \in Nat
        BY <1>1, <2>4, <2>5
    <2> QED
        BY <2>3, <2>6, <2>8, <2>9
<1>5. g \in [1..n -> S]
    BY DEF n
<1>6. f = g
    <2>1. f = [k \in 1..n |-> f[k]] /\ g = [k \in 1..n |-> g[k]]
        BY <1>1, <1>5
    <2> QED
        BY <2>1, <1>4
<1> QED
    BY <1>6 DEF f

\* An interval is listed as it is.
LEMMA AscendingInterval ==
    ASSUME NEW n \in Nat
    PROVE  /\ Cardinality(1..n) = n
           /\ \A k \in 1..n : Ascending(1..n)[k] = k
<1> DEFINE id == [k \in 1..n |-> k]
<1>1. IsFiniteSet(1..n) /\ Cardinality(1..n) = n
    BY FS_Interval
<1>2. id \in [1..Cardinality(1..n) -> 1..n]
    BY <1>1
<1>3. \A i, j \in 1..Cardinality(1..n) : i < j => id[i] < id[j]
    BY <1>1
<1> HIDE DEF id
<1>4. Ascending(1..n) = id
    BY <1>1, <1>2, <1>3, AscendingUnique
<1> QED
    BY <1>1, <1>4 DEF id

\* The function move moves the members of S to those of T without letting one pass another.
MovesTo(S, T, move) ==
    /\ move \in [S -> T]
    /\ \A x, y \in S : x < y => move[x] < move[y]
    /\ \A y \in T : \E x \in S : move[x] = y

\* The list of S after the move.
Moved(S, move) == [k \in 1..Cardinality(S) |-> move[Ascending(S)[k]]]

\* When the members of a set move like this, the list moves with them.
LEMMA AscendingImage ==
    ASSUME NEW S, S \subseteq Nat, IsFiniteSet(S), NEW T, T \subseteq Nat,
           NEW move, MovesTo(S, T, move)
    PROVE  /\ IsFiniteSet(T) /\ Cardinality(T) = Cardinality(S)
           /\ Ascending(T) = Moved(S, move)
<1> DEFINE n == Cardinality(S)
           f == Ascending(S)
           g == [k \in 1..n |-> move[f[k]]]
<1>0. /\ move \in [S -> T]
      /\ \A x, y \in S : x < y => move[x] < move[y]
      /\ \A y \in T : \E x \in S : move[x] = y
    BY DEF MovesTo
<1>1. n \in Nat /\ f \in [1..n -> S] /\ \A i, j \in 1..n : i < j => f[i] < f[j]
    BY AscendingProperties
<1>2. IsFiniteSet(T) /\ Cardinality(T) = n
    <2>1. ASSUME NEW x \in S, NEW y \in S, move[x] = move[y] PROVE x = y
        <3>1. move[x] \in Nat /\ x \in Nat /\ y \in Nat
            BY <1>0
        <3>2. ~(x < y) /\ ~(y < x)
            BY <1>0, <2>1, <3>1
        <3> QED
            BY <3>1, <3>2
    <2>2. move \in Bijection(S, T)
        BY <1>0, <2>1 DEF Bijection, Injection, Surjection, IsInjective
    <2> QED
        BY <2>2, FS_Bijection DEF ExistsBijection
<1> HIDE DEF f, n
<1>3. g \in [1..n -> T]
    BY <1>0, <1>1
<1>4. ASSUME NEW i \in 1..n, NEW j \in 1..n, i < j PROVE g[i] < g[j]
    <2>1. f[i] \in S /\ f[j] \in S /\ f[i] < f[j]
        BY <1>1, <1>4
    <2> QED
        BY <1>0, <2>1
<1> HIDE DEF g
<1>5. Ascending(T) = g
    BY <1>2, <1>3, <1>4, AscendingUnique
<1> QED
    BY <1>2, <1>5 DEF g, f, n, Moved

===============================================================================
