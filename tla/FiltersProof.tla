---------------------------- MODULE FiltersProof ----------------------------
(***************************************************************************)
(* Induction over the natural numbers with a set in the place of a         *)
(* predicate, and what Filter returns for every sequence and every set.    *)
(***************************************************************************)
EXTENDS Filters, Functions, WellFoundedInduction, TLAPS

\* What a sequence over S is.
LEMMA Indexed ==
    ASSUME NEW S, NEW s \in Seq(S)
    PROVE  /\ Len(s) \in Nat /\ DOMAIN s = 1 .. Len(s) /\ s \in [1 .. Len(s) -> S]
           /\ \A i \in 1 .. Len(s) : s[i] \in S
OBVIOUS

\* A function on 1 .. n is a sequence.
LEMMA SeqOf ==
    ASSUME NEW S, NEW n \in Nat, NEW f \in [1 .. n -> S]
    PROVE  f \in Seq(S) /\ Len(f) = n
OBVIOUS

\* Sequences with the same elements are the same.
LEMMA SameSeq ==
    ASSUME NEW S, NEW s \in Seq(S), NEW t \in Seq(S), Len(s) = Len(t),
           \A i \in 1 .. Len(s) : s[i] = t[i]
    PROVE  s = t
OBVIOUS

\* The sequence without elements.
LEMMA NoElements ==
    ASSUME NEW S
    PROVE  /\ <<>> \in Seq(S) /\ Len(<<>>) = 0
           /\ \A s \in Seq(S) : s # <<>> => Len(s) \in Nat \ {0}
OBVIOUS

\* Append puts its element last.
LEMMA Lengthened ==
    ASSUME NEW S, NEW s \in Seq(S), NEW x \in S
    PROVE  /\ Append(s, x) \in Seq(S) /\ Append(s, x) # <<>>
           /\ Len(Append(s, x)) = Len(s) + 1
           /\ \A i \in 1 .. Len(s) : Append(s, x)[i] = s[i]
           /\ Append(s, x)[Len(s) + 1] = x
OBVIOUS

\* One sequence behind the other.
LEMMA Joined ==
    ASSUME NEW S, NEW s \in Seq(S), NEW t \in Seq(S)
    PROVE  /\ s \o t \in Seq(S) /\ Len(s \o t) = Len(s) + Len(t)
           /\ \A i \in 1 .. Len(s) : (s \o t)[i] = s[i]
           /\ \A i \in 1 .. Len(t) : (s \o t)[Len(s) + i] = t[i]
OBVIOUS

\* EXCEPT replaces one element.
LEMMA Replaced ==
    ASSUME NEW S, NEW s \in Seq(S), NEW i \in 1 .. Len(s), NEW x \in S
    PROVE  /\ [s EXCEPT ![i] = x] \in Seq(S) /\ Len([s EXCEPT ![i] = x]) = Len(s)
           /\ \A j \in 1 .. Len(s) : [s EXCEPT ![i] = x][j] = IF j = i THEN x ELSE s[j]
OBVIOUS

\* SubSeq takes the elements at m .. n.
LEMMA Parts ==
    ASSUME NEW S, NEW s, NEW m \in Int, NEW n \in Int, \A i \in m .. n : s[i] \in S
    PROVE  /\ SubSeq(s, m, n) \in Seq(S)
           /\ Len(SubSeq(s, m, n)) = IF m <= n THEN n - m + 1 ELSE 0
           /\ \A i \in 1 .. n - m + 1 : SubSeq(s, m, n)[i] = s[m + i - 1]
OBVIOUS

\* Every set of natural numbers has a least element.
LEMMA LeastOf ==
    ASSUME NEW T \in SUBSET Nat, T # {}
    PROVE  \E x \in T : \A y \in T : x <= y
<1>1. PICK x \in T : \A y \in T : ~(<<y, x>> \in OpToRel(<, Nat))
  BY WFMin, NatLessThanWellFounded
<1>2. \A y \in T : ~(y < x)
  BY <1>1 DEF OpToRel
<1>3. \A y \in T : x <= y
  BY <1>2
<1> QED BY <1>3

\* Induction: a set with 0 that has n + 1 with every n has every number.
LEMMA SetInduction ==
    ASSUME NEW T \in SUBSET Nat, 0 \in T, \A n \in T : n + 1 \in T
    PROVE  T = Nat
<1> SUFFICES ASSUME Nat \ T # {} PROVE FALSE
  OBVIOUS
<1>1. PICK x \in Nat \ T : \A y \in Nat \ T : x <= y
  BY LeastOf
<1>2. x - 1 \in Nat /\ x - 1 \in T
  BY <1>1
<1> QED BY <1>1, <1>2

\* n pieces of size s end where the next begins, or before.
LEMMA Multiples ==
    ASSUME NEW s \in Nat, NEW n \in Nat, NEW m \in Nat, n < m
    PROVE  n * s \in Nat /\ m * s \in Nat /\ n * s + s <= m * s
<1>1. PICK k \in Nat : m = n + 1 + k
  <2>1. m - n - 1 \in Nat /\ m = n + 1 + (m - n - 1)
    OBVIOUS
  <2> QED BY <2>1
<1>2. m * s = n * s + s + k * s
  BY <1>1
<1>3. k * s \in Nat /\ n * s \in Nat
  OBVIOUS
<1> QED BY <1>2, <1>3

\* The quotient and the rest of a division.
LEMMA Divided ==
    ASSUME NEW s \in Nat \ {0}, NEW a \in Nat
    PROVE  /\ a \div s \in Nat /\ (a \div s) * s \in Nat
           /\ (a \div s) * s <= a /\ a < (a \div s) * s + s
<1>1. a \div s \in Nat
  OBVIOUS
<1>2. s * (a \div s) <= a /\ a < s * (a \div s) + s
  OBVIOUS
<1>3. s * (a \div s) = (a \div s) * s
  BY <1>1
<1>4. (a \div s) * s \in Nat
  BY <1>1
<1> QED BY <1>1, <1>2, <1>3, <1>4

\* The number of the piece of size s that a place is in.
LEMMA Quotient ==
    ASSUME NEW s \in Nat \ {0}, NEW k \in Nat, NEW r \in 0 .. s - 1
    PROVE  k * s + r \in Nat /\ (k * s + r) \div s = k
<1> DEFINE a == k * s + r
           d == a \div s
<1>1. k * s \in Nat /\ a \in Nat
  OBVIOUS
<1>2. d \in Nat /\ d * s \in Nat /\ d * s <= a /\ a < d * s + s
  <2> HIDE DEF a
  <2> QED BY <1>1, Divided
<1> HIDE DEF d
<1>3. ~(d < k)
  <2> SUFFICES ASSUME d < k PROVE FALSE
    OBVIOUS
  <2>1. d * s + s <= k * s
    BY <1>2, Multiples
  <2> QED BY <1>1, <1>2, <2>1
<1>4. ~(k < d)
  <2> SUFFICES ASSUME k < d PROVE FALSE
    OBVIOUS
  <2>1. k * s + s <= d * s
    BY <1>2, Multiples
  <2> QED BY <1>1, <1>2, <2>1
<1>5. d = k
  BY <1>2, <1>3, <1>4
<1> QED BY <1>1, <1>5 DEF d

\* The rest of a division.
LEMMA Rest ==
    ASSUME NEW s \in Nat \ {0}, NEW a \in Nat
    PROVE  a = s * (a \div s) + (a % s) /\ a % s \in Nat
<1>1. a = s * (a \div s) + (a % s)
  OBVIOUS
<1>2. a % s \in Nat
  OBVIOUS
<1> QED BY <1>1, <1>2

\* How far it is from the beginning of its piece.
LEMMA Remainder ==
    ASSUME NEW s \in Nat \ {0}, NEW k \in Nat, NEW r \in 0 .. s - 1
    PROVE  (k * s + r) % s = r
<1> DEFINE a == k * s + r
<1>1. a \in Nat /\ a \div s = k /\ k * s \in Nat
  BY Quotient
<1>2. s * k = k * s
  OBVIOUS
<1> HIDE DEF a
<1>3. a = s * (a \div s) + (a % s) /\ a % s \in Nat
  BY <1>1, Rest
<1>4. a = s * k + (a % s)
  BY <1>1, <1>3, Zenon
<1> DEFINE b == k * s
<1> HIDE DEF b
<1>5. a = b + (a % s) /\ a = b + r /\ b \in Nat
  BY <1>1, <1>2, <1>4 DEF a, b
<1>6. a % s = r
  BY <1>3, <1>5
<1> QED BY <1>6 DEF a

\* g holds the values of a loop that takes z through n steps of F.
Iteration(g, n, S, z, F) ==
    g \in [0 .. n -> S] /\ g[0] = z /\ \A i \in 1 .. n : g[i] = F[i][g[i - 1]]

\* Every loop has its sequence of values.
LEMMA Iterates ==
    ASSUME NEW S, NEW z \in S, NEW F \in [Nat -> [S -> S]], NEW m \in Nat
    PROVE  \E g : Iteration(g, m, S, z, F)
<1> DEFINE Done == {n \in Nat : \E g : Iteration(g, n, S, z, F)}
<1>1. 0 \in Done
  <2> DEFINE g == [i \in 0 .. 0 |-> z]
  <2>1. Iteration(g, 0, S, z, F)
    BY DEF Iteration
  <2> HIDE DEF g
  <2> QED BY <2>1
<1>2. ASSUME NEW n \in Done PROVE n + 1 \in Done
  <2>1. PICK g : Iteration(g, n, S, z, F)
    OBVIOUS
  <2>2. n \in 0 .. n /\ g[n] \in S /\ F[n + 1][g[n]] \in S
    BY <2>1 DEF Iteration
  <2> DEFINE h == [i \in 0 .. n + 1 |-> IF i = n + 1 THEN F[n + 1][g[n]] ELSE g[i]]
  <2>3. h \in [0 .. n + 1 -> S] /\ h[0] = z
    BY <2>1, <2>2 DEF Iteration
  <2>4. ASSUME NEW i \in 1 .. n + 1 PROVE h[i] = F[i][h[i - 1]]
    <3>1. i - 1 \in 0 .. n /\ h[i - 1] = g[i - 1]
      OBVIOUS
    <3>2. CASE i = n + 1
      BY <3>1, <3>2
    <3>3. CASE i # n + 1
      BY <2>1, <3>1, <3>3 DEF Iteration
    <3> QED BY <3>2, <3>3
  <2> HIDE DEF h
  <2>5. Iteration(h, n + 1, S, z, F)
    BY <2>3, <2>4, Zenon DEF Iteration
  <2> QED BY <2>5
<1>3. Done \in SUBSET Nat
  OBVIOUS
<1>4. Done = Nat
  <2> HIDE DEF Done
  <2> QED BY <1>1, <1>2, <1>3, SetInduction
<1> QED BY <1>4

\* An iteration of the loop of Filter, after g.
FilterStep(s, T, g, i) ==
    IF i = 0 THEN <<>> ELSE IF s[i] \in T THEN Append(g[i - 1], s[i]) ELSE g[i - 1]

\* The recursion of Filter is well founded.
LEMMA FilterRecursion ==
    ASSUME NEW S, NEW s \in Seq(S), NEW T
    PROVE  FilterTo(s, T) = [i \in 0 .. Len(s) |-> FilterStep(s, T, FilterTo(s, T), i)]
<1> DEFINE Solved == {n \in Nat : \E g : g = [i \in 0 .. n |-> FilterStep(s, T, g, i)]}
<1>1. 0 \in Solved
  <2>1. [i \in 0 .. 0 |-> <<>>] = [i \in 0 .. 0 |-> FilterStep(s, T, [j \in 0 .. 0 |-> <<>>], i)]
    BY DEF FilterStep
  <2> QED BY <2>1
<1>2. ASSUME NEW n \in Solved PROVE n + 1 \in Solved
  <2>1. PICK g : g = [i \in 0 .. n |-> FilterStep(s, T, g, i)]
    OBVIOUS
  <2>0. \A j \in 0 .. n : g[j] = FilterStep(s, T, g, j)
    BY <2>1, Zenon
  <2> DEFINE h == [i \in 0 .. n + 1 |-> IF i = n + 1 THEN FilterStep(s, T, g, n + 1) ELSE g[i]]
  <2>2. ASSUME NEW i \in 0 .. n + 1 PROVE h[i] = FilterStep(s, T, h, i)
    <3>1. CASE i = 0
      BY <2>0, <3>1 DEF FilterStep
    <3>2. CASE i # 0
      <4>1. i - 1 \in 0 .. n /\ h[i - 1] = g[i - 1]
        BY <3>2
      <4>2. FilterStep(s, T, h, i) = FilterStep(s, T, g, i)
        BY <3>2, <4>1 DEF FilterStep
      <4>3. i # n + 1 => g[i] = FilterStep(s, T, g, i)
        BY <2>0
      <4> QED BY <4>2, <4>3
    <3> QED BY <3>1, <3>2
  <2>3. h = [i \in 0 .. n + 1 |-> FilterStep(s, T, h, i)]
    BY <2>2
  <2>4. \E f : f = [i \in 0 .. n + 1 |-> FilterStep(s, T, f, i)]
    <3> HIDE DEF h
    <3> QED BY <2>3
  <2> QED BY <2>4
<1>3. Solved = Nat
  <2> HIDE DEF Solved
  <2>1. Solved \in SUBSET Nat
    BY DEF Solved
  <2> QED BY <1>1, <1>2, <2>1, SetInduction
<1>4. \E g : g = [i \in 0 .. Len(s) |-> FilterStep(s, T, g, i)]
  BY <1>3
<1>5. FilterTo(s, T) = CHOOSE g : g = [i \in 0 .. Len(s) |-> FilterStep(s, T, g, i)]
  BY DEF FilterTo, FilterStep
<1> QED BY <1>4, <1>5

\* at lists the places of the first n elements of s that are in T, in their
\* order, and f holds what is at these places.
FilterAt(at, f, s, T, n) ==
    /\ at \in [1 .. Len(f) -> 1 .. n]
    /\ \A k \in 1 .. Len(f) : f[k] = s[at[k]] /\ s[at[k]] \in T
    /\ \A k, m \in 1 .. Len(f) : k < m => at[k] < at[m]
    /\ \A j \in 1 .. n : s[j] \in T => \E k \in 1 .. Len(f) : at[k] = j

\* An element that is in T goes to the end.
LEMMA FilterAppends ==
    ASSUME NEW S, NEW s \in Seq(S), NEW T, NEW n \in Nat, n + 1 \in 1 .. Len(s),
           NEW f \in Seq(S), NEW at, FilterAt(at, f, s, T, n), s[n + 1] \in T
    PROVE  \E to : FilterAt(to, Append(f, s[n + 1]), s, T, n + 1)
<1> DEFINE g == Append(f, s[n + 1])
           to == [k \in 1 .. Len(f) + 1 |-> IF k = Len(f) + 1 THEN n + 1 ELSE at[k]]
<1>1. /\ Len(f) \in Nat /\ Len(g) = Len(f) + 1 /\ s[n + 1] \in S
      /\ \A k \in 1 .. Len(f) : g[k] = f[k]
      /\ g[Len(f) + 1] = s[n + 1]
  BY Lengthened, Indexed
<1>2. /\ at \in [1 .. Len(f) -> 1 .. n]
      /\ \A k \in 1 .. Len(f) : at[k] \in 1 .. n /\ f[k] = s[at[k]] /\ s[at[k]] \in T
      /\ \A k, m \in 1 .. Len(f) : k < m => at[k] < at[m]
      /\ \A j \in 1 .. n : s[j] \in T => \E k \in 1 .. Len(f) : at[k] = j
  BY DEF FilterAt
<1> HIDE DEF g
<1>3. to \in [1 .. Len(g) -> 1 .. n + 1]
  BY <1>1, <1>2
<1>4. ASSUME NEW k \in 1 .. Len(g) PROVE g[k] = s[to[k]] /\ s[to[k]] \in T
  <2>1. CASE k = Len(f) + 1
    BY <1>1, <2>1
  <2>2. CASE k # Len(f) + 1
    <3>1. k \in 1 .. Len(f) /\ to[k] = at[k]
      BY <1>1, <2>2
    <3> QED BY <1>1, <1>2, <3>1
  <2> QED BY <2>1, <2>2
<1>5. ASSUME NEW k \in 1 .. Len(g), NEW m \in 1 .. Len(g), k < m
      PROVE  to[k] < to[m]
  <2>1. k \in 1 .. Len(f) /\ to[k] = at[k] /\ at[k] \in 1 .. n
    BY <1>1, <1>2, <1>5
  <2>2. CASE m = Len(f) + 1
    BY <1>1, <2>1, <2>2
  <2>3. CASE m # Len(f) + 1
    <3>1. m \in 1 .. Len(f) /\ to[m] = at[m]
      BY <1>1, <2>3
    <3> QED BY <1>2, <1>5, <2>1, <3>1
  <2> QED BY <2>2, <2>3
<1>6. ASSUME NEW j \in 1 .. n + 1, s[j] \in T PROVE \E k \in 1 .. Len(g) : to[k] = j
  <2>1. CASE j = n + 1
    BY <1>1, <2>1
  <2>2. CASE j # n + 1
    <3>1. PICK k \in 1 .. Len(f) : at[k] = j
      BY <1>2, <1>6, <2>2
    <3>2. k \in 1 .. Len(g) /\ to[k] = j
      BY <1>1, <3>1
    <3> QED BY <3>2
  <2> QED BY <2>1, <2>2
<1> HIDE DEF to
<1>7. FilterAt(to, g, s, T, n + 1)
  BY <1>3, <1>4, <1>5, <1>6 DEF FilterAt
<1> QED BY <1>7 DEF g

\* Filter is what the loop has kept at its end.
LEMMA FilterEnds == \A s, T : Filter(s, T) = FilterTo(s, T)[Len(s)]
<1> SUFFICES ASSUME NEW s, NEW T PROVE Filter(s, T) = FilterTo(s, T)[Len(s)]
  OBVIOUS
<1>1. {FilterTo(u, V)[Len(u)] : u \in {s}, V \in {T}} = {FilterTo(s, T)[Len(s)]}
  OBVIOUS
<1> QED BY <1>1 DEF Filter

\* Filter returns the elements that are in T, in their order.
LEMMA FilterPlaces ==
    ASSUME NEW S, NEW s \in Seq(S), NEW T
    PROVE  /\ Filter(s, T) \in Seq(S)
           /\ \E at : FilterAt(at, Filter(s, T), s, T, Len(s))
<1> DEFINE F == FilterTo(s, T)
           Done(n) == F[n] \in Seq(S) /\ \E at : FilterAt(at, F[n], s, T, n)
           Good == {n \in Nat : n <= Len(s) => Done(n)}
<1>0. Len(s) \in Nat
  OBVIOUS
<1>1. \A i \in 0 .. Len(s) : F[i] = FilterStep(s, T, F, i)
  <2>1. F = [i \in 0 .. Len(s) |-> FilterStep(s, T, F, i)]
    BY FilterRecursion
  <2> HIDE DEF F
  <2> QED BY <2>1, Zenon
<1> HIDE DEF F
<1>2. 0 \in Good
  <2>1. F[0] = <<>>
    BY <1>0, <1>1 DEF FilterStep
  <2>2. FilterAt(<<>>, <<>>, s, T, 0)
    BY DEF FilterAt
  <2>3. F[0] \in Seq(S) /\ FilterAt(<<>>, F[0], s, T, 0)
    BY <2>1, <2>2, NoElements
  <2> QED BY <2>3
<1>3. ASSUME NEW n \in Good PROVE n + 1 \in Good
  <2> SUFFICES ASSUME n + 1 <= Len(s) PROVE Done(n + 1)
    OBVIOUS
  <2>1. PICK at : F[n] \in Seq(S) /\ FilterAt(at, F[n], s, T, n)
    BY <1>0
  <2>2. n + 1 \in 1 .. Len(s) /\ s[n + 1] \in S /\ n + 1 # 0 /\ (n + 1) - 1 = n
    BY <1>0
  <2>3. F[n + 1] = FilterStep(s, T, F, n + 1)
    BY <1>1, <2>2
  <2>4. CASE s[n + 1] \in T
    <3>1. F[n + 1] = Append(F[n], s[n + 1])
      BY <2>2, <2>4, <2>3, Zenon DEF FilterStep
    <3>2. \E to : FilterAt(to, Append(F[n], s[n + 1]), s, T, n + 1)
      BY <2>1, <2>2, <2>4, FilterAppends
    <3> QED BY <2>1, <2>2, <3>1, <3>2
  <2>5. CASE s[n + 1] \notin T
    <3>1. F[n + 1] = F[n]
      BY <2>2, <2>5, <2>3, Zenon DEF FilterStep
    <3>2. FilterAt(at, F[n], s, T, n + 1)
      BY <2>1, <2>5 DEF FilterAt
    <3> QED BY <2>1, <3>1, <3>2
  <2> QED BY <2>4, <2>5
<1>4. Good = Nat
  <2> HIDE DEF Good
  <2>1. Good \in SUBSET Nat
    BY DEF Good
  <2> QED BY <1>2, <1>3, <2>1, SetInduction
<1>5. Done(Len(s))
  BY <1>0, <1>4
<1> QED BY <1>5, FilterEnds DEF F

\* ... and so has exactly these in its range.
LEMMA FilterRange ==
    ASSUME NEW S, NEW s \in Seq(S), NEW T
    PROVE  Range(Filter(s, T)) = Range(s) \cap T
<1>1. PICK at : FilterAt(at, Filter(s, T), s, T, Len(s))
  BY FilterPlaces
<1>2. /\ DOMAIN s = 1 .. Len(s)
      /\ DOMAIN Filter(s, T) = 1 .. Len(Filter(s, T))
  BY FilterPlaces, Indexed
<1>3. /\ \A k \in 1 .. Len(Filter(s, T)) :
           at[k] \in 1 .. Len(s) /\ Filter(s, T)[k] = s[at[k]] /\ s[at[k]] \in T
      /\ \A j \in 1 .. Len(s) :
           s[j] \in T => \E k \in 1 .. Len(Filter(s, T)) : at[k] = j
  BY <1>1 DEF FilterAt
<1>4. ASSUME NEW x \in Range(Filter(s, T)) PROVE x \in Range(s) \cap T
  BY <1>2, <1>3 DEF Range
<1>5. ASSUME NEW x \in Range(s) \cap T PROVE x \in Range(Filter(s, T))
  BY <1>2, <1>3 DEF Range
<1> QED BY <1>4, <1>5

\* Two lists of the same places have the same places.
LEMMA FilterAgree ==
    ASSUME NEW S, NEW s \in Seq(S), NEW T, NEW f \in Seq(S), NEW g \in Seq(S),
           NEW at, FilterAt(at, f, s, T, Len(s)),
           NEW bt, FilterAt(bt, g, s, T, Len(s))
    PROVE  \A k \in 1 .. Len(f) : k \in 1 .. Len(g) /\ at[k] = bt[k]
<1> DEFINE Bad == {k \in 1 .. Len(f) : ~(k \in 1 .. Len(g) /\ at[k] = bt[k])}
<1>0. Len(s) \in Nat /\ Len(f) \in Nat /\ Len(g) \in Nat
  OBVIOUS
<1>1. /\ \A k \in 1 .. Len(f) : at[k] \in 1 .. Len(s) /\ s[at[k]] \in T
      /\ \A k, m \in 1 .. Len(f) : k < m => at[k] < at[m]
      /\ \A j \in 1 .. Len(s) : s[j] \in T => \E k \in 1 .. Len(f) : at[k] = j
  BY DEF FilterAt
<1>2. /\ \A k \in 1 .. Len(g) : bt[k] \in 1 .. Len(s) /\ s[bt[k]] \in T
      /\ \A k, m \in 1 .. Len(g) : k < m => bt[k] < bt[m]
      /\ \A j \in 1 .. Len(s) : s[j] \in T => \E k \in 1 .. Len(g) : bt[k] = j
  BY DEF FilterAt
<1> SUFFICES ASSUME Bad # {} PROVE FALSE
  OBVIOUS
<1>3. PICK k \in Bad : \A j \in Bad : k <= j
  <2>1. Bad \in SUBSET Nat
    BY <1>0
  <2> QED BY <2>1, LeastOf
<1>4. k \in 1 .. Len(f) /\ ~(k \in 1 .. Len(g) /\ at[k] = bt[k])
  OBVIOUS
<1>5. ASSUME NEW j \in 1 .. Len(f), j < k PROVE j \in 1 .. Len(g) /\ at[j] = bt[j]
  <2>1. j \notin Bad
    BY <1>0, <1>3, <1>4, <1>5
  <2> QED BY <2>1
<1> HIDE DEF Bad
<1>6. PICK m \in 1 .. Len(g) : bt[m] = at[k]
  BY <1>1, <1>2, <1>4
<1>7. ~(m < k)
  <2> SUFFICES ASSUME m < k PROVE FALSE
    OBVIOUS
  <2>1. m \in 1 .. Len(f)
    BY <1>0, <1>4
  <2>2. at[m] = bt[m]
    BY <1>5, <2>1
  <2> QED BY <1>1, <1>4, <1>6, <2>1, <2>2
<1>8. k \in 1 .. Len(g)
  BY <1>0, <1>4, <1>7
<1>9. PICK l \in 1 .. Len(f) : at[l] = bt[k]
  BY <1>1, <1>2, <1>8
<1>10. ~(l < k)
  <2> SUFFICES ASSUME l < k PROVE FALSE
    OBVIOUS
  <2>1. l \in 1 .. Len(g) /\ at[l] = bt[l]
    BY <1>5
  <2>2. bt[l] < bt[k]
    BY <1>2, <1>8, <2>1
  <2>3. bt[k] \in Int /\ bt[l] = bt[k]
    BY <1>0, <1>2, <1>8, <1>9, <2>1
  <2> QED BY <2>2, <2>3
<1>11. at[k] <= at[l]
  BY <1>0, <1>1, <1>4, <1>10
<1>12. bt[k] <= bt[m]
  BY <1>0, <1>2, <1>7, <1>8
<1> QED BY <1>1, <1>2, <1>4, <1>6, <1>8, <1>9, <1>11, <1>12

\* ... so a list of the places of the elements that are in T is Filter's.
LEMMA FilterIs ==
    ASSUME NEW S, NEW s \in Seq(S), NEW T, NEW g \in Seq(S),
           NEW bt, FilterAt(bt, g, s, T, Len(s))
    PROVE  Filter(s, T) = g
<1> DEFINE f == Filter(s, T)
<1>1. PICK at : f \in Seq(S) /\ FilterAt(at, f, s, T, Len(s))
  BY FilterPlaces
<1> HIDE DEF f
<1>2. /\ \A k \in 1 .. Len(f) : k \in 1 .. Len(g) /\ at[k] = bt[k]
      /\ \A k \in 1 .. Len(g) : k \in 1 .. Len(f)
  BY <1>1, FilterAgree
<1>3. Len(f) \in Nat /\ Len(g) \in Nat
  BY <1>1
<1>4. Len(f) = Len(g)
  <2>1. Len(f) > 0 => Len(f) <= Len(g)
    BY <1>2, <1>3
  <2>2. Len(g) > 0 => Len(g) <= Len(f)
    BY <1>2, <1>3
  <2> QED BY <1>3, <2>1, <2>2
<1>5. \A k \in 1 .. Len(f) : f[k] = g[k]
  BY <1>1, <1>2 DEF FilterAt
<1>6. f = g
  BY <1>1, <1>4, <1>5, SameSeq
<1> QED BY <1>6 DEF f

\* There is nothing to keep of nothing.
LEMMA FilterEmpty ==
    ASSUME NEW T PROVE Filter(<<>>, T) = <<>>
<1>1. PICK x : x = <<>>
  OBVIOUS
<1>2. x \in Seq(Nat) /\ Len(x) = 0
  BY <1>1
<1>3. PICK at : Filter(x, T) \in Seq(Nat) /\ FilterAt(at, Filter(x, T), x, T, Len(x))
  BY <1>2, FilterPlaces
<1>4. Len(Filter(x, T)) \in Nat /\ \A k \in 1 .. Len(Filter(x, T)) : at[k] \in 1 .. 0
  BY <1>2, <1>3 DEF FilterAt
<1>5. Filter(x, T) = <<>>
  BY <1>3, <1>4, NoElements
<1> QED BY <1>1, <1>5

\* The elements before the first that is not in T, if none is after it.
LEMMA FilterPrefix ==
    ASSUME NEW S, NEW s \in Seq(S), NEW T, NEW g \in Seq(S), Len(g) <= Len(s),
           \A k \in 1 .. Len(g) : s[k] \in T /\ g[k] = s[k],
           \A k \in 1 .. Len(s) : s[k] \in T => k <= Len(g)
    PROVE  Filter(s, T) = g
<1> DEFINE at == [k \in 1 .. Len(g) |-> k]
<1>1. FilterAt(at, g, s, T, Len(s))
  BY DEF FilterAt
<1> HIDE DEF at
<1> QED BY <1>1, FilterIs

\* All but the element at m.
LEMMA FilterWithout ==
    ASSUME NEW S, NEW s \in Seq(S), NEW T, NEW m \in 1 .. Len(s),
           \A k \in 1 .. Len(s) : s[k] \in T <=> k # m
    PROVE  Filter(s, T) = [k \in 1 .. Len(s) - 1 |-> IF k < m THEN s[k] ELSE s[k + 1]]
<1> DEFINE g == [k \in 1 .. Len(s) - 1 |-> IF k < m THEN s[k] ELSE s[k + 1]]
           at == [k \in 1 .. Len(s) - 1 |-> IF k < m THEN k ELSE k + 1]
<1>0. Len(s) \in Nat /\ Len(s) - 1 \in Nat
  OBVIOUS
<1>1. g \in Seq(S) /\ Len(g) = Len(s) - 1
  <2>1. \A k \in 1 .. Len(s) - 1 : k \in 1 .. Len(s) /\ k + 1 \in 1 .. Len(s)
    BY <1>0
  <2>2. \A k \in 1 .. Len(s) - 1 : (IF k < m THEN s[k] ELSE s[k + 1]) \in S
    BY <2>1
  <2> QED BY <1>0, <2>2, SeqOf
<1>2. at \in [1 .. Len(g) -> 1 .. Len(s)]
  BY <1>0, <1>1
<1>3. \A k \in 1 .. Len(g) : g[k] = s[at[k]] /\ s[at[k]] \in T
  BY <1>0, <1>1
<1>4. \A k, n \in 1 .. Len(g) : k < n => at[k] < at[n]
  BY <1>0, <1>1
<1>5. ASSUME NEW j \in 1 .. Len(s), s[j] \in T PROVE \E k \in 1 .. Len(g) : at[k] = j
  <2>1. CASE j < m
    <3>1. j \in 1 .. Len(g) /\ at[j] = j
      BY <1>0, <1>1, <2>1
    <3> QED BY <3>1
  <2>2. CASE ~(j < m)
    <3>1. j - 1 \in 1 .. Len(g) /\ ~(j - 1 < m) /\ (j - 1) + 1 = j
      BY <1>0, <1>1, <1>5, <2>2
    <3>2. at[j - 1] = j
      BY <1>1, <3>1
    <3> QED BY <3>1, <3>2
  <2> QED BY <2>1, <2>2
<1> HIDE DEF g, at
<1>6. FilterAt(at, g, s, T, Len(s))
  BY <1>2, <1>3, <1>4, <1>5 DEF FilterAt
<1>7. Filter(s, T) = g
  BY <1>1, <1>6, FilterIs
<1> QED BY <1>7 DEF g
=============================================================================
