----------------------------- MODULE AliasProof -----------------------------
(***************************************************************************)
(* For every table of aliases and every command line: the two passes of    *)
(* alias_expand fill their array exactly, and the line they give is the    *)
(* one that substituting the first word, again and again, gives.           *)
(***************************************************************************)
EXTENDS Alias, FiltersProof, FiniteSetTheorems

\* Numbers from one, and from zero.
LEMMA Counting ==
    ASSUME NEW n \in Nat
    PROVE  /\ IsFiniteSet(1 .. n) /\ Cardinality(1 .. n) = n
           /\ IsFiniteSet(0 .. n - 1) /\ Cardinality(0 .. n - 1) = n
<1>1. IsFiniteSet(1 .. n) /\ Cardinality(1 .. n) = IF 1 > n THEN 0 ELSE n - 1 + 1
  BY FS_Interval
<1>2. IsFiniteSet(0 .. n - 1) /\ Cardinality(0 .. n - 1) = IF 0 > n - 1 THEN 0 ELSE (n - 1) - 0 + 1
  BY FS_Interval
<1> QED BY <1>1, <1>2

-----------------------------------------------------------------------------
(* Substituting word by word *)

\* What alias_install leaves in the table: a replacement has a word or more.
Replaces(t) ==
    /\ DOMAIN t \subseteq Word
    /\ \A k \in DOMAIN t : t[k] \in Seq(Word) /\ Len(t[k]) >= 1

\* A line on the way, and the aliases expanded in it.
Turn == {b \in [line : Seq(Word), expanded : SUBSET Word] : Len(b.line) >= 1}

\* A substitution in a line: its length, its first word and the words behind
\* the replacement.
LEMMA ReplacedLine ==
    ASSUME NEW r \in Seq(Word), Len(r) >= 1, NEW l \in Seq(Word), Len(l) >= 1
    PROVE  /\ r \o Tail(l) \in Seq(Word)
           /\ Len(r \o Tail(l)) = Len(r) + Len(l) - 1
           /\ \A i \in 1 .. Len(r) : (r \o Tail(l))[i] = r[i]
           /\ \A i \in 2 .. Len(l) : (r \o Tail(l))[i + Len(r) - 1] = l[i]
<1>1. Len(r) \in Nat /\ Len(l) \in Nat /\ l # <<>>
  BY Indexed, NoElements
<1>2. Tail(l) \in Seq(Word) /\ Len(Tail(l)) = Len(l) - 1
      /\ \A i \in 1 .. Len(Tail(l)) : Tail(l)[i] = l[i + 1]
  BY <1>1
<1>3. /\ r \o Tail(l) \in Seq(Word)
      /\ Len(r \o Tail(l)) = Len(r) + Len(Tail(l))
      /\ \A i \in 1 .. Len(r) + Len(Tail(l)) :
            (r \o Tail(l))[i] = IF i <= Len(r) THEN r[i] ELSE Tail(l)[i - Len(r)]
  BY <1>2
<1>4. ASSUME NEW i \in 2 .. Len(l) PROVE (r \o Tail(l))[i + Len(r) - 1] = l[i]
  <2>1. i + Len(r) - 1 \in 1 .. Len(r) + Len(Tail(l)) /\ ~(i + Len(r) - 1 <= Len(r))
        /\ (i + Len(r) - 1) - Len(r) = i - 1 /\ i - 1 \in 1 .. Len(Tail(l)) /\ (i - 1) + 1 = i
    BY <1>1, <1>2
  <2>2. (r \o Tail(l))[i + Len(r) - 1] = Tail(l)[i - 1]
    BY <1>3, <2>1
  <2> QED BY <1>2, <2>1, <2>2
<1>5. \A i \in 1 .. Len(r) : (r \o Tail(l))[i] = r[i]
  BY <1>1, <1>2, <1>3
<1> QED BY <1>1, <1>2, <1>3, <1>4, <1>5

\* A substitution gives a line again.
LEMMA SubstitutedTurn ==
    ASSUME NEW t, Replaces(t), NEW b \in Turn
    PROVE  Substituted(t, b) \in Turn
<1>1. b.line \in Seq(Word) /\ Len(b.line) >= 1 /\ b.expanded \in SUBSET Word
  BY DEF Turn
<1>2. CASE b.line[1] \in DOMAIN t \ b.expanded
  <2>1. t[b.line[1]] \in Seq(Word) /\ Len(t[b.line[1]]) >= 1 /\ b.line[1] \in Word
    BY <1>2 DEF Replaces
  <2> DEFINE l == t[b.line[1]] \o Tail(b.line)
  <2>2. l \in Seq(Word) /\ Len(l) >= 1
    <3>1. Len(l) = Len(t[b.line[1]]) + Len(b.line) - 1 /\ l \in Seq(Word)
      BY <1>1, <2>1, ReplacedLine, Zenon
    <3>2. PICK n \in Nat, m \in Nat : n = Len(b.line) /\ m = Len(t[b.line[1]])
      BY <1>1, <2>1, Indexed
    <3> HIDE DEF l
    <3>3. n >= 1 /\ m >= 1 /\ Len(l) = m + n - 1
      BY <1>1, <2>1, <3>1, <3>2
    <3>4. m + n - 1 >= 1
      BY <3>3
    <3> QED BY <3>1, <3>3, <3>4, Zenon
  <2>3. Substituted(t, b) = [line |-> l, expanded |-> b.expanded \union {b.line[1]}]
    BY <1>2 DEF Substituted
  <2> HIDE DEF l
  <2> QED BY <1>1, <2>1, <2>2, <2>3 DEF Turn
<1>3. CASE b.line[1] \notin DOMAIN t \ b.expanded
  BY <1>3 DEF Substituted
<1> QED BY <1>2, <1>3

\* The number of words, which bounds the turns, is a number.
LEMMA WordCount == Cardinality(Word) \in Nat
  BY AliasAssumption, FS_CardinalityType

\* The rewriting starts from the line, and each turn substitutes in the last.
LEMMA RewritingTurns ==
    ASSUME NEW t, Replaces(t), NEW line \in Seq(Word), Len(line) >= 1
    PROVE  /\ \A i \in 0 .. Cardinality(Word) : Rewriting(t, line)[i] \in Turn
           /\ Rewriting(t, line)[0] = [line |-> line, expanded |-> {}]
           /\ \A i \in 1 .. Cardinality(Word) :
                 Rewriting(t, line)[i] = Substituted(t, Rewriting(t, line)[i - 1])
<1> DEFINE N == Cardinality(Word)
           z == [line |-> line, expanded |-> {}]
           F == [i \in Nat |-> [b \in Turn |-> Substituted(t, b)]]
<1>1. N \in Nat
  BY WordCount
<1>2. z \in Turn
  BY DEF Turn
<1>3. F \in [Nat -> [Turn -> Turn]]
  BY SubstitutedTurn
<1>4. PICK g : Iteration(g, N, Turn, z, F)
  <2> HIDE DEF N, z, F
  <2> QED BY <1>1, <1>2, <1>3, Iterates, Zenon
<1>5. /\ g \in [0 .. N -> Turn] /\ g[0] = z
      /\ \A i \in 1 .. N : g[i] = F[i][g[i - 1]]
  BY <1>4, Zenon DEF Iteration
<1>6. ASSUME NEW i \in 1 .. N PROVE g[i] = Substituted(t, g[i - 1])
  <2>1. i \in Nat /\ i - 1 \in 0 .. N
    BY <1>1
  <2>2. g[i - 1] \in Turn
    BY <1>5, <2>1
  <2> QED BY <1>5, <2>1, <2>2, Zenon
<1> HIDE DEF N, z, F
<1> DEFINE Solves(f) == f = [i \in 0 .. N |-> IF i = 0 THEN z ELSE Substituted(t, f[i - 1])]
<1>7. Solves(g)
  <2>1. ASSUME NEW i \in 0 .. N PROVE g[i] = IF i = 0 THEN z ELSE Substituted(t, g[i - 1])
    <3>1. i # 0 => i \in 1 .. N
      BY <1>1
    <3> QED BY <1>5, <1>6, <3>1
  <2>2. g = [i \in 0 .. N |-> g[i]]
    BY <1>5
  <2> QED BY <2>1, <2>2, Zenon
<1>8. Rewriting(t, line) = CHOOSE f : Solves(f)
  BY DEF Rewriting, N, z
<1> DEFINE R == Rewriting(t, line)
<1>9. Solves(R)
  BY <1>7, <1>8, Zenon
<1> HIDE DEF R
<1>10. DOMAIN R = 0 .. N /\ R[0] = z
  BY <1>1, <1>9
<1>11. ASSUME NEW i \in 1 .. N PROVE R[i] = Substituted(t, R[i - 1])
  <2>1. i \in 0 .. N /\ i # 0
    BY <1>1
  <2> QED BY <1>9, <2>1, Zenon
<1>12. \A i \in 0 .. N : R[i] \in Turn
  <2> DEFINE Fine == {i \in Nat : i \in 0 .. N => R[i] \in Turn}
  <2>1. 0 \in Fine
    BY <1>2, <1>10
  <2>2. ASSUME NEW i \in Fine PROVE i + 1 \in Fine
    <3>1. CASE i + 1 \in 0 .. N
      <4>1. i \in 0 .. N /\ i + 1 \in 1 .. N /\ (i + 1) - 1 = i
        BY <1>1, <3>1
      <4>2. R[i + 1] = Substituted(t, R[i])
        BY <1>11, <4>1
      <4> QED BY <4>1, <4>2, SubstitutedTurn
    <3>2. CASE i + 1 \notin 0 .. N
      BY <3>2
    <3> QED BY <3>1, <3>2
  <2>3. Fine \in SUBSET Nat
    OBVIOUS
  <2>4. Fine = Nat
    <3> HIDE DEF Fine
    <3> QED BY <2>1, <2>2, <2>3, SetInduction, Zenon, SMTT(30)
  <2> QED BY <1>1, <2>4
<1> QED BY <1>10, <1>11, <1>12 DEF R, N, z

\* A turn that substitutes.
LEMMA TurnSubstitutes ==
    ASSUME NEW t, NEW b \in Turn, b.line[1] \in DOMAIN t, b.line[1] \notin b.expanded
    PROVE  /\ Substituted(t, b).line = t[b.line[1]] \o Tail(b.line)
           /\ Substituted(t, b).expanded = b.expanded \union {b.line[1]}
  BY Zenon DEF Substituted

\* A turn that finds nothing to substitute is the last: the line stays.
LEMMA RewritingStays ==
    ASSUME NEW t, Replaces(t), NEW line \in Seq(Word), Len(line) >= 1,
           NEW n \in 0 .. Cardinality(Word),
           Substituted(t, Rewriting(t, line)[n]) = Rewriting(t, line)[n]
    PROVE  Rewriting(t, line)[Cardinality(Word)] = Rewriting(t, line)[n]
<1> DEFINE R == Rewriting(t, line)
           N == Cardinality(Word)
<1>1. N \in Nat /\ n \in Nat /\ n <= N
  BY WordCount
<1>2. \A i \in 1 .. N : R[i] = Substituted(t, R[i - 1])
  BY RewritingTurns, Zenon
<1>3. Substituted(t, R[n]) = R[n]
  OBVIOUS
<1> HIDE DEF R, N
<1> DEFINE Same == {k \in Nat : n + k <= N => R[n + k] = R[n]}
<1>4. 0 \in Same
  BY <1>1
<1>5. ASSUME NEW k \in Same PROVE k + 1 \in Same
  <2>1. CASE n + (k + 1) <= N
    <3>1. n + (k + 1) \in 1 .. N /\ n + (k + 1) - 1 = n + k /\ n + k <= N
      BY <1>1, <2>1
    <3>2. R[n + k] = R[n]
      BY <3>1
    <3>3. R[n + (k + 1)] = R[n]
      BY <1>2, <1>3, <3>1, <3>2
    <3> QED BY <3>3
  <2>2. CASE ~(n + (k + 1) <= N)
    BY <2>2
  <2> QED BY <2>1, <2>2
<1>6. Same = Nat
  <2>1. Same \in SUBSET Nat
    OBVIOUS
  <2> HIDE DEF Same
  <2> QED BY <1>4, <1>5, <2>1, SetInduction
<1>7. PICK k \in Nat : n + k = N
  <2>1. N - n \in Nat /\ n + (N - n) = N
    BY <1>1
  <2> QED BY <2>1
<1>8. k \in Same
  BY <1>6, Zenon
<1> QED BY <1>1, <1>7, <1>8 DEF R, N

\* A list of different words is no longer than there are words.
LEMMA NoMoreThanWords ==
    ASSUME NEW s \in Seq(Word), \A i, j \in 1 .. Len(s) : s[i] = s[j] => i = j
    PROVE  Len(s) <= Cardinality(Word)
<1>1. Len(s) \in Nat /\ DOMAIN s = 1 .. Len(s) /\ \A i \in 1 .. Len(s) : s[i] \in Word
  BY Indexed
<1> DEFINE n == Len(s)
<1>2. IsFiniteSet(1 .. n) /\ Cardinality(1 .. n) = n
  BY <1>1, Counting
<1>3. s \in Injection(1 .. n, Word)
  BY <1>1 DEF Injection, IsInjective
<1>4. Cardinality(1 .. n) <= Cardinality(Word)
  BY <1>2, <1>3, AliasAssumption, FS_Injection DEF ExistsInjection
<1> QED BY <1>2, <1>4

-----------------------------------------------------------------------------
(* The inductive invariant *)

Turns == Rewriting(table, typed)

LineInv == typed \in Seq(Word) /\ Len(typed) >= 1

\* The aliases in the list are those that substituting expands, in its order.
Chained ==
    /\ alist \in Seq(Word) /\ Len(alist) <= Cardinality(Word)
    /\ \A i \in 1 .. Len(alist) : alist[i] \in DOMAIN table
    /\ \A i, j \in 1 .. Len(alist) : alist[i] = alist[j] => i = j
    /\ \A n \in 0 .. Len(alist) : Turns[n].expanded = {alist[i] : i \in 1 .. n}
    /\ \A n \in 1 .. Len(alist) :
          Turns[n].line = table[alist[n]] \o Tail(Turns[n - 1].line)

\* The line that substituting gives with the aliases in the list.
Current == Turns[Len(alist)].line

Stopped == Current[1] \notin DOMAIN table \/ Current[1] \in Range(alist)

\* The second pass has stored the arguments of the line that substituting the
\* first copied aliases gives, at the end of an array for the whole line.
Copying ==
    /\ copied \in 0 .. Len(alist)
    /\ pos = ExtraFrom(copied + 1)
    /\ DOMAIN nargv = 0 .. Len(Current) - 1
    /\ \A s \in DOMAIN nargv :
          nargv[s] = IF s <= pos THEN Hole ELSE Turns[copied].line[s - pos + 1]
    /\ copied # 0 => kw = Turns[copied].line[1]

AliasInv ==
    /\ Replaces(table)
    /\ phase \in {"chain", "copy", "dispatch"} => LineInv
    /\ phase = "chain" => argv = typed /\ Chained /\ kw = Current[1] /\ copied = 0
    /\ phase = "copy" => argv = typed /\ alist # <<>> /\ Chained /\ Stopped /\ Copying
    /\ phase = "dispatch" => argv = Rewritten(typed)
    /\ phase = "config" => reply = NoReply
    /\ AnsweredAsRewritten

\* The sums over the list go up by the arguments of each alias.
LEMMA ExtraAdds ==
    ASSUME Replaces(table), Chained
    PROVE  /\ \A n \in 1 .. Len(alist) : Extra(n) \in Nat /\ Len(table[alist[n]]) = Extra(n) + 1
           /\ ExtraTo(0) = 0
           /\ \A n \in 1 .. Len(alist) : ExtraTo(n) = ExtraTo(n - 1) + Extra(n)
<1> DEFINE L == Len(alist)
           F == [i \in Nat |-> [x \in Int |-> IF i \in 1 .. L THEN x + Extra(i) ELSE x]]
<1>1. L \in Nat
  BY Indexed DEF Chained
<1>2. ASSUME NEW n \in 1 .. L PROVE Extra(n) \in Nat /\ Len(table[alist[n]]) = Extra(n) + 1
  <2>1. table[alist[n]] \in Seq(Word) /\ Len(table[alist[n]]) >= 1
    BY DEF Chained, Replaces
  <2>2. Len(table[alist[n]]) \in Nat
    BY <2>1, Indexed
  <2> QED BY <2>1, <2>2 DEF Extra
<1>3. F \in [Nat -> [Int -> Int]]
  BY <1>2
<1>4. PICK g : Iteration(g, L, Int, 0, F)
  <2>1. 0 \in Int
    OBVIOUS
  <2> HIDE DEF L, F
  <2> QED BY <1>1, <1>3, <2>1, Iterates, Zenon
<1>5. /\ g \in [0 .. L -> Int] /\ g[0] = 0
      /\ \A i \in 1 .. L : g[i] = F[i][g[i - 1]]
  BY <1>4, Zenon DEF Iteration
<1>6. ASSUME NEW i \in 1 .. L PROVE g[i] = g[i - 1] + Extra(i)
  <2>1. i \in Nat /\ i - 1 \in 0 .. L
    BY <1>1
  <2>2. g[i - 1] \in Int
    BY <1>5, <2>1
  <2> QED BY <1>5, <2>1, <2>2, Zenon
<1> HIDE DEF L, F
<1> DEFINE Solves(f) == f = [i \in 0 .. L |-> IF i = 0 THEN 0 ELSE f[i - 1] + Extra(i)]
<1>7. Solves(g)
  <2>1. ASSUME NEW i \in 0 .. L PROVE g[i] = IF i = 0 THEN 0 ELSE g[i - 1] + Extra(i)
    <3>1. i # 0 => i \in 1 .. L
      BY <1>1
    <3> QED BY <1>5, <1>6, <3>1
  <2>2. g = [i \in 0 .. L |-> g[i]]
    BY <1>5
  <2> QED BY <2>1, <2>2, Zenon
<1> DEFINE sum == CHOOSE f : Solves(f)
<1>8. \A n : ExtraTo(n) = sum[n]
  BY DEF ExtraTo, L
<1>9. Solves(sum)
  BY <1>7, Zenon
<1> HIDE DEF sum
<1>10. ExtraTo(0) = 0
  <2>1. 0 \in 0 .. L
    BY <1>1
  <2>2. sum[0] = 0
    BY <1>9, <2>1, Zenon
  <2> QED BY <1>8, <2>2, Zenon
<1>11. ASSUME NEW n \in 1 .. L PROVE ExtraTo(n) = ExtraTo(n - 1) + Extra(n)
  <2>1. n \in 0 .. L /\ n # 0
    BY <1>1
  <2>2. sum[n] = sum[n - 1] + Extra(n)
    BY <1>9, <2>1, Zenon
  <2> QED BY <1>8, <2>2, Zenon
<1> QED BY <1>2, <1>10, <1>11 DEF L

\* Every alias lengthens the line by its arguments.
LEMMA Lengths ==
    ASSUME Replaces(table), LineInv, Chained
    PROVE  \A n \in 0 .. Len(alist) :
              /\ ExtraTo(n) \in Nat
              /\ Turns[n].line \in Seq(Word)
              /\ Len(Turns[n].line) = Len(typed) + ExtraTo(n)
<1> DEFINE L == Len(alist)
<1>1. L \in Nat /\ Len(typed) \in Nat /\ Len(typed) >= 1
  BY Indexed DEF Chained, LineInv
<1>2. L <= Cardinality(Word) /\ Cardinality(Word) \in Nat
  BY WordCount DEF Chained
<1>3. ASSUME NEW n \in 0 .. L PROVE Turns[n] \in Turn
  <2>1. n \in 0 .. Cardinality(Word)
    BY <1>1, <1>2
  <2> QED BY <2>1, RewritingTurns, Zenon DEF LineInv, Turns
<1>4. Turns[0].line = typed
  <2>1. Turns[0] = [line |-> typed, expanded |-> {}]
    BY RewritingTurns, Zenon DEF LineInv, Turns
  <2> QED BY <2>1
<1>5. ASSUME NEW n \in 1 .. L
      PROVE  Len(Turns[n].line) = Len(Turns[n - 1].line) + Extra(n) /\ Len(Turns[n - 1].line) \in Nat
  <2>1. n - 1 \in 0 .. L /\ n \in 0 .. L
    BY <1>1
  <2>2. PICK l \in Seq(Word) : l = Turns[n - 1].line /\ Len(l) >= 1 /\ Len(l) \in Nat
    BY <1>3, <2>1, Indexed DEF Turn
  <2>3. PICK r \in Seq(Word) : r = table[alist[n]] /\ Len(r) >= 1
    BY DEF Chained, Replaces
  <2>4. Turns[n].line = r \o Tail(l)
    BY <2>2, <2>3, Zenon DEF Chained
  <2>5. Len(r \o Tail(l)) = Len(r) + Len(l) - 1
    BY <2>2, <2>3, ReplacedLine, Zenon
  <2>6. PICK e \in Nat, k \in Nat : e = Extra(n) /\ Len(r) = e + 1 /\ k = Len(l)
    BY <2>2, <2>3, ExtraAdds
  <2>7. (e + 1) + k - 1 = k + e
    OBVIOUS
  <2> QED BY <2>2, <2>4, <2>5, <2>6, <2>7, Zenon
<1>6. /\ ExtraTo(0) = 0
      /\ \A n \in 1 .. L : Extra(n) \in Nat /\ ExtraTo(n) = ExtraTo(n - 1) + Extra(n)
  BY ExtraAdds
<1> HIDE DEF L
<1> DEFINE Fit == {n \in Nat : n <= L => /\ ExtraTo(n) \in Nat
                                         /\ Len(Turns[n].line) = Len(typed) + ExtraTo(n)}
<1>7. 0 \in Fit
  BY <1>1, <1>4, <1>6
<1>8. ASSUME NEW n \in Fit PROVE n + 1 \in Fit
  <2>1. CASE n + 1 <= L
    <3>1. n + 1 \in 1 .. L /\ (n + 1) - 1 = n /\ n <= L
      BY <1>1, <2>1
    <3>2. /\ ExtraTo(n) \in Nat /\ Len(Turns[n].line) = Len(typed) + ExtraTo(n)
      BY <3>1
    <3>3. Extra(n + 1) \in Nat /\ ExtraTo(n + 1) = ExtraTo(n) + Extra(n + 1)
      BY <1>6, <3>1
    <3>4. Len(Turns[n + 1].line) = Len(Turns[n].line) + Extra(n + 1)
      BY <1>5, <3>1
    <3>5. ExtraTo(n + 1) \in Nat /\ Len(Turns[n + 1].line) = Len(typed) + ExtraTo(n + 1)
      BY <1>1, <3>2, <3>3, <3>4
    <3> QED BY <3>5
  <2>2. CASE ~(n + 1 <= L)
    BY <2>2
  <2> QED BY <2>1, <2>2
<1>9. Fit = Nat
  <2>1. Fit \in SUBSET Nat
    OBVIOUS
  <2> HIDE DEF Fit
  <2> QED BY <1>7, <1>8, <2>1, SetInduction
<1>10. ASSUME NEW n \in 0 .. L
       PROVE  ExtraTo(n) \in Nat /\ Len(Turns[n].line) = Len(typed) + ExtraTo(n)
  BY <1>1, <1>9
<1>11. \A n \in 0 .. L : Turns[n].line \in Seq(Word)
  BY <1>3 DEF Turn
<1> QED BY <1>10, <1>11 DEF L

-----------------------------------------------------------------------------
(* The steps *)

\* A line with nothing left to expand is what the typed line is rewritten to.
LEMMA RewrittenIs ==
    ASSUME Replaces(table), LineInv, Chained, Stopped
    PROVE  Rewritten(typed) = Current
<1> DEFINE n == Len(alist)
<1>1. n \in Nat /\ DOMAIN alist = 1 .. n
  BY Indexed DEF Chained
<1>2. n \in 0 .. Cardinality(Word)
  BY <1>1, WordCount DEF Chained
<1>3. Turns[n] \in Turn
  BY <1>2, RewritingTurns, Zenon DEF LineInv, Turns
<1>4. n \in 0 .. n
  BY <1>1
<1>5. Turns[n].expanded = Range(alist)
  BY <1>1, <1>4 DEF Chained, Range
<1>6. Turns[n].line[1] \notin DOMAIN table \ Turns[n].expanded
  BY <1>5 DEF Stopped, Current
<1>7. Substituted(table, Turns[n]) = Turns[n]
  BY <1>6 DEF Substituted
<1>8. Turns[Cardinality(Word)] = Turns[n]
  BY <1>2, <1>7, RewritingStays DEF LineInv, Turns
<1> QED BY <1>8 DEF Rewritten, Turns, Current

\* Before the first turn the list is empty.
LEMMA ChainStarts ==
    ASSUME Replaces(table), LineInv, alist = <<>>
    PROVE  Chained /\ Current = typed
<1>1. Len(alist) = 0 /\ alist \in Seq(Word)
  BY NoElements
<1>2. Turns[0] = [line |-> typed, expanded |-> {}]
  BY RewritingTurns, Zenon DEF LineInv, Turns
<1>3. Turns[0].line = typed /\ Turns[0].expanded = {}
  BY <1>2
<1>4. \A n \in 0 .. Len(alist) : n = 0
  BY <1>1
<1>5. \A n \in 0 .. Len(alist) : Turns[n].expanded = {alist[i] : i \in 1 .. n}
  BY <1>3, <1>4
<1>6. Chained
  BY <1>1, <1>5, WordCount DEF Chained
<1> QED BY <1>1, <1>3, <1>6 DEF Current

\* alias_install.
LEMMA InstallStep ==
    ASSUME AliasInv, NEW k \in Word, NEW r \in Lines(MaxReplacement), alias_install(k, r)
    PROVE  AliasInv'
<1>1. r \in Seq(Word) /\ Len(r) >= 1
  <2>1. PICK n \in 1 .. MaxReplacement : r \in [1 .. n -> Word]
    BY DEF Lines
  <2>2. n \in Nat /\ n >= 1
    BY AliasAssumption
  <2>3. r \in Seq(Word) /\ Len(r) = n
    BY <2>1, <2>2
  <2> QED BY <2>2, <2>3
<1>2. Replaces(table)'
  BY <1>1 DEF AliasInv, alias_install, Replaces
<1>3. phase = "config" /\ phase' \in {"config", "exit"} /\ reply = NoReply /\ reply' = NoReply
  BY DEF AliasInv, alias_install
<1>4. AnsweredAsRewritten'
  BY <1>3 DEF AnsweredAsRewritten, NoReply
<1> QED BY <1>2, <1>3, <1>4 DEF AliasInv

\* dicod_handle_command and the entry of alias_expand.
LEMMA CommandStep ==
    ASSUME AliasInv, NEW line \in Lines(MaxLine), Command(line)
    PROVE  AliasInv'
<1>1. line \in Seq(Word) /\ Len(line) >= 1
  <2>1. PICK n \in 1 .. MaxLine : line \in [1 .. n -> Word]
    BY DEF Lines
  <2>2. n \in Nat /\ n >= 1
    BY AliasAssumption
  <2>3. line \in Seq(Word) /\ Len(line) = n
    BY <2>1, <2>2
  <2> QED BY <2>2, <2>3
<1>2. /\ table' = table /\ argv' = line /\ typed' = line /\ reply' = NoReply
      /\ kw' = line[1] /\ alist' = <<>> /\ copied' = 0
      /\ phase' = IF table = <<>> THEN "dispatch" ELSE "chain"
  BY DEF Command
<1>3. Replaces(table)' /\ LineInv'
  BY <1>1, <1>2 DEF AliasInv, Replaces, LineInv
<1>4. Chained' /\ Current' = line
  <2>1. (Replaces(table) /\ LineInv /\ alist = <<>> => Chained /\ Current = typed)'
    BY ChainStarts, PTL
  <2> QED BY <1>2, <1>3, <2>1
<1>5. table = <<>> => Rewritten(typed)' = line
  <2>1. (Replaces(table) /\ LineInv /\ Chained /\ Stopped => Rewritten(typed) = Current)'
    BY RewrittenIs, PTL
  <2>2. table = <<>> => Stopped'
    BY <1>2 DEF Stopped
  <2> QED BY <1>3, <1>4, <2>1, <2>2
<1>6. AnsweredAsRewritten'
  BY <1>2 DEF AnsweredAsRewritten
<1> QED BY <1>2, <1>3, <1>4, <1>5, <1>6 DEF AliasInv

\* What the steps of alias_expand leave as it was.
LEMMA Expanding ==
    ASSUME AliasInv, table' = table /\ typed' = typed /\ reply' = reply
    PROVE  /\ Replaces(table)' /\ (LineInv => LineInv') /\ Turns' = Turns
           /\ AnsweredAsRewritten' /\ Rewritten(typed)' = Rewritten(typed)
<1>1. Turns' = Turns
  BY DEF Turns, Rewriting, Substituted
<1>2. Rewritten(typed)' = Rewritten(typed)
  BY <1>1 DEF Rewritten, Turns
<1>3. AnsweredAsRewritten'
  BY <1>2 DEF AliasInv, AnsweredAsRewritten, NoReply
<1> QED BY <1>1, <1>2, <1>3 DEF AliasInv, Replaces, LineInv

\* A turn of the first loop is a turn of the substitution.
LEMMA CollectStep ==
    ASSUME AliasInv, Collect
    PROVE  AliasInv'
<1> DEFINE n == Len(alist)
<1>1. /\ phase = "chain" /\ phase' = "chain" /\ table' = table /\ argv' = argv /\ typed' = typed
      /\ reply' = reply /\ alist' = Append(alist, kw) /\ kw' = table[kw][1] /\ copied' = copied
      /\ kw \in DOMAIN table /\ kw \notin Range(alist)
  BY DEF Collect
<1>2. Replaces(table) /\ LineInv /\ Chained /\ kw = Current[1] /\ argv = typed /\ copied = 0
  BY <1>1 DEF AliasInv
<1>3. Turns' = Turns
  BY <1>1 DEF Turns, Rewriting, Substituted
<1>4. /\ alist \in Seq(Word) /\ n \in Nat /\ DOMAIN alist = 1 .. n /\ kw \in Word
  BY <1>1, <1>2, Indexed DEF Chained, Replaces
<1>5. /\ alist' \in Seq(Word) /\ Len(alist') = n + 1
      /\ \A i \in 1 .. n : alist'[i] = alist[i]
      /\ alist'[n + 1] = kw
  BY <1>1, <1>4, Lengthened
<1>6. \A i \in 1 .. n : alist[i] # kw
  BY <1>1, <1>4 DEF Range
<1>7. \A i \in 1 .. n + 1 : i \in 1 .. n \/ i = n + 1
  BY <1>4
<1>8. \A i, j \in 1 .. Len(alist') : alist'[i] = alist'[j] => i = j
  BY <1>2, <1>5, <1>6, <1>7 DEF Chained
<1>9. n + 1 <= Cardinality(Word)
  BY <1>5, <1>8, NoMoreThanWords
<1>10. n \in 0 .. Cardinality(Word) /\ n + 1 \in 1 .. Cardinality(Word) /\ (n + 1) - 1 = n
  BY <1>4, <1>9, WordCount
<1>11. Turns[n] \in Turn /\ Turns[n + 1] = Substituted(table, Turns[n])
  BY <1>2, <1>10, RewritingTurns, Zenon DEF LineInv, Turns
<1>12. Turns[n].expanded = {alist[i] : i \in 1 .. n}
  <2>1. n \in 0 .. n
    BY <1>4
  <2> QED BY <1>2, <2>1 DEF Chained
<1>13. Turns[n].line[1] = kw /\ kw \notin Turns[n].expanded
  BY <1>2, <1>6, <1>12 DEF Current
<1>14. /\ Turns[n + 1].line = table[kw] \o Tail(Turns[n].line)
       /\ Turns[n + 1].expanded = Turns[n].expanded \union {kw}
  <2>1. PICK b \in Turn : b = Turns[n]
    BY <1>11
  <2>2. b.line[1] = kw /\ kw \in DOMAIN table /\ kw \notin b.expanded
    BY <1>1, <1>13, <2>1
  <2>3. /\ Substituted(table, b).line = table[kw] \o Tail(b.line)
        /\ Substituted(table, b).expanded = b.expanded \union {kw}
    BY <2>2, TurnSubstitutes, Zenon
  <2> QED BY <1>11, <2>1, <2>3
<1>15. ASSUME NEW m \in 0 .. n + 1
       PROVE  Turns[m].expanded = {alist'[i] : i \in 1 .. m}
  <2>1. CASE m = n + 1
    BY <1>5, <1>7, <1>12, <1>14, <2>1
  <2>2. CASE m # n + 1
    <3>1. m \in 0 .. n /\ \A i \in 1 .. m : i \in 1 .. n
      BY <1>4, <2>2
    <3>2. {alist'[i] : i \in 1 .. m} = {alist[i] : i \in 1 .. m}
      BY <1>5, <3>1
    <3> QED BY <1>2, <3>1, <3>2, Zenon DEF Chained
  <2> QED BY <2>1, <2>2
<1>16. ASSUME NEW m \in 1 .. n + 1
       PROVE  Turns[m].line = table[alist'[m]] \o Tail(Turns[m - 1].line)
  <2>1. CASE m = n + 1
    BY <1>5, <1>10, <1>14, <2>1, Zenon
  <2>2. CASE m # n + 1
    BY <1>2, <1>5, <1>7, <2>2, Zenon DEF Chained
  <2> QED BY <2>1, <2>2, Zenon
<1>17. \A i \in 1 .. n + 1 : alist'[i] \in DOMAIN table
  BY <1>1, <1>2, <1>5, <1>7 DEF Chained
<1>18. Chained'
  BY <1>1, <1>3, <1>5, <1>8, <1>9, <1>15, <1>16, <1>17, Zenon DEF Chained
<1>19. kw' = Current[1]'
  <2>1. PICK l \in Seq(Word) : l = Turns[n].line /\ Len(l) >= 1
    BY <1>11 DEF Turn
  <2>2. PICK r \in Seq(Word) : r = table[kw] /\ Len(r) >= 1
    BY <1>1, <1>2 DEF Replaces
  <2>3. 1 \in 1 .. Len(r)
    BY <2>2, Indexed
  <2>4. (r \o Tail(l))[1] = r[1]
    BY <2>1, <2>2, <2>3, ReplacedLine, ZenonT(30)
  <2> QED BY <1>1, <1>3, <1>5, <1>14, <2>1, <2>2, <2>4 DEF Current
<1>20. Replaces(table)' /\ LineInv' /\ AnsweredAsRewritten'
  BY <1>1, <1>2, Expanding
<1> QED BY <1>1, <1>2, <1>18, <1>19, <1>20 DEF AliasInv

\* Between the passes: the array is one for the rewritten line, and holds the
\* arguments of the line at its end.
LEMMA AllocateStep ==
    ASSUME AliasInv, Allocate
    PROVE  AliasInv'
<1> DEFINE n == Len(alist)
           slots == 1 + ExtraFrom(1)
<1>1. /\ phase = "chain" /\ Ended /\ table' = table /\ argv' = argv /\ typed' = typed
      /\ kw' = kw /\ alist' = alist /\ copied' = copied /\ reply' = reply
      /\ phase' = IF alist = <<>> THEN "dispatch" ELSE "copy"
      /\ nargv' = [s \in 0 .. slots + Len(argv) - 2 |->
                     IF s < slots THEN Hole ELSE argv[s - slots + 2]]
      /\ pos' = slots - 1
  BY DEF Allocate, Sized
<1>2. Replaces(table) /\ LineInv /\ Chained /\ kw = Current[1] /\ argv = typed /\ copied = 0
  BY <1>1 DEF AliasInv
<1>3. Turns' = Turns /\ Current' = Current
  BY <1>1 DEF Turns, Rewriting, Substituted, Current
<1>4. Stopped /\ Stopped' /\ Chained' /\ Replaces(table)' /\ LineInv'
  BY <1>1, <1>2, <1>3, ZenonT(30) DEF Ended, Stopped, Chained, Replaces, LineInv
<1>5. \A m : ExtraTo(m)' = ExtraTo(m)
  BY <1>1 DEF ExtraTo, Extra
<1>6. n \in Nat /\ 0 \in 0 .. n /\ n \in 0 .. n
  BY <1>2, Indexed DEF Chained
<1>7. PICK e \in Nat, k \in Nat : /\ e = ExtraTo(n) /\ k = Len(typed) /\ k >= 1
                                  /\ Len(Current) = k + e
  BY <1>2, <1>6, Lengths, Indexed DEF LineInv, Current
<1>8. ExtraTo(0) = 0 /\ Turns[0].line = typed
  <2>1. Turns[0] = [line |-> typed, expanded |-> {}]
    BY <1>2, RewritingTurns, Zenon DEF LineInv, Turns
  <2> QED BY <1>2, <2>1, ExtraAdds
<1>9. slots = 1 + e
  BY <1>7, <1>8 DEF ExtraFrom
<1>10. /\ nargv' = [s \in 0 .. (k + e) - 1 |-> IF s < 1 + e THEN Hole ELSE typed[s - (1 + e) + 2]]
       /\ pos' = e
  <2>1. (1 + e) + k - 2 = (k + e) - 1 /\ (1 + e) - 1 = e
    OBVIOUS
  <2> HIDE DEF slots
  <2> QED BY <1>1, <1>2, <1>7, <1>9, <2>1
<1>11. Copying'
  <2>1. ExtraFrom(1)' = e /\ (copied + 1)' = 1 /\ copied' \in 0 .. Len(alist')
    BY <1>1, <1>2, <1>5, <1>6, <1>7, <1>8 DEF ExtraFrom
  <2>2. DOMAIN nargv' = 0 .. Len(Current') - 1
    BY <1>3, <1>7, <1>10
  <2>3. ASSUME NEW s \in 0 .. (k + e) - 1
        PROVE  nargv'[s] = IF s <= e THEN Hole ELSE typed[s - e + 1]
    BY <1>10
  <2>4. \A s \in DOMAIN nargv' : nargv'[s] = IF s <= pos' THEN Hole ELSE Turns'[copied'].line[s - pos' + 1]
    BY <1>1, <1>2, <1>3, <1>8, <1>10, <2>3, Zenon
  <2>5. pos' = ExtraFrom(copied + 1)'
    BY <1>10, <2>1, Zenon DEF ExtraFrom
  <2> QED BY <1>1, <1>2, <2>1, <2>2, <2>4, <2>5 DEF Copying
<1>12. AnsweredAsRewritten' /\ Rewritten(typed)' = Rewritten(typed)
  BY <1>1, Expanding
<1>13. alist = <<>> => Rewritten(typed) = typed
  BY <1>2, <1>4, RewrittenIs, ChainStarts
<1> QED BY <1>1, <1>2, <1>4, <1>11, <1>12, <1>13 DEF AliasInv

\* The second pass, one alias.
LEMMA CopyStep ==
    ASSUME AliasInv, Copy
    PROVE  AliasInv'
<1> DEFINE c == copied
           n == Len(alist)
           next == pos - Extra(c + 1)
<1>1. /\ phase = "copy" /\ phase' = "copy" /\ c < n
      /\ table' = table /\ argv' = argv /\ typed' = typed /\ alist' = alist /\ reply' = reply
      /\ nargv' = [s \in DOMAIN nargv |-> IF s \in next + 1 .. pos
                                            THEN table[alist[c + 1]][s - next + 1] ELSE nargv[s]]
      /\ pos' = next /\ kw' = table[alist[c + 1]][1] /\ copied' = c + 1
  BY DEF Copy
<1>2. /\ Replaces(table) /\ LineInv /\ argv = typed /\ alist # <<>>
      /\ Chained /\ Stopped /\ Copying
  BY <1>1 DEF AliasInv
<1>3. /\ Replaces(table)' /\ LineInv' /\ Turns' = Turns
      /\ AnsweredAsRewritten' /\ Rewritten(typed)' = Rewritten(typed)
  BY <1>1, <1>2, Expanding, Zenon, SMTT(30)
<1>4. Current' = Current /\ Chained' /\ Stopped'
  BY <1>1, <1>2, <1>3, ZenonT(30) DEF Current, Chained, Stopped
<1>5. \A m : ExtraTo(m)' = ExtraTo(m)
  BY <1>1 DEF ExtraTo, Extra
<1>6. n \in Nat /\ c \in Nat /\ c \in 0 .. n /\ c + 1 \in 1 .. n /\ c + 1 \in 0 .. n /\ n \in 0 .. n
      /\ (c + 1) - 1 = c
  BY <1>1, <1>2, Indexed DEF Chained, Copying
<1>7. PICK e \in Nat, t \in Nat, k \in Nat, x \in Nat :
          /\ t = ExtraTo(n) /\ e = ExtraTo(c) /\ k = Len(typed) /\ k >= 1
          /\ x = Extra(c + 1) /\ ExtraTo(c + 1) = e + x
          /\ Len(Current) = k + t
  <2>1. ExtraTo(n) \in Nat /\ Len(Current) = Len(typed) + ExtraTo(n) /\ ExtraTo(c) \in Nat
    BY <1>2, <1>6, Lengths DEF Current
  <2>2. Extra(c + 1) \in Nat /\ ExtraTo(c + 1) = ExtraTo(c) + Extra(c + 1)
    BY <1>2, <1>6, ExtraAdds
  <2>3. Len(typed) \in Nat /\ Len(typed) >= 1
    BY <1>2, Indexed DEF LineInv
  <2> QED BY <2>1, <2>2, <2>3
<1>8. PICK l \in Seq(Word) : l = Turns[c].line /\ Len(l) = k + e
  BY <1>2, <1>6, <1>7, Lengths, Zenon
<1>9. PICK r \in Seq(Word) : r = table[alist[c + 1]] /\ Len(r) = x + 1
  BY <1>2, <1>6, <1>7, ExtraAdds, Zenon DEF Chained, Replaces
<1>10. Turns[c + 1].line = r \o Tail(l)
  BY <1>2, <1>6, <1>8, <1>9, Zenon DEF Chained
<1>11. /\ \A i \in 1 .. x + 1 : (r \o Tail(l))[i] = r[i]
       /\ \A i \in 2 .. k + e : (r \o Tail(l))[i + (x + 1) - 1] = l[i]
  <2>1. Len(r) >= 1 /\ Len(l) >= 1
    <3>1. k >= 1
      BY <1>7
    <3>2. x + 1 >= 1 /\ k + e >= 1
      BY <3>1
    <3> QED BY <1>8, <1>9, <3>2, Zenon
  <2>2. /\ \A i \in 1 .. Len(r) : (r \o Tail(l))[i] = r[i]
        /\ \A i \in 2 .. Len(l) : (r \o Tail(l))[i + Len(r) - 1] = l[i]
    BY <2>1, ReplacedLine
  <2> QED BY <1>8, <1>9, <2>2, Zenon
<1>12. pos = t - e /\ next = t - e - x
  BY <1>2, <1>6, <1>7 DEF Copying, ExtraFrom
<1>13. /\ DOMAIN nargv = 0 .. (k + t) - 1
       /\ \A s \in 0 .. (k + t) - 1 : nargv[s] = IF s <= t - e THEN Hole ELSE l[s - (t - e) + 1]
  BY <1>2, <1>7, <1>8, <1>12, Zenon DEF Copying
<1>14. nargv' = [s \in 0 .. (k + t) - 1 |-> IF s \in (t - e - x) + 1 .. t - e
                                             THEN r[s - (t - e - x) + 1] ELSE nargv[s]]
  <2> HIDE DEF next
  <2> QED BY <1>1, <1>9, <1>12, <1>13
<1>15. ASSUME NEW s \in 0 .. (k + t) - 1
       PROVE  nargv'[s] = IF s <= t - e - x THEN Hole ELSE (r \o Tail(l))[s - (t - e - x) + 1]
  <2>1. CASE s <= t - e - x
    <3>1. s <= t - e /\ s \notin (t - e - x) + 1 .. t - e
      BY <2>1
    <3> QED BY <1>13, <1>14, <2>1, <3>1
  <2>2. CASE s > t - e - x /\ s <= t - e
    <3>1. s \in (t - e - x) + 1 .. t - e /\ s - (t - e - x) + 1 \in 1 .. x + 1
      BY <2>2
    <3>2. nargv'[s] = r[s - (t - e - x) + 1]
      BY <1>14, <3>1
    <3>3. (r \o Tail(l))[s - (t - e - x) + 1] = r[s - (t - e - x) + 1]
      BY <1>11, <3>1, Zenon
    <3>4. ~(s <= t - e - x)
      BY <2>2
    <3> QED BY <3>2, <3>3, <3>4, Zenon
  <2>3. CASE s > t - e
    <3>1. s \notin (t - e - x) + 1 .. t - e /\ s - (t - e) + 1 \in 2 .. k + e
          /\ (s - (t - e) + 1) + (x + 1) - 1 = s - (t - e - x) + 1 /\ ~(s <= t - e - x)
      BY <2>3
    <3>2. nargv'[s] = l[s - (t - e) + 1]
      BY <1>13, <1>14, <2>3, <3>1
    <3>3. (r \o Tail(l))[(s - (t - e) + 1) + (x + 1) - 1] = l[s - (t - e) + 1]
      BY <1>11, <3>1, Zenon
    <3> QED BY <3>1, <3>2, <3>3, Zenon
  <2>4. s <= t - e - x \/ (s > t - e - x /\ s <= t - e) \/ s > t - e
    OBVIOUS
  <2> QED BY <2>1, <2>2, <2>3, <2>4, Zenon
<1>16. Copying'
  <2>1. pos' = t - e - x /\ copied' = c + 1
    BY <1>1, <1>12
  <2>2. ExtraFrom(copied + 1)' = t - (e + x)
    <3>1. (copied + 1)' - 1 = c + 1
      BY <1>1, <1>6
    <3> QED BY <1>1, <1>5, <1>7, <3>1 DEF ExtraFrom
  <2>3. t - e - x = t - (e + x)
    OBVIOUS
  <2>4. DOMAIN nargv' = 0 .. Len(Current') - 1
    BY <1>4, <1>7, <1>14
  <2>5. \A s \in DOMAIN nargv' : nargv'[s] = IF s <= pos' THEN Hole ELSE Turns'[copied'].line[s - pos' + 1]
    BY <1>3, <1>10, <1>14, <1>15, <2>1, Zenon
  <2>6. kw' = Turns'[copied'].line[1]
    <3>1. 1 \in 1 .. x + 1
      BY <1>7
    <3>2. (r \o Tail(l))[1] = r[1]
      BY <1>11, <3>1, Zenon
    <3> QED BY <1>1, <1>3, <1>9, <1>10, <2>1, <3>2, Zenon
  <2>7. copied' \in 0 .. Len(alist')
    BY <1>1, <1>6
  <2> QED BY <2>1, <2>2, <2>3, <2>4, <2>5, <2>6, <2>7 DEF Copying
<1> QED BY <1>1, <1>2, <1>3, <1>4, <1>16 DEF AliasInv

\* The end of alias_expand: the array is the rewritten line.
LEMMA FinishStep ==
    ASSUME AliasInv, Finish
    PROVE  AliasInv'
<1> DEFINE n == Len(alist)
<1>1. /\ phase = "copy" /\ phase' = "dispatch" /\ copied = n
      /\ table' = table /\ typed' = typed /\ reply' = reply
      /\ nargv' = [nargv EXCEPT ![pos] = kw]
      /\ argv' = [i \in 1 .. Cardinality(DOMAIN nargv) |-> nargv'[i - 1]]
  BY DEF Finish, FinishWith
<1>2. /\ Replaces(table) /\ LineInv /\ alist # <<>> /\ Chained /\ Stopped /\ Copying
  BY <1>1 DEF AliasInv
<1>3. /\ Replaces(table)' /\ LineInv'
      /\ AnsweredAsRewritten' /\ Rewritten(typed)' = Rewritten(typed)
  BY <1>1, <1>2, Expanding
<1>4. n \in Nat /\ n # 0 /\ n \in 0 .. n /\ (n + 1) - 1 = n
  BY <1>2, Indexed, NoElements DEF Chained
<1>5. PICK l \in Seq(Word), m \in Nat : l = Current /\ Len(l) = m /\ m >= 1
  <2>1. /\ ExtraTo(n) \in Nat /\ Current \in Seq(Word)
        /\ Len(Current) = Len(typed) + ExtraTo(n)
    BY <1>2, <1>4, Lengths DEF Current
  <2>2. Len(typed) \in Nat /\ Len(typed) >= 1
    BY <1>2, Indexed DEF LineInv
  <2> QED BY <2>1, <2>2
<1>6. pos = 0
  <2>1. ExtraTo(n) \in Nat
    BY <1>2, <1>4, Lengths
  <2> QED BY <1>1, <1>2, <1>4, <2>1 DEF Copying, ExtraFrom
<1>7. /\ DOMAIN nargv = 0 .. m - 1
      /\ \A s \in 0 .. m - 1 : nargv[s] = IF s <= 0 THEN Hole ELSE l[s - 0 + 1]
      /\ kw = l[1]
  BY <1>1, <1>2, <1>4, <1>5, <1>6, Zenon, SMTT(30) DEF Copying, Current
<1>8. Cardinality(DOMAIN nargv) = m
  BY <1>7, Counting
<1>9. ASSUME NEW i \in 1 .. m PROVE nargv'[i - 1] = l[i]
  <2>1. i - 1 \in 0 .. m - 1 /\ (i - 1) - 0 + 1 = i
    OBVIOUS
  <2>2. CASE i = 1
    BY <1>1, <1>6, <1>7, <2>1, <2>2
  <2>3. CASE i # 1
    <3>1. i - 1 # 0 /\ ~(i - 1 <= 0)
      BY <2>3
    <3>2. nargv'[i - 1] = nargv[i - 1]
      BY <1>1, <1>6, <1>7, <2>1, <3>1
    <3> QED BY <1>7, <2>1, <3>1, <3>2
  <2> QED BY <2>2, <2>3
<1>10. argv' = [i \in 1 .. m |-> l[i]]
  BY <1>1, <1>8, <1>9
<1>11. argv' = l
  <2>1. l = [i \in 1 .. m |-> l[i]]
    BY <1>5, Indexed
  <2> QED BY <1>10, <2>1
<1>12. Rewritten(typed) = l
  BY <1>2, <1>5, RewrittenIs
<1> QED BY <1>1, <1>3, <1>11, <1>12 DEF AliasInv

\* locate_command and the call of the handler.
LEMMA DispatchStep ==
    ASSUME AliasInv, Dispatch
    PROVE  AliasInv'
<1>1. /\ phase = "dispatch" /\ phase' = "idle" /\ table' = table /\ typed' = typed
      /\ reply' = [code |-> Answer(argv), argv |-> argv]
  BY DEF Dispatch
<1>2. Replaces(table)' /\ argv = Rewritten(typed)
  BY <1>1 DEF AliasInv, Replaces
<1>3. Rewritten(typed)' = Rewritten(typed)
  BY <1>1 DEF Rewritten, Rewriting, Substituted
<1>4. reply'.argv = Rewritten(typed)' /\ reply'.code = Answer(Rewritten(typed))'
  BY <1>1, <1>2, <1>3
<1>5. AnsweredAsRewritten'
  BY <1>4 DEF AnsweredAsRewritten
<1> QED BY <1>1, <1>2, <1>5 DEF AliasInv

\* The invariant is inductive.
THEOREM AliasInvariant == Spec => []AliasInv
<1>1. Init => AliasInv
  <2> SUFFICES ASSUME Init PROVE AliasInv
    OBVIOUS
  <2>1. phase = "config" /\ table = <<>> /\ reply = NoReply
    BY DEF Init
  <2>2. Replaces(table)
    BY <2>1 DEF Replaces
  <2> QED BY <2>1, <2>2 DEF AliasInv, AnsweredAsRewritten
<1>2. AliasInv /\ [Next]_vars => AliasInv'
  <2> SUFFICES ASSUME AliasInv, [Next]_vars PROVE AliasInv'
    OBVIOUS
  <2>1. CASE \E k \in Word, r \in Lines(MaxReplacement) : alias_install(k, r)
    BY <2>1, InstallStep
  <2>2. CASE Configured
    <3>1. phase = "config" /\ phase' = "idle" /\ UNCHANGED <<table, typed, reply>>
      BY <2>2 DEF Configured
    <3> QED BY <3>1, Expanding DEF AliasInv
  <2>3. CASE \E line \in Lines(MaxLine) : Command(line)
    BY <2>3, CommandStep
  <2>4. CASE Collect
    BY <2>4, CollectStep
  <2>5. CASE Allocate
    BY <2>5, AllocateStep
  <2>6. CASE Copy
    BY <2>6, CopyStep
  <2>7. CASE Finish
    BY <2>7, FinishStep
  <2>8. CASE Dispatch
    BY <2>8, DispatchStep
  <2>9. CASE UNCHANGED vars
    <3>1. UNCHANGED <<table, phase, argv, typed, kw, alist, copied, nargv, pos, reply>>
      BY <2>9 DEF vars
    <3>2. Turns' = Turns /\ Current' = Current /\ \A m : ExtraTo(m)' = ExtraTo(m)
      BY <3>1, SMTT(30), ZenonT(30) DEF Turns, Rewriting, Substituted, Current, ExtraTo, Extra
    <3>3. (Chained => Chained') /\ (Stopped => Stopped') /\ (Copying => Copying')
      BY <3>1, <3>2, ZenonT(30) DEF Chained, Stopped, Copying, ExtraFrom
    <3> QED BY <3>1, <3>2, <3>3, Expanding DEF AliasInv
  <2> QED BY <2>1, <2>2, <2>3, <2>4, <2>5, <2>6, <2>7, <2>8, <2>9 DEF Next, Handling
<1> QED BY <1>1, <1>2, PTL DEF Spec

\* The array of alias_expand is sized exactly and filled exactly, whatever
\* the aliases and the line: no store goes before it, and no slot of a line
\* that is dispatched is left NULL.
THEOREM AliasArray == Spec => []ArrayExact
<1>1. AliasInv => ArrayExact
  <2> SUFFICES ASSUME AliasInv PROVE ArrayExact
    OBVIOUS
  <2>1. ASSUME phase = "copy"
        PROVE  /\ pos = ExtraFrom(copied + 1)
               /\ \A s \in DOMAIN nargv : (nargv[s] = Hole) <=> (s <= pos)
    <3> DEFINE n == Len(alist)
    <3>1. Replaces(table) /\ LineInv /\ Chained /\ Copying
      BY <2>1 DEF AliasInv
    <3>2. n \in Nat /\ n \in 0 .. n /\ copied \in 0 .. n /\ (copied + 1) - 1 = copied
      BY <3>1, Indexed DEF Chained, Copying
    <3>3. PICK t \in Nat, e \in Nat, k \in Nat :
              /\ t = ExtraTo(n) /\ e = ExtraTo(copied) /\ k = Len(typed)
              /\ Len(Current) = k + t
      <4>1. ExtraTo(n) \in Nat /\ Len(Current) = Len(typed) + ExtraTo(n) /\ ExtraTo(copied) \in Nat
        BY <3>1, <3>2, Lengths DEF Current
      <4>2. Len(typed) \in Nat
        BY <3>1, Indexed DEF LineInv
      <4> QED BY <4>1, <4>2
    <3>4. PICK l \in Seq(Word) : l = Turns[copied].line /\ Len(l) = k + e
      BY <3>1, <3>2, <3>3, Lengths, Zenon, SMTT(30)
    <3>5. pos = t - e
      BY <3>1, <3>2, <3>3 DEF Copying, ExtraFrom
    <3>6. /\ DOMAIN nargv = 0 .. (k + t) - 1
          /\ \A s \in 0 .. (k + t) - 1 :
                nargv[s] = IF s <= t - e THEN Hole ELSE l[s - (t - e) + 1]
      BY <3>1, <3>3, <3>4, <3>5, Zenon DEF Copying
    <3>7. ASSUME NEW s \in 0 .. (k + t) - 1, ~(s <= t - e) PROVE l[s - (t - e) + 1] # Hole
      <4>1. s - (t - e) + 1 \in 1 .. k + e
        BY <3>7
      <4>2. l[s - (t - e) + 1] \in Word
        BY <3>4, <4>1, Indexed
      <4> QED BY <4>2, AliasAssumption
    <3>8. \A s \in DOMAIN nargv : (nargv[s] = Hole) <=> (s <= pos)
      BY <3>5, <3>6, <3>7, Zenon
    <3> QED BY <3>1, <3>8 DEF Copying
  <2>2. ASSUME phase = "dispatch" PROVE \A i \in DOMAIN argv : argv[i] # Hole
    <3>1. Replaces(table) /\ LineInv /\ argv = Rewritten(typed)
      BY <2>2 DEF AliasInv
    <3>2. Cardinality(Word) \in 0 .. Cardinality(Word)
      BY WordCount
    <3>3. Turns[Cardinality(Word)] \in Turn
      BY <3>1, <3>2, RewritingTurns, Zenon DEF LineInv, Turns
    <3>4. argv \in Seq(Word)
      BY <3>1, <3>3 DEF Rewritten, Turns, Turn
    <3>5. \A i \in DOMAIN argv : argv[i] \in Word
      BY <3>4, Indexed
    <3> QED BY <3>5, AliasAssumption
  <2> QED BY <2>1, <2>2 DEF ArrayExact
<1> QED BY <1>1, AliasInvariant, PTL

\* alias_expand gives the line that substituting the first word again and
\* again gives, circles of aliases included, and dicod_handle_command answers
\* a typed line as it answers that one.
THEOREM AliasRewrites == Spec => []AnsweredAsRewritten
<1>1. AliasInv => AnsweredAsRewritten
  BY DEF AliasInv
<1> QED BY <1>1, AliasInvariant, PTL
=============================================================================
