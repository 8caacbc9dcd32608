----------------------------- MODULE ListProof -----------------------------
(***************************************************************************)
(* The list of libdico is a sequence, for any length and any number of     *)
(* iterators: no pointer dangles, both directions agree, an iterator's     *)
(* position is exact, and every walk is the one ItemSeq promises.          *)
(***************************************************************************)
EXTENDS List, FiltersProof, FiniteSetTheorems

-----------------------------------------------------------------------------
(* Parts of a sequence.                                                    *)

\* A part that ends before it begins.
LEMMA NoPart ==
    ASSUME NEW s, NEW m \in Int, NEW n \in Int, n < m
    PROVE  SubSeq(s, m, n) = <<>>
OBVIOUS

\* The first element of a part, and the others.
LEMMA PartFrom ==
    ASSUME NEW S, NEW s \in Seq(S), NEW m \in 1 .. Len(s), NEW n \in m .. Len(s)
    PROVE  /\ Head(SubSeq(s, m, n)) = s[m] /\ Tail(SubSeq(s, m, n)) = SubSeq(s, m + 1, n)
           /\ SubSeq(s, m, n) = <<s[m]>> \o SubSeq(s, m + 1, n)
OBVIOUS

\* The whole sequence, and all but its first element.
LEMMA WholePart ==
    ASSUME NEW S, NEW s \in Seq(S)
    PROVE  SubSeq(s, 1, Len(s)) = s /\ (s # <<>> => Tail(s) = SubSeq(s, 2, Len(s)))
OBVIOUS

-----------------------------------------------------------------------------
(* Loops along a field.                                                    *)

\* A turn of the loop of Along, after the walks w of fewer turns.
AlongStep(f, w, j) ==
    [m \in Ptr |-> IF j = 0 \/ m = Null THEN <<>> ELSE <<m>> \o w[j - 1][f[m]]]

\* The recursion of Along is well founded.
LEMMA AlongRecursion ==
    ASSUME NEW f, NEW k \in Nat
    PROVE  \E w : /\ \A j \in 0 .. k : w[j] = AlongStep(f, w, j)
                  /\ \A n : Along(f, n, k) = w[k][n]
<1> DEFINE Solved == {n \in Nat : \E w : w = [j \in 0 .. n |-> AlongStep(f, w, j)]}
<1>1. 0 \in Solved
  <2> DEFINE w == [j \in 0 .. 0 |-> [m \in Ptr |-> <<>>]]
  <2>1. w = [j \in 0 .. 0 |-> AlongStep(f, w, j)]
    BY DEF AlongStep
  <2> HIDE DEF w
  <2> QED BY <2>1
<1>2. ASSUME NEW n \in Solved PROVE n + 1 \in Solved
  <2>1. PICK w : w = [j \in 0 .. n |-> AlongStep(f, w, j)]
    OBVIOUS
  <2>2. \A j \in 0 .. n : w[j] = AlongStep(f, w, j)
    BY <2>1, Zenon
  <2> DEFINE v == [j \in 0 .. n + 1 |-> IF j = n + 1 THEN AlongStep(f, w, n + 1) ELSE w[j]]
  <2>3. ASSUME NEW j \in 0 .. n + 1 PROVE v[j] = AlongStep(f, v, j)
    <3>1. CASE j = 0
      BY <2>2, <3>1 DEF AlongStep
    <3>2. CASE j # 0
      <4>1. j - 1 \in 0 .. n /\ v[j - 1] = w[j - 1]
        BY <3>2
      <4>2. AlongStep(f, v, j) = AlongStep(f, w, j)
        <5> HIDE DEF v
        <5> QED BY <4>1, Zenon DEF AlongStep
      <4>3. j # n + 1 => w[j] = AlongStep(f, w, j)
        BY <2>2
      <4> QED BY <4>2, <4>3
    <3> QED BY <3>1, <3>2
  <2>4. v = [j \in 0 .. n + 1 |-> AlongStep(f, v, j)]
    BY <2>3
  <2> HIDE DEF v
  <2>5. \E u : u = [j \in 0 .. n + 1 |-> AlongStep(f, u, j)]
    BY <2>4
  <2> QED BY <2>5
<1>3. Solved = Nat
  <2> HIDE DEF Solved
  <2>1. Solved \in SUBSET Nat
    BY DEF Solved
  <2> QED BY <1>1, <1>2, <2>1, SetInduction
<1> DEFINE w == CHOOSE u : u = [j \in 0 .. k |-> AlongStep(f, u, j)]
<1>4. w = [j \in 0 .. k |-> AlongStep(f, w, j)]
  <2>1. \E u : u = [j \in 0 .. k |-> AlongStep(f, u, j)]
    BY <1>3
  <2> QED BY <2>1
<1>5. \A n : Along(f, n, k) = w[k][n]
  BY DEF Along, AlongStep
<1> HIDE DEF w
<1>6. \A j \in 0 .. k : w[j] = AlongStep(f, w, j)
  BY <1>4, Zenon
<1> QED BY <1>5, <1>6

\* The node at a place of s, Null beyond its ends.
At(s, k) == IF k \in 1 .. Len(s) THEN s[k] ELSE Null

\* Field f leads from each node of s to the next one.
Follows(f, s) == \A k \in 1 .. Len(s) : f[s[k]] = At(s, k + 1)

\* A loop along a field that leads through s visits the nodes of s.
LEMMA AlongVisits ==
    ASSUME NEW s \in Seq(Node), NEW f, Follows(f, s), NEW k \in Nat,
           NEW a \in 1 .. Len(s) + 1
    PROVE  /\ k >= Len(s) + 1 - a => Along(f, At(s, a), k) = SubSeq(s, a, Len(s))
           /\ k <= Len(s) + 1 - a => Along(f, At(s, a), k) = SubSeq(s, a, a + k - 1)
<1> DEFINE End(b, j) == IF j >= Len(s) + 1 - b THEN Len(s) ELSE b + j - 1
<1>0. Len(s) \in Nat /\ Null \notin Node
  BY ListAssumption
<1>1. PICK w : /\ \A j \in 0 .. k : w[j] = AlongStep(f, w, j)
               /\ \A n : Along(f, n, k) = w[k][n]
  BY AlongRecursion
<1> DEFINE Good == {j \in Nat : j <= k => \A b \in 1 .. Len(s) + 1 :
                                  w[j][At(s, b)] = SubSeq(s, b, End(b, j))}
<1>2. \A b \in 1 .. Len(s) + 1 : At(s, b) \in Ptr /\ (At(s, b) = Null <=> b = Len(s) + 1)
  <2>1. \A b \in 1 .. Len(s) : s[b] \in Node
    OBVIOUS
  <2> QED BY <1>0, <2>1 DEF At, Ptr
<1>3. 0 \in Good
  <2> SUFFICES ASSUME NEW b \in 1 .. Len(s) + 1
               PROVE  w[0][At(s, b)] = SubSeq(s, b, End(b, 0))
    OBVIOUS
  <2>1. w[0][At(s, b)] = <<>>
    <3>1. w[0] = AlongStep(f, w, 0)
      BY <1>1
    <3> QED BY <1>2, <3>1 DEF AlongStep
  <2>2. End(b, 0) < b /\ End(b, 0) \in Int
    BY <1>0
  <2> QED BY <2>1, <2>2, NoPart, SMTT(30)
<1>4. ASSUME NEW j \in Good PROVE j + 1 \in Good
  <2> SUFFICES ASSUME j + 1 <= k, NEW b \in 1 .. Len(s) + 1
               PROVE  w[j + 1][At(s, b)] = SubSeq(s, b, End(b, j + 1))
    OBVIOUS
  <2>1. j + 1 \in 0 .. k /\ j + 1 # 0 /\ (j + 1) - 1 = j
    OBVIOUS
  <2>2. w[j + 1][At(s, b)] = IF At(s, b) = Null THEN <<>>
                             ELSE <<At(s, b)>> \o w[j][f[At(s, b)]]
    <3>1. w[j + 1] = AlongStep(f, w, j + 1)
      BY <1>1, <2>1
    <3> QED BY <1>2, <2>1, <3>1 DEF AlongStep
  <2>3. CASE b = Len(s) + 1
    <3>1. End(b, j + 1) < b /\ End(b, j + 1) \in Int
      BY <1>0, <2>3
    <3> QED BY <1>2, <2>2, <2>3, <3>1, NoPart
  <2>4. CASE b # Len(s) + 1
    <3>1. b \in 1 .. Len(s) /\ b + 1 \in 1 .. Len(s) + 1 /\ At(s, b) = s[b]
      BY <1>0, <2>4 DEF At
    <3>2. f[s[b]] = At(s, b + 1)
      BY <3>1 DEF Follows
    <3>3. w[j][At(s, b + 1)] = SubSeq(s, b + 1, End(b + 1, j))
      BY <3>1
    <3>4. End(b + 1, j) = End(b, j + 1) /\ End(b, j + 1) \in b .. Len(s)
      BY <1>0, <3>1
    <3>5. SubSeq(s, b, End(b, j + 1)) = <<s[b]>> \o SubSeq(s, b + 1, End(b, j + 1))
      BY <3>1, <3>4, PartFrom, Zenon
    <3> QED BY <1>2, <2>2, <2>4, <3>1, <3>2, <3>3, <3>4, <3>5, Zenon
  <2> QED BY <2>3, <2>4
<1>5. Good = Nat
  <2> HIDE DEF Good
  <2>1. Good \in SUBSET Nat
    BY DEF Good
  <2> QED BY <1>3, <1>4, <2>1, SetInduction
<1>6. Along(f, At(s, a), k) = SubSeq(s, a, End(a, k))
  <2>1. k \in Good
    BY <1>5, Zenon, SMTT(30)
  <2>2. w[k][At(s, a)] = SubSeq(s, a, End(a, k))
    BY <2>1
  <2> HIDE DEF End
  <2> QED BY <1>1, <2>2
<1> QED BY <1>0, <1>6

-----------------------------------------------------------------------------
(* The invariant.                                                          *)

FieldTypes ==
    /\ next \in [Node -> Ptr] /\ prev \in [Node -> Ptr]
    /\ itr \subseteq Iterator
    /\ cur \in [Iterator -> Ptr] /\ advanced \in [Iterator -> BOOLEAN]
    /\ pos \in [Iterator -> 0 .. SizeT - 1] /\ intact \in [Iterator -> BOOLEAN]

(***************************************************************************)
(* The links say that the list is s.                                       *)
(***************************************************************************)
Lists(s) ==
    /\ s \in Seq(Node)
    /\ \A k, m \in 1 .. Len(s) : s[k] = s[m] => k = m
    /\ alloc = Range(s) /\ count = Len(s)
    /\ head = At(s, 1) /\ tail = At(s, Len(s))
    /\ Follows(next, s)
    /\ \A k \in 1 .. Len(s) : prev[s[k]] = At(s, k - 1)

(***************************************************************************)
(* An iterator is on an entry of s; if it is not attached, or has come to  *)
(* an end, on none; and where its position says if its walk is intact.     *)
(***************************************************************************)
Stands(s) ==
    \A i \in Iterator :
        /\ cur[i] \in alloc \cup {Null}
        /\ i \notin itr => cur[i] = Null
        /\ intact[i] => ~advanced[i] /\ cur[i] = At(s, pos[i] + 1)

ListInv == FieldTypes /\ \E s : Lists(s) /\ Stands(s)

\* A list is no longer than the heap.
LEMMA ListsFit ==
    \A s : Lists(s) => /\ Len(s) \in Nat /\ Len(s) <= Cardinality(Node)
                       /\ Cardinality(Node) \in Nat /\ Len(s) < SizeT
                       /\ IsFiniteSet(alloc) /\ Cardinality(alloc) = Len(s)
<1> SUFFICES ASSUME NEW s, Lists(s)
             PROVE  /\ Len(s) \in Nat /\ Len(s) <= Cardinality(Node)
                    /\ Cardinality(Node) \in Nat /\ Len(s) < SizeT
                    /\ IsFiniteSet(alloc) /\ Cardinality(alloc) = Len(s)
  OBVIOUS
<1>1. /\ s \in Seq(Node) /\ Len(s) \in Nat /\ DOMAIN s = 1 .. Len(s)
      /\ \A k, m \in 1 .. Len(s) : s[k] = s[m] => k = m
      /\ alloc = Range(s)
  BY DEF Lists
<1>2. alloc \subseteq Node
  BY <1>1 DEF Range
<1>3. IsFiniteSet(1 .. Len(s)) /\ Cardinality(1 .. Len(s)) = Len(s)
  BY <1>1, FS_Interval, SMTT(30)
<1>4. s \in Bijection(1 .. Len(s), alloc)
  <2>1. s \in [1 .. Len(s) -> alloc]
    BY <1>1 DEF Range
  <2>2. \A y \in alloc : \E k \in 1 .. Len(s) : s[k] = y
    BY <1>1 DEF Range
  <2> QED BY <1>1, <2>1, <2>2 DEF Bijection, Injection, Surjection, IsInjective
<1>5. IsFiniteSet(alloc) /\ Cardinality(alloc) = Len(s)
  <2>1. ExistsBijection(1 .. Len(s), alloc)
    BY <1>4 DEF ExistsBijection
  <2> QED BY <1>3, <2>1, FS_Bijection
<1>6. Cardinality(alloc) <= Cardinality(Node) /\ Cardinality(Node) \in Nat
  BY <1>2, FS_Subset, FS_CardinalityType, ListAssumption
<1> QED BY <1>1, <1>5, <1>6, ListAssumption

\* A walk from head meets the entries of s; from one of them, the rest of s.
LEMMA ListsEntries ==
    \A s : Lists(s) => /\ Entries = s
                       /\ \A k \in 1 .. Len(s) + 1 : From(At(s, k)) = SubSeq(s, k, Len(s))
<1> SUFFICES ASSUME NEW s, Lists(s)
             PROVE  /\ Entries = s
                    /\ \A k \in 1 .. Len(s) + 1 : From(At(s, k)) = SubSeq(s, k, Len(s))
  OBVIOUS
<1>1. /\ Len(s) \in Nat /\ Cardinality(Node) \in Nat
      /\ \A k \in 1 .. Len(s) + 1 : Cardinality(Node) >= Len(s) + 1 - k
  BY ListsFit
<1>2. \A k \in 1 .. Len(s) + 1 : From(At(s, k)) = SubSeq(s, k, Len(s))
  BY <1>1, AlongVisits DEF From, Lists
<1>3. SubSeq(s, 1, Len(s)) = s
  BY WholePart DEF Lists
<1>4. Entries = From(At(s, 1)) /\ 1 \in 1 .. Len(s) + 1
  BY <1>1 DEF Entries, Lists
<1> QED BY <1>2, <1>3, <1>4, Zenon

\* The same after a step.
LEMMA ListsNext ==
    /\ \A s : Lists(s)' => Len(s) \in Nat /\ Len(s) < SizeT
    /\ \A s : Lists(s)' =>
         /\ Entries' = s
         /\ \A k \in 1 .. Len(s) + 1 : From(At(s, k))' = SubSeq(s, k, Len(s))
<1>1. (\A s : Lists(s) => Len(s) \in Nat /\ Len(s) < SizeT)'
  <2>1. \A s : Lists(s) => Len(s) \in Nat /\ Len(s) < SizeT
    BY ListsFit
  <2> QED BY <2>1, PTL
<1>2. (\A s : Lists(s) =>
         /\ Entries = s
         /\ \A k \in 1 .. Len(s) + 1 : From(At(s, k)) = SubSeq(s, k, Len(s)))'
  BY ListsEntries, PTL
<1> QED BY <1>1, <1>2

-----------------------------------------------------------------------------
(* What the operations make of s.                                          *)

\* An empty list, without iterators, satisfies the invariant.
LEMMA ListInit == Init => ListInv
<1> SUFFICES ASSUME Init PROVE ListInv
  OBVIOUS
<1>1. FieldTypes
  BY ListAssumption, FS_CardinalityType DEF Init, FieldTypes, Ptr
<1>2. Lists(<<>>) /\ Stands(<<>>)
  BY DEF Init, Lists, Stands, Follows, At, Range
<1> QED BY <1>1, <1>2 DEF ListInv

\* append: malloc returns a node that is not in use, so nothing points to it yet.
LEMMA AppendLists ==
    ASSUME FieldTypes, NEW s, Lists(s), Stands(s), NEW d \in Item,
           NEW ep \in Node \ alloc, Appended(ep, d)
    PROVE  FieldTypes' /\ Lists(Append(s, ep))' /\ Stands(Append(s, ep))'
<1> DEFINE t == Append(s, ep)
<1>0. /\ s \in Seq(Node) /\ Len(s) \in Nat /\ DOMAIN s = 1 .. Len(s)
      /\ alloc = Range(s) /\ ep # Null /\ ep \in Node
      /\ \A k \in 1 .. Len(s) : s[k] \in Node /\ s[k] # Null /\ s[k] # ep
  BY ListAssumption DEF Lists, Range
<1>1. /\ t \in Seq(Node) /\ Len(t) = Len(s) + 1 /\ DOMAIN t = 1 .. Len(s) + 1
      /\ \A k \in 1 .. Len(s) : t[k] = s[k]
      /\ t[Len(s) + 1] = ep
  BY <1>0, Lengthened
<1>2. /\ alloc' = alloc \cup {ep} /\ tail' = ep /\ count' = count + 1
      /\ head' = IF tail # Null THEN head ELSE ep
      /\ prev' = [prev EXCEPT ![ep] = tail]
      /\ next' = [n \in Node |-> IF n = ep THEN Null ELSE IF n = tail THEN ep ELSE next[n]]
      /\ UNCHANGED <<itr, cur, advanced, pos>>
      /\ intact' = [i \in Iterator |-> FALSE]
  BY DEF Appended, Link, LinkAfter, Changed, walks
<1> HIDE DEF t
<1>3. /\ tail = IF Len(s) = 0 THEN Null ELSE s[Len(s)]
      /\ head = IF Len(s) = 0 THEN Null ELSE s[1]
      /\ tail \in Ptr
  BY <1>0 DEF Lists, At, Ptr
<1>4. FieldTypes'
  BY <1>0, <1>2, <1>3 DEF FieldTypes, Ptr
<1>5. \A k, m \in 1 .. Len(t) : t[k] = t[m] => k = m
  BY <1>0, <1>1 DEF Lists
<1>6. alloc' = Range(t) /\ count' = Len(t)
  <2>1. /\ alloc = {s[k] : k \in 1 .. Len(s)} /\ Range(t) = {t[k] : k \in 1 .. Len(t)}
        /\ count = Len(s)
    BY <1>0, <1>1 DEF Range, Lists
  <2>2. Len(t) = Len(s) + 1 /\ Len(s) \in Nat
    BY <1>0, <1>1
  <2>3. Range(t) = alloc \cup {ep}
    BY <1>1, <2>1, <2>2
  <2> QED BY <1>2, <2>1, <2>2, <2>3
<1>7. head' = At(t, 1) /\ tail' = At(t, Len(t))
  BY <1>0, <1>1, <1>2, <1>3 DEF At
<1>8. ASSUME NEW k \in 1 .. Len(t)
      PROVE  next'[t[k]] = At(t, k + 1) /\ prev'[t[k]] = At(t, k - 1)
  <2>1. CASE k = Len(s) + 1
    <3>1. t[k] = ep /\ next'[ep] = Null /\ prev'[ep] = tail
      BY <1>0, <1>1, <1>2, <2>1 DEF FieldTypes
    <3>2. At(t, k + 1) = Null
      BY <1>0, <1>1, <2>1 DEF At
    <3>3. At(t, k - 1) = tail
      BY <1>0, <1>1, <1>3, <2>1 DEF At
    <3> QED BY <3>1, <3>2, <3>3
  <2>2. CASE k # Len(s) + 1
    <3>1. k \in 1 .. Len(s) /\ t[k] = s[k]
      BY <1>0, <1>1, <2>2
    <3>2. next[s[k]] = At(s, k + 1) /\ prev[s[k]] = At(s, k - 1)
      BY <3>1 DEF Lists, Follows
    <3>3. prev'[t[k]] = At(t, k - 1)
      <4>1. prev'[t[k]] = prev[s[k]]
        BY <1>0, <1>2, <3>1 DEF FieldTypes
      <4>2. At(t, k - 1) = At(s, k - 1)
        BY <1>0, <1>1, <3>1 DEF At
      <4> QED BY <3>2, <4>1, <4>2
    <3>4. CASE k = Len(s)
      <4>1. s[k] = tail
        BY <1>3, <3>1, <3>4
      <4> QED BY <1>0, <1>1, <1>2, <3>1, <3>3, <3>4, <4>1 DEF At
    <3>5. CASE k # Len(s)
      <4>1. s[k] # tail
        BY <1>0, <1>3, <3>1, <3>5 DEF Lists
      <4>2. next'[t[k]] = next[s[k]]
        BY <1>0, <1>2, <3>1, <4>1
      <4>3. At(t, k + 1) = At(s, k + 1)
        BY <1>0, <1>1, <3>1, <3>5 DEF At
      <4> QED BY <3>2, <3>3, <4>2, <4>3
    <3> QED BY <3>4, <3>5
  <2> QED BY <2>1, <2>2
<1>9. Lists(t)'
  BY <1>1, <1>5, <1>6, <1>7, <1>8 DEF Lists, Follows
<1>10. Stands(t)'
  BY <1>2 DEF Stands
<1> QED BY <1>4, <1>9, <1>10 DEF t

\* s without its element at m.
Without(s, m) == [k \in 1 .. Len(s) - 1 |-> IF k < m THEN s[k] ELSE s[k + 1]]

\* remove_item: the neighbours are joined, and the iterators on the entry
\* that goes move on.
LEMMA RemoveLists ==
    ASSUME FieldTypes, NEW s, Lists(s), Stands(s), NEW m \in 1 .. Len(s),
           remove_item(s[m])
    PROVE  FieldTypes' /\ Lists(Without(s, m))' /\ Stands(Without(s, m))'
<1> DEFINE t == Without(s, m)
           q == s[m]
<1>0. /\ s \in Seq(Node) /\ Len(s) \in Nat /\ DOMAIN s = 1 .. Len(s)
      /\ alloc = Range(s) /\ Null \notin Node
      /\ \A k \in 1 .. Len(s) : s[k] \in Node /\ s[k] # Null
      /\ \A k, l \in 1 .. Len(s) : s[k] = s[l] => k = l
      /\ \A k \in 1 .. Len(s) : next[s[k]] = At(s, k + 1) /\ prev[s[k]] = At(s, k - 1)
  BY ListAssumption DEF Lists, Range, Follows
<1>1. /\ Len(s) - 1 \in Nat /\ t \in Seq(Node) /\ Len(t) = Len(s) - 1
      /\ DOMAIN t = 1 .. Len(s) - 1
      /\ \A k \in 1 .. Len(t) : t[k] = IF k < m THEN s[k] ELSE s[k + 1]
  <2>1. Len(s) - 1 \in Nat
    BY <1>0
  <2>2. \A k \in 1 .. Len(s) - 1 : (IF k < m THEN s[k] ELSE s[k + 1]) \in Node
    BY <1>0
  <2>3. t \in Seq(Node) /\ Len(t) = Len(s) - 1
    BY <2>1, <2>2, SeqOf DEF Without
  <2> QED BY <2>1, <2>3 DEF Without
<1>2. /\ next[q] = At(s, m + 1) /\ prev[q] = At(s, m - 1) /\ q \in Node
  BY <1>0
<1>3. /\ alloc' = alloc \ {q} /\ count' = count - 1
      /\ next' = [n \in Node |-> IF n = q THEN Null
                                 ELSE IF n = prev[q] THEN next[q] ELSE next[n]]
      /\ prev' = [n \in Node |-> IF n = q THEN Null
                                 ELSE IF n = next[q] THEN prev[q] ELSE prev[n]]
      /\ head' = IF prev[q] # Null THEN head ELSE next[head]
      /\ tail' = IF next[q] # Null THEN tail ELSE prev[q]
      /\ cur' = [i \in Iterator |-> IF i \in itr /\ cur[i] = q THEN next[q] ELSE cur[i]]
      /\ advanced' = [i \in Iterator |-> advanced[i] \/ (i \in itr /\ cur[i] = q)]
      /\ pos' = pos /\ itr' = itr
      /\ intact' = [i \in Iterator |-> FALSE]
  BY DEF remove_item, iterator_advance, AdvanceAll, Unlink, Changed
<1> HIDE DEF t, q
<1>4. FieldTypes'
  BY <1>2, <1>3 DEF FieldTypes, Ptr
<1>5. \A k \in 1 .. Len(t) : t[k] # q
  BY <1>0, <1>1 DEF q
<1>6. \A k, l \in 1 .. Len(t) : t[k] = t[l] => k = l
  BY <1>0, <1>1, SMTT(30)
<1>7. \A k \in 1 .. Len(s) : k # m => s[k] = t[IF k < m THEN k ELSE k - 1]
  BY <1>0, <1>1
<1>8. alloc' = Range(t)
  <2>0. \A k \in 1 .. Len(s) : s[k] \in alloc
    BY <1>0, Zenon DEF Range
  <2>1. ASSUME NEW k \in 1 .. Len(t) PROVE t[k] \in alloc \ {q}
    <3>1. k \in 1 .. Len(s) /\ k + 1 \in 1 .. Len(s)
      BY <1>0, <1>1
    <3>2. t[k] = s[k] \/ t[k] = s[k + 1]
      BY <1>1
    <3> QED BY <1>5, <2>0, <3>1, <3>2
  <2>2. ASSUME NEW x \in alloc \ {q} PROVE \E k \in 1 .. Len(t) : x = t[k]
    <3>1. PICK k \in 1 .. Len(s) : x = s[k]
      BY <1>0 DEF Range
    <3>2. k # m
      BY <3>1 DEF q
    <3>3. (IF k < m THEN k ELSE k - 1) \in 1 .. Len(t)
      BY <1>0, <1>1, <3>2
    <3> QED BY <1>7, <3>1, <3>2, <3>3
  <2>3. Range(t) = {t[k] : k \in 1 .. Len(t)}
    BY <1>1 DEF Range
  <2>4. alloc' = alloc \ {q}
    BY <1>3
  <2> QED BY <2>1, <2>2, <2>3, <2>4
<1>9. head' = At(t, 1)
  <2>1. CASE m = 1
    <3>1. prev[q] = Null /\ head = q
      BY <1>0, <1>2, <2>1 DEF At, Lists, q
    <3> QED BY <1>0, <1>1, <1>2, <1>3, <2>1, <3>1 DEF At
  <2>2. CASE m # 1
    <3>1. prev[q] = s[m - 1] /\ s[m - 1] # Null /\ head = s[1]
      BY <1>0, <1>2, <2>2 DEF At, Lists
    <3> QED BY <1>0, <1>1, <1>3, <2>2, <3>1 DEF At
  <2> QED BY <2>1, <2>2
<1>10. tail' = At(t, Len(t))
  <2>1. CASE m = Len(s)
    <3>1. next[q] = Null /\ prev[q] = At(s, Len(s) - 1)
      BY <1>0, <1>2, <2>1 DEF At
    <3> QED BY <1>0, <1>1, <1>3, <2>1, <3>1 DEF At
  <2>2. CASE m # Len(s)
    <3>1. next[q] = s[m + 1] /\ s[m + 1] # Null /\ tail = s[Len(s)]
      BY <1>0, <1>2, <2>2 DEF At, Lists
    <3>0. Len(s) \in Nat /\ Len(t) = Len(s) - 1
      BY <1>0, <1>1
    <3>2. Len(t) \in 1 .. Len(t) /\ ~(Len(t) < m) /\ Len(t) + 1 = Len(s)
      BY <3>0, <2>2
    <3>3. At(t, Len(t)) = s[Len(s)]
      BY <1>1, <3>2 DEF At
    <3> QED BY <1>3, <3>1, <3>3, Zenon, SMTT(30)
  <2> QED BY <2>1, <2>2
<1>11. ASSUME NEW k \in 1 .. Len(t)
       PROVE  next'[t[k]] = At(t, k + 1) /\ prev'[t[k]] = At(t, k - 1)
  <2>1. t[k] \in Node /\ t[k] # q /\ t[k] # Null
    BY <1>0, <1>1, <1>5
  <2>2. /\ next'[t[k]] = IF t[k] = prev[q] THEN next[q] ELSE next[t[k]]
        /\ prev'[t[k]] = IF t[k] = next[q] THEN prev[q] ELSE prev[t[k]]
    BY <1>3, <2>1
  <2>0. PICK l \in 1 .. Len(s) : t[k] = s[l] /\ l = IF k < m THEN k ELSE k + 1
    BY <1>0, <1>1
  <2>3. t[k] = prev[q] <=> k = m - 1
    <3>1. t[k] = prev[q] <=> m - 1 \in 1 .. Len(s) /\ s[l] = s[m - 1]
      BY <1>2, <2>0, <2>1 DEF At
    <3>2. m - 1 \in 1 .. Len(s) => (s[l] = s[m - 1] <=> l = m - 1)
      BY <1>0
    <3>3. k = m - 1 <=> m - 1 \in 1 .. Len(s) /\ l = m - 1
      BY <1>0, <1>1, <2>0
    <3> QED BY <3>1, <3>2, <3>3
  <2>4. t[k] = next[q] <=> k = m
    <3>1. t[k] = next[q] <=> m + 1 \in 1 .. Len(s) /\ s[l] = s[m + 1]
      BY <1>2, <2>0, <2>1 DEF At
    <3>2. m + 1 \in 1 .. Len(s) => (s[l] = s[m + 1] <=> l = m + 1)
      BY <1>0
    <3>3. k = m <=> m + 1 \in 1 .. Len(s) /\ l = m + 1
      BY <1>0, <1>1, <2>0, SMTT(30)
    <3> QED BY <3>1, <3>2, <3>3
  <2>5. CASE k < m
    <3>1. t[k] = s[k] /\ k \in 1 .. Len(s)
      BY <1>0, <1>1, <2>5
    <3>2. next[t[k]] = At(s, k + 1) /\ prev[t[k]] = At(s, k - 1)
      BY <1>0, <3>1
    <3>3. prev'[t[k]] = At(t, k - 1)
      BY <1>0, <1>1, <2>2, <2>4, <2>5, <3>2, SMTT(30) DEF At
    <3>4. next'[t[k]] = At(t, k + 1)
      BY <1>0, <1>1, <1>2, <2>2, <2>3, <2>5, <3>2, SMTT(30) DEF At
    <3> QED BY <3>3, <3>4
  <2>6. CASE ~(k < m)
    <3>1. t[k] = s[k + 1] /\ k + 1 \in 1 .. Len(s) /\ (k + 1) - 1 = k
      <4>1. l = k + 1
        BY <2>0, <2>6
      <4>2. (k + 1) - 1 = k
        BY <1>1
      <4> QED BY <2>0, <4>1, <4>2
    <3>2. next[t[k]] = At(s, (k + 1) + 1) /\ prev[t[k]] = At(s, k)
      BY <1>0, <3>1, Zenon, SMTT(30)
    <3>3. prev'[t[k]] = At(t, k - 1)
      <4>1. CASE k = m
        <5>1. At(t, k - 1) = At(s, m - 1)
          BY <1>0, <1>1, <4>1 DEF At
        <5> QED BY <1>2, <2>2, <2>4, <4>1, <5>1
      <4>2. CASE k # m
        <5>1. At(t, k - 1) = At(s, k)
          BY <1>0, <1>1, <2>6, <4>2 DEF At
        <5> QED BY <2>2, <2>4, <3>2, <4>2, <5>1
      <4> QED BY <4>1, <4>2
    <3>4. next'[t[k]] = At(t, k + 1)
      BY <1>0, <1>1, <2>2, <2>3, <2>6, <3>2 DEF At
    <3> QED BY <3>3, <3>4
  <2> QED BY <2>5, <2>6
<1>12. Lists(t)'
  BY <1>0, <1>1, <1>3, <1>6, <1>8, <1>9, <1>10, <1>11, Zenon DEF Lists, Follows
<1>13. Stands(t)'
  <2>1. next[q] \in alloc' \cup {Null}
    <3>1. m + 1 \in 1 .. Len(s) => s[m + 1] \in alloc /\ s[m + 1] # q
      BY <1>0 DEF Range, q
    <3> QED BY <1>2, <1>3, <3>1 DEF At
  <2> QED BY <1>3, <2>1 DEF Stands, FieldTypes
<1> QED BY <1>4, <1>12, <1>13 DEF t

\* clear: with no iterator attached, nothing points to what is freed.
LEMMA ClearLists ==
    ASSUME FieldTypes, NEW s, Lists(s), Stands(s), dico_list_clear
    PROVE  FieldTypes' /\ Lists(<<>>)' /\ Stands(<<>>)'
<1>1. alloc' = {}
  BY ListsEntries, Zenon DEF dico_list_clear, Lists
<1>2. FieldTypes'
  <2>1. next' \in [Node -> Ptr] /\ prev' \in [Node -> Ptr]
    BY DEF dico_list_clear, FieldTypes, Ptr
  <2>2. UNCHANGED <<itr, cur, advanced, pos>> /\ intact' = [i \in Iterator |-> FALSE]
    BY DEF dico_list_clear, Changed, walks
  <2> QED BY <2>1, <2>2 DEF FieldTypes
<1>3. Lists(<<>>)'
  <2>1. /\ <<>> \in Seq(Node) /\ Len(<<>>) = 0 /\ Range(<<>>) = {}
        /\ \A k : At(<<>>, k) = Null
    BY DEF At, Range
  <2>2. head' = Null /\ tail' = Null /\ count' = 0
    BY DEF dico_list_clear
  <2> QED BY <1>1, <2>1, <2>2 DEF Lists, Follows
<1>4. Stands(<<>>)'
  BY <1>1 DEF dico_list_clear, Stands, Changed, walks, FieldTypes
<1> QED BY <1>2, <1>3, <1>4

\* An iterator that moves to an entry, or to an end, leaves the list as it is.
LEMMA MoveLists ==
    ASSUME FieldTypes, NEW s, Lists(s), Stands(s), NEW i \in Iterator,
           NEW k \in 0 .. Len(s) + 1, NEW p \in 0 .. SizeT - 1,
           MoveTo(i, At(s, k), FALSE, p), itr' \in SUBSET Iterator,
           itr \ {i} \subseteq itr', i \notin itr' => At(s, k) = Null,
           NEW b \in BOOLEAN, intact' = [intact EXCEPT ![i] = b],
           b => At(s, k) = At(s, p + 1)
    PROVE  FieldTypes' /\ Lists(s)' /\ Stands(s)'
<1>0. /\ UNCHANGED <<alloc, next, prev, head, tail, count>>
      /\ cur' = [cur EXCEPT ![i] = At(s, k)]
      /\ advanced' = [advanced EXCEPT ![i] = FALSE]
      /\ pos' = [pos EXCEPT ![i] = p]
  BY DEF MoveTo, links
<1>1. At(s, k) \in alloc \cup {Null} /\ At(s, k) \in Ptr
  BY DEF At, Lists, Range, Ptr
<1>2. FieldTypes'
  BY <1>0, <1>1 DEF FieldTypes
<1>3. Lists(s)'
  BY <1>0 DEF Lists, Follows
<1>4. ASSUME NEW j \in Iterator
      PROVE  /\ cur'[j] \in alloc' \cup {Null}
             /\ j \notin itr' => cur'[j] = Null
             /\ intact'[j] => ~advanced'[j] /\ cur'[j] = At(s, pos'[j] + 1)
  <2>1. CASE j = i
    BY <1>0, <1>1, <2>1 DEF FieldTypes
  <2>2. CASE j # i
    BY <1>0, <2>2 DEF FieldTypes, Stands
  <2> QED BY <2>1, <2>2
<1> QED BY <1>2, <1>3, <1>4 DEF Stands

\* The place of the entry an iterator is on.
LEMMA Place ==
    ASSUME NEW s, Lists(s), Stands(s), NEW i \in Iterator, cur[i] # Null
    PROVE  \E k \in 1 .. Len(s) : cur[i] = s[k] /\ cur[i] = At(s, k)
  BY DEF Lists, Stands, Range, At

\* _dico_list_locate finds an entry of the list, or none.
LEMMA Located ==
    ASSUME NEW s, Lists(s), NEW d, Locate(d) # Null
    PROVE  \E m \in 1 .. Len(s) : Locate(d) = s[m]
<1> DEFINE Hits == {k \in 1 .. Len(s) : data[s[k]] = d}
<1>1. Entries = s /\ Len(s) \in Nat
  BY ListsEntries, ListsFit
<1>2. Locate(d) = IF Hits = {} THEN Null
                  ELSE LET k == Least(Hits) IN IF k = 0 THEN Null ELSE s[k]
  BY <1>1 DEF Locate, FirstOf
<1>3. Hits \in SUBSET Nat /\ Hits # {}
  BY <1>1, <1>2
<1>4. Least(Hits) \in Hits
  BY <1>3, LeastOf, Zenon DEF Least
<1>5. Least(Hits) \in 1 .. Len(s) /\ Locate(d) = s[Least(Hits)]
  BY <1>1, <1>2, <1>3, <1>4
<1> QED BY <1>5, Zenon

-----------------------------------------------------------------------------
(* What ItemSeq makes of it.                                               *)

\* The refinement mapping in terms of s.
Mapped(s) ==
    /\ On = [i \in Iterator |-> On[i]] /\ Ahead = [i \in Iterator |-> Ahead[i]]
    /\ \A i \in Iterator : cur[i] = Null => On[i] = Null /\ Ahead[i] = <<>>
    /\ \A i \in Iterator, k \in 1 .. Len(s) : cur[i] = s[k] =>
         IF advanced[i] THEN On[i] = Null /\ Ahead[i] = SubSeq(s, k, Len(s))
                        ELSE On[i] = s[k] /\ Ahead[i] = SubSeq(s, k + 1, Len(s))

\* The mapping is what it should be in a state with the invariant.
LEMMA MapsNow == \A s : Lists(s) => Mapped(s)
<1> SUFFICES ASSUME NEW s, Lists(s) PROVE Mapped(s)
  OBVIOUS
<1>1. \A i \in Iterator : cur[i] = Null => On[i] = Null /\ Ahead[i] = <<>>
  BY DEF On, Ahead
<1>2. ASSUME NEW i \in Iterator, NEW k \in 1 .. Len(s), cur[i] = s[k]
      PROVE  IF advanced[i] THEN On[i] = Null /\ Ahead[i] = SubSeq(s, k, Len(s))
                            ELSE On[i] = s[k] /\ Ahead[i] = SubSeq(s, k + 1, Len(s))
  <2>1. /\ s[k] # Null /\ s[k] = At(s, k) /\ next[s[k]] = At(s, k + 1)
        /\ k \in 1 .. Len(s) + 1 /\ k + 1 \in 1 .. Len(s) + 1
    BY ListAssumption, ListsFit DEF Lists, At, Follows
  <2>2. /\ From(s[k]) = SubSeq(s, k, Len(s))
        /\ From(next[s[k]]) = SubSeq(s, k + 1, Len(s))
    BY <2>1, ListsEntries, Zenon, SMTT(30)
  <2> QED BY <1>2, <2>1, <2>2, Zenon, SMTT(30) DEF On, Ahead
<1>3. On = [i \in Iterator |-> On[i]] /\ Ahead = [i \in Iterator |-> Ahead[i]]
  BY DEF On, Ahead
<1> QED BY <1>1, <1>2, <1>3 DEF Mapped

\* ... and after a step to such a state.
LEMMA MapsNext == \A s : Lists(s)' => Mapped(s)'
<1>1. (\A s : Lists(s) => Mapped(s))'
  BY MapsNow, PTL
<1> QED BY <1>1

Walked == Promise!Next \/ UNCHANGED <<Entries, On, Ahead>>

\* A step from s to t, through the eyes of ItemSeq.
LEMMA Both ==
    ASSUME NEW s, Lists(s), NEW t, Lists(t)'
    PROVE  /\ Entries = s /\ Entries' = t
           /\ Mapped(s) /\ Mapped(t)'
           /\ Len(s) \in Nat /\ Len(t) \in Nat
  BY ListsEntries, ListsFit, ListsNext, MapsNow, MapsNext

\* append is Add: the entry is ahead of every walk that has not ended.
LEMMA AppendPromise ==
    ASSUME FieldTypes, NEW s, Lists(s), Stands(s), NEW d \in Item,
           NEW ep \in Node \ alloc, Appended(ep, d)
    PROVE  Promise!Add(ep)
<1> DEFINE t == Append(s, ep)
<1>1. Lists(t)'
  BY AppendLists
<1>2. Entries = s /\ Entries' = t /\ Mapped(s) /\ Mapped(t)' /\ Len(s) \in Nat
  <2> HIDE DEF t
  <2> QED BY <1>1, Both
<1>3. s \in Seq(Node) /\ ep \in Node /\ ep \notin Range(s)
  BY DEF Lists
<1>4. UNCHANGED <<cur, advanced>>
  BY DEF Appended, walks
<1>5. /\ t \in Seq(Node) /\ Len(t) = Len(s) + 1
      /\ \A k \in 1 .. Len(s) : t[k] = s[k]
      /\ t[Len(s) + 1] = ep
  BY <1>2, <1>3, Lengthened
<1>6. ASSUME NEW k \in 1 .. Len(s) + 1
      PROVE  SubSeq(t, k, Len(t)) = Append(SubSeq(s, k, Len(s)), ep)
  <2> DEFINE u == SubSeq(s, k, Len(s))
  <2> HIDE DEF t
  <2>1. /\ u \in Seq(Node) /\ Len(u) = Len(s) + 1 - k
        /\ \A j \in 1 .. Len(u) : u[j] = s[k + j - 1]
    BY <1>2, <1>3, Parts
  <2>2. /\ SubSeq(t, k, Len(t)) \in Seq(Node)
        /\ Len(SubSeq(t, k, Len(t))) = Len(s) + 2 - k
        /\ \A j \in 1 .. Len(s) + 2 - k : SubSeq(t, k, Len(t))[j] = t[k + j - 1]
    BY <1>2, <1>5, Parts
  <2> HIDE DEF u
  <2>3. /\ Append(u, ep) \in Seq(Node) /\ Len(Append(u, ep)) = Len(u) + 1
        /\ \A j \in 1 .. Len(u) : Append(u, ep)[j] = u[j]
        /\ Append(u, ep)[Len(u) + 1] = ep
    BY <1>3, <2>1, Lengthened
  <2>4. ASSUME NEW j \in 1 .. Len(s) + 2 - k PROVE t[k + j - 1] = Append(u, ep)[j]
    <3>0. Len(s) \in Nat /\ Len(u) = Len(s) + 1 - k
      BY <1>2, <2>1
    <3>1. CASE j = Len(u) + 1
      <4>1. k + j - 1 = Len(s) + 1
        BY <3>0, <3>1
      <4> QED BY <1>5, <2>3, <3>1, <4>1
    <3>2. CASE j # Len(u) + 1
      <4>1. j \in 1 .. Len(u) /\ k + j - 1 \in 1 .. Len(s)
        BY <3>0, <3>2
      <4> QED BY <1>5, <2>1, <2>3, <4>1, Zenon
    <3> QED BY <3>1, <3>2, Zenon
  <2>5. Len(Append(u, ep)) = Len(s) + 2 - k
    BY <1>2, <2>1, <2>3
  <2>6. SubSeq(t, k, Len(t)) = Append(u, ep)
    BY <2>2, <2>3, <2>4, <2>5, SameSeq, Zenon
  <2> QED BY <2>6 DEF u
<1> HIDE DEF t
<1>7. ASSUME NEW i \in Iterator
      PROVE  /\ On'[i] = On[i]
             /\ Ahead'[i] = IF Promise!Ended(i) THEN <<>> ELSE Append(Ahead[i], ep)
  <2>1. CASE cur[i] = Null
    BY <1>2, <1>4, <2>1 DEF Mapped, Promise!Ended
  <2>2. CASE cur[i] # Null
    <3>1. PICK k \in 1 .. Len(s) : cur[i] = s[k]
      BY <2>2, Place
    <3>2. /\ k \in 1 .. Len(t) /\ cur'[i] = t[k] /\ advanced'[i] = advanced[i]
          /\ k \in 1 .. Len(s) + 1 /\ k + 1 \in 1 .. Len(s) + 1
          /\ s[k] # Null
      BY <1>2, <1>4, <1>5, <2>2, <3>1
    <3>3. CASE advanced[i]
      <4>1. /\ On[i] = Null /\ Ahead[i] = SubSeq(s, k, Len(s))
            /\ On'[i] = Null /\ Ahead'[i] = SubSeq(t, k, Len(t))
        BY <1>2, <3>1, <3>2, <3>3, Zenon DEF Mapped
      <4>2. Ahead[i] # <<>>
        <5>1. Len(SubSeq(s, k, Len(s))) = Len(s) - k + 1
          BY <1>2, <1>3, Parts
        <5>2. Len(s) - k + 1 # 0 /\ Len(<<>>) = 0
          BY <1>2
        <5> QED BY <4>1, <5>1, <5>2, Zenon
      <4> QED BY <1>6, <3>2, <4>1, <4>2, Zenon DEF Promise!Ended
    <3>4. CASE ~advanced[i]
      <4>1. /\ On[i] = s[k] /\ Ahead[i] = SubSeq(s, k + 1, Len(s))
            /\ On'[i] = t[k] /\ Ahead'[i] = SubSeq(t, k + 1, Len(t))
        BY <1>2, <3>1, <3>2, <3>4, Zenon DEF Mapped
      <4> QED BY <1>5, <1>6, <3>2, <4>1, Zenon DEF Promise!Ended
    <3> QED BY <3>3, <3>4
  <2> QED BY <2>1, <2>2
<1>8. /\ On' = [i \in Iterator |-> On'[i]] /\ Ahead' = [i \in Iterator |-> Ahead'[i]]
      /\ On = [i \in Iterator |-> On[i]]
  BY <1>2 DEF Mapped
<1>9. /\ Ahead' = [i \in Iterator |-> IF Promise!Ended(i) THEN <<>> ELSE Append(Ahead[i], ep)]
      /\ On' = On
  BY <1>7, <1>8, Zenon
<1> QED BY <1>2, <1>3, <1>9 DEF Promise!Add, Promise!Range, Range, t

\* What is left of the rest of s, from a on, when the element at m goes.
LEMMA RestWithout ==
    ASSUME NEW s \in Seq(Node), NEW T, NEW m \in 1 .. Len(s),
           \A k \in 1 .. Len(s) : s[k] \in T <=> k # m,
           NEW a \in 1 .. Len(s) + 1
    PROVE  Filter(SubSeq(s, a, Len(s)), T)
             = SubSeq(Without(s, m), IF a <= m THEN a ELSE a - 1, Len(s) - 1)
<1> DEFINE t == Without(s, m)
           u == SubSeq(s, a, Len(s))
           b == IF a <= m THEN a ELSE a - 1
           v == SubSeq(t, b, Len(s) - 1)
<1>0. Len(s) \in Nat /\ Len(s) - 1 \in Nat /\ b \in 1 .. Len(s)
  OBVIOUS
<1>1. /\ u \in Seq(Node) /\ Len(u) = Len(s) - a + 1
      /\ \A j \in 1 .. Len(u) : u[j] = s[a + j - 1]
  BY <1>0, Parts
<1>2. \A k \in 1 .. Len(s) - 1 : /\ t[k] = IF k < m THEN s[k] ELSE s[k + 1]
                                 /\ t[k] \in Node
  BY DEF Without
<1> HIDE DEF t, u, b
<1>3. /\ v \in Seq(Node) /\ Len(v) = Len(s) - b
      /\ \A j \in 1 .. Len(v) : v[j] = t[b + j - 1]
  BY <1>0, <1>2, Parts
<1> HIDE DEF v
<1>4. CASE a <= m
  <2> DEFINE l == m - a + 1
             w == [k \in 1 .. Len(u) - 1 |-> IF k < l THEN u[k] ELSE u[k + 1]]
  <2>0. b = a /\ Len(v) = Len(u) - 1 /\ l \in 1 .. Len(u) /\ Len(u) - 1 \in Nat
    BY <1>0, <1>1, <1>3, <1>4 DEF b
  <2>1. ASSUME NEW k \in 1 .. Len(u) PROVE u[k] \in T <=> k # l
    <3>1. a + k - 1 \in 1 .. Len(s) /\ (a + k - 1 = m <=> k = l)
      BY <1>0, <1>1
    <3> QED BY <1>1, <3>1, Zenon, SMTT(30)
  <2>2. Filter(u, T) = w
    <3> HIDE DEF l
    <3> QED BY <1>1, <2>0, <2>1, FilterWithout, ZenonT(30)
  <2>3. ASSUME NEW k \in 1 .. Len(v) PROVE v[k] = w[k]
    <3>1. a + k - 1 \in 1 .. Len(s) - 1 /\ (a + k - 1 < m <=> k < l)
      BY <1>0, <1>1, <2>0
    <3>2. v[k] = IF k < l THEN s[a + k - 1] ELSE s[(a + k - 1) + 1]
      BY <1>2, <1>3, <2>0, <3>1
    <3>3. /\ k \in 1 .. Len(u) /\ k + 1 \in 1 .. Len(u)
          /\ a + (k + 1) - 1 = (a + k - 1) + 1
      BY <1>0, <1>1, <2>0
    <3>4. u[k] = s[a + k - 1] /\ u[k + 1] = s[(a + k - 1) + 1]
      BY <1>1, <3>3
    <3> HIDE DEF l
    <3> QED BY <2>0, <3>2, <3>4
  <2>4. w \in Seq(Node) /\ Len(w) = Len(u) - 1
    <3>1. \A k \in 1 .. Len(u) - 1 : (IF k < l THEN u[k] ELSE u[k + 1]) \in Node
      BY <1>1, <2>0
    <3> QED BY <2>0, <3>1, SeqOf
  <2> HIDE DEF w
  <2>5. v = w
    BY <1>3, <2>0, <2>3, <2>4, SameSeq, ZenonT(30)
  <2> QED BY <2>2, <2>5 DEF u, v, t, b
<1>5. CASE ~(a <= m)
  <2>0. b = a - 1 /\ Len(v) = Len(u)
    BY <1>0, <1>1, <1>3, <1>5 DEF b
  <2>1. ASSUME NEW k \in 1 .. Len(u) PROVE u[k] \in T
    <3>1. a + k - 1 \in 1 .. Len(s) /\ a + k - 1 # m
      BY <1>0, <1>1, <1>5
    <3> QED BY <1>1, <3>1
  <2>2. Filter(u, T) = u
    <3>1. Len(u) \in Nat
      BY <1>1
    <3> QED BY <1>1, <2>1, <3>1, FilterPrefix
  <2>3. ASSUME NEW k \in 1 .. Len(v) PROVE v[k] = u[k]
    <3>1. /\ b + k - 1 \in 1 .. Len(s) - 1 /\ ~(b + k - 1 < m)
          /\ (b + k - 1) + 1 = a + k - 1
      BY <1>0, <1>1, <1>5, <2>0
    <3>2. v[k] = t[b + k - 1] /\ u[k] = s[a + k - 1]
      BY <1>1, <1>3, <2>0
    <3>3. t[b + k - 1] = s[(b + k - 1) + 1]
      BY <1>2, <3>1, Zenon
    <3> QED BY <3>1, <3>2, <3>3
  <2>4. v = u
    BY <1>1, <1>3, <2>0, <2>3, SameSeq
  <2> QED BY <2>2, <2>4, Zenon, SMTT(30) DEF u, v, t, b
<1> QED BY <1>4, <1>5

\* ItemSeq takes Filter from the same module.
LEMMA PromiseFilter == \A x, T : Promise!Filter(x, T) = Filter(x, T)
  BY DEF Promise!Filter, Filter, Promise!FilterTo, FilterTo

\* remove_item is Delete: the entry leaves the list and every walk.
LEMMA RemovePromise ==
    ASSUME FieldTypes, NEW s, Lists(s), Stands(s), NEW m \in 1 .. Len(s),
           remove_item(s[m])
    PROVE  Promise!Delete(s[m])
<1> DEFINE t == Without(s, m)
           q == s[m]
           T == Node \ {q}
<1>1. Lists(t)'
  BY RemoveLists
<1>2. /\ Entries = s /\ Entries' = t /\ Mapped(s) /\ Mapped(t)'
      /\ Len(s) \in Nat /\ Len(t) \in Nat
  <2> HIDE DEF t
  <2> QED BY <1>1, Both, SMTT(30)
<1>3. /\ s \in Seq(Node) /\ q \in Node /\ q # Null /\ q \in Range(s)
      /\ DOMAIN s = 1 .. Len(s)
      /\ \A k \in 1 .. Len(s) : s[k] \in Node /\ (s[k] = q <=> k = m)
      /\ next[q] = At(s, m + 1)
  BY ListAssumption DEF Lists, Range, Follows
<1>4. \A k \in 1 .. Len(s) : s[k] \in T <=> k # m
  BY <1>3
<1>5. /\ cur' = [i \in Iterator |-> IF i \in itr /\ cur[i] = q THEN next[q] ELSE cur[i]]
      /\ advanced' = [i \in Iterator |-> advanced[i] \/ (i \in itr /\ cur[i] = q)]
  BY DEF remove_item, iterator_advance, AdvanceAll
<1>6. Filter(s, T) = t
  <2> HIDE DEF T
  <2> QED BY <1>3, <1>4, FilterWithout DEF Without
<1>7. /\ Len(t) = Len(s) - 1
      /\ \A k \in 1 .. Len(t) : t[k] = IF k < m THEN s[k] ELSE s[k + 1]
  <2>1. Len(s) - 1 \in Nat
    BY <1>2
  <2> QED BY <2>1 DEF Without
<1>8. \A a \in 1 .. Len(s) + 1 : Filter(SubSeq(s, a, Len(s)), T)
                                   = SubSeq(t, IF a <= m THEN a ELSE a - 1, Len(t))
  <2> HIDE DEF T, t
  <2>1. \A a \in 1 .. Len(s) + 1 : Filter(SubSeq(s, a, Len(s)), T)
           = SubSeq(Without(s, m), IF a <= m THEN a ELSE a - 1, Len(s) - 1)
    BY <1>3, <1>4, RestWithout, ZenonT(30)
  <2> QED BY <1>7, <2>1 DEF t
<1> HIDE DEF t, q, T
<1>9. ASSUME NEW i \in Iterator
      PROVE  /\ On'[i] = IF On[i] = q THEN Null ELSE On[i]
             /\ Ahead'[i] = Filter(Ahead[i], T)
  <2>1. CASE cur[i] = Null
    <3>1. cur'[i] = Null
      BY <1>3, <1>5, <2>1
    <3>2. On[i] = Null /\ Ahead[i] = <<>> /\ On'[i] = Null /\ Ahead'[i] = <<>>
      BY <1>2, <2>1, <3>1 DEF Mapped
    <3>3. Filter(<<>>, T) = <<>>
      BY FilterEmpty, Zenon, SMTT(30)
    <3> QED BY <3>2, <3>3
  <2>2. ASSUME NEW k \in 1 .. Len(s), cur[i] = s[k]
        PROVE  /\ On'[i] = IF On[i] = q THEN Null ELSE On[i]
               /\ Ahead'[i] = Filter(Ahead[i], T)
    <3>0. i \in itr /\ s[k] # Null
      BY <1>3, <2>2, ListAssumption, Zenon DEF Stands
    <3>1. IF advanced[i] THEN On[i] = Null /\ Ahead[i] = SubSeq(s, k, Len(s))
                         ELSE On[i] = s[k] /\ Ahead[i] = SubSeq(s, k + 1, Len(s))
      BY <1>2, <2>2, Zenon, SMTT(30) DEF Mapped
    <3>2. k \in 1 .. Len(s) + 1 /\ k + 1 \in 1 .. Len(s) + 1
      BY <1>2
    <3>3. CASE k = m
      <4>1. cur'[i] = At(s, m + 1) /\ advanced'[i]
        BY <1>3, <1>5, <2>2, <3>0, <3>3, Zenon
      <4>2. Filter(Ahead[i], T) = SubSeq(t, m, Len(t))
        <5>1. /\ Filter(SubSeq(s, m, Len(s)), T) = SubSeq(t, m, Len(t))
              /\ (m + 1) - 1 = m /\ ~(m + 1 <= m)
          BY <1>2, <1>8, <3>2, <3>3
        <5>2. Filter(SubSeq(s, m + 1, Len(s)), T) = SubSeq(t, m, Len(t))
          BY <1>8, <3>2, <3>3, <5>1
        <5> QED BY <3>1, <3>3, <5>1, <5>2, Zenon
      <4>3. On'[i] = Null /\ Ahead'[i] = SubSeq(t, m, Len(t))
        <5>1. CASE m = Len(s)
          <6>1. cur'[i] = Null
            BY <1>2, <4>1, <5>1 DEF At
          <6>2. SubSeq(t, m, Len(t)) = <<>>
            BY <1>2, <1>7, <5>1, NoPart
          <6> QED BY <1>2, <6>1, <6>2 DEF Mapped
        <5>2. CASE m # Len(s)
          <6>1. m \in 1 .. Len(t) /\ cur'[i] = t[m]
            BY <1>2, <1>7, <4>1, <5>2, SMTT(30) DEF At
          <6> QED BY <1>2, <4>1, <6>1 DEF Mapped
        <5> QED BY <5>1, <5>2
      <4>4. On[i] = q \/ On[i] = Null
        BY <3>1, <3>3 DEF q
      <4> QED BY <4>2, <4>3, <4>4, ZenonT(30)
    <3>4. CASE k # m
      <4> DEFINE l == IF k < m THEN k ELSE k - 1
      <4>1. /\ cur'[i] = s[k] /\ advanced'[i] = advanced[i] /\ s[k] # q
        BY <1>3, <1>5, <2>2, <3>4 DEF FieldTypes
      <4>2. l \in 1 .. Len(t) /\ s[k] = t[l]
        BY <1>2, <1>7, <3>4
      <4>3. /\ Filter(SubSeq(s, k, Len(s)), T) = SubSeq(t, l, Len(t))
            /\ Filter(SubSeq(s, k + 1, Len(s)), T) = SubSeq(t, l + 1, Len(t))
        <5>1. /\ l = IF k <= m THEN k ELSE k - 1
              /\ l + 1 = IF k + 1 <= m THEN k + 1 ELSE (k + 1) - 1
          BY <1>2, <3>4
        <5> QED BY <1>8, <3>2, <5>1
      <4> HIDE DEF l
      <4>4. IF advanced[i] THEN On'[i] = Null /\ Ahead'[i] = SubSeq(t, l, Len(t))
                           ELSE On'[i] = s[k] /\ Ahead'[i] = SubSeq(t, l + 1, Len(t))
        <5>1. cur'[i] = t[l]
          BY <4>1, <4>2
        <5>2. IF advanced'[i] THEN On'[i] = Null /\ Ahead'[i] = SubSeq(t, l, Len(t))
                              ELSE On'[i] = t[l] /\ Ahead'[i] = SubSeq(t, l + 1, Len(t))
          BY <1>2, <4>2, <5>1, Zenon DEF Mapped
        <5> QED BY <4>1, <4>2, <5>2, Zenon
      <4> QED BY <1>3, <3>1, <4>1, <4>3, <4>4, Zenon
    <3> QED BY <3>3, <3>4, ZenonT(30)
  <2>3. CASE cur[i] # Null
    <3>1. PICK k \in 1 .. Len(s) : cur[i] = s[k]
      BY <2>3, Place
    <3> QED BY <2>2, <3>1
  <2> QED BY <2>1, <2>3
<1>10. /\ On' = [i \in Iterator |-> On'[i]] /\ Ahead' = [i \in Iterator |-> Ahead'[i]]
  BY <1>2 DEF Mapped
<1>11. /\ On' = [i \in Iterator |-> IF On[i] = q THEN Null ELSE On[i]]
       /\ Ahead' = [i \in Iterator |-> Filter(Ahead[i], T)]
  BY <1>9, <1>10, Zenon
<1>12. q \in Promise!Range(Entries)
  BY <1>2, <1>3 DEF Promise!Range, Range
<1> QED
  BY <1>2, <1>6, <1>11, <1>12, PromiseFilter DEF Promise!Delete, q, T

\* The nodes of s after the one at k.
After(s, k) == IF k \in 1 .. Len(s) THEN SubSeq(s, k + 1, Len(s)) ELSE <<>>

\* An iterator that moves does what Move says, and the others stay.
LEMMA MovePromise ==
    ASSUME FieldTypes, NEW s, Lists(s), Stands(s), NEW i \in Iterator,
           NEW k \in 0 .. Len(s) + 1, NEW p,
           MoveTo(i, At(s, k), FALSE, p), Lists(s)'
    PROVE  Promise!Move(i, At(s, k), After(s, k))
<1>1. /\ Entries = s /\ Entries' = s /\ Mapped(s) /\ Mapped(s)' /\ Len(s) \in Nat
  BY Both
<1>2. /\ cur' = [cur EXCEPT ![i] = At(s, k)]
      /\ advanced' = [advanced EXCEPT ![i] = FALSE]
  BY DEF MoveTo
<1>3. On'[i] = At(s, k) /\ Ahead'[i] = After(s, k)
  <2>1. cur'[i] = At(s, k) /\ ~advanced'[i]
    BY <1>2 DEF FieldTypes
  <2>2. CASE k \in 1 .. Len(s)
    BY <1>1, <2>1, <2>2 DEF Mapped, At, After
  <2>3. CASE k \notin 1 .. Len(s)
    BY <1>1, <2>1, <2>3 DEF Mapped, At, After
  <2> QED BY <2>2, <2>3
<1>4. ASSUME NEW j \in Iterator, j # i PROVE On'[j] = On[j] /\ Ahead'[j] = Ahead[j]
  <2>1. cur'[j] = cur[j] /\ advanced'[j] = advanced[j]
    BY <1>2, <1>4 DEF FieldTypes
  <2>2. CASE cur[j] = Null
    BY <1>1, <2>1, <2>2 DEF Mapped
  <2>3. CASE cur[j] # Null
    <3>1. PICK l \in 1 .. Len(s) : cur[j] = s[l]
      BY <2>3, Place
    <3>2. IF advanced[j] THEN On[j] = Null /\ Ahead[j] = SubSeq(s, l, Len(s))
                         ELSE On[j] = s[l] /\ Ahead[j] = SubSeq(s, l + 1, Len(s))
      BY <1>1, <3>1, Zenon DEF Mapped
    <3>3. cur'[j] = s[l]
      BY <2>1, <3>1
    <3>4. IF advanced'[j] THEN On'[j] = Null /\ Ahead'[j] = SubSeq(s, l, Len(s))
                          ELSE On'[j] = s[l] /\ Ahead'[j] = SubSeq(s, l + 1, Len(s))
      BY <1>1, <3>3, Zenon DEF Mapped
    <3> QED BY <2>1, <3>2, <3>4, Zenon
  <2> QED BY <2>2, <2>3
<1>5. /\ On' = [j \in Iterator |-> On'[j]] /\ Ahead' = [j \in Iterator |-> Ahead'[j]]
      /\ On = [j \in Iterator |-> On[j]] /\ Ahead = [j \in Iterator |-> Ahead[j]]
  BY <1>1 DEF Mapped
<1>6. On' = [On EXCEPT ![i] = At(s, k)]
  <2> DEFINE f == [On EXCEPT ![i] = At(s, k)]
  <2>1. f = [j \in Iterator |-> f[j]] /\ \A j \in Iterator : f[j] = On'[j]
    BY <1>3, <1>4, <1>5
  <2> HIDE DEF f
  <2>2. f = On'
    BY <1>5, <2>1, Zenon
  <2> QED BY <2>2 DEF f
<1>7. Ahead' = [Ahead EXCEPT ![i] = After(s, k)]
  <2> DEFINE f == [Ahead EXCEPT ![i] = After(s, k)]
  <2>1. f = [j \in Iterator |-> f[j]] /\ \A j \in Iterator : f[j] = Ahead'[j]
    BY <1>3, <1>4, <1>5
  <2> HIDE DEF f
  <2>2. f = Ahead'
    BY <1>5, <2>1, Zenon
  <2> QED BY <2>2 DEF f
<1> QED BY <1>1, <1>6, <1>7 DEF Promise!Move

\* clear is Clear: no walk is under way.
LEMMA ClearPromise ==
    ASSUME FieldTypes, NEW s, Lists(s), Stands(s), dico_list_clear
    PROVE  Promise!Clear
<1>1. Lists(<<>>)'
  BY ClearLists
<1>2. Entries' = <<>> /\ Mapped(s) /\ Mapped(<<>>)'
  <2> DEFINE t == <<>>
  <2>1. Lists(t)'
    BY <1>1
  <2> HIDE DEF t
  <2>2. Entries' = t /\ Mapped(s) /\ Mapped(t)'
    BY <2>1, Both
  <2> QED BY <2>2 DEF t
<1>3. \A i \in Iterator : cur[i] = Null /\ cur'[i] = Null
  BY DEF dico_list_clear, Stands, walks
<1>4. \A i \in Iterator : /\ On[i] = Null /\ On'[i] = Null
                          /\ Ahead[i] = <<>> /\ Ahead'[i] = <<>>
  BY <1>2, <1>3 DEF Mapped
<1>5. /\ On' = [j \in Iterator |-> On'[j]] /\ Ahead' = [j \in Iterator |-> Ahead'[j]]
      /\ On = [j \in Iterator |-> On[j]] /\ Ahead = [j \in Iterator |-> Ahead[j]]
  BY <1>2 DEF Mapped
<1>6. On' = On /\ Ahead' = Ahead
  BY <1>4, <1>5, Zenon
<1> QED BY <1>2, <1>4, <1>6 DEF Promise!Clear, Promise!Ended

\* The first entry and the ones after it, if there are any.
LEMMA SplitRest ==
    ASSUME NEW s \in Seq(Node), NEW k \in 1 .. Len(s) + 1
    PROVE  IF k = Len(s) + 1 THEN SubSeq(s, k, Len(s)) = <<>>
           ELSE /\ SubSeq(s, k, Len(s)) # <<>>
                /\ Head(SubSeq(s, k, Len(s))) = s[k]
                /\ Tail(SubSeq(s, k, Len(s))) = SubSeq(s, k + 1, Len(s))
<1>1. CASE k = Len(s) + 1
  BY <1>1, NoPart
<1>2. CASE k # Len(s) + 1
  <2>1. k \in 1 .. Len(s) /\ Len(s) \in k .. Len(s) /\ Len(s) \in Nat
    BY <1>2
  <2>2. /\ Head(SubSeq(s, k, Len(s))) = s[k]
        /\ Tail(SubSeq(s, k, Len(s))) = SubSeq(s, k + 1, Len(s))
    BY <2>1, PartFrom
  <2>3. Len(SubSeq(s, k, Len(s))) = Len(s) - k + 1
    BY <2>1, Parts
  <2>4. Len(s) - k + 1 # 0 /\ Len(<<>>) = 0
    BY <2>1
  <2>5. SubSeq(s, k, Len(s)) # <<>>
    BY <2>3, <2>4, Zenon
  <2> QED BY <1>2, <2>2, <2>5
<1> QED BY <1>1, <1>2

\* A number below the modulus of size_t is its own remainder.
LEMMA SmallMod == ASSUME NEW a \in Nat, NEW m \in Nat, a < m PROVE a % m = a
  OBVIOUS

\* Once around the modulus.
LEMMA AroundMod ==
    ASSUME NEW a \in Nat, NEW m \in Nat, a < m PROVE (a + m) % m = a
  OBVIOUS

\* What a step of the list amounts to: the invariant, and a step of ItemSeq.
Kept == ListInv' /\ Walked

\* A move of an iterator that keeps its walk as intact as it was.
LEMMA MoveKept ==
    ASSUME FieldTypes, NEW s, Lists(s), Stands(s), NEW i \in itr,
           NEW k \in 0 .. Len(s) + 1, NEW p \in 0 .. SizeT - 1,
           MoveTo(i, At(s, k), FALSE, p), itr' = itr, intact' = intact,
           intact[i] => At(s, k) = At(s, p + 1)
    PROVE  ListInv' /\ Promise!Move(i, At(s, k), After(s, k))
<1>1. i \in Iterator /\ intact[i] \in BOOLEAN /\ intact' = [intact EXCEPT ![i] = intact[i]]
  BY DEF FieldTypes
<1>2. FieldTypes' /\ Lists(s)' /\ Stands(s)'
  <2>1. /\ itr' \in SUBSET Iterator /\ itr \ {i} \subseteq itr' /\ i \in itr'
    BY DEF FieldTypes
  <2> QED BY <1>1, <2>1, MoveLists, Zenon
<1>3. ListInv'
  BY <1>2 DEF ListInv
<1> QED BY <1>1, <1>2, <1>3, MovePromise, Zenon

\* attach and first are Start.
LEMMA RewindKept ==
    ASSUME FieldTypes, NEW s, Lists(s), Stands(s), NEW i \in Iterator,
           Rewind(i), itr' = itr \cup {i}
    PROVE  Kept
<1>1. /\ MoveTo(i, At(s, 1), FALSE, 0) /\ intact' = [intact EXCEPT ![i] = TRUE]
      /\ s \in Seq(Node)
  BY Zenon DEF Rewind, RewindTo, Lists
<1>2. 0 \in 0 .. SizeT - 1 /\ Len(s) \in Nat /\ 1 \in 0 .. Len(s) + 1 /\ 0 + 1 = 1
  BY ListsFit, ListAssumption
<1>3. /\ itr' \in SUBSET Iterator /\ itr \ {i} \subseteq itr' /\ i \in itr'
  BY DEF FieldTypes
<1>4. FieldTypes' /\ Lists(s)' /\ Stands(s)'
  BY <1>1, <1>2, <1>3, MoveLists, Zenon
<1>5. Promise!Move(i, At(s, 1), After(s, 1))
  BY <1>1, <1>2, <1>4, MovePromise, Zenon
<1>6. Promise!Start(i)
  <2>1. Entries = s
    BY ListsEntries
  <2>2. CASE s = <<>>
    <3>1. At(s, 1) = Null /\ After(s, 1) = <<>>
      BY <2>2 DEF At, After
    <3> QED BY <1>5, <2>1, <2>2, <3>1 DEF Promise!Start
  <2>3. CASE s # <<>>
    <3>1. Len(s) # 0
      BY <1>1, <2>3, NoElements
    <3>2. /\ At(s, 1) = Head(s) /\ After(s, 1) = SubSeq(s, 2, Len(s))
      BY <1>1, <1>2, <3>1 DEF At, After
    <3>3. Tail(s) = SubSeq(s, 2, Len(s))
      BY <1>1, <2>3, WholePart
    <3> QED BY <1>5, <2>1, <2>3, <3>2, <3>3, Zenon DEF Promise!Start
  <2> QED BY <2>2, <2>3
<1>7. ListInv'
  BY <1>4 DEF ListInv
<1> QED BY <1>6, <1>7 DEF Kept, Walked, Promise!Next

\* detach is Stop.
LEMMA DetachKept ==
    ASSUME FieldTypes, NEW s, Lists(s), Stands(s), NEW i \in Iterator,
           dico_iterator_detach(i)
    PROVE  Kept
<1>0. At(s, 0) = Null /\ After(s, 0) = <<>>
  BY DEF At, After
<1>1. /\ MoveTo(i, At(s, 0), FALSE, 0) /\ intact' = [intact EXCEPT ![i] = FALSE]
      /\ itr' = itr \ {i}
  BY <1>0, Zenon DEF dico_iterator_detach
<1>2. 0 \in 0 .. SizeT - 1 /\ Len(s) \in Nat /\ 0 \in 0 .. Len(s) + 1
  BY ListsFit, ListAssumption
<1>3. itr' \in SUBSET Iterator /\ itr \ {i} \subseteq itr'
  BY <1>1 DEF FieldTypes
<1>4. FieldTypes' /\ Lists(s)' /\ Stands(s)'
  BY <1>0, <1>1, <1>2, <1>3, MoveLists, Zenon
<1>5. Promise!Move(i, At(s, 0), After(s, 0))
  BY <1>1, <1>2, <1>4, MovePromise, Zenon
<1>6. Promise!Stop(i)
  BY <1>0, <1>5 DEF Promise!Stop
<1>7. ListInv'
  BY <1>4 DEF ListInv
<1> QED BY <1>6, <1>7 DEF Kept, Walked, Promise!Next

\* next is Advance, from an entry or from the one that took its place.
LEMMA NextKept ==
    ASSUME FieldTypes, NEW s, Lists(s), Stands(s), NEW i \in Iterator,
           dico_iterator_next(i)
    PROVE  Kept
<1>1. i \in itr /\ cur[i] # Null /\ itr' = itr /\ intact' = intact /\ s \in Seq(Node)
  BY DEF dico_iterator_next, NextUnless, Lists
<1>2. PICK k \in 1 .. Len(s) : cur[i] = s[k] /\ cur[i] = At(s, k)
  BY <1>1, Place
<1>3. /\ Len(s) \in Nat /\ Len(s) < SizeT /\ SizeT \in Nat /\ pos[i] \in 0 .. SizeT - 1
      /\ k \in 0 .. Len(s) + 1 /\ k + 1 \in 0 .. Len(s) + 1
      /\ k \in 1 .. Len(s) + 1 /\ k + 1 \in 1 .. Len(s) + 1
  BY ListsFit, ListAssumption DEF FieldTypes
<1>4. Mapped(s)
  BY MapsNow
<1>5. CASE advanced[i]
  <2>1. MoveTo(i, At(s, k), FALSE, pos[i])
    BY <1>2, <1>5, Zenon DEF dico_iterator_next, NextUnless
  <2>2. ~intact[i]
    BY <1>5 DEF Stands
  <2>3. ListInv' /\ Promise!Move(i, At(s, k), After(s, k))
    BY <1>1, <1>3, <2>1, <2>2, MoveKept, Zenon
  <2>4. Ahead[i] = SubSeq(s, k, Len(s))
    BY <1>2, <1>4, <1>5, Zenon DEF Mapped
  <2>5. /\ SubSeq(s, k, Len(s)) # <<>>
        /\ Head(SubSeq(s, k, Len(s))) = s[k]
        /\ Tail(SubSeq(s, k, Len(s))) = SubSeq(s, k + 1, Len(s))
    BY <1>1, <1>3, SplitRest
  <2>6. Promise!Advance(i)
    BY <1>2, <2>3, <2>4, <2>5, Zenon DEF Promise!Advance, At, After
  <2> QED BY <2>3, <2>6 DEF Kept, Walked, Promise!Next
<1>6. CASE ~advanced[i]
  <2>1. MoveTo(i, At(s, k + 1), FALSE, (pos[i] + 1) % SizeT)
    BY <1>2, <1>6, Zenon DEF dico_iterator_next, NextUnless, Lists, Follows
  <2>2. (pos[i] + 1) % SizeT \in 0 .. SizeT - 1
    BY <1>3
  <2>3. intact[i] => At(s, k + 1) = At(s, ((pos[i] + 1) % SizeT) + 1)
    <3> SUFFICES ASSUME intact[i] PROVE At(s, k + 1) = At(s, ((pos[i] + 1) % SizeT) + 1)
      OBVIOUS
    <3>1. s[k] = At(s, pos[i] + 1) /\ s[k] # Null
      BY <1>1, <1>2 DEF Stands
    <3>2. pos[i] + 1 \in 1 .. Len(s) /\ s[k] = s[pos[i] + 1]
      BY <3>1 DEF At
    <3>3. k = pos[i] + 1
      BY <3>2 DEF Lists
    <3>4. (pos[i] + 1) % SizeT = k
      <4>1. k \in Nat /\ k < SizeT
        BY <1>3
      <4> QED BY <1>3, <3>3, <4>1, SmallMod, Zenon, SMTT(30)
    <3> QED BY <3>4
  <2>4. ListInv' /\ Promise!Move(i, At(s, k + 1), After(s, k + 1))
    BY <1>1, <1>3, <2>1, <2>2, <2>3, MoveKept, Zenon
  <2>5. Ahead[i] = SubSeq(s, k + 1, Len(s))
    BY <1>2, <1>4, <1>6, Zenon DEF Mapped
  <2>6. Promise!Advance(i)
    <3>1. CASE k = Len(s)
      <4>1. At(s, k + 1) = Null /\ After(s, k + 1) = <<>>
        BY <1>3, <3>1 DEF At, After
      <4>2. SubSeq(s, k + 1, Len(s)) = <<>>
        BY <1>1, <1>3, <3>1, SplitRest
      <4> QED BY <2>4, <2>5, <4>1, <4>2 DEF Promise!Advance
    <3>2. CASE k # Len(s)
      <4>1. At(s, k + 1) = s[k + 1] /\ After(s, k + 1) = SubSeq(s, (k + 1) + 1, Len(s))
        BY <1>3, <3>2 DEF At, After
      <4>2. /\ SubSeq(s, k + 1, Len(s)) # <<>>
            /\ Head(SubSeq(s, k + 1, Len(s))) = s[k + 1]
            /\ Tail(SubSeq(s, k + 1, Len(s))) = SubSeq(s, (k + 1) + 1, Len(s))
        <5>1. k + 1 # Len(s) + 1
          BY <1>3, <3>2
        <5> QED BY <1>1, <1>3, <5>1, SplitRest, Zenon
      <4> QED BY <2>4, <2>5, <4>1, <4>2, Zenon DEF Promise!Advance
    <3> QED BY <3>1, <3>2
  <2> QED BY <2>4, <2>6 DEF Kept, Walked, Promise!Next
<1> QED BY <1>5, <1>6

\* prev is Back; before the first entry the position wraps around to one that
\* no list is long enough for.
LEMMA PrevKept ==
    ASSUME FieldTypes, NEW s, Lists(s), Stands(s), NEW i \in Iterator,
           dico_iterator_prev(i)
    PROVE  Kept
<1> DEFINE p == IF advanced[i] THEN pos[i] ELSE (pos[i] - 1 + SizeT) % SizeT
<1>1. i \in itr /\ cur[i] # Null /\ itr' = itr /\ intact' = intact /\ s \in Seq(Node)
  BY DEF dico_iterator_prev, Lists
<1>2. PICK k \in 1 .. Len(s) : cur[i] = s[k] /\ cur[i] = At(s, k)
  BY <1>1, Place
<1>3. /\ Len(s) \in Nat /\ Len(s) < SizeT /\ SizeT \in Nat /\ pos[i] \in 0 .. SizeT - 1
      /\ k - 1 \in 0 .. Len(s) + 1
  BY ListsFit, ListAssumption DEF FieldTypes
<1>4. p \in 0 .. SizeT - 1
  <2>1. (pos[i] - 1 + SizeT) % SizeT \in 0 .. SizeT - 1
    BY <1>3
  <2> QED BY <1>3, <2>1
<1>5. MoveTo(i, At(s, k - 1), FALSE, p)
  BY <1>2, Zenon DEF dico_iterator_prev, Lists
<1>6. intact[i] => At(s, k - 1) = At(s, p + 1)
  <2> SUFFICES ASSUME intact[i] PROVE At(s, k - 1) = At(s, p + 1)
    OBVIOUS
  <2>1. s[k] = At(s, pos[i] + 1) /\ s[k] # Null /\ ~advanced[i]
    BY <1>1, <1>2 DEF Stands
  <2>2. pos[i] + 1 \in 1 .. Len(s) /\ s[k] = s[pos[i] + 1]
    BY <2>1, Zenon, SMTT(30) DEF At
  <2>3. k = pos[i] + 1
    BY <2>2 DEF Lists
  <2>4. CASE pos[i] = 0
    <3>1. pos[i] - 1 + SizeT \in Nat /\ pos[i] - 1 + SizeT < SizeT
      BY <1>3, <2>4
    <3>2. p = SizeT - 1
      <4>1. (pos[i] - 1 + SizeT) % SizeT = pos[i] - 1 + SizeT
        BY <1>3, <3>1, SmallMod
      <4> QED BY <1>3, <2>1, <2>4, <4>1
    <3>3. k - 1 = 0 /\ p + 1 = SizeT
      BY <1>3, <2>3, <2>4, <3>2
    <3>4. At(s, 0) = Null /\ At(s, SizeT) = Null
      BY <1>3 DEF At
    <3> QED BY <3>3, <3>4
  <2>5. CASE pos[i] # 0
    <3>1. (pos[i] - 1 + SizeT) % SizeT = pos[i] - 1
      <4>1. pos[i] - 1 \in Nat /\ pos[i] - 1 < SizeT
        BY <1>3, <2>5
      <4> QED BY <1>3, <4>1, AroundMod, Zenon, SMTT(30)
    <3>2. p + 1 = k - 1
      BY <1>3, <2>1, <2>3, <3>1
    <3> QED BY <3>2
  <2> QED BY <2>4, <2>5
<1> HIDE DEF p
<1>7. ListInv' /\ Promise!Move(i, At(s, k - 1), After(s, k - 1))
  BY <1>1, <1>3, <1>4, <1>5, <1>6, MoveKept, Zenon
<1>8. /\ ~Promise!Ended(i)
      /\ Len(Entries) - Len(Ahead[i]) - (IF On[i] = Null THEN 0 ELSE 1) = k - 1
  <2>1. Mapped(s) /\ Entries = s
    BY MapsNow, ListsEntries
  <2>2. CASE advanced[i]
    <3>1. On[i] = Null /\ Ahead[i] = SubSeq(s, k, Len(s))
      BY <1>2, <2>1, <2>2, Zenon DEF Mapped
    <3>2. Len(SubSeq(s, k, Len(s))) = Len(s) - k + 1
      BY <1>1, <1>3, Parts
    <3>3. Len(s) - k + 1 # 0 /\ Len(<<>>) = 0 /\ Len(s) - (Len(s) - k + 1) - 0 = k - 1
      BY <1>3
    <3>4. Ahead[i] # <<>>
      BY <3>1, <3>2, <3>3, Zenon
    <3> QED BY <2>1, <3>1, <3>2, <3>3, <3>4 DEF Promise!Ended
  <2>3. CASE ~advanced[i]
    <3>1. On[i] = s[k] /\ Ahead[i] = SubSeq(s, k + 1, Len(s)) /\ s[k] # Null
      BY <1>1, <1>2, <2>1, <2>3, Zenon DEF Mapped
    <3>2. Len(SubSeq(s, k + 1, Len(s))) = Len(s) - k
      <4>1. k + 1 \in 1 .. Len(s) + 1 /\ Len(s) - (k + 1) + 1 = Len(s) - k
        BY <1>3
      <4>2. CASE k # Len(s)
        <5>1. k + 1 <= Len(s)
          BY <1>3, <4>2
        <5> QED BY <1>1, <1>3, <4>1, <5>1, Parts
      <4>3. CASE k = Len(s)
        <5>1. Len(s) < k + 1 /\ Len(s) - k = 0
          BY <1>3, <4>3
        <5>2. SubSeq(s, k + 1, Len(s)) = <<>>
          BY <1>3, <5>1, NoPart
        <5> QED BY <5>1, <5>2
      <4> QED BY <4>2, <4>3
    <3>3. Len(s) - (Len(s) - k) - 1 = k - 1
      BY <1>3
    <3> QED BY <2>1, <3>1, <3>2, <3>3, Zenon DEF Promise!Ended
  <2> QED BY <2>2, <2>3, Zenon
<1>9. Promise!Back(i)
  <2>1. Entries = s
    BY ListsEntries
  <2>2. CASE k = 1
    <3>1. At(s, k - 1) = Null /\ After(s, k - 1) = <<>> /\ k - 1 = 0
      BY <2>2 DEF At, After
    <3> QED BY <1>7, <1>8, <3>1, Zenon DEF Promise!Back
  <2>3. CASE k # 1
    <3>1. k - 1 # 0 /\ k - 1 \in 1 .. Len(s)
      BY <1>3, <2>3
    <3>2. At(s, k - 1) = s[k - 1] /\ After(s, k - 1) = SubSeq(s, (k - 1) + 1, Len(s))
      BY <3>1 DEF At, After
    <3> QED BY <1>7, <1>8, <2>1, <3>1, <3>2, Zenon DEF Promise!Back, Promise!From
  <2> QED BY <2>2, <2>3
<1> QED BY <1>7, <1>9, Zenon, SMTT(30) DEF Kept, Walked, Promise!Next

\* A step that changes no link and moves no iterator.
LEMMA StayKept ==
    ASSUME ListInv, UNCHANGED <<links, itr, walks, intact>> PROVE Kept
<1>1. ListInv'
  BY ZenonT(30) DEF ListInv, FieldTypes, Lists, Stands, Follows, links, walks
<1>2. UNCHANGED <<Entries, On, Ahead>>
  BY DEF Entries, From, On, Ahead, links, walks
<1> QED BY <1>1, <1>2 DEF Kept, Walked

\* The rest of a rest.
LEMMA RestOfRest ==
    ASSUME NEW s \in Seq(Node), NEW a \in 1 .. Len(s) + 1, NEW j \in 1 .. Len(s) + 1 - a
    PROVE  /\ Len(SubSeq(s, a, Len(s))) = Len(s) + 1 - a
           /\ SubSeq(s, a, Len(s))[j] = s[a + j - 1]
           /\ SubSeq(SubSeq(s, a, Len(s)), j + 1, Len(s) + 1 - a)
                = SubSeq(s, a + j, Len(s))
<1> DEFINE u == SubSeq(s, a, Len(s))
           v == SubSeq(u, j + 1, Len(s) + 1 - a)
           w == SubSeq(s, a + j, Len(s))
<1>0. Len(s) \in Nat
  OBVIOUS
<1>1. /\ u \in Seq(Node) /\ Len(u) = Len(s) + 1 - a
      /\ \A k \in 1 .. Len(u) : u[k] = s[a + k - 1]
  BY <1>0, Parts
<1> HIDE DEF u
<1>2. /\ v \in Seq(Node) /\ Len(v) = Len(s) + 1 - a - j
      /\ \A k \in 1 .. Len(v) : v[k] = u[j + 1 + k - 1]
  <2>1. j + 1 \in Int /\ Len(s) + 1 - a \in Int /\ j + 1 <= Len(s) + 1 - a + 1
    BY <1>0
  <2>2. \A k \in j + 1 .. Len(s) + 1 - a : u[k] \in Node
    BY <1>0, <1>1
  <2>3. /\ v \in Seq(Node)
        /\ Len(v) = IF j + 1 <= Len(s) + 1 - a THEN Len(s) + 1 - a - (j + 1) + 1 ELSE 0
        /\ \A k \in 1 .. Len(s) + 1 - a - (j + 1) + 1 : v[k] = u[j + 1 + k - 1]
    BY <2>1, <2>2, Parts, SMTT(30)
  <2> HIDE DEF v
  <2>4. Len(s) + 1 - a - (j + 1) + 1 = Len(s) + 1 - a - j
    BY <1>0
  <2>5. Len(v) = Len(s) + 1 - a - j
    <3>1. CASE j = Len(s) + 1 - a
      <4>1. ~(j + 1 <= Len(s) + 1 - a) /\ Len(s) + 1 - a - j = 0
        BY <1>0, <3>1
      <4> QED BY <2>3, <4>1
    <3>2. CASE j # Len(s) + 1 - a
      <4>1. j + 1 <= Len(s) + 1 - a
        BY <1>0, <3>2
      <4> QED BY <2>3, <2>4, <4>1
    <3> QED BY <3>1, <3>2
  <2> QED BY <2>3, <2>4, <2>5, Zenon
<1>3. /\ w \in Seq(Node) /\ Len(w) = Len(s) + 1 - a - j
      /\ \A k \in 1 .. Len(w) : w[k] = s[a + j + k - 1]
  BY <1>0, Parts
<1> HIDE DEF v, w
<1>4. ASSUME NEW k \in 1 .. Len(v) PROVE v[k] = w[k]
  <2>1. j + 1 + k - 1 \in 1 .. Len(u) /\ a + (j + 1 + k - 1) - 1 = a + j + k - 1
    BY <1>0, <1>1, <1>2
  <2>2. u[j + 1 + k - 1] = s[a + j + k - 1]
    BY <1>1, <2>1
  <2> QED BY <1>2, <1>3, <2>2, Zenon, SMTT(30)
<1>5. v = w
  BY <1>2, <1>3, <1>4, SameSeq, Zenon
<1>6. u[j] = s[a + j - 1]
  BY <1>0, <1>1, Zenon
<1> QED BY <1>1, <1>5, <1>6 DEF u, v, w

\* The loop of item: e entries further on from the one after p.
LEMMA SeekForward ==
    ASSUME NEW s \in Seq(Node), NEW f \in [Node -> Ptr], Follows(f, s),
           NEW p \in Nat, p >= 1, NEW e \in Nat, p + e < Len(s)
    PROVE  /\ Len(Along(f, At(s, p + 1), e + 1)) = e + 1
           /\ Along(f, At(s, p + 1), e + 1)[e + 1] = s[p + e + 1]
<1>1. /\ Len(s) \in Nat /\ e + 1 \in Nat /\ p + 1 \in 1 .. Len(s) + 1
      /\ e + 1 <= Len(s) + 1 - (p + 1)
      /\ p + 1 \in Int /\ p + 1 + (e + 1) - 1 \in Int
  OBVIOUS
<1>2. Along(f, At(s, p + 1), e + 1) = SubSeq(s, p + 1, p + 1 + (e + 1) - 1)
  BY <1>1, AlongVisits, Zenon
<1>3. p + 1 + (e + 1) - 1 = p + e + 1 /\ p + e + 1 \in Int
  OBVIOUS
<1>4. \A k \in p + 1 .. p + e + 1 : s[k] \in Node
  BY <1>1
<1>5. /\ Len(SubSeq(s, p + 1, p + e + 1))
           = IF p + 1 <= p + e + 1 THEN (p + e + 1) - (p + 1) + 1 ELSE 0
      /\ \A k \in 1 .. (p + e + 1) - (p + 1) + 1 :
            SubSeq(s, p + 1, p + e + 1)[k] = s[p + 1 + k - 1]
  BY <1>1, <1>3, <1>4, Parts
<1>6. /\ p + 1 <= p + e + 1 /\ (p + e + 1) - (p + 1) + 1 = e + 1
      /\ e + 1 \in 1 .. e + 1
  OBVIOUS
<1> QED BY <1>2, <1>3, <1>5, <1>6

\* item, as the results are printed: forward on an intact walk, it is Skip.
LEMMA PrintKept ==
    ASSUME FieldTypes, NEW s, Lists(s), Stands(s), NEW i \in Iterator,
           NEW n \in 0 .. SizeT - 1, PrintNth(i, n)
    PROVE  Kept
<1>1. /\ i \in itr /\ itr' = itr /\ intact' = intact /\ intact[i]
      /\ s \in Seq(Node) /\ ~advanced[i] /\ cur[i] = At(s, pos[i] + 1)
      /\ pos[i] <= n /\ n < Len(s)
  BY DEF PrintNth, dico_iterator_item, Lists, Stands
<1>2. /\ Len(s) \in Nat /\ pos[i] \in Nat /\ n \in Nat
  BY ListsFit, ListAssumption DEF FieldTypes
<1>3. CASE n = pos[i]
  <2>1. UNCHANGED <<links, walks>>
    BY <1>2, <1>3 DEF PrintNth, dico_iterator_item
  <2> QED BY <1>1, <2>1, StayKept, ZenonT(30) DEF ListInv
<1>4. CASE n # pos[i]
  <2>1. PICK p \in Nat, e \in Nat : p >= 1 /\ p = pos[i] + 1 /\ n = p + e
    <3>1. pos[i] + 1 \in Nat /\ pos[i] + 1 >= 1 /\ n - (pos[i] + 1) \in Nat
      BY <1>1, <1>2, <1>4
    <3>2. n = (pos[i] + 1) + (n - (pos[i] + 1))
      BY <1>2
    <3> QED BY <3>1, <3>2
  <2>2. p + e < Len(s) /\ n > pos[i]
    BY <1>1, <1>2, <1>4, <2>1
  <2>3. p \in 1 .. Len(s) /\ n + 1 \in 1 .. Len(s) /\ n + 1 \in 0 .. Len(s) + 1
    BY <1>2, <2>1, <2>2, SMTT(30)
  <2>4. cur[i] = s[p] /\ next[cur[i]] = At(s, p + 1)
    <3>1. cur[i] = s[p]
      BY <1>1, <2>1, <2>3 DEF At
    <3> QED BY <2>3, <3>1 DEF Lists, Follows
  <2>5. MoveTo(i, At(s, n + 1), FALSE, n)
    <3> DEFINE seen == Along(next, next[cur[i]], e + 1)
    <3>1. SeekAlong(i, next, n, next[cur[i]], p)
      BY <1>1, <2>1, <2>2, ZenonT(30) DEF PrintNth, dico_iterator_item
    <3>2. Len(seen) = e + 1 /\ seen[e + 1] = s[n + 1]
      <4>1. next \in [Node -> Ptr] /\ Follows(next, s)
        BY DEF FieldTypes, Lists
      <4>2. /\ Len(Along(next, At(s, p + 1), e + 1)) = e + 1
            /\ Along(next, At(s, p + 1), e + 1)[e + 1] = s[p + e + 1]
        BY <1>1, <2>1, <2>2, <4>1, SeekForward, ZenonT(30)
      <4> QED BY <2>1, <2>4, <4>2
    <3>3. /\ (IF n > p THEN n - p ELSE p - n) = e /\ e + 1 > e
          /\ (IF n > p THEN p + e ELSE p - e) = n
      BY <2>1
    <3>4. At(s, n + 1) = s[n + 1]
      BY <2>3 DEF At
    <3> HIDE DEF seen
    <3>5. MoveTo(i, IF Len(seen) > e THEN seen[e + 1] ELSE Null, FALSE,
                 IF n > p THEN p + (IF Len(seen) > e THEN e ELSE Len(seen))
                          ELSE p - (IF Len(seen) > e THEN e ELSE Len(seen)))
      BY <3>1, <3>3, ZenonT(30) DEF SeekAlong, seen
    <3> QED BY <3>2, <3>3, <3>4, <3>5, ZenonT(30)
  <2>6. ListInv' /\ Promise!Move(i, At(s, n + 1), After(s, n + 1))
    BY <1>1, <2>3, <2>5, MoveKept, ZenonT(30)
  <2>7. Promise!Skip(i)
    <3>0. s[p] \in Node
      BY <2>3 DEF Lists
    <3>1. Mapped(s) /\ s[p] # Null
      BY <3>0, MapsNow, ListAssumption, Zenon
    <3>2. On[i] = s[p] /\ Ahead[i] = SubSeq(s, p + 1, Len(s))
      BY <1>1, <2>3, <2>4, <3>1, Zenon, SMTT(30) DEF Mapped
    <3>3. p + 1 \in 1 .. Len(s) + 1 /\ e + 1 \in 1 .. Len(s) + 1 - (p + 1)
      BY <1>2, <2>1, <2>2, SMTT(30)
    <3>4. /\ Len(Ahead[i]) = Len(s) + 1 - (p + 1)
          /\ Ahead[i][e + 1] = s[p + 1 + (e + 1) - 1]
          /\ SubSeq(Ahead[i], e + 1 + 1, Len(s) + 1 - (p + 1))
               = SubSeq(s, p + 1 + (e + 1), Len(s))
      BY <1>1, <3>2, <3>3, RestOfRest, ZenonT(30)
    <3>5. p + 1 + (e + 1) = n + 1 + 1 /\ p + 1 + (e + 1) - 1 = n + 1
      BY <2>1
    <3>6. /\ At(s, n + 1) = Ahead[i][e + 1]
          /\ After(s, n + 1) = SubSeq(Ahead[i], e + 1 + 1, Len(Ahead[i]))
      BY <2>3, <3>4, <3>5, Zenon DEF At, After
    <3> QED BY <2>6, <3>1, <3>2, <3>3, <3>4, <3>6, ZenonT(30) DEF Promise!Skip, Promise!From
  <2> QED BY <2>6, <2>7 DEF Kept, Walked, Promise!Next
<1> QED BY <1>3, <1>4, Zenon, SMTT(30)

\* append, and the three ways an entry is removed.
LEMMA AppendKept ==
    ASSUME FieldTypes, NEW s, Lists(s), Stands(s), NEW d \in Item, dico_list_append(d)
    PROVE  Kept
<1>1. PICK ep \in Node \ alloc : Appended(ep, d)
  BY DEF dico_list_append
<1>2. ListInv'
  BY <1>1, AppendLists DEF ListInv
<1>3. Promise!Add(ep)
  BY <1>1, AppendPromise
<1> QED BY <1>2, <1>3 DEF Kept, Walked, Promise!Next

LEMMA RemoveKept ==
    ASSUME FieldTypes, NEW s, Lists(s), Stands(s), NEW m \in 1 .. Len(s),
           remove_item(s[m])
    PROVE  Kept
<1>0. s[m] \in Node
  BY DEF Lists
<1>1. ListInv'
  BY RemoveLists, Zenon DEF ListInv
<1>2. Promise!Delete(s[m])
  BY RemovePromise, Zenon
<1> QED BY <1>0, <1>1, <1>2 DEF Kept, Walked, Promise!Next

-----------------------------------------------------------------------------
(* The results.                                                            *)

\* Every step of the list keeps the invariant, and is a step of ItemSeq or a
\* stutter of it.
LEMMA ListStep == ListInv /\ [Next]_vars => Kept
<1> SUFFICES ASSUME ListInv, [Next]_vars PROVE Kept
  OBVIOUS
<1>1. PICK s : FieldTypes /\ Lists(s) /\ Stands(s)
  BY DEF ListInv
<1>2. ASSUME NEW d \in Item, dico_list_append(d) PROVE Kept
  BY <1>1, <1>2, AppendKept
<1>3. ASSUME NEW d \in Item, dico_list_remove(d) PROVE Kept
  <2>1. PICK m \in 1 .. Len(s) : Locate(d) = s[m]
    BY <1>1, <1>3, Located DEF dico_list_remove
  <2> QED BY <1>1, <1>3, <2>1, RemoveKept DEF dico_list_remove
<1>4. CASE dico_list_pop
  <2>1. tail = s[Len(s)] /\ Len(s) \in 1 .. Len(s)
    BY <1>1, <1>4, ListsFit, Zenon DEF dico_list_pop, Lists, At
  <2> QED BY <1>1, <1>4, <2>1, RemoveKept, Zenon, SMTT(30) DEF dico_list_pop
<1>5. CASE dico_list_clear
  BY <1>1, <1>5, ClearLists, ClearPromise DEF Kept, ListInv, Walked, Promise!Next
<1>6. ASSUME NEW i \in Iterator, Iterate(i) PROVE Kept
  <2>1. CASE dico_iterator_attach(i)
    BY <1>1, <2>1, RewindKept DEF dico_iterator_attach
  <2>2. CASE dico_iterator_detach(i)
    BY <1>1, <2>2, DetachKept
  <2>3. CASE dico_iterator_first(i)
    <3>1. itr' = itr \cup {i}
      BY <2>3 DEF dico_iterator_first
    <3> QED BY <1>1, <2>3, <3>1, RewindKept DEF dico_iterator_first
  <2>4. CASE dico_iterator_next(i)
    BY <1>1, <2>4, NextKept
  <2>5. CASE dico_iterator_prev(i)
    BY <1>1, <2>5, PrevKept
  <2>6. CASE dico_iterator_remove_current(i)
    <3>1. PICK m \in 1 .. Len(s) : cur[i] = s[m]
      BY <1>1, <2>6, Place DEF dico_iterator_remove_current
    <3> QED BY <1>1, <2>6, <3>1, RemoveKept DEF dico_iterator_remove_current
  <2>7. ASSUME NEW d \in Item, dico_iterator_set_data(i, d) PROVE Kept
    BY <2>7, StayKept DEF dico_iterator_set_data
  <2> QED BY <1>6, <2>1, <2>2, <2>3, <2>4, <2>5, <2>6, <2>7 DEF Iterate
<1>7. ASSUME NEW i \in Iterator, NEW n \in 0 .. SizeT - 1, PrintNth(i, n) PROVE Kept
  BY <1>1, <1>7, PrintKept
<1>8. CASE UNCHANGED vars
  BY <1>8, StayKept DEF vars, links, walks
<1> QED BY <1>2, <1>3, <1>4, <1>5, <1>6, <1>7, <1>8 DEF Next, Change

\* The invariant implies what the runs check of a state.
LEMMA ListInvImplies == ListInv => NoDangling /\ BothWays /\ PositionExact
<1> SUFFICES ASSUME ListInv PROVE NoDangling /\ BothWays /\ PositionExact
  OBVIOUS
<1>1. PICK s : FieldTypes /\ Lists(s) /\ Stands(s)
  BY DEF ListInv
<1>2. /\ s \in Seq(Node) /\ Len(s) \in Nat /\ DOMAIN s = 1 .. Len(s)
      /\ alloc = Range(s) /\ count = Len(s)
      /\ \A k \in 1 .. Len(s) : s[k] \in alloc
      /\ \A k \in Int : At(s, k) \in alloc \cup {Null}
  BY <1>1 DEF Lists, Range, At
<1>3. NoDangling
  <2>1. head \in alloc \cup {Null} /\ tail \in alloc \cup {Null}
    BY <1>1, <1>2 DEF Lists
  <2>2. ASSUME NEW n \in alloc
        PROVE  next[n] \in alloc \cup {Null} /\ prev[n] \in alloc \cup {Null}
    <3>1. PICK k \in 1 .. Len(s) : n = s[k]
      BY <1>2 DEF Range
    <3>2. next[n] = At(s, k + 1) /\ prev[n] = At(s, k - 1)
      BY <1>1, <3>1 DEF Lists, Follows
    <3> QED BY <1>2, <3>2
  <2> QED BY <1>1, <2>1, <2>2, Zenon, SMTT(30) DEF NoDangling, Stands
<1>4. BothWays
  <2> DEFINE r == [k \in 1 .. Len(s) |-> s[Len(s) - k + 1]]
  <2>1. /\ Entries = s /\ Len(s) <= Cardinality(Node)
        /\ Cardinality(Node) \in Nat /\ Cardinality(alloc) = Len(s)
    BY <1>1, ListsFit, ListsEntries
  <2>2. /\ r \in Seq(Node) /\ Len(r) = Len(s)
        /\ \A k \in 1 .. Len(s) : r[k] = s[(Len(s) - k) + 1]
    BY <1>2, SeqOf
  <2> HIDE DEF r
  <2>3. \A k \in 0 .. Len(s) : At(r, k + 1) = At(s, Len(s) - k)
    BY <1>2, <2>2 DEF At
  <2>4. Follows(prev, r)
    <3> SUFFICES ASSUME NEW k \in 1 .. Len(r) PROVE prev[r[k]] = At(r, k + 1)
      BY DEF Follows
    <3>1. (Len(s) - k) + 1 \in 1 .. Len(s) /\ ((Len(s) - k) + 1) - 1 = Len(s) - k
      BY <1>2, <2>2
    <3>2. prev[s[(Len(s) - k) + 1]] = At(s, ((Len(s) - k) + 1) - 1)
      BY <1>1, <3>1, Zenon, SMTT(30) DEF Lists
    <3> QED BY <1>2, <2>2, <2>3, <3>1, <3>2
  <2>5. tail = At(r, 1) /\ 1 \in 1 .. Len(r) + 1 /\ Cardinality(Node) >= Len(r) + 1 - 1
    BY <1>1, <1>2, <2>1, <2>2, <2>3 DEF Lists
  <2>6. Along(prev, At(r, 1), Cardinality(Node)) = SubSeq(r, 1, Len(r))
    BY <1>1, <2>1, <2>2, <2>4, <2>5, AlongVisits, ZenonT(30) DEF FieldTypes
  <2>7. SubSeq(r, 1, Len(r)) = r
    BY <2>2, WholePart
  <2> QED BY <1>2, <2>1, <2>5, <2>6, <2>7 DEF BothWays, r
<1>5. PositionExact
  <2> SUFFICES ASSUME NEW i \in Iterator, intact[i]
               PROVE  cur[i] = IF pos[i] < count THEN Entries[pos[i] + 1] ELSE Null
    BY DEF PositionExact
  <2>1. cur[i] = At(s, pos[i] + 1) /\ Entries = s /\ pos[i] \in 0 .. SizeT - 1
    BY <1>1, ListsEntries DEF Stands, FieldTypes
  <2>2. pos[i] \in Nat
    BY <2>1, ListAssumption
  <2> QED BY <1>2, <2>1, <2>2 DEF At
<1> QED BY <1>3, <1>4, <1>5

\* ListInv is inductive.
THEOREM ListInvariant == Spec => []ListInv
<1>1. ListInv /\ [Next]_vars => ListInv'
  BY ListStep DEF Kept
<1> QED BY <1>1, ListInit, PTL DEF Spec

(***************************************************************************)
(* For any heap, any items and any iterators, no pointer of a list leads   *)
(* to a freed entry, however append, remove, pop, clear and the iterators  *)
(* follow one another.                                                     *)
(***************************************************************************)
THEOREM ListNoDangling == Spec => []NoDangling
  BY ListInvariant, ListInvImplies, PTL

(***************************************************************************)
(* The walk along prev is always the walk along next reversed, and both    *)
(* meet all that is allocated, count entries: _dico_list_append and        *)
(* _dico_list_remove_item lose no entry and close no loop.                 *)
(***************************************************************************)
THEOREM ListBothWays == Spec => []BothWays
  BY ListInvariant, ListInvImplies, PTL

(***************************************************************************)
(* The position dico_iterator_item counts from is exact on every walk that *)
(* no change of the list has disturbed.                                    *)
(***************************************************************************)
THEOREM ListPositions == Spec => []PositionExact
  BY ListInvariant, ListInvImplies, PTL

(***************************************************************************)
(* The pointers implement the sequence: every operation of list.c and of   *)
(* its iterators is a step of ItemSeq under the mapping Entries, On, Ahead.*)
(***************************************************************************)
THEOREM ListWalks == Spec => WalksAsPromised
<1>1. Init => Promise!Init
  <2> SUFFICES ASSUME Init PROVE Promise!Init
    OBVIOUS
  <2>1. PICK e : e = <<>>
    OBVIOUS
  <2>2. Lists(e)
    BY <2>1 DEF Init, Lists, Follows, At, Range
  <2>3. Entries = <<>>
    BY <2>1, <2>2, ListsEntries
  <2>4. \A i \in Iterator : cur[i] = Null
    BY DEF Init
  <2>5. On = [i \in Iterator |-> Null] /\ Ahead = [i \in Iterator |-> <<>>]
    BY <2>4, Zenon DEF On, Ahead
  <2> QED BY <2>3, <2>5 DEF Promise!Init
<1>2. ListInv /\ [Next]_vars => [Promise!Next]_(Promise!vars)
  BY ListStep DEF Kept, Walked, Promise!vars
<1> QED BY <1>1, <1>2, ListInvariant, PTL DEF Spec, WalksAsPromised, Promise!Spec
=============================================================================
