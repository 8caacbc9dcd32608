---------------------------- MODULE DictOrgProof ----------------------------
(***************************************************************************)
(* A database of the dict.org module.  What is read of an article through  *)
(* the cache of inflated chunks is its text, whatever the size of a chunk, *)
(* of the cache and of printdef's buffer.  For an index of any length with *)
(* any words, a search finds the entries that match and no others, but for *)
(* the first entry of the index.                                           *)
(***************************************************************************)
EXTENDS DictOrg, DictZip, FiltersProof, TLAPS

-----------------------------------------------------------------------------
(* The text of the database and the cache of its chunks                     *)

\* A chunk of the cache.
Chunk == [num : Int, buffer : Seq(Int), size : Int, refcount : Nat]

\* The chunk is as it was inflated, unless inflate refused it.
Inflated(cp, refused) ==
    cp.num \in Nat /\ cp.num \notin refused =>
      cp.buffer = Text(cp.num * ChunkSize, ChunkLen(cp.num)) /\ cp.size = ChunkLen(cp.num)

\* Every chunk of a cache is.
CacheInv(c, refused) == c \in Seq(Chunk) /\ \A i \in 1 .. Len(c) : Inflated(c[i], refused)

\* A stream, and one with such a cache.
StreamRec == [offset : Nat, cache : Seq(Chunk), err : BOOLEAN, refused : SUBSET Nat]
Stream == {s \in StreamRec : CacheInv(s.cache, s.refused)}

\* n bytes of the text.
LEMMA TextIs ==
    ASSUME NEW first \in Nat, NEW n \in Int
    PROVE  /\ Text(first, n) \in Seq(Int) /\ Len(Text(first, n)) = IF n >= 0 THEN n ELSE 0
           /\ DOMAIN Text(first, n) = 1 .. n
           /\ \A i \in 1 .. n : Text(first, n)[i] = first + i - 1
<1>1. CASE n >= 0
  BY <1>1 DEF Text
<1>2. CASE n < 0
  <2>1. 1 .. n = 1 .. 0
    BY <1>2
  <2>2. Text(first, n) = Text(first, 0)
    BY <2>1, Zenon DEF Text
  <2>3. Text(first, 0) \in Seq(Int) /\ Len(Text(first, 0)) = 0 /\ DOMAIN Text(first, 0) = 1 .. 0
    BY DEF Text
  <2> QED BY <1>2, <2>1, <2>2, <2>3
<1> QED BY <1>1, <1>2

\* The size of a chunk; a number behind the last chunk has none.
LEMMA ChunkLenIs ==
    ASSUME NEW num \in Nat
    PROVE  num * ChunkSize \in Nat /\ ChunkLen(num) \in Int
BY DictZipAssumption DEF ChunkLen

\* cache_get returns the chunk that is asked for, as it was inflated, or refuses
\* it, and leaves every chunk in the cache as it was inflated.
LEMMA Got ==
    \A s \in Stream, num \in Nat :
      LET got == cache_get(s, num)
          str == got.str
          place == Slot(str.cache, num) IN
      /\ got.ok \in BOOLEAN /\ str \in Stream
      /\ str.offset = s.offset /\ str.err = s.err /\ s.refused \subseteq str.refused
      /\ ~got.ok => num \in str.refused
      /\ got.ok => place \in 1 .. Len(str.cache) /\ str.cache[place].num = num
\* The least number of a set is in it.
<1>LeastIn.
      ASSUME NEW T \in SUBSET Nat, T # {} PROVE Least(T) \in T
  BY <1>LeastIn, LeastOf, Zenon DEF Least
\* The chunk with a number is found where there is one.
<1>SlotIs.
      ASSUME NEW c \in Seq(Chunk), NEW num, \E i \in DOMAIN c : c[i].num = num
      PROVE  Slot(c, num) \in 1 .. Len(c) /\ c[Slot(c, num)].num = num
  <2> DEFINE T == {i \in DOMAIN c : c[i].num = num}
  <2>1. T \in SUBSET Nat /\ T # {} /\ DOMAIN c = 1 .. Len(c)
    BY <1>SlotIs
  <2>2. Slot(c, num) = Least(T)
    BY DEF Slot
  <2>3. Least(T) \in T
    <3> HIDE DEF T
    <3> QED BY <2>1, <1>LeastIn
  <2> QED BY <2>1, <2>2, <2>3
\* A chunk that is used once more.
<1>ChunkUsed.
      ASSUME NEW cp \in Chunk
      PROVE  LET used == [cp EXCEPT !.refcount = @ + 1] IN
             used \in Chunk /\ used.num = cp.num /\ used.buffer = cp.buffer /\ used.size = cp.size
  BY DEF Chunk
\* cache_promote exchanges two chunks.
<1>Promoted.
      ASSUME NEW c \in Seq(Chunk), NEW n \in 1 .. Len(c)
      PROVE  \E i \in 1 .. n :
               LET r == cache_promote(c, n) IN
               /\ r \in Seq(Chunk) /\ Len(r) = Len(c)
               /\ r[i].num = c[n].num /\ r[i].buffer = c[n].buffer /\ r[i].size = c[n].size
               /\ \A j \in 1 .. Len(c) : j # i => r[j] = IF j = n THEN c[i] ELSE c[j]
  <2> DEFINE cp == [c[n] EXCEPT !.refcount = @ + 1]
             T == {i \in 1 .. n : \A j \in i .. n - 1 : c[j].refcount <= c[n].refcount}
             i == Least(T)
             r == cache_promote(c, n)
  <2>1. n \in T /\ T \in SUBSET Nat
    OBVIOUS
  <2>2. i \in T
    <3> HIDE DEF T
    <3> QED BY <2>1, <1>LeastIn
  <2>3. c[n] \in Chunk
    OBVIOUS
  <2>4. cp \in Chunk /\ cp.num = c[n].num /\ cp.buffer = c[n].buffer /\ cp.size = c[n].size
    BY <2>3, <1>ChunkUsed
  <2>5. r = IF i = n THEN [c EXCEPT ![n] = cp] ELSE [c EXCEPT ![i] = cp, ![n] = c[i]]
    BY DEF cache_promote, Promote
  <2>6. i \in 1 .. n
    BY <2>2
  <2> HIDE DEF cp, i, r
  <2>7. i \in 1 .. Len(c) /\ c[i] \in Chunk
    BY <2>6
  <2>8. /\ r \in Seq(Chunk) /\ Len(r) = Len(c)
        /\ \A j \in 1 .. Len(c) : r[j] = IF j = i THEN cp ELSE IF j = n THEN c[i] ELSE c[j]
    <3>1. CASE i = n
      BY <2>4, <2>5, <3>1, Replaced
    <3>2. CASE i # n
      <4>1. /\ [c EXCEPT ![i] = cp] \in Seq(Chunk) /\ Len([c EXCEPT ![i] = cp]) = Len(c)
            /\ \A j \in 1 .. Len(c) : [c EXCEPT ![i] = cp][j] = IF j = i THEN cp ELSE c[j]
        BY <2>4, <2>7, Replaced
      <4> DEFINE d == [c EXCEPT ![i] = cp]
      <4>2. r = [d EXCEPT ![n] = c[i]]
        BY <2>5, <3>2
      <4>3. d \in Seq(Chunk) /\ Len(d) = Len(c) /\ \A j \in 1 .. Len(c) : d[j] = IF j = i THEN cp ELSE c[j]
        BY <4>1
      <4> HIDE DEF d
      <4>4. /\ r \in Seq(Chunk) /\ Len(r) = Len(d)
            /\ \A j \in 1 .. Len(d) : r[j] = IF j = n THEN c[i] ELSE d[j]
        BY <2>7, <4>2, <4>3, Replaced
      <4> QED BY <3>2, <4>3, <4>4
    <3> QED BY <3>1, <3>2
  <2>9. /\ r[i].num = c[n].num /\ r[i].buffer = c[n].buffer /\ r[i].size = c[n].size
        /\ \A j \in 1 .. Len(c) : j # i => r[j] = IF j = n THEN c[i] ELSE c[j]
    BY <2>4, <2>7, <2>8
  <2> QED BY <2>6, <2>8, <2>9 DEF r
\* A chunk that gets a number.
<1>ChunkNumbered.
      ASSUME NEW cp \in Chunk, NEW k \in Int
      PROVE  [cp EXCEPT !.num = k] \in Chunk /\ [cp EXCEPT !.num = k].num = k
  BY DEF Chunk
\* A chunk that is not used any more.
<1>ChunkEmptied.
      ASSUME NEW cp \in Chunk PROVE [cp EXCEPT !.refcount = 0] \in Chunk
  BY DEF Chunk
\* A stream with another cache.
<1>StreamCached.
      ASSUME NEW s \in StreamRec, NEW d \in Seq(Chunk)
      PROVE  LET t == [s EXCEPT !.cache = d] IN
             /\ t \in StreamRec /\ t.cache = d
             /\ t.offset = s.offset /\ t.err = s.err /\ t.refused = s.refused
  BY Zenon DEF StreamRec
\* The chunk that cache_alloc returns is the last one, and the only one that is
\* not as it was.
<1>ChunkAllocated.
      ASSUME NEW c \in Seq(Chunk)
      PROVE  /\ cache_alloc(c) \in Seq(Chunk) /\ Len(cache_alloc(c)) \in Nat \ {0}
             /\ \A j \in 1 .. Len(cache_alloc(c)) - 1 : j \in 1 .. Len(c) /\ cache_alloc(c)[j] = c[j]
  <2>1. CASE Len(c) < CacheChunks
    <3>1. [i \in 1 .. ChunkSize |-> NoByte] \in Seq(Int)
      BY DictZipAssumption DEF NoByte
    <3>2. cache_create_chunk \in Chunk
      BY <3>1 DEF cache_create_chunk, Chunk
    <3>3. cache_alloc(c) = Append(c, cache_create_chunk)
      BY <2>1 DEF cache_alloc
    <3> QED BY <3>2, <3>3, Lengthened
  <2>2. CASE ~(Len(c) < CacheChunks)
    <3> DEFINE n == Len(c)
               d == [c EXCEPT ![n] = [c[n] EXCEPT !.refcount = 0]]
    <3>1. n \in Nat \ {0} /\ c[n] \in Chunk
      BY <2>2, DictZipAssumption
    <3>2. [c[n] EXCEPT !.refcount = 0] \in Chunk
      BY <3>1, <1>ChunkEmptied
    <3>3. d \in Seq(Chunk) /\ Len(d) = n /\ \A j \in 1 .. n : j # n => d[j] = c[j]
      BY <3>1, <3>2, Replaced
    <3>4. cache_alloc(c) = [d EXCEPT ![n] = [d[n] EXCEPT !.num = -1]]
      BY <2>2, <3>1 DEF cache_alloc
    <3> HIDE DEF d
    <3>5. [d[n] EXCEPT !.num = -1] \in Chunk
      BY <3>1, <3>3, <1>ChunkNumbered
    <3>6. /\ cache_alloc(c) \in Seq(Chunk) /\ Len(cache_alloc(c)) = n
          /\ \A j \in 1 .. n : j # n => cache_alloc(c)[j] = d[j]
      BY <3>1, <3>3, <3>4, <3>5, Replaced
    <3> QED BY <3>1, <3>3, <3>6
  <2> QED BY <2>1, <2>2
\* A number enters a cache that does not hold it: one chunk has it then, and the
\* others are among those there were.
<1>Entered.
      ASSUME NEW c \in Seq(Chunk), NEW num \in Nat, \A i \in 1 .. Len(c) : c[i].num # num
      PROVE  LET d == cache_enter(cache_alloc(c), num) IN
             /\ d \in Seq(Chunk)
             /\ \E m \in 1 .. Len(d) :
                  /\ d[m].num = num
                  /\ \A j \in 1 .. Len(d) : j # m => \E k \in 1 .. Len(c) : d[j] = c[k]
  <2> DEFINE a == cache_alloc(c)
             n == Len(a)
             b == [a EXCEPT ![n].num = num]
             d == cache_promote(b, n)
  <2>1. a \in Seq(Chunk) /\ n \in Nat \ {0} /\ \A j \in 1 .. n - 1 : j \in 1 .. Len(c) /\ a[j] = c[j]
    BY <1>ChunkAllocated
  <2> HIDE DEF a
  <2>2. a[n] \in Chunk
    BY <2>1
  <2>3. [a[n] EXCEPT !.num = num] \in Chunk /\ [a[n] EXCEPT !.num = num].num = num
    BY <2>2, <1>ChunkNumbered
  <2>4. b = [a EXCEPT ![n] = [a[n] EXCEPT !.num = num]]
    OBVIOUS
  <2>5. b \in Seq(Chunk) /\ Len(b) = n /\ b[n].num = num /\ \A j \in 1 .. n - 1 : b[j] = a[j]
    BY <2>1, <2>3, <2>4, Replaced
  <2> HIDE DEF b
  <2>0. n \in 1 .. Len(b)
    BY <2>1, <2>5
  <2>6. PICK i \in 1 .. n :
          /\ d \in Seq(Chunk) /\ Len(d) = Len(b) /\ d[i].num = b[n].num
          /\ \A j \in 1 .. Len(b) : j # i => d[j] = IF j = n THEN b[i] ELSE b[j]
    BY <2>0, <2>5, <1>Promoted, Zenon
  <2> HIDE DEF d
  <2>7. ASSUME NEW j \in 1 .. n, j # i PROVE \E k \in 1 .. Len(c) : d[j] = c[k]
    <3>1. CASE j = n
      <4>1. i \in 1 .. n - 1
        BY <2>1, <2>7, <3>1
      <4>2. d[j] = b[i]
        BY <2>0, <2>6, <2>7, <3>1, Zenon
      <4> QED BY <2>1, <2>5, <4>1, <4>2
    <3>2. CASE j # n
      <4>1. j \in 1 .. n - 1 /\ d[j] = b[j]
        BY <2>1, <2>5, <2>6, <2>7, <3>2
      <4> QED BY <2>1, <2>5, <4>1
    <3> QED BY <3>1, <3>2
  <2>8. cache_enter(cache_alloc(c), num) = d
    BY DEF cache_enter, a, b, d
  <2>9. Len(d) = n /\ i \in 1 .. Len(d) /\ d[i].num = num
    BY <2>5, <2>6
  <2>10. \A j \in 1 .. Len(d) : j # i => \E k \in 1 .. Len(c) : d[j] = c[k]
    BY <2>7, <2>9, Zenon
  <2> QED BY <2>6, <2>8, <2>9, <2>10, Zenon
<1> TAKE s \in Stream, num \in Nat
<1> DEFINE c == s.cache
           got == cache_get(s, num)
<1>1. s \in StreamRec /\ c \in Seq(Chunk) /\ \A i \in 1 .. Len(c) : Inflated(c[i], s.refused)
  BY DEF Stream, CacheInv
<1>2. CASE \E i \in DOMAIN c : c[i].num = num
  <2> DEFINE n == Slot(c, num)
             d == cache_promote(c, n)
  <2>1. n \in 1 .. Len(c) /\ c[n].num = num
    BY <1>1, <1>2, <1>SlotIs
  <2>2. got = [ok |-> TRUE, str |-> [s EXCEPT !.cache = d]]
    BY <1>2 DEF cache_get
  <2>3. PICK i \in 1 .. n :
          /\ d \in Seq(Chunk) /\ Len(d) = Len(c)
          /\ d[i].num = c[n].num /\ d[i].buffer = c[n].buffer /\ d[i].size = c[n].size
          /\ \A j \in 1 .. Len(c) : j # i => d[j] = IF j = n THEN c[i] ELSE c[j]
    BY <1>1, <2>1, <1>Promoted, Zenon
  <2> HIDE DEF d, n, c
  <2>4. ASSUME NEW j \in 1 .. Len(d) PROVE Inflated(d[j], s.refused)
    <3>1. PICK k \in 1 .. Len(c) : d[j].num = c[k].num /\ d[j].buffer = c[k].buffer /\ d[j].size = c[k].size
      BY <1>1, <2>1, <2>3, SMTT(30)
    <3> QED BY <1>1, <3>1, Zenon DEF Inflated
  <2>5. i \in 1 .. Len(d) /\ d[i].num = num /\ DOMAIN d = 1 .. Len(d)
    BY <1>1, <2>1, <2>3
  <2>6. Slot(d, num) \in 1 .. Len(d) /\ d[Slot(d, num)].num = num
    BY <2>3, <2>5, <1>SlotIs
  <2>7. CacheInv(d, s.refused)
    BY <2>3, <2>4, Zenon DEF CacheInv
  <2>8. /\ got.ok = TRUE /\ got.str \in StreamRec /\ got.str.cache = d
        /\ got.str.offset = s.offset /\ got.str.err = s.err /\ got.str.refused = s.refused
    <3> DEFINE t == [s EXCEPT !.cache = d]
    <3>1. t \in StreamRec /\ t.cache = d /\ t.offset = s.offset /\ t.err = s.err /\ t.refused = s.refused
      BY <1>1, <2>3, <1>StreamCached, Zenon
    <3> HIDE DEF t
    <3>2. got.ok = TRUE /\ got.str = t
      BY <2>2 DEF t
    <3> QED BY <3>1, <3>2, Zenon
  <2> HIDE DEF got
  <2>9. got.str \in Stream
    BY <2>7, <2>8 DEF Stream
  <2> QED BY <2>6, <2>8, <2>9, Zenon DEF got
<1>3. CASE ~\E i \in DOMAIN c : c[i].num = num
  <2> DEFINE d == cache_enter(cache_alloc(c), num)
             n == Slot(d, num)
  <2>1. \A i \in 1 .. Len(c) : c[i].num # num
    BY <1>1, <1>3
  <2>2. d \in Seq(Chunk)
    BY <1>1, <2>1, <1>Entered
  <2>3. PICK m \in 1 .. Len(d) :
          /\ d[m].num = num
          /\ \A j \in 1 .. Len(d) : j # m => \E k \in 1 .. Len(c) : d[j] = c[k]
    BY <1>1, <2>1, <1>Entered, Zenon
  <2>4. got = cache_inflate(s, d, num, n)
    BY <1>3 DEF cache_get, cache_read
  <2> HIDE DEF d
  <2>5. n \in 1 .. Len(d) /\ d[n].num = num
    BY <2>2, <2>3, <1>SlotIs
  <2>6. n = m
    BY <2>1, <2>3, <2>5
  <2> HIDE DEF c, n
  <2>7. \A j \in 1 .. Len(d) : j # n => Inflated(d[j], s.refused)
    BY <1>1, <2>3, <2>6
  <2>8. CASE num \in Corrupt \/ s.refused # {}
    <3>1. got = [ok |-> FALSE, str |-> [s EXCEPT !.cache = d, !.refused = @ \cup {num}]]
      BY <2>4, <2>8 DEF cache_inflate
    <3>2. /\ got.ok = FALSE /\ got.str \in StreamRec /\ got.str.cache = d
          /\ got.str.offset = s.offset /\ got.str.err = s.err
          /\ got.str.refused = s.refused \cup {num}
      <4> DEFINE t == [s EXCEPT !.cache = d, !.refused = @ \cup {num}]
      <4>1. /\ t \in StreamRec /\ t.cache = d /\ t.offset = s.offset /\ t.err = s.err
            /\ t.refused = s.refused \cup {num}
        BY <1>1, <2>2, Zenon DEF StreamRec
      <4> HIDE DEF t
      <4>2. got.ok = FALSE /\ got.str = t
        BY <3>1 DEF t
      <4> QED BY <4>1, <4>2, Zenon
    <3>3. ASSUME NEW j \in 1 .. Len(d) PROVE Inflated(d[j], s.refused \cup {num})
      BY <2>5, <2>7, Zenon DEF Inflated
    <3>4. CacheInv(d, s.refused \cup {num})
      BY <2>2, <3>3, Zenon DEF CacheInv
    <3> HIDE DEF got
    <3>5. got.str \in Stream
      BY <3>2, <3>4, Zenon DEF Stream
    <3> QED BY <3>2, <3>5, Zenon DEF got
  <2>9. CASE ~(num \in Corrupt \/ s.refused # {})
    <3> DEFINE b == Text(num * ChunkSize, ChunkLen(num))
               full == [[d[n] EXCEPT !.buffer = b] EXCEPT !.size = ChunkLen(num)]
               e == [d EXCEPT ![n] = full]
    <3>1. b \in Seq(Int) /\ ChunkLen(num) \in Int
      BY ChunkLenIs, TextIs, Zenon
    <3>2. d[n] \in Chunk
      BY <2>2, <2>5
    <3>3. full \in Chunk /\ full.num = num /\ full.buffer = b /\ full.size = ChunkLen(num)
      <4> HIDE DEF b
      <4>1. PICK cp \in Chunk : cp = d[n]
        BY <3>2
      <4>2. LET f == [[cp EXCEPT !.buffer = b] EXCEPT !.size = ChunkLen(num)] IN
            f \in Chunk /\ f.num = cp.num /\ f.buffer = b /\ f.size = ChunkLen(num)
        BY <3>1, Zenon DEF Chunk
      <4> QED BY <2>5, <4>1, <4>2
    <3>4. got = [ok |-> TRUE, str |-> [s EXCEPT !.cache = e]]
      BY <2>2, <2>4, <2>5, <2>9, Zenon DEF cache_inflate
    <3> HIDE DEF full
    <3>5. e \in Seq(Chunk) /\ Len(e) = Len(d) /\ \A j \in 1 .. Len(d) : e[j] = IF j = n THEN full ELSE d[j]
      BY <2>2, <2>5, <3>3, Replaced
    <3>6. ASSUME NEW j \in 1 .. Len(e) PROVE Inflated(e[j], s.refused)
      <4>1. CASE j = n
        <5>1. e[j] = full
          BY <3>5, <4>1
        <5> QED BY <3>3, <5>1, Zenon DEF Inflated, b
      <4>2. CASE j # n
        BY <2>7, <3>5, <4>2
      <4> QED BY <4>1, <4>2
    <3>7. n \in 1 .. Len(e) /\ e[n].num = num /\ DOMAIN e = 1 .. Len(e)
      BY <2>5, <3>3, <3>5
    <3> HIDE DEF e
    <3>8. Slot(e, num) \in 1 .. Len(e) /\ e[Slot(e, num)].num = num
      BY <3>5, <3>7, <1>SlotIs
    <3>9. CacheInv(e, s.refused)
      BY <3>5, <3>6, Zenon DEF CacheInv
    <3>10. /\ got.ok = TRUE /\ got.str \in StreamRec /\ got.str.cache = e
           /\ got.str.offset = s.offset /\ got.str.err = s.err /\ got.str.refused = s.refused
      <4> DEFINE t == [s EXCEPT !.cache = e]
      <4>1. t \in StreamRec /\ t.cache = e /\ t.offset = s.offset /\ t.err = s.err /\ t.refused = s.refused
        BY <1>1, <3>5, <1>StreamCached, Zenon
      <4> HIDE DEF t
      <4>2. got.ok = TRUE /\ got.str = t
        BY <3>4 DEF t
      <4> QED BY <4>1, <4>2, Zenon
    <3> HIDE DEF got
    <3>11. got.str \in Stream
      BY <3>9, <3>10 DEF Stream
    <3> QED BY <3>8, <3>10, <3>11, Zenon DEF got
  <2> QED BY <2>8, <2>9
<1> QED BY <1>2, <1>3


-----------------------------------------------------------------------------
(* A read                                                                   *)

\* A read on its way.
Reading == [str : Stream, num : Nat, off : Nat, size : Nat, buf : Seq(Int), ok : BOOLEAN]

\* A stream at another offset.
LEMMA StreamMoved ==
    ASSUME NEW s \in Stream, NEW o \in Nat
    PROVE  LET t == [s EXCEPT !.offset = o] IN
           t \in Stream /\ t.offset = o /\ t.err = s.err /\ t.refused = s.refused
<1> DEFINE t == [s EXCEPT !.offset = o]
<1>1. s \in StreamRec /\ CacheInv(s.cache, s.refused)
  BY DEF Stream
<1>2. t \in StreamRec /\ t.offset = o /\ t.err = s.err /\ t.refused = s.refused /\ t.cache = s.cache
  BY <1>1 DEF StreamRec
<1> HIDE DEF t
<1>3. t \in Stream
  BY <1>1, <1>2 DEF Stream
<1> QED BY <1>2, <1>3 DEF t

\* n bytes of a chunk, from off on.
Bytes(cp, off, n) ==
    [i \in 1 .. n |-> IF off + i \in DOMAIN cp.buffer THEN cp.buffer[off + i] ELSE NoByte]

\* The numbers of the chunks that n bytes from o on are in.
Within(o, n) == {(o + i) \div ChunkSize : i \in 0 .. n - 1}

\* After i iterations, at most, of a read of n bytes from str: what has been copied
\* is the text, unless inflate refused one of its chunks.
ReadSo(rd, str, n, i) ==
    /\ rd \in Reading /\ rd.str.err = str.err /\ str.refused \subseteq rd.str.refused
    /\ str.offset + n <= DictSize /\ Within(str.offset, n) \cap rd.str.refused = {} =>
         /\ rd.ok /\ rd.size <= n /\ (rd.size = 0 \/ rd.size + i <= n)
         /\ rd.str.offset = str.offset + (n - rd.size)
         /\ rd.buf = Text(str.offset, n - rd.size)
         /\ rd.size > 0 => /\ rd.off < ChunkSize
                           /\ rd.num * ChunkSize + rd.off = str.offset + (n - rd.size)

\* Text follows text.
LEMMA TextGrows == \A o, m, n \in Nat : Text(o, m) \o Text(o + m, n) = Text(o, m + n)
<1> SUFFICES ASSUME NEW o \in Nat, NEW m \in Nat, NEW n \in Nat
             PROVE  Text(o, m) \o Text(o + m, n) = Text(o, m + n)
  BY Zenon
<1>1. /\ Text(o, m) \in Seq(Int) /\ Len(Text(o, m)) = m
      /\ Text(o + m, n) \in Seq(Int) /\ Len(Text(o + m, n)) = n
      /\ Text(o, m + n) \in Seq(Int) /\ Len(Text(o, m + n)) = m + n
      /\ \A i \in 1 .. m : Text(o, m)[i] = o + i - 1
      /\ \A i \in 1 .. n : Text(o + m, n)[i] = o + m + i - 1
      /\ \A i \in 1 .. m + n : Text(o, m + n)[i] = o + i - 1
  <2>1. m \in Int /\ n \in Int /\ m + n \in Int /\ o + m \in Nat /\ m >= 0 /\ n >= 0 /\ m + n >= 0
    OBVIOUS
  <2> QED BY <2>1, TextIs, Zenon, SMTT(30)
<1> DEFINE t == Text(o, m)
           u == Text(o + m, n)
           v == Text(o, m + n)
<1> HIDE DEF t, u, v
<1>2. t \in Seq(Int) /\ Len(t) = m /\ u \in Seq(Int) /\ Len(u) = n /\ v \in Seq(Int) /\ Len(v) = m + n
  BY <1>1 DEF t, u, v
<1>3. /\ t \o u \in Seq(Int) /\ Len(t \o u) = m + n
      /\ \A i \in 1 .. m : (t \o u)[i] = t[i]
      /\ \A i \in 1 .. n : (t \o u)[m + i] = u[i]
  <2>1. /\ t \o u \in Seq(Int) /\ Len(t \o u) = Len(t) + Len(u)
        /\ \A i \in 1 .. Len(t) : (t \o u)[i] = t[i]
        /\ \A i \in 1 .. Len(u) : (t \o u)[Len(t) + i] = u[i]
    <3>1. \A x, y \in Seq(Int) :
            /\ x \o y \in Seq(Int) /\ Len(x \o y) = Len(x) + Len(y)
            /\ \A i \in 1 .. Len(x) : (x \o y)[i] = x[i]
            /\ \A i \in 1 .. Len(y) : (x \o y)[Len(x) + i] = y[i]
      BY Joined
    <3> QED BY <1>2, <3>1, Zenon
  <2> QED BY <1>2, <2>1, Zenon
<1>4. ASSUME NEW i \in 1 .. m + n PROVE (t \o u)[i] = v[i]
  <2>1. v[i] = o + i - 1
    BY <1>1 DEF v
  <2>2. CASE i <= m
    <3>1. (t \o u)[i] = t[i]
      BY <1>3, <2>2
    <3>2. t[i] = o + i - 1
      BY <1>1, <2>2 DEF t
    <3> QED BY <2>1, <3>1, <3>2
  <2>3. CASE i > m
    <3>1. PICK j \in 1 .. n : i = m + j
      <4>1. i - m \in 1 .. n /\ i = m + (i - m)
        BY <2>3
      <4> QED BY <4>1
    <3>2. (t \o u)[i] = u[j]
      BY <1>3, <3>1
    <3>3. u[j] = o + m + j - 1
      BY <1>1 DEF u
    <3>4. o + i - 1 = o + m + j - 1
      BY <3>1
    <3> QED BY <2>1, <3>2, <3>3, <3>4, Zenon
  <2>4. i <= m \/ i > m
    OBVIOUS
  <2> QED BY <2>2, <2>3, <2>4, Zenon
<1>5. t \o u = v
  BY <1>2, <1>3, <1>4, SameSeq, Zenon
<1> QED BY <1>5 DEF t, u, v

\* A read begins in the chunk that the offset is in.
ReadFrom(str, n) ==
    [str |-> str, num |-> str.offset \div ChunkSize,
     off |-> str.offset - (str.offset \div ChunkSize) * ChunkSize, size |-> n, buf |-> <<>>, ok |-> TRUE]

\* What a read returns, and what has been written.
Output == [str : Stream, buf : Seq(Int), ok : BOOLEAN]

\* dico_stream_read returns what the read has copied, or fails.
LEMMA ReadOut ==
    \A str \in Stream, n \in Nat :
      LET out == dict_read(str, n) IN
      /\ out \in Output /\ out.str.err = str.err /\ str.refused \subseteq out.str.refused
      /\ ~str.err /\ n > 0 /\ str.offset + n <= DictSize /\ Within(str.offset, n) \cap out.str.refused = {} =>
           /\ out.ok /\ out.str.offset = str.offset + n /\ out.buf = Text(str.offset, n)
      /\ n = 0 => out.buf = <<>>
\* What memcpy copies is bytes.
<1>CopiesBytes.
      ASSUME NEW cp \in Chunk, NEW off \in Nat, NEW n \in Nat
      PROVE  Bytes(cp, off, n) \in Seq(Int)
  <2>1. cp.buffer \in Seq(Int)
    BY DEF Chunk
  <2>2. Bytes(cp, off, n) \in [1 .. n -> Int]
    BY <2>1 DEF Bytes, NoByte
  <2> QED BY <2>2, SeqOf
\* It is text, where the chunk is as it was inflated.
<1>CopiesText.
      ASSUME NEW cp \in Chunk, NEW num \in Nat, NEW off \in Nat, NEW n \in Nat,
             cp.buffer = Text(num * ChunkSize, ChunkLen(num)), off + n <= ChunkLen(num)
      PROVE  Bytes(cp, off, n) = Text(num * ChunkSize + off, n)
  <2>1. num * ChunkSize \in Nat /\ ChunkLen(num) \in Int
    BY ChunkLenIs
  <2>2. /\ DOMAIN cp.buffer = 1 .. ChunkLen(num)
        /\ \A i \in 1 .. ChunkLen(num) : cp.buffer[i] = num * ChunkSize + i - 1
    BY <1>CopiesText, <2>1, TextIs, Zenon
  <2>3. ASSUME NEW i \in 1 .. n PROVE Bytes(cp, off, n)[i] = num * ChunkSize + off + i - 1
    <3>1. off + i \in 1 .. ChunkLen(num)
      BY <1>CopiesText, <2>1
    <3>2. Bytes(cp, off, n)[i] = cp.buffer[off + i]
      BY <2>2, <3>1, Zenon DEF Bytes
    <3>3. cp.buffer[off + i] = num * ChunkSize + (off + i) - 1
      BY <2>2, <3>1
    <3> QED BY <2>1, <3>2, <3>3
  <2>4. Text(num * ChunkSize + off, n) = [i \in 1 .. n |-> num * ChunkSize + off + i - 1]
    BY DEF Text
  <2>5. Bytes(cp, off, n) = [i \in 1 .. n |-> Bytes(cp, off, n)[i]]
    BY DEF Bytes
  <2> QED BY <2>3, <2>4, <2>5
\* An iteration of _dict_read_dzip: it copies what the chunk has from the offset
\* on, or all that is still asked for.
<1>Copied.
      ASSUME NEW rd \in Reading, rd.size # 0, rd.ok
      PROVE  LET r == CopyChunk(rd)
                 k == ChunkLen(rd.num) - rd.off
                 n == IF k > rd.size THEN rd.size ELSE k IN
             /\ r \in Reading /\ r.str.err = rd.str.err /\ rd.str.refused \subseteq r.str.refused
             /\ ~r.ok => rd.num \in r.str.refused
             /\ r.ok /\ rd.num \notin r.str.refused /\ k > 0 =>
                  /\ r.size = rd.size - n /\ r.num = rd.num + 1 /\ r.off = 0
                  /\ r.str.offset = rd.str.offset + n
                  /\ r.buf = rd.buf \o Text(rd.num * ChunkSize + rd.off, n)
  <2> DEFINE got == cache_get(rd.str, rd.num)
             str == got.str
             r == CopyChunk(rd)
             place == Slot(str.cache, rd.num)
             cp == str.cache[place]
  <2>1. /\ rd.str \in Stream /\ rd.num \in Nat /\ rd.off \in Nat /\ rd.size \in Nat
        /\ rd.buf \in Seq(Int) /\ rd.ok \in BOOLEAN
    BY DEF Reading
  <2>2. /\ got.ok \in BOOLEAN /\ str \in Stream
        /\ str.offset = rd.str.offset /\ str.err = rd.str.err /\ rd.str.refused \subseteq str.refused
        /\ ~got.ok => rd.num \in str.refused
        /\ got.ok => place \in 1 .. Len(str.cache) /\ cp.num = rd.num
    BY <2>1, Got, Zenon, SMTT(30)
  <2>3. r = IF got.ok THEN Copy(rd, str, cp, 0) ELSE [rd EXCEPT !.str = str, !.ok = FALSE]
    BY <1>Copied, <2>1 DEF CopyChunk, CopyFrom, CopyGot
  <2> HIDE DEF got, r
  <2>4. CASE ~got.ok
    <3>1. r = [rd EXCEPT !.str = str, !.ok = FALSE]
      BY <2>3, <2>4
    <3> HIDE DEF str
    <3>2. r \in Reading /\ r.str = str /\ r.ok = FALSE
      BY <2>2, <3>1, Zenon DEF Reading
    <3> QED BY <2>2, <2>4, <3>2, Zenon DEF r
  <2>5. CASE got.ok
    <3> DEFINE m == IF cp.size < rd.off \/ cp.size - rd.off > rd.size THEN rd.size ELSE cp.size - rd.off
               piece == Bytes(cp, rd.off, m)
               t == [str EXCEPT !.offset = @ + m]
    <3>1. r = [str |-> t, num |-> rd.num + 1, off |-> 0, size |-> rd.size - m, buf |-> rd.buf \o piece,
               ok |-> TRUE]
      BY <2>3, <2>5, Zenon DEF Copy, Bytes
    <3>2. /\ str \in StreamRec /\ CacheInv(str.cache, str.refused)
      BY <2>2 DEF Stream
    <3>3. cp \in Chunk /\ Inflated(cp, str.refused) /\ cp.num = rd.num /\ str.offset \in Nat
      BY <2>2, <2>5, <3>2 DEF CacheInv, StreamRec
    <3> HIDE DEF cp, str
    <3>4. cp.size \in Int
      BY <3>3 DEF Chunk
    <3>5. m \in 0 .. rd.size /\ m \in Nat
      BY <2>1, <3>4
    <3>6. piece \in Seq(Int)
      <4> HIDE DEF m
      <4> QED BY <2>1, <3>3, <3>5, <1>CopiesBytes, Zenon
    <3> DEFINE o == str.offset + m
    <3>7. o \in Nat /\ t = [str EXCEPT !.offset = o]
      BY <3>3, <3>5
    <3> HIDE DEF m, o, t
    <3>8. t \in Stream /\ t.offset = o /\ t.err = str.err /\ t.refused = str.refused
      BY <2>2, <3>7, StreamMoved, Zenon
    <3> HIDE DEF piece
    <3>9. /\ r.str = t /\ r.num = rd.num + 1 /\ r.off = 0 /\ r.size = rd.size - m
          /\ r.buf = rd.buf \o piece /\ r.ok = TRUE
      BY <3>1
    <3>10. r \in Reading
      <4>1. rd.buf \o piece \in Seq(Int)
        BY <2>1, <3>6
      <4> QED BY <2>1, <3>1, <3>5, <3>8, <4>1 DEF Reading
    <3>11. ASSUME rd.num \notin str.refused, ChunkLen(rd.num) - rd.off > 0
           PROVE  LET k == ChunkLen(rd.num) - rd.off
                      n == IF k > rd.size THEN rd.size ELSE k IN
                  m = n /\ piece = Text(rd.num * ChunkSize + rd.off, n)
      <4>1. /\ cp.buffer = Text(rd.num * ChunkSize, ChunkLen(rd.num))
            /\ cp.size = ChunkLen(rd.num) /\ ChunkLen(rd.num) \in Int
        BY <2>1, <3>3, <3>11, ChunkLenIs, Zenon DEF Inflated
      <4> DEFINE k == ChunkLen(rd.num) - rd.off
                 n == IF k > rd.size THEN rd.size ELSE k
      <4>2. m = n /\ rd.off + m <= ChunkLen(rd.num)
        BY <2>1, <3>11, <4>1 DEF m
      <4>3. piece = Text(rd.num * ChunkSize + rd.off, m)
        BY <2>1, <3>3, <3>5, <4>1, <4>2, <1>CopiesText DEF piece
      <4> QED BY <4>2, <4>3
    <3>12. /\ r.str.err = rd.str.err /\ rd.str.refused \subseteq r.str.refused /\ r.str.refused = str.refused
           /\ r.str.offset = rd.str.offset + m
      BY <2>2, <3>8, <3>9 DEF o
    <3> QED BY <3>9, <3>10, <3>11, <3>12, Zenon DEF r
  <2> QED BY <2>2, <2>4, <2>5, Zenon
\* Every iteration makes the text longer, from one chunk to the next.
<1>ReadsOn.
      ASSUME NEW str \in Stream, NEW n \in Nat, NEW i \in Nat, NEW rd, ReadSo(rd, str, n, i)
      PROVE  ReadSo(CopyChunk(rd), str, n, i + 1)
  <2> DEFINE r == CopyChunk(rd)
             o == str.offset
  <2>1. /\ rd \in Reading /\ rd.str.err = str.err /\ str.refused \subseteq rd.str.refused
        /\ o \in Nat /\ rd.size \in Nat /\ rd.num \in Nat /\ rd.off \in Nat
    BY <1>ReadsOn DEF ReadSo, Reading, Stream, StreamRec
  <2>2. CASE rd.size = 0 \/ ~rd.ok
    <3>1. r = rd
      BY <2>2 DEF CopyChunk, CopyFrom
    <3> HIDE DEF r
    <3>2. ReadSo(rd, str, n, i + 1)
      BY <1>ReadsOn, <2>2, Zenon DEF ReadSo
    <3> QED BY <3>1, <3>2 DEF r
  <2>3. CASE rd.size # 0 /\ rd.ok
    <3> DEFINE k == ChunkLen(rd.num) - rd.off
               m == IF k > rd.size THEN rd.size ELSE k
    <3>1. /\ r \in Reading /\ r.str.err = rd.str.err /\ rd.str.refused \subseteq r.str.refused
          /\ ~r.ok => rd.num \in r.str.refused
          /\ r.ok /\ rd.num \notin r.str.refused /\ k > 0 =>
               /\ r.size = rd.size - m /\ r.num = rd.num + 1 /\ r.off = 0
               /\ r.str.offset = rd.str.offset + m
               /\ r.buf = rd.buf \o Text(rd.num * ChunkSize + rd.off, m)
      BY <2>1, <2>3, <1>Copied, Zenon
    <3> HIDE DEF r
    <3>2. ASSUME o + n <= DictSize, Within(o, n) \cap r.str.refused = {}
          PROVE  /\ r.ok /\ r.size <= n /\ (r.size = 0 \/ r.size + (i + 1) <= n)
                 /\ r.str.offset = o + (n - r.size)
                 /\ r.buf = Text(o, n - r.size)
                 /\ r.size > 0 => r.off < ChunkSize /\ r.num * ChunkSize + r.off = o + (n - r.size)
      <4>1. Within(o, n) \cap rd.str.refused = {}
        BY <3>1, <3>2
      <4> DEFINE b == rd.num * ChunkSize
      <4>0. rd.str.offset = o + (n - rd.size) /\ rd.buf = Text(o, n - rd.size)
        BY <1>ReadsOn, <3>2, <4>1, Zenon DEF ReadSo
      <4>2. /\ rd.size <= n /\ rd.size + i <= n /\ rd.size > 0
            /\ rd.off < ChunkSize /\ b + rd.off = o + (n - rd.size)
            /\ o \in Nat /\ rd.size \in Nat /\ rd.off \in Nat
        BY <1>ReadsOn, <2>1, <2>3, <3>2, <4>1 DEF ReadSo
      <4>3. /\ ChunkSize \in Nat \ {0} /\ DictSize \in Nat /\ b \in Nat
            /\ (rd.num + 1) * ChunkSize = b + ChunkSize
        BY <2>1, DictZipAssumption
      <4> HIDE DEF o
      <4>4. rd.num \in Within(o, n)
        <5>1. rd.off \in 0 .. ChunkSize - 1
          BY <2>1, <4>2, <4>3
        <5>2. (b + rd.off) \div ChunkSize = rd.num
          BY <2>1, <4>3, <5>1, Quotient, Zenon
        <5> HIDE DEF b
        <5>3. n - rd.size \in 0 .. n - 1
          BY <2>1, <2>3, <4>2
        <5>4. (o + (n - rd.size)) \div ChunkSize = rd.num
          BY <4>2, <5>2, Zenon
        <5> QED BY <5>3, <5>4 DEF Within
      <4>5. r.ok /\ rd.num \notin r.str.refused
        BY <3>1, <3>2, <4>4 DEF Reading
      <4>6. ChunkLen(rd.num) = IF DictSize - b < ChunkSize THEN DictSize - b ELSE ChunkSize
        BY DEF ChunkLen
      <4> HIDE DEF b
      <4>7. /\ k > 0 /\ m \in 1 .. rd.size
            /\ m < rd.size => rd.off + m = ChunkSize
        BY <3>2, <4>2, <4>3, <4>6
      <4> HIDE DEF k, m
      <4>8. r.size = rd.size - m /\ r.num = rd.num + 1 /\ r.off = 0
        BY <3>1, <4>5, <4>7, Zenon
      <4>12. r.buf = rd.buf \o Text(b + rd.off, m) /\ r.str.offset = rd.str.offset + m
        BY <3>1, <4>5, <4>7, Zenon DEF b
      <4>9. r.buf = Text(o, n - r.size)
        <5>1. n - rd.size \in Nat /\ m \in Nat /\ (n - rd.size) + m = n - r.size
          BY <4>2, <4>7, <4>8
        <5>2. r.buf = Text(o, n - rd.size) \o Text(o + (n - rd.size), m)
          BY <4>0, <4>2, <4>12, Zenon
        <5>3. PICK d \in Nat : d = n - rd.size
          BY <5>1
        <5>4. Text(o, d) \o Text(o + d, m) = Text(o, d + m)
          <6>1. o \in Nat /\ m \in Nat
            BY <4>2, <5>1
          <6> QED BY <6>1, TextGrows, Zenon
        <5> QED BY <5>1, <5>2, <5>3, <5>4, Zenon
      <4>10. r.size <= n /\ (r.size = 0 \/ r.size + (i + 1) <= n) /\ r.str.offset = o + (n - r.size)
        <5>1. r.str.offset = o + (n - rd.size) + m
          BY <4>0, <4>12, Zenon
        <5> QED BY <4>2, <4>7, <4>8, <5>1
      <4>11. r.size > 0 => r.off < ChunkSize /\ r.num * ChunkSize + r.off = o + (n - r.size)
        <5>1. r.num * ChunkSize = b + ChunkSize
          BY <4>3, <4>8, Zenon
        <5> QED BY <4>2, <4>3, <4>7, <4>8, <5>1
      <4> QED BY <4>5, <4>9, <4>10, <4>11
    <3>3. str.refused \subseteq r.str.refused
      BY <2>1, <3>1
    <3>4. ReadSo(r, str, n, i + 1)
      BY <2>1, <3>1, <3>2, <3>3, Zenon DEF ReadSo
    <3> QED BY <3>4 DEF r
  <2> QED BY <2>1, <2>2, <2>3
<1>ReadBegins.
      ASSUME NEW str \in Stream, NEW n \in Nat
      PROVE  ReadSo(ReadFrom(str, n), str, n, 0)
  <2> DEFINE o == str.offset
             d == o \div ChunkSize
             rd == ReadFrom(str, n)
  <2>1. o \in Nat /\ ChunkSize \in Nat \ {0}
    BY DictZipAssumption DEF Stream, StreamRec
  <2>2. d \in Nat /\ d * ChunkSize \in Nat /\ d * ChunkSize <= o /\ o < d * ChunkSize + ChunkSize
    BY <2>1, Divided, Zenon
  <2> DEFINE b == d * ChunkSize
  <2> HIDE DEF b
  <2>3. o - b \in Nat /\ o - b < ChunkSize /\ b + (o - b) = o
    BY <2>1, <2>2 DEF b
  <2>4. rd = [str |-> str, num |-> d, off |-> o - b, size |-> n, buf |-> <<>>, ok |-> TRUE]
    BY DEF ReadFrom, b
  <2> HIDE DEF rd, d, o
  <2>5. /\ rd.str = str /\ rd.num = d /\ rd.off = o - b /\ rd.size = n /\ rd.buf = <<>> /\ rd.ok = TRUE
    BY <2>4
  <2>6. rd \in Reading
    <3>1. <<>> \in Seq(Int)
      OBVIOUS
    <3> QED BY <2>2, <2>3, <2>4, <3>1 DEF Reading
  <2>7. Text(o, 0) = <<>>
    BY DEF Text
  <2>8. /\ rd.size <= n /\ (rd.size = 0 \/ rd.size + 0 <= n) /\ n - rd.size = 0 /\ o + (n - rd.size) = o
        /\ rd.off < ChunkSize /\ rd.num * ChunkSize + rd.off = o
    BY <2>1, <2>3, <2>5 DEF b
  <2>9. ReadSo(rd, str, n, 0)
    BY <2>5, <2>6, <2>7, <2>8, Zenon DEF ReadSo, o
  <2> QED BY <2>9 DEF rd
\* An iteration of a read gives a read.
<1>CopyTyped.
      ASSUME NEW rd \in Reading PROVE CopyChunk(rd) \in Reading
  <2>1. CASE rd.size # 0 /\ rd.ok
    BY <2>1, <1>Copied, Zenon
  <2>2. CASE ~(rd.size # 0 /\ rd.ok)
    <3>1. CopyChunk(rd) = rd
      BY <2>2 DEF CopyChunk, CopyFrom
    <3> QED BY <3>1
  <2> QED BY <2>1, <2>2
\* _dict_read_dzip reads the text from the offset on, unless inflate refuses one of
\* its chunks: there are more iterations than bytes.
<1>ReadDzip.
      ASSUME NEW str \in Stream, NEW n \in Nat
      PROVE  LET rd == dict_read_dzip(str, n) IN
             /\ rd \in Reading /\ rd.str.err = str.err /\ str.refused \subseteq rd.str.refused
             /\ str.offset + n <= DictSize /\ Within(str.offset, n) \cap rd.str.refused = {} =>
                  /\ rd.ok /\ rd.str.offset = str.offset + n /\ rd.buf = Text(str.offset, n)
  <2> DEFINE most == n + DictSize \div ChunkSize + 1
             z == ReadFrom(str, n)
             F == [i \in Nat |-> [rd \in Reading |-> CopyChunk(rd)]]
  <2>1. str.offset \in Nat /\ ChunkSize \in Nat \ {0} /\ DictSize \in Nat
    BY DictZipAssumption DEF Stream, StreamRec
  <2>2. most \in Nat /\ most > n
    <3>1. DictSize \div ChunkSize \in Nat
      BY <2>1, Divided
    <3> QED BY <3>1
  <2> HIDE DEF most, z
  <2>3. ReadSo(z, str, n, 0) /\ z \in Reading
    BY <1>ReadBegins DEF z, ReadSo
  <2>4. F \in [Nat -> [Reading -> Reading]]
    BY <1>CopyTyped
  <2>5. PICK g : Iteration(g, most, Reading, z, F)
    <3> HIDE DEF F
    <3> QED BY <2>2, <2>3, <2>4, Iterates, Zenon, SMTT(30)
  <2>6. g \in [0 .. most -> Reading] /\ g[0] = z
    BY <2>5 DEF Iteration
  <2>7. ASSUME NEW i \in 1 .. most PROVE g[i] = CopyChunk(g[i - 1])
    <3>1. i \in Nat /\ i - 1 \in 0 .. most
      BY <2>2
    <3>2. g[i - 1] \in Reading
      BY <2>6, <3>1
    <3>3. g[i] = F[i][g[i - 1]]
      <4> HIDE DEF F
      <4> QED BY <2>5, <2>7, Zenon DEF Iteration
    <3> QED BY <3>1, <3>2, <3>3
  <2> DEFINE read == CHOOSE h : h = [i \in 0 .. most |-> IF i = 0 THEN z ELSE CopyChunk(h[i - 1])]
  <2>8. dict_read_dzip(str, n) = read[most]
    BY DEF dict_read_dzip, most, z, ReadFrom
  <2>9. g = [i \in 0 .. most |-> IF i = 0 THEN z ELSE CopyChunk(g[i - 1])]
    <3>1. ASSUME NEW i \in 0 .. most PROVE g[i] = IF i = 0 THEN z ELSE CopyChunk(g[i - 1])
      BY <2>2, <2>6, <2>7
    <3> QED BY <2>6, <3>1
  <2>10. read = [i \in 0 .. most |-> IF i = 0 THEN z ELSE CopyChunk(read[i - 1])]
    BY <2>9, Zenon
  <2> HIDE DEF read
  <2>11. read[0] = z /\ \A i \in 1 .. most : read[i] = CopyChunk(read[i - 1])
    <3>1. \A i \in 0 .. most : read[i] = IF i = 0 THEN z ELSE CopyChunk(read[i - 1])
      BY <2>10, Zenon
    <3> QED BY <2>2, <3>1
  <2> DEFINE Good == {i \in Nat : i <= most => ReadSo(read[i], str, n, i)}
  <2>12. 0 \in Good
    BY <2>3, <2>11
  <2>13. ASSUME NEW i \in Good PROVE i + 1 \in Good
    <3> SUFFICES ASSUME i + 1 <= most PROVE ReadSo(read[i + 1], str, n, i + 1)
      OBVIOUS
    <3>1. i \in Nat /\ i + 1 \in 1 .. most /\ ReadSo(read[i], str, n, i) /\ (i + 1) - 1 = i
      BY <2>2
    <3>2. read[i + 1] = CopyChunk(read[i])
      BY <2>11, <3>1, Zenon
    <3> QED BY <3>1, <3>2, <1>ReadsOn, Zenon
  <2>14. Good = Nat
    <3> HIDE DEF Good
    <3>1. Good \in SUBSET Nat
      BY DEF Good
    <3> QED BY <2>12, <2>13, <3>1, SetInduction
  <2> DEFINE rd == dict_read_dzip(str, n)
  <2>15. ReadSo(rd, str, n, most)
    BY <2>2, <2>8, <2>14
  <2> HIDE DEF rd
  <2>16. rd \in Reading /\ rd.size \in Nat
    BY <2>15 DEF ReadSo, Reading
  <2>17. ASSUME str.offset + n <= DictSize, Within(str.offset, n) \cap rd.str.refused = {}
         PROVE  rd.ok /\ rd.str.offset = str.offset + n /\ rd.buf = Text(str.offset, n)
    <3>1. /\ rd.ok /\ (rd.size = 0 \/ rd.size + most <= n)
          /\ rd.str.offset = str.offset + (n - rd.size) /\ rd.buf = Text(str.offset, n - rd.size)
      BY <2>15, <2>17, Zenon DEF ReadSo
    <3>2. n - rd.size = n
      <4>1. rd.size = 0 \/ rd.size + most <= n
        BY <3>1
      <4> QED BY <2>2, <2>16, <4>1
    <3> QED BY <3>1, <3>2, Zenon
  <2> QED BY <2>15, <2>17 DEF ReadSo, rd
<1> TAKE str \in Stream, n \in Nat
<1> DEFINE out == dict_read(str, n)
           rd == dict_read_dzip(str, n)
<1>0. <<>> \in Seq(Int)
  OBVIOUS
<1>1. CASE str.err \/ n = 0
  <2>1. out = [str |-> str, buf |-> <<>>, ok |-> FALSE]
    BY <1>1 DEF dict_read
  <2> HIDE DEF out
  <2>2. out \in Output /\ out.str = str /\ out.buf = <<>>
    BY <1>0, <2>1 DEF Output
  <2>3. n = 0 => ~(n > 0)
    OBVIOUS
  <2>4. ~(~str.err /\ n > 0)
    BY <1>1, <2>3, Zenon
  <2>5. out.str.err = str.err /\ str.refused \subseteq out.str.refused
    BY <2>2
  <2> QED BY <2>2, <2>4, <2>5, Zenon DEF out
<1>2. CASE ~(str.err \/ n = 0)
  <2>1. out = [str |-> rd.str, buf |-> IF rd.ok THEN rd.buf ELSE <<>>, ok |-> rd.ok]
    BY <1>2 DEF dict_read, AllOrNone
  <2>2. /\ rd \in Reading /\ rd.str.err = str.err /\ str.refused \subseteq rd.str.refused
        /\ str.offset + n <= DictSize /\ Within(str.offset, n) \cap rd.str.refused = {} =>
             rd.ok /\ rd.str.offset = str.offset + n /\ rd.buf = Text(str.offset, n)
    BY <1>ReadDzip
  <2> HIDE DEF out, rd
  <2>3. rd.str \in Stream /\ rd.buf \in Seq(Int) /\ rd.ok \in BOOLEAN
    BY <2>2 DEF Reading
  <2>4. out.str = rd.str /\ out.ok = rd.ok /\ (rd.ok => out.buf = rd.buf)
    BY <2>1
  <2>5. out \in Output
    BY <1>0, <2>1, <2>3 DEF Output
  <2>6. out.str.err = str.err /\ str.refused \subseteq out.str.refused /\ n # 0
    BY <1>2, <2>2, <2>4, Zenon
  <2>7. ASSUME str.offset + n <= DictSize, Within(str.offset, n) \cap out.str.refused = {}
        PROVE  out.ok /\ out.str.offset = str.offset + n /\ out.buf = Text(str.offset, n)
    <3>1. rd.ok /\ rd.str.offset = str.offset + n /\ rd.buf = Text(str.offset, n)
      BY <2>2, <2>4, <2>7, Zenon
    <3> QED BY <2>4, <3>1, Zenon
  <2> QED BY <2>5, <2>6, <2>7, Zenon DEF out
<1> QED BY <1>1, <1>2
-----------------------------------------------------------------------------
(* An article                                                               *)

\* What printdef has written after i pieces of an article of n bytes.
SoFar(n, i) == IF i * Piece > n THEN n ELSE i * Piece

\* It is the text, unless inflate refused one of the chunks of the article.
PrintSo(out, str, n, i) ==
    /\ out \in Output /\ out.str.err = str.err /\ str.refused \subseteq out.str.refused
    /\ ~str.err /\ str.offset + n <= DictSize /\ Within(str.offset, n) \cap out.str.refused = {} =>
         /\ out.ok /\ out.str.offset = str.offset + SoFar(n, i)
         /\ out.buf = Text(str.offset, SoFar(n, i))

\* The size of a piece.
PieceSize(n, i) == IF i * Piece > n THEN n % Piece ELSE Piece

\* A stream begins with an empty cache.
LEMMA StreamCreated == dict_stream_create \in Stream
<1>1. <<>> \in Seq(Chunk) /\ Len(<<>>) = 0
  OBVIOUS
<1>2. dict_stream_create \in StreamRec /\ dict_stream_create.cache = <<>>
  BY <1>1 DEF dict_stream_create, StreamRec
<1>3. CacheInv(<<>>, dict_stream_create.refused)
  BY <1>1 DEF CacheInv
<1> QED BY <1>2, <1>3 DEF Stream

\* An article that is read is its text, whether it is written piece by piece or,
\* as an entry of the database's own, read at once.
LEMMA ArticleSaid ==
    \A str \in Stream, a \in [offset : Nat, size : Nat] :
      (a.offset <= DictSize => a.offset + a.size <= DictSize) =>
      \A out : out = printdef(str, a) \/ out = db_entry(str, a) =>
        /\ out.str \in Stream
        /\ ~out.str.err /\ ChunksOf(a) \cap out.str.refused = {} => out.buf = Text(a.offset, a.size)
\* A seek goes to the offset, or is the last thing the stream does.
<1>SeekIs.
      ASSUME NEW str \in Stream, NEW o \in Nat
      PROVE  LET t == dict_seek(str, o) IN
             /\ t \in Stream /\ t.refused = str.refused
             /\ ~t.err => ~str.err /\ o <= DictSize /\ t.offset = o
  <2> DEFINE t == dict_seek(str, o)
  <2>1. CASE str.err
    BY <2>1 DEF dict_seek
  <2>2. CASE ~str.err /\ o > DictSize
    <3>1. t = [str EXCEPT !.err = TRUE]
      BY <2>2 DEF dict_seek
    <3>2. str \in StreamRec /\ CacheInv(str.cache, str.refused)
      BY DEF Stream
    <3> HIDE DEF t
    <3>3. t \in StreamRec /\ t.cache = str.cache /\ t.refused = str.refused /\ t.err = TRUE
      BY <3>1, <3>2, Zenon DEF StreamRec
    <3>4. t \in Stream
      BY <3>2, <3>3 DEF Stream
    <3> QED BY <3>3, <3>4 DEF t
  <2>3. CASE ~str.err /\ ~(o > DictSize)
    <3>1. t = [str EXCEPT !.offset = o]
      BY <2>3 DEF dict_seek
    <3>2. t \in Stream /\ t.offset = o /\ t.err = str.err /\ t.refused = str.refused
      BY <3>1, StreamMoved
    <3> QED BY <2>3, <3>2, DictZipAssumption
  <2> QED BY <2>1, <2>2, <2>3
\* The article that find_db_entry reads is the text, unless inflate refused one
\* of its chunks.
<1>EntryRead.
      ASSUME NEW str \in Stream, NEW o \in Nat, NEW n \in Nat, o <= DictSize => o + n <= DictSize
      PROVE  LET out == db_entry(str, [offset |-> o, size |-> n]) IN
             /\ out.str \in Stream
             /\ ~out.str.err /\ Within(o, n) \cap out.str.refused = {} => out.buf = Text(o, n)
  <2> DEFINE t == dict_seek(str, o)
             out == dict_read(t, n)
  <2>1. t \in Stream /\ (~t.err => o <= DictSize /\ t.offset = o)
    BY <1>SeekIs
  <2>2. db_entry(str, [offset |-> o, size |-> n]) = out
    BY DEF db_entry
  <2> HIDE DEF t
  <2>3. /\ out \in Output /\ out.str.err = t.err
        /\ ~t.err /\ n > 0 /\ t.offset + n <= DictSize /\ Within(t.offset, n) \cap out.str.refused = {} =>
             out.buf = Text(t.offset, n)
        /\ n = 0 => out.buf = <<>>
    BY <2>1, ReadOut
  <2> HIDE DEF out
  <2>4. out.str \in Stream
    BY <2>3 DEF Output
  <2>5. n = 0 => Text(o, n) = <<>>
    BY DEF Text
  <2>6. n = 0 \/ n > 0
    OBVIOUS
  <2>7. ASSUME ~out.str.err, Within(o, n) \cap out.str.refused = {} PROVE out.buf = Text(o, n)
    <3>1. ~t.err /\ t.offset = o /\ o + n <= DictSize
      BY <1>EntryRead, <2>1, <2>3, <2>7
    <3> QED BY <2>3, <2>5, <2>6, <2>7, <3>1, Zenon
  <2> QED BY <2>2, <2>4, <2>7 DEF out
\* The pieces are the article, each of them as far as the next.
<1>PiecesAre.
      ASSUME NEW n \in Nat
      PROVE  LET c == (n + Piece - 1) \div Piece IN
             /\ c \in Nat /\ SoFar(n, 0) = 0 /\ SoFar(n, c) = n
             /\ \A i \in 0 .. c - 1 : /\ SoFar(n, i) \in Nat /\ PieceSize(n, i + 1) \in Nat \ {0}
                                      /\ SoFar(n, i + 1) = SoFar(n, i) + PieceSize(n, i + 1)
                                      /\ SoFar(n, i + 1) <= n
  <2> DEFINE c == (n + Piece - 1) \div Piece
             e == c * Piece
  <2>0. Piece \in Nat \ {0} /\ n + Piece - 1 \in Nat
    BY DictZipAssumption
  <2>1. c \in Nat /\ e \in Nat /\ e <= n + Piece - 1 /\ n + Piece - 1 < e + Piece
    BY <2>0, Divided
  <2>2. SoFar(n, 0) = 0
    BY <2>0 DEF SoFar
  <2> HIDE DEF c
  <2>3. SoFar(n, c) = n
    <3> HIDE DEF e
    <3>1. e >= n
      BY <2>0, <2>1
    <3> QED BY <2>1, <3>1 DEF SoFar, e
  <2>4. ASSUME NEW i \in 0 .. c - 1
        PROVE  /\ SoFar(n, i) \in Nat /\ PieceSize(n, i + 1) \in Nat \ {0}
               /\ SoFar(n, i + 1) = SoFar(n, i) + PieceSize(n, i + 1)
               /\ SoFar(n, i + 1) <= n
    <3> DEFINE b == i * Piece
    <3>1. i \in Nat /\ i < c /\ b \in Nat /\ (i + 1) * Piece = b + Piece
      BY <2>0, <2>1
    <3>2. b + Piece <= e
      BY <2>0, <2>1, <3>1, Multiples
    <3>3. b < n
      <4> HIDE DEF b, e
      <4> QED BY <2>0, <2>1, <3>1, <3>2
    <3>4. SoFar(n, i) = b
      <4>1. ~(b > n)
        <5> HIDE DEF b
        <5> QED BY <3>1, <3>3
      <4> QED BY <4>1 DEF SoFar
    <3>5. CASE b + Piece > n
      <4>1. n - b \in 0 .. Piece - 1 /\ n - b > 0 /\ b + (n - b) = n
        <5> HIDE DEF b
        <5> QED BY <2>0, <3>1, <3>3, <3>5
      <4>2. (b + (n - b)) % Piece = n - b
        BY <2>0, <3>1, <4>1, Remainder, Zenon
      <4>3. PieceSize(n, i + 1) = n - b /\ SoFar(n, i + 1) = n
        BY <3>1, <3>5, <4>1, <4>2, Zenon DEF PieceSize, SoFar
      <4> HIDE DEF b
      <4> QED BY <3>1, <3>4, <4>1, <4>3
    <3>6. CASE ~(b + Piece > n)
      <4>1. PieceSize(n, i + 1) = Piece /\ SoFar(n, i + 1) = b + Piece
        BY <3>1, <3>6, Zenon DEF PieceSize, SoFar
      <4> HIDE DEF b
      <4> QED BY <2>0, <3>1, <3>4, <3>6, <4>1
    <3> QED BY <3>5, <3>6
  <2> QED BY <2>1, <2>2, <2>3, <2>4 DEF c
\* A part of the text lies within its chunks.
<1>WithinPart.
      ASSUME NEW o \in Nat, NEW n \in Nat, NEW m \in Nat, NEW len \in Nat, m + len <= n
      PROVE  Within(o + m, len) \subseteq Within(o, n)
  <2> SUFFICES ASSUME NEW i \in 0 .. len - 1 PROVE (o + m + i) \div ChunkSize \in Within(o, n)
    BY Zenon DEF Within
  <2>1. m + i \in 0 .. n - 1 /\ o + m + i = o + (m + i)
    BY <1>WithinPart
  <2> QED BY <2>1 DEF Within
\* Every piece makes the text longer.
<1>PrintsOn.
      ASSUME NEW str \in Stream, NEW n \in Nat, NEW i \in 0 .. ((n + Piece - 1) \div Piece) - 1,
             NEW out, PrintSo(out, str, n, i)
      PROVE  PrintSo(PrintPiece(out, PieceSize(n, i + 1)), str, n, i + 1)
  <2> DEFINE o == str.offset
             len == PieceSize(n, i + 1)
             d == SoFar(n, i)
             r == PrintPiece(out, len)
  <2>1. d \in Nat /\ len \in Nat \ {0} /\ SoFar(n, i + 1) = d + len /\ d + len <= n /\ o \in Nat
    <3>1. o \in Nat
      BY DEF Stream, StreamRec
    <3>2. d \in Nat /\ len \in Nat \ {0} /\ SoFar(n, i + 1) = d + len /\ SoFar(n, i + 1) <= n
      BY <1>PiecesAre
    <3> QED BY <3>1, <3>2, Zenon
  <2>2. out \in Output /\ out.str.err = str.err /\ str.refused \subseteq out.str.refused
    BY <1>PrintsOn DEF PrintSo
  <2>3. out.str \in Stream /\ out.buf \in Seq(Int) /\ out.ok \in BOOLEAN
    BY <2>2 DEF Output
  <2> HIDE DEF len, d
  <2>4. CASE ~out.ok
    <3>1. r = out
      BY <2>4 DEF PrintPiece
    <3> HIDE DEF r
    <3>2. ~(~str.err /\ o + n <= DictSize /\ Within(o, n) \cap out.str.refused = {})
      BY <1>PrintsOn, <2>4, Zenon DEF PrintSo
    <3>3. PrintSo(out, str, n, i + 1)
      BY <2>2, <3>2, Zenon DEF PrintSo
    <3> QED BY <3>1, <3>3, Zenon DEF r, len
  <2>5. CASE out.ok
    <3> DEFINE got == dict_read(out.str, len)
    <3>1. r = [got EXCEPT !.buf = out.buf \o @]
      BY <2>5 DEF PrintPiece
    <3>2. /\ got \in Output /\ got.str.err = out.str.err /\ out.str.refused \subseteq got.str.refused
          /\ ~out.str.err /\ len > 0 /\ out.str.offset + len <= DictSize
                 /\ Within(out.str.offset, len) \cap got.str.refused = {} =>
               got.ok /\ got.str.offset = out.str.offset + len /\ got.buf = Text(out.str.offset, len)
      <4>1. len \in Nat
        BY <2>1
      <4> QED BY <2>3, <4>1, ReadOut
    <3> HIDE DEF got, r
    <3>3. got.str \in Stream /\ got.buf \in Seq(Int) /\ got.ok \in BOOLEAN
      BY <3>2 DEF Output
    <3>4. out.buf \o got.buf \in Seq(Int)
      BY <2>3, <3>3
    <3>5. r \in Output /\ r.str = got.str /\ r.ok = got.ok /\ r.buf = out.buf \o got.buf
      BY <3>1, <3>2, <3>3, <3>4, Zenon DEF Output
    <3>6. r.str.err = str.err /\ str.refused \subseteq r.str.refused
      BY <2>2, <3>2, <3>5
    <3>7. ASSUME ~str.err, o + n <= DictSize, Within(o, n) \cap r.str.refused = {}
          PROVE  /\ r.ok /\ r.str.offset = o + SoFar(n, i + 1)
                 /\ r.buf = Text(o, SoFar(n, i + 1))
      <4>1. Within(o, n) \cap out.str.refused = {}
        BY <3>2, <3>5, <3>7
      <4>2. out.str.offset = o + d /\ out.buf = Text(o, d)
        BY <1>PrintsOn, <3>7, <4>1, Zenon DEF PrintSo, d
      <4>3. Within(o + d, len) \subseteq Within(o, n)
        BY <2>1, <1>WithinPart
      <4>4. Within(out.str.offset, len) \cap got.str.refused = {}
        BY <3>5, <3>7, <4>2, <4>3
      <4> HIDE DEF o
      <4>5. o + d + len <= DictSize /\ len > 0 /\ o + d + len = o + (d + len) /\ len \in Nat
        BY <2>1, <3>7, DictZipAssumption
      <4>6. out.str.offset + len <= DictSize /\ ~out.str.err
        BY <2>2, <3>7, <4>2, <4>5, Zenon
      <4>7. got.ok /\ got.str.offset = out.str.offset + len /\ got.buf = Text(out.str.offset, len)
        BY <3>2, <4>4, <4>5, <4>6, Zenon
      <4>8. Text(o, d) \o Text(o + d, len) = Text(o, d + len)
        BY <2>1, <4>5, TextGrows, Zenon
      <4>9. r.ok
        BY <3>5, <4>7, Zenon
      <4>10. r.str.offset = o + (d + len)
        BY <3>5, <4>2, <4>5, <4>7, Zenon
      <4>11. r.buf = Text(o, d + len)
        BY <3>5, <4>2, <4>7, <4>8, Zenon
      <4> QED BY <2>1, <4>9, <4>10, <4>11, Zenon
    <3>8. PrintSo(r, str, n, i + 1)
      BY <3>5, <3>6, <3>7, Zenon DEF PrintSo
    <3> QED BY <3>8, Zenon DEF r, len
  <2> QED BY <2>3, <2>4, <2>5, Zenon
\* A piece more of what was written gives something that was written.
<1>PieceTyped.
      ASSUME NEW out \in Output, NEW len \in Nat PROVE PrintPiece(out, len) \in Output
  <2> DEFINE got == dict_read(out.str, len)
  <2>1. out.str \in Stream /\ out.buf \in Seq(Int) /\ out.ok \in BOOLEAN
    BY DEF Output
  <2>2. got \in Output
    BY <2>1, ReadOut
  <2>3. PrintPiece(out, len) = IF out.ok THEN [got EXCEPT !.buf = out.buf \o @] ELSE out
    BY DEF PrintPiece
  <2> HIDE DEF got
  <2>4. out.buf \o got.buf \in Seq(Int)
    BY <2>1, <2>2 DEF Output
  <2>5. [got EXCEPT !.buf = out.buf \o @] \in Output
    BY <2>2, <2>4, Zenon DEF Output
  <2> QED BY <2>3, <2>5, Zenon
\* printdef writes the text from the offset on, unless inflate refuses one of its
\* chunks.
<1>Printed.
      ASSUME NEW str \in Stream, NEW n \in Nat
      PROVE  LET out == PrintFrom(str, n) IN
             /\ out \in Output /\ out.str.err = str.err /\ str.refused \subseteq out.str.refused
             /\ ~str.err /\ str.offset + n <= DictSize /\ Within(str.offset, n) \cap out.str.refused = {} =>
                  out.buf = Text(str.offset, n)
  <2> DEFINE c == (n + Piece - 1) \div Piece
             z == [str |-> str, buf |-> <<>>, ok |-> ~str.err]
             F == [i \in Nat |-> [out \in Output |-> PrintPiece(out, PieceSize(n, i))]]
  <2>1. str.offset \in Nat /\ str.err \in BOOLEAN
    BY DEF Stream, StreamRec
  <2>2. c \in Nat /\ SoFar(n, 0) = 0 /\ SoFar(n, c) = n
    BY <1>PiecesAre
  <2>3. z \in Output /\ z.str = str /\ z.buf = <<>> /\ z.ok = ~str.err
    <3>1. <<>> \in Seq(Int)
      OBVIOUS
    <3> QED BY <2>1, <3>1 DEF Output
  <2>4. F \in [Nat -> [Output -> Output]]
    <3>1. ASSUME NEW i \in Nat PROVE PieceSize(n, i) \in Nat
      <4>1. n % Piece \in Nat /\ Piece \in Nat
        BY DictZipAssumption, Rest
      <4> QED BY <4>1 DEF PieceSize
    <3> QED BY <3>1, <1>PieceTyped
  <2> DEFINE written == CHOOSE h : h = [i \in 0 .. c |-> IF i = 0 THEN z
                                                         ELSE PrintPiece(h[i - 1], PieceSize(n, i))]
  <2>5. PrintFrom(str, n) = written[c]
    BY DEF PrintFrom, PieceSize
  <2> HIDE DEF c, z
  <2>6. PICK g : Iteration(g, c, Output, z, F)
    <3> HIDE DEF F
    <3> QED BY <2>2, <2>3, <2>4, Iterates
  <2>7. g \in [0 .. c -> Output] /\ g[0] = z
    BY <2>6 DEF Iteration
  <2>8. ASSUME NEW i \in 1 .. c PROVE g[i] = PrintPiece(g[i - 1], PieceSize(n, i))
    <3>1. i \in Nat /\ i - 1 \in 0 .. c
      BY <2>2
    <3>2. g[i - 1] \in Output
      BY <2>7, <3>1
    <3>3. g[i] = F[i][g[i - 1]]
      <4> HIDE DEF F
      <4> QED BY <2>6, <2>8, Zenon DEF Iteration
    <3> QED BY <3>1, <3>2, <3>3
  <2>9. g = [i \in 0 .. c |-> IF i = 0 THEN z ELSE PrintPiece(g[i - 1], PieceSize(n, i))]
    <3>1. ASSUME NEW i \in 0 .. c
          PROVE  g[i] = IF i = 0 THEN z ELSE PrintPiece(g[i - 1], PieceSize(n, i))
      BY <2>2, <2>7, <2>8
    <3> QED BY <2>7, <3>1
  <2>10. written = [i \in 0 .. c |-> IF i = 0 THEN z ELSE PrintPiece(written[i - 1], PieceSize(n, i))]
    BY <2>9, Zenon
  <2> HIDE DEF written
  <2>11. /\ written[0] = z
         /\ \A i \in 1 .. c : written[i] = PrintPiece(written[i - 1], PieceSize(n, i))
    <3>1. \A i \in 0 .. c : written[i] = IF i = 0 THEN z ELSE PrintPiece(written[i - 1], PieceSize(n, i))
      BY <2>10, Zenon
    <3> QED BY <2>2, <3>1
  <2>12. PrintSo(z, str, n, 0)
    <3>1. Text(str.offset, 0) = <<>> /\ str.offset + 0 = str.offset
      BY <2>1 DEF Text
    <3>2. z.str.err = str.err /\ str.refused \subseteq z.str.refused
      BY <2>3
    <3> QED BY <2>2, <2>3, <3>1, <3>2, Zenon DEF PrintSo
  <2> DEFINE Good == {i \in Nat : i <= c => PrintSo(written[i], str, n, i)}
  <2>13. 0 \in Good
    BY <2>11, <2>12
  <2>14. ASSUME NEW i \in Good PROVE i + 1 \in Good
    <3> SUFFICES ASSUME i + 1 <= c PROVE PrintSo(written[i + 1], str, n, i + 1)
      OBVIOUS
    <3>1. i \in 0 .. c - 1 /\ i + 1 \in 1 .. c /\ PrintSo(written[i], str, n, i) /\ (i + 1) - 1 = i
      BY <2>2
    <3>2. written[i + 1] = PrintPiece(written[i], PieceSize(n, i + 1))
      BY <2>11, <3>1, Zenon
    <3> QED BY <3>1, <3>2, <1>PrintsOn, Zenon DEF c
  <2>15. Good = Nat
    <3> HIDE DEF Good
    <3>1. Good \in SUBSET Nat
      BY DEF Good
    <3> QED BY <2>13, <2>14, <3>1, SetInduction
  <2>16. PrintSo(PrintFrom(str, n), str, n, c)
    BY <2>2, <2>5, <2>15
  <2> QED BY <2>2, <2>16, Zenon DEF PrintSo
\* A definition that printdef writes is the text of its article.
<1>ArticlePrinted.
      ASSUME NEW str \in Stream, NEW o \in Nat, NEW n \in Nat, o <= DictSize => o + n <= DictSize
      PROVE  LET out == printdef(str, [offset |-> o, size |-> n]) IN
             /\ out.str \in Stream
             /\ ~out.str.err /\ Within(o, n) \cap out.str.refused = {} => out.buf = Text(o, n)
  <2> DEFINE t == dict_seek(str, o)
             out == PrintFrom(t, n)
  <2>1. t \in Stream /\ (~t.err => o <= DictSize /\ t.offset = o)
    BY <1>SeekIs
  <2>2. printdef(str, [offset |-> o, size |-> n]) = out
    BY DEF printdef
  <2> HIDE DEF t
  <2>3. /\ out \in Output /\ out.str.err = t.err
        /\ ~t.err /\ t.offset + n <= DictSize /\ Within(t.offset, n) \cap out.str.refused = {} =>
             out.buf = Text(t.offset, n)
    BY <2>1, <1>Printed
  <2> HIDE DEF out
  <2>4. out.str \in Stream
    BY <2>3 DEF Output
  <2>5. ASSUME ~out.str.err, Within(o, n) \cap out.str.refused = {} PROVE out.buf = Text(o, n)
    <3>1. ~t.err /\ t.offset = o /\ o + n <= DictSize
      BY <1>ArticlePrinted, <2>1, <2>3, <2>5
    <3> QED BY <2>3, <2>5, <3>1, Zenon
  <2> QED BY <2>2, <2>4, <2>5 DEF out
<1> TAKE str \in Stream, a \in [offset : Nat, size : Nat]
<1> HAVE a.offset <= DictSize => a.offset + a.size <= DictSize
<1> TAKE out
<1> HAVE out = printdef(str, a) \/ out = db_entry(str, a)
<1>1. PICK o \in Nat, n \in Nat : a = [offset |-> o, size |-> n]
  OBVIOUS
<1>2. a.offset = o /\ a.size = n
  BY <1>1
<1>3. ChunksOf(a) = Within(o, n)
  BY <1>2, Zenon DEF ChunksOf, Within
<1>4. CASE out = printdef(str, a)
  <2> DEFINE done == printdef(str, [offset |-> o, size |-> n])
  <2>1. /\ done.str \in Stream
        /\ ~done.str.err /\ Within(o, n) \cap done.str.refused = {} => done.buf = Text(o, n)
    BY <1>2, <1>ArticlePrinted
  <2>2. done = out
    BY <1>1, <1>4
  <2> HIDE DEF done
  <2> QED BY <1>2, <1>3, <2>1, <2>2
<1>5. CASE out = db_entry(str, a)
  <2> DEFINE done == db_entry(str, [offset |-> o, size |-> n])
  <2>1. /\ done.str \in Stream
        /\ ~done.str.err /\ Within(o, n) \cap done.str.refused = {} => done.buf = Text(o, n)
    BY <1>2, <1>EntryRead
  <2>2. done = out
    BY <1>1, <1>5
  <2> HIDE DEF done
  <2> QED BY <1>2, <1>3, <2>1, <2>2
<1> QED BY <1>4, <1>5

-----------------------------------------------------------------------------
(* The index                                                                *)

Spelling == {w \in Seq(Letter) : Len(w) <= MaxLen}

\* Letters are numbers above the end of a string.
LEMMA CharType ==
    ASSUME NEW w \in Spelling, NEW i \in Nat \ {0}
    PROVE  /\ Char(w, i) \in Nat
           /\ i <= Len(w) <=> Char(w, i) > 0
<1>1. CASE i <= Len(w)
  <2>1. w[i] \in Letter
    BY <1>1 DEF Spelling
  <2>2. w[i] \in Nat \ {0, 1}
    <3>1. Letter \subseteq Nat \ {0, 1}
      BY WordAssumption
    <3> QED BY <2>1, <3>1, Zenon
  <2> QED BY <1>1, <2>2 DEF Char
<1>2. CASE ~(i <= Len(w))
  BY <1>2 DEF Char
<1> QED BY <1>1, <1>2

\* Two words agree, or there is a first letter where they do not.
LEMMA Trichotomy ==
    ASSUME NEW a \in Spelling, NEW b \in Spelling, NEW n \in Nat
    PROVE  SameTo(a, b, n) \/ Before(a, b, n) \/ Before(b, a, n)
<1> DEFINE T == {i \in 1 .. n : Char(a, i) # Char(b, i)}
<1>1. SUFFICES ASSUME T # {}
               PROVE  Before(a, b, n) \/ Before(b, a, n)
  BY DEF SameTo
<1>2. T \subseteq Nat
  OBVIOUS
<1>3. \E x \in T : \A y \in T : ~(<<y, x>> \in OpToRel(<, Nat))
  <2> HIDE DEF T
  <2> QED BY <1>1, <1>2, WFMin, NatLessThanWellFounded, Zenon
<1>4. PICK x \in T : \A y \in T : ~(<<y, x>> \in OpToRel(<, Nat))
  BY <1>3, Zenon
<1>5. \A y \in T : ~(y < x)
  BY <1>2, <1>4, Zenon DEF OpToRel
<1>6. x \in 1 .. n /\ \A i \in 1 .. x - 1 : Char(a, i) = Char(b, i)
  BY <1>5
<1>7. Char(a, x) \in Nat /\ Char(b, x) \in Nat /\ Char(a, x) # Char(b, x)
  BY CharType
<1> QED BY <1>6, <1>7 DEF Before

\* No word comes both before and after another.
LEMMA Asymmetry ==
    ASSUME NEW a \in Spelling, NEW b \in Spelling, NEW n \in Nat, Before(a, b, n)
    PROVE  ~Before(b, a, n) /\ ~SameTo(a, b, n)
<1>1. PICK k \in 1 .. n : /\ Char(a, k) < Char(b, k)
                          /\ \A i \in 1 .. k - 1 : Char(a, i) = Char(b, i)
  BY DEF Before
<1>2. Char(a, k) \in Nat /\ Char(b, k) \in Nat
  BY CharType
<1>3. ~SameTo(a, b, n)
  BY <1>1, <1>2 DEF SameTo
<1>4. ASSUME NEW j \in 1 .. n, Char(b, j) < Char(a, j),
             \A i \in 1 .. j - 1 : Char(b, i) = Char(a, i)
      PROVE  FALSE
  <2>1. Char(a, j) \in Nat /\ Char(b, j) \in Nat
    BY CharType
  <2>2. CASE j < k
    BY <1>1, <1>4, <2>1, <2>2
  <2>3. CASE k < j
    BY <1>1, <1>2, <1>4, <2>3
  <2>4. CASE j = k
    BY <1>1, <1>2, <1>4, <2>4
  <2> QED BY <2>2, <2>3, <2>4
<1> QED BY <1>3, <1>4 DEF Before

\* What comes after the key stays after it further on in a sorted index.
LEMMA AfterStays ==
    ASSUME NEW k \in Spelling, NEW x \in Spelling, NEW y \in Spelling,
           NEW n \in Nat, NEW m \in Nat, n <= m,
           ~Before(y, x, m), Before(k, x, n)
    PROVE  Before(k, y, n)
<1>1. PICK d \in 1 .. n : /\ Char(k, d) < Char(x, d)
                          /\ \A i \in 1 .. d - 1 : Char(k, i) = Char(x, i)
  BY DEF Before
<1>2. \A i \in 1 .. n : Char(k, i) \in Nat /\ Char(x, i) \in Nat /\ Char(y, i) \in Nat
  BY CharType
<1>3. CASE SameTo(x, y, d)
  <2>1. \A i \in 1 .. d : Char(x, i) = Char(y, i)
    BY <1>3 DEF SameTo
  <2> QED BY <1>1, <2>1 DEF Before
<1>4. CASE Before(y, x, d)
  BY <1>4 DEF Before
<1>5. CASE Before(x, y, d)
  <2>1. PICK e \in 1 .. d : /\ Char(x, e) < Char(y, e)
                            /\ \A i \in 1 .. e - 1 : Char(x, i) = Char(y, i)
    BY <1>5 DEF Before
  <2>2. Char(k, e) < Char(y, e)
    BY <1>1, <1>2, <2>1
  <2>3. \A i \in 1 .. e - 1 : Char(k, i) = Char(y, i)
    BY <1>1, <2>1
  <2> QED BY <2>2, <2>3 DEF Before
<1> QED BY <1>3, <1>4, <1>5, Trichotomy

\* What comes before the key, so does all that is before it in a sorted index.
LEMMA BeforeStays ==
    ASSUME NEW k \in Spelling, NEW x \in Spelling, NEW y \in Spelling,
           NEW n \in Nat, NEW m \in Nat, n <= m,
           ~Before(y, x, m), Before(y, k, n)
    PROVE  Before(x, k, n)
<1>1. PICK d \in 1 .. n : /\ Char(y, d) < Char(k, d)
                          /\ \A i \in 1 .. d - 1 : Char(y, i) = Char(k, i)
  BY DEF Before
<1>2. \A i \in 1 .. n : Char(k, i) \in Nat /\ Char(x, i) \in Nat /\ Char(y, i) \in Nat
  BY CharType
<1>3. CASE SameTo(x, y, d)
  <2>1. \A i \in 1 .. d : Char(x, i) = Char(y, i)
    BY <1>3 DEF SameTo
  <2> QED BY <1>1, <2>1 DEF Before
<1>4. CASE Before(y, x, d)
  BY <1>4 DEF Before
<1>5. CASE Before(x, y, d)
  <2>1. PICK e \in 1 .. d : /\ Char(x, e) < Char(y, e)
                            /\ \A i \in 1 .. e - 1 : Char(x, i) = Char(y, i)
    BY <1>5 DEF Before
  <2>2. Char(x, e) < Char(k, e)
    BY <1>1, <1>2, <2>1
  <2>3. \A i \in 1 .. e - 1 : Char(x, i) = Char(k, i)
    BY <1>1, <2>1
  <2> QED BY <2>2, <2>3 DEF Before
<1> QED BY <1>3, <1>4, <1>5, Trichotomy

\* A comparison of the first letters never turns back in a sorted index, and it
\* is zero where they are the same.
LEMMA CompareMonotone ==
    ASSUME NEW k \in Spelling, NEW x \in Spelling, NEW y \in Spelling,
           NEW n \in Nat, NEW m \in Nat, n <= m,
           utf8_strncasecmp(x, y, m) <= 0
    PROVE  /\ utf8_strncasecmp(k, x, n) = -1 => utf8_strncasecmp(k, y, n) = -1
           /\ utf8_strncasecmp(k, y, n) = 1 => utf8_strncasecmp(k, x, n) = 1
<1>1. ~Before(y, x, m)
  BY Asymmetry DEF utf8_strncasecmp
<1>2. Before(k, x, n) => Before(k, y, n)
  BY <1>1, AfterStays
<1>3. Before(y, k, n) => Before(x, k, n)
  BY <1>1, BeforeStays
<1>4. Before(x, k, n) => ~Before(k, x, n)
  BY Asymmetry
<1> QED BY <1>2, <1>3, <1>4 DEF utf8_strncasecmp

\* utf8_strncasecmp returns zero for the words that agree so far, whatever the case.
LEMMA CompareSame ==
    ASSUME NEW k \in Spelling, NEW x \in Spelling, NEW n \in Nat
    PROVE  /\ utf8_strncasecmp(k, x, n) \in {-1, 0, 1}
           /\ utf8_strncasecmp(k, x, n) = 0 <=> SameTo(x, k, n)
<1>1. SameTo(x, k, n) <=> SameTo(k, x, n)
  BY DEF SameTo
<1> QED BY <1>1, Trichotomy, Asymmetry DEF utf8_strncasecmp

\* The words of an index and those looked for are texts of bounded length.
LEMMA WordsAreText == Word \subseteq Spelling /\ Key \subseteq Spelling /\ MaxLen \in Nat
BY WordAssumption DEF Spelling

\* revert_word returns a text of the same length.
LEMMA RevertedIsText ==
    ASSUME NEW w \in Spelling
    PROVE  revert_word(w) \in Spelling /\ Len(revert_word(w)) = Len(w)
<1>1. Len(w) \in Nat /\ \A i \in 1 .. Len(w) : w[i] \in Letter
  BY DEF Spelling
<1>2. revert_word(w) \in [1 .. Len(w) -> Letter]
  BY <1>1 DEF revert_word
<1>3. revert_word(w) \in Seq(Letter) /\ Len(revert_word(w)) = Len(w)
  BY <1>1, <1>2
<1> QED BY <1>3 DEF Spelling
-----------------------------------------------------------------------------
(* The comparisons of a search agree with the order of its array.          *)

Monotone == \A i, j \in Slots : i < j => /\ cmp[i] = -1 => cmp[j] = -1
                                         /\ cmp[j] = 1 => cmp[i] = 1

ZeroMatches == \A i \in Slots : cmp[i] = 0 <=> Matches(index[arr[i]])

\* For an exact search, one of a definition and one of the database's own entries.
LEMMA ExactFaithful ==
    ASSUME NEW k \in Spelling, NEW x \in Spelling, NEW y \in Spelling, compare_entry(x, y) <= 0
    PROVE  /\ compare_entry(k, x) = -1 => compare_entry(k, y) = -1
           /\ compare_entry(k, y) = 1 => compare_entry(k, x) = 1
<1>1. MaxLen + 1 \in Nat
  BY WordsAreText
<1> QED BY <1>1, CompareMonotone DEF compare_entry, utf8_strcasecmp

\* compare_entry returns zero for the words that are the same, whatever the case.
LEMMA ExactZero ==
    ASSUME NEW k \in Spelling, NEW x \in Spelling
    PROVE  /\ compare_entry(k, x) \in {-1, 0, 1}
           /\ compare_entry(k, x) = 0 <=> SameTo(x, k, MaxLen)
<1>1. MaxLen \in Nat
  BY WordsAreText
<1>2. Char(x, MaxLen + 1) = 0 /\ Char(k, MaxLen + 1) = 0
  BY <1>1 DEF Char, Spelling
<1>3. SameTo(x, k, MaxLen + 1) <=> SameTo(x, k, MaxLen)
  <2>1. 1 .. MaxLen + 1 = (1 .. MaxLen) \cup {MaxLen + 1}
    BY <1>1
  <2> QED BY <1>2, <2>1 DEF SameTo
<1> QED BY <1>1, <1>3, CompareSame DEF compare_entry, utf8_strcasecmp

\* A prefix: an entry that is shorter comes after the key, and the comparison says so.
LEMMA ShortIsAfter ==
    ASSUME NEW k \in Spelling, NEW x \in Spelling, Len(x) < Len(k), compare_entry(k, x) < 0
    PROVE  Before(k, x, Len(k))
<1>1. Before(k, x, MaxLen + 1)
  BY DEF compare_entry, utf8_strcasecmp, utf8_strncasecmp
<1>2. PICK d \in 1 .. MaxLen + 1 : /\ Char(k, d) < Char(x, d)
                                   /\ \A i \in 1 .. d - 1 : Char(k, i) = Char(x, i)
  BY <1>1 DEF Before
<1>3. Len(x) \in Nat /\ Len(k) \in Nat /\ MaxLen \in Nat
  BY WordsAreText DEF Spelling
<1>4. Char(x, d) > 0
  BY <1>2, CharType, <1>3
<1>5. d <= Len(x)
  BY <1>4, CharType, <1>3
<1> QED BY <1>2, <1>3, <1>5 DEF Before

\* compare_prefix never turns back in an index whose shorter entries come after the key.
LEMMA PrefixFaithful ==
    ASSUME NEW k \in Spelling, NEW x \in Spelling, NEW y \in Spelling, compare_entry(x, y) <= 0,
           Len(x) < Len(k) => compare_entry(k, x) < 0,
           Len(y) < Len(k) => compare_entry(k, y) < 0
    PROVE  /\ compare_prefix(k, x) = -1 => compare_prefix(k, y) = -1
           /\ compare_prefix(k, y) = 1 => compare_prefix(k, x) = 1
<1>1. Len(k) \in Nat /\ Len(x) \in Nat /\ Len(y) \in Nat /\ MaxLen \in Nat /\ Len(k) <= MaxLen + 1
  BY WordsAreText DEF Spelling
<1>2. /\ utf8_strncasecmp(k, x, Len(k)) = -1 => utf8_strncasecmp(k, y, Len(k)) = -1
      /\ utf8_strncasecmp(k, y, Len(k)) = 1 => utf8_strncasecmp(k, x, Len(k)) = 1
  BY <1>1, CompareMonotone DEF compare_entry, utf8_strcasecmp
<1>3. Len(x) < Len(k) => utf8_strncasecmp(k, x, Len(k)) = -1
  BY ShortIsAfter DEF utf8_strncasecmp
<1>4. Len(y) < Len(k) => utf8_strncasecmp(k, y, Len(k)) = -1
  BY ShortIsAfter DEF utf8_strncasecmp
<1> QED BY <1>1, <1>2, <1>3, <1>4 DEF compare_prefix

\* compare_prefix returns zero for the words that begin with the key.
LEMMA PrefixZero ==
    ASSUME NEW k \in Spelling, NEW x \in Spelling
    PROVE  /\ compare_prefix(k, x) \in {-1, 0, 1}
           /\ compare_prefix(k, x) = 0 <=> Len(x) >= Len(k) /\ SameTo(x, k, Len(k))
<1>1. Len(k) \in Nat /\ Len(x) \in Nat
  BY DEF Spelling
<1> QED BY <1>1, CompareSame DEF compare_prefix

\* A suffix, in the order of the reversed words and without shorter entries.
LEMMA SuffixFaithful ==
    ASSUME NEW k \in Spelling, NEW x \in Spelling, NEW y \in Spelling, compare_rev_entry(x, y) <= 0,
           Len(x) >= Len(k), Len(y) >= Len(k)
    PROVE  /\ compare_rev_prefix(k, x) = -1 => compare_rev_prefix(k, y) = -1
           /\ compare_rev_prefix(k, y) = 1 => compare_rev_prefix(k, x) = 1
<1>1. Len(k) \in Nat /\ Len(x) \in Nat /\ Len(y) \in Nat /\ MaxLen \in Nat /\ Len(k) <= MaxLen + 1
  BY WordsAreText DEF Spelling
<1>2. revert_word(k) \in Spelling /\ revert_word(x) \in Spelling /\ revert_word(y) \in Spelling
  BY RevertedIsText
<1>3. /\ compare_rev_prefix(k, x) = utf8_strncasecmp(revert_word(k), revert_word(x), Len(k))
      /\ compare_rev_prefix(k, y) = utf8_strncasecmp(revert_word(k), revert_word(y), Len(k))
  BY <1>1 DEF compare_rev_prefix
<1>4. utf8_strncasecmp(revert_word(x), revert_word(y), MaxLen + 1) <= 0
  BY DEF compare_rev_entry, utf8_strcasecmp
<1> QED BY <1>1, <1>2, <1>3, <1>4, CompareMonotone

\* compare_rev_prefix returns zero for the words, not shorter, that end with the key.
LEMMA SuffixZero ==
    ASSUME NEW k \in Spelling, NEW x \in Spelling
    PROVE  /\ compare_rev_prefix(k, x) \in {-1, 0, 1}
           /\ Len(x) >= Len(k) =>
                (compare_rev_prefix(k, x) = 0 <=> SameTo(revert_word(x), revert_word(k), Len(k)))
<1>1. Len(k) \in Nat /\ Len(x) \in Nat
  BY DEF Spelling
<1>2. revert_word(k) \in Spelling /\ revert_word(x) \in Spelling
  BY RevertedIsText
<1> QED BY <1>1, <1>2, CompareSame DEF compare_rev_prefix
-----------------------------------------------------------------------------
(* The inductive invariant: what has been ruled out, and what has been      *)
(* found, at each place of the search.                                      *)

Walked == \A i \in Slots : p < i /\ i <= ep => cmp[i] = 0

Searching == pc \in {"bsearch", "back", "forward", "collect"}

IndexInv == index \in Seq(Word) /\ IndexSorted

SearchInv ==
    /\ Searching => /\ op # "select"
                    /\ cmp \in [Slots -> {-1, 0, 1}]
                    /\ Searchable => Monotone /\ ZeroMatches
    /\ pc = "bsearch" => /\ lo \in 0 .. N /\ hi \in 0 .. N
                         /\ Searchable => \A i \in Slots : /\ i < lo => cmp[i] = 1
                                                           /\ i >= hi => cmp[i] = -1
    /\ pc \in {"back", "forward", "collect"} =>
         /\ ep \in Slots /\ cmp[ep] = 0 /\ p \in -1 .. ep - 1
         /\ p = -1 => ep = 0
         /\ Walked
    /\ pc \in {"forward", "collect"} =>
         /\ p <= 0 \/ cmp[p] # 0
         /\ q \in ep + 1 .. N
         /\ \A i \in Slots : ep <= i /\ i < q => cmp[i] = 0
    /\ pc = "collect" => q = N \/ cmp[q] # 0
    /\ pc = "none" /\ op # "select" /\ (op = "entry" \/ ~RESERVED_WORD(key)) /\ Searchable =>
         \A i \in Slots : ~Matches(index[arr[i]])

IInv == IndexInv /\ SearchInv

\* At the start of a search its comparisons agree with the order of its array.
LEMMA SearchFaithful ==
    ASSUME IndexInv, NEW o \in Op, NEW k \in Key, Search(o, k)
    PROVE  /\ cmp' \in [Slots -> {-1, 0, 1}]
           /\ Searchable' => Monotone' /\ ZeroMatches'
<1> DEFINE e(i) == index[arr'[i]]
<1>1. N \in Nat /\ index \in [1 .. N -> Word] /\ index' = index /\ N' = N
  BY DEF IndexInv, N, Search, init_suffix_index, Begin
<1>2. arr' \in [Slots -> 1 .. N]
  <2>1. CASE o = "suffix"
    <3>1. arr' \in Sorted(N, 1 .. N, compare_rev_entry)
      BY <2>1 DEF Search, init_suffix_index
    <3> QED BY <3>1 DEF Sorted, Slots, Bijection, Injection
  <2>2. CASE o # "suffix"
    BY <1>1, <2>2 DEF Search, init_suffix_index, Slots
  <2> QED BY <2>1, <2>2
<1>3. \A i \in Slots : e(i) \in Spelling
  BY <1>1, <1>2, WordsAreText
<1>4. k \in Spelling /\ key' = k /\ op' = o /\ Slots' = Slots
  BY <1>1, WordsAreText DEF Search, init_suffix_index, Begin, Slots
<1>5. cmp' = [i \in Slots |-> Compare(o, k, e(i))]
  BY DEF Search, init_suffix_index
<1>6. \A i, j \in Slots : i < j => IF o = "suffix" THEN compare_rev_entry(e(i), e(j)) <= 0
                                                  ELSE compare_entry(e(i), e(j)) <= 0
  <2>1. CASE o = "suffix"
    <3>1. arr' \in Sorted(N, 1 .. N, compare_rev_entry)
      BY <2>1 DEF Search, init_suffix_index
    <3> QED BY <1>2, <2>1, <3>1 DEF Sorted, Slots
  <2>2. CASE o # "suffix"
    <3>1. arr' = [i \in Slots |-> i + 1]
      BY <2>2 DEF Search, init_suffix_index
    <3> QED BY <1>1, <2>2, <3>1 DEF IndexInv, IndexSorted, Slots
  <2> QED BY <2>1, <2>2
<1> HIDE DEF e
<1>7. CASE o \in {"define", "exact", "entry"}
  <2>1. \A i \in Slots : cmp'[i] = compare_entry(k, e(i))
    BY <1>5, <1>7 DEF Compare
  <2>2. \A i \in Slots : cmp'[i] \in {-1, 0, 1} /\ (cmp'[i] = 0 <=> SameTo(e(i), k, MaxLen))
    BY <1>3, <1>4, <2>1, ExactZero
  <2>3. Monotone'
    <3>1. ASSUME NEW i \in Slots, NEW j \in Slots, i < j
          PROVE  (cmp'[i] = -1 => cmp'[j] = -1) /\ (cmp'[j] = 1 => cmp'[i] = 1)
      BY <1>3, <1>4, <1>6, <1>7, <2>1, <3>1, ExactFaithful, SMTT(30), ZenonT(30)
    <3> QED BY <1>4, <3>1 DEF Monotone
  <2>4. ZeroMatches'
    BY <1>1, <1>4, <1>7, <2>2 DEF ZeroMatches, Matches, e
  <2> QED BY <1>5, <2>2, <2>3, <2>4
<1>8. CASE o = "prefix"
  <2>1. \A i \in Slots : cmp'[i] = compare_prefix(k, e(i))
    BY <1>5, <1>8 DEF Compare
  <2>2. \A i \in Slots : /\ cmp'[i] \in {-1, 0, 1}
                         /\ cmp'[i] = 0 <=> Len(e(i)) >= Len(k) /\ SameTo(e(i), k, Len(k))
    BY <1>3, <1>4, <2>1, PrefixZero
  <2>3. ASSUME Searchable' PROVE Monotone'
    <3>1. \A i \in Slots : Len(e(i)) < Len(k) => compare_entry(k, e(i)) < 0
      BY <1>1, <1>2, <1>4, <1>8, <2>3 DEF Searchable, e
    <3>2. ASSUME NEW i \in Slots, NEW j \in Slots, i < j
          PROVE  (cmp'[i] = -1 => cmp'[j] = -1) /\ (cmp'[j] = 1 => cmp'[i] = 1)
      BY <1>3, <1>4, <1>6, <1>8, <2>1, <3>1, <3>2, PrefixFaithful, Zenon, SMTT(30)
    <3> QED BY <1>4, <3>2 DEF Monotone
  <2>4. ZeroMatches'
    BY <1>1, <1>4, <1>8, <2>2 DEF ZeroMatches, Matches, e
  <2> QED BY <1>5, <2>2, <2>3, <2>4
<1>9. CASE o = "suffix"
  <2>1. \A i \in Slots : cmp'[i] = compare_rev_prefix(k, e(i))
    BY <1>5, <1>9 DEF Compare
  <2>2. \A i \in Slots : /\ cmp'[i] \in {-1, 0, 1}
                         /\ Len(e(i)) >= Len(k) =>
                             (cmp'[i] = 0 <=> SameTo(revert_word(e(i)), revert_word(k), Len(k)))
    BY <1>3, <1>4, <2>1, SuffixZero
  <2>3. ASSUME Searchable' PROVE Monotone' /\ ZeroMatches'
    <3>1. \A i \in Slots : Len(e(i)) >= Len(k)
      BY <1>1, <1>2, <1>4, <1>9, <2>3 DEF Searchable, e
    <3>2. ASSUME NEW i \in Slots, NEW j \in Slots, i < j
          PROVE  (cmp'[i] = -1 => cmp'[j] = -1) /\ (cmp'[j] = 1 => cmp'[i] = 1)
      BY <1>3, <1>4, <1>6, <1>9, <2>1, <3>1, <3>2, SuffixFaithful, Zenon, SMTT(30)
    <3>3. Monotone'
      BY <1>4, <3>2 DEF Monotone
    <3>4. ZeroMatches'
      BY <1>1, <1>4, <1>9, <2>2, <3>1 DEF ZeroMatches, Matches, e
    <3> QED BY <3>3, <3>4
  <2> QED BY <1>5, <2>2, <2>3
<1> QED BY <1>7, <1>8, <1>9 DEF Op

\* What the invariant says of a search depends on no variable but these.
LEMMA SearchKept ==
    ASSUME UNCHANGED <<index, op, key, arr, cmp>>
    PROVE  /\ N' = N /\ Slots' = Slots
           /\ Searchable' <=> Searchable
           /\ Monotone' <=> Monotone
           /\ ZeroMatches' <=> ZeroMatches
           /\ \A w : Matches(w)' <=> Matches(w)
BY DEF N, Slots, Searchable, Monotone, ZeroMatches, Matches

\* The index stays as mod_init_db left it.
LEMMA IndexKept == IndexInv /\ UNCHANGED index => IndexInv'
BY DEF IndexInv, IndexSorted, N

\* No step writes the index.
LEMMA IndexStays == [Next]_vars => UNCHANGED index
BY Zenon DEF Next, Step, Search, Refuse, MatchAll, Begin, BsearchStep, BsearchWith, WalkBack, BackTo,
       WalkForward, Collect, CollectWith, Free, vars

\* A search begins with the whole array before it.
LEMMA SearchStarts ==
    ASSUME IInv, NEW o \in Op, NEW k \in Key, Search(o, k)
    PROVE  SearchInv'
<1>1. /\ cmp' \in [Slots -> {-1, 0, 1}]
      /\ Searchable' => Monotone' /\ ZeroMatches'
  BY SearchFaithful DEF IInv
<1>2. /\ N \in Nat /\ N' = N /\ Slots' = Slots /\ Slots = 0 .. N - 1
      /\ pc' = "bsearch" /\ op' = o /\ lo' = 0 /\ hi' = N
  BY DEF IInv, IndexInv, N, Search, init_suffix_index, Begin, Slots
<1>3. o # "select"
  BY DEF Op
<1> QED BY <1>1, <1>2, <1>3 DEF SearchInv, Searching

\* A comparison of bsearch halves what is left, and loses no match.
LEMMA BsearchKeeps ==
    ASSUME IInv, BsearchStep
    PROVE  SearchInv'
<1> DEFINE mid == (lo + hi) \div 2
<1>1. /\ pc = "bsearch" /\ op # "select" /\ cmp \in [Slots -> {-1, 0, 1}]
      /\ Searchable => Monotone /\ ZeroMatches
      /\ lo \in 0 .. N /\ hi \in 0 .. N
      /\ Searchable => \A i \in Slots : (i < lo => cmp[i] = 1) /\ (i >= hi => cmp[i] = -1)
  BY DEF IInv, SearchInv, Searching, BsearchStep, BsearchWith
<1>2. N \in Nat /\ Slots = 0 .. N - 1
  BY DEF IInv, IndexInv, N, Slots
<1>3. UNCHANGED <<index, op, key, arr, cmp>>
  BY DEF BsearchStep, BsearchWith
<1>4. /\ N' = N /\ Slots' = Slots /\ (Searchable' <=> Searchable)
      /\ (Monotone' <=> Monotone) /\ (ZeroMatches' <=> ZeroMatches)
      /\ \A w : Matches(w)' <=> Matches(w)
  BY <1>3, SearchKept
<1>5. CASE lo >= hi
  <2>1. pc' = "none"
    BY <1>5 DEF BsearchStep, BsearchWith
  <2>2. ASSUME Searchable', NEW i \in Slots
        PROVE  ~Matches(index[arr[i]])
    <3>1. cmp[i] # 0
      BY <1>1, <1>2, <1>4, <1>5, <2>2, SMTT(30)
    <3> QED BY <1>1, <1>4, <2>2, <3>1 DEF ZeroMatches
  <2>3. Searchable' => \A i \in Slots' : ~Matches(index[arr[i]])'
    BY <1>3, <1>4, <2>2 DEF Matches
  <2> QED BY <2>1, <2>3 DEF SearchInv, Searching
<1>6. CASE lo < hi
  <2>1. mid \in Slots /\ lo <= mid /\ mid < hi
    BY <1>1, <1>2, <1>6
  <2>2. \/ cmp[mid] < 0 /\ hi' = mid /\ pc' = pc /\ lo' = lo
        \/ cmp[mid] > 0 /\ lo' = mid + 1 /\ pc' = pc /\ hi' = hi
        \/ cmp[mid] = 0 /\ ep' = mid /\ p' = mid - 1 /\ pc' \in {"done", "back"}
    BY <1>1, <1>6 DEF BsearchStep, BsearchWith
  <2> HIDE DEF mid
  <2>3. CASE cmp[mid] < 0 /\ hi' = mid /\ pc' = pc /\ lo' = lo
    <3>1. cmp[mid] = -1
      BY <1>1, <2>1, <2>3
    <3>2. Searchable => \A i \in Slots : i >= mid => cmp[i] = -1
      BY <1>1, <1>2, <2>1, <3>1 DEF Monotone
    <3>3. hi' \in 0 .. N /\ lo' \in 0 .. N
      BY <1>1, <1>2, <2>1, <2>3, SMTT(30)
    <3> QED BY <1>1, <1>3, <1>4, <2>3, <3>2, <3>3 DEF SearchInv, Searching
  <2>4. CASE cmp[mid] > 0 /\ lo' = mid + 1 /\ pc' = pc /\ hi' = hi
    <3>1. cmp[mid] = 1
      BY <1>1, <2>1, <2>4
    <3>2. Searchable => \A i \in Slots : i < mid + 1 => cmp[i] = 1
      BY <1>1, <1>2, <2>1, <3>1 DEF Monotone
    <3>3. hi' \in 0 .. N /\ lo' \in 0 .. N
      BY <1>1, <1>2, <2>1, <2>4
    <3> QED BY <1>1, <1>3, <1>4, <2>4, <3>2, <3>3 DEF SearchInv, Searching
  <2>5. CASE cmp[mid] = 0 /\ ep' = mid /\ p' = mid - 1 /\ pc' \in {"done", "back"}
    <3>1. ep' \in Slots /\ cmp[ep'] = 0 /\ p' \in -1 .. ep' - 1 /\ (p' = -1 => ep' = 0)
      BY <1>2, <2>1, <2>5
    <3>2. \A i \in Slots : p' < i /\ i <= ep' => cmp[i] = 0
      BY <1>2, <2>1, <2>5
    <3> QED BY <1>1, <1>3, <1>4, <2>5, <3>1, <3>2 DEF SearchInv, Searching, Walked
  <2> QED BY <2>2, <2>3, <2>4, <2>5
<1> QED BY <1>1, <1>2, <1>5, <1>6

\* The walk back passes over entries that compare equal, and over no others.
LEMMA BackKeeps ==
    ASSUME IInv, WalkBack
    PROVE  SearchInv'
<1>1. /\ pc = "back" /\ op # "select" /\ cmp \in [Slots -> {-1, 0, 1}]
      /\ Searchable => Monotone /\ ZeroMatches
      /\ ep \in Slots /\ cmp[ep] = 0 /\ p \in -1 .. ep - 1 /\ (p = -1 => ep = 0)
      /\ \A i \in Slots : p < i /\ i <= ep => cmp[i] = 0
  BY DEF IInv, SearchInv, Searching, WalkBack, BackTo, Walked
<1>2. N \in Nat /\ Slots = 0 .. N - 1
  BY DEF IInv, IndexInv, N, Slots
<1>3. UNCHANGED <<index, op, key, arr, cmp>> /\ ep' = ep
  BY DEF WalkBack, BackTo
<1>4. /\ N' = N /\ Slots' = Slots /\ (Searchable' <=> Searchable)
      /\ (Monotone' <=> Monotone) /\ (ZeroMatches' <=> ZeroMatches)
  BY <1>3, SearchKept
<1>5. CASE p > 0 /\ cmp[p] = 0
  <2>1. p' = p - 1 /\ pc' = "back"
    BY <1>1, <1>5 DEF WalkBack, BackTo
  <2>2. /\ p' \in -1 .. ep - 1 /\ p' # -1
        /\ \A i \in Slots : p' < i /\ i <= ep => cmp[i] = 0
    BY <1>1, <1>2, <1>5, <2>1
  <2> QED BY <1>1, <1>3, <1>4, <2>1, <2>2 DEF SearchInv, Searching, Walked
<1>6. CASE ~(p > 0 /\ cmp[p] = 0)
  <2>1. p' = p /\ pc' = "forward" /\ q' = ep + 1
    BY <1>1, <1>6 DEF WalkBack, BackTo
  <2>2. /\ p <= 0 \/ cmp[p] # 0
        /\ q' \in ep + 1 .. N
        /\ \A i \in Slots : ep <= i /\ i < q' => cmp[i] = 0
    BY <1>1, <1>2, <1>6, <2>1
  <2> QED BY <1>1, <1>3, <1>4, <2>1, <2>2 DEF SearchInv, Searching, Walked
<1> QED BY <1>5, <1>6, Zenon, SMTT(30)

\* So does the walk forward.
LEMMA ForwardKeeps ==
    ASSUME IInv, WalkForward
    PROVE  SearchInv'
<1>1. /\ pc = "forward" /\ op # "select" /\ cmp \in [Slots -> {-1, 0, 1}]
      /\ Searchable => Monotone /\ ZeroMatches
      /\ ep \in Slots /\ cmp[ep] = 0 /\ p \in -1 .. ep - 1 /\ (p = -1 => ep = 0)
      /\ \A i \in Slots : p < i /\ i <= ep => cmp[i] = 0
      /\ p <= 0 \/ cmp[p] # 0
      /\ q \in ep + 1 .. N
      /\ \A i \in Slots : ep <= i /\ i < q => cmp[i] = 0
  BY DEF IInv, SearchInv, Searching, WalkForward, Walked
<1>2. N \in Nat /\ Slots = 0 .. N - 1
  BY DEF IInv, IndexInv, N, Slots
<1>3. UNCHANGED <<index, op, key, arr, cmp>> /\ ep' = ep /\ p' = p
  BY DEF WalkForward
<1>4. /\ N' = N /\ Slots' = Slots /\ (Searchable' <=> Searchable)
      /\ (Monotone' <=> Monotone) /\ (ZeroMatches' <=> ZeroMatches)
  BY <1>3, SearchKept
<1>5. CASE q < N /\ cmp[q] = 0
  <2>1. q' = q + 1 /\ pc' = "forward"
    BY <1>1, <1>5 DEF WalkForward
  <2>2. /\ q' \in ep + 1 .. N
        /\ \A i \in Slots : ep <= i /\ i < q' => cmp[i] = 0
    BY <1>1, <1>2, <1>5, <2>1
  <2> QED BY <1>1, <1>3, <1>4, <2>1, <2>2 DEF SearchInv, Searching, Walked
<1>6. CASE ~(q < N /\ cmp[q] = 0)
  <2>1. q' = q /\ pc' = "collect"
    BY <1>6 DEF WalkForward
  <2>2. q = N \/ cmp[q] # 0
    BY <1>1, <1>2, <1>6
  <2> QED BY <1>1, <1>3, <1>4, <2>1, <2>2 DEF SearchInv, Searching, Walked
<1> QED BY <1>5, <1>6

\* Entries that compare equal are next to each other, so that the two walks from
\* any of them find them all.
LEMMA InvariantSuffices == IInv => RangeExact
<1> SUFFICES ASSUME IInv, Searchable
             PROVE  /\ pc = "collect" =>
                         \A i \in Slots : (p < i /\ i < q) <=> Matches(index[arr[i]]) /\ (i = 0 => ep = 0)
                    /\ pc = "none" /\ op # "select" /\ (op = "entry" \/ ~RESERVED_WORD(key)) =>
                         \A i \in Slots : ~Matches(index[arr[i]])
  BY DEF RangeExact
<1>1. N \in Nat /\ Slots = 0 .. N - 1
  BY DEF IInv, IndexInv, N, Slots
<1>2. ASSUME pc = "collect", NEW i \in Slots
      PROVE  (p < i /\ i < q) <=> Matches(index[arr[i]]) /\ (i = 0 => ep = 0)
  <2>1. /\ cmp \in [Slots -> {-1, 0, 1}] /\ Monotone /\ ZeroMatches
        /\ ep \in Slots /\ cmp[ep] = 0 /\ p \in -1 .. ep - 1 /\ (p = -1 => ep = 0)
        /\ \A j \in Slots : p < j /\ j <= ep => cmp[j] = 0
        /\ p <= 0 \/ cmp[p] # 0
        /\ q \in ep + 1 .. N
        /\ \A j \in Slots : ep <= j /\ j < q => cmp[j] = 0
        /\ q = N \/ cmp[q] # 0
    BY <1>2 DEF IInv, SearchInv, Searching, Walked
  <2>2. cmp[i] = 0 <=> Matches(index[arr[i]])
    BY <2>1 DEF ZeroMatches
  <2>3. \A j \in Slots : cmp[j] \in {-1, 0, 1}
    BY <2>1
  <2>4. CASE p < i /\ i < q
    <3>1. cmp[i] = 0
      BY <1>1, <2>1, <2>4
    <3>2. i = 0 => ep = 0
      BY <1>1, <2>1, <2>4
    <3> QED BY <2>2, <2>4, <3>1, <3>2
  <2>5. CASE i <= p
    <3>1. CASE i = 0
      <4>1. ep # 0
        BY <1>1, <2>1, <2>5, <3>1
      <4> QED BY <1>1, <2>1, <2>5, <3>1, <4>1
    <3>2. CASE i # 0
      <4>1. p \in Slots /\ p < ep /\ cmp[p] # 0
        BY <1>1, <2>1, <2>5, <3>2
      <4>2. cmp[p] = 1
        <5>1. cmp[p] # -1
          BY <2>1, <4>1 DEF Monotone
        <5> QED BY <2>3, <4>1, <5>1
      <4>3. cmp[i] = 1
        BY <1>1, <2>1, <2>5, <4>1, <4>2 DEF Monotone
      <4> QED BY <1>1, <2>1, <2>2, <2>5, <4>3
    <3> QED BY <3>1, <3>2
  <2>6. CASE q <= i
    <3>1. q \in Slots /\ ep < q /\ cmp[q] # 0
      BY <1>1, <2>1, <2>6
    <3>2. cmp[q] = -1
      <4>1. cmp[q] # 1
        BY <2>1, <3>1 DEF Monotone
      <4> QED BY <2>3, <3>1, <4>1
    <3>3. cmp[i] = -1
      BY <1>1, <2>1, <2>6, <3>1, <3>2 DEF Monotone
    <3> QED BY <1>1, <2>1, <2>2, <2>6, <3>3
  <2> QED BY <1>1, <2>1, <2>4, <2>5, <2>6
<1>3. ASSUME pc = "none", op # "select", op = "entry" \/ ~RESERVED_WORD(key)
      PROVE  \A i \in Slots : ~Matches(index[arr[i]])
  BY <1>3 DEF IInv, SearchInv
<1> QED BY <1>2, <1>3

\* The index is read and sorted before the first look-up.
LEMMA SearchInit == Init => IInv
<1> SUFFICES ASSUME Init PROVE IInv
  OBVIOUS
<1>1. index \in Seq(Word)
  <2>1. PICK n \in 0 .. MaxIndex : index \in [1 .. n -> Word]
    BY DEF Init
  <2>2. n \in Nat
    BY DictOrgAssumption
  <2> QED BY <2>1, <2>2
<1>2. IndexSorted /\ pc = "idle"
  BY DEF Init
<1> QED BY <1>1, <1>2 DEF IInv, IndexInv, SearchInv, Searching

\* Every step keeps the invariant.
LEMMA SearchStep == IInv /\ [Next]_vars => IInv'
<1> SUFFICES ASSUME IInv, [Next]_vars PROVE IInv'
  OBVIOUS
<1>1. ASSUME NEW o \in Op, NEW k \in Key, Search(o, k) PROVE IInv'
  <2>1. UNCHANGED index
    BY <1>1 DEF Search, init_suffix_index, Begin
  <2> QED BY <1>1, <2>1, SearchStarts, IndexKept DEF IInv
<1>2. ASSUME NEW o, NEW k \in Key, Refuse(o, k) PROVE IInv'
  <2>1. UNCHANGED <<index, show>> /\ pc' = "none" /\ op' = o /\ key' = k
        /\ (o = "named" \/ (o # "entry" /\ RESERVED_WORD(k)))
    BY <1>2, Zenon, SMTT(30) DEF Refuse, Begin
  <2>2. CASE o = "named"
    <3>1. ~Searchable'
      BY <2>1, <2>2, Zenon, SMTT(30) DEF Searchable
    <3> QED BY <2>1, <3>1, IndexKept DEF IInv, SearchInv, Searching
  <2>3. CASE o # "entry" /\ RESERVED_WORD(k)
    <3>1. RESERVED_WORD(key)'
      BY <2>1, <2>3, Zenon, SMTT(30) DEF RESERVED_WORD
    <3> QED BY <2>1, <2>3, <3>1, IndexKept DEF IInv, SearchInv, Searching
  <2> QED BY <2>1, <2>2, <2>3
<1>3. ASSUME NEW k \in Key, MatchAll(k) PROVE IInv'
  <2>1. UNCHANGED index /\ pc' \in {"none", "done"} /\ op' = "select"
    BY <1>3, Zenon, SMTT(30) DEF MatchAll, Begin
  <2> QED BY <2>1, IndexKept DEF IInv, SearchInv, Searching
<1>4. CASE BsearchStep
  BY <1>4, BsearchKeeps, IndexKept DEF IInv, BsearchStep, BsearchWith
<1>5. CASE WalkBack
  BY <1>5, BackKeeps, IndexKept DEF IInv, WalkBack, BackTo
<1>6. CASE WalkForward
  BY <1>6, ForwardKeeps, IndexKept, Zenon, SMTT(30) DEF IInv, WalkForward
<1>7. CASE Collect
  <2>1. UNCHANGED index /\ pc' = "done"
    BY <1>7, Zenon, SMTT(30) DEF Collect, CollectWith
  <2> QED BY <2>1, IndexKept DEF IInv, SearchInv, Searching
<1>8. CASE Free
  <2>1. UNCHANGED index /\ pc' = "idle"
    BY <1>8, Zenon, SMTT(30) DEF Free
  <2> QED BY <2>1, IndexKept DEF IInv, SearchInv, Searching
<1>9. CASE UNCHANGED vars
  <2>1. UNCHANGED <<index, show, pc, op, key, arr, cmp, lo, hi, ep, p, q>>
    BY <1>9 DEF vars
  <2> QED BY <2>1, ZenonT(30) DEF IInv, IndexInv, IndexSorted, SearchInv, Searching, Walked, N, Slots,
                     Searchable, Monotone, ZeroMatches, Matches, RESERVED_WORD
<1> QED BY <1>1, <1>2, <1>3, <1>4, <1>5, <1>6, <1>7, <1>8, <1>9 DEF Next, Step

\* Whatever the words and the length of the index: when the comparisons agree
\* with its order, common_match collects the entries that match and no others,
\* but for the first entry, and finds nothing only where nothing matches.
THEOREM SearchExact == Spec => []RangeExact
  BY SearchInit, SearchStep, InvariantSuffices, PTL DEF Spec

-----------------------------------------------------------------------------
(* What a look-up lists.                                                   *)

\* The order of the index is transitive.
LEMMA OrderTransitive ==
    ASSUME NEW x \in Spelling, NEW y \in Spelling, NEW z \in Spelling,
           compare_entry(x, y) <= 0, compare_entry(y, z) < 0
    PROVE  compare_entry(x, z) < 0
<1>1. MaxLen + 1 \in Nat
  BY WordsAreText
<1>2. Before(y, z, MaxLen + 1) /\ ~Before(y, x, MaxLen + 1)
  <2>1. compare_entry(x, y) # 1
    OBVIOUS
  <2> QED BY <1>1, <2>1, Asymmetry DEF compare_entry, utf8_strcasecmp, utf8_strncasecmp
<1>3. Before(x, z, MaxLen + 1)
  BY <1>1, <1>2, BeforeStays, SMTT(30)
<1> QED BY <1>3 DEF compare_entry, utf8_strcasecmp, utf8_strncasecmp

\* utf8_strcasecmp and utf8_strncasecmp order the words of an index and the keys.
LEMMA WordsOrdered ==
    /\ \A k, x \in Word \cup Key, n \in 0 .. MaxLen + 1 :
         /\ utf8_strncasecmp(k, x, n) \in {-1, 0, 1}
         /\ utf8_strncasecmp(k, x, n) = 0 <=> SameTo(x, k, n)
    /\ \A k \in Key, x \in Word, n, m \in 0 .. MaxLen + 1 :
         n <= m /\ utf8_strncasecmp(k, x, n) # 0 => utf8_strncasecmp(k, x, m) = utf8_strncasecmp(k, x, n)
    /\ \A k \in Key, x, y \in Word, n \in 0 .. MaxLen + 1 :
         utf8_strcasecmp(x, y) <= 0 =>
           /\ utf8_strncasecmp(k, x, n) = -1 => utf8_strncasecmp(k, y, n) = -1
           /\ utf8_strncasecmp(k, y, n) = 1 => utf8_strncasecmp(k, x, n) = 1
    /\ \A x, y, z \in Word :
         utf8_strcasecmp(x, y) <= 0 /\ utf8_strcasecmp(y, z) < 0 => utf8_strcasecmp(x, z) < 0
    /\ \A k \in Key, x \in Word : utf8_strcasecmp(k, x) = 0 <=> SameTo(x, k, MaxLen)
<1>1. Word \subseteq Spelling /\ Key \subseteq Spelling /\ MaxLen \in Nat
  BY WordsAreText
<1>2. \A k, x \in Word \cup Key, n \in 0 .. MaxLen + 1 :
        /\ utf8_strncasecmp(k, x, n) \in {-1, 0, 1}
        /\ utf8_strncasecmp(k, x, n) = 0 <=> SameTo(x, k, n)
  BY <1>1, CompareSame
<1>3. ASSUME NEW k \in Key, NEW x \in Word, NEW n \in 0 .. MaxLen + 1, NEW m \in 0 .. MaxLen + 1,
             n <= m, utf8_strncasecmp(k, x, n) # 0
      PROVE  utf8_strncasecmp(k, x, m) = utf8_strncasecmp(k, x, n)
  <2>1. k \in Spelling /\ x \in Spelling /\ m \in Nat
    BY <1>1
  <2>2. \A a, b : Before(a, b, n) => Before(a, b, m)
    BY <1>1, <1>3 DEF Before
  <2> QED BY <1>3, <2>1, <2>2, Asymmetry DEF utf8_strncasecmp
<1>4. ASSUME NEW k \in Key, NEW x \in Word, NEW y \in Word, NEW n \in 0 .. MaxLen + 1,
             utf8_strcasecmp(x, y) <= 0
      PROVE  /\ utf8_strncasecmp(k, x, n) = -1 => utf8_strncasecmp(k, y, n) = -1
             /\ utf8_strncasecmp(k, y, n) = 1 => utf8_strncasecmp(k, x, n) = 1
  <2>1. /\ k \in Spelling /\ x \in Spelling /\ y \in Spelling
        /\ n \in Nat /\ MaxLen + 1 \in Nat /\ n <= MaxLen + 1
    BY <1>1
  <2> QED BY <1>4, <2>1, CompareMonotone DEF utf8_strcasecmp
<1>5. \A x, y, z \in Word :
        utf8_strcasecmp(x, y) <= 0 /\ utf8_strcasecmp(y, z) < 0 => utf8_strcasecmp(x, z) < 0
  BY <1>1, OrderTransitive DEF compare_entry
<1>6. \A k \in Key, x \in Word : utf8_strcasecmp(k, x) = 0 <=> SameTo(x, k, MaxLen)
  BY <1>1, ExactZero DEF compare_entry
<1> QED BY <1>2, <1>3, <1>4, <1>5, <1>6

\* Entries in the order of the index, none of them twice.
InOrder(s) ==
    /\ s \in Seq(1 .. N)
    /\ \A i, j \in 1 .. Len(s) : i < j => /\ s[i] # s[j]
                                          /\ compare_entry(index[s[i]], index[s[j]]) <= 0

\* A list that compares with its tail takes every word once, if they come in order.
LEMMA AppendedOnce ==
    ASSUME IndexInv, NEW s, InOrder(s)
    PROVE  /\ Appended(s, TRUE) \in Seq(1 .. N)
           /\ \A k \in 1 .. Len(Appended(s, TRUE)) :
                \E i \in 1 .. Len(s) : Appended(s, TRUE)[k] = s[i]
           /\ \A k, m \in 1 .. Len(Appended(s, TRUE)) : k < m =>
                compare_entry(index[Appended(s, TRUE)[k]], index[Appended(s, TRUE)[m]]) < 0
<1> DEFINE fresh == {i \in 1 .. Len(s) : i = 1 \/ compare_entry(index[s[i - 1]], index[s[i]]) # 0}
           T == {s[i] : i \in fresh}
           f == Filter(s, T)
           e(i) == index[s[i]]
<1>1. Appended(s, TRUE) = f
  BY DEF Appended
<1>2. /\ s \in Seq(1 .. N) /\ Len(s) \in Nat
      /\ \A i, j \in 1 .. Len(s) : i < j => s[i] # s[j] /\ compare_entry(e(i), e(j)) <= 0
  BY DEF InOrder
<1>3. \A i \in 1 .. Len(s) : e(i) \in Spelling
  BY <1>2, WordsAreText DEF IndexInv, N
<1>4. \A i \in 1 .. Len(s) : s[i] \in T => i = 1 \/ compare_entry(e(i - 1), e(i)) # 0
  <2> SUFFICES ASSUME NEW i \in 1 .. Len(s), s[i] \in T
               PROVE  i = 1 \/ compare_entry(e(i - 1), e(i)) # 0
    OBVIOUS
  <2>1. PICK j \in fresh : s[i] = s[j]
    OBVIOUS
  <2>2. i = j
    BY <1>2, <2>1, SMTT(30)
  <2> QED BY <2>1, <2>2
<1> HIDE DEF T
<1>5. PICK at : f \in Seq(1 .. N) /\ FilterAt(at, f, s, T, Len(s))
  BY <1>2, FilterPlaces
<1> HIDE DEF f, e
<1>6. /\ \A k \in 1 .. Len(f) : at[k] \in 1 .. Len(s) /\ f[k] = s[at[k]] /\ s[at[k]] \in T
      /\ \A k, m \in 1 .. Len(f) : k < m => at[k] < at[m]
  BY <1>5 DEF FilterAt
<1>7. ASSUME NEW k \in 1 .. Len(f), NEW m \in 1 .. Len(f), k < m
      PROVE  compare_entry(e(at[k]), e(at[m])) < 0
  <2>1. PICK a \in 1 .. Len(s), b \in 1 .. Len(s) :
          a = at[k] /\ b = at[m] /\ a < b /\ s[b] \in T
    BY <1>6, <1>7
  <2>2. b # 1 /\ b - 1 \in 1 .. Len(s) /\ b - 1 < b /\ a <= b - 1
    BY <1>2, <2>1
  <2>3. compare_entry(e(b - 1), e(b)) < 0
    <3>1. compare_entry(e(b - 1), e(b)) # 0
      BY <1>4, <2>1, <2>2
    <3>2. compare_entry(e(b - 1), e(b)) \in {-1, 0, 1}
      BY <1>3, <2>2, ExactZero
    <3>3. compare_entry(e(b - 1), e(b)) <= 0
      BY <1>2, <2>2
    <3> QED BY <3>1, <3>2, <3>3
  <2>4. CASE a = b - 1
    BY <2>1, <2>3, <2>4
  <2>5. CASE a # b - 1
    <3>1. a < b - 1
      BY <1>2, <2>2, <2>5
    <3>2. compare_entry(e(a), e(b - 1)) <= 0
      BY <1>2, <2>2, <3>1
    <3> QED BY <1>3, <2>1, <2>2, <2>3, <3>2, OrderTransitive
  <2> QED BY <2>4, <2>5
<1>8. \A k, m \in 1 .. Len(f) : k < m => compare_entry(index[f[k]], index[f[m]]) < 0
  BY <1>6, <1>7, Zenon, SMTT(30) DEF e
<1> QED BY <1>1, <1>5, <1>6, <1>8, Zenon

\* A part of the index in its own order.
LEMMA FilteredInOrder ==
    ASSUME IndexInv, NEW s \in Seq(1 .. N), NEW T,
           \A i, j \in 1 .. Len(s) : i < j => s[i] < s[j]
    PROVE  InOrder(Filter(s, T))
<1> DEFINE f == Filter(s, T)
<1>1. PICK at : f \in Seq(1 .. N) /\ FilterAt(at, f, s, T, Len(s))
  BY FilterPlaces
<1> HIDE DEF f
<1>2. ASSUME NEW k \in 1 .. Len(f), NEW m \in 1 .. Len(f), k < m
      PROVE  f[k] # f[m] /\ compare_entry(index[f[k]], index[f[m]]) <= 0
  <2>1. /\ at[k] \in 1 .. Len(s) /\ at[m] \in 1 .. Len(s) /\ at[k] < at[m]
        /\ f[k] = s[at[k]] /\ f[m] = s[at[m]]
    BY <1>1, <1>2, Zenon, SMTT(30) DEF FilterAt
  <2>2. f[k] < f[m]
    BY <2>1
  <2>3. f[k] \in 1 .. N /\ f[m] \in 1 .. N
    BY <1>1, Indexed, Zenon
  <2>4. f[k] # f[m]
    BY <2>2, <2>3, SMTT(30)
  <2> QED BY <2>2, <2>3, <2>4 DEF IndexInv, IndexSorted
<1> QED BY <1>1, <1>2 DEF InOrder, f

\* Where a search has its comparisons from, and what the look-ups before gave.
FoundInv ==
    /\ Searching => /\ op \in Op /\ key \in Key
                    /\ arr \in [Slots -> 1 .. N]
                    /\ \A i, j \in Slots : arr[i] = arr[j] => i = j
                    /\ cmp = [i \in Slots |-> Compare(op, key, index[arr[i]])]
                    /\ op # "suffix" => arr = [i \in Slots |-> i + 1]
    /\ list \in Seq(1 .. N)
    /\ FoundOnly /\ ListedOnce

\* The array a search begins with holds every place of the index once.
LEMMA ArrayHolds ==
    ASSUME IndexInv, NEW o \in Op, NEW k \in Key, Search(o, k)
    PROVE  /\ arr' \in [Slots -> 1 .. N]
           /\ \A i, j \in Slots : arr'[i] = arr'[j] => i = j
           /\ o # "suffix" => arr' = [i \in Slots |-> i + 1]
<1>1. N \in Nat /\ Slots = 0 .. N - 1
  BY DEF IndexInv, N, Slots
<1>2. CASE o = "suffix"
  <2>1. arr' \in Sorted(N, 1 .. N, compare_rev_entry)
    BY <1>2 DEF Search, init_suffix_index
  <2> QED BY <1>1, <1>2, <2>1 DEF Sorted, Bijection, Injection, IsInjective
<1>3. CASE o # "suffix"
  <2>1. arr' = [i \in Slots |-> i + 1]
    BY <1>3 DEF Search
  <2> QED BY <1>1, <2>1
<1> QED BY <1>2, <1>3

\* The entries between the ends of the two walks, when they are collected.
LEMMA CollectRange ==
    ASSUME IInv, FoundInv, pc = "collect"
    PROVE  /\ p \in Int /\ q \in Int /\ q - p - 1 \in Nat
           /\ \A i \in 1 .. q - p - 1 : p + i \in Slots /\ cmp[p + i] = 0
           /\ [i \in 1 .. q - p - 1 |-> arr[p + i]] \in Seq(1 .. N)
           /\ Len([i \in 1 .. q - p - 1 |-> arr[p + i]]) = q - p - 1
<1>1. /\ ep \in Slots /\ p \in -1 .. ep - 1 /\ q \in ep + 1 .. N
      /\ \A i \in Slots : p < i /\ i <= ep => cmp[i] = 0
      /\ \A i \in Slots : ep <= i /\ i < q => cmp[i] = 0
      /\ arr \in [Slots -> 1 .. N]
  BY DEF IInv, SearchInv, Walked, FoundInv, Searching
<1>2. N \in Nat /\ Slots = 0 .. N - 1
  BY DEF IInv, IndexInv, N, Slots
<1>3. p \in Int /\ q \in Int /\ ep \in Nat /\ q - p - 1 \in Nat
  BY <1>1, <1>2
<1>4. ASSUME NEW i \in 1 .. q - p - 1 PROVE p + i \in Slots /\ cmp[p + i] = 0
  <2>1. p + i \in Slots /\ p < p + i /\ p + i < q
    BY <1>1, <1>2, <1>3
  <2>2. p + i <= ep \/ ep <= p + i
    BY <1>3
  <2> QED BY <1>1, <2>1, <2>2
<1>5. \A i \in 1 .. q - p - 1 : arr[p + i] \in 1 .. N
  BY <1>1, <1>4
<1> QED BY <1>3, <1>4, <1>5, SMTT(30)

\* An entry that compares equal matches, whatever the index, but for a suffix.
LEMMA EqualMatches ==
    ASSUME IndexInv, op \in Op, op # "suffix", key \in Key, NEW w \in Word,
           Compare(op, key, w) = 0
    PROVE  Matches(w)
<1>1. w \in Spelling /\ key \in Spelling
  BY WordsAreText
<1>2. CASE op = "prefix"
  BY <1>1, <1>2, PrefixZero DEF Compare, Matches
<1>3. CASE op # "prefix"
  <2>1. compare_entry(key, w) = 0 /\ op # "select"
    BY <1>3 DEF Compare, Op
  <2> QED BY <1>1, <1>3, <2>1, ExactZero, Zenon, SMTT(30) DEF Matches
<1> QED BY <1>2, <1>3

\* The entries a suffix is found in, sorted again.
LEMMA SortedInOrder ==
    ASSUME IndexInv, NEW s \in Seq(1 .. N),
           NEW f \in Sorted(Len(s), {s[i] : i \in DOMAIN s}, compare_entry)
    PROVE  InOrder([i \in 1 .. Len(s) |-> f[i - 1]])
<1> DEFINE S == {s[i] : i \in DOMAIN s}
           t == [i \in 1 .. Len(s) |-> f[i - 1]]
<1>1. Len(s) \in Nat /\ DOMAIN s = 1 .. Len(s) /\ s \in [1 .. Len(s) -> S]
  OBVIOUS
<1>4. S \subseteq 1 .. N
  <2>1. \A i \in 1 .. Len(s) : s[i] \in 1 .. N
    BY Indexed, Zenon
  <2> QED BY <1>1, <2>1
<1>5. /\ f \in [0 .. Len(s) - 1 -> S] /\ f \in Injection(0 .. Len(s) - 1, S)
      /\ \A i, j \in 0 .. Len(s) - 1 : i < j => compare_entry(index[f[i]], index[f[j]]) <= 0
  BY Zenon DEF Sorted, Bijection, Injection
<1> HIDE DEF S
<1>7. \A i, j \in 0 .. Len(s) - 1 : f[i] = f[j] => i = j
  BY <1>5, Zenon, SMTT(30) DEF Injection, IsInjective
<1>8. \A i \in 1 .. Len(s) : i - 1 \in 0 .. Len(s) - 1
  BY <1>1
<1>9. t \in Seq(1 .. N) /\ Len(t) = Len(s) /\ \A i \in 1 .. Len(s) : t[i] = f[i - 1]
  <2>1. \A i \in 1 .. Len(s) : f[i - 1] \in 1 .. N
    BY <1>4, <1>5, <1>8, Zenon
  <2>2. t \in [1 .. Len(s) -> 1 .. N]
    BY <2>1
  <2>3. t \in Seq(1 .. N) /\ Len(t) = Len(s)
    BY <1>1, <2>2, SMTT(30)
  <2> QED BY <2>3
<1> HIDE DEF t
<1>10. ASSUME NEW i \in 1 .. Len(t), NEW j \in 1 .. Len(t), i < j
       PROVE  t[i] # t[j] /\ compare_entry(index[t[i]], index[t[j]]) <= 0
  <2>1. i - 1 \in 0 .. Len(s) - 1 /\ j - 1 \in 0 .. Len(s) - 1 /\ i - 1 < j - 1 /\ i - 1 # j - 1
    BY <1>1, <1>9, <1>10
  <2> QED BY <1>5, <1>7, <1>9, <2>1
<1> QED BY <1>9, <1>10, Zenon DEF InOrder, t

\* What is offered to the list of a look-up: entries in order that are not
\* reserved and, but for a suffix, match.
Offered(s) ==
    /\ InOrder(s)
    /\ \A i \in 1 .. Len(s) : ~RESERVED_WORD(index[s[i]])
    /\ op # "suffix" => \A i \in 1 .. Len(s) : Matches(index[s[i]])

\* The list common_match returns is made of what was offered.
LEMMA CollectOffers ==
    ASSUME IInv, FoundInv, pc = "collect", NEW unique \in BOOLEAN, NEW l \in Result(unique)
    PROVE  \E s : Offered(s) /\ l = Appended(s, unique)
<1> DEFINE range == [i \in 1 .. q - p - 1 |-> arr[p + i]]
           U == {i \in 1 .. N : ~RESERVED_WORD(index[i])}
           kept == Filter(range, U)
           places == {kept[i] : i \in DOMAIN kept}
<1>1. /\ p \in Int /\ q \in Int /\ q - p - 1 \in Nat
      /\ \A i \in 1 .. q - p - 1 : p + i \in Slots /\ cmp[p + i] = 0
      /\ range \in Seq(1 .. N) /\ Len(range) = q - p - 1
      /\ \A i \in 1 .. q - p - 1 : range[i] = arr[p + i]
  BY CollectRange, Zenon, SMTT(30)
<1>2. /\ op \in Op /\ key \in Key /\ arr \in [Slots -> 1 .. N]
      /\ \A i, j \in Slots : arr[i] = arr[j] => i = j
      /\ \A i \in Slots : cmp[i] = Compare(op, key, index[arr[i]])
      /\ op # "suffix" => arr = [i \in Slots |-> i + 1]
  BY DEF FoundInv, Searching
<1>3. IndexInv /\ N \in Nat
  BY DEF IInv, IndexInv, N
<1>4. l \in IF op = "suffix"
            THEN {Appended([i \in 1 .. Len(kept) |-> f[i - 1]], unique) :
                    f \in Sorted(Len(kept), places, compare_entry)}
            ELSE {Appended(kept, unique)}
  BY ZenonT(30) DEF Result, Kept
<1> HIDE DEF range, U
<1>5. PICK at : kept \in Seq(1 .. N) /\ FilterAt(at, kept, range, U, Len(range))
  BY <1>1, FilterPlaces, Zenon
<1>6. /\ \A k \in 1 .. Len(kept) : /\ at[k] \in 1 .. q - p - 1 /\ kept[k] \in U
                                   /\ kept[k] = arr[p + at[k]]
      /\ \A k, m \in 1 .. Len(kept) : k < m => at[k] < at[m]
  <2> HIDE DEF kept
  <2> QED BY <1>1, <1>5, Zenon DEF FilterAt
<1>7. CASE op = "suffix"
  <2>1. PICK f \in Sorted(Len(kept), places, compare_entry) :
          l = Appended([i \in 1 .. Len(kept) |-> f[i - 1]], unique)
    BY <1>4, <1>7, ZenonT(30)
  <2> DEFINE t == [i \in 1 .. Len(kept) |-> f[i - 1]]
  <2> HIDE DEF kept
  <2>3. InOrder(t)
    BY <1>3, <1>5, <2>1, SortedInOrder, ZenonT(30)
  <2>4. DOMAIN kept = 1 .. Len(kept) /\ Len(kept) \in Nat
    BY <1>5
  <2>5. \A i \in 1 .. Len(t) : t[i] \in U
    <3>1. \A x \in places : x \in U
      BY <1>6, <2>4
    <3>2. f \in [0 .. Len(kept) - 1 -> places]
      BY <2>1 DEF Sorted, Bijection, Injection
    <3> HIDE DEF places
    <3>4. Len(t) = Len(kept) /\ \A i \in 1 .. Len(kept) : t[i] = f[i - 1] /\ i - 1 \in 0 .. Len(kept) - 1
      BY <2>3, <2>4 DEF InOrder
    <3> QED BY <3>1, <3>2, <3>4
  <2>6. Offered(t)
    <3> HIDE DEF t
    <3> QED BY <1>7, <2>3, <2>5 DEF Offered, U
  <2> QED BY <2>1, <2>6
<1>8. CASE op # "suffix"
  <2>1. l = Appended(kept, unique)
    BY <1>4, <1>8
  <2>2. \A i, j \in 1 .. Len(range) : i < j => range[i] < range[j]
    <3> SUFFICES ASSUME NEW i \in 1 .. Len(range), NEW j \in 1 .. Len(range), i < j
                 PROVE  range[i] < range[j]
      OBVIOUS
    <3>1. range[i] = (p + i) + 1 /\ range[j] = (p + j) + 1
      BY <1>1, <1>2, <1>8, ZenonT(30)
    <3> QED BY <1>1, <3>1
  <2>3. InOrder(kept)
    BY <1>1, <1>3, <2>2, FilteredInOrder, Zenon, SMTT(30)
  <2> HIDE DEF kept
  <2>4. ASSUME NEW i \in 1 .. Len(kept) PROVE Matches(index[kept[i]])
    <3>1. p + at[i] \in Slots /\ cmp[p + at[i]] = 0 /\ kept[i] = arr[p + at[i]]
      BY <1>1, <1>6, ZenonT(30)
    <3>2. index[kept[i]] \in Word
      BY <1>2, <3>1, <1>3 DEF IndexInv, N
    <3> QED BY <1>2, <1>3, <1>8, <3>1, <3>2, EqualMatches
  <2>5. \A i \in 1 .. Len(kept) : ~RESERVED_WORD(index[kept[i]])
    BY <1>6, Zenon, SMTT(30) DEF U
  <2> QED BY <2>1, <2>3, <2>4, <2>5 DEF Offered
<1> QED BY <1>7, <1>8

\* A list of places of the index.
PlacesIn(l) == l \in Seq(1 .. N)

\* What a list takes of what it is offered.
LEMMA AppendedTakes ==
    ASSUME IndexInv, NEW s, InOrder(s), NEW unique \in BOOLEAN
    PROVE  /\ PlacesIn(Appended(s, unique))
           /\ \A k \in DOMAIN Appended(s, unique) :
                \E i \in 1 .. Len(s) : Appended(s, unique)[k] = s[i]
           /\ unique => \A k, m \in DOMAIN Appended(s, unique) : k < m =>
                compare_entry(index[Appended(s, unique)[k]], index[Appended(s, unique)[m]]) < 0
<1> DEFINE l == Appended(s, unique)
<1>1. CASE unique
  <2>1. /\ l \in Seq(1 .. N)
        /\ \A k \in 1 .. Len(l) : \E i \in 1 .. Len(s) : l[k] = s[i]
        /\ \A k, m \in 1 .. Len(l) : k < m => compare_entry(index[l[k]], index[l[m]]) < 0
    BY <1>1, AppendedOnce, Zenon
  <2> HIDE DEF l
  <2>2. DOMAIN l = 1 .. Len(l)
    BY <2>1, Indexed
  <2>3. /\ PlacesIn(l)
        /\ \A k \in DOMAIN l : \E i \in 1 .. Len(s) : l[k] = s[i]
        /\ \A k, m \in DOMAIN l : k < m => compare_entry(index[l[k]], index[l[m]]) < 0
    BY <2>1, <2>2, Zenon, SMTT(30) DEF PlacesIn
  <2> QED BY <2>3 DEF l
<1>2. CASE ~unique
  <2>1. l = s /\ s \in Seq(1 .. N)
    BY <1>2 DEF Appended, InOrder
  <2>2. DOMAIN s = 1 .. Len(s)
    BY <2>1, Indexed
  <2>3. PlacesIn(l) /\ \A k \in DOMAIN l : \E i \in 1 .. Len(s) : l[k] = s[i]
    BY <2>1, <2>2, Zenon, SMTT(30) DEF PlacesIn
  <2> QED BY <1>2, <2>3
<1> QED BY <1>1, <1>2, Zenon, SMTT(30)

\* Nothing is promised of a list while a look-up goes on, or after one that failed.
LEMMA NotDone ==
    ASSUME UNCHANGED index, PlacesIn(list'), pc' # "done",
           pc' \notin {"bsearch", "back", "forward", "collect"}
    PROVE  FoundInv'
BY Zenon, SMTT(30) DEF FoundInv, Searching, PlacesIn, FoundOnly, ListedOnce, N

\* A step of a search that finds nothing yet.
LEMMA StillSearching ==
    ASSUME FoundInv, Searching, Searching', UNCHANGED <<index, op, key, arr, cmp>>,
           PlacesIn(list')
    PROVE  FoundInv'
<1>1. pc' # "done"
  BY DEF Searching
<1> QED BY <1>1 DEF FoundInv, Searching, PlacesIn, FoundOnly, ListedOnce, N, Slots

\* Every step keeps FoundInv.
LEMMA FoundStep == IInv /\ FoundInv /\ [Next]_vars => FoundInv'
<1> SUFFICES ASSUME IInv, FoundInv, [Next]_vars PROVE FoundInv'
  OBVIOUS
<1>0. IndexInv /\ N \in Nat /\ Slots = 0 .. N - 1 /\ PlacesIn(list)
  BY SMTT(30) DEF IInv, IndexInv, N, Slots, FoundInv, PlacesIn
<1>1. ASSUME NEW o \in Op, NEW k \in Key, Search(o, k) PROVE FoundInv'
  <2>1. /\ pc' = "bsearch" /\ op' = o /\ key' = k /\ UNCHANGED <<index, list>>
        /\ cmp' = [i \in Slots |-> Compare(o, k, index[arr'[i]])]
    BY <1>1 DEF Search, Begin
  <2>2. /\ arr' \in [Slots -> 1 .. N]
        /\ \A i, j \in Slots : arr'[i] = arr'[j] => i = j
        /\ o # "suffix" => arr' = [i \in Slots |-> i + 1]
    BY <1>0, <1>1, ArrayHolds
  <2>3. N' = N /\ Slots' = Slots
    BY <2>1 DEF N, Slots
  <2> QED BY <1>0, <2>1, <2>2, <2>3 DEF FoundInv, PlacesIn, FoundOnly, ListedOnce
<1>2. ASSUME NEW o, NEW k \in Key, Refuse(o, k) PROVE FoundInv'
  BY <1>0, <1>2, NotDone, Zenon, SMTT(30) DEF Refuse, Begin
<1>3. ASSUME NEW k \in Key, MatchAll(k) PROVE FoundInv'
  <2> DEFINE every == [i \in 1 .. N |-> i]
             T == {i \in 1 .. N : ~RESERVED_WORD(index[i]) /\ Sel(k, index[i])}
             hit == Filter(every, T)
  <2>1. /\ UNCHANGED <<index, show>> /\ op' = "select" /\ key' = k
        /\ list' = Appended(hit, TRUE) /\ pc' \in {"none", "done"}
    BY <1>3 DEF MatchAll, Begin
  <2>2. every \in Seq(1 .. N) /\ Len(every) = N /\ \A i \in 1 .. N : every[i] = i
    BY <1>0
  <2> HIDE DEF every, T
  <2>3. InOrder(hit)
    BY <1>0, <2>2, FilteredInOrder
  <2>4. \A i \in 1 .. Len(hit) : hit[i] \in T
    <3>1. PICK at : FilterAt(at, hit, every, T, Len(every))
      BY <2>2, FilterPlaces, Zenon, SMTT(30)
    <3> HIDE DEF hit
    <3> QED BY <3>1 DEF FilterAt
  <2> HIDE DEF hit
  <2>5. /\ PlacesIn(list')
        /\ \A i \in DOMAIN list' : \E j \in 1 .. Len(hit) : list'[i] = hit[j]
        /\ \A i, j \in DOMAIN list' : i < j =>
             compare_entry(index[list'[i]], index[list'[j]]) < 0
    <3> DEFINE l == Appended(hit, TRUE)
    <3>1. /\ PlacesIn(l)
          /\ \A i \in DOMAIN l : \E j \in 1 .. Len(hit) : l[i] = hit[j]
          /\ \A i, j \in DOMAIN l : i < j => compare_entry(index[l[i]], index[l[j]]) < 0
      BY <1>0, <2>3, AppendedTakes, Zenon
    <3>2. list' = l
      BY <2>1
    <3> HIDE DEF l
    <3> QED BY <3>1, <3>2, Zenon, SMTT(30)
  <2>6. \A i \in DOMAIN list' :
          Matches(index[list[i]])' /\ ~RESERVED_WORD(index[list[i]])'
    <3> SUFFICES ASSUME NEW i \in DOMAIN list'
                 PROVE  Matches(index[list[i]])' /\ ~RESERVED_WORD(index[list[i]])'
      OBVIOUS
    <3>1. list'[i] \in T
      BY <2>4, <2>5
    <3>2. ~RESERVED_WORD(index[list'[i]]) /\ Sel(k, index[list'[i]])
      BY <3>1 DEF T
    <3> QED BY <2>1, <3>2, ZenonT(30) DEF Matches, RESERVED_WORD
  <2>7. FoundOnly' /\ ListedOnce'
    BY <2>1, <2>5, <2>6, Zenon DEF FoundOnly, ListedOnce
  <2> QED BY <2>1, <2>5, <2>7, Zenon DEF FoundInv, Searching, PlacesIn, N
<1>4. CASE BsearchStep
  <2>1. /\ pc = "bsearch" /\ UNCHANGED <<index, op, key, arr, cmp>>
        /\ lo \in 0 .. N /\ hi \in 0 .. N
    BY <1>4 DEF BsearchStep, BsearchWith, IInv, SearchInv
  <2>2. CASE list' = list /\ pc' \in {"bsearch", "none"}
    BY <1>0, <2>1, <2>2, NotDone, StillSearching DEF Searching
  <2>3. CASE list' = <<>> /\ pc' = "back"
    <3>1. PlacesIn(list')
      BY <2>3, SMTT(30) DEF PlacesIn
    <3> QED BY <2>1, <2>3, <3>1, StillSearching DEF Searching
  <2>4. ASSUME NEW mid \in Slots, list' = <<arr[mid]>>, pc' = "done", op = "entry"
        PROVE  FoundInv'
    <3>1. arr[mid] \in 1 .. N
      BY <2>1 DEF FoundInv, Searching
    <3>2. DOMAIN list' = {1} /\ list' \in Seq(1 .. N)
      BY <2>4, <3>1
    <3>3. FoundOnly'
      BY <2>1, <2>4, Zenon DEF FoundOnly
    <3>4. \A i, j \in DOMAIN list' : ~(i < j)
      BY <3>2
    <3>5. ListedOnce'
      BY <3>4, Zenon DEF ListedOnce
    <3>6. ~Searching' /\ N' = N
      BY <2>1, <2>4 DEF Searching, N
    <3> QED BY <3>2, <3>3, <3>5, <3>6, ZenonT(30) DEF FoundInv
  <2>5. lo < hi => (lo + hi) \div 2 \in Slots
    BY <1>0, <2>1, SMTT(30)
  <2>6. \/ list' = list /\ pc' \in {"bsearch", "none"}
        \/ list' = <<>> /\ pc' = "back"
        \/ \E mid \in Slots : list' = <<arr[mid]>> /\ pc' = "done" /\ op = "entry"
    BY <1>0, <1>4, <2>1, <2>5 DEF BsearchStep, BsearchWith
  <2> QED BY <2>2, <2>3, <2>4, <2>6, Zenon, SMTT(30)
<1>5. CASE WalkBack
  BY <1>0, <1>5, StillSearching DEF WalkBack, BackTo, Searching
<1>6. CASE WalkForward
  BY <1>0, <1>6, StillSearching, Zenon, SMTT(30) DEF WalkForward, Searching
<1>7. CASE Collect
  <2> DEFINE unique == op # "define"
  <2>1. /\ pc = "collect" /\ pc' = "done" /\ UNCHANGED <<index, show, op, key>>
        /\ list' \in Result(unique)
    BY <1>7 DEF Collect, CollectWith
  <2>2. PICK s : Offered(s) /\ list' = Appended(s, unique)
    BY <2>1, CollectOffers, ZenonT(30)
  <2>3. /\ PlacesIn(list')
        /\ \A i \in DOMAIN list' : \E j \in 1 .. Len(s) : list'[i] = s[j]
        /\ unique => \A i, j \in DOMAIN list' : i < j =>
             compare_entry(index[list'[i]], index[list'[j]]) < 0
    <3> DEFINE l == Appended(s, unique)
    <3>1. InOrder(s) /\ unique \in BOOLEAN
      BY <2>2, Zenon, SMTT(30) DEF Offered
    <3> HIDE DEF unique
    <3>2. /\ PlacesIn(l)
          /\ \A i \in DOMAIN l : \E j \in 1 .. Len(s) : l[i] = s[j]
          /\ unique => \A i, j \in DOMAIN l : i < j => compare_entry(index[l[i]], index[l[j]]) < 0
      BY <1>0, <3>1, AppendedTakes, Zenon
    <3>3. list' = l
      BY <2>2
    <3> HIDE DEF l
    <3> QED BY <3>2, <3>3, Zenon, SMTT(30)
  <2>4. \A w : (Matches(w)' <=> Matches(w)) /\ (RESERVED_WORD(w)' <=> RESERVED_WORD(w))
    BY <2>1 DEF Matches, RESERVED_WORD
  <2>5. FoundOnly' /\ ListedOnce'
    <3>1. op # "suffix" => \A i \in DOMAIN list' :
            Matches(index[list'[i]]) /\ ~RESERVED_WORD(index[list'[i]])
      BY <2>2, <2>3, ZenonT(30) DEF Offered
    <3>2. FoundOnly'
      BY <2>1, <2>4, <3>1, Zenon, SMTT(30) DEF FoundOnly
    <3>3. ListedOnce'
      BY <2>1, <2>3 DEF ListedOnce
    <3> QED BY <3>2, <3>3, Zenon, SMTT(30)
  <2> QED BY <2>1, <2>3, <2>5, Zenon DEF FoundInv, Searching, PlacesIn, N
<1>8. CASE Free
  <2>1. UNCHANGED index /\ pc' = "idle" /\ list' = <<>>
    BY <1>8 DEF Free
  <2>2. PlacesIn(list')
    BY <2>1, SMTT(30) DEF PlacesIn
  <2> QED BY <2>1, <2>2, NotDone
<1>9. CASE UNCHANGED vars
  BY <1>9, ZenonT(30) DEF vars, FoundInv, Searching, FoundOnly, ListedOnce, Matches, RESERVED_WORD, N, Slots
<1> QED BY <1>1, <1>2, <1>3, <1>4, <1>5, <1>6, <1>7, <1>8, <1>9, Zenon, SMTT(30) DEF Next, Step

\* Before the first look-up there is nothing listed.
LEMMA FoundInit == Init => FoundInv
<1> SUFFICES ASSUME Init PROVE FoundInv
  OBVIOUS
<1>1. pc = "idle" /\ list = <<>>
  BY DEF Init
<1>2. list \in Seq(1 .. N)
  BY <1>1
<1> QED BY <1>1, <1>2, Zenon DEF FoundInv, Searching, FoundOnly, ListedOnce

\* For every index and every selector, what common_match and _match_all list for
\* a definition, an exact match, a prefix or a selector matches, and is no entry
\* of the database's own unless these are shown: even in an index in which the
\* search itself goes astray.
THEOREM SearchFindsOnly == Spec => []FoundOnly
<1>1. FoundInv => FoundOnly
  BY Zenon, SMTT(30) DEF FoundInv
<1> QED BY <1>1, SearchInit, SearchStep, FoundInit, FoundStep, PTL DEF Spec

\* A match lists every word once, by whatever strategy: comparing with the tail
\* of the list suffices, because what is offered comes in the order of the index,
\* for a suffix after it has been sorted again.
THEOREM SearchListsOnce == Spec => []ListedOnce
<1>1. FoundInv => ListedOnce
  BY Zenon, SMTT(30) DEF FoundInv
<1> QED BY <1>1, SearchInit, SearchStep, FoundInit, FoundStep, PTL DEF Spec

-----------------------------------------------------------------------------
(* The state is well formed.                                               *)

\* bsearch and the walks stay within the array, and the list within the index.
LEMMA TypedStep == IInv /\ TypeOK /\ FoundInv' /\ [Next]_vars => TypeOK'
<1> SUFFICES ASSUME IInv, TypeOK, FoundInv', [Next]_vars PROVE TypeOK'
  OBVIOUS
<1> DEFINE Named == op' \in Op \cup {"none", "select", "named"} /\ key' \in Key \cup {<<>>}
           Ends == lo' \in 0 .. N /\ hi' \in 0 .. N /\ ep' \in 0 .. N /\ p' \in -1 .. N /\ q' \in 0 .. N
           Going == pc' \in {"idle", "bsearch", "back", "forward", "collect", "done", "none"}
           Fine == UNCHANGED <<index, show>> /\ Named /\ Ends /\ Going
<1>1. N \in Nat /\ Slots = 0 .. N - 1
  BY DEF IInv, IndexInv, N, Slots
<1>2. /\ lo \in 0 .. N /\ hi \in 0 .. N /\ ep \in 0 .. N /\ p \in -1 .. N /\ q \in 0 .. N
      /\ op \in Op \cup {"none", "select", "named"} /\ key \in Key \cup {<<>>}
      /\ pc \in {"idle", "bsearch", "back", "forward", "collect", "done", "none"}
      /\ index \in Seq(Word) /\ N <= MaxIndex /\ show \in BOOLEAN
  BY Zenon, SMTT(30) DEF TypeOK
<1>3. ASSUME NEW k \in Key, NEW o \in Op, Search(o, k)
      PROVE  Fine
  BY <1>1, <1>2, <1>3, SMTT(30) DEF Search, Begin
<1>4. ASSUME NEW k \in Key, NEW o \in Op \cup {"select", "named"}, Refuse(o, k)
      PROVE  Fine
  BY <1>1, <1>2, <1>4, Zenon, SMTT(30) DEF Refuse, Begin
<1>5. ASSUME NEW k \in Key, MatchAll(k)
      PROVE  Fine
  BY <1>1, <1>2, <1>5, Zenon DEF MatchAll, Begin
<1>6. ASSUME BsearchStep PROVE Fine
  <2>1. /\ UNCHANGED <<index, show, op, key, q>> /\ pc = "bsearch"
        /\ pc' \in {"bsearch", "none", "done", "back"}
    BY <1>6 DEF BsearchStep, BsearchWith
  <2> DEFINE mid == (lo + hi) \div 2
  <2>2. lo < hi => mid \in 0 .. N - 1
    BY <1>1, <1>2, SMTT(30)
  <2>3. \/ UNCHANGED <<lo, hi, ep, p>>
        \/ lo < hi /\ hi' = mid /\ UNCHANGED <<lo, ep, p>>
        \/ lo < hi /\ lo' = mid + 1 /\ UNCHANGED <<hi, ep, p>>
        \/ lo < hi /\ ep' = mid /\ p' = mid - 1 /\ UNCHANGED <<lo, hi>>
    BY <1>2, <1>6 DEF BsearchStep, BsearchWith
  <2> HIDE DEF mid
  <2>4. Ends
    BY <1>1, <1>2, <2>1, <2>2, <2>3, SMTT(30)
  <2> QED BY <1>2, <2>1, <2>4, Zenon, SMTT(30)
<1>7. ASSUME WalkBack PROVE Fine
  <2>1. ep \in Slots /\ p \in -1 .. ep - 1
    BY <1>7 DEF IInv, SearchInv, WalkBack, BackTo
  <2>2. /\ UNCHANGED <<index, show, op, key, lo, hi, ep>> /\ pc' \in {"back", "forward"}
        /\ \/ p > 0 /\ p' = p - 1 /\ UNCHANGED q
           \/ q' = ep + 1 /\ UNCHANGED p
    BY <1>7 DEF WalkBack, BackTo
  <2> QED BY <1>1, <1>2, <2>1, <2>2, SMTT(30)
<1>8. ASSUME WalkForward PROVE Fine
  BY <1>1, <1>2, <1>8 DEF WalkForward
<1>9. ASSUME Collect PROVE Fine
  BY <1>1, <1>2, <1>9 DEF Collect, CollectWith
<1>10. ASSUME Free PROVE Fine
  BY <1>1, <1>2, <1>10, SMTT(30) DEF Free
<1>11. ASSUME UNCHANGED vars PROVE Fine
  BY <1>1, <1>2, <1>11 DEF vars
<1>12. Fine
  <2> HIDE DEF Fine
  <2> QED BY <1>3, <1>4, <1>5, <1>6, <1>7, <1>8, <1>9, <1>10, <1>11 DEF Next, Step
<1>13. N' = N
  BY <1>12 DEF N
<1>14. {list'[i] : i \in DOMAIN list'} \subseteq 1 .. N'
  <2>1. list' \in Seq(1 .. N')
    BY DEF FoundInv
  <2>2. DOMAIN list' = 1 .. Len(list')
    BY <2>1, Indexed
  <2>3. \A i \in 1 .. Len(list') : list'[i] \in 1 .. N'
    BY <2>1, Indexed, Zenon
  <2> QED BY <2>2, <2>3
<1> QED BY <1>2, <1>12, <1>13, <1>14, Zenon, SMTT(30) DEF TypeOK

\* So is the state it starts from.
LEMMA TypedInit == Init => TypeOK
<1> SUFFICES ASSUME Init PROVE TypeOK
  OBVIOUS
<1>1. PICK n \in 0 .. MaxIndex : index \in [1 .. n -> Word]
  BY DEF Init
<1>2. n \in Nat /\ index \in Seq(Word) /\ N = n /\ N <= MaxIndex
  BY <1>1, DictOrgAssumption DEF N
<1> QED BY <1>2 DEF Init, TypeOK

\* The bounds of a search and of the walks to both sides of its find stay within
\* the array, and every place that is listed is one of the index.
THEOREM SearchTyped == Spec => []TypeOK
  BY SearchInit, SearchStep, FoundInit, FoundStep, TypedInit, TypedStep, PTL DEF Spec

\* An entry of the database's own is what bsearch hits upon: there is no walk, and
\* where the search is over and has found something it is the first of the list.
EntryInv == op = "entry" => /\ pc \notin {"back", "forward", "collect"}
                            /\ pc = "done" => list # <<>>

\* find_db_entry returns the entry bsearch found, or none.
LEMMA EntryStep == EntryInv /\ [Next]_vars => EntryInv'
<1> SUFFICES ASSUME EntryInv, [Next]_vars PROVE EntryInv'
  OBVIOUS
<1>1. ASSUME NEW o, NEW k, Search(o, k) \/ Refuse(o, k) PROVE EntryInv'
  BY <1>1 DEF EntryInv, Search, Refuse
<1>2. ASSUME NEW k, MatchAll(k) PROVE EntryInv'
  BY <1>2 DEF EntryInv, MatchAll, Begin
<1>3. CASE Step
  <2>1. CASE BsearchStep
    <3>1. UNCHANGED op /\ pc = "bsearch"
      BY <2>1 DEF BsearchStep, BsearchWith
    <3>2. \/ pc' \in {"none", "bsearch"}
          \/ /\ pc' = IF op = "entry" THEN "done" ELSE "back"
             /\ list' = IF op = "entry" THEN <<arr[(lo + hi) \div 2]>> ELSE <<>>
      BY <2>1 DEF BsearchStep, BsearchWith
    <3> QED BY <3>1, <3>2 DEF EntryInv
  <2>2. CASE WalkBack \/ WalkForward \/ Collect
    <3>1. UNCHANGED op /\ pc \in {"back", "forward", "collect"}
      BY <2>2 DEF WalkBack, BackTo, WalkForward, Collect, CollectWith
    <3> QED BY <3>1 DEF EntryInv
  <2> QED BY <1>3, <2>1, <2>2 DEF Step
<1>4. CASE Free
  BY <1>4 DEF EntryInv, Free
<1>5. CASE UNCHANGED vars
  BY <1>5 DEF EntryInv, vars
<1> QED BY <1>1, <1>2, <1>3, <1>4, <1>5 DEF Next
=============================================================================
