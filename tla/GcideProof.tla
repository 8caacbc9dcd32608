---------------------------- MODULE GcideProof ----------------------------
(***************************************************************************)
(* Look-ups in a gcide database, for an index of any length, pages of any  *)
(* size and any number of page buffers: what a search finds and how the    *)
(* list of its results grows.  WordAllProof draws the theorems from this.  *)
(***************************************************************************)
EXTENDS Gcide, FiltersProof

-----------------------------------------------------------------------------
(* The pages idxgcide writes *)

\* What the searches rely on: no page is empty, and headwords are in order from
\* page to page.
PagesInv ==
    /\ NumPages \in Nat
    /\ \A n \in 0 .. NumPages - 1 : Refs(n) \in Seq(Word) /\ Len(Refs(n)) \in Nat \ {0}
    /\ \A a, b \in Places : Earlier(a, b) => utf8_strcasecmp(Headword(a), Headword(b)) <= 0

\* A place is a page and a headword of it.
LEMMA PlaceIs ==
    ASSUME NEW a \in Places
    PROVE  /\ a = <<a[1], a[2]>>
           /\ a[1] \in 0 .. NumPages - 1 /\ a[2] \in 0 .. Len(Refs(a[1])) - 1
<1>1. PICK n \in 0 .. NumPages - 1 : a \in {n} \X (0 .. Len(Refs(n)) - 1)
  BY DEF Places
<1>2. a[1] = n /\ a = <<a[1], a[2]>> /\ a[2] \in 0 .. Len(Refs(n)) - 1
  BY <1>1
<1> QED BY <1>1, <1>2

LEMMA IsPlace ==
    ASSUME NEW n \in 0 .. NumPages - 1, NEW j \in 0 .. Len(Refs(n)) - 1
    PROVE  <<n, j>> \in Places
BY DEF Places

\* A page of idxgcide.
LEMMA PageMade ==
    ASSUME NEW words \in Seq(Word), NEW size \in Nat \ {0}, pages = idxgcide(words, size),
           NEW n \in 0 .. (Len(words) + size - 1) \div size - 1
    PROVE  /\ n * size \in Nat /\ n * size < Len(words)
           /\ Refs(n) \in Seq(Word) /\ Len(Refs(n)) \in Nat \ {0}
           /\ Len(Refs(n)) = IF n * size + size < Len(words) THEN size ELSE Len(words) - n * size
           /\ \A j \in 0 .. Len(Refs(n)) - 1 :
                n * size + j + 1 \in 1 .. Len(words) /\ Refs(n)[j + 1] = words[n * size + j + 1]
<1> DEFINE N == Len(words)
<1>1. N \in Nat
  OBVIOUS
<1>2. PICK P \in Nat : /\ P = (N + size - 1) \div size /\ P * size \in Nat
                       /\ P * size <= N + size - 1
  <2>1. N + size - 1 \in Nat
    BY <1>1
  <2> QED BY <2>1, Divided, Zenon
<1>3. n \in Nat /\ n < P
  BY <1>2
<1>4. PICK b \in Nat : b = n * size /\ b + size <= P * size
  BY <1>2, <1>3, Multiples
<1>5. b < N
  BY <1>1, <1>2, <1>4
<1>6. (n + 1) * size = b + size
  BY <1>3, <1>4
<1>7. PICK e \in Nat : /\ e = IF b + size < N THEN b + size ELSE N
                       /\ e <= N /\ b < e
  BY <1>1, <1>5
<1>8. Refs(n) = SubSeq(words, b + 1, e)
  <2>1. n + 1 \in 1 .. (N + size - 1) \div size /\ (n + 1) - 1 = n
    BY <1>2, <1>3
  <2>2. pages[n + 1] = SubSeq(words, ((n + 1) - 1) * size + 1,
                              IF (n + 1) * size < N THEN (n + 1) * size ELSE N)
    BY <2>1, Zenon DEF idxgcide
  <2>3. pages[n + 1] = SubSeq(words, b + 1, e)
    BY <1>4, <1>6, <1>7, <2>1, <2>2, Zenon
  <2> QED BY <2>3 DEF Refs
<1>9. PICK r \in Seq(Word) : /\ r = SubSeq(words, b + 1, e) /\ Len(r) = e - b
                             /\ \A i \in 1 .. e - b : r[i] = words[b + i]
  <2>1. \A i \in b + 1 .. e : words[i] \in Word
    BY <1>1, <1>7
  <2>2. PICK r : r = SubSeq(words, b + 1, e)
    BY Zenon
  <2>3. /\ r \in Seq(Word) /\ Len(r) = IF b + 1 <= e THEN e - (b + 1) + 1 ELSE 0
        /\ \A i \in 1 .. e - (b + 1) + 1 : r[i] = words[(b + 1) + i - 1]
    BY <2>1, <2>2, Parts
  <2>4. Len(r) = e - b
    <3>1. b \in Nat /\ e \in Nat /\ b < e
      BY <1>7
    <3>2. b + 1 <= e /\ e - (b + 1) + 1 = e - b
      BY <3>1
    <3> QED BY <2>3, <3>2, Zenon
  <2>5. ASSUME NEW i \in 1 .. e - b PROVE r[i] = words[b + i]
    <3>1. i \in 1 .. e - (b + 1) + 1 /\ (b + 1) + i - 1 = b + i
      OBVIOUS
    <3> QED BY <2>3, <3>1
  <2> QED BY <2>2, <2>3, <2>4, <2>5, Zenon
<1>10. e - b \in Nat \ {0} /\ e - b = IF b + size < N THEN size ELSE N - b
  BY <1>1, <1>7
<1>11. ASSUME NEW j \in 0 .. e - b - 1
       PROVE  b + j + 1 \in 1 .. N /\ r[j + 1] = words[b + j + 1]
  <2>1. j + 1 \in 1 .. e - b /\ b + (j + 1) = b + j + 1 /\ b + j + 1 \in 1 .. N
    BY <1>1, <1>7
  <2>2. r[j + 1] = words[b + (j + 1)]
    BY <1>9, <2>1
  <2> QED BY <2>1, <2>2
<1>12. Refs(n) = r
  BY <1>8, <1>9
<1>13. Len(r) \in Nat \ {0} /\ Len(r) = IF b + size < N THEN size ELSE N - b
  BY <1>9, <1>10
<1>14. \A j \in 0 .. Len(r) - 1 : b + j + 1 \in 1 .. N /\ r[j + 1] = words[b + j + 1]
  BY <1>9, <1>11, Zenon
<1> QED BY <1>4, <1>5, <1>12, <1>13, <1>14

\* idxgcide writes pages of sorted words, all of them.
LEMMA PagesMade ==
    ASSUME NEW words \in Seq(Word), NEW size \in Nat \ {0}, pages = idxgcide(words, size),
           \A i, j \in 1 .. Len(words) : i < j => utf8_strcasecmp(words[i], words[j]) <= 0
    PROVE  PagesInv /\ \A i \in 1 .. Len(words) : \E a \in Places : Headword(a) = words[i]
<1> DEFINE N == Len(words)
<1>1. N \in Nat
  OBVIOUS
<1>2. PICK P \in Nat : /\ P = (N + size - 1) \div size /\ P * size \in Nat
                       /\ N + size - 1 < P * size + size
  <2>1. N + size - 1 \in Nat
    BY <1>1
  <2> QED BY <2>1, Divided, Zenon
<1>3. NumPages = P
  <2> DEFINE S == {pages[i] : i \in 1 .. P}
  <2>1. pages = [i \in 1 .. P |-> pages[i]]
    BY <1>2, Zenon DEF idxgcide
  <2>2. pages \in [1 .. P -> S]
    BY <2>1
  <2> HIDE DEF S
  <2>3. Len(pages) = P
    BY <2>2
  <2> QED BY <2>3 DEF NumPages
<1>4. \A n \in 0 .. P - 1 :
        /\ n * size \in Nat /\ Refs(n) \in Seq(Word) /\ Len(Refs(n)) \in Nat \ {0}
        /\ Len(Refs(n)) = IF n * size + size < N THEN size ELSE N - n * size
        /\ \A j \in 0 .. Len(Refs(n)) - 1 :
             n * size + j + 1 \in 1 .. N /\ Refs(n)[j + 1] = words[n * size + j + 1]
  BY <1>2, PageMade
<1>5. ASSUME NEW a \in Places
      PROVE  /\ a[1] \in 0 .. P - 1 /\ a[2] \in Nat /\ a[2] < size
             /\ a[1] * size \in Nat /\ a[1] * size + a[2] + 1 \in 1 .. N
             /\ Headword(a) = words[a[1] * size + a[2] + 1]
  <2>1. a[1] \in 0 .. P - 1 /\ a[2] \in 0 .. Len(Refs(a[1])) - 1
    BY <1>3, PlaceIs
  <2>2. PICK n \in 0 .. P - 1 : n = a[1]
    BY <2>1
  <2>3. PICK b \in Nat : b = n * size
    BY <1>4
  <2>4. PICK c \in Nat : c = Len(Refs(n))
    BY <1>4
  <2>5. PICK j \in 0 .. c - 1 : j = a[2]
    BY <2>1, <2>2, <2>4
  <2>6. /\ c = IF b + size < N THEN size ELSE N - b
        /\ b + j + 1 \in 1 .. N /\ Refs(n)[j + 1] = words[b + j + 1]
    BY <1>4, <2>3, <2>4
  <2>7. j \in Nat /\ j < size
    BY <1>1, <2>6
  <2> QED BY <2>2, <2>3, <2>5, <2>6, <2>7 DEF Headword
<1>6. ASSUME NEW a \in Places, NEW b \in Places, Earlier(a, b)
      PROVE  utf8_strcasecmp(Headword(a), Headword(b)) <= 0
  <2>0. a[1] \in Nat /\ b[1] \in Nat
    BY <1>5
  <2>1. PICK n \in Nat, m \in Nat : n = a[1] /\ m = b[1]
    BY <2>0
  <2>2. PICK i \in Nat, j \in Nat : i = a[2] /\ j = b[2] /\ i < size
    BY <1>5
  <2>3. PICK s \in Nat, t \in Nat : s = n * size /\ t = m * size
    BY <1>5, <2>1, Zenon, SMTT(30)
  <2>4. /\ s + i + 1 \in 1 .. N /\ Headword(a) = words[s + i + 1]
        /\ t + j + 1 \in 1 .. N /\ Headword(b) = words[t + j + 1]
    BY <1>5, <2>1, <2>2, <2>3
  <2>5. n < m \/ (n = m /\ i < j)
    BY <1>6, <2>1, <2>2 DEF Earlier
  <2>6. (n < m => s + size <= t) /\ (n = m => s = t)
    BY <2>3, Multiples
  <2>7. i < size
    BY <2>2
  <2>8. s + i + 1 < t + j + 1
    BY <2>5, <2>6, <2>7
  <2> QED BY <2>4, <2>8
<1>7. ASSUME NEW i \in 1 .. N PROVE \E a \in Places : Headword(a) = words[i]
  <2>1. i - 1 \in Nat
    BY <1>1
  <2>2. PICK n \in Nat : n = (i - 1) \div size
    BY <2>1, Divided, Zenon
  <2>3. PICK b \in Nat : b = n * size
    BY <2>1, <2>2, Divided, Zenon, SMTT(30)
  <2>4. b <= i - 1 /\ i - 1 < b + size
    BY <2>1, <2>2, <2>3, Divided
  <2>5. n < P
    <3> SUFFICES ASSUME ~(n < P) PROVE FALSE
      OBVIOUS
    <3>1. PICK e \in Nat : e = P * size /\ N + size - 1 < e + size
      BY <1>2
    <3>2. e <= b
      <4>1. P = n => e = b
        BY <2>3, <3>1
      <4>2. P < n => e + size <= b
        BY <2>3, <3>1, Multiples
      <4> QED BY <4>1, <4>2
    <3>3. N + size - 1 < e + size
      BY <3>1
    <3> QED BY <1>1, <2>4, <3>2, <3>3
  <2>6. n \in 0 .. P - 1
    BY <2>5
  <2>7. PICK c \in Nat : c = Len(Refs(n))
    BY <1>4, <2>6
  <2>8. /\ c = IF b + size < N THEN size ELSE N - b
        /\ \A j \in 0 .. c - 1 : Refs(n)[j + 1] = words[b + j + 1]
    BY <1>4, <2>3, <2>6, <2>7
  <2>9. PICK j \in 0 .. c - 1 : b + j + 1 = i
    <3>1. i - 1 - b \in 0 .. c - 1 /\ b + (i - 1 - b) + 1 = i
      BY <1>1, <2>4, <2>8
    <3> QED BY <3>1
  <2>10. <<n, j>> \in Places
    BY <1>3, <2>6, <2>7, IsPlace
  <2>11. Headword(<<n, j>>) = words[i]
    BY <2>8, <2>9, Zenon, SMTT(30) DEF Headword
  <2> QED BY <2>10, <2>11
<1>8. PagesInv
  BY <1>3, <1>4, <1>6 DEF PagesInv
<1> QED BY <1>7, <1>8
-----------------------------------------------------------------------------
(* The buffers *)

Bounds == CacheSize \in Nat \ {0} /\ MaxRead \in Nat

Buffer == [page : Garbage .. NumPages - 1, refcount : {0, 1}]

CacheInv == cache \in Seq(Buffer) /\ Len(cache) <= CacheSize /\ failed \in 0 .. MaxRead

\* _cache_alloc returns a buffer of the array.
LEMMA Allocated ==
    ASSUME Bounds, NumPages \in Nat, CacheInv
    PROVE  /\ cache_alloc \in Seq(Buffer) /\ Len(cache_alloc) \in Nat
           /\ Len(cache_alloc) <= CacheSize /\ Len(cache) <= Len(cache_alloc)
           /\ CacheSlot \in 1 .. Len(cache_alloc)
<1>1. cache \in Seq(Buffer) /\ Len(cache) \in Nat /\ Len(cache) <= CacheSize /\ CacheSize \in Nat \ {0}
  BY DEF CacheInv, Bounds
<1>2. [page |-> Garbage, refcount |-> 0] \in Buffer
  BY DEF Buffer, Garbage
<1>3. CASE CacheSlot > Len(cache)
  <2>1. cache_alloc = Append(cache, [page |-> Garbage, refcount |-> 0])
    BY <1>3 DEF cache_alloc
  <2>2. cache_alloc \in Seq(Buffer) /\ Len(cache_alloc) = Len(cache) + 1
    BY <1>1, <1>2, <2>1, Lengthened
  <2>3. CacheSlot = Len(cache) + 1 /\ Len(cache) < CacheSize
    BY <1>1, <1>3 DEF CacheSlot, SlotOf
  <2> QED BY <1>1, <2>2, <2>3
<1>4. CASE ~(CacheSlot > Len(cache))
  <2>1. CacheSlot = Len(cache) /\ cache # <<>>
    BY <1>1, <1>4 DEF CacheSlot, SlotOf
  <2>2. Len(cache) \in 1 .. Len(cache) /\ cache[Len(cache)] \in Buffer
    BY <1>1, <2>1
  <2>3. [cache[Len(cache)] EXCEPT !.refcount = 0] \in Buffer
    BY <2>2 DEF Buffer
  <2>4. cache_alloc = [cache EXCEPT ![Len(cache)] = [cache[Len(cache)] EXCEPT !.refcount = 0]]
    BY <1>4, <2>1, <2>2 DEF cache_alloc
  <2>5. cache_alloc \in Seq(Buffer) /\ Len(cache_alloc) = Len(cache)
    BY <1>1, <2>2, <2>3, <2>4, Replaced
  <2> QED BY <1>1, <2>1, <2>2, <2>5
<1> QED BY <1>3, <1>4

\* _idx_get_page returns the page it was asked for or none, and none without an
\* error of the file only behind the last page.
LEMMA GetPage ==
    ASSUME Bounds, NumPages \in Nat, CacheInv, NEW n \in Nat, NEW g \in idx_get_page(n)
    PROVE  /\ g.cache \in Seq(Buffer) /\ Len(g.cache) <= CacheSize /\ Len(cache) <= Len(g.cache)
           /\ g.at \in 1 .. Len(g.cache)
           /\ g.lost \in {0, 1} /\ failed + g.lost \in 0 .. MaxRead
           /\ g.ok \in BOOLEAN
           /\ g.ok => n < NumPages /\ g.cache[g.at].page = n
           /\ ~g.ok /\ g.lost = 0 => n >= NumPages
<1>1. PICK A \in Seq(Buffer) : A = cache_alloc
  BY Allocated
<1>2. PICK c \in 1 .. Len(A) : c = CacheSlot
  BY <1>1, Allocated
<1>3. Len(A) \in Nat /\ Len(A) <= CacheSize /\ Len(cache) <= Len(A)
  BY <1>1, Allocated
<1>4. failed \in 0 .. MaxRead /\ MaxRead \in Nat
  BY DEF CacheInv, Bounds
<1> DEFINE end == [ok |-> FALSE, at |-> c, cache |-> A, lost |-> 0]
           read == [A EXCEPT ![c] = [page |-> n, refcount |-> 1]]
           lost == [A EXCEPT ![c].page = Garbage]
<1>5. \/ n >= NumPages /\ g = end
      \/ n < NumPages /\ g = [end EXCEPT !.ok = TRUE, !.cache = read]
      \/ /\ n < NumPages /\ \E i \in 1 .. MaxRead - failed : TRUE
         /\ g = [end EXCEPT !.cache = lost, !.lost = 1]
  BY <1>1, <1>2 DEF idx_get_page, cache_find_page
<1>6. CASE n >= NumPages /\ g = end
  BY <1>3, <1>4, <1>6
<1>7. CASE n < NumPages /\ g = [end EXCEPT !.ok = TRUE, !.cache = read]
  <2>1. [page |-> n, refcount |-> 1] \in Buffer
    BY <1>7 DEF Buffer, Garbage
  <2>2. read \in Seq(Buffer) /\ Len(read) = Len(A) /\ read[c].page = n
    <3>1. read \in Seq(Buffer) /\ Len(read) = Len(A) /\ read[c] = [page |-> n, refcount |-> 1]
      BY <2>1, Replaced
    <3> QED BY <3>1
  <2>3. g.ok = TRUE /\ g.cache = read /\ g.at = c /\ g.lost = 0
    BY <1>7
  <2> HIDE DEF read
  <2> QED BY <1>3, <1>4, <1>7, <2>2, <2>3
<1>8. CASE /\ n < NumPages /\ \E i \in 1 .. MaxRead - failed : TRUE
           /\ g = [end EXCEPT !.cache = lost, !.lost = 1]
  <2>1. A[c] \in Buffer /\ [A[c] EXCEPT !.page = Garbage] \in Buffer
    <3>1. PICK x \in Buffer : x = A[c]
      BY Indexed
    <3>2. [x EXCEPT !.page = Garbage] \in Buffer
      BY SMTT(30) DEF Buffer, Garbage
    <3> QED BY <3>1, <3>2
  <2>2. lost \in Seq(Buffer) /\ Len(lost) = Len(A)
    <3>1. lost = [A EXCEPT ![c] = [A[c] EXCEPT !.page = Garbage]]
      OBVIOUS
    <3> QED BY <2>1, <3>1, Replaced
  <2>3. g.ok = FALSE /\ g.cache = lost /\ g.at = c /\ g.lost = 1
    BY <1>8
  <2>4. failed + 1 \in 0 .. MaxRead
    BY <1>4, <1>8
  <2> HIDE DEF lost, end
  <2>5. /\ g.cache \in Seq(Buffer) /\ Len(g.cache) <= CacheSize /\ Len(cache) <= Len(g.cache)
        /\ g.at \in 1 .. Len(g.cache)
    BY <1>3, <2>2, <2>3
  <2>6. g.lost \in {0, 1} /\ failed + g.lost \in 0 .. MaxRead
    BY <2>3, <2>4
  <2>7. ~g.ok /\ g.ok \in BOOLEAN
    BY <2>3, Zenon
  <2>8. g.lost # 0
    BY <2>3
  <2> QED BY <2>5, <2>6, <2>7, <2>8
<1> QED BY <1>5, <1>6, <1>7, <1>8
-----------------------------------------------------------------------------
(* The comparisons *)

\* utf8_strncasecmp and utf8_strcasecmp order the words; DictOrgProof shows it.
WordOrder ==
    /\ \A k, x \in Word \cup Key, n \in 0 .. MaxLen + 1 :
         /\ utf8_strncasecmp(k, x, n) \in {-1, 0, 1}
         /\ utf8_strncasecmp(k, x, n) = 0 <=> SameTo(x, k, n)
    /\ \A k \in Key, x \in Word, n, m \in 0 .. MaxLen + 1 :
         n <= m /\ utf8_strncasecmp(k, x, n) # 0 => utf8_strncasecmp(k, x, m) = utf8_strncasecmp(k, x, n)
    /\ \A k \in Key, x, y \in Word, n \in 0 .. MaxLen + 1 :
         utf8_strcasecmp(x, y) <= 0 =>
           /\ utf8_strncasecmp(k, x, n) = -1 => utf8_strncasecmp(k, y, n) = -1
           /\ utf8_strncasecmp(k, y, n) = 1 => utf8_strncasecmp(k, x, n) = 1
    /\ \A x, y, z \in Word :
         utf8_strcasecmp(x, y) <= 0 /\ utf8_strcasecmp(y, z) < 0 => utf8_strcasecmp(x, z) < 0
    /\ \A k \in Key, x \in Word : utf8_strcasecmp(k, x) = 0 <=> SameTo(x, k, MaxLen)

\* The look-ups that search, and those that try every headword.
Located == {"define", "exact", "prefix"}
Selected == {"suffix", "select", "named"}

\* A key or a word has a length that the comparisons reach.
LEMMA WordLength ==
    ASSUME NEW w \in Word \cup Key
    PROVE  Len(w) \in 0 .. MaxLen /\ MaxLen \in Nat /\ w \in Seq(Letter)
BY WordAssumption

\* A headword that is long enough or differs from the key is compared as far as
\* the key goes.
LEMMA ComparePrefix ==
    ASSUME WordOrder, NEW k \in Key, k # <<>>, NEW x \in Word,
           Len(x) >= Len(k) \/ ~SameTo(x, k, Len(x))
    PROVE  Compare("prefix", k, x) = utf8_strncasecmp(k, x, Len(k))
<1>1. Len(k) \in 0 .. MaxLen /\ Len(x) \in 0 .. MaxLen /\ MaxLen \in Nat
  BY WordLength
<1>2. CASE Len(x) >= Len(k)
  BY <1>1, <1>2 DEF Compare
<1>3. CASE Len(x) < Len(k)
  <2>1. Compare("prefix", k, x) = utf8_strncasecmp(k, x, Len(x))
    BY <1>1, <1>3 DEF Compare
  <2>2. Len(x) \in 0 .. MaxLen + 1 /\ Len(k) \in 0 .. MaxLen + 1 /\ Len(x) <= Len(k)
    BY <1>1, <1>3
  <2>3. ~SameTo(x, k, Len(x))
    BY <1>1, <1>3
  <2>4. utf8_strncasecmp(k, x, Len(x)) # 0
    BY <2>2, <2>3 DEF WordOrder
  <2> QED BY <2>1, <2>2, <2>4 DEF WordOrder
<1> QED BY <1>1, <1>2, <1>3

\* The words of the index are those of Word.
LEMMA HeadwordIs ==
    ASSUME PagesInv, NEW a \in Places
    PROVE  Headword(a) \in Word
<1>1. a[1] \in 0 .. NumPages - 1 /\ a[2] \in 0 .. Len(Refs(a[1])) - 1
  BY PlaceIs
<1>2. Refs(a[1]) \in Seq(Word) /\ Len(Refs(a[1])) \in Nat
  BY <1>1 DEF PagesInv
<1>3. a[2] + 1 \in 1 .. Len(Refs(a[1]))
  BY <1>1, <1>2
<1> QED BY <1>2, <1>3 DEF Headword

\* A comparison with the headwords in their order: zero for those that match, and
\* never back from a negative number or forward from a positive one.
LEMMA CompareFaithful ==
    ASSUME WordOrder, PagesInv, NEW o \in Located, NEW k \in Key, Searchable(o, k)
    PROVE  /\ \A a \in Places : /\ Compare(o, k, Headword(a)) \in {-1, 0, 1}
                                /\ Compare(o, k, Headword(a)) = 0 <=> Hit(o, k, Headword(a))
           /\ \A a, b \in Places : Earlier(a, b) =>
                /\ Compare(o, k, Headword(a)) = -1 => Compare(o, k, Headword(b)) = -1
                /\ Compare(o, k, Headword(b)) = 1 => Compare(o, k, Headword(a)) = 1
<1>1. Len(k) \in 0 .. MaxLen /\ MaxLen \in Nat /\ k \in Seq(Letter)
  BY WordLength
<1>2. \A a \in Places : Headword(a) \in Word
  BY HeadwordIs
<1>3. Len(k) \in 0 .. MaxLen + 1 /\ MaxLen + 1 \in 0 .. MaxLen + 1
  BY <1>1
<1>4. \A a, b \in Places : Earlier(a, b) => utf8_strcasecmp(Headword(a), Headword(b)) <= 0
  BY DEF PagesInv
<1>5. CASE o = "prefix" /\ k # <<>>
  <2>1. \A a \in Places : Len(Headword(a)) >= Len(k) \/ ~SameTo(Headword(a), k, Len(Headword(a)))
    BY <1>5 DEF Searchable
  <2>2. \A a \in Places : Compare(o, k, Headword(a)) = utf8_strncasecmp(k, Headword(a), Len(k))
    BY <1>2, <1>5, <2>1, ComparePrefix
  <2>3. ASSUME NEW a \in Places
        PROVE  SameTo(Headword(a), k, Len(k)) <=> Hit(o, k, Headword(a))
    <3>1. Hit(o, k, Headword(a)) <=> Len(Headword(a)) >= Len(k) /\ SameTo(Headword(a), k, Len(k))
      BY <1>5 DEF Hit
    <3>2. Len(Headword(a)) \in Nat
      BY <1>2, WordLength
    <3>3. Len(Headword(a)) < Len(k) => ~SameTo(Headword(a), k, Len(k))
      <4>1. Len(Headword(a)) < Len(k) => 1 .. Len(Headword(a)) \subseteq 1 .. Len(k)
        BY <1>1, <3>2
      <4>2. Len(Headword(a)) < Len(k) => ~SameTo(Headword(a), k, Len(Headword(a)))
        BY <1>1, <2>1, <3>2
      <4> QED BY <4>1, <4>2 DEF SameTo
    <3> QED BY <1>1, <3>1, <3>2, <3>3
  <2> QED BY <1>2, <1>3, <1>4, <2>2, <2>3 DEF WordOrder
<1>6. CASE ~(o = "prefix" /\ k # <<>>)
  <2>1. \A x : Compare(o, k, x) = utf8_strcasecmp(k, x)
    BY <1>6 DEF Compare
  <2>2. \A x : Hit(o, k, x) <=> SameTo(x, k, MaxLen)
    BY <1>6 DEF Hit, Located
  <2> QED BY <1>2, <1>3, <1>4, <2>1, <2>2 DEF WordOrder, utf8_strcasecmp
<1> QED BY <1>5, <1>6
-----------------------------------------------------------------------------
(* The list of results *)

\* r lists the places D in their order: each of them, or, for a match, one for
\* each of their headwords.
Lists(r, D, unique) ==
    /\ r \in Seq(Places)
    /\ \A i \in DOMAIN r : r[i] \in D
    /\ \A i, j \in DOMAIN r : i < j => Earlier(r[i], r[j])
    /\ ~unique => \A a \in D : \E i \in DOMAIN r : r[i] = a
    /\ unique => \A a \in D : \E i \in DOMAIN r : utf8_strcasecmp(Headword(r[i]), Headword(a)) = 0
    /\ unique => \A i, j \in DOMAIN r : i < j => utf8_strcasecmp(Headword(r[i]), Headword(r[j])) < 0

\* Places are in a linear order.
LEMMA PlaceOrder ==
    ASSUME PagesInv
    PROVE  /\ \A a \in Places : ~Earlier(a, a)
           /\ \A a, b \in Places : a = b \/ Earlier(a, b) \/ Earlier(b, a)
           /\ \A a, b, c \in Places : Earlier(a, b) /\ Earlier(b, c) => Earlier(a, c)
<1>1. \A a \in Places : a = <<a[1], a[2]>> /\ a[1] \in Int /\ a[2] \in Int
  <2> SUFFICES ASSUME NEW a \in Places PROVE a = <<a[1], a[2]>> /\ a[1] \in Int /\ a[2] \in Int
    OBVIOUS
  <2>1. a = <<a[1], a[2]>> /\ a[1] \in 0 .. NumPages - 1 /\ a[2] \in 0 .. Len(Refs(a[1])) - 1
    BY PlaceIs
  <2> QED BY <2>1
<1>2. ASSUME NEW a \in Places, NEW b \in Places PROVE a = b \/ Earlier(a, b) \/ Earlier(b, a)
  BY <1>1 DEF Earlier
<1>3. ASSUME NEW a \in Places, NEW b \in Places, NEW c \in Places, Earlier(a, b), Earlier(b, c)
      PROVE  Earlier(a, c)
  BY <1>1, <1>3 DEF Earlier
<1>4. ASSUME NEW a \in Places PROVE ~Earlier(a, a)
  BY <1>1 DEF Earlier
<1> QED BY <1>2, <1>3, <1>4

\* A word is the same as itself.
LEMMA SameAsItself ==
    ASSUME WordOrder, NEW w \in Word PROVE utf8_strcasecmp(w, w) = 0
<1>1. SameTo(w, w, MaxLen + 1)
  BY DEF SameTo
<1>2. MaxLen + 1 \in 0 .. MaxLen + 1
  BY WordAssumption
<1> QED BY <1>1, <1>2 DEF WordOrder, utf8_strcasecmp

\* gcide_result_list_append: a place behind all those listed.
LEMMA ListedTakes ==
    ASSUME WordOrder, PagesInv, NEW D \in SUBSET Places, NEW unique \in BOOLEAN,
           NEW r, Lists(r, D, unique), NEW place \in Places, \A a \in D : Earlier(a, place)
    PROVE  /\ Lists(Listed(r, place, unique), D \cup {place}, unique)
           /\ Listed(r, place, unique) # <<>>
           /\ Listed(r, place, unique)[1] = IF r = <<>> THEN place ELSE r[1]
<1> DEFINE H(i) == Headword(r[i])
           n == Len(r)
           w == Headword(place)
<1>1. /\ r \in Seq(Places) /\ n \in Nat /\ DOMAIN r = 1 .. n
      /\ \A i \in 1 .. n : r[i] \in D /\ r[i] \in Places
      /\ \A i, j \in 1 .. n : i < j => Earlier(r[i], r[j])
  BY DEF Lists
<1>2. /\ ~unique => \A a \in D : \E i \in 1 .. n : r[i] = a
      /\ unique => \A a \in D : \E i \in 1 .. n : utf8_strcasecmp(H(i), Headword(a)) = 0
      /\ unique => \A i, j \in 1 .. n : i < j => utf8_strcasecmp(H(i), H(j)) < 0
  BY <1>1, Zenon DEF Lists
<1>3. /\ w \in Word /\ \A i \in 1 .. n : H(i) \in Word
      /\ \A i \in 1 .. n : Earlier(r[i], place) /\ utf8_strcasecmp(H(i), w) <= 0
  BY <1>1, HeadwordIs DEF PagesInv
<1>4. CASE unique /\ r # <<>> /\ utf8_strcasecmp(H(n), w) = 0
  <2>1. Listed(r, place, unique) = r
    BY <1>4 DEF Listed
  <2>2. n \in 1 .. n
    BY <1>1, <1>4
  <2>3. \A a \in D \cup {place} : \E i \in 1 .. n : utf8_strcasecmp(H(i), Headword(a)) = 0
    BY <1>2, <1>4, <2>2
  <2>4. Lists(r, D \cup {place}, unique)
    BY <1>1, <1>2, <1>4, <2>3, Zenon DEF Lists
  <2> QED BY <1>4, <2>1, <2>4, Zenon
<1>5. CASE ~(unique /\ r # <<>> /\ utf8_strcasecmp(H(n), w) = 0)
  <2> DEFINE t == Append(r, place)
  <2>1. Listed(r, place, unique) = t
    BY <1>5 DEF Listed
  <2>2. /\ t \in Seq(Places) /\ DOMAIN t = 1 .. n + 1 /\ t[n + 1] = place
        /\ \A i \in 1 .. n : t[i] = r[i]
    BY <1>1, Lengthened
  <2> HIDE DEF t, n
  <2>3. \A i \in 1 .. n + 1 : i = n + 1 \/ i \in 1 .. n
    BY <1>1
  <2>4. \A i \in DOMAIN t : t[i] \in D \cup {place}
    BY <1>1, <2>2, <2>3
  <2>5. \A i, j \in DOMAIN t : i < j => i \in 1 .. n /\ (j = n + 1 \/ j \in 1 .. n)
    BY <1>1, <2>2
  <2>6. \A i, j \in DOMAIN t : i < j => Earlier(t[i], t[j])
    BY <1>1, <1>3, <2>2, <2>5
  <2>7. ASSUME NEW a \in D \cup {place}, ~unique PROVE \E i \in DOMAIN t : t[i] = a
    <3>1. CASE a = place
      BY <1>1, <2>2, <3>1
    <3>2. CASE a \in D
      <4>1. PICK i \in 1 .. n : r[i] = a
        BY <1>2, <2>7, <3>2
      <4>2. i \in DOMAIN t /\ t[i] = a
        BY <1>1, <2>2, <4>1
      <4> QED BY <4>2
    <3> QED BY <3>1, <3>2
  <2>8. ASSUME NEW a \in D \cup {place}, unique
        PROVE  \E i \in DOMAIN t : utf8_strcasecmp(Headword(t[i]), Headword(a)) = 0
    <3>1. CASE a = place
      <4>1. utf8_strcasecmp(w, w) = 0
        BY <1>3, SameAsItself
      <4> QED BY <1>1, <2>2, <3>1, <4>1
    <3>2. CASE a \in D
      <4>1. PICK i \in 1 .. n : utf8_strcasecmp(H(i), Headword(a)) = 0
        BY <1>2, <2>8, <3>2
      <4>2. i \in DOMAIN t /\ t[i] = r[i]
        BY <1>1, <2>2, <4>1
      <4> QED BY <4>1, <4>2
    <3> QED BY <3>1, <3>2
  <2>9. ASSUME NEW i \in DOMAIN t, NEW j \in DOMAIN t, i < j, unique
        PROVE  utf8_strcasecmp(Headword(t[i]), Headword(t[j])) < 0
    <3>1. i \in 1 .. n /\ t[i] = r[i]
      BY <2>2, <2>5, <2>9
    <3>2. CASE j = n + 1
      <4>1. n \in 1 .. n /\ r # <<>>
        <5>1. n \in 1 .. n
          BY <1>1, <3>1
        <5> QED BY <1>1, <5>1
      <4>2. utf8_strcasecmp(H(n), w) < 0
        <5>1. utf8_strcasecmp(H(n), w) # 0
          BY <1>5, <2>9, <4>1
        <5>2. utf8_strcasecmp(H(n), w) <= 0 /\ utf8_strcasecmp(H(n), w) \in {-1, 0, 1}
          <6>1. MaxLen + 1 \in 0 .. MaxLen + 1
            BY WordAssumption
          <6> QED BY <1>3, <4>1, <6>1 DEF WordOrder, utf8_strcasecmp
        <5> QED BY <5>1, <5>2
      <4>3. CASE i = n
        BY <2>2, <3>1, <3>2, <4>2, <4>3
      <4>4. CASE i # n
        <5>1. i < n
          BY <1>1, <3>1, <4>4
        <5>2. utf8_strcasecmp(H(i), H(n)) < 0
          BY <1>2, <2>9, <3>1, <4>1, <5>1
        <5>3. utf8_strcasecmp(H(i), H(n)) <= 0
          <6>1. MaxLen + 1 \in 0 .. MaxLen + 1
            BY WordAssumption
          <6>2. utf8_strcasecmp(H(i), H(n)) \in {-1, 0, 1}
            BY <1>3, <3>1, <4>1, <6>1 DEF WordOrder, utf8_strcasecmp
          <6> QED BY <5>2, <6>2
        <5>4. utf8_strcasecmp(H(i), w) < 0
          BY <1>3, <3>1, <4>1, <4>2, <5>3 DEF WordOrder
        <5> QED BY <2>2, <3>1, <3>2, <5>4
      <4> QED BY <4>3, <4>4
    <3>3. CASE j # n + 1
      <4>1. j \in 1 .. n /\ t[j] = r[j]
        BY <2>2, <2>3, <3>3
      <4> QED BY <1>2, <2>9, <3>1, <4>1
    <3> QED BY <3>2, <3>3
  <2>10. Lists(t, D \cup {place}, unique)
    BY <2>2, <2>4, <2>6, <2>7, <2>8, <2>9, Zenon DEF Lists
  <2>11. t # <<>> /\ t[1] = IF r = <<>> THEN place ELSE r[1]
    <3>1. CASE r = <<>>
      <4>1. n = 0
        BY <3>1 DEF n
      <4> QED BY <2>2, <3>1, <4>1
    <3>2. CASE r # <<>>
      <4>1. 1 \in 1 .. n
        BY <1>1, <3>2 DEF n
      <4> QED BY <1>1, <2>2, <3>2, <4>1
    <3> QED BY <3>1, <3>2
  <2> QED BY <2>1, <2>10, <2>11
<1> QED BY <1>4, <1>5

\* An iteration of the loop of AddMatches, after g.
AddStep(r, n, g, j) ==
    IF j = 0 THEN r
    ELSE IF key_match(gop, gkey, Headword(<<n, j - 1>>))
         THEN Listed(g[j - 1], <<n, j - 1>>, TRUE) ELSE g[j - 1]

\* The recursion of AddMatches is well founded.
LEMMA AddRecursion ==
    ASSUME NEW r, NEW n, Len(Refs(n)) \in Nat
    PROVE  \E g : /\ \A j \in 0 .. Len(Refs(n)) : g[j] = AddStep(r, n, g, j)
                  /\ AddMatches(r, n) = g[Len(Refs(n))]
<1> DEFINE Solved == {m \in Nat : \E g : g = [j \in 0 .. m |-> AddStep(r, n, g, j)]}
<1>1. 0 \in Solved
  <2>1. [j \in 0 .. 0 |-> r] = [j \in 0 .. 0 |-> AddStep(r, n, [i \in 0 .. 0 |-> r], j)]
    BY DEF AddStep
  <2> QED BY <2>1
<1>2. ASSUME NEW m \in Solved PROVE m + 1 \in Solved
  <2>1. PICK g : g = [j \in 0 .. m |-> AddStep(r, n, g, j)]
    OBVIOUS
  <2>2. \A j \in 0 .. m : g[j] = AddStep(r, n, g, j)
    BY <2>1, Zenon
  <2> DEFINE h == [j \in 0 .. m + 1 |-> IF j = m + 1 THEN AddStep(r, n, g, m + 1) ELSE g[j]]
  <2>3. ASSUME NEW j \in 0 .. m + 1 PROVE h[j] = AddStep(r, n, h, j)
    <3>1. CASE j = 0
      <4>1. g[0] = AddStep(r, n, g, 0) /\ h[0] = g[0]
        BY <2>2
      <4>2. AddStep(r, n, g, 0) = r /\ AddStep(r, n, h, 0) = r
        BY Zenon DEF AddStep
      <4> QED BY <3>1, <4>1, <4>2, Zenon
    <3>2. CASE j # 0
      <4>1. j - 1 \in 0 .. m /\ h[j - 1] = g[j - 1]
        BY <3>2
      <4>2. AddStep(r, n, h, j) = AddStep(r, n, g, j)
        <5> HIDE DEF h
        <5> QED BY <3>2, <4>1, Zenon DEF AddStep
      <4>3. j # m + 1 => g[j] = AddStep(r, n, g, j)
        BY <2>2
      <4> QED BY <4>2, <4>3
    <3> QED BY <3>1, <3>2
  <2>4. h = [j \in 0 .. m + 1 |-> AddStep(r, n, h, j)]
    BY <2>3
  <2>5. \E f : f = [j \in 0 .. m + 1 |-> AddStep(r, n, f, j)]
    <3> HIDE DEF h
    <3> QED BY <2>4
  <2> QED BY <2>5
<1>3. Solved = Nat
  <2> HIDE DEF Solved
  <2>1. Solved \in SUBSET Nat
    BY DEF Solved
  <2> QED BY <1>1, <1>2, <2>1, SetInduction
<1> DEFINE added == CHOOSE g : g = [j \in 0 .. Len(Refs(n)) |-> AddStep(r, n, g, j)]
<1>4. added = [j \in 0 .. Len(Refs(n)) |-> AddStep(r, n, added, j)]
  <2>1. \E g : g = [j \in 0 .. Len(Refs(n)) |-> AddStep(r, n, g, j)]
    BY <1>3
  <2> QED BY <2>1, Zenon
<1>5. AddMatches(r, n) = added[Len(Refs(n))]
  BY DEF AddMatches, AddStep
<1> HIDE DEF added
<1>6. \A j \in 0 .. Len(Refs(n)) : added[j] = AddStep(r, n, added, j)
  BY <1>4, Zenon
<1> QED BY <1>5, <1>6

\* match_key lists what matches on one more page.
LEMMA AddsPage ==
    ASSUME WordOrder, PagesInv, NEW n \in 0 .. NumPages - 1, NEW r,
           NEW D \in SUBSET Places, \A a \in D : a[1] < n, Lists(r, D, TRUE)
    PROVE  Lists(AddMatches(r, n),
                 D \cup {a \in Places : a[1] = n /\ key_match(gop, gkey, Headword(a))}, TRUE)
<1> DEFINE c == Len(Refs(n))
           M(j) == D \cup {a \in Places : a[1] = n /\ a[2] < j /\ key_match(gop, gkey, Headword(a))}
<1>1. c \in Nat \ {0} /\ n \in Nat /\ NumPages \in Nat
  BY DEF PagesInv
<1>2. PICK g : /\ \A j \in 0 .. c : g[j] = AddStep(r, n, g, j)
               /\ AddMatches(r, n) = g[c]
  BY <1>1, AddRecursion
<1>3. \A a \in Places : /\ a = <<a[1], a[2]>> /\ a[1] \in Int /\ a[2] \in Nat
                        /\ a[1] = n => a[2] < c
  <2> SUFFICES ASSUME NEW a \in Places
               PROVE  a = <<a[1], a[2]>> /\ a[1] \in Int /\ a[2] \in Nat /\ (a[1] = n => a[2] < c)
    OBVIOUS
  <2>1. a = <<a[1], a[2]>> /\ a[1] \in 0 .. NumPages - 1 /\ a[2] \in 0 .. Len(Refs(a[1])) - 1
    BY PlaceIs
  <2>2. Len(Refs(a[1])) \in Nat
    BY <2>1 DEF PagesInv
  <2> QED BY <1>1, <2>1, <2>2
<1> DEFINE Done(j) == Lists(g[j], M(j), TRUE)
           Good == {j \in Nat : j <= c => Done(j)}
<1> HIDE DEF M, Done
<1>4. 0 \in Good
  <2>1. g[0] = AddStep(r, n, g, 0)
    BY <1>1, <1>2
  <2>2. g[0] = r
    BY <2>1, Zenon DEF AddStep
  <2>3. M(0) = D
    BY <1>3 DEF M
  <2> QED BY <2>2, <2>3, Zenon DEF Done
<1>5. ASSUME NEW j \in Good PROVE j + 1 \in Good
  <2> SUFFICES ASSUME j + 1 <= c PROVE Done(j + 1)
    OBVIOUS
  <2>1. Done(j)
    BY <1>1
  <2>2. j + 1 \in 0 .. c /\ j + 1 # 0 /\ (j + 1) - 1 = j /\ j \in 0 .. c - 1
    BY <1>1
  <2>3. <<n, j>> \in Places
    BY <2>2, IsPlace
  <2>4. g[j + 1] = IF key_match(gop, gkey, Headword(<<n, j>>)) THEN Listed(g[j], <<n, j>>, TRUE) ELSE g[j]
    BY <1>2, <2>2, Zenon DEF AddStep
  <2>5. M(j) \in SUBSET Places /\ \A a \in M(j) : Earlier(a, <<n, j>>)
    BY <1>1, <1>3 DEF Earlier, M
  <2>6. CASE key_match(gop, gkey, Headword(<<n, j>>))
    <3>1. M(j + 1) = M(j) \cup {<<n, j>>}
      <4>1. \A a \in Places : a[1] = n /\ a[2] < j + 1 <=> (a[1] = n /\ a[2] < j) \/ a = <<n, j>>
        BY <1>3, <2>2
      <4> QED BY <2>3, <2>6, <4>1 DEF M
    <3>2. Lists(Listed(g[j], <<n, j>>, TRUE), M(j) \cup {<<n, j>>}, TRUE)
      BY <2>1, <2>3, <2>5, ListedTakes, Zenon DEF Done
    <3> QED BY <2>4, <2>6, <3>1, <3>2, Zenon DEF Done
  <2>7. CASE ~key_match(gop, gkey, Headword(<<n, j>>))
    <3>1. M(j + 1) = M(j)
      <4>1. \A a \in Places : a[1] = n /\ a[2] < j + 1 <=> (a[1] = n /\ a[2] < j) \/ a = <<n, j>>
        BY <1>3, <2>2
      <4> QED BY <2>7, <4>1 DEF M
    <3> QED BY <2>1, <2>4, <2>7, <3>1, Zenon DEF Done
  <2> QED BY <2>6, <2>7
<1>6. Good = Nat
  <2> HIDE DEF Good
  <2>1. Good \in SUBSET Nat
    BY DEF Good
  <2> QED BY <1>4, <1>5, <2>1, SetInduction
<1>7. Done(c)
  BY <1>1, <1>6
<1>8. M(c) = D \cup {a \in Places : a[1] = n /\ key_match(gop, gkey, Headword(a))}
  BY <1>3 DEF M
<1> QED BY <1>2, <1>7, <1>8, Zenon DEF Done
-----------------------------------------------------------------------------
(* The invariant *)

\* The place of the iterator, and those it has passed.
Here == <<pageno, refno>>
Passed == {a \in Places : refs # <<>> /\ ~Earlier(a, refs[1]) /\ Earlier(a, Here)}

\* Every match is on a page that _idx_page_locate has left to search.
PageSought ==
    /\ refs = <<>> /\ l \in 0 .. NumPages /\ u \in 0 .. NumPages
    /\ Searchable(gop, gkey) => \A a \in Hits : l <= a[1] /\ a[1] < u

\* If there is a match, there is one on the page it returned.
PageFound ==
    /\ refs = <<>> /\ pageno \in 0 .. NumPages - 1
    /\ Searchable(gop, gkey) => Hits = {} \/ \E a \in Hits : a[1] = pageno

\* The buffer holds this page, and its matches are among the references that
\* _idx_ref_locate has left to search.
RefSought ==
    /\ buf \in 1 .. Len(cache) /\ cache[buf].page = pageno
    /\ l \in 0 .. Len(Refs(pageno)) /\ u \in 0 .. Len(Refs(pageno))
    /\ Searchable(gop, gkey) => \A a \in Hits : a[1] = pageno => l <= a[2] /\ a[2] < u

\* All that the iterator has passed compares equal to the key and is listed.
Walking ==
    /\ Here \in Places
    /\ \A a \in Passed \cup {Here} : Compare(gop, gkey, Headword(a)) = 0
    /\ gpc = "append" => Lists(refs, Passed, gop # "define")
    /\ gpc = "next" => refs # <<>> /\ Lists(refs, Passed \cup {Here}, gop # "define")

\* What matches on the pages that were enumerated is listed.
Enumerating == Lists(refs, {a \in Hits : a[1] < pageno}, TRUE)

LookInv ==
    /\ gpc \in {"idle", "page", "fetch", "ref", "append", "next", "enum", "done", "none", "crashed"}
    /\ pageno \in 0 .. NumPages /\ buf \in 0 .. Len(cache) /\ refs \in Seq(Places)
    /\ gpc = "idle" => pageno = 0 /\ refs = <<>>
    /\ gpc \in {"page", "fetch", "ref", "append", "next"} => gop \in Located /\ gkey \in Key
    /\ gpc = "enum" => gop \in Selected
    /\ gpc = "page" => PageSought
    /\ gpc \in {"fetch", "ref"} => PageFound
    /\ gpc = "ref" => RefSought
    /\ gpc \in {"append", "next"} => Walking
    /\ gpc = "enum" => Enumerating

GcideInv == PagesInv /\ CacheInv /\ LookInv /\ WalkExact

\* The invariant has the state well formed.
LEMMA GcideTyped == Bounds /\ GcideInv => TypeOK
<1> SUFFICES ASSUME Bounds, GcideInv PROVE TypeOK
  OBVIOUS
<1>1. cache \in Seq(Buffer) /\ Len(cache) <= CacheSize /\ failed \in 0 .. MaxRead
  BY DEF GcideInv, CacheInv
<1>2. \A i \in DOMAIN cache : cache[i].page \in Garbage .. NumPages - 1 /\ cache[i].refcount \in {0, 1}
  <2>1. \A i \in DOMAIN cache : cache[i] \in Buffer
    BY <1>1
  <2> QED BY <2>1 DEF Buffer
<1>3. \A i \in DOMAIN refs : refs[i] \in Places
  BY DEF GcideInv, LookInv
<1>4. \A i \in DOMAIN refs : refs[i][1] \in 0 .. NumPages - 1 /\ refs[i][2] \in 0 .. Len(Refs(refs[i][1])) - 1
  BY <1>3, PlaceIs
<1> QED BY <1>1, <1>2, <1>4 DEF GcideInv, LookInv, TypeOK

\* Nothing that is said of the file changes while the file does not.
LEMMA PagesKept ==
    ASSUME UNCHANGED pages
    PROVE  /\ NumPages' = NumPages /\ Places' = Places /\ Buffer' = Buffer
           /\ \A n : Refs(n)' = Refs(n)
           /\ \A a : Headword(a)' = Headword(a)
           /\ PagesInv => PagesInv'
<1>1. NumPages' = NumPages /\ \A n : Refs(n)' = Refs(n)
  BY DEF NumPages, Refs
<1>2. \A a : Headword(a)' = Headword(a)
  BY DEF Headword, Refs
<1>3. Places' = Places /\ Buffer' = Buffer
  BY DEF Places, Buffer, NumPages, Refs, Garbage
<1> QED BY <1>1, <1>2, <1>3 DEF PagesInv

\* ... and of a look-up while that is the same.
LEMMA LookKept ==
    ASSUME UNCHANGED <<pages, gop, gkey>>
    PROVE  /\ Hits' = Hits
           /\ Searchable(gop, gkey)' <=> Searchable(gop, gkey)
<1>1. Places' = Places /\ \A a : Headword(a)' = Headword(a)
  BY PagesKept
<1>2. Hits' = Hits
  BY <1>1 DEF Hits
<1>3. Searchable(gop, gkey)' <=> Searchable(gop, gkey)
  BY <1>1 DEF Searchable
<1> QED BY <1>2, <1>3
-----------------------------------------------------------------------------
(* Every step keeps the invariant *)

\* A page was asked for.
LEMMA Taken ==
    ASSUME Bounds, PagesInv, CacheInv, UNCHANGED pages,
           NEW n \in Nat, NEW g \in idx_get_page(n), Take(g)
    PROVE  /\ CacheInv' /\ Len(cache) \in Nat /\ Len(cache') \in Nat /\ Len(cache) <= Len(cache')
           /\ g.at \in 1 .. Len(cache')
           /\ g.ok => n \in 0 .. NumPages - 1 /\ cache'[g.at].page = n /\ PageIn(g) = Refs(n)
           /\ ~g.ok => ~whole' \/ n >= NumPages
<1>1. NumPages \in Nat /\ Buffer' = Buffer
  BY PagesKept DEF PagesInv
<1>2. /\ g.cache \in Seq(Buffer) /\ Len(g.cache) <= CacheSize /\ Len(cache) <= Len(g.cache)
      /\ g.at \in 1 .. Len(g.cache)
      /\ g.lost \in {0, 1} /\ failed + g.lost \in 0 .. MaxRead
      /\ g.ok => n < NumPages /\ g.cache[g.at].page = n
      /\ ~g.ok /\ g.lost = 0 => n >= NumPages
  BY <1>1, GetPage
<1>3. cache' = g.cache /\ failed' = failed + g.lost /\ (whole' => g.lost = 0)
  BY Zenon DEF Take
<1>4. CacheInv' /\ Len(cache') \in Nat /\ Len(cache) \in Nat
  BY <1>1, <1>2, <1>3 DEF CacheInv
<1>5. g.ok => n \in 0 .. NumPages - 1 /\ cache'[g.at].page = n /\ PageIn(g) = Refs(n)
  BY <1>1, <1>2, <1>3, SMTT(30) DEF PageIn
<1> QED BY <1>2, <1>3, <1>4, <1>5

\* A look-up that has ended.
LEMMA Ended ==
    ASSUME PagesInv', CacheInv', pageno' \in 0 .. NumPages', buf' \in 0 .. Len(cache'),
           refs' \in Seq(Places'), gpc' \in {"done", "none", "crashed"}, WalkExact'
    PROVE  GcideInv'
BY DEF GcideInv, LookInv

\* Nothing is claimed of a look-up that has not ended, or in which a read failed.
LEMMA NotYet ==
    ASSUME gpc' \notin {"done", "none"} \/ ~whole'
    PROVE  WalkExact'
BY DEF WalkExact

\* What was not found is not there.
LEMMA NotFound ==
    ASSUME UNCHANGED <<pages, gop, gkey>>, gpc' = "none",
           whole' /\ Searchable(gop, gkey) => Hits = {}
    PROVE  WalkExact'
BY LookKept DEF WalkExact

\* A match is where the comparison is zero, and the headwords before and after
\* one that compares unequal do not match.
LEMMA HitsAround ==
    ASSUME WordOrder, PagesInv, gop \in Located, gkey \in Key, Searchable(gop, gkey),
           NEW a \in Places
    PROVE  /\ Compare(gop, gkey, Headword(a)) \in {-1, 0, 1}
           /\ Compare(gop, gkey, Headword(a)) = 0 <=> a \in Hits
           /\ Compare(gop, gkey, Headword(a)) < 0 => \A b \in Hits : Earlier(b, a)
           /\ Compare(gop, gkey, Headword(a)) > 0 => \A b \in Hits : Earlier(a, b)
<1> DEFINE C(x) == Compare(gop, gkey, Headword(x))
<1>1. /\ \A x \in Places : C(x) \in {-1, 0, 1} /\ (C(x) = 0 <=> x \in Hits)
      /\ \A x, y \in Places : Earlier(x, y) => (C(x) = -1 => C(y) = -1) /\ (C(y) = 1 => C(x) = 1)
  BY CompareFaithful DEF Hits
<1>2. \A x, y \in Places : x = y \/ Earlier(x, y) \/ Earlier(y, x)
  BY PlaceOrder
<1>3. Hits \subseteq Places
  BY DEF Hits
<1> HIDE DEF C
<1>4. C(a) < 0 => \A b \in Hits : Earlier(b, a)
  BY <1>1, <1>2, <1>3
<1>5. C(a) > 0 => \A b \in Hits : Earlier(a, b)
  BY <1>1, <1>2, <1>3
<1> QED BY <1>1, <1>4, <1>5 DEF C

\* _idx_page_locate.
LEMMA PageLocateKeeps ==
    ASSUME Bounds, WordOrder, GcideInv, idx_page_locate
    PROVE  GcideInv'
<1>1. /\ PagesInv /\ CacheInv /\ PageSought /\ gpc = "page" /\ gop \in Located /\ gkey \in Key
      /\ pageno \in 0 .. NumPages /\ buf \in 0 .. Len(cache) /\ refs \in Seq(Places)
      /\ UNCHANGED <<pages, gop, gkey, refno, buf, refs>>
  BY DEF GcideInv, LookInv, idx_page_locate
<1>2. /\ NumPages \in Nat /\ l \in 0 .. NumPages /\ u \in 0 .. NumPages /\ refs = <<>>
      /\ Searchable(gop, gkey) => \A a \in Hits : l <= a[1] /\ a[1] < u
      /\ \A n \in 0 .. NumPages - 1 : Refs(n) \in Seq(Word) /\ Len(Refs(n)) \in Nat \ {0}
  BY <1>1 DEF PageSought, PagesInv
<1>3. /\ NumPages' = NumPages /\ Places' = Places /\ Buffer' = Buffer /\ PagesInv'
      /\ Hits' = Hits /\ (Searchable(gop, gkey)' <=> Searchable(gop, gkey))
  BY <1>1, PagesKept, LookKept
<1>4. \A a \in Hits : a \in Places /\ a[1] \in Int /\ a[2] \in Int /\ a[1] \in 0 .. NumPages - 1
  <2> SUFFICES ASSUME NEW a \in Hits
               PROVE  a \in Places /\ a[1] \in Int /\ a[2] \in Int /\ a[1] \in 0 .. NumPages - 1
    OBVIOUS
  <2>1. a \in Places
    BY DEF Hits
  <2>2. a[1] \in 0 .. NumPages - 1 /\ a[2] \in 0 .. Len(Refs(a[1])) - 1
    BY <2>1, PlaceIs
  <2> QED BY <2>1, <2>2
<1>5. CASE l >= u /\ gpc' = "none" /\ UNCHANGED <<cache, l, u, pageno, failed, whole>>
  <2>1. Searchable(gop, gkey) => Hits = {}
    BY <1>2, <1>4, <1>5
  <2>2. WalkExact' /\ CacheInv'
    BY <1>1, <1>3, <1>5, <2>1, NotFound DEF CacheInv
  <2> QED BY <1>1, <1>3, <1>5, <2>2, Ended
<1>6. CASE l < u
  <2> DEFINE idx == (l + u) \div 2
  <2>1. idx \in Nat /\ l <= idx /\ idx < u /\ idx \in 0 .. NumPages - 1
    BY <1>2, <1>6
  <2> HIDE DEF idx
  <2>2. PICK g \in idx_get_page(idx) :
          /\ Take(g)
          /\ IF ~g.ok
             THEN gpc' = "none" /\ UNCHANGED <<l, u, pageno>>
             ELSE LET page == PageIn(g)
                      first == Compare(gop, gkey, page[1])
                      last == Compare(gop, gkey, page[Len(page)])
                  IN  \/ first < 0 /\ u' = idx /\ UNCHANGED <<gpc, l, pageno>>
                      \/ first > 0 /\ last > 0 /\ l' = idx + 1 /\ UNCHANGED <<gpc, u, pageno>>
                      \/ /\ first = 0 \/ (first > 0 /\ last <= 0)
                         /\ pageno' = idx /\ gpc' = "fetch" /\ UNCHANGED <<l, u>>
    BY <1>2, <1>6, SMTT(30) DEF idx_page_locate, idx
  <2>3. /\ CacheInv' /\ Len(cache) \in Nat /\ Len(cache') \in Nat /\ Len(cache) <= Len(cache')
        /\ g.ok => PageIn(g) = Refs(idx)
        /\ ~g.ok => ~whole'
    <3>1. /\ CacheInv' /\ Len(cache) \in Nat /\ Len(cache') \in Nat /\ Len(cache) <= Len(cache')
          /\ g.ok => PageIn(g) = Refs(idx)
          /\ ~g.ok => ~whole' \/ idx >= NumPages
      BY <1>1, <2>1, <2>2, Taken, Zenon, SMTT(30)
    <3>2. ~(idx >= NumPages)
      BY <1>2, <2>1
    <3> QED BY <3>1, <3>2, Zenon
  <2>4. buf' \in 0 .. Len(cache') /\ refs' \in Seq(Places') /\ refs' = <<>>
    BY <1>1, <1>2, <1>3, <2>3
  <2>5. CASE ~g.ok
    <3>1. gpc' = "none" /\ pageno' = pageno
      BY <2>2, <2>5
    <3> QED BY <1>1, <1>3, <2>3, <2>4, <2>5, <3>1, NotYet, Ended
  <2>6. CASE g.ok
    <3> DEFINE c == Len(Refs(idx))
               A == <<idx, 0>>
               Z == <<idx, c - 1>>
               C(a) == Compare(gop, gkey, Headword(a))
    <3>1. c \in Nat \ {0} /\ A \in Places /\ Z \in Places
      BY <1>2, <2>1, IsPlace
    <3>2. Headword(A) = Refs(idx)[1] /\ Headword(Z) = Refs(idx)[c]
      BY <3>1 DEF Headword
    <3>3. \/ C(A) < 0 /\ u' = idx /\ UNCHANGED <<gpc, l, pageno>>
          \/ C(A) > 0 /\ C(Z) > 0 /\ l' = idx + 1 /\ UNCHANGED <<gpc, u, pageno>>
          \/ /\ C(A) = 0 \/ (C(A) > 0 /\ C(Z) <= 0)
             /\ pageno' = idx /\ gpc' = "fetch" /\ UNCHANGED <<l, u>>
      BY <2>2, <2>3, <2>6, <3>2
    <3>4. A[1] = idx /\ A[2] = 0 /\ Z[1] = idx /\ Z[2] = c - 1
      OBVIOUS
    <3>5. ASSUME Searchable(gop, gkey)
          PROVE  /\ C(A) \in {-1, 0, 1} /\ C(Z) \in {-1, 0, 1}
                 /\ C(A) = 0 => A \in Hits
                 /\ C(Z) = 0 => Z \in Hits
                 /\ C(A) < 0 => \A b \in Hits : b[1] < idx
                 /\ C(A) > 0 => \A b \in Hits : b[1] >= idx
                 /\ C(Z) < 0 => \A b \in Hits : b[1] <= idx
                 /\ C(Z) > 0 => \A b \in Hits : b[1] > idx
      <4>1. /\ C(A) \in {-1, 0, 1} /\ C(Z) \in {-1, 0, 1}
            /\ C(A) = 0 => A \in Hits
            /\ C(Z) = 0 => Z \in Hits
            /\ C(A) < 0 => \A b \in Hits : Earlier(b, A)
            /\ C(A) > 0 => \A b \in Hits : Earlier(A, b)
            /\ C(Z) < 0 => \A b \in Hits : Earlier(b, Z)
            /\ C(Z) > 0 => \A b \in Hits : Earlier(Z, b)
        BY <1>1, <3>1, <3>5, HitsAround
      <4>2. \A b \in Hits : b[1] \in Int /\ b[2] \in Int /\ b[2] >= 0 /\ (b[1] = idx => b[2] <= c - 1)
        <5> SUFFICES ASSUME NEW b \in Hits
                     PROVE  b[1] \in Int /\ b[2] \in Int /\ b[2] >= 0 /\ (b[1] = idx => b[2] <= c - 1)
          OBVIOUS
        <5>1. b[1] \in 0 .. NumPages - 1 /\ b[2] \in 0 .. Len(Refs(b[1])) - 1
          BY <1>4, PlaceIs
        <5>2. Len(Refs(b[1])) \in Nat
          BY <1>2, <5>1
        <5> QED BY <3>1, <5>1, <5>2
      <4> HIDE DEF C, A, Z, c
      <4>3. \A b \in Hits : /\ Earlier(b, A) => b[1] < idx
                            /\ Earlier(A, b) => b[1] >= idx
                            /\ Earlier(b, Z) => b[1] <= idx
                            /\ Earlier(Z, b) => b[1] > idx
        BY <2>1, <3>1, <3>4, <4>2 DEF Earlier
      <4> QED BY <4>1, <4>3
    <3> HIDE DEF C
    <3>6. CASE C(A) < 0 /\ u' = idx /\ UNCHANGED <<gpc, l, pageno>>
      <4>1. PageSought'
        <5>1. Searchable(gop, gkey) => \A a \in Hits : l <= a[1] /\ a[1] < idx
          BY <1>2, <3>5, <3>6
        <5> QED BY <1>2, <1>3, <2>1, <2>4, <3>6, <5>1 DEF PageSought
      <4> QED BY <1>1, <1>3, <2>3, <2>4, <3>6, <4>1, NotYet DEF GcideInv, LookInv
    <3>7. CASE C(A) > 0 /\ C(Z) > 0 /\ l' = idx + 1 /\ UNCHANGED <<gpc, u, pageno>>
      <4>1. PageSought'
        <5>1. Searchable(gop, gkey) => \A a \in Hits : idx + 1 <= a[1] /\ a[1] < u
          BY <1>2, <1>4, <2>1, <3>5, <3>7
        <5>2. idx + 1 \in 0 .. NumPages
          BY <1>2, <2>1
        <5> QED BY <1>2, <1>3, <2>1, <2>4, <3>7, <5>1, <5>2 DEF PageSought
      <4> QED BY <1>1, <1>3, <2>3, <2>4, <3>7, <4>1, NotYet DEF GcideInv, LookInv
    <3>8. CASE /\ C(A) = 0 \/ (C(A) > 0 /\ C(Z) <= 0)
               /\ pageno' = idx /\ gpc' = "fetch" /\ UNCHANGED <<l, u>>
      <4>1. Searchable(gop, gkey) => Hits = {} \/ \E a \in Hits : a[1] = idx
        <5> SUFFICES ASSUME Searchable(gop, gkey) PROVE Hits = {} \/ \E a \in Hits : a[1] = idx
          OBVIOUS
        <5>1. CASE C(A) = 0
          BY <3>4, <3>5, <5>1
        <5>2. CASE C(A) > 0 /\ C(Z) = 0
          BY <3>4, <3>5, <5>2
        <5>3. CASE C(A) > 0 /\ C(Z) < 0
          <6>1. \A b \in Hits : b[1] >= idx /\ b[1] <= idx
            BY <3>5, <5>3
          <6>2. \A b \in Hits : b[1] = idx
            BY <1>4, <2>1, <6>1
          <6> QED BY <6>2
        <5>4. C(Z) \in {-1, 0, 1}
          BY <3>5
        <5> QED BY <3>8, <5>1, <5>2, <5>3, <5>4
      <4>2. PageFound'
        BY <1>3, <2>1, <2>4, <3>8, <4>1 DEF PageFound
      <4>3. pageno' \in 0 .. NumPages'
        BY <1>2, <1>3, <2>1, <3>8
      <4> QED BY <1>1, <1>3, <2>3, <2>4, <3>8, <4>2, <4>3, NotYet DEF GcideInv, LookInv
    <3> QED BY <3>3, <3>6, <3>7, <3>8
  <2> QED BY <2>5, <2>6
<1> QED BY <1>2, <1>5, <1>6 DEF idx_page_locate

\* gcide_idx_locate reads the page again.
LEMMA FetchKeeps ==
    ASSUME Bounds, WordOrder, GcideInv, idx_fetch
    PROVE  GcideInv'
<1>1. /\ PagesInv /\ CacheInv /\ PageFound /\ gpc = "fetch" /\ gop \in Located /\ gkey \in Key
      /\ pageno \in 0 .. NumPages /\ buf \in 0 .. Len(cache) /\ refs \in Seq(Places)
      /\ UNCHANGED <<pages, gop, gkey, pageno, refno, refs>>
  BY DEF GcideInv, LookInv, idx_fetch
<1>2. /\ NumPages \in Nat /\ pageno \in 0 .. NumPages - 1 /\ pageno \in Nat
      /\ \A n \in 0 .. NumPages - 1 : Len(Refs(n)) \in Nat \ {0}
  BY <1>1 DEF PageFound, PagesInv
<1>3. /\ NumPages' = NumPages /\ Places' = Places /\ PagesInv'
      /\ Hits' = Hits /\ (Searchable(gop, gkey)' <=> Searchable(gop, gkey))
      /\ \A n : Refs(n)' = Refs(n)
  BY <1>1, PagesKept, LookKept
<1>4. PICK g \in idx_get_page(pageno) :
        /\ Take(g)
        /\ IF g.ok THEN gpc' = "ref" /\ buf' = g.at /\ l' = 0 /\ u' = Len(PageIn(g))
                   ELSE gpc' = "none" /\ UNCHANGED <<buf, l, u>>
  BY DEF idx_fetch
<1>5. /\ CacheInv' /\ Len(cache) \in Nat /\ Len(cache') \in Nat /\ Len(cache) <= Len(cache')
      /\ g.at \in 1 .. Len(cache')
      /\ g.ok => cache'[g.at].page = pageno /\ PageIn(g) = Refs(pageno)
      /\ ~g.ok => ~whole'
  BY <1>1, <1>2, <1>4, Taken, SMTT(30)
<1>6. pageno' \in 0 .. NumPages' /\ refs' \in Seq(Places')
  BY <1>1, <1>3
<1>7. CASE ~g.ok
  <2>1. gpc' = "none" /\ buf' \in 0 .. Len(cache')
    BY <1>1, <1>4, <1>5, <1>7, SMTT(30)
  <2> QED BY <1>3, <1>5, <1>6, <1>7, <2>1, NotYet, Ended, Zenon, SMTT(30)
<1>8. CASE g.ok
  <2>1. gpc' = "ref" /\ buf' = g.at /\ l' = 0 /\ u' = Len(Refs(pageno))
    BY <1>4, <1>5, <1>8
  <2>2. PageFound'
    BY <1>1, <1>3 DEF PageFound
  <2>3. ASSUME NEW a \in Hits, a[1] = pageno PROVE 0 <= a[2] /\ a[2] < Len(Refs(pageno))
    <3>1. a \in Places
      BY DEF Hits
    <3>2. a[2] \in 0 .. Len(Refs(a[1])) - 1
      BY <3>1, PlaceIs
    <3> QED BY <1>2, <2>3, <3>2
  <2>4. Refs(pageno)' = Refs(pageno)
    BY <1>1, Zenon, SMTT(30) DEF Refs
  <2>5. RefSought'
    BY <1>1, <1>2, <1>3, <1>5, <1>8, <2>1, <2>3, <2>4 DEF RefSought
  <2>6. buf' \in 0 .. Len(cache')
    BY <1>5, <2>1, SMTT(30)
  <2> QED BY <1>1, <1>3, <1>5, <1>6, <2>1, <2>2, <2>5, <2>6, NotYet, Zenon DEF GcideInv, LookInv
<1> QED BY <1>7, <1>8

\* _idx_ref_locate.
LEMMA RefLocateKeeps ==
    ASSUME Bounds, WordOrder, GcideInv, idx_ref_locate
    PROVE  GcideInv'
<1>1. /\ PagesInv /\ CacheInv /\ PageFound /\ RefSought
      /\ gpc = "ref" /\ gop \in Located /\ gkey \in Key
      /\ pageno \in 0 .. NumPages /\ buf \in 0 .. Len(cache) /\ refs \in Seq(Places)
      /\ UNCHANGED <<pages, cache, gop, gkey, pageno, buf, refs, failed, whole>>
  BY DEF GcideInv, LookInv, idx_ref_locate
<1>2. /\ NumPages \in Nat /\ pageno \in 0 .. NumPages - 1 /\ pageno \in Nat /\ refs = <<>>
      /\ Searchable(gop, gkey) => Hits = {} \/ \E a \in Hits : a[1] = pageno
  BY <1>1 DEF PageFound, PagesInv
<1>3. /\ NumPages' = NumPages /\ Places' = Places /\ PagesInv' /\ Buffer' = Buffer
      /\ Hits' = Hits /\ (Searchable(gop, gkey)' <=> Searchable(gop, gkey))
      /\ Refs(pageno)' = Refs(pageno)
  BY <1>1, PagesKept, LookKept DEF Refs
<1>4. PICK c \in Nat \ {0} : c = Len(Refs(pageno))
  BY <1>1, <1>2 DEF PagesInv
<1>5. /\ l \in 0 .. c /\ u \in 0 .. c /\ cache[buf].page = pageno
      /\ Searchable(gop, gkey) => \A a \in Hits : a[1] = pageno => l <= a[2] /\ a[2] < u
  BY <1>1, <1>4 DEF RefSought
<1>6. CacheInv' /\ pageno' \in 0 .. NumPages' /\ buf' \in 0 .. Len(cache') /\ refs' \in Seq(Places') /\ PageFound'
  BY <1>1, <1>3 DEF CacheInv, PageFound
<1>7. \A a \in Hits : a \in Places /\ a[1] \in Int /\ a[2] \in Int
  <2> SUFFICES ASSUME NEW a \in Hits PROVE a \in Places /\ a[1] \in Int /\ a[2] \in Int
    OBVIOUS
  <2>1. a \in Places
    BY DEF Hits
  <2>2. a[1] \in 0 .. NumPages - 1 /\ a[2] \in 0 .. Len(Refs(a[1])) - 1
    BY <2>1, PlaceIs, Zenon, SMTT(30)
  <2> QED BY <2>1, <2>2
<1> DEFINE idx == (l + u) \div 2
           here == <<pageno, idx>>
           res == Compare(gop, gkey, Headword(here))
<1>8. \/ l >= u /\ gpc' = "none" /\ UNCHANGED <<l, u, refno>>
      \/ l < u /\ res < 0 /\ u' = idx /\ UNCHANGED <<gpc, l, refno>>
      \/ l < u /\ res > 0 /\ l' = idx + 1 /\ UNCHANGED <<gpc, u, refno>>
      \/ l < u /\ res = 0 /\ refno' = idx /\ gpc' = "append" /\ UNCHANGED <<l, u>>
  BY <1>5, Zenon DEF idx_ref_locate
<1>9. CASE l >= u /\ gpc' = "none" /\ UNCHANGED <<l, u, refno>>
  <2>1. Searchable(gop, gkey) => Hits = {}
    BY <1>2, <1>5, <1>7, <1>9
  <2>2. WalkExact'
    BY <1>1, <1>9, <2>1, NotFound, Zenon, SMTT(30)
  <2> QED BY <1>3, <1>6, <1>9, <2>2, Ended
<1>10. CASE l < u
  <2>1. idx \in Nat /\ l <= idx /\ idx < u /\ idx \in 0 .. c - 1
    BY <1>5, <1>10
  <2> HIDE DEF idx
  <2>2. here \in Places /\ here[1] = pageno /\ here[2] = idx
    BY <1>2, <1>4, <2>1, IsPlace
  <2> HIDE DEF here
  <2>3. ASSUME Searchable(gop, gkey)
        PROVE  /\ res < 0 => \A b \in Hits : b[1] = pageno => b[2] < idx
               /\ res > 0 => \A b \in Hits : b[1] = pageno => b[2] > idx
    <3>1. /\ res < 0 => \A b \in Hits : Earlier(b, here)
          /\ res > 0 => \A b \in Hits : Earlier(here, b)
      BY <1>1, <2>2, <2>3, HitsAround
    <3> HIDE DEF res
    <3> QED BY <1>7, <2>2, <3>1 DEF Earlier
  <2>4. CASE res < 0 /\ u' = idx /\ UNCHANGED <<gpc, l, refno>>
    <3>0. idx \in 0 .. c
      BY <2>1
    <3>2. Searchable(gop, gkey) => \A a \in Hits : a[1] = pageno => l <= a[2] /\ a[2] < idx
      BY <1>5, <2>3, <2>4
    <3>1. RefSought'
      BY <1>1, <1>3, <1>4, <1>5, <2>4, <3>0, <3>2, ZenonT(30) DEF RefSought
    <3> QED BY <1>1, <1>3, <1>6, <2>4, <3>1, NotYet, Zenon, SMTT(30) DEF GcideInv, LookInv
  <2>5. CASE res > 0 /\ l' = idx + 1 /\ UNCHANGED <<gpc, u, refno>>
    <3>1. idx + 1 \in 0 .. c
      <4> HIDE DEF res
      <4> QED BY <2>1
    <3>2. Searchable(gop, gkey) => \A a \in Hits : a[1] = pageno => idx + 1 <= a[2] /\ a[2] < u
      <4> SUFFICES ASSUME Searchable(gop, gkey), NEW a \in Hits, a[1] = pageno
                   PROVE  idx + 1 <= a[2] /\ a[2] < u
        BY Zenon
      <4>1. a[2] > idx
        BY <2>3, <2>5, Zenon
      <4>2. a[2] < u /\ a[2] \in Int
        BY <1>5, <1>7, Zenon
      <4> HIDE DEF res
      <4> QED BY <2>1, <4>1, <4>2
    <3>3. RefSought'
      BY <1>1, <1>3, <1>4, <1>5, <2>5, <3>1, <3>2, ZenonT(30) DEF RefSought
    <3> QED BY <1>1, <1>3, <1>6, <2>5, <3>3, NotYet DEF GcideInv, LookInv
  <2>6. CASE res = 0 /\ refno' = idx /\ gpc' = "append" /\ UNCHANGED <<l, u>>
    <3>0. PICK p : p = here
      OBVIOUS
    <3>1. Here' = p /\ refs' = <<>>
      BY <1>1, <1>2, <2>6, <3>0 DEF Here, here
    <3>2. Passed' = {}
      BY <3>1, Zenon, SMTT(30) DEF Passed
    <3>3. Compare(gop', gkey', Headword(p)') = 0 /\ p \in Places'
      BY <1>1, <1>3, <2>2, <2>6, <3>0, Zenon DEF Headword, Refs
    <3>4. Lists(refs, Passed, gop # "define")'
      <4>1. refs' \in Seq(Places') /\ DOMAIN refs' = {}
        BY <1>6, <3>1
      <4> QED BY <3>2, <4>1 DEF Lists
    <3>5. Walking'
      BY <2>6, <3>1, <3>2, <3>3, <3>4 DEF Walking
    <3> QED BY <1>1, <1>3, <1>6, <2>6, <3>5, NotYet DEF GcideInv, LookInv
  <2> QED BY <1>5, <1>8, <1>10, <2>4, <2>5, <2>6
<1> QED BY <1>5, <1>8, <1>9, <1>10, ZenonT(30)

\* gcide_iterator_ref and the appending of what it returns.
LEMMA IteratorRefKeeps ==
    ASSUME Bounds, WordOrder, GcideInv, iterator_ref
    PROVE  GcideInv'
<1>1. /\ PagesInv /\ CacheInv /\ Walking /\ gpc = "append" /\ gop \in Located /\ gkey \in Key
      /\ pageno \in 0 .. NumPages /\ buf \in 0 .. Len(cache) /\ refs \in Seq(Places)
      /\ UNCHANGED <<pages, gop, gkey, l, u, pageno, refno, buf>>
  BY DEF GcideInv, LookInv, iterator_ref
<1>2. /\ NumPages' = NumPages /\ Places' = Places /\ PagesInv'
      /\ \A a : Headword(a)' = Headword(a)
  BY <1>1, PagesKept
<1>3. NumPages \in Nat /\ pageno \in Nat
  BY <1>1 DEF PagesInv
<1>4. PICK g \in idx_get_page(pageno) :
        /\ Take(g)
        /\ IF g.ok THEN /\ refs' = Listed(refs, <<g.cache[g.at].page, refno>>, gop # "define")
                        /\ gpc' = "next"
                   ELSE gpc' = "crashed" /\ UNCHANGED refs
  BY ZenonT(30) DEF iterator_ref
<1>5. /\ CacheInv' /\ Len(cache) \in Nat /\ Len(cache') \in Nat /\ Len(cache) <= Len(cache')
      /\ g.ok => cache'[g.at].page = pageno
  BY <1>1, <1>3, <1>4, Taken
<1>6. pageno' \in 0 .. NumPages' /\ buf' \in 0 .. Len(cache')
  BY <1>1, <1>2, <1>5
<1>7. CASE ~g.ok
  BY <1>1, <1>2, <1>4, <1>5, <1>6, <1>7, NotYet, Ended, ZenonT(30)
<1>8. CASE g.ok
  <2>1. refs' = Listed(refs, Here, gop # "define") /\ gpc' = "next" /\ Here' = Here
    BY <1>1, <1>4, <1>5, <1>8, Zenon DEF Here, Take
  <2>2. /\ Here \in Places /\ Lists(refs, Passed, gop # "define") /\ Passed \in SUBSET Places
        /\ \A a \in Passed : Earlier(a, Here)
        /\ \A a \in Passed \cup {Here} : Compare(gop, gkey, Headword(a)) = 0
    BY <1>1 DEF Walking, Passed
  <2>3. (gop # "define") \in BOOLEAN
    BY Zenon, SMTT(30)
  <2>4. /\ Lists(refs', Passed \cup {Here}, gop # "define")
        /\ refs' # <<>> /\ refs'[1] = IF refs = <<>> THEN Here ELSE refs[1]
    BY <1>1, <2>1, <2>2, <2>3, ListedTakes, ZenonT(30)
  <2>5. Passed' = Passed
    <3>1. \A a : a \in Passed' <=> a \in Places /\ ~Earlier(a, refs'[1]) /\ Earlier(a, Here)
      BY <1>2, <2>1, <2>4 DEF Passed, Earlier
    <3>2. \A a : a \in Passed <=> a \in Places /\ refs # <<>> /\ ~Earlier(a, refs[1]) /\ Earlier(a, Here)
      BY Zenon, SMTT(30) DEF Passed
    <3> QED BY <2>4, <3>1, <3>2, Zenon
  <2>6. Lists(refs, Passed \cup {Here}, gop # "define")'
    BY <1>1, <1>2, <2>1, <2>4, <2>5 DEF Lists, Earlier
  <2>7. Walking'
    BY <1>1, <1>2, <2>1, <2>2, <2>4, <2>5, <2>6 DEF Walking
  <2>8. refs' \in Seq(Places')
    BY <1>2, <2>4 DEF Lists
  <2> QED BY <1>1, <1>2, <1>5, <1>6, <2>1, <2>7, <2>8, NotYet, ZenonT(30) DEF GcideInv, LookInv
<1> QED BY <1>7, <1>8

\* gcide_iterator_next: the place it moves to is the next one.
LEMMA NextPlace ==
    ASSUME PagesInv, NEW n, NEW j, <<n, j>> \in Places, NEW m, NEW k,
           m = IF j < Len(Refs(n)) - 1 THEN n ELSE n + 1,
           k = IF j < Len(Refs(n)) - 1 THEN j + 1 ELSE 0
    PROVE  /\ n \in Nat /\ j \in Nat /\ m \in Nat /\ k \in Nat
           /\ m < NumPages => <<m, k>> \in Places
           /\ \A a \in Places : Earlier(a, <<m, k>>) <=> a = <<n, j>> \/ Earlier(a, <<n, j>>)
           /\ m >= NumPages => \A a \in Places : a = <<n, j>> \/ Earlier(a, <<n, j>>)
<1>1. NumPages \in Nat /\ \A i \in 0 .. NumPages - 1 : Len(Refs(i)) \in Nat \ {0}
  BY DEF PagesInv
<1>2. n \in 0 .. NumPages - 1 /\ j \in 0 .. Len(Refs(n)) - 1
  BY PlaceIs
<1>3. PICK c \in Nat \ {0} : c = Len(Refs(n))
  BY <1>1, <1>2
<1>4. n \in Nat /\ j \in Nat /\ j <= c - 1 /\ m \in Nat /\ k \in Nat
  BY <1>1, <1>2, <1>3
<1>5. m < NumPages => <<m, k>> \in Places
  <2>1. m < NumPages => m \in 0 .. NumPages - 1 /\ k \in 0 .. Len(Refs(m)) - 1
    BY <1>1, <1>2, <1>3, <1>4
  <2> QED BY <1>1, <2>1, IsPlace
<1>6. ASSUME NEW a \in Places
      PROVE  /\ Earlier(a, <<m, k>>) <=> a = <<n, j>> \/ Earlier(a, <<n, j>>)
             /\ m >= NumPages => a = <<n, j>> \/ Earlier(a, <<n, j>>)
  <2>1. a = <<a[1], a[2]>> /\ a[1] \in 0 .. NumPages - 1 /\ a[2] \in 0 .. Len(Refs(a[1])) - 1
    BY PlaceIs
  <2>2. PICK x : x = a[1]
    OBVIOUS
  <2>3. PICK y : y = a[2]
    OBVIOUS
  <2>4. x \in Nat /\ x <= NumPages - 1 /\ y \in Nat /\ (x = n => y <= c - 1)
    BY <1>1, <1>3, <2>1, <2>2, <2>3
  <2>5. Earlier(a, <<m, k>>) <=> x < m \/ (x = m /\ y < k)
    BY <2>2, <2>3 DEF Earlier
  <2>6. Earlier(a, <<n, j>>) <=> x < n \/ (x = n /\ y < j)
    BY <2>2, <2>3 DEF Earlier
  <2>7. a = <<n, j>> <=> x = n /\ y = j
    BY <2>1, <2>2, <2>3
  <2>8. x < m \/ (x = m /\ y < k) <=> (x = n /\ y = j) \/ x < n \/ (x = n /\ y < j)
    BY <1>3, <1>4, <2>4
  <2>9. m >= NumPages => (x = n /\ y = j) \/ x < n \/ (x = n /\ y < j)
    BY <1>1, <1>2, <1>3, <1>4, <2>4, SMTT(30)
  <2> QED BY <2>5, <2>6, <2>7, <2>8, <2>9
<1> QED BY <1>4, <1>5, <1>6

\* A list of the places to be found is all that the result promises.
LEMMA ListsComplete ==
    ASSUME UNCHANGED <<pages, gop, gkey, refs>>, gpc' = "done", NEW D,
           whole' /\ Searchable(gop, gkey) =>
             /\ refs # <<>> /\ Lists(refs, D, gop # "define") /\ D \subseteq Hits
             /\ \A a \in Hits : (gop \in Located => ~Earlier(a, refs[1])) => a \in D,
           \A a \in Hits : gop \in Located => (a \in D => ~Earlier(a, refs[1]))
    PROVE  WalkExact'
<1> SUFFICES ASSUME whole', Searchable(gop, gkey)
             PROVE  WalkExact'
  BY LookKept DEF WalkExact
<1> DEFINE found == {refs[i] : i \in DOMAIN refs}
           behind == {a \in Hits : gop \in Located => ~Earlier(a, refs[1])}
<1>1. Lists(refs, D, gop # "define") /\ D \subseteq Hits /\ refs # <<>>
  OBVIOUS
<1>2. behind = D
  OBVIOUS
<1>3. found \subseteq Hits
  BY <1>1 DEF Lists
<1>4. gop = "define" => found = behind
  BY <1>1, <1>2 DEF Lists
<1>5. gop # "define" => \A a \in behind : \E i \in DOMAIN refs : utf8_strcasecmp(Headword(refs[i]), Headword(a)) = 0
  BY <1>1, <1>2 DEF Lists
<1>6. gop # "define" => \A i, j \in DOMAIN refs : i < j => utf8_strcasecmp(Headword(refs[i]), Headword(refs[j])) < 0
  BY <1>1 DEF Lists
<1>7. \A i, j \in DOMAIN refs : i < j => Earlier(refs[i], refs[j])
  BY <1>1 DEF Lists
<1>8. Hits' = Hits /\ \A a : Headword(a)' = Headword(a)
  BY PagesKept, LookKept
<1>9. found' = found /\ behind' = behind
  BY <1>8 DEF Earlier
<1> HIDE DEF found, behind
<1> QED BY <1>1, <1>3, <1>4, <1>5, <1>6, <1>7, <1>8, <1>9, ZenonT(30) DEF WalkExact, found, behind, Located, Earlier

\* gcide_iterator_next.
LEMMA IteratorNextKeeps ==
    ASSUME Bounds, WordOrder, GcideInv, iterator_next
    PROVE  GcideInv'
<1>1. /\ PagesInv /\ CacheInv /\ Walking /\ gpc = "next" /\ gop \in Located /\ gkey \in Key
      /\ pageno \in 0 .. NumPages /\ buf \in 0 .. Len(cache) /\ refs \in Seq(Places)
      /\ UNCHANGED <<pages, gop, gkey, l, u, buf, refs>>
  BY DEF GcideInv, LookInv, iterator_next
<1>2. /\ NumPages' = NumPages /\ Places' = Places /\ PagesInv'
      /\ \A a : Headword(a)' = Headword(a)
  BY <1>1, PagesKept
<1>3. PICK no : no = IF refno < Len(Refs(pageno)) - 1 THEN pageno ELSE pageno + 1
  OBVIOUS
<1>4. PICK ref : ref = IF refno < Len(Refs(pageno)) - 1 THEN refno + 1 ELSE 0
  OBVIOUS
<1>5. PICK g \in idx_get_page(no) :
        /\ Take(g)
        /\ IF g.ok /\ Compare(gop, gkey, PageIn(g)[ref + 1]) = 0
           THEN gpc' = "append" /\ pageno' = no /\ refno' = ref
           ELSE gpc' = "done" /\ UNCHANGED <<pageno, refno>>
  BY <1>3, <1>4 DEF iterator_next
<1> DEFINE D == Passed \cup {Here}
<1>6. /\ Here \in Places /\ refs # <<>> /\ Lists(refs, D, gop # "define") /\ D \subseteq Places
      /\ \A a \in D : Compare(gop, gkey, Headword(a)) = 0
  BY <1>1 DEF Walking, Passed
<1>7. /\ no \in Nat /\ ref \in Nat
      /\ no < NumPages => <<no, ref>> \in Places
      /\ \A a \in Places : Earlier(a, <<no, ref>>) <=> a = Here \/ Earlier(a, Here)
      /\ no >= NumPages => \A a \in Places : a = Here \/ Earlier(a, Here)
  BY <1>1, <1>3, <1>4, <1>6, NextPlace, Zenon DEF Here
<1>8. /\ CacheInv' /\ Len(cache) \in Nat /\ Len(cache') \in Nat /\ Len(cache) <= Len(cache')
      /\ g.ok => no \in 0 .. NumPages - 1 /\ PageIn(g) = Refs(no)
      /\ ~g.ok => ~whole' \/ no >= NumPages
  BY <1>1, <1>5, <1>7, Taken, Zenon
<1>9. NumPages \in Nat /\ buf' \in 0 .. Len(cache') /\ refs' \in Seq(Places')
  BY <1>1, <1>2, <1>8 DEF PagesInv
<1>10. g.ok => <<no, ref>> \in Places /\ PageIn(g)[ref + 1] = Headword(<<no, ref>>)
  BY <1>7, <1>8, <1>9 DEF Headword
<1>11. ~Earlier(Here, refs[1])
  <2>1. 1 \in DOMAIN refs
    BY <1>1, <1>6
  <2>2. refs[1] \in D
    BY <1>6, <2>1 DEF Lists
  <2> QED BY <1>1, <1>6, <2>2, PlaceOrder DEF Passed
<1>12. \A a : a \in D <=> a \in Places /\ ~Earlier(a, refs[1]) /\ (a = Here \/ Earlier(a, Here))
  BY <1>6, <1>11 DEF Passed
<1>13. CASE g.ok /\ Compare(gop, gkey, Headword(<<no, ref>>)) = 0
  <2>1. gpc' = "append" /\ pageno' = no /\ refno' = ref /\ Here' = <<no, ref>>
    BY <1>5, <1>10, <1>13 DEF Here
  <2>2. Passed' = D
    <3>1. \A a : a \in Passed' <=> a \in Places /\ ~Earlier(a, refs[1]) /\ Earlier(a, <<no, ref>>)
      BY <1>1, <1>2, <1>6, <2>1, Zenon, SMTT(30) DEF Passed, Earlier
    <3> QED BY <1>7, <1>12, <3>1, Zenon, SMTT(30)
  <2> HIDE DEF D
  <2>3. Lists(refs, Passed, gop # "define")'
    BY <1>1, <1>2, <1>6, <2>2, SMTT(30), ZenonT(30) DEF Lists, Earlier
  <2>4. Walking'
    BY <1>1, <1>2, <1>6, <1>10, <1>13, <2>1, <2>2, <2>3, Zenon DEF Walking
  <2>5. pageno' \in 0 .. NumPages'
    BY <1>2, <1>8, <1>9, <1>13, <2>1
  <2> QED BY <1>1, <1>2, <1>8, <1>9, <2>1, <2>4, <2>5, NotYet DEF GcideInv, LookInv
<1>14. CASE ~(g.ok /\ Compare(gop, gkey, Headword(<<no, ref>>)) = 0)
  <2>1. gpc' = "done" /\ UNCHANGED <<pageno, refno>>
    BY <1>5, <1>10, <1>14
  <2>2. ASSUME whole', Searchable(gop, gkey), NEW a \in Hits
        PROVE  a = Here \/ Earlier(a, Here)
    <3>1. a \in Places
      BY DEF Hits
    <3>2. CASE ~g.ok
      BY <1>7, <1>8, <2>2, <3>1, <3>2
    <3>3. CASE g.ok
      <4> DEFINE C == Compare(gop, gkey, Headword(<<no, ref>>))
      <4>1. /\ C \in {-1, 0, 1} /\ C # 0
            /\ C < 0 => \A b \in Hits : Earlier(b, <<no, ref>>)
            /\ C > 0 => \A b \in Hits : Earlier(<<no, ref>>, b)
        BY <1>1, <1>10, <1>14, <2>2, <3>3, HitsAround
      <4>2. Here \in Hits
        BY <1>1, <1>6, <2>2, HitsAround, Zenon, SMTT(30)
      <4>3. Earlier(Here, <<no, ref>>) /\ ~Earlier(<<no, ref>>, Here)
        BY <1>1, <1>6, <1>7, <1>10, <3>3, PlaceOrder
      <4>4. C < 0
        <5> HIDE DEF C
        <5> QED BY <4>1, <4>2, <4>3
      <4> QED BY <1>7, <3>1, <4>1, <4>4
    <3> QED BY <3>2, <3>3
  <2>3. whole' /\ Searchable(gop, gkey) => D \subseteq Hits
    BY <1>1, <1>6, HitsAround, Zenon, SMTT(30)
  <2>4. whole' /\ Searchable(gop, gkey) =>
          \A a \in Hits : (gop \in Located => ~Earlier(a, refs[1])) => a \in D
    BY <1>1, <1>12, <2>2 DEF Hits
  <2>5. \A a \in Hits : gop \in Located => (a \in D => ~Earlier(a, refs[1]))
    BY <1>12
  <2> HIDE DEF D
  <2>6. PICK E : E = D
    OBVIOUS
  <2>7. WalkExact'
    BY <1>1, <1>6, <2>1, <2>3, <2>4, <2>5, <2>6, ListsComplete
  <2> QED BY <1>1, <1>2, <1>8, <1>9, <2>1, <2>7, Ended
<1> QED BY <1>13, <1>14

\* gcide_idx_enumerate.
LEMMA EnumerateKeeps ==
    ASSUME Bounds, WordOrder, GcideInv, idx_enumerate
    PROVE  GcideInv'
<1> DEFINE D == {a \in Hits : a[1] < pageno}
<1>1. /\ PagesInv /\ CacheInv /\ gpc = "enum" /\ gop \in Selected
      /\ pageno \in 0 .. NumPages /\ buf \in 0 .. Len(cache) /\ refs \in Seq(Places)
      /\ UNCHANGED <<pages, gop, gkey, l, u, refno, buf>>
      /\ Lists(refs, D, TRUE)
  BY Zenon DEF GcideInv, LookInv, idx_enumerate, Enumerating
<1>2. /\ NumPages' = NumPages /\ Places' = Places /\ PagesInv' /\ Buffer' = Buffer
      /\ Hits' = Hits /\ \A a : Headword(a)' = Headword(a)
  BY <1>1, PagesKept, LookKept
<1>3. NumPages \in Nat /\ pageno \in Nat /\ (gop # "define") = TRUE /\ gop \notin Located
  BY <1>1 DEF PagesInv, Selected, Located
<1>4. \A a \in Hits : a \in Places /\ a[1] \in Int /\ a[1] < NumPages
  <2> SUFFICES ASSUME NEW a \in Hits PROVE a \in Places /\ a[1] \in Int /\ a[1] < NumPages
    OBVIOUS
  <2>1. a \in Places
    BY DEF Hits
  <2>2. a[1] \in 0 .. NumPages - 1
    BY <2>1, PlaceIs
  <2> QED BY <1>3, <2>1, <2>2
<1>5. PICK E : E = D
  BY Zenon
<1>6. CASE pageno = NumPages
  <2>1. /\ gpc' = (IF refs = <<>> THEN "none" ELSE "done")
        /\ UNCHANGED <<cache, pageno, refs, failed, whole>>
    BY <1>6 DEF idx_enumerate
  <2>2. CacheInv' /\ pageno' \in 0 .. NumPages' /\ buf' \in 0 .. Len(cache') /\ refs' \in Seq(Places')
    BY <1>1, <1>2, <2>1 DEF CacheInv
  <2>3. D = Hits
    BY <1>4, <1>6
  <2>4. refs = <<>> => D = {}
    BY <1>1 DEF Lists
  <2>5. CASE refs = <<>>
    BY <1>1, <1>2, <2>1, <2>2, <2>3, <2>4, <2>5, NotFound, Ended
  <2>6. CASE refs # <<>>
    <3> HIDE DEF D
    <3>1. WalkExact'
      BY <1>1, <1>3, <1>5, <2>1, <2>3, <2>6, ListsComplete, ZenonT(30)
    <3> QED BY <1>2, <2>1, <2>2, <2>6, <3>1, Ended
  <2> QED BY <2>5, <2>6
<1>7. CASE pageno # NumPages
  <2>0. pageno \in 0 .. NumPages - 1
    BY <1>1, <1>3, <1>7
  <2>1. PICK g \in idx_get_page(pageno) :
          /\ Take(g)
          /\ IF ~g.ok THEN gpc' = (IF refs = <<>> THEN "none" ELSE "done") /\ UNCHANGED <<pageno, refs>>
             ELSE IF gop = "named" THEN gpc' = "crashed" /\ UNCHANGED <<pageno, refs>>
             ELSE /\ refs' = AddMatches(refs, g.cache[g.at].page)
                  /\ pageno' = pageno + 1 /\ UNCHANGED gpc
    BY <1>7 DEF idx_enumerate
  <2>2. /\ CacheInv' /\ Len(cache) \in Nat /\ Len(cache') \in Nat /\ Len(cache) <= Len(cache')
        /\ g.ok => cache'[g.at].page = pageno
        /\ ~g.ok => ~whole' \/ pageno >= NumPages
    BY <1>1, <1>3, <2>1, Taken, Zenon, SMTT(30)
  <2>3. buf' \in 0 .. Len(cache')
    BY <1>1, <2>2, SMTT(30)
  <2>4. CASE ~g.ok
    <3>0. ~(pageno >= NumPages)
      BY <1>3, <2>0
    <3>1. ~whole' /\ gpc' \in {"none", "done"} /\ UNCHANGED <<pageno, refs>>
      BY <2>1, <2>2, <2>4, <3>0, Zenon, SMTT(30)
    <3> QED BY <1>1, <1>2, <2>2, <2>3, <3>1, NotYet, Ended, ZenonT(30)
  <2>5. CASE g.ok /\ gop = "named"
    <3>1. gpc' = "crashed" /\ UNCHANGED <<pageno, refs>>
      BY <2>1, <2>5, Zenon, SMTT(30)
    <3> QED BY <1>1, <1>2, <2>2, <2>3, <3>1, NotYet, Ended
  <2>6. CASE g.ok /\ gop # "named"
    <3>1. refs' = AddMatches(refs, pageno) /\ pageno' = pageno + 1 /\ gpc' = "enum"
      BY <1>1, <2>1, <2>2, <2>6, Zenon DEF Take
    <3>2. D \in SUBSET Places /\ \A a \in D : a[1] < pageno
      BY <1>4
    <3> DEFINE M == {a \in Places : a[1] = pageno /\ key_match(gop, gkey, Headword(a))}
    <3>3. Lists(AddMatches(refs, pageno), D \cup M, TRUE)
      BY <1>1, <2>0, <3>2, AddsPage, Zenon
    <3>4. \A a \in Places : a \in Hits <=> key_match(gop, gkey, Headword(a))
      BY <1>3 DEF Hits, Hit, Located
    <3>5. D \cup M = {a \in Hits : a[1] < pageno + 1}
      BY <1>3, <1>4, <3>4
    <3>6. PICK F : F = {a \in Hits : a[1] < pageno + 1}
      BY Zenon
    <3>7. {a \in Hits : a[1] < pageno}' = F
      BY <1>2, <3>1, <3>6
    <3>8. Lists(refs', F, TRUE)
      BY <3>1, <3>3, <3>5, <3>6, Zenon
    <3>9. Enumerating'
      BY <1>2, <3>7, <3>8, Zenon DEF Enumerating, Lists, Earlier
    <3>10. refs' \in Seq(Places') /\ pageno' \in 0 .. NumPages'
      BY <1>2, <1>3, <2>0, <3>1, <3>8 DEF Lists
    <3> QED BY <1>1, <1>2, <2>2, <2>3, <3>1, <3>9, <3>10, NotYet, Zenon, SMTT(30) DEF GcideInv, LookInv
  <2> QED BY <2>4, <2>5, <2>6
<1> QED BY <1>6, <1>7

\* gcide_match and gcide_define.
LEMMA BeginKeeps ==
    ASSUME GcideInv, NEW o \in Located \cup Selected, NEW k \in Key, gcide_begin(o, k)
    PROVE  GcideInv'
<1>1. /\ PagesInv /\ CacheInv /\ gpc = "idle" /\ pageno = 0 /\ refs = <<>> /\ refs \in Seq(Places)
      /\ pageno \in 0 .. NumPages /\ buf \in 0 .. Len(cache)
      /\ gop' = o /\ gkey' = k /\ gpc' = (IF o \in Located THEN "page" ELSE "enum")
      /\ l' = 0 /\ u' = NumPages
      /\ UNCHANGED <<pages, cache, pageno, refno, buf, refs, failed, whole>>
  BY DEF GcideInv, LookInv, gcide_begin, Located
<1>2. /\ NumPages' = NumPages /\ Places' = Places /\ PagesInv' /\ Buffer' = Buffer
  BY <1>1, PagesKept
<1>3. CacheInv' /\ pageno' \in 0 .. NumPages' /\ buf' \in 0 .. Len(cache') /\ refs' \in Seq(Places')
  BY <1>1, <1>2 DEF CacheInv
<1>4. NumPages \in Nat
  BY <1>1 DEF PagesInv
<1>5. \A a \in Hits' : a[1] \in 0 .. NumPages - 1
  <2> SUFFICES ASSUME NEW a \in Places PROVE a[1] \in 0 .. NumPages - 1
    BY <1>2 DEF Hits
  <2> QED BY PlaceIs
<1>6. CASE o \in Located
  <2>1. PageSought'
    BY <1>1, <1>2, <1>4, <1>5 DEF PageSought
  <2> QED BY <1>1, <1>2, <1>3, <1>6, <2>1, NotYet DEF GcideInv, LookInv
<1>7. CASE o \notin Located
  <2>1. {a \in Hits : a[1] < pageno}' = {}
    BY <1>1, <1>4, <1>5
  <2>2. DOMAIN refs' = {}
    BY <1>1, SMTT(30)
  <2>3. Enumerating'
    BY <1>3, <2>1, <2>2 DEF Enumerating, Lists
  <2> QED BY <1>1, <1>2, <1>3, <1>7, <2>3, NotYet DEF GcideInv, LookInv
<1> QED BY <1>6, <1>7

\* gcide_free_result, and the next session.
LEMMA ResetKeeps ==
    ASSUME Bounds, GcideInv, gcide_free_result \/ gcide_reopen
    PROVE  GcideInv'
<1>1. /\ PagesInv /\ CacheInv
      /\ gpc' = "idle" /\ pageno' = 0 /\ buf' = 0 /\ refs' = <<>> /\ UNCHANGED pages
      /\ UNCHANGED <<cache, failed>> \/ (cache' = <<>> /\ failed' = 0)
  BY DEF GcideInv, gcide_free_result, gcide_reopen, Reset
<1>2. /\ NumPages' = NumPages /\ Places' = Places /\ PagesInv' /\ Buffer' = Buffer
  BY <1>1, PagesKept
<1>3. CacheInv' /\ Len(cache') \in Nat
  <2>1. CASE UNCHANGED <<cache, failed>>
    BY <1>1, <1>2, <2>1 DEF CacheInv
  <2>2. CASE cache' = <<>> /\ failed' = 0
    <3>1. cache' \in Seq(Buffer') /\ Len(cache') = 0
      BY <2>2
    <3> QED BY <2>2, <3>1 DEF CacheInv, Bounds
  <2> QED BY <1>1, <2>1, <2>2
<1>4. pageno' \in 0 .. NumPages' /\ buf' \in 0 .. Len(cache') /\ refs' \in Seq(Places')
  BY <1>1, <1>2, <1>3 DEF PagesInv
<1> QED BY <1>1, <1>2, <1>3, <1>4, NotYet DEF GcideInv, LookInv

\* The invariant is about the variables of gcide alone.
LEMMA GcideKept ==
    ASSUME GcideInv,
           UNCHANGED <<pages, cache, gpc, gop, gkey, l, u, pageno, refno, buf, refs, failed, whole>>
    PROVE  GcideInv'
<1>1. /\ NumPages' = NumPages /\ Places' = Places /\ Buffer' = Buffer /\ PagesInv'
      /\ Hits' = Hits /\ (Searchable(gop, gkey)' <=> Searchable(gop, gkey))
      /\ \A n : Refs(n)' = Refs(n)
      /\ \A a : Headword(a)' = Headword(a)
  BY PagesKept, LookKept DEF GcideInv
<1>2. Passed' = Passed /\ Here' = Here
  BY <1>1, Zenon, SMTT(30) DEF Passed, Here, Earlier
<1>3. CacheInv' /\ WalkExact'
  BY <1>1, Zenon, SMTT(30) DEF GcideInv, CacheInv, WalkExact
<1>4. /\ PageSought' = PageSought /\ PageFound' = PageFound
      /\ RefSought' = RefSought /\ Enumerating' = Enumerating
  BY <1>1, ZenonT(30) DEF PageSought, PageFound, RefSought, Enumerating, Lists
<1>5. Walking' = Walking
  BY <1>1, <1>2, Zenon DEF Walking, Lists
<1> QED BY <1>1, <1>3, <1>4, <1>5 DEF GcideInv, LookInv

\* The words an index was made of stay where they are.
Held(words) == \A i \in 1 .. Len(words) : \E a \in Places : Headword(a) = words[i]

\* The database that idxgcide has indexed is opened.
LEMMA OpenHolds ==
    ASSUME Bounds, NEW words \in Seq(Word), NEW size \in Nat \ {0},
           \A i, j \in 1 .. Len(words) : i < j => utf8_strcasecmp(words[i], words[j]) <= 0,
           gcide_open(words, size)
    PROVE  /\ GcideInv
           /\ Held(words)
<1>1. /\ pages = idxgcide(words, size) /\ cache = <<>> /\ gpc = "idle" /\ pageno = 0
      /\ buf = 0 /\ refs = <<>> /\ failed = 0
  BY DEF gcide_open
<1>2. PagesInv /\ \A i \in 1 .. Len(words) : \E a \in Places : Headword(a) = words[i]
  BY <1>1, PagesMade
<1>3. CacheInv
  BY <1>1 DEF CacheInv, Bounds
<1>4. WalkExact
  BY <1>1 DEF WalkExact
<1>5. pageno \in 0 .. NumPages /\ buf \in 0 .. Len(cache) /\ refs \in Seq(Places)
  BY <1>1, <1>2 DEF PagesInv
<1> QED BY <1>1, <1>2, <1>3, <1>4, <1>5 DEF GcideInv, LookInv, Held

\* A step of the look-up, whichever it is.
LEMMA StepKeeps ==
    ASSUME Bounds, WordOrder, GcideInv, GcideStep
    PROVE  GcideInv'
BY PageLocateKeeps, FetchKeeps, RefLocateKeeps, IteratorRefKeeps, IteratorNextKeeps, EnumerateKeeps, Zenon, SMTT(30)
   DEF GcideStep

\* What the steps of a look-up leave alone.
LEMMA StepLeaves ==
    /\ GcideStep => UNCHANGED <<pages, gop, gkey>>
    /\ \A o, k : gcide_begin(o, k) => gop' = o /\ gkey' = k /\ UNCHANGED pages
    /\ gcide_free_result \/ gcide_reopen => gpc' = "idle" /\ UNCHANGED pages
BY Zenon DEF GcideStep, idx_page_locate, idx_fetch, idx_ref_locate, iterator_ref, iterator_next,
       idx_enumerate, gcide_begin, gcide_free_result, gcide_reopen, Reset


LEMMA HeldKept == ASSUME NEW words, Held(words), UNCHANGED pages PROVE Held(words)'
BY PagesKept DEF Held

\* Nothing is found only where none of these words matches.
LEMMA NoneHeld ==
    ASSUME GcideInv, NEW words, Held(words), gpc \in {"done", "none"}, refs = <<>>, whole,
           Searchable(gop, gkey)
    PROVE  \A i \in 1 .. Len(words) : ~Hit(gop, gkey, words[i])
<1>1. Hits = {}
  BY DEF GcideInv, WalkExact
<1> QED BY <1>1 DEF Held, Hits
=============================================================================
