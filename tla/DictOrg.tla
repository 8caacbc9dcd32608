------------------------------- MODULE DictOrg -------------------------------
(* Look-ups in the index of a dict.org database, modules/dict.org/dictorg.c. *)
(* The index is sorted by compare_entry.  The steps are the comparisons of   *)
(* bsearch and of the walks to both sides of what it finds.                  *)
EXTENDS Words, Functions, Filters

CONSTANTS
    MaxIndex,         \* bound: db->numwords
    Sel(_, _)         \* what the selector of a strategy matches (key, word)

ASSUME DictOrgAssumption == MaxIndex \in Nat

VARIABLES
    index,            \* db->index
    show,             \* show_dictorg_entries
    pc, op, key,      \* the look-up
    arr,              \* the array it searches: places in index
    cmp,              \* the comparison of the key with the entries of arr
    lo, hi,           \* what bsearch has left to search
    ep, p, q,         \* what it found, and the ends of the walks
    list              \* the result, places in index

vars == <<index, show, pc, op, key, arr, cmp, lo, hi, ep, p, q, list>>
-----------------------------------------------------------------------------
(* Comparing entries.                                                      *)

revert_word(w) == [i \in 1 .. Len(w) |-> w[Len(w) + 1 - i]]

compare_entry(a, b) == utf8_strcasecmp(a, b)

compare_rev_entry(a, b) == utf8_strcasecmp(revert_word(a), revert_word(b))

\* An entry shorter than the key counts as one that comes after it
compare_prefix(k, e) == IF Len(e) < Len(k) THEN -1 ELSE utf8_strncasecmp(k, e, Len(k))

\* Of an entry shorter than the key only so much of the key is compared
compare_rev_prefix(k, e) ==
    utf8_strncasecmp(revert_word(k), revert_word(e), IF Len(e) < Len(k) THEN Len(e) ELSE Len(k))

Compare(o, k, e) ==
    IF o = "prefix" THEN compare_prefix(k, e)
    ELSE IF o = "suffix" THEN compare_rev_prefix(k, e)
    ELSE compare_entry(k, e)
-----------------------------------------------------------------------------
N == Len(index)
Slots == 0 .. N - 1

\* The letter the names of the database's own entries begin with
ReservedChar == 2

\* Unlike the comparisons it tells upper from lower case
RESERVED_WORD(w) == ~show /\ w # <<>> /\ w[1] = ReservedChar

\* The orders in which qsort may leave an array of n places, those of S
Sorted(n, S, Cmp(_, _)) ==
    {f \in Bijection(0 .. n - 1, S) :
       \A i, j \in 0 .. n - 1 : i < j => Cmp(index[f[i]], index[f[j]]) <= 0}

\* An index as mod_init_db leaves it
IndexSorted == \A i, j \in 1 .. N : i < j => compare_entry(index[i], index[j]) <= 0

Init ==
    /\ \E n \in 0 .. MaxIndex : index \in [1 .. n -> Word]
    /\ IndexSorted
    /\ show \in BOOLEAN
    /\ pc = "idle" /\ op = "none" /\ key = <<>> /\ arr = <<>> /\ cmp = <<>>
    /\ lo = 0 /\ hi = 0 /\ ep = 0 /\ p = 0 /\ q = 0 /\ list = <<>>

\* The places by their words reverted
init_suffix_index == Sorted(N, 1 .. N, compare_rev_entry)

Begin(o, k) ==
    /\ pc = "idle"
    /\ op' = o /\ key' = k
    /\ UNCHANGED <<index, show, ep, p, q>>

\* mod_match and mod_define refuse a reserved word; mod_info and mod_descr look
\* for one ("entry").
Search(o, k) ==
    /\ Begin(o, k)
    /\ o = "entry" \/ ~RESERVED_WORD(k)
    /\ IF o = "suffix" THEN arr' \in init_suffix_index
                       ELSE arr' = [i \in Slots |-> i + 1]
    /\ cmp' = [i \in Slots |-> Compare(o, k, index[arr'[i]])]
    /\ lo' = 0 /\ hi' = N
    /\ pc' = "bsearch"
    /\ UNCHANGED list

\* mod_match finds nothing for a strategy that has neither a matcher nor a
\* selector ("named"), as a Python or Guile module may register
Refuse(o, k) ==
    /\ Begin(o, k)
    /\ o = "named" \/ (o # "entry" /\ RESERVED_WORD(k))
    /\ pc' = "none"
    /\ UNCHANGED <<arr, cmp, lo, hi, list>>

BsearchWith(skip) ==
    /\ pc = "bsearch"
    /\ LET mid == (lo + hi) \div 2
       IN  IF lo >= hi
           THEN pc' = "none" /\ UNCHANGED <<lo, hi, ep, p, list>>
           ELSE \/ cmp[mid] < 0 /\ hi' = mid /\ UNCHANGED <<pc, lo, ep, p, list>>
                \/ cmp[mid] > 0 /\ lo' = mid + skip /\ UNCHANGED <<pc, hi, ep, p, list>>
                \/ /\ cmp[mid] = 0 /\ ep' = mid /\ p' = mid - 1
                   /\ pc' = IF op = "entry" THEN "done" ELSE "back"
                   /\ list' = IF op = "entry" THEN <<arr[mid]>> ELSE <<>>
                   /\ UNCHANGED <<lo, hi>>
    /\ UNCHANGED <<index, show, op, key, arr, cmp, q>>

\* Wrong on purpose: the entry just compared is searched again
BsearchStep_stay == BsearchWith(0)

\* bsearch of the C library: a comparison, or the end
BsearchStep == BsearchWith(1)

BackTo(first) ==
    /\ pc = "back"
    /\ IF p > first /\ cmp[p] = 0
       THEN p' = p - 1 /\ UNCHANGED <<pc, q>>
       ELSE pc' = "forward" /\ q' = ep + 1 /\ UNCHANGED p
    /\ UNCHANGED <<index, show, op, key, arr, cmp, lo, hi, ep, list>>

\* Wrong on purpose: the walk stops one entry early
WalkBack_early == BackTo(1)

\* The first entry of the array is not looked at
WalkBack == BackTo(0)

WalkForward ==
    /\ pc = "forward"
    /\ IF q < N /\ cmp[q] = 0
       THEN q' = q + 1 /\ UNCHANGED pc
       ELSE pc' = "collect" /\ UNCHANGED q
    /\ UNCHANGED <<index, show, op, key, arr, cmp, lo, hi, ep, p, list>>

\* A list that compares with its tail takes no entry equal to it; being equal is
\* transitive, so that the tail is equal to the entry offered last
Appended(s, unique) ==
    LET fresh == {i \in 1 .. Len(s) : i = 1 \/ compare_entry(index[s[i - 1]], index[s[i]]) # 0}
    IN  IF unique THEN Filter(s, {s[i] : i \in fresh}) ELSE s

\* Wrong on purpose: the entries that are found are all kept
Kept_all(s) == s

Kept(s) == Filter(s, {i \in 1 .. N : ~RESERVED_WORD(index[i])})

Result(unique) ==
    LET range == [i \in 1 .. q - p - 1 |-> arr[p + i]]
        kept == Kept(range)
        places == {kept[i] : i \in DOMAIN kept}
    IN  IF op = "suffix"
        THEN {Appended([i \in 1 .. Len(kept) |-> f[i - 1]], unique) :
                f \in Sorted(Len(kept), places, compare_entry)}
        ELSE {Appended(kept, unique)}

CollectWith(unique) ==
    /\ pc = "collect"
    /\ list' \in Result(unique)
    /\ pc' = "done"
    /\ UNCHANGED <<index, show, op, key, arr, cmp, lo, hi, ep, p, q>>

\* Wrong on purpose: no list compares with its tail
Collect_all == CollectWith(FALSE)

\* Entries that are not reserved; once each, for a match
Collect == CollectWith(op # "define")

\* _match_all: every entry the selector accepts
MatchAll(k) ==
    /\ Begin("select", k)
    /\ ~RESERVED_WORD(k)
    /\ LET hit == Filter([i \in 1 .. N |-> i], {i \in 1 .. N : ~RESERVED_WORD(index[i]) /\ Sel(k, index[i])})
       IN  /\ list' = Appended(hit, TRUE)
           /\ pc' = IF hit = <<>> THEN "none" ELSE "done"
    /\ UNCHANGED <<arr, cmp, lo, hi>>

\* The result is written and freed
Free ==
    /\ pc \in {"done", "none"}
    /\ pc' = "idle" /\ op' = "none" /\ key' = <<>> /\ arr' = <<>> /\ cmp' = <<>>
    /\ lo' = 0 /\ hi' = 0 /\ ep' = 0 /\ p' = 0 /\ q' = 0 /\ list' = <<>>
    /\ UNCHANGED <<index, show>>

Op == {"define", "exact", "prefix", "suffix", "entry"}

Step == BsearchStep \/ WalkBack \/ WalkForward \/ Collect

Next ==
    \/ \E k \in Key : \/ \E o \in Op : Search(o, k) \/ Refuse(o, k)
                      \/ MatchAll(k) \/ Refuse("select", k) \/ Refuse("named", k)
    \/ Step
    \/ Free

Spec == Init /\ [][Next]_vars
-----------------------------------------------------------------------------
(* Properties.                                                             *)

\* Where the key is not found in an order the comparison does not agree with: a
\* shorter entry before the matches misleads the search for a prefix, any shorter
\* entry that for a suffix.
Searchable ==
    \/ op \in {"define", "exact", "entry"}
    \/ op = "prefix" /\ \A i \in 1 .. N : Len(index[i]) < Len(key) => compare_entry(key, index[i]) < 0
    \/ op = "suffix" /\ \A i \in 1 .. N : Len(index[i]) >= Len(key)

Matches(w) ==
    IF op = "prefix" THEN Len(w) >= Len(key) /\ SameTo(w, key, Len(key))
    ELSE IF op = "suffix" THEN Len(w) >= Len(key) /\ SameTo(revert_word(w), revert_word(key), Len(key))
    ELSE IF op = "select" THEN Sel(key, w)
    ELSE SameTo(w, key, MaxLen)

\* The state is well formed.
TypeOK ==
    /\ index \in Seq(Word) /\ N <= MaxIndex /\ show \in BOOLEAN
    /\ pc \in {"idle", "bsearch", "back", "forward", "collect", "done", "none"}
    /\ op \in Op \cup {"none", "select", "named"} /\ key \in Key \cup {<<>>}
    /\ lo \in 0 .. N /\ hi \in 0 .. N /\ ep \in 0 .. N /\ p \in -1 .. N /\ q \in 0 .. N
    /\ {list[i] : i \in DOMAIN list} \subseteq 1 .. N

\* When bsearch and the walks to both sides of its find have ended, what lies
\* between them are the entries that match, all of them but for the first entry of
\* the array, which common_match leaves out unless bsearch hit upon it.
RangeExact ==
    Searchable =>
      /\ pc = "collect" =>
           \A i \in Slots : (p < i /\ i < q) <=> Matches(index[arr[i]]) /\ (i = 0 => ep = 0)
      /\ pc = "none" /\ op # "select" /\ (op = "entry" \/ ~RESERVED_WORD(key)) =>
           \A i \in Slots : ~Matches(index[arr[i]])

\* Whatever the index, an exact match, a match of a prefix and a definition are
\* only of words that match, and none is of the database's own entries unless
\* they are shown.
FoundOnly ==
    pc = "done" /\ op \notin {"suffix", "entry"} =>
      \A i \in DOMAIN list : Matches(index[list[i]]) /\ ~RESERVED_WORD(index[list[i]])

\* A match of any strategy lists a word once, although the index may hold it many
\* times and a suffix is looked for in another order.
ListedOnce ==
    pc = "done" /\ op # "define" =>
      \A i, j \in DOMAIN list : i < j => compare_entry(index[list[i]], index[list[j]]) < 0
=============================================================================
