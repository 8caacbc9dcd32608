-------------------------------- MODULE Gcide --------------------------------
(* Look-ups in the paged index of a gcide database, modules/gcide/idx.c and  *)
(* gcide.c: the search for a page, the search in it, the iterator that walks *)
(* on from there, and the buffers that pages are read into.                  *)
EXTENDS Words

CONSTANTS
    CacheSize,        \* index-cache-size
    MaxRead,          \* bound: reads of the index file that fail in a session
    Sel(_, _)         \* what the selector of a strategy matches (key, word)

VARIABLES
    pages,            \* the index file: pages of headwords
    cache,            \* file->cache: the page in a buffer, and refcount
    gpc, gop, gkey,   \* the look-up
    l, u,             \* what a search has left
    pageno, refno,    \* the place found, then that of the iterator
    buf,              \* the buffer a search looks at
    refs,             \* the result: <<page, reference>>
    failed,           \* reads that failed in this session
    whole             \* no read failed in this look-up

NumPages == Len(pages)
Refs(n) == pages[n + 1]
Headword(place) == Refs(place[1])[place[2] + 1]
Garbage == -1
-----------------------------------------------------------------------------
(* The buffers.                                                            *)

SlotOf(room) ==
    IF Len(cache) < room /\ (cache = <<>> \/ cache[Len(cache)].refcount # 0)
    THEN Len(cache) + 1 ELSE Len(cache)

\* Wrong on purpose: the array has one place more
CacheSlot_more == SlotOf(CacheSize + 1)

\* The buffer the next page is read into: a new one while there is room and the
\* last one is used, then always the last one
CacheSlot == SlotOf(CacheSize)

cache_alloc ==
    IF CacheSlot > Len(cache) THEN Append(cache, [page |-> Garbage, refcount |-> 0])
    ELSE [cache EXCEPT ![CacheSlot].refcount = 0]

\* Wrong on purpose: buffers are looked through, for a page number nobody sets
cache_find_page_on(n) == IF n = 0 /\ cache # <<>> THEN 1 ELSE 0

\* It returns before it looks
cache_find_page(n) == 0

\* The outcomes of _idx_get_page: a read past the end of the file gets nothing,
\* any other may fail
idx_get_page(n) ==
    LET hit == cache_find_page(n)
        read == [cache_alloc EXCEPT ![CacheSlot] = [page |-> n, refcount |-> 1]]
        lost == [cache_alloc EXCEPT ![CacheSlot].page = Garbage]
        end == [ok |-> FALSE, at |-> CacheSlot, cache |-> cache_alloc, lost |-> 0]
    IN  IF hit # 0 THEN {[ok |-> TRUE, at |-> hit, cache |-> cache, lost |-> 0]}
        ELSE IF n >= NumPages THEN {end}
        ELSE {[end EXCEPT !.ok = TRUE, !.cache = read]} \cup
             {[end EXCEPT !.cache = lost, !.lost = 1] : i \in 1 .. MaxRead - failed}

\* The page g of the outcomes is taken or known to be lost
Take(g) ==
    /\ cache' = g.cache
    /\ failed' = failed + g.lost
    /\ whole' = (whole /\ g.lost = 0)

PageIn(g) == Refs(g.cache[g.at].page)
-----------------------------------------------------------------------------
(* _compare: hwlen is zero but for a prefix, and is cut to the headword's.  *)
Compare(o, k, e) ==
    IF o = "prefix" /\ k # <<>>
    THEN utf8_strncasecmp(k, e, IF Len(k) > Len(e) THEN Len(e) ELSE Len(k))
    ELSE utf8_strcasecmp(k, e)

\* suffix_sel, for letters of one byte
suffix_sel(k, e) ==
    Len(e) >= Len(k) /\ utf8_strncasecmp(SubSeq(e, Len(e) - Len(k) + 1, Len(e)), k, Len(k)) = 0

key_match(o, k, e) == IF o = "suffix" THEN suffix_sel(k, e) ELSE Sel(k, e)

\* What idxgcide writes: sorted words, size of them on each page but the last
idxgcide(words, size) ==
    [i \in 1 .. (Len(words) + size - 1) \div size |->
       SubSeq(words, (i - 1) * size + 1, IF i * size < Len(words) THEN i * size ELSE Len(words))]

\* The database is opened by a process
gcide_open(words, size) ==
    /\ pages = idxgcide(words, size) /\ cache = <<>> /\ gpc = "idle" /\ gop = "none" /\ gkey = <<>>
    /\ l = 0 /\ u = 0 /\ pageno = 0 /\ refno = 0 /\ buf = 0 /\ refs = <<>> /\ failed = 0 /\ whole = TRUE

\* gcide_match and gcide_define; a strategy without a matcher of its own tries
\* every headword
gcide_begin(o, k) ==
    /\ gpc = "idle"
    /\ gop' = o /\ gkey' = k
    /\ gpc' = IF o \in {"define", "exact", "prefix"} THEN "page" ELSE "enum"
    /\ l' = 0 /\ u' = NumPages
    /\ UNCHANGED <<pages, cache, pageno, refno, buf, refs, failed, whole>>

\* An iteration of _idx_page_locate
idx_page_locate ==
    /\ gpc = "page"
    /\ \/ /\ l >= u
          /\ gpc' = "none"
          /\ UNCHANGED <<cache, l, u, pageno, failed, whole>>
       \/ /\ l < u
          /\ LET idx == (l + u) \div 2
             IN  \E g \in idx_get_page(idx) :
                   /\ Take(g)
                   /\ IF ~g.ok
                      THEN gpc' = "none" /\ UNCHANGED <<l, u, pageno>>
                      ELSE LET page == PageIn(g)
                               first == Compare(gop, gkey, page[1])
                               last == Compare(gop, gkey, page[Len(page)])
                           IN  \/ first < 0 /\ u' = idx /\ UNCHANGED <<gpc, l, pageno>>
                               \/ first > 0 /\ last > 0 /\ l' = idx + 1 /\ UNCHANGED <<gpc, u, pageno>>
                               \/ /\ first = 0 \/ (first > 0 /\ last <= 0)
                                  /\ pageno' = idx /\ gpc' = "fetch" /\ UNCHANGED <<l, u>>
    /\ UNCHANGED <<pages, gop, gkey, refno, buf, refs>>

\* gcide_idx_locate reads the page again
idx_fetch ==
    /\ gpc = "fetch"
    /\ \E g \in idx_get_page(pageno) :
         /\ Take(g)
         /\ IF g.ok THEN gpc' = "ref" /\ buf' = g.at /\ l' = 0 /\ u' = Len(PageIn(g))
                    ELSE gpc' = "none" /\ UNCHANGED <<buf, l, u>>
    /\ UNCHANGED <<pages, gop, gkey, pageno, refno, refs>>

\* An iteration of _idx_ref_locate.  What it finds compares equal, so that the
\* loop of gcide_idx_locate towards the first such reference ends at once.
idx_ref_locate ==
    /\ gpc = "ref"
    /\ LET idx == (l + u) \div 2
           res == Compare(gop, gkey, Headword(<<cache[buf].page, idx>>))
       IN  \/ l >= u /\ gpc' = "none" /\ UNCHANGED <<l, u, refno>>
           \/ l < u /\ res < 0 /\ u' = idx /\ UNCHANGED <<gpc, l, refno>>
           \/ l < u /\ res > 0 /\ l' = idx + 1 /\ UNCHANGED <<gpc, u, refno>>
           \/ l < u /\ res = 0 /\ refno' = idx /\ gpc' = "append" /\ UNCHANGED <<l, u>>
    /\ UNCHANGED <<pages, cache, gop, gkey, pageno, buf, refs, failed, whole>>

\* gcide_result_list_append: a list of matches takes no headword equal to its last
Listed(list, place, unique) ==
    IF unique /\ list # <<>> /\ utf8_strcasecmp(Headword(list[Len(list)]), Headword(place)) = 0
    THEN list ELSE Append(list, place)

\* A reference that cannot be read is NULL, and is copied all the same
iterator_ref ==
    /\ gpc = "append"
    /\ \E g \in idx_get_page(pageno) :
         /\ Take(g)
         /\ IF g.ok THEN /\ refs' = Listed(refs, <<g.cache[g.at].page, refno>>, gop # "define")
                         /\ gpc' = "next"
                    ELSE gpc' = "crashed" /\ UNCHANGED refs
    /\ UNCHANGED <<pages, gop, gkey, l, u, pageno, refno, buf>>

\* gcide_iterator_next; that there is no other page is known from a read that fails
iterator_next ==
    /\ gpc = "next"
    /\ LET stay == refno < Len(Refs(pageno)) - 1
           no == IF stay THEN pageno ELSE pageno + 1
           ref == IF stay THEN refno + 1 ELSE 0
       IN  \E g \in idx_get_page(no) :
             /\ Take(g)
             /\ IF g.ok /\ Compare(gop, gkey, PageIn(g)[ref + 1]) = 0
                THEN gpc' = "append" /\ pageno' = no /\ refno' = ref
                ELSE gpc' = "done" /\ UNCHANGED <<pageno, refno>>
    /\ UNCHANGED <<pages, gop, gkey, l, u, buf, refs>>

\* match_key for each headword of a page
AddMatches(list, n) ==
    LET added[j \in 0 .. Len(Refs(n))] ==
          IF j = 0 THEN list
          ELSE IF key_match(gop, gkey, Headword(<<n, j - 1>>))
               THEN Listed(added[j - 1], <<n, j - 1>>, TRUE) ELSE added[j - 1]
    IN  added[Len(Refs(n))]

\* An iteration of gcide_idx_enumerate; gcide_match_all does not look at what it
\* returns, nor dico_key_match whether the strategy has a selector to call
idx_enumerate ==
    /\ gpc = "enum"
    /\ IF pageno = NumPages
       THEN gpc' = (IF refs = <<>> THEN "none" ELSE "done") /\ UNCHANGED <<cache, pageno, refs, failed, whole>>
       ELSE \E g \in idx_get_page(pageno) :
              /\ Take(g)
              /\ IF ~g.ok THEN gpc' = (IF refs = <<>> THEN "none" ELSE "done") /\ UNCHANGED <<pageno, refs>>
                 ELSE IF gop = "named" THEN gpc' = "crashed" /\ UNCHANGED <<pageno, refs>>
                 ELSE /\ refs' = AddMatches(refs, g.cache[g.at].page)
                      /\ pageno' = pageno + 1 /\ UNCHANGED gpc
    /\ UNCHANGED <<pages, gop, gkey, l, u, refno, buf>>

GcideStep ==
    \/ idx_page_locate \/ idx_fetch \/ idx_ref_locate
    \/ iterator_ref \/ iterator_next \/ idx_enumerate

Reset ==
    /\ gpc' = "idle" /\ gop' = "none" /\ gkey' = <<>> /\ l' = 0 /\ u' = 0
    /\ pageno' = 0 /\ refno' = 0 /\ buf' = 0 /\ refs' = <<>> /\ whole' = TRUE
    /\ UNCHANGED pages

gcide_free_result == gpc \in {"idle", "done", "none"} /\ Reset /\ UNCHANGED <<cache, failed>>

\* The session has ended, perhaps on a NULL pointer; the next is another process
gcide_reopen == gpc \in {"idle", "crashed"} /\ Reset /\ cache' = <<>> /\ failed' = 0
-----------------------------------------------------------------------------
(* Properties.                                                             *)

\* The state is well formed: no more buffers than index-cache-size, and every
\* place in the result is one of the file.
TypeOK ==
    /\ Len(cache) <= CacheSize
    /\ \A i \in DOMAIN cache : cache[i].page \in Garbage .. NumPages - 1 /\ cache[i].refcount \in {0, 1}
    /\ gpc \in {"idle", "page", "fetch", "ref", "append", "next", "enum", "done", "none", "crashed"}
    /\ pageno \in 0 .. NumPages /\ buf \in 0 .. Len(cache) /\ failed \in 0 .. MaxRead
    /\ \A i \in DOMAIN refs : refs[i][1] \in 0 .. NumPages - 1 /\ refs[i][2] \in 0 .. Len(Refs(refs[i][1])) - 1

Places == UNION {{n} \X (0 .. Len(Refs(n)) - 1) : n \in 0 .. NumPages - 1}
Earlier(a, b) == a[1] < b[1] \/ (a[1] = b[1] /\ a[2] < b[2])

\* A headword shorter than the key that agrees with it so far compares equal, in
\* the midst of others that do not
Searchable(o, k) ==
    o # "prefix" \/ \A w \in {Headword(place) : place \in Places} :
                       Len(w) >= Len(k) \/ ~SameTo(w, k, Len(w))

Hit(o, k, w) ==
    IF o = "prefix" /\ k # <<>> THEN Len(w) >= Len(k) /\ SameTo(w, k, Len(k))
    ELSE IF o \in {"define", "exact", "prefix"} THEN SameTo(w, k, MaxLen)
    ELSE key_match(o, k, w)

Hits == {place \in Places : Hit(gop, gkey, Headword(place))}

\* Unless a read failed: a definition has every entry that matches from the one the
\* search came upon to the last, over as many pages as they fill, in their order; a
\* match has each of the headwords of those once; a selector finds all of them; and
\* nothing is found only where nothing matches.
WalkExact ==
    Searchable(gop, gkey) /\ whole =>
      /\ gpc = "none" => Hits = {}
      /\ gpc = "done" =>
           LET found == {refs[i] : i \in DOMAIN refs}
               behind == {place \in Hits : gop \in {"define", "exact", "prefix"} => ~Earlier(place, refs[1])}
           IN  /\ refs # <<>> /\ found \subseteq Hits
               /\ \A i, j \in DOMAIN refs : i < j => Earlier(refs[i], refs[j])
               /\ IF gop = "define" THEN found = behind
                  ELSE \A place \in behind :
                         \E i \in DOMAIN refs : utf8_strcasecmp(Headword(refs[i]), Headword(place)) = 0
               /\ gop # "define" =>
                    \A i, j \in DOMAIN refs : i < j => utf8_strcasecmp(Headword(refs[i]), Headword(refs[j])) < 0
=============================================================================
