---------------------------- MODULE WordAllProof ----------------------------
(***************************************************************************)
(* DEFINE and MATCH over two databases, proved for every index, every size *)
(* of page and every cache.                                                *)
(***************************************************************************)
EXTENDS WordAll, DictOrgProof

GP == INSTANCE GcideProof

-----------------------------------------------------------------------------
(* dict.org in the composed system *)

\* What the other steps do to the variables of dict.org: nothing.
LEMMA AsksStep == [AllNext]_allvars => [Next]_vars
<1> SUFFICES ASSUME [AllNext]_allvars PROVE [Next]_vars
  OBVIOUS
<1>1. CASE Command
  <2>1. PICK o \in Op \cup {"select", "named"}, k \in Key : Deny(o, k) \/ Ask(o, k)
    BY <1>1 DEF Command
  <2>2. CASE Deny(o, k)
    BY <2>2 DEF Deny
  <2>3. CASE Ask(o, k)
    BY <2>3 DEF Ask, Next
  <2> QED BY <2>1, <2>2, <2>3
<1>2. CASE DictOrgStep
  BY <1>2 DEF DictOrgStep, Next
<1>3. CASE AskNext \/ GcideStep \/ word_all \/ word_first \/ PrintDef \/ ReadEntry
  BY <1>3 DEF AskNext, GcideStep, word_all, word_first, PrintDef, ReadEntry, Written, Say
<1>4. CASE Finish
  BY <1>4 DEF Finish, Next
<1>5. CASE NewSession
  BY <1>5 DEF NewSession, Next
<1>6. CASE UNCHANGED allvars
  BY <1>6 DEF allvars
<1> QED BY <1>1, <1>2, <1>3, <1>4, <1>5, <1>6 DEF AllNext, Proceed

\* Whatever the other database, the texts and the session do, the variables of
\* dict.org take only the steps of DictOrg: no command comes to its module
\* between a search and the freeing of its result.
THEOREM AsksDictOrg == AllSpec => Spec
<1>1. AllInit => Init
  BY DEF AllInit
<1> QED BY <1>1, AsksStep, PTL DEF AllSpec, Spec

-----------------------------------------------------------------------------
(* gcide in the composed system.  GP names what G names once more.          *)

\* utf8_strcasecmp and utf8_strncasecmp are those the dict.org module calls.
LEMMA SameComparisons ==
    /\ \A a, b, n : GP!utf8_strncasecmp(a, b, n) = utf8_strncasecmp(a, b, n)
    /\ \A a, b, n : GP!SameTo(a, b, n) <=> SameTo(a, b, n)
    /\ \A a, b : GP!utf8_strcasecmp(a, b) = utf8_strcasecmp(a, b)
BY Zenon, SMTT(30) DEF GP!utf8_strncasecmp, utf8_strncasecmp, GP!SameTo, SameTo, GP!Before, Before, GP!Char, Char,
       GP!utf8_strcasecmp, utf8_strcasecmp

\* The steps of the two are the same, down to the buffers and the list.
LEMMA SameStep == GP!GcideStep <=> G!GcideStep
BY ZenonT(30) DEF GP!GcideStep, G!GcideStep, GP!idx_page_locate, G!idx_page_locate, GP!idx_fetch, G!idx_fetch,
  GP!idx_ref_locate, G!idx_ref_locate, GP!iterator_ref, G!iterator_ref, GP!iterator_next, G!iterator_next,
  GP!idx_enumerate, G!idx_enumerate, GP!AddMatches, G!AddMatches, GP!Listed, G!Listed, GP!Take, G!Take,
  GP!PageIn, G!PageIn, GP!Compare, G!Compare, GP!key_match, G!key_match, GP!suffix_sel, G!suffix_sel,
  GP!idx_get_page, G!idx_get_page, GP!cache_find_page, G!cache_find_page, GP!cache_alloc, G!cache_alloc,
  GP!CacheSlot, G!CacheSlot, GP!SlotOf, G!SlotOf, GP!Garbage, G!Garbage, GP!Headword, G!Headword,
  GP!Refs, G!Refs, GP!NumPages, G!NumPages, GP!utf8_strcasecmp, G!utf8_strcasecmp,
  GP!utf8_strncasecmp, G!utf8_strncasecmp, GP!Before, G!Before, GP!Char, G!Char

\* utf8_strcasecmp and utf8_strncasecmp order the headwords of gcide.
LEMMA WordsInOrder == GP!WordOrder
BY WordsOrdered, SameComparisons DEF GP!WordOrder

\* So are the beginning and the end of a look-up.
LEMMA SameGcide ==
    /\ \A o, k : GP!gcide_begin(o, k) <=> G!gcide_begin(o, k)
    /\ GP!gcide_free_result <=> G!gcide_free_result
    /\ GP!gcide_reopen <=> G!gcide_reopen
    /\ GP!TypeOK <=> G!TypeOK
    /\ \A o, k : GP!Searchable(o, k) <=> G!Searchable(o, k)
BY DEF GP!gcide_begin, G!gcide_begin, GP!gcide_free_result, G!gcide_free_result,
       GP!gcide_reopen, G!gcide_reopen, GP!Reset, G!Reset, GP!TypeOK, G!TypeOK,
       GP!Searchable, G!Searchable, GP!Places, G!Places, GP!Headword, G!Headword,
       GP!Refs, G!Refs, GP!NumPages, G!NumPages, GP!Garbage, G!Garbage,
       GP!SameTo, G!SameTo, GP!Char, G!Char

\* So are what is to be found, and the database that is opened.
LEMMA SameHit ==
    /\ \A o, k, w : GP!Hit(o, k, w) <=> G!Hit(o, k, w)
    /\ GP!WalkExact <=> G!WalkExact
    /\ \A words, size : GP!gcide_open(words, size) <=> G!gcide_open(words, size)
<1>1. \A o, k, w : GP!Hit(o, k, w) <=> G!Hit(o, k, w)
  BY SMTT(30) DEF GP!Hit, G!Hit, GP!key_match, G!key_match, GP!suffix_sel, G!suffix_sel,
     GP!SameTo, G!SameTo, GP!utf8_strncasecmp, G!utf8_strncasecmp, GP!Before, G!Before,
     GP!Char, G!Char
<1>2. GP!WalkExact <=> G!WalkExact
  BY ZenonT(30) DEF GP!WalkExact, G!WalkExact, GP!Searchable, G!Searchable, GP!Places, G!Places,
     GP!Hits, G!Hits, GP!Earlier, G!Earlier, GP!Headword, G!Headword,
     GP!Refs, G!Refs, GP!NumPages, G!NumPages, GP!utf8_strcasecmp, G!utf8_strcasecmp,
     GP!Hit, G!Hit, GP!key_match, G!key_match, GP!suffix_sel, G!suffix_sel,
     GP!SameTo, G!SameTo, GP!utf8_strncasecmp, G!utf8_strncasecmp, GP!Before, G!Before,
     GP!Char, G!Char
<1>3. \A words, size : GP!gcide_open(words, size) <=> G!gcide_open(words, size)
  BY Zenon DEF GP!gcide_open, G!gcide_open, GP!idxgcide, G!idxgcide
<1> QED BY <1>1, <1>2, <1>3
-----------------------------------------------------------------------------
(* The invariant of the composed system *)

\* The look-up in gcide is that of the command, and where nothing was found for
\* the reply gcide has found nothing.
Relayed ==
    /\ phase \in {"idle", "info", "dictorg", "gcide", "reply"}
    /\ phase \in {"idle", "info", "dictorg"} => gpc = "idle"
    /\ phase = "dictorg" => op \in GP!Located \cup GP!Selected /\ key \in Key
    /\ phase = "gcide" => gop = op /\ gkey = key
    /\ phase = "reply" /\ reply = 0 =>
         gpc \in {"done", "none"} /\ gop = op /\ gkey = key /\ refs = <<>>

AllInv == GP!GcideInv /\ GP!Held(index) /\ Relayed

\* The constants of gcide are those its lemmas ask for.
LEMMA BoundsHold == GP!Bounds
BY WordAllAssumption DEF GP!Bounds

\* It holds of the database that idxgcide has indexed, before any command.
LEMMA AllStarts == AllInit => AllInv
<1> SUFFICES ASSUME AllInit PROVE AllInv
  OBVIOUS
<1>1. PICK size \in 1 .. MaxPage : GP!gcide_open(index, size)
  BY SameHit DEF AllInit
<1>2. size \in Nat \ {0} /\ index \in Seq(Word)
  BY WordAllAssumption, SearchInit DEF AllInit, IInv, IndexInv
<1>3. \A i, j \in 1 .. Len(index) : i < j => GP!utf8_strcasecmp(index[i], index[j]) <= 0
  BY SameComparisons DEF AllInit, Init, IndexSorted, compare_entry, N
<1>4. GP!GcideInv /\ GP!Held(index)
  BY <1>1, <1>2, <1>3, BoundsHold, WordAssumption, GP!OpenHolds
<1>5. Relayed
  BY <1>1 DEF AllInit, Relayed, GP!gcide_open
<1> QED BY <1>4, <1>5 DEF AllInv

\* Where the variables of gcide and the index stay the same, its invariant does.
LEMMA GcideStays == ASSUME AllInv, UNCHANGED <<gvars, index>> PROVE GP!GcideInv' /\ GP!Held(index)'
<1>1. GP!GcideInv' /\ UNCHANGED pages
  BY WordAssumption, GP!GcideKept DEF AllInv, gvars
<1>2. PICK words : words = index
  OBVIOUS
<1>3. GP!Held(words)'
  BY <1>1, <1>2, WordAssumption, GP!HeldKept DEF AllInv
<1> QED BY <1>1, <1>2, <1>3

\* Every step keeps it.  The steps of dict.org, of the articles and of the replies
\* leave gcide alone; those of gcide leave the command alone.
LEMMA AllKeeps == AllInv /\ FoundInv /\ [AllNext]_allvars => AllInv'
<1> SUFFICES ASSUME AllInv, FoundInv, [AllNext]_allvars PROVE AllInv'
  OBVIOUS
<1>1. GP!GcideInv /\ GP!Held(index) /\ Relayed
  BY DEF AllInv
<1>2. PICK words : words = index
  OBVIOUS
<1>3. UNCHANGED index
  <2>1. [Next]_vars
    BY AsksStep
  <2> QED BY <2>1, IndexStays
<1>4. ASSUME UNCHANGED gvars, Relayed' PROVE AllInv'
  BY <1>3, <1>4, GcideStays DEF AllInv
<1>5. ASSUME GP!GcideInv', UNCHANGED pages, Relayed' PROVE AllInv'
  BY <1>1, <1>2, <1>3, <1>5, WordAssumption, GP!HeldKept DEF AllInv
<1>6. CASE Command
  <2>1. PICK o \in Op \cup {"select", "named"}, k \in Key : Deny(o, k) \/ Ask(o, k)
    BY <1>6 DEF Command
  <2>2. UNCHANGED gvars /\ phase = "idle" /\ UNCHANGED reply
    BY <1>6, <2>1 DEF Command, Deny, Ask
  <2>3. \/ phase' = "idle"
        \/ phase' = "info"
        \/ phase' = "dictorg" /\ op' \in GP!Located \cup GP!Selected /\ key' \in Key
    BY <2>1, <2>2, Zenon DEF Deny, Ask, Search, Refuse, MatchAll, Begin, Op, GP!Located, GP!Selected
  <2>4. Relayed'
    BY <1>1, <2>2, <2>3 DEF Relayed, gvars
  <2> QED BY <1>4, <2>2, <2>4
<1>7. CASE DictOrgStep
  <2>1. UNCHANGED <<gvars, phase, reply, op, key>> /\ phase \in {"info", "dictorg"}
    BY <1>7 DEF DictOrgStep, Step, BsearchStep, BsearchWith, WalkBack, BackTo, WalkForward, Collect, CollectWith
  <2>2. Relayed'
    BY <1>1, <2>1 DEF Relayed, gvars
  <2> QED BY <1>4, <2>1, <2>2
<1>8. CASE AskNext
  <2>1. /\ phase = "dictorg" /\ phase' = "gcide" /\ UNCHANGED <<op, key>>
        /\ GP!gcide_begin(op, key)
    BY <1>8, SameGcide DEF AskNext, vars
  <2>2. PICK o \in GP!Located \cup GP!Selected : o = op
    BY <1>1, <2>1 DEF Relayed
  <2>3. PICK k \in Key : k = key
    BY <1>1, <2>1 DEF Relayed
  <2>4. GP!GcideInv'
    BY <1>1, <2>1, <2>2, <2>3, WordAssumption, GP!BeginKeeps
  <2>5. gop' = op /\ gkey' = key /\ UNCHANGED pages
    BY <2>1, WordAssumption, GP!StepLeaves
  <2>6. Relayed'
    BY <2>1, <2>5 DEF Relayed
  <2> QED BY <1>5, <2>4, <2>5, <2>6
<1>9. CASE GcideStep
  <2>1. /\ phase = "gcide" /\ phase' = "gcide" /\ UNCHANGED <<op, key>> /\ GP!GcideStep
    BY <1>9, SameStep DEF GcideStep, vars
  <2>2. GP!GcideInv'
    BY <1>1, <2>1, BoundsHold, WordsInOrder, WordAssumption, GP!StepKeeps
  <2>3. UNCHANGED <<pages, gop, gkey>>
    BY <2>1, WordAssumption, GP!StepLeaves
  <2>4. Relayed'
    BY <1>1, <2>1, <2>3 DEF Relayed
  <2> QED BY <1>5, <2>2, <2>3, <2>4
<1>10. CASE word_all \/ word_first
  <2>1. /\ reply' = Len(list) + Len(refs) /\ phase' = "reply" /\ UNCHANGED <<vars, gvars>>
        /\ \/ phase = "gcide" /\ gpc \in {"done", "none"}
           \/ list # <<>>
    BY <1>10, Zenon, SMTT(30) DEF word_all, word_first, Written
  <2>2. list \in Seq(1 .. N) /\ refs \in Seq(GP!Places)
    BY <1>1 DEF FoundInv, GP!GcideInv, GP!LookInv
  <2>3. /\ Len(list) \in Nat /\ Len(refs) \in Nat
        /\ list # <<>> => Len(list) > 0
        /\ refs # <<>> => Len(refs) > 0
    BY <2>2
  <2>4. reply' = 0 => refs = <<>> /\ phase = "gcide" /\ gpc \in {"done", "none"}
    BY <2>1, <2>3
  <2>5. Relayed'
    BY <1>1, <2>1, <2>4 DEF Relayed, gvars, vars
  <2> QED BY <1>4, <2>1, <2>5
<1>11. CASE PrintDef \/ ReadEntry
  <2>1. UNCHANGED <<vars, gvars, phase, reply>>
    BY <1>11, Zenon, SMTT(30) DEF PrintDef, ReadEntry, Say
  <2>2. Relayed'
    BY <1>1, <2>1 DEF Relayed, gvars, vars
  <2> QED BY <1>4, <2>1, <2>2
<1>12. CASE Finish \/ NewSession
  <2>1. phase' = "idle" /\ (GP!gcide_free_result \/ GP!gcide_reopen)
    BY <1>12, SameGcide DEF Finish, NewSession
  <2>2. GP!GcideInv'
    BY <1>1, <2>1, BoundsHold, WordAssumption, GP!ResetKeeps
  <2>3. gpc' = "idle" /\ UNCHANGED pages
    BY <2>1, WordAssumption, GP!StepLeaves
  <2>4. Relayed'
    BY <2>1, <2>3 DEF Relayed
  <2> QED BY <1>5, <2>2, <2>3, <2>4
<1>13. CASE UNCHANGED allvars
  <2>1. Relayed'
    BY <1>1, <1>13 DEF Relayed, allvars, gvars, vars
  <2> QED BY <1>4, <1>13, <2>1 DEF allvars
<1> QED BY <1>6, <1>7, <1>8, <1>9, <1>10, <1>11, <1>12, <1>13 DEF AllNext, Proceed

\* The invariants of the two databases and of what passes between them.
LEMMA AllInvariant == AllSpec => [](IInv /\ FoundInv /\ AllInv)
<1>1. AllSpec => [](IInv /\ FoundInv)
  BY AsksDictOrg, SearchInit, SearchStep, FoundInit, FoundStep, PTL DEF Spec
<1> QED BY <1>1, AllStarts, AllKeeps, PTL DEF AllSpec

-----------------------------------------------------------------------------
(* What the commands find *)

\* Unless a read failed, gcide's _idx_locate and its iterator find every entry of
\* the key behind the first that they come upon, over all the pages it fills, a
\* MATCH each headword once, and nothing only where nothing matches.
THEOREM AllWalksExact == AllSpec => []WalkExact
<1>1. AllInv => WalkExact
  BY SameHit DEF AllInv, GP!GcideInv, WalkExact
<1> QED BY <1>1, AllInvariant, PTL

\* 552 is the answer of dicod_word_all and dicod_word_first only where neither
\* database has a word that matches: what dict.org lacks or refuses gcide is
\* asked for, and it has looked through all of its pages.
THEOREM AllNoMatchTrue == AllSpec => []NoMatchTrue
<1>1. ASSUME AllInv PROVE NoMatchTrue
  <2> SUFFICES ASSUME phase = "reply", reply = 0, whole, G!Searchable(op, key),
                      NEW i \in 1 .. N
               PROVE  ~G!Hit(op, key, index[i])
    BY DEF NoMatchTrue
  <2>1. gpc \in {"done", "none"} /\ gop = op /\ gkey = key /\ refs = <<>>
    BY <1>1 DEF AllInv, Relayed
  <2>2. GP!Searchable(gop, gkey)
    BY <2>1, SameGcide
  <2>3. PICK words : words = index
    OBVIOUS
  <2>4. \A j \in 1 .. Len(words) : ~GP!Hit(gop, gkey, words[j])
    BY <1>1, <2>1, <2>2, <2>3, WordAssumption, GP!NoneHeld DEF AllInv
  <2> QED BY <2>1, <2>3, <2>4, SameHit DEF N
<1> QED BY <1>1, AllInvariant, PTL

\* The ends of a search stay within the array of the dict.org module, and every
\* place in a result of gcide is one of the index file, in no more page buffers
\* than index-cache-size.
THEOREM AllTyped == AllSpec => []AllTypeOK
<1>1. AllInv => G!TypeOK
  BY SameGcide, BoundsHold, WordAssumption, GP!GcideTyped DEF AllInv
<1> QED BY <1>1, AsksDictOrg, SearchTyped, AllInvariant, PTL DEF AllTypeOK

\* What the dict.org module promises of a look-up it keeps in the server, where
\* its searches take turns with those of gcide and with the reading of articles.
COROLLARY AllSearches == AllSpec => []RangeExact /\ []FoundOnly /\ []ListedOnce
BY AsksDictOrg, SearchExact, SearchFindsOnly, SearchListsOnce, PTL

-----------------------------------------------------------------------------
(* What is written of an article *)

\* The cache is as inflate left it; a definition is on the way only in a reply, or
\* where the entry that SHOW INFO or SHOW DB asks for was found.
TextInv ==
    /\ zstr \in Stream /\ articles \in Articles /\ said \in Nat
    /\ said > 0 => phase = "reply" \/ (phase = "info" /\ pc = "done")
    /\ phase = "info" => op = "entry"
    /\ ArticleExact

\* The steps that read nothing of the text leave it and the article.
LEMMA TextKept ==
    ASSUME TextInv, UNCHANGED <<articles, said, text, zstr, list>>,
           said > 0 => phase' = "reply" \/ (phase' = "info" /\ pc' = "done"),
           phase' = "info" => op' = "entry"
    PROVE  TextInv'
BY DEF TextInv, ArticleExact

\* Where nothing has been said yet, or no longer is.
LEMMA TextUnsaid ==
    ASSUME TextInv, UNCHANGED articles, zstr' \in Stream, said' = 0, phase' = "info" => op' = "entry"
    PROVE  TextInv'
BY DEF TextInv, ArticleExact

\* printdef and find_db_entry read the article of the entry that is next.
LEMMA TextSaid ==
    ASSUME TypeOK, FoundInv, TextInv, UNCHANGED <<op, pc, list>>, said < Len(list), NEW out, Say(out),
           \/ out = printdef(zstr, articles[list[said + 1]])
           \/ out = db_entry(zstr, articles[list[said + 1]]),
           phase = "reply" \/ (phase = "info" /\ pc = "done")
    PROVE  TextInv'
<1> DEFINE a == articles[list[said + 1]]
<1>1. zstr \in Stream /\ articles \in Articles /\ said \in Nat /\ said + 1 \in 1 .. Len(list)
  BY DEF TextInv, FoundInv
<1>2. list[said + 1] \in 1 .. N /\ N \in Nat /\ N <= MaxIndex
  BY <1>1, SMTT(30) DEF FoundInv, TypeOK, N
<1>3. list[said + 1] \in 1 .. MaxIndex
  BY <1>2, DictOrgAssumption
<1>4. a \in [offset : Nat, size : Nat] /\ (a.offset <= DictSize => a.offset + a.size <= DictSize)
  BY <1>1, <1>3, ArticlesAssumption, ZenonT(30)
<1> HIDE DEF a
<1>5. /\ out.str \in Stream
      /\ ~out.str.err /\ ChunksOf(a) \cap out.str.refused = {} => out.buf = Text(a.offset, a.size)
  BY <1>1, <1>4, ArticleSaid DEF a
<1>6. /\ zstr' = out.str /\ text' = out.buf /\ said' = said + 1
      /\ UNCHANGED <<articles, phase>>
  BY DEF Say
<1>7. articles'[list'[said']] = a
  BY <1>6 DEF a
<1>8. ArticleExact'
  BY <1>5, <1>6, <1>7, Zenon DEF ArticleExact
<1> QED BY <1>1, <1>5, <1>6, <1>8 DEF TextInv

\* Every step keeps it.
LEMMA TextStep == TypeOK /\ FoundInv /\ EntryInv /\ TextInv /\ [AllNext]_allvars => TextInv'
<1> SUFFICES ASSUME TypeOK, FoundInv, EntryInv, TextInv, [AllNext]_allvars PROVE TextInv'
  OBVIOUS
<1>1. CASE Command
  <2>1. said = 0 /\ phase = "idle" /\ zstr \in Stream
    BY <1>1 DEF Command, TextInv
  <2>2. UNCHANGED textvars /\ (phase' = "info" => op' = "entry")
    <3>1. PICK o \in Op \cup {"select", "named"}, k \in Key : Deny(o, k) \/ Ask(o, k)
      BY <1>1 DEF Command
    <3> QED BY <2>1, <3>1, Zenon DEF Deny, Ask, Search, Refuse, MatchAll, Begin
  <2> QED BY <2>1, <2>2, TextUnsaid DEF textvars
<1>2. CASE DictOrgStep
  <2>1. UNCHANGED <<phase, textvars, op>> /\ pc \notin {"done", "none"} /\ phase # "reply"
    BY <1>2 DEF DictOrgStep, Step, BsearchStep, BsearchWith, WalkBack, BackTo, WalkForward, Collect, CollectWith
  <2>2. said = 0 /\ zstr \in Stream /\ (phase = "info" => op = "entry")
    BY <2>1 DEF TextInv
  <2> QED BY <2>1, <2>2, TextUnsaid DEF textvars
<1>3. CASE AskNext \/ GcideStep \/ word_all \/ word_first
  <2>1. UNCHANGED <<vars, textvars>> /\ phase \in {"dictorg", "gcide"} /\ phase' # "info"
    BY <1>3 DEF AskNext, GcideStep, word_all, word_first, Written
  <2>2. said = 0 /\ zstr \in Stream
    BY <2>1 DEF TextInv
  <2> QED BY <2>1, <2>2, TextUnsaid DEF textvars
<1>4. CASE PrintDef
  BY <1>4, TextSaid, ZenonT(30) DEF PrintDef, Say, vars
<1>5. CASE ReadEntry
  <2>1. list # <<>> /\ list \in Seq(1 .. N) /\ said = 0
    BY <1>5, Zenon DEF ReadEntry, TextInv, EntryInv, FoundInv
  <2>2. said < Len(list) /\ said + 1 = 1
    BY <2>1
  <2> QED BY <1>5, <2>2, TextSaid, ZenonT(30) DEF ReadEntry, Say, vars
<1>6. CASE Finish \/ NewSession
  <2>1. UNCHANGED articles /\ phase' = "idle" /\ (zstr' = zstr \/ zstr' = dict_stream_create)
    BY <1>6 DEF Finish, NewSession
  <2>2. said' = 0
    BY <1>6, SMTT(30) DEF Finish, NewSession, TextInv
  <2> QED BY <2>1, <2>2, StreamCreated, TextUnsaid DEF TextInv
<1>7. CASE UNCHANGED allvars
  BY <1>7, TextKept DEF allvars, textvars, vars, TextInv
<1> QED BY <1>1, <1>2, <1>3, <1>4, <1>5, <1>6, <1>7 DEF AllNext, Proceed

\* What printdef and find_db_entry hand on is the text of the article the index
\* names, byte for byte, over any number of chunks, whatever the size of a chunk,
\* of the cache and of printdef's buffer, and whatever was read and thrown out of
\* the cache before.
THEOREM AllArticlesExact == AllSpec => []ArticleExact
<1>1. AllInit => TextInv /\ EntryInv
  <2> SUFFICES ASSUME AllInit PROVE TextInv /\ EntryInv
    OBVIOUS
  <2>1. zstr \in Stream
    BY StreamCreated DEF AllInit
  <2>2. articles \in Articles /\ said = 0 /\ phase = "idle"
    BY DEF AllInit
  <2>3. op = "none"
    BY DEF AllInit, Init
  <2>4. ~(said > 0)
    BY <2>2
  <2>5. ArticleExact
    BY <2>4, Zenon DEF ArticleExact
  <2> QED BY <2>1, <2>2, <2>3, <2>4, <2>5 DEF TextInv, EntryInv
<1>2. TextInv => ArticleExact
  BY DEF TextInv
<1>3. AllSpec => []EntryInv
  BY <1>1, AsksStep, EntryStep, PTL DEF AllSpec
<1> QED BY <1>1, <1>2, <1>3, AsksDictOrg, SearchTyped, AllInvariant, TextStep, PTL DEF AllSpec
=============================================================================
