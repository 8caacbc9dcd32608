------------------------------- MODULE WordAll -------------------------------
(* DEFINE and MATCH over two databases, one of the dict.org module and one   *)
(* of the gcide module, with the same words: dicod_word_all and              *)
(* dicod_word_first of dicod/loader.c.                                       *)
EXTENDS DictOrg, DictZip

CONSTANTS
    CacheSize,        \* index-cache-size of the gcide database
    MaxRead,          \* bound: reads of its index file that fail
    MaxPage,          \* bound: headwords of one of its pages
    MaxAsk,           \* bound: commands of a session
    Stratcl,          \* strat->stratcl: the rules that deny a strategy
    Articles          \* tables: offset and size of the articles of an index

\* With no buffer at all _cache_alloc would read the one before the first
ASSUME WordAllAssumption == CacheSize \in Nat \ {0} /\ MaxRead \in Nat /\ MaxPage \in Nat

\* The index is trusted: nothing looks where an article that begins in the text ends
ASSUME ArticlesAssumption ==
    \A table \in Articles, i \in 1 .. MaxIndex :
      /\ table[i] \in [offset : Nat, size : Nat]
      /\ table[i].offset <= DictSize => table[i].offset + table[i].size <= DictSize

VARIABLES
    phase,            \* where the command is
    asked,            \* commands of this session
    reply,            \* how many matches or definitions the client is told of, 0 for 552
    articles,         \* the articles of this index
    zstr,             \* db->stream
    said, text,       \* definitions of dict.org written, and the last of them
    pages, cache, gpc, gop, gkey, l, u, pageno, refno, buf, refs, failed, whole

G == INSTANCE Gcide

gvars == <<pages, cache, gpc, gop, gkey, l, u, pageno, refno, buf, refs, failed, whole>>

textvars == <<articles, zstr, said, text>>

allvars == <<vars, gvars, textvars, phase, asked, reply>>

AllInit ==
    /\ Init
    /\ \E size \in 1 .. MaxPage : G!gcide_open(index, size)
    /\ phase = "idle" /\ asked = 0 /\ reply = 0
    /\ articles \in Articles /\ zstr = dict_stream_create /\ said = 0 /\ text = <<>>

\* A rule names the lengths it denies, a word, or nothing: it denies all
check_word(rule, k) ==
    \/ rule.type = "all"
    \/ rule.type = "word" /\ rule.word = k
    \/ rule.type = "length" /\ Len(k) \in rule.lengths

\* DEFINE has no strategy
stratcl_check_word(o, k) == o \in DOMAIN Stratcl /\ \E rule \in Stratcl[o] : check_word(rule, k)

\* 552 at once
Deny(o, k) ==
    /\ stratcl_check_word(o, k)
    /\ asked' = asked + 1
    /\ UNCHANGED <<vars, gvars, textvars, phase, reply>>

\* The command: dict.org is asked first; "entry" is SHOW INFO or SHOW DB, which ask
\* one database
Ask(o, k) ==
    /\ ~stratcl_check_word(o, k)
    /\ \/ o \in Op /\ Search(o, k)
       \/ Refuse(o, k)
       \/ o = "select" /\ MatchAll(k)
    /\ phase' = IF o = "entry" THEN "info" ELSE "dictorg"
    /\ asked' = asked + 1
    /\ UNCHANGED <<reply, gvars, textvars>>

DictOrgStep ==
    /\ phase \in {"info", "dictorg"}
    /\ Step
    /\ UNCHANGED <<phase, asked, reply, gvars, textvars>>

\* The next database: for dicod_word_all always, for dicod_word_first if there are
\* no results
AskNext ==
    /\ phase = "dictorg" /\ pc \in {"done", "none"}
    /\ G!gcide_begin(op, key)
    /\ phase' = "gcide"
    /\ UNCHANGED <<vars, textvars, asked, reply>>

GcideStep ==
    /\ phase = "gcide"
    /\ G!GcideStep
    /\ UNCHANGED <<vars, textvars, phase, asked, reply>>

\* The number of results is written, then the results of each database
Written ==
    /\ reply' = Len(list) + Len(refs)
    /\ phase' = "reply"
    /\ UNCHANGED <<vars, asked, gvars, textvars>>

word_all == phase = "gcide" /\ gpc \in {"done", "none"} /\ Written

\* Wrong on purpose: the first database is the only one
word_first_only == phase = "dictorg" /\ pc \in {"done", "none"} /\ Written

\* dicod_word_first passes over a database without results
word_first == phase = "dictorg" /\ pc = "done" /\ list # <<>> /\ Written

Say(out) ==
    /\ zstr' = out.str /\ text' = out.buf
    /\ said' = said + 1
    /\ UNCHANGED <<vars, gvars, articles, phase, asked, reply>>

\* The definitions of dict.org are written, one after the other
PrintDef ==
    /\ phase = "reply" /\ op = "define" /\ said < Len(list)
    /\ Say(printdef(zstr, articles[list[said + 1]]))

\* An entry that SHOW INFO or SHOW DB found is read
ReadEntry ==
    /\ phase = "info" /\ pc = "done" /\ said = 0
    /\ Say(db_entry(zstr, articles[list[1]]))

\* The results are freed
Finish ==
    /\ \/ phase = "reply" /\ (op = "define" => said = Len(list))
       \/ phase = "info" /\ (pc = "none" \/ (pc = "done" /\ said = 1))
    /\ Free
    /\ G!gcide_free_result
    /\ phase' = "idle" /\ reply' = 0 /\ said' = 0 /\ text' = <<>>
    /\ UNCHANGED <<asked, articles, zstr>>

\* The session ends, between two commands or in gcide
NewSession ==
    /\ \/ phase = "idle" /\ asked = MaxAsk /\ UNCHANGED vars
       \/ phase = "gcide" /\ Free
    /\ G!gcide_reopen
    /\ phase' = "idle" /\ asked' = 0 /\ reply' = 0
    /\ zstr' = dict_stream_create /\ UNCHANGED <<articles, said, text>>

\* A command comes, to a session that waits for one
Command ==
    /\ phase = "idle" /\ asked < MaxAsk
    /\ \E o \in Op \cup {"select", "named"}, k \in Key : Deny(o, k) \/ Ask(o, k)

Proceed == DictOrgStep \/ AskNext \/ GcideStep \/ word_all \/ word_first

AllNext ==
    \/ Command
    \/ Proceed
    \/ PrintDef \/ ReadEntry
    \/ Finish
    \/ NewSession

AllSpec == AllInit /\ [][AllNext]_allvars /\ WF_allvars(Proceed)
-----------------------------------------------------------------------------
(* Properties.                                                             *)

\* The state is well formed: the bounds of a search in dict.org stay within its
\* array and gcide has no more page buffers than index-cache-size.
AllTypeOK == TypeOK /\ G!TypeOK

\* What the gcide module finds: see WalkExact of Gcide.
WalkExact == G!WalkExact

\* Unless a read failed or a rule denies it, 552 is the answer only where neither database has a word
\* that matches, its own entries included where dict.org refuses to look: a database
\* without results, or one that refuses the word, never ends dicod_word_first.
NoMatchTrue ==
    phase = "reply" /\ reply = 0 /\ whole /\ Searchable /\ G!Searchable(op, key) =>
      \A i \in 1 .. N : ~G!Hit(op, key, index[i])

\* A definition, or an entry of the database's own, is the text the index says,
\* whatever chunks were read and thrown out of the cache before, unless inflate
\* refused one of its own chunks or the offset of an article was beyond the text.
ArticleExact ==
    said > 0 =>
      LET article == articles[list[said]]
      IN  ~zstr.err /\ ChunksOf(article) \cap zstr.refused = {} =>
            text = Text(article.offset, article.size)

\* Every DEFINE and MATCH is answered, unless the session ends in gcide.
Replied == phase = "dictorg" ~> phase = "reply" \/ gpc = "crashed"
=============================================================================
