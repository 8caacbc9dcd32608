-------------------------------- MODULE Alias --------------------------------
(***************************************************************************)
(* Command aliases (dicod/alias.c) and the dispatch of a command line      *)
(* (dicod_handle_command of dicod/commands.c).                             *)
(*                                                                         *)
(* The configuration file installs aliases, each a keyword with a          *)
(* replacement of one or more words.  A command line is then expanded in   *)
(* two passes: alias_expand first follows the chain of aliases and         *)
(* collects them in a list, then allocates the new argument array and      *)
(* fills it from its end.  Words are model values; a line is a sequence of *)
(* them.                                                                   *)
(***************************************************************************)
EXTENDS Integers, Sequences, Functions, FiniteSets, Filters

CONSTANTS
    Word,            \* words of command lines and replacements
    Commands,        \* command_list, in its order: [words, min, max, handler]
    Upper,           \* the upper-case form of each word (c_strncasecmp)
    MaxReplacement,  \* bound: words of a replacement
    MaxLine,         \* bound: words of a command line
    Hole             \* a slot of a calloc'ed argument array not stored to yet

ASSUME AliasAssumption ==
    /\ MaxReplacement \in Nat \ {0} /\ MaxLine \in Nat \ {0}
    /\ IsFiniteSet(Word) /\ Hole \notin Word /\ Upper \in [Word -> Word]
    /\ \A c \in Range(Commands) : c.words \in Seq(Word) /\ c.words # <<>>

VARIABLES
    table,     \* alias_table: keyword -> replacement
    phase,     \* where the server is
    argv,      \* the line dicod_handle_command works on
    typed,     \* ghost: the line the client sent
    kw,        \* sample.kw, then the last argv[0] copied
    alist,     \* keywords of the aliases collected, in order
    copied,    \* how many of them the second pass has copied
    nargv,     \* the new array, a function on 0 .. nargc - 1
    pos,       \* the next slot to store to
    reply      \* what the line was answered with, and the line dispatched

vars == <<table, phase, argv, typed, kw, alist, copied, nargv, pos, reply>>
expansion == <<kw, alist, copied, nargv, pos>>

Lines(n) == UNION {[1 .. k -> Word] : k \in 1 .. n}
NoReply == [code |-> "none", argv |-> <<>>]

Init ==
    /\ table = <<>> /\ phase = "config"
    /\ argv = <<>> /\ typed = <<>> /\ kw = Hole
    /\ alist = <<>> /\ copied = 0 /\ nargv = <<>> /\ pos = 0
    /\ reply = NoReply

-----------------------------------------------------------------------------
(* Configuration *)

\* alias_install, called by alias_cb: the first definition of a keyword
\* stays; a second one is a configuration error, and the server exits.
alias_install(k, replacement) ==
    /\ phase = "config"
    /\ IF k \in DOMAIN table
         THEN phase' = "exit" /\ UNCHANGED table
         ELSE /\ table' = [x \in DOMAIN table \union {k} |->
                             IF x = k THEN replacement ELSE table[x]]
              /\ UNCHANGED phase
    /\ UNCHANGED <<argv, typed, expansion, reply>>

Configured ==
    /\ phase = "config"
    /\ phase' = "idle"
    /\ UNCHANGED <<table, argv, typed, expansion, reply>>

-----------------------------------------------------------------------------
(* alias_expand *)

\* dicod_handle_command is entered with a line; alias_expand starts from its
\* first word with no list.  Without any alias there is no table to search.
Command(line) ==
    /\ phase = "idle"
    /\ phase' = IF table = <<>> THEN "dispatch" ELSE "chain"
    /\ argv' = line /\ typed' = line /\ reply' = NoReply
    /\ kw' = line[1] /\ alist' = <<>>
    /\ copied' = 0 /\ nargv' = <<>> /\ pos' = 0
    /\ UNCHANGED table

\* The first loop goes on while the word is an alias not in the list.
Collect ==
    /\ phase = "chain" /\ kw \in DOMAIN table \ Range(alist)
    /\ alist' = Append(alist, kw)
    /\ kw' = table[kw][1]
    /\ UNCHANGED <<table, phase, argv, typed, copied, nargv, pos, reply>>

\* ap->argc - 1 of alias number i of the list.
Extra(i) == Len(table[alist[i]]) - 1

\* What the first n aliases of the list add to the line: the loop over nargc.
ExtraTo(n) ==
    LET sum[i \in 0 .. Len(alist)] == IF i = 0 THEN 0 ELSE sum[i - 1] + Extra(i)
    IN  sum[n]

\* What those from number n on add.
ExtraFrom(n) == ExtraTo(Len(alist)) - ExtraTo(n - 1)

\* Wrong on purpose: an alias in the list does not end the loop.
Ended_continue == kw \notin DOMAIN table

\* The loop ends at a word that is no alias or is one in the list.
Ended == kw \notin DOMAIN table \/ kw \in Range(alist)

\* Between the passes: no list, no expansion; otherwise the array is sized
\* and the arguments of the line are copied to its end.
Sized(slots) ==
    /\ phase = "chain" /\ Ended
    /\ phase' = IF alist = <<>> THEN "dispatch" ELSE "copy"
    /\ nargv' = [s \in 0 .. slots + Len(argv) - 2 |->
                   IF s < slots THEN Hole ELSE argv[s - slots + 2]]
    /\ pos' = slots - 1
    /\ UNCHANGED <<table, argv, typed, kw, alist, copied, reply>>

\* Wrong on purpose: the word an alias replaces is counted as well.
Allocate_whole == Sized(1 + ExtraFrom(1) + Len(alist))

Allocate == Sized(1 + ExtraFrom(1))

\* The second pass, one alias: its arguments go below the words in place.
Copy ==
    /\ phase = "copy" /\ copied < Len(alist)
    /\ LET replacement == table[alist[copied + 1]]
           next == pos - Extra(copied + 1)
       IN /\ nargv' = [s \in DOMAIN nargv |->
                         IF s \in next + 1 .. pos
                           THEN replacement[s - next + 1] ELSE nargv[s]]
          /\ pos' = next
          /\ kw' = replacement[1]
    /\ copied' = copied + 1
    /\ UNCHANGED <<table, phase, argv, typed, alist, reply>>

\* The command word goes to the slot left; the caller takes the new array.
FinishWith(word) ==
    /\ phase = "copy" /\ copied = Len(alist)
    /\ phase' = "dispatch"
    /\ nargv' = [nargv EXCEPT ![pos] = word]
    /\ argv' = [i \in 1 .. Cardinality(DOMAIN nargv) |-> nargv'[i - 1]]
    /\ UNCHANGED <<table, typed, kw, alist, copied, pos, reply>>

\* Wrong on purpose: the command word is the first alias's.
Finish_first_alias == FinishWith(table[alist[1]][1])

Finish == FinishWith(kw)

-----------------------------------------------------------------------------
(* Dispatch *)

\* _cmd_arg_cmp: the words of the keyword begin the line, in any case.
Matches(c, line) ==
    Len(c.words) <= Len(line)
    /\ \A i \in DOMAIN c.words : Upper[c.words[i]] = Upper[line[i]]

\* locate_command and the checks before the handler is called.
Answer(line) ==
    LET n == FirstOf(Commands, LAMBDA c : Matches(c, line))
    IN IF n = 0 THEN "500 unknown command"
       ELSE IF Len(line) \notin Commands[n].min .. Commands[n].max
            THEN "501 wrong number of arguments"
       ELSE IF ~Commands[n].handler THEN "502 not implemented"
       ELSE "handler"

Dispatch ==
    /\ phase = "dispatch"
    /\ phase' = "idle"
    /\ reply' = [code |-> Answer(argv), argv |-> argv]
    /\ nargv' = <<>>
    /\ UNCHANGED <<table, argv, typed, kw, alist, copied, pos>>

-----------------------------------------------------------------------------
Handling == Collect \/ Allocate \/ Copy \/ Finish \/ Dispatch

Next ==
    \/ \E k \in Word, r \in Lines(MaxReplacement) : alias_install(k, r)
    \/ Configured
    \/ \E line \in Lines(MaxLine) : Command(line)
    \/ Handling

\* dicod_handle_command runs to its end once entered: no wait is in it.
Spec == Init /\ [][Next]_vars /\ WF_vars(Handling)

-----------------------------------------------------------------------------
\* The array allocated by alias_expand's first count is exactly the one its
\* second loop fills from the end: pos is always the number of slots still
\* needed below it, every slot above pos is stored and none below is, so no
\* store goes before the array, and a line that is dispatched has no NULL word.
ArrayExact ==
    /\ phase = "copy" =>
        /\ pos = ExtraFrom(copied + 1)
        /\ \A s \in DOMAIN nargv : (nargv[s] = Hole) <=> (s <= pos)
    /\ phase = "dispatch" => \A i \in DOMAIN argv : argv[i] # Hole

\* What the manual promises: the alias is substituted for the first word, and
\* again, until the first word is no alias or one expanded earlier.
Substituted(t, b) ==
    IF b.line[1] \in DOMAIN t \ b.expanded
    THEN [line |-> t[b.line[1]] \o Tail(b.line), expanded |-> b.expanded \union {b.line[1]}]
    ELSE b

\* The line after each turn: no alias is expanded twice, so that there are no
\* more turns than words.
Rewriting(t, line) ==
    LET after[i \in 0 .. Cardinality(Word)] ==
            IF i = 0 THEN [line |-> line, expanded |-> {}] ELSE Substituted(t, after[i - 1])
    IN  after

Rewritten(line) == Rewriting(table, line)[Cardinality(Word)].line

\* The two passes of alias_expand, which collect the aliases and fill an
\* array from its end, give the line that substituting word by word gives,
\* and dicod_handle_command answers the typed line as it answers that one.
AnsweredAsRewritten ==
    reply # NoReply =>
        /\ reply.argv = Rewritten(typed)
        /\ reply.code = Answer(Rewritten(typed))

\* Aliases that refer to one another in a circle never hang the session: a
\* command line that alias_expand starts on is answered.
CommandAnswered == phase = "chain" ~> phase = "idle"
=============================================================================
