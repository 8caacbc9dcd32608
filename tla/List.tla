-------------------------------- MODULE List --------------------------------
(***************************************************************************)
(* The doubly linked list of libdico (lib/list.c), on which dicod keeps    *)
(* its databases, modules, commands, groups and results, and the iterators *)
(* that stay attached to it while it changes.                              *)
(*                                                                         *)
(* An entry is a node of the heap: malloc takes one that is not in use and *)
(* free gives it back, its fields as they were.  An iterator that is not   *)
(* attached has cur = Null.  Two lists share nothing, so there is one.     *)
(***************************************************************************)
EXTENDS Integers, Sequences, Functions, FiniteSets, Filters

CONSTANTS
    Node,       \* the heap the entries are allocated from
    Iterator,   \* struct iterator
    Item,       \* what the list holds; the comparator tells two of them apart
    Null,
    SizeT       \* the modulus of size_t

ASSUME ListAssumption ==
    /\ IsFiniteSet(Node) /\ Null \notin Node
    /\ SizeT \in Nat /\ Cardinality(Node) < SizeT

VARIABLES
    alloc,              \* the nodes in use
    next, prev, data,   \* their fields
    head, tail, count,
    compare_tail,       \* DICO_LIST_COMPARE_TAIL is in list->flags
    itr,                \* the iterators attached to the list
    cur, advanced, pos, \* their fields
    intact              \* ghost: the list is as it was when the walk began

links == <<alloc, next, prev, head, tail, count>>
walks == <<cur, advanced, pos>>
vars == <<links, data, compare_tail, itr, walks, intact>>

Ptr == Node \cup {Null}

Init ==
    /\ alloc = {} /\ head = Null /\ tail = Null /\ count = 0
    /\ next = [n \in Node |-> Null]
    /\ prev = [n \in Node |-> Null]
    /\ data = [n \in Node |-> Null]
    /\ compare_tail \in BOOLEAN
    /\ itr = {}
    /\ cur = [i \in Iterator |-> Null]
    /\ advanced = [i \in Iterator |-> FALSE]
    /\ pos = [i \in Iterator |-> 0]
    /\ intact = [i \in Iterator |-> FALSE]

-----------------------------------------------------------------------------
\* The nodes that a loop over field f visits, from n and in at most k turns.
Along(f, n, k) ==
    LET walk[j \in 0 .. k] ==
          [m \in Ptr |-> IF j = 0 \/ m = Null THEN <<>> ELSE <<m>> \o walk[j - 1][f[m]]]
    IN  walk[k][n]

From(n) == Along(next, n, Cardinality(Node))

Entries == From(head)

\* The first entry that the comparator finds equal to d.
Locate(d) ==
    LET k == FirstOf(Entries, LAMBDA n : data[n] = d) IN
    IF k = 0 THEN Null ELSE Entries[k]

(***************************************************************************)
(* Iterators.                                                              *)
(***************************************************************************)

MoveTo(i, n, adv, p) ==
    /\ cur' = [cur EXCEPT ![i] = n]
    /\ advanced' = [advanced EXCEPT ![i] = adv]
    /\ pos' = [pos EXCEPT ![i] = p]
    /\ UNCHANGED <<links, compare_tail>>

RewindTo(i, p) ==
    /\ MoveTo(i, head, FALSE, p)
    /\ intact' = [intact EXCEPT ![i] = TRUE]
    /\ UNCHANGED data

Rewind_keep_pos(i) == RewindTo(i, pos[i])
Rewind(i) == RewindTo(i, 0)

dico_iterator_attach(i) ==
    /\ i \notin itr
    /\ itr' = itr \cup {i}
    /\ Rewind(i)

dico_iterator_detach(i) ==
    /\ i \in itr
    /\ itr' = itr \ {i}
    /\ MoveTo(i, Null, FALSE, 0)
    /\ intact' = [intact EXCEPT ![i] = FALSE]
    /\ UNCHANGED data

dico_iterator_first(i) ==
    /\ i \in itr
    /\ Rewind(i)
    /\ UNCHANGED itr

NextUnless(i, stay) ==
    /\ i \in itr /\ cur[i] # Null
    /\ IF stay THEN MoveTo(i, cur[i], FALSE, pos[i])
               ELSE MoveTo(i, next[cur[i]], FALSE, (pos[i] + 1) % SizeT)
    /\ UNCHANGED <<data, itr, intact>>

dico_iterator_next_skip(i) == NextUnless(i, FALSE)
dico_iterator_next(i) == NextUnless(i, advanced[i])

dico_iterator_prev(i) ==
    /\ i \in itr /\ cur[i] # Null
    /\ MoveTo(i, prev[cur[i]], FALSE, IF advanced[i] THEN pos[i] ELSE (pos[i] - 1 + SizeT) % SizeT)
    /\ UNCHANGED <<data, itr, intact>>

\* Both loops of dico_iterator_item: follow f until pos is n or the chain ends.
SeekAlong(i, f, n, start, p) ==
    LET dist == IF n > p THEN n - p ELSE p - n
        seen == Along(f, start, dist + 1)
        made == IF Len(seen) > dist THEN dist ELSE Len(seen)
    IN  MoveTo(i, IF Len(seen) > dist THEN seen[dist + 1] ELSE Null, FALSE,
               IF n > p THEN p + made ELSE p - made)

dico_iterator_item(i, n) ==
    /\ i \in itr
    /\ IF n > pos[i]
       THEN IF advanced[i] THEN SeekAlong(i, next, n, cur[i], pos[i])
                           ELSE SeekAlong(i, next, n, next[cur[i]], pos[i] + 1)
       ELSE IF n < pos[i]
       THEN SeekAlong(i, prev, n, cur[i], IF advanced[i] THEN pos[i] ELSE pos[i] - 1)
       ELSE UNCHANGED <<links, compare_tail, walks>>
    /\ UNCHANGED <<data, itr, intact>>

dico_iterator_set_data(i, d) ==
    /\ i \in itr /\ cur[i] # Null
    /\ data' = [data EXCEPT ![cur[i]] = d]
    /\ UNCHANGED <<links, compare_tail, itr, walks, intact>>

(***************************************************************************)
(* The list.                                                               *)
(***************************************************************************)

Changed ==
    /\ intact' = [i \in Iterator |-> FALSE]
    /\ UNCHANGED <<compare_tail, itr>>

\* _iterator_increase_pos
Increased(after) ==
    pos' = [i \in Iterator |-> IF i \in itr /\ pos[i] > after THEN (pos[i] + 1) % SizeT
                                                             ELSE pos[i]]

LinkAfter(ep, d, before) ==
    /\ tail' = ep
    /\ prev' = [prev EXCEPT ![ep] = before]
    /\ data' = [data EXCEPT ![ep] = d]
    /\ next' = [n \in Node |-> IF n = ep THEN Null ELSE IF n = tail THEN ep ELSE next[n]]
    /\ head' = IF tail # Null THEN head ELSE ep

Link_no_prev(ep, d) == LinkAfter(ep, d, Null)
Link(ep, d) == LinkAfter(ep, d, tail)

\* _dico_list_append, once malloc has returned ep.
Appended(ep, d) ==
    /\ alloc' = alloc \cup {ep}
    /\ Link(ep, d)
    /\ count' = count + 1
    /\ UNCHANGED walks
    /\ Changed

dico_list_append(d) ==
    /\ ~(compare_tail /\ tail # Null /\ data[tail] = d)
    /\ \E ep \in Node \ alloc : Appended(ep, d)

\* _iterator_advance: what an iterator on e becomes when e goes.
AdvanceAll(e, which) ==
    /\ cur' = [i \in Iterator |-> IF i \in which /\ cur[i] = e THEN next[e] ELSE cur[i]]
    /\ advanced' = [i \in Iterator |-> advanced[i] \/ (i \in which /\ cur[i] = e)]
    /\ UNCHANGED pos

iterator_advance_none(e) == AdvanceAll(e, {})
iterator_advance(e) == AdvanceAll(e, itr)

\* p leaves the chain and is freed, what it held gone with it.
Unlink(p) ==
    /\ next' = [n \in Node |-> IF n = p THEN Null
                               ELSE IF n = prev[p] THEN next[p] ELSE next[n]]
    /\ prev' = [n \in Node |-> IF n = p THEN Null
                               ELSE IF n = next[p] THEN prev[p] ELSE prev[n]]
    /\ data' = [data EXCEPT ![p] = Null]
    /\ head' = IF prev[p] # Null THEN head ELSE next[head]
    /\ tail' = IF next[p] # Null THEN tail ELSE prev[p]

remove_item(p) ==
    /\ iterator_advance(p)
    /\ Unlink(p)
    /\ alloc' = alloc \ {p}
    /\ count' = count - 1
    /\ Changed

dico_iterator_remove_current(i) ==
    /\ i \in itr /\ cur[i] # Null
    /\ remove_item(cur[i])

dico_list_remove(d) ==
    /\ Locate(d) # Null
    /\ remove_item(Locate(d))

dico_list_pop ==
    /\ tail # Null
    /\ remove_item(tail)

\* The iterators keep pointing to what was freed; no caller clears a list it walks.
dico_list_clear ==
    /\ itr = {}
    /\ alloc' = alloc \ Range(Entries)
    /\ next' = [n \in Node |-> IF n \in alloc' THEN next[n] ELSE Null]
    /\ prev' = [n \in Node |-> IF n \in alloc' THEN prev[n] ELSE Null]
    /\ data' = [n \in Node |-> IF n \in alloc' THEN data[n] ELSE Null]
    /\ head' = Null /\ tail' = Null /\ count' = 0
    /\ UNCHANGED walks
    /\ Changed

\* _dico_list_prepend, once malloc has returned ep.
Prepended(ep, d) ==
    /\ alloc' = alloc \cup {ep}
    /\ data' = [data EXCEPT ![ep] = d]
    /\ next' = [next EXCEPT ![ep] = head]
    /\ prev' = [prev EXCEPT ![ep] = Null]
    /\ head' = ep
    /\ tail' = IF tail = Null THEN ep ELSE tail
    /\ count' = count + 1
    /\ Increased(0)
    /\ UNCHANGED <<cur, advanced>>
    /\ Changed

dico_list_prepend(d) == \E ep \in Node \ alloc : Prepended(ep, d)

InsertedBefore(c, ep, d) ==
    /\ alloc' = alloc \cup {ep}
    /\ data' = [data EXCEPT ![ep] = d]
    /\ next' = [next EXCEPT ![ep] = c, ![prev[c]] = ep]
    /\ prev' = [prev EXCEPT ![ep] = prev[c], ![c] = ep]
    /\ count' = count + 1
    /\ Increased(FirstOf(Entries, LAMBDA n : n = c) - 2)
    /\ UNCHANGED <<head, tail, cur, advanced>>
    /\ Changed

\* The loop stops at an entry that is greater or, if the list has flags, equal.
dico_list_insert_sorted(d) ==
    LET k == FirstOf(Entries, LAMBDA n : data[n] > d \/ (compare_tail /\ data[n] = d))
    IN  \E ep \in Node \ alloc :
            IF k = 0 THEN Appended(ep, d)
            ELSE /\ data[Entries[k]] # d
                 /\ IF prev[Entries[k]] = Null THEN Prepended(ep, d)
                                               ELSE InsertedBefore(Entries[k], ep, d)

-----------------------------------------------------------------------------
(***************************************************************************)
(* What dicod, its modules and the client do with a list.  Results are     *)
(* printed by number only once the list is complete, in ascending order    *)
(* (print_matches, print_definitions), hence the guard of PrintNth.         *)
(***************************************************************************)
PrintNth(i, n) == intact[i] /\ pos[i] <= n /\ n < count /\ dico_iterator_item(i, n)

Change ==
    \/ \E d \in Item : dico_list_append(d) \/ dico_list_remove(d)
    \/ dico_list_pop
    \/ dico_list_clear

Iterate(i) ==
    \/ dico_iterator_attach(i)
    \/ dico_iterator_detach(i)
    \/ dico_iterator_first(i)
    \/ dico_iterator_next(i)
    \/ dico_iterator_prev(i)
    \/ dico_iterator_remove_current(i)
    \/ \E d \in Item : dico_iterator_set_data(i, d)

Next ==
    \/ Change
    \/ \E i \in Iterator : Iterate(i) \/ \E n \in 0 .. SizeT - 1 : PrintNth(i, n)

Spec == Init /\ [][Next]_vars

\* With what libdico also offers: only its tests prepend, only wordnet.c sorts.
Insert(d) == dico_list_prepend(d) \/ dico_list_insert_sorted(d)

InsertSpec == Init /\ [][Next \/ \E d \in Item : Insert(d)]_vars

-----------------------------------------------------------------------------
(***************************************************************************)
(* No pointer to a freed entry: whatever the list, its entries or an       *)
(* attached iterator point to is allocated.  _dico_list_remove_item frees  *)
(* an entry other iterators may be on, and two neighbours point to.        *)
(***************************************************************************)
NoDangling ==
    LET Live == alloc \cup {Null} IN
    /\ head \in Live /\ tail \in Live
    /\ \A n \in alloc : next[n] \in Live /\ prev[n] \in Live
    /\ \A i \in Iterator : cur[i] \in Live

(***************************************************************************)
(* The two directions agree and nothing is lost: a walk from head along    *)
(* next meets every allocated entry once, count of them, and the walk from *)
(* tail along prev meets the same ones in reverse.                         *)
(***************************************************************************)
BothWays ==
    LET back == Along(prev, tail, Cardinality(Node)) IN
    /\ Range(Entries) = alloc
    /\ Len(Entries) = count /\ count = Cardinality(alloc)
    /\ back = [k \in 1 .. Len(Entries) |-> Entries[Len(Entries) - k + 1]]

(***************************************************************************)
(* The position of an iterator is that of its entry as long as the list is *)
(* the one the walk began on: this is what mod_output_result of dictorg.c  *)
(* and wordnet.c rely on to print result n with dico_iterator_item.        *)
(***************************************************************************)
PositionExact ==
    \A i \in Iterator : intact[i] =>
        cur[i] = IF pos[i] < count THEN Entries[pos[i] + 1] ELSE Null

\* The refinement mapping: where an iterator stands, and what lies ahead of it.
On == [i \in Iterator |-> IF advanced[i] THEN Null ELSE cur[i]]

Ahead == [i \in Iterator |-> IF cur[i] = Null THEN <<>>
                             ELSE IF advanced[i] THEN From(cur[i]) ELSE From(next[cur[i]])]

Promise == INSTANCE ItemSeq WITH Entry <- Node, items <- Entries, on <- On, todo <- Ahead

(***************************************************************************)
(* The list is the sequence ItemSeq describes, its iterators included: a   *)
(* removal behind, at or ahead of an iterator makes the walk neither skip  *)
(* an entry, nor meet one twice, nor meet a removed one.                   *)
(***************************************************************************)
WalksAsPromised == Promise!Spec

(***************************************************************************)
(* Deleting an item takes one entry that holds it and leaves the others,   *)
(* in their order: what the test "delete" of lib/tests/list.at shows.      *)
(***************************************************************************)
DocDeleteOne ==
    [][\A d \in Item : dico_list_remove(d) =>
            Entries' = Filter(Entries, Node \ {Locate(d)})]_vars
=============================================================================
