------------------------------- MODULE ItemSeq -------------------------------
(***************************************************************************)
(* What a list of libdico promises to the code that walks it, with no      *)
(* pointer in sight: a sequence of entries, and for every iterator the     *)
(* entry it is on and the entries it has still to visit.  An entry may be  *)
(* removed at any moment, through this iterator, through another one or    *)
(* through the list; every walk still visits each entry that stays, once   *)
(* and in order, and none that was removed before the walk got to it.      *)
(***************************************************************************)
EXTENDS Integers, Sequences, Functions, Filters

CONSTANTS Entry, Iterator, Null

VARIABLES
    items,     \* the entries of the list
    on,        \* the entry an iterator is on, Null if it was removed or none is left
    todo       \* the entries an iterator has still to visit

vars == <<items, on, todo>>

From(s, k) == SubSeq(s, k, Len(s))

Init ==
    /\ items = <<>>
    /\ on = [i \in Iterator |-> Null]
    /\ todo = [i \in Iterator |-> <<>>]

Move(i, e, rest) ==
    /\ on' = [on EXCEPT ![i] = e]
    /\ todo' = [todo EXCEPT ![i] = rest]
    /\ UNCHANGED items

\* A walk that has come to the end does not start again when the list grows.
Ended(i) == on[i] = Null /\ todo[i] = <<>>

Add(e) ==
    /\ e \notin Range(items)
    /\ items' = Append(items, e)
    /\ todo' = [i \in Iterator |-> IF Ended(i) THEN <<>> ELSE Append(todo[i], e)]
    /\ UNCHANGED on

Delete(e) ==
    /\ e \in Range(items)
    /\ items' = Filter(items, Entry \ {e})
    /\ on' = [i \in Iterator |-> IF on[i] = e THEN Null ELSE on[i]]
    /\ todo' = [i \in Iterator |-> Filter(todo[i], Entry \ {e})]

Clear ==
    /\ \A i \in Iterator : Ended(i)
    /\ items' = <<>>
    /\ UNCHANGED <<on, todo>>

Start(i) ==
    IF items = <<>> THEN Move(i, Null, <<>>) ELSE Move(i, Head(items), Tail(items))

Advance(i) ==
    IF todo[i] = <<>> THEN Move(i, Null, <<>>) ELSE Move(i, Head(todo[i]), Tail(todo[i]))

\* From the entry it is on to a later one, asked for by its number.
Skip(i) ==
    /\ on[i] # Null
    /\ \E k \in 1 .. Len(todo[i]) : Move(i, todo[i][k], From(todo[i], k + 1))

\* The entry before the ones that are on or ahead; before the first one, the end.
Back(i) ==
    LET before == Len(items) - Len(todo[i]) - (IF on[i] = Null THEN 0 ELSE 1) IN
    /\ ~Ended(i)
    /\ IF before = 0 THEN Move(i, Null, <<>>)
                     ELSE Move(i, items[before], From(items, before + 1))

Stop(i) == Move(i, Null, <<>>)

Next ==
    \/ \E e \in Entry : Add(e) \/ Delete(e)
    \/ Clear
    \/ \E i \in Iterator : Start(i) \/ Advance(i) \/ Skip(i) \/ Back(i) \/ Stop(i)

Spec == Init /\ [][Next]_vars
=============================================================================
