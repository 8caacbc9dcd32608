------------------------------ MODULE Filters ------------------------------
(***************************************************************************)
(* The elements of a sequence that are in a set, in their order, and the   *)
(* place of the first that passes a test: SelectSeq and SelectInSeq, in a  *)
(* form that proofs can expand.                                            *)
(***************************************************************************)
EXTENDS Integers, Sequences

\* What a loop over s has kept after each of its elements.
FilterTo(s, T) ==
    LET kept[i \in 0 .. Len(s)] ==
          IF i = 0 THEN <<>>
          ELSE IF s[i] \in T THEN Append(kept[i - 1], s[i]) ELSE kept[i - 1]
    IN  kept

\* The loop at its end; binding s and T has TLC evaluate each of them once.
Filter(s, T) == CHOOSE f \in {FilterTo(u, V)[Len(u)] : u \in {s}, V \in {T}} : TRUE

\* The least number of a set that is not empty.
Least(S) == CHOOSE x \in S : \A y \in S : x <= y

\* The place of the first element that passes, 0 if none does.
FirstOf(s, Test(_)) ==
    LET I == {i \in 1 .. Len(s) : Test(s[i])} IN IF I # {} THEN Least(I) ELSE 0
============================================================================
