------------------------------- MODULE MCList -------------------------------
(***************************************************************************)
(* Model checking of List: nodes and iterators are interchangeable, items  *)
(* are not in the run that sorts them.                                     *)
(***************************************************************************)
EXTENDS List, TLC

Interchangeable == Permutations(Node) \cup Permutations(Iterator)
=============================================================================
