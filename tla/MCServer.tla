------------------------------ MODULE MCServer ------------------------------
(* Server for TLC: session ids are interchangeable.                        *)
EXTENDS Server, TLC

Symmetry == Permutations(Pid)
=============================================================================
