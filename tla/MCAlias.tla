------------------------------- MODULE MCAlias -------------------------------
(***************************************************************************)
(* Every table of aliases of three words, with replacements of up to two   *)
(* words, and every command line of up to two: chains, aliases of command  *)
(* names, and circles of one, two and three aliases are all among them.    *)
(***************************************************************************)
EXTENDS Alias

MCWord == {"show", "SHOW", "DB"}
MCUpper == [w \in MCWord |-> IF w = "show" THEN "SHOW" ELSE w]
MCCommands == <<[words |-> <<"SHOW", "DB">>, min |-> 2, max |-> 2,
                 handler |-> TRUE]>>
=============================================================================
