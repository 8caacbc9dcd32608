-------------------------------- MODULE Acl --------------------------------
(***************************************************************************)
(* Access control lists of dicod (dicod/acl.c).                            *)
(*                                                                         *)
(* AclTable is the table of the lists the configuration defines, in the    *)
(* order of their definitions; a list is named by its index and 0 stands   *)
(* for the NULL list.  An entry has the fields                             *)
(*   allow          allow or deny,                                         *)
(*   authenticated  the entry is for authenticated users,                  *)
(*   groups         the groups it is for ({}: no group clause),            *)
(*   acl            the list it branches to,                               *)
(*   from           the addresses its `from' clause accepts; the clauses   *)
(*                  `from any' and no clause at all accept every address.  *)
(* A requester is [user, groups, addr]; user is NoUser before AUTH.        *)
(***************************************************************************)
EXTENDS Integers, Sequences

CONSTANTS AclTable, NoUser

\* A sub-list is looked up by name while the entry is parsed, so it is one of
\* the lists defined earlier (or the list itself, whose check would not end).
ASSUME AclAssumption ==
    /\ Len(AclTable) \in Nat
    /\ \A i \in 1..Len(AclTable) :
         /\ Len(AclTable[i]) \in Nat
         /\ \A j \in 1..Len(AclTable[i]) : AclTable[i][j].acl \in 0..(i - 1)

\* _acl_check: does the entry match?  `branch' is the verdict of its sub-list.
EntryMatches(ent, who, branch) ==
    /\ ent.authenticated => who.user # NoUser
    /\ ent.groups # {} => ent.groups \cap who.groups # {}
    /\ branch
    /\ who.addr \in ent.from

\* The verdict of every list: the first entry that matches decides, and the
\* caller's default stands when none does.
Verdict(who) ==
    LET v[acl \in 0..Len(AclTable)] ==
          LET entries == IF acl = 0 THEN <<>> ELSE AclTable[acl]
              hits == { j \in 1..Len(entries) :
                          EntryMatches(entries[j], who, v[entries[j].acl][TRUE]) }
              first == CHOOSE j \in hits : \A k \in hits : j <= k
          IN  [ result \in BOOLEAN |->
                  IF hits = {} THEN result ELSE entries[first].allow ]
    IN  v

dicod_acl_check(acl, result, who) == Verdict(who)[acl][result]
============================================================================
