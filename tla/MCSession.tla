----------------------------- MODULE MCSession -----------------------------
(***************************************************************************)
(* The configuration of the manual's section on database visibility, with  *)
(* three more databases: "eng" twice, for everybody who has authenticated  *)
(* and for the staff, and one whose module has no database support.        *)
(***************************************************************************)
EXTENDS Session, TLC

CONSTANTS terms, eng, eng2, plain, local, remote, ann, bob, anonymous, staff,
          word, prefix, short, m1, m2, m3

Entry(allow, auth, groups, from) ==
    [allow |-> allow, authenticated |-> auth, groups |-> groups, acl |-> 0,
     from |-> from]

McClient == {local, remote}
McAclTable ==
    << \* acl glob-vis { allow authenticated; deny all; }
       << Entry(TRUE, TRUE, {}, McClient), Entry(FALSE, FALSE, {}, McClient) >>,
       \* acl local-nets { allow from (...); }
       << Entry(TRUE, FALSE, {}, {local}) >>,
       \* acl staff { deny acl glob-vis from remote; allow group staff; deny all; }
       << [Entry(FALSE, FALSE, {}, {remote}) EXCEPT !.acl = 1],
          Entry(TRUE, FALSE, {staff}, McClient),
          Entry(FALSE, FALSE, {}, McClient) >> >>

McDbSeq == <<terms, eng, eng2, plain>>
McNameOf == (terms :> "terms") @@ (eng :> "eng") @@ (eng2 :> "eng")
            @@ (plain :> "plain")
McModuleOf == (terms :> m1) @@ (eng :> m1) @@ (eng2 :> m2) @@ (plain :> m3)
McDbAcl == (terms :> 2) @@ (eng :> 0) @@ (eng2 :> 3) @@ (plain :> 0)
McModLang == (terms :> <<Null, Null>>) @@ (eng :> <<{"en"}, {"fr"}>>)
             @@ (eng2 :> <<{"de"}, Null>>) @@ (plain :> <<{"*"}, Null>>)
McGroupsOf == (ann :> {staff}) @@ (bob :> {})
McLangArgs == { <<>>, <<"en">>, <<"de", ":">>, <<":", "fr">> }
McHits == [ db \in {terms, eng, eng2, plain} |->
              (word :> IF db = terms THEN 0 ELSE 1) @@ (short :> 1)
              @@ (prefix :> IF db = eng2 THEN 2 ELSE -1) ]

\* The manual, of this configuration: the database terms "is visible to
\* everybody coming from the 192.168.10.0/24 network [...] without
\* authorization.  It is not visible to users coming from elsewhere, unless
\* they authenticate themselves."  (It has no language that a preference
\* could reject.)
TermsAsDocumented ==
    InSession /\ terms \in database_list =>
        (terms \in visible <=> client_addr = local \/ user_name # NoUser)
============================================================================
