---------------------------- MODULE SessionProof ----------------------------
(***************************************************************************)
(* The invariants of Session, for every configuration of databases, ACLs,  *)
(* languages and users and without the bounds of the model: the visibility *)
(* cache is never stale, the databases in reach are open, and an identity  *)
(* does not outlive its session.                                           *)
(***************************************************************************)
EXTENDS Session, FiltersProof

\* The initial state satisfies the inductive invariant.
LEMMA SessionInit == Init => SessionInv
  BY DEF Init, SessionInv, StartedUp, Usable, VisibilityFresh,
         SessionIdentity, InSession, Db

\* load_modules and init_databases establish what they promise of the
\* databases they leave in the list.
LEMMA StartUpStep == SessionInv /\ (load_modules \/ init_databases) => SessionInv'
<1>. SUFFICES ASSUME SessionInv, load_modules \/ init_databases PROVE SessionInv'
  OBVIOUS
<1>. USE DEF SessionInv, InSession
<1>1. CASE load_modules
  <2>1. StartedUp'
    BY <1>1 DEF load_modules, StartedUp, Instances, StillHandled
  <2>2. Usable' /\ VisibilityFresh'
    BY <1>1 DEF load_modules, Usable, VisibilityFresh
  <2>3. SessionIdentity'
    BY <1>1 DEF load_modules, SessionIdentity, identity
  <2>. QED  BY <2>1, <2>2, <2>3
<1>2. CASE init_databases
  <2>1. StartedUp'
    BY <1>2 DEF init_databases, StartedUp, Unsupported
  <2>2. Usable' /\ VisibilityFresh'
    BY <1>2, <2>1 DEF init_databases, StartedUp, Usable, VisibilityFresh
  <2>3. SessionIdentity'
    BY <1>2 DEF init_databases, SessionIdentity, identity
  <2>. QED  BY <2>1, <2>2, <2>3
<1>. QED  BY <1>1, <1>2

\* A new session opens the databases it keeps and checks their visibility.
LEMMA StartStep ==
    ASSUME SessionInv, NEW addr \in Client, StartSession(addr) PROVE SessionInv'
<1>. USE DEF SessionInv, InSession
<1>1. StartedUp' /\ Usable'
  BY DEF StartSession, StartedUp, Usable, Opened
<1>2. VisibilityFresh'
  BY DEF StartSession, VisibilityFresh, identity, options
<1>3. SessionIdentity'
  BY DEF StartSession, SessionIdentity, identity
<1>. QED  BY <1>1, <1>2, <1>3

\* Whatever ends a session leaves the state of an idle server, or none.
LEMMA EndStep ==
    SessionInv /\ (EndSession \/ sig_alarm \/ ClientAborts) => SessionInv'
<1>. SUFFICES ASSUME SessionInv, EndSession \/ sig_alarm \/ ClientAborts
              PROVE  SessionInv'
  OBVIOUS
<1>. USE DEF SessionInv, InSession
<1>0. pc \in {"serving", "sasl"} /\ UNCHANGED <<loaded, initialised, master_list>>
  BY DEF EndSession, sig_alarm, ClientAborts, Die, Forget
<1>1. CASE Forget
  BY <1>0, <1>1 DEF Forget, StartedUp, Usable, VisibilityFresh, SessionIdentity
<1>2. CASE CleanUp
  BY <1>0, <1>2 DEF CleanUp, CleanUpLeaving, StartedUp, Usable, VisibilityFresh,
                    SessionIdentity
<1>3. CASE pc' = "gone" /\ UNCHANGED <<database_list, identity>>
  BY <1>0, <1>3 DEF StartedUp, Usable, VisibilityFresh, SessionIdentity, identity
<1>. QED
  BY <1>1, <1>2, <1>3 DEF EndSession, sig_alarm, ClientAborts, Die

\* Commands leave the databases alone, and those that leave the visible flags
\* alone leave the identity and the preferences alone too.
LEMMA PlainCommand ==
    ASSUME SessionInv, pc \in {"serving", "sasl"}, pc' \in {"serving", "sasl"},
           UNCHANGED <<Kept, visible, identity, prefs>>
    PROVE  SessionInv'
<1>. USE DEF SessionInv, InSession, Kept, catalog, identity
<1>1. StartedUp' /\ Usable'
  BY DEF StartedUp, Usable
<1>2. VisibilityFresh'
  BY DEF VisibilityFresh
<1>3. SessionIdentity'
  BY DEF SessionIdentity
<1>. QED  BY <1>1, <1>2, <1>3

\* A command that changes the identity or the preferences checks the flags.
LEMMA RecheckingCommand ==
    ASSUME SessionInv, pc \in {"serving", "sasl"}, pc' \in {"serving", "sasl"},
           UNCHANGED Kept, Recheck, SessionIdentity'
    PROVE  SessionInv'
<1>. USE DEF SessionInv, InSession, Kept, catalog
<1>1. StartedUp' /\ Usable'
  BY DEF StartedUp, Usable
<1>2. VisibilityFresh'
  BY DEF VisibilityFresh, Recheck
<1>. QED  BY <1>1, <1>2

\* Logging in as a user of the database, whose groups may not be found.
LEMMA LogInUser ==
    ASSUME SessionInv, pc \in {"serving", "sasl"}, pc' \in {"serving", "sasl"},
           NEW u \in User, LogIn(u), GetGroups(u)
    PROVE  SessionIdentity'
  BY DEF SessionInv, SessionIdentity, LogIn, GetGroups, InSession

\* A successful SASL exchange.
LEMMA SaslStep ==
    ASSUME SessionInv, pc \in {"serving", "sasl"}, SaslSuccess PROVE SessionInv'
<1>1. pc' = "serving" /\ UNCHANGED Kept /\ Recheck
  BY DEF SaslSuccess
<1>2. SessionIdentity'
  <2>1. CASE \E u \in User : LogIn(u) /\ GetGroups(u)
    BY <1>1, <2>1, LogInUser
  <2>2. CASE LogIn(Anon) /\ user_groups' = IF AnonGroups = Null THEN user_groups
                                           ELSE AnonGroups
    BY <1>1, <2>2 DEF SessionInv, SessionIdentity, LogIn, InSession
  <2>. QED  BY <2>1, <2>2 DEF SaslSuccess
<1>. QED  BY <1>1, <1>2, RecheckingCommand

\* Every step keeps the inductive invariant.
LEMMA SessionStep == SessionInv /\ [Next]_vars => SessionInv'
<1>. SUFFICES ASSUME SessionInv, [Next]_vars PROVE SessionInv'
  OBVIOUS
<1>1. CASE load_modules \/ init_databases
  BY <1>1, StartUpStep
<1>2. CASE \E addr \in Client : StartSession(addr)
  BY <1>2, StartStep
<1>3. CASE EndSession \/ sig_alarm \/ ClientAborts
  BY <1>3, EndStep
<1>4. CASE \E u \in User : dicod_auth(u)
  <2>. PICK u \in User : dicod_auth(u)
    BY <1>4
  <2>1. pc = "serving" /\ pc' = pc /\ UNCHANGED Kept /\ Recheck
    BY DEF dicod_auth, Command
  <2>2. LogIn(u) /\ GetGroups(u)
    BY DEF dicod_auth
  <2>. QED  BY <2>1, <2>2, LogInUser, RecheckingCommand
<1>5. CASE AuthFails \/ dicod_client \/ dicod_show_databases
  <2>1. pc = "serving" /\ pc' = pc /\ UNCHANGED <<Kept, visible, identity, prefs>>
    BY <1>5 DEF AuthFails, dicod_client, dicod_show_databases, Command, options
  <2>. QED  BY <2>1, PlainCommand
<1>6. CASE dicod_saslauth \/ SaslResponse
  <2>0. pc \in {"serving", "sasl"}
    BY <1>6 DEF dicod_saslauth, SaslResponse, Command
  <2>1. CASE SaslSuccess
    BY <2>0, <2>1, SaslStep
  <2>2. ASSUME NEW code, NEW next \in {"serving", "sasl"}, SaslReply(code, next)
        PROVE  SessionInv'
    <3>1. pc' = next /\ UNCHANGED <<Kept, visible, identity, prefs>>
      BY <2>2 DEF SaslReply, options
    <3>. QED  BY <2>0, <3>1, PlainCommand
  <2>. QED  BY <1>6, <2>1, <2>2 DEF dicod_saslauth, SaslResponse
<1>7. CASE \E args \in LangArgs : dicod_lang(args)
  <2>1. pc = "serving" /\ pc' = pc /\ UNCHANGED <<Kept, identity>> /\ Recheck
    BY <1>7 DEF dicod_lang, Command
  <2>2. SessionIdentity'
    BY <2>1 DEF SessionInv, SessionIdentity, identity, InSession
  <2>. QED  BY <2>1, <2>2, RecheckingCommand
<1>8. CASE \E q \in Query, scope \in {"!", "*"} \cup Range(NameOf) : Search(q, scope)
  <2>1. pc = "serving" /\ pc' = pc /\ UNCHANGED <<Kept, visible, identity, prefs>>
    BY <1>8 DEF Search, Command, options
  <2>. QED  BY <2>1, PlainCommand
<1>9. CASE UNCHANGED vars
  <2>. USE <1>9 DEF vars, catalog, identity, SessionInv, InSession
  <2>1. StartedUp' /\ Usable'
    BY DEF StartedUp, Usable
  <2>2. VisibilityFresh'
    BY DEF VisibilityFresh, options
  <2>3. SessionIdentity'
    BY DEF SessionIdentity
  <2>. QED  BY <2>1, <2>2, <2>3
<1>. QED
  BY <1>1, <1>2, <1>3, <1>4, <1>5, <1>6, <1>7, <1>8, <1>9 DEF Next

\* Between two commands of a session every visible flag is what the ACLs, the
\* client's identity and its language preferences make of it.
THEOREM SessionVisibility == Spec => []VisibilityFresh
<1>1. SessionInv => VisibilityFresh
  BY DEF SessionInv
<1>. QED  BY <1>1, SessionInit, SessionStep, PTL DEF Spec

\* The databases a search reaches are loaded, initialised and opened by the
\* session, and none stays open after it.
THEOREM SessionUsable == Spec => []Usable
<1>1. SessionInv => Usable
  BY DEF SessionInv
<1>. QED  BY <1>1, SessionInit, SessionStep, PTL DEF Spec

\* The groups in force are groups of somebody who has authenticated in the
\* session, with or without children.
THEOREM SessionOwnsIdentity == Spec => []SessionIdentity
<1>1. SessionInv => SessionIdentity
  BY DEF SessionInv
<1>. QED  BY <1>1, SessionInit, SessionStep, PTL DEF Spec

----------------------------------------------------------------------------
(* Access control lists.                                                   *)

\* A pass of _acl_check over a list, given the verdicts g of its sub-lists.
AclHits(who, g, acl) ==
    LET entries == IF acl = 0 THEN <<>> ELSE AclTable[acl]
    IN  { j \in 1..Len(entries) :
            EntryMatches(entries[j], who, g[entries[j].acl][TRUE]) }

AclStep(who, g, acl) ==
    LET entries == IF acl = 0 THEN <<>> ELSE AclTable[acl]
        hits == AclHits(who, g, acl)
        first == CHOOSE j \in hits : \A k \in hits : j <= k
    IN  [ result \in BOOLEAN |->
            IF hits = {} THEN result ELSE entries[first].allow ]

\* A pass uses the verdicts of lists that are defined earlier only.
LEMMA AclEarlier ==
    ASSUME NEW who, NEW acl \in 0..Len(AclTable), NEW g, NEW h,
           \A i \in 0..(acl - 1) : g[i] = h[i]
    PROVE  AclStep(who, g, acl) = AclStep(who, h, acl)
<1>1. AclHits(who, g, acl) = AclHits(who, h, acl)
  <2>1. CASE acl = 0
    BY <2>1 DEF AclHits
  <2>2. CASE acl # 0
    <3>1. acl \in 1..Len(AclTable)
      BY <2>2, AclAssumption
    <3>2. \A j \in 1..Len(AclTable[acl]) : AclTable[acl][j].acl \in 0..(acl - 1)
      BY <3>1, AclAssumption
    <3> QED BY <2>2, <3>2, Zenon DEF AclHits
  <2> QED BY <2>1, <2>2
<1> QED BY <1>1 DEF AclStep

\* The recursion of the verdicts is well founded.
LEMMA AclRecursion ==
    ASSUME NEW who
    PROVE  Verdict(who) = [acl \in 0..Len(AclTable) |-> AclStep(who, Verdict(who), acl)]
<1> DEFINE Solved == {n \in Nat : n <= Len(AclTable) =>
                        \E g : g = [acl \in 0..n |-> AclStep(who, g, acl)]}
<1>0. Len(AclTable) \in Nat
  BY AclAssumption
<1>1. 0 \in Solved
  <2> DEFINE g == [acl \in 0..0 |-> AclStep(who, <<>>, acl)]
  <2>1. \A acl \in 0..0 : AclStep(who, <<>>, acl) = AclStep(who, g, acl)
    BY <1>0, AclEarlier
  <2>2. g = [acl \in 0..0 |-> AclStep(who, g, acl)]
    BY <2>1
  <2> HIDE DEF g
  <2> QED BY <2>2
<1>2. ASSUME NEW n \in Solved PROVE n + 1 \in Solved
  <2> SUFFICES ASSUME n + 1 <= Len(AclTable)
               PROVE  \E g : g = [acl \in 0..n + 1 |-> AclStep(who, g, acl)]
    OBVIOUS
  <2>1. PICK g : g = [acl \in 0..n |-> AclStep(who, g, acl)]
    BY <1>0
  <2>2. \A acl \in 0..n : g[acl] = AclStep(who, g, acl)
    BY <2>1, Zenon
  <2> DEFINE h == [acl \in 0..n + 1 |->
                     IF acl = n + 1 THEN AclStep(who, g, n + 1) ELSE g[acl]]
  <2>3. ASSUME NEW acl \in 0..n + 1 PROVE h[acl] = AclStep(who, h, acl)
    <3>1. \A i \in 0..(acl - 1) : g[i] = h[i]
      OBVIOUS
    <3>2. AclStep(who, g, acl) = AclStep(who, h, acl)
      <4> HIDE DEF h
      <4>1. acl \in 0..Len(AclTable)
        BY <1>0
      <4> QED BY <3>1, <4>1, AclEarlier
    <3>3. acl # n + 1 => g[acl] = AclStep(who, g, acl)
      BY <2>2
    <3> QED BY <3>2, <3>3
  <2>4. h = [acl \in 0..n + 1 |-> AclStep(who, h, acl)]
    BY <2>3
  <2> HIDE DEF h
  <2> QED BY <2>4
<1>3. Solved = Nat
  <2> HIDE DEF Solved
  <2>1. Solved \in SUBSET Nat
    BY DEF Solved
  <2> QED BY <1>1, <1>2, <2>1, SetInduction
<1>4. \E g : g = [acl \in 0..Len(AclTable) |-> AclStep(who, g, acl)]
  BY <1>0, <1>3
<1>5. Verdict(who) = CHOOSE g : g = [acl \in 0..Len(AclTable) |-> AclStep(who, g, acl)]
  BY DEF Verdict, AclStep, AclHits
<1> QED BY <1>4, <1>5, Zenon

\* dicod_acl_check: the NULL list leaves the caller's default; in any other
\* list the first entry that matches decides, where an entry with a sub-list
\* matches only if that list, by default, allows; and the default stands when
\* no entry matches.
THEOREM AclFirstMatch ==
    ASSUME NEW who, NEW result \in BOOLEAN
    PROVE  /\ dicod_acl_check(0, result, who) = result
           /\ \A acl \in 1..Len(AclTable) :
                LET matches(j) == EntryMatches(AclTable[acl][j], who,
                                    dicod_acl_check(AclTable[acl][j].acl, TRUE, who))
                IN  \/ /\ \A j \in 1..Len(AclTable[acl]) : ~matches(j)
                       /\ dicod_acl_check(acl, result, who) = result
                    \/ \E j \in 1..Len(AclTable[acl]) :
                         /\ matches(j) /\ \A k \in 1..(j - 1) : ~matches(k)
                         /\ dicod_acl_check(acl, result, who) = AclTable[acl][j].allow
<1> DEFINE V == Verdict(who)
<1>0. Len(AclTable) \in Nat
  BY AclAssumption
<1>1. \A acl \in 0..Len(AclTable) : V[acl] = AclStep(who, V, acl)
  <2>1. V = [acl \in 0..Len(AclTable) |-> AclStep(who, V, acl)]
    BY AclRecursion
  <2> HIDE DEF V
  <2> QED BY <2>1, Zenon
<1>2. dicod_acl_check(0, result, who) = result
  <2>1. dicod_acl_check(0, result, who) = AclStep(who, V, 0)[result]
    BY <1>0, <1>1 DEF dicod_acl_check
  <2>2. AclHits(who, V, 0) = {}
    BY DEF AclHits
  <2> QED BY <2>1, <2>2 DEF AclStep
<1>3. ASSUME NEW acl \in 1..Len(AclTable)
      PROVE  LET matches(j) == EntryMatches(AclTable[acl][j], who,
                                 dicod_acl_check(AclTable[acl][j].acl, TRUE, who))
             IN  \/ /\ \A j \in 1..Len(AclTable[acl]) : ~matches(j)
                    /\ dicod_acl_check(acl, result, who) = result
                 \/ \E j \in 1..Len(AclTable[acl]) :
                      /\ matches(j) /\ \A k \in 1..(j - 1) : ~matches(k)
                      /\ dicod_acl_check(acl, result, who) = AclTable[acl][j].allow
  <2> DEFINE matches(j) == EntryMatches(AclTable[acl][j], who,
                             dicod_acl_check(AclTable[acl][j].acl, TRUE, who))
             hits == { j \in 1..Len(AclTable[acl]) : matches(j) }
             first == CHOOSE j \in hits : \A k \in hits : j <= k
  <2>1. Len(AclTable[acl]) \in Nat /\ acl \in 0..Len(AclTable) /\ acl # 0
    BY <1>0, AclAssumption
  <2>2. AclHits(who, V, acl) = hits
    BY <2>1 DEF AclHits, dicod_acl_check
  <2>3. dicod_acl_check(acl, result, who)
          = IF hits = {} THEN result ELSE AclTable[acl][first].allow
    <3>1. dicod_acl_check(acl, result, who) = AclStep(who, V, acl)[result]
      BY <1>1, <2>1 DEF dicod_acl_check
    <3> HIDE DEF hits, V
    <3> QED BY <2>1, <2>2, <3>1 DEF AclStep
  <2>4. CASE hits = {}
    BY <2>3, <2>4, Zenon
  <2>5. CASE hits # {}
    <3>1. hits \in SUBSET Nat
      <4>1. hits \subseteq 1..Len(AclTable[acl])
        BY Zenon
      <4> HIDE DEF hits
      <4> QED BY <2>1, <4>1
    <3>2. first \in hits /\ \A k \in hits : first <= k
      BY <2>5, <3>1, LeastOf, Zenon
    <3> HIDE DEF first
    <3>3. \A k \in 1..(first - 1) : ~matches(k)
      <4>1. SUFFICES ASSUME NEW k \in 1..(first - 1), matches(k) PROVE FALSE
        BY Zenon
      <4>2. k \in 1..Len(AclTable[acl]) /\ k < first
        BY <2>1, <3>2
      <4>3. k \in hits
        BY <4>1, <4>2, Zenon
      <4>4. first <= k /\ first \in Nat
        <5> HIDE DEF hits
        <5> QED BY <3>1, <3>2, <4>3
      <4> HIDE DEF hits, matches
      <4> QED BY <4>2, <4>4
    <3> QED BY <2>3, <2>5, <3>2, <3>3, Zenon
  <2> QED BY <2>4, <2>5, Zenon
<1> QED BY <1>2, <1>3, ZenonT(30)

----------------------------------------------------------------------------
(* Types.                                                                  *)

\* What TypeOK needs to be inductive: no flag is set before the first session.
SessionTypes ==
    /\ TypeOK
    /\ pc \in {"load", "init"} => visible = {} /\ master_list = Db

\* A list that OPTION LANG makes of its arguments is not empty.
LEMMA PrefListFull ==
    ASSUME NEW args \in Seq(STRING) PROVE PrefList(args) # {}
<1>1. CASE args = <<>>
  BY <1>1, SessionAssumption DEF PrefList
<1>2. CASE args # <<>>
  <2>1. 1 \in DOMAIN args
    BY <1>2, Indexed, NoElements
  <2> QED BY <1>2, <2>1 DEF PrefList, Range
<1> QED BY <1>1, <1>2

\* ... and neither is a list of the preferences it sets.
LEMMA ParsePrefsFull ==
    ASSUME NEW args \in Seq(STRING), NEW k \in {"lazy", "src", "dst"}
    PROVE  ParsePrefs(args)[k] # {}
<1> DEFINE colons == { i \in 1..Len(args) : args[i] = ":" }
           c == CHOOSE i \in colons : \A j \in colons : i <= j
<1>0. Null # {} /\ Len(args) \in Nat
  BY SessionAssumption
<1>1. CASE colons = {}
  BY <1>0, <1>1, PrefListFull DEF ParsePrefs, NoPrefs
<1>2. CASE colons # {}
  <2>1. colons \in SUBSET Nat
    OBVIOUS
  <2>2. c \in 1..Len(args)
    BY <1>2, <2>1, LeastOf, Zenon
  <2> HIDE DEF c
  <2>3. /\ SubSeq(args, 1, c - 1) \in Seq(STRING)
        /\ SubSeq(args, c + 1, Len(args)) \in Seq(STRING)
    BY <1>0, <2>2, Parts
  <2>4. ParsePrefs(args) = [NoPrefs EXCEPT
             !.src = PrefList(SubSeq(args, 1, c - 1)),
             !.dst = PrefList(SubSeq(args, c + 1, Len(args)))]
    BY <1>2 DEF ParsePrefs, c
  <2> QED BY <1>0, <2>3, <2>4, PrefListFull, Zenon DEF NoPrefs
<1> QED BY <1>1, <1>2

\* The initial state is well typed.
LEMMA TypesInit == Init => SessionTypes
<1> SUFFICES ASSUME Init PROVE SessionTypes
  OBVIOUS
<1>1. \A k \in {"lazy", "src", "dst"} : prefs[k] # {}
  BY SessionAssumption DEF Init, NoPrefs
<1> QED BY <1>1 DEF Init, SessionTypes, TypeOK

\* What ends a session leaves no flag of a database that is not in the list.
LEMMA TypesEnd ==
    SessionTypes /\ (EndSession \/ sig_alarm \/ ClientAborts) => SessionTypes'
<1> SUFFICES ASSUME SessionTypes, EndSession \/ sig_alarm \/ ClientAborts
             PROVE  SessionTypes'
  OBVIOUS
<1>0. /\ pc \in {"serving", "sasl"}
      /\ UNCHANGED <<single_process, client_addr, master_list>>
  BY DEF EndSession, sig_alarm, ClientAborts, Die
<1>1. CASE Forget
  <2>1. \A k \in {"lazy", "src", "dst"} : prefs'[k] # {}
    BY <1>1, SessionAssumption DEF Forget, NoPrefs
  <2> QED BY <1>0, <1>1, <2>1 DEF Forget, SessionTypes, TypeOK
<1>2. CASE CleanUp
  BY <1>0, <1>2 DEF CleanUp, CleanUpLeaving, SessionTypes, TypeOK
<1>3. CASE pc' = "gone" /\ UNCHANGED <<database_list, visible, identity, options>>
  BY <1>0, <1>3, Zenon, SMTT(30) DEF SessionTypes, TypeOK, identity, options
<1> QED
  BY <1>1, <1>2, <1>3 DEF EndSession, sig_alarm, ClientAborts, Die

\* Every step keeps the types.
LEMMA TypesStep == SessionTypes /\ [Next]_vars => SessionTypes'
<1> SUFFICES ASSUME SessionTypes, [Next]_vars PROVE SessionTypes'
  OBVIOUS
<1> USE DEF SessionTypes, TypeOK
<1>1. CASE load_modules
  BY <1>1, ZenonT(30) DEF load_modules, StillHandled, identity, options
<1>2. CASE init_databases
  BY <1>2, ZenonT(30) DEF init_databases, identity, options
<1>3. CASE \E addr \in Client : StartSession(addr)
  <2> PICK addr \in Client : StartSession(addr)
    BY <1>3, Zenon, SMTT(30)
  <2>1. database_list' \subseteq database_list /\ visible' \subseteq database_list'
    BY DEF StartSession, Opened, check_db_visibility
  <2> QED BY <2>1 DEF StartSession, identity, options
<1>4. CASE EndSession \/ sig_alarm \/ ClientAborts
  BY <1>4, TypesEnd, Zenon, SMTT(30)
<1>5. CASE \E u \in User : dicod_auth(u)
  BY <1>5, ZenonT(30) DEF dicod_auth, Command, LogIn, Recheck, check_db_visibility, Kept, catalog
<1>6. CASE AuthFails \/ dicod_client \/ dicod_show_databases
  BY <1>6, SMTT(30) DEF AuthFails, dicod_client, dicod_show_databases, Command, Kept,
              catalog, identity, options
<1>7. CASE dicod_saslauth \/ SaslResponse
  <2>0. pc \in {"serving", "sasl"}
    BY <1>7 DEF dicod_saslauth, SaslResponse, Command
  <2>1. CASE SaslSuccess
    BY <2>0, <2>1, Zenon DEF SaslSuccess, LogIn, Recheck, check_db_visibility, Kept, catalog
  <2>2. ASSUME NEW code, NEW next \in {"serving", "sasl"}, SaslReply(code, next)
        PROVE  SessionTypes'
    BY <2>0, <2>2, Zenon, SMTT(30) DEF SaslReply, Kept, catalog, identity, options
  <2> QED BY <1>7, <2>1, <2>2, ZenonT(30) DEF dicod_saslauth, SaslResponse
<1>8. CASE \E args \in LangArgs : dicod_lang(args)
  <2> PICK args \in LangArgs : dicod_lang(args)
    BY <1>8
  <2>1. args \in Seq(STRING)
    BY SessionAssumption
  <2>2. \A k \in {"lazy", "src", "dst"} : prefs'[k] # {}
    BY <2>1, ParsePrefsFull, Zenon, SMTT(30) DEF dicod_lang
  <2> QED BY <2>2 DEF dicod_lang, Command, Recheck, check_db_visibility, Kept,
                      catalog, identity
<1>9. CASE \E q \in Query, scope \in {"!", "*"} \cup Range(NameOf) : Search(q, scope)
  BY <1>9, Zenon DEF Search, Command, Kept, catalog, identity, options
<1>10. CASE UNCHANGED vars
  BY <1>10 DEF vars, catalog, identity, options
<1> QED
  BY <1>1, <1>2, <1>3, <1>4, <1>5, <1>6, <1>7, <1>8, <1>9, <1>10, ZenonT(30) DEF Next

\* The flags that are set belong to databases of the list, which is a part of
\* the master's, and no step leaves an empty list of language preferences.
THEOREM SessionTyped == Spec => []TypeOK
<1>1. SessionTypes => TypeOK
  BY DEF SessionTypes
<1> QED BY <1>1, TypesInit, TypesStep, PTL DEF Spec

----------------------------------------------------------------------------
(* Names and answers.                                                      *)

\* The places of the databases that SHOW DB lists, in the list of all.
LEMMA ShownPlaces ==
    /\ DbSeq \in Seq(Db) /\ Shown \in Seq(Db)
    /\ \E at : FilterAt(at, Shown, DbSeq, database_list \cap visible, Len(DbSeq))
  BY SessionAssumption, FilterPlaces DEF Shown, InOrder

\* find_database skips what SHOW DB does not list, in the same order.
LEMMA FirstShown ==
    ASSUME NEW name
    PROVE  LET i == find_database(name)
               j == FirstOf(Shown, LAMBDA db : NameOf[db] = name)
           IN  IF j = 0 THEN i = 0 ELSE i # 0 /\ DbSeq[i] = Shown[j]
<1> DEFINE T == database_list \cap visible
           I == {i \in 1..Len(DbSeq) : /\ DbSeq[i] \in database_list
                                       /\ NameOf[DbSeq[i]] = name
                                       /\ DbSeq[i] \in visible}
           J == {j \in 1..Len(Shown) : NameOf[Shown[j]] = name}
<1>1. PICK at : FilterAt(at, Shown, DbSeq, T, Len(DbSeq))
  BY ShownPlaces
<1>2. /\ \A k \in 1 .. Len(Shown) : /\ at[k] \in 1 .. Len(DbSeq)
                                    /\ Shown[k] = DbSeq[at[k]]
                                    /\ DbSeq[at[k]] \in T
      /\ \A k, m \in 1 .. Len(Shown) : k < m => at[k] < at[m]
      /\ \A j \in 1 .. Len(DbSeq) :
           DbSeq[j] \in T => \E k \in 1 .. Len(Shown) : at[k] = j
  BY <1>1, Zenon DEF FilterAt
<1>3. /\ find_database(name) = IF I # {} THEN Least(I) ELSE 0
      /\ FirstOf(Shown, LAMBDA db : NameOf[db] = name)
           = IF J # {} THEN Least(J) ELSE 0
  BY DEF find_database, FirstOf
<1>4. I \in SUBSET Nat /\ J \in SUBSET Nat /\ 0 \notin J /\ 0 \notin I
  BY ShownPlaces
<1>5. \A i \in 1 .. Len(DbSeq) : i \in I <=> \E j \in J : at[j] = i
  BY <1>2
<1>6. \A j \in J : at[j] \in I
  BY <1>2
<1>7. CASE J = {}
  <2>1. I = {}
    BY <1>5, <1>7
  <2> QED BY <1>3, <1>7, <2>1
<1>8. CASE J # {}
  <2>1. Least(J) \in J /\ \A j \in J : Least(J) <= j
    BY <1>4, <1>8, LeastOf, Zenon DEF Least
  <2>2. I # {}
    BY <1>6, <1>8
  <2>3. Least(I) \in I /\ \A i \in I : Least(I) <= i
    BY <1>4, <2>2, LeastOf, Zenon DEF Least
  <2>4. PICK j \in J : at[j] = Least(I)
    BY <1>5, <2>3, Zenon
  <2>5. Least(I) <= at[Least(J)]
    BY <1>6, <2>1, <2>3, Zenon, SMTT(30)
  <2>6. ~(Least(J) < j)
    <3>1. Least(J) \in 1 .. Len(Shown) /\ j \in 1 .. Len(Shown)
      BY <2>1
    <3>2. at[Least(J)] \in Int /\ at[j] \in Int /\ (Least(J) < j => at[Least(J)] < at[j])
      BY <1>2, <3>1
    <3> QED BY <2>4, <2>5, <3>2
  <2>7. j = Least(J)
    <3>1. Least(J) <= j /\ Least(J) \in Nat /\ j \in Nat
      BY <1>4, <2>1
    <3> QED BY <2>6, <3>1
  <2>8. DbSeq[Least(I)] = Shown[Least(J)]
    BY <1>2, <2>4, <2>7
  <2> QED BY <1>3, <1>4, <1>8, <2>1, <2>2, <2>3, <2>8
<1> QED BY <1>7, <1>8

\* A name that DEFINE, MATCH and SHOW INFO accept is one that SHOW DB lists,
\* and stands for the first database with that name in its list.
THEOREM SessionNames == Spec => []FindMatchesShow
<1>1. FindMatchesShow
  BY FirstShown, Zenon DEF FindMatchesShow
<1> QED BY <1>1, PTL

\* What AnswersEntitled needs to be inductive: an answer with databases is
\* given in a session, and they are listed and visible there.
AnswersShown ==
    \A db \in Range(reply.dbs) : InSession /\ db \in database_list \cap visible

\* A reply without databases says nothing.
LEMMA NoneShown ==
    ASSUME NEW code, reply' = Reply(code) PROVE AnswersShown'
<1>1. Range(reply'.dbs) = {}
  BY DEF Reply, Range
<1> QED BY <1>1 DEF AnswersShown

\* A search reports databases that it has been given.
LEMMA HitsGiven ==
    ASSUME NEW list \in Seq(Db), NEW q
    PROVE  /\ WithHits(list, q) \in Seq(Db)
           /\ Range(WithHits(list, q)) \subseteq Range(list)
  BY FilterPlaces, FilterRange DEF WithHits

\* ... and its answer has these, or none.
LEMMA FoundGiven ==
    ASSUME NEW list, NEW q PROVE Range(Found(q, list).dbs) \subseteq Range(list)
<1>1. Range(<<>>) = {}
  BY DEF Range
<1> QED BY <1>1 DEF Found, Reply

\* Whatever the scope, the databases of an answer are listed and visible.
LEMMA SearchShown ==
    ASSUME SessionTypes, NEW q, NEW scope, Search(q, scope) PROVE AnswersShown'
<1> DEFINE T == database_list \cap visible
           i == find_database(scope)
<1>0. InSession' /\ UNCHANGED <<database_list, visible>>
  BY DEF Search, Command, Kept, catalog, InSession
<1>1. Shown \in Seq(Db) /\ Range(Shown) \subseteq T
  BY ShownPlaces, FilterRange, SessionAssumption DEF Shown, InOrder
<1>2. ASSUME NEW code PROVE Range(Reply(code).dbs) = {}
  BY DEF Reply, Range
<1>3. Range(dicod_word_all(q).dbs) \subseteq T
  BY <1>1, <1>2, HitsGiven, FoundGiven DEF dicod_word_all
<1>4. Range(dicod_word_first(q).dbs) \subseteq T
  <2> DEFINE list == WithHits(Shown, q)
  <2>1. list \in Seq(Db) /\ Range(list) \subseteq T
    BY <1>1, HitsGiven
  <2> HIDE DEF list
  <2>2. CASE list # <<>>
    <3>1. 1 \in DOMAIN list
      BY <2>1, <2>2, Indexed, NoElements
    <3>2. Range(<<list[1]>>) \subseteq T
      BY <2>1, <3>1 DEF Range
    <3>3. \/ dicod_word_first(q) = Reply(552)
          \/ dicod_word_first(q) = Found(q, <<list[1]>>)
      BY <2>2 DEF dicod_word_first, list
    <3>4. Range(Found(q, <<list[1]>>).dbs) \subseteq T
      BY <3>2, FoundGiven
    <3> QED BY <1>2, <3>3, <3>4
  <2>3. CASE list = <<>>
    BY <1>2, <2>3 DEF dicod_word_first, list
  <2> QED BY <2>2, <2>3
<1>5. ASSUME i # 0 PROVE Range(dicod_word_db(DbSeq[i], q).dbs) \subseteq T
  <2>1. i \in 1 .. Len(DbSeq) /\ DbSeq[i] \in T
    <3> DEFINE I == {k \in 1..Len(DbSeq) : /\ DbSeq[k] \in database_list
                                           /\ NameOf[DbSeq[k]] = scope
                                           /\ DbSeq[k] \in visible}
    <3>1. i = IF I # {} THEN Least(I) ELSE 0
      BY DEF find_database, FirstOf
    <3>2. I \in SUBSET Nat
      OBVIOUS
    <3>3. i \in I
      BY <1>5, <3>1, <3>2, LeastOf DEF Least
    <3> QED BY <3>3
  <2> HIDE DEF i
  <2>2. DbSeq[i] \in Db
    BY <2>1, SessionAssumption, Indexed
  <2>3. <<DbSeq[i]>> \in Seq(Db) /\ Range(<<DbSeq[i]>>) \subseteq T
    BY <2>1, <2>2 DEF Range
  <2> QED BY <2>3, HitsGiven, FoundGiven, Zenon DEF dicod_word_db
<1>6. Range(reply'.dbs) \subseteq T
  BY <1>2, <1>3, <1>4, <1>5 DEF Search
<1> QED BY <1>0, <1>6 DEF AnswersShown

\* Every step keeps the answers to what the session shows.
LEMMA AnswersStep ==
    SessionTypes /\ AnswersShown /\ [Next]_vars => AnswersShown'
<1> SUFFICES ASSUME SessionTypes, AnswersShown, [Next]_vars PROVE AnswersShown'
  OBVIOUS
<1>1. CASE load_modules \/ init_databases
  BY <1>1 DEF load_modules, init_databases, AnswersShown, InSession, answer
<1>2. CASE \E addr \in Client : StartSession(addr)
  BY <1>2, NoneShown DEF StartSession
<1>3. CASE EndSession \/ sig_alarm \/ ClientAborts
  BY <1>3, NoneShown DEF EndSession, sig_alarm, ClientAborts, Die, NoReply
<1>4. CASE \/ \E u \in User : dicod_auth(u)
           \/ \E args \in LangArgs : dicod_lang(args)
           \/ AuthFails \/ dicod_client
  BY <1>4, NoneShown DEF dicod_auth, dicod_lang, AuthFails, dicod_client
<1>5. CASE dicod_saslauth \/ SaslResponse
  BY <1>5, NoneShown, ZenonT(30) DEF dicod_saslauth, SaslResponse, SaslSuccess, SaslReply
<1>6. CASE dicod_show_databases
  <2>1. CASE reply' = Reply(554)
    BY <2>1, NoneShown
  <2>2. CASE reply' = [code |-> 110, last |-> 250, dbs |-> Shown]
    <3>1. Range(Shown) \subseteq database_list \cap visible
      BY FilterRange, SessionAssumption DEF Shown, InOrder
    <3> QED BY <1>6, <2>2, <3>1 DEF AnswersShown, InSession,
                 dicod_show_databases, Command, Kept, catalog
  <2> QED BY <1>6, <2>1, <2>2 DEF dicod_show_databases
<1>7. CASE \E q \in Query, scope \in {"!", "*"} \cup Range(NameOf) : Search(q, scope)
  BY <1>7, SearchShown
<1>8. CASE UNCHANGED vars
  BY <1>8 DEF vars, catalog, answer, AnswersShown, InSession
<1> QED BY <1>1, <1>2, <1>3, <1>4, <1>5, <1>6, <1>7, <1>8 DEF Next

\* Every database that an answer names may be read by the client as it is
\* known now, agrees with its language preferences and is open.
THEOREM SessionEntitled == Spec => []AnswersEntitled
<1>1. Init => AnswersShown
  BY DEF Init, AnswersShown, NoReply, Reply, Range
<1>2. SessionInv /\ AnswersShown => AnswersEntitled
  BY DEF SessionInv, VisibilityFresh, Usable, AnswersShown, AnswersEntitled,
         check_db_visibility
<1> QED
  BY <1>1, <1>2, SessionInit, SessionStep, TypesInit, TypesStep, AnswersStep,
     PTL DEF Spec
============================================================================
