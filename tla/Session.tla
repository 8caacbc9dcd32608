------------------------------ MODULE Session ------------------------------
(***************************************************************************)
(* A dictionary session of dicod: the start-up of the modules and the      *)
(* databases, dicod_loop() and the commands that change what a client may  *)
(* see (AUTH, SASLAUTH, OPTION LANG) or that look something up (DEFINE,    *)
(* MATCH, SHOW DB, CLIENT, QUIT).                                          *)
(*                                                                         *)
(* A session runs in a child of the server, which starts from the state    *)
(* the master was left in by the start-up and takes its own state with it  *)
(* when it exits.  With --single-process all the sessions run one after    *)
(* the other in the server itself, and only what dicod_loop() cleans up    *)
(* is clean for the next client.                                           *)
(***************************************************************************)
EXTENDS Acl, Functions, FiniteSets, Filters

CONSTANTS
    DbSeq,        \* the database statements, in the order of the configuration
    NameOf,       \* their names; two statements may use the same name
    ModuleOf,     \* the module instance that handles a database
    NoDbModules,  \* the instances without database support
    DbAcl,        \* their visibility ACLs
    GlobalAcl,    \* the visibility ACL of the global scope
    ModLang,      \* the languages configured for a database, or what
                  \* dico_db_lang returns: <<source, destination>>
    LangConfigured, \* the databases whose languages are configured
    Client,       \* the addresses clients connect from
    User, Anon,   \* the users of the user database; the name of anonymous ones
    GroupsOf,     \* their groups, as the user database returns them
    AnonGroups,   \* sasl_anon_groups, or Null
    LangArgs,     \* the arguments OPTION LANG is tried with
    Query,        \* a word to look up, and how
    MatchQuery,   \* the queries of MATCH; the others are those of DEFINE
    Denied,       \* those that the strategy's deny statements refuse
    Hits,         \* the number of results a module finds, -1 for no result
    Null,
    MaxSession, MaxCommand, MaxFault

Db == Range(DbSeq)

ASSUME SessionAssumption ==
    /\ Denied \subseteq MatchQuery /\ MatchQuery \subseteq Query
    /\ \A c \in User \cup {Anon} : c # NoUser
    /\ DbSeq \in Seq(Db) /\ IsInjective(DbSeq)
    /\ LangArgs \subseteq Seq(STRING) /\ Null # {}

VARIABLES
    pc,              \* where the process is
    single_process,  \* the option --single-process
    database_list,   \* the databases in the list: the list only ever loses
                     \* elements, so that its order is the one of DbSeq
    loaded,          \* the module instances that are loaded
    initialised,     \* the databases with a module handle
    opened,          \* the databases that the session has opened
    visible,         \* the databases whose visible flag is set
    client_addr,     \* the address of the client
    user_name, user_groups,
    prefs,           \* dicod_lang_lazy_prefs and dicod_lang_prefs[0..1]
    client_id,       \* "null", "set" or "freed": freed and not reset
    saslauth,        \* is SASLAUTH in the command table?
    status,          \* the status codes kept for the access log
    reply,           \* the reply to the last command
    logged,          \* the status codes its access log entry shows
    authed,          \* who has authenticated in this session
    master_list,     \* the master's database_list
    sessions, commands, faults

catalog == <<database_list, loaded, initialised, opened>>
identity == <<user_name, user_groups, authed>>
options == <<prefs, client_id, saslauth>>
answer == <<status, reply, logged>>
budget == <<sessions, commands, faults>>
vars == <<pc, single_process, catalog, visible, client_addr, identity,
          options, answer, master_list, budget>>

----------------------------------------------------------------------------
(* Languages (dicod/lang.c, dicod/loader.c).  A list is a set or Null.     *)

NoPrefs == [lazy |-> Null, src |-> Null, dst |-> Null]

\* dicod_any_lang_list_p
AnyLang(list) == list \in {Null, {}, {"*"}}

\* dicod_get_database_languages: what the module returns is completed (a
\* missing list is a copy of the other one); what is configured is not.
Languages(db) ==
    LET raw == ModLang[db]
        both == << IF raw[1] = Null THEN raw[2] ELSE raw[1],
                   IF raw[2] = Null THEN raw[1] ELSE raw[2] >>
    IN  IF db \in LangConfigured THEN raw
        ELSE [ i \in 1..2 |-> IF AnyLang(both[i]) THEN Null ELSE both[i] ]

Meet(a, b) == a # Null /\ b # Null /\ a \cap b # {}

dicod_lang_check(list, p) ==
    \/ list[1] = Null /\ list[2] = Null
    \/ p.lazy # Null /\ (Meet(p.lazy, list[1]) \/ Meet(p.lazy, list[2]))
    \/ /\ p.lazy = Null
       /\ p.src = Null \/ list[1] = Null \/ Meet(p.src, list[1])
       /\ p.dst = Null \/ list[2] = Null \/ Meet(p.dst, list[2])

\* A bug to be caught: an empty list of preferences, which nothing satisfies.
PrefList_empty(args) == Range(args)

\* The list OPTION LANG makes of some of its arguments; none makes no list.
PrefList(args) == IF args = <<>> THEN Null ELSE Range(args)

\* dicod_lang: the first ":" separates source from destination languages,
\* and a list without one is a lazy preference for both.
ParsePrefs(args) ==
    LET colons == { i \in 1..Len(args) : args[i] = ":" }
        c == CHOOSE i \in colons : \A j \in colons : i <= j
    IN  IF colons = {}
        THEN [NoPrefs EXCEPT !.lazy = PrefList(args)]
        ELSE [NoPrefs EXCEPT !.src = PrefList(SubSeq(args, 1, c - 1)),
                             !.dst = PrefList(SubSeq(args, c + 1, Len(args)))]

----------------------------------------------------------------------------
(* Visibility (dicod/main.c).                                              *)

Who(user, groups, addr) == [user |-> user, groups |-> groups, addr |-> addr]

\* A bug to be caught: the ACL of a database does not override the global one.
MayRead_both(db, who) ==
    /\ dicod_acl_check(GlobalAcl, TRUE, who)
    /\ dicod_acl_check(DbAcl[db], TRUE, who)

MayRead(db, who) ==
    dicod_acl_check(DbAcl[db], dicod_acl_check(GlobalAcl, TRUE, who), who)

\* check_db_visibility, for the databases of a list
check_db_visibility(list, who, p) ==
    { db \in list : MayRead(db, who) /\ dicod_lang_check(Languages(db), p) }

\* Databases in the order of the list.
InOrder(dbs) == Filter(DbSeq, dbs)

\* A bug to be caught: the name alone decides.
find_database_name(name) ==
    LET i == FirstOf(DbSeq, LAMBDA db :
                           db \in database_list /\ NameOf[db] = name)
    IN  IF i # 0 /\ DbSeq[i] \in visible THEN i ELSE 0

\* find_database: cmp_database_name does not match a database that is hidden.
find_database(name) ==
    FirstOf(DbSeq, LAMBDA db :
        db \in database_list /\ NameOf[db] = name /\ db \in visible)

\* database_iterate, database_count
Shown == InOrder(database_list \cap visible)

----------------------------------------------------------------------------
(* Start-up (dicod/dicod.c, dicod/loader.c).  Which modules and databases   *)
(* fail is up to them; MaxFault bounds the failures of a behaviour.        *)

Fault(n) == faults' = faults + n /\ faults' <= MaxFault

Instances == { ModuleOf[db] : db \in Db } \cup NoDbModules

\* A reply: its first and last status codes, and the databases it lists.
Reply(code) == [code |-> code, last |-> code, dbs |-> <<>>]
NoReply == Reply(0)

Init ==
    /\ pc = "load"
    /\ single_process \in BOOLEAN
    /\ database_list = Db /\ master_list = Db
    /\ loaded = {} /\ initialised = {} /\ opened = {} /\ visible = {}
    /\ client_addr = Null
    /\ user_name = NoUser /\ user_groups = {} /\ authed = {}
    /\ prefs = NoPrefs /\ client_id = "null" /\ saslauth = TRUE
    /\ status = <<0, 0>> /\ reply = NoReply /\ logged = Null
    /\ sessions = 0 /\ commands = 0 /\ faults = 0

\* database_remove_dependent
StillHandled(bad) == { db \in database_list : ModuleOf[db] \notin bad }

\* load_modules: an instance that fails takes the databases it handles with it.
load_modules ==
    /\ pc = "load"
    /\ \E bad \in SUBSET Instances :
        /\ Fault(Cardinality(bad))
        /\ loaded' = Instances \ bad
        /\ database_list' = StillHandled(bad)
    /\ pc' = "init"
    /\ UNCHANGED <<single_process, initialised, opened, visible, client_addr,
                   identity, options, answer, master_list, sessions, commands>>

\* dicod_init_database: no database without database support
Unsupported == { db \in database_list : ModuleOf[db] \in NoDbModules }

init_databases ==
    /\ pc = "init"
    /\ \E bad \in SUBSET database_list :
        /\ Unsupported \subseteq bad /\ Fault(Cardinality(bad \ Unsupported))
        /\ database_list' = database_list \ bad
        /\ initialised' = database_list \ bad
    /\ master_list' = database_list'
    /\ pc' = "idle"
    /\ UNCHANGED <<single_process, loaded, opened, visible, client_addr,
                   identity, options, answer, sessions, commands>>

----------------------------------------------------------------------------
(* The session (dicod/dicod.c: dicod_loop).                                *)

\* A bug to be caught: a database that does not open stays in the list.
Opened_keep(list, bad) == list

\* What open_databases leaves in the list.
Opened(list, bad) == list \ bad

\* open_databases drops the databases that do not open, then
\* check_db_visibility, then the banner.
StartSession(addr) ==
    /\ pc = "idle" /\ sessions < MaxSession
    /\ sessions' = sessions + 1
    /\ client_addr' = addr
    /\ \E bad \in SUBSET database_list :
        /\ Fault(Cardinality(bad))
        /\ database_list' = Opened(database_list, bad)
        /\ opened' = database_list \ bad
    /\ visible' = check_db_visibility(database_list',
                     Who(user_name, user_groups, addr), prefs)
    /\ reply' = Reply(220) /\ logged' = Null
    /\ pc' = "serving"
    /\ UNCHANGED <<single_process, loaded, initialised, identity, options,
                   status, master_list, commands>>

\* The child is gone, and with it all it has changed.
Forget ==
    /\ pc' = "idle"
    /\ database_list' = master_list /\ opened' = {} /\ visible' = {}
    /\ user_name' = NoUser /\ user_groups' = {} /\ authed' = {}
    /\ prefs' = NoPrefs /\ client_id' = "null" /\ saslauth' = TRUE
    /\ status' = <<0, 0>>

\* close_databases, init_auth_data and access_log_free_cache.
CleanUpLeaving(groups) ==
    /\ pc' = "idle"
    /\ opened' = {}
    /\ user_name' = NoUser /\ user_groups' = groups /\ authed' = {}
    /\ client_id' = "null"
    /\ visible' = database_list
    /\ UNCHANGED <<database_list, prefs, saslauth, status>>

\* A bug to be caught: init_auth_data leaves the list of groups.
CleanUp_groups == CleanUpLeaving(user_groups)

CleanUp == CleanUpLeaving({})

\* The process dies: exit() or abort().  Without children, so does the server.
Die ==
    /\ \/ ~single_process /\ Forget
       \/ /\ single_process /\ pc' = "gone"
          /\ UNCHANGED <<database_list, opened, visible, identity, options, status>>
    /\ reply' = NoReply /\ logged' = Null
    /\ UNCHANGED <<single_process, loaded, initialised, client_addr,
                   master_list, budget>>

\* QUIT, or the end of the input: the rest of dicod_loop() runs, and a child
\* then exits.  free(client_id) of a pointer that is already free may abort.
EndSession ==
    /\ pc = "serving"
    /\ \/ /\ \/ single_process /\ CleanUp
             \/ ~single_process /\ Forget
          /\ reply' = NoReply /\ logged' = Null
          /\ UNCHANGED <<single_process, loaded, initialised, client_addr,
                         master_list, budget>>
       \/ client_id = "freed" /\ Die

\* sig_alarm: the client has been silent for inactivity_timeout seconds.
sig_alarm == pc \in {"serving", "sasl"} /\ Die

----------------------------------------------------------------------------
(* Commands (dicod/commands.c, auth.c, gsasl.c, lang.c).                   *)

Command ==
    /\ pc = "serving" /\ commands < MaxCommand
    /\ commands' = commands + 1

\* What no command changes.
Kept == <<single_process, catalog, client_addr, master_list, sessions>>

\* dico_udb_get_groups; it leaves the list alone when it fails.
GetGroups(u) ==
    \/ user_groups' = GroupsOf[u] /\ UNCHANGED faults
    \/ Fault(1) /\ UNCHANGED user_groups

LogIn(u) == user_name' = u /\ authed' = authed \cup {u}

\* A bug to be caught: only the visible databases are looked at again.
Recheck_shrink ==
    visible' = visible \cap check_db_visibility(database_list,
                 Who(user_name', user_groups', client_addr), prefs')

\* The identity has changed: check_db_visibility.
Recheck ==
    visible' = check_db_visibility(database_list,
                 Who(user_name', user_groups', client_addr), prefs')

dicod_auth(u) ==
    /\ Command
    /\ LogIn(u) /\ GetGroups(u)
    /\ UNCHANGED prefs
    /\ Recheck
    /\ reply' = Reply(230) /\ logged' = Null
    /\ UNCHANGED <<pc, Kept, client_id, saslauth, status>>

\* The user database does not open, or has no such user, or the digest differs.
AuthFails ==
    /\ Command
    /\ reply' = Reply(531) /\ logged' = Null
    /\ UNCHANGED <<pc, Kept, visible, identity, options, status, faults>>

\* dicod_saslauth: the mechanism may be refused, the exchange fail at once or
\* ask for the client's response.  With an initial response it may succeed.
SaslReply(code, next) ==
    /\ reply' = Reply(code) /\ logged' = Null
    /\ pc' = next
    /\ UNCHANGED <<Kept, visible, identity, options, status, faults>>

SaslSuccess ==
    /\ \/ \E u \in User : LogIn(u) /\ GetGroups(u)
       \/ /\ LogIn(Anon)
          /\ user_groups' = IF AnonGroups = Null THEN user_groups ELSE AnonGroups
          /\ UNCHANGED faults
    /\ UNCHANGED prefs
    /\ Recheck
    /\ saslauth' \in {saslauth, FALSE}   \* FALSE if insert_gsasl_stream works
    /\ reply' = Reply(230) /\ logged' = Null
    /\ pc' = "serving"
    /\ UNCHANGED <<Kept, client_id, status>>

dicod_saslauth ==
    /\ saslauth /\ Command
    /\ \/ SaslSuccess
       \/ SaslReply(531, "serving")
       \/ SaslReply(532, "serving")
       \/ SaslReply(330, "sasl")

\* get_sasl_response: any line but SASLRESP, and the end of input, fail it.
SaslResponse ==
    /\ pc = "sasl"
    /\ UNCHANGED commands
    /\ \/ SaslSuccess
       \/ SaslReply(531, "serving")
       \/ SaslReply(330, "sasl")

dicod_lang(args) ==
    /\ Command
    /\ prefs' = ParsePrefs(args)
    /\ UNCHANGED identity
    /\ Recheck
    /\ reply' = Reply(250) /\ logged' = Null
    /\ UNCHANGED <<pc, Kept, client_id, saslauth, status, faults>>

\* CLIENT: the old string is freed; without an argument nothing replaces it.
dicod_client ==
    /\ Command
    /\ client_id' \in {"set", IF client_id = "null" THEN "null" ELSE "freed"}
    /\ reply' = Reply(250) /\ logged' = Null
    /\ UNCHANGED <<pc, Kept, visible, identity, prefs, saslauth, status, faults>>

\* What free() may do to a pointer that is already free.
ClientAborts == pc = "serving" /\ client_id = "freed" /\ Die

dicod_show_databases ==
    /\ Command
    /\ reply' = IF Shown = <<>> THEN Reply(554)
                ELSE [code |-> 110, last |-> 250, dbs |-> Shown]
    /\ logged' = Null
    /\ UNCHANGED <<pc, Kept, visible, identity, options, status, faults>>

----------------------------------------------------------------------------
(* Searches (dicod/commands.c, dicod/loader.c).  A scope is "!", "*" or a  *)
(* name.                                                                   *)

WithHits(list, q) == Filter(list, {db \in Db : Hits[db][q] > 0})

Found(q, list) ==
    IF list = <<>> THEN Reply(552)
    ELSE [code |-> IF q \in MatchQuery THEN 152 ELSE 150, last |-> 250,
          dbs |-> list]

\* A bug to be caught: a search of all the databases, hidden ones included.
dicod_word_all_hidden(q) ==
    IF q \in Denied THEN Reply(552) ELSE Found(q, WithHits(InOrder(database_list), q))

dicod_word_all(q) ==
    IF q \in Denied THEN Reply(552) ELSE Found(q, WithHits(Shown, q))

dicod_word_first(q) ==
    LET list == WithHits(Shown, q)
    IN  IF q \in Denied \/ list = <<>> THEN Reply(552) ELSE Found(q, <<list[1]>>)

\* The deny statements of a strategy do not apply to a search by name.
dicod_word_db(db, q) == Found(q, WithHits(<<db>>, q))

\* access_log_status: only the loader calls it, for the answers it gives.
access_log_status(r) ==
    IF r.code \in {550, 551} THEN status ELSE <<r.code, r.last>>

\* dicod_define and dicod_match; a strategy MATCH does not know is refused.
\* Each ends with access_log.
Search(q, scope) ==
    LET i == find_database(scope)
        r == IF scope = "!" THEN dicod_word_first(q)
             ELSE IF scope = "*" THEN dicod_word_all(q)
             ELSE IF i = 0 THEN Reply(550)
             ELSE dicod_word_db(DbSeq[i], q)
    IN  /\ Command
        /\ \/ reply' = r
           \/ q \in MatchQuery /\ reply' = Reply(551)
        /\ status' = access_log_status(reply')
        /\ logged' = status'
        /\ UNCHANGED <<pc, Kept, visible, identity, options, faults>>

----------------------------------------------------------------------------
Next ==
    \/ load_modules \/ init_databases
    \/ \E addr \in Client : StartSession(addr)
    \/ EndSession \/ sig_alarm \/ ClientAborts
    \/ \E u \in User : dicod_auth(u)
    \/ AuthFails \/ dicod_saslauth \/ SaslResponse
    \/ \E args \in LangArgs : dicod_lang(args)
    \/ dicod_client \/ dicod_show_databases
    \/ \E q \in Query, scope \in {"!", "*"} \cup Range(NameOf) : Search(q, scope)

Spec == Init /\ [][Next]_vars

----------------------------------------------------------------------------
(* Properties.                                                             *)

InSession == pc \in {"serving", "sasl"}

\* The visible databases are listed ones, and a list of language preferences,
\* when there is one, is not empty.
TypeOK ==
    /\ pc \in {"load", "init", "idle", "serving", "sasl", "gone"}
    /\ single_process \in BOOLEAN /\ saslauth \in BOOLEAN
    /\ database_list \subseteq master_list
    /\ master_list \subseteq Db
    /\ visible \subseteq database_list
    /\ user_name \in User \cup {Anon, NoUser}
    /\ client_addr \in Client \cup {Null}
    /\ client_id \in {"null", "set", "freed"}
    /\ \A k \in {"lazy", "src", "dst"} : prefs[k] # {}

\* The visible flags are a cache of two ACLs, the client's identity and its
\* language preferences; no command leaves it stale, so that between two
\* commands each flag is what check_db_visibility would compute afresh.
VisibilityFresh ==
    InSession =>
        visible = check_db_visibility(database_list,
                    Who(user_name, user_groups, client_addr), prefs)

\* A database that a search can reach has a loaded module, a handle and has
\* been opened by this session; outside of a session none is left open.
Usable ==
    /\ pc \notin {"load", "init"} =>
        \A db \in database_list :
            db \in initialised /\ ModuleOf[db] \in loaded \ NoDbModules
    /\ InSession => opened = database_list
    /\ ~InSession => opened = {} \/ pc = "gone"

\* The groups in force are groups of somebody who has authenticated in this
\* very session, although a failed look-up of the groups keeps the old ones
\* and a server without children goes on with the next client.
SessionIdentity ==
    /\ user_name \in authed \cup {NoUser}
    /\ \A g \in user_groups : \E u \in authed :
         \/ u \in User /\ g \in GroupsOf[u]
         \/ u = Anon /\ AnonGroups # Null /\ g \in AnonGroups
    /\ ~InSession => authed = {} \/ pc = "gone"

\* A name is valid in DEFINE, MATCH and SHOW INFO exactly when SHOW DB lists
\* it, and stands for the first database it lists by that name.
FindMatchesShow ==
    InSession =>
        \A name \in Range(NameOf) :
            LET i == find_database(name)
                j == FirstOf(Shown, LAMBDA db : NameOf[db] = name)
            IN  IF j = 0 THEN i = 0 ELSE i # 0 /\ DbSeq[i] = Shown[j]

\* Every database of an answer may be read by the client as it is known now,
\* agrees with its language preferences, and is open.
AnswersEntitled ==
    \A db \in Range(reply.dbs) :
        /\ MayRead(db, Who(user_name, user_groups, client_addr))
        /\ dicod_lang_check(Languages(db), prefs)
        /\ db \in opened

\* The manual on %s in the access log: "Reply status.  For multiple replies,
\* the form %s returns the status of the first reply, while %>s returns that
\* of the last reply."  The codes logged for a search are those of its reply.
DocLoggedStatus == logged # Null => logged = <<reply.code, reply.last>>

----------------------------------------------------------------------------
\* What the properties above need to be inductive: how far the start-up has
\* come for the databases in the list, and that a child starts from a list of
\* the master that is as good.
StartedUp ==
    /\ database_list \subseteq Db /\ master_list \subseteq Db
    /\ pc \in {"load", "init", "idle", "serving", "sasl", "gone"}
    /\ pc = "init" => \A db \in database_list : ModuleOf[db] \in loaded
    /\ pc \notin {"load", "init"} =>
        \A db \in database_list \cup master_list :
            db \in initialised /\ ModuleOf[db] \in loaded \ NoDbModules

SessionInv == StartedUp /\ Usable /\ VisibilityFresh /\ SessionIdentity
============================================================================
