------------------------------- MODULE Server -------------------------------
(***************************************************************************)
(* The master process of dicod in daemon mode (dicod/server.c): it opens   *)
(* the listening sockets, waits in select(2), forks one session per        *)
(* accepted connection, reaps sessions that ended, and stops or restarts   *)
(* on a signal.                                                            *)
(*                                                                         *)
(* A step of the master is the code between two points where a signal can  *)
(* make a difference.  So "poll" (about to call select) and "select"       *)
(* (blocked in it) are different values of pc, and so are "pause" and      *)
(* "paused": a handler that runs at "poll" or "pause" sets its flag but    *)
(* does not interrupt the system call that follows.                        *)
(***************************************************************************)
EXTENDS Integers, FiniteSets, FiniteSetsExt, Functions

CONSTANTS
    Pid,              \* the process ids fork() may return for a session
    Addr,             \* listen_addr: 1..n, in the order of srvtab
    UnixAddr,         \* those that are AF_UNIX sockets
    MaxChildren,      \* max_children
    ShutdownTimeout,  \* shutdown_timeout, in seconds
    Foreground,       \* --foreground: the process does not call daemon(3)
    ULong,            \* the modulus of unsigned long
    MaxConn,          \* bound: connections the clients make
    MaxTerm,          \* bound: SIGTERM, SIGQUIT and SIGINT delivered
    MaxHup,           \* bound: SIGHUP delivered
    MaxFault          \* bound: system calls that fail

SIGTERM == 15
SIGKILL == 9

ASSUME ServerAssumption ==
    /\ IsFiniteSet(Pid)
    /\ Pid \cap {0, SIGTERM, SIGKILL} = {}
    /\ Addr \subseteq Nat /\ IsFiniteSet(Addr) /\ Addr # {}
    /\ UnixAddr \subseteq Addr
    /\ MaxChildren \in Nat
    /\ ShutdownTimeout \in Nat
    /\ Foreground \in BOOLEAN
    /\ ULong \in Nat /\ MaxChildren + Cardinality(Addr) < ULong
    /\ MaxConn \in Nat /\ MaxTerm \in Nat /\ MaxHup \in Nat /\ MaxFault \in Nat

VARIABLES
    \* the master
    pc,               \* where it is, see PC below
    srvtab,           \* the addresses it listens on
    ready,            \* the sockets select reported that are still to be served
    childtab,         \* [1..MaxChildren -> Pid \cup {0}]
    num_children,     \* unsigned long
    stop, restart, need_cleanup,
    tick,             \* i of stop_children
    \* its surroundings
    proc,             \* the session processes, as the kernel knows them
    holds,            \* the listening sockets a session has inherited
    backlog,          \* connections waiting in accept(2)'s queue
    lint,             \* the configuration checker of pre_restart_lint
    conns, terms, hups, faults   \* counted against the bounds

master == <<pc, srvtab, ready, childtab, num_children, stop, restart,
            need_cleanup, tick>>
env == <<conns, terms, hups, faults>>
vars == <<master, proc, holds, backlog, lint, env>>

PC == {"open", "top", "pause", "paused", "poll", "select", "serve", "eintr",
       "lint", "stop", "reap", "sleep", "kill", "quit", "exec",
       "exited", "died", "killed"}

\* "orphan": the session runs on, but the master is not its parent any more
ProcState == {"free", "running", "zombie", "orphan"}

LintState == {"none", "running", "passed", "failed", "noexec"}

Slots == 1 .. MaxChildren

\* The children of the master that waitpid has not returned yet
Children == {p \in Pid : proc[p] \in {"running", "zombie"}}
Zombies  == {p \in Pid : proc[p] = "zombie"}
Running  == {p \in Pid : proc[p] \in {"running", "orphan"}}

Init ==
    /\ pc = "open"
    /\ srvtab = {} /\ ready = {}
    /\ childtab = [i \in Slots |-> 0]
    /\ num_children = 0
    /\ stop = FALSE /\ restart = FALSE /\ need_cleanup = FALSE
    /\ tick = 0
    /\ proc = [p \in Pid |-> "free"]
    /\ holds = [p \in Pid |-> {}]
    /\ backlog = [a \in Addr |-> 0]
    /\ lint = "none"
    /\ conns = 0 /\ terms = 0 /\ hups = 0 /\ faults = 0
-----------------------------------------------------------------------------
\* bind(2) finds an AF_INET address in use while a session of the previous
\* image holds a listening socket on it; an AF_UNIX name is unlinked first.
CanBind(a) == a \in UnixAddr \/ \A p \in Pid : a \notin holds[p]

\* The master is no longer the parent of its children: init(8) adopts them,
\* and waits for the ones that have ended.
Disown == proc' = [p \in Pid |-> IF proc[p] = "running" THEN "orphan"
                                 ELSE IF proc[p] = "zombie" THEN "free" ELSE proc[p]]

Fault(n) == faults + n <= MaxFault /\ faults' = faults + n

\* socket, stat, unlink, bind or listen may fail for any address
open_sockets ==
    /\ pc = "open"
    /\ \E failed \in SUBSET Addr :
         LET opened == {a \in Addr : CanBind(a)} \ failed
         IN  /\ Fault(Cardinality(failed))
             /\ srvtab' = opened
             /\ IF opened = {} THEN pc' = "died" /\ Disown
                               ELSE pc' = "top" /\ UNCHANGED proc
             /\ holds' = [p \in Pid |-> holds[p] \ opened]
             /\ backlog' = [a \in Addr |-> IF a \in opened THEN 0 ELSE backlog[a]]
    /\ UNCHANGED <<ready, childtab, num_children, stop, restart, need_cleanup,
                   tick, lint, conns, terms, hups>>
-----------------------------------------------------------------------------
(* The table of children.                                                  *)

\* Wrong on purpose: the search starts at the second slot
find_pid_late(tab, pid) == {i \in Slots : i > 1 /\ tab[i] = pid}

\* find_pid: the first slot that holds the pid; {} stands for (unsigned long)-1
find_pid(tab, pid) ==
    LET at == {i \in Slots : tab[i] = pid}
    IN  IF at = {} THEN {} ELSE {Min(at)}

\* Wrong on purpose: a child that finds no slot is not counted
register_child_tabled(pid) ==
    /\ childtab' = [i \in Slots |-> IF i \in find_pid(childtab, 0) THEN pid
                                                                   ELSE childtab[i]]
    /\ num_children' = IF find_pid(childtab, 0) = {} THEN num_children
                                                     ELSE num_children + 1

register_child(pid) ==
    /\ childtab' = [i \in Slots |-> IF i \in find_pid(childtab, 0) THEN pid
                                                                   ELSE childtab[i]]
    /\ num_children' = (num_children + 1) % ULong

\* Wrong on purpose: the slot is not cleared
cleanup_children_keep ==
    /\ UNCHANGED childtab
    /\ num_children' = (num_children - Cardinality(Zombies)) % ULong
    /\ proc' = [p \in Pid |-> IF p \in Zombies THEN "free" ELSE proc[p]]

\* Every zombie is waited for.  The store to childtab[-1] for a pid that is not
\* in the table clears bytes of the allocator's chunk header that are 0 already
\* (64 bit, little endian), so it changes nothing.
cleanup_children ==
    /\ childtab' = [i \in Slots |->
                      IF \E p \in Zombies : i \in find_pid(childtab, p) THEN 0
                                                                        ELSE childtab[i]]
    /\ num_children' = (num_children - Cardinality(Zombies)) % ULong
    /\ proc' = [p \in Pid |-> IF p \in Zombies THEN "free" ELSE proc[p]]
-----------------------------------------------------------------------------
(* Processes and signals, as the kernel treats them.                       *)

\* What the accept queues hold once only `tab' and the sessions of h listen
BacklogOf(tab, h) ==
    [a \in Addr |-> IF a \in tab \cup UNION Range(h) THEN backlog[a] ELSE 0]

\* The processes of S end: their descriptors are closed, and the ones whose
\* parent is the master wait for it as zombies.
Ends(S) ==
    /\ proc' = [p \in Pid |-> IF p \notin S THEN proc[p]
                              ELSE IF proc[p] = "running" THEN "zombie" ELSE "free"]
    /\ holds' = [p \in Pid |-> IF p \in S THEN {} ELSE holds[p]]
    /\ backlog' = BacklogOf(srvtab, holds')

\* kill(2): the processes a signal terminates.  Sessions have the default
\* dispositions, and no session id is a number below 32.
kill(pid, sig) ==
    IF pid \in Pid /\ sig \in {SIGTERM, SIGKILL} THEN {pid} \cap Running ELSE {}

\* The handlers of SIGTERM, SIGHUP and SIGCHLD only set a flag; a blocking
\* call they interrupt returns early, and so does sleep(1).
Interrupt ==
    /\ pc' = IF pc = "paused" THEN "top"
              ELSE IF pc = "select" THEN "eintr"
              ELSE IF pc = "sleep" THEN "reap" ELSE pc
    /\ tick' = IF pc = "sleep" THEN tick + 1 ELSE tick

HandlersInstalled == pc \notin {"exec", "exited", "died", "killed"}

sig_stop ==
    /\ HandlersInstalled /\ terms < MaxTerm
    /\ stop' = TRUE /\ terms' = terms + 1
    /\ Interrupt
    /\ UNCHANGED <<srvtab, ready, childtab, num_children, restart, need_cleanup, proc, holds, backlog, lint, conns, hups, faults>>

sig_restart ==
    /\ HandlersInstalled /\ hups < MaxHup
    /\ restart' = TRUE /\ hups' = hups + 1
    /\ Interrupt
    /\ UNCHANGED <<srvtab, ready, childtab, num_children, stop, need_cleanup, proc, holds, backlog, lint, conns, terms, faults>>

\* SIGCHLD is caught by sig_child, except in pre_restart_lint and across execv
sig_child ==
    IF pc = "lint" \/ ~HandlersInstalled
    THEN UNCHANGED <<pc, tick, need_cleanup>>
    ELSE need_cleanup' = TRUE /\ Interrupt

\* dicod_loop returns, or the inactivity alarm fires: the session exits
SessionExits(p) ==
    /\ p \in Running
    /\ Ends({p})
    /\ IF proc[p] = "running" THEN sig_child ELSE UNCHANGED <<pc, tick, need_cleanup>>
    /\ UNCHANGED <<srvtab, ready, childtab, num_children, stop, restart,
                   lint, env>>

Connect(a) ==
    /\ conns < MaxConn /\ conns' = conns + 1
    /\ a \in srvtab \cup UNION Range(holds)
    /\ backlog' = [backlog EXCEPT ![a] = @ + 1]
    /\ UNCHANGED <<master, proc, holds, lint, terms, hups, faults>>
-----------------------------------------------------------------------------
(* server_loop.                                                            *)

LoopTopWithin(limit) ==
    /\ pc = "top"
    /\ IF need_cleanup THEN cleanup_children
                       ELSE UNCHANGED <<childtab, num_children, proc>>
    /\ pc' = IF num_children' > limit THEN "pause" ELSE "poll"
    /\ UNCHANGED <<srvtab, ready, stop, restart, need_cleanup, tick,
                   holds, backlog, lint, env>>

\* Wrong on purpose: the limit is checked off by one
LoopTop_late == LoopTopWithin(MaxChildren + 1)

\* The head of the loop: need_cleanup stays set once a child has ended.
LoopTop == LoopTopWithin(MaxChildren)

EnterCall(before, within) ==
    /\ pc = before
    /\ pc' = within
    /\ UNCHANGED <<srvtab, ready, childtab, num_children, stop, restart,
                   need_cleanup, tick, proc, holds, backlog, lint, env>>

CallPause  == EnterCall("pause", "paused")
CallSelect == EnterCall("poll", "select")

SelectReports(S) ==
    /\ pc = "select"
    /\ ready' = S /\ S # {}
    /\ pc' = "serve"
    /\ UNCHANGED <<srvtab, childtab, num_children, stop, restart, need_cleanup,
                   tick, proc, holds, backlog, lint, env>>

Pending == {a \in srvtab : backlog[a] > 0}

\* Wrong on purpose: every socket is served when select returns
SelectReady_all == SelectReports(IF Pending = {} THEN {} ELSE srvtab)

\* Wrong on purpose: select is called with fdmax instead of fdmax + 1
SelectReady_fdmax == SelectReports(Pending \ {Max(srvtab)})

SelectReady == SelectReports(Pending)

SelectError ==
    /\ pc = "select" /\ Fault(1)
    /\ pc' = "stop"
    /\ UNCHANGED <<srvtab, ready, childtab, num_children, stop, restart,
                   need_cleanup, tick, proc, holds, backlog, lint,
                   conns, terms, hups>>

SelectInterrupted ==
    /\ pc = "eintr"
    /\ pc' = IF stop THEN "stop" ELSE IF restart THEN "lint" ELSE "top"
    /\ UNCHANGED <<srvtab, ready, childtab, num_children, stop, restart,
                   need_cleanup, tick, proc, holds, backlog, lint, env>>
-----------------------------------------------------------------------------
(* handle_connection, for the sockets of rdset in the order of srvtab.     *)

\* The socket is dealt with and the for loop of server_loop goes on
Served(a) ==
    /\ pc = "serve" /\ a \in ready /\ \A b \in ready : a <= b
    /\ ready' = ready \ {a}
    /\ pc' = IF ready' = {} THEN "top" ELSE "serve"
    /\ UNCHANGED <<srvtab, stop, restart, need_cleanup, tick, lint,
                   conns, terms, hups>>

AcceptFails(a) ==
    /\ Served(a) /\ Fault(1)
    /\ UNCHANGED <<childtab, num_children, proc, holds, backlog>>

\* connect_acl denies the connection, or fork fails: a reply, and it is closed
TurnedAway(a) ==
    /\ Served(a) /\ (UNCHANGED faults \/ Fault(1))
    /\ backlog' = [backlog EXCEPT ![a] = @ - 1]
    /\ UNCHANGED <<childtab, num_children, proc, holds>>

ForkHolding(a, p, inherited) ==
    /\ Served(a) /\ UNCHANGED faults
    /\ proc[p] = "free"
    /\ proc' = [proc EXCEPT ![p] = "running"]
    /\ holds' = [holds EXCEPT ![p] = inherited]
    /\ backlog' = [backlog EXCEPT ![a] = @ - 1]
    /\ register_child(p)

\* Wrong on purpose: the child keeps the socket it was accepted on
ForkSession_keep(a, p) == ForkHolding(a, p, srvtab)

\* The child closes the socket it was accepted on, and no other one
ForkSession(a, p) == ForkHolding(a, p, srvtab \ {a})

handle_connection(a) ==
    \/ AcceptFails(a)
    \/ TurnedAway(a)
    \/ \E p \in Pid : ForkSession(a, p)
-----------------------------------------------------------------------------
(* pre_restart_lint.                                                       *)

\* fork, and run_lint in the child; when execv fails there, run_lint returns
StartLint ==
    /\ pc = "lint" /\ lint \notin {"running", "noexec"}
    /\ \/ lint' = "running" /\ UNCHANGED <<pc, restart, faults>>
       \/ lint' = "noexec" /\ Fault(1) /\ UNCHANGED <<pc, restart>>
       \/ pc' = "top" /\ restart' = FALSE /\ Fault(1) /\ UNCHANGED lint
    /\ UNCHANGED <<srvtab, ready, childtab, num_children, stop, need_cleanup,
                   tick, proc, holds, backlog, conns, terms, hups>>

LintReports(status, wellEnough) ==
    /\ pc = "lint" /\ lint = "running"
    /\ lint' = status
    /\ pc' = IF wellEnough THEN "stop" ELSE "top"
    /\ restart' = IF wellEnough THEN restart ELSE FALSE
    /\ UNCHANGED <<srvtab, ready, childtab, num_children, stop, need_cleanup,
                   tick, proc, holds, backlog, env>>

\* Wrong on purpose: the exit status of the checker is not looked at
LintDone_any(status) == LintReports(status, TRUE)

\* The checker exits; waitpid returns its status to the polling master.  While
\* the checker runs waitpid returns 0 and errno is the EINTR of select, so the
\* master polls again: the test for 5 seconds is under pid == 0.
LintDone(status) == LintReports(status, status = "passed")

LintExits == \E status \in {"passed", "failed"} : LintDone(status)

\* A checker that could not execv polls in the master's loop with pid = 0, and
\* after 5 seconds calls kill(0, SIGKILL): the whole process group dies.
LintKillsGroup ==
    /\ pc = "lint" /\ lint = "noexec"
    /\ pc' = "killed"
    /\ srvtab' = {}
    /\ proc' = [p \in Pid |-> IF p \in Children THEN "free" ELSE proc[p]]
    /\ holds' = [p \in Pid |-> IF p \in Children THEN {} ELSE holds[p]]
    /\ backlog' = BacklogOf({}, holds')
    /\ UNCHANGED <<ready, childtab, num_children, stop, restart, need_cleanup,
                   tick, lint, env>>
-----------------------------------------------------------------------------
(* stop_children and the end of dicod_server.                              *)

\* kill is called with its arguments swapped
stop_all(sig) ==
    Ends(UNION {kill(sig, childtab[i]) : i \in {j \in Slots : childtab[j] # 0}})

StopTerm ==
    /\ pc = "stop"
    /\ stop_all(SIGTERM)
    /\ need_cleanup' = IF Zombies' # Zombies THEN TRUE ELSE need_cleanup
    /\ pc' = "reap" /\ tick' = 0
    /\ UNCHANGED <<srvtab, ready, childtab, num_children, stop, restart, lint, env>>

StopReap ==
    /\ pc = "reap"
    /\ IF tick < ShutdownTimeout
       THEN /\ cleanup_children
            /\ pc' = IF num_children' = 0 THEN "quit" ELSE "sleep"
       ELSE /\ pc' = "kill"
            /\ UNCHANGED <<childtab, num_children, proc>>
    /\ UNCHANGED <<srvtab, ready, stop, restart, need_cleanup, tick,
                   holds, backlog, lint, env>>

StopSleepCounting(n) ==
    /\ pc = "sleep"
    /\ pc' = "reap" /\ tick' = tick + n
    /\ UNCHANGED <<srvtab, ready, childtab, num_children, stop, restart,
                   need_cleanup, proc, holds, backlog, lint, env>>

\* Wrong on purpose: the iteration is not counted
StopSleep_uncounted == StopSleepCounting(0)

StopSleep == StopSleepCounting(1)

StopKill ==
    /\ pc = "kill"
    /\ stop_all(SIGKILL)
    /\ need_cleanup' = IF Zombies' # Zombies THEN TRUE ELSE need_cleanup
    /\ pc' = "quit"
    /\ UNCHANGED <<srvtab, ready, childtab, num_children, stop, restart, tick, lint, env>>

\* close_sockets, remove_pidfile, and execv or exit
Quit ==
    /\ pc = "quit"
    /\ srvtab' = {}
    /\ backlog' = BacklogOf({}, holds)
    /\ IF restart THEN pc' = "exec" /\ UNCHANGED proc
                  ELSE pc' = "exited" /\ Disown
    /\ UNCHANGED <<ready, childtab, num_children, stop, restart, need_cleanup,
                   tick, holds, lint, env>>

\* The new image starts with its own flags and tables.  It has the process id
\* of the old one, and so its children, unless daemon(3) forks.
Exec ==
    /\ pc = "exec"
    /\ pc' = "open"
    /\ ready' = {} /\ childtab' = [i \in Slots |-> 0] /\ num_children' = 0
    /\ stop' = FALSE /\ restart' = FALSE /\ need_cleanup' = FALSE
    /\ tick' = 0 /\ lint' = "none"
    /\ IF Foreground THEN UNCHANGED proc ELSE Disown
    /\ UNCHANGED <<srvtab, holds, backlog, env>>
-----------------------------------------------------------------------------
MasterStep ==
    \/ open_sockets \/ LoopTop \/ CallPause \/ CallSelect
    \/ SelectReady \/ SelectInterrupted
    \/ \E a \in Addr : handle_connection(a)
    \/ StartLint
    \/ StopTerm \/ StopReap \/ StopSleep \/ StopKill \/ Quit \/ Exec

Next ==
    \/ MasterStep \/ SelectError
    \/ LintExits \/ LintKillsGroup
    \/ sig_stop \/ sig_restart
    \/ \E p \in Pid : SessionExits(p)
    \/ \E a \in Addr : Connect(a)

Spec == Init /\ [][Next]_vars

\* The operating system schedules the master, and the checker ends
FairSpec == Spec /\ WF_vars(MasterStep) /\ WF_vars(LintExits \/ LintKillsGroup)

-----------------------------------------------------------------------------
(* Properties.                                                             *)

\* The variables of server.c keep their shapes; what select reported is among
\* the sockets the master listens on, and num_children fits an unsigned long.
TypeOK ==
    /\ pc \in PC
    /\ srvtab \subseteq Addr /\ ready \subseteq srvtab
    /\ childtab \in [Slots -> Pid \cup {0}]
    /\ num_children \in 0 .. ULong - 1
    /\ stop \in BOOLEAN /\ restart \in BOOLEAN /\ need_cleanup \in BOOLEAN
    /\ tick \in Nat
    /\ proc \in [Pid -> ProcState]
    /\ holds \in [Pid -> SUBSET Addr]
    /\ backlog \in [Addr -> Nat]
    /\ lint \in LintState
    /\ conns \in Nat /\ terms \in Nat /\ hups \in Nat /\ faults \in Nat

Alive == pc \notin {"exited", "died", "killed"}

\* num_children is the number of children that have not been waited for, the
\* ones that found no slot in childtab and the zombies included: register_child
\* and cleanup_children never disagree, whatever the table holds.
ChildCount == Alive => num_children = Cardinality(Children)

\* A slot of childtab in use names a child that has not been waited for, and no
\* two slots name the same one, although process ids are used again: stop_all
\* never aims at a stranger.
TableSound ==
    Alive => /\ \A i \in Slots : childtab[i] # 0 => childtab[i] \in Children
             /\ \A i, j \in Slots : childtab[i] # 0 /\ childtab[i] = childtab[j] => i = j

\* The limit server_loop really enforces: it compares with > and only once per
\* select, so each listening socket may add one child to max_children.
ChildLimit == num_children <= MaxChildren + Cardinality(Addr)

\* The children stop_all cannot see, because the table was full when they were
\* forked, never outnumber the listening sockets: they do not pile up.
FewUnregistered ==
    Alive => Cardinality(Children \ Range(childtab)) <= Cardinality(Addr)

\* accept never blocks the master: a socket that select reported still has a
\* connection in its queue when handle_connection gets to it.
AcceptReady == \A a \in ready : backlog[a] > 0

\* When no system call fails, a restarted image finds an address to listen on
\* unless two sessions of older images hold the addresses between them: each
\* session has closed the socket it was accepted on, so that no single one, and
\* on a server with one address none at all, keeps the daemon from coming back.
RestartFindsAddress ==
    [][pc' = "died" /\ pc = "open" /\ faults' = faults =>
          \E p, q \in Pid : p # q /\ holds[p] # {} /\ holds[q] # {}]_vars

\* The daemon restarts itself without a configuration check that passed only
\* when the loop was left for another reason, a stop signal or a failing select,
\* while a restart was pending: dicod_server looks at the restart flag alone.
RestartChecked == pc = "exec" => lint = "passed" \/ stop \/ faults > 0

\* Once server_loop is left the sockets are closed after a bounded number of
\* steps, whatever the sessions do and however often sleep is interrupted.
ShutdownCompletes == pc = "stop" ~> srvtab = {}

\* A connection in the queue of a socket is picked up by some select, unless the
\* master waits for children to end or leaves the loop.
QueuedIsServed ==
    \A a \in Addr : (a \in srvtab /\ backlog[a] > 0)
                       ~> (a \in ready \/ a \notin srvtab \/ pc = "paused")

\* The inductive invariant behind ChildCount, TableSound, ChildLimit and
\* AcceptReady, for a master that calls daemon(3): select is only reached with
\* at most max_children, every socket select reported can add one child, and a
\* new image has no children.
IndInv ==
    /\ TypeOK /\ ChildCount /\ TableSound /\ AcceptReady
    /\ pc # "serve" => ready = {}
    /\ pc \in {"poll", "select"} => num_children <= MaxChildren
    /\ num_children + Cardinality(ready) <= MaxChildren + Cardinality(Addr)
    /\ pc = "open" => Children = {}

-----------------------------------------------------------------------------
(* What the manual says of the daemon, and the code does not do.           *)

\* "Any subprocesses that do not terminate after this time are sent the SIGKILL
\* signal": stop_all swaps the arguments of kill, so no session is signalled.
DocSessionsStopped == pc = "exited" => Running = {}

\* "the following signals cause dicod to terminate": a signal that arrives
\* between the head of server_loop and select sets stop, which only a select
\* that is interrupted later looks at.
DocTermStops == stop ~> srvtab = {}
=============================================================================
