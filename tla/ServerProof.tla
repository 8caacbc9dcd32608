----------------------------- MODULE ServerProof -----------------------------
(***************************************************************************)
(* Proofs about Server, for every number of children, addresses, session   *)
(* ids and bounds.  They are about a master that calls daemon(3), as it    *)
(* does without --foreground.                                              *)
(***************************************************************************)
EXTENDS Server, FiniteSetTheorems, TLAPS

\* Reducing a number that fits in an unsigned long changes nothing.
LEMMA ModSmall ==
    ASSUME NEW m \in Nat, NEW x \in 0 .. m - 1
    PROVE  x % m = x
  OBVIOUS

\* Sets of session ids are finite, and have a cardinality.
LEMMA PidSets ==
    ASSUME NEW S \in SUBSET Pid
    PROVE  IsFiniteSet(S) /\ Cardinality(S) \in Nat
  BY ServerAssumption, FS_Subset, FS_CardinalityType

\* ... and so are sets of addresses, which are at most as many as listen_addr.
LEMMA AddrSets ==
    ASSUME NEW S \in SUBSET Addr
    PROVE  /\ IsFiniteSet(S)
           /\ Cardinality(S) \in Nat
           /\ Cardinality(S) <= Cardinality(Addr)
           /\ Cardinality(Addr) \in Nat
  BY ServerAssumption, FS_Subset, FS_CardinalityType, Zenon

\* kill with its arguments swapped ends nobody: no signal is a session id.
LEMMA SwappedKill ==
    ASSUME NEW sig \in {SIGTERM, SIGKILL}, stop_all(sig), TypeOK
    PROVE  /\ proc' = proc
           /\ holds' = holds
           /\ backlog' \in [Addr -> Nat]
           /\ \A a \in srvtab : backlog'[a] = backlog[a]
  <1>. DEFINE S == UNION {kill(sig, childtab[i]) : i \in {j \in Slots : childtab[j] # 0}}
  <1>1. sig \notin Pid
    BY ServerAssumption DEF SIGTERM, SIGKILL
  <1>2. S = {}
    BY <1>1 DEF kill
  <1>3. Ends(S)
    BY DEF stop_all
  <1>. QED
    BY <1>2, <1>3, Zenon DEF Ends, BacklogOf, TypeOK

\* Waiting for every zombie keeps the count exact and the table sound.
LEMMA CleanupKeeps ==
    ASSUME IndInv, Alive, cleanup_children
    PROVE  /\ childtab' \in [Slots -> Pid \cup {0}]
           /\ proc' \in [Pid -> ProcState]
           /\ num_children' \in 0 .. ULong - 1
           /\ num_children' <= num_children
           /\ num_children' = Cardinality(Children')
           /\ \A i \in Slots : childtab'[i] # 0 => childtab'[i] \in Children'
           /\ \A i, j \in Slots :
                 childtab'[i] # 0 /\ childtab'[i] = childtab'[j] => i = j
  <1>1. Children' = Children \ Zombies /\ Children \cap Zombies = Zombies
    BY DEF cleanup_children, Children, Zombies, IndInv, TypeOK
  <1>2. /\ Children \in SUBSET Pid /\ Zombies \in SUBSET Pid
        /\ Children' \in SUBSET Pid
    BY DEF Children, Zombies
  <1>3. Cardinality(Children') = Cardinality(Children) - Cardinality(Zombies)
    BY <1>1, <1>2, PidSets, FS_Difference
  <1>4. /\ Cardinality(Children) \in Nat
        /\ Cardinality(Zombies) \in Nat
        /\ Cardinality(Children') \in Nat
    BY <1>2, PidSets
  <1>5. num_children = Cardinality(Children) /\ num_children \in 0 .. ULong - 1
    BY DEF IndInv, ChildCount, TypeOK
  <1>6. num_children - Cardinality(Zombies) \in 0 .. ULong - 1
    BY <1>3, <1>4, <1>5, ServerAssumption
  <1>7. num_children' = Cardinality(Children')
    BY <1>3, <1>5, <1>6, ModSmall, ServerAssumption DEF cleanup_children
  <1>8. \A i \in Slots : childtab[i] \in Zombies => childtab'[i] = 0
    <2>. SUFFICES ASSUME NEW i \in Slots, childtab[i] \in Zombies
                  PROVE  childtab'[i] = 0
      OBVIOUS
    <2>1. childtab[i] # 0
      BY ServerAssumption DEF Zombies
    <2>2. {j \in Slots : childtab[j] = childtab[i]} = {i}
      BY <2>1 DEF IndInv, TableSound
    <2>3. Min({i}) = i
      BY DEF Min, Slots
    <2>4. i \in find_pid(childtab, childtab[i])
      BY <2>2, <2>3 DEF find_pid
    <2>. QED
      BY <2>4 DEF cleanup_children
  <1>9. \A i \in Slots : childtab'[i] \in {0, childtab[i]}
    BY DEF cleanup_children
  <1>10. childtab' \in [Slots -> Pid \cup {0}]
    BY <1>9 DEF cleanup_children, IndInv, TypeOK
  <1>11. \A i \in Slots : childtab'[i] # 0 => childtab'[i] \in Children'
    BY <1>1, <1>8, <1>9 DEF IndInv, TableSound
  <1>12. \A i, j \in Slots :
            childtab'[i] # 0 /\ childtab'[i] = childtab'[j] => i = j
    BY <1>9 DEF IndInv, TableSound
  <1>13. proc' \in [Pid -> ProcState]
    BY DEF cleanup_children, IndInv, TypeOK, ProcState
  <1>. QED
    BY <1>3, <1>4, <1>5, <1>6, <1>7, <1>10, <1>11, <1>12, <1>13

\* A forked session is counted, and entered at most once in the table.
LEMMA RegisterKeeps ==
    ASSUME IndInv, Alive, NEW p \in Pid, proc[p] = "free",
           proc' = [proc EXCEPT ![p] = "running"],
           num_children < MaxChildren + Cardinality(Addr),
           register_child(p)
    PROVE  /\ childtab' \in [Slots -> Pid \cup {0}]
           /\ proc' \in [Pid -> ProcState]
           /\ num_children' = num_children + 1
           /\ num_children' \in 0 .. ULong - 1
           /\ num_children' = Cardinality(Children')
           /\ \A i \in Slots : childtab'[i] # 0 => childtab'[i] \in Children'
           /\ \A i, j \in Slots :
                 childtab'[i] # 0 /\ childtab'[i] = childtab'[j] => i = j
  <1>1. Children' = Children \cup {p} /\ p \notin Children
    BY DEF Children, IndInv, TypeOK
  <1>2. Cardinality(Children') = Cardinality(Children) + 1
    BY <1>1, PidSets, FS_AddElement, Zenon DEF Children
  <1>3. num_children + 1 \in 0 .. ULong - 1
    BY ServerAssumption, AddrSets DEF IndInv, TypeOK
  <1>4. num_children' = num_children + 1
    BY <1>3, ModSmall, ServerAssumption DEF register_child
  <1>5. num_children' = Cardinality(Children')
    BY <1>2, <1>4 DEF IndInv, ChildCount
  <1>6. \A i \in find_pid(childtab, 0), j \in find_pid(childtab, 0) : i = j
    BY DEF find_pid
  <1>7. \A i \in Slots : childtab'[i] = IF i \in find_pid(childtab, 0) THEN p
                                                                      ELSE childtab[i]
    BY DEF register_child
  <1>8. \A i \in Slots : childtab[i] # p
    BY <1>1, ServerAssumption DEF IndInv, TableSound
  <1>9. \A i, j \in Slots : childtab'[i] # 0 /\ childtab'[i] = childtab'[j] => i = j
    BY <1>6, <1>7, <1>8 DEF IndInv, TableSound
  <1>10. \A i \in Slots : childtab'[i] # 0 => childtab'[i] \in Children'
    BY <1>1, <1>7 DEF IndInv, TableSound
  <1>11. childtab' \in [Slots -> Pid \cup {0}] /\ proc' \in [Pid -> ProcState]
    BY DEF register_child, IndInv, TypeOK, ProcState
  <1>. QED
    BY <1>3, <1>4, <1>5, <1>9, <1>10, <1>11

\* The children after init(8) has adopted the ones that run: none.
LEMMA DisownKeeps ==
    ASSUME TypeOK, Disown
    PROVE  proc' \in [Pid -> ProcState] /\ Children' = {}
  BY DEF TypeOK, Disown, ProcState, Children

\* An action that touches neither children nor queues, and goes to a place that
\* asks for nothing, keeps the invariant.
LEMMA PlainStep ==
    ASSUME IndInv, pc' \in PC, Alive,
           pc' \notin {"poll", "select", "open"},
           pc # "serve", pc' # "serve",
           tick' \in Nat, lint' \in LintState,
           stop' \in BOOLEAN, restart' \in BOOLEAN, need_cleanup' \in BOOLEAN,
           conns' \in Nat, terms' \in Nat, hups' \in Nat, faults' \in Nat,
           UNCHANGED <<srvtab, ready, childtab, num_children, proc, holds, backlog>>
    PROVE  IndInv'
  BY DEF IndInv, TypeOK, ChildCount, TableSound, AcceptReady, Alive, Children

\* IndInv is preserved by every step of a master that calls daemon(3).
LEMMA IndInvStep ==
    ASSUME ~Foreground, IndInv, [Next]_vars
    PROVE  IndInv'
  <1>. USE DEF vars, master, env
  <1>1. CASE open_sockets
    <2>. PICK failed \in SUBSET Addr :
           LET opened == {a \in Addr : CanBind(a)} \ failed
           IN  /\ Fault(Cardinality(failed))
               /\ srvtab' = opened
               /\ IF opened = {} THEN pc' = "died" /\ Disown
                                 ELSE pc' = "top" /\ UNCHANGED proc
               /\ holds' = [p \in Pid |-> holds[p] \ opened]
               /\ backlog' = [a \in Addr |-> IF a \in opened THEN 0 ELSE backlog[a]]
      BY <1>1 DEF open_sockets
    <2>1. TypeOK'
      BY <1>1, DisownKeeps, AddrSets DEF open_sockets, IndInv, TypeOK, Fault, PC
    <2>2. Children' = {} /\ pc = "open" /\ pc' # "open"
      BY <1>1, DisownKeeps DEF open_sockets, IndInv, Children
    <2>3. Cardinality(Children') = Cardinality(Children)
      BY <2>2 DEF IndInv
    <2>. QED
      BY <1>1, <2>1, <2>2, <2>3
      DEF open_sockets, IndInv, ChildCount, TableSound, AcceptReady, Alive
  <1>2. CASE LoopTop
    <2>0. Cardinality(ready) \in Nat /\ Cardinality(Addr) \in Nat /\ ready' = ready
      BY <1>2, AddrSets DEF LoopTop, LoopTopWithin, IndInv, TypeOK
    <2>1. CASE need_cleanup
      <3>1. cleanup_children /\ Alive
        BY <1>2, <2>1 DEF LoopTop, LoopTopWithin, Alive
      <3>2. ChildCount' /\ TableSound' /\ num_children' <= num_children
        BY <3>1, CleanupKeeps DEF ChildCount, TableSound
      <3>3. TypeOK' /\ AcceptReady'
        BY <1>2, <3>1, CleanupKeeps DEF LoopTop, LoopTopWithin, IndInv, TypeOK, AcceptReady, PC
      <3>. QED
        BY <1>2, <2>0, <3>2, <3>3, ServerAssumption DEF LoopTop, LoopTopWithin, IndInv, TypeOK
    <2>2. CASE ~need_cleanup
      <3>1. UNCHANGED <<childtab, num_children, proc>> /\ pc' \in {"pause", "poll"}
        BY <1>2, <2>2 DEF LoopTop, LoopTopWithin
      <3>2. TypeOK' /\ AcceptReady' /\ ChildCount' /\ TableSound'
        BY <1>2, <3>1
        DEF LoopTop, LoopTopWithin, IndInv, TypeOK, ChildCount, TableSound, AcceptReady, Alive,
            Children, PC
      <3>. QED
        BY <1>2, <3>1, <3>2, ServerAssumption DEF LoopTop, LoopTopWithin, IndInv, TypeOK
    <2>. QED
      BY <2>1, <2>2
  <1>3. CASE CallPause \/ SelectInterrupted \/ SelectError
    <2>. USE <1>3 DEF CallPause, SelectInterrupted, SelectError, EnterCall, Fault
    <2>1. pc' \in PC \ {"poll", "select", "open", "serve"} /\ Alive /\ pc # "serve"
      BY DEF PC, Alive
    <2>. QED
      BY <2>1, PlainStep DEF IndInv, TypeOK
  <1>4. CASE CallSelect
    BY <1>4 DEF CallSelect, EnterCall, IndInv, TypeOK, ChildCount, TableSound,
                AcceptReady, Alive, Children, PC
  <1>5. CASE SelectReady
    <2>1. ready' \in SUBSET Addr
      BY <1>5 DEF SelectReady, SelectReports, Pending, IndInv, TypeOK
    <2>2. num_children' + Cardinality(ready') <= MaxChildren + Cardinality(Addr)
      BY <1>5, <2>1, AddrSets, ServerAssumption DEF SelectReady, SelectReports, Pending, IndInv, TypeOK
    <2>. QED
      BY <1>5, <2>1, <2>2
      DEF SelectReady, SelectReports, Pending, IndInv, TypeOK, ChildCount, TableSound, AcceptReady, Alive,
          Children, PC
  <1>6. ASSUME NEW a \in Addr, handle_connection(a)
        PROVE  IndInv'
    <2>1. /\ a \in ready /\ ready \in SUBSET Addr /\ ready' \in SUBSET Addr
          /\ Served(a) /\ backlog[a] > 0 /\ Alive /\ Alive'
      <3>1. Served(a)
        BY <1>6 DEF handle_connection, AcceptFails, TurnedAway, ForkSession, ForkHolding
      <3>. QED
        BY <3>1 DEF Served, IndInv, TypeOK, AcceptReady, Alive
    <2>2. Cardinality(ready') = Cardinality(ready) - 1
      BY <2>1, AddrSets, FS_RemoveElement DEF Served
    <2>3. /\ Cardinality(ready) \in Nat /\ Cardinality(ready') \in Nat
          /\ Cardinality(Addr) \in Nat
      BY <2>1, AddrSets
    <2>4. /\ pc' \in {"top", "serve"} /\ (pc' # "serve" => ready' = {})
          /\ ready' \subseteq ready /\ a \notin ready'
      BY <2>1 DEF Served
    <2>5. CASE AcceptFails(a) \/ TurnedAway(a)
      <3>1. UNCHANGED <<childtab, num_children, proc>>
        BY <2>5 DEF AcceptFails, TurnedAway
      <3>2. ChildCount' /\ TableSound'
        BY <2>1, <3>1 DEF IndInv, ChildCount, TableSound, Children
      <3>3. faults' \in Nat
        BY <2>5 DEF AcceptFails, TurnedAway, Fault, IndInv, TypeOK
      <3>4. backlog' \in [Addr -> Nat] /\ AcceptReady'
        BY <2>1, <2>4, <2>5 DEF AcceptFails, TurnedAway, IndInv, TypeOK, AcceptReady
      <3>5. TypeOK'
        BY <2>1, <2>4, <2>5, <3>1, <3>3, <3>4
        DEF AcceptFails, TurnedAway, Served, IndInv, TypeOK, PC
      <3>. QED
        BY <2>2, <2>3, <2>4, <3>1, <3>2, <3>4, <3>5, ServerAssumption
        DEF IndInv, TypeOK
    <2>6. ASSUME NEW p \in Pid, ForkSession(a, p)
          PROVE  IndInv'
      <3>1. num_children < MaxChildren + Cardinality(Addr)
        BY <2>2, <2>3, ServerAssumption DEF IndInv, TypeOK
      <3>2. /\ proc[p] = "free" /\ proc' = [proc EXCEPT ![p] = "running"]
            /\ register_child(p)
        BY <2>6 DEF ForkSession, ForkHolding
      <3>3. /\ childtab' \in [Slots -> Pid \cup {0}]
            /\ proc' \in [Pid -> ProcState]
            /\ num_children' = num_children + 1
            /\ num_children' \in 0 .. ULong - 1
            /\ ChildCount' /\ TableSound'
        BY <2>1, <3>1, <3>2, RegisterKeeps, Zenon DEF ChildCount, TableSound
      <3>4. TypeOK' /\ AcceptReady'
        BY <2>1, <2>4, <2>6, <3>3
        DEF ForkSession, ForkHolding, Served, IndInv, TypeOK, AcceptReady, PC
      <3>5. num_children' + Cardinality(ready') <= MaxChildren + Cardinality(Addr)
        BY <2>2, <2>3, <3>3, ServerAssumption DEF IndInv, TypeOK
      <3>. QED
        BY <2>4, <3>3, <3>4, <3>5 DEF IndInv
    <2>. QED
      BY <1>6, <2>5, <2>6 DEF handle_connection
  <1>7. CASE StartLint \/ LintExits
    <2>. USE <1>7 DEF StartLint, LintExits, LintDone, LintReports, Fault
    <2>1. pc' \in {"lint", "top", "stop"} /\ pc = "lint" /\ lint' \in LintState
      BY Zenon DEF IndInv, TypeOK, LintState
    <2>2. restart' \in BOOLEAN
      BY Zenon DEF IndInv, TypeOK
    <2>5. faults' \in Nat
      <3>1. faults' = faults \/ faults' = faults + 1
        BY Zenon
      <3>. QED
        BY <3>1 DEF IndInv, TypeOK
    <2>3. UNCHANGED <<srvtab, ready, childtab, num_children, proc, holds, backlog,
                      stop, need_cleanup, tick, conns, terms, hups>>
      BY Zenon
    <2>4. pc' \in PC /\ Alive
      BY <2>1 DEF PC, Alive
    <2>. QED
      BY <2>1, <2>2, <2>3, <2>4, <2>5, PlainStep DEF IndInv, TypeOK
  <1>8. CASE LintKillsGroup
    <2>1. ready = {} /\ ready' = {} /\ pc' = "killed"
      BY <1>8 DEF LintKillsGroup, IndInv
    <2>2. backlog' \in [Addr -> Nat] /\ holds' \in [Pid -> SUBSET Addr]
      BY <1>8 DEF LintKillsGroup, BacklogOf, IndInv, TypeOK
    <2>3. TypeOK'
      BY <1>8, <2>1, <2>2 DEF LintKillsGroup, IndInv, TypeOK, PC, ProcState
    <2>. QED
      BY <1>8, <2>1, <2>3
      DEF LintKillsGroup, IndInv, ChildCount, TableSound, AcceptReady, Alive
  <1>9. CASE StopTerm \/ StopKill
    <2>. USE <1>9 DEF StopTerm, StopKill
    <2>1. /\ proc' = proc /\ holds' = holds /\ backlog' \in [Addr -> Nat]
      BY SwappedKill, Zenon DEF IndInv
    <2>2. pc \in {"stop", "kill"} /\ pc' \in {"reap", "quit"}
      BY Zenon
    <2>4. UNCHANGED <<srvtab, childtab, num_children, ready, stop, restart, lint, env>>
      BY Zenon
    <2>6. need_cleanup' \in BOOLEAN /\ tick' \in Nat
      <3>1. need_cleanup' \in BOOLEAN
        BY Zenon DEF IndInv, TypeOK
      <3>2. tick' = 0 \/ tick' = tick
        BY Zenon
      <3>. QED
        BY <3>1, <3>2 DEF IndInv, TypeOK
    <2>3. TypeOK' /\ ready' = {}
      BY <2>1, <2>2, <2>4, <2>6 DEF IndInv, TypeOK, PC
    <2>5. ChildCount' /\ TableSound'
      BY <2>1, <2>2, <2>4 DEF IndInv, ChildCount, TableSound, Alive, Children
    <2>. QED
      BY <2>2, <2>3, <2>4, <2>5 DEF IndInv, AcceptReady
  <1>10. CASE StopReap
    <2>1. pc = "reap" /\ Alive /\ pc' \in {"quit", "sleep", "kill"}
      BY <1>10 DEF StopReap, Alive
    <2>2. CASE tick < ShutdownTimeout
      <3>1. cleanup_children
        BY <1>10, <2>2 DEF StopReap
      <3>2. ChildCount' /\ TableSound' /\ num_children' <= num_children
        BY <2>1, <3>1, CleanupKeeps DEF ChildCount, TableSound
      <3>3. TypeOK' /\ AcceptReady'
        BY <1>10, <2>1, <3>1, CleanupKeeps DEF StopReap, IndInv, TypeOK, AcceptReady, PC
      <3>4. Cardinality(ready) \in Nat /\ Cardinality(Addr) \in Nat /\ ready' = ready
        BY <1>10, AddrSets DEF StopReap, IndInv, TypeOK
      <3>. QED
        BY <1>10, <2>1, <3>2, <3>3, <3>4, ServerAssumption DEF IndInv, TypeOK
    <2>3. CASE ~(tick < ShutdownTimeout)
      BY <1>10, <2>1, <2>3, PlainStep DEF StopReap, IndInv, TypeOK, PC
    <2>. QED
      BY <2>2, <2>3
  <1>11. CASE StopSleep
    BY <1>11, PlainStep DEF StopSleep, StopSleepCounting, IndInv, TypeOK, PC, Alive
  <1>12. CASE Quit
    <2>1. pc = "quit" /\ pc' \in {"exec", "exited"} /\ ready = {} /\ ready' = {}
      BY <1>12 DEF Quit, IndInv
    <2>2. proc' \in [Pid -> ProcState] /\ (pc' = "exec" => proc' = proc)
      BY <1>12, DisownKeeps DEF Quit, IndInv, TypeOK
    <2>3. TypeOK'
      BY <1>12, <2>1, <2>2 DEF Quit, BacklogOf, IndInv, TypeOK, PC
    <2>. QED
      BY <1>12, <2>1, <2>2, <2>3
      DEF Quit, IndInv, ChildCount, TableSound, AcceptReady, Alive, Children
  <1>13. CASE Exec
    <2>1. proc' \in [Pid -> ProcState] /\ Children' = {}
      BY <1>13, DisownKeeps DEF Exec, IndInv
    <2>2. Cardinality(Children') = 0 /\ Cardinality(ready') = 0
      BY <1>13, <2>1, FS_EmptySet DEF Exec
    <2>3. TypeOK'
      <3>1. 0 \in 0 .. ULong - 1
        BY ServerAssumption, AddrSets
      <3>. QED
        BY <1>13, <2>1, <3>1, Zenon DEF Exec, IndInv, TypeOK, PC, LintState
    <2>. QED
      BY <1>13, <2>1, <2>2, <2>3, ServerAssumption, AddrSets
      DEF Exec, IndInv, ChildCount, TableSound, AcceptReady
  <1>14. CASE sig_stop \/ sig_restart
    <2>1. /\ pc \in PC /\ Interrupt /\ Alive
          /\ UNCHANGED <<srvtab, ready, childtab, num_children, proc, holds, backlog>>
      BY <1>14 DEF sig_stop, sig_restart, HandlersInstalled, Alive, IndInv, TypeOK
    <2>2. /\ pc' = pc \/ (pc' \in {"top", "eintr", "reap"} /\ pc # "serve")
          /\ pc' \in PC /\ tick' \in Nat
      BY <2>1 DEF Interrupt, IndInv, TypeOK, PC
    <2>. QED
      <3>1. TypeOK'
        <4>1. stop' \in BOOLEAN /\ restart' \in BOOLEAN /\ need_cleanup' \in BOOLEAN
          BY <1>14, Zenon DEF sig_stop, sig_restart, IndInv, TypeOK
        <4>2. /\ terms' \in Nat /\ hups' \in Nat
              /\ UNCHANGED <<lint, conns, faults>>
          BY <1>14 DEF sig_stop, sig_restart, IndInv, TypeOK
        <4>. QED
          BY <2>1, <2>2, <4>1, <4>2 DEF IndInv, TypeOK
      <3>2. ChildCount' /\ TableSound' /\ AcceptReady'
        BY <2>1 DEF IndInv, ChildCount, TableSound, AcceptReady, Children
      <3>. QED
        BY <2>1, <2>2, <3>1, <3>2 DEF IndInv, Children
  <1>15. ASSUME NEW p \in Pid, SessionExits(p)
         PROVE  IndInv'
    <2>1. /\ pc' = pc \/ (pc' \in {"top", "eintr", "reap"} /\ pc # "serve" /\ Alive)
          /\ pc' \in PC /\ tick' \in Nat
          /\ Alive' => Alive
      <3>1. (Interrupt /\ HandlersInstalled) \/ UNCHANGED <<pc, tick>>
        BY <1>15 DEF SessionExits, sig_child
      <3>. QED
        BY <3>1 DEF Interrupt, HandlersInstalled, Alive, IndInv, TypeOK, PC
    <2>3. need_cleanup' \in BOOLEAN
      BY <1>15, Zenon DEF SessionExits, sig_child, IndInv, TypeOK
    <2>2. /\ proc' \in [Pid -> ProcState] /\ Children' = Children
          /\ holds' \in [Pid -> SUBSET Addr] /\ backlog' \in [Addr -> Nat]
          /\ \A a \in srvtab : backlog'[a] = backlog[a]
      BY <1>15 DEF SessionExits, Ends, Running, BacklogOf, Children, ProcState,
                   IndInv, TypeOK
    <2>. QED
      BY <1>15, <2>1, <2>2, <2>3
      DEF SessionExits, IndInv, TypeOK, ChildCount, TableSound, AcceptReady, env
  <1>16. ASSUME NEW a \in Addr, Connect(a)
         PROVE  IndInv'
    BY <1>16 DEF Connect, IndInv, TypeOK, ChildCount, TableSound, AcceptReady,
                 Alive, Children
  <1>17. CASE UNCHANGED vars
    BY <1>17 DEF IndInv, TypeOK, ChildCount, TableSound, AcceptReady, Alive, Children
  <1>. QED
    BY <1>1, <1>2, <1>3, <1>4, <1>5, <1>6, <1>7, <1>8, <1>9, <1>10, <1>11, <1>12,
       <1>13, <1>14, <1>15, <1>16, <1>17 DEF Next, MasterStep

\* The initial state has no children and no sockets.
LEMMA IndInvInit ==
    Init => IndInv
  <1>. SUFFICES ASSUME Init PROVE IndInv
    OBVIOUS
  <1>1. Children = {} /\ Cardinality(Children) = 0 /\ Cardinality(ready) = 0
    BY FS_EmptySet, Zenon, SMTT(30) DEF Init, Children
  <1>2. 0 \in 0 .. ULong - 1 /\ Cardinality(Addr) \in Nat
    BY ServerAssumption, AddrSets
  <1>3. TypeOK
    BY <1>2, Zenon DEF Init, TypeOK, PC, ProcState, LintState
  <1>. QED
    BY <1>1, <1>2, <1>3, ServerAssumption
    DEF Init, IndInv, ChildCount, TableSound, AcceptReady

\* For every configuration of a master that calls daemon(3), the inductive
\* invariant of server.c's bookkeeping holds, and with it that accept never
\* blocks: a socket that select reported still has a connection in its queue.
THEOREM ServerInvariant ==
    ASSUME ~Foreground
    PROVE  Spec => []IndInv
  <1>1. IndInv /\ [Next]_vars => IndInv'
    BY IndInvStep
  <1>. QED
    BY <1>1, IndInvInit, PTL DEF Spec

\* num_children is the number of children that waitpid has not returned yet:
\* register_child and cleanup_children agree, with a table of any size.
THEOREM ServerSafety ==
    ASSUME ~Foreground
    PROVE  Spec => []ChildCount
  <1>1. IndInv => ChildCount
    BY DEF IndInv
  <1>. QED
    BY <1>1, ServerInvariant, PTL

\* childtab names only children of the master, and none of them twice: no id in
\* it is stale, however often the kernel uses process ids again.
THEOREM ServerTable ==
    ASSUME ~Foreground
    PROVE  Spec => []TableSound
  <1>1. IndInv => TableSound
    BY DEF IndInv
  <1>. QED
    BY <1>1, ServerInvariant, PTL

\* server_loop exceeds max_children by at most one child per listening socket.
THEOREM ServerLimit ==
    ASSUME ~Foreground
    PROVE  Spec => []ChildLimit
  <1>1. IndInv => ChildLimit
    <2>. SUFFICES ASSUME IndInv PROVE ChildLimit
      OBVIOUS
    <2>1. Cardinality(ready) \in Nat /\ Cardinality(Addr) \in Nat
      BY AddrSets DEF IndInv, TypeOK
    <2>. QED
      BY <2>1, ServerAssumption DEF IndInv, TypeOK, ChildLimit
  <1>. QED
    BY <1>1, ServerInvariant, PTL

-----------------------------------------------------------------------------
(* Restarts.                                                               *)

\* No session holds the sockets of all the addresses: it was accepted on one and
\* has closed that one, and a socket it has closed it never opens again.
HoldsNotAll == \A p \in Pid : \E a \in Addr : a \notin holds[p]

LEMMA HoldsStep ==
    ASSUME IndInv, HoldsNotAll, [Next]_vars
    PROVE  HoldsNotAll'
  <1>. USE DEF vars, master, env
  <1>1. ASSUME \A p \in Pid : holds'[p] \subseteq holds[p]
        PROVE  HoldsNotAll'
    BY <1>1 DEF HoldsNotAll
  <1>2. ASSUME UNCHANGED holds PROVE HoldsNotAll'
    BY <1>1, <1>2
  <1>3. CASE open_sockets
    BY <1>1, <1>3 DEF open_sockets
  <1>4. ASSUME NEW a \in Addr, handle_connection(a)
        PROVE  HoldsNotAll'
    <2>1. ASSUME NEW p \in Pid, ForkSession(a, p)
          PROVE  HoldsNotAll'
      <3>1. holds' = [holds EXCEPT ![p] = srvtab \ {a}]
        BY <2>1 DEF ForkSession, ForkHolding
      <3>. QED
        BY <3>1 DEF HoldsNotAll, IndInv, TypeOK
    <2>2. CASE AcceptFails(a) \/ TurnedAway(a)
      BY <1>2, <2>2 DEF AcceptFails, TurnedAway
    <2>. QED
      BY <1>4, <2>1, <2>2 DEF handle_connection
  <1>5. CASE StopTerm \/ StopKill
    <2>1. UNCHANGED holds
      BY <1>5, SwappedKill, Zenon DEF StopTerm, StopKill, IndInv
    <2>. QED
      BY <1>2, <2>1
  <1>6. ASSUME NEW p \in Pid, SessionExits(p) PROVE HoldsNotAll'
    BY <1>1, <1>6 DEF SessionExits, Ends
  <1>7. CASE LintKillsGroup
    BY <1>1, <1>7 DEF LintKillsGroup
  <1>8. CASE LoopTop \/ CallPause \/ CallSelect \/ SelectReady \/ SelectInterrupted
             \/ SelectError \/ StartLint \/ LintExits \/ StopReap \/ StopSleep
    BY <1>2, <1>8, Zenon
    DEF LoopTop, LoopTopWithin, CallPause, CallSelect, EnterCall, SelectReady,
        SelectReports, SelectInterrupted, SelectError, StartLint, LintExits,
        LintDone, LintReports, StopReap, StopSleep, StopSleepCounting
  <1>9. CASE Quit \/ Exec \/ sig_stop \/ sig_restart
    BY <1>2, <1>9 DEF Quit, Exec, sig_stop, sig_restart
  <1>10. ASSUME NEW a \in Addr, Connect(a) PROVE HoldsNotAll'
    BY <1>2, <1>10 DEF Connect
  <1>11. CASE UNCHANGED vars
    BY <1>2, <1>11
  <1>. QED
    BY <1>3, <1>4, <1>5, <1>6, <1>7, <1>8, <1>9, <1>10, <1>11 DEF Next, MasterStep

\* For every set of addresses: when bind(2) finds every address in use by
\* sessions of earlier images and no system call fails otherwise, there are two
\* such sessions at least.
THEOREM RestartFinds ==
    ASSUME ~Foreground
    PROVE  Spec => RestartFindsAddress
  <1>1. Init => HoldsNotAll
    BY ServerAssumption, Zenon DEF Init, HoldsNotAll
  <1>2. ASSUME HoldsNotAll, [Next]_vars, pc' = "died", pc = "open", faults' = faults, IndInv
        PROVE  \E p, q \in Pid : p # q /\ holds[p] # {} /\ holds[q] # {}
    <2>1. open_sockets
      BY <1>2, Zenon DEF Next, MasterStep, vars, master, env, LoopTop, LoopTopWithin, CallPause,
         CallSelect, EnterCall, SelectReady, SelectReports, SelectInterrupted,
         handle_connection, AcceptFails, TurnedAway, ForkSession, ForkHolding,
         Served, StartLint, StopTerm, StopReap, StopSleep, StopSleepCounting,
         StopKill, Quit, Exec, SelectError, LintExits, LintDone,
         LintReports, LintKillsGroup, sig_stop, sig_restart, Interrupt, SessionExits,
         sig_child, Connect
    <2>2. \A a \in Addr : ~CanBind(a)
      <3>1. PICK failed \in SUBSET Addr :
              /\ Fault(Cardinality(failed))
              /\ {a \in Addr : CanBind(a)} \ failed = {}
        BY <1>2, <2>1 DEF open_sockets
      <3>2. Cardinality(failed) = 0
        BY <1>2, <3>1, AddrSets DEF Fault, IndInv, TypeOK
      <3>3. failed = {}
        BY <3>2, AddrSets, FS_EmptySet
      <3>. QED
        BY <3>1, <3>3
    <2>3. PICK a \in Addr : TRUE
      BY ServerAssumption, Zenon
    <2>4. PICK p \in Pid : a \in holds[p]
      BY <2>2 DEF CanBind
    <2>5. PICK b \in Addr : b \notin holds[p]
      BY <1>2 DEF HoldsNotAll
    <2>6. PICK q \in Pid : b \in holds[q]
      BY <2>2 DEF CanBind
    <2>. QED
      BY <2>4, <2>5, <2>6
  <1>. QED
    BY <1>1, <1>2, HoldsStep, IndInvStep, IndInvInit, PTL DEF Spec, RestartFindsAddress

-----------------------------------------------------------------------------
(* Children without a slot.                                                *)

\* find_pid finds a slot when there is one.
LEMMA MinOfSlots ==
    ASSUME NEW T \in SUBSET Slots, T # {}
    PROVE  Min(T) \in T
  <1>1. T \subseteq Nat
    BY ServerAssumption DEF Slots
  <1>2. PICK x \in T : \A y \in T : ~(<<y, x>> \in OpToRel(<, Nat))
    BY <1>1, WFMin, NatLessThanWellFounded, Zenon
  <1>3. \A y \in T : ~(y < x)
    BY <1>1, <1>2, Zenon DEF OpToRel
  <1>4. \A y \in T : x =< y
    BY <1>1, <1>3
  <1>. QED
    BY <1>4 DEF Min

\* A table without a free slot names as many children as it has slots.
LEMMA FullTable ==
    ASSUME TypeOK, TableSound, Alive, find_pid(childtab, 0) = {}
    PROVE  /\ Range(childtab) \subseteq Children
           /\ Cardinality(Range(childtab)) = MaxChildren
  <1>1. \A i \in Slots : childtab[i] # 0
    BY Zenon DEF find_pid
  <1>2. childtab \in [Slots -> Range(childtab)] /\ DOMAIN childtab = Slots
    BY DEF TypeOK, Range
  <1>3. childtab \in Surjection(Slots, Range(childtab))
    BY <1>2 DEF Surjection, Range
  <1>4. childtab \in Injection(Slots, Range(childtab))
    BY <1>1, <1>2 DEF TableSound, Injection, IsInjective
  <1>5. IsFiniteSet(Slots) /\ Cardinality(Slots) = MaxChildren
    BY ServerAssumption, FS_Interval DEF Slots
  <1>6. Cardinality(Range(childtab)) = MaxChildren
    BY <1>3, <1>4, <1>5, FS_Surjection
  <1>7. Range(childtab) \subseteq Children
    BY <1>1, <1>2 DEF TableSound, Range
  <1>. QED
    BY <1>6, <1>7

\* A step that adds no child outside of the table keeps their number small.
LEMMA FewerUnregistered ==
    ASSUME FewUnregistered, Alive,
           Children' \ Range(childtab') \subseteq Children \ Range(childtab)
    PROVE  FewUnregistered'
  <1>1. /\ IsFiniteSet(Children \ Range(childtab))
        /\ Cardinality(Children \ Range(childtab)) \in Nat
        /\ Cardinality(Children' \ Range(childtab')) \in Nat
        /\ Cardinality(Addr) \in Nat
    BY PidSets, AddrSets DEF Children
  <1>2. Cardinality(Children' \ Range(childtab')) <= Cardinality(Children \ Range(childtab))
    BY <1>1, FS_Subset
  <1>. QED
    BY <1>1, <1>2 DEF FewUnregistered

\* A child is forked without a slot only when the table is full, and then the
\* limit on all the children bounds the ones outside of the table.
LEMMA ForkFew ==
    ASSUME IndInv, IndInv', FewUnregistered, Alive, Alive', NEW p \in Pid,
           proc[p] = "free", proc' = [proc EXCEPT ![p] = "running"],
           register_child(p)
    PROVE  FewUnregistered'
  <1>1. Children' = Children \cup {p} /\ p \notin Children
    BY DEF Children, IndInv, TypeOK
  <1>2. /\ Children \in SUBSET Pid /\ Children' \in SUBSET Pid
        /\ Cardinality(Addr) \in Nat /\ MaxChildren \in Nat
    BY AddrSets, ServerAssumption DEF Children
  <1>3. DOMAIN childtab = Slots /\ DOMAIN childtab' = Slots
    BY DEF register_child, IndInv, TypeOK
  <1>4. \A i \in Slots : childtab'[i] = IF i \in find_pid(childtab, 0) THEN p
                                                                      ELSE childtab[i]
    BY DEF register_child
  <1>5. CASE find_pid(childtab, 0) = {}
    <2>1. Range(childtab') = Range(childtab)
      BY <1>3, <1>4, <1>5 DEF Range
    <2>2. /\ Range(childtab) \subseteq Children
          /\ Cardinality(Range(childtab)) = MaxChildren
      BY <1>5, FullTable DEF IndInv
    <2>3. Children' \cap Range(childtab') = Range(childtab)
      BY <1>1, <2>1, <2>2
    <2>4. Cardinality(Children' \ Range(childtab')) = Cardinality(Children') - MaxChildren
      <3>1. IsFiniteSet(Children')
        BY <1>2, PidSets
      <3>2. Cardinality(Children' \ Range(childtab'))
              = Cardinality(Children') - Cardinality(Children' \cap Range(childtab'))
        BY <3>1, FS_Difference
      <3>. QED
        BY <2>2, <2>3, <3>2
    <2>5. Cardinality(Children') <= MaxChildren + Cardinality(Addr)
      <3>1. Cardinality(ready') \in Nat /\ num_children' \in Nat
        <4>1. /\ ready' \subseteq srvtab' /\ srvtab' \subseteq Addr
              /\ num_children' \in 0 .. ULong - 1
          BY Zenon DEF IndInv, TypeOK
        <4>2. ready' \in SUBSET Addr
          BY <4>1, Zenon
        <4>3. Cardinality(ready') \in Nat
          BY <4>2, AddrSets, Zenon
        <4>. QED
          BY <4>1, <4>3
      <3>. QED
        BY <1>2, <3>1, SMTT(30) DEF IndInv, ChildCount
    <2>. QED
      BY <1>2, <2>4, <2>5, PidSets DEF FewUnregistered
  <1>6. CASE find_pid(childtab, 0) # {}
    <2>1. PICK i \in Slots : i \in find_pid(childtab, 0) /\ childtab[i] = 0
      <3>1. {j \in Slots : childtab[j] = 0} # {}
        BY <1>6, Zenon DEF find_pid
      <3>2. Min({j \in Slots : childtab[j] = 0}) \in {j \in Slots : childtab[j] = 0}
        BY <3>1, MinOfSlots
      <3>. QED
        BY <3>1, <3>2, Zenon, SMTT(30) DEF find_pid
    <2>2. p \in Range(childtab')
      BY <1>3, <1>4, <2>1 DEF Range
    <2>3. ASSUME NEW j \in Slots, childtab[j] \in Pid
          PROVE  childtab[j] \in Range(childtab')
      <3>1. j \notin find_pid(childtab, 0)
        <4>1. {k \in Slots : childtab[k] = 0} # {}
          BY <1>6, Zenon DEF find_pid
        <4>2. \A k \in find_pid(childtab, 0) : childtab[k] = 0
          BY <4>1, MinOfSlots DEF find_pid
        <4>. QED
          BY <2>3, <4>2, ServerAssumption
      <3>. QED
        BY <1>3, <1>4, <3>1 DEF Range
    <2>4. Children' \ Range(childtab') \subseteq Children \ Range(childtab)
      BY <1>1, <1>2, <1>3, <2>2, <2>3 DEF Range
    <2>. QED
      BY <1>2, <2>4, FewerUnregistered
  <1>. QED
    BY <1>5, <1>6

\* The master waits for zombies: the slots it clears are theirs.
LEMMA CleanupFew ==
    ASSUME IndInv, FewUnregistered, Alive, cleanup_children
    PROVE  FewUnregistered'
  <1>1. Children' = Children \ Zombies
    BY DEF cleanup_children, Children, Zombies, IndInv, TypeOK
  <1>2. DOMAIN childtab = Slots /\ DOMAIN childtab' = Slots
    BY DEF cleanup_children, IndInv, TypeOK
  <1>3. ASSUME NEW i \in Slots, childtab[i] \notin Zombies
        PROVE  childtab'[i] = childtab[i]
    <2>1. ASSUME NEW pid, i \in find_pid(childtab, pid)
          PROVE  childtab[i] = pid
      <3>1. {j \in Slots : childtab[j] = pid} # {}
        BY <2>1 DEF find_pid
      <3>. QED
        BY <2>1, <3>1, MinOfSlots DEF find_pid
    <2>. QED
      BY <1>3, <2>1 DEF cleanup_children
  <1>4. Children' \ Range(childtab') \subseteq Children \ Range(childtab)
    BY <1>1, <1>2, <1>3 DEF Range
  <1>. QED
    BY <1>4, FewerUnregistered

\* Every step keeps the children without a slot few.
LEMMA FewStep ==
    ASSUME ~Foreground, IndInv, FewUnregistered, [Next]_vars
    PROVE  FewUnregistered'
  <1>. USE DEF vars, master, env
  <1>0. IndInv'
    BY IndInvStep
  <1>1. ASSUME UNCHANGED <<childtab, proc>>, Alive' => Alive
        PROVE  FewUnregistered'
    BY <1>1 DEF FewUnregistered, Children
  <1>2. ASSUME Children' = {} PROVE FewUnregistered'
    BY <1>2, AddrSets, FS_EmptySet DEF FewUnregistered
  <1>3. CASE open_sockets
    BY <1>1, <1>2, <1>3, DisownKeeps DEF open_sockets, Alive, IndInv
  <1>4. CASE LoopTop
    BY <1>1, <1>4, CleanupFew DEF LoopTop, LoopTopWithin, Alive
  <1>5. CASE CallPause \/ CallSelect \/ SelectReady \/ SelectInterrupted \/ SelectError
    BY <1>1, <1>5
    DEF CallPause, CallSelect, EnterCall, SelectReady, SelectReports,
        SelectInterrupted, SelectError, Alive
  <1>6. ASSUME NEW a \in Addr, handle_connection(a)
        PROVE  FewUnregistered'
    <2>1. Alive /\ Alive'
      BY <1>6 DEF handle_connection, AcceptFails, TurnedAway, ForkSession,
                  ForkHolding, Served, Alive
    <2>2. ASSUME NEW p \in Pid, ForkSession(a, p)
          PROVE  FewUnregistered'
      BY <1>0, <2>1, <2>2, ForkFew, Zenon DEF ForkSession, ForkHolding
    <2>. QED
      BY <1>1, <1>6, <2>1, <2>2, Zenon, SMTT(30) DEF handle_connection, AcceptFails, TurnedAway
  <1>7. CASE StartLint \/ LintExits
    BY <1>1, <1>7, Zenon DEF StartLint, LintExits, LintDone, LintReports, Alive
  <1>8. CASE LintKillsGroup
    BY <1>8 DEF LintKillsGroup, FewUnregistered, Alive
  <1>9. CASE StopTerm \/ StopKill
    <2>1. proc' = proc
      BY <1>9, SwappedKill, Zenon DEF StopTerm, StopKill, IndInv
    <2>. QED
      BY <1>1, <1>9, <2>1, Zenon DEF StopTerm, StopKill, Alive
  <1>10. CASE StopReap
    BY <1>1, <1>10, CleanupFew DEF StopReap, Alive
  <1>11. CASE StopSleep \/ sig_stop \/ sig_restart
    BY <1>1, <1>11 DEF StopSleep, StopSleepCounting, sig_stop, sig_restart,
                       HandlersInstalled, Alive
  <1>12. CASE Quit
    BY <1>1, <1>12 DEF Quit, FewUnregistered, Alive
  <1>13. CASE Exec
    BY <1>2, <1>13, DisownKeeps DEF Exec, IndInv
  <1>14. ASSUME NEW p \in Pid, SessionExits(p)
         PROVE  FewUnregistered'
    <2>1. Children' = Children /\ childtab' = childtab
      BY <1>14 DEF SessionExits, Ends, Running, Children, IndInv, TypeOK
    <2>2. Alive' => Alive
      BY <1>14 DEF SessionExits, sig_child, Interrupt, HandlersInstalled, Alive
    <2>. QED
      BY <2>1, <2>2 DEF FewUnregistered
  <1>15. ASSUME NEW a \in Addr, Connect(a)
         PROVE  FewUnregistered'
    BY <1>1, <1>15 DEF Connect, Alive
  <1>16. CASE UNCHANGED vars
    BY <1>1, <1>16 DEF Alive
  <1>. QED
    BY <1>3, <1>4, <1>5, <1>6, <1>7, <1>8, <1>9, <1>10, <1>11, <1>12, <1>13,
       <1>14, <1>15, <1>16 DEF Next, MasterStep

\* For every size of the table and every number of addresses: the sessions that
\* stop_all does not know of, because register_child found no slot, are at most
\* one per listening socket.
THEOREM ServerFewUnregistered ==
    ASSUME ~Foreground
    PROVE  Spec => []FewUnregistered
  <1>1. Init => FewUnregistered
    <2>. SUFFICES ASSUME Init PROVE FewUnregistered
      OBVIOUS
    <2>1. Children \ Range(childtab) = {}
      BY DEF Init, Children
    <2>. QED
      BY <2>1, AddrSets, FS_EmptySet DEF FewUnregistered
  <1>2. IndInv /\ [Next]_vars => IndInv'
    BY IndInvStep
  <1>3. IndInv /\ FewUnregistered /\ [Next]_vars => FewUnregistered'
    BY FewStep, Zenon, SMTT(30)
  <1>. QED
    BY <1>1, <1>2, <1>3, IndInvInit, PTL DEF Spec

-----------------------------------------------------------------------------
(* Leaving server_loop.                                                    *)

\* Why server_loop was left is remembered until execv: the checker passed, or
\* sig_stop has set a flag that only a new image clears, or a system call failed.
LeftForReason ==
    /\ faults \in Nat
    /\ pc \in {"stop", "reap", "sleep", "kill", "quit", "exec"} =>
         lint = "passed" \/ stop \/ faults > 0

\* No step between server_loop and execv forgets the reason.
LEMMA ReasonStep ==
    ASSUME LeftForReason, [Next]_vars
    PROVE  LeftForReason'
  <1>. USE DEF vars, master, env, LeftForReason
  <1>1. CASE open_sockets
    BY <1>1, AddrSets DEF open_sockets, Fault
  <1>2. CASE LoopTop \/ CallPause \/ CallSelect \/ SelectReady
    BY <1>2 DEF LoopTop, LoopTopWithin, CallPause, CallSelect, EnterCall,
                SelectReady, SelectReports
  <1>3. CASE SelectInterrupted \/ SelectError
    BY <1>3 DEF SelectInterrupted, SelectError, Fault
  <1>4. ASSUME NEW a \in Addr, handle_connection(a)
        PROVE  LeftForReason'
    <2>1. pc' \in {"top", "serve"}
      BY <1>4 DEF handle_connection, AcceptFails, TurnedAway, ForkSession,
                  ForkHolding, Served
    <2>2. faults' \in Nat
      BY <1>4 DEF handle_connection, AcceptFails, TurnedAway, ForkSession,
                  ForkHolding, Fault
    <2>. QED
      BY <2>1, <2>2, Zenon, SMTT(30)
  <1>5. CASE StartLint
    <2>1. pc' \in {"lint", "top"}
      BY <1>5 DEF StartLint
    <2>2. faults' \in {faults, faults + 1}
      BY <1>5, Zenon DEF StartLint, Fault
    <2>. QED
      BY <2>1, <2>2
  <1>6. CASE LintExits \/ LintKillsGroup
    BY <1>6, Zenon DEF LintExits, LintDone, LintReports, LintKillsGroup
  <1>7. CASE StopTerm \/ StopReap \/ StopSleep \/ StopKill \/ Quit \/ Exec
    BY <1>7, Zenon DEF StopTerm, StopReap, StopSleep, StopSleepCounting, StopKill, Quit, Exec
  <1>8. CASE sig_stop \/ sig_restart
    BY <1>8 DEF sig_stop, sig_restart, Interrupt
  <1>9. ASSUME NEW p \in Pid, SessionExits(p)
        PROVE  LeftForReason'
    <2>1. /\ UNCHANGED <<stop, lint, faults>>
          /\ pc' = pc \/ pc' \in {"top", "eintr"} \/ (pc = "sleep" /\ pc' = "reap")
      BY <1>9 DEF SessionExits, sig_child, Interrupt
    <2>. QED
      BY <2>1
  <1>10. ASSUME NEW a \in Addr, Connect(a)
         PROVE  LeftForReason'
    BY <1>10 DEF Connect
  <1>11. CASE UNCHANGED vars
    BY <1>11
  <1>. QED
    BY <1>1, <1>2, <1>3, <1>4, <1>5, <1>6, <1>7, <1>8, <1>9, <1>10, <1>11, Zenon, SMTT(30)
    DEF Next, MasterStep

\* For every configuration, with --foreground and without: the daemon executes
\* itself again without a configuration check that passed only if a stop signal
\* or a system call that failed made it leave server_loop.
THEOREM ServerRestartChecked == Spec => []RestartChecked
  <1>1. Init => LeftForReason
    BY DEF Init, LeftForReason
  <1>2. LeftForReason => RestartChecked
    BY DEF LeftForReason, RestartChecked
  <1>3. LeftForReason /\ [Next]_vars => LeftForReason'
    BY ReasonStep
  <1>. QED
    BY <1>1, <1>2, <1>3, PTL DEF Spec
=============================================================================
