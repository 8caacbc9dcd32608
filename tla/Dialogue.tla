------------------------------ MODULE Dialogue ------------------------------
(* What a session promises its client: commands are answered in turn, one   *)
(* reply for each, and every command is, unless the session ends.           *)
EXTENDS Naturals

VARIABLES asked, answered, over

vars == <<asked, answered, over>>

Init == asked = 0 /\ answered = 0 /\ over = FALSE

Ask == asked' = asked + 1 /\ UNCHANGED <<answered, over>>

Answer ==
    /\ ~over /\ answered < asked
    /\ answered' = answered + 1
    /\ UNCHANGED <<asked, over>>

End == ~over /\ over' = TRUE /\ UNCHANGED <<asked, answered>>

Next == Ask \/ Answer \/ End

Spec == Init /\ [][Next]_vars /\ WF_vars(Answer)
=============================================================================
