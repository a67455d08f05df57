------------------------------ MODULE ForkJoin ------------------------------
(***************************************************************************)
(* What a program that forks workers and waits for them promises to the    *)
(* one who started it: it stops, it reports success only when every worker *)
(* did its work, and failure only when some worker did not.  Workers left  *)
(* running by a failure go on.                                             *)
(***************************************************************************)
CONSTANT Workers

VARIABLES work, outcome

vars == <<work, outcome>>

TypeOK == /\ work \in [Workers -> {"todo", "done", "failed"}]
          /\ outcome \in {"running", "success", "failure"}

Init == /\ work = [w \in Workers |-> "todo"]
        /\ outcome = "running"

Complete(w) == /\ work[w] = "todo"
               /\ work' = [work EXCEPT ![w] = "done"]
               /\ UNCHANGED outcome

Break(w) == /\ work[w] = "todo"
            /\ work' = [work EXCEPT ![w] = "failed"]
            /\ UNCHANGED outcome

Succeed == /\ outcome = "running"
           /\ \A w \in Workers : work[w] = "done"
           /\ outcome' = "success"
           /\ UNCHANGED work

\* With no worker at all there was nothing to do, and the run is refused.
Fail == /\ outcome = "running"
        /\ Workers = {} \/ \E w \in Workers : work[w] # "done"
        /\ outcome' = "failure"
        /\ UNCHANGED work

Next == (\E w \in Workers : Complete(w) \/ Break(w)) \/ Succeed \/ Fail

Spec == Init /\ [][Next]_vars /\ WF_vars(Succeed \/ Fail)
=============================================================================
