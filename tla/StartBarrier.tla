---------------------------- MODULE StartBarrier ----------------------------
(***************************************************************************)
(* What snapstorm's two counters and its condition variable are for: all   *)
(* workers are lined up before the first is let go, and the run is over    *)
(* only when the last has finished.                                        *)
(***************************************************************************)
CONSTANT Workers

VARIABLES place, over

vars == <<place, over>>

TypeOK == /\ place \in [Workers -> {"coming", "lined up", "running", "finished"}]
          /\ over \in BOOLEAN

Init == /\ place = [w \in Workers |-> "coming"]
        /\ over = FALSE

LineUp(w) == /\ place[w] = "coming"
             /\ place' = [place EXCEPT ![w] = "lined up"]
             /\ UNCHANGED over

Go(w) == /\ place[w] = "lined up"
         /\ \A v \in Workers : place[v] # "coming"
         /\ place' = [place EXCEPT ![w] = "running"]
         /\ UNCHANGED over

Finish(w) == /\ place[w] = "running"
             /\ place' = [place EXCEPT ![w] = "finished"]
             /\ UNCHANGED over

End == /\ ~over
       /\ \A w \in Workers : place[w] = "finished"
       /\ over' = TRUE
       /\ UNCHANGED place

Next == (\E w \in Workers : LineUp(w) \/ Go(w) \/ Finish(w)) \/ End

Spec == Init /\ [][Next]_vars
=============================================================================
