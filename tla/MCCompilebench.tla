--------------------------- MODULE MCCompilebench ---------------------------
(* Instances of Compilebench for TLC; the rest is in the MCCompilebench_*.cfg. *)
EXTENDS Compilebench

RandomLoop == [initial_dirs |-> 2, runs |-> 6, makej |-> FALSE]
ShortLoop  == [initial_dirs |-> 0, runs |-> 3, makej |-> FALSE]
OneTree    == [initial_dirs |-> 1, runs |-> 3, makej |-> FALSE]
Makej(n)   == [initial_dirs |-> n, runs |-> 0, makej |-> TRUE]

Everything == {RandomLoop, ShortLoop, Makej(0), Makej(4)}
Short == {OneTree}
=============================================================================
