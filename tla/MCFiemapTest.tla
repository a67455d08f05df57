---------------------------- MODULE MCFiemapTest ----------------------------
(* Instances of FiemapTest for TLC; the rest is in the MCFiemapTest_*.cfg. *)
EXTENDS FiemapTest

Forever == [runs |-> -1, map |-> <<>>]
Runs(n) == [runs |-> n, map |-> <<>>]
WithMap(m) == [runs |-> -1, map |-> m]

AllOptions == {Forever, Runs(0), Runs(2), WithMap(<<"D", "P", "H", "P">>),
               WithMap(<<"D", "D", "D">>), WithMap(<<"P", "H", "D">>),
               WithMap(<<"H", "D", "H">>), WithMap(<<"H", "H", "H">>)}
OneRun == {Runs(1)}
=============================================================================
