------------------------------ MODULE MCStress ------------------------------
(* Instances of Stress for TLC; the rest is in MCStress_copies.cfg. *)
EXTENDS Stress

AllSettings ==
    [script : {"stress.sh", "stress-subvol-heavy.sh"}, nconcurrent : {2},
     corrupt : BOOLEAN, nested : BOOLEAN, failing : BOOLEAN, interrupt : BOOLEAN, left : Sums]
=============================================================================
