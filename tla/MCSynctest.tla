----------------------------- MODULE MCSynctest -----------------------------
(* Instances of Synctest for TLC; the values are in the MCSynctest_*.cfg. *)
EXTENDS Synctest
=============================================================================
