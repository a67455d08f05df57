---------------------------- MODULE MCSnapstorm ----------------------------
(* Instances of Snapstorm for TLC; the values are in the MCSnapstorm_*.cfg. *)
EXTENDS Snapstorm
=============================================================================
