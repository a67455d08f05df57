----------------------------- MODULE MCSnapTest -----------------------------
(* Instances of SnapTest for TLC; the rest is in MCSnapTest_rounds.cfg. *)
EXTENDS SnapTest, TLC

\* A sound file system and a faulty one, each with and without failing commands, and
\* a directory in which an earlier run has left a snapshot that agrees, or does not.
Environs ==
    [faulty : BOOLEAN, failing : BOOLEAN, left : {<<>>, 1 :> TRUE, 1 :> FALSE}]
=============================================================================
