---------------------------- MODULE MCJobWorker ----------------------------
(***************************************************************************)
(* Instances of JobWorker for TLC.                                           *)
(***************************************************************************)
EXTENDS JobWorker

CONSTANT c1

OneClient == {c1}
=============================================================================
