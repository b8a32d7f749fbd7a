---------------------------- MODULE MCStackCtrl ----------------------------
(***************************************************************************)
(* Instances of StackCtrl for TLC.                                           *)
(***************************************************************************)
EXTENDS StackCtrl, TLC

CONSTANTS a, b, c

ThreeCtrls == {a, b, c}
Alike      == Permutations(ThreeCtrls)
=============================================================================
