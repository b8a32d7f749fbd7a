---------------------------- MODULE MCSshShared ----------------------------
(***************************************************************************)
(* Instances of SshShared for TLC.                                           *)
(***************************************************************************)
EXTENDS SshShared, TLC

CONSTANTS o1, o2, o3

ThreeObjects == {o1, o2, o3}
Alike        == Permutations(ThreeObjects)
=============================================================================
