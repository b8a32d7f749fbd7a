------------------------------ MODULE MCVTPage ------------------------------
(***************************************************************************)
(* Instances of VTPage for TLC.                                              *)
(***************************************************************************)
EXTENDS VTPage

SmallAndLarge == {[cx |-> 2, cy |-> 2], [cx |-> 3, cy |-> 3]}
Corner        == {[x |-> 3, y |-> 3, eol |-> TRUE, displaced |-> TRUE]}
=============================================================================
