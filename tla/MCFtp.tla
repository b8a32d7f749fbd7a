------------------------------- MODULE MCFtp -------------------------------
(***************************************************************************)
(* Instances of Ftp for TLC.                                                 *)
(***************************************************************************)
EXTENDS Ftp

\* Connect, then any call, and another transfer or command.
AnyCall == <<{}, Ops, {"Get", "Delete"}>>

\* A line, and the beginning of one that does not end.
LineAndHalf == <<"cr", "lf", "char">>
=============================================================================
