------------------------------ MODULE MCSshScp ------------------------------
(***************************************************************************)
(* Instances of SshScp for TLC.                                              *)
(***************************************************************************)
EXTENDS SshScp
=============================================================================
