---------------------------- MODULE MCPtyProcess ----------------------------
(* Two objects, two children between them. *)
EXTENDS PtyProcess
CONSTANTS a, b
MCObjects == {a, b}
MCMaxIn   == [x \in MCObjects |-> IF x = a THEN 2 ELSE 0]
MCMaxOut  == [x \in MCObjects |-> IF x = a THEN 1 ELSE 0]
MCWild    == {a}
MCKids    == 1 .. 2
=============================================================================
