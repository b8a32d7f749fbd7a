----------------------------- MODULE MCVTParser -----------------------------
(***************************************************************************)
(* Instances of VTParser for TLC.                                            *)
(***************************************************************************)
EXTENDS VTParser

\* ESC, [, 1, ?, $, m, BEL, CAN, SUB, and the 8-bit CSI, DCS, OSC, APC and PM.
Controls == {\H1b, \H5b, \H31, \H3f, \H24, \H6d, \H07, \H18, \H1a, \H9b, \H90, \H9d, \H9f, \H9e}

\* ESC, ], BEL, the first bytes of code points of two, three and four bytes, and
\* two that continue them.  ESC ] opens a string, and elsewhere ] is a letter; the
\* first of two and the second continuation are the C1 control that ends a string.
Letters  == {\H1b, \H5d, \H07, \Hc2, \He9, \Hf1, \Ha9, \H9c}
=============================================================================
