----------------------------- MODULE MCGengxin ------------------------------
(***************************************************************************)
(* Five releases: the third is not for this target and prints the second's *)
(* version, the fourth was built with the wrong version, the others are as *)
(* they should be.                                                         *)
(***************************************************************************)
EXTENDS Gengxin

CONSTANTS u1, u2, u3

MCReports == <<1, 2, 2, 3, 5>>
MCFits    == {1, 2, 4, 5}
=============================================================================
