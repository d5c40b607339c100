------------------------------ MODULE MCJiandu ------------------------------
(***************************************************************************)
(* Three savers, the first and the last with the same process id, one      *)
(* after the other; the second runs at any time beside them.               *)
(***************************************************************************)
EXTENDS Jiandu

CONSTANTS p1, p2, p3, i1, i2

MCPid == [p \in Savers |-> IF p = p2 THEN i2 ELSE i1]
=============================================================================
