--------------------------- MODULE MCSessionQueue ---------------------------
(* Finite instances of SessionQueue for TLC. *)
EXTENDS SessionQueue, TLC

CONSTANTS m1, m2, m3, m4

MCPriority == [m \in Msg |-> IF m = m3 THEN "low" ELSE "normal"]

Symmetry == Permutations({m1, m2})
=============================================================================
