--------------------------- MODULE MCPriorityGate ---------------------------
(***************************************************************************)
(* PriorityGate with three urgent callers and one of a lower priority, so   *)
(* that priority and arrival order both decide.                            *)
(***************************************************************************)
EXTENDS PriorityGate

CONSTANTS u1, u2, u3, low

Four == {u1, u2, u3, low}
TwoClasses == [c \in Four |-> IF c = low THEN 7 ELSE 0]
=============================================================================
