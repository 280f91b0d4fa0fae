---------------------------- MODULE MCTokenBudget ----------------------------
(* Connections a1, a2, a3 belong to alice and b1 to bob. *)
EXTENDS TokenBudget

CONSTANTS a1, a2, a3, b1, alice, bob

MCUserOf == [c \in Conns |-> IF c = b1 THEN bob ELSE alice]

==============================================================================
