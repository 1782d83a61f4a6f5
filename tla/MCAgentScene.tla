--------------------------- MODULE MCAgentScene ---------------------------
(* Two successive agents of a player and one of another.                   *)
EXTENDS AgentSceneProps

CONSTANTS a1, a2, a3, p1, p2, s1, s2

Successors == [a \in Agent |-> IF a = a3 THEN p2 ELSE p1]
=============================================================================
