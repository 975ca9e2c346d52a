---------------------------- MODULE MCAgentImages ----------------------------
(* Instances of AgentImages for TLC: a turn that writes, and one that asks for *)
(* an image.                                                                  *)
EXTENDS AgentImages

CONSTANTS t1, t2

MCBlocks == [t \in Turns |-> IF t = t1 THEN 1 ELSE 0]
=============================================================================
