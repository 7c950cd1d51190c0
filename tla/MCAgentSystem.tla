--------------------------- MODULE MCAgentSystem ---------------------------
(* AgentSystem on one host. *)
EXTENDS AgentSystem, TLC

Symmetry == Permutations(Jti) \cup Permutations(AgentId)
=============================================================================
