--------------------------- MODULE MCControlPlane ---------------------------
(* ControlPlane on a small organisation. *)
EXTENDS ControlPlane, TLC

\* Token ids, agent ids and fingerprints are only compared for equality.
\* (Install tokens are not symmetric: Init chooses one.)
Symmetry == Permutations(Jti) \cup Permutations(AgentId) \cup Permutations(Fingerprint)
=============================================================================
