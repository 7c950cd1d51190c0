--------------------------- MODULE MCAgentProcess ---------------------------
(* AgentProcess against every answer a small control plane could give. *)
EXTENDS AgentProcess

CONSTANTS j1, a1, f1, f2

MCJti == {j1}
MCAgentId == {a1}
MCFingerprint == {f1, f2}
MCOffer ==
    [jti : MCJti, agent : MCAgentId, fp : MCFingerprint,
     exp : 1..3, grace : {NoGrace} \cup 1..3]
=============================================================================
