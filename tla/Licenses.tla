------------------------------ MODULE Licenses ------------------------------
(***************************************************************************)
(* Agent licences as both ends read them: the JWT minted by                *)
(* api/agent/license_issuer.py and decoded by proxialpha_agent/license.py. *)
(* A licence keeps the claims the two sides decide on; signature, issuer   *)
(* and entitlements snapshot are abstracted away (a licence in the model   *)
(* is one whose signature verifies).                                       *)
(*                                                                         *)
(* Time is counted in ticks much longer than the 30 s HTTP timeout.        *)
(***************************************************************************)
EXTENDS Integers

CONSTANTS
    Jti,          \* token ids (uuid4, drawn fresh)
    AgentId,      \* agents.id values (uuid4, drawn fresh)
    Fingerprint,  \* machine fingerprints
    LicenseTTL,   \* DEFAULT_LICENSE_TTL: 24 h
    Leeway        \* clock-skew leeway both verifiers give `exp`: 5 min

ASSUME TTLAssumption == LicenseTTL \in Nat /\ LicenseTTL > 0
ASSUME LeewayAssumption == Leeway \in Nat

NoGrace == -1     \* grace_until = None

License == [jti : Jti, agent : AgentId, fp : Fingerprint,
            exp : Nat, grace : Nat \cup {NoGrace}]

\* issue_license: exp = now + ttl, grace_until copied from the caller.
IssueLicense(j, a, f, grace, now) ==
    [jti |-> j, agent |-> a, fp |-> f, exp |-> now + LicenseTTL, grace |-> grace]

\* The `exp` check of jwt_keys.verify and of LicenseClient.verify.
Unexpired(l, now) == now < l.exp + Leeway
=============================================================================
