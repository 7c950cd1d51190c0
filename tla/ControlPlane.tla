---------------------------- MODULE ControlPlane ----------------------------
(***************************************************************************)
(* The control plane as one organisation's agents see it: POST             *)
(* /agent/enroll (api/agent/enroll.py, install_tokens.py), POST            *)
(* /agent/heartbeat (api/agent/heartbeat.py), the install-token endpoint,  *)
(* and the tables they share.  Each handler is one database transaction    *)
(* that commits last, so a handler is one step and a refused call changes  *)
(* nothing.                                                                *)
(*                                                                         *)
(* The network is the whole of `issued`: any copy of any licence ever      *)
(* issued may be presented again at any moment, which is what lost         *)
(* answers, retries, duplicates and restarted agents amount to.            *)
(***************************************************************************)
EXTENDS Licenses

CONSTANTS
    InstallToken,    \* install tokens an admin may mint
    InstallTTL,      \* DEFAULT_INSTALL_TOKEN_TTL: 10 min (at most 60)
    GraceWindow,     \* GRACE_WINDOW: 7 days
    SlideThreshold,  \* GRACE_SLIDE_THRESHOLD: 6 days
    MaxTime,         \* bound: the clock stops here
    MaxConfig,       \* bound: organizations.config_version
    NoAgent          \* "no agents row"

ASSUME InstallTokenAssumption == InstallToken # {} /\ InstallToken \cap Jti = {}
ASSUME WindowAssumption ==
    /\ InstallTTL \in Nat
    /\ GraceWindow \in Nat
    /\ SlideThreshold \in Nat
    /\ SlideThreshold < GraceWindow
ASSUME BoundAssumption == MaxTime \in Nat /\ MaxConfig \in Nat

AgentRow == [fp : Fingerprint, grace : Nat \cup {NoGrace}, config : Nat]

ASSUME NoAgentAssumption == NoAgent \notin AgentRow

VARIABLES
    now,            \* server wall clock
    sub,            \* disposition of the org's newest subscriptions row
    install,        \* install_tokens: state and expires_at
    agents,         \* agents rows, by id
    seen,           \* heartbeat_jti_seen
    revokedJti,     \* revoked_jti rows naming one token
    revokedAgents,  \* revoked_jti rows naming a whole agent
    orgConfig,      \* organizations.config_version
    issued,         \* every licence ever handed out (outside the database)
    root            \* history: the install token a licence descends from

tokenVars == <<install, seen, issued, root>>
revocationVars == <<revokedJti, revokedAgents>>
vars == <<now, sub, install, agents, seen, revokedJti, revokedAgents,
          orgConfig, issued, root>>

Disposition == {"healthy", "past_due", "canceled"}
InstallRow == [state : {"absent", "unused", "consumed"}, exp : Nat]

TypeOK ==
    /\ now \in Nat
    /\ sub \in Disposition
    /\ install \in [InstallToken -> InstallRow]
    /\ agents \in [AgentId -> AgentRow \cup {NoAgent}]
    /\ seen \subseteq Jti
    /\ revokedJti \subseteq Jti
    /\ revokedAgents \subseteq AgentId
    /\ orgConfig \in Nat
    /\ issued \subseteq License
    /\ root \in [Jti -> InstallToken]

-----------------------------------------------------------------------------
Used(j) == \E l \in issued : l.jti = j
Fresh(j) == ~Used(j)

Init ==
    /\ now = 0
    /\ sub = "healthy"
    /\ install = [t \in InstallToken |-> [state |-> "absent", exp |-> 0]]
    /\ agents = [a \in AgentId |-> NoAgent]
    /\ seen = {}
    /\ revokedJti = {}
    /\ revokedAgents = {}
    /\ orgConfig = 0
    /\ issued = {}
    /\ root = [j \in Jti |-> CHOOSE t \in InstallToken : TRUE]

\* Hand out licence l, heir of install token t.
Issue(l, t) ==
    /\ issued' = issued \cup {l}
    /\ root' = [root EXCEPT ![l.jti] = t]

-----------------------------------------------------------------------------
(* Enrolment.                                                              *)

\* POST /api/orgs/{org}/install-tokens.
MintInstallToken(t) ==
    /\ install[t].state = "absent"
    /\ install' = [install EXCEPT ![t] =
                      [state |-> "unused", exp |-> now + InstallTTL]]
    /\ UNCHANGED <<now, sub, agents, seen, revokedJti, revokedAgents,
                   orgConfig, issued, root>>

\* Fault: the consumed_at guard is lost.
Redeemable_AnyMinted(t) == install[t].state # "absent" /\ now < install[t].exp

\* validate_and_consume_install_token: unknown, consumed and expired tokens
\* are refused.
Redeemable(t) == install[t].state = "unused" /\ now < install[t].exp

\* Fault: every enrolment inserts under the id it minted.
EnrolsAs_AlwaysNew(a, f) == agents[a] = NoAgent

\* _find_agent_by_fingerprint, else the id minted for this call.
IsAgentOf(a, f) == agents[a] # NoAgent /\ agents[a].fp = f
EnrolsAs(a, f) ==
    IF \E b \in AgentId : IsAgentOf(b, f) THEN IsAgentOf(a, f)
                                          ELSE agents[a] = NoAgent

\* A row found keeps its grace and config version; a new row has neither.
RowOf(a, f) ==
    IF agents[a] = NoAgent THEN [fp |-> f, grace |-> NoGrace, config |-> 0]
                           ELSE agents[a]

\* POST /agent/enroll: consume, look up or insert, issue, commit.
Enroll(t, f, a, j) ==
    /\ Redeemable(t)
    /\ Fresh(j)
    /\ EnrolsAs(a, f)
    /\ install' = [install EXCEPT ![t].state = "consumed"]
    /\ agents' = [agents EXCEPT ![a] = RowOf(a, f)]
    /\ Issue(IssueLicense(j, a, f, NoGrace, now), t)
    /\ UNCHANGED <<now, sub, seen, revokedJti, revokedAgents, orgConfig>>

-----------------------------------------------------------------------------
(* Heartbeat.                                                              *)

IsRevoked(l) == l.jti \in revokedJti \/ l.agent \in revokedAgents

\* Fault: the seen-set is not consulted.
Verdict_NoReplayCheck(l, skewed) ==
    IF ~Unexpired(l, now) \/ skewed THEN 401
    ELSE IF IsRevoked(l) \/ sub = "canceled" THEN 403
    ELSE IF sub = "past_due" THEN 402
    ELSE 200

\* Fault: only the exact token is looked up in revoked_jti.
Verdict_NoAgentRevocation(l, skewed) ==
    IF ~Unexpired(l, now) THEN 401
    ELSE IF l.jti \in revokedJti THEN 403
    ELSE IF l.jti \in seen \/ skewed THEN 401
    ELSE IF sub = "canceled" THEN 403
    ELSE IF sub = "past_due" THEN 402
    ELSE 200

\* The checks of the handler in its order; 200 means a fresh licence.
Verdict(l, skewed) ==
    IF ~Unexpired(l, now) THEN 401
    ELSE IF IsRevoked(l) THEN 403
    ELSE IF l.jti \in seen \/ skewed THEN 401
    ELSE IF sub = "canceled" THEN 403
    ELSE IF sub = "past_due" THEN 402
    ELSE IF agents[l.agent] # NoAgent /\ agents[l.agent].fp # l.fp THEN 409
    ELSE 200

\* Fault: the window is added to the old deadline.
NewGrace_Extends(prev) ==
    IF prev = NoGrace THEN now + GraceWindow ELSE prev + GraceWindow

\* _compute_new_grace_until.
NewGrace(prev) ==
    IF prev = NoGrace \/ now - prev > SlideThreshold THEN now + GraceWindow
                                                     ELSE prev

\* The agents row after a served heartbeat: slid grace, and the config
\* version whose bundle rides on the answer.
Beaten(a, f) ==
    LET prev == RowOf(a, f)
    IN  [prev EXCEPT !.grace = NewGrace(prev.grace),
                     !.config = IF orgConfig > prev.config THEN orgConfig
                                                           ELSE prev.config]

\* The licence a heartbeat bearing l earns.
Successor(l, j) ==
    IssueLicense(j, l.agent, l.fp, Beaten(l.agent, l.fp).grace, now)

\* POST /agent/heartbeat that answers 200.
ServeHeartbeat(l, skewed, j) ==
    /\ Verdict(l, skewed) = 200
    /\ Fresh(j)
    /\ seen' = seen \cup {l.jti}
    /\ agents' = [agents EXCEPT ![l.agent] = Beaten(l.agent, l.fp)]
    /\ Issue(Successor(l, j), root[l.jti])
    /\ UNCHANGED <<now, sub, install, revokedJti, revokedAgents, orgConfig>>

-----------------------------------------------------------------------------
(* What happens around the two endpoints.                                  *)

\* The billing side (Stripe webhooks) moves the subscription.
SubscriptionChanges(s) ==
    /\ sub # s
    /\ sub' = s
    /\ UNCHANGED <<now, agents, orgConfig, tokenVars, revocationVars>>

\* The revocation runbook: an operator's INSERT into revoked_jti ...
RevokeToken(j) ==
    /\ j \notin revokedJti
    /\ revokedJti' = revokedJti \cup {j}
    /\ UNCHANGED <<now, sub, agents, orgConfig, tokenVars, revokedAgents>>

RevokeAgent(a) ==
    /\ agents[a] # NoAgent
    /\ a \notin revokedAgents
    /\ revokedAgents' = revokedAgents \cup {a}
    /\ UNCHANGED <<now, sub, agents, orgConfig, tokenVars, revokedJti>>

\* ... and the DELETE that lifts it.
LiftRevocation(a, j) ==
    /\ a \in revokedAgents \/ j \in revokedJti
    /\ revokedAgents' = revokedAgents \ {a}
    /\ revokedJti' = revokedJti \ {j}
    /\ UNCHANGED <<now, sub, agents, orgConfig, tokenVars>>

BumpConfig ==
    /\ orgConfig < MaxConfig
    /\ orgConfig' = orgConfig + 1
    /\ UNCHANGED <<now, sub, agents, tokenVars, revocationVars>>

Tick ==
    /\ now < MaxTime
    /\ now' = now + 1
    /\ UNCHANGED <<sub, agents, orgConfig, tokenVars, revocationVars>>

Next ==
    \/ \E t \in InstallToken : MintInstallToken(t)
    \/ \E t \in InstallToken, f \in Fingerprint, a \in AgentId, j \in Jti :
          Enroll(t, f, a, j)
    \/ \E l \in issued, skewed \in BOOLEAN, j \in Jti :
          ServeHeartbeat(l, skewed, j)
    \/ \E s \in Disposition : SubscriptionChanges(s)
    \/ \E j \in Jti : Used(j) /\ RevokeToken(j)
    \/ \E a \in AgentId : RevokeAgent(a)
    \/ \E a \in AgentId, j \in Jti : LiftRevocation(a, j)
    \/ BumpConfig
    \/ Tick

Spec == Init /\ [][Next]_vars

-----------------------------------------------------------------------------
(* Properties.                                                             *)

IssuedAt(l) == l.exp - LicenseTTL

\* Where a credential stands in the abstract licence chain.
LifeOf(c) ==
    IF c \in InstallToken
    THEN CASE install[c].state = "absent"   -> "unborn"
           [] install[c].state = "unused"   -> "live"
           [] install[c].state = "consumed" -> "spent"
    ELSE IF Fresh(c) THEN "unborn" ELSE IF c \in seen THEN "spent" ELSE "live"

Chain == INSTANCE LicenseChain WITH
             life <- [c \in InstallToken \cup Jti |-> LifeOf(c)]

\* The licence chain: every enrolment and heartbeat is one exchange of a live
\* credential for one successor, whatever copies of old licences turn up.
ChainSpec == Chain!Spec

\* However often licences are replayed, an install token has one live heir.
OneLiveHeir == Chain!OneLiveHeir

\* Enrolment and heartbeat agree on who an agent is: every licence is bound
\* to the row of its agent_id with that fingerprint, and a fingerprint has
\* one row.  (So the 409 branch needs a row edited behind the code's back.)
IdentityBinding ==
    /\ \A l \in issued : agents[l.agent] # NoAgent /\ agents[l.agent].fp = l.fp
    /\ \A a, b \in AgentId :
          /\ agents[a] # NoAgent
          /\ agents[b] # NoAgent
          /\ agents[a].fp = agents[b].fp
          => a = b

\* ADR-003's hard stop: no licence ever lets its agent run offline for more
\* than GraceWindow after it was issued; nor is the deadline it carries more
\* than SlideThreshold stale.
GraceWithinWindow ==
    \A l \in issued :
        l.grace # NoGrace =>
            IssuedAt(l) - SlideThreshold <= l.grace
              /\ l.grace <= IssuedAt(l) + GraceWindow

\* While its agent is revoked or its organisation does not pay, no licence earns
\* another by heartbeat, whichever copy is tried; only an install token (whose
\* licence has grace_until = None) still buys one.
BarredNotRenewed ==
    [][\A l \in issued' \ issued :
          l.agent \in revokedAgents \/ sub # "healthy" => l.grace = NoGrace]_vars
=============================================================================
