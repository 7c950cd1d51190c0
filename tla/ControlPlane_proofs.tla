------------------------- MODULE ControlPlane_proofs -------------------------
(***************************************************************************)
(* Proofs about the control plane, for every number of agents, tokens and  *)
(* licences, every clock and every choice of the time constants.           *)
(***************************************************************************)
EXTENDS ControlPlane, TLAPS

USE DEF NoGrace

-----------------------------------------------------------------------------
(* Facts about the operators the handlers are built from.                  *)

\* Whom an agent id and a fingerprint resolve to is a row.
LEMMA RowOfType ==
    ASSUME TypeOK, NEW a \in AgentId, NEW f \in Fingerprint
    PROVE  RowOf(a, f) \in AgentRow
BY DEF RowOf, TypeOK, AgentRow

\* The slide rule returns an instant.
LEMMA NewGraceType ==
    ASSUME TypeOK, NEW g \in Nat \cup {NoGrace}
    PROVE  NewGrace(g) \in Nat
BY WindowAssumption DEF TypeOK, NewGrace

\* The slide rule: never more than a window ahead, never more than the
\* threshold behind.
LEMMA NewGraceRange ==
    ASSUME TypeOK, NEW g \in Nat \cup {NoGrace},
           g # NoGrace => g <= now + GraceWindow
    PROVE  /\ NewGrace(g) <= now + GraceWindow
           /\ now - SlideThreshold <= NewGrace(g)
BY WindowAssumption DEF TypeOK, NewGrace

\* A heartbeat keeps the row's fingerprint and slides its grace.
LEMMA BeatenFacts ==
    ASSUME TypeOK, NEW a \in AgentId, NEW f \in Fingerprint
    PROVE  /\ Beaten(a, f) \in AgentRow
           /\ Beaten(a, f).fp = RowOf(a, f).fp
           /\ Beaten(a, f).grace = NewGrace(RowOf(a, f).grace)
<1> DEFINE prev == RowOf(a, f)
           cfg  == IF orgConfig > prev.config THEN orgConfig ELSE prev.config
           g    == NewGrace(prev.grace)
<1>1. prev \in AgentRow
  BY RowOfType
<1>2. g \in Nat
  BY <1>1, NewGraceType DEF AgentRow
<1>3. cfg \in Nat
  BY <1>1 DEF TypeOK, AgentRow
<1>4. Beaten(a, f) = [prev EXCEPT !.grace = g, !.config = cfg]
  BY DEF Beaten
<1> HIDE DEF prev, cfg, g
<1>5. /\ Beaten(a, f) \in AgentRow
      /\ Beaten(a, f).fp = prev.fp
      /\ Beaten(a, f).grace = g
  BY <1>1, <1>2, <1>3, <1>4 DEF AgentRow
<1>6. QED
  BY <1>5 DEF prev, g

\* An issued licence is what it was issued as.
LEMMA IssueType ==
    ASSUME NEW j \in Jti, NEW a \in AgentId, NEW f \in Fingerprint,
           NEW g \in Nat \cup {NoGrace}, NEW n \in Nat
    PROVE  /\ IssueLicense(j, a, f, g, n) \in License
           /\ IssuedAt(IssueLicense(j, a, f, g, n)) = n
           /\ IssueLicense(j, a, f, g, n).jti = j
           /\ IssueLicense(j, a, f, g, n).agent = a
           /\ IssueLicense(j, a, f, g, n).fp = f
           /\ IssueLicense(j, a, f, g, n).grace = g
BY TTLAssumption DEF IssueLicense, License, IssuedAt

\* The successor keeps agent and fingerprint, has a new token id and is issued now.
LEMMA SuccessorFacts ==
    ASSUME TypeOK, NEW l \in issued, NEW j \in Jti
    PROVE  /\ Successor(l, j) \in License
           /\ IssuedAt(Successor(l, j)) = now
           /\ Successor(l, j).jti = j
           /\ Successor(l, j).agent = l.agent
           /\ Successor(l, j).fp = l.fp
           /\ Successor(l, j).grace = Beaten(l.agent, l.fp).grace
<1>1. l \in License /\ now \in Nat
  BY DEF TypeOK
<1>2. l.agent \in AgentId /\ l.fp \in Fingerprint
  BY <1>1 DEF License
<1>3. Beaten(l.agent, l.fp).grace \in Nat \cup {NoGrace}
  BY <1>2, BeatenFacts DEF AgentRow
<1>4. QED
  BY <1>1, <1>2, <1>3, IssueType DEF Successor

-----------------------------------------------------------------------------
(* Type correctness.                                                       *)

\* Every handler keeps the types.
LEMMA TypeInductive == TypeOK /\ [Next]_vars => TypeOK'
<1> SUFFICES ASSUME TypeOK, [Next]_vars
             PROVE  TypeOK'
    OBVIOUS
<1>1. ASSUME NEW t \in InstallToken, MintInstallToken(t)
      PROVE  TypeOK'
  BY <1>1, WindowAssumption DEF MintInstallToken, TypeOK, InstallRow
<1>2. ASSUME NEW t \in InstallToken, NEW f \in Fingerprint, NEW a \in AgentId,
             NEW j \in Jti, Enroll(t, f, a, j)
      PROVE  TypeOK'
  <2>1. RowOf(a, f) \in AgentRow
    BY RowOfType
  <2>2. IssueLicense(j, a, f, NoGrace, now) \in License /\
        IssueLicense(j, a, f, NoGrace, now).jti = j
    BY IssueType DEF TypeOK
  <2>3. agents' \in [AgentId -> AgentRow \cup {NoAgent}]
    BY <1>2, <2>1 DEF Enroll, TypeOK
  <2>4. install' \in [InstallToken -> InstallRow]
    BY <1>2 DEF Enroll, TypeOK, InstallRow
  <2>5. issued' \subseteq License /\ root' \in [Jti -> InstallToken]
    BY <1>2, <2>2 DEF Enroll, Issue, TypeOK
  <2>6. QED
    BY <1>2, <2>3, <2>4, <2>5 DEF Enroll, TypeOK
<1>3. ASSUME NEW l \in issued, NEW skewed \in BOOLEAN, NEW j \in Jti,
             ServeHeartbeat(l, skewed, j)
      PROVE  TypeOK'
  <2>1. l \in License /\ l.agent \in AgentId /\ l.fp \in Fingerprint /\ l.jti \in Jti
    BY DEF TypeOK, License
  <2>2. agents' \in [AgentId -> AgentRow \cup {NoAgent}]
    BY <1>3, <2>1, BeatenFacts DEF ServeHeartbeat, TypeOK
  <2>3. issued' \subseteq License /\ root' \in [Jti -> InstallToken]
    BY <1>3, <2>1, SuccessorFacts DEF ServeHeartbeat, Issue, TypeOK
  <2>4. seen' \subseteq Jti
    BY <1>3, <2>1 DEF ServeHeartbeat, TypeOK
  <2>5. QED
    BY <1>3, <2>2, <2>3, <2>4 DEF ServeHeartbeat, TypeOK
<1>4. ASSUME NEW s \in Disposition, SubscriptionChanges(s)
      PROVE  TypeOK'
  BY <1>4 DEF SubscriptionChanges, TypeOK, tokenVars, revocationVars
<1>5. ASSUME NEW j \in Jti, RevokeToken(j)
      PROVE  TypeOK'
  BY <1>5 DEF RevokeToken, TypeOK, tokenVars
<1>6. ASSUME NEW a \in AgentId, RevokeAgent(a)
      PROVE  TypeOK'
  BY <1>6 DEF RevokeAgent, TypeOK, tokenVars
<1>7. ASSUME NEW a \in AgentId, NEW j \in Jti, LiftRevocation(a, j)
      PROVE  TypeOK'
  BY <1>7 DEF LiftRevocation, TypeOK, tokenVars
<1>8. CASE BumpConfig
  BY <1>8 DEF BumpConfig, TypeOK, tokenVars, revocationVars
<1>9. CASE Tick
  BY <1>9 DEF Tick, TypeOK, tokenVars, revocationVars
<1>10. CASE UNCHANGED vars
  BY <1>10 DEF vars, TypeOK
<1>11. QED
  BY <1>1, <1>2, <1>3, <1>4, <1>5, <1>6, <1>7, <1>8, <1>9, <1>10 DEF Next

\* The types hold initially.
LEMMA InitTypeOK == Init => TypeOK
BY InstallTokenAssumption DEF Init, TypeOK, Disposition, InstallRow

\* Every variable keeps its type.
THEOREM TypeCorrect == Spec => []TypeOK
BY InitTypeOK, TypeInductive, PTL DEF Spec

-----------------------------------------------------------------------------
(* The inductive invariant behind the control plane's promises.            *)

\* Only licences that exist were spent, and a token id names one licence.
TokensInv ==
    /\ \A j \in seen : Used(j)
    /\ \A l, m \in issued : l.jti = m.jti => l = m

\* The deadline on an agents row is at most a window ahead of the clock.
RowGraceInv ==
    \A a \in AgentId :
        agents[a] # NoAgent /\ agents[a].grace # NoGrace
            => agents[a].grace <= now + GraceWindow

IInv == TypeOK /\ IdentityBinding /\ TokensInv /\ RowGraceInv /\ GraceWithinWindow

\* Enrolment finds the one row of its fingerprint, or makes the only one.
LEMMA EnrolsAsBinds ==
    ASSUME TypeOK, IdentityBinding, NEW f \in Fingerprint, NEW a \in AgentId,
           EnrolsAs(a, f)
    PROVE  /\ RowOf(a, f).fp = f
           /\ agents[a] # NoAgent => agents[a].fp = f
           /\ \A b \in AgentId : b # a /\ agents[b] # NoAgent => agents[b].fp # f
BY NoAgentAssumption DEF EnrolsAs, IsAgentOf, IdentityBinding, RowOf

\* A row is not the absence of one.
LEMMA RowIsSomeone ==
    ASSUME NEW r \in AgentRow
    PROVE  r # NoAgent
BY NoAgentAssumption

\* An enrolment keeps the invariant.
LEMMA EnrollKeepsInv ==
    ASSUME IInv, NEW t \in InstallToken, NEW f \in Fingerprint, NEW a \in AgentId,
           NEW j \in Jti, Enroll(t, f, a, j)
    PROVE  IdentityBinding' /\ TokensInv' /\ RowGraceInv' /\ GraceWithinWindow'
<1> DEFINE new == IssueLicense(j, a, f, NoGrace, now)
<1>1. TypeOK /\ now \in Nat /\ EnrolsAs(a, f) /\ Fresh(j)
  BY DEF IInv, TypeOK, Enroll
<1>2. RowOf(a, f) \in AgentRow /\ RowOf(a, f) # NoAgent
  BY <1>1, RowOfType, RowIsSomeone
<1>3. /\ RowOf(a, f).fp = f
      /\ agents[a] # NoAgent => agents[a].fp = f
      /\ \A b \in AgentId : b # a /\ agents[b] # NoAgent => agents[b].fp # f
  BY <1>1, EnrolsAsBinds DEF IInv
<1>4. /\ agents' = [agents EXCEPT ![a] = RowOf(a, f)]
      /\ agents \in [AgentId -> AgentRow \cup {NoAgent}]
  BY <1>1 DEF Enroll, TypeOK
<1>5. new \in License /\ new.jti = j /\ new.agent = a /\ new.fp = f /\ new.grace = NoGrace
  BY <1>1, IssueType
<1>6. issued' = issued \cup {new} /\ UNCHANGED <<now, seen>> /\ issued \subseteq License
  BY <1>1 DEF Enroll, Issue, TypeOK
<1> HIDE DEF new
<1>7. IdentityBinding'
  <2>1. \A l \in issued' : agents'[l.agent] # NoAgent /\ agents'[l.agent].fp = l.fp
    BY <1>2, <1>3, <1>4, <1>5, <1>6 DEF IInv, IdentityBinding, License
  <2>2. \A b \in AgentId : b # a => agents'[b] = agents[b]
    BY <1>4
  <2>3. agents'[a] # NoAgent /\ agents'[a].fp = f
    BY <1>2, <1>3, <1>4
  <2>4. \A b, c \in AgentId : agents'[b] # NoAgent /\ agents'[c] # NoAgent
                               /\ agents'[b].fp = agents'[c].fp => b = c
    BY <1>3, <2>2, <2>3 DEF IInv, IdentityBinding
  <2>5. QED
    BY <2>1, <2>4 DEF IdentityBinding
<1>8. TokensInv'
  BY <1>1, <1>5, <1>6 DEF IInv, TokensInv, Used, Fresh
<1>9. RowGraceInv'
  <2>1. RowOf(a, f).grace # NoGrace => RowOf(a, f).grace <= now + GraceWindow
    BY <1>1 DEF IInv, RowGraceInv, RowOf
  <2>2. QED
    BY <1>4, <1>6, <2>1 DEF IInv, RowGraceInv
<1>10. GraceWithinWindow'
  BY <1>5, <1>6 DEF IInv, GraceWithinWindow, IssuedAt
<1>11. QED
  BY <1>7, <1>8, <1>9, <1>10

\* An accepted heartbeat keeps the invariant.
LEMMA HeartbeatKeepsInv ==
    ASSUME IInv, NEW l \in issued, NEW skewed \in BOOLEAN, NEW j \in Jti,
           ServeHeartbeat(l, skewed, j)
    PROVE  IdentityBinding' /\ TokensInv' /\ RowGraceInv' /\ GraceWithinWindow'
<1> DEFINE new == Successor(l, j)
           row == Beaten(l.agent, l.fp)
<1>1. TypeOK /\ now \in Nat /\ Fresh(j)
  BY DEF IInv, TypeOK, ServeHeartbeat
<1>2. l \in License /\ l.agent \in AgentId /\ l.fp \in Fingerprint
  BY <1>1 DEF TypeOK, License
<1>3. /\ agents[l.agent] # NoAgent /\ agents[l.agent].fp = l.fp
      /\ RowOf(l.agent, l.fp) = agents[l.agent]
  BY DEF IInv, IdentityBinding, RowOf
<1>4. /\ row \in AgentRow
      /\ row.fp = l.fp
      /\ row.grace = NewGrace(agents[l.agent].grace)
  BY <1>1, <1>2, <1>3, BeatenFacts
<1>5. row # NoAgent
  BY <1>4, RowIsSomeone
<1>6. row.grace <= now + GraceWindow /\ now - SlideThreshold <= row.grace
  <2>1. agents[l.agent].grace \in Nat \cup {NoGrace}
    BY <1>1, <1>2, <1>3 DEF TypeOK, AgentRow
  <2>2. agents[l.agent].grace # NoGrace => agents[l.agent].grace <= now + GraceWindow
    BY <1>2, <1>3 DEF IInv, RowGraceInv
  <2>3. QED
    BY <1>1, <1>4, <2>1, <2>2, NewGraceRange
<1>7. /\ new \in License
      /\ IssuedAt(new) = now
      /\ new.jti = j /\ new.agent = l.agent /\ new.fp = l.fp /\ new.grace = row.grace
  BY <1>1, SuccessorFacts
<1>8. /\ agents' = [agents EXCEPT ![l.agent] = row]
      /\ agents \in [AgentId -> AgentRow \cup {NoAgent}]
      /\ issued' = issued \cup {new} /\ issued \subseteq License
      /\ seen' = seen \cup {l.jti} /\ now' = now
  BY <1>1 DEF ServeHeartbeat, Issue, TypeOK
<1> HIDE DEF new, row
<1>9. IdentityBinding'
  <2>1. \A m \in issued' : agents'[m.agent] # NoAgent /\ agents'[m.agent].fp = m.fp
    BY <1>2, <1>3, <1>4, <1>5, <1>7, <1>8 DEF IInv, IdentityBinding, License
  <2>2. \A b \in AgentId : b # l.agent => agents'[b] = agents[b]
    BY <1>8
  <2>3. agents'[l.agent] # NoAgent /\ agents'[l.agent].fp = agents[l.agent].fp
    BY <1>2, <1>3, <1>4, <1>5, <1>8
  <2>4. \A b, c \in AgentId : agents'[b] # NoAgent /\ agents'[c] # NoAgent
                               /\ agents'[b].fp = agents'[c].fp => b = c
    BY <1>2, <1>3, <2>2, <2>3 DEF IInv, IdentityBinding
  <2>5. QED
    BY <2>1, <2>4 DEF IdentityBinding
<1>10. TokensInv'
  BY <1>1, <1>7, <1>8 DEF IInv, TokensInv, Used, Fresh
<1>11. RowGraceInv'
  BY <1>2, <1>6, <1>8 DEF IInv, RowGraceInv
<1>12. GraceWithinWindow'
  BY <1>6, <1>7, <1>8 DEF IInv, GraceWithinWindow, IssuedAt
<1>13. QED
  BY <1>9, <1>10, <1>11, <1>12

\* Every handler keeps the invariant.
LEMMA InvInductive == IInv /\ [Next]_vars => IInv'
<1> SUFFICES ASSUME IInv, [Next]_vars
             PROVE  IInv'
    OBVIOUS
<1> DEFINE Rest == IdentityBinding /\ TokensInv /\ RowGraceInv /\ GraceWithinWindow
<1>1. TypeOK'
  BY TypeInductive DEF IInv
<1>2. ASSUME NEW t \in InstallToken, MintInstallToken(t)
      PROVE  Rest'
  BY <1>2 DEF MintInstallToken, IInv, IdentityBinding, TokensInv, Used, RowGraceInv,
              GraceWithinWindow, IssuedAt
<1>3. ASSUME NEW t \in InstallToken, NEW f \in Fingerprint, NEW a \in AgentId,
             NEW j \in Jti, Enroll(t, f, a, j)
      PROVE  Rest'
  BY <1>3, EnrollKeepsInv
<1>4. ASSUME NEW l \in issued, NEW skewed \in BOOLEAN, NEW j \in Jti,
             ServeHeartbeat(l, skewed, j)
      PROVE  Rest'
  BY <1>4, HeartbeatKeepsInv
<1>5. ASSUME UNCHANGED <<now, agents, seen, issued>>
      PROVE  Rest'
  BY <1>5 DEF IInv, IdentityBinding, TokensInv, Used, RowGraceInv,
              GraceWithinWindow, IssuedAt
<1>6. ASSUME Tick
      PROVE  Rest'
  <2>1. now \in Nat /\ now' = now + 1 /\ UNCHANGED <<agents, seen, issued>>
    BY <1>6 DEF Tick, IInv, TypeOK, tokenVars
  <2>2. RowGraceInv'
    <3>1. ASSUME NEW a \in AgentId, agents[a] # NoAgent, agents[a].grace # NoGrace
          PROVE  agents[a].grace <= now + 1 + GraceWindow
      <4>1. agents[a].grace \in Nat /\ agents[a].grace <= now + GraceWindow
        BY <3>1 DEF IInv, TypeOK, AgentRow, RowGraceInv
      <4>2. QED
        BY <4>1, <2>1, WindowAssumption
    <3>2. QED
      BY <2>1, <3>1 DEF RowGraceInv
  <2>3. QED
    BY <2>1, <2>2 DEF IInv, IdentityBinding, TokensInv, Used, GraceWithinWindow, IssuedAt
<1>7. Rest'
  <2>1. ASSUME NEW s \in Disposition, SubscriptionChanges(s) PROVE Rest'
    BY <1>5, <2>1 DEF SubscriptionChanges, tokenVars
  <2>2. ASSUME NEW k \in Jti, RevokeToken(k) PROVE Rest'
    BY <1>5, <2>2 DEF RevokeToken, tokenVars
  <2>3. ASSUME NEW a \in AgentId, RevokeAgent(a) PROVE Rest'
    BY <1>5, <2>3 DEF RevokeAgent, tokenVars
  <2>4. ASSUME NEW a \in AgentId, NEW k \in Jti, LiftRevocation(a, k) PROVE Rest'
    BY <1>5, <2>4 DEF LiftRevocation, tokenVars
  <2>5. CASE BumpConfig
    BY <1>5, <2>5 DEF BumpConfig, tokenVars
  <2>6. CASE UNCHANGED vars
    BY <1>5, <2>6 DEF vars
  <2>7. QED
    BY <1>2, <1>3, <1>4, <1>6, <2>1, <2>2, <2>3, <2>4, <2>5, <2>6 DEF Next
<1>8. QED
  BY <1>1, <1>7 DEF IInv

\* The invariant holds initially.
LEMMA InitInv == Init => IInv
BY InitTypeOK DEF Init, IInv, IdentityBinding, TokensInv, RowGraceInv, GraceWithinWindow

\* The invariant holds in every reachable state.
LEMMA InvHolds == Spec => []IInv
BY InitInv, InvInductive, PTL DEF Spec

\* Enrolment and heartbeat agree on who an agent is, for any number of hosts
\* enrolling and renewing in any order.
THEOREM IdentityBound == Spec => []IdentityBinding
<1>1. IInv => IdentityBinding
  BY DEF IInv
<1>2. QED
  BY <1>1, InvHolds, PTL

\* The hard stop on offline operation holds for every choice of the time
\* constants with SlideThreshold < GraceWindow.
THEOREM GraceBounded == Spec => []GraceWithinWindow
<1>1. IInv => GraceWithinWindow
  BY DEF IInv
<1>2. QED
  BY <1>1, InvHolds, PTL

-----------------------------------------------------------------------------
(* Whom the control plane bars.                                            *)

\* What a served heartbeat tells of the agent and the organisation.
LEMMA ServedIsUnbarred ==
    ASSUME TypeOK, NEW l \in issued, NEW skewed \in BOOLEAN,
           Verdict(l, skewed) = 200
    PROVE  l.agent \notin revokedAgents /\ sub = "healthy"
BY DEF TypeOK, Disposition, Verdict, IsRevoked

\* What each step adds to the licences in the world.
LEMMA IssuedByStep ==
    ASSUME TypeOK, [Next]_vars, NEW m \in issued' \ issued
    PROVE  m.grace = NoGrace \/ (m.agent \notin revokedAgents /\ sub = "healthy")
<1>1. ASSUME NEW t \in InstallToken, NEW f \in Fingerprint, NEW a \in AgentId,
             NEW j \in Jti, Enroll(t, f, a, j)
      PROVE  m.grace = NoGrace
  <2>1. m = IssueLicense(j, a, f, NoGrace, now)
    BY <1>1 DEF Enroll, Issue
  <2>2. QED
    BY <2>1, IssueType DEF TypeOK
<1>2. ASSUME NEW l \in issued, NEW skewed \in BOOLEAN, NEW j \in Jti,
             ServeHeartbeat(l, skewed, j)
      PROVE  m.agent \notin revokedAgents /\ sub = "healthy"
  <2>1. m = Successor(l, j) /\ Verdict(l, skewed) = 200
    BY <1>2 DEF ServeHeartbeat, Issue
  <2>2. m.agent = l.agent
    BY <2>1, SuccessorFacts
  <2>3. QED
    BY <2>1, <2>2, ServedIsUnbarred
<1>3. \/ \E t \in InstallToken, f \in Fingerprint, a \in AgentId, j \in Jti :
            Enroll(t, f, a, j)
      \/ \E l \in issued, skewed \in BOOLEAN, j \in Jti :
            ServeHeartbeat(l, skewed, j)
      \/ issued' = issued
  BY DEF Next, vars, tokenVars, MintInstallToken, SubscriptionChanges, RevokeToken,
         RevokeAgent, LiftRevocation, BumpConfig, Tick
<1>4. QED
  BY <1>1, <1>2, <1>3

\* A revoked agent, and any agent of an organisation that does not pay, earns
\* no licence with a deadline, for any number of copies tried in any order.
THEOREM BarredStayBarred == Spec => BarredNotRenewed
<1>1. TypeOK /\ [Next]_vars
      => [\A l \in issued' \ issued :
            l.agent \in revokedAgents \/ sub # "healthy" => l.grace = NoGrace]_vars
  BY IssuedByStep
<1>2. QED
  BY <1>1, TypeCorrect, PTL DEF Spec, BarredNotRenewed

-----------------------------------------------------------------------------
(* The control plane implements the licence chain.                         *)

\* The chain's lives, read off the control plane.
Life == [c \in InstallToken \cup Jti |-> LifeOf(c)]

\* The life of an install token, read off its row.
LEMMA LifeOfToken ==
    ASSUME NEW t \in InstallToken
    PROVE  /\ Life[t] = LifeOf(t)
           /\ install[t].state = "absent" => LifeOf(t) = "unborn"
           /\ install[t].state = "unused" => LifeOf(t) = "live"
           /\ install[t].state = "consumed" => LifeOf(t) = "spent"
BY DEF Life, LifeOf

\* The life of a licence, read off the issued and the seen token ids.
LEMMA LifeOfLicence ==
    ASSUME NEW j \in Jti
    PROVE  /\ Life[j] = LifeOf(j)
           /\ Fresh(j) => LifeOf(j) = "unborn"
           /\ ~Fresh(j) /\ j \in seen => LifeOf(j) = "spent"
           /\ ~Fresh(j) /\ j \notin seen => LifeOf(j) = "live"
BY InstallTokenAssumption DEF Life, LifeOf

\* Minting an install token mints a root of the chain.
LEMMA MintIsMint ==
    ASSUME TypeOK, NEW t \in InstallToken, MintInstallToken(t)
    PROVE  Chain!Mint(t)
<1>1. \A c \in InstallToken \cup Jti :
          LifeOf(c)' = IF c = t THEN "live" ELSE LifeOf(c)
  <2>1. install' = [install EXCEPT ![t] = [state |-> "unused", exp |-> now + InstallTTL]]
    BY DEF MintInstallToken
  <2>2. ASSUME NEW u \in InstallToken
        PROVE  install'[u].state = IF u = t THEN "unused" ELSE install[u].state
    BY <2>1 DEF TypeOK, InstallRow
  <2>3. ASSUME NEW u \in InstallToken
        PROVE  LifeOf(u)' = IF u = t THEN "live" ELSE LifeOf(u)
    <3>1. install[u].state \in {"absent", "unused", "consumed"}
      BY DEF TypeOK, InstallRow
    <3>2. QED
      BY <2>2, <3>1 DEF LifeOf
  <2>4. ASSUME NEW k \in Jti
        PROVE  LifeOf(k)' = LifeOf(k) /\ k # t
    BY InstallTokenAssumption DEF MintInstallToken, LifeOf, Fresh, Used
  <2>5. QED
    BY <2>3, <2>4
<1>2. LifeOf(t) = "unborn" /\ root' = root
  BY DEF MintInstallToken, LifeOf
<1>3. QED
  BY <1>1, <1>2 DEF Chain!Mint

\* Enrolling trades an install token for a licence.
LEMMA EnrollIsExchange ==
    ASSUME IInv, NEW t \in InstallToken, NEW f \in Fingerprint, NEW a \in AgentId,
           NEW j \in Jti, Enroll(t, f, a, j)
    PROVE  Chain!Exchange(t, j)
<1>1. t # j /\ t \notin Jti /\ j \notin InstallToken
  BY InstallTokenAssumption
<1>2. install[t].state = "unused" /\ Fresh(j) /\ j \notin seen
  BY DEF Enroll, Redeemable, Fresh, IInv, TokensInv
<1>3. /\ install' = [install EXCEPT ![t].state = "consumed"]
      /\ issued' = issued \cup {IssueLicense(j, a, f, NoGrace, now)}
      /\ IssueLicense(j, a, f, NoGrace, now).jti = j
      /\ root' = [root EXCEPT ![j] = t]
      /\ seen' = seen
  BY DEF Enroll, Issue, IssueLicense
<1>4. \A k \in Jti : Used(k)' <=> (k = j \/ Used(k))
  BY <1>3 DEF Used
<1>5. \A c \in InstallToken \cup Jti :
          LifeOf(c)' = IF c = t THEN "spent" ELSE IF c = j THEN "live" ELSE LifeOf(c)
  <2>1. ASSUME NEW u \in InstallToken
        PROVE  LifeOf(u)' = IF u = t THEN "spent" ELSE LifeOf(u)
    BY <1>3 DEF LifeOf, IInv, TypeOK, InstallRow
  <2>2. ASSUME NEW k \in Jti
        PROVE  LifeOf(k)' = IF k = j THEN "live" ELSE LifeOf(k)
    BY <1>2, <1>3, <1>4, InstallTokenAssumption DEF LifeOf, Fresh
  <2>3. QED
    BY <1>1, <2>1, <2>2
<1>6. LifeOf(t) = "live" /\ LifeOf(j) = "unborn"
  BY <1>1, <1>2 DEF LifeOf
<1>7. QED
  BY <1>1, <1>3, <1>5, <1>6 DEF Chain!Exchange, Chain!RootOf

\* A heartbeat trades a licence for its successor.
LEMMA HeartbeatIsExchange ==
    ASSUME IInv, NEW l \in issued, NEW skewed \in BOOLEAN, NEW j \in Jti,
           ServeHeartbeat(l, skewed, j)
    PROVE  l.jti \in Jti /\ Chain!Exchange(l.jti, j)
<1>1. l.jti \in Jti /\ l.jti \notin InstallToken /\ j \notin InstallToken
  BY InstallTokenAssumption DEF IInv, TypeOK, License
<1>2. Used(l.jti) /\ l.jti \notin seen /\ Fresh(j) /\ j \notin seen /\ j # l.jti
  BY DEF ServeHeartbeat, Verdict, Used, Fresh, IInv, TokensInv
<1>3. /\ issued' = issued \cup {Successor(l, j)}
      /\ Successor(l, j).jti = j
      /\ root' = [root EXCEPT ![j] = root[l.jti]]
      /\ seen' = seen \cup {l.jti}
      /\ install' = install
  <2>1. Successor(l, j).jti = j
    BY SuccessorFacts DEF IInv
  <2>2. QED
    BY <2>1 DEF ServeHeartbeat, Issue
<1>4. \A k \in Jti : Used(k)' <=> (k = j \/ Used(k))
  BY <1>3 DEF Used
<1>5. \A c \in InstallToken \cup Jti :
          LifeOf(c)' = IF c = l.jti THEN "spent" ELSE IF c = j THEN "live" ELSE LifeOf(c)
  <2>1. ASSUME NEW u \in InstallToken
        PROVE  LifeOf(u)' = LifeOf(u)
    <3>1. install'[u] = install[u]
      BY <1>3
    <3>2. install[u].state \in {"absent", "unused", "consumed"}
      BY DEF IInv, TypeOK, InstallRow
    <3>3. QED
      BY <3>1, <3>2 DEF LifeOf
  <2>2. ASSUME NEW k \in Jti
        PROVE  LifeOf(k)' = IF k = l.jti THEN "spent" ELSE IF k = j THEN "live" ELSE LifeOf(k)
    BY <1>2, <1>3, <1>4, InstallTokenAssumption DEF LifeOf, Fresh
  <2>3. QED
    BY <1>1, <2>1, <2>2
<1>6. LifeOf(l.jti) = "live" /\ LifeOf(j) = "unborn"
  BY <1>1, <1>2 DEF LifeOf, Fresh
<1>7. QED
  BY <1>1, <1>2, <1>3, <1>5, <1>6 DEF Chain!Exchange, Chain!RootOf

\* Every step of the control plane is one of the chain or a stutter.
LEMMA ChainStep == IInv /\ [Next]_vars => [Chain!Next]_(Chain!chainVars)
<1> SUFFICES ASSUME IInv, [Next]_vars
             PROVE  [Chain!Next]_(Chain!chainVars)
    OBVIOUS
<1>1. ASSUME NEW t \in InstallToken, MintInstallToken(t)
      PROVE  Chain!Next
  BY <1>1, MintIsMint DEF Chain!Next, IInv
<1>2. ASSUME NEW t \in InstallToken, NEW f \in Fingerprint, NEW a \in AgentId,
             NEW j \in Jti, Enroll(t, f, a, j)
      PROVE  Chain!Next
  BY <1>2, EnrollIsExchange DEF Chain!Next, Chain!Credential
<1>3. ASSUME NEW l \in issued, NEW skewed \in BOOLEAN, NEW j \in Jti,
             ServeHeartbeat(l, skewed, j)
      PROVE  Chain!Next
  BY <1>3, HeartbeatIsExchange DEF Chain!Next, Chain!Credential
<1>4. ASSUME UNCHANGED tokenVars
      PROVE  UNCHANGED Chain!chainVars
  BY <1>4 DEF Chain!chainVars, tokenVars, LifeOf, Fresh, Used
<1>5. QED
  BY <1>1, <1>2, <1>3, <1>4
     DEF Next, vars, tokenVars, SubscriptionChanges, RevokeToken, RevokeAgent,
         LiftRevocation, BumpConfig, Tick

\* Enrolment, heartbeat, replay, revocation and time together do no more to a
\* credential than mint it once and exchange it once.
THEOREM ImplementsChain == Spec => ChainSpec
<1>1. Init => Chain!Init
  BY InstallTokenAssumption DEF Init, Chain!Init, Chain!Credential, LifeOf, Fresh, Used
<1>2. QED
  BY <1>1, ChainStep, InvHolds, PTL DEF Spec, ChainSpec, Chain!Spec

-----------------------------------------------------------------------------
(* The chain never clones a credential.                                    *)

\* The install token a credential descends from, by a table of descent.
Origin(rt, c) == IF c \in Jti THEN rt[c] ELSE c

\* The chain's inductive invariant: a licence that was ever born has spent its
\* install token, and no two live credentials descend from the same one.
Heirs(lf, rt) ==
    /\ lf \in [InstallToken \cup Jti -> {"unborn", "live", "spent"}]
    /\ rt \in [Jti -> InstallToken]
    /\ \A j \in Jti : lf[j] # "unborn" => lf[rt[j]] = "spent"
    /\ \A c, d \in InstallToken \cup Jti :
          lf[c] = "live" /\ lf[d] = "live" /\ Origin(rt, c) = Origin(rt, d) => c = d

\* A new install token has no heir but itself.
LEMMA MintKeepsHeirs ==
    ASSUME NEW lf, NEW rt, Heirs(lf, rt), NEW t \in InstallToken, lf[t] = "unborn"
    PROVE  Heirs([lf EXCEPT ![t] = "live"], rt)
<1> DEFINE lm == [lf EXCEPT ![t] = "live"]
<1>1. lm \in [InstallToken \cup Jti -> {"unborn", "live", "spent"}]
  BY DEF Heirs
<1>2. ASSUME NEW j \in Jti, lm[j] # "unborn"
      PROVE  lm[rt[j]] = "spent"
  BY <1>2, InstallTokenAssumption DEF Heirs
<1>3. ASSUME NEW c \in InstallToken \cup Jti, NEW d \in InstallToken \cup Jti,
             lm[c] = "live", lm[d] = "live", Origin(rt, c) = Origin(rt, d)
      PROVE  c = d
  BY <1>3, InstallTokenAssumption DEF Heirs, Origin
<1>4. QED
  BY <1>1, <1>2, <1>3 DEF Heirs

\* A successor takes its predecessor's place.
LEMMA ExchangeKeepsHeirs ==
    ASSUME NEW lf, NEW rt, Heirs(lf, rt), NEW c \in InstallToken \cup Jti, NEW j \in Jti,
           lf[c] = "live", lf[j] = "unborn"
    PROVE  Heirs([lf EXCEPT ![c] = "spent", ![j] = "live"],
                 [rt EXCEPT ![j] = Origin(rt, c)])
<1> USE InstallTokenAssumption DEF Heirs, Origin
<1> DEFINE lm == [lf EXCEPT ![c] = "spent", ![j] = "live"]
           rm == [rt EXCEPT ![j] = Origin(rt, c)]
<1>1. /\ lm \in [InstallToken \cup Jti -> {"unborn", "live", "spent"}]
      /\ rm \in [Jti -> InstallToken]
  OBVIOUS
<1>2. Origin(rt, c) # j /\ c # j /\ lf[Origin(rt, c)] \in {"live", "spent"}
  OBVIOUS
<1>3. lm[Origin(rt, c)] = "spent"
  BY <1>2
<1>4. \A k \in Jti : lm[k] # "unborn" => lm[rm[k]] = "spent"
  BY <1>2, <1>3
<1>5. ASSUME NEW d \in InstallToken \cup Jti, lm[d] = "live", d # j
      PROVE  Origin(rm, d) # Origin(rm, j)
  BY <1>2, <1>5
<1>6. ASSUME NEW d \in InstallToken \cup Jti, NEW e \in InstallToken \cup Jti,
             d # j, e # j, lm[d] = "live", lm[e] = "live", Origin(rm, d) = Origin(rm, e)
      PROVE  d = e
  BY <1>6
<1>7. QED
  BY <1>1, <1>4, <1>5, <1>6

\* The chain's invariant, for its variables read off the control plane.
HeirsInv == Heirs(Life, root)

\* A step of the chain keeps its invariant.
LEMMA ChainInductive == HeirsInv /\ [Chain!Next]_(Chain!chainVars) => HeirsInv'
<1> SUFFICES ASSUME HeirsInv, [Chain!Next]_(Chain!chainVars)
             PROVE  HeirsInv'
    OBVIOUS
<1>1. ASSUME NEW t \in InstallToken, Chain!Mint(t)
      PROVE  HeirsInv'
  <2>1. Life[t] = "unborn" /\ Life' = [Life EXCEPT ![t] = "live"] /\ root' = root
    BY <1>1 DEF Chain!Mint, Life
  <2>2. QED
    BY <2>1, MintKeepsHeirs DEF HeirsInv
<1>2. ASSUME NEW c \in InstallToken \cup Jti, NEW j \in Jti, Chain!Exchange(c, j)
      PROVE  HeirsInv'
  <2>1. /\ Life[c] = "live" /\ Life[j] = "unborn"
        /\ Life' = [Life EXCEPT ![c] = "spent", ![j] = "live"]
        /\ root' = [root EXCEPT ![j] = Origin(root, c)]
    BY <1>2 DEF Chain!Exchange, Chain!RootOf, Life, Origin
  <2>2. QED
    BY <2>1, ExchangeKeepsHeirs DEF HeirsInv
<1>3. CASE UNCHANGED Chain!chainVars
  BY <1>3 DEF Chain!chainVars, HeirsInv, Life
<1>4. QED
  BY <1>1, <1>2, <1>3 DEF Chain!Next, Chain!Credential

\* The chain never clones: under every sequence of mints and exchanges, an
\* install token has at most one live heir.
THEOREM ChainOneLiveHeir == ChainSpec => []OneLiveHeir
<1>1. Chain!Init => HeirsInv
  BY InstallTokenAssumption DEF Chain!Init, Chain!Credential, HeirsInv, Heirs, Life
<1>2. HeirsInv => OneLiveHeir
  BY DEF HeirsInv, Heirs, Life, Origin, OneLiveHeir, Chain!OneLiveHeir,
         Chain!Credential, Chain!RootOf
<1>3. QED
  BY <1>1, <1>2, ChainInductive, PTL DEF ChainSpec, Chain!Spec

\* What the chain promises therefore holds of the control plane: however many
\* times, in whatever order and by whomever licences are presented, no install
\* token ever has two live heirs.
THEOREM NoCloning == Spec => []OneLiveHeir
BY ImplementsChain, ChainOneLiveHeir, PTL
=============================================================================
