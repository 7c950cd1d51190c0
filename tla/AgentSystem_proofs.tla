------------------------- MODULE AgentSystem_proofs -------------------------
(***************************************************************************)
(* Proofs about one host and its control plane together.                   *)
(***************************************************************************)
EXTENDS AgentSystem, TLAPS

\* What is proved of the control plane alone.
Served == INSTANCE ControlPlane_proofs

-----------------------------------------------------------------------------
(* The licences in circulation.                                            *)

\* Every licence the host or the network holds was issued, and the host has a
\* request out exactly while its heartbeat task waits.
Held ==
    /\ AP!Up => lic \in issued
    /\ disk # NoLicense => disk \in issued
    /\ orphans \subseteq issued
    /\ (wire # "idle") <=> (AP!Up /\ task = "waiting")
    /\ wire = "answered" /\ answer.code = 200 => answer.lic \in issued
    /\ fp \in Fingerprint

\* A request abandoned by its host carries a licence that was issued.
LEMMA HangUpKeepsOrphans ==
    ASSUME Held, HangUp, issued' = issued
    PROVE  orphans' \subseteq issued' /\ wire' = "idle"
BY DEF Held, HangUp

\* An answer reaches the host.
LEMMA DeliverKeepsHeld == ASSUME Held, Deliver PROVE Held'
<1>1. AP!Up /\ task = "waiting" /\ lic \in issued /\ issued' = issued
  BY DEF Held, Deliver, serverVars
<1>2. orphans' \subseteq issued' /\ wire' = "idle"
  BY <1>1, HangUpKeepsOrphans DEF Deliver
<1>3. task' # "waiting"
  BY DEF Deliver, AP!HeartbeatOk, AP!Rotate, AP!PersistFails, AP!Fatal,
         AP!HeartbeatPastDue, AP!HeartbeatFatal
<1>4. (AP!Up' => lic' \in issued') /\ (disk' # NoLicense => disk' \in issued')
  <2>1. CASE answer.code = 200 /\ AP!HeartbeatOk(answer.lic)
    BY <1>1, <2>1 DEF Held, Deliver, AP!HeartbeatOk, AP!Rotate, AP!PersistFails,
                      AP!Fatal, AP!Up
  <2>2. CASE AP!HeartbeatPastDue \/ AP!HeartbeatFatal
    BY <1>1, <2>2 DEF Held, AP!HeartbeatPastDue, AP!HeartbeatFatal, AP!Fatal, AP!Up
  <2>3. QED
    BY <2>1, <2>2 DEF Deliver
<1>5. fp' = fp
  BY DEF Deliver, AP!HeartbeatOk, AP!Rotate, AP!PersistFails, AP!Fatal,
         AP!HeartbeatPastDue, AP!HeartbeatFatal
<1>6. QED
  BY <1>2, <1>3, <1>4, <1>5 DEF Held

\* The agent enrols, with or without hearing of it.
LEMMA EnrolKeepsHeld ==
    ASSUME Held, NEW t \in InstallToken, NEW a \in AgentId, NEW j \in Jti,
           BootEnrolls(t, a, j) \/ BootEnrollLost(t, a, j)
    PROVE  Held'
<1>1. issued' = issued \cup {IssueLicense(j, a, fp, NoGrace, now)}
  <2>1. CP!Enroll(t, fp, a, j)
    BY DEF BootEnrolls, BootEnrollLost
  <2>2. QED
    BY <2>1 DEF CP!Enroll, CP!Issue, CP!IssueLicense, IssueLicense, CP!NoGrace, NoGrace
<1>2. ~AP!Up /\ disk = NoLicense /\ UNCHANGED link
  BY DEF BootEnrolls, BootEnrollLost, AP!BootEnrolls, AP!BootEnrollFails
<1>3. CASE BootEnrolls(t, a, j)
  BY <1>1, <1>2, <1>3 DEF Held, BootEnrolls, AP!BootEnrolls, AP!Booted, AP!Up, link
<1>4. CASE BootEnrollLost(t, a, j)
  BY <1>1, <1>2, <1>4 DEF Held, BootEnrollLost, AP!BootEnrollFails, AP!BootFailed, AP!Up, link
<1>5. QED
  BY <1>3, <1>4

\* Every step of the system keeps what host and network hold issued.
LEMMA HeldInductive == Held /\ [Next]_vars => Held'
<1> SUFFICES ASSUME Held, [Next]_vars
             PROVE  Held'
    OBVIOUS
<1>1. CASE Send
  BY <1>1 DEF Held, Send, AP!SendHeartbeat, AP!Up, serverVars
<1>2. ASSUME NEW j \in Jti, Serve(j)
      PROVE  Held'
  BY <1>2 DEF Held, Serve, CP!ServeHeartbeat, CP!Issue, AP!Up, hostVars
<1>3. CASE Refuse
  BY <1>3 DEF Held, Refuse, AP!Up, hostVars, serverVars
<1>4. ASSUME NEW l \in orphans, NEW j \in Jti, ServeOrphan(l, j)
      PROVE  Held'
  BY <1>4 DEF Held, ServeOrphan, CP!ServeHeartbeat, CP!Issue, AP!Up, hostVars
<1>5. CASE Deliver
  BY <1>5, DeliverKeepsHeld
<1>6. CASE Lose
  <2>1. issued' = issued
    BY <1>6 DEF Lose, serverVars
  <2>2. QED
    BY <1>6, <2>1, HangUpKeepsOrphans DEF Held, Lose, AP!HeartbeatRetry, AP!Up
<1>7. CASE BootFromDisk
  BY <1>7 DEF Held, BootFromDisk, AP!BootFromDisk, AP!Booted, AP!BootRejectsDisk,
              AP!BootFailed, AP!Up, serverVars, link
<1>8. ASSUME NEW t \in InstallToken, NEW a \in AgentId, NEW j \in Jti,
             BootEnrolls(t, a, j) \/ BootEnrollLost(t, a, j)
      PROVE  Held'
  BY <1>8, EnrolKeepsHeld
<1>9. CASE BootEnrollFails
  BY <1>9 DEF Held, BootEnrollFails, AP!BootEnrollFails, AP!BootFailed, AP!Up,
              serverVars, link
<1>10. CASE ProcessEnds \/ ProcessCrashes
  <2>1. issued' = issued /\ HangUp
    BY <1>10 DEF ProcessEnds, ProcessCrashes, serverVars
  <2>2. ~AP!Up' /\ disk' = disk /\ fp' = fp
    BY <1>10 DEF ProcessEnds, ProcessCrashes, AP!RunReturns, AP!FlushEnds, AP!Crash, AP!Up
  <2>3. QED
    BY <2>1, <2>2, HangUpKeepsOrphans DEF Held
<1>11. CASE HostChanges
  BY <1>11 DEF Held, HostChanges, AP!RequestShutdown, AP!LicenseFileLost,
               AP!FingerprintReplaced, AP!memory, AP!Up, serverVars, link
<1>12. CASE ServerChanges
  <2>1. issued' = issued
    BY <1>12 DEF ServerChanges, CP!MintInstallToken, CP!SubscriptionChanges,
                 CP!RevokeToken, CP!RevokeAgent, CP!LiftRevocation, CP!tokenVars
  <2>2. QED
    BY <1>12, <2>1 DEF Held, ServerChanges, AP!Up, hostVars, link
<1>13. CASE Tick
  BY <1>13 DEF Held, Tick, AP!Tick, AP!memory, AP!Up, serverVars
<1>14. CASE UNCHANGED vars
  BY <1>14 DEF Held, vars, AP!Up, serverVars, hostVars, link
<1>15. QED
  BY <1>1, <1>2, <1>3, <1>4, <1>5, <1>6, <1>7, <1>8, <1>9, <1>10, <1>11, <1>12,
     <1>13, <1>14 DEF Next

\* Host and network only ever hold issued licences.
LEMMA HeldHolds == Spec => []Held
<1>1. Init => Held
  BY DEF Init, AP!Init, CP!Init, Held, AP!Up
<1>2. QED
  BY <1>1, HeldInductive, PTL DEF Spec

-----------------------------------------------------------------------------
(* The control plane's part.                                               *)

\* Every step of the composition is a step of the control plane or none of its.
LEMMA ControlPlaneStep == Held /\ [Next]_vars => [CP!Next]_(CP!vars)
<1> SUFFICES ASSUME Held, [Next]_vars
             PROVE  [CP!Next]_(CP!vars)
    OBVIOUS
<1>1. ASSUME UNCHANGED serverVars, UNCHANGED now
      PROVE  UNCHANGED CP!vars
  BY <1>1 DEF serverVars, CP!vars
<1>2. CASE Send
  BY <1>1, <1>2 DEF Send, AP!SendHeartbeat
<1>3. ASSUME NEW j \in Jti, Serve(j)
      PROVE  CP!Next
  <2>1. lic \in issued
    BY <1>3 DEF Held, Serve
  <2>2. QED
    BY <1>3, <2>1 DEF Serve, CP!Next
<1>4. CASE Refuse
  BY <1>1, <1>4 DEF Refuse
<1>5. ASSUME NEW l \in orphans, NEW j \in Jti, ServeOrphan(l, j)
      PROVE  CP!Next
  <2>1. l \in issued
    BY DEF Held
  <2>2. QED
    BY <1>5, <2>1 DEF ServeOrphan, CP!Next
<1>6. CASE Deliver
  BY <1>1, <1>6 DEF Deliver, AP!HeartbeatOk, AP!Rotate, AP!PersistFails, AP!Fatal,
                    AP!HeartbeatPastDue, AP!HeartbeatFatal
<1>7. CASE Lose
  BY <1>1, <1>7 DEF Lose, AP!HeartbeatRetry
<1>8. CASE BootFromDisk
  BY <1>1, <1>8 DEF BootFromDisk, AP!BootFromDisk, AP!Booted, AP!BootRejectsDisk,
                    AP!BootFailed
<1>9. ASSUME NEW t \in InstallToken, NEW a \in AgentId, NEW j \in Jti,
             BootEnrolls(t, a, j) \/ BootEnrollLost(t, a, j)
      PROVE  CP!Next
  <2>1. CP!Enroll(t, fp, a, j)
    BY <1>9 DEF BootEnrolls, BootEnrollLost
  <2>2. fp \in Fingerprint
    BY DEF Held
  <2>3. QED
    BY <2>1, <2>2 DEF CP!Next
<1>10. CASE BootEnrollFails
  BY <1>1, <1>10 DEF BootEnrollFails, AP!BootEnrollFails, AP!BootFailed
<1>11. CASE ProcessEnds \/ ProcessCrashes
  BY <1>1, <1>11 DEF ProcessEnds, ProcessCrashes, AP!RunReturns, AP!FlushEnds, AP!Crash
<1>12. CASE HostChanges
  BY <1>1, <1>12 DEF HostChanges, AP!RequestShutdown, AP!LicenseFileLost,
                     AP!FingerprintReplaced
<1>13. CASE ServerChanges
  BY <1>13 DEF ServerChanges, CP!Next
<1>14. CASE Tick
  BY <1>14 DEF Tick, AP!Tick, CP!Next, CP!Tick, CP!tokenVars, CP!revocationVars, serverVars
<1>15. CASE UNCHANGED vars
  BY <1>1, <1>15 DEF vars
<1>16. QED
  BY <1>2, <1>3, <1>4, <1>5, <1>6, <1>7, <1>8, <1>9, <1>10, <1>11, <1>12, <1>13,
     <1>14, <1>15 DEF Next

\* Initially the server is a ControlPlane.
LEMMA ControlPlaneInit == Init => CP!Init
BY DEF Init

\* The control plane's part of the system is a ControlPlane.
THEOREM RefinesControlPlane == Spec => ImplementsControlPlane
BY ControlPlaneInit, ControlPlaneStep, HeldHolds, PTL DEF Spec, ImplementsControlPlane, CP!Spec

\* The two instances of the control plane in scope say the same.
LEMMA SameControlPlane ==
    /\ CP!Init <=> Served!Init
    /\ [CP!Next]_(CP!vars) <=> [Served!Next]_(Served!vars)
<1> USE DEF CP!tokenVars, Served!tokenVars, CP!revocationVars, Served!revocationVars
<1>1. CP!Init <=> Served!Init
  BY DEF CP!Init, Served!Init
<1>2. /\ \A j : CP!Used(j) <=> Served!Used(j)
      /\ \A j : CP!Fresh(j) <=> Served!Fresh(j)
  BY DEF CP!Used, Served!Used, CP!Fresh, Served!Fresh
<1>3. \A a, f : CP!RowOf(a, f) = Served!RowOf(a, f)
  BY DEF CP!RowOf, Served!RowOf, CP!NoGrace, Served!NoGrace
<1>4. \A l, t : CP!Issue(l, t) <=> Served!Issue(l, t)
  BY DEF CP!Issue, Served!Issue
<1>5. \A j, a, f, g, n : CP!IssueLicense(j, a, f, g, n) = Served!IssueLicense(j, a, f, g, n)
  BY DEF CP!IssueLicense, Served!IssueLicense
<1>6. \A a, f : CP!EnrolsAs(a, f) <=> Served!EnrolsAs(a, f)
  BY DEF CP!EnrolsAs, Served!EnrolsAs, CP!IsAgentOf, Served!IsAgentOf
<1>7. \A t : CP!MintInstallToken(t) <=> Served!MintInstallToken(t)
  BY DEF CP!MintInstallToken, Served!MintInstallToken
<1>8. \A t, f, a, j : CP!Enroll(t, f, a, j) <=> Served!Enroll(t, f, a, j)
  BY <1>2, <1>3, <1>4, <1>5, <1>6
     DEF CP!Enroll, Served!Enroll, CP!Redeemable, Served!Redeemable, CP!NoGrace, Served!NoGrace
<1>9. \A l, s, j : CP!ServeHeartbeat(l, s, j) <=> Served!ServeHeartbeat(l, s, j)
  <2>1. \A l, s : CP!Verdict(l, s) = Served!Verdict(l, s)
    BY DEF CP!Verdict, Served!Verdict, CP!Unexpired, Served!Unexpired,
           CP!IsRevoked, Served!IsRevoked
  <2>2. \A g : CP!NewGrace(g) = Served!NewGrace(g)
    BY DEF CP!NewGrace, Served!NewGrace, CP!NoGrace, Served!NoGrace
  <2>3. \A a, f : CP!Beaten(a, f) = Served!Beaten(a, f)
    BY <1>3, <2>2 DEF CP!Beaten, Served!Beaten
  <2>4. \A l, j : CP!Successor(l, j) = Served!Successor(l, j)
    BY <1>5, <2>3 DEF CP!Successor, Served!Successor
  <2>5. QED
    BY <1>2, <1>4, <2>1, <2>3, <2>4 DEF CP!ServeHeartbeat, Served!ServeHeartbeat
<1>10. /\ \A s : CP!SubscriptionChanges(s) <=> Served!SubscriptionChanges(s)
       /\ \A j : CP!RevokeToken(j) <=> Served!RevokeToken(j)
       /\ \A a : CP!RevokeAgent(a) <=> Served!RevokeAgent(a)
       /\ \A a, j : CP!LiftRevocation(a, j) <=> Served!LiftRevocation(a, j)
  BY DEF CP!SubscriptionChanges, Served!SubscriptionChanges, CP!RevokeToken,
         Served!RevokeToken, CP!RevokeAgent, Served!RevokeAgent,
         CP!LiftRevocation, Served!LiftRevocation
<1>11. (CP!BumpConfig <=> Served!BumpConfig) /\ (CP!Tick <=> Served!Tick)
  BY DEF CP!BumpConfig, Served!BumpConfig, CP!Tick, Served!Tick
<1>12. CP!Next <=> Served!Next
  BY <1>2, <1>7, <1>8, <1>9, <1>10, <1>11
     DEF CP!Next, Served!Next, CP!Disposition, Served!Disposition
<1>13. (UNCHANGED CP!vars) <=> (UNCHANGED Served!vars)
  BY DEF CP!vars, Served!vars
<1>14. QED
  BY <1>1, <1>12, <1>13

\* ... so the control plane's invariant is available here.
LEMMA ServedInvHolds == Spec => []Served!IInv
<1> USE TokensAssumption, TimesAssumption, NobodyAssumption, TTLAssumption,
        LeewayAssumption DEF CP!AgentRow, Served!AgentRow, CP!NoGrace, Served!NoGrace
<1>1. Init => Served!IInv
  BY Served!InitInv, ControlPlaneInit, SameControlPlane
<1>2. Served!IInv /\ Held /\ [Next]_vars => Served!IInv'
  BY Served!InvInductive, ControlPlaneStep, SameControlPlane
<1>3. QED
  BY <1>1, <1>2, HeldHolds, PTL DEF Spec

-----------------------------------------------------------------------------
(* The host's part.                                                        *)

\* Both instances of the control plane issue the same successor.
LEMMA SameSuccessor == \A l, j : CP!Successor(l, j) = Served!Successor(l, j)
<1>1. \A a, f : CP!RowOf(a, f) = Served!RowOf(a, f)
  BY DEF CP!RowOf, Served!RowOf, CP!NoGrace, Served!NoGrace
<1>2. \A g : CP!NewGrace(g) = Served!NewGrace(g)
  BY DEF CP!NewGrace, Served!NewGrace, CP!NoGrace, Served!NoGrace
<1>3. \A a, f : CP!Beaten(a, f) = Served!Beaten(a, f)
  BY <1>1, <1>2 DEF CP!Beaten, Served!Beaten
<1>4. QED
  BY <1>3 DEF CP!Successor, Served!Successor, CP!IssueLicense, Served!IssueLicense

\* What a heartbeat bearing l earns: a licence with a deadline, and one that an
\* agent may be offered.
LEMMA SuccessorOffered ==
    ASSUME Served!IInv, NEW l \in issued, NEW j \in Jti, now <= MaxTime
    PROVE  /\ CP!Successor(l, j) \in Offer
           /\ CP!Successor(l, j).jti = j
           /\ CP!Successor(l, j).grace # NoGrace
<1> DEFINE s == Served!Successor(l, j)
<1> USE TokensAssumption, TimesAssumption, NobodyAssumption, TTLAssumption,
        LeewayAssumption DEF CP!AgentRow, Served!AgentRow, CP!NoGrace, Served!NoGrace
<1>1. Served!TypeOK /\ Served!RowGraceInv
  BY DEF Served!IInv
<1>2. /\ s \in Served!License /\ Served!IssuedAt(s) = now
      /\ s.jti = j
      /\ s.grace = Served!Beaten(l.agent, l.fp).grace
  BY <1>1, Served!SuccessorFacts
<1>3. l.agent \in AgentId /\ l.fp \in Fingerprint /\ now \in Nat
  BY <1>1 DEF Served!TypeOK, Served!License
<1>4. Served!RowOf(l.agent, l.fp).grace \in Nat \cup {NoGrace}
  BY <1>1, <1>3, Served!RowOfType DEF NoGrace
<1>5. s.grace = Served!NewGrace(Served!RowOf(l.agent, l.fp).grace)
  BY <1>1, <1>2, <1>3, Served!BeatenFacts
<1>6. s.grace \in Nat
  BY <1>1, <1>4, <1>5, Served!NewGraceType DEF NoGrace
<1>7. Served!RowOf(l.agent, l.fp).grace # NoGrace =>
          Served!RowOf(l.agent, l.fp).grace <= now + GraceWindow
  BY <1>1, <1>3 DEF Served!RowGraceInv, Served!RowOf, NoGrace
<1>8. s.grace <= now + GraceWindow
  BY <1>1, <1>4, <1>5, <1>7, Served!NewGraceRange DEF NoGrace
<1>9. s.exp = now + LicenseTTL
  BY DEF Served!Successor, Served!IssueLicense
<1> HIDE DEF s
<1>10. s \in Offer
  <2>1. s.exp \in 0 .. MaxTime + LicenseTTL
    BY <1>3, <1>9
  <2>2. s.grace \in 0 .. MaxTime + GraceWindow
    BY <1>3, <1>6, <1>8
  <2>3. QED
    BY <1>2, <2>1, <2>2 DEF Served!License, Offer
<1>11. CP!Successor(l, j) = s
  BY SameSuccessor DEF s
<1>12. QED
  BY <1>2, <1>6, <1>10, <1>11 DEF NoGrace

\* Every licence in circulation is one an agent may be offered.
Offered == issued \subseteq Offer /\ now \in 0 .. MaxTime

\* Only the server issues licences, each of a kind an agent may be offered.
LEMMA OfferedInductive ==
    ASSUME Held, Served!IInv, Offered, [Next]_vars
    PROVE  Offered'
<1>1. [CP!Next]_(CP!vars)
  BY ControlPlaneStep
<1>2. now \in Nat /\ now <= MaxTime /\ MaxTime \in Nat
  BY TimesAssumption DEF Offered
<1>3. ASSUME NEW t \in InstallToken, NEW f \in Fingerprint, NEW a \in AgentId,
             NEW j \in Jti, CP!Enroll(t, f, a, j)
      PROVE  Offered'
  <2>1. issued' = issued \cup {IssueLicense(j, a, f, NoGrace, now)} /\ now' = now
    BY <1>3 DEF CP!Enroll, CP!Issue, CP!IssueLicense, IssueLicense, CP!NoGrace, NoGrace
  <2>2. now + LicenseTTL \in 0 .. MaxTime + LicenseTTL
    BY <1>2, TTLAssumption
  <2>3. IssueLicense(j, a, f, NoGrace, now) \in Offer
    BY <2>2 DEF IssueLicense, Offer
  <2>4. QED
    BY <2>1, <2>3 DEF Offered
<1>4. ASSUME NEW l \in issued, NEW k \in BOOLEAN, NEW j \in Jti, CP!ServeHeartbeat(l, k, j)
      PROVE  Offered'
  <2>1. issued' = issued \cup {CP!Successor(l, j)} /\ now' = now
    BY <1>4 DEF CP!ServeHeartbeat, CP!Issue
  <2>2. QED
    BY <1>2, <2>1, SuccessorOffered DEF Offered
<1>5. CASE CP!Tick
  BY <1>2, <1>5 DEF CP!Tick, CP!tokenVars, Offered
<1>6. ASSUME issued' = issued, now' = now
      PROVE  Offered'
  BY <1>6 DEF Offered
<1>7. ASSUME NEW t \in InstallToken, CP!MintInstallToken(t) PROVE Offered'
  BY <1>6, <1>7 DEF CP!MintInstallToken
<1>8. ASSUME NEW s, CP!SubscriptionChanges(s) PROVE Offered'
  BY <1>6, <1>8 DEF CP!SubscriptionChanges, CP!tokenVars
<1>9. ASSUME NEW j, CP!RevokeToken(j) PROVE Offered'
  BY <1>6, <1>9 DEF CP!RevokeToken, CP!tokenVars
<1>10. ASSUME NEW a, CP!RevokeAgent(a) PROVE Offered'
  BY <1>6, <1>10 DEF CP!RevokeAgent, CP!tokenVars
<1>11. ASSUME NEW a, NEW j, CP!LiftRevocation(a, j) PROVE Offered'
  BY <1>6, <1>11 DEF CP!LiftRevocation, CP!tokenVars
<1>12. CASE CP!BumpConfig
  BY <1>6, <1>12 DEF CP!BumpConfig, CP!tokenVars
<1>13. CASE UNCHANGED CP!vars
  BY <1>6, <1>13 DEF CP!vars, CP!tokenVars
<1>14. QED
  BY <1>1, <1>3, <1>4, <1>5, <1>7, <1>8, <1>9, <1>10, <1>11, <1>12, <1>13 DEF CP!Next

\* Every licence ever issued is one an agent may be offered.
LEMMA OfferedHolds == Spec => []Offered
<1>1. Init => Offered
  BY TimesAssumption DEF Init, CP!Init, Offered
<1>2. Served!IInv /\ Held /\ Offered /\ [Next]_vars => Offered'
  BY OfferedInductive
<1>3. QED
  BY <1>1, <1>2, HeldHolds, ServedInvHolds, PTL DEF Spec

\* Every step of the system is a step of the agent or leaves it alone.
LEMMA AgentStep == Held /\ Offered /\ [Next]_vars => [AP!Next]_(AP!agentVars)
<1> SUFFICES ASSUME Held, Offered, [Next]_vars
             PROVE  [AP!Next]_(AP!agentVars)
    OBVIOUS
<1>1. ASSUME UNCHANGED hostVars, UNCHANGED now
      PROVE  UNCHANGED AP!agentVars
  BY <1>1 DEF hostVars, AP!agentVars, AP!memory
<1>2. CASE Send
  BY <1>2 DEF Send, AP!Next
<1>3. ASSUME NEW j \in Jti, Serve(j) PROVE UNCHANGED AP!agentVars
  BY <1>1, <1>3 DEF Serve, CP!ServeHeartbeat
<1>4. CASE Refuse
  BY <1>1, <1>4 DEF Refuse
<1>5. ASSUME NEW l \in orphans, NEW j \in Jti, ServeOrphan(l, j) PROVE UNCHANGED AP!agentVars
  BY <1>1, <1>5 DEF ServeOrphan, CP!ServeHeartbeat
<1>6. CASE Deliver
  <2>1. answer.code = 200 => answer.lic \in Offer
    BY <1>6 DEF Deliver, Held, Offered
  <2>2. QED
    BY <1>6, <2>1 DEF Deliver, AP!Next, AP!Answered
<1>7. CASE Lose
  BY <1>7 DEF Lose, AP!Next, AP!Answered
<1>8. CASE BootFromDisk
  BY <1>8 DEF BootFromDisk, AP!Next
<1>9. ASSUME NEW t \in InstallToken, NEW a \in AgentId, NEW j \in Jti, BootEnrolls(t, a, j)
      PROVE  AP!Next
  <2>1. fp \in Fingerprint /\ now \in Nat /\ now <= MaxTime /\ MaxTime \in Nat
    BY TimesAssumption DEF Held, Offered
  <2>2. now + LicenseTTL \in 0 .. MaxTime + LicenseTTL
    BY <2>1, TTLAssumption
  <2>3. IssueLicense(j, a, fp, NoGrace, now) \in Offer
    BY <2>1, <2>2 DEF IssueLicense, Offer
  <2>4. QED
    BY <1>9, <2>3 DEF BootEnrolls, AP!Next
<1>10. ASSUME NEW t \in InstallToken, NEW a \in AgentId, NEW j \in Jti, BootEnrollLost(t, a, j)
       PROVE  AP!Next
  BY <1>10 DEF BootEnrollLost, AP!Next
<1>11. CASE BootEnrollFails
  BY <1>11 DEF BootEnrollFails, AP!Next
<1>12. CASE ProcessEnds \/ ProcessCrashes
  BY <1>12 DEF ProcessEnds, ProcessCrashes, AP!Next
<1>13. CASE HostChanges
  BY <1>13 DEF HostChanges, AP!Next
<1>14. CASE ServerChanges
  <2>1. now' = now
    BY <1>14 DEF ServerChanges, CP!MintInstallToken, CP!SubscriptionChanges,
                 CP!RevokeToken, CP!RevokeAgent, CP!LiftRevocation
  <2>2. QED
    BY <1>1, <1>14, <2>1 DEF ServerChanges
<1>15. CASE Tick
  BY <1>15 DEF Tick, AP!Next
<1>16. CASE UNCHANGED vars
  BY <1>1, <1>16 DEF vars
<1>17. QED
  BY <1>2, <1>3, <1>4, <1>5, <1>6, <1>7, <1>8, <1>9, <1>10, <1>11, <1>12, <1>13,
     <1>14, <1>15, <1>16 DEF Next

\* The host's part of the system is an AgentProcess: against a real control plane
\* and a real network the agent does nothing it does not do against an arbitrary
\* one.
THEOREM RefinesAgent == Spec => ImplementsAgent
<1>1. Init => AP!Init
  BY DEF Init
<1>2. QED
  BY <1>1, AgentStep, HeldHolds, OfferedHolds, PTL DEF Spec, ImplementsAgent, AP!Spec

-----------------------------------------------------------------------------
(* What the agent may rely on.                                             *)

\* Licence l has not been presented, and no abandoned request will present it.
Unspent(l) == l.jti \notin seen /\ \A o \in orphans : o.jti # l.jti

\* The answer on its way: an unspent heir of the licence it answers, with a
\* deadline.
AnswerIsHeir ==
    wire = "answered" /\ answer.code = 200 =>
        /\ Unspent(answer.lic)
        /\ answer.lic.grace # NoGrace
        /\ lic.jti \in seen
        /\ root[answer.lic.jti] = root[lic.jti]

\* What is in the file is what is in memory, and RUNNING was confirmed.
Confirmed ==
    AP!Up => /\ lic = disk /\ lic # NoLicense
             /\ mode = "running" => status = "ok" /\ lic.grace # NoGrace

\* Between a confirmed heartbeat and the next one the licence is unspent, on
\* disk too if the process ends there.
Rested ==
    /\ AP!Up /\ status = "ok" /\ task = "sleeping" => Unspent(lic)
    /\ proc = "exit0" /\ status = "ok" /\ task = "sleeping" /\ disk # NoLicense
          => Unspent(disk)

Current == AnswerIsHeir /\ Confirmed /\ Rested

\* An offered licence is a licence.
LEMMA OfferIsSomething == \A l \in Offer : l # NoLicense
<1>1. Offer \subseteq License
  BY TTLAssumption, TimesAssumption DEF Offer, License
<1>2. QED
  BY <1>1, NobodyAssumption

\* The server accepts the licence on the wire and answers with its heir.
LEMMA ServeKeepsCurrent ==
    ASSUME Held, Offered, Served!IInv, Current, NEW j \in Jti, Serve(j)
    PROVE  Current'
<1>1. /\ wire = "sent" /\ CP!Fresh(j) /\ UNCHANGED <<hostVars, orphans>>
      /\ wire' = "answered" /\ answer' = [code |-> 200, lic |-> CP!Successor(lic, j)]
      /\ seen' = seen \cup {lic.jti}
      /\ issued' = issued \cup {CP!Successor(lic, j)}
      /\ root' = [root EXCEPT ![CP!Successor(lic, j).jti] = root[lic.jti]]
  BY DEF Serve, CP!ServeHeartbeat, CP!Issue
<1>2. AP!Up /\ task = "waiting" /\ lic \in issued /\ orphans \subseteq issued
  BY <1>1 DEF Held
<1>3. now <= MaxTime
  BY TimesAssumption DEF Offered
<1>4. /\ CP!Successor(lic, j).jti = j
      /\ CP!Successor(lic, j).grace # NoGrace
  BY <1>2, <1>3, SuccessorOffered
<1>5. \A l \in issued : l.jti # j
  BY <1>1 DEF CP!Fresh, CP!Used
<1>6. j \notin seen
  <2>1. \A k \in seen : \E l \in issued : l.jti = k
    BY DEF Served!IInv, Served!TokensInv, Served!Used
  <2>2. QED
    BY <1>5, <2>1
<1>7. AnswerIsHeir'
  <2>1. root \in [Jti -> InstallToken]
    BY DEF Served!IInv, Served!TypeOK
  <2>2. lic.jti # j
    BY <1>2, <1>5
  <2>3. Unspent(answer.lic)'
    BY <1>1, <1>2, <1>4, <1>5, <1>6, <2>2 DEF Unspent
  <2>4. lic' = lic /\ root'[j] = root[lic.jti] /\ root'[lic.jti] = root[lic.jti]
    BY <1>1, <1>4, <2>1, <2>2 DEF hostVars
  <2>5. QED
    BY <1>1, <1>4, <2>3, <2>4 DEF AnswerIsHeir
<1>8. Confirmed'
  BY <1>1 DEF Current, Confirmed, AP!Up, hostVars
<1>9. Rested'
  BY <1>1, <1>2 DEF Rested, AP!Up, hostVars
<1>10. QED
  BY <1>7, <1>8, <1>9 DEF Current

\* The server accepts an abandoned request, whose answer nobody hears.
LEMMA OrphanKeepsCurrent ==
    ASSUME Held, Offered, Served!IInv, Current, NEW l \in orphans, NEW j \in Jti,
           ServeOrphan(l, j)
    PROVE  Current'
<1>1. /\ CP!Fresh(j) /\ UNCHANGED <<hostVars, wire, answer>>
      /\ orphans' = orphans \ {l}
      /\ seen' = seen \cup {l.jti}
      /\ root' = [root EXCEPT ![CP!Successor(l, j).jti] = root[l.jti]]
  BY DEF ServeOrphan, CP!ServeHeartbeat, CP!Issue
<1>2. l \in issued /\ now <= MaxTime
  BY TimesAssumption DEF Held, Offered
<1>3. CP!Successor(l, j).jti = j
  BY <1>2, SuccessorOffered
<1>4. \A m \in issued : m.jti # j
  BY <1>1 DEF CP!Fresh, CP!Used
<1>5. \A m : Unspent(m) => Unspent(m)'
  BY <1>1 DEF Unspent
<1>6. AnswerIsHeir'
  <2> SUFFICES ASSUME wire = "answered", answer.code = 200
               PROVE  /\ Unspent(answer.lic)'
                      /\ answer.lic.grace # NoGrace
                      /\ lic.jti \in seen'
                      /\ root'[answer.lic.jti] = root'[lic.jti]
    BY <1>1 DEF AnswerIsHeir, hostVars
  <2>1. /\ Unspent(answer.lic) /\ answer.lic.grace # NoGrace
        /\ lic.jti \in seen /\ root[answer.lic.jti] = root[lic.jti]
    BY DEF Current, AnswerIsHeir
  <2>2. answer.lic \in issued /\ lic \in issued
    BY DEF Held
  <2>3. root \in [Jti -> InstallToken]
    BY DEF Served!IInv, Served!TypeOK
  <2>4. root'[answer.lic.jti] = root[answer.lic.jti] /\ root'[lic.jti] = root[lic.jti]
    BY <1>1, <1>3, <1>4, <2>2, <2>3
  <2>5. Unspent(answer.lic)'
    <3>1. answer' = answer
      BY <1>1
    <3>2. QED
      BY <1>1, <2>1, <3>1 DEF Unspent
  <2>6. QED
    BY <1>1, <2>1, <2>4, <2>5
<1>7. Confirmed'
  BY <1>1 DEF Current, Confirmed, AP!Up, hostVars
<1>8. Rested'
  BY <1>1 DEF Current, Rested, AP!Up, Unspent, hostVars
<1>9. QED
  BY <1>6, <1>7, <1>8 DEF Current

\* An answer arrives.
LEMMA DeliverKeepsCurrent ==
    ASSUME Held, Offered, Current, Deliver
    PROVE  Current'
<1>1. /\ wire = "answered" /\ AP!Up /\ task = "waiting" /\ seen' = seen
      /\ wire' = "idle" /\ orphans' = orphans
  BY DEF Deliver, HangUp, Held, serverVars
<1>2. AnswerIsHeir'
  BY <1>1 DEF AnswerIsHeir
<1>3. AP!Up' /\ proc' # "exit0"
  BY <1>1 DEF Deliver, AP!Up, AP!HeartbeatOk, AP!Rotate, AP!PersistFails, AP!Fatal,
              AP!HeartbeatPastDue, AP!HeartbeatFatal
<1>4. CASE answer.code = 200 /\ AP!Rotate(answer.lic)
  <2>1. Unspent(answer.lic) /\ answer.lic.grace # NoGrace /\ answer.lic \in issued
    BY <1>1, <1>4 DEF Current, AnswerIsHeir, Held
  <2>2. answer.lic # NoLicense
    BY <2>1, OfferIsSomething DEF Offered
  <2>3. QED
    BY <1>1, <1>2, <1>3, <1>4, <2>1, <2>2
       DEF Current, Confirmed, Rested, Unspent, AP!Rotate
<1>5. CASE AP!PersistFails \/ AP!HeartbeatPastDue \/ AP!Fatal
  <2>1. /\ lic' = lic /\ disk' = disk /\ task' # "sleeping"
        /\ mode' = "running" => mode = "running" /\ status' = status
    BY <1>5 DEF AP!PersistFails, AP!HeartbeatPastDue, AP!Fatal, AP!SetMode, AP!Terminal
  <2>2. QED
    BY <1>1, <1>2, <1>3, <2>1 DEF Current, Confirmed, Rested
<1>6. QED
  BY <1>4, <1>5 DEF Deliver, AP!HeartbeatOk, AP!HeartbeatFatal

\* A request fails: a RUNNING agent has a deadline to fall back to.
LEMMA LoseKeepsCurrent ==
    ASSUME Held, Current, Lose
    PROVE  Current'
<1>1. /\ AP!Up /\ AP!Up' /\ status' = "retryable" /\ lic' = lic /\ disk' = disk
      /\ proc' = proc /\ wire' = "idle" /\ mode' = AP!ModeAfterRetry
  BY DEF Lose, HangUp, AP!HeartbeatRetry, AP!Up
<1>2. mode' # "running"
  BY <1>1 DEF AP!ModeAfterRetry, Current, Confirmed, AP!NoGrace, NoGrace
<1>3. QED
  BY <1>1, <1>2 DEF Current, AnswerIsHeir, Confirmed, Rested

\* The process starts.
LEMMA BootKeepsCurrent ==
    ASSUME Held, Offered, Current,
           BootFromDisk \/ BootEnrollFails
              \/ \E t \in InstallToken, a \in AgentId, j \in Jti :
                    BootEnrolls(t, a, j) \/ BootEnrollLost(t, a, j)
    PROVE  Current'
<1>1. ~AP!Up /\ UNCHANGED link
  BY DEF BootFromDisk, BootEnrollFails, BootEnrolls, BootEnrollLost, AP!BootFromDisk,
         AP!BootRejectsDisk, AP!BootEnrolls, AP!BootEnrollFails
<1>2. AnswerIsHeir'
  BY <1>1 DEF Held, AnswerIsHeir, link
<1>3. CASE proc' = "exit1"
  BY <1>2, <1>3 DEF Current, Confirmed, Rested, AP!Up
<1>4. CASE /\ proc' = "up" /\ mode' = "booting" /\ status' = "none"
           /\ lic' = disk' /\ disk' # NoLicense
  BY <1>2, <1>4 DEF Current, Confirmed, Rested, AP!Up
<1>5. QED
  <2>1. CASE BootFromDisk
    BY <1>3, <1>4, <2>1 DEF BootFromDisk, AP!BootFromDisk, AP!BootRejectsDisk, AP!Booted,
                            AP!BootFailed
  <2>2. CASE BootEnrollFails
    BY <1>3, <2>2 DEF BootEnrollFails, AP!BootEnrollFails, AP!BootFailed
  <2>3. ASSUME NEW t \in InstallToken, NEW a \in AgentId, NEW j \in Jti, BootEnrolls(t, a, j)
        PROVE  Current'
    <3>1. now + LicenseTTL \in 0 .. MaxTime + LicenseTTL
      BY TTLAssumption, TimesAssumption DEF Offered
    <3>2. IssueLicense(j, a, fp, NoGrace, now) \in Offer
      BY <3>1 DEF Held, IssueLicense, Offer
    <3>3. AP!BootEnrolls(IssueLicense(j, a, fp, NoGrace, now))
      BY <2>3 DEF BootEnrolls
    <3>4. QED
      BY <1>4, <3>2, <3>3, OfferIsSomething DEF AP!BootEnrolls, AP!Booted
  <2>4. ASSUME NEW t \in InstallToken, NEW a \in AgentId, NEW j \in Jti,
               BootEnrollLost(t, a, j)
        PROVE  Current'
    BY <1>3, <2>4 DEF BootEnrollLost, AP!BootEnrollFails, AP!BootFailed
  <2>5. QED
    BY <2>1, <2>2, <2>3, <2>4

\* The process ends; only a request that is out can add to the abandoned ones.
LEMMA EndKeepsCurrent ==
    ASSUME Held, Current, ProcessEnds \/ ProcessCrashes
    PROVE  Current'
<1>1. /\ AP!Up /\ ~AP!Up' /\ HangUp /\ seen' = seen
      /\ UNCHANGED <<task, status, lic, disk>>
  BY DEF ProcessEnds, ProcessCrashes, AP!RunReturns, AP!FlushEnds, AP!Crash, AP!Up,
         AP!memory, serverVars
<1>2. AnswerIsHeir'
  BY <1>1 DEF HangUp, AnswerIsHeir
<1>3. ASSUME proc' = "exit0", status = "ok", task = "sleeping"
      PROVE  Unspent(disk)'
  <2>1. orphans' = orphans
    BY <1>1, <1>3 DEF HangUp, Held
  <2>2. Unspent(lic) /\ lic = disk
    BY <1>1, <1>3 DEF Current, Confirmed, Rested
  <2>3. QED
    BY <1>1, <2>1, <2>2 DEF Unspent
<1>4. QED
  BY <1>1, <1>2, <1>3 DEF Current, Confirmed, Rested

\* Every step of the system keeps what the agent may rely on.
LEMMA CurrentInductive ==
    ASSUME Held, Offered, Served!IInv, Current, [Next]_vars
    PROVE  Current'
<1>1. CASE Send
  BY <1>1 DEF Current, AnswerIsHeir, Confirmed, Rested, Unspent, Held, Send,
              AP!SendHeartbeat, AP!Up, serverVars
<1>2. CASE Refuse
  <2>1. /\ UNCHANGED <<seen, orphans, proc, mode, task, status, lic, disk>>
        /\ answer'.code # 200
    BY <1>2 DEF Refuse, serverVars, hostVars
  <2>2. QED
    BY <2>1 DEF Current, AnswerIsHeir, Confirmed, Rested, Unspent, AP!Up
<1>3. ASSUME UNCHANGED <<seen, root, orphans, wire, answer>>,
             UNCHANGED <<proc, mode, task, status, lic, disk>>
      PROVE  Current'
  BY <1>3 DEF Current, AnswerIsHeir, Confirmed, Rested, Unspent, AP!Up
<1>4. CASE HostChanges
  <2>1. CASE AP!RequestShutdown
    BY <1>3, <1>4, <2>1 DEF HostChanges, AP!RequestShutdown, serverVars, link
  <2>2. ASSUME NEW f, AP!FingerprintReplaced(f) PROVE Current'
    BY <1>3, <1>4, <2>2 DEF HostChanges, AP!FingerprintReplaced, AP!memory, serverVars, link
  <2>3. CASE AP!LicenseFileLost
    <3>1. /\ UNCHANGED <<seen, root, orphans, wire, answer, proc, mode, task, status, lic>>
          /\ ~AP!Up /\ disk' = NoLicense
      BY <1>4, <2>3 DEF HostChanges, AP!LicenseFileLost, AP!memory, serverVars, link
    <3>2. QED
      BY <3>1 DEF Current, AnswerIsHeir, Confirmed, Rested, Unspent, AP!Up
  <2>4. QED
    BY <1>4, <2>1, <2>2, <2>3 DEF HostChanges
<1>5. CASE ServerChanges
  <2>1. seen' = seen /\ root' = root
    BY <1>5 DEF ServerChanges, CP!MintInstallToken, CP!SubscriptionChanges,
                CP!RevokeToken, CP!RevokeAgent, CP!LiftRevocation, CP!tokenVars
  <2>2. QED
    BY <1>3, <1>5, <2>1 DEF ServerChanges, hostVars, link
<1>6. CASE Tick
  <2>1. /\ UNCHANGED <<seen, root, wire, answer, proc, mode, task, status, lic, disk>>
        /\ orphans' = {}
    BY <1>6 DEF Tick, AP!Tick, AP!memory, serverVars
  <2>2. QED
    BY <2>1 DEF Current, AnswerIsHeir, Confirmed, Rested, Unspent, AP!Up
<1>7. CASE UNCHANGED vars
  BY <1>3, <1>7 DEF vars, serverVars, hostVars, link
<1>8. QED
  BY <1>1, <1>2, <1>4, <1>5, <1>6, <1>7, ServeKeepsCurrent, OrphanKeepsCurrent,
     DeliverKeepsCurrent, LoseKeepsCurrent, BootKeepsCurrent, EndKeepsCurrent DEF Next

\* The agent may rely on it in every reachable state.
LEMMA CurrentHolds == Spec => []Current
<1>1. Init => Current
  BY DEF Init, CP!Init, AP!Init, Current, AnswerIsHeir, Confirmed, Rested, AP!Up
<1>2. Held /\ Offered /\ Served!IInv /\ Current /\ [Next]_vars => Current'
  BY CurrentInductive
<1>3. QED
  BY <1>1, <1>2, HeldHolds, OfferedHolds, ServedInvHolds, PTL DEF Spec

\* The agent has a request out exactly while its heartbeat task waits, and what
\* an answer brings is an heir of the licence that was presented.
THEOREM WireCorrect == Spec => []WireInv
<1>1. Held /\ Current => WireInv
  BY DEF Held, Current, AnswerIsHeir, WireInv
<1>2. QED
  BY <1>1, HeldHolds, CurrentHolds, PTL

\* Whatever answers are lost and however late abandoned requests arrive, an agent
\* that may place live orders can renew the licence it holds.
THEOREM RunningIsRenewable == Spec => []RunningHoldsLiveLicence
<1>1. Current => RunningHoldsLiveLicence
  BY DEF Current, Confirmed, Rested, Unspent, RunningHoldsLiveLicence
<1>2. QED
  BY <1>1, CurrentHolds, PTL

\* A clean stop between two heartbeats leaves a licence file that can be renewed.
THEOREM CleanStopIsSafe == Spec => []CleanStopLeavesLiveLicence
<1>1. Current => CleanStopLeavesLiveLicence
  BY DEF Current, Rested, Unspent, CleanStopLeavesLiveLicence
<1>2. QED
  BY <1>1, CurrentHolds, PTL

-----------------------------------------------------------------------------
(* Type correctness.                                                       *)

\* The host's variables keep their types in every step of the agent.
LEMMA HostTypesInductive ==
    ASSUME AP!TypeOK, [AP!Next]_(AP!agentVars)
    PROVE  AP!TypeOK'
<1> USE DEF AP!TypeOK, AP!Proc, AP!Mode, AP!Task, AP!Status
<1>1. Offer \subseteq AP!License
  BY TTLAssumption, TimesAssumption DEF Offer, AP!License, AP!NoGrace, NoGrace
<1>2. CASE AP!BootFromDisk
  BY <1>2 DEF AP!BootFromDisk, AP!Booted
<1>3. CASE AP!BootRejectsDisk \/ AP!BootEnrollFails
  BY <1>3 DEF AP!BootRejectsDisk, AP!BootEnrollFails, AP!BootFailed
<1>4. ASSUME NEW l \in Offer, AP!BootEnrolls(l)
      PROVE  AP!TypeOK'
  BY <1>1, <1>4 DEF AP!BootEnrolls, AP!Booted
<1>5. CASE AP!SendHeartbeat
  BY <1>5 DEF AP!SendHeartbeat
<1>6. ASSUME AP!Fatal
      PROVE  AP!TypeOK'
  BY <1>6 DEF AP!Fatal, AP!SetMode
<1>7. ASSUME NEW l \in Offer, AP!HeartbeatOk(l)
      PROVE  AP!TypeOK'
  <2>1. CASE AP!Rotate(l)
    BY <1>1, <2>1 DEF AP!Rotate, AP!SetMode
  <2>2. CASE AP!PersistFails
    BY <2>2 DEF AP!PersistFails
  <2>3. QED
    BY <1>6, <1>7, <2>1, <2>2 DEF AP!HeartbeatOk
<1>8. CASE AP!HeartbeatPastDue
  BY <1>8 DEF AP!HeartbeatPastDue, AP!SetMode
<1>9. CASE AP!HeartbeatFatal
  BY <1>6, <1>9 DEF AP!HeartbeatFatal
<1>10. CASE AP!HeartbeatRetry
  BY <1>10 DEF AP!HeartbeatRetry, AP!ModeAfterRetry
<1>11. CASE AP!FlushEnds \/ AP!RequestShutdown
  BY <1>11 DEF AP!FlushEnds, AP!RequestShutdown
<1>12. CASE AP!RunReturns
  BY <1>12 DEF AP!RunReturns, AP!FinalMode
<1>13. CASE AP!Crash \/ AP!LicenseFileLost \/ AP!Tick
  BY <1>13 DEF AP!Crash, AP!LicenseFileLost, AP!Tick, AP!memory
<1>14. ASSUME NEW f \in Fingerprint, AP!FingerprintReplaced(f)
       PROVE  AP!TypeOK'
  BY <1>14 DEF AP!FingerprintReplaced, AP!memory
<1>15. CASE UNCHANGED AP!agentVars
  BY <1>15 DEF AP!agentVars, AP!memory
<1>16. QED
  BY <1>2, <1>3, <1>4, <1>5, <1>7, <1>8, <1>9, <1>10, <1>11, <1>12, <1>13, <1>14,
     <1>15 DEF AP!Next, AP!Answered

\* What travels between host and control plane.
LinkTypes ==
    /\ wire \in {"idle", "sent", "answered"}
    /\ answer \in Answer
    /\ orphans \subseteq License

\* A refusal is one of the declared ones.
LEMMA VerdictTypes == CP!Verdict(lic, FALSE) \in {0, 200, 401, 402, 403, 409}
BY DEF CP!Verdict

\* Only what the control plane issued or answered is on the link.
LEMMA LinkTypesInductive ==
    ASSUME Held, Offered, Served!IInv, LinkTypes, [Next]_vars
    PROVE  LinkTypes'
<1>1. Offer \subseteq License
  BY TTLAssumption, TimesAssumption DEF Offer, License
<1>2. issued \subseteq License /\ now <= MaxTime
  BY <1>1, TimesAssumption DEF Offered
<1>3. ASSUME HangUp
      PROVE  LinkTypes'
  <2>1. wire = "sent" => lic \in License
    BY <1>2 DEF Held
  <2>2. QED
    BY <1>3, <2>1 DEF HangUp, LinkTypes, Answer, NoAnswer
<1>4. ASSUME wire' = wire, answer' = answer, orphans' \subseteq orphans
      PROVE  LinkTypes'
  BY <1>4 DEF LinkTypes
<1>5. CASE Send
  BY <1>5 DEF Send, LinkTypes
<1>6. ASSUME NEW j \in Jti, Serve(j)
      PROVE  LinkTypes'
  <2>1. lic \in issued
    BY <1>6 DEF Serve, Held
  <2>2. CP!Successor(lic, j) \in License
    BY <1>1, <1>2, <2>1, SuccessorOffered
  <2>3. QED
    BY <1>6, <2>2 DEF Serve, LinkTypes, Answer
<1>7. CASE Refuse
  <2>1. answer' \in Answer
    BY <1>7, VerdictTypes DEF Refuse, Answer
  <2>2. QED
    BY <1>7, <2>1 DEF Refuse, LinkTypes
<1>8. CASE Deliver \/ Lose \/ ProcessEnds \/ ProcessCrashes
  BY <1>3, <1>8 DEF Deliver, Lose, ProcessEnds, ProcessCrashes
<1>9. CASE BootFromDisk \/ BootEnrollFails \/ HostChanges \/ ServerChanges
  BY <1>4, <1>9 DEF BootFromDisk, BootEnrollFails, HostChanges, ServerChanges, link
<1>10. ASSUME NEW t \in InstallToken, NEW a \in AgentId, NEW j \in Jti,
              BootEnrolls(t, a, j) \/ BootEnrollLost(t, a, j)
       PROVE  LinkTypes'
  BY <1>4, <1>10 DEF BootEnrolls, BootEnrollLost, link
<1>11. ASSUME NEW l \in orphans, NEW j \in Jti, ServeOrphan(l, j)
       PROVE  LinkTypes'
  BY <1>4, <1>11 DEF ServeOrphan
<1>12. CASE Tick
  BY <1>4, <1>12 DEF Tick
<1>13. CASE UNCHANGED vars
  BY <1>4, <1>13 DEF vars, link
<1>14. QED
  BY <1>5, <1>6, <1>7, <1>8, <1>9, <1>10, <1>11, <1>12, <1>13 DEF Next

\* Every variable of the composition keeps its type.
THEOREM TypeCorrect == Spec => []TypeOK
<1>1. Init => AP!TypeOK /\ LinkTypes
  <2> SUFFICES ASSUME Init PROVE AP!TypeOK /\ LinkTypes
    OBVIOUS
  <2>1. shutdown \in BOOLEAN
    BY DEF Init, AP!Init
  <2>2. AP!TypeOK
    BY <2>1 DEF Init, AP!Init, AP!TypeOK, AP!Proc, AP!Mode, AP!Task, AP!Status
  <2>3. LinkTypes
    BY DEF Init, LinkTypes, Answer, NoAnswer
  <2>4. QED
    BY <2>2, <2>3
<1>2. Held /\ Offered /\ Served!IInv /\ AP!TypeOK /\ LinkTypes /\ [Next]_vars
         => AP!TypeOK' /\ LinkTypes'
  <2> SUFFICES ASSUME Held, Offered, Served!IInv, AP!TypeOK, LinkTypes, [Next]_vars
               PROVE  AP!TypeOK' /\ LinkTypes'
    OBVIOUS
  <2>1. AP!TypeOK'
    BY AgentStep, HostTypesInductive
  <2>2. LinkTypes'
    BY LinkTypesInductive
  <2>3. QED
    BY <2>1, <2>2
<1>3. Served!IInv /\ AP!TypeOK /\ LinkTypes => TypeOK
  <2> SUFFICES ASSUME Served!IInv, AP!TypeOK, LinkTypes PROVE TypeOK
    OBVIOUS
  <2>1. CP!TypeOK
    BY DEF Served!IInv, Served!TypeOK, CP!TypeOK, CP!Disposition, Served!Disposition,
           CP!InstallRow, Served!InstallRow, CP!AgentRow, Served!AgentRow,
           CP!License, Served!License, CP!NoGrace, Served!NoGrace
  <2>2. QED
    BY <2>1 DEF TypeOK, LinkTypes
<1>4. QED
  BY <1>1, <1>2, <1>3, HeldHolds, OfferedHolds, ServedInvHolds, PTL DEF Spec

-----------------------------------------------------------------------------
(* What holds of either side alone holds here.                             *)

\* What is proved of the agent alone.
Host == INSTANCE AgentProcess_proofs

\* The two instances of the agent in scope say the same.
LEMMA SameHost ==
    /\ AP!Init <=> Host!Init
    /\ [AP!Next]_(AP!agentVars) <=> [Host!Next]_(Host!agentVars)
<1> USE DEF AP!memory, Host!memory, AP!Up, Host!Up, AP!NoGrace, Host!NoGrace
<1>1. AP!Init <=> Host!Init
  BY DEF AP!Init, Host!Init
<1>2. /\ \A l : AP!Verifies(l) <=> Host!Verifies(l)
      /\ \A l : AP!GraceOver(l) <=> Host!GraceOver(l)
      /\ \A m : AP!SetMode(m) <=> Host!SetMode(m)
  BY DEF AP!Verifies, Host!Verifies, AP!Unexpired, Host!Unexpired, AP!GraceOver,
         Host!GraceOver, AP!SetMode, Host!SetMode, AP!Terminal, Host!Terminal
<1>3. (AP!BootFailed <=> Host!BootFailed) /\ \A l : AP!Booted(l) <=> Host!Booted(l)
  BY DEF AP!BootFailed, Host!BootFailed, AP!Booted, Host!Booted
<1>4. /\ AP!BootFromDisk <=> Host!BootFromDisk
      /\ AP!BootRejectsDisk <=> Host!BootRejectsDisk
      /\ \A l : AP!BootEnrolls(l) <=> Host!BootEnrolls(l)
      /\ AP!BootEnrollFails <=> Host!BootEnrollFails
  BY <1>2, <1>3 DEF AP!BootFromDisk, Host!BootFromDisk, AP!BootRejectsDisk,
         Host!BootRejectsDisk, AP!BootEnrolls, Host!BootEnrolls, AP!BootEnrollFails,
         Host!BootEnrollFails
<1>5. /\ AP!Fatal <=> Host!Fatal
      /\ \A l : AP!Rotate(l) <=> Host!Rotate(l)
      /\ AP!PersistFails <=> Host!PersistFails
  BY <1>2 DEF AP!Fatal, Host!Fatal, AP!Rotate, Host!Rotate, AP!PersistFails,
              Host!PersistFails
<1>6. AP!ModeAfterRetry = Host!ModeAfterRetry
  BY <1>2 DEF AP!ModeAfterRetry, Host!ModeAfterRetry
<1>7. AP!Answered <=> Host!Answered
  <2>1. \A l : AP!HeartbeatOk(l) <=> Host!HeartbeatOk(l)
    BY <1>2, <1>5 DEF AP!HeartbeatOk, Host!HeartbeatOk
  <2>2. /\ AP!HeartbeatPastDue <=> Host!HeartbeatPastDue
        /\ AP!HeartbeatFatal <=> Host!HeartbeatFatal
        /\ AP!HeartbeatRetry <=> Host!HeartbeatRetry
    BY <1>2, <1>5, <1>6 DEF AP!HeartbeatPastDue, Host!HeartbeatPastDue,
           AP!HeartbeatFatal, Host!HeartbeatFatal, AP!HeartbeatRetry, Host!HeartbeatRetry
  <2>3. QED
    BY <2>1, <2>2 DEF AP!Answered, Host!Answered
<1>8. /\ AP!SendHeartbeat <=> Host!SendHeartbeat
      /\ AP!FlushEnds <=> Host!FlushEnds
      /\ AP!RequestShutdown <=> Host!RequestShutdown
      /\ AP!RunReturns <=> Host!RunReturns
  BY DEF AP!SendHeartbeat, Host!SendHeartbeat, AP!FlushEnds, Host!FlushEnds,
         AP!RequestShutdown, Host!RequestShutdown, AP!RunReturns, Host!RunReturns,
         AP!FinalMode, Host!FinalMode, AP!Terminal, Host!Terminal
<1>9. /\ AP!Crash <=> Host!Crash
      /\ \A f : AP!FingerprintReplaced(f) <=> Host!FingerprintReplaced(f)
      /\ AP!LicenseFileLost <=> Host!LicenseFileLost
      /\ AP!Tick <=> Host!Tick
  BY DEF AP!Crash, Host!Crash, AP!FingerprintReplaced, Host!FingerprintReplaced,
         AP!LicenseFileLost, Host!LicenseFileLost, AP!Tick, Host!Tick
<1>10. AP!Next <=> Host!Next
  BY <1>4, <1>7, <1>8, <1>9 DEF AP!Next, Host!Next
<1>11. (UNCHANGED AP!agentVars) <=> (UNCHANGED Host!agentVars)
  BY DEF AP!agentVars, Host!agentVars
<1>12. QED
  BY <1>1, <1>10, <1>11

\* ... so the agent's invariant is available here.
LEMMA HostInvHolds == Spec => []Host!IInv
<1> USE TimesAssumption, NobodyAssumption, TTLAssumption, LeewayAssumption
<1>1. Offer \subseteq Host!License
  BY DEF Offer, Host!License, Host!NoGrace, NoGrace
<1>2. NoLicense \notin Host!License
  BY DEF License, Host!License, Host!NoGrace, NoGrace
<1>3. Init => Host!IInv
  BY <1>1, <1>2, Host!InitInv, SameHost DEF Init
<1>4. Host!IInv /\ Held /\ Offered /\ [Next]_vars => Host!IInv'
  BY <1>1, <1>2, Host!InvInductive, AgentStep, SameHost
<1>5. QED
  BY <1>3, <1>4, HeldHolds, OfferedHolds, PTL DEF Spec

\* The agent keeps its promises in the composition: its memory is its file, exit
\* codes tell modes, live orders are confirmed, restrictions have their cause.
THEOREM AgentKeepsPromises ==
    Spec => [](/\ AP!MemoryMatchesDisk /\ AP!ExitCodeTellsMode
               /\ AP!LiveNeedsConfirmation /\ AP!RestrictedForCause)
<1> DEFINE Promises == /\ AP!MemoryMatchesDisk /\ AP!ExitCodeTellsMode
                       /\ AP!LiveNeedsConfirmation /\ AP!RestrictedForCause
<1>1. Host!IInv => Promises
  BY DEF Host!IInv, AP!MemoryMatchesDisk, Host!MemoryMatchesDisk, AP!ExitCodeTellsMode,
         Host!ExitCodeTellsMode, AP!LiveNeedsConfirmation, Host!LiveNeedsConfirmation,
         AP!AllowsLiveTrading, Host!AllowsLiveTrading, AP!RestrictedForCause,
         Host!RestrictedForCause, AP!GraceOver, Host!GraceOver, AP!Up, Host!Up,
         AP!NoGrace, Host!NoGrace
<1>2. QED
  BY <1>1, HostInvHolds, PTL

\* The control plane keeps its promises in the composition: one row per host,
\* bounded deadlines, one live heir per install token, no renewal while barred.
THEOREM ControlPlaneKeepsPromises ==
    Spec => /\ [](CP!IdentityBinding /\ CP!GraceWithinWindow /\ CP!OneLiveHeir)
            /\ CP!BarredNotRenewed
<1> USE TokensAssumption, TimesAssumption, NobodyAssumption, TTLAssumption,
        LeewayAssumption DEF CP!AgentRow, Served!AgentRow, CP!NoGrace, Served!NoGrace
<1>1. Served!Spec => []Served!OneLiveHeir
  BY Served!NoCloning
<1>2. Served!Spec => Served!BarredNotRenewed
  BY Served!BarredStayBarred
<1>3. Spec => Served!Spec
  BY ControlPlaneInit, ControlPlaneStep, SameControlPlane, HeldHolds, PTL DEF Spec, Served!Spec
<1>4. Served!IInv => CP!IdentityBinding /\ CP!GraceWithinWindow
  BY DEF Served!IInv, CP!IdentityBinding, Served!IdentityBinding, CP!GraceWithinWindow,
         Served!GraceWithinWindow, CP!IssuedAt, Served!IssuedAt
<1>5. Served!OneLiveHeir => CP!OneLiveHeir
  <2>1. \A c : CP!LifeOf(c) = Served!LifeOf(c)
    BY DEF CP!LifeOf, Served!LifeOf, CP!Fresh, Served!Fresh, CP!Used, Served!Used
  <2>2. QED
    BY <2>1 DEF Served!OneLiveHeir, CP!OneLiveHeir, CP!Chain!OneLiveHeir,
                Served!Chain!OneLiveHeir, CP!Chain!Credential, Served!Chain!Credential,
                CP!Chain!RootOf, Served!Chain!RootOf
<1>6. Served!BarredNotRenewed => CP!BarredNotRenewed
  BY DEF Served!BarredNotRenewed, CP!BarredNotRenewed, CP!vars, Served!vars
<1>7. QED
  BY <1>1, <1>2, <1>3, <1>4, <1>5, <1>6, ServedInvHolds, PTL

-----------------------------------------------------------------------------
(* The hard stop.                                                          *)

\* A deadline is within the window of the licence that carries it.
LEMMA DeadlineInWindow ==
    ASSUME Held, Served!IInv, AP!Up, lic.grace # NoGrace,
           now >= CP!IssuedAt(lic) + GraceWindow
    PROVE  AP!GraceOver(lic)
<1>1. lic \in issued
  BY DEF Held
<1>2. lic.grace <= CP!IssuedAt(lic) + GraceWindow
  BY <1>1 DEF Served!IInv, Served!GraceWithinWindow, Served!IssuedAt, CP!IssuedAt,
              Served!NoGrace, NoGrace
<1>3. lic.grace \in Int /\ CP!IssuedAt(lic) \in Int /\ now \in Nat /\ GraceWindow \in Nat
  BY <1>1, TTLAssumption, TimesAssumption
     DEF Served!IInv, Served!TypeOK, Served!License, Served!NoGrace, CP!IssuedAt
<1>4. QED
  BY <1>2, <1>3 DEF AP!GraceOver, AP!NoGrace, NoGrace

\* What a heartbeat that heard nothing leaves of the mode.
LEMMA StoppedInTime ==
    ASSUME Held, Served!IInv, Host!IInv, Current, [Next]_vars, HeardNothing,
           now >= CP!IssuedAt(lic) + GraceWindow
    PROVE  mode' \notin {"running", "offline_grace"}
<1>1. AP!Up /\ task = "waiting" /\ task' \notin {"waiting", "failed"} /\ lic' = lic
  BY DEF HeardNothing
<1>2. Deliver \/ Lose
  BY <1>1 DEF Next, Send, Serve, Refuse, ServeOrphan, BootFromDisk, BootEnrolls,
         BootEnrollLost, BootEnrollFails, ProcessEnds, ProcessCrashes, HostChanges,
         ServerChanges, Tick, AP!SendHeartbeat, AP!BootFromDisk, AP!BootRejectsDisk,
         AP!BootEnrolls, AP!BootEnrollFails, AP!RunReturns, AP!FlushEnds, AP!Crash,
         AP!RequestShutdown, AP!LicenseFileLost, AP!FingerprintReplaced, AP!Tick,
         AP!memory, hostVars, vars
<1>3. CASE Deliver
  <2>1. ~(answer.code = 200 /\ AP!Rotate(answer.lic))
    <3>1. wire = "answered"
      BY <1>3 DEF Deliver
    <3>2. answer.code = 200 => answer.lic.jti # lic.jti
      BY <3>1 DEF Current, AnswerIsHeir, Unspent
    <3>3. QED
      BY <1>1, <3>2 DEF AP!Rotate
  <2>2. AP!HeartbeatPastDue \/ AP!Fatal
    BY <1>1, <1>3, <2>1 DEF Deliver, AP!HeartbeatOk, AP!PersistFails, AP!HeartbeatFatal
  <2>3. QED
    BY <2>2 DEF AP!HeartbeatPastDue, AP!Fatal, AP!SetMode, AP!Terminal
<1>4. CASE Lose
  <2>1. mode' = AP!ModeAfterRetry
    BY <1>4 DEF Lose, AP!HeartbeatRetry
  <2>2. mode \in {"running", "offline_grace"} => lic.grace # NoGrace
    BY <1>1 DEF Current, Confirmed, Host!IInv, Host!RestrictedForCause, Host!Up, AP!Up,
                Host!NoGrace, NoGrace
  <2>3. lic.grace # NoGrace => AP!GraceOver(lic)
    BY <1>1, DeadlineInWindow
  <2>4. QED
    BY <2>1, <2>2, <2>3 DEF AP!ModeAfterRetry, AP!NoGrace, NoGrace
<1>5. QED
  BY <1>2, <1>3, <1>4

\* The hard stop of ADR-003, for any window, any number of restarts and any losses.
THEOREM HardStopHolds == Spec => HardStop
<1>1. Held /\ Served!IInv /\ Host!IInv /\ Current /\ [Next]_vars
      => [HeardNothing /\ now >= CP!IssuedAt(lic) + GraceWindow
             => mode' \notin {"running", "offline_grace"}]_vars
  BY StoppedInTime
<1>2. QED
  BY <1>1, HeldHolds, ServedInvHolds, HostInvHolds, CurrentHolds, PTL DEF Spec, HardStop
=============================================================================
