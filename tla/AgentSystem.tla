----------------------------- MODULE AgentSystem -----------------------------
(***************************************************************************)
(* One host (AgentProcess) against its control plane (ControlPlane) over a *)
(* network that loses answers and lets abandoned requests arrive late.     *)
(*                                                                         *)
(* Both sides read one clock, so no heartbeat is refused for skew.  The    *)
(* agent ignores the config bundle of an answer (supervisor.py             *)
(* _on_heartbeat_success), so configuration versions never change here.    *)
(***************************************************************************)
EXTENDS Licenses

CONSTANTS InstallToken, InstallTTL, GraceWindow, SlideThreshold, MaxTime,
          MaxConfig, NoAgent, NoLicense

VARIABLES
    now,
    sub, install, agents, seen, revokedJti, revokedAgents, orgConfig, issued, root,
    proc, mode, task, shutdown, exitCode, status, lic, disk, fp,
    wire,     \* the agent's current request: idle, sent, or answered
    answer,   \* what the control plane answered to it
    orphans   \* licences in requests the agent gave up but the network did not

serverVars == <<sub, install, agents, seen, revokedJti, revokedAgents,
                orgConfig, issued, root>>
hostVars == <<proc, mode, task, shutdown, exitCode, status, lic, disk, fp>>
link == <<wire, answer, orphans>>
vars == <<now, serverVars, hostVars, link>>

CP == INSTANCE ControlPlane

\* Every licence the control plane can issue before the clock stops.
Offer == [jti : Jti, agent : AgentId, fp : Fingerprint,
          exp : 0..(MaxTime + LicenseTTL),
          grace : {NoGrace} \cup 0..(MaxTime + GraceWindow)]

AP == INSTANCE AgentProcess

ASSUME TokensAssumption == InstallToken # {} /\ InstallToken \cap Jti = {}
ASSUME TimesAssumption ==
    /\ InstallTTL \in Nat
    /\ GraceWindow \in Nat
    /\ SlideThreshold \in Nat
    /\ SlideThreshold < GraceWindow
    /\ MaxTime \in Nat
    /\ MaxConfig \in Nat
ASSUME NobodyAssumption ==
    /\ NoAgent \notin CP!AgentRow
    /\ NoLicense \notin License
    /\ Fingerprint # {}

NoAnswer == [code |-> 0, lic |-> NoLicense]
Answer == [code : {0, 200, 401, 402, 403, 409}, lic : License \cup {NoLicense}]

TypeOK ==
    /\ CP!TypeOK
    /\ AP!TypeOK
    /\ wire \in {"idle", "sent", "answered"}
    /\ answer \in Answer
    /\ orphans \subseteq License

Init ==
    /\ CP!Init
    /\ AP!Init
    /\ wire = "idle"
    /\ answer = NoAnswer
    /\ orphans = {}

-----------------------------------------------------------------------------
(* The link.                                                               *)

\* The client closes the connection: an unanswered request may still arrive,
\* an answer on its way is lost.
HangUp ==
    /\ wire' = "idle"
    /\ answer' = NoAnswer
    /\ orphans' = IF wire = "sent" THEN orphans \cup {lic} ELSE orphans

Send ==
    /\ AP!SendHeartbeat
    /\ wire' = "sent"
    /\ UNCHANGED <<serverVars, answer, orphans>>

\* Fault: the presented licence is not claimed.
Serve_NoClaim(j) ==
    /\ wire = "sent"
    /\ CP!Verdict(lic, FALSE) = 200
    /\ CP!Fresh(j)
    /\ CP!Issue(CP!Successor(lic, j), root[lic.jti])
    /\ wire' = "answered"
    /\ answer' = [code |-> 200, lic |-> CP!Successor(lic, j)]
    /\ UNCHANGED <<now, sub, install, agents, seen, revokedJti, revokedAgents,
                   orgConfig, hostVars, orphans>>

Serve(j) ==
    /\ wire = "sent"
    /\ CP!ServeHeartbeat(lic, FALSE, j)
    /\ wire' = "answered"
    /\ answer' = [code |-> 200, lic |-> CP!Successor(lic, j)]
    /\ UNCHANGED <<hostVars, orphans>>

Refuse ==
    /\ wire = "sent"
    /\ CP!Verdict(lic, FALSE) # 200
    /\ wire' = "answered"
    /\ answer' = [code |-> CP!Verdict(lic, FALSE), lic |-> NoLicense]
    /\ UNCHANGED <<now, serverVars, hostVars, orphans>>

\* A request whose sender has gone reaches the control plane after all.
ServeOrphan(l, j) ==
    /\ CP!ServeHeartbeat(l, FALSE, j)
    /\ orphans' = orphans \ {l}
    /\ UNCHANGED <<hostVars, wire, answer>>

\* Fault: the rotated licence is not verified.
Deliver_Unverified ==
    /\ wire = "answered"
    /\ \/ answer.code = 200 /\ AP!Up /\ task = "waiting" /\ AP!Rotate(answer.lic)
       \/ answer.code = 402 /\ AP!HeartbeatPastDue
       \/ answer.code \in {401, 403, 409} /\ AP!HeartbeatFatal
    /\ HangUp
    /\ UNCHANGED serverVars

Deliver ==
    /\ wire = "answered"
    /\ \/ answer.code = 200 /\ AP!HeartbeatOk(answer.lic)
       \/ answer.code = 402 /\ AP!HeartbeatPastDue
       \/ answer.code \in {401, 403, 409} /\ AP!HeartbeatFatal
    /\ HangUp
    /\ UNCHANGED serverVars

\* The request or its answer is lost or late, or the answer is 429 or 5xx.
Lose ==
    /\ AP!HeartbeatRetry
    /\ HangUp
    /\ UNCHANGED serverVars

-----------------------------------------------------------------------------
(* The host.                                                               *)

BootFromDisk ==
    /\ AP!BootFromDisk \/ AP!BootRejectsDisk
    /\ UNCHANGED <<serverVars, link>>

\* The synchronous first-boot call, its answer received ...
BootEnrolls(t, a, j) ==
    /\ CP!Enroll(t, fp, a, j)
    /\ AP!BootEnrolls(IssueLicense(j, a, fp, NoGrace, now))
    /\ UNCHANGED link

\* ... or lost after the control plane committed, or not saved ...
BootEnrollLost(t, a, j) ==
    /\ CP!Enroll(t, fp, a, j)
    /\ AP!BootEnrollFails
    /\ UNCHANGED link

\* ... or refused, or never made.
BootEnrollFails ==
    /\ AP!BootEnrollFails
    /\ UNCHANGED <<serverVars, link>>

\* The process ends; a request it was waiting for is abandoned.
ProcessEnds ==
    /\ AP!RunReturns \/ AP!FlushEnds
    /\ HangUp
    /\ UNCHANGED serverVars

ProcessCrashes ==
    /\ AP!Crash
    /\ HangUp
    /\ UNCHANGED serverVars

HostChanges ==
    /\ \/ AP!RequestShutdown
       \/ AP!LicenseFileLost
       \/ \E f \in Fingerprint : AP!FingerprintReplaced(f)
    /\ UNCHANGED <<serverVars, link>>

-----------------------------------------------------------------------------
(* Everyone else.                                                          *)

\* The dashboard, the billing side and the operators.
ServerChanges ==
    /\ \/ \E t \in InstallToken : CP!MintInstallToken(t)
       \/ \E s \in CP!Disposition : CP!SubscriptionChanges(s)
       \/ \E j \in Jti : CP!Used(j) /\ CP!RevokeToken(j)
       \/ \E a \in AgentId : CP!RevokeAgent(a)
       \/ \E a \in AgentId, j \in Jti : CP!LiftRevocation(a, j)
    /\ UNCHANGED <<hostVars, link>>

\* A tick outlives every request on the network.
Tick ==
    /\ AP!Tick
    /\ orphans' = {}
    /\ UNCHANGED <<serverVars, wire, answer>>

Next ==
    \/ Send
    \/ \E j \in Jti : Serve(j)
    \/ Refuse
    \/ \E l \in orphans, j \in Jti : ServeOrphan(l, j)
    \/ Deliver
    \/ Lose
    \/ BootFromDisk
    \/ \E t \in InstallToken, a \in AgentId, j \in Jti : BootEnrolls(t, a, j)
    \/ \E t \in InstallToken, a \in AgentId, j \in Jti : BootEnrollLost(t, a, j)
    \/ BootEnrollFails
    \/ ProcessEnds
    \/ ProcessCrashes
    \/ HostChanges
    \/ ServerChanges
    \/ Tick

Spec == Init /\ [][Next]_vars

\* The agent's event loop runs (AgentProcess) and the control plane handles a
\* request it has received.  No answer need ever get through: a request is
\* answered or timed out, and which of the two is not promised.
Fairness ==
    /\ WF_vars(Send)
    /\ WF_vars(Refuse \/ \E j \in Jti : Serve(j))
    /\ WF_vars(Deliver \/ Lose)
    /\ WF_vars(ProcessEnds)

FairSpec == Spec /\ Fairness

-----------------------------------------------------------------------------
(* Properties.                                                             *)

\* The host's part of the system is an AgentProcess, and the control plane's
\* part is a ControlPlane: what holds of either alone holds here.
ImplementsAgent == AP!Spec
ImplementsControlPlane == CP!Spec

\* The agent has a request out exactly while its heartbeat task waits, and the
\* licence an answer brings descends from the one the agent presented.
WireInv ==
    /\ (wire # "idle") <=> (AP!Up /\ task = "waiting")
    /\ wire = "answered" /\ answer.code = 200 =>
          /\ answer.lic \in issued
          /\ lic.jti \in seen
          /\ root[answer.lic.jti] = root[lic.jti]

\* An agent that may place live orders holds a licence it can still renew,
\* whatever answers were lost and whatever abandoned requests arrive late.
RunningHoldsLiveLicence ==
    AP!Up /\ mode = "running" /\ task = "sleeping" => lic.jti \notin seen

\* Stopping between two heartbeats is safe: the licence file a clean stop leaves
\* behind is one the next boot can renew.
CleanStopLeavesLiveLicence ==
    proc = "exit0" /\ status = "ok" /\ task = "sleeping" /\ disk # NoLicense
        => disk.jti \notin seen

\* A heartbeat ends, its handler too, without a new licence.
HeardNothing ==
    AP!Up /\ task = "waiting" /\ task' \notin {"waiting", "failed"} /\ lic' = lic

\* The hard stop of ADR-003: whatever is lost on either way and whenever the agent
\* restarts, GraceWindow after the control plane last issued to it a heartbeat that
\* brings no new licence leaves it neither RUNNING nor in OFFLINE_GRACE.
HardStop ==
    [][HeardNothing /\ now >= CP!IssuedAt(lic) + GraceWindow
            => mode' \notin {"running", "offline_grace"}]_vars

\* Cancellation takes effect without the network's help: an agent with live
\* orders allowed leaves that mode while its organisation stays canceled, even
\* if every answer is lost.
CancellationBites ==
    (sub = "canceled" /\ AP!Up /\ AP!AllowsLiveTrading(mode))
        ~> (sub # "canceled" \/ ~AP!Up \/ ~AP!AllowsLiveTrading(mode))

BecomesRevoked == mode # "revoked" /\ mode' = "revoked" /\ UNCHANGED lic

\* supervisor.py:40, "* -> REVOKED on 403 or 409", and ADR-003:100, where 401
\* means "Token invalid, expired, signature failure" and is retried: a licence
\* that has not expired does not get its agent revoked by a 401.
UnexpiredLicenceIsNotRevoked ==
    [][BecomesRevoked /\ answer.code = 401 => ~Unexpired(lic, now)]_vars
=============================================================================
