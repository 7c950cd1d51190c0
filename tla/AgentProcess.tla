---------------------------- MODULE AgentProcess ----------------------------
(***************************************************************************)
(* One customer host running proxialpha_agent: the process life cycle of   *)
(* __main__.run_agent, the supervisor's mode machine (supervisor.py,       *)
(* modes.py), the heartbeat task (heartbeat.py) and the licence and        *)
(* fingerprint files (license.py).                                         *)
(*                                                                         *)
(* The environment is free: an enrolment or a heartbeat may get any answer *)
(* the wire can carry.  AgentSystem puts the control plane in its place.   *)
(***************************************************************************)
EXTENDS Licenses

CONSTANTS
    Offer,       \* licences an answer may carry
    MaxTime,     \* bound: the clock stops here
    NoLicense    \* self._license is None; no licence file

ASSUME OfferAssumption == Offer \subseteq License /\ NoLicense \notin License
ASSUME HorizonAssumption == MaxTime \in Nat
ASSUME HostAssumption == Fingerprint # {}

VARIABLES
    now,       \* the host's clock
    proc,      \* the process: up, or how it ended last
    mode,      \* Supervisor._mode
    task,      \* where the heartbeat task stands
    shutdown,  \* _shutdown_event.is_set()
    exitCode,  \* _exit_code, None counting as 0
    status,    \* last_heartbeat_status on /health, without its detail
    lic,       \* Supervisor._license
    disk,      \* the licence file
    fp         \* the fingerprint file

memory == <<mode, task, shutdown, exitCode, status, lic>>
agentVars == <<now, proc, memory, disk, fp>>

Proc == {"off", "up", "exit0", "exit1", "killed"}
Mode == {"booting", "running", "offline_grace", "degraded", "revoked", "stopped"}
Task == {"sleeping", "waiting", "flushing", "ended", "failed"}
Status == {"none", "ok", "retryable", "past_due", "fatal"}

TypeOK ==
    /\ now \in Nat
    /\ proc \in Proc
    /\ mode \in Mode
    /\ task \in Task
    /\ shutdown \in BOOLEAN
    /\ exitCode \in {0, 1}
    /\ status \in Status
    /\ lic \in License \cup {NoLicense}
    /\ disk \in License \cup {NoLicense}
    /\ fp \in Fingerprint

Init ==
    /\ now = 0
    /\ proc = "off"
    /\ mode = "booting"
    /\ task = "sleeping"
    /\ shutdown = FALSE
    /\ exitCode = 0
    /\ status = "none"
    /\ lic = NoLicense
    /\ disk = NoLicense
    /\ fp \in Fingerprint

-----------------------------------------------------------------------------
(* Helpers.                                                                *)

Up == proc = "up"

\* LicenseClient.verify: expiry and fingerprint binding.
Verifies(l) == Unexpired(l, now) /\ l.fp = fp

\* Mode.is_terminal.
Terminal(m) == m \in {"revoked", "stopped"}

\* Mode.allows_live_trading.
AllowsLiveTrading(m) == m = "running"

\* Fault: the None test is inverted.
GraceOver_Inverted(l) == l.grace = NoGrace /\ now >= l.grace

\* Fault: the deadline itself still counts as grace.
GraceOver_Late(l) == l.grace # NoGrace /\ now > l.grace

\* The deadline test of _on_heartbeat_retryable.
GraceOver(l) == l.grace # NoGrace /\ now >= l.grace

\* _set_mode as a function: terminal modes are never left.
SetMode(m) == mode' = IF Terminal(mode) THEN mode ELSE m

-----------------------------------------------------------------------------
(* Boot.                                                                   *)

\* A fresh Supervisor, health server up, heartbeat task created.
Booted(l) ==
    /\ proc' = "up"
    /\ mode' = "booting"
    /\ task' = "sleeping"
    /\ shutdown' = FALSE
    /\ exitCode' = 0
    /\ status' = "none"
    /\ lic' = l
    /\ UNCHANGED <<now, fp>>

\* boot() raised: run_agent returns 1.
BootFailed ==
    /\ proc' = "exit1"
    /\ mode' = "booting"
    /\ UNCHANGED <<now, task, shutdown, exitCode, status, lic, disk, fp>>

BootFromDisk ==
    /\ ~Up
    /\ disk # NoLicense
    /\ Verifies(disk)
    /\ Booted(disk)
    /\ UNCHANGED disk

\* Only a missing file falls back to enrolment.
BootRejectsDisk ==
    /\ ~Up
    /\ disk # NoLicense
    /\ ~Verifies(disk)
    /\ BootFailed

\* enroll() answered 200: verify, then persist.
BootEnrolls(l) ==
    /\ ~Up
    /\ disk = NoLicense
    /\ Verifies(l)
    /\ Booted(l)
    /\ disk' = l

\* No install token, no network, a refusal, a licence that does not verify,
\* or a disk that cannot be written.
BootEnrollFails ==
    /\ ~Up
    /\ disk = NoLicense
    /\ BootFailed

-----------------------------------------------------------------------------
(* Heartbeat.                                                              *)

\* _tick reads the current token and awaits the POST.
SendHeartbeat ==
    /\ Up
    /\ task = "sleeping"
    /\ task' = "waiting"
    /\ UNCHANGED <<now, proc, mode, shutdown, exitCode, status, lic, disk, fp>>

\* Fault: the exit code is left to be set after the flush.
Fatal_ExitCodeLate ==
    /\ SetMode("revoked")
    /\ status' = "fatal"
    /\ task' = "flushing"
    /\ UNCHANGED <<now, proc, shutdown, exitCode, lic, disk, fp>>

\* Fault: the loop is not stopped, and nobody else ends the process.
Fatal_LoopContinues ==
    /\ SetMode("revoked")
    /\ exitCode' = 1
    /\ status' = "fatal"
    /\ task' = "sleeping"
    /\ UNCHANGED <<now, proc, shutdown, lic, disk, fp>>

\* _fatal up to its await: REVOKED, exit code 1, then the flush sleep.
Fatal ==
    /\ SetMode("revoked")
    /\ exitCode' = 1
    /\ status' = "fatal"
    /\ task' = "flushing"
    /\ UNCHANGED <<now, proc, shutdown, lic, disk, fp>>

\* Fault: the rotated licence is kept in memory only.
Rotate_NoPersist(l) ==
    /\ lic' = l
    /\ SetMode("running")
    /\ status' = "ok"
    /\ task' = "sleeping"
    /\ UNCHANGED <<now, proc, shutdown, exitCode, disk, fp>>

\* persist, adopt, and become RUNNING.
Rotate(l) ==
    /\ disk' = l
    /\ lic' = l
    /\ SetMode("running")
    /\ status' = "ok"
    /\ task' = "sleeping"
    /\ UNCHANGED <<now, proc, shutdown, exitCode, fp>>

\* persist raised OSError, which `except LicenseError` does not catch: the
\* callback, and with it the heartbeat task, dies.
PersistFails ==
    /\ task' = "failed"
    /\ UNCHANGED <<now, proc, mode, shutdown, exitCode, status, lic, disk, fp>>

\* 2xx carrying licence l.
HeartbeatOk(l) ==
    /\ Up
    /\ task = "waiting"
    /\ \/ ~Verifies(l) /\ Fatal
       \/ Verifies(l) /\ Rotate(l)
       \/ Verifies(l) /\ PersistFails

\* 402: DEGRADED, and _tick returns True, which ends the heartbeat loop.
HeartbeatPastDue ==
    /\ Up
    /\ task = "waiting"
    /\ SetMode("degraded")
    /\ status' = "past_due"
    /\ task' = "ended"
    /\ UNCHANGED <<now, proc, shutdown, exitCode, lic, disk, fp>>

\* 401, 403 or 409.
HeartbeatFatal ==
    /\ Up
    /\ task = "waiting"
    /\ Fatal

\* Fault: a retryable error leaves RUNNING alone.
ModeAfterRetry_StaysRunning ==
    IF mode = "offline_grace" /\ GraceOver(lic) THEN "degraded"
    ELSE IF mode = "booting" /\ lic.grace # NoGrace THEN "offline_grace"
    ELSE mode

\* Fault: the grace window is not consulted.
ModeAfterRetry_NoWindow ==
    IF mode \notin {"running", "offline_grace", "booting"} THEN mode ELSE "degraded"

ModeAfterRetry ==
    IF mode \notin {"running", "offline_grace", "booting"} \/ lic.grace = NoGrace
    THEN mode
    ELSE IF GraceOver(lic) THEN "degraded" ELSE "offline_grace"

\* Network error, timeout, 429, 5xx, or a 2xx without a usable body.
HeartbeatRetry ==
    /\ Up
    /\ task = "waiting"
    /\ mode' = ModeAfterRetry
    /\ status' = "retryable"
    /\ task' = "sleeping"
    /\ UNCHANGED <<now, proc, shutdown, exitCode, lic, disk, fp>>

-----------------------------------------------------------------------------
(* The end of the process.                                                 *)

\* After the flush _fatal sets the shutdown event and sys.exit(1) unwinds
\* the event loop.
FlushEnds ==
    /\ Up
    /\ task = "flushing"
    /\ shutdown' = TRUE
    /\ proc' = "exit1"
    /\ UNCHANGED <<now, mode, task, exitCode, status, lic, disk, fp>>

\* SIGTERM or SIGINT.
RequestShutdown ==
    /\ Up
    /\ ~shutdown
    /\ shutdown' = TRUE
    /\ UNCHANGED <<now, proc, mode, task, exitCode, status, lic, disk, fp>>

FinalMode == IF Terminal(mode) THEN mode ELSE "stopped"

\* Fault: run() waits for the heartbeat task only.
RunReturns_IgnoresShutdown ==
    /\ Up
    /\ task \in {"ended", "failed"}
    /\ mode' = FinalMode
    /\ proc' = IF exitCode = 1 THEN "exit1" ELSE "exit0"
    /\ UNCHANGED <<now, task, shutdown, exitCode, status, lic, disk, fp>>

\* asyncio.wait saw the shutdown event or the end of the heartbeat task: run()
\* cancels what is left and returns, and run_agent returns the exit code.
RunReturns ==
    /\ Up
    /\ shutdown \/ task \in {"ended", "failed"}
    /\ mode' = FinalMode
    /\ proc' = IF exitCode = 1 THEN "exit1" ELSE "exit0"
    /\ UNCHANGED <<now, task, shutdown, exitCode, status, lic, disk, fp>>

\* kill -9, power loss.
Crash ==
    /\ Up
    /\ proc' = "killed"
    /\ UNCHANGED <<now, memory, disk, fp>>

-----------------------------------------------------------------------------
(* The host and the clock.                                                 *)

\* The fingerprint file is lost or truncated; the next fingerprint() call
\* writes a new UUID.
FingerprintReplaced(f) ==
    /\ f # fp
    /\ fp' = f
    /\ UNCHANGED <<now, proc, memory, disk>>

\* The state directory is lost while the agent is down.
LicenseFileLost ==
    /\ ~Up
    /\ disk # NoLicense
    /\ disk' = NoLicense
    /\ UNCHANGED <<now, proc, memory, fp>>

\* A tick is longer than a request (30 s timeout) and than a flush (0.1 s).
Tick ==
    /\ now < MaxTime
    /\ Up => task \notin {"waiting", "flushing"}
    /\ now' = now + 1
    /\ UNCHANGED <<proc, memory, disk, fp>>

Answered ==
    \/ \E l \in Offer : HeartbeatOk(l)
    \/ HeartbeatPastDue
    \/ HeartbeatFatal
    \/ HeartbeatRetry

Next ==
    \/ BootFromDisk
    \/ BootRejectsDisk
    \/ \E l \in Offer : BootEnrolls(l)
    \/ BootEnrollFails
    \/ SendHeartbeat
    \/ Answered
    \/ FlushEnds
    \/ RequestShutdown
    \/ RunReturns
    \/ Crash
    \/ \E f \in Fingerprint : FingerprintReplaced(f)
    \/ LicenseFileLost
    \/ Tick

Spec == Init /\ [][Next]_agentVars

\* The event loop runs what is ready: the heartbeat task sends when its sleep
\* is over, every request is answered or times out after 30 s, the flush sleep
\* ends, run() resumes when a task it waits for is done.  Time is held up only
\* by requests and flushes, never for good.  Nothing restarts the agent.
Fairness ==
    /\ WF_agentVars(SendHeartbeat)
    /\ WF_agentVars(Answered)
    /\ WF_agentVars(FlushEnds)
    /\ WF_agentVars(RunReturns)
    /\ SF_agentVars(Tick)

FairSpec == Spec /\ Fairness

-----------------------------------------------------------------------------
(* Properties.                                                             *)

\* What the agent presents is what a restart would load: at no await does a
\* rotated licence exist in memory only (persist before adopt).
MemoryMatchesDisk == Up => lic = disk /\ lic # NoLicense

\* A process that ends by itself exits 0 exactly when it reached STOPPED and 1
\* when it was revoked, even if SIGTERM lands in the middle of the flush.
ExitCodeTellsMode ==
    /\ (proc = "exit0") <=> (mode = "stopped")
    /\ proc = "exit1" => mode \in {"revoked", "booting"}

\* Live orders need a confirmed licence: in RUNNING the last heartbeat was
\* answered 2xx (or the licence carries no deadline to fall back to).
LiveNeedsConfirmation ==
    Up /\ AllowsLiveTrading(mode) => status = "ok" \/ lic.grace = NoGrace

\* A restricted mode has a cause that still holds: DEGRADED means unpaid or out
\* of grace, OFFLINE_GRACE a failed heartbeat on a licence with a deadline.
RestrictedForCause ==
    Up =>
      /\ mode = "degraded" => status = "past_due" \/ GraceOver(lic)
      /\ mode = "offline_grace" => status = "retryable" /\ lic.grace # NoGrace

\* A shutdown request ends the process, whatever the heartbeat task is doing.
ShutdownHonoured == (Up /\ shutdown) ~> ~Up

\* A revoked agent exits.
RevokedExits == (Up /\ mode = "revoked") ~> ~Up

\* Offline grace ends: contact is restored, the deadline passes, or the
\* process goes.
OfflineGraceEnds ==
    (Up /\ mode = "offline_grace" /\ lic.grace <= MaxTime)
        ~> (~Up \/ mode # "offline_grace")
=============================================================================
