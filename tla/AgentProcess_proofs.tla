------------------------ MODULE AgentProcess_proofs ------------------------
(***************************************************************************)
(* Proofs about one agent process, for every clock, every set of licences  *)
(* the control plane may send and every number of restarts.                *)
(***************************************************************************)
EXTENDS AgentProcess, TLAPS

-----------------------------------------------------------------------------
(* Type correctness.                                                       *)

\* The types hold initially.
LEMMA InitTypeOK == Init => TypeOK
<1> SUFFICES ASSUME Init
             PROVE  TypeOK
    OBVIOUS
<1>1. shutdown \in BOOLEAN
  BY DEF Init
<1>2. /\ proc \in Proc
      /\ mode \in Mode
      /\ task \in Task
      /\ status \in Status
  BY DEF Init, Proc, Mode, Task, Status
<1>3. /\ now \in Nat
      /\ exitCode \in {0, 1}
      /\ lic \in License \cup {NoLicense}
      /\ disk \in License \cup {NoLicense}
      /\ fp \in Fingerprint
  BY DEF Init
<1>4. QED
  BY <1>1, <1>2, <1>3 DEF TypeOK

\* Every action keeps the types.
LEMMA TypeInductive == TypeOK /\ [Next]_agentVars => TypeOK'
<1> SUFFICES ASSUME TypeOK, [Next]_agentVars
             PROVE  TypeOK'
    OBVIOUS
<1> USE DEF TypeOK, Proc, Mode, Task, Status
<1>1. CASE BootFromDisk
  BY <1>1 DEF BootFromDisk, Booted
<1>2. CASE BootRejectsDisk \/ BootEnrollFails
  BY <1>2 DEF BootRejectsDisk, BootEnrollFails, BootFailed
<1>3. ASSUME NEW l \in Offer, BootEnrolls(l)
      PROVE  TypeOK'
  BY <1>3, OfferAssumption DEF BootEnrolls, Booted
<1>4. CASE SendHeartbeat
  BY <1>4 DEF SendHeartbeat
<1>5. ASSUME Fatal
      PROVE  TypeOK'
  BY <1>5 DEF Fatal, SetMode
<1>6. ASSUME NEW l \in Offer, HeartbeatOk(l)
      PROVE  TypeOK'
  <2>1. CASE Rotate(l)
    BY <2>1, OfferAssumption DEF Rotate, SetMode
  <2>2. CASE PersistFails
    BY <2>2 DEF PersistFails
  <2>3. QED
    BY <1>5, <1>6, <2>1, <2>2 DEF HeartbeatOk
<1>7. CASE HeartbeatPastDue
  BY <1>7 DEF HeartbeatPastDue, SetMode
<1>8. CASE HeartbeatFatal
  BY <1>5, <1>8 DEF HeartbeatFatal
<1>9. CASE HeartbeatRetry
  BY <1>9 DEF HeartbeatRetry, ModeAfterRetry
<1>10. CASE FlushEnds \/ RequestShutdown
  BY <1>10 DEF FlushEnds, RequestShutdown
<1>11. CASE RunReturns
  BY <1>11 DEF RunReturns, FinalMode
<1>12. CASE Crash
  BY <1>12 DEF Crash, memory
<1>13. ASSUME NEW f \in Fingerprint, FingerprintReplaced(f)
       PROVE  TypeOK'
  BY <1>13 DEF FingerprintReplaced, memory
<1>14. CASE LicenseFileLost
  BY <1>14 DEF LicenseFileLost, memory
<1>15. CASE Tick
  BY <1>15 DEF Tick, memory
<1>16. CASE UNCHANGED agentVars
  BY <1>16 DEF agentVars, memory
<1>17. QED
  BY <1>1, <1>2, <1>3, <1>4, <1>6, <1>7, <1>8, <1>9, <1>10, <1>11, <1>12, <1>13,
     <1>14, <1>15, <1>16 DEF Next, Answered

\* Every variable keeps its type.
THEOREM TypeCorrect == Spec => []TypeOK
BY InitTypeOK, TypeInductive, PTL DEF Spec

-----------------------------------------------------------------------------
(* The inductive invariant.                                                *)

\* While a process lives it is in exactly one of three situations: working,
\* with exit code 0; told by a 402 to end, DEGRADED; or on its way out, REVOKED
\* with exit code 1.  A process never lingers in STOPPED, and none sends again
\* after a 402.
Situation ==
    Up => \/ /\ mode \in {"booting", "running", "offline_grace", "degraded"}
             /\ task # "flushing"
             /\ exitCode = 0
             /\ status = "past_due" => task = "ended"
          \/ /\ mode = "revoked"
             /\ task = "flushing"
             /\ exitCode = 1

IInv ==
    /\ TypeOK
    /\ Situation
    /\ MemoryMatchesDisk
    /\ ExitCodeTellsMode
    /\ LiveNeedsConfirmation
    /\ RestrictedForCause

\* What _fatal leaves behind.
LEMMA FatalKeepsInv ==
    ASSUME IInv, Up, task = "waiting", Fatal
    PROVE  IInv'
<1>1. TypeOK'
  BY DEF IInv, TypeOK, Fatal, SetMode, Mode, Task, Status, Proc
<1>2. mode' = "revoked" /\ Up' /\ lic' = lic /\ disk' = disk
  BY DEF IInv, Situation, Fatal, SetMode, Terminal, Up
<1>3. Situation'
  BY <1>2 DEF Situation, Fatal
<1>4. MemoryMatchesDisk' /\ ExitCodeTellsMode'
  BY <1>2 DEF IInv, MemoryMatchesDisk, ExitCodeTellsMode, Up
<1>5. LiveNeedsConfirmation' /\ RestrictedForCause'
  BY <1>2 DEF LiveNeedsConfirmation, RestrictedForCause, AllowsLiveTrading
<1>6. QED
  BY <1>1, <1>3, <1>4, <1>5 DEF IInv

\* An accepted heartbeat whose licence was written to the file.
LEMMA RotateKeepsInv ==
    ASSUME IInv, Up, task = "waiting", NEW l \in Offer, Rotate(l)
    PROVE  IInv'
<1>1. TypeOK' /\ l # NoLicense
  BY OfferAssumption DEF IInv, TypeOK, Rotate, SetMode, Mode, Task, Status, Proc
<1>2. mode' = "running" /\ Up' /\ exitCode = 0
  BY DEF IInv, Situation, Rotate, SetMode, Terminal, Up
<1>3. Situation'
  BY <1>2 DEF Situation, Rotate
<1>4. MemoryMatchesDisk' /\ ExitCodeTellsMode'
  BY <1>1, <1>2 DEF MemoryMatchesDisk, ExitCodeTellsMode, Rotate, Up
<1>5. LiveNeedsConfirmation' /\ RestrictedForCause'
  BY <1>2 DEF LiveNeedsConfirmation, RestrictedForCause, Rotate
<1>6. QED
  BY <1>1, <1>3, <1>4, <1>5 DEF IInv

\* A transport failure or a 5xx.
LEMMA RetryKeepsInv ==
    ASSUME IInv, HeartbeatRetry
    PROVE  IInv'
<1>1. TypeOK'
  BY TypeInductive DEF IInv, Next, Answered
<1>2. /\ Up /\ Up' /\ mode' = ModeAfterRetry /\ status' = "retryable"
      /\ task' = "sleeping" /\ UNCHANGED <<now, lic, disk, exitCode>>
      /\ exitCode = 0
      /\ mode \in {"booting", "running", "offline_grace", "degraded"}
  BY DEF HeartbeatRetry, IInv, Situation, Up
<1>3. mode' \in {"booting", "running", "offline_grace", "degraded"}
  BY <1>2 DEF ModeAfterRetry
<1>4. Situation'
  BY <1>2, <1>3 DEF Situation
<1>5. MemoryMatchesDisk' /\ ExitCodeTellsMode'
  BY <1>2, <1>3 DEF IInv, MemoryMatchesDisk, ExitCodeTellsMode, Up
<1>6. LiveNeedsConfirmation'
  BY <1>2 DEF LiveNeedsConfirmation, AllowsLiveTrading, ModeAfterRetry
<1>7. RestrictedForCause'
  <2>1. CASE mode = "degraded"
    <3>1. GraceOver(lic)' <=> GraceOver(lic)
      BY <1>2 DEF GraceOver
    <3>2. mode' = "degraded"
      BY <1>2, <2>1 DEF ModeAfterRetry
    <3>3. status # "past_due"
      BY <1>2, <2>1 DEF IInv, Situation, HeartbeatRetry
    <3>4. QED
      BY <1>2, <2>1, <3>1, <3>2, <3>3 DEF IInv, RestrictedForCause
  <2>2. CASE mode # "degraded"
    BY <1>2, <2>2 DEF IInv, RestrictedForCause, ModeAfterRetry, GraceOver
  <2>3. QED
    BY <2>1, <2>2
<1>8. QED
  BY <1>1, <1>4, <1>5, <1>6, <1>7 DEF IInv

\* Every action of the agent keeps the invariant.
LEMMA InvInductive == IInv /\ [Next]_agentVars => IInv'
<1> SUFFICES ASSUME IInv, [Next]_agentVars
             PROVE  IInv'
    OBVIOUS
<1> DEFINE Rest == /\ Situation /\ MemoryMatchesDisk /\ ExitCodeTellsMode
                   /\ LiveNeedsConfirmation /\ RestrictedForCause
<1>1. TypeOK'
  BY TypeInductive DEF IInv
<1> USE DEF IInv, Situation, MemoryMatchesDisk, ExitCodeTellsMode,
            LiveNeedsConfirmation, RestrictedForCause, Up, AllowsLiveTrading
<1>2. ASSUME NEW l \in License, Booted(l), disk' = l
      PROVE  Rest'
  BY <1>2, OfferAssumption DEF Booted
<1>3. ASSUME BootFailed
      PROVE  Rest'
  BY <1>3 DEF BootFailed
<1>4. ASSUME SendHeartbeat
      PROVE  Rest'
  BY <1>1, <1>4 DEF SendHeartbeat, GraceOver
<1>5. ASSUME NEW l \in Offer, HeartbeatOk(l)
      PROVE  Rest'
  <2>1. CASE PersistFails
    BY <1>5, <2>1 DEF HeartbeatOk, PersistFails, GraceOver
  <2>2. QED
    BY <1>5, <2>1, FatalKeepsInv, RotateKeepsInv DEF HeartbeatOk
<1>6. ASSUME HeartbeatPastDue
      PROVE  Rest'
  BY <1>6 DEF HeartbeatPastDue, SetMode, Terminal
<1>7. ASSUME FlushEnds
      PROVE  Rest'
  BY <1>7 DEF FlushEnds
<1>8. ASSUME RequestShutdown
      PROVE  Rest'
  BY <1>8 DEF RequestShutdown, GraceOver
<1>9. ASSUME RunReturns
      PROVE  Rest'
  BY <1>9 DEF RunReturns, FinalMode, Terminal
<1>10. ASSUME Crash
      PROVE  Rest'
  BY <1>10 DEF Crash, memory
<1>11. ASSUME NEW f \in Fingerprint, FingerprintReplaced(f)
       PROVE  Rest'
  BY <1>11 DEF FingerprintReplaced, memory, GraceOver
<1>12. ASSUME LicenseFileLost
      PROVE  Rest'
  BY <1>12 DEF LicenseFileLost, memory
<1>13. ASSUME Tick
      PROVE  Rest'
  BY <1>13 DEF Tick, memory, GraceOver, TypeOK, License
<1>14. ASSUME UNCHANGED agentVars
      PROVE  Rest'
  BY <1>14 DEF agentVars, memory, GraceOver
<1>15. ASSUME BootFromDisk
      PROVE  Rest'
  BY <1>2, <1>15 DEF BootFromDisk, TypeOK
<1>16. ASSUME NEW l \in Offer, BootEnrolls(l)
       PROVE  Rest'
  BY <1>2, <1>16, OfferAssumption DEF BootEnrolls
<1>17. ASSUME BootRejectsDisk \/ BootEnrollFails
      PROVE  Rest'
  BY <1>3, <1>17 DEF BootRejectsDisk, BootEnrollFails
<1>18. ASSUME HeartbeatFatal \/ HeartbeatRetry
      PROVE  Rest'
  BY <1>18, FatalKeepsInv, RetryKeepsInv DEF HeartbeatFatal
<1>19. Rest'
  BY <1>4, <1>5, <1>6, <1>7, <1>8, <1>9, <1>10, <1>11, <1>12, <1>13, <1>14, <1>15,
     <1>16, <1>17, <1>18 DEF Next, Answered
<1>20. QED
  BY <1>1, <1>19

\* The invariant holds initially.
LEMMA InitInv == Init => IInv
BY InitTypeOK
   DEF Init, IInv, Situation, MemoryMatchesDisk, ExitCodeTellsMode,
       LiveNeedsConfirmation, RestrictedForCause, Up

\* The invariant holds in every reachable state.
LEMMA InvHolds == Spec => []IInv
BY InitInv, InvInductive, PTL DEF Spec

\* The licence in memory is always the licence a restart would load.
THEOREM DiskFollowsMemory == Spec => []MemoryMatchesDisk
<1>1. IInv => MemoryMatchesDisk
  BY DEF IInv
<1>2. QED
  BY <1>1, InvHolds, PTL

\* Exit codes and final modes agree, wherever SIGTERM lands.
THEOREM ExitCodeRight == Spec => []ExitCodeTellsMode
<1>1. IInv => ExitCodeTellsMode
  BY DEF IInv
<1>2. QED
  BY <1>1, InvHolds, PTL

\* Live orders are allowed only while the last heartbeat was confirmed.
THEOREM LiveOrdersConfirmed == Spec => []LiveNeedsConfirmation
<1>1. IInv => LiveNeedsConfirmation
  BY DEF IInv
<1>2. QED
  BY <1>1, InvHolds, PTL

\* DEGRADED and OFFLINE_GRACE have a cause that still holds.
THEOREM RestrictionsExplained == Spec => []RestrictedForCause
<1>1. IInv => RestrictedForCause
  BY DEF IInv
<1>2. QED
  BY <1>1, InvHolds, PTL
=============================================================================
