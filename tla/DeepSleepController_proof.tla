---------------------- MODULE DeepSleepController_proof ----------------------
(***************************************************************************)
(* Safety of DeepSleepController for any number of activations and         *)
(* retries.                                                                *)
(*                                                                         *)
(* NoStuckInProgress is not inductive: WakeAccepted ends the job of the    *)
(* requester, which must not be one that is at work, and NobodyRevokesIt-  *)
(* self depends on where the job is that the proxy names.  IInv adds       *)
(*   - a job that runs Deactivate is at "deactivate" while it does;        *)
(*   - the proxy names a job that was created, and either has not run      *)
(*     enterDeepSleepDelayed's Release yet or was revoked;                 *)
(*   - Revoke's argument is used between "revoke" and "release" only.      *)
(***************************************************************************)
EXTENDS DeepSleepController, TLAPS

\* The requester waits in Deactivate.
RequesterDeactivates ==
  wake.pc # "idle" /\ wake.by # User => act[wake.by].pc = "deactivate"

\* An idle selfLock has no requester.
IdleHasNoRequester == wake.pc = "idle" => wake.by = User

\* The proxy's job has not released it yet, or was revoked.
ProxyNotReleased ==
  delayJob # NoJob
    => act[delayJob].pc \in {"schedule", "queued", "fired", "over"}

\* Revoke's argument.
ArgumentOfRevoke == wake.pc # "revoke" => wake.job = NoJob

IInv == /\ TypeOK
        /\ NoStuckInProgress
        /\ NobodyRevokesItself
        /\ RequesterDeactivates
        /\ IdleHasNoRequester
        /\ ProxyNotReleased
        /\ ArgumentOfRevoke

\* The controller starts with no job, no requester and no delay job.
LEMMA InitIInv == Init => IInv
<1> SUFFICES ASSUME Init PROVE IInv
  OBVIOUS
<1>1. abort \in BOOLEAN /\ waking \in BOOLEAN
  BY Zenon DEF Init
<1>2. TypeOK
  BY <1>1, DeepSleepAssumption DEF Init, TypeOK, State, Job, Wake
<1> QED
  BY <1>2, DeepSleepAssumption
  DEF Init, IInv, NoStuckInProgress, NobodyRevokesItself,
      RequesterDeactivates, IdleHasNoRequester, ProxyNotReleased,
      ArgumentOfRevoke

\* No step of an activation's two jobs breaks the invariant.
LEMMA JobStep ==
  ASSUME IInv, NEW a \in Activation, JobNext(a)
  PROVE  IInv'
<1> USE DeepSleepAssumption
    DEF IInv, TypeOK, State, Job, Wake, NoStuckInProgress, Working,
        NobodyRevokesItself, RequesterDeactivates, IdleHasNoRequester,
        ProxyNotReleased, ArgumentOfRevoke, ActStep, Goto, mode, shared
<1>1. CASE Activate(a)
  BY <1>1 DEF Activate
<1>2. CASE AlreadyInProgress(a)
  BY <1>2 DEF AlreadyInProgress
<1>3. CASE NotInProgress(a)
  BY <1>3 DEF NotInProgress
<1>4. CASE ClearAbort(a)
  <2>1. abort' \in BOOLEAN
    BY Zenon, <1>4 DEF ClearAbort
  <2> QED
    BY <2>1, <1>4 DEF ClearAbort
<1>5. CASE Latch(a)
  BY <1>5 DEF Latch
<1>6. CASE ReadDelay(a)
  BY <1>6 DEF ReadDelay
<1>7. CASE CreateDelayJob(a)
  BY <1>7 DEF CreateDelayJob
<1>8. CASE ScheduleDelayJob(a)
  BY <1>8 DEF ScheduleDelayJob
<1>9. CASE DelayJobFires(a)
  BY <1>9 DEF DelayJobFires
<1>10. CASE EnterDelayed(a)
  BY <1>10 DEF EnterDelayed
<1>11. CASE DelayAborted(a)
  BY <1>11 DEF DelayAborted
<1>12. CASE DelayElapsed(a)
  BY <1>12 DEF DelayElapsed
<1>13. CASE LoopTest(a)
  BY <1>13 DEF LoopTest
<1>14. CASE SetDeepSleep(a)
  BY <1>14 DEF SetDeepSleep
<1>15. CASE DeviceWakes(a)
  BY <1>15 DEF DeviceWakes
<1>16. CASE SleepSucceeded(a)
  BY <1>16 DEF SleepSucceeded
<1>17. CASE SleepFailed(a)
  BY <1>17 DEF SleepFailed
<1>18. CASE GiveUp(a)
  BY <1>18 DEF GiveUp
<1>19. CASE WakeIgnored(a)
  BY <1>19 DEF WakeIgnored
<1>20. CASE JobWakes(a)
  BY <1>20 DEF JobWakes, WakeBegins
<1>21. QED
  BY <1>1, <1>2, <1>3, <1>4, <1>5, <1>6, <1>7, <1>8, <1>9, <1>10, <1>11,
     <1>12, <1>13, <1>14, <1>15, <1>16, <1>17, <1>18, <1>19, <1>20
  DEF JobNext

\* No step of the request that runs Deactivate breaks it.
LEMMA DeactivateStep ==
  ASSUME IInv, DeactivateNext
  PROVE  IInv'
<1> USE DeepSleepAssumption
    DEF IInv, TypeOK, State, Job, Wake, NoStuckInProgress, Working,
        NobodyRevokesItself, RequesterDeactivates, IdleHasNoRequester,
        ProxyNotReleased, ArgumentOfRevoke, WakeStep, mode, shared
<1>1. CASE RequestAbort
  <2>1. abort' \in BOOLEAN
    BY Zenon, <1>1 DEF RequestAbort
  <2> QED
    BY <2>1, <1>1 DEF RequestAbort
<1>2. CASE TestDelayJob
  BY <1>2 DEF TestDelayJob
<1>3. CASE PassDelayJob
  BY <1>3 DEF PassDelayJob
<1>4. CASE DelayJobGone
  BY <1>4 DEF DelayJobGone
<1>5. CASE RevokeDelayJob
  <2>1. act' \in [Activation -> Job] /\ wake' \in Wake
    <3> DEFINE old == act[wake.job]
               new == [old EXCEPT !.pc = IF @ = "queued" THEN "over" ELSE @]
    <3>1. old \in Job /\ wake.job \in Activation
      BY <1>5 DEF RevokeDelayJob
    <3>2. new \in Job
      BY <3>1
    <3>3. act' = [act EXCEPT ![wake.job] = new]
      BY <1>5 DEF RevokeDelayJob
    <3> HIDE DEF new
    <3>4. act' \in [Activation -> Job]
      BY <3>2, <3>3
    <3> QED
      BY <1>5, <3>4 DEF RevokeDelayJob
  <2>2. NoStuckInProgress'
    BY <1>5 DEF RevokeDelayJob
  <2>3. RequesterDeactivates'
    BY <1>5 DEF RevokeDelayJob, Executing
  <2>4. ProxyNotReleased'
    BY <1>5 DEF RevokeDelayJob, Executing
  <2> QED
    BY <1>5, <2>1, <2>2, <2>3, <2>4 DEF RevokeDelayJob
<1>6. CASE ReleaseDelayJob
  BY <1>6 DEF ReleaseDelayJob
<1>7. CASE DeepSleepWakeup
  BY <1>7 DEF DeepSleepWakeup
<1>8. CASE Reset
  BY <1>8 DEF Reset
<1>9. CASE WakeAccepted
  <2>1. act' \in [Activation -> Job] /\ wake' \in Wake
    <3>1. \A a \in Activation : [act[a] EXCEPT !.pc = "over"] \in Job
      OBVIOUS
    <3> QED
      BY <1>9, <3>1 DEF WakeAccepted
  <2>2. power' \in {"awake", "deep"}
    BY <1>9 DEF WakeAccepted
  <2>3. waking' \in BOOLEAN
    BY Zenon, <1>9 DEF WakeAccepted
  <2>4. \A a \in Activation : Working(a) => Working(a)'
    BY <1>9 DEF WakeAccepted
  <2>5. NoStuckInProgress'
    BY <1>9, <2>4 DEF WakeAccepted
  <2>6. ProxyNotReleased'
    BY <1>9 DEF WakeAccepted
  <2> QED
    BY <1>9, <2>1, <2>2, <2>3, <2>5, <2>6 DEF WakeAccepted
<1>10. QED
  BY <1>1, <1>2, <1>3, <1>4, <1>5, <1>6, <1>7, <1>8, <1>9 DEF DeactivateNext

\* Nor does any other step of a mode change into or out of DEEP_SLEEP.
LEMMA NextStep ==
  ASSUME IInv, Next
  PROVE  IInv'
<1> USE DeepSleepAssumption
    DEF IInv, TypeOK, State, Job, Wake, NoStuckInProgress, Working,
        NobodyRevokesItself, RequesterDeactivates, IdleHasNoRequester,
        ProxyNotReleased, ArgumentOfRevoke, ActStep, Goto, mode, shared
<1>1. ASSUME NEW a \in Activation, EnterDeepSleep(a)
      PROVE  IInv'
  BY <1>1 DEF EnterDeepSleep
<1>2. ASSUME NEW a \in Activation, JobNext(a)
      PROVE  IInv'
  BY <1>2, JobStep
<1>3. CASE UserWakes
  <2>1. wake' \in Wake /\ wake'.by = User /\ wake'.job = NoJob
    BY <1>3 DEF UserWakes, WakeBegins
  <2>2. wake'.pc = "abort"
    BY <1>3 DEF UserWakes, WakeBegins
  <2> QED
    BY <1>3, <2>1, <2>2 DEF UserWakes, WakeBegins
<1>4. CASE DeactivateNext
  BY <1>4, DeactivateStep
<1>5. CASE WakeCompletes
  <2>1. waking' \in BOOLEAN
    BY Zenon, <1>5 DEF WakeCompletes
  <2> QED
    BY <1>5, <2>1 DEF WakeCompletes
<1>6. QED
  BY <1>1, <1>2, <1>3, <1>4, <1>5 DEF Next

\* IInv always holds: what the theorems below follow from.
THEOREM Invariance == Spec => []IInv
<1>1. IInv /\ UNCHANGED vars => IInv'
  BY DEF IInv, TypeOK, NoStuckInProgress, Working, NobodyRevokesItself,
         RequesterDeactivates, IdleHasNoRequester, ProxyNotReleased,
         ArgumentOfRevoke, vars, mode, shared
<1>2. IInv /\ [Next]_vars => IInv'
  BY <1>1, NextStep
<1> QED
  BY InitIInv, <1>2, PTL DEF Spec

\* The types of the shared members, the jobs and the request.
THEOREM TypeCorrect == Spec => []TypeOK
<1>1. IInv => TypeOK
  BY DEF IInv
<1> QED
  BY Invariance, <1>1, PTL

\* _deepSleepState is not left InProgress by an aborted, revoked or failed
\* activation.
THEOREM InProgressEnds == Spec => []NoStuckInProgress
<1>1. IInv => NoStuckInProgress
  BY DEF IInv
<1> QED
  BY Invariance, <1>1, PTL

\* Deactivate in a delay job's own thread does not revoke that job.
THEOREM NoSelfRevoke == Spec => []NobodyRevokesItself
<1>1. IInv => NobodyRevokesItself
  BY DEF IInv
<1> QED
  BY Invariance, <1>1, PTL
=============================================================================
