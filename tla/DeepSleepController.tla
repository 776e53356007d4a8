------------------------ MODULE DeepSleepController ------------------------
(***************************************************************************)
(* DeepSleepController (src/plugin/DeepSleepController.cpp) between the    *)
(* mode changes that activate and deactivate it.                           *)
(*                                                                         *)
(* Every mode change to DEEP_SLEEP is an element of Activation.  It stores *)
(* the power state, tells the clients, and submits a job to the worker     *)
(* pool; the job runs performActivate, and the optional delay job it       *)
(* schedules runs enterDeepSleepDelayed.  The state, the abort flag and    *)
(* the proxy of the delay job are shared by all these jobs and by          *)
(* Deactivate, which a request to leave DEEP_SLEEP runs under selfLock.    *)
(* Only the abort flag has a mutex, so every access is a step.             *)
(*                                                                         *)
(* The platform's SetDeepSleep returns when the device wakes up, the wake  *)
(* up timer's elapsing included, and DeepSleepWakeup makes it return.      *)
(* Requests for anything but entering and leaving DEEP_SLEEP, and mode     *)
(* changes that fail, are left to PowerModeChange.                         *)
(***************************************************************************)
EXTENDS Naturals

CONSTANTS
  Activation,     \* the mode changes to DEEP_SLEEP, bound of the model
  User,           \* a requester that is no activation's job
  NoJob,          \* _deepSleepDelayJob is not valid
  Retries         \* retryCount, 5 in the code

ASSUME DeepSleepAssumption ==
  /\ User \notin Activation
  /\ NoJob \notin Activation
  /\ Retries \in Nat \ {0}

VARIABLES
  power,      \* the power state in the settings
  waking,     \* a mode change out of DEEP_SLEEP waits for its clients
  state,      \* _deepSleepState
  abort,      \* _abortState->requested
  delayJob,   \* _deepSleepDelayJob: the activation that created the job
  act,        \* act[a]: the jobs of activation a
  wake,       \* the request that holds selfLock and runs Deactivate
  delayFile   \* /tmp/deepSleepDelayTimer asks for a delay

mode == <<power, waking, delayFile>>
shared == <<state, abort, delayJob>>
vars == <<mode, shared, act, wake>>

State == {"Failed", "NotStarted", "InProgress", "Completed"}

\* Where the two jobs of an activation are, and the retries they have left.
Job == [pc    : {"unused", "entering", "submitted", "clear", "latch",
                 "config", "create", "schedule", "queued", "fired",
                 "predelay", "loop", "sleep", "asleep", "awake", "retry",
                 "giveUp", "notify", "deactivate", "over"},
        tries : 0 .. Retries]

Wake == [pc  : {"idle", "abort", "test", "revoke", "release", "wakeup",
                "reset", "accept"},
         by  : Activation \cup {User},
         job : Activation \cup {NoJob}]

Init ==
  /\ power = "awake"
  /\ waking = FALSE
  /\ state = "NotStarted"
  /\ abort = FALSE
  /\ delayJob = NoJob
  /\ act = [a \in Activation |-> [pc |-> "unused", tries |-> Retries]]
  /\ wake = [pc |-> "idle", by |-> User, job |-> NoJob]
  /\ delayFile \in BOOLEAN

----------------------------------------------------------------------------
(* The completion handler of a mode change to DEEP_SLEEP.                  *)

Goto(a, pc) == act' = [act EXCEPT ![a].pc = pc]

ActStep(a, from, to) ==
  /\ act[a].pc = from
  /\ Goto(a, to)
  /\ UNCHANGED <<mode, wake>>

\* setDevicePowerState stores the state first, then tells the clients ...
EnterDeepSleep(a) ==
  /\ act[a].pc = "unused"
  /\ power = "awake"
  /\ power' = "deep"
  /\ Goto(a, "entering")
  /\ UNCHANGED <<waking, delayFile, shared, wake>>

\* ... and then activates deep sleep: a job is submitted.
Activate(a) ==
  /\ ActStep(a, "entering", "submitted")
  /\ UNCHANGED shared

----------------------------------------------------------------------------
(* performActivate.                                                        *)

\* "Deep sleep operation is already in progress".
AlreadyInProgress(a) ==
  /\ state = "InProgress"
  /\ ActStep(a, "submitted", "over")
  /\ UNCHANGED shared

NotInProgress(a) ==
  /\ state # "InProgress"
  /\ ActStep(a, "submitted", "clear")
  /\ UNCHANGED shared

ClearAbort(a) ==
  /\ ActStep(a, "clear", "latch")
  /\ abort' = FALSE
  /\ UNCHANGED <<state, delayJob>>

Latch(a) ==
  /\ ActStep(a, "latch", "config")
  /\ state' = "InProgress"
  /\ UNCHANGED <<abort, delayJob>>

ReadDelay(a) ==
  /\ ActStep(a, "config", IF delayFile THEN "create" ELSE "predelay")
  /\ UNCHANGED shared

CreateDelayJob(a) ==
  /\ ActStep(a, "create", "schedule")
  /\ delayJob' = a
  /\ UNCHANGED <<state, abort>>

ScheduleDelayJob(a) ==
  /\ ActStep(a, "schedule", "queued")
  /\ UNCHANGED shared

DelayJobFires(a) ==
  /\ ActStep(a, "queued", "fired")
  /\ UNCHANGED shared

\* Variant of EnterDelayed: the proxy is kept while the job runs.
EnterDelayedKeepsProxy(a) ==
  /\ ActStep(a, "fired", "predelay")
  /\ UNCHANGED shared

\* enterDeepSleepDelayed releases the proxy, whichever job it is for.
EnterDelayed(a) ==
  /\ ActStep(a, "fired", "predelay")
  /\ delayJob' = NoJob
  /\ UNCHANGED <<state, abort>>

----------------------------------------------------------------------------
(* enterDeepSleepNow.                                                      *)

\* waitForAbortableDelay: TRUE as soon as an abort is requested, FALSE when
\* the time is up and none is.
DelayAborted(a) ==
  /\ abort
  /\ ActStep(a, "predelay", "giveUp") \/ ActStep(a, "retry", "giveUp")
  /\ UNCHANGED shared

DelayElapsed(a) ==
  /\ ~abort
  /\ ActStep(a, "predelay", "loop") \/ ActStep(a, "retry", "loop")
  /\ UNCHANGED shared

\* isAbortDeepSleepRequested at the head of the retry loop.
LoopTest(a) ==
  /\ ActStep(a, "loop", IF abort THEN "giveUp" ELSE "sleep")
  /\ UNCHANGED shared

SetDeepSleep(a) ==
  /\ ActStep(a, "sleep", "asleep")
  /\ UNCHANGED shared

\* The device wakes up by itself: timer, remote control, network.
DeviceWakes(a) ==
  /\ ActStep(a, "asleep", "awake")
  /\ UNCHANGED shared

\* Variant of SleepSucceeded: the state stays in progress.
SleepSucceededInProgress(a) ==
  /\ ActStep(a, "awake", "notify")
  /\ UNCHANGED shared

SleepSucceeded(a) ==
  /\ ActStep(a, "awake", "notify")
  /\ state' = "Completed"
  /\ UNCHANGED <<abort, delayJob>>

\* Variant of SleepFailed: one retry too many.
SleepFailedOnceMore(a) ==
  /\ act[a].pc = "awake"
  /\ state' = "Failed"
  /\ \E pc \in {"retry", "notify"} :
       /\ pc = "retry" => act[a].tries > 0
       /\ act' = [act EXCEPT ![a].pc = pc, ![a].tries = @ - 1]
  /\ UNCHANGED <<mode, abort, delayJob, wake>>

\* Variant of SleepFailed: the retries are not counted.
SleepFailedUncounted(a) ==
  /\ act[a].pc = "awake"
  /\ state' = "Failed"
  /\ \E pc \in {"retry", "notify"} : Goto(a, pc)
  /\ UNCHANGED <<mode, abort, delayJob, wake>>

\* ERROR_ABORTED is tried again, any other error and the last try are not.
SleepFailed(a) ==
  /\ act[a].pc = "awake"
  /\ state' = "Failed"
  /\ \E pc \in {"retry", "notify"} :
       /\ pc = "retry" => act[a].tries > 1
       /\ act' = [act EXCEPT ![a].pc = pc, ![a].tries = @ - 1]
  /\ UNCHANGED <<mode, abort, delayJob, wake>>

\* Variant of GiveUp: the early return leaves the state in progress.
GiveUpInProgress(a) ==
  /\ ActStep(a, "giveUp", "over")
  /\ UNCHANGED shared

GiveUp(a) ==
  /\ ActStep(a, "giveUp", "over")
  /\ state' = "NotStarted"
  /\ UNCHANGED <<abort, delayJob>>

----------------------------------------------------------------------------
(* SetPowerState out of DEEP_SLEEP, by the job after a wakeup or a failure *)
(* and by anybody else; the check of the requested state and of the        *)
(* transient deep sleep, then Deactivate.                                  *)

\* The job's request finds the device awake, or is ignored because another
\* activation has been in progress for less than five seconds.
WakeIgnored(a) ==
  /\ wake.pc = "idle"
  /\ power = "awake" \/ state = "InProgress"
  /\ ActStep(a, "notify", "over")
  /\ UNCHANGED shared

WakeBegins(by) ==
  /\ wake.pc = "idle"
  /\ power = "deep"
  /\ wake' = [wake EXCEPT !.pc = "abort", !.by = by]
  /\ UNCHANGED <<mode, shared>>

JobWakes(a) ==
  /\ act[a].pc = "notify"
  /\ WakeBegins(a)
  /\ Goto(a, "deactivate")

UserWakes == WakeBegins(User) /\ UNCHANGED act

WakeStep(from, to) ==
  /\ wake.pc = from
  /\ wake' = [wake EXCEPT !.pc = to]
  /\ UNCHANGED mode

RequestAbort ==
  /\ WakeStep("abort", "test")
  /\ abort' = TRUE
  /\ UNCHANGED <<state, delayJob, act>>

TestDelayJob ==
  /\ wake.pc = "test"
  /\ wake' = [wake EXCEPT !.pc = IF delayJob = NoJob THEN "wakeup"
                                                     ELSE "revoke"]
  /\ UNCHANGED <<mode, shared, act>>

\* Revoke takes the job the proxy names by now ...
PassDelayJob ==
  /\ wake.pc = "revoke" /\ wake.job = NoJob /\ delayJob # NoJob
  /\ wake' = [wake EXCEPT !.job = delayJob]
  /\ UNCHANGED <<mode, shared, act>>

DelayJobGone ==
  /\ wake.job = NoJob /\ delayJob = NoJob
  /\ WakeStep("revoke", "release")
  /\ UNCHANGED <<shared, act>>

\* The delay job of a is on a worker thread.
Executing(a) == act[a].pc \in {"fired", "predelay", "loop", "sleep", "asleep",
                               "awake", "retry", "giveUp", "notify",
                               "deactivate"}

\* ... and drops it from the queue, or waits for it to end.
RevokeDelayJob ==
  /\ wake.pc = "revoke" /\ wake.job # NoJob
  /\ ~Executing(wake.job)
  /\ wake' = [wake EXCEPT !.pc = "release", !.job = NoJob]
  /\ act' = [act EXCEPT ![wake.job].pc = IF @ = "queued" THEN "over" ELSE @]
  /\ UNCHANGED <<mode, shared>>

ReleaseDelayJob ==
  /\ WakeStep("release", "wakeup")
  /\ delayJob' = NoJob
  /\ UNCHANGED <<state, abort, act>>

\* platform().DeepSleepWakeup: nobody sleeps any more.
DeepSleepWakeup ==
  /\ WakeStep("wakeup", "reset")
  /\ act' = [a \in Activation |->
               IF act[a].pc = "asleep" THEN [act[a] EXCEPT !.pc = "awake"]
                                       ELSE act[a]]
  /\ UNCHANGED shared

Reset ==
  /\ WakeStep("reset", "accept")
  /\ state' = "NotStarted"
  /\ UNCHANGED <<abort, delayJob, act>>

\* The rest of SetPowerState: the synchronous request has changed the power
\* state when selfLock is given back, the asynchronous one has not.
WakeAccepted ==
  /\ wake.pc = "accept"
  /\ wake' = [wake EXCEPT !.pc = "idle", !.by = User]
  /\ \/ power' = "awake" /\ waking' = FALSE
     \/ UNCHANGED power /\ waking' = (power = "deep")
  /\ act' = [a \in Activation |->
               IF a = wake.by THEN [act[a] EXCEPT !.pc = "over"] ELSE act[a]]
  /\ UNCHANGED <<shared, delayFile>>

WakeCompletes ==
  /\ waking
  /\ power' = "awake"
  /\ waking' = FALSE
  /\ UNCHANGED <<delayFile, shared, act, wake>>

----------------------------------------------------------------------------
JobNext(a) ==
  \/ Activate(a)
  \/ AlreadyInProgress(a)
  \/ NotInProgress(a)
  \/ ClearAbort(a)
  \/ Latch(a)
  \/ ReadDelay(a)
  \/ CreateDelayJob(a)
  \/ ScheduleDelayJob(a)
  \/ DelayJobFires(a)
  \/ EnterDelayed(a)
  \/ DelayAborted(a)
  \/ DelayElapsed(a)
  \/ LoopTest(a)
  \/ SetDeepSleep(a)
  \/ DeviceWakes(a)
  \/ SleepSucceeded(a)
  \/ SleepFailed(a)
  \/ GiveUp(a)
  \/ WakeIgnored(a)
  \/ JobWakes(a)

DeactivateNext ==
  \/ RequestAbort
  \/ TestDelayJob
  \/ PassDelayJob
  \/ DelayJobGone
  \/ RevokeDelayJob
  \/ ReleaseDelayJob
  \/ DeepSleepWakeup
  \/ Reset
  \/ WakeAccepted

Next ==
  \/ \E a \in Activation : EnterDeepSleep(a) \/ JobNext(a)
  \/ UserWakes
  \/ DeactivateNext
  \/ WakeCompletes

Spec == Init /\ [][Next]_vars

\* Worker threads and the thread in Deactivate run, the device wakes up one
\* day, a mode change completes.  No user has to wake the device.
Fairness ==
  /\ \A a \in Activation : WF_vars(JobNext(a))
  /\ WF_vars(DeactivateNext)
  /\ WF_vars(WakeCompletes)

FairSpec == Spec /\ Fairness
----------------------------------------------------------------------------
\* Type correctness.
TypeOK ==
  /\ power \in {"awake", "deep"}
  /\ waking \in BOOLEAN
  /\ state \in State
  /\ abort \in BOOLEAN
  /\ delayJob \in Activation \cup {NoJob}
  /\ act \in [Activation -> Job]
  /\ wake \in Wake
  /\ delayFile \in BOOLEAN

\* Past the latch and before the write of the state that ends it.
Working(a) ==
  act[a].pc \in {"config", "create", "schedule", "queued", "fired",
                 "predelay", "loop", "sleep", "asleep", "awake", "retry",
                 "giveUp"}

\* InProgress is never left behind: an activation is at work, or Deactivate
\* has revoked it and is about to reset the state.  Otherwise every later
\* activation would be refused and every early wake request ignored.
NoStuckInProgress ==
  state = "InProgress"
    => \/ \E a \in Activation : Working(a)
       \/ wake.pc \in {"release", "wakeup", "reset"}

\* The proxy names a job that can still be revoked, so that Deactivate in the
\* delay job's own thread (a wakeup or failure it reports) does not wait for
\* itself: enterDeepSleepDelayed released the proxy first.
NobodyRevokesItself ==
  \A a \in Activation : wake.by = a => wake.job # a

\* Every activation ends, however it races with the requests to wake up, as
\* long as no file asks for the delay job.
EveryActivationEnds ==
  \A a \in Activation :
    act[a].pc = "entering" /\ ~delayFile ~> act[a].pc = "over"

\* A device that woke up, or failed to sleep, ends in a mode change out of
\* DEEP_SLEEP: the request of its job is ignored only while another activation
\* is still at work.
WakeupsAreHandled ==
  \A a \in Activation :
    act[a].pc = "notify" /\ ~delayFile
      ~> \/ power = "awake"
         \/ \E b \in Activation : b # a /\ Working(b)

=============================================================================
