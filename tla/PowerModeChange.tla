-------------------------- MODULE PowerModeChange --------------------------
(***************************************************************************)
(* SetPowerState of PowerManagerImplementation and the completion handler  *)
(* it hands to AckController (src/plugin/PowerManagerImplementation.cpp,   *)
(* PowerController::SetPowerState in src/plugin/PowerController.cpp).      *)
(*                                                                         *)
(* Every element of Txn is one call of SetPowerState.  It creates at most  *)
(* one AckController, so the call and the transaction share their name.    *)
(* The calls run on threads of their own; they are serialised by selfLock  *)
(* up to the return of Schedule (a synchronous one up to the end of its    *)
(* handler), and share _apiLock with the client API.  The handler runs on  *)
(* the thread that triggers it: it sets the hardware, then the settings,   *)
(* then tells the clients, then gives back its reference on the plugin.    *)
(*                                                                         *)
(* DeepSleepController is reduced to whether deep sleep was activated and  *)
(* not deactivated since.                                                  *)
(***************************************************************************)
EXTENDS AckController

CONSTANTS
  PowerState,   \* the power states
  DeepSleep,    \* POWER_STATE_STANDBY_DEEP_SLEEP
  LightSleep,   \* POWER_STATE_STANDBY_LIGHT_SLEEP
  Timeout       \* POWER_MODE_PRECHANGE_TIMEOUT_SEC

ASSUME PowerAssumption ==
  /\ DeepSleep \in PowerState
  /\ LightSleep \in PowerState
  /\ DeepSleep # LightSleep
  /\ Offset = {0, Timeout}
  /\ Timeout # 0

VARIABLES
  clients,    \* _modeChangeClients
  req,        \* req[t]: the thread in SetPowerState
  selfLock,   \* the call that holds selfLock, or NoTxn
  hal,        \* the power state of the platform
  power,      \* the power state in _settings
  deepSleep,  \* DeepSleepController is active
  step        \* step[t]: where the completion handler of t is

pmvars == <<clients, req, selfLock, hal, power, deepSleep, step>>
allvars == <<vars, pmvars>>

Request == [pc   : {"idle", "lock", "read", "enter", "locked", "schedule",
                    "returned"},
            from : PowerState,
            to   : PowerState]

Step == {"none", "hal", "save", "publish", "release"}

PMInit ==
  /\ Init
  /\ clients \in SUBSET Client
  /\ power \in PowerState
  /\ hal = power
  /\ req = [t \in Txn |-> [pc |-> "idle", from |-> power, to |-> power]]
  /\ selfLock = NoTxn
  /\ deepSleep = FALSE
  /\ step = [t \in Txn |-> "none"]

\* isSyncStateChange.
Sync(t) == req[t].from = DeepSleep /\ req[t].to = LightSleep

\* _apiLock is free.
ApiFree == call.pc = "idle" /\ \A t \in Txn : req[t].pc # "locked"

----------------------------------------------------------------------------
(* SetPowerState.                                                          *)

RequestStep(t, from) ==
  /\ ~crashed
  /\ req[t].pc = from
  /\ UNCHANGED <<clients, hal, power>>

Goto(t, pc) == req' = [req EXCEPT ![t].pc = pc]

\* An early return gives selfLock back.
ReturnAndUnlock(t) == Goto(t, "returned") /\ selfLock' = NoTxn

SetPowerState(t, to) ==
  /\ RequestStep(t, "idle")
  /\ req' = [req EXCEPT ![t].pc = "lock", ![t].to = to]
  /\ UNCHANGED <<vars, selfLock, deepSleep, step>>

LockSelf(t) ==
  /\ RequestStep(t, "lock")
  /\ selfLock = NoTxn
  /\ selfLock' = t
  /\ Goto(t, "read")
  /\ UNCHANGED <<vars, deepSleep, step>>

\* Variant of SameState: nothing to do, and selfLock is forgotten.
SameStateKeepsLock(t) ==
  /\ RequestStep(t, "read")
  /\ ApiFree
  /\ req[t].to = power
  /\ Goto(t, "returned")
  /\ UNCHANGED <<vars, selfLock, deepSleep, step>>

\* GetPowerState, under _apiLock; then the early returns.
SameState(t) ==
  /\ RequestStep(t, "read")
  /\ ApiFree
  /\ req[t].to = power
  /\ ReturnAndUnlock(t)
  /\ UNCHANGED <<vars, deepSleep, step>>

\* Deep sleep was entered less than five seconds ago: the request is ignored.
DeepSleepInProgress(t) ==
  /\ RequestStep(t, "read")
  /\ ApiFree
  /\ req[t].to # power
  /\ power = DeepSleep /\ deepSleep
  /\ ReturnAndUnlock(t)
  /\ UNCHANGED <<vars, deepSleep, step>>

\* The request goes on with the state it has read; out of deep sleep it
\* deactivates the DeepSleepController first.
ReadState(t) ==
  /\ RequestStep(t, "read")
  /\ ApiFree
  /\ req[t].to # power
  /\ req' = [req EXCEPT ![t].pc = "enter", ![t].from = power]
  /\ deepSleep' = (deepSleep /\ power # DeepSleep)
  /\ UNCHANGED <<vars, selfLock, step>>

Redundant(t) ==
  /\ RequestStep(t, "enter")
  /\ ApiFree
  /\ current # NoTxn /\ req[current].to = req[t].to
  /\ ReturnAndUnlock(t)
  /\ UNCHANGED <<vars, deepSleep, step>>

\* Variant of CancelOld: the timer job owns the controller, reset() keeps it.
CancelOldLeaks(t) ==
  /\ RequestStep(t, "enter")
  /\ ApiFree
  /\ current # NoTxn /\ req[current].to # req[t].to
  /\ sched[current].pc = "done"
  /\ current' = NoTxn
  /\ Goto(t, "locked")
  /\ UNCHANGED <<ctl, sched, timer, call, now, crashed>>
  /\ UNCHANGED <<selfLock, deepSleep, step>>

CancelOld(t) ==
  /\ RequestStep(t, "enter")
  /\ ApiFree
  /\ current # NoTxn /\ req[current].to # req[t].to
  /\ Cancel
  /\ Goto(t, "locked")
  /\ UNCHANGED <<selfLock, deepSleep, step>>

\* Variant of NewModeChange: selfLock is given back with _apiLock.
NewModeChangeUnlocks(t) ==
  /\ \/ RequestStep(t, "enter") /\ ApiFree
     \/ RequestStep(t, "locked")
  /\ Create(t, clients)
  /\ Goto(t, "schedule")
  /\ selfLock' = NoTxn
  /\ UNCHANGED <<deepSleep, step>>

\* A new controller awaits every registered client; _apiLock is released.
NewModeChange(t) ==
  /\ \/ RequestStep(t, "enter") /\ ApiFree
     \/ RequestStep(t, "locked")
  /\ Create(t, clients)
  /\ Goto(t, "schedule")
  /\ UNCHANGED <<selfLock, deepSleep, step>>

OffsetOf(t) == IF Sync(t) THEN 0 ELSE Timeout

CompleteAtOnce(t) ==
  /\ RequestStep(t, "schedule")
  /\ ScheduleAtOnce(t, OffsetOf(t))
  /\ step' = [step EXCEPT ![t] = "hal"]
  /\ UNCHANGED <<req, selfLock, deepSleep>>

AwaitClients(t) ==
  /\ RequestStep(t, "schedule")
  /\ ScheduleWait(t, OffsetOf(t))
  /\ UNCHANGED <<req, selfLock, deepSleep, step>>

ScheduleRuns(t) ==
  /\ \/ ScheduleArm(t)
     \/ ScheduleStoreHandler(t)
     \/ ScheduleReadTimeout(t)
     \/ ScheduleCreateJob(t)
     \/ ScheduleSubmit(t)
  /\ UNCHANGED pmvars

\* The end of SetPowerState: an asynchronous request unlocks selfLock here.
SetPowerStateReturns(t) ==
  /\ RequestStep(t, "schedule")
  /\ sched[t].pc = "done"
  /\ Goto(t, "returned")
  /\ selfLock' = IF Sync(t) THEN selfLock ELSE NoTxn
  /\ UNCHANGED <<vars, deepSleep, step>>

----------------------------------------------------------------------------
(* The completion handler, not aborted, on whatever thread runs it.        *)

HandlerStep(t, from) ==
  /\ ~crashed
  /\ step[t] = from
  /\ UNCHANGED <<vars, clients, req, selfLock>>

\* Variant of SetHal: the conversion table has no entry for one state.
SetHalUnknown(t) ==
  /\ HandlerStep(t, "hal")
  /\ hal' = IF req[t].to = LightSleep THEN "UNKNOWN" ELSE req[t].to
  /\ step' = [step EXCEPT ![t] = "save"]
  /\ UNCHANGED <<power, deepSleep>>

\* platform().SetPowerState.
SetHal(t) ==
  /\ HandlerStep(t, "hal")
  /\ hal' = req[t].to
  /\ step' = [step EXCEPT ![t] = "save"]
  /\ UNCHANGED <<power, deepSleep>>

\* The platform refuses, or /tmp/ignoredeepsleep exists: nothing is changed
\* and nobody is told.
HalFails(t) ==
  /\ HandlerStep(t, "hal")
  /\ step' = [step EXCEPT ![t] = "release"]
  /\ UNCHANGED <<hal, power, deepSleep>>

SaveState(t) ==
  /\ HandlerStep(t, "save")
  /\ power' = req[t].to
  /\ step' = [step EXCEPT ![t] = "publish"]
  /\ UNCHANGED <<hal, deepSleep>>

\* dispatchPowerModeChangedEvent(prevState, newState), then ActivateDeepSleep.
Publish(t) ==
  /\ HandlerStep(t, "publish")
  /\ deepSleep' = (deepSleep \/ req[t].to = DeepSleep)
  /\ step' = [step EXCEPT ![t] = "release"]
  /\ UNCHANGED <<hal, power>>

\* Variant of HandlerReturns: a synchronous request keeps selfLock.
HandlerReturnsKeepsLock(t) ==
  /\ step[t] = "release"
  /\ step' = [step EXCEPT ![t] = "none"]
  /\ \/ ScheduleHandlerReturns(t)
     \/ AckHandlerReturns /\ call.txn = t
     \/ TimerHandlerReturns(t)
  /\ UNCHANGED <<clients, req, selfLock, hal, power, deepSleep>>

\* Release(), and selfLock.Unlock() for a synchronous request; the handler
\* returns to the thread that ran it.
HandlerReturns(t) ==
  /\ step[t] = "release"
  /\ step' = [step EXCEPT ![t] = "none"]
  /\ selfLock' = IF Sync(t) THEN NoTxn ELSE selfLock
  /\ \/ ScheduleHandlerReturns(t)
     \/ AckHandlerReturns /\ call.txn = t
     \/ TimerHandlerReturns(t)
  /\ UNCHANGED <<clients, req, hal, power, deepSleep>>

----------------------------------------------------------------------------
(* The API of the clients, and the timer.                                  *)

\* AddPowerModePreChangeClient: a new client is awaited from the next
\* transaction on.
AddClient(c) ==
  /\ ~crashed
  /\ ApiFree
  /\ c \notin clients
  /\ clients' = clients \cup {c}
  /\ UNCHANGED <<vars, req, selfLock, hal, power, deepSleep, step>>

\* Variant of RemoveClient: no acknowledgement for the removed client.
RemoveClientSilent(c) ==
  /\ ~crashed
  /\ ApiFree
  /\ c \in clients
  /\ clients' = clients \ {c}
  /\ UNCHANGED <<vars, req, selfLock, hal, power, deepSleep, step>>

\* RemovePowerModePreChangeClient acknowledges for the client it removes.
RemoveClient(c) ==
  /\ ~crashed
  /\ ApiFree
  /\ c \in clients
  /\ clients' = clients \ {c}
  /\ IF current # NoTxn THEN Ack(c, current) \/ AckInvalid(c, current)
                        ELSE UNCHANGED vars
  /\ UNCHANGED <<req, selfLock, hal, power, deepSleep, step>>

\* PowerModePreChangeComplete and DelayPowerModeChangeBy.
ClientCall(c, t) ==
  /\ ApiFree
  /\ \/ Ack(c, t)
     \/ AckInvalid(c, t)
     \/ \E d \in Delay : Reschedule(c, t, d)
  /\ UNCHANGED pmvars

ApiRuns ==
  /\ \/ AckClearRunning
     \/ AckCallsEmptyHandler
     \/ RescheduleStore
     \/ Return
  /\ UNCHANGED pmvars

\* Variant of AbortModeChange: the handler does not look at isAborted.
AbortModeChangeApplies ==
  /\ CancelRevoke
  /\ step' = [step EXCEPT ![call.txn] = "hal"]
  /\ UNCHANGED <<clients, req, selfLock, hal, power, deepSleep>>

\* The handler of a cancelled request is told isAborted: it only releases.
AbortModeChange == CancelRevoke /\ UNCHANGED pmvars

LastAckCompletesChange ==
  /\ AckRunHandler
  /\ step' = [step EXCEPT ![call.txn] = "hal"]
  /\ UNCHANGED <<clients, req, selfLock, hal, power, deepSleep>>

TimerRuns(t) ==
  /\ TimerDispatch(t) \/ TimerLock(t) \/ TimerCheck(t)
  /\ UNCHANGED pmvars

TimerCompletesChange(t) ==
  /\ TimerRunHandler(t)
  /\ step' = [step EXCEPT ![t] = "hal"]
  /\ UNCHANGED <<clients, req, selfLock, hal, power, deepSleep>>

TimePasses == Tick /\ UNCHANGED pmvars

----------------------------------------------------------------------------
SetPowerStateNext(t) ==
  \/ LockSelf(t)
  \/ SameState(t)
  \/ DeepSleepInProgress(t)
  \/ ReadState(t)
  \/ Redundant(t)
  \/ CancelOld(t)
  \/ NewModeChange(t)
  \/ CompleteAtOnce(t)
  \/ AwaitClients(t)
  \/ ScheduleRuns(t)
  \/ SetPowerStateReturns(t)

HandlerNext(t) ==
  \/ SetHal(t)
  \/ HalFails(t)
  \/ SaveState(t)
  \/ Publish(t)
  \/ HandlerReturns(t)

ApiNext == ApiRuns \/ AbortModeChange \/ LastAckCompletesChange

PMTimerNext(t) == TimerRuns(t) \/ TimerCompletesChange(t)

\* Every request has been made and has ended, or the process is gone.
Finished ==
  /\ \/ crashed
     \/ /\ \A t \in Txn : req[t].pc = "returned" /\ timer[t] = "idle"
                           /\ ctl[t].timerJob \notin {"queued", "executing"}
        /\ call.pc = "idle"
  /\ UNCHANGED allvars

PMNext ==
  \/ \E t \in Txn :
       \/ \E to \in PowerState : SetPowerState(t, to)
       \/ SetPowerStateNext(t)
       \/ HandlerNext(t)
       \/ PMTimerNext(t)
       \/ \E c \in Client : ClientCall(c, t)
  \/ \E c \in Client : AddClient(c) \/ RemoveClient(c)
  \/ ApiNext
  \/ TimePasses
  \/ Finished

PMSpec == PMInit /\ [][PMNext]_allvars

\* Threads run, a job that is due is dispatched, time passes.  A request
\* competes for _apiLock with the clients, whose calls are not bounded, so
\* that it gets the lock takes strong fairness (a fair mutex).
PMFairness ==
  /\ \A t \in Txn :
       /\ SF_allvars(SetPowerStateNext(t))
       /\ WF_allvars(HandlerNext(t))
       /\ WF_allvars(PMTimerNext(t))
  /\ WF_allvars(ApiNext)
  /\ WF_allvars(TimePasses)

PMFairSpec == PMSpec /\ PMFairness

----------------------------------------------------------------------------
\* Type correctness of the state this module adds.
PMTypeOK ==
  /\ clients \in SUBSET Client
  /\ req \in [Txn -> Request]
  /\ selfLock \in Txn \cup {NoTxn}
  /\ hal \in PowerState
  /\ power \in PowerState
  /\ deepSleep \in BOOLEAN
  /\ step \in [Txn -> Step]

\* The controller that waits for clients is the owner's current one, and a
\* request it has cancelled can still run only if the timer job had locked
\* its weak_ptr before (SetPowerState, _modeChangeController.reset()).
OnlyCurrentWaits ==
  \A t \in Txn :
    ctl[t].running => t = current \/ timer[t] \in {"held", "won"}

\* Nobody waits for a client that has unregistered: removing it acknowledges
\* for it, and a new controller awaits the registered clients only.
PendingAreRegistered ==
  current # NoTxn => ctl[current].pending \subseteq clients

\* The synchronous wake from DEEP_SLEEP to LIGHT_SLEEP keeps selfLock until
\* its handler has returned: no other request starts a controller meanwhile.
SyncBlocksRequests ==
  \A t \in Txn :
    Sync(t) /\ req[t].pc = "schedule" /\ sched[t].pc # "done"
      => selfLock = t /\ current = t

\* SetPowerState always returns to its caller.
EveryRequestReturns ==
  \A t \in Txn : req[t].pc = "lock" ~> (req[t].pc = "returned" \/ crashed)

\* Every controller a request creates is resolved, its handler returns, and
\* with it the plugin's reference and selfLock are given back.
EveryModeChangeEnds ==
  \A t \in Txn :
    req[t].pc = "schedule"
      ~> \/ ctl[t].by # {} /\ step[t] = "none" /\ selfLock # t
         \/ crashed

\* Where PowerRequests sees a request.  It is committed once its handler was
\* run for good, or when the owner drops it while the timer job holds it.
StatusOf(t) ==
  CASE "abort" \in ctl[t].by -> "aborted"
    [] ctl[t].by \cap {"schedule", "ack", "timer"} # {} -> "committed"
    [] ctl[t].by = {} /\ ctl[t].life = "alive" /\ t # current -> "committed"
    [] ctl[t].by = {} /\ ctl[t].life = "alive" /\ t = current -> "waiting"
    [] ctl[t].by = {} /\ ctl[t].life = "freed" -> "waiting"
    [] ctl[t].life = "unborn" /\ req[t].pc = "idle" -> "idle"
    [] ctl[t].life = "unborn" /\ req[t].pc = "returned" -> "ignored"
    [] OTHER -> "asked"

Requests == INSTANCE PowerRequests WITH
  Request <- Txn,
  status  <- [t \in Txn |-> StatusOf(t)],
  goal    <- [t \in Txn |-> req[t].to]

\* SetPowerState keeps the promise of PowerRequests: whatever the threads do,
\* an aborted or ignored request never touches the settings, and a request
\* waits only after the one before it was aborted or committed.
ImplementsRequests == Requests!Spec

----------------------------------------------------------------------------
(* What comments of the code say and the code does not keep.               *)

\* PowerManagerImplementation.cpp:456-457, the handler in the timer's thread
\* is to "take `_apiLock`" against races: when no handler runs, the settings
\* hold the state the hardware is in.
SettingsMatchHardware ==
  (\A t \in Txn : step[t] = "none") => power = hal
=============================================================================
