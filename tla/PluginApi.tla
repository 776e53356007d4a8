----------------------------- MODULE PluginApi -----------------------------
(***************************************************************************)
(* The plugin's API and its notifications                                  *)
(* (src/plugin/PowerManagerImplementation.cpp): threads of the clients'    *)
(* calls, of the thermal poll, of DeepSleepController, of the ack timer    *)
(* and of the worker pool, under the locks they take.                      *)
(*                                                                         *)
(* "api" is _apiLock, "callback" _callbackLock, both recursive; "self" is  *)
(* the semaphore of SetPowerState, "therm" and "grace" are mutexes of      *)
(* ThermalController.  What the calls read and write is reduced to the     *)
(* observers and the reading of the thermal sensor: PowerModeChange models *)
(* SetPowerState with its states, ThermalController the poll with its      *)
(* zones, PowerSettings the settings.  A synchronous change, which keeps   *)
(* "self" until its handler ran, is left to PowerModeChange.               *)
(***************************************************************************)
EXTENDS Threads

CONSTANTS
  Client,         \* threads that call the API
  Poll,           \* ThermalController::pollThermalLevels
  Sleep,          \* DeepSleepController's jobs
  Timer,          \* the ack timer
  Worker,         \* a thread of Thunder's worker pool
  List,           \* the lists of observers that are used
  Observer,
  Reading,        \* what the sensor says: a level and a temperature
  Calls,          \* the calls clients make
  CallbackCalls,  \* the calls observers make from a notification
  JobCalls        \* the calls they make from OnPowerModePreChange

Lists == {"reboot", "preChange", "modeChanged", "deepSleepTimeout",
          "networkStandby", "thermal"}

\* Calls that only read or write under _apiLock.
Queries ==
  {"GetPowerState", "GetTemperatureThresholds", "SetTemperatureThresholds",
   "GetOvertempGraceInterval", "SetDeepSleepTimer", "GetLastWakeupReason",
   "GetLastWakeupKeyCode", "GetTimeSinceWakeup", "GetNetworkStandbyMode",
   "GetWakeupSourceConfig", "GetPowerStateBeforeReboot",
   "DelayPowerModeChangeBy", "AddPowerModePreChangeClient"}

Acks == {"PowerModePreChangeComplete", "RemovePowerModePreChangeClient"}

AllCalls ==
  Queries \cup Acks
    \cup {"SetPowerState", "SetOvertempGraceInterval", "GetThermalState",
          "Reboot", "SetNetworkStandbyMode", "SetWakeupSourceConfig"}

ASSUME ApiAssumption ==
  /\ Client \cup {Poll, Sleep, Timer, Worker} \subseteq Thread
  /\ Mutex = {"self", "therm", "grace"}
  /\ List \subseteq Lists
  /\ Calls \cup CallbackCalls \cup JobCalls \subseteq AllCalls

VARIABLES
  observers,  \* observers[l]: the list l
  reading,    \* m_cur_Thermal_Level and m_cur_Thermal_Value
  told,       \* history: the reading last told to the observers, or stored since
  change,     \* a mode change waits for acknowledgements
  jobs        \* observers with an OnPowerModePreChange job

api == <<observers, reading, told, change, jobs>>
vars == <<todo, api>>

Init ==
  /\ ThreadsInit
  /\ observers = [l \in List |-> {}]
  /\ reading \in Reading
  /\ told = reading
  /\ change = FALSE
  /\ jobs = {}

----------------------------------------------------------------------------
(* Observers.                                                              *)

RegisterCall(l, o) == With("callback", <<Do("register", <<l, o>>)>>)

\* Variant of UnregisterCall: without the lock.
UnregisterCallUnlocked(l, o) == <<Do("unregister", <<l, o>>)>>

UnregisterCall(l, o) == With("callback", <<Do("unregister", <<l, o>>)>>)

\* An observer is referenced as long as it is in a list.
Register(t) ==
  /\ At(t, "register")
  /\ observers' = [observers EXCEPT ![Arg(t)[1]] = @ \cup {Arg(t)[2]}]
  /\ Continue(t, <<>>)
  /\ UNCHANGED <<reading, told, change, jobs>>

Unregister(t) ==
  /\ At(t, "unregister")
  /\ observers' = [observers EXCEPT ![Arg(t)[1]] = @ \ {Arg(t)[2]}]
  /\ Continue(t, <<>>)
  /\ UNCHANGED <<reading, told, change, jobs>>

Dispatch(l) ==
  IF l \in List THEN With("callback", <<Do("notify", l)>>) ELSE <<>>

dispatchPowerModeChangedEvent == Dispatch("modeChanged")

dispatchDeepSleepTimeoutEvent == Dispatch("deepSleepTimeout")

dispatchRebootBeginEvent == Dispatch("reboot")

dispatchThermalModeChangedEvent == Dispatch("thermal")

dispatchNetworkStandbyModeChangedEvent == Dispatch("networkStandby")

Each(l, op(_)) ==
  [i \in 1 .. Cardinality(observers[l]) |-> op(SetToSeq(observers[l])[i])]

\* The observers are called one after the other with _callbackLock held.
Notify(t) ==
  /\ At(t, "notify")
  /\ LET l == Arg(t)
         call(o) == Do("call", <<l, o>>)
     IN Continue(t, Each(l, call))
  /\ UNCHANGED api

\* submitPowerModePreChangeEvent takes no lock: the list can change on the way.
submitPowerModePreChangeEvent(t) ==
  /\ At(t, "submit")
  /\ LET job(o) == Do("job", o)
     IN Continue(t, IF "preChange" \in List THEN Each("preChange", job)
                                            ELSE <<>>)
  /\ UNCHANGED api

\* Variant of SubmitJob: the job is queued for no observer.
SubmitNullJob(t) ==
  /\ At(t, "job")
  /\ jobs' = jobs \cup {"null"}
  /\ Continue(t, <<>>)
  /\ UNCHANGED <<observers, reading, told, change>>

SubmitJob(t) ==
  /\ At(t, "job")
  /\ jobs' = jobs \cup {Arg(t)}
  /\ Continue(t, <<>>)
  /\ UNCHANGED <<observers, reading, told, change>>

----------------------------------------------------------------------------
(* The calls.                                                              *)

\* What depends on values that are not modelled.
Maybe(body) == <<Do("maybe", body)>>

Query == With("api", <<Do("query", 0)>>)

\* Variant of GetThermalState: without the mutex.
GetThermalStateUnlocked == With("api", <<Do("thermal", 0)>>)

GetThermalState == With("api", With("therm", <<Do("thermal", 0)>>))

SetOvertempGraceInterval == With("api", With("grace", <<Do("query", 0)>>))

Reboot == dispatchRebootBeginEvent \o Query

\* A failure is not announced.
SetNetworkStandbyMode == Query \o Maybe(dispatchNetworkStandbyModeChangedEvent)

\* Set, read back, read the standby mode, and maybe set that, one after the
\* other.
setWakeupSourceConfig ==
  Query \o Maybe(Query \o Maybe(Query \o Maybe(SetNetworkStandbyMode)))

Ack == With("api", <<Do("ack", 0)>>)

\* Nothing to do, a redundant request, or a change of the power state.
SetPowerState ==
  With("self", Query \o Maybe(With("api", <<Do("begin", 0)>>)
                                \o <<Do("submit", 0), Do("schedule", 0)>>))

\* Told unless the platform refuses.
setDevicePowerState == Maybe(dispatchPowerModeChangedEvent)

Request(call) ==
  CASE call \in Queries -> Query
    [] call \in Acks -> Ack
    [] call = "GetThermalState" -> GetThermalState
    [] call = "SetOvertempGraceInterval" -> SetOvertempGraceInterval
    [] call = "Reboot" -> Reboot
    [] call = "SetNetworkStandbyMode" -> SetNetworkStandbyMode
    [] call = "SetWakeupSourceConfig" -> setWakeupSourceConfig
    [] call = "SetPowerState" -> SetPowerState

Return(t) ==
  /\ At(t, "query") \/ At(t, "thermal")
  /\ Continue(t, <<>>)
  /\ UNCHANGED api

MaybeGoOn(t) ==
  /\ At(t, "maybe")
  /\ \E body \in {<<>>, Arg(t)} : Continue(t, body)
  /\ UNCHANGED api

\* The change in progress, if there is one, is cancelled.
Begin(t) ==
  /\ At(t, "begin")
  /\ change' = FALSE
  /\ Continue(t, <<>>)
  /\ UNCHANGED <<observers, reading, told, jobs>>

\* Schedule runs the handler at once when nobody has to acknowledge.
Schedule(t) ==
  /\ At(t, "schedule")
  /\ \E wait \in BOOLEAN :
       /\ change' = wait
       /\ Continue(t, IF wait THEN <<>> ELSE setDevicePowerState)
  /\ UNCHANGED <<observers, reading, told, jobs>>

\* The last acknowledgement runs the handler, under _apiLock.
AckStep(t) ==
  /\ At(t, "ack")
  /\ \E last \in {FALSE, change} :
       /\ change' = (change /\ ~last)
       /\ Continue(t, IF last THEN setDevicePowerState ELSE <<>>)
  /\ UNCHANGED <<observers, reading, told, jobs>>

\* An observer is called and may call back.
ObserverCalled(t) ==
  /\ At(t, "call") \/ At(t, "preChangeCall")
  /\ \E body \in {<<>>} \cup {Request(call) :
                    call \in IF At(t, "call") THEN CallbackCalls ELSE JobCalls} :
       Continue(t, body)
  /\ UNCHANGED api

TakeOuterLock(t) ==
  /\ Acquire(t)
  /\ UNCHANGED api

----------------------------------------------------------------------------
(* What the threads do.                                                    *)

ClientCalls(t) ==
  /\ \/ \E call \in Calls : Start(t, Request(call))
     \/ \E l \in List, o \in Observer :
          Start(t, RegisterCall(l, o)) \/ Start(t, UnregisterCall(l, o))
  /\ UNCHANGED api

\* Variant of pollThermalLevels: it asks with the sensor's mutex held.
pollThermalLevelsNested ==
  /\ Start(Poll, Query \o With("therm", <<Do("sensor", 0)>> \o Maybe(SetPowerState)))
  /\ UNCHANGED api

\* The poll asks for the power state, reads the sensor and, with the interval's
\* mutex held, may ask for deep sleep (onDeepSleepForThermalChange).
pollThermalLevels ==
  /\ Start(Poll, Query \o With("therm", <<Do("sensor", 0)>>)
                       \o With("grace", Maybe(SetPowerState)))
  /\ UNCHANGED api

\* A new level is told before the reading is stored; the read may fail.
onThermalTemperatureChanged ==
  /\ At(Poll, "sensor")
  /\ \/ \E new \in Reading :
          /\ new.level # reading.level
          /\ Continue(Poll, <<Do("tell", new)>> \o dispatchThermalModeChangedEvent
                              \o <<Do("store", new)>>)
          /\ UNCHANGED <<reading, told>>
     \/ \E new \in Reading :
          /\ new.level = reading.level
          /\ reading' = new
          /\ told' = new
          /\ Continue(Poll, <<>>)
     \/ Continue(Poll, <<>>) /\ UNCHANGED <<reading, told>>
  /\ UNCHANGED <<observers, change, jobs>>

TellReading ==
  /\ At(Poll, "tell")
  /\ told' = Arg(Poll)
  /\ Continue(Poll, <<>>)
  /\ UNCHANGED <<observers, reading, change, jobs>>

StoreReading ==
  /\ At(Poll, "store")
  /\ reading' = Arg(Poll)
  /\ Continue(Poll, <<>>)
  /\ UNCHANGED <<observers, told, change, jobs>>

onDeepSleepTimerWakeup ==
  /\ Start(Sleep, dispatchDeepSleepTimeoutEvent \o SetPowerState)
  /\ UNCHANGED api

\* onDeepSleepUserWakeup and onDeepSleepFailed.
onDeepSleepEnds ==
  /\ Start(Sleep, SetPowerState)
  /\ UNCHANGED api

AckTimeout ==
  /\ change
  /\ change' = FALSE
  /\ Start(Timer, setDevicePowerState)
  /\ UNCHANGED <<observers, reading, told, jobs>>

RunJob ==
  /\ \E o \in jobs :
       /\ jobs' = jobs \ {o}
       /\ Start(Worker, <<Do("preChangeCall", o)>>)
  /\ UNCHANGED <<observers, reading, told, change>>

----------------------------------------------------------------------------
Step(t) ==
  \/ TakeOuterLock(t)
  \/ Register(t) \/ Unregister(t) \/ Notify(t) \/ ObserverCalled(t)
  \/ submitPowerModePreChangeEvent(t) \/ SubmitJob(t)
  \/ Return(t) \/ MaybeGoOn(t)
  \/ Begin(t) \/ Schedule(t) \/ AckStep(t)

Next ==
  \/ \E t \in Thread : Step(t)
  \/ \E t \in Client : ClientCalls(t)
  \/ pollThermalLevels \/ onThermalTemperatureChanged \/ TellReading
  \/ StoreReading
  \/ onDeepSleepTimerWakeup \/ onDeepSleepEnds
  \/ AckTimeout \/ RunJob

Spec == Init /\ [][Next]_vars

----------------------------------------------------------------------------
(* Properties.                                                             *)

\* The variables have their types.
TypeOK ==
  /\ observers \in [List -> SUBSET Observer]
  /\ {reading, told} \subseteq Reading
  /\ change \in BOOLEAN
  /\ jobs \subseteq Observer

\* An observer that is about to be called, or is being called, by a dispatch
\* is in its list, so the plugin still holds its reference.
CalledIsRegistered ==
  \A t \in Thread : \A i \in DOMAIN todo[t] :
    todo[t][i].op = "call"
      => todo[t][i].arg[2] \in observers[todo[t][i].arg[1]]

\* GetThermalState never returns a temperature from before the reading that the
\* observers were told last.
ThermalStateAsTold ==
  \A t \in Thread : At(t, "thermal") => reading.temperature = told.temperature

\* Two ways to a deadlock are open: a thread whose observer asks from within a
\* notification, under _callbackLock, and SetOvertempGraceInterval, which waits
\* for the interval's mutex with _apiLock held.
Entangled(t) ==
  \/ Holds(t, "callback")
  \/ Holds(t, "api") /\ todo[t][1].arg = "grace"

\* Threads that all wait for each other's locks, or for their own, come to that
\* in one of these two ways.
NoOtherLockCycle ==
  \A S \in (SUBSET {t \in Thread : Waiting(t) /\ ~Entangled(t)}) \ {{}} :
    ~ \A t \in S : \E u \in S : WaitsForLock(t, u)

=============================================================================
