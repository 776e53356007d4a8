# Power manager: TLA+ models and proofs

A verification development of the power manager plugin (`src/plugin`) and its
client library (`src/powercontroller`). It models the acknowledgement of a power
mode change, the mode change itself, deep sleep and its wakeup time, the
settings and their files, the thermal protection, the locks and notifications
of the API, and the client library. TLC checks small instances; TLAPS proves
what matters most of it for every value of the constants: the safety invariants
of all seven models, three action properties, a refinement, and the arithmetic
of the wakeup time.

Source paths are relative to the repository; `AckController.h:123` is a line of
`src/plugin/AckController.h`.

## 1. The system

A set-top box runs one `PowerManagerImplementation`. Its API arrives on the
threads of the COM-RPC server; a worker pool runs jobs and timers; the thermal
poll has a thread of its own; and the platform's `SetDeepSleep` blocks the
thread that calls it for as long as the device sleeps.

| Component | State | Operations | Talks to |
|---|---|---|---|
| AckController (`AckController.h`) | `_pending`, `_running`, `_handler`, `_timeout`, `_timerJob` | AckAwait, Ack, Schedule, Reschedule, timer job, destructor | worker pool; its owner through the completion handler |
| Mode change (`PowerManagerImplementation.cpp:302-508, 861-969`) | `_modeChangeController`, `_modeChangeClients`, `selfLock`, `_apiLock` | SetPowerState, completion handler, PowerModePreChangeComplete, DelayPowerModeChangeBy, Add/RemovePowerModePreChangeClient | AckController, PowerController, DeepSleepController, clients |
| DeepSleepController (`DeepSleepController.cpp`) | `_deepSleepState`, `_abortState`, `_deepSleepDelayJob`, start time | Activate, performActivate, delay job, retry loop, Deactivate | platform; calls SetPowerState after a wakeup or failure |
| DeepSleepWakeupSettings (`DeepSleepController.cpp:41-180`) | timeout, time zone table | timeout, getWakeupTime | Settings, clock, SysMgr |
| PowerController (`PowerController.cpp`) | `_settings`, last known state, wakeup time stamp | init, SetPowerState, ActivateDeepSleep, network standby, wakeup sources | platform, Settings, DeepSleepController |
| Settings (`Settings.cpp`) | one versioned record in `/opt`, a copy in RAM | Load, migration, Save | file system |
| ThermalController (`ThermalController.cpp`) | level, temperature, thresholds, zone timers, two mutexes | poll thread, getters and setters | platform; SetPowerState, reboot, declock |
| RebootController (`RebootController.cpp`) | uptime threshold, heartbeat | heartbeat, threshold | platform reboot |
| Notifications (`PowerManagerImplementation.cpp:82-189, 496-508`) | six lists of observers under `_callbackLock` | Register, Unregister, dispatch | clients, on the dispatching thread |
| Client library (`power_controller.cpp`) | `_instance`, `_connected`, `_powerManagerInterface`, seven callback lists, pid file monitor | Init, Term, Connect, Disconnect, requests, Register/Unregister of callbacks | plugin by COM-RPC, the application's callbacks |
| Plugin shell, HAL wrappers, PowerUtils, LambdaJob | none of their own | forwarding, conversions | |

### How they interact

1. A request enters `SetPowerState`. `selfLock` admits one request at a time. If
   it is not redundant it cancels the change in progress
   (`_modeChangeController.reset()`), creates an AckController that awaits every
   registered client, tells the clients, and calls `Schedule` with a completion
   handler. An asynchronous request then gives `selfLock` back, a synchronous
   one (DEEP_SLEEP to LIGHT_SLEEP) keeps it until its handler ran.
2. The handler runs on the requester's thread (nobody to wait for, or the
   synchronous request), on the thread of the last client that acknowledges, or
   in the timer job. It sets the platform, then the settings, then tells the
   clients, then activates deep sleep, then drops its reference on the plugin.
   When the controller is destroyed first it runs with `isAborted`, and only
   drops the reference.
3. `Activate` submits a job. The job, or the delay job it schedules, waits,
   calls `SetDeepSleep`, and reports the wakeup or the failure by calling
   `SetPowerState` itself. A request that leaves DEEP_SLEEP runs `Deactivate`
   concurrently with all of this.
4. Notifications are delivered on the thread that has something to tell, with
   `_callbackLock` held: a completion handler that an acknowledgement triggered
   delivers with `_apiLock` held as well, the thermal poll with `_therm_mutex`.
   `OnPowerModePreChange` alone is delivered by jobs.
5. Completion handlers and API calls both change and save the settings, the
   former without `_apiLock`. A restart of the plugin loads them from `/opt`,
   and from `/tmp` the state that was saved when the device started.
6. In an application, Thunder's Link thread reports that the plugin comes and
   goes, the pid monitor closes and opens the channel when Thunder is a new
   process, and notifications arrive on a thread of COM-RPC.

### What is hard, and what makes each component correct

- **AckController** has no lock. `Ack` and `Reschedule` run under the owner's
  `_apiLock`, `Schedule` and the timer job do not. Correct: the handler runs at
  least once, not early, never on a freed object, never twice at the same time,
  and an aborted change is never carried out.
- **Mode change**: nested requests, cancellation against a timer that already
  holds the controller, two handlers at once, locks that every early return
  must give back. Correct: a request always returns; a change always ends; an
  aborted or ignored request never touches the settings; clients that left are
  not waited for; the synchronous wake is not overtaken.
- **DeepSleepController**: a job that starts late, an abort flag that the next
  activation clears, retries, a delay job that is revoked by the code it calls.
  Correct: the state is never stuck in progress, the jobs end, wakeups are not
  lost, nobody waits for himself.
- **Settings**: deaths between two writes, files that cannot be opened or read,
  the platform that refuses, two threads that save. Correct: at rest the file
  holds the settings and the platform is in the state they say; the state before
  the reboot is the one saved when the device started.
- **Network standby and wakeup sources**: two ways to set the same thing, one of
  them in several sections of a lock. Correct: they agree at rest.
- **ThermalController**: three hysteresis loops on timers shared between polls,
  polls that do not look, a wall clock that is set, a clock rate that cannot be
  set. Correct: no request without a cause, no reboot of a box that was not sent
  to deep sleep, a cause that lasts leads to a request, no oscillation of the
  clock rate.
- **Locks and notifications**: five locks and callbacks that call the API.
  Correct: no cycle of waits; who is called is registered; who is told of a
  thermal level and asks for the temperature gets none from before it.
- **Client library**: three locks, registration against connection changes,
  `Term` against the monitor thread and against callbacks. Correct: an interface
  is not released under a use of it, a removed callback is not called, lists are
  subscribed again after any restart, nobody waits in a circle. The code keeps
  the first for requests, not for the registration of callbacks; the second not
  under `Term`, nor for callbacks registered without `Init`; the last not where
  callbacks make requests and where `Term` joins the monitor (section 3).

`PROJECT.json` lists each hazard at its line with the properties that cover it.

## 2. The modules

| Module | Models | Depends on |
|---|---|---|
| `AckController` | `AckController.h`, every shared access a step | |
| `MCAckController` | instances of it | `AckController` |
| `AckController_proof` | proofs about it | `AckController`, TLAPS |
| `PowerRequests` | abstract: what a request may do | |
| `PowerModeChange` | `SetPowerState`, its handler, the clients' API, composed with `AckController` | `AckController`, `PowerRequests` |
| `MCPowerModeChange` | instances of it | `PowerModeChange` |
| `PowerModeChange_proof` | proofs about it, and of the refinement | `PowerModeChange`, `AckController_proof` |
| `DeepSleepController` | `DeepSleepController.cpp` between the mode changes | |
| `MCDeepSleepController` | instances of it | `DeepSleepController` |
| `DeepSleepController_proof` | proofs about it | `DeepSleepController`, TLAPS |
| `DeepSleepWakeupSettings` | the wakeup time | |
| `PowerSettings` | `Settings.cpp`, `PowerController.cpp`, wakeup sources, starts and deaths | `Threads`, `DeepSleepWakeupSettings` |
| `MCPowerSettings` | an instance of it | `PowerSettings` |
| `PowerSettings_proof` | proofs about it, and about the wakeup time | `PowerSettings`, `Threads_proof` |
| `ThermalController` | `ThermalController.cpp` and the clock rates of its two HALs | |
| `MCThermalController` | an instance of it | `ThermalController` |
| `ThermalController_proof` | proofs about it | `ThermalController`, TLAPS |
| `Threads` | straight line code under locks: threads as stacks of instructions | |
| `Threads_proof` | lemmas about it, for any instructions and locks | `Threads`, TLAPS |
| `PluginApi` | the calls, the notifications and the threads of the plugin, with their locks | `Threads` |
| `MCPluginApi` | an instance of it | `PluginApi` |
| `PluginApi_proof` | proofs about it | `PluginApi`, `Threads_proof` |
| `ClientLibrary` | `power_controller.cpp` | `Threads` |
| `MCClientLibrary` | instances of it | `ClientLibrary` |
| `ClientLibrary_proof` | proofs about it | `ClientLibrary`, `Threads_proof` |

Definitions named "Variant of X" in a comment are faulty versions of `X`, one
for every property that passes. They are in no specification; replacing `X` by
its variant makes TLC refute the property, which shows that the property
depends on what the code does there.

### AckController

`ctl[t]` is the object of transaction `t`: the members of the class, the pool's
view of its timer job (`timerJob`, `due`), and history (`by`: who ran the
handler; `busy`: which of these runs has not returned). `sched[t]` and `timer[t]` are the program
counters of the thread in `Schedule` and of the timer job, `call` the one API
call that holds `_apiLock`. `Schedule` is six steps (test, `_running`,
`_handler`, read of `_timeout`, write of it, submit), `Ack` three, the timer
job four.

### PowerModeChange

Extends AckController: a call of `SetPowerState` and the transaction it may
create share the name `t`. `req[t]` is the thread in `SetPowerState`, `step[t]`
the place of its completion handler. The actions of AckController that run a
handler are each combined with the start of the handler's steps, the ones that
return from it with the end (`HandlerReturns`); the others leave the new
variables alone. Deep sleep is one flag here. `PowerRequests` is the abstract
specification: a request is asked, then ignored or accepted; an accepted one
waits, alone, then is aborted or committed, and the power state changes only to
the goal of a committed one. `StatusOf` maps a thread and its controller to
that status, and `ImplementsRequests` is the refinement.

### DeepSleepController

`act[a]` follows the activation job of mode change `a` and its delay job
through `performActivate` and `enterDeepSleepNow`; `wake` is the request that
holds `selfLock` and runs `Deactivate`, with `by` telling whether it is a user
or an activation's own job; `state`, `abort` and `delayJob` are the shared
members. The mode changes are reduced to what the controller sees of them: the
power state is stored, and only later (the clients are told in between)
`Activate` is called; leaving DEEP_SLEEP is accepted after `Deactivate` and
completes at once (synchronous) or later (`waking`).

### Threads

`todo[t]` is what thread `t` still has to do: a sequence of instructions. A
call is an instruction that puts the callee's instructions in front, `With(l,
body)` is a body between `lock` and `unlock`. So a function of the code becomes
an operator that returns a sequence (`SetPowerState`, `ConnectBody`), and each
place where it touches shared state an action `At(t, "...")`. A lock is taken
in one step with the first instruction under it and given back with the last:
between the two the other threads see nothing that the merged step would hide.
A thread holds a lock while the next thing it will do with it is to give it
back (`GivesBack`). When a nested call takes a lock that its caller holds, its
`lock` and `unlock` are renamed (`Under`): `Again` has no effect, `Own`, for the
locks in `Mutex`, which do not nest, blocks for ever. `NoLockCycle` is the
absence of a cycle of threads each of which waits for a lock the next one holds.

### PluginApi

Threads of a client, the poll, the deep sleep jobs, the ack timer and the
worker pool, under `_apiLock`, `_callbackLock`, `selfLock`, `_therm_mutex` and
`_grace_interval_mutex`. A call is kept down to its locks, the notifications it
delivers and the choices it makes (`Maybe`); state is the lists of observers,
the thermal reading and whether a change waits for acknowledgements. A reading
is a level, whose change is told, and a temperature, which is what
`GetThermalState` answers. An observer may make calls from a notification, on
the thread and under the locks of the dispatch (`CallbackCalls`). The poll takes
the interval's mutex also after a read that failed, which the code does not:
one more schedule, of a lock that is given back at once.

### ClientLibrary

The statics (`instance`, `initialized`), the members of `PowerController`
(`connected`, `iface`, `shutdown`), of `CallbackList` (`cbs`, `registered`) and
of `PIDFileMonitor` (`monitor`, `stop`, `pid`). `world` is Thunder: its pid, the
activation of the plugin, the channel the library has open, what the Link
thread reported and which lists the plugin has observers for. `iface` is the
activation it was obtained from, so that an interface of a plugin that is gone
can be told from one of a plugin that runs. Each C function is an operator
(`PowerController_Init`, `Request`, `RegisterApi`, ...). `raced` remembers that a
list was updated under two different locks at once, `torn` that `Term` deleted
the lists while one was gone through. The call of a null interface ends the
process, so it has no step; `InvokedInterfaceHeld` is about the state before it,
and says when that state is not reached.

### PowerSettings and DeepSleepWakeupSettings

`opt` and `ram` are the two files, `settings` the object, `hw` the platform.
`PluginStarts` runs `Settings::Load` and `PowerController::init` step by step;
then any thread runs API calls or completion handlers, several of the latter at
the same time, as `change_hardware` shows they do. The plugin may die at any step
and leaves both files and the platform, the device leaves only `/opt`. Files may
fail to open, to be read or to be written, the platform may refuse or not
answer. `excuses` records what has gone wrong and not been put right since: the
properties say what must hold in spite of everything else. Two excuses are
those of overlapping handlers: `raced`, one set the platform between another
one's setting and storing its state, and `stale`, one looked at the state before
another one had stored its own. The next handler that runs alone ends both.

`DeepSleepWakeupSettings` is the arithmetic of the time the device sleeps. The
handler takes that time (`ActivateDeepSleep`); a job then reads the override
file again and may replace it by a number of seconds (`performActivate`), so
`Clocks`, what the clock, the file and the zone say, is asked twice. What the
job ends in, and its attempts, are in `DeepSleepController`.

### ThermalController

A step is a poll, `PollInterval` seconds after the one before; the times that
the code marks are ages, capped at `Cap`. They are read from the wall clock,
which may be set by one of `Steps`, once, forward or back (`ClockSet`): forward
it ends an interval early, back it makes an age negative and an interval longer.
`speed` is the rate the class believes in, `cpu` the one the CPU runs at: they
differ after a `SetClockSpeed` that failed. `initializeThermalProtection` is the
initial predicate, over the build, the RFC settings and what the platform
knows about its clock rates. `pollThermalLevels` evaluates `deepSleepIfNeeded`,
`rebootIfNeeded` and `declockIfNeeded`; `Skipped` is a poll that does not, in
deep sleep or without a reading.

## 3. What the runs check

| Run | Instance | Shows |
|---|---|---|
| `ack` | 2 transactions, 2 clients, time 0..2 | types; the handler's triggers are exclusive except last-ack/timer; runs of a handler are serial; it is never early; no use after free; every `Schedule` ends in a run of its handler |
| `change_safety` | 2 requests, 1 client, 3 power states | only the current controller waits (unless the timer holds an old one); nobody waits for a client that left; the synchronous wake blocks others; refinement of `PowerRequests` |
| `change_liveness` | 2 requests, 1 client, from DEEP_SLEEP | every request returns, every change ends and gives back `selfLock` |
| `deep_sleep` | 2 activations, 2 tries, any number of user requests | `InProgress` is never stuck; no self-revoke; every activation ends; wakeups are handled |
| `settings` | 2 calls or handlers, 3 starts, 1 thing wrong at a time | the file, the platform and the wakeup sources follow the settings; the state before the reboot survives the plugin's deaths; the time since the wakeup; the maintenance window |
| `thermal` | both builds, 2 RFC settings, 2 lists of clock rates, 7 temperatures, the clock set 1 poll back or 2 forward | requests are justified, no reboot without deep sleep, a warm box gets its request, the clock rate does not oscillate, and recovers unless a change of it failed |
| `api` | 1 client, poll, sleep job, 1 thread of the pool for the other jobs and the ack timer, 3 lists, 1 observer that may ask | dispatch calls only registered observers; who is told a level reads no older temperature, from within the notification too; no cycle of locks but the two below |
| `client` | 1 application thread with 3 calls, callbacks that make a request, monitor, Link, Notifier, 2 activations of the plugin, 1 restart of Thunder | requests, callbacks and subscriptions survive connection changes, and so does a registration unless the two sides raced; no cycle of locks but with a callback's request in it |

And where the code does not keep what a comment or a test of it says (each is a
finding in `PROJECT.json`, with the words that say it):

| Run | Violated | Because |
|---|---|---|
| `ack_once` | `HandlerAtMostOnce` | `_running` is tested and reset in two steps, by `Ack` and by the timer job |
| `change_hardware` | `SettingsMatchHardware` | two handlers, one of a cancelled request in the timer's thread, interleave |
| `api_deadlock` | `NoLockCycle` | in the instance of `api`: `SetOvertempGraceInterval` takes the poll's mutex under `_apiLock`; the poll, with that mutex held, requests deep sleep, which needs `_apiLock` |
| `client_deadlock` | `NoWaitCycle` | a callback, called under `_callbackLock`, makes the request the header asks for, which needs `_cApiLock`; a thread that registers another callback has the two the other way round |

The passing properties are drawn along further disagreements, which the models
contain. Each property leaves out exactly the case named here, and its comment
says so:

- `NoRebootWithoutDeepSleep`: the comments on the reboot thresholds
  (`ThermalController.h:66-67`, `96-97`) say that its timer starts two minutes
  late, to give deep sleep a chance. There is no delay: both zones have the same
  interval, and a first reading above both thresholds has both requests come at
  one poll. The property promises no more than that deep sleep is asked for at
  that poll or before.
- `CoolEndsAtNormal`: a rate that could not be set is recorded as set
  (`ThermalController.cpp:375-379`) and not tried again, so a cool box can stay
  slow. The property is about the CPU (`cpu`) and supposes that none of the
  changes failed.
- `WakesForMaintenance`: the file in `/tmp` is read a second time
  (`DeepSleepController.cpp:394-398`), as seconds and without the limit, also
  over a time a client set. A time that came from there (`forced`) is not bounded.
- `NoOtherLockCycle` of the plugin: besides the cycle of `api_deadlock`, an
  observer, called under `_callbackLock`, may ask for something that needs
  `_apiLock`, while an acknowledgement under `_apiLock` has the completion handler
  tell the observers. Its instance has both; a third cycle would violate it.
- `CalledIsInList`: `Term` deletes the lists of callbacks without their lock,
  while the loss of the plugin may be being told (`torn`). And it speaks of
  callbacks that were taken out: `Register` needs no `Init`, `UnRegister` does,
  and without it reports success and leaves the callback where it is.
- `InvokedInterfaceHeld`: callbacks are registered under `_callbackLock`,
  the interface this uses is released under `_internalApiLock`; when the two
  meet (`raced`) a released interface is called.
- Not in `NoOtherLockCycle` of the library, as it is no lock: `Term` joins the
  monitor thread with `_internalApiLock` held, which that thread needs to
  reconnect. `NoWaitCycle` counts that wait too, but TLC stops at the shorter
  cycle of `client_deadlock`.

Further schedules that the models have and no property tells apart: an
acknowledgement between `Schedule`'s test of `_pending`, its `_running = true`
and its store of `_handler`; a delay granted between its read and its write of
`_timeout`; a request that is ignored as redundant because the last change's
controller is still there; a device that sleeps although its power state has
left DEEP_SLEEP (`ClearAbort`); two saves that cross and leave the older image in
the file. `PROJECT.json` lists them as hazards.

### Bounds, and why they are enough

- Two transactions: the races are between one controller's threads, or between
  a controller and the one that replaces it. A third adds no new pair.
- Two clients in AckController: one that is last and one that is not. One client
  in PowerModeChange, which registers, acknowledges, delays and leaves.
- `MaxTime`: offsets are 0 or 1, delays 1, a deadline beyond the last instant is
  the last instant. Two ticks are enough for a deadline granted before, at and
  after another.
- Three power states: the synchronous pair DEEP_SLEEP and LIGHT_SLEEP, and one
  more. `change_safety` starts in any but LIGHT_SLEEP, whose requests are those
  of a device that is ON. `change_liveness` starts in DEEP_SLEEP, where both
  kinds of request begin, without delays, and a client that leaves stays away
  (`LivenessNext`).
- Two activations, one whose end races with the next one's start; two tries, so
  that one is retried and one is the last. The code has five.
- `settings`: two calls are two that interleave, calls or
  handlers, or one that follows a fault. A handler that is `stale` and shows it
  needs a third, so that excuse of `AwakeSinceLastWakeup` is covered by the
  theorem only. The build is one that has BootToStandby, which the file
  `/tmp/pwrmgr_restarted` may turn off: so it does what the other one does too.
  The three starts are one of the device, one that follows a death during the first,
  and one that finds what the second left. With `MaxFaults = 1` a fault can
  happen again once it has been put right. `Word` is 2^20 instead of 2^32: it is
  above `limit`, and the file's number exceeds it as minutes and `limit` as seconds.
  The clock is at the start of the window, with a zone, or there is that file; the
  theorem has all clocks, zones and numbers. Power states ON and DEEP_SLEEP are
  requested (BootToStandby adds STANDBY); the device starts in a state the plugin
  does not know, which is ON to it, with one of the two sources set.
- `thermal`: temperatures lie in each band of the
  builds' thresholds, RFC is off or gives intervals and a rate, the list of rates
  is empty or has three; grace intervals are zero, one and two polls (600 s cut
  to 60), ages are capped at the longest of them, and the clock's two steps end
  an interval at once or make an age negative. It is set once: a second step
  back repeats the first, one forward undoes it.
- `api`: one client is enough, as every other thread takes the same locks; the ack
  timer shares a thread of the pool with the pre-change jobs, which only
  acknowledge, as the client does. Of the six lists, which the code treats
  alike, there are the one read without a lock, the one of the completion handler
  and the one told under `_therm_mutex`. An observer asks for the power state, a
  query under `_apiLock`, or for the temperature, under `_therm_mutex` too, the
  lock its notification may hold.
- The runs of `ClientLibrary`: three calls reach every pair of a call and a change of the
  connection, among them a registered callback that is removed under one, and a
  `Term` and `Init`; the second activation or pid is the one an old interface can
  be confused with. Of the seven lists, the operational one and one the plugin
  notifies; callbacks are in the latter (`Used`), and in both in
  `client_deadlock`, which needs one activation. All requests of the library have
  the same shape, so one stands for them, from callbacks too.
- Symmetry of transactions and clients is used in `change_safety` only, and of
  clients in `settings`; neither checks liveness.

The runs of `DeepSleepController`, `PowerSettings` and `ClientLibrary` do not check
for deadlock: when their activations, or calls and starts, are used up nothing
is left to do. Those of `PluginApi` do not because the system really stops, as
`api_deadlock` shows, and `ClientLibrary` has that of `client_deadlock` and the join
in `Term`. `AckController` and `PowerModeChange` have
a stuttering action for the end (`Stopped`, `Finished`), so there TLC finds
deadlocks.

### Fairness

Weak fairness for every thread that has begun a call, for jobs that are due and
for time: the operating system schedules threads and the pool has free workers.
No client has to acknowledge, no owner has to cancel and no user has to wake the
device. `SetPowerState` gets strong fairness: its waits for `_apiLock` compete
with client calls, which are unbounded, so that it proceeds relies on a mutex
that does not starve it. The device wakes from sleep one day (timer). The two
liveness properties of `deep_sleep` are stated for the case that
`/tmp/deepSleepDelayTimer` does not exist: with that override `Deactivate` can
wait in `Revoke` for a delay job whose abort another activation cleared, and
that job, when it wakes up, waits for the `selfLock` that `Deactivate`'s caller
holds.

`thermal` has strong fairness for one action, a poll that reads
a temperature: the loop runs until the object is destroyed, and the platform
does not fail at every poll. The liveness properties suppose a temperature and a
power state that last; no fairness is asked of the environment, nor that
`SetClockSpeed` succeeds.

### External code

The worker pool is modelled from how the code uses it: `Revoke` drops a queued
job and waits for one that executes; `Reschedule` moves a queued job and has no
effect on any other; an invalid proxy is ignored. `SetDeepSleep` blocks until the
device wakes or `DeepSleepWakeup` is called. Races on a proxy object itself are
not modelled: it is one word.

`Core::CriticalSection` may be taken again by its owner, `std::mutex` and the
binary semaphore `selfLock` may not. Of `RPC::SmartInterfaceType` the least is
supposed: `Open` may fail; the Link thread reports a change some time after it;
`Close` reports the loss of the plugin on its own thread and waits for no report
under way; the interface of a plugin that is gone answers nothing. A file is
written by one `write`, and one that the device loses before `fsync` is a death
before it. The MFR library answers with rates made of the same list as the
kernel's.

## 4. What is proved

Every theorem is a property of the specification that TLC checks, for any value
of the constants that satisfies the named assumptions. The assumptions say
which sets the constants belong to; TLC evaluates them in every run. Nothing in
the proofs uses that a set of threads, clients, requests or temperatures is
small, and in most of them not even that it is finite.

| Module | Theorem | Property | Run |
|---|---|---|---|
| `AckController_proof` | `TypeCorrect`, `TriggersAreExclusive`, `HandlerIsSerial`, `NobodyUsesAFreedController`, `CompletionIsJustified` | the five invariants of the run | `ack` |
| | `NoHandlerIsLost` | a scheduled controller that waits for nobody has a thread or a timer job that will run its handler | |
| `PowerModeChange_proof` | `PMTypeCorrect`, `OnlyTheCurrentWaits`, `SyncExcludesOthers`, `OnlyRegisteredAreAwaited` | the four invariants of the run | `change_safety` |
| | `ModeChangeImplementsRequests` | refinement of `PowerRequests` | `change_safety` |
| | `ModeChangeUsesAckController`, `SelfLockSerialisesSchedules` | what `AckController` supposes of its owner | |
| `DeepSleepController_proof` | `TypeCorrect`, `InProgressEnds`, `NoSelfRevoke` | the invariants of the run | `deep_sleep` |
| `PowerSettings_proof` | `SettingsTyped`, `SettingsSaved`, `StateBeforeReboot`, `PlatformAgrees`, `StandbyAgrees`, `TimeSinceLastWakeup`, `WakesInTime` | the seven invariants of the run | `settings` |
| | `WakesInWindow` | the operators that `WakesForMaintenance` uses | `settings` |
| `ThermalController_proof` | `TypeCorrect`, `RequestsAreJustified`, `FasterOnlyAfterGrace`, `DeepSleepComesFirst` | the invariant and the three action properties | `thermal` |
| `PluginApi_proof` | `ApiTypeCorrect`, `CalledAreRegistered`, `ReadingsAreAsTold`, `ApiLocksAreOrdered` | the four invariants | `api` |
| `ClientLibrary_proof` | `ClientTypeCorrect`, `InterfaceIsHeld`, `CalledAreInList`, `SubscriptionsSurvive`, `LocksAreOrdered` | types, the interface in use, callbacks, subscriptions, locks | `client` |

### The arguments

**AckController** (`NoTxnAssumption`, `TimeAssumption`). That two runs of a
handler do not overlap depends on which threads are past which test. `IInv` is
the types, a predicate `Sound(t)` for each transaction that ties `by` and `busy`
to the program counters of its three threads and to `running`, `timerJob` and
`life` (for instance: the timer thread is past `wPtr.lock()` only while the job
executes, and then the object lives), and `CallSound`, which ties the API call
to the controller it works on. Each action has a lemma for types and one for
`Sound` of its own transaction; one lemma frames the others. For
`CompletionIsJustified` two more facts are needed: nobody is added to `_pending`
once `Schedule` has tested it, so that it stays empty after the last
acknowledgement; and a job executes only when it is due.

**PowerModeChange** (`PowerAssumption`, and those above). Each step is one of
AckController's or leaves its variables alone (`AckStep`): so its invariant holds
in the plugin, without being proved again. `Serial(t)` adds what `selfLock`
gives: the place of a thread in `SetPowerState` against the life of its
controller and the progress of `Schedule`. From it follow that two requests are
never both between the creation of a controller and the return of `Schedule`,
that the synchronous wake excludes the others, and that the current controller
is the one whose owner may still be at work. The refinement is proved action by
action: `StatusOf` of every thread stays, or one thread's moves along one edge of
`PowerRequests` (`MapsTo...`); the steps of AckController that end in a run of the
handler map to a commit, those of a destructor to an abort.

**DeepSleepController** (`DeepSleepAssumption`). `NoStuckInProgress` needs to know
that the job ended by `WakeAccepted` is the one that runs `Deactivate`, not one at
work; `NobodyRevokesItself` needs to know that the job the proxy names has not
yet released it, or was revoked. `IInv` adds these two facts.

**PowerSettings** (`SettingsAssumption`, `WordAssumption`). A property about what
holds when nothing is under way says nothing of the steps in between, so the
invariant `Inv` says of each what is still to be done for it to hold again. It
speaks of `Work(t)`, the set of operations thread `t` has still to do.

- `ShapeInv`: what a thread may have to do at all. The starting thread runs the
  rest of a start (`Starting`, from the `n`-th stage of `BootCode` on); the others
  the rest of a completion handler (`Completing`) or of a call (`Serving`), and
  only when the plugin has started. Of a time to sleep it says what
  `WakesForMaintenance` does.
- `TypeInv`: the types, that of the images which wait to be written among them.
- `SavedInv`: an image about to be written is that of the settings, or some
  thread will save once more; and the file is the settings' image, or a thread
  has a save or a write ahead, or the start has still to load it.
- `BootInv`: as long as there is no file in `/tmp`, the one in `/opt` has the
  state at the start of the device, the start is not past the stage that makes the
  file, and nothing else is written to `/opt`; a file in `/tmp` that is opened and
  not written yet has a write ahead; what is written to it is the state at the
  start.
- `PlatformInv`: the state in the settings is the platform's, or a handler has
  still to store the platform's, or the start has still to run `init`; and a
  state that any of the handlers is about to store is the one the platform has,
  unless one was `raced`.
- `StandbyInv`: wakeup sources that agree are network standby's mode, or a thread
  has an operation ahead after which they are (`Agreeing`).
- `AwakeInv`: the time of the last wakeup was taken, or is about to be; and, as long
  as nothing is `stale`, one handler at most is between its start and the update
  of the settings, so what it found at its start is still the state.

None of the parts but `ShapeInv` looks at the order of a thread's operations, and
`Replaces` and `Alters` say how a step changes the sets: so a step that does
not touch what a part is about is framed once (`SavedFrame`, `BootFrame`, ...),
and each action has one lemma for the parts it can disturb. None of the proofs
uses that `_apiLock` excludes anybody: the handlers do not take it, and the
invariants hold in spite of that, up to the excuses. The plugin's death at any
step is the hard case of `BootInv` and `SavedInv`.

TLC checked all seven parts on the instance of `settings` first. `PlatformInv`
was not inductive as it stood: without its first conjunct nothing ties the state
that a handler is about to store to the one it has set.

The arithmetic is by cases. The calculated time, before the zone's difference is
added, ends between 2 and 3 o'clock for every second of the day and random
number (`WakesInWindow`); the file in `/tmp`, as `getWakeupTime` reads it, gives
at most `limit` for every number in it, although the product with 60 wraps
before it is compared (a lemma only: `performActivate` may replace that time).
`WakesInTime` follows both from the handler to the platform, through the number
that the job may find in the file: then the time is that number and nothing
bounds it.

**ThermalController** (`IntervalAssumption`, `NumberAssumption`).
`RequestJustified` follows from `ZoneTimed`: a zone's timer has run no longer than
the last safe temperature is ago, unless no poll looked at that one. It holds for
all thresholds, of which RFC may give any, and for any step of the wall clock: one
forward ages both sides alike, one back only the timer, which is on the safe
side. The other two are proved under a
hypothesis on the configuration, because RFC may give values for which they are
false:

- `FasterOnlyAfterGrace` where declocking is on supposes `RatesInOrder`, that is
  minimal, scaled and normal rate ascend. `FoundRatesInOrder` proves it of the
  rates that either build finds in any sorted list when RFC gives none. Its
  invariant `ClockInv`: the one timer that serves both steps of the clock has run
  no longer than the last temperature of concern is ago.
- `DeepSleepComesFirst` supposes `Staggered`: the deep sleep logic has lower
  thresholds and the same interval. `BuildsAreStaggered` proves it of both builds'
  defaults. Its invariant `SpellInv`: whenever the reboot zone is held and was
  seen, deep sleep was tried in this spell or its zone is held and its timer is
  not younger, also when the clock is set forward. Nothing stronger holds: the
  two timers may be equal, and then both requests come at the same poll.
  The property leaves out a clock that was set back.

**Threads** (lemmas only). A program has a *discipline*: which operations run
with which lock held (`under`), which are put in front of what is done under a
lock (`inside`), which directly follow a `lock` (`first`). `Sound(s, Code, D)`
says that a stack of instructions keeps it, `Exclusive` that no two threads hold
one lock. The lemmas show that `Start`, `Continue`, `GiveBack` and `Acquire` keep
both, whatever balanced code is put in front, and how such code is composed
(`With`, concatenation). They are what "the lock protects the list" means here,
and are proved once, for the modules that use `Threads`.

`Traced` says of an instruction in a stack after a step where it comes from, the
old stack or what the operation goes on with, and that it is still done under the
locks it was to be done under. It is what the proofs of a stack's shape need
(`StackInv` of `ClientLibrary_proof`): that something comes first, or last, or
under a lock.

An *order* of the locks gives each lock a rank and says which operations are
never done with which lock held (`never`). It may name exceptions: pairs of locks
that are taken one under the other against their ranks (`pairs`), and locks under
which nothing need be in order (`outer`). `InOrder(s, O)` says of a stack that
each instruction in it is done under an outer lock (`Inner`) or is `Placed`: a lock
is taken with locks of a lower rank held, or with itself held when it nests, or
is an exception, and no operation is done under a lock it must not be;
`Orderly(b, K, O)` that `b` may be put in front where only the locks of `K` are
held. That no operation is out of place is what makes the rest inductive: an
operation goes on with code that takes further locks (`maybe`, `schedule`,
`new`), so the locks it may be done with have to be of a lower rank than these.
`ContinueInOrder`, `StartInOrder` and `AcquireInOrder` keep the order, and
`OrderNoCycle` shows that among threads that wait in a circle there is one that
waits within an exception: of those that do not, the one that waits for the lock
of the highest rank waits for one whose holder waits for a higher one.

**PluginApi** (`ApiAssumption`). The discipline `ApiLocks`; then an observer that
a dispatch is about to call is still in its list, since lists change under
`_callbackLock` and the dispatch gives it back after the last call; and the
reading a client sees is looked at right after it took `_therm_mutex`, which the
poll holds from telling the level to storing the reading (`Pending`). An observer
that asks on the poll's own thread, in between, blocks on that mutex, which does
not nest.

`ApiLocksAreOrdered` is the order `_grace_interval_mutex`, `selfLock`, `_apiLock`,
`_therm_mutex`, `_callbackLock`, with the two hazards as its exceptions
(`Entangled`): an observer that calls the API takes `_apiLock`, `selfLock` or
`_therm_mutex` under `_callbackLock` (`outer`), and `SetOvertempGraceInterval` takes
the poll's mutex under `_apiLock` (`pairs`). It has no hypothesis on the calls: the
cycles are there, and each is of one of the two kinds.

**ClientLibrary** (`CallsAssumption`, `LocksAssumption`). The discipline
`ClientLocks`: the interface is written under `_internalApiLock`, and fetched and
used under it by requests; callbacks are removed and called under `_callbackLock`.
An observer is registered in the plugin, or unregistered, under either of the two
locks, so for the interface it uses `InterfaceIsHeld` takes `ListInv`, below. `ClientInv`
adds the types of the library and of Thunder, and `Invoked`: a request in the
plugin is the first thing its thread has to do, and its interface is the
library's. Callbacks that make requests are
included: all theorems hold for any `CallbackCalls`, also where the model has
deadlocks.

`CalledAreInList`: nobody but the thread that goes through a list is about to call
its callbacks, since it holds `_callbackLock`; and a thread that removes one holds
that lock too, and goes through no list itself (`Untold`, `RemovedAlone`). `Delete`,
the end of `Term`, removes all of them without the lock; what is left of a
dispatch then sets `torn`, and the property ends there.

`SubscriptionsSurvive`, that after any number of restarts of the plugin and of
Thunder, and of instances that come and go, the plugin knows every list with a
callback when nothing is under way. A list is registered in steps: the test in
`RegisterNotificationInternalLocked`, the plugin's answer, `_registered`; so the
invariant `SubscribeInv` says of each state in between who will do what is still
missing. It has four parts:

- `StackInv`, of what each thread has to do: what adds or removes a callback, and
  an update of a list, is done with `_cApiLock` or `_internalApiLock` held; an
  update that has begun goes on before anything else; a thread that closes the
  connection registers nothing; the lists are unregistered before the interface
  is released (`ReleasesLast`); and a callback is added after `Instance()`.
- `InstanceInv`: without an instance there are no callbacks, nothing is
  registered and nobody is in the middle of an update, although `Term` deletes the
  lists under two locks and callbacks are added under a third one. What needs
  proof is the thread that is about to add one while another deletes the instance:
  it has not taken `_cApiLock` yet, so it still has `Instance()` ahead.
- `WorldInv`: the interface is not newer than the plugin, so that a plugin that
  starts is not the one that is held.
- `ListInv(l)` of each list that the plugin notifies, as long as no list was
  updated from both sides at once (`raced`). `OneUpdates`: one thread is in the
  middle of an update. `Unregisters`: a thread that is about to release the
  interface still has to unregister the list, or did. `KnownInPlugin`: a list that
  is `_registered` is one the plugin knows, or the plugin is gone, or the latch is
  about to be cleared. `WillSubscribe`: a list with a callback is known to the
  plugin, or some thread will register it, or release the interface. `UnusedLeaves`:
  a list that leaves the plugin because its last callback went either has none, or
  one that was added since, whose thread will look at the list again.

The plugin refuses an observer it has, and one that is gone answers nothing: in
both cases `_registered` ends up false, so what it means is tied to the life of
the plugin. `raced` is needed in two steps of the proof only, the tests of
`register` and `unregister`: there it says that the latch read is not about to
change. It is the hazard of `power_controller.cpp:255`. Without it the statement
is false: TLC finds a history in which a callback stays without notifications.
TLC checked the four parts on the instance of `client` first.

`LocksAreOrdered` is the order `_cApiLock`, `_internalApiLock`, `_callbackLock`:
what takes a lock of the connection (`new`, `close`, `tell`, `instance`, ...) is
never done within a dispatch, except in a request that a callback makes: if
callbacks make any, `_callbackLock` is an `outer` lock, and a cycle has a thread
that waits with it held (`Entangled`), as in `client_deadlock`; if they make none,
there is no cycle at all. It says nothing of the wait for the monitor thread in
`Term`, which is not a lock.

The proof of `Exclusive` failed at first, for a good reason: `Holds` looks for the
next thing a thread does with a lock, so one that held a lock and had a nested
`lock` of it ahead did not hold it meanwhile. Nested locks are now renamed when
the call is made.

### What is only model-checked

- Liveness, of all components: outside of what the provers do. `NoHandlerIsLost`,
  `NoStuckInProgress` and `NobodyRevokesItself` are its safety parts.
- That the rates of a build are found in the kernel's list when RFC gives some of
  them: a property of the numbers in the list, in `thermal` only.

## 5. What is not modelled

- The plugin shell and `PowerUtils` hold no logic a property could be about.
- `RebootController` is one job that schedules itself and compares the uptime
  with a threshold it reads once.
- HAL wrappers: status codes, wakeup reasons and the files of `cpufreq` are
  steps that succeed or fail; the choice of clock rates and the meaning of
  `supported` are modelled.
- `ThermalController`: the end of its thread with the object (a poll that finds
  `_stopThread` leaves the loop with `_therm_mutex` locked,
  `ThermalController.cpp:447`), and the platform's own two thresholds, which are
  only handed through.
- Client library: the conversion of values between C and COM-RPC, and failures
  to allocate. A callback that unregisters itself, or another one, from within
  a callback: the lock is recursive, and the list that is gone through changes.
- The same in the plugin, for an observer in its process that unregisters from
  within a notification. Observers make calls there, but none of `Unregister`.
- Steps of the wall clock while `getWakeupTime` runs; in `ThermalController` more
  than one of them.
- `SetPowerState`'s failure to read the current state, destructors at plugin
  unload other than AckController's, the previous state that `GetPowerState`
  also answers, telemetry, and the wording and timing of log lines.
- Raw pointers kept by the pre-change jobs
  (`PowerManagerImplementation.cpp:499`): an observer is a name in `PluginApi`,
  which does not know when it is freed.
- `delayPeriod * 1000` in `DelayPowerModeChangeBy` wraps in 32 bits; delays in
  `AckController` are a set of small values.
- In `DeepSleepController` the five-second window of
  `kTransientDeepsleepThresholdSec` is a nondeterministic choice, as is the
  result of the platform.

## 6. Plan

Larger instances: two application threads in `ClientLibrary`, two observers in
`PluginApi`.
