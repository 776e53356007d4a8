--------------------------- MODULE ClientLibrary ---------------------------
(***************************************************************************)
(* The client library (src/powercontroller/power_controller.cpp): an       *)
(* application's threads call its C functions, the pid file monitor        *)
(* reconnects when Thunder restarts, Thunder's Link thread reports that    *)
(* the plugin comes and goes, and the Notifier thread delivers the         *)
(* plugin's notifications.                                                 *)
(*                                                                         *)
(* Three recursive locks: "capi" serialises the C functions, "internal"    *)
(* guards the connection, "callback" the lists of callbacks.  Registering  *)
(* a callback uses the interface under "callback" alone.                   *)
(*                                                                         *)
(* Thunder's SmartInterfaceType is external: Open may fail, the Link       *)
(* thread reports a change of the plugin some time after it, Close reports *)
(* the loss of the plugin on the thread that calls it and waits for no     *)
(* report under way (the weakest reading of what the library relies on).   *)
(* A null interface that is called ends the process: no step is taken.     *)
(* Left out: values converted and logged, results, allocation failures.    *)
(***************************************************************************)
EXTENDS Threads

CONSTANTS
  App,          \* the threads of the application
  Monitor,      \* PIDFileMonitor::monitorThread
  Link,
  Notifier,
  List,         \* the kinds of notification, a CallbackList each
  Ops,          \* the list of the operational state, managed by Link
  Used,         \* the lists the application registers callbacks in
  Callback,
  Calls,        \* the requests the application makes
  CallbackCalls, \* the requests its callbacks make
  MaxCalls,     \* bound: C functions called by the application
  MaxRestarts   \* bound: activations of the plugin, restarts of Thunder

VARIABLES
  instance,     \* _instance exists
  initialized,  \* PowerController::initialized
  shutdown,     \* _shutdown
  connected,    \* _connected
  iface,        \* _powerManagerInterface: the plugin activation, 0 is null
  registered,   \* _registered of each list
  cbs,          \* the callbacks in each list
  monitor,      \* _thread of the monitor: none, running or ended
  stop,         \* the monitor's _shutdown
  pid,          \* _pid, 0 is INVALID_PID
  world,        \* Thunder and the plugin
  calls,        \* calls the application has made
  raced,        \* history: a list was updated under both locks at once
  torn          \* history: Term deleted the lists while one was gone through

library == <<instance, initialized, shutdown>>
link == <<connected, iface>>
lists == <<registered, cbs>>
thread == <<monitor, stop, pid>>
vars == <<todo, library, link, lists, thread, world, calls, raced, torn>>

Init ==
  /\ ThreadsInit
  /\ instance = FALSE
  /\ initialized = FALSE
  /\ shutdown = FALSE
  /\ connected = FALSE
  /\ iface = 0
  /\ registered = [l \in List |-> FALSE]
  /\ cbs = [l \in List |-> {}]
  /\ monitor = "none"
  /\ stop = FALSE
  /\ pid = 0
  /\ world = [pid |-> 1, written |-> FALSE, plugin |-> 0, up |-> FALSE,
              channel |-> 0, reported |-> 0, subscribed |-> {}]
  /\ calls = 0
  /\ raced = FALSE
  /\ torn = FALSE

\* The plugin that e was obtained from still runs.
Alive(e) == world.up /\ e = world.plugin

----------------------------------------------------------------------------
(* CallbackList.  The test, the call of the plugin and the update of       *)
(* _registered are steps of their own: the two locks do not exclude each   *)
(* other.                                                                  *)

Midway == {"subscribe", "unsubscribe", "latch"}

\* Another thread is in the middle of updating the list l, or of releasing the
\* interface after it went through the lists.
Overlaps(t, l) ==
  \E u \in Thread \ {t} : \E i \in DOMAIN todo[u] :
    \/ todo[u][i].op = "drop"
    \/ todo[u][i].op \in Midway /\ todo[u][i].arg[1] = l

AddCallbackLocked(t) ==
  /\ At(t, "add")
  /\ LET l == Arg(t)[1] c == Arg(t)[2] IN
       /\ cbs' = [cbs EXCEPT ![l] = @ \cup {c}]
       /\ Continue(t, IF c \in cbs[l] THEN <<>> ELSE <<Do("register", l)>>)
  /\ UNCHANGED <<library, link, registered, thread, world, calls, raced, torn>>

RemoveCallbackLocked(t) ==
  /\ At(t, "remove")
  /\ LET l == Arg(t)[1] c == Arg(t)[2] IN
       /\ cbs' = [cbs EXCEPT ![l] = @ \ {c}]
       /\ Continue(t, IF c \in cbs[l]
                      THEN <<Do("unregister", <<l, FALSE>>)>> ELSE <<>>)
  /\ UNCHANGED <<library, link, registered, thread, world, calls, raced, torn>>

RegisterNotificationInternalLocked(t) ==
  /\ At(t, "register")
  /\ LET l == Arg(t) IN
       /\ Continue(t, IF ~registered[l] /\ cbs[l] # {} /\ iface # 0
                      THEN <<Do("subscribe", <<l>>)>> ELSE <<>>)
       /\ raced' = (raced \/ Overlaps(t, l))
  /\ UNCHANGED <<library, link, lists, thread, world, calls, torn>>

UnregisterNotificationInternalLocked(t) ==
  /\ At(t, "unregister")
  /\ LET l == Arg(t)[1] forced == Arg(t)[2] IN
       /\ Continue(t, IF registered[l] /\ iface # 0 /\ (forced \/ cbs[l] = {})
                      THEN <<Do("unsubscribe", Arg(t))>> ELSE <<>>)
       /\ raced' = (raced \/ Overlaps(t, l))
  /\ UNCHANGED <<library, link, lists, thread, world, calls, torn>>

\* The plugin refuses an observer it already has, a dead one does not answer.
RegisterThunderNotificationLocked(t) ==
  /\ At(t, "subscribe")
  /\ iface # 0
  /\ LET l == Arg(t)[1]
         done == l = Ops \/ (Alive(iface) /\ l \notin world.subscribed)
     IN /\ Continue(t, <<Do("latch", <<l, done>>)>>)
        /\ world' = IF done /\ l # Ops
                    THEN [world EXCEPT !.subscribed = @ \cup {l}] ELSE world
  /\ UNCHANGED <<library, link, lists, thread, calls, raced, torn>>

\* What _registered becomes when a list was unregistered.
AfterUnregister(forced, unregistered) == ~forced /\ ~unregistered

UnregisterThunderNotificationLocked(t) ==
  /\ At(t, "unsubscribe")
  /\ iface # 0
  /\ LET l == Arg(t)[1]
         done == l = Ops \/ (Alive(iface) /\ l \in world.subscribed)
     IN /\ Continue(t, <<Do("latch", <<l, AfterUnregister(Arg(t)[2], done)>>)>>)
        /\ world' = IF done THEN [world EXCEPT !.subscribed = @ \ {l}] ELSE world
  /\ UNCHANGED <<library, link, lists, thread, calls, raced, torn>>

Latch(t) ==
  /\ At(t, "latch")
  /\ registered' = [registered EXCEPT ![Arg(t)[1]] = Arg(t)[2]]
  /\ Continue(t, <<>>)
  /\ UNCHANGED <<library, link, cbs, thread, world, calls, raced, torn>>
----------------------------------------------------------------------------
(* The connection.                                                         *)

OperationalBody(up) ==
  With("internal", <<Do(IF up THEN "attach" ELSE "detach", 0)>>)
    \o <<Do("tell", Ops)>>

Lists(op, arg(_)) == [i \in 1 .. Cardinality(List \ {Ops}) |->
                        Do(op, arg(SetToSeq(List \ {Ops})[i]))]

\* Variant of SubscribeAllNotificationsLocked: a new plugin is not told.
SubscribeNone == <<>>

SubscribeAllNotificationsLocked ==
  LET arg(l) == l IN Lists("register", arg)

UnsubscribeAllNotificationsLocked ==
  LET arg(l) == <<l, TRUE>> IN Lists("unregister", arg)

\* Interface() asks the plugin that was reported, unless Close has been called
\* since; the plugin may be gone again.
Attach(t) ==
  /\ At(t, "attach")
  /\ iface' = IF iface = 0 /\ Alive(world.reported) THEN world.plugin ELSE iface
  /\ Continue(t, IF iface' # iface THEN SubscribeAllNotificationsLocked ELSE <<>>)
  /\ UNCHANGED <<library, connected, lists, thread, world, calls, raced, torn>>

Detach(t) ==
  /\ At(t, "detach")
  /\ Continue(t, IF iface # 0
                 THEN Append(UnsubscribeAllNotificationsLocked, Do("drop", 0))
                 ELSE <<>>)
  /\ UNCHANGED <<library, link, lists, thread, world, calls, raced, torn>>

Drop(t) ==
  /\ At(t, "drop")
  /\ iface' = 0
  /\ Continue(t, <<>>)
  /\ UNCHANGED <<library, connected, lists, thread, world, calls, raced, torn>>

\* The operational state is told to the application, unless it terminates.
Tell(t) ==
  /\ At(t, "tell")
  /\ Continue(t, IF shutdown THEN <<>>
                 ELSE With("callback", <<Do("notify", Ops)>>))
  /\ UNCHANGED <<library, link, lists, thread, world, calls, raced, torn>>

ConnectBody == With("internal", <<Do("open", 0)>>)

\* The first channel that opens starts the monitor.  Thunder accepts channels,
\* so its pid is in the file.
Run ==
  IF monitor = "none"
  THEN monitor' = "running" /\ pid' = world.pid
  ELSE UNCHANGED <<monitor, pid>>

Connect(t) ==
  /\ At(t, "open")
  /\ Continue(t, <<>>)
  /\ \/ /\ ~connected
        /\ connected' = TRUE
        /\ world' = [world EXCEPT !.channel = world.pid]
        /\ Run
     \/ UNCHANGED <<connected, world, monitor, pid>>  \* open, or Open failed
  /\ UNCHANGED <<library, iface, lists, stop, calls, raced, torn>>

DisconnectBody(final) ==
  With("internal", (IF final THEN <<Do("stop", 0)>> ELSE <<>>)
                     \o <<Do("close", 0)>>)

Disconnect(t) ==
  /\ At(t, "close")
  /\ Continue(t, IF ~connected THEN <<>>
                 ELSE (IF world.reported # 0 THEN OperationalBody(FALSE)
                                            ELSE <<>>) \o <<Do("closed", 0)>>)
  /\ world' = IF connected THEN [world EXCEPT !.channel = 0, !.reported = 0]
                           ELSE world
  /\ UNCHANGED <<library, link, lists, thread, calls, raced, torn>>

Closed(t) ==
  /\ At(t, "closed")
  /\ connected' = FALSE
  /\ Continue(t, <<>>)
  /\ UNCHANGED <<library, iface, lists, thread, world, calls, raced, torn>>

----------------------------------------------------------------------------
(* The pid file monitor.                                                   *)

\* Stop tells the thread to end and joins it.
Stop(t) ==
  /\ At(t, "stop")
  /\ stop' = (stop \/ monitor # "none")
  /\ Continue(t, IF monitor = "none" THEN <<>> ELSE <<Do("join", 0)>>)
  /\ UNCHANGED <<library, link, lists, monitor, pid, world, calls, raced, torn>>

\* Variant of Join: the joined thread stays in _thread.
JoinKept(t) ==
  /\ At(t, "join")
  /\ monitor = "ended"
  /\ monitor' = "joined"
  /\ Continue(t, <<>>)
  /\ UNCHANGED <<library, link, lists, stop, pid, world, calls, raced, torn>>

Join(t) ==
  /\ At(t, "join")
  /\ monitor = "ended"
  /\ monitor' = "none"
  /\ Continue(t, <<>>)
  /\ UNCHANGED <<library, link, lists, stop, pid, world, calls, raced, torn>>

\* The pid in the file, or INVALID_PID when it is just being written again.
readPID == {0, world.pid}

\* Variant of pidChangedCb: keeps the connection locked and reconnects through
\* the C functions.
pidChangedLocked(read) ==
  IF pid = read THEN <<>>
  ELSE With("internal", With("capi", <<Do("close", 0), Do("open", 0)>>)
                          \o <<Do("pid", read)>>)

pidChangedCb(read) ==
  IF pid = read THEN <<>>
  ELSE DisconnectBody(FALSE) \o ConnectBody \o <<Do("pid", read)>>

\* The file was closed after a write: it is read, and a valid pid reported.
handle_inotify_event ==
  /\ monitor = "running"
  /\ world.written
  /\ world' = [world EXCEPT !.written = FALSE]
  /\ \E read \in readPID :
       Start(Monitor, IF read = 0 THEN <<>> ELSE pidChangedCb(read))
  /\ UNCHANGED <<library, link, lists, thread, calls, raced, torn>>

PidStored(t) ==
  /\ At(t, "pid")
  /\ pid' = Arg(t)
  /\ Continue(t, <<>>)
  /\ UNCHANGED <<library, link, lists, monitor, stop, world, calls, raced, torn>>

\* The loop of monitorThread ends when it is told to, between two events.
monitorThread ==
  /\ monitor = "running"
  /\ stop
  /\ Idle(Monitor)
  /\ monitor' = "ended"
  /\ UNCHANGED <<todo, library, link, lists, stop, pid, world, calls, raced, torn>>

----------------------------------------------------------------------------
(* The instance.                                                           *)

InitBody == With("internal", <<Do("new", 0)>>)

\* The constructor connects.
New(t) ==
  /\ At(t, "new")
  /\ instance' = TRUE
  /\ IF instance
     THEN Continue(t, <<>>) /\ UNCHANGED <<shutdown, link, thread>>
     ELSE /\ shutdown' = FALSE
          /\ stop' = FALSE
          /\ pid' = 0
          /\ connected' = FALSE
          /\ iface' = 0
          /\ Continue(t, ConnectBody)
          /\ UNCHANGED monitor
  /\ UNCHANGED <<initialized, lists, world, calls, raced, torn>>

TermBody == With("internal", <<Do("destroy", 0)>>)

\* The destructor stops the monitor and closes the channel.
Destroy(t) ==
  /\ At(t, "destroy")
  /\ shutdown' = (shutdown \/ instance)
  /\ Continue(t, IF instance THEN Append(DisconnectBody(TRUE), Do("delete", 0))
                             ELSE <<>>)
  /\ UNCHANGED <<instance, initialized, link, lists, thread, world, calls,
                 raced, torn>>

\* Callbacks of a list are still to be called.
Dispatching ==
  \E t \in Thread : \E i \in DOMAIN todo[t] : todo[t][i].op = "call"

\* The lists go, whoever goes through one.
Delete(t) ==
  /\ At(t, "delete")
  /\ instance' = FALSE
  /\ torn' = (torn \/ Dispatching)
  /\ cbs' = [l \in List |-> {}]
  /\ registered' = [l \in List |-> FALSE]
  /\ Continue(t, <<>>)
  /\ UNCHANGED <<initialized, shutdown, link, thread, world, calls, raced>>

\* Instance() creates the instance that Term deleted.
Instance(t) ==
  /\ At(t, "instance")
  /\ Continue(t, IF instance THEN <<>> ELSE InitBody)
  /\ UNCHANGED <<library, link, lists, thread, world, calls, raced, torn>>

MarkInitialized(t) ==
  /\ At(t, "mark")
  /\ initialized' = Arg(t)
  /\ Continue(t, <<>>)
  /\ UNCHANGED <<instance, shutdown, link, lists, thread, world, calls, raced, torn>>

\* A function that does nothing before Init and after Term.
IfInitialized(t) ==
  /\ At(t, "guarded")
  /\ Continue(t, IF initialized THEN <<Do("instance", 0)>> \o Arg(t) ELSE <<>>)
  /\ UNCHANGED <<library, link, lists, thread, world, calls, raced, torn>>
----------------------------------------------------------------------------
(* Notifications and requests.                                             *)

\* The callbacks of a list are called one after the other, under its lock.
Notify(t) ==
  /\ At(t, "notify")
  /\ LET l == Arg(t) IN
       Continue(t, [i \in 1 .. Cardinality(cbs[l]) |->
                      Do("call", <<l, SetToSeq(cbs[l])[i]>>)])
  /\ UNCHANGED <<library, link, lists, thread, world, calls, raced, torn>>

CApi(body) == With("capi", body)

PowerCalls == {"GetPowerState", "SetPowerState"}

ThermalCalls == {"GetThermalState", "SetTemperatureThresholds",
                 "GetTemperatureThresholds", "SetOvertempGraceInterval",
                 "GetOvertempGraceInterval"}

\* What the plugin answers to GetLastWakeupKeyCode is not passed on.
SleepCalls == {"SetDeepSleepTimer", "GetLastWakeupReason",
               "GetLastWakeupKeyCode", "Reboot"}

StandbyCalls == {"SetNetworkStandbyMode", "GetNetworkStandbyMode",
                 "GetPowerStateBeforeReboot"}

PreChangeCalls == {"AddPowerModePreChangeClient",
                   "RemovePowerModePreChangeClient",
                   "DelayPowerModeChangeBy", "PowerModePreChangeComplete"}

AllCalls == PowerCalls \cup ThermalCalls \cup SleepCalls \cup StandbyCalls
              \cup PreChangeCalls

\* The locks of the library are recursive (Core::CriticalSection).
ASSUME LocksAssumption == Mutex = {}

ASSUME CallsAssumption ==
  /\ App \cup {Monitor, Link, Notifier} \subseteq Thread
  /\ IsFiniteSet(List)
  /\ Ops \in List
  /\ Used \subseteq List
  /\ Calls \subseteq AllCalls
  /\ CallbackCalls \subseteq AllCalls
  /\ MaxRestarts \in Nat

\* Variant of Request: without the lock of the connection.
RequestUnlocked(call) == CApi(<<Do("instance", 0), Do("proxy", call)>>)

Request(call) ==
  CApi(<<Do("instance", 0)>> \o With("internal", <<Do("proxy", call)>>))

\* UNAVAILABLE unless there is an interface.
Proxy(t) ==
  /\ At(t, "proxy")
  /\ Continue(t, IF iface = 0 THEN <<>> ELSE <<Do("invoke", <<Arg(t), iface>>)>>)
  /\ UNCHANGED <<library, link, lists, thread, world, calls, raced, torn>>

Return(t) ==
  /\ At(t, "invoke")
  /\ Continue(t, <<>>)
  /\ UNCHANGED <<library, link, lists, thread, world, calls, raced, torn>>

\* The application's callback, which may make a request.
UserCallback(t) ==
  /\ At(t, "call")
  /\ \E body \in {<<>>} \cup {Request(call) : call \in CallbackCalls} :
       Continue(t, body)
  /\ UNCHANGED <<library, link, lists, thread, world, calls, raced, torn>>

RegisterCallbackInternal(l, c) == With("callback", <<Do("add", <<l, c>>)>>)

\* Variant of UnRegisterCallback: without the lock of the callbacks.
UnRegisterCallbackUnlocked(l, c) == <<Do("remove", <<l, c>>)>>

UnRegisterCallback(l, c) == With("callback", <<Do("remove", <<l, c>>)>>)

PowerController_Init == CApi(InitBody \o <<Do("mark", TRUE)>>)

PowerController_Term == CApi(TermBody \o <<Do("mark", FALSE)>>)

PowerController_Connect == CApi(<<Do("instance", 0)>> \o ConnectBody)

PowerController_Disconnect == CApi(<<Do("guarded", DisconnectBody(FALSE))>>)

PowerController_IsOperational == CApi(<<Do("guarded", <<>>)>>)

RegisterApi(l, c) ==
  CApi(<<Do("instance", 0)>> \o RegisterCallbackInternal(l, c))

UnRegisterApi(l, c) == CApi(<<Do("guarded", UnRegisterCallback(l, c))>>)

Functions ==
  {PowerController_Init, PowerController_Term, PowerController_Connect,
   PowerController_Disconnect, PowerController_IsOperational}
    \cup {Request(call) : call \in Calls}
    \cup {RegisterApi(l, c) : l \in Used, c \in Callback}
    \cup {UnRegisterApi(l, c) : l \in Used, c \in Callback}

ApplicationCalls(t) ==
  /\ calls < MaxCalls
  /\ calls' = calls + 1
  /\ \E body \in Functions : Start(t, body)
  /\ UNCHANGED <<library, link, lists, thread, world, raced, torn>>

----------------------------------------------------------------------------
(* Thunder and the plugin.                                                 *)

PluginActivated ==
  /\ ~world.up
  /\ world.plugin < MaxRestarts
  /\ world' = [world EXCEPT !.up = TRUE, !.plugin = @ + 1]

PluginDeactivated ==
  /\ world.up
  /\ world' = [world EXCEPT !.up = FALSE, !.subscribed = {}]

ThunderRestarted ==
  /\ world.pid < MaxRestarts
  /\ world' = [world EXCEPT !.up = FALSE, !.subscribed = {}, !.pid = @ + 1,
                            !.written = TRUE]

Outside ==
  /\ PluginActivated \/ PluginDeactivated \/ ThunderRestarted
  /\ UNCHANGED <<todo, library, link, lists, thread, calls, raced, torn>>

LinkReports ==
  /\ \/ /\ world.reported = 0
        /\ world.up
        /\ world.channel = world.pid
        /\ world' = [world EXCEPT !.reported = world.plugin]
        /\ Start(Link, OperationalBody(TRUE))
     \/ /\ world.reported # 0
        /\ ~Alive(world.reported) \/ world.channel # world.pid
        /\ world' = [world EXCEPT !.reported = 0]
        /\ Start(Link, OperationalBody(FALSE))
  /\ UNCHANGED <<library, link, lists, thread, calls, raced, torn>>

PluginNotifies ==
  /\ \E l \in world.subscribed :
       Start(Notifier, With("callback", <<Do("notify", l)>>))
  /\ UNCHANGED <<library, link, lists, thread, world, calls, raced, torn>>

TakeOuterLock(t) ==
  /\ Acquire(t)
  /\ UNCHANGED <<library, link, lists, thread, world, calls, raced, torn>>

----------------------------------------------------------------------------
Step(t) ==
  \/ TakeOuterLock(t)
  \/ AddCallbackLocked(t) \/ RemoveCallbackLocked(t)
  \/ RegisterNotificationInternalLocked(t)
  \/ UnregisterNotificationInternalLocked(t)
  \/ RegisterThunderNotificationLocked(t)
  \/ UnregisterThunderNotificationLocked(t)
  \/ Latch(t)
  \/ Attach(t) \/ Detach(t) \/ Drop(t) \/ Tell(t)
  \/ Connect(t) \/ Disconnect(t) \/ Closed(t)
  \/ Stop(t) \/ Join(t) \/ PidStored(t)
  \/ New(t) \/ Destroy(t) \/ Delete(t) \/ Instance(t)
  \/ MarkInitialized(t) \/ IfInitialized(t)
  \/ Notify(t) \/ Proxy(t) \/ Return(t) \/ UserCallback(t)

Next ==
  \/ \E t \in Thread : Step(t)
  \/ \E t \in App : ApplicationCalls(t)
  \/ handle_inotify_event \/ monitorThread
  \/ Outside \/ LinkReports \/ PluginNotifies

Spec == Init /\ [][Next]_vars

----------------------------------------------------------------------------
(* Properties.                                                             *)

\* The variables have their types.
TypeOK ==
  /\ {instance, initialized, shutdown, connected, stop, raced, torn}
       \subseteq BOOLEAN
  /\ iface \in 0 .. MaxRestarts
  /\ registered \in [List -> BOOLEAN]
  /\ cbs \in [List -> SUBSET Callback]
  /\ monitor \in {"none", "running", "ended"}

\* The plugin is asked through an interface that the library still holds: no
\* report of the plugin's end releases it under a request, nor under the
\* registration of a callback, although that is done under the lists' lock only
\* and tests the interface before it uses it, unless two sides updated a list, or
\* one the list and the other the interface, at once.
InvokedInterfaceHeld ==
  \A t \in Thread :
    /\ At(t, "invoke") => iface = Arg(t)[2]
    /\ At(t, "subscribe") \/ At(t, "unsubscribe") =>
         Arg(t)[1] = Ops \/ raced \/ iface # 0

\* A callback that is still to be called is in its list: once UnRegister has
\* taken it out, the application may free its userdata.  Term, which deletes the
\* lists without their lock while one is gone through, is the exception.
CalledIsInList ==
  ~torn => \A t \in Thread : \A i \in DOMAIN todo[t] :
             todo[t][i].op = "call"
               => todo[t][i].arg[2] \in cbs[todo[t][i].arg[1]]

\* When everything has settled and the interface of the running plugin is
\* held, the plugin notifies the library of every list with a callback.
SubscribedWhenSettled ==
  Quiet /\ iface # 0 /\ Alive(iface)
    => \A l \in List \ {Ops} : cbs[l] # {} => l \in world.subscribed

\* The same, after any number of restarts of plugin and Thunder, as long as
\* no list was updated from both sides at once.
SubscribedUnlessRaced == ~raced => SubscribedWhenSettled

\* A thread waits for another one's lock, or for the monitor to end.
WaitsFor(t, u) ==
  \/ WaitsForLock(t, u)
  \/ At(t, "join") /\ u = Monitor

\* No threads wait for each other, whatever an application's callback calls:
\* AddPowerModePreChangeClient, say, when it is told that the plugin is back.
NoWaitCycle ==
  \A S \in (SUBSET Thread) \ {{}} :
    ~ \A t \in S : \E u \in S : WaitsFor(t, u)

\* A callback of the application may be making a request on the thread.
Entangled(t) == CallbackCalls # {} /\ Holds(t, "callback")

\* No threads wait for each other's locks, unless one of them waits in a request
\* that a callback of the application makes.
NoOtherLockCycle ==
  \A S \in (SUBSET {t \in Thread : Waiting(t) /\ ~Entangled(t)}) \ {{}} :
    ~ \A t \in S : \E u \in S : WaitsForLock(t, u)

=============================================================================
