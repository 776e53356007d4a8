---------------------------- MODULE PowerSettings ----------------------------
(***************************************************************************)
(* The settings and their files (src/plugin/Settings.cpp), the start of    *)
(* the plugin and the operations that change the settings                  *)
(* (src/plugin/PowerController.cpp and the calls to it in                  *)
(* PowerManagerImplementation.cpp), on the platform of hal/PowerImpl.h.    *)
(* The plugin may die and start again, and so may the device.              *)
(*                                                                         *)
(* One thread starts the plugin; then the others serve calls under         *)
(* _apiLock, and run completion handlers without it, several at the same   *)
(* time (PowerModeChange).  All of them save the settings.                 *)
(*                                                                         *)
(* A file is NoFile, BadFile (empty, short, or of another version) or what *)
(* a save wrote.  A write that the device loses because it dies before the *)
(* fsync is a death before the write.                                      *)
(*                                                                         *)
(* Left out: the previous state that GetPowerState also answers, the time  *)
(* of the last update, logs, and which error a call returns.               *)
(***************************************************************************)
EXTENDS Threads, DeepSleepWakeupSettings

CONSTANTS
  Client,      \* threads that serve calls and run completion handlers
  Starter,     \* the thread of the constructor
  Requested,   \* power states clients ask for
  Booted,      \* what the platform may be when the device starts
  Configs,     \* arguments of SetWakeupSourceConfig, WIFI and LAN only
  Timeouts,    \* arguments of SetDeepSleepTimer
  Clocks,      \* worlds of getWakeupTime: [file, number, second, random, payload]
  Builds,      \* values of PLATCO_BOOTTO_STANDBY
  MaxCalls,    \* bound: calls and handlers
  MaxStarts,   \* bound: starts of the plugin
  MaxFaults    \* bound: what may be wrong at the same time

Sources == {"WIFI", "LAN"}

Names == {"OFF", "ON", "STANDBY", "LIGHT_SLEEP", "DEEP_SLEEP"}

\* What the values of the constants may be: power states that the interface and
\* the platform name, an int32, and clocks that a device can have.
ASSUME SettingsAssumption ==
  /\ Client \cup {Starter} \subseteq Thread /\ Starter \notin Client
  /\ Requested \subseteq Names \cup {"UNKNOWN"}
  /\ Booted \subseteq [state : Names \cup {"MAX"}, sources : [Sources -> BOOLEAN]]
  /\ Configs \subseteq UNION {[D -> BOOLEAN] : D \in SUBSET Sources}
  /\ Timeouts \subseteq Int
  /\ \A c \in Clocks : /\ c.file \in {"none", "text", "number"}
                       /\ c.number \in Int
                       /\ c.second \in 0 .. Day - 1 /\ c.random \in Nat

VARIABLES
  platco,    \* the build
  opt,       \* /opt/uimgr_settings.bin
  ram,       \* /tmp/uimgr_settings.bin
  up,        \* the plugin has started
  settings,  \* _settings
  timerSet,  \* _isDeepSleepTimeoutSet
  hw,        \* the platform: its power state and wakeup sources
  wakeups,   \* history: changes to ON since the plugin started
  stamp,     \* _wakeupTimestamp: wakeups when it was taken, -1 is 1970
  starts, calls,
  atBoot,    \* history: the saved state when the device started
  excuses    \* history: what went wrong

files == <<opt, ram>>
wake == <<wakeups, stamp>>
bounds == <<platco, starts, calls>>
counts == <<wake, bounds>>
vars == <<todo, files, up, settings, timerSet, hw, counts, atBoot, excuses>>

Excuse ==
  {"unsaved",   \* the settings are not, or may not be, in the file
   "crossed",   \* two threads saved at the same time
   "boot",      \* the state at the start of the device was not read or kept
   "blind",     \* the platform did not tell its power state
   "source",    \* a wakeup source was not set, or not read
   "raced",     \* a handler set the platform's state before another one that
                \* had done so had stored it
   "stale"}     \* a handler started before another one had stored its state

Excused(new) ==
  /\ \/ new \subseteq excuses
     \/ Cardinality((excuses \cup new) \ {"crossed", "raced", "stale"}) <= MaxFaults
  /\ excuses' = excuses \cup new

----------------------------------------------------------------------------
(* Files.                                                                  *)

\* PowerState and PWRMgr_PowerState_t, in SettingsV1 and in PowerImpl.
ToPlatform(state) == IF state \in Names THEN state ELSE "MAX"

FromPlatform(state) == IF state \in Names THEN state ELSE "UNKNOWN"

\* The constructor of Settings: no magic, no version.
NoSettings ==
  [usable |-> FALSE, state |-> "ON", before |-> "ON", timeout |-> 8 * Hour,
   standby |-> FALSE]

\* The rest of a Settings that was read stays.
initDefaults(s) == [s EXCEPT !.usable = TRUE]

NoFile == [is |-> "none"]

BadFile == [is |-> "bad"]

\* What SettingsV1::Save writes; without a version it cannot be read again.
Image(s) ==
  IF s.usable
  THEN [state |-> ToPlatform(s.state), timeout |-> s.timeout,
        standby |-> s.standby]
  ELSE BadFile

Valid(file) == file \notin {NoFile, BadFile}

\* SettingsV1::Load, or the defaults for a file that cannot be read.
Loaded(file) ==
  IF Valid(file)
  THEN [NoSettings EXCEPT !.usable = TRUE,
          !.state = FromPlatform(file.state), !.timeout = file.timeout,
          !.standby = file.standby]
  ELSE initDefaults(NoSettings)

Content(name) == IF name = "opt" THEN opt ELSE ram

Write(name, content) ==
  IF name = "opt" THEN opt' = content /\ UNCHANGED ram
                  ELSE ram' = content /\ UNCHANGED opt

Created(name) == IF Content(name) = NoFile THEN BadFile ELSE Content(name)

Lost(name) == IF name = "opt" THEN "unsaved" ELSE "boot"

Writing(t) == \E i \in DOMAIN todo[t] : todo[t][i].op = "write"

Crossing(t) ==
  IF \E u \in Thread \ {t} : Writing(u) THEN {"crossed"} ELSE {}

Save(name) == <<Do("save", name)>>

\* Open makes the file; then the settings are copied, and written.
OpenToSave(t) ==
  /\ At(t, "save")
  /\ LET name == Arg(t) IN
       \/ /\ Write(name, Created(name))
          /\ Continue(t, <<Do("write", [name |-> name, image |-> Image(settings)])>>)
          /\ excuses' = excuses \cup Crossing(t)
       \/ /\ Continue(t, <<>>)     \* open failed
          /\ Excused(Crossing(t) \cup {Lost(name)})
          /\ UNCHANGED files
  /\ UNCHANGED <<up, settings, timerSet, hw, counts, atBoot>>

\* In place.  A write that fails leaves the file as it is.
WriteImage(t) ==
  /\ At(t, "write")
  /\ LET name == Arg(t).name IN
       \/ /\ Write(name, Arg(t).image)
          /\ excuses' = IF name = "opt" THEN excuses \ {"unsaved"} ELSE excuses
       \/ /\ Excused({Lost(name)})
          /\ UNCHANGED files
  /\ Continue(t, <<>>)
  /\ UNCHANGED <<up, settings, timerSet, hw, counts, atBoot>>

\* Settings::Load of the file of that name, when it opens: a file that cannot
\* be read is written again.
Rewrite(name) == <<Do("write", [name |-> name, image |-> Image(Loaded(BadFile))])>>

Repair(name) == IF Valid(Content(name)) THEN <<>> ELSE Rewrite(name)

----------------------------------------------------------------------------
(* The start of the plugin.                                                *)

LoadSettings(t) ==
  /\ At(t, "load")
  /\ \/ /\ settings' = Loaded(opt)
        /\ Write("opt", Created("opt"))
        /\ Continue(t, Repair("opt"))
        /\ UNCHANGED excuses
     \/ /\ Valid(opt)                 \* read failed
        /\ settings' = Loaded(BadFile)
        /\ Continue(t, Rewrite("opt"))
        /\ Excused(IF ram = NoFile THEN {"boot"} ELSE {})
        /\ UNCHANGED files
     \/ /\ settings' = NoSettings     \* open failed
        /\ Continue(t, <<>>)
        /\ Excused(IF ram = NoFile THEN {"boot"} ELSE {})
        /\ UNCHANGED files
  /\ UNCHANGED <<up, timerSet, hw, counts, atBoot>>

\* Variant of LoadRam: the file is written at every start.
LoadRamAlways(t) ==
  /\ At(t, "ram")
  /\ settings' = [settings EXCEPT !.before = settings.state]
  /\ Continue(t, Save("ram"))
  /\ UNCHANGED <<files, up, timerSet, hw, counts, atBoot, excuses>>

\* The file in /tmp remembers the state of the first start.
LoadRam(t) ==
  /\ At(t, "ram")
  /\ IF ram = NoFile
     THEN /\ settings' = [settings EXCEPT !.before = settings.state]
          /\ Continue(t, Save("ram"))
          /\ UNCHANGED excuses
     ELSE \/ /\ settings' = [settings EXCEPT !.before = Loaded(ram).state]
             /\ Continue(t, Repair("ram"))
             /\ UNCHANGED excuses
          \/ /\ settings' = [settings EXCEPT !.before = NoSettings.state]
             /\ \/ Continue(t, <<>>)     \* open failed
                \/ Valid(ram) /\ Continue(t, Rewrite("ram"))     \* read failed
             /\ Excused({"boot"})
  /\ UNCHANGED <<files, up, timerSet, hw, counts, atBoot>>

\* Unless /tmp/pwrmgr_restarted is there.
BootToStandby(t) ==
  /\ At(t, "standbyBuild")
  /\ \/ /\ platco
        /\ settings' = [settings EXCEPT !.state = "STANDBY"]
        /\ excuses' = excuses \cup {"unsaved"}
     \/ UNCHANGED <<settings, excuses>>
  /\ Continue(t, <<>>)
  /\ UNCHANGED <<files, up, timerSet, hw, counts, atBoot>>

\* PLAT_API_SetWakeupSrc may fail for some; a positive status means that the
\* source is not supported, and does not count as a failure.
SetSources(config, failed) ==
  \E done \in SUBSET DOMAIN config :
    /\ failed => done # DOMAIN config
    /\ hw' = [hw EXCEPT !.sources =
                [s \in Sources |-> IF s \in done THEN config[s] ELSE @[s]]]
    /\ IF done = Sources THEN excuses' = excuses \ {"source"}
       ELSE Excused(IF done = DOMAIN config THEN {} ELSE {"source"})

Both(enabled) == [s \in Sources |-> enabled]

\* Variant of SourcesAtStart: the saved mode is forgotten.
SourcesOffAtStart(t) ==
  /\ At(t, "sourcesAtStart")
  /\ SetSources(Both(FALSE), FALSE)
  /\ Continue(t, <<>>)
  /\ UNCHANGED <<files, up, settings, timerSet, counts, atBoot>>

SourcesAtStart(t) ==
  /\ At(t, "sourcesAtStart")
  /\ SetSources(Both(settings.standby), FALSE)
  /\ Continue(t, <<>>)
  /\ UNCHANGED <<files, up, settings, timerSet, counts, atBoot>>

\* Variant of init: a failure to set the state is ignored.
initKeepsState(t) ==
  /\ At(t, "init")
  /\ \/ Excused({"blind"}) /\ UNCHANGED hw
     \/ /\ excuses' = excuses \ {"blind"}
        /\ hw' \in {hw, [hw EXCEPT !.state = ToPlatform(settings.state)]}
  /\ Continue(t, IF hw' = hw THEN <<>> ELSE Save("opt"))
  /\ UNCHANGED <<files, up, settings, timerSet, counts, atBoot>>

\* Variant of init: the state taken from the device is not saved.
initNotSaved(t) ==
  /\ At(t, "init")
  /\ \/ Excused({"blind"}) /\ UNCHANGED <<settings, hw>>
     \/ /\ excuses' = excuses \ {"blind"}
        /\ \/ hw' = [hw EXCEPT !.state = ToPlatform(settings.state)]
              /\ UNCHANGED settings
           \/ settings' = [settings EXCEPT !.state = FromPlatform(hw.state)]
              /\ UNCHANGED hw
  /\ Continue(t, IF hw' = hw THEN <<>> ELSE Save("opt"))
  /\ UNCHANGED <<files, up, timerSet, counts, atBoot>>

\* The device is brought to the saved state, or else the saved state to that of
\* the device.
init(t) ==
  /\ At(t, "init")
  /\ \/ /\ Excused({"blind"})     \* the platform does not answer
        /\ Continue(t, <<>>)
        /\ UNCHANGED <<settings, hw>>
     \/ /\ FromPlatform(hw.state) = settings.state
        /\ excuses' = excuses \ {"blind"}
        /\ Continue(t, <<>>)
        /\ UNCHANGED <<settings, hw>>
     \/ /\ FromPlatform(hw.state) # settings.state
        /\ excuses' = excuses \ {"blind"}
        /\ \/ hw' = [hw EXCEPT !.state = ToPlatform(settings.state)]
              /\ UNCHANGED settings
           \/ settings' = [settings EXCEPT !.state = FromPlatform(hw.state)]
              /\ UNCHANGED hw
        /\ Continue(t, Save("opt"))
  /\ UNCHANGED <<files, up, timerSet, counts, atBoot>>

\* Variant of Started: only a later change to ON takes the time.
StartedWithoutTime(t) ==
  /\ At(t, "started")
  /\ up' = TRUE
  /\ Continue(t, <<>>)
  /\ UNCHANGED <<files, settings, timerSet, hw, counts, atBoot, excuses>>

Started(t) ==
  /\ At(t, "started")
  /\ up' = TRUE
  /\ stamp' = IF settings.state = "ON" THEN wakeups ELSE stamp
  /\ Continue(t, <<>>)
  /\ UNCHANGED <<files, settings, timerSet, hw, wakeups, bounds, atBoot, excuses>>

PluginStarts ==
  /\ ~up
  /\ starts < MaxStarts
  /\ starts' = starts + 1
  /\ Start(Starter, <<Do("load", 0), Do("ram", 0), Do("standbyBuild", 0),
                      Do("sourcesAtStart", 0), Do("init", 0), Do("started", 0)>>)
  /\ excuses' = excuses \ {"crossed", "unsaved", "raced", "stale"}
  /\ UNCHANGED <<files, up, settings, timerSet, hw, wake, platco, calls,
                 atBoot>>

----------------------------------------------------------------------------
(* Completion handlers.                                                    *)

\* From its start to the update of the settings.
Handling(t) ==
  \E i \in DOMAIN todo[t] : todo[t][i].op \in {"platform", "state"}

Storing(t) == \E i \in DOMAIN todo[t] : todo[t][i].op = "state"

\* The state it finds at its start is curState.
setDevicePowerState(t, state) ==
  /\ Start(t, <<Do("platform", [state |-> state, from |-> settings.state])>>)
  /\ excuses' = IF \E u \in Thread \ {t} : Handling(u)
                THEN excuses \cup {"stale"} ELSE excuses

WokenUp(from, state) == state = "ON" /\ from # "ON"

\* Refused, by /tmp/ignoredeepsleep or by the platform, or done.
SetPlatformState(t) ==
  /\ At(t, "platform")
  /\ LET new == Arg(t).state IN
       \/ /\ Continue(t, <<>>)
          /\ UNCHANGED <<hw, excuses>>
       \/ /\ hw' = [hw EXCEPT !.state = ToPlatform(new)]
          /\ Continue(t, <<Do("state", new)>> \o Save("opt")
                           \o (IF WokenUp(Arg(t).from, new)
                               THEN <<Do("wakeup", 0)>> ELSE <<>>)
                           \o (IF new = "DEEP_SLEEP"
                               THEN <<Do("activate", 0)>> ELSE <<>>))
          /\ excuses' = IF \E u \in Thread \ {t} : Storing(u)
                        THEN excuses \cup {"raced"} ELSE excuses \ {"raced"}
  /\ UNCHANGED <<files, up, settings, timerSet, counts, atBoot>>

StoreState(t) ==
  /\ At(t, "state")
  /\ settings' = [settings EXCEPT !.state = Arg(t)]
  /\ wakeups' = IF Arg(t) = "ON" /\ settings.state # "ON" THEN wakeups + 1
                ELSE wakeups
  /\ Continue(t, <<>>)
  /\ UNCHANGED <<files, up, timerSet, hw, stamp, bounds, atBoot, excuses>>

\* The time is taken after the settings were saved.
TakeTimestamp(t) ==
  /\ At(t, "wakeup")
  /\ stamp' = wakeups
  /\ Continue(t, <<>>)
  /\ excuses' = IF \E u \in Thread : Handling(u) THEN excuses
                ELSE excuses \ {"stale"}
  /\ UNCHANGED <<files, up, settings, timerSet, hw, wakeups, bounds, atBoot>>

\* DeepSleepWakeupSettings::timeout.  Without a number the file says 5 minutes.
timeout(clock) ==
  IF timerSet THEN settings.timeout
  ELSE CASE clock.file = "none" ->
              getWakeupTime(clock.second, clock.random, clock.payload)
         [] clock.file = "text" -> override(5)
         [] clock.file = "number" -> override(clock.number)

ActivateDeepSleep(t) ==
  /\ At(t, "activate")
  /\ \E clock \in Clocks :
       Continue(t, <<Do("perform", [clock |-> clock, time |-> timeout(clock),
                                    asked |-> timerSet])>>)
  /\ UNCHANGED <<files, up, settings, timerSet, hw, counts, atBoot, excuses>>

\* Read again, the number is one of seconds.
Forced(clock) == clock.file = "number" /\ clock.number % Word # 0

\* DeepSleepController::performActivate, a job, unless deep sleep is in progress.
performActivate(t) ==
  /\ At(t, "perform")
  /\ \/ Continue(t, <<>>)
     \/ \E now \in Clocks :
          LET s == Arg(t) IN
          Continue(t, <<Do("sleep",
            [clock |-> s.clock, asked |-> s.asked, forced |-> Forced(now),
             time |-> IF Forced(now) THEN now.number % Word ELSE s.time])>>)
  /\ UNCHANGED <<files, up, settings, timerSet, hw, counts, atBoot, excuses>>

\* PLAT_DS_SetDeepSleep; the attempts and what they end in are modelled in
\* DeepSleepController.
Sleep(t) ==
  /\ At(t, "sleep")
  /\ Continue(t, <<>>)
  /\ UNCHANGED <<files, up, settings, timerSet, hw, counts, atBoot, excuses>>

----------------------------------------------------------------------------
(* Calls.                                                                  *)

Api(op, arg) == With("api", <<Do(op, arg)>>)

\* PowerController::SetNetworkStandbyMode.
SetNetworkStandbyMode(t) ==
  /\ At(t, "standby")
  /\ LET mode == Arg(t) IN
       IF mode = settings.standby
       THEN Continue(t, <<>>) /\ UNCHANGED <<settings, hw, excuses>>
       ELSE \/ /\ SetSources(Both(mode), TRUE)
               /\ Continue(t, <<>>)
               /\ UNCHANGED settings
            \/ /\ SetSources(Both(mode), FALSE)
               /\ settings' = [settings EXCEPT !.standby = mode]
               /\ Continue(t, Save("opt"))
  /\ UNCHANGED <<files, up, timerSet, counts, atBoot>>

\* PowerManagerImplementation::setWakeupSourceConfig, in three or four parts.
SetWakeupSourceConfig(t) ==
  /\ At(t, "sources")
  /\ \/ /\ SetSources(Arg(t), TRUE)
        /\ Continue(t, <<>>)
     \/ /\ SetSources(Arg(t), FALSE)
        /\ GiveBack(t, Api("readBack", 0))
  /\ UNCHANGED <<files, up, settings, timerSet, counts, atBoot>>

\* The mode follows two sources that agree; one that is not supported is off.
GetWakeupSourceConfig(t) ==
  /\ At(t, "readBack")
  /\ \/ /\ Continue(t, <<>>)
        /\ Excused({"source"})
     \/ \E read \in SUBSET Sources :
          LET enabled(s) == s \in read /\ hw.sources[s] IN
            /\ GiveBack(t, IF enabled("WIFI") # enabled("LAN") THEN <<>>
                           ELSE Api("compare", enabled("WIFI")))
            /\ Excused(IF read = Sources THEN {} ELSE {"source"})
  /\ UNCHANGED <<files, up, settings, timerSet, hw, counts, atBoot>>

GetNetworkStandbyMode(t) ==
  /\ At(t, "compare")
  /\ GiveBack(t, IF settings.standby = Arg(t) THEN <<>>
                 ELSE Api("standby", Arg(t)))
  /\ UNCHANGED <<files, up, settings, timerSet, hw, counts, atBoot, excuses>>

\* Variant of SetDeepSleepTimer: the time stays signed.
SetSignedTimer(t) ==
  /\ At(t, "timer")
  /\ settings' = [settings EXCEPT !.timeout = IF Arg(t) > Day THEN 0 ELSE Arg(t)]
  /\ timerSet' = TRUE
  /\ Continue(t, Save("opt") \o Save("opt"))
  /\ UNCHANGED <<files, up, hw, counts, atBoot, excuses>>

\* More than a day becomes 0, less than 0 wraps around; saved twice.
SetDeepSleepTimer(t) ==
  /\ At(t, "timer")
  /\ settings' = [settings EXCEPT !.timeout =
                    (IF Arg(t) > Day THEN 0 ELSE Arg(t)) % Word]
  /\ timerSet' = TRUE
  /\ Continue(t, Save("opt") \o Save("opt"))
  /\ UNCHANGED <<files, up, hw, counts, atBoot, excuses>>

\* Zero unless the state is ON; capped.
GetTimeSinceWakeup(t) ==
  /\ At(t, "sinceWakeup")
  /\ Continue(t, <<>>)
  /\ UNCHANGED <<files, up, settings, timerSet, hw, counts, atBoot, excuses>>

Requests ==
  {Api("sinceWakeup", 0)} \cup {Api("standby", mode) : mode \in BOOLEAN}
    \cup {Api("sources", config) : config \in Configs}
    \cup {Api("timer", time) : time \in Timeouts}

ClientCalls ==
  /\ up
  /\ calls < MaxCalls
  /\ calls' = calls + 1
  /\ \E t \in Client :
       \/ \E body \in Requests : Start(t, body) /\ UNCHANGED excuses
       \/ \E state \in Requested : setDevicePowerState(t, state)
  /\ UNCHANGED <<files, up, settings, timerSet, hw, wake, platco, starts, atBoot>>

----------------------------------------------------------------------------
(* Failures.                                                               *)

Dies ==
  /\ up \/ ~Quiet
  /\ todo' = [t \in Thread |-> <<>>]
  /\ up' = FALSE
  /\ settings' = NoSettings
  /\ timerSet' = FALSE
  /\ wakeups' = 0 /\ stamp' = -1
  /\ UNCHANGED <<opt, bounds>>

PluginDies ==
  /\ Dies
  /\ excuses' = IF ram = BadFile THEN excuses \cup {"boot"} ELSE excuses
  /\ UNCHANGED <<ram, hw, atBoot>>

DeviceDies ==
  /\ Dies
  /\ ram' = NoFile
  /\ hw' \in Booted
  /\ atBoot' = Loaded(opt).state
  /\ excuses' = {}

Step(t) ==
  \/ OpenToSave(t) \/ WriteImage(t)
  \/ LoadSettings(t) \/ LoadRam(t) \/ BootToStandby(t) \/ SourcesAtStart(t)
  \/ init(t) \/ Started(t)
  \/ SetPlatformState(t) \/ StoreState(t) \/ ActivateDeepSleep(t)
  \/ performActivate(t) \/ Sleep(t)
  \/ SetNetworkStandbyMode(t) \/ SetWakeupSourceConfig(t)
  \/ GetWakeupSourceConfig(t) \/ GetNetworkStandbyMode(t)
  \/ SetDeepSleepTimer(t) \/ TakeTimestamp(t) \/ GetTimeSinceWakeup(t)

Init ==
  /\ ThreadsInit
  /\ platco \in Builds
  /\ opt = NoFile /\ ram = NoFile
  /\ up = FALSE
  /\ settings = NoSettings
  /\ timerSet = FALSE
  /\ hw \in Booted
  /\ wakeups = 0 /\ stamp = -1
  /\ starts = 0 /\ calls = 0
  /\ atBoot = Loaded(opt).state
  /\ excuses = {}

Next ==
  \/ \E t \in Thread : Step(t)
  \/ ClientCalls
  \/ PluginStarts \/ PluginDies \/ DeviceDies

Spec == Init /\ [][Next]_vars

----------------------------------------------------------------------------
(* Properties.                                                             *)

Settled == up /\ Quiet

\* The variables have their types.
TypeOK ==
  /\ \A file \in {opt, ram} : Valid(file) =>
       /\ file.state \in Names \cup {"MAX"}
       /\ file.timeout \in 0 .. Word - 1
       /\ file.standby \in BOOLEAN
  /\ settings.state \in Names \cup {"UNKNOWN"}
  /\ settings.timeout \in 0 .. Word - 1
  /\ hw.sources \in [Sources -> BOOLEAN]
  /\ excuses \subseteq Excuse

\* When nothing is under way the file holds the settings, unless a save failed
\* (or could not work, for want of a version), two saves crossed, or the build
\* starts in STANDBY without saving that.
SavedWhenSettled ==
  Settled /\ settings.usable /\ excuses \cap {"unsaved", "crossed"} = {}
    => opt = Image(settings)

\* The state before the reboot is the one saved when the device started,
\* however often the plugin has died since, unless that could not be read or the
\* file in /tmp was not created whole.
StateBeforeRebootKept ==
  Settled /\ "boot" \notin excuses => settings.before = atBoot

\* When nothing is under way the platform is in the power state the settings
\* say, whatever was refused and whoever has died, unless it did not tell its
\* state at the start, or the last handler that set it did so between another
\* one's setting it and storing that.
SettingsMatchPlatform ==
  Settled /\ excuses \cap {"blind", "raced"} = {}
    => FromPlatform(hw.state) = settings.state

\* When nothing is under way, two wakeup sources that agree are what network
\* standby says, although calls that set the one and the other interleave,
\* unless the platform did not set or read a source.
StandbyMatchesSources ==
  Settled /\ "source" \notin excuses /\ hw.sources["WIFI"] = hw.sources["LAN"]
    => settings.standby = hw.sources["WIFI"]

\* The time since the wakeup that a client is told is counted from the last
\* change to ON, unless a handler has still to take the time of that change, or
\* handlers overlapped since the time was last taken by one alone.
AwakeSinceLastWakeup ==
  \A t \in Client :
    At(t, "sinceWakeup") /\ settings.state = "ON" /\ "stale" \notin excuses
      => \/ stamp = wakeups
         \/ \E u \in Thread : \E i \in DOMAIN todo[u] : todo[u][i].op = "wakeup"

\* The device sleeps until the maintenance window, a zone's difference later,
\* or not longer than the limit when a file said so, unless a client has set the
\* time or the file, read again, holds a number.
WakesForMaintenance ==
  \A t \in Thread : At(t, "sleep") =>
    LET s == Arg(t) c == s.clock IN
      \/ s.asked
      \/ s.forced
      \/ IF c.file = "none"
         THEN InWindow(c.second + s.time - getTZDiffInSec(c.payload))
         ELSE s.time <= limit

=============================================================================
