------------------------- MODULE ThermalController -------------------------
(***************************************************************************)
(* The thermal protection (src/plugin/ThermalController.cpp, with the HAL  *)
(* of hal/ThermalImpl.h or, under MFR_TEMP_CLOCK_READ, ThermalMfrImpl.h):  *)
(* a thread reads the temperature every PollInterval seconds and asks for  *)
(* deep sleep or a reboot, or slows the clock down, when it is or stays    *)
(* too high.                                                               *)
(*                                                                         *)
(* Time advances with the polls, one interval each.  The times it marks    *)
(* are kept as ages, read from the wall clock and capped at Cap both ways; *)
(* that clock may be set, once.  The temperature and the power state are   *)
(* the environment's, sampled at the polls.  The locks of the class are    *)
(* modelled in PluginApi.                                                  *)
(***************************************************************************)
EXTENDS Integers, Sequences

CONSTANTS
  Temp,          \* temperatures, whole degrees: the poll cuts fractions off
  PollInterval,  \* POLL_INTERVAL or its RFC
  Cap,           \* bound: an age of Cap or -Cap stands for all beyond it
  Builds,        \* values of MFR_TEMP_CLOCK_READ
  Settings,      \* what RFC may say: [enable, limits, rates]
  Frequencies,   \* what the platform may know of its clock rates
  Intervals,     \* arguments of SetOvertempGraceInterval
  Steps          \* seconds by which the wall clock may be set

\* thermal_poll_interval divides 300, and 300 / interval divides pollCount: the
\* process dies of any other interval.
ASSUME IntervalAssumption == PollInterval \in 1 .. 300

\* What RFC says is read with atoi.
ASSUME NumberAssumption ==
  /\ Cap \in Nat
  /\ Temp \subseteq Int
  /\ Intervals \subseteq Int
  /\ Steps \subseteq Int
  /\ \A list \in Frequencies : list \in Seq(Nat)
  /\ \A rfc \in Settings :
       /\ \A z \in DOMAIN rfc.limits : \A k \in DOMAIN rfc.limits[z] :
            rfc.limits[z][k] \in Int
       /\ \A k \in DOMAIN rfc.rates : rfc.rates[k] \in Int

VARIABLES
  enabled,      \* isFeatureEnabled: there is a poll thread
  limits,       \* rebootThreshold, deepsleepThreshold and declockThreshold
  rates,        \* PLAT_CPU_SPEED_*
  speed,        \* cur_Cpu_Speed
  cpu,          \* the rate the CPU runs at
  zone,         \* _rebootZone and the static deepSleepZone
  age,          \* seconds since the monitorTime of each of the three, by
                \* the wall clock
  temp,
  awake,        \* the power state is not STANDBY_DEEP_SLEEP
  requested,    \* what the last poll asked for
  cool,         \* history: seconds since a poll's time with less than safe
  unseen,       \* history: that poll did not look at the temperature
  warm,         \* history: seconds since a poll read the declock concern
  tried,        \* history: deep sleep was asked for in this warm spell
  moved         \* history and bound: whether, and how, the clock was set

config == <<enabled, limits, rates>>
clock == <<speed, cpu>>
world == <<temp, awake>>
watch == <<cool, unseen, warm, tried>>
history == <<watch, moved>>
vars == <<config, clock, zone, age, world, requested, history>>

Zones == {"deepSleep", "reboot"}

----------------------------------------------------------------------------
(* Configuration.                                                          *)

Limits(critical, concern, safe, grace) ==
  [critical |-> critical, concern |-> concern, safe |-> safe, grace |-> grace]

Defaults ==
  [reboot |-> Limits(120, 120, 110, 600),
   deepSleep |-> Limits(115, 110, 100, 600),
   declock |-> Limits(110, 100, 90, 60)]

\* Variant of MfrDefaults: the two zones swapped.
MfrDefaultsSwapped ==
  [reboot |-> Limits(105, 100, 90, 600),
   deepSleep |-> Limits(110, 102, 100, 600),
   declock |-> Limits(100, 90, 80, 60)]

MfrDefaults ==
  [reboot |-> Limits(110, 102, 100, 600),
   deepSleep |-> Limits(105, 100, 90, 600),
   declock |-> Limits(100, 90, 80, 60)]

\* The properties are read when RFC_ENABLE is there, and not "false".
updateRFCStatus(rfc) == rfc.enable = "true"

\* f with the values that g gives some of its keys.
Override(f, g) ==
  [k \in DOMAIN f |-> IF k \in DOMAIN g THEN g[k] ELSE f[k]]

read_ConfigProps(rfc, defaults) ==
  IF updateRFCStatus(rfc)
  THEN [k \in DOMAIN defaults |->
          IF k \in DOMAIN rfc.limits
          THEN Override(defaults[k], rfc.limits[k]) ELSE defaults[k]]
  ELSE defaults

\* An absent parameter leaves the protection on.
isThermalProtectionEnabled(rfc) == rfc.enable # "false"

Rates(normal, scaled, minimal) ==
  [normal |-> normal, scaled |-> scaled, minimal |-> minimal]

\* ThermalImpl: list is the sorted list of the rates, empty when it cannot be
\* read.  A rate that RFC gives is kept.
DetemineClockSpeeds(list, given) ==
  LET n == Len(list)
      found == Rates(list[n], list[n \div 2 + 1], list[1])
  IN IF n = 0 THEN given
     ELSE [k \in DOMAIN given |-> IF given[k] = 0 THEN found[k] ELSE given[k]]

\* ThermalMfrImpl: the answer, here made of the list, replaces what RFC gives.
MfrDetemineClockSpeeds(list, given) ==
  IF list = <<>> THEN given ELSE Rates(list[Len(list)], list[1], list[1])

GivenRates(rfc) ==
  IF updateRFCStatus(rfc) THEN Override(Rates(0, 0, 0), rfc.rates)
                          ELSE Rates(0, 0, 0)

\* The clock is left alone when one of its rates is unknown.
UsableLimits(l, r) ==
  IF \E k \in DOMAIN r : r[k] = 0 THEN [l EXCEPT !.declock.grace = 0] ELSE l

initializeThermalProtection(mfr, rfc, list) ==
  LET l == read_ConfigProps(rfc, IF mfr THEN MfrDefaults ELSE Defaults)
      given == GivenRates(rfc)
      declocks == isThermalProtectionEnabled(rfc) /\ l.declock.grace > 0
  IN /\ enabled = isThermalProtectionEnabled(rfc)
     /\ rates = CASE ~declocks -> given
                  [] declocks /\ mfr -> MfrDetemineClockSpeeds(list, given)
                  [] OTHER -> DetemineClockSpeeds(list, given)
     /\ limits = IF declocks THEN UsableLimits(l, rates) ELSE l
     /\ speed = IF declocks THEN rates.normal ELSE 0

Init ==
  /\ \E mfr \in Builds, rfc \in Settings, list \in Frequencies :
       initializeThermalProtection(mfr, rfc, list)
  /\ cpu \in {speed} \cup {rates[k] : k \in DOMAIN rates}   \* as it was left
  /\ zone = [z \in Zones |-> FALSE]
  /\ age = [z \in DOMAIN limits |-> Cap]    \* since 1970
  /\ temp \in Temp
  /\ awake = TRUE
  /\ requested = {}
  /\ cool = [z \in Zones |-> 0]
  /\ unseen = [z \in Zones |-> FALSE]
  /\ warm = Cap
  /\ tried = FALSE
  /\ moved = "no"

----------------------------------------------------------------------------
(* A poll.                                                                 *)

\* Variant of Later: without the bound.
LaterUnbounded(s) == s + PollInterval

Later(s) == IF s + PollInterval > Cap THEN Cap ELSE s + PollInterval

Enters(z) == ~zone[z] /\ temp >= limits[z].concern

Leaves(z) == zone[z] /\ temp < limits[z].safe

Critical(z) == temp >= limits[z].critical

\* In its zone after the poll, a critical temperature changes nothing.
ZoneAfter(z) ==
  IF limits[z].grace = 0 \/ Critical(z) THEN zone[z]
  ELSE (zone[z] \/ Enters(z)) /\ ~Leaves(z)

\* Variant of MarkAfter: the time is not taken when the zone is entered.
MarkKept(z) == Later(age[z])

\* Variant of MarkAfter: the time is taken at every poll in the zone.
MarkRestarted(z) ==
  IF limits[z].grace # 0 /\ ~Critical(z) /\ temp >= limits[z].concern
  THEN 0 ELSE Later(age[z])

MarkAfter(z) ==
  IF limits[z].grace # 0 /\ ~Critical(z) /\ Enters(z) THEN 0 ELSE Later(age[z])

\* deepSleepIfNeeded and rebootIfNeeded.
Needed(z) ==
  /\ limits[z].grace # 0
  /\ Critical(z) \/ (ZoneAfter(z) /\ MarkAfter(z) >= limits[z].grace)

GraceOver == Later(age.declock) >= limits.declock.grace

\* The branch of declockIfNeeded.
Band ==
  LET l == limits.declock IN
  IF l.grace = 0 THEN "off"
  ELSE IF temp >= l.critical THEN "critical"
  ELSE IF temp >= l.concern THEN "concern"
  ELSE IF temp > l.safe THEN "warm"
  ELSE "cool"

\* The rate declockIfNeeded chooses.
Declocked ==
  CASE Band = "off" -> speed
    [] Band = "critical" -> rates.minimal
    [] Band = "concern" -> IF speed = rates.normal THEN rates.scaled ELSE speed
    [] Band = "warm" ->
         IF speed = rates.minimal /\ GraceOver THEN rates.scaled ELSE speed
    [] Band = "cool" -> IF GraceOver THEN rates.normal ELSE speed

\* Variant of DeclockMark: the time is taken when the rate changes.
DeclockMarkOnChange == IF Declocked = speed THEN Later(age.declock) ELSE 0

\* Variant of DeclockMark: the time is taken at every poll.
DeclockMarkRestarted == IF limits.declock.grace = 0 THEN Later(age.declock) ELSE 0

\* Its monitorTime: running only while a slower rate may be given up.
DeclockMark ==
  IF \/ Band \in {"off", "cool"}
     \/ Band = "warm" /\ speed = rates.minimal /\ ~GraceOver
  THEN Later(age.declock) ELSE 0

\* A failure of SetClockSpeed is logged.
declockIfNeeded ==
  /\ speed' = Declocked
  /\ IF Declocked = speed THEN UNCHANGED cpu ELSE cpu' \in {cpu, Declocked}

\* What is true of the temperature at the time of each poll.
Watch(evaluated) ==
  /\ cool' = [z \in Zones |->
                IF temp < limits[z].safe THEN 0 ELSE Later(cool[z])]
  /\ unseen' = [z \in Zones |->
                  IF temp < limits[z].safe
                  THEN zone[z] /\ ~(evaluated /\ limits[z].grace # 0)
                  ELSE unseen[z]]
  /\ warm' = IF evaluated /\ temp >= limits.declock.concern THEN 0 ELSE Later(warm)
  /\ tried' = (\/ "deepSleep" \in requested'
               \/ tried /\ ~(evaluated /\ temp < limits.deepSleep.safe))
  /\ UNCHANGED moved

\* No temperature is read in DEEP_SLEEP, nor when the platform does not answer.
Skipped ==
  /\ enabled
  /\ requested' = {}
  /\ age' = [z \in DOMAIN age |-> Later(age[z])]
  /\ Watch(FALSE)
  /\ UNCHANGED <<config, clock, zone, world>>

pollThermalLevels ==
  /\ enabled
  /\ awake
  /\ requested' = {z \in Zones : Needed(z)}
  /\ zone' = [z \in Zones |-> ZoneAfter(z)]
  /\ age' = [z \in DOMAIN age |->
               IF z \in Zones THEN MarkAfter(z) ELSE DeclockMark]
  /\ declockIfNeeded
  /\ Watch(TRUE)
  /\ UNCHANGED <<config, world>>

----------------------------------------------------------------------------
\* Both zones share the interval; 0 stops both.
SetOvertempGraceInterval(grace) ==
  /\ grace >= 0
  /\ limits' = [limits EXCEPT !.reboot.grace = grace, !.deepSleep.grace = grace]
  /\ UNCHANGED <<enabled, rates, clock, zone, age, world, requested, history>>

TemperatureChanges ==
  /\ temp' \in Temp
  /\ UNCHANGED <<config, clock, zone, age, awake, requested, history>>

\* PowerManagerImplementation::SetPowerState.
PowerChanges ==
  /\ awake' \in BOOLEAN
  /\ UNCHANGED <<config, clock, zone, age, temp, requested, history>>

Aged(s, step) ==
  IF s + step > Cap THEN Cap ELSE IF s + step < -Cap THEN -Cap ELSE s + step

\* gettimeofday is a wall clock, set when the time is known, and again when it
\* changes.  The histories follow it forward only: what they say has passed by
\* the clock or really.
ClockSet(step) ==
  /\ moved = "no"
  /\ moved' = IF step > 0 THEN "forward" ELSE "back"
  /\ age' = [z \in DOMAIN age |-> Aged(age[z], step)]
  /\ IF step > 0
     THEN /\ cool' = [z \in Zones |-> Aged(cool[z], step)]
          /\ warm' = Aged(warm, step)
     ELSE UNCHANGED <<cool, warm>>
  /\ UNCHANGED <<config, clock, zone, world, requested, unseen, tried>>

Environment ==
  \/ TemperatureChanges
  \/ PowerChanges
  \/ \E grace \in Intervals : SetOvertempGraceInterval(grace)
  \/ \E step \in Steps : ClockSet(step)

Next == Skipped \/ pollThermalLevels \/ Environment

Spec == Init /\ [][Next]_vars

\* The thread polls for ever, and the platform does not fail at every poll.  A
\* poll that finds nothing to change is a stuttering step.
Fairness == SF_vars(pollThermalLevels)

LiveSpec == Spec /\ Fairness

----------------------------------------------------------------------------
(* Properties.                                                             *)

\* The variables have their types.
TypeOK ==
  /\ {speed, cpu} \subseteq {0} \cup {rates[k] : k \in DOMAIN rates}
  /\ zone \in [Zones -> BOOLEAN]
  /\ \A z \in DOMAIN age : age[z] \in -Cap .. Cap
  /\ requested \subseteq Zones

\* Deep sleep and reboots are asked for at a critical temperature only, or
\* when the temperature has not been below safe for the grace interval at any
\* poll that looked at it, however the wall clock is set back.
RequestJustified ==
  [][\A z \in requested' \ requested :
       \/ Critical(z)
       \/ cool'[z] >= limits[z].grace
       \/ unseen[z]]_vars

\* What was seen of the spell, by a clock that was not set back, with one
\* interval for both zones, as SetOvertempGraceInterval and the defaults have it.
Comparable ==
  /\ limits.reboot.grace = limits.deepSleep.grace
  /\ ~unseen["reboot"]
  /\ moved # "back"

\* With the thresholds of the two builds, no reboot is asked for in a warm spell
\* in which deep sleep was asked for neither before nor at the same poll.
NoRebootWithoutDeepSleep ==
  [][Comparable => ("reboot" \in requested' => tried')]_vars

\* The clock is made faster only when no poll has read a temperature of concern
\* for the grace interval.
FasterAfterGrace == [][speed' > speed => warm' >= limits.declock.grace]_vars

\* If the box is warm and awake for ever, deep sleep or a reboot is asked for
\* again and again: no zone is left, and no timer started again, for ever.
WarmEndsInRequest ==
  <>[](enabled /\ awake /\ limits.deepSleep.grace > 0
         /\ temp >= limits.deepSleep.concern)
    => []<>(requested # {})

CoolAtLast ==
  <>[](enabled /\ awake /\ limits.declock.grace > 0
         /\ temp <= limits.declock.safe)

\* A cool box that stays awake gets the clock rate of its CPU back, unless the
\* rate was not what cur_Cpu_Speed says: it started slow, or a change failed.
CoolEndsAtNormal == CoolAtLast /\ [](cpu = speed) => <>[](cpu = rates.normal)

=============================================================================
