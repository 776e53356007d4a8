---------------------- MODULE ThermalController_proof ----------------------
(***************************************************************************)
(* Proofs about ThermalController, for any temperatures, thresholds, grace *)
(* intervals and clock rates that RFC and the platform may give, any poll  *)
(* interval, and any bound Cap on the ages.                                *)
(***************************************************************************)
EXTENDS ThermalController, TLAPS

----------------------------------------------------------------------------
(* The configuration.                                                      *)

Levels == {"reboot", "deepSleep", "declock"}
Speeds == {"normal", "scaled", "minimal"}

Members == {"critical", "concern", "safe", "grace"}

\* The thresholds are numbers.
Numbers(l) ==
  /\ DOMAIN l = Levels
  /\ \A z \in Levels : /\ DOMAIN l[z] = Members
                       /\ l[z].critical \in Int /\ l[z].concern \in Int
                       /\ l[z].safe \in Int /\ l[z].grace \in Int

\* So are the clock rates.
Hertz(r) == DOMAIN r = Speeds /\ \A k \in Speeds : r[k] \in Int

\* Override keeps the keys and takes each value from one of the two.
LEMMA OverrideFacts ==
  ASSUME NEW f, NEW g
  PROVE  /\ DOMAIN Override(f, g) = DOMAIN f
         /\ \A k \in DOMAIN f :
              Override(f, g)[k] = IF k \in DOMAIN g THEN g[k] ELSE f[k]
BY DEF Override

\* The thresholds of both builds, and what RFC makes of them, are numbers.
LEMMA ConfigNumbers ==
  ASSUME NEW rfc \in Settings, NEW d \in {Defaults, MfrDefaults}
  PROVE  Numbers(read_ConfigProps(rfc, d))
<1>1. Numbers(d)
  BY DEF Defaults, MfrDefaults, Limits, Numbers, Levels, Members
<1>3. CASE ~updateRFCStatus(rfc)
  BY <1>1, <1>3 DEF read_ConfigProps
<1>4. CASE updateRFCStatus(rfc)
  <2> DEFINE l == read_ConfigProps(rfc, d)
  <2>1. /\ DOMAIN l = Levels
        /\ \A z \in Levels :
             l[z] = IF z \in DOMAIN rfc.limits
                    THEN Override(d[z], rfc.limits[z]) ELSE d[z]
    BY <1>1, <1>4 DEF read_ConfigProps, Numbers
  <2>2. ASSUME NEW z \in Levels, NEW k \in Members
        PROVE  DOMAIN l[z] = Members /\ l[z][k] \in Int
    <3>1. d[z][k] \in Int /\ DOMAIN d[z] = Members
      BY <1>1, <2>2 DEF Numbers, Members
    <3>2. CASE z \notin DOMAIN rfc.limits
      BY <2>1, <3>1, <3>2
    <3>3. CASE z \in DOMAIN rfc.limits
      <4>1. /\ DOMAIN l[z] = Members
            /\ l[z][k] = IF k \in DOMAIN rfc.limits[z]
                         THEN rfc.limits[z][k] ELSE d[z][k]
        BY <2>1, <3>1, <3>3, OverrideFacts
      <4> QED BY <3>1, <3>3, <4>1, NumberAssumption
    <3> QED BY <3>2, <3>3
  <2> HIDE DEF l
  <2>3. Numbers(l)
    BY <2>1, <2>2 DEF Numbers, Members
  <2> QED BY <2>3 DEF l
<1> QED BY <1>3, <1>4

\* The rates RFC gives are numbers, 0 where it gives none.
LEMMA GivenRatesHertz ==
  ASSUME NEW rfc \in Settings
  PROVE  Hertz(GivenRates(rfc))
<1>1. Hertz(Rates(0, 0, 0))
  BY DEF Rates, Hertz, Speeds
<1>2. Hertz(Override(Rates(0, 0, 0), rfc.rates))
  BY <1>1, OverrideFacts, NumberAssumption DEF Hertz
<1> QED BY <1>1, <1>2 DEF GivenRates

\* The index of the middle rate is one of the list.
LEMMA MiddleRate ==
  ASSUME NEW list \in Seq(Nat), list # <<>>
  PROVE  /\ Len(list) \in Nat \ {0}
         /\ 1 <= Len(list) \div 2 + 1 /\ Len(list) \div 2 + 1 <= Len(list)
         /\ \A i \in 1 .. Len(list) : list[i] \in Nat
         /\ Len(list) \div 2 + 1 \in 1 .. Len(list)
<1>1. Len(list) \in Nat \ {0} /\ \A i \in 1 .. Len(list) : list[i] \in Nat
  OBVIOUS
<1>2. \A n \in Nat \ {0} : n \div 2 + 1 \in 1 .. n
  OBVIOUS
<1> QED BY <1>1, <1>2

\* The rates the platform is asked for are numbers.
LEMMA FoundRatesHertz ==
  ASSUME NEW list \in Frequencies, NEW given, Hertz(given)
  PROVE  /\ Hertz(DetemineClockSpeeds(list, given))
         /\ Hertz(MfrDetemineClockSpeeds(list, given))
<1>0. list \in Seq(Nat)
  BY NumberAssumption
<1>1. CASE list = <<>>
  BY <1>1 DEF DetemineClockSpeeds, MfrDetemineClockSpeeds
<1>2. CASE list # <<>>
  <2> DEFINE n == Len(list)
             found == Rates(list[n], list[n \div 2 + 1], list[1])
  <2>1. /\ n # 0 /\ list[n] \in Int /\ list[n \div 2 + 1] \in Int
        /\ list[1] \in Int
    BY <1>0, <1>2, MiddleRate
  <2>2. Hertz(found) /\ Hertz(Rates(list[n], list[1], list[1]))
    BY <2>1 DEF Hertz, Rates, Speeds
  <2>3. DetemineClockSpeeds(list, given) =
          [k \in DOMAIN given |-> IF given[k] = 0 THEN found[k] ELSE given[k]]
    BY <2>1 DEF DetemineClockSpeeds
  <2> HIDE DEF found
  <2>4. Hertz(DetemineClockSpeeds(list, given))
    BY <2>2, <2>3 DEF Hertz
  <2> QED BY <1>2, <2>2, <2>4 DEF MfrDetemineClockSpeeds
<1> QED BY <1>1, <1>2

----------------------------------------------------------------------------
(* Type correctness.                                                       *)

\* The types of all variables.
TInv ==
  /\ Numbers(limits) /\ Hertz(rates)
  /\ speed \in {0} \cup {rates[k] : k \in DOMAIN rates}
  /\ cpu \in {0} \cup {rates[k] : k \in DOMAIN rates}
  /\ zone \in [Zones -> BOOLEAN]
  /\ age \in [Levels -> -Cap .. Cap]
  /\ temp \in Int
  /\ requested \subseteq Zones
  /\ cool \in [Zones -> 0 .. Cap]
  /\ unseen \in [Zones -> BOOLEAN]
  /\ warm \in 0 .. Cap
  /\ tried \in BOOLEAN
  /\ moved \in {"no", "forward", "back"}

\* A time that is marked grows older, up to Cap, and in step with the others.
LEMMA LaterFacts ==
  /\ \A s \in 0 .. Cap : Later(s) \in 0 .. Cap
  /\ \A s \in -Cap .. Cap : Later(s) \in -Cap .. Cap
  /\ \A s, r \in -Cap .. Cap : s <= r => Later(s) <= Later(r)
  /\ 0 .. Cap \subseteq -Cap .. Cap
  /\ 0 \in 0 .. Cap /\ Cap \in 0 .. Cap
BY IntervalAssumption, NumberAssumption DEF Later

\* The marks and the histories move with the clock, and keep their order.
LEMMA AgedFacts ==
  ASSUME NEW step \in Int
  PROVE  /\ \A s \in -Cap .. Cap : Aged(s, step) \in -Cap .. Cap
         /\ step > 0 => \A s \in 0 .. Cap : Aged(s, step) \in 0 .. Cap
         /\ \A s, r \in -Cap .. Cap : s <= r => Aged(s, step) <= Aged(r, step)
         /\ ~(step > 0) => \A s \in -Cap .. Cap : Aged(s, step) <= s
BY NumberAssumption DEF Aged

\* What RFC and the platform say gives a typed configuration.  The declocking
\* that is left on starts at the normal rate.
LEMMA ConfigType ==
  ASSUME NEW mfr \in Builds, NEW rfc \in Settings, NEW list \in Frequencies,
         initializeThermalProtection(mfr, rfc, list)
  PROVE  /\ Numbers(limits) /\ Hertz(rates)
         /\ speed \in {0, rates.normal}
         /\ enabled /\ limits.declock.grace > 0 => speed = rates.normal
<1> DEFINE l == read_ConfigProps(rfc, IF mfr THEN MfrDefaults ELSE Defaults)
           given == GivenRates(rfc)
           declocks == isThermalProtectionEnabled(rfc) /\ l.declock.grace > 0
<1>1. Numbers(l) /\ Hertz(given)
  BY ConfigNumbers, GivenRatesHertz
<1>2. /\ Hertz(DetemineClockSpeeds(list, given))
      /\ Hertz(MfrDetemineClockSpeeds(list, given))
  BY <1>1, FoundRatesHertz
<1>3. /\ enabled = isThermalProtectionEnabled(rfc)
      /\ rates = CASE ~declocks -> given
                   [] declocks /\ mfr -> MfrDetemineClockSpeeds(list, given)
                   [] OTHER -> DetemineClockSpeeds(list, given)
      /\ limits = IF declocks THEN UsableLimits(l, rates) ELSE l
      /\ speed = IF declocks THEN rates.normal ELSE 0
  BY DEF initializeThermalProtection
<1> HIDE DEF l, given
<1>4. Hertz(rates)
  BY <1>1, <1>2, <1>3
<1>5. \A r : Numbers(UsableLimits(l, r))
  BY <1>1 DEF UsableLimits, Numbers, Levels, Members
<1>6. Numbers(limits)
  BY <1>1, <1>3, <1>5
<1>7. enabled /\ limits.declock.grace > 0 => speed = rates.normal
  BY <1>1, <1>3 DEF Numbers, Levels
<1> QED BY <1>3, <1>4, <1>6, <1>7

\* Every configuration the program starts with is typed.
LEMMA TInvInit ==
  ASSUME Init
  PROVE  TInv
<1>1. /\ Numbers(limits) /\ Hertz(rates) /\ speed \in {0, rates.normal}
  BY ConfigType DEF Init
<1>2. speed \in {0} \cup {rates[k] : k \in DOMAIN rates}
  BY <1>1 DEF Hertz, Speeds
<1>3. age \in [Levels -> -Cap .. Cap] /\ cool \in [Zones -> 0 .. Cap]
  BY <1>1, LaterFacts DEF Init, Numbers
<1>4. temp \in Int
  BY NumberAssumption DEF Init
<1>5. cpu \in {0} \cup {rates[k] : k \in DOMAIN rates}
  BY <1>2 DEF Init
<1> QED BY <1>1, <1>2, <1>3, <1>4, <1>5, LaterFacts DEF Init, TInv

\* The rate declockIfNeeded chooses is one of the three, or the one it has.
LEMMA DeclockedFacts ==
  ASSUME TInv
  PROVE  /\ Declocked \in {speed, rates.normal, rates.scaled, rates.minimal}
         /\ Declocked \in {0} \cup {rates[k] : k \in DOMAIN rates}
         /\ Band \in {"off", "critical", "concern", "warm", "cool"}
<1>1. Band \in {"off", "critical", "concern", "warm", "cool"}
  BY DEF Band
<1>2. Declocked \in {speed, rates.normal, rates.scaled, rates.minimal}
  BY <1>1 DEF Declocked
<1>3. \A k \in Speeds : rates[k] \in {rates[j] : j \in DOMAIN rates}
  BY DEF TInv, Hertz
<1>4. Declocked \in {0} \cup {rates[k] : k \in DOMAIN rates}
  BY <1>2, <1>3 DEF TInv, Speeds
<1> QED BY <1>1, <1>2, <1>4

\* The histories keep their types.
LEMMA WatchType ==
  ASSUME TInv, NEW evaluated \in BOOLEAN, Watch(evaluated),
         requested' \subseteq Zones
  PROVE  /\ cool' \in [Zones -> 0 .. Cap]
         /\ unseen' \in [Zones -> BOOLEAN]
         /\ warm' \in 0 .. Cap
         /\ tried' \in BOOLEAN
         /\ moved' = moved
BY LaterFacts DEF TInv, Watch

\* SetOvertempGraceInterval changes two numbers.
LEMMA GraceFacts ==
  ASSUME Numbers(limits), NEW grace \in Int, SetOvertempGraceInterval(grace)
  PROVE  /\ Numbers(limits')
         /\ limits'.reboot.grace = grace /\ limits'.deepSleep.grace = grace
         /\ limits'.declock = limits.declock
         /\ \A z \in Levels : \A k \in Members \ {"grace"} :
              limits'[z][k] = limits[z][k]
<1> DEFINE r == [limits.reboot EXCEPT !.grace = grace]
           d == [limits.deepSleep EXCEPT !.grace = grace]
<1>1. /\ DOMAIN r = Members /\ DOMAIN d = Members
      /\ r.grace = grace /\ d.grace = grace
      /\ \A k \in Members \ {"grace"} : /\ r[k] = limits.reboot[k]
                                        /\ d[k] = limits.deepSleep[k]
  BY DEF Numbers, Levels, Members
<1>2. /\ DOMAIN limits' = Levels
      /\ limits'["reboot"] = r /\ limits'["deepSleep"] = d
      /\ limits'["declock"] = limits["declock"]
  BY DEF SetOvertempGraceInterval, Numbers, Levels
<1> HIDE DEF r, d
<1>3. ASSUME NEW z \in Levels, NEW k \in Members \ {"grace"}
      PROVE  limits'[z][k] = limits[z][k]
  BY <1>1, <1>2, <1>3 DEF Levels
<1>4. ASSUME NEW z \in Levels
      PROVE  DOMAIN limits'[z] = Members /\ limits'[z].grace \in Int
  BY <1>1, <1>2, <1>4 DEF Levels, Numbers
<1> QED BY <1>1, <1>2, <1>3, <1>4 DEF Numbers, Members

\* Every step keeps the types.
LEMMA TInvNext ==
  ASSUME TInv, [Next]_vars
  PROVE  TInv'
<1>1. CASE UNCHANGED vars
  BY <1>1 DEF vars, config, clock, world, history, watch, TInv
<1>2. CASE Skipped
  <2>1. /\ UNCHANGED <<limits, rates, speed, cpu, zone, temp>>
        /\ requested' = {}
    BY <1>2 DEF Skipped, config, clock, world
  <2>2. age' \in [Levels -> -Cap .. Cap]
    BY <1>2, LaterFacts DEF Skipped, TInv
  <2>3. /\ cool' \in [Zones -> 0 .. Cap]
        /\ unseen' \in [Zones -> BOOLEAN]
        /\ warm' \in 0 .. Cap
        /\ tried' \in BOOLEAN
        /\ moved' = moved
    BY <1>2, <2>1, WatchType DEF Skipped
  <2> QED BY <2>1, <2>2, <2>3 DEF TInv
<1>3. CASE pollThermalLevels
  <2>1. UNCHANGED <<limits, rates, temp>> /\ requested' \subseteq Zones
    BY <1>3 DEF pollThermalLevels, config, world
  <2>2. zone' \in [Zones -> BOOLEAN]
    BY <1>3 DEF pollThermalLevels, TInv, ZoneAfter
  <2>3. \A z \in Zones : MarkAfter(z) \in -Cap .. Cap
    BY LaterFacts DEF MarkAfter, TInv, Zones, Levels
  <2>4. DeclockMark \in -Cap .. Cap
    BY LaterFacts DEF DeclockMark, TInv, Levels
  <2>5. age' \in [Levels -> -Cap .. Cap]
    BY <1>3, <2>3, <2>4 DEF pollThermalLevels, TInv
  <2>6. /\ cool' \in [Zones -> 0 .. Cap]
        /\ unseen' \in [Zones -> BOOLEAN]
        /\ warm' \in 0 .. Cap
        /\ tried' \in BOOLEAN
        /\ moved' = moved
    BY <1>3, <2>1, WatchType DEF pollThermalLevels
  <2>7. speed' = Declocked /\ cpu' \in {cpu, Declocked}
    BY <1>3 DEF pollThermalLevels, declockIfNeeded
  <2> QED
    BY <2>1, <2>2, <2>5, <2>6, <2>7, DeclockedFacts DEF TInv
<1>4. CASE TemperatureChanges
  <2>1. temp' \in Int
    BY <1>4, NumberAssumption DEF TemperatureChanges
  <2> QED
    BY <1>4, <2>1 DEF TemperatureChanges, config, clock, history, watch, TInv
<1>5. CASE PowerChanges
  BY <1>5 DEF PowerChanges, config, clock, history, watch, TInv
<1>6. ASSUME NEW grace \in Intervals, SetOvertempGraceInterval(grace)
      PROVE  TInv'
  <2>1. Numbers(limits')
    BY <1>6, NumberAssumption, GraceFacts DEF TInv
  <2> QED
    BY <1>6, <2>1
    DEF SetOvertempGraceInterval, clock, world, history, watch, TInv
<1>7. ASSUME NEW step \in Steps, ClockSet(step)
      PROVE  TInv'
  <2>1. UNCHANGED <<limits, rates, speed, cpu, zone, temp, requested, unseen,
                    tried>>
    BY <1>7 DEF ClockSet, config, clock, world
  <2>2. age' \in [Levels -> -Cap .. Cap]
    BY <1>7, NumberAssumption, AgedFacts DEF ClockSet, TInv
  <2>3. cool' \in [Zones -> 0 .. Cap] /\ warm' \in 0 .. Cap
    BY <1>7, NumberAssumption, AgedFacts DEF ClockSet, TInv
  <2>4. moved' \in {"no", "forward", "back"}
    BY <1>7 DEF ClockSet
  <2> QED BY <2>1, <2>2, <2>3, <2>4 DEF TInv
<1> QED BY <1>1, <1>2, <1>3, <1>4, <1>5, <1>6, <1>7 DEF Next, Environment

\* TypeOK: the clock rate is always 0 or one of the three that initialisation
\* found, whatever declockIfNeeded goes through; ages stay within Cap.
THEOREM TypeCorrect == Spec => []TypeOK
<1>1. TInv => TypeOK
  BY DEF TInv, TypeOK
<1>2. Init => TInv
  BY TInvInit
<1>3. TInv /\ [Next]_vars => TInv'
  BY TInvNext
<1> QED BY <1>1, <1>2, <1>3, PTL DEF Spec

----------------------------------------------------------------------------
(* A zone's timer never overtakes the history of the temperature.          *)

\* In a zone, the poll's time since the zone was entered is at most the time
\* since the temperature was last below safe, unless a poll that did not look
\* missed that.  With thresholds the wrong way round (critical below safe) a
\* temperature may be critical and safe, and the zone is kept; but then it is
\* left as soon as the temperature is not critical.
ZoneTimed(z) ==
  zone[z] /\ limits[z].safe <= limits[z].critical
    => cool[z] >= age[z] \/ unseen[z]

ZInv == \A z \in Zones : ZoneTimed(z)

\* What a poll does to a zone and what is watched of it.
LEMMA PollZone ==
  ASSUME TInv, pollThermalLevels, NEW z \in Zones
  PROVE  /\ zone'[z] = ZoneAfter(z) /\ age'[z] = MarkAfter(z)
         /\ cool'[z] = IF temp < limits[z].safe THEN 0 ELSE Later(cool[z])
         /\ unseen'[z] = IF temp < limits[z].safe
                         THEN zone[z] /\ limits[z].grace = 0 ELSE unseen[z]
         /\ limits' = limits /\ temp' = temp
         /\ z \in requested' <=> Needed(z)
         /\ age[z] \in -Cap .. Cap /\ cool[z] \in 0 .. Cap
         /\ limits[z].safe \in Int /\ limits[z].critical \in Int
         /\ limits[z].concern \in Int /\ limits[z].grace \in Int
         /\ temp \in Int /\ zone[z] \in BOOLEAN /\ unseen[z] \in BOOLEAN
<1>1. z \in Levels
  BY DEF Zones, Levels
<1>2. zone'[z] = ZoneAfter(z) /\ (z \in requested' <=> Needed(z))
  BY DEF pollThermalLevels
<1>3. age'[z] = MarkAfter(z)
  BY <1>1 DEF pollThermalLevels, TInv
<1>4. limits' = limits /\ temp' = temp
  BY DEF pollThermalLevels, config, world
<1>5. /\ cool'[z] = IF temp < limits[z].safe THEN 0 ELSE Later(cool[z])
      /\ unseen'[z] = IF temp < limits[z].safe
                      THEN zone[z] /\ ~(TRUE /\ limits[z].grace # 0)
                      ELSE unseen[z]
  BY DEF pollThermalLevels, Watch
<1>6. /\ age[z] \in -Cap .. Cap /\ cool[z] \in 0 .. Cap
      /\ limits[z].safe \in Int /\ limits[z].critical \in Int
      /\ limits[z].concern \in Int /\ limits[z].grace \in Int
      /\ temp \in Int /\ zone[z] \in BOOLEAN /\ unseen[z] \in BOOLEAN
  BY <1>1 DEF TInv, Numbers
<1> QED BY <1>2, <1>3, <1>4, <1>5, <1>6

\* And a poll that does not look.
LEMMA SkipZone ==
  ASSUME TInv, Skipped, NEW z \in Zones
  PROVE  /\ age'[z] = Later(age[z])
         /\ cool'[z] = IF temp < limits[z].safe THEN 0 ELSE Later(cool[z])
         /\ unseen'[z] = IF temp < limits[z].safe THEN zone[z] ELSE unseen[z]
         /\ UNCHANGED <<limits, zone, temp>> /\ requested' = {}
         /\ age[z] \in -Cap .. Cap /\ cool[z] \in 0 .. Cap
         /\ zone[z] \in BOOLEAN /\ unseen[z] \in BOOLEAN
<1>1. z \in Levels
  BY DEF Zones, Levels
<1>2. age'[z] = Later(age[z])
  BY <1>1 DEF Skipped, TInv
<1>3. UNCHANGED <<limits, zone, temp>> /\ requested' = {}
  BY DEF Skipped, config, world
<1>4. /\ cool'[z] = IF temp < limits[z].safe THEN 0 ELSE Later(cool[z])
      /\ unseen'[z] = IF temp < limits[z].safe
                      THEN zone[z] /\ ~(FALSE /\ limits[z].grace # 0)
                      ELSE unseen[z]
  BY DEF Skipped, Watch
<1>5. /\ age[z] \in -Cap .. Cap /\ cool[z] \in 0 .. Cap
      /\ zone[z] \in BOOLEAN /\ unseen[z] \in BOOLEAN
  BY <1>1 DEF TInv
<1> QED BY <1>2, <1>3, <1>4, <1>5

\* Every step preserves it.
LEMMA ZInvNext ==
  ASSUME TInv, ZInv, [Next]_vars
  PROVE  ZInv'
<1> SUFFICES ASSUME NEW z \in Zones PROVE ZoneTimed(z)'
  BY DEF ZInv
<1>0. ZoneTimed(z) /\ z \in Levels
  BY DEF ZInv, Zones, Levels
<1>1. CASE pollThermalLevels
  <2>1. CASE temp < limits[z].safe /\ limits[z].safe <= limits[z].critical
    <3>1. ~Critical(z)
      BY <1>1, <2>1, PollZone DEF Critical
    <3>2. CASE limits[z].grace = 0
      BY <1>1, <2>1, <3>2, PollZone DEF ZoneAfter, ZoneTimed
    <3>3. CASE limits[z].grace # 0 /\ zone[z]
      BY <1>1, <2>1, <3>1, <3>3, PollZone DEF ZoneAfter, Leaves, ZoneTimed
    <3>4. CASE limits[z].grace # 0 /\ ~zone[z]
      <4>1. zone'[z] => Enters(z)
        BY <1>1, <3>1, <3>4, PollZone DEF ZoneAfter
      <4>2. zone'[z] => age'[z] = 0
        BY <1>1, <3>1, <3>4, <4>1, PollZone DEF MarkAfter
      <4>3. cool'[z] = 0
        BY <1>1, <2>1, PollZone
      <4> QED BY <4>2, <4>3 DEF ZoneTimed
    <3> QED BY <1>1, <3>2, <3>3, <3>4, PollZone
  <2>2. CASE temp >= limits[z].safe
    <3>1. cool'[z] = Later(cool[z]) /\ unseen'[z] = unseen[z]
      BY <1>1, <2>2, PollZone
    <3>2. age'[z] \in {0, Later(age[z])} /\ age'[z] \in -Cap .. Cap
      BY <1>1, PollZone, LaterFacts DEF MarkAfter
    <3>3. CASE age'[z] = 0
      BY <1>1, <3>1, <3>3, PollZone, LaterFacts DEF ZoneTimed
    <3>4. CASE age'[z] = Later(age[z]) /\ zone[z]
      <4>1. cool[z] >= age[z] => Later(cool[z]) >= Later(age[z])
        BY <1>1, PollZone, LaterFacts
      <4> QED BY <1>0, <1>1, <3>1, <3>4, <4>1, PollZone DEF ZoneTimed
    <3>5. CASE ~zone[z] /\ zone'[z]
      <4>1. limits[z].grace # 0 /\ ~Critical(z) /\ Enters(z)
        BY <1>1, <3>5, PollZone DEF ZoneAfter
      <4>2. age'[z] = 0
        BY <1>1, <4>1, PollZone DEF MarkAfter
      <4> QED BY <3>3, <4>2
    <3> QED BY <1>1, <3>2, <3>3, <3>4, <3>5, PollZone DEF ZoneTimed
  <2> QED BY <1>1, <2>1, <2>2, PollZone DEF ZoneTimed
<1>2. CASE Skipped
  <2>1. CASE temp < limits[z].safe
    BY <1>2, <2>1, SkipZone DEF ZoneTimed
  <2>2. CASE ~(temp < limits[z].safe)
    <3>1. cool[z] >= age[z] => Later(cool[z]) >= Later(age[z])
      BY <1>2, SkipZone, LaterFacts
    <3> QED BY <1>0, <1>2, <2>2, <3>1, SkipZone DEF ZoneTimed
  <2> QED BY <2>1, <2>2
<1>3. ASSUME NEW grace \in Intervals, SetOvertempGraceInterval(grace)
      PROVE  ZoneTimed(z)'
  <2>1. /\ limits'[z].safe = limits[z].safe
        /\ limits'[z].critical = limits[z].critical
    BY <1>0, <1>3, NumberAssumption, GraceFacts DEF TInv, Members
  <2>2. UNCHANGED <<zone, age, cool, unseen>>
    BY <1>3 DEF SetOvertempGraceInterval, history, watch
  <2> QED BY <1>0, <2>1, <2>2 DEF ZoneTimed
<1>4. CASE TemperatureChanges \/ PowerChanges \/ UNCHANGED vars
  <2>1. UNCHANGED <<limits, zone, age, cool, unseen>>
    BY <1>4 DEF TemperatureChanges, PowerChanges, config, history, watch, vars
  <2> QED BY <1>0, <2>1 DEF ZoneTimed
<1>5. ASSUME NEW step \in Steps, ClockSet(step)
      PROVE  ZoneTimed(z)'
  <2>1. UNCHANGED <<limits, zone, unseen>>
    BY <1>5 DEF ClockSet, config
  <2>2. /\ age[z] \in -Cap .. Cap /\ cool[z] \in 0 .. Cap
        /\ cool[z] \in -Cap .. Cap /\ step \in Int
        /\ age'[z] = Aged(age[z], step)
        /\ cool'[z] = IF step > 0 THEN Aged(cool[z], step) ELSE cool[z]
    BY <1>0, <1>5, NumberAssumption, LaterFacts DEF ClockSet, TInv
  <2>3. cool[z] >= age[z] => cool'[z] >= age'[z]
    <3>1. CASE step > 0
      BY <2>2, <3>1, AgedFacts
    <3>2. CASE ~(step > 0)
      <4>1. Aged(age[z], step) <= age[z] /\ Aged(age[z], step) \in -Cap .. Cap
        BY <2>2, <3>2, AgedFacts
      <4> QED BY <2>2, <3>2, <4>1
    <3> QED BY <3>1, <3>2
  <2> QED BY <1>0, <2>1, <2>3 DEF ZoneTimed
<1> QED BY <1>1, <1>2, <1>3, <1>4, <1>5 DEF Next, Environment

\* RequestJustified: deep sleep and a reboot are never asked for on the word of
\* a zone's timer alone.  The timer that the poll compares with the grace
\* interval has not run longer than the temperature has been at or above safe,
\* at every poll that looked, with any thresholds RFC may give, sensible or not,
\* and whenever the interval is changed or set to 0 and back.
THEOREM RequestsAreJustified == Spec => RequestJustified
<1>1. Init => ZInv
  BY DEF Init, ZInv, ZoneTimed
<1>2. TInv /\ ZInv /\ [Next]_vars => ZInv'
  BY ZInvNext
<1>3. ASSUME TInv, ZInv, Next, NEW z \in requested' \ requested
      PROVE  \/ Critical(z)
             \/ cool'[z] >= limits[z].grace
             \/ unseen[z]
  <2>1. pollThermalLevels
    BY <1>3
    DEF Next, Skipped, Environment, TemperatureChanges, PowerChanges,
        SetOvertempGraceInterval, ClockSet
  <2>2. z \in Zones
    BY <2>1 DEF pollThermalLevels
  <2>3. Needed(z) /\ ZoneTimed(z)
    BY <1>3, <2>1, <2>2, PollZone DEF ZInv
  <2>4. ASSUME ~Critical(z), ~unseen[z]
        PROVE  cool'[z] >= limits[z].grace
    <3>1. /\ ZoneAfter(z) /\ MarkAfter(z) >= limits[z].grace
          /\ limits[z].grace # 0
      BY <2>3, <2>4 DEF Needed
    <3>2. cool'[z] \in 0 .. Cap
      BY <1>3, <2>1, <2>2, PollZone, LaterFacts
    <3>3. CASE Enters(z)
      <4>1. MarkAfter(z) = 0
        BY <2>4, <3>1, <3>3 DEF MarkAfter
      <4> QED BY <1>3, <2>1, <2>2, <3>1, <3>2, <4>1, PollZone
    <3>4. CASE ~Enters(z)
      <4>1. zone[z] /\ ~Leaves(z) /\ MarkAfter(z) = Later(age[z])
        BY <1>3, <2>1, <2>2, <2>4, <3>1, <3>4, PollZone DEF ZoneAfter, MarkAfter
      <4>2. temp >= limits[z].safe /\ temp < limits[z].critical
        BY <1>3, <2>1, <2>2, <2>4, <4>1, PollZone DEF Leaves, Critical
      <4>3. cool[z] >= age[z] /\ cool'[z] = Later(cool[z])
        BY <1>3, <2>1, <2>2, <2>3, <2>4, <4>1, <4>2, PollZone DEF ZoneTimed
      <4>4. Later(cool[z]) >= Later(age[z])
        BY <1>3, <2>1, <2>2, <4>3, PollZone, LaterFacts
      <4>5. Later(cool[z]) \in 0 .. Cap /\ Later(age[z]) \in -Cap .. Cap
        BY <1>3, <2>1, <2>2, PollZone, LaterFacts
      <4> QED BY <1>3, <2>1, <2>2, <3>1, <4>1, <4>3, <4>4, <4>5, PollZone
    <3> QED BY <3>3, <3>4
  <2> QED BY <2>4
<1>4. TInv /\ ZInv /\ [Next]_vars
        => [\A z \in requested' \ requested :
              \/ Critical(z)
              \/ cool'[z] >= limits[z].grace
              \/ unseen[z]]_vars
  BY <1>3
<1>5. Init => TInv
  BY TInvInit
<1>6. TInv /\ [Next]_vars => TInv'
  BY TInvNext
<1> QED BY <1>1, <1>2, <1>4, <1>5, <1>6, PTL DEF Spec, RequestJustified

----------------------------------------------------------------------------
(* The clock.                                                              *)

\* The three rates are in the order their names say.
RatesInOrder == rates.minimal <= rates.scaled /\ rates.scaled <= rates.normal

\* When RFC gives no rate, the rates of a sorted list are in order, on both
\* builds; so are the rates of which RFC gives some, if they fit.
LEMMA FoundRatesInOrder ==
  ASSUME NEW list \in Seq(Nat), list # <<>>,
         \A i, j \in 1 .. Len(list) : i <= j => list[i] <= list[j],
         NEW r \in {DetemineClockSpeeds(list, Rates(0, 0, 0)),
                    MfrDetemineClockSpeeds(list, Rates(0, 0, 0))}
  PROVE  r.minimal <= r.scaled /\ r.scaled <= r.normal
<1> DEFINE n == Len(list)
<1>1. /\ n \in Nat /\ n # 0 /\ 1 \in 1 .. n /\ n \in 1 .. n
      /\ n \div 2 + 1 \in 1 .. n
      /\ 1 <= n \div 2 + 1 /\ n \div 2 + 1 <= n
  BY MiddleRate
<1>2. /\ list[1] <= list[n \div 2 + 1] /\ list[n \div 2 + 1] <= list[n]
      /\ list[1] <= list[n] /\ list[1] <= list[1]
  BY <1>1
<1>3. CASE r = MfrDetemineClockSpeeds(list, Rates(0, 0, 0))
  BY <1>2, <1>3 DEF MfrDetemineClockSpeeds, Rates
<1>4. CASE r = DetemineClockSpeeds(list, Rates(0, 0, 0))
  <2>1. /\ r.minimal = list[1] /\ r.scaled = list[n \div 2 + 1]
        /\ r.normal = list[n]
    BY <1>1, <1>4 DEF DetemineClockSpeeds, Rates
  <2> QED BY <1>2, <2>1
<1> QED BY <1>3, <1>4

\* While declockIfNeeded is on, its timer has not run longer than the last
\* temperature of concern is ago, and the rate is one of three that are in
\* order.
ClockInv ==
  /\ limits.declock.grace # 0 => warm >= age.declock
  /\ enabled /\ limits.declock.grace > 0
       => /\ RatesInOrder
          /\ speed \in {rates.normal, rates.scaled, rates.minimal}

\* What a poll does to the clock and its timer.
LEMMA PollClock ==
  ASSUME TInv, pollThermalLevels
  PROVE  /\ speed' = Declocked /\ age'.declock = DeclockMark
         /\ warm' = IF temp >= limits.declock.concern THEN 0 ELSE Later(warm)
         /\ enabled /\ UNCHANGED <<enabled, limits, rates>>
         /\ age.declock \in -Cap .. Cap /\ warm \in 0 .. Cap /\ temp \in Int
         /\ limits.declock.grace \in Int /\ limits.declock.concern \in Int
         /\ limits.declock.critical \in Int /\ limits.declock.safe \in Int
         /\ rates.normal \in Int /\ rates.scaled \in Int
         /\ rates.minimal \in Int /\ speed \in Int
<1>1. "declock" \in Levels \ Zones
  BY DEF Levels, Zones
<1>2. speed' = Declocked /\ enabled /\ UNCHANGED <<enabled, limits, rates>>
  BY DEF pollThermalLevels, declockIfNeeded, config
<1>3. age'.declock = DeclockMark
  BY <1>1 DEF pollThermalLevels, TInv
<1>4. warm' = IF TRUE /\ temp >= limits.declock.concern THEN 0 ELSE Later(warm)
  BY DEF pollThermalLevels, Watch
<1>5. /\ age.declock \in -Cap .. Cap /\ warm \in 0 .. Cap /\ temp \in Int
      /\ limits.declock.grace \in Int /\ limits.declock.concern \in Int
      /\ limits.declock.critical \in Int /\ limits.declock.safe \in Int
  BY <1>1 DEF TInv, Numbers
<1>6. /\ rates.normal \in Int /\ rates.scaled \in Int /\ rates.minimal \in Int
      /\ speed \in Int
  BY DEF TInv, Hertz, Speeds
<1> QED BY <1>2, <1>3, <1>4, <1>5, <1>6

\* The bands below concern are those whose temperature is below concern.
LEMMA BandFacts ==
  ASSUME TInv
  PROVE  /\ Band = "off" <=> limits.declock.grace = 0
         /\ Band \in {"off", "critical", "concern", "warm", "cool"}
         /\ Band \in {"warm", "cool"} => ~(temp >= limits.declock.concern)
BY DEF Band

\* Every step preserves it.
LEMMA ClockInvNext ==
  ASSUME TInv, ClockInv, [Next]_vars
  PROVE  ClockInv'
<1>1. CASE pollThermalLevels
  <2>1. limits'.declock.grace # 0 => warm' >= age'.declock
    <3>1. CASE Band \in {"critical", "concern"}
      <4>1. DeclockMark = 0 /\ warm' \in 0 .. Cap
        BY <1>1, <3>1, PollClock, LaterFacts DEF DeclockMark
      <4> QED BY <1>1, <4>1, PollClock
    <3>2. CASE Band \in {"warm", "cool"}
      <4>1. warm' = Later(warm) /\ warm >= age.declock
        BY <1>1, <3>2, PollClock, BandFacts DEF ClockInv
      <4>2. Later(warm) >= Later(age.declock) /\ Later(warm) \in 0 .. Cap
        BY <1>1, <4>1, PollClock, LaterFacts
      <4>3. DeclockMark \in {0, Later(age.declock)}
        BY DEF DeclockMark
      <4> QED BY <1>1, <4>1, <4>2, <4>3, PollClock
    <3> QED BY <1>1, <3>1, <3>2, PollClock, BandFacts
  <2>2. enabled' /\ limits'.declock.grace > 0
          => speed' \in {rates.normal, rates.scaled, rates.minimal}
    BY <1>1, PollClock, DeclockedFacts DEF ClockInv
  <2> QED BY <1>1, <2>1, <2>2, PollClock DEF ClockInv, RatesInOrder
<1>2. CASE Skipped
  <2>1. UNCHANGED <<enabled, limits, rates, speed>>
    BY <1>2 DEF Skipped, config, clock
  <2>2. age'.declock = Later(age.declock) /\ warm' = Later(warm)
    BY <1>2 DEF Skipped, Watch, TInv, Levels
  <2>3. age.declock \in -Cap .. Cap /\ warm \in 0 .. Cap
    BY DEF TInv, Levels
  <2> QED BY <2>1, <2>2, <2>3, LaterFacts DEF ClockInv, RatesInOrder
<1>3. ASSUME NEW grace \in Intervals, SetOvertempGraceInterval(grace)
      PROVE  ClockInv'
  <2>1. limits'.declock = limits.declock
    BY <1>3, NumberAssumption, GraceFacts DEF TInv
  <2>2. UNCHANGED <<enabled, rates, speed, age, warm>>
    BY <1>3 DEF SetOvertempGraceInterval, clock, history, watch
  <2> QED BY <2>1, <2>2 DEF ClockInv, RatesInOrder
<1>4. CASE TemperatureChanges \/ PowerChanges \/ UNCHANGED vars
  <2>1. UNCHANGED <<enabled, limits, rates, speed, age, warm>>
    BY <1>4
    DEF TemperatureChanges, PowerChanges, config, clock, history, watch, vars
  <2> QED BY <2>1 DEF ClockInv, RatesInOrder
<1>5. ASSUME NEW step \in Steps, ClockSet(step)
      PROVE  ClockInv'
  <2>1. UNCHANGED <<enabled, limits, rates, speed>>
    BY <1>5 DEF ClockSet, config, clock
  <2>2. /\ age.declock \in -Cap .. Cap /\ warm \in 0 .. Cap
        /\ warm \in -Cap .. Cap /\ step \in Int
        /\ age'.declock = Aged(age.declock, step)
        /\ warm' = IF step > 0 THEN Aged(warm, step) ELSE warm
    BY <1>5, NumberAssumption, LaterFacts DEF ClockSet, TInv, Levels
  <2>3. warm >= age.declock => warm' >= age'.declock
    <3>1. CASE step > 0
      BY <2>2, <3>1, AgedFacts
    <3>2. CASE ~(step > 0)
      <4>1. /\ Aged(age.declock, step) <= age.declock
            /\ Aged(age.declock, step) \in -Cap .. Cap
        BY <2>2, <3>2, AgedFacts
      <4> QED BY <2>2, <3>2, <4>1
    <3> QED BY <3>1, <3>2
  <2> QED BY <2>1, <2>3 DEF ClockInv, RatesInOrder
<1> QED BY <1>1, <1>2, <1>3, <1>4, <1>5 DEF Next, Environment

\* FasterAfterGrace: with rates that are in order wherever declocking is on,
\* and any thresholds, the one timer that serves both steps, from minimal to
\* scaled and from scaled to normal, never makes the clock faster within the
\* grace interval of a temperature of concern.
THEOREM FasterOnlyAfterGrace ==
  Spec /\ (limits.declock.grace > 0 => RatesInOrder) => FasterAfterGrace
<1>1. Init /\ (limits.declock.grace > 0 => RatesInOrder) => ClockInv
  <2> SUFFICES ASSUME Init, limits.declock.grace > 0 => RatesInOrder
               PROVE  ClockInv
    OBVIOUS
  <2>1. enabled /\ limits.declock.grace > 0 => speed = rates.normal
    BY ConfigType DEF Init
  <2>2. age.declock = Cap /\ warm = Cap
    BY TInvInit DEF Init, TInv, Numbers, Levels
  <2> QED BY <2>1, <2>2, LaterFacts DEF ClockInv
<1>2. TInv /\ ClockInv /\ [Next]_vars => ClockInv'
  BY ClockInvNext
<1>3. ASSUME TInv, ClockInv, Next, speed' > speed
      PROVE  warm' >= limits.declock.grace
  <2>0. speed \in Int
    BY <1>3 DEF TInv, Hertz, Speeds
  <2>1. pollThermalLevels
    <3>1. ~pollThermalLevels => speed' = speed
      <4>1. Skipped => speed' = speed
        BY DEF Skipped, clock
      <4>2. ASSUME NEW grace \in Intervals, SetOvertempGraceInterval(grace)
            PROVE  speed' = speed
        BY <4>2 DEF SetOvertempGraceInterval, clock
      <4>3. TemperatureChanges \/ PowerChanges => speed' = speed
        BY DEF TemperatureChanges, PowerChanges, clock
      <4>4. ASSUME NEW step \in Steps, ClockSet(step)
            PROVE  speed' = speed
        BY <4>4 DEF ClockSet, clock
      <4> QED BY <1>3, <4>1, <4>2, <4>3, <4>4 DEF Next, Environment
    <3>2. ~(speed > speed)
      BY <2>0
    <3> QED BY <1>3, <3>1, <3>2
  <2>2. CASE limits.declock.grace <= 0
    <3>1. warm' \in 0 .. Cap
      BY <1>3, <2>1, PollClock, LaterFacts
    <3> QED BY <1>3, <2>1, <2>2, <3>1, PollClock
  <2>3. CASE limits.declock.grace > 0
    <3>1. /\ rates.minimal <= rates.scaled /\ rates.scaled <= rates.normal
          /\ speed \in {rates.normal, rates.scaled, rates.minimal}
          /\ warm >= age.declock
      BY <1>3, <2>1, <2>3, PollClock DEF ClockInv, RatesInOrder
    <3>2. Band \in {"critical", "concern", "warm", "cool"}
      BY <1>3, <2>1, <2>3, BandFacts, PollClock
    <3>3. Band \in {"warm", "cool"} /\ GraceOver
      BY <1>3, <2>1, <3>1, <3>2, PollClock DEF Declocked
    <3>4. Later(age.declock) >= limits.declock.grace
      BY <3>3 DEF GraceOver
    <3>5. warm' = Later(warm)
      BY <1>3, <2>1, <3>3, PollClock, BandFacts
    <3>6. /\ Later(warm) >= Later(age.declock)
          /\ Later(warm) \in 0 .. Cap /\ Later(age.declock) \in -Cap .. Cap
      BY <1>3, <2>1, <3>1, PollClock, LaterFacts
    <3> QED BY <1>3, <2>1, <3>4, <3>5, <3>6, PollClock
  <2> QED BY <1>3, <2>1, <2>2, <2>3, PollClock
<1>4. TInv /\ ClockInv /\ [Next]_vars
        => [speed' > speed => warm' >= limits.declock.grace]_vars
  BY <1>3
<1>5. Init => TInv
  BY TInvInit
<1>6. TInv /\ [Next]_vars => TInv'
  BY TInvNext
<1> QED BY <1>1, <1>2, <1>4, <1>5, <1>6, PTL DEF Spec, FasterAfterGrace

----------------------------------------------------------------------------
(* Deep sleep comes before a reboot.                                       *)

\* The deep sleep logic is the more sensitive one and shares its interval with
\* the reboot logic; the reboot zone is entered above the safe temperature.
Staggered(l) ==
  /\ l.reboot.grace = l.deepSleep.grace
  /\ l.deepSleep.critical <= l.reboot.critical
  /\ l.deepSleep.concern <= l.reboot.concern
  /\ l.deepSleep.safe <= l.reboot.safe
  /\ l.reboot.safe <= l.reboot.concern
  /\ l.reboot.safe <= l.reboot.critical

\* The thresholds of both builds are such.
LEMMA BuildsAreStaggered ==
  Staggered(Defaults) /\ Staggered(MfrDefaults)
BY DEF Staggered, Defaults, MfrDefaults, Limits

\* What was asked for, and may be asked for by the timer of the reboot zone,
\* comes after deep sleep in this warm spell, or the deep sleep zone is ahead.
SpellInv ==
  /\ Staggered(limits)
  /\ "reboot" \in requested => tried \/ unseen["reboot"] \/ moved = "back"
  /\ zone["reboot"] /\ ~unseen["reboot"] /\ moved # "back"
       => tried \/ (zone["deepSleep"] /\ age["deepSleep"] >= age["reboot"])
  /\ moved # "back" => \A z \in Zones : age[z] \in 0 .. Cap

\* What a poll does to the history of a warm spell.
LEMMA PollTried ==
  ASSUME TInv, pollThermalLevels
  PROVE  tried' <=> \/ Needed("deepSleep")
                    \/ tried /\ ~(temp < limits["deepSleep"].safe)
BY DEF pollThermalLevels, Watch, Zones

\* A poll that asks for a reboot follows, or makes, the request for deep sleep.
LEMMA RebootAfterDeepSleep ==
  ASSUME TInv, SpellInv, pollThermalLevels, Needed("reboot")
  PROVE  tried' \/ (unseen["reboot"] /\ unseen'["reboot"]) \/ moved = "back"
<1> DEFINE r == "reboot"
           d == "deepSleep"
<1>0. r \in Zones /\ d \in Zones
  BY DEF Zones
<1>1. /\ limits[r].grace # 0 /\ limits[d].grace = limits[r].grace
      /\ limits[d].critical <= limits[r].critical
      /\ limits[d].concern <= limits[r].concern
      /\ limits[d].safe <= limits[r].safe
      /\ limits[r].safe <= limits[r].concern
      /\ limits[r].safe <= limits[r].critical
  BY DEF SpellInv, Staggered, Needed
<1>2. CASE Critical(d)
  BY <1>1, <1>2, PollTried DEF Needed
<1>3. CASE ~Critical(d)
  <2>1. ~Critical(r)
    BY <1>0, <1>1, <1>3, PollZone DEF Critical
  <2>2. ZoneAfter(r) /\ MarkAfter(r) >= limits[r].grace
    BY <2>1 DEF Needed
  <2>3. CASE Enters(r)
    <3>1. MarkAfter(r) = 0
      BY <1>1, <2>1, <2>3 DEF MarkAfter
    <3>2. temp >= limits[d].concern /\ temp >= limits[d].safe
      BY <1>0, <1>1, <2>3, PollZone DEF Enters
    <3>3. ZoneAfter(d)
      BY <1>0, <1>1, <1>3, <3>2, PollZone DEF ZoneAfter, Enters, Leaves
    <3>4. moved # "back" => MarkAfter(d) \in 0 .. Cap
      BY <1>0, LaterFacts DEF MarkAfter, SpellInv
    <3>5. moved # "back" => Needed(d)
      BY <1>0, <1>1, <2>2, <3>1, <3>3, <3>4, PollZone DEF Needed
    <3> QED BY <3>5, PollTried
  <2>4. CASE ~Enters(r)
    <3>1. zone[r] /\ ~Leaves(r) /\ MarkAfter(r) = Later(age[r])
      BY <1>0, <1>1, <2>1, <2>2, <2>4, PollZone DEF ZoneAfter, MarkAfter
    <3>2. temp >= limits[r].safe /\ temp >= limits[d].safe
      BY <1>0, <1>1, <3>1, PollZone DEF Leaves
    <3>3. CASE unseen[r]
      BY <1>0, <3>2, <3>3, PollZone
    <3>4. CASE tried
      BY <1>0, <3>2, <3>4, PollTried, PollZone
    <3>5. CASE zone[d] /\ age[d] >= age[r]
      <4>1. ZoneAfter(d) /\ MarkAfter(d) = Later(age[d])
        BY <1>0, <1>1, <3>2, <3>5, PollZone
        DEF ZoneAfter, MarkAfter, Enters, Leaves
      <4>2. /\ Later(age[d]) >= Later(age[r])
            /\ Later(age[d]) \in -Cap .. Cap /\ Later(age[r]) \in -Cap .. Cap
        BY <1>0, <3>5, PollZone, LaterFacts
      <4>3. Needed(d)
        BY <1>0, <1>1, <2>2, <3>1, <4>1, <4>2, PollZone DEF Needed
      <4> QED BY <4>3, PollTried
    <3> QED BY <3>1, <3>3, <3>4, <3>5 DEF SpellInv
  <2> QED BY <2>3, <2>4
<1> QED BY <1>2, <1>3

\* Every step preserves it.
LEMMA SpellInvNext ==
  ASSUME TInv, SpellInv, [Next]_vars
  PROVE  SpellInv'
<1> DEFINE r == "reboot"
           d == "deepSleep"
<1>0. r \in Zones /\ d \in Zones
  BY DEF Zones
<1>1. /\ limits[d].grace = limits[r].grace
      /\ limits[d].critical <= limits[r].critical
      /\ limits[d].concern <= limits[r].concern
      /\ limits[d].safe <= limits[r].safe
      /\ limits[r].safe <= limits[r].concern
      /\ limits[r].safe <= limits[r].critical
  BY DEF SpellInv, Staggered
<1>2. CASE pollThermalLevels
  <2>1. Staggered(limits)'
    BY <1>0, <1>2, PollZone DEF SpellInv, Staggered
  <2>0. moved' = moved
    BY <1>2 DEF pollThermalLevels, Watch
  <2>2. r \in requested' => tried' \/ unseen'[r] \/ moved' = "back"
    BY <1>0, <1>2, <2>0, PollZone, RebootAfterDeepSleep
  <2>4. moved' # "back" => \A z \in Zones : age'[z] \in 0 .. Cap
    BY <1>2, <2>0, PollZone, LaterFacts DEF SpellInv, MarkAfter
  <2>3. ASSUME zone'[r], ~unseen'[r], moved' # "back"
        PROVE  tried' \/ (zone'[d] /\ age'[d] >= age'[r])
    <3>1. temp >= limits[r].safe
      <4>1. CASE limits[r].grace = 0
        BY <1>0, <1>2, <2>3, <4>1, PollZone DEF ZoneAfter
      <4>2. CASE limits[r].grace # 0
        BY <1>0, <1>1, <1>2, <2>3, <4>2, PollZone
        DEF ZoneAfter, Enters, Leaves, Critical
      <4> QED BY <4>1, <4>2
    <3>2. ~unseen[r] /\ temp >= limits[d].safe /\ (tried => tried')
      BY <1>0, <1>1, <1>2, <2>3, <3>1, PollZone, PollTried
    <3>3. CASE Critical(d) /\ limits[d].grace # 0
      BY <1>2, <3>3, PollTried DEF Needed
    <3>4. CASE ~Critical(d) \/ limits[d].grace = 0
      <4>1. CASE zone[r]
        <5>1. age'[r] = Later(age[r])
          BY <1>0, <1>2, <4>1, PollZone DEF MarkAfter, Enters
        <5>2. CASE zone[d] /\ age[d] >= age[r]
          <6>1. zone'[d] /\ age'[d] = Later(age[d])
            BY <1>0, <1>2, <3>2, <5>2, PollZone
            DEF ZoneAfter, MarkAfter, Enters, Leaves
          <6>2. Later(age[d]) >= Later(age[r])
            BY <1>0, <1>2, <5>2, PollZone, LaterFacts
          <6> QED BY <5>1, <6>1, <6>2
        <5> QED BY <2>0, <2>3, <3>2, <4>1, <5>2 DEF SpellInv
      <4>2. CASE ~zone[r]
        <5>1. limits[r].grace # 0 /\ ~Critical(r) /\ Enters(r)
          BY <1>0, <1>2, <2>3, <4>2, PollZone DEF ZoneAfter
        <5>2. age'[r] = 0
          BY <1>0, <1>2, <5>1, PollZone DEF MarkAfter
        <5>3. temp >= limits[d].concern
          BY <1>0, <1>1, <1>2, <5>1, PollZone DEF Enters
        <5>4. zone'[d]
          <6>1. limits[d].grace # 0 /\ ~Critical(d)
            BY <1>1, <3>4, <5>1
          <6>2. (zone[d] \/ Enters(d)) /\ ~Leaves(d)
            BY <1>0, <1>1, <1>2, <3>2, <5>3, PollZone DEF Enters, Leaves
          <6> QED BY <1>0, <1>2, <6>1, <6>2, PollZone DEF ZoneAfter
        <5>5. age'[d] \in 0 .. Cap
          BY <1>0, <2>3, <2>4
        <5> QED BY <5>2, <5>4, <5>5
      <4> QED BY <1>0, <1>2, <4>1, <4>2, PollZone
    <3> QED BY <3>3, <3>4
  <2> QED BY <2>1, <2>2, <2>3, <2>4 DEF SpellInv
<1>3. CASE Skipped
  <2>1. /\ UNCHANGED <<limits, zone>> /\ requested' = {} /\ tried' = tried
        /\ age'[r] = Later(age[r]) /\ age'[d] = Later(age[d])
        /\ unseen'[r] = IF temp < limits[r].safe THEN zone[r] ELSE unseen[r]
        /\ age[r] \in -Cap .. Cap /\ age[d] \in -Cap .. Cap
        /\ moved' = moved
    BY <1>0, <1>3, SkipZone DEF Skipped, Watch, TInv
  <2>2. age[d] >= age[r] => Later(age[d]) >= Later(age[r])
    BY <2>1, LaterFacts
  <2>3. moved' # "back" => \A z \in Zones : age'[z] \in 0 .. Cap
    BY <1>3, <2>1, SkipZone, LaterFacts DEF SpellInv
  <2> QED BY <2>1, <2>2, <2>3 DEF SpellInv
<1>4. ASSUME NEW grace \in Intervals, SetOvertempGraceInterval(grace)
      PROVE  SpellInv'
  <2>1. Staggered(limits)'
    BY <1>1, <1>4, NumberAssumption, GraceFacts
    DEF TInv, Staggered, Levels, Members
  <2>2. UNCHANGED <<zone, age, requested, tried, unseen, moved>>
    BY <1>4 DEF SetOvertempGraceInterval, history, watch
  <2> QED BY <2>1, <2>2 DEF SpellInv
<1>5. CASE TemperatureChanges \/ PowerChanges \/ UNCHANGED vars
  <2>1. UNCHANGED <<limits, zone, age, requested, tried, unseen, moved>>
    BY <1>5 DEF TemperatureChanges, PowerChanges, config, history, watch, vars
  <2> QED BY <2>1 DEF SpellInv
<1>6. ASSUME NEW step \in Steps, ClockSet(step)
      PROVE  SpellInv'
  <2>1. UNCHANGED <<limits, zone, requested, tried, unseen>>
    BY <1>6 DEF ClockSet, config
  <2>2. /\ \A z \in Zones : age'[z] = Aged(age[z], step)
        /\ \A z \in Zones : age[z] \in -Cap .. Cap
        /\ step \in Int /\ moved = "no"
        /\ moved' = IF step > 0 THEN "forward" ELSE "back"
    BY <1>6, NumberAssumption DEF ClockSet, TInv, Zones, Levels
  <2>3. age[d] >= age[r] => age'[d] >= age'[r]
    <3>1. /\ Aged(age[d], step) \in -Cap .. Cap
          /\ Aged(age[r], step) \in -Cap .. Cap
          /\ age[r] <= age[d] => Aged(age[r], step) <= Aged(age[d], step)
      BY <1>0, <2>2, AgedFacts
    <3> QED BY <1>0, <2>2, <3>1
  <2>4. moved' # "back" => \A z \in Zones : age'[z] \in 0 .. Cap
    BY <2>2, AgedFacts DEF SpellInv
  <2>5. "reboot" \in requested => tried \/ unseen["reboot"]
    BY <2>2 DEF SpellInv
  <2>6. zone[r] /\ ~unseen[r] => tried \/ (zone[d] /\ age[d] >= age[r])
    BY <2>2 DEF SpellInv
  <2> QED BY <1>0, <2>1, <2>3, <2>4, <2>5, <2>6 DEF SpellInv, Staggered
<1> QED BY <1>2, <1>3, <1>4, <1>5, <1>6 DEF Next, Environment

\* NoRebootWithoutDeepSleep: with thresholds staggered as those of both builds,
\* a reboot is asked for only in a warm spell in which deep sleep was asked for
\* too, at the same poll at the latest, whatever the order in which the zones
\* were entered and however often the interval is changed, unless the reboot
\* zone outlived a cool spell that no poll looked at or the clock was set back.
THEOREM DeepSleepComesFirst ==
  Spec /\ Staggered(limits) => NoRebootWithoutDeepSleep
<1>1. Init /\ Staggered(limits) => SpellInv
  <2>1. Init => \A z \in Zones : age[z] \in 0 .. Cap
    BY TInvInit, LaterFacts DEF Init, TInv, Numbers, Levels, Zones
  <2> QED BY <2>1 DEF Init, SpellInv, Zones
<1>2. TInv /\ SpellInv /\ [Next]_vars => SpellInv'
  BY SpellInvNext
<1>3. ASSUME TInv, SpellInv, Next, Comparable, "reboot" \in requested'
      PROVE  tried'
  <2>1. CASE pollThermalLevels
    <3>1. Needed("reboot")
      BY <1>3, <2>1, PollZone DEF Zones
    <3> QED BY <1>3, <2>1, <3>1, RebootAfterDeepSleep DEF Comparable
  <2>2. CASE ~pollThermalLevels
    <3>1. requested' = requested /\ tried' = tried
      BY <1>3, <2>2
      DEF Next, Skipped, Environment, TemperatureChanges, PowerChanges,
          SetOvertempGraceInterval, ClockSet, history, watch
    <3> QED BY <1>3, <3>1 DEF SpellInv, Comparable
  <2> QED BY <2>1, <2>2
<1>4. TInv /\ SpellInv /\ [Next]_vars
        => [Comparable => ("reboot" \in requested' => tried')]_vars
  BY <1>3
<1>5. Init => TInv
  BY TInvInit
<1>6. TInv /\ [Next]_vars => TInv'
  BY TInvNext
<1> QED BY <1>1, <1>2, <1>4, <1>5, <1>6, PTL DEF Spec, NoRebootWithoutDeepSleep
=============================================================================
