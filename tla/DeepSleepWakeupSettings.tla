----------------------- MODULE DeepSleepWakeupSettings -----------------------
(***************************************************************************)
(* How long the device sleeps unless a client said so                      *)
(* (DeepSleepWakeupSettings in src/plugin/DeepSleepController.cpp): until  *)
(* some time between 2 and 3 in the morning of the clock it reads, and as  *)
(* long again as its time zone is away from that clock; or what a file in  *)
(* /tmp says.                                                              *)
(***************************************************************************)
EXTENDS Integers

CONSTANT Word   \* 2^32, less in an instance

Hour == 3600

Day == 86400

limit == 518400   \* 6 days

ASSUME WordAssumption == Word \in Nat /\ Word > limit

initializeTimeZone ==
  [HST11 |-> 11, HST11HDT |-> 10, AKST |-> 9, AKST09AKDT |-> 8, PST08 |-> 8,
   PST08PDT |-> 8, MST07 |-> 7, MST07MDT |-> 6, CST06 |-> 6, CST06CDT |-> 5,
   EST05 |-> 5, EST05EDT |-> 4]

\* Central time when SysMgr knows no zone; nothing for a zone it does not list.
getTZDiffInSec(payload) ==
  CASE payload = "none" -> 6 * Hour
    [] payload \in DOMAIN initializeTimeZone -> initializeTimeZone[payload] * Hour
    [] OTHER -> 0

\* The minutes in /tmp/deepSleepWakeupTimer, in 32 bits.
override(minutes) ==
  LET seconds == (minutes * 60) % Word
  IN IF seconds > limit THEN limit ELSE seconds

\* Variant of Until2: to midnight, when 2 o'clock is tomorrow's.
UntilMidnight(second) ==
  IF second < 7200 THEN 7200 - second ELSE Day - second

\* From a second of the day to 2 o'clock: today's, or tomorrow's.
Until2(second) ==
  IF second < 7200 THEN 7200 - second ELSE Day - second + 7200

\* Before the time zone; random is secure_random().
calculated(second, random) == Until2(second) + (random % Hour)

getWakeupTime(second, random, payload) ==
  calculated(second, random) + getTZDiffInSec(payload)

----------------------------------------------------------------------------
\* A second of the day in the hour after 2 o'clock.
InWindow(second) == second % Day >= 7200 /\ second % Day < 7200 + Hour

=============================================================================
