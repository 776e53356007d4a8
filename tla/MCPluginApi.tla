---------------------------- MODULE MCPluginApi ----------------------------
(* PluginApi on a small instance. *)
EXTENDS PluginApi

CONSTANTS a1, poll, slp, wrk, o1

\* wrk runs the jobs of the pool, that of the ack timer among them.
MCClient   == {a1}
MCThread   == {a1, poll, slp, wrk}
MCMutex    == {"self", "therm", "grace"}
MCList     == {"preChange", "modeChanged", "thermal"}
MCObserver == {o1}

\* Two readings of a level and one of another.
MCReading ==
  {[level |-> "NORMAL", temperature |-> 50],
   [level |-> "NORMAL", temperature |-> 60],
   [level |-> "HIGH", temperature |-> 90]}

MCCalls ==
  {"PowerModePreChangeComplete", "SetPowerState", "GetThermalState",
   "SetOvertempGraceInterval"}

\* What an observer asks from within a notification: a lock the notification
\* may hold already, and one it may wait for.
MCCallbackCalls == {"GetPowerState", "GetThermalState"}

MCJobCalls == {"PowerModePreChangeComplete"}

=============================================================================
