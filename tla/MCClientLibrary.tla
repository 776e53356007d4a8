-------------------------- MODULE MCClientLibrary --------------------------
(* ClientLibrary on a small instance. *)
EXTENDS ClientLibrary

CONSTANTS a1, mon, lnk, ntf, ops, mode, c1

MCApp      == {a1}
MCMonitor  == mon
MCLink     == lnk
MCNotifier == ntf
MCThread   == {a1, mon, lnk, ntf}
MCList     == {ops, mode}
MCOps      == ops
MCUsed     == {mode}
MCCallback == {c1}
MCCalls    == {"GetPowerState"}
MCCallbackCalls == {"AddPowerModePreChangeClient"}

=============================================================================
