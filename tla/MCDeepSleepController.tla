----------------------- MODULE MCDeepSleepController -----------------------
(* DeepSleepController on a small instance. *)
EXTENDS DeepSleepController, TLC

CONSTANTS a1, a2, user, none

MCActivation == {a1, a2}
MCUser       == user
MCNoJob      == none

=============================================================================
