------------------------ MODULE MCThermalController ------------------------
(* ThermalController on a small instance. *)
EXTENDS ThermalController, TLC

MCTemp == {85, 92, 101, 104, 107, 112, 121}

NoRates == [k \in {} |-> 0]

Grace(z, grace) == z :> [grace |-> grace]

\* With the grace intervals cut to two polls, and one of the rates given.
MCSettings ==
  {[enable |-> "false", limits |-> NoRates, rates |-> NoRates],
   [enable |-> "true", rates |-> [scaled |-> 2],
    limits |-> Grace("reboot", 60) @@ Grace("deepSleep", 60)]}

MCFrequencies == {<<>>, <<1, 2, 3>>}

MCIntervals == {0, 30, 60}

MCSteps == {-30, 60}

=============================================================================
