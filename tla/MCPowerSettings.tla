--------------------------- MODULE MCPowerSettings ---------------------------
(* PowerSettings on a small instance. *)
EXTENDS PowerSettings

CONSTANTS a1, a2, h

MCClient == {a1, a2}
MCThread == {a1, a2, h}

MCSymmetry == Permutations(MCClient)

MCRequested == {"ON", "DEEP_SLEEP"}

On(sources) == [s \in sources |-> TRUE]

Off(sources) == [s \in sources |-> FALSE]

MCBooted ==
  {[state |-> "MAX", sources |-> On({"WIFI"}) @@ Off({"LAN"})]}

MCConfigs == {On({"WIFI"}), On({"LAN"}), Off(Sources)}

MCTimeouts == {-1}

Clock(second, random, payload) ==
  [file |-> "none", number |-> 0, second |-> second, random |-> random,
   payload |-> payload]

File(what, number) ==
  [Clock(0, 0, "none") EXCEPT !.file = what, !.number = number]

MCClocks ==
  {Clock(7200, 3600, "EST05"), File("number", 600000)}

=============================================================================
