------------------------- MODULE MCPowerModeChange -------------------------
(* PowerModeChange on a small instance. *)
EXTENDS PowerModeChange, TLC

CONSTANTS t1, t2, t3, c1, c2, none, ON, LIGHT_SLEEP, DEEP_SLEEP

MCTwoTxn     == {t1, t2}
MCThreeTxn   == {t1, t2, t3}
MCNoTxn      == none
MCOneClient  == {c1}
MCTwoClients == {c1, c2}
MCOffset     == {0, 1}
MCDelay      == {1}
MCNoDelay    == {}
MCPowerState == {ON, LIGHT_SLEEP, DEEP_SLEEP}

Symmetry == Permutations(Txn) \cup Permutations(Client)

\* Bound of the safety run: a device in LIGHT_SLEEP makes the requests of one
\* that is ON, none is synchronous.
SafetyInit == PMInit /\ power # LightSleep
SafetySpec == SafetyInit /\ [][PMNext]_allvars

\* Bounds of the liveness run: the device is in deep sleep, where both the
\* synchronous and the asynchronous requests start, and a client that leaves
\* stays away.
LivenessInit == PMInit /\ clients = Client /\ power = DeepSleep
LivenessNext == PMNext /\ clients' \subseteq clients
LivenessSpec == LivenessInit /\ [][LivenessNext]_allvars /\ PMFairness
=============================================================================
