--------------------------- MODULE PowerRequests ---------------------------
(***************************************************************************)
(* What the plugin promises about requests to change the power state,      *)
(* without locks, clients, timers or controllers.                          *)
(*                                                                         *)
(* A request is ignored or accepted.  At most one accepted request waits   *)
(* for its clients; it is aborted, or committed, and then it never is the  *)
(* other.  The power state is only changed by a committed request, to the  *)
(* state it asked for.                                                     *)
(***************************************************************************)
CONSTANTS Request, PowerState

VARIABLES
  status,   \* status[r]: how far request r is
  goal,     \* goal[r]: the power state it asks for
  power     \* the power state

vars == <<status, goal, power>>

Status == {"idle", "asked", "ignored", "waiting", "aborted", "committed"}

Init ==
  /\ power \in PowerState
  /\ status = [r \in Request |-> "idle"]
  /\ goal \in [Request -> PowerState]

Become(r, from, to) ==
  /\ status[r] = from
  /\ status' = [status EXCEPT ![r] = to]

Ask(r, to) ==
  /\ Become(r, "idle", "asked")
  /\ goal' = [goal EXCEPT ![r] = to]
  /\ UNCHANGED power

Ignore(r) == Become(r, "asked", "ignored") /\ UNCHANGED <<goal, power>>

Accept(r) ==
  /\ \A s \in Request : status[s] # "waiting"
  /\ Become(r, "asked", "waiting")
  /\ UNCHANGED <<goal, power>>

Abort(r) == Become(r, "waiting", "aborted") /\ UNCHANGED <<goal, power>>

Commit(r) == Become(r, "waiting", "committed") /\ UNCHANGED <<goal, power>>

Apply(r) ==
  /\ status[r] = "committed"
  /\ power' = goal[r]
  /\ UNCHANGED <<status, goal>>

Next ==
  \E r \in Request :
    \/ \E to \in PowerState : Ask(r, to)
    \/ Ignore(r)
    \/ Accept(r)
    \/ Abort(r)
    \/ Commit(r)
    \/ Apply(r)

Spec == Init /\ [][Next]_vars
=============================================================================
