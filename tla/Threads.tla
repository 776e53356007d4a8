------------------------------ MODULE Threads ------------------------------
(***************************************************************************)
(* Threads that run straight line code under locks.                        *)
(*                                                                         *)
(* todo[t] is what thread t still has to do, innermost call first: a       *)
(* sequence of instructions, each an operation with its argument.  An      *)
(* operation that calls another one puts the callee's instructions in      *)
(* front.  A thread with nothing to do is idle.                            *)
(*                                                                         *)
(* A thread holds the locks it still has to give back.  Taking a lock is   *)
(* one step with the first operation under it, which never blocks, and     *)
(* giving one back one step with the last: the one commutes to the right   *)
(* and the other to the left of everything the other threads do.  A lock   *)
(* taken right under another one is a step of its own.  A lock that is     *)
(* taken with itself held is renamed: taking it has no effect, or blocks   *)
(* for ever when it does not nest.                                         *)
(***************************************************************************)
EXTENDS Integers, SequencesExt

CONSTANTS
  Thread,
  Mutex       \* the locks that do not nest (std::mutex)

VARIABLE todo

Do(op, arg) == [op |-> op, arg |-> arg]

With(l, body) == <<Do("lock", l)>> \o body \o <<Do("unlock", l)>>

ThreadsInit == todo = [t \in Thread |-> <<>>]

Idle(t) == todo[t] = <<>>

Quiet == \A t \in Thread : Idle(t)

\* The next thing that s does with l is to give it back.
GivesBack(s, l) ==
  \E i \in DOMAIN s :
    /\ s[i] = Do("unlock", l)
    /\ \A j \in 1 .. i - 1 : s[j] # Do("lock", l)

Holds(t, l) == GivesBack(todo[t], l)

\* What a lock is called that its thread holds already.
Again == "again"

Own == "own"       \* one that does not nest

CanTake(t, l) ==
  \/ l = Again
  \/ l # Own /\ \A u \in Thread \ {t} : ~Holds(u, l)

Locking(t) == ~Idle(t) /\ todo[t][1].op = "lock"

Waiting(t) == Locking(t) /\ ~CanTake(t, todo[t][1].arg)

\* The place of the operation that t performs next, its lock taken.
Place(t) == IF todo[t][1].op = "lock" THEN 2 ELSE 1

At(t, op) == ~Idle(t) /\ todo[t][Place(t)].op = op /\ ~Waiting(t)

Arg(t) == todo[t][Place(t)].arg

Start(t, body) == Idle(t) /\ todo' = [todo EXCEPT ![t] = body]

\* An instruction under the locks that rest gives back.
Under(x, rest) ==
  IF x.op \in {"lock", "unlock"} /\ GivesBack(rest, x.arg)
  THEN Do(x.op, IF x.arg \in Mutex THEN Own ELSE Again) ELSE x

Nested(body, rest) == [i \in DOMAIN body |-> Under(body[i], rest)] \o rest

AfterUnlocks(s) ==
  LET kept == {i \in DOMAIN s : s[i].op # "unlock"}
  IN IF kept = {} THEN <<>> ELSE SubSeq(s, Min(kept), Len(s))

\* What t has to do after its operation.
Rest(t) == SubSeq(todo[t], Place(t) + 1, Len(todo[t]))

\* t is done with its operation and goes on with body, under its locks.
Continue(t, body) ==
  todo' = [todo EXCEPT ![t] = AfterUnlocks(Nested(body, Rest(t)))]

\* It gives back what was taken for the operation first.
GiveBack(t, body) ==
  todo' = [todo EXCEPT ![t] = Nested(body, AfterUnlocks(Rest(t)))]

Acquire(t) ==
  /\ Locking(t)
  /\ todo[t][2].op = "lock"
  /\ ~Waiting(t)
  /\ todo' = [todo EXCEPT ![t] = Tail(@)]

WaitsForLock(t, u) ==
  LET l == todo[t][1].arg
  IN Waiting(t) /\ (Holds(u, l) \/ (l = Own /\ u = t))

\* No threads wait for each other's locks, and none for its own.
NoLockCycle ==
  LET waiting == {t \in Thread : Waiting(t)}
  IN \A S \in (SUBSET waiting) \ {{}} :
       ~ \A t \in S : \E u \in S : WaitsForLock(t, u)

=============================================================================
