--------------------------- MODULE AckController ---------------------------
(***************************************************************************)
(* The acknowledgement controller of a power mode change, as its owner     *)
(* PowerManagerImplementation uses it (src/plugin/AckController.h).        *)
(*                                                                         *)
(* One controller object exists per transaction.  It holds the clients     *)
(* whose acknowledgement is still pending and runs a completion handler    *)
(* when the last of them acknowledges, when its timer expires, at once     *)
(* when nobody has to be waited for, or (with isAborted = TRUE) when the   *)
(* object is destroyed while it still waits.                               *)
(*                                                                         *)
(* Threads.  The owner calls Ack, Reschedule and the destructor while it   *)
(* holds its _apiLock: `call' is the one such call in progress.  It calls  *)
(* Schedule without that lock, and the timer job runs on a thread of the   *)
(* worker pool without any lock.  The class itself has no lock, so every   *)
(* read and every write of a shared member by these threads is a step.     *)
(* The owner runs one Schedule at a time (its selfLock), and cancels a     *)
(* controller only after Schedule of that controller has returned.         *)
(*                                                                         *)
(* Time is the variable now, 0..MaxTime; a deadline beyond MaxTime is      *)
(* MaxTime.                                                                *)
(***************************************************************************)
EXTENDS Integers

CONSTANTS
  Txn,      \* transaction ids, one AckController object each
  NoTxn,    \* the owner's _modeChangeController is null
  Client,   \* ids of the clients that may have to acknowledge
  Offset,   \* values of Schedule's offsetInMilliseconds
  Delay,    \* values of Reschedule's offsetInMilliseconds
  MaxTime   \* bound: the last instant of the model

ASSUME NoTxnAssumption == NoTxn \notin Txn
ASSUME TimeAssumption ==
  /\ MaxTime \in Nat
  /\ Offset \subseteq Nat
  /\ Delay \subseteq Nat

VARIABLES
  ctl,      \* ctl[t]: the members of the controller object of t
  sched,    \* sched[t]: the thread that runs Schedule on t
  timer,    \* timer[t]: the worker thread that runs the timer job of t
  call,     \* the call that holds the owner's _apiLock
  current,  \* the owner's _modeChangeController
  now,      \* Core::Time::Now()
  crashed   \* an empty std::function was invoked: the process is gone

vars == <<ctl, sched, timer, call, current, now, crashed>>

Time == 0 .. MaxTime

\* Variant of Later: delays add up.
LaterAddsUp(a, b) == a + b

Later(a, b) == IF a >= b THEN a ELSE b
After(d) == IF now + d <= MaxTime THEN now + d ELSE MaxTime

\* Who runs the completion handler.
Trigger == {"schedule", "ack", "timer", "abort"}

\* life is "alive" while a shared_ptr to the object exists.  timerJob is the
\* job's proxy and the pool's view of the job.  by is history: the triggers
\* that invoked the handler; busy holds the invocations that have not returned.
Controller ==
  [life     : {"unborn", "alive", "freed"},
   pending  : SUBSET Client,
   running  : BOOLEAN,
   handler  : BOOLEAN,
   timeout  : Time,
   timerJob : {"none", "created", "queued", "executing", "over", "revoked"},
   due      : Time,
   by       : SUBSET Trigger,
   busy     : SUBSET Trigger]

Thread == [pc     : {"idle", "handler", "arm", "store", "read", "create",
                     "submit", "done"},
           offset : Offset \cup {0},
           reg    : Time]

TimerPC == {"idle", "dispatched", "held", "won", "handler"}

Call == [pc     : {"idle", "ackWon", "ackRevoke", "ackHandler", "cache",
                   "store", "cancel", "reply"},
         txn    : Txn \cup {NoTxn},
         val    : Time,
         status : {"NONE", "INVALID_PARAMETER"}]

NewController(S) ==
  [life |-> "alive", pending |-> S, running |-> FALSE, handler |-> FALSE,
   timeout |-> now, timerJob |-> "none", due |-> 0, by |-> {}, busy |-> {}]

Update(t, c) == ctl' = [ctl EXCEPT ![t] = c]

IdleCall == [pc |-> "idle", txn |-> NoTxn, val |-> 0, status |-> "NONE"]

Init ==
  /\ ctl = [t \in Txn |-> [life |-> "unborn", pending |-> {},
       running |-> FALSE, handler |-> FALSE, timeout |-> 0,
       timerJob |-> "none", due |-> 0, by |-> {}, busy |-> {}]]
  /\ sched = [t \in Txn |-> [pc |-> "idle", offset |-> 0, reg |-> 0]]
  /\ timer = [t \in Txn |-> "idle"]
  /\ call = IdleCall
  /\ current = NoTxn
  /\ now = 0
  /\ crashed = FALSE

----------------------------------------------------------------------------
(* The owner: a new controller, and the clients it awaits.                 *)

\* The owner's selfLock: no Schedule is in progress.
NoScheduleInProgress == \A t \in Txn : sched[t].pc \in {"idle", "done"}

Create(t, S) ==
  /\ ~crashed
  /\ call.pc = "idle"
  /\ current = NoTxn
  /\ NoScheduleInProgress
  /\ ctl[t].life = "unborn"
  /\ Update(t, NewController(S))
  /\ current' = t
  /\ UNCHANGED <<sched, timer, call, now, crashed>>

----------------------------------------------------------------------------
(* Schedule, on the thread of the requester, without _apiLock.             *)

ScheduleStep(t, from) ==
  /\ ~crashed
  /\ sched[t].pc = from
  /\ UNCHANGED <<timer, call, current, now, crashed>>

\* Nobody to wait for: the handler that was passed in runs right here, and
\* the members _running and _handler stay as they are.
ScheduleAtOnce(t, off) ==
  /\ ScheduleStep(t, "idle")
  /\ current = t
  /\ ctl[t].pending = {} \/ off = 0
  /\ sched' = [sched EXCEPT ![t].pc = "handler", ![t].offset = off]
  /\ Update(t, [ctl[t] EXCEPT !.by = @ \cup {"schedule"},
                              !.busy = @ \cup {"schedule"}])

ScheduleHandlerReturns(t) ==
  /\ ScheduleStep(t, "handler")
  /\ sched' = [sched EXCEPT ![t].pc = "done"]
  /\ Update(t, [ctl[t] EXCEPT !.busy = @ \ {"schedule"}])

ScheduleWait(t, off) ==
  /\ ScheduleStep(t, "idle")
  /\ current = t
  /\ ctl[t].pending # {} /\ off # 0
  /\ sched' = [sched EXCEPT ![t].pc = "arm", ![t].offset = off]
  /\ UNCHANGED ctl

ScheduleArm(t) ==
  /\ ScheduleStep(t, "arm")
  /\ sched' = [sched EXCEPT ![t].pc = "store"]
  /\ Update(t, [ctl[t] EXCEPT !.running = TRUE])

ScheduleStoreHandler(t) ==
  /\ ScheduleStep(t, "store")
  /\ sched' = [sched EXCEPT ![t].pc = "read"]
  /\ Update(t, [ctl[t] EXCEPT !.handler = TRUE])

\* std::max(newTimeout, _timeout): the read of _timeout ...
ScheduleReadTimeout(t) ==
  /\ ScheduleStep(t, "read")
  /\ sched' = [sched EXCEPT ![t].pc = "create",
                 ![t].reg = Later(After(sched[t].offset), ctl[t].timeout)]
  /\ UNCHANGED ctl

\* ... and its write, a step later; then the job object is created.
ScheduleCreateJob(t) ==
  /\ ScheduleStep(t, "create")
  /\ sched' = [sched EXCEPT ![t].pc = "submit", ![t].reg = 0]
  /\ Update(t, [ctl[t] EXCEPT !.timeout = sched[t].reg,
                              !.timerJob = "created"])

ScheduleSubmit(t) ==
  /\ ScheduleStep(t, "submit")
  /\ sched' = [sched EXCEPT ![t].pc = "done"]
  /\ Update(t, [ctl[t] EXCEPT !.timerJob = "queued",
                              !.due = ctl[t].timeout])

----------------------------------------------------------------------------
(* The timer job, on a thread of the worker pool.                          *)

TimerStep(t, from) ==
  /\ ~crashed
  /\ timer[t] = from
  /\ UNCHANGED <<sched, call, current, now, crashed>>

TimerDispatch(t) ==
  /\ TimerStep(t, "idle")
  /\ ctl[t].timerJob = "queued"
  /\ now >= ctl[t].due
  /\ timer' = [timer EXCEPT ![t] = "dispatched"]
  /\ Update(t, [ctl[t] EXCEPT !.timerJob = "executing"])

\* Variant of TimerLock: the job captured a raw this.
TimerLockRaw(t) ==
  /\ TimerStep(t, "dispatched")
  /\ timer' = [timer EXCEPT ![t] = "held"]
  /\ UNCHANGED ctl

\* wPtr.lock(): the job keeps the object alive, or finds it gone and ends.
TimerLock(t) ==
  /\ TimerStep(t, "dispatched")
  /\ \/ /\ ctl[t].life = "alive"
        /\ timer' = [timer EXCEPT ![t] = "held"]
        /\ UNCHANGED ctl
     \/ /\ ctl[t].life = "freed"
        /\ timer' = [timer EXCEPT ![t] = "idle"]
        /\ Update(t, [ctl[t] EXCEPT !.timerJob = "over"])

\* The job ends and drops its shared_ptr; it was the last one if the owner
\* has dropped its own.
TimerRelease(t) ==
  /\ timer' = [timer EXCEPT ![t] = "idle"]
  /\ Update(t, [ctl[t] EXCEPT !.timerJob = "over",
                              !.life = IF current = t THEN @ ELSE "freed",
                              !.busy = @ \ {"timer"}])

TimerCheck(t) ==
  /\ TimerStep(t, "held")
  /\ \/ /\ ctl[t].running
        /\ timer' = [timer EXCEPT ![t] = "won"]
        /\ UNCHANGED ctl
     \/ /\ ~ctl[t].running
        /\ TimerRelease(t)

TimerRunHandler(t) ==
  /\ TimerStep(t, "won")
  /\ timer' = [timer EXCEPT ![t] = "handler"]
  /\ Update(t, [ctl[t] EXCEPT !.running = FALSE,
                              !.by = @ \cup {"timer"},
                              !.busy = @ \cup {"timer"}])

TimerHandlerReturns(t) ==
  /\ TimerStep(t, "handler")
  /\ TimerRelease(t)

----------------------------------------------------------------------------
(* Ack and Reschedule, under the owner's _apiLock.                         *)

CallStep(from) ==
  /\ ~crashed
  /\ call.pc = from
  /\ UNCHANGED <<sched, timer, now, crashed>>

Valid(c, t) == t = current /\ c \in ctl[current].pending

Reply(status) == call' = [call EXCEPT !.pc = "reply", !.status = status]

\* _workerPool.Revoke: takes a queued job back, waits for one that executes.
Revocable(t) == ctl[t].timerJob # "executing"
Revoked(job) == IF job = "queued" THEN "revoked" ELSE job

AckInvalid(c, t) ==
  /\ CallStep("idle")
  /\ current # NoTxn
  /\ ~Valid(c, t)
  /\ call' = [IdleCall EXCEPT !.pc = "reply", !.txn = current,
                              !.status = "INVALID_PARAMETER"]
  /\ UNCHANGED <<ctl, current>>

\* Variant of Ack: any acknowledgement counts as the last one.
AckAnyCompletes(c, t) ==
  /\ CallStep("idle")
  /\ current # NoTxn
  /\ Valid(c, t)
  /\ Update(t, [ctl[t] EXCEPT !.pending = @ \ {c}])
  /\ call' = [IdleCall EXCEPT !.txn = t,
                !.pc = IF ctl[t].running THEN "ackWon" ELSE "reply"]
  /\ UNCHANGED current

Ack(c, t) ==
  /\ CallStep("idle")
  /\ current # NoTxn
  /\ Valid(c, t)
  /\ Update(t, [ctl[t] EXCEPT !.pending = @ \ {c}])
  /\ call' = [IdleCall EXCEPT !.txn = t,
                !.pc = IF ctl[t].pending = {c} /\ ctl[t].running
                       THEN "ackWon" ELSE "reply"]
  /\ UNCHANGED current

AckClearRunning ==
  /\ CallStep("ackWon")
  /\ call' = [call EXCEPT !.pc = "ackRevoke"]
  /\ Update(call.txn, [ctl[call.txn] EXCEPT !.running = FALSE])
  /\ UNCHANGED current

\* Variant of AckRunHandler: runHandler does not revoke the timer job.
AckRunHandlerNoRevoke ==
  /\ CallStep("ackRevoke")
  /\ ctl[call.txn].handler
  /\ call' = [call EXCEPT !.pc = "ackHandler"]
  /\ Update(call.txn, [ctl[call.txn] EXCEPT !.by = @ \cup {"ack"},
                                            !.busy = @ \cup {"ack"}])
  /\ UNCHANGED current

AckRunHandler ==
  /\ CallStep("ackRevoke")
  /\ Revocable(call.txn)
  /\ ctl[call.txn].handler
  /\ call' = [call EXCEPT !.pc = "ackHandler"]
  /\ Update(call.txn, [ctl[call.txn] EXCEPT !.timerJob = Revoked(@),
                                            !.by = @ \cup {"ack"},
                                            !.busy = @ \cup {"ack"}])
  /\ UNCHANGED current

\* Schedule has set _running but not yet _handler: std::bad_function_call.
AckCallsEmptyHandler ==
  /\ ~crashed
  /\ call.pc = "ackRevoke"
  /\ ~ctl[call.txn].handler
  /\ crashed' = TRUE
  /\ UNCHANGED <<ctl, sched, timer, call, current, now>>

AckHandlerReturns ==
  /\ CallStep("ackHandler")
  /\ Reply("NONE")
  /\ Update(call.txn, [ctl[call.txn] EXCEPT !.busy = @ \ {"ack"}])
  /\ UNCHANGED current

\* Not running: the new timeout is cached whoever asks, and the reply is
\* NONE.  Running: the caller is validated, and only a later one counts.
Reschedule(c, t, d) ==
  /\ CallStep("idle")
  /\ current # NoTxn
  /\ LET me    == ctl[current]
         begun == [IdleCall EXCEPT !.txn = current]
     IN  \/ /\ ~me.running
            /\ call' = [begun EXCEPT !.pc = "cache",
                                     !.val = Later(me.timeout, After(d))]
         \/ /\ me.running /\ ~Valid(c, t)
            /\ call' = [begun EXCEPT !.pc = "reply",
                                     !.status = "INVALID_PARAMETER"]
         \/ /\ me.running /\ Valid(c, t) /\ After(d) > me.timeout
            /\ call' = [begun EXCEPT !.pc = "store", !.val = After(d)]
         \/ /\ me.running /\ Valid(c, t) /\ After(d) <= me.timeout
            /\ call' = [begun EXCEPT !.pc = "reply"]
  /\ UNCHANGED <<ctl, current>>

RescheduleStore ==
  /\ call.pc \in {"cache", "store"}
  /\ CallStep(call.pc)
  /\ Reply("NONE")
  /\ LET me == ctl[call.txn]
     IN  Update(call.txn,
           [me EXCEPT
              !.timeout = call.val,
              !.due = IF call.pc = "store" /\ me.timerJob = "queued"
                      THEN call.val ELSE @])
  /\ UNCHANGED current

Return ==
  /\ CallStep("reply")
  /\ call' = IdleCall
  /\ UNCHANGED <<ctl, current>>

----------------------------------------------------------------------------
(* The owner drops its shared_ptr to cancel the request; the object dies   *)
(* here unless the timer job holds it.                                     *)

\* Variant of Cancel: the destructor aborts whether running or not.
CancelAlwaysAborts ==
  /\ CallStep("idle")
  /\ current # NoTxn
  /\ sched[current].pc = "done"
  /\ current' = NoTxn
  /\ timer[current] \in {"idle", "dispatched"}
  /\ Update(current, [ctl[current] EXCEPT !.life = "freed", !.running = FALSE])
  /\ call' = [IdleCall EXCEPT !.pc = "cancel", !.txn = current]

Cancel ==
  /\ CallStep("idle")
  /\ current # NoTxn
  /\ sched[current].pc = "done"
  /\ current' = NoTxn
  /\ LET t == current
     IN  \/ /\ timer[t] \in {"held", "won", "handler"}
            /\ UNCHANGED <<ctl, call>>
         \/ /\ timer[t] \in {"idle", "dispatched"}
            /\ ctl[t].running
            /\ Update(t, [ctl[t] EXCEPT !.life = "freed",
                                        !.running = FALSE])
            /\ call' = [IdleCall EXCEPT !.pc = "cancel", !.txn = t]
         \/ /\ timer[t] \in {"idle", "dispatched"}
            /\ ~ctl[t].running
            /\ Update(t, [ctl[t] EXCEPT !.life = "freed"])
            /\ UNCHANGED call

\* Variant of CancelRevoke: the handler of a destroyed controller is dropped.
CancelRevokeSilent ==
  /\ CallStep("cancel")
  /\ Revocable(call.txn)
  /\ Update(call.txn, [ctl[call.txn] EXCEPT !.timerJob = Revoked(@)])
  /\ call' = IdleCall
  /\ UNCHANGED current

\* The destructor's revoke(), when it was running.
CancelRevoke ==
  /\ CallStep("cancel")
  /\ Revocable(call.txn)
  /\ LET me == ctl[call.txn]
     IN  Update(call.txn,
           [me EXCEPT !.timerJob = Revoked(@),
                      !.by = IF me.timerJob = "none" THEN @
                             ELSE @ \cup {"abort"}])
  /\ call' = IdleCall
  /\ UNCHANGED current

Tick ==
  /\ ~crashed
  /\ now < MaxTime
  /\ now' = now + 1
  /\ UNCHANGED <<ctl, sched, timer, call, current, crashed>>

----------------------------------------------------------------------------
ScheduleNext(t) ==
  \/ ScheduleHandlerReturns(t)
  \/ ScheduleArm(t)
  \/ ScheduleStoreHandler(t)
  \/ ScheduleReadTimeout(t)
  \/ ScheduleCreateJob(t)
  \/ ScheduleSubmit(t)

TimerNext(t) ==
  \/ TimerDispatch(t)
  \/ TimerLock(t)
  \/ TimerCheck(t)
  \/ TimerRunHandler(t)
  \/ TimerHandlerReturns(t)

CallNext ==
  \/ AckClearRunning
  \/ AckRunHandler
  \/ AckCallsEmptyHandler
  \/ AckHandlerReturns
  \/ RescheduleStore
  \/ Return
  \/ CancelRevoke

\* The process is gone, or nothing is left to do: not a deadlock.
Stopped ==
  /\ \/ crashed
     \/ /\ call.pc = "idle" /\ current = NoTxn
        /\ \A t \in Txn : ctl[t].life = "freed" /\ timer[t] = "idle"
  /\ UNCHANGED vars

Next ==
  \/ \E t \in Txn :
       \/ \E S \in SUBSET Client : Create(t, S)
       \/ \E off \in Offset : ScheduleAtOnce(t, off) \/ ScheduleWait(t, off)
       \/ ScheduleNext(t)
       \/ TimerNext(t)
       \/ \E c \in Client :
            \/ AckInvalid(c, t)
            \/ Ack(c, t)
            \/ \E d \in Delay : Reschedule(c, t, d)
  \/ CallNext
  \/ Cancel
  \/ Tick
  \/ Stopped

Spec == Init /\ [][Next]_vars

\* A thread that has begun a call keeps running, the worker pool dispatches a
\* job that is due, and time passes.  Nothing obliges a client to answer or
\* the owner to cancel.
Fairness ==
  /\ \A t \in Txn : WF_vars(ScheduleNext(t)) /\ WF_vars(TimerNext(t))
  /\ WF_vars(CallNext)
  /\ WF_vars(Tick)

FairSpec == Spec /\ Fairness

----------------------------------------------------------------------------
(* Type correctness of the controllers, the threads and the call.          *)
TypeOK ==
  /\ ctl \in [Txn -> Controller]
  /\ sched \in [Txn -> Thread]
  /\ timer \in [Txn -> TimerPC]
  /\ call \in Call
  /\ current \in Txn \cup {NoTxn}
  /\ now \in Time
  /\ crashed \in BOOLEAN

\* The handler of a transaction is run by one trigger, except that the last
\* acknowledgement and the timer may both have won: what ran in Schedule's
\* own thread never runs again, and an aborted transaction (the destructor's
\* handler(false, true)) was never and will never be carried out.
TriggersExclusive ==
  \A t \in Txn : \/ ctl[t].by \subseteq {"ack", "timer"}
                 \/ ctl[t].by = {"schedule"}
                 \/ ctl[t].by = {"abort"}

\* Two invocations of one transaction's handler never overlap, even when the
\* acknowledgement and the timer both won: runHandler's Revoke waits for the
\* timer job.
HandlerRunsSerially ==
  \A t \in Txn : \A p, q \in ctl[t].busy : p = q

\* The handler does not run early: in Schedule only when nobody is awaited
\* or the offset is 0, in Ack only when the last client has acknowledged, in
\* the timer only when the job is due.
CompletionJustified ==
  \A t \in Txn :
    /\ "schedule" \in ctl[t].by => ctl[t].pending = {} \/ sched[t].offset = 0
    /\ "ack" \in ctl[t].by => ctl[t].pending = {}
    /\ "timer" \in ctl[t].by => now >= ctl[t].due

\* Nobody touches a destroyed object: the owner's pointer, Schedule's local
\* copy and the timer job past wPtr.lock() all refer to a live controller.
NoUseAfterFree ==
  /\ current # NoTxn => ctl[current].life = "alive"
  /\ \A t \in Txn :
       \/ timer[t] \in {"held", "won", "handler"}
       \/ sched[t].pc \notin {"idle", "done"}
       => ctl[t].life = "alive"

\* Every Schedule ends in one run of the handler at least: the requester's
\* reference on the plugin, released by the handler, is not leaked.
EveryScheduleResolves ==
  \A t \in Txn : sched[t].pc # "idle" ~> (ctl[t].by # {} \/ crashed)

----------------------------------------------------------------------------
(* What comments of the code say and the code does not keep.               *)

\* AckController.h:331, "_running: Flag to synchronize timer timeout callback
\* and Ack* APIs": one of the two runs the handler.
HandlerAtMostOnce ==
  \A t \in Txn : \A p, q \in ctl[t].by : p = q
=============================================================================
