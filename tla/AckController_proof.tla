------------------------ MODULE AckController_proof ------------------------
(***************************************************************************)
(* Proofs about AckController, for any sets of transactions, clients,      *)
(* offsets and delays, and any bound on the time.                          *)
(***************************************************************************)
EXTENDS AckController, TLAPS

----------------------------------------------------------------------------
(* Facts about the operators of the model.                                 *)

\* Time arithmetic (Time::Add, std::max) stays within the model's bound.
LEMMA TimeFacts ==
  ASSUME now \in Time
  PROVE  /\ \A d \in Offset \cup Delay \cup {0} : After(d) \in Time
         /\ \A a, b \in Time : Later(a, b) \in Time
         /\ 0 \in Time
BY TimeAssumption DEF Time, After, Later

\* Update(t, r) keeps the table of controllers well typed if r is.
LEMMA UpdateType ==
  ASSUME ctl \in [Txn -> Controller], NEW t \in Txn, NEW r \in Controller,
         Update(t, r)
  PROVE  ctl' \in [Txn -> Controller]
BY DEF Update

\* Update(t, r) writes no other controller than t's.
LEMMA UpdateOthers ==
  ASSUME ctl \in [Txn -> Controller], NEW t \in Txn, NEW r, Update(t, r)
  PROVE  \A u \in Txn : u # t => ctl'[u] = ctl[u]
BY DEF Update

----------------------------------------------------------------------------
(* Type correctness.                                                       *)

\* A step of Schedule leaves every member well typed.
LEMMA TypeSchedule ==
  ASSUME TypeOK, NEW t \in Txn,
         \/ \E off \in Offset : ScheduleAtOnce(t, off) \/ ScheduleWait(t, off)
         \/ ScheduleNext(t)
  PROVE  TypeOK'
<1>0. /\ ctl \in [Txn -> Controller] /\ ctl[t] \in Controller
      /\ sched \in [Txn -> Thread] /\ sched[t] \in Thread
      /\ 0 \in Time
  BY TimeFacts DEF TypeOK
<1>1. ASSUME NEW off \in Offset, ScheduleAtOnce(t, off)
      PROVE  TypeOK'
  <2>1. [ctl[t] EXCEPT !.by = @ \cup {"schedule"},
                       !.busy = @ \cup {"schedule"}] \in Controller
    BY <1>0 DEF Controller, Trigger
  <2> QED BY <1>0, <1>1, <2>1, UpdateType
    DEF TypeOK, ScheduleAtOnce, ScheduleStep, Thread
<1>2. ASSUME NEW off \in Offset, ScheduleWait(t, off)
      PROVE  TypeOK'
  BY <1>0, <1>2 DEF TypeOK, ScheduleWait, ScheduleStep, Thread
<1>3. CASE ScheduleHandlerReturns(t)
  <2>1. [ctl[t] EXCEPT !.busy = @ \ {"schedule"}] \in Controller
    BY <1>0 DEF Controller, Trigger
  <2> QED BY <1>0, <1>3, <2>1, UpdateType
    DEF TypeOK, ScheduleHandlerReturns, ScheduleStep, Thread
<1>4. CASE ScheduleArm(t)
  <2>1. [ctl[t] EXCEPT !.running = TRUE] \in Controller
    BY <1>0 DEF Controller, Trigger
  <2> QED BY <1>0, <1>4, <2>1, UpdateType
    DEF TypeOK, ScheduleArm, ScheduleStep, Thread
<1>5. CASE ScheduleStoreHandler(t)
  <2>1. [ctl[t] EXCEPT !.handler = TRUE] \in Controller
    BY <1>0 DEF Controller, Trigger
  <2> QED BY <1>0, <1>5, <2>1, UpdateType
    DEF TypeOK, ScheduleStoreHandler, ScheduleStep, Thread
<1>6. CASE ScheduleReadTimeout(t)
  <2>1. Later(After(sched[t].offset), ctl[t].timeout) \in Time
    BY <1>0, TimeFacts DEF TypeOK, Thread, Controller
  <2> QED
    BY <1>0, <1>6, <2>1 DEF TypeOK, ScheduleReadTimeout, ScheduleStep, Thread
<1>7. CASE ScheduleCreateJob(t)
  <2>1. [ctl[t] EXCEPT !.timeout = sched[t].reg,
                       !.timerJob = "created"] \in Controller
    BY <1>0 DEF Controller, Trigger, Thread
  <2> QED BY <1>0, <1>7, <2>1, UpdateType
    DEF TypeOK, ScheduleCreateJob, ScheduleStep, Thread
<1>8. CASE ScheduleSubmit(t)
  <2>1. [ctl[t] EXCEPT !.timerJob = "queued",
                       !.due = ctl[t].timeout] \in Controller
    BY <1>0 DEF Controller, Trigger
  <2> QED BY <1>0, <1>8, <2>1, UpdateType
    DEF TypeOK, ScheduleSubmit, ScheduleStep, Thread
<1> QED BY <1>1, <1>2, <1>3, <1>4, <1>5, <1>6, <1>7, <1>8 DEF ScheduleNext

\* A step of the timer job leaves every member well typed.
LEMMA TypeTimer ==
  ASSUME TypeOK, NEW t \in Txn, TimerNext(t)
  PROVE  TypeOK'
<1>0. ctl \in [Txn -> Controller] /\ ctl[t] \in Controller
  BY DEF TypeOK
<1>1. CASE TimerDispatch(t)
  <2>1. [ctl[t] EXCEPT !.timerJob = "executing"] \in Controller
    BY <1>0 DEF Controller, Trigger
  <2> QED BY <1>0, <1>1, <2>1, UpdateType
    DEF TypeOK, TimerDispatch, TimerStep, TimerPC
<1>2. CASE TimerLock(t)
  <2>1. [ctl[t] EXCEPT !.timerJob = "over"] \in Controller
    BY <1>0 DEF Controller, Trigger
  <2> QED BY <1>0, <1>2, <2>1, UpdateType
    DEF TypeOK, TimerLock, TimerStep, TimerPC
<1>3. CASE TimerCheck(t) \/ TimerHandlerReturns(t)
  <2>1. [ctl[t] EXCEPT !.timerJob = "over",
                       !.life = IF current = t THEN @ ELSE "freed",
                       !.busy = @ \ {"timer"}] \in Controller
    BY <1>0 DEF Controller, Trigger
  <2> QED
    BY <1>0, <1>3, <2>1, UpdateType
    DEF TypeOK, TimerCheck, TimerHandlerReturns, TimerRelease, TimerStep,
        TimerPC
<1>4. CASE TimerRunHandler(t)
  <2>1. [ctl[t] EXCEPT !.running = FALSE,
                       !.by = @ \cup {"timer"},
                       !.busy = @ \cup {"timer"}] \in Controller
    BY <1>0 DEF Controller, Trigger
  <2> QED BY <1>0, <1>4, <2>1, UpdateType
    DEF TypeOK, TimerRunHandler, TimerStep, TimerPC
<1> QED BY <1>1, <1>2, <1>3, <1>4 DEF TimerNext

\* An Ack or a Reschedule that begins leaves every member well typed.
LEMMA TypeCallBegins ==
  ASSUME TypeOK, NEW c \in Client, NEW t \in Txn,
         \/ AckInvalid(c, t)
         \/ Ack(c, t)
         \/ \E d \in Delay : Reschedule(c, t, d)
  PROVE  TypeOK'
<1>0. /\ ctl \in [Txn -> Controller] /\ ctl[t] \in Controller
      /\ current # NoTxn => current \in Txn /\ ctl[current] \in Controller
      /\ 0 \in Time
  BY TimeFacts DEF TypeOK
<1>1. CASE AckInvalid(c, t)
  BY <1>0, <1>1 DEF TypeOK, AckInvalid, CallStep, Call, IdleCall
<1>2. CASE Ack(c, t)
  <2>1. [ctl[t] EXCEPT !.pending = @ \ {c}] \in Controller
    BY <1>0 DEF Controller, Trigger
  <2> QED BY <1>0, <1>2, <2>1, UpdateType
    DEF TypeOK, Ack, CallStep, Call, IdleCall
<1>3. ASSUME NEW d \in Delay, Reschedule(c, t, d)
      PROVE  TypeOK'
  <2>1. /\ current \in Txn /\ After(d) \in Time
        /\ Later(ctl[current].timeout, After(d)) \in Time
    BY <1>0, <1>3, TimeFacts DEF TypeOK, Reschedule, CallStep, Controller
  <2>2. Valid(c, t) \in BOOLEAN
    BY DEF Valid
  <2> QED
    BY <1>0, <1>3, <2>1, <2>2
    DEF TypeOK, Reschedule, CallStep, Call, IdleCall
<1> QED BY <1>1, <1>2, <1>3

\* A later step of the call with _apiLock leaves every member well typed.
LEMMA TypeCall ==
  ASSUME TypeOK, call.pc # "idle" => call.txn \in Txn, CallNext
  PROVE  TypeOK'
<1>0. /\ ctl \in [Txn -> Controller]
      /\ call.pc # "idle" => ctl[call.txn] \in Controller
      /\ 0 \in Time
  BY TimeFacts DEF TypeOK
<1>1. CASE AckClearRunning
  <2>1. [ctl[call.txn] EXCEPT !.running = FALSE] \in Controller
    BY <1>0, <1>1 DEF Controller, AckClearRunning, CallStep
  <2> QED
    BY <1>0, <1>1, <2>1, UpdateType DEF TypeOK, AckClearRunning, CallStep, Call
<1>2. CASE AckRunHandler
  <2>1. [ctl[call.txn] EXCEPT !.timerJob = Revoked(@),
                              !.by = @ \cup {"ack"},
                              !.busy = @ \cup {"ack"}] \in Controller
    BY <1>0, <1>2 DEF Controller, Trigger, AckRunHandler, CallStep, Revoked
  <2> QED
    BY <1>0, <1>2, <2>1, UpdateType
    DEF TypeOK, AckRunHandler, CallStep, Call
<1>3. CASE AckCallsEmptyHandler
  BY <1>3 DEF TypeOK, AckCallsEmptyHandler
<1>4. CASE AckHandlerReturns
  <2>1. [ctl[call.txn] EXCEPT !.busy = @ \ {"ack"}] \in Controller
    BY <1>0, <1>4 DEF Controller, Trigger, AckHandlerReturns, CallStep
  <2> QED
    BY <1>0, <1>4, <2>1, UpdateType
    DEF TypeOK, AckHandlerReturns, CallStep, Call, Reply
<1>5. CASE RescheduleStore
  <2> DEFINE me == ctl[call.txn]
  <2>1. me \in Controller /\ call.val \in Time
    BY <1>0, <1>5
    DEF TypeOK, RescheduleStore, CallStep, Call, Controller
  <2>2. [me EXCEPT
              !.timeout = call.val,
              !.due = IF call.pc = "store" /\ me.timerJob = "queued"
                      THEN call.val ELSE @]
          \in Controller
    BY <2>1 DEF Controller
  <2> QED
    BY <1>0, <1>5, <2>2, UpdateType
    DEF TypeOK, RescheduleStore, CallStep, Call, Reply
<1>6. CASE Return
  BY <1>0, <1>6 DEF TypeOK, Return, CallStep, Call, IdleCall
<1>7. CASE CancelRevoke
  <2>1. [ctl[call.txn] EXCEPT !.timerJob = Revoked(@),
                              !.by = IF ctl[call.txn].timerJob = "none"
                                     THEN @ ELSE @ \cup {"abort"}]
          \in Controller
    BY <1>0, <1>7 DEF Controller, Trigger, CancelRevoke, CallStep, Revoked
  <2> QED
    BY <1>0, <1>7, <2>1, UpdateType
    DEF TypeOK, CancelRevoke, CallStep, Call, IdleCall
<1> QED BY <1>1, <1>2, <1>3, <1>4, <1>5, <1>6, <1>7 DEF CallNext

\* The owner's creation and cancellation of a controller are well typed.
LEMMA TypeOwner ==
  ASSUME TypeOK, \/ Cancel
                 \/ \E t \in Txn, S \in SUBSET Client : Create(t, S)
  PROVE  TypeOK'
<1>1. CASE Cancel
  <2>0. current \in Txn /\ ctl[current] \in Controller /\ 0 \in Time
    BY <1>1, TimeFacts DEF TypeOK, Cancel, CallStep
  <2>1. [ctl[current] EXCEPT !.life = "freed", !.running = FALSE] \in Controller
    BY <2>0 DEF Controller
  <2>2. [ctl[current] EXCEPT !.life = "freed"] \in Controller
    BY <2>0 DEF Controller
  <2> QED
    BY <1>1, <2>0, <2>1, <2>2, UpdateType
    DEF TypeOK, Cancel, CallStep, Call, IdleCall
<1>2. ASSUME NEW t \in Txn, NEW S \in SUBSET Client, Create(t, S)
      PROVE  TypeOK'
  <2>1. NewController(S) \in Controller
    BY TimeFacts DEF TypeOK, NewController, Controller
  <2> QED BY <1>2, <2>1, UpdateType DEF TypeOK, Create
<1> QED BY <1>1, <1>2

\* Every step preserves the types, if the call in progress is on a transaction.
LEMMA TypeNext ==
  ASSUME TypeOK, call.pc # "idle" => call.txn \in Txn, [Next]_vars
  PROVE  TypeOK'
<1>1. CASE Tick
  BY <1>1, TimeAssumption DEF Tick, TypeOK, Time
<1>2. CASE UNCHANGED vars BY <1>2 DEF vars, TypeOK
<1> QED
  BY <1>1, <1>2, TypeOwner, TypeSchedule, TypeTimer, TypeCallBegins, TypeCall
  DEF Next, Stopped

----------------------------------------------------------------------------
(* The inductive invariant: which states of the requester, the timer job   *)
(* and the call with _apiLock go with which state of the controller.       *)

\* What holds of one controller and the threads that work on it.
Sound(t) ==
  LET me == ctl[t]
      s  == sched[t].pc
  IN
  /\ me.life = "unborn" => s = "idle" /\ timer[t] = "idle" /\ t # current
  /\ me.life = "unborn" => me.by = {} /\ me.busy = {}
  /\ s \in {"idle", "arm", "handler"} => ~me.running
  /\ s \in {"idle", "arm", "handler", "store", "read", "create"}
       => me.timerJob = "none"
  /\ s = "submit" => me.timerJob = "created"
  /\ s \in {"idle", "arm"} => me.by = {}
  /\ s \notin {"idle", "done"} => t = current
  /\ me.life = "alive" => t = current \/ timer[t] \in {"held", "won", "handler"}
  /\ timer[t] # "idle" <=> me.timerJob = "executing"
  /\ timer[t] \in {"held", "won", "handler"} => me.life = "alive"
  /\ me.running => me.by = {} /\ me.life = "alive"
  /\ "schedule" \in me.by => /\ me.by = {"schedule"}
                             /\ ~me.running
                             /\ me.timerJob = "none"
                             /\ s \in {"handler", "done"}
  /\ "abort" \in me.by => me.by = {"abort"} /\ me.life = "freed"
  /\ "abort" \notin me.busy
  /\ "schedule" \in me.busy <=> s = "handler"
  /\ "timer" \in me.busy <=> timer[t] = "handler"
  /\ "ack" \in me.busy <=> call.pc = "ackHandler" /\ call.txn = t
  /\ me.busy \subseteq me.by

\* What holds of the call that has _apiLock.
CallSound ==
  /\ current # NoTxn => ctl[current].life = "alive"
  /\ call.pc # "idle" => call.txn \in Txn
  /\ call.pc \in {"ackWon", "ackRevoke", "ackHandler", "cache", "store"}
       => call.txn = current
  /\ call.pc \in {"ackWon", "ackRevoke", "ackHandler"}
       => /\ sched[call.txn].pc \notin {"idle", "arm", "handler"}
          /\ "schedule" \notin ctl[call.txn].by
  /\ call.pc \in {"ackRevoke", "ackHandler"} => ~ctl[call.txn].running
  /\ call.pc = "ackHandler" => timer[call.txn] \notin {"won", "handler"}
  /\ call.pc = "cancel" => /\ current = NoTxn
                           /\ ctl[call.txn].life = "freed"
                           /\ ctl[call.txn].by = {}
                           /\ ~ctl[call.txn].running
                           /\ sched[call.txn].pc = "done"

IInv == (\A t \in Txn : Sound(t)) /\ CallSound

----------------------------------------------------------------------------
(* Every action preserves it.  A step changes one controller: <1>1 says    *)
(* what it does to the members the invariant is about, <1>2 that the       *)
(* others stay as they are.                                                *)

\* Schedule runs the handler itself, nobody being awaited.
LEMMA SoundScheduleAtOnce ==
  ASSUME TypeOK, IInv, NEW t \in Txn, NEW off \in Offset,
         ScheduleAtOnce(t, off)
  PROVE  IInv'
<1>0. ctl \in [Txn -> Controller] /\ t \in Txn /\ ctl[t] \in Controller
  BY DEF TypeOK
<1>1. /\ ctl'[t].life = ctl[t].life
      /\ ctl'[t].running = ctl[t].running
      /\ ctl'[t].by = ctl[t].by \cup {"schedule"}
      /\ ctl'[t].busy = ctl[t].busy \cup {"schedule"}
      /\ ctl'[t].timerJob = ctl[t].timerJob
  BY <1>0 DEF Controller, Update, ScheduleStep, Thread, ScheduleAtOnce
<1>2. \A u \in Txn : u # t => ctl'[u] = ctl[u]
  BY <1>0, UpdateOthers DEF ScheduleStep, Thread, ScheduleAtOnce
<1>3. ASSUME NEW u \in Txn PROVE Sound(u)'
  <2>1. CASE u = t
    BY <1>0, <1>1, <2>1
    DEF Sound, IInv, CallSound, TypeOK, ScheduleStep, Thread,
        ScheduleAtOnce
  <2>2. CASE u # t
    BY <1>0, <1>2, <2>2
    DEF Sound, IInv, CallSound, TypeOK, ScheduleStep, Thread,
        ScheduleAtOnce
  <2> QED BY <2>1, <2>2
<1>4. CallSound'
  BY <1>0, <1>1, <1>2
  DEF Sound, IInv, CallSound, TypeOK, ScheduleStep, Thread, ScheduleAtOnce
<1> QED BY <1>3, <1>4 DEF IInv

\* The handler that Schedule ran returns.
LEMMA SoundScheduleHandlerReturns ==
  ASSUME TypeOK, IInv, NEW t \in Txn,
         ScheduleHandlerReturns(t)
  PROVE  IInv'
<1>0. ctl \in [Txn -> Controller] /\ t \in Txn /\ ctl[t] \in Controller
  BY DEF TypeOK
<1>1. /\ ctl'[t].life = ctl[t].life
      /\ ctl'[t].running = ctl[t].running
      /\ ctl'[t].by = ctl[t].by
      /\ ctl'[t].busy = ctl[t].busy \ {"schedule"}
      /\ ctl'[t].timerJob = ctl[t].timerJob
  BY <1>0 DEF Controller, Update, ScheduleStep, Thread, ScheduleHandlerReturns
<1>2. \A u \in Txn : u # t => ctl'[u] = ctl[u]
  BY <1>0, UpdateOthers DEF ScheduleStep, Thread, ScheduleHandlerReturns
<1>3. ASSUME NEW u \in Txn PROVE Sound(u)'
  <2>1. CASE u = t
    BY <1>0, <1>1, <2>1
    DEF Sound, IInv, CallSound, TypeOK, ScheduleStep, Thread,
        ScheduleHandlerReturns
  <2>2. CASE u # t
    BY <1>0, <1>2, <2>2
    DEF Sound, IInv, CallSound, TypeOK, ScheduleStep, Thread,
        ScheduleHandlerReturns
  <2> QED BY <2>1, <2>2
<1>4. CallSound'
  BY <1>0, <1>1, <1>2
  DEF Sound, IInv, CallSound, TypeOK, ScheduleStep, Thread,
      ScheduleHandlerReturns
<1> QED BY <1>3, <1>4 DEF IInv

\* Schedule sets _running.
LEMMA SoundScheduleArm ==
  ASSUME TypeOK, IInv, NEW t \in Txn, ScheduleArm(t)
  PROVE  IInv'
<1>0. ctl \in [Txn -> Controller] /\ t \in Txn /\ ctl[t] \in Controller
  BY DEF TypeOK
<1>1. /\ ctl'[t].life = ctl[t].life
      /\ ctl'[t].running = TRUE
      /\ ctl'[t].by = ctl[t].by
      /\ ctl'[t].busy = ctl[t].busy
      /\ ctl'[t].timerJob = ctl[t].timerJob
  BY <1>0 DEF Controller, Update, ScheduleStep, Thread, ScheduleArm
<1>2. \A u \in Txn : u # t => ctl'[u] = ctl[u]
  BY <1>0, UpdateOthers DEF ScheduleStep, Thread, ScheduleArm
<1>3. ASSUME NEW u \in Txn PROVE Sound(u)'
  <2>1. CASE u = t
    BY <1>0, <1>1, <2>1, NoTxnAssumption
    DEF Sound, IInv, CallSound, TypeOK, ScheduleStep, Thread, ScheduleArm
  <2>2. CASE u # t
    BY <1>0, <1>2, <2>2
    DEF Sound, IInv, CallSound, TypeOK, ScheduleStep, Thread, ScheduleArm
  <2> QED BY <2>1, <2>2
<1>4. CallSound'
  BY <1>0, <1>1, <1>2
  DEF Sound, IInv, CallSound, TypeOK, ScheduleStep, Thread, ScheduleArm
<1> QED BY <1>3, <1>4 DEF IInv

\* Schedule stores the handler it was given.
LEMMA SoundScheduleStoreHandler ==
  ASSUME TypeOK, IInv, NEW t \in Txn,
         ScheduleStoreHandler(t)
  PROVE  IInv'
<1>0. ctl \in [Txn -> Controller] /\ t \in Txn /\ ctl[t] \in Controller
  BY DEF TypeOK
<1>1. /\ ctl'[t].life = ctl[t].life
      /\ ctl'[t].running = ctl[t].running
      /\ ctl'[t].by = ctl[t].by
      /\ ctl'[t].busy = ctl[t].busy
      /\ ctl'[t].timerJob = ctl[t].timerJob
  BY <1>0 DEF Controller, Update, ScheduleStep, Thread, ScheduleStoreHandler
<1>2. \A u \in Txn : u # t => ctl'[u] = ctl[u]
  BY <1>0, UpdateOthers DEF ScheduleStep, Thread, ScheduleStoreHandler
<1>3. ASSUME NEW u \in Txn PROVE Sound(u)'
  <2>1. CASE u = t
    BY <1>0, <1>1, <2>1
    DEF Sound, IInv, CallSound, TypeOK, ScheduleStep, Thread,
        ScheduleStoreHandler
  <2>2. CASE u # t
    BY <1>0, <1>2, <2>2
    DEF Sound, IInv, CallSound, TypeOK, ScheduleStep, Thread,
        ScheduleStoreHandler
  <2> QED BY <2>1, <2>2
<1>4. CallSound'
  BY <1>0, <1>1, <1>2
  DEF Sound, IInv, CallSound, TypeOK, ScheduleStep, Thread,
      ScheduleStoreHandler
<1> QED BY <1>3, <1>4 DEF IInv

\* Schedule writes _timeout and creates the timer job.
LEMMA SoundScheduleCreateJob ==
  ASSUME TypeOK, IInv, NEW t \in Txn, ScheduleCreateJob(t)
  PROVE  IInv'
<1>0. ctl \in [Txn -> Controller] /\ t \in Txn /\ ctl[t] \in Controller
  BY DEF TypeOK
<1>1. /\ ctl'[t].life = ctl[t].life
      /\ ctl'[t].running = ctl[t].running
      /\ ctl'[t].by = ctl[t].by
      /\ ctl'[t].busy = ctl[t].busy
      /\ ctl'[t].timerJob = "created"
  BY <1>0 DEF Controller, Update, ScheduleStep, Thread, ScheduleCreateJob
<1>2. \A u \in Txn : u # t => ctl'[u] = ctl[u]
  BY <1>0, UpdateOthers DEF ScheduleStep, Thread, ScheduleCreateJob
<1>3. ASSUME NEW u \in Txn PROVE Sound(u)'
  <2>1. CASE u = t
    BY <1>0, <1>1, <2>1
    DEF Sound, IInv, CallSound, TypeOK, ScheduleStep, Thread,
        ScheduleCreateJob
  <2>2. CASE u # t
    BY <1>0, <1>2, <2>2
    DEF Sound, IInv, CallSound, TypeOK, ScheduleStep, Thread,
        ScheduleCreateJob
  <2> QED BY <2>1, <2>2
<1>4. CallSound'
  BY <1>0, <1>1, <1>2
  DEF Sound, IInv, CallSound, TypeOK, ScheduleStep, Thread,
      ScheduleCreateJob
<1> QED BY <1>3, <1>4 DEF IInv

\* Schedule hands the timer job to the worker pool.
LEMMA SoundScheduleSubmit ==
  ASSUME TypeOK, IInv, NEW t \in Txn, ScheduleSubmit(t)
  PROVE  IInv'
<1>0. ctl \in [Txn -> Controller] /\ t \in Txn /\ ctl[t] \in Controller
  BY DEF TypeOK
<1>1. /\ ctl'[t].life = ctl[t].life
      /\ ctl'[t].running = ctl[t].running
      /\ ctl'[t].by = ctl[t].by
      /\ ctl'[t].busy = ctl[t].busy
      /\ ctl'[t].timerJob = "queued"
  BY <1>0 DEF Controller, Update, ScheduleStep, Thread, ScheduleSubmit
<1>2. \A u \in Txn : u # t => ctl'[u] = ctl[u]
  BY <1>0, UpdateOthers DEF ScheduleStep, Thread, ScheduleSubmit
<1>3. ASSUME NEW u \in Txn PROVE Sound(u)'
  <2>1. CASE u = t
    BY <1>0, <1>1, <2>1
    DEF Sound, IInv, CallSound, TypeOK, ScheduleStep, Thread,
        ScheduleSubmit
  <2>2. CASE u # t
    BY <1>0, <1>2, <2>2
    DEF Sound, IInv, CallSound, TypeOK, ScheduleStep, Thread,
        ScheduleSubmit
  <2> QED BY <2>1, <2>2
<1>4. CallSound'
  BY <1>0, <1>1, <1>2
  DEF Sound, IInv, CallSound, TypeOK, ScheduleStep, Thread, ScheduleSubmit
<1> QED BY <1>3, <1>4 DEF IInv

\* The steps of Schedule that leave the controller alone.
\* The steps of Schedule that only read the object.
LEMMA SoundScheduleQuiet ==
  ASSUME TypeOK, IInv, NEW t \in Txn,
         \/ \E off \in Offset : ScheduleWait(t, off)
         \/ ScheduleReadTimeout(t)
  PROVE  IInv'
<1>1. ASSUME NEW u \in Txn PROVE Sound(u)'
  BY DEF Sound, IInv, CallSound, TypeOK, ScheduleStep, Thread, ScheduleWait,
         ScheduleReadTimeout
<1>2. CallSound'
  BY DEF Sound, IInv, CallSound, TypeOK, ScheduleStep, Thread, ScheduleWait,
         ScheduleReadTimeout
<1> QED BY <1>1, <1>2 DEF IInv

\* The worker pool dispatches the timer job.
LEMMA SoundTimerDispatch ==
  ASSUME TypeOK, IInv, NEW t \in Txn, TimerDispatch(t)
  PROVE  IInv'
<1>0. ctl \in [Txn -> Controller] /\ t \in Txn /\ ctl[t] \in Controller
  BY DEF TypeOK
<1>1. /\ ctl'[t].life = ctl[t].life
      /\ ctl'[t].running = ctl[t].running
      /\ ctl'[t].by = ctl[t].by
      /\ ctl'[t].busy = ctl[t].busy
      /\ ctl'[t].timerJob = "executing"
  BY <1>0 DEF Controller, Update, TimerStep, TimerPC, TimerDispatch
<1>2. \A u \in Txn : u # t => ctl'[u] = ctl[u]
  BY <1>0, UpdateOthers DEF TimerStep, TimerPC, TimerDispatch
<1>3. ASSUME NEW u \in Txn PROVE Sound(u)'
  <2>1. CASE u = t
    BY <1>0, <1>1, <2>1
    DEF Sound, IInv, CallSound, TypeOK, TimerStep, TimerPC, TimerDispatch
  <2>2. CASE u # t
    BY <1>0, <1>2, <2>2
    DEF Sound, IInv, CallSound, TypeOK, TimerStep, TimerPC, TimerDispatch
  <2> QED BY <2>1, <2>2
<1>4. CallSound'
  BY <1>0, <1>1, <1>2
  DEF Sound, IInv, CallSound, TypeOK, TimerStep, TimerPC, TimerDispatch
<1> QED BY <1>3, <1>4 DEF IInv

\* The timer job locks its weak_ptr, and finds _running set.
LEMMA SoundTimerQuiet ==
  ASSUME TypeOK, IInv, NEW t \in Txn,
         \/ TimerLock(t) /\ ctl[t].life = "alive"
         \/ TimerCheck(t) /\ ctl[t].running
  PROVE  IInv'
<1>1. ASSUME NEW u \in Txn PROVE Sound(u)'
  BY DEF Sound, IInv, CallSound, TypeOK, TimerStep, TimerLock, TimerCheck
<1>2. CallSound'
  BY DEF Sound, IInv, CallSound, TypeOK, TimerStep, TimerLock, TimerCheck
<1> QED BY <1>1, <1>2 DEF IInv

\* The timer job finds the object destroyed.
LEMMA SoundTimerLockFails ==
  ASSUME TypeOK, IInv, NEW t \in Txn, TimerLock(t),
         ctl[t].life # "alive"
  PROVE  IInv'
<1>0. ctl \in [Txn -> Controller] /\ t \in Txn /\ ctl[t] \in Controller
  BY DEF TypeOK
<1>1. /\ ctl'[t].life = ctl[t].life
      /\ ctl'[t].running = ctl[t].running
      /\ ctl'[t].by = ctl[t].by
      /\ ctl'[t].busy = ctl[t].busy
      /\ ctl'[t].timerJob = "over"
  BY <1>0 DEF Controller, Update, TimerStep, TimerPC, TimerLock
<1>2. \A u \in Txn : u # t => ctl'[u] = ctl[u]
  BY <1>0, UpdateOthers DEF TimerStep, TimerPC, TimerLock
<1>3. ASSUME NEW u \in Txn PROVE Sound(u)'
  <2>1. CASE u = t
    BY <1>0, <1>1, <2>1
    DEF Sound, IInv, CallSound, TypeOK, TimerStep, TimerPC, TimerLock
  <2>2. CASE u # t
    BY <1>0, <1>2, <2>2
    DEF Sound, IInv, CallSound, TypeOK, TimerStep, TimerPC, TimerLock
  <2> QED BY <2>1, <2>2
<1>4. CallSound'
  BY <1>0, <1>1, <1>2
  DEF Sound, IInv, CallSound, TypeOK, TimerStep, TimerPC, TimerLock
<1> QED BY <1>3, <1>4 DEF IInv

\* The timer job ends, and may drop the last reference to the object.
LEMMA SoundTimerRelease ==
  ASSUME TypeOK, IInv, NEW t \in Txn,
         \/ TimerCheck(t) /\ ~ctl[t].running
         \/ TimerHandlerReturns(t)
  PROVE  IInv'
<1>0. ctl \in [Txn -> Controller] /\ t \in Txn /\ ctl[t] \in Controller
  BY DEF TypeOK
<1>a. /\ TimerRelease(t) /\ TimerStep(t, timer[t])
      /\ timer[t] \in {"held", "handler"}
  BY DEF TimerCheck, TimerHandlerReturns, TimerStep
<1>b. timer[t] = "held" => ~ctl[t].running
  BY DEF TimerCheck, TimerHandlerReturns, TimerStep
<1>1. /\ ctl'[t].life = IF current = t THEN ctl[t].life ELSE "freed"
      /\ ctl'[t].running = ctl[t].running
      /\ ctl'[t].by = ctl[t].by
      /\ ctl'[t].busy = ctl[t].busy \ {"timer"}
      /\ ctl'[t].timerJob = "over"
  BY <1>0, <1>a DEF Controller, Update, TimerRelease
<1>2. \A u \in Txn : u # t => ctl'[u] = ctl[u]
  BY <1>0, <1>a, UpdateOthers DEF TimerStep, TimerPC, TimerRelease
<1>3. ASSUME NEW u \in Txn PROVE Sound(u)'
  <2>1. CASE u = t
    BY <1>0, <1>a, <1>b, <1>1, <2>1
    DEF Sound, IInv, CallSound, TypeOK, TimerStep, TimerPC, TimerRelease
  <2>2. CASE u # t
    BY <1>0, <1>a, <1>2, <2>2
    DEF Sound, IInv, CallSound, TypeOK, TimerStep, TimerPC, TimerRelease
  <2> QED BY <2>1, <2>2
<1>4. CallSound'
  BY <1>0, <1>a, <1>1, <1>2
  DEF Sound, IInv, CallSound, TypeOK, TimerStep, TimerPC, TimerRelease
<1> QED BY <1>3, <1>4 DEF IInv

\* The timer job clears _running and runs the handler.
LEMMA SoundTimerRunHandler ==
  ASSUME TypeOK, IInv, NEW t \in Txn, TimerRunHandler(t)
  PROVE  IInv'
<1>0. ctl \in [Txn -> Controller] /\ t \in Txn /\ ctl[t] \in Controller
  BY DEF TypeOK
<1>1. /\ ctl'[t].life = ctl[t].life
      /\ ctl'[t].running = FALSE
      /\ ctl'[t].by = ctl[t].by \cup {"timer"}
      /\ ctl'[t].busy = ctl[t].busy \cup {"timer"}
      /\ ctl'[t].timerJob = ctl[t].timerJob
  BY <1>0 DEF Controller, Update, TimerStep, TimerPC, TimerRunHandler
<1>2. \A u \in Txn : u # t => ctl'[u] = ctl[u]
  BY <1>0, UpdateOthers DEF TimerStep, TimerPC, TimerRunHandler
<1>3. ASSUME NEW u \in Txn PROVE Sound(u)'
  <2>1. CASE u = t
    BY <1>0, <1>1, <2>1
    DEF Sound, IInv, CallSound, TypeOK, TimerStep, TimerPC,
        TimerRunHandler
  <2>2. CASE u # t
    BY <1>0, <1>2, <2>2
    DEF Sound, IInv, CallSound, TypeOK, TimerStep, TimerPC,
        TimerRunHandler
  <2> QED BY <2>1, <2>2
<1>4. CallSound'
  BY <1>0, <1>1, <1>2
  DEF Sound, IInv, CallSound, TypeOK, TimerStep, TimerPC, TimerRunHandler
<1> QED BY <1>3, <1>4 DEF IInv

\* An acknowledgement takes its client off the pending set.
LEMMA SoundAck ==
  ASSUME TypeOK, IInv, NEW c \in Client, NEW t \in Txn, Ack(c, t)
  PROVE  IInv'
<1>0. ctl \in [Txn -> Controller] /\ t \in Txn /\ ctl[t] \in Controller
  BY DEF TypeOK
<1>1. /\ ctl'[t].life = ctl[t].life
      /\ ctl'[t].running = ctl[t].running
      /\ ctl'[t].by = ctl[t].by
      /\ ctl'[t].busy = ctl[t].busy
      /\ ctl'[t].timerJob = ctl[t].timerJob
  BY <1>0 DEF Controller, Update, CallStep, IdleCall, Call, Ack, Valid
<1>2. \A u \in Txn : u # t => ctl'[u] = ctl[u]
  BY <1>0, UpdateOthers DEF CallStep, IdleCall, Call, Ack, Valid
<1>3. ASSUME NEW u \in Txn PROVE Sound(u)'
  <2>1. CASE u = t
    BY <1>0, <1>1, <2>1
    DEF Sound, IInv, CallSound, TypeOK, CallStep, IdleCall, Call, Ack,
        Valid
  <2>2. CASE u # t
    BY <1>0, <1>2, <2>2
    DEF Sound, IInv, CallSound, TypeOK, CallStep, IdleCall, Call, Ack,
        Valid
  <2> QED BY <2>1, <2>2
<1>4. CallSound'
  BY <1>0, <1>1, <1>2
  DEF Sound, IInv, CallSound, TypeOK, CallStep, IdleCall, Call, Ack, Valid
<1> QED BY <1>3, <1>4 DEF IInv

\* A refused acknowledgement, the start of Reschedule, and every return.
LEMMA SoundCallQuiet ==
  ASSUME TypeOK, IInv,
         \/ \E c \in Client, t \in Txn : AckInvalid(c, t)
         \/ \E c \in Client, t \in Txn, d \in Delay : Reschedule(c, t, d)
         \/ Return
  PROVE  IInv'
<1>1. UNCHANGED <<ctl, sched, timer, current>>
  BY DEF CallStep, AckInvalid, Reschedule, Return
<1>2. /\ call.pc # "ackHandler"
      /\ call'.pc \in {"idle", "reply", "cache", "store"}
      /\ call'.pc # "idle" => current \in Txn /\ call'.txn = current
  <2>1. CASE \E c \in Client, t \in Txn : AckInvalid(c, t)
    BY <2>1 DEF TypeOK, CallStep, IdleCall, AckInvalid
  <2>2. ASSUME NEW c \in Client, NEW t \in Txn, NEW d \in Delay,
               Reschedule(c, t, d)
        PROVE  /\ call.pc = "idle" /\ current \in Txn
               /\ call'.pc \in {"reply", "cache", "store"}
               /\ call'.txn = current
    BY <2>2, NoTxnAssumption DEF TypeOK, CallStep, IdleCall, Reschedule
  <2>3. CASE Return
    BY <2>3 DEF TypeOK, CallStep, IdleCall, Return
  <2> QED BY <2>1, <2>2, <2>3
<1>3. ASSUME NEW u \in Txn PROVE Sound(u)'
  BY <1>1, <1>2 DEF Sound, IInv
<1>4. CallSound'
  BY <1>1, <1>2 DEF IInv, CallSound
<1> QED BY <1>3, <1>4 DEF IInv

\* The last acknowledgement clears _running.
LEMMA SoundAckClearRunning ==
  ASSUME TypeOK, IInv, AckClearRunning
  PROVE  IInv'
<1>0. /\ ctl \in [Txn -> Controller]
      /\ call.txn \in Txn /\ ctl[call.txn] \in Controller
  BY DEF TypeOK, IInv, CallSound, CallStep, IdleCall, Call, AckClearRunning
<1>1. /\ ctl'[call.txn].life = ctl[call.txn].life
      /\ ctl'[call.txn].running = FALSE
      /\ ctl'[call.txn].by = ctl[call.txn].by
      /\ ctl'[call.txn].busy = ctl[call.txn].busy
      /\ ctl'[call.txn].timerJob = ctl[call.txn].timerJob
  BY <1>0 DEF Controller, Update, CallStep, IdleCall, Call, AckClearRunning
<1>2. \A u \in Txn : u # call.txn => ctl'[u] = ctl[u]
  BY <1>0, UpdateOthers DEF CallStep, IdleCall, Call, AckClearRunning
<1>3. ASSUME NEW u \in Txn PROVE Sound(u)'
  <2>1. CASE u = call.txn
    BY <1>0, <1>1, <2>1
    DEF Sound, IInv, CallSound, TypeOK, CallStep, IdleCall, Call,
        AckClearRunning
  <2>2. CASE u # call.txn
    BY <1>0, <1>2, <2>2
    DEF Sound, IInv, CallSound, TypeOK, CallStep, IdleCall, Call,
        AckClearRunning
  <2> QED BY <2>1, <2>2
<1>4. CallSound'
  BY <1>0, <1>1, <1>2
  DEF Sound, IInv, CallSound, TypeOK, CallStep, IdleCall, Call,
      AckClearRunning
<1> QED BY <1>3, <1>4 DEF IInv

\* The last acknowledgement revokes the timer job and runs the handler.
LEMMA SoundAckRunHandler ==
  ASSUME TypeOK, IInv, AckRunHandler
  PROVE  IInv'
<1>0. /\ ctl \in [Txn -> Controller]
      /\ call.txn \in Txn /\ ctl[call.txn] \in Controller
  BY DEF TypeOK, IInv, CallSound, CallStep, IdleCall, Call, AckRunHandler,
         Revocable, Revoked
<1>1. /\ ctl'[call.txn].life = ctl[call.txn].life
      /\ ctl'[call.txn].running = ctl[call.txn].running
      /\ ctl'[call.txn].by = ctl[call.txn].by \cup {"ack"}
      /\ ctl'[call.txn].busy = ctl[call.txn].busy \cup {"ack"}
      /\ ctl'[call.txn].timerJob = Revoked(ctl[call.txn].timerJob)
  BY <1>0
  DEF Controller, Update, CallStep, IdleCall, Call, AckRunHandler,
      Revocable, Revoked
<1>2. \A u \in Txn : u # call.txn => ctl'[u] = ctl[u]
  BY <1>0, UpdateOthers
  DEF CallStep, IdleCall, Call, AckRunHandler, Revocable, Revoked
<1>3. ASSUME NEW u \in Txn PROVE Sound(u)'
  <2>1. CASE u = call.txn
    BY <1>0, <1>1, <2>1, NoTxnAssumption
    DEF Sound, IInv, CallSound, TypeOK, CallStep, IdleCall, Call,
        AckRunHandler, Revocable, Revoked
  <2>2. CASE u # call.txn
    BY <1>0, <1>2, <2>2
    DEF Sound, IInv, CallSound, TypeOK, CallStep, IdleCall, Call,
        AckRunHandler, Revocable, Revoked
  <2> QED BY <2>1, <2>2
<1>4. CallSound'
  BY <1>0, <1>1, <1>2
  DEF Sound, IInv, CallSound, TypeOK, CallStep, IdleCall, Call,
      AckRunHandler, Revocable, Revoked
<1> QED BY <1>3, <1>4 DEF IInv

\* The handler that the last acknowledgement ran returns.
LEMMA SoundAckHandlerReturns ==
  ASSUME TypeOK, IInv, AckHandlerReturns
  PROVE  IInv'
<1>0. /\ ctl \in [Txn -> Controller]
      /\ call.txn \in Txn /\ ctl[call.txn] \in Controller
  BY DEF TypeOK, IInv, CallSound, CallStep, IdleCall, Call,
         AckHandlerReturns, Reply
<1>1. /\ ctl'[call.txn].life = ctl[call.txn].life
      /\ ctl'[call.txn].running = ctl[call.txn].running
      /\ ctl'[call.txn].by = ctl[call.txn].by
      /\ ctl'[call.txn].busy = ctl[call.txn].busy \ {"ack"}
      /\ ctl'[call.txn].timerJob = ctl[call.txn].timerJob
  BY <1>0
  DEF Controller, Update, CallStep, IdleCall, Call, AckHandlerReturns,
      Reply
<1>2. \A u \in Txn : u # call.txn => ctl'[u] = ctl[u]
  BY <1>0, UpdateOthers DEF CallStep, IdleCall, Call, AckHandlerReturns, Reply
<1>3. ASSUME NEW u \in Txn PROVE Sound(u)'
  <2>1. CASE u = call.txn
    BY <1>0, <1>1, <2>1
    DEF Sound, IInv, CallSound, TypeOK, CallStep, IdleCall, Call,
        AckHandlerReturns, Reply
  <2>2. CASE u # call.txn
    BY <1>0, <1>2, <2>2
    DEF Sound, IInv, CallSound, TypeOK, CallStep, IdleCall, Call,
        AckHandlerReturns, Reply
  <2> QED BY <2>1, <2>2
<1>4. CallSound'
  BY <1>0, <1>1, <1>2
  DEF Sound, IInv, CallSound, TypeOK, CallStep, IdleCall, Call,
      AckHandlerReturns, Reply
<1> QED BY <1>3, <1>4 DEF IInv

\* Reschedule writes _timeout and moves the timer job.
LEMMA SoundRescheduleStore ==
  ASSUME TypeOK, IInv, RescheduleStore
  PROVE  IInv'
<1>0. /\ ctl \in [Txn -> Controller]
      /\ call.txn \in Txn /\ ctl[call.txn] \in Controller
  BY DEF TypeOK, IInv, CallSound, CallStep, IdleCall, Call, RescheduleStore,
         Reply
<1>1. /\ ctl'[call.txn].life = ctl[call.txn].life
      /\ ctl'[call.txn].running = ctl[call.txn].running
      /\ ctl'[call.txn].by = ctl[call.txn].by
      /\ ctl'[call.txn].busy = ctl[call.txn].busy
      /\ ctl'[call.txn].timerJob = ctl[call.txn].timerJob
  BY <1>0
  DEF Controller, Update, CallStep, IdleCall, Call, RescheduleStore, Reply
<1>2. \A u \in Txn : u # call.txn => ctl'[u] = ctl[u]
  BY <1>0, UpdateOthers DEF CallStep, IdleCall, Call, RescheduleStore, Reply
<1>3. ASSUME NEW u \in Txn PROVE Sound(u)'
  <2>1. CASE u = call.txn
    BY <1>0, <1>1, <2>1
    DEF Sound, IInv, CallSound, TypeOK, CallStep, IdleCall, Call,
        RescheduleStore, Reply
  <2>2. CASE u # call.txn
    BY <1>0, <1>2, <2>2
    DEF Sound, IInv, CallSound, TypeOK, CallStep, IdleCall, Call,
        RescheduleStore, Reply
  <2> QED BY <2>1, <2>2
<1>4. CallSound'
  BY <1>0, <1>1, <1>2
  DEF Sound, IInv, CallSound, TypeOK, CallStep, IdleCall, Call,
      RescheduleStore, Reply
<1> QED BY <1>3, <1>4 DEF IInv

\* The destructor revokes the timer job and runs the handler as aborted.
LEMMA SoundCancelRevoke ==
  ASSUME TypeOK, IInv, CancelRevoke
  PROVE  IInv'
<1>0. /\ ctl \in [Txn -> Controller]
      /\ call.txn \in Txn /\ ctl[call.txn] \in Controller
  BY DEF TypeOK, IInv, CallSound, CallStep, IdleCall, Call, CancelRevoke,
         Revocable, Revoked
<1>1. /\ ctl'[call.txn].life = ctl[call.txn].life
      /\ ctl'[call.txn].running = ctl[call.txn].running
      /\ ctl'[call.txn].by = IF ctl[call.txn].timerJob = "none"
                             THEN ctl[call.txn].by
                             ELSE ctl[call.txn].by \cup {"abort"}
      /\ ctl'[call.txn].busy = ctl[call.txn].busy
      /\ ctl'[call.txn].timerJob = Revoked(ctl[call.txn].timerJob)
  BY <1>0
  DEF Controller, Update, CallStep, IdleCall, Call, CancelRevoke,
      Revocable, Revoked
<1>2. \A u \in Txn : u # call.txn => ctl'[u] = ctl[u]
  BY <1>0, UpdateOthers
  DEF CallStep, IdleCall, Call, CancelRevoke, Revocable, Revoked
<1>3. ASSUME NEW u \in Txn PROVE Sound(u)'
  <2>1. CASE u = call.txn
    BY <1>0, <1>1, <2>1
    DEF Sound, IInv, CallSound, TypeOK, CallStep, IdleCall, Call,
        CancelRevoke, Revocable, Revoked
  <2>2. CASE u # call.txn
    BY <1>0, <1>2, <2>2
    DEF Sound, IInv, CallSound, TypeOK, CallStep, IdleCall, Call,
        CancelRevoke, Revocable, Revoked
  <2> QED BY <2>1, <2>2
<1>4. CallSound'
  BY <1>0, <1>1, <1>2
  DEF Sound, IInv, CallSound, TypeOK, CallStep, IdleCall, Call,
      CancelRevoke, Revocable, Revoked
<1> QED BY <1>3, <1>4 DEF IInv

\* The owner drops its reference while the timer job holds another.
LEMMA SoundCancelQuiet ==
  ASSUME TypeOK, IInv, Cancel, timer[current] \in {"held", "won", "handler"}
  PROVE  IInv'
<1>1. ASSUME NEW u \in Txn PROVE Sound(u)'
  BY NoTxnAssumption DEF Sound, IInv, CallSound, TypeOK, Cancel, CallStep
<1>2. CallSound'
  BY DEF IInv, CallSound, TypeOK, Cancel, CallStep
<1> QED BY <1>1, <1>2 DEF IInv

\* The owner drops the last reference.
LEMMA SoundCancelFrees ==
  ASSUME TypeOK, IInv, Cancel,
         timer[current] \in {"idle", "dispatched"}
  PROVE  IInv'
<1>0. /\ ctl \in [Txn -> Controller]
      /\ current \in Txn /\ ctl[current] \in Controller
  BY NoTxnAssumption
  DEF TypeOK, IInv, CallSound, CallStep, IdleCall, Call, Cancel
<1>1. /\ ctl'[current].life = "freed"
      /\ ~ctl'[current].running
      /\ ctl'[current].by = ctl[current].by
      /\ ctl'[current].busy = ctl[current].busy
      /\ ctl'[current].timerJob = ctl[current].timerJob
  <2>1. CASE ctl[current].running
    <3>1. ctl' = [ctl EXCEPT ![current] = [ctl[current] EXCEPT
                     !.life = "freed", !.running = FALSE]]
      BY <2>1 DEF Update, Cancel
    <3> QED BY <1>0, <3>1 DEF Controller
  <2>2. CASE ~ctl[current].running
    BY <1>0, <2>2 DEF Controller, Update, Cancel
  <2> QED BY <2>1, <2>2
<1>2. \A u \in Txn : u # current => ctl'[u] = ctl[u]
  BY <1>0, UpdateOthers DEF CallStep, IdleCall, Call, Cancel
<1>c. /\ call.pc = "idle" /\ sched[current].pc = "done" /\ current' = NoTxn
      /\ UNCHANGED <<sched, timer>>
      /\ IF ctl[current].running THEN call'.pc = "cancel" /\ call'.txn = current
                                 ELSE call'.pc = "idle"
  BY <1>0 DEF CallStep, IdleCall, Cancel, TypeOK, Call
<1>3. ASSUME NEW u \in Txn PROVE Sound(u)'
  <2>1. CASE u = current
    BY <1>0, <1>1, <1>c, <2>1, NoTxnAssumption
    DEF Sound, IInv, CallSound, TypeOK
  <2>2. CASE u # current
    BY <1>0, <1>2, <1>c, <2>2, NoTxnAssumption
    DEF Sound, IInv, CallSound, TypeOK
  <2> QED BY <2>1, <2>2
<1>4. CallSound'
  BY <1>0, <1>1, <1>2, <1>c DEF Sound, IInv, CallSound, TypeOK
<1> QED BY <1>3, <1>4 DEF IInv

\* The owner makes a controller for a new transaction.
LEMMA SoundCreate ==
  ASSUME TypeOK, IInv, NEW t \in Txn, NEW S \in SUBSET Client, Create(t, S)
  PROVE  IInv'
<1>0. ctl \in [Txn -> Controller] /\ t \in Txn /\ ctl[t] \in Controller
  BY DEF TypeOK
<1>1. /\ ctl'[t].life = "alive"
      /\ ctl'[t].running = FALSE
      /\ ctl'[t].by = {}
      /\ ctl'[t].busy = {}
      /\ ctl'[t].timerJob = "none"
  BY <1>0 DEF Controller, Update, Create, NewController, NoScheduleInProgress
<1>2. \A u \in Txn : u # t => ctl'[u] = ctl[u]
  BY <1>0, UpdateOthers DEF Create, NewController, NoScheduleInProgress
<1>3. ASSUME NEW u \in Txn PROVE Sound(u)'
  <2>1. CASE u = t
    BY <1>0, <1>1, <2>1
    DEF Sound, IInv, CallSound, TypeOK, Create, NewController,
        NoScheduleInProgress
  <2>2. CASE u # t
    BY <1>0, <1>2, <2>2, NoTxnAssumption
    DEF Sound, IInv, CallSound, TypeOK, Create, NewController,
        NoScheduleInProgress
  <2> QED BY <2>1, <2>2
<1>4. CallSound'
  BY <1>0, <1>1, <1>2
  DEF Sound, IInv, CallSound, TypeOK, Create, NewController,
      NoScheduleInProgress
<1> QED BY <1>3, <1>4 DEF IInv

----------------------------------------------------------------------------
(* The invariant holds initially and is preserved by every step.           *)

\* The invariant holds before the first SetPowerState.
LEMMA IInvInit ==
  ASSUME Init
  PROVE  TypeOK /\ IInv
<1>1. TypeOK
  <2>1. now = 0 /\ 0 \in Time
    BY TimeAssumption DEF Init, Time
  <2>2. ctl \in [Txn -> Controller]
    BY <2>1 DEF Init, Controller
  <2>3. sched \in [Txn -> Thread] /\ timer \in [Txn -> TimerPC]
    BY <2>1 DEF Init, Thread, TimerPC
  <2>4. call \in Call
    BY <2>1 DEF Init, Call, IdleCall
  <2> QED BY <2>1, <2>2, <2>3, <2>4 DEF Init, TypeOK
<1>2. IInv
  BY NoTxnAssumption DEF Init, IInv, Sound, CallSound, IdleCall
<1> QED BY <1>1, <1>2

\* Every step of the timer job preserves the invariant.
LEMMA IInvTimer ==
  ASSUME TypeOK, IInv, NEW t \in Txn, TimerNext(t)
  PROVE  IInv'
<1>1. TypeOK /\ ctl[t].running \in BOOLEAN
  BY DEF TypeOK, Controller
<1> QED
  BY <1>1, SoundTimerDispatch, SoundTimerQuiet, SoundTimerLockFails,
     SoundTimerRelease, SoundTimerRunHandler
  DEF TimerNext, TimerCheck

\* Cancelling a mode change preserves the invariant, held by the timer or not.
LEMMA IInvCancel ==
  ASSUME TypeOK, IInv, Cancel
  PROVE  IInv'
BY SoundCancelQuiet, SoundCancelFrees DEF Cancel

\* The invariant does not depend on the clock or on the crash flag.
LEMMA IInvUnchanged ==
  ASSUME IInv, UNCHANGED <<ctl, sched, timer, call, current>>
  PROVE  IInv'
BY DEF IInv, Sound, CallSound

\* Every step of the system preserves the types and the invariant.
LEMMA IInvNext ==
  ASSUME TypeOK, IInv, [Next]_vars
  PROVE  (TypeOK /\ IInv)'
<1>1. TypeOK'
  BY TypeNext DEF IInv, CallSound
<1>2. IInv'
  <2>1. ASSUME NEW t \in Txn, NEW S \in SUBSET Client, Create(t, S)
        PROVE  IInv'
    BY <2>1, SoundCreate
  <2>2. ASSUME NEW t \in Txn, NEW off \in Offset,
               ScheduleAtOnce(t, off) \/ ScheduleWait(t, off)
        PROVE  IInv'
    BY <2>2, SoundScheduleAtOnce, SoundScheduleQuiet
  <2>3. ASSUME NEW t \in Txn, ScheduleNext(t)
        PROVE  IInv'
    BY <2>3, SoundScheduleHandlerReturns, SoundScheduleArm,
       SoundScheduleStoreHandler, SoundScheduleQuiet,
       SoundScheduleCreateJob, SoundScheduleSubmit
    DEF ScheduleNext
  <2>4. ASSUME NEW t \in Txn, TimerNext(t)
        PROVE  IInv'
    BY <2>4, IInvTimer
  <2>5. ASSUME NEW t \in Txn, NEW c \in Client,
               \/ AckInvalid(c, t)
               \/ Ack(c, t)
               \/ \E d \in Delay : Reschedule(c, t, d)
        PROVE  IInv'
    BY <2>5, SoundAck, SoundCallQuiet
  <2>6. CASE CallNext
    <3>1. AckCallsEmptyHandler => IInv'
      BY IInvUnchanged DEF AckCallsEmptyHandler
    <3> QED
      BY <2>6, <3>1, SoundAckClearRunning, SoundAckRunHandler,
         SoundAckHandlerReturns, SoundRescheduleStore, SoundCallQuiet,
         SoundCancelRevoke
      DEF CallNext
  <2>7. CASE Cancel
    BY <2>7, IInvCancel
  <2>8. CASE Tick \/ Stopped \/ UNCHANGED vars
    BY <2>8, IInvUnchanged DEF Tick, Stopped, vars
  <2> QED
    BY <2>1, <2>2, <2>3, <2>4, <2>5, <2>6, <2>7, <2>8 DEF Next
<1> QED BY <1>1, <1>2

\* The types and the invariant hold in every reachable state: of Schedule, Ack,
\* Reschedule, the destructor and the timer job, run on their threads without a
\* common lock.
THEOREM Invariance == Spec => [](TypeOK /\ IInv)
<1>1. Init => TypeOK /\ IInv
  BY IInvInit
<1>2. TypeOK /\ IInv /\ [Next]_vars => (TypeOK /\ IInv)'
  BY IInvNext
<1> QED BY <1>1, <1>2, PTL DEF Spec

----------------------------------------------------------------------------
(* What follows from it.                                                   *)

\* TypeOK: every member of every AckController keeps its type, whatever the
\* threads that run Schedule, Ack, Reschedule, the timer and ~AckController do.
THEOREM TypeCorrect == Spec => []TypeOK
BY Invariance, PTL

\* TriggersExclusive: at most Ack and the timer both run a handler; one that
\* Schedule ran itself is not run again, and one that ~AckController ran as
\* aborted is never run for real, before or after.
THEOREM TriggersAreExclusive == Spec => []TriggersExclusive
<1>1. ASSUME TypeOK, IInv, NEW t \in Txn
      PROVE  \/ ctl[t].by \subseteq {"ack", "timer"}
             \/ ctl[t].by = {"schedule"}
             \/ ctl[t].by = {"abort"}
  <2>1. ctl[t].by \subseteq {"schedule", "ack", "timer", "abort"}
    BY <1>1 DEF TypeOK, Controller, Trigger
  <2>2. Sound(t)
    BY <1>1 DEF IInv
  <2> QED BY <2>1, <2>2 DEF Sound
<1>2. TypeOK /\ IInv => TriggersExclusive
  BY <1>1 DEF TriggersExclusive
<1> QED BY <1>2, Invariance, PTL

\* HandlerRunsSerially: two runs of one transaction's handler never overlap;
\* runHandler's Revoke waits for the timer job that is running it.
THEOREM HandlerIsSerial == Spec => []HandlerRunsSerially
<1>1. ASSUME TypeOK, IInv, NEW t \in Txn, NEW p \in ctl[t].busy,
             NEW q \in ctl[t].busy
      PROVE  p = q
  <2>1. p \in {"schedule", "ack", "timer"} /\ q \in {"schedule", "ack", "timer"}
    BY <1>1 DEF TypeOK, Controller, Trigger, IInv, Sound
  <2>2. Sound(t) /\ CallSound
    BY <1>1 DEF IInv
  <2> QED BY <1>1, <2>1, <2>2 DEF Sound, CallSound
<1>2. TypeOK /\ IInv => HandlerRunsSerially
  BY <1>1 DEF HandlerRunsSerially
<1> QED BY <1>2, Invariance, PTL

\* NoUseAfterFree: the owner's pointer, Schedule and the timer job past
\* wPtr.lock() refer to an object that is alive, however the owner's reset
\* races with the timer.
THEOREM NobodyUsesAFreedController == Spec => []NoUseAfterFree
<1>1. TypeOK /\ IInv => NoUseAfterFree
  BY NoTxnAssumption DEF TypeOK, IInv, Sound, CallSound, NoUseAfterFree
<1> QED BY <1>1, Invariance, PTL

----------------------------------------------------------------------------
(* Why a handler runs.  A second invariant, on top of IInv: once the last   *)
(* acknowledgement has won, nobody is pending any more, and a job that was  *)
(* dispatched stays due.                                                    *)

\* What each trigger of t's handler has seen, and still finds.
Justified(t) ==
  LET me == ctl[t]
  IN
  /\ "schedule" \in me.by => me.pending = {} \/ sched[t].offset = 0
  /\ "ack" \in me.by => me.pending = {}
  /\ "timer" \in me.by => me.timerJob \in {"executing", "over"}
  /\ me.timerJob \in {"executing", "over"} => now >= me.due

WonIsLast == call.pc \in {"ackWon", "ackRevoke"} => ctl[call.txn].pending = {}

JInv == (\A t \in Txn : Justified(t)) /\ WonIsLast

\* A step that writes one controller has to justify that one only.
LEMMA JustifiedUpdate ==
  ASSUME TypeOK, JInv, NEW t \in Txn, NEW r \in Controller, Update(t, r),
         now' = now,
         \A u \in Txn : u # t => sched'[u] = sched[u],
         ctl'[t] = r => Justified(t)'
  PROVE  /\ \A u \in Txn : Justified(u)'
         /\ ctl'[t] = r
         /\ \A u \in Txn : u # t => ctl'[u] = ctl[u]
<1>1. ctl'[t] = r
  BY DEF TypeOK, Update
<1>2. \A u \in Txn : u # t => ctl'[u] = ctl[u]
  BY UpdateOthers DEF TypeOK
<1>3. ASSUME NEW u \in Txn, u # t PROVE Justified(u)'
  BY <1>2, <1>3 DEF JInv, Justified
<1> QED BY <1>1, <1>2, <1>3

\* Schedule runs the handler when nobody is pending, or with no offset.
LEMMA JustifiedScheduleAtOnce ==
  ASSUME TypeOK, IInv, JInv, NEW t \in Txn, NEW off \in Offset,
         ScheduleAtOnce(t, off)
  PROVE  JInv'
<1> DEFINE r == [ctl[t] EXCEPT !.by = @ \cup {"schedule"},
                               !.busy = @ \cup {"schedule"}]
<1>0. /\ ctl[t] \in Controller /\ sched \in [Txn -> Thread]
      /\ Justified(t) /\ WonIsLast /\ CallSound
  BY DEF TypeOK, IInv, JInv
<1>1. /\ r \in Controller /\ r.pending = ctl[t].pending
      /\ r.timerJob = ctl[t].timerJob
      /\ r.due = ctl[t].due /\ r.by = ctl[t].by \cup {"schedule"}
  BY <1>0 DEF Controller, Trigger
<1>2. Update(t, r) /\ now' = now /\ call' = call
  BY DEF ScheduleAtOnce, ScheduleStep
<1>3. /\ \A u \in Txn : u # t => sched'[u] = sched[u]
      /\ sched'[t].offset = off
  BY <1>0 DEF ScheduleAtOnce, Thread
<1>4. ctl'[t] = r => Justified(t)'
  BY <1>0, <1>1, <1>2, <1>3 DEF Justified, ScheduleAtOnce
<1> HIDE DEF r
<1>5. /\ \A u \in Txn : Justified(u)'
      /\ ctl'[t] = r
      /\ \A u \in Txn : u # t => ctl'[u] = ctl[u]
  BY <1>1, <1>2, <1>3, <1>4, JustifiedUpdate
<1> QED BY <1>0, <1>1, <1>2, <1>5 DEF JInv, WonIsLast, CallSound

\* Schedule that has to wait: the handler was not run before.
LEMMA JustifiedScheduleWait ==
  ASSUME TypeOK, IInv, JInv, NEW t \in Txn, NEW off \in Offset,
         ScheduleWait(t, off)
  PROVE  JInv'
<1>1. /\ UNCHANGED <<ctl, now, call>>
      /\ \A u \in Txn : u # t => sched'[u] = sched[u]
  BY DEF TypeOK, ScheduleWait, ScheduleStep
<1>2. "schedule" \notin ctl[t].by
  BY DEF IInv, ScheduleWait, ScheduleStep, Sound
<1> QED BY <1>1, <1>2 DEF JInv, WonIsLast, Justified

\* The other steps of Schedule come before the timer job is dispatched.
LEMMA JustifiedSchedule ==
  ASSUME TypeOK, IInv, JInv, NEW t \in Txn, ScheduleNext(t)
  PROVE  JInv'
<1>0. /\ ctl \in [Txn -> Controller] /\ ctl[t] \in Controller
      /\ sched \in [Txn -> Thread] /\ sched[t] \in Thread
      /\ Sound(t) /\ Justified(t) /\ WonIsLast /\ CallSound
  BY DEF TypeOK, IInv, JInv
<1>1. CASE ScheduleReadTimeout(t)
  <2>1. /\ UNCHANGED <<ctl, now, call>>
        /\ \A u \in Txn : u # t => sched'[u] = sched[u]
        /\ sched'[t].offset = sched[t].offset
    BY <1>0, <1>1 DEF ScheduleReadTimeout, ScheduleStep, Thread
  <2> QED BY <1>0, <2>1 DEF JInv, WonIsLast, Justified
<1>2. ASSUME NEW r \in Controller, Update(t, r), now' = now, call' = call,
             \A u \in Txn : u # t => sched'[u] = sched[u],
             sched'[t].offset = sched[t].offset,
             r.pending = ctl[t].pending, r.by = ctl[t].by,
             \/ r.timerJob = ctl[t].timerJob /\ r.due = ctl[t].due
             \/ r.timerJob \in {"created", "queued"} /\ "timer" \notin r.by
      PROVE  JInv'
  <2>1. ctl'[t] = r => Justified(t)'
    BY <1>0, <1>2 DEF Justified
  <2>2. /\ \A u \in Txn : Justified(u)'
        /\ ctl'[t] = r
        /\ \A u \in Txn : u # t => ctl'[u] = ctl[u]
    BY <1>2, <2>1, JustifiedUpdate
  <2> QED BY <1>0, <1>2, <2>2 DEF JInv, WonIsLast, CallSound
<1>3. CASE ScheduleHandlerReturns(t)
  <2>1. [ctl[t] EXCEPT !.busy = @ \ {"schedule"}] \in Controller
    BY <1>0 DEF Controller, Trigger
  <2> QED BY <1>0, <1>2, <1>3, <2>1
    DEF ScheduleHandlerReturns, ScheduleStep, Controller, Thread
<1>4. CASE ScheduleArm(t)
  <2>1. [ctl[t] EXCEPT !.running = TRUE] \in Controller
    BY <1>0 DEF Controller, Trigger
  <2> QED BY <1>0, <1>2, <1>4, <2>1
    DEF ScheduleArm, ScheduleStep, Controller, Thread
<1>5. CASE ScheduleStoreHandler(t)
  <2>1. [ctl[t] EXCEPT !.handler = TRUE] \in Controller
    BY <1>0 DEF Controller, Trigger
  <2> QED BY <1>0, <1>2, <1>5, <2>1
    DEF ScheduleStoreHandler, ScheduleStep, Controller, Thread
<1>6. CASE ScheduleCreateJob(t)
  <2>1. [ctl[t] EXCEPT !.timeout = sched[t].reg,
                       !.timerJob = "created"] \in Controller
    BY <1>0 DEF Controller, Trigger, Thread
  <2>2. "timer" \notin ctl[t].by
    BY <1>0, <1>6 DEF ScheduleCreateJob, ScheduleStep, Sound, Justified
  <2> QED BY <1>0, <1>2, <1>6, <2>1, <2>2
    DEF ScheduleCreateJob, ScheduleStep, Controller, Thread
<1>7. CASE ScheduleSubmit(t)
  <2>1. [ctl[t] EXCEPT !.timerJob = "queued",
                       !.due = ctl[t].timeout] \in Controller
    BY <1>0 DEF Controller, Trigger
  <2>2. "timer" \notin ctl[t].by
    BY <1>0, <1>7 DEF ScheduleSubmit, ScheduleStep, Sound, Justified
  <2> QED BY <1>0, <1>2, <1>7, <2>1, <2>2
    DEF ScheduleSubmit, ScheduleStep, Controller, Thread
<1> QED BY <1>1, <1>3, <1>4, <1>5, <1>6, <1>7 DEF ScheduleNext

\* The job is due when it is dispatched, and its handler runs while it
\* executes; no step of it touches the pending clients.
LEMMA JustifiedTimer ==
  ASSUME TypeOK, IInv, JInv, NEW t \in Txn, TimerNext(t)
  PROVE  JInv'
<1>0. /\ ctl \in [Txn -> Controller] /\ ctl[t] \in Controller
      /\ Sound(t) /\ Justified(t) /\ WonIsLast /\ CallSound
  BY DEF TypeOK, IInv, JInv
<1>1. ASSUME NEW r \in Controller, Update(t, r), UNCHANGED <<sched, call, now>>,
             r.pending = ctl[t].pending, r.due = ctl[t].due,
             r.by \subseteq ctl[t].by \cup {"timer"},
             r.timerJob \in {"executing", "over"}, now >= r.due
      PROVE  JInv'
  <2>1. ctl'[t] = r => Justified(t)'
    BY <1>0, <1>1 DEF Justified
  <2>2. /\ \A u \in Txn : Justified(u)'
        /\ ctl'[t] = r
        /\ \A u \in Txn : u # t => ctl'[u] = ctl[u]
    BY <1>1, <2>1, JustifiedUpdate
  <2> QED BY <1>0, <1>1, <2>2 DEF JInv, WonIsLast, CallSound
<1>2. UNCHANGED <<ctl, sched, call, now>> => JInv'
  BY DEF JInv, WonIsLast, Justified
<1>3. CASE TimerDispatch(t)
  <2>1. [ctl[t] EXCEPT !.timerJob = "executing"] \in Controller
    BY <1>0 DEF Controller, Trigger
  <2> QED BY <1>0, <1>1, <1>3, <2>1
    DEF TimerDispatch, TimerStep, Controller
<1>4. timer[t] # "idle" => now >= ctl[t].due
  BY <1>0 DEF Sound, Justified
<1>5. CASE TimerLock(t)
  <2>1. [ctl[t] EXCEPT !.timerJob = "over"] \in Controller
    BY <1>0 DEF Controller, Trigger
  <2> QED BY <1>0, <1>1, <1>2, <1>4, <1>5, <2>1
    DEF TimerLock, TimerStep, Controller
<1>6. CASE TimerCheck(t) \/ TimerHandlerReturns(t)
  <2>1. [ctl[t] EXCEPT !.timerJob = "over",
                       !.life = IF current = t THEN @ ELSE "freed",
                       !.busy = @ \ {"timer"}] \in Controller
    BY <1>0 DEF Controller, Trigger
  <2> QED BY <1>0, <1>1, <1>2, <1>4, <1>6, <2>1
    DEF TimerCheck, TimerHandlerReturns, TimerRelease, TimerStep, Controller
<1>7. CASE TimerRunHandler(t)
  <2>1. [ctl[t] EXCEPT !.running = FALSE,
                       !.by = @ \cup {"timer"},
                       !.busy = @ \cup {"timer"}] \in Controller
    BY <1>0 DEF Controller, Trigger
  <2>2. ctl[t].timerJob = "executing"
    BY <1>0, <1>7 DEF TimerRunHandler, TimerStep, Sound
  <2> QED BY <1>0, <1>1, <1>4, <1>7, <2>1, <2>2
    DEF TimerRunHandler, TimerStep, Controller
<1> QED BY <1>3, <1>5, <1>6, <1>7 DEF TimerNext

\* An acknowledgement wins when it takes the last pending client away; a call
\* that is refused, and one that begins to reschedule, changes nothing.
LEMMA JustifiedCallBegins ==
  ASSUME TypeOK, IInv, JInv, NEW c \in Client, NEW t \in Txn,
         AckInvalid(c, t) \/ Ack(c, t)
  PROVE  JInv'
<1>0. /\ ctl \in [Txn -> Controller] /\ ctl[t] \in Controller
      /\ Sound(t) /\ Justified(t) /\ WonIsLast /\ CallSound
  BY DEF TypeOK, IInv, JInv
<1>1. CASE AckInvalid(c, t)
  <2>1. UNCHANGED <<ctl, sched, now>> /\ call'.pc = "reply"
    BY <1>1 DEF AckInvalid, CallStep, IdleCall
  <2> QED BY <2>1 DEF JInv, WonIsLast, Justified
<1>2. CASE Ack(c, t)
  <2> DEFINE r == [ctl[t] EXCEPT !.pending = @ \ {c}]
  <2>1. /\ r \in Controller /\ r.pending = ctl[t].pending \ {c}
        /\ r.timerJob = ctl[t].timerJob
        /\ r.due = ctl[t].due /\ r.by = ctl[t].by
    BY <1>0 DEF Controller, Trigger
  <2>2. Update(t, r) /\ UNCHANGED <<sched, now>>
    BY <1>2 DEF Ack, CallStep
  <2>3. call'.pc = "ackWon" => call'.txn = t /\ ctl[t].pending = {c}
    BY <1>2 DEF Ack, IdleCall
  <2>4. call'.pc # "ackRevoke"
    BY <1>2 DEF Ack, IdleCall
  <2>5. ctl'[t] = r => Justified(t)'
    BY <1>0, <2>1, <2>2 DEF Justified
  <2> HIDE DEF r
  <2>6. (\A u \in Txn : Justified(u)') /\ ctl'[t] = r
    BY <2>1, <2>2, <2>5, JustifiedUpdate
  <2> QED BY <2>1, <2>3, <2>4, <2>6 DEF JInv, WonIsLast
<1> QED BY <1>1, <1>2

\* Reschedule that begins has only read the controller.
LEMMA JustifiedReschedule ==
  ASSUME JInv, NEW c \in Client, NEW t \in Txn, NEW d \in Delay,
         Reschedule(c, t, d)
  PROVE  JInv'
<1>1. /\ UNCHANGED <<ctl, sched, now>>
      /\ call'.pc \in {"cache", "reply", "store"}
  BY DEF Reschedule, CallStep, IdleCall
<1> QED BY <1>1 DEF JInv, WonIsLast, Justified

\* The later steps of a call: only the acknowledgement that won runs the
\* handler, and only a job that is still queued is moved.
LEMMA JustifiedCall ==
  ASSUME TypeOK, IInv, JInv, CallNext
  PROVE  JInv'
<1> DEFINE me == ctl[call.txn]
<1>0. /\ ctl \in [Txn -> Controller] /\ WonIsLast /\ CallSound
      /\ call.pc # "idle" => /\ call.txn \in Txn /\ me \in Controller
                             /\ Justified(call.txn)
  BY DEF TypeOK, IInv, JInv, CallSound
<1>1. ASSUME call.pc # "idle", NEW r \in Controller, Update(call.txn, r),
             UNCHANGED <<sched, now>>, r.pending = me.pending,
             \/ r.timerJob = me.timerJob
             \/ me.timerJob = "queued" /\ r.timerJob = "revoked",
             r.due = me.due \/ r.timerJob = "queued",
             \/ r.by \in {me.by, me.by \cup {"abort"}}
             \/ r.by = me.by \cup {"ack"} /\ me.pending = {},
             call'.pc = "ackRevoke" => call'.txn = call.txn /\ me.pending = {},
             call'.pc # "ackWon"
      PROVE  JInv'
  <2>1. PICK t \in Txn : t = call.txn
    BY <1>0, <1>1
  <2>2. ctl'[t] = r => Justified(t)'
    BY <1>0, <1>1, <2>1 DEF Justified
  <2>3. (\A u \in Txn : Justified(u)') /\ ctl'[t] = r
    BY <1>1, <2>1, <2>2, JustifiedUpdate
  <2> QED BY <1>1, <2>1, <2>3 DEF JInv, WonIsLast
<1>2. CASE AckClearRunning
  <2>1. [me EXCEPT !.running = FALSE] \in Controller
    BY <1>0, <1>2 DEF Controller, AckClearRunning, CallStep
  <2> QED BY <1>0, <1>1, <1>2, <2>1
    DEF AckClearRunning, CallStep, Controller, WonIsLast
<1>3. CASE AckRunHandler
  <2>1. [me EXCEPT !.timerJob = Revoked(@), !.by = @ \cup {"ack"},
                   !.busy = @ \cup {"ack"}] \in Controller
    BY <1>0, <1>3 DEF Controller, Trigger, AckRunHandler, CallStep, Revoked
  <2>2. /\ call.pc = "ackRevoke" /\ call'.pc = "ackHandler"
        /\ UNCHANGED <<sched, now>>
    BY <1>3 DEF AckRunHandler, CallStep, TypeOK, Call
  <2> QED BY <1>0, <1>1, <1>3, <2>1, <2>2
    DEF AckRunHandler, Controller, WonIsLast, Revoked
<1>4. CASE AckHandlerReturns
  <2>1. [me EXCEPT !.busy = @ \ {"ack"}] \in Controller
    BY <1>0, <1>4 DEF Controller, Trigger, AckHandlerReturns, CallStep
  <2>2. call'.pc = "reply" /\ call.pc # "idle" /\ UNCHANGED <<sched, now>>
    BY <1>4 DEF AckHandlerReturns, CallStep, Reply, TypeOK, Call
  <2> QED BY <1>0, <1>1, <1>4, <2>1, <2>2 DEF AckHandlerReturns, Controller
<1>5. CASE RescheduleStore
  <2> DEFINE r == [me EXCEPT
                     !.timeout = call.val,
                     !.due = IF call.pc = "store" /\ me.timerJob = "queued"
                             THEN call.val ELSE @]
  <2>1. r \in Controller
    BY <1>0, <1>5 DEF Controller, RescheduleStore, CallStep, TypeOK, Call
  <2>2. call'.pc = "reply" /\ call.pc # "idle" /\ UNCHANGED <<sched, now>>
    BY <1>5 DEF RescheduleStore, CallStep, Reply, TypeOK, Call
  <2>3. Update(call.txn, r)
    BY <1>5 DEF RescheduleStore
  <2> QED BY <1>0, <1>1, <2>1, <2>2, <2>3 DEF Controller
<1>6. CASE CancelRevoke
  <2> DEFINE r == [me EXCEPT !.timerJob = Revoked(@),
                             !.by = IF me.timerJob = "none" THEN @
                                    ELSE @ \cup {"abort"}]
  <2>1. r \in Controller
    BY <1>0, <1>6 DEF Controller, Trigger, CancelRevoke, CallStep, Revoked
  <2>2. call'.pc = "idle" /\ call.pc # "idle" /\ UNCHANGED <<sched, now>>
    BY <1>6 DEF CancelRevoke, CallStep, IdleCall
  <2>3. Update(call.txn, r)
    BY <1>6 DEF CancelRevoke
  <2> QED BY <1>0, <1>1, <2>1, <2>2, <2>3 DEF Controller, Revoked
<1>7. CASE Return \/ AckCallsEmptyHandler
  <2>1. /\ UNCHANGED <<ctl, sched, now>>
        /\ call'.pc = "idle" \/ call' = call
    BY <1>7 DEF Return, AckCallsEmptyHandler, CallStep, IdleCall
  <2> QED BY <2>1 DEF JInv, WonIsLast, Justified
<1> QED BY <1>2, <1>3, <1>4, <1>5, <1>6, <1>7 DEF CallNext

\* A new controller has run no handler yet; one that is dropped is not touched.
LEMMA JustifiedOwner ==
  ASSUME TypeOK, IInv, JInv,
         Cancel \/ \E t \in Txn, S \in SUBSET Client : Create(t, S)
  PROVE  JInv'
<1>1. CASE Cancel
  <2>1. current \in Txn /\ ctl[current] \in Controller /\ call.pc = "idle"
    BY <1>1 DEF Cancel, CallStep, TypeOK
  <2>2. UNCHANGED <<sched, now>> /\ call'.pc \in {"idle", "cancel"}
    BY <1>1, <2>1 DEF Cancel, CallStep, IdleCall
  <2>3. UNCHANGED ctl \/ \E r \in Controller :
          /\ Update(current, r)
          /\ r.pending = ctl[current].pending /\ r.by = ctl[current].by
          /\ r.timerJob = ctl[current].timerJob /\ r.due = ctl[current].due
    <3> DEFINE r1 == [ctl[current] EXCEPT !.life = "freed", !.running = FALSE]
               r2 == [ctl[current] EXCEPT !.life = "freed"]
    <3>1. \A r \in {r1, r2} :
            /\ r \in Controller
            /\ r.pending = ctl[current].pending /\ r.by = ctl[current].by
            /\ r.timerJob = ctl[current].timerJob /\ r.due = ctl[current].due
      BY <2>1 DEF Controller
    <3>2. UNCHANGED ctl \/ Update(current, r1) \/ Update(current, r2)
      BY <1>1 DEF Cancel
    <3> HIDE DEF r1, r2
    <3> QED BY <3>1, <3>2
  <2>4. ASSUME NEW r \in Controller, Update(current, r),
               r.pending = ctl[current].pending, r.by = ctl[current].by,
               r.timerJob = ctl[current].timerJob, r.due = ctl[current].due
        PROVE  JInv'
    <3>1. PICK t \in Txn : t = current
      BY <2>1
    <3>2. ctl'[t] = r => Justified(t)'
      BY <2>2, <2>4, <3>1 DEF JInv, Justified
    <3>3. \A u \in Txn : Justified(u)'
      BY <2>2, <2>4, <3>1, <3>2, JustifiedUpdate
    <3> QED BY <2>2, <3>3 DEF JInv, WonIsLast
  <2>5. UNCHANGED ctl => JInv'
    BY <2>2 DEF JInv, WonIsLast, Justified
  <2> QED BY <2>3, <2>4, <2>5
<1>2. ASSUME NEW t \in Txn, NEW S \in SUBSET Client, Create(t, S)
      PROVE  JInv'
  <2>1. NewController(S) \in Controller
    BY TimeFacts DEF TypeOK, NewController, Controller
  <2>2. /\ NewController(S).by = {}
        /\ NewController(S).timerJob = "none"
    BY DEF NewController
  <2>3. /\ UNCHANGED <<sched, now, call>> /\ call.pc = "idle"
        /\ Update(t, NewController(S))
    BY <1>2 DEF Create
  <2>4. ctl'[t] = NewController(S) => Justified(t)'
    BY <2>2 DEF Justified
  <2>5. \A u \in Txn : Justified(u)'
    BY <2>1, <2>3, <2>4, JustifiedUpdate
  <2> QED BY <2>3, <2>5 DEF JInv, WonIsLast
<1> QED BY <1>1, <1>2

\* What justified a handler is still so after any step.
LEMMA JustifiedNext ==
  ASSUME TypeOK, IInv, JInv, [Next]_vars
  PROVE  JInv'
<1>1. CASE Tick
  <2>1. UNCHANGED <<ctl, sched, call>> /\ now' >= now /\ now' \in Int
    BY <1>1, TimeAssumption DEF Tick, TypeOK, Time
  <2>2. \A t \in Txn : ctl[t].due \in Int
    BY TimeAssumption DEF TypeOK, Controller, Time
  <2>3. now \in Int
    BY TimeAssumption DEF TypeOK, Time
  <2> QED BY <2>1, <2>2, <2>3 DEF JInv, WonIsLast, Justified
<1>2. CASE UNCHANGED vars
  BY <1>2 DEF vars, JInv, WonIsLast, Justified
<1>3. ASSUME NEW t \in Txn, NEW off \in Offset,
             ScheduleAtOnce(t, off) \/ ScheduleWait(t, off)
      PROVE  JInv'
  BY <1>3, JustifiedScheduleAtOnce, JustifiedScheduleWait
<1>4. ASSUME NEW t \in Txn, NEW c \in Client,
             \/ AckInvalid(c, t)
             \/ Ack(c, t)
             \/ \E d \in Delay : Reschedule(c, t, d)
      PROVE  JInv'
  BY <1>4, JustifiedCallBegins, JustifiedReschedule
<1> QED
  BY <1>1, <1>2, <1>3, <1>4, JustifiedOwner, JustifiedSchedule,
     JustifiedTimer, JustifiedCall
  DEF Next, Stopped

\* CompletionJustified: no race of Ack, the timer job and Schedule runs a mode
\* change's handler early: in Schedule only with nobody to wait for or without
\* an offset, in Ack only for the last client, in the timer only when it is due.
THEOREM CompletionIsJustified == Spec => []CompletionJustified
<1>1. Init => JInv
  BY DEF Init, JInv, WonIsLast, Justified, IdleCall
<1>2. TypeOK /\ IInv /\ JInv /\ [Next]_vars => JInv'
  BY JustifiedNext
<1>3. JInv => CompletionJustified
  BY DEF JInv, Justified, CompletionJustified
<1> QED BY <1>1, <1>2, <1>3, Invariance, PTL DEF Spec

----------------------------------------------------------------------------
(* A handler that has not run is not forgotten: a third invariant, the      *)
(* safety part of EveryScheduleResolves.                                    *)

\* The handler of t is about to be run: by Ack, or by the destructor.
AboutToRun(t) == call.txn = t /\ call.pc \in {"ackRevoke", "cancel"}

Resolvable(t) ==
  LET me == ctl[t]
      s  == sched[t].pc
  IN
  /\ s \notin {"idle", "arm", "handler"} /\ me.by = {}
       => me.running \/ AboutToRun(t)
  /\ s = "done" /\ "schedule" \notin me.by => me.timerJob # "none"
  /\ s = "done" /\ me.running => me.timerJob \in {"queued", "executing"}
  /\ me.life = "freed" => s = "done"

RInv == \A t \in Txn : Resolvable(t)

\* A step that writes one controller, and ends no call on another one.
LEMMA ResolvableUpdate ==
  ASSUME TypeOK, RInv, NEW t \in Txn, NEW r \in Controller, Update(t, r),
         \A u \in Txn : u # t => sched'[u] = sched[u],
         call' = call \/ call.pc = "idle" \/ call.txn = t,
         ctl'[t] = r => Resolvable(t)'
  PROVE  RInv'
<1>1. ctl'[t] = r
  BY DEF TypeOK, Update
<1>2. \A u \in Txn : u # t => ctl'[u] = ctl[u]
  BY UpdateOthers DEF TypeOK
<1>3. ASSUME NEW u \in Txn, u # t, AboutToRun(u) PROVE AboutToRun(u)'
  BY <1>3 DEF AboutToRun
<1>4. ASSUME NEW u \in Txn, u # t PROVE Resolvable(u)'
  BY <1>2, <1>3, <1>4 DEF RInv, Resolvable
<1> QED BY <1>1, <1>4 DEF RInv

\* A step that changes neither a controller nor Schedule's threads, and ends
\* no call that is about to run a handler.
LEMMA ResolvableUnchanged ==
  ASSUME RInv, UNCHANGED <<ctl, sched>>,
         call' = call \/ call.pc \notin {"ackRevoke", "cancel"}
  PROVE  RInv'
BY DEF RInv, Resolvable, AboutToRun

\* Schedule that runs the handler itself.
LEMMA ResolvableAtOnce ==
  ASSUME TypeOK, IInv, RInv, NEW t \in Txn, NEW off \in Offset,
         ScheduleAtOnce(t, off)
  PROVE  RInv'
<1> DEFINE r == [ctl[t] EXCEPT !.by = @ \cup {"schedule"},
                               !.busy = @ \cup {"schedule"}]
<1>0. /\ ctl[t] \in Controller /\ sched \in [Txn -> Thread]
      /\ Sound(t) /\ Resolvable(t)
  BY DEF TypeOK, IInv, RInv
<1>1. /\ r \in Controller /\ r.life = ctl[t].life
      /\ r.running = ctl[t].running
      /\ "schedule" \in r.by
  BY <1>0 DEF Controller, Trigger
<1>2. Update(t, r) /\ call' = call /\ sched[t].pc = "idle"
  BY DEF ScheduleAtOnce, ScheduleStep
<1>3. /\ \A u \in Txn : u # t => sched'[u] = sched[u]
      /\ sched'[t].pc = "handler"
  BY <1>0 DEF ScheduleAtOnce, Thread
<1>4. ctl'[t] = r => Resolvable(t)'
  BY <1>0, <1>1, <1>2, <1>3 DEF Resolvable
<1> HIDE DEF r
<1> QED BY <1>1, <1>2, <1>3, <1>4, ResolvableUpdate

\* Schedule that has to wait.
LEMMA ResolvableWait ==
  ASSUME TypeOK, RInv, NEW t \in Txn, NEW off \in Offset,
         ScheduleWait(t, off)
  PROVE  RInv'
<1>1. /\ UNCHANGED <<ctl, call>>
      /\ \A u \in Txn : u # t => sched'[u] = sched[u]
      /\ sched[t].pc = "idle" /\ sched'[t].pc = "arm"
  BY DEF TypeOK, ScheduleWait, ScheduleStep, Thread
<1> QED BY <1>1 DEF RInv, Resolvable, AboutToRun

\* Between arming the controller and queueing its job, _running stays set
\* unless an acknowledgement is about to run the handler.
LEMMA ResolvableSchedule ==
  ASSUME TypeOK, IInv, RInv, NEW t \in Txn, ScheduleNext(t)
  PROVE  RInv'
<1>0. /\ ctl \in [Txn -> Controller] /\ ctl[t] \in Controller
      /\ sched \in [Txn -> Thread] /\ sched[t] \in Thread
      /\ Sound(t) /\ Resolvable(t)
  BY DEF TypeOK, IInv, RInv
<1>1. CASE ScheduleReadTimeout(t)
  <2>1. /\ UNCHANGED <<ctl, call>>
        /\ \A u \in Txn : u # t => sched'[u] = sched[u]
        /\ sched[t].pc = "read" /\ sched'[t].pc = "create"
    BY <1>0, <1>1 DEF ScheduleReadTimeout, ScheduleStep, Thread
  <2> QED BY <1>0, <2>1 DEF RInv, Resolvable, AboutToRun
<1>2. ASSUME NEW r \in Controller, Update(t, r), call' = call,
             \A u \in Txn : u # t => sched'[u] = sched[u],
             r.life = ctl[t].life, r.by = ctl[t].by,
             sched[t].pc \notin {"idle", "done"},
             \/ /\ sched[t].pc = "arm" /\ r.running
                /\ sched'[t].pc = "store"
             \/ /\ sched[t].pc \notin {"arm", "handler"}
                /\ r.running = ctl[t].running
                /\ sched'[t].pc = "done" => r.timerJob = "queued"
             \/ /\ sched[t].pc = "handler" /\ sched'[t].pc = "done"
                /\ r.running = ctl[t].running
      PROVE  RInv'
  <2>1. ctl'[t] = r => Resolvable(t)'
    BY <1>0, <1>2 DEF Resolvable, Sound, AboutToRun
  <2> QED BY <1>2, <2>1, ResolvableUpdate
<1>3. CASE ScheduleHandlerReturns(t)
  <2>1. [ctl[t] EXCEPT !.busy = @ \ {"schedule"}] \in Controller
    BY <1>0 DEF Controller, Trigger
  <2> QED BY <1>0, <1>2, <1>3, <2>1
    DEF ScheduleHandlerReturns, ScheduleStep, Controller, Thread
<1>4. CASE ScheduleArm(t)
  <2>1. [ctl[t] EXCEPT !.running = TRUE] \in Controller
    BY <1>0 DEF Controller, Trigger
  <2> QED BY <1>0, <1>2, <1>4, <2>1
    DEF ScheduleArm, ScheduleStep, Controller, Thread
<1>5. CASE ScheduleStoreHandler(t)
  <2>1. [ctl[t] EXCEPT !.handler = TRUE] \in Controller
    BY <1>0 DEF Controller, Trigger
  <2> QED BY <1>0, <1>2, <1>5, <2>1
    DEF ScheduleStoreHandler, ScheduleStep, Controller, Thread
<1>6. CASE ScheduleCreateJob(t)
  <2>1. [ctl[t] EXCEPT !.timeout = sched[t].reg,
                       !.timerJob = "created"] \in Controller
    BY <1>0 DEF Controller, Trigger, Thread
  <2> QED BY <1>0, <1>2, <1>6, <2>1
    DEF ScheduleCreateJob, ScheduleStep, Controller, Thread
<1>7. CASE ScheduleSubmit(t)
  <2>1. [ctl[t] EXCEPT !.timerJob = "queued",
                       !.due = ctl[t].timeout] \in Controller
    BY <1>0 DEF Controller, Trigger
  <2> QED BY <1>0, <1>2, <1>7, <2>1
    DEF ScheduleSubmit, ScheduleStep, Controller, Thread
<1> QED BY <1>1, <1>3, <1>4, <1>5, <1>6, <1>7 DEF ScheduleNext

\* The timer job ends without running the handler only if it is not running.
LEMMA ResolvableTimer ==
  ASSUME TypeOK, IInv, RInv, NEW t \in Txn, TimerNext(t)
  PROVE  RInv'
<1>0. /\ ctl \in [Txn -> Controller] /\ ctl[t] \in Controller
      /\ Sound(t) /\ Resolvable(t)
  BY DEF TypeOK, IInv, RInv
<1>1. ASSUME NEW r \in Controller, Update(t, r), UNCHANGED <<sched, call>>,
             sched[t].pc = "done",
             r.by \in {ctl[t].by, ctl[t].by \cup {"timer"}},
             \/ r.running = ctl[t].running
             \/ ~r.running /\ "timer" \in r.by,
             \/ r.timerJob = "executing"
             \/ r.timerJob = "over" /\ ~r.running
      PROVE  RInv'
  <2>1. ctl'[t] = r => Resolvable(t)'
    BY <1>0, <1>1 DEF Resolvable, AboutToRun
  <2> QED BY <1>1, <2>1, ResolvableUpdate
<1>2. \/ ctl[t].timerJob = "queued"
      \/ timer[t] # "idle"
      => sched[t].pc = "done"
  BY <1>0 DEF Sound, Thread, TypeOK
<1>3. CASE TimerDispatch(t)
  <2>1. [ctl[t] EXCEPT !.timerJob = "executing"] \in Controller
    BY <1>0 DEF Controller, Trigger
  <2> QED BY <1>0, <1>1, <1>2, <1>3, <2>1
    DEF TimerDispatch, TimerStep, Controller
<1>4. CASE TimerLock(t)
  <2>1. [ctl[t] EXCEPT !.timerJob = "over"] \in Controller
    BY <1>0 DEF Controller, Trigger
  <2>2. UNCHANGED <<ctl, sched, call>> => RInv'
    BY ResolvableUnchanged
  <2>3. ctl[t].life = "freed" => ~ctl[t].running
    BY <1>0 DEF Sound
  <2> QED BY <1>0, <1>1, <1>2, <1>4, <2>1, <2>2, <2>3
    DEF TimerLock, TimerStep, Controller
<1>5. CASE TimerCheck(t) \/ TimerHandlerReturns(t)
  <2>1. [ctl[t] EXCEPT !.timerJob = "over",
                       !.life = IF current = t THEN @ ELSE "freed",
                       !.busy = @ \ {"timer"}] \in Controller
    BY <1>0 DEF Controller, Trigger
  <2>2. UNCHANGED <<ctl, sched, call>> => RInv'
    BY ResolvableUnchanged
  <2>3. timer[t] = "handler" => ~ctl[t].running
    BY <1>0 DEF Sound
  <2> QED BY <1>0, <1>1, <1>2, <1>5, <2>1, <2>2, <2>3
    DEF TimerCheck, TimerHandlerReturns, TimerRelease, TimerStep, Controller
<1>6. CASE TimerRunHandler(t)
  <2>1. [ctl[t] EXCEPT !.running = FALSE,
                       !.by = @ \cup {"timer"},
                       !.busy = @ \cup {"timer"}] \in Controller
    BY <1>0 DEF Controller, Trigger
  <2>2. ctl[t].timerJob = "executing"
    BY <1>0, <1>6 DEF TimerRunHandler, TimerStep, Sound
  <2> QED BY <1>0, <1>1, <1>2, <1>6, <2>1, <2>2
    DEF TimerRunHandler, TimerStep, Controller
<1> QED BY <1>3, <1>4, <1>5, <1>6 DEF TimerNext

\* A call that begins runs no handler yet.
LEMMA ResolvableCallBegins ==
  ASSUME TypeOK, RInv, NEW c \in Client, NEW t \in Txn,
         AckInvalid(c, t) \/ Ack(c, t)
  PROVE  RInv'
<1>1. CASE AckInvalid(c, t)
  BY <1>1, ResolvableUnchanged DEF AckInvalid, CallStep
<1>2. CASE Ack(c, t)
  <2> DEFINE r == [ctl[t] EXCEPT !.pending = @ \ {c}]
  <2>0. ctl[t] \in Controller /\ Resolvable(t)
    BY DEF TypeOK, RInv
  <2>1. /\ r \in Controller /\ r.life = ctl[t].life
        /\ r.running = ctl[t].running
        /\ r.timerJob = ctl[t].timerJob /\ r.by = ctl[t].by
    BY <2>0 DEF Controller, Trigger
  <2>2. Update(t, r) /\ UNCHANGED sched /\ call.pc = "idle"
    BY <1>2 DEF Ack, CallStep
  <2>3. ctl'[t] = r => Resolvable(t)'
    BY <2>0, <2>1, <2>2 DEF Resolvable, AboutToRun
  <2> HIDE DEF r
  <2> QED BY <2>1, <2>2, <2>3, ResolvableUpdate
<1> QED BY <1>1, <1>2

\* Reschedule that begins has only read the controller.
LEMMA ResolvableReschedule ==
  ASSUME RInv, NEW c \in Client, NEW t \in Txn, NEW d \in Delay,
         Reschedule(c, t, d)
  PROVE  RInv'
<1>1. UNCHANGED <<ctl, sched>> /\ call.pc = "idle"
  BY DEF Reschedule, CallStep
<1> QED BY <1>1, ResolvableUnchanged

\* The call that clears _running goes on to run the handler, and a destructor
\* that was running aborts.
LEMMA ResolvableCall ==
  ASSUME TypeOK, IInv, RInv, CallNext
  PROVE  RInv'
<1> DEFINE me == ctl[call.txn]
<1>0. /\ ctl \in [Txn -> Controller] /\ CallSound
      /\ call.pc # "idle" => /\ call.txn \in Txn /\ me \in Controller
                             /\ Sound(call.txn) /\ Resolvable(call.txn)
  BY DEF TypeOK, IInv, RInv, CallSound
<1>1. ASSUME call.pc # "idle", NEW r \in Controller, Update(call.txn, r),
             UNCHANGED sched, r.life = me.life, me.by \subseteq r.by,
             me.timerJob # "none" => r.timerJob # "none",
             r.running => r.timerJob = me.timerJob,
             \/ r.running = me.running
             \/ call'.txn = call.txn /\ call'.pc = "ackRevoke" /\ ~r.running,
             call.pc \in {"ackRevoke", "cancel"} => r.by # {}
      PROVE  RInv'
  <2>1. PICK t \in Txn : t = call.txn
    BY <1>0, <1>1
  <2>2. ctl'[t] = r => Resolvable(t)'
    BY <1>0, <1>1, <2>1 DEF Resolvable, AboutToRun
  <2> QED BY <1>1, <2>1, <2>2, ResolvableUpdate
<1>2. CASE AckClearRunning
  <2>1. [me EXCEPT !.running = FALSE] \in Controller
    BY <1>0, <1>2 DEF Controller, AckClearRunning, CallStep
  <2>2. call.pc = "ackWon" /\ call'.txn = call.txn /\ call'.pc = "ackRevoke"
    BY <1>2 DEF AckClearRunning, CallStep, TypeOK, Call
  <2> QED BY <1>0, <1>1, <1>2, <2>1, <2>2
    DEF AckClearRunning, CallStep, Controller
<1>3. CASE AckRunHandler
  <2>1. [me EXCEPT !.timerJob = Revoked(@), !.by = @ \cup {"ack"},
                   !.busy = @ \cup {"ack"}] \in Controller
    BY <1>0, <1>3 DEF Controller, Trigger, AckRunHandler, CallStep, Revoked
  <2>2. call.pc = "ackRevoke" /\ ~me.running /\ UNCHANGED sched
    BY <1>0, <1>3 DEF AckRunHandler, CallStep, CallSound
  <2> QED BY <1>0, <1>1, <1>3, <2>1, <2>2
    DEF AckRunHandler, Controller, Revoked
<1>4. CASE AckHandlerReturns
  <2>1. [me EXCEPT !.busy = @ \ {"ack"}] \in Controller
    BY <1>0, <1>4 DEF Controller, Trigger, AckHandlerReturns, CallStep
  <2>2. call.pc = "ackHandler" /\ UNCHANGED sched
    BY <1>4 DEF AckHandlerReturns, CallStep
  <2> QED BY <1>0, <1>1, <1>4, <2>1, <2>2 DEF AckHandlerReturns, Controller
<1>5. CASE RescheduleStore
  <2> DEFINE r == [me EXCEPT
                     !.timeout = call.val,
                     !.due = IF call.pc = "store" /\ me.timerJob = "queued"
                             THEN call.val ELSE @]
  <2>1. r \in Controller
    BY <1>0, <1>5 DEF Controller, RescheduleStore, CallStep, TypeOK, Call
  <2>2. call.pc \in {"cache", "store"} /\ UNCHANGED sched
    BY <1>5 DEF RescheduleStore, CallStep
  <2>3. Update(call.txn, r)
    BY <1>5 DEF RescheduleStore
  <2> QED BY <1>0, <1>1, <2>1, <2>2, <2>3 DEF Controller
<1>6. CASE CancelRevoke
  <2> DEFINE r == [me EXCEPT !.timerJob = Revoked(@),
                             !.by = IF me.timerJob = "none" THEN @
                                    ELSE @ \cup {"abort"}]
  <2>1. r \in Controller
    BY <1>0, <1>6 DEF Controller, Trigger, CancelRevoke, CallStep, Revoked
  <2>2. /\ call.pc = "cancel" /\ UNCHANGED sched
        /\ ~me.running /\ me.timerJob # "none"
    BY <1>0, <1>6 DEF CancelRevoke, CallStep, CallSound, Resolvable
  <2>3. Update(call.txn, r)
    BY <1>6 DEF CancelRevoke
  <2> QED BY <1>0, <1>1, <2>1, <2>2, <2>3 DEF Controller, Revoked
<1>7. CASE Return \/ AckCallsEmptyHandler
  BY <1>7, ResolvableUnchanged DEF Return, AckCallsEmptyHandler, CallStep
<1> QED BY <1>2, <1>3, <1>4, <1>5, <1>6, <1>7 DEF CallNext

\* The owner drops a controller whose handler has run, is about to be run by
\* this call, or is left to the timer job, which found _running set.
LEMMA ResolvableCancel ==
  ASSUME TypeOK, IInv, RInv, Cancel
  PROVE  RInv'
<1>1. PICK t \in Txn : t = current
  BY DEF TypeOK, Cancel, CallStep
<1>2. /\ ctl[t] \in Controller /\ Sound(t) /\ Resolvable(t)
      /\ call.pc = "idle" /\ sched[t].pc = "done" /\ UNCHANGED sched
  BY <1>1 DEF TypeOK, IInv, RInv, Cancel, CallStep
<1>3. UNCHANGED ctl => RInv'
  BY <1>2, ResolvableUnchanged
<1>4. CASE /\ ctl[t].running
           /\ Update(t, [ctl[t] EXCEPT !.life = "freed", !.running = FALSE])
           /\ call' = [IdleCall EXCEPT !.pc = "cancel", !.txn = t]
  <2> DEFINE r == [ctl[t] EXCEPT !.life = "freed", !.running = FALSE]
  <2>1. /\ r \in Controller /\ ~r.running /\ r.by = ctl[t].by
        /\ r.timerJob = ctl[t].timerJob
    BY <1>2 DEF Controller
  <2>2. ctl'[t] = r => Resolvable(t)'
    BY <1>2, <1>4, <2>1 DEF Resolvable, AboutToRun, IdleCall
  <2> QED BY <1>2, <1>4, <2>1, <2>2, ResolvableUpdate
<1>5. CASE /\ ~ctl[t].running
           /\ Update(t, [ctl[t] EXCEPT !.life = "freed"])
           /\ UNCHANGED call
  <2> DEFINE r == [ctl[t] EXCEPT !.life = "freed"]
  <2>1. /\ r \in Controller /\ ~r.running /\ r.by = ctl[t].by
        /\ r.timerJob = ctl[t].timerJob
    BY <1>2, <1>5 DEF Controller
  <2>2. ctl'[t] = r => Resolvable(t)'
    BY <1>2, <1>5, <2>1 DEF Resolvable, AboutToRun
  <2> QED BY <1>2, <1>5, <2>1, <2>2, ResolvableUpdate
<1> QED BY <1>1, <1>3, <1>4, <1>5 DEF Cancel

\* A new controller is not scheduled yet.
LEMMA ResolvableCreate ==
  ASSUME TypeOK, IInv, RInv, NEW t \in Txn, NEW S \in SUBSET Client,
         Create(t, S)
  PROVE  RInv'
<1>1. NewController(S) \in Controller
  BY TimeFacts DEF TypeOK, NewController, Controller
<1>2. NewController(S).life = "alive" /\ ~NewController(S).running
  BY DEF NewController
<1>3. UNCHANGED <<sched, call>> /\ Update(t, NewController(S))
  BY DEF Create
<1>4. sched[t].pc = "idle"
  BY DEF Create, IInv, Sound
<1>5. ctl'[t] = NewController(S) => Resolvable(t)'
  BY <1>2, <1>3, <1>4 DEF Resolvable
<1> QED BY <1>1, <1>3, <1>5, ResolvableUpdate

\* No step leaves a handler behind that nobody is going to run.
LEMMA ResolvableNext ==
  ASSUME TypeOK, IInv, RInv, [Next]_vars
  PROVE  RInv'
<1>1. CASE Tick \/ UNCHANGED vars
  BY <1>1, ResolvableUnchanged DEF Tick, vars
<1>2. ASSUME NEW t \in Txn, NEW off \in Offset,
             ScheduleAtOnce(t, off) \/ ScheduleWait(t, off)
      PROVE  RInv'
  BY <1>2, ResolvableAtOnce, ResolvableWait
<1>3. ASSUME NEW t \in Txn, NEW c \in Client,
             \/ AckInvalid(c, t)
             \/ Ack(c, t)
             \/ \E d \in Delay : Reschedule(c, t, d)
      PROVE  RInv'
  BY <1>3, ResolvableCallBegins, ResolvableReschedule
<1> QED
  BY <1>1, <1>2, <1>3, ResolvableCancel, ResolvableCreate,
     ResolvableSchedule, ResolvableTimer, ResolvableCall
  DEF Next, Stopped

\* Before the first SetPowerState nothing is left behind.
LEMMA ResolvableInit ==
  ASSUME Init
  PROVE  RInv
<1>1. ASSUME NEW t \in Txn
      PROVE  sched[t].pc = "idle" /\ ctl[t].life = "unborn"
  BY <1>1 DEF Init
<1> QED BY <1>1 DEF RInv, Resolvable

\* The safety part of EveryScheduleResolves: once Schedule has returned, the
\* handler has run, or it is still to come: from the timer job, which is queued
\* or executing and will find _running set, or from the call that has cleared
\* _running and holds _apiLock.  No interleaving of Ack, the timer job and
\* ~AckController leaves the requester's reference on the plugin to nobody.
THEOREM NoHandlerIsLost ==
  Spec => [](\A t \in Txn : sched[t].pc = "done" /\ ctl[t].by = {} =>
               \/ /\ ctl[t].running
                  /\ ctl[t].timerJob \in {"queued", "executing"}
               \/ call.txn = t /\ call.pc \in {"ackRevoke", "cancel"})
<1>1. Init => RInv
  BY ResolvableInit
<1>2. TypeOK /\ IInv /\ RInv /\ [Next]_vars => RInv'
  BY ResolvableNext
<1>3. RInv => \A t \in Txn : sched[t].pc = "done" /\ ctl[t].by = {} =>
                \/ /\ ctl[t].running
                   /\ ctl[t].timerJob \in {"queued", "executing"}
                \/ call.txn = t /\ call.pc \in {"ackRevoke", "cancel"}
  BY DEF RInv, Resolvable, AboutToRun
<1> QED BY <1>1, <1>2, <1>3, Invariance, PTL DEF Spec

----------------------------------------------------------------------------
(* Who is awaited.                                                         *)

\* A controller that exists never awaits a client it did not await before:
\* only the constructor (Create) fills the set, only Ack takes from it.
LEMMA PendingShrinks ==
  ASSUME TypeOK, IInv, [Next]_vars, NEW u \in Txn, ctl[u].life # "unborn"
  PROVE  ctl'[u].pending \subseteq ctl[u].pending
<1>0. ctl \in [Txn -> Controller] /\ CallSound
  BY DEF TypeOK, IInv
<1>1. ASSUME NEW t \in Txn, NEW S \in SUBSET Client, Create(t, S)
      PROVE  ctl'[u].pending \subseteq ctl[u].pending
  BY <1>0, <1>1 DEF Create, Update
<1>2. ASSUME NEW t \in Txn, NEW off \in Offset, ScheduleAtOnce(t, off)
      PROVE  ctl'[u].pending \subseteq ctl[u].pending
  BY <1>0, <1>2 DEF ScheduleAtOnce, Update, Controller
<1>3. ASSUME NEW t \in Txn, ScheduleNext(t)
      PROVE  ctl'[u].pending \subseteq ctl[u].pending
  <2>1. CASE ScheduleHandlerReturns(t)
    BY <1>0, <2>1 DEF ScheduleHandlerReturns, Update, Controller
  <2>2. CASE ScheduleArm(t)
    BY <1>0, <2>2 DEF ScheduleArm, Update, Controller
  <2>3. CASE ScheduleStoreHandler(t)
    BY <1>0, <2>3 DEF ScheduleStoreHandler, Update, Controller
  <2>4. CASE ScheduleReadTimeout(t)
    BY <2>4 DEF ScheduleReadTimeout
  <2>5. CASE ScheduleCreateJob(t)
    BY <1>0, <2>5 DEF ScheduleCreateJob, Update, Controller
  <2>6. CASE ScheduleSubmit(t)
    BY <1>0, <2>6 DEF ScheduleSubmit, Update, Controller
  <2> QED BY <1>3, <2>1, <2>2, <2>3, <2>4, <2>5, <2>6 DEF ScheduleNext
<1>4. ASSUME NEW t \in Txn, TimerNext(t)
      PROVE  ctl'[u].pending \subseteq ctl[u].pending
  <2>1. CASE TimerDispatch(t)
    BY <1>0, <2>1 DEF TimerDispatch, Update, Controller
  <2>2. CASE TimerLock(t)
    BY <1>0, <2>2 DEF TimerLock, Update, Controller
  <2>3. CASE TimerRelease(t)
    BY <1>0, <2>3 DEF TimerRelease, Update, Controller
  <2>4. CASE TimerRunHandler(t)
    BY <1>0, <2>4 DEF TimerRunHandler, Update, Controller
  <2>5. CASE ctl' = ctl
    BY <2>5
  <2> QED
    BY <1>4, <2>1, <2>2, <2>3, <2>4, <2>5
    DEF TimerNext, TimerCheck, TimerHandlerReturns
<1>5. ASSUME NEW t \in Txn, NEW c \in Client, Ack(c, t)
      PROVE  ctl'[u].pending \subseteq ctl[u].pending
  BY <1>0, <1>5 DEF Ack, Update, Controller
<1>6. ASSUME CallNext
      PROVE  ctl'[u].pending \subseteq ctl[u].pending
  <2>0. call.pc # "idle" => call.txn \in Txn
    BY <1>0 DEF CallSound
  <2>1. CASE AckClearRunning
    BY <1>0, <2>0, <2>1 DEF AckClearRunning, CallStep, Update, Controller
  <2>2. CASE AckRunHandler
    BY <1>0, <2>0, <2>2 DEF AckRunHandler, CallStep, Update, Controller
  <2>3. CASE AckHandlerReturns
    BY <1>0, <2>0, <2>3 DEF AckHandlerReturns, CallStep, Update, Controller
  <2>4. CASE RescheduleStore
    BY <1>0, <2>0, <2>4 DEF RescheduleStore, CallStep, Update, Controller
  <2>5. CASE CancelRevoke
    BY <1>0, <2>0, <2>5 DEF CancelRevoke, CallStep, Update, Controller
  <2>6. CASE AckCallsEmptyHandler \/ Return
    BY <2>6 DEF AckCallsEmptyHandler, Return
  <2> QED BY <1>6, <2>1, <2>2, <2>3, <2>4, <2>5, <2>6 DEF CallNext
<1>7. CASE Cancel
  <2>1. current \in Txn
    BY <1>7 DEF Cancel, TypeOK
  <2>2. CASE UNCHANGED <<ctl, call>>
    BY <2>2
  <2>3. CASE Update(current, [ctl[current] EXCEPT !.life = "freed",
                                                 !.running = FALSE])
    BY <1>0, <2>1, <2>3 DEF Update, Controller
  <2>4. CASE Update(current, [ctl[current] EXCEPT !.life = "freed"])
    BY <1>0, <2>1, <2>4 DEF Update, Controller
  <2> QED BY <1>7, <2>2, <2>3, <2>4 DEF Cancel
<1>8. CASE UNCHANGED ctl
  BY <1>8
<1> QED
  BY <1>1, <1>2, <1>3, <1>4, <1>5, <1>6, <1>7, <1>8
  DEF Next, vars, ScheduleWait, AckInvalid, Reschedule, Tick, Stopped
=============================================================================
