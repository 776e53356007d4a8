------------------------- MODULE PowerModeChange_proof -------------------------
(***************************************************************************)
(* Proofs about PowerModeChange, for any number of requests and clients,   *)
(* any power states and delays, and any bound on the time.  What is proved *)
(* of AckController holds here too, since every step of a mode change is a *)
(* step of AckController or does not concern it.                           *)
(***************************************************************************)
EXTENDS PowerModeChange, AckController_proof

----------------------------------------------------------------------------
(* The mode change uses AckController as AckController expects it.         *)

\* OffsetOf(t) is one of the offsets that AckController knows.
LEMMA OffsetFacts ==
  \A t \in Txn : OffsetOf(t) \in Offset
BY PowerAssumption DEF OffsetOf

\* The steps of SetPowerState.
LEMMA AckStepOfRequest ==
  ASSUME PMTypeOK, NEW t \in Txn, SetPowerStateNext(t)
  PROVE  [Next]_vars
<1>1. CASE \/ LockSelf(t) \/ SameState(t) \/ DeepSleepInProgress(t)
           \/ ReadState(t) \/ Redundant(t) \/ SetPowerStateReturns(t)
  <2>1. UNCHANGED vars
    BY <1>1 DEF LockSelf, SameState, DeepSleepInProgress, ReadState, Redundant,
                SetPowerStateReturns
  <2> QED BY <2>1
<1>2. CASE CancelOld(t)
  BY <1>2 DEF CancelOld, Next
<1>3. CASE NewModeChange(t)
  <2>1. Create(t, clients) /\ clients \in SUBSET Client
    BY <1>3 DEF NewModeChange, PMTypeOK
  <2> QED BY <2>1 DEF Next
<1>4. CASE CompleteAtOnce(t)
  <2>1. ScheduleAtOnce(t, OffsetOf(t)) /\ OffsetOf(t) \in Offset
    BY <1>4, OffsetFacts DEF CompleteAtOnce
  <2> QED BY <2>1 DEF Next
<1>5. CASE AwaitClients(t)
  <2>1. ScheduleWait(t, OffsetOf(t)) /\ OffsetOf(t) \in Offset
    BY <1>5, OffsetFacts DEF AwaitClients
  <2> QED BY <2>1 DEF Next
<1>6. CASE ScheduleRuns(t)
  <2>1. ScheduleNext(t)
    BY <1>6 DEF ScheduleRuns, ScheduleNext
  <2> QED BY <2>1 DEF Next
<1> QED BY <1>1, <1>2, <1>3, <1>4, <1>5, <1>6 DEF SetPowerStateNext

\* The steps of a completion handler; it returns to the thread that ran it.
LEMMA AckStepOfHandler ==
  ASSUME NEW t \in Txn, HandlerNext(t)
  PROVE  [Next]_vars
<1>1. CASE SetHal(t) \/ HalFails(t) \/ SaveState(t) \/ Publish(t)
  <2>1. UNCHANGED vars
    BY <1>1 DEF SetHal, HalFails, SaveState, Publish, HandlerStep
  <2> QED BY <2>1
<1>2. CASE HandlerReturns(t)
  <2>1. \/ ScheduleHandlerReturns(t)
        \/ AckHandlerReturns
        \/ TimerHandlerReturns(t)
    BY <1>2 DEF HandlerReturns
  <2>2. ScheduleNext(t) \/ CallNext \/ TimerNext(t)
    BY <2>1 DEF ScheduleNext, CallNext, TimerNext
  <2> QED BY <2>2 DEF Next
<1> QED BY <1>1, <1>2 DEF HandlerNext

\* Every step of a mode change is a step of AckController or leaves it alone.
LEMMA AckStep ==
  ASSUME TypeOK, PMTypeOK, [PMNext]_allvars
  PROVE  [Next]_vars
<1>1. ASSUME NEW t \in Txn, NEW to \in PowerState, SetPowerState(t, to)
      PROVE  UNCHANGED vars
  BY <1>1 DEF SetPowerState
<1>2. CASE Finished \/ UNCHANGED allvars
  BY <1>2 DEF Finished, allvars
<1>3. ASSUME ApiNext \/ TimePasses
      PROVE  [Next]_vars
  <2>1. ApiNext => CallNext
    BY DEF ApiNext, ApiRuns, AbortModeChange, LastAckCompletesChange, CallNext
  <2> QED BY <1>3, <2>1 DEF Next, TimePasses
<1>4. ASSUME NEW t \in Txn, PMTimerNext(t)
      PROVE  [Next]_vars
  <2>1. TimerNext(t)
    BY <1>4 DEF PMTimerNext, TimerRuns, TimerCompletesChange, TimerNext
  <2> QED BY <2>1 DEF Next
<1>5. ASSUME NEW c \in Client, AddClient(c) \/ RemoveClient(c)
      PROVE  [Next]_vars
  <2>1. \/ current \in Txn /\ (Ack(c, current) \/ AckInvalid(c, current))
        \/ UNCHANGED vars
    BY <1>5 DEF AddClient, RemoveClient, TypeOK
  <2> QED BY <2>1 DEF Next
<1>6. ASSUME NEW t \in Txn, NEW c \in Client, ClientCall(c, t)
      PROVE  [Next]_vars
  <2>1. \/ Ack(c, t) \/ AckInvalid(c, t)
        \/ \E d \in Delay : Reschedule(c, t, d)
    BY <1>6 DEF ClientCall
  <2> QED BY <2>1 DEF Next
<1> QED
  BY <1>1, <1>2, <1>3, <1>4, <1>5, <1>6, AckStepOfRequest, AckStepOfHandler
  DEF PMNext

----------------------------------------------------------------------------
(* Type correctness.                                                       *)

\* Goto and the assignments of SetPowerState keep the table of requests typed.
LEMMA RequestType ==
  ASSUME PMTypeOK, NEW t \in Txn, NEW pc, NEW from \in PowerState,
         NEW to \in PowerState,
         pc \in {"idle", "lock", "read", "enter", "locked", "schedule",
                 "returned"}
  PROVE  /\ [req EXCEPT ![t].pc = pc] \in [Txn -> Request]
         /\ [req EXCEPT ![t].pc = pc, ![t].to = to] \in [Txn -> Request]
         /\ [req EXCEPT ![t].pc = pc, ![t].from = from] \in [Txn -> Request]
<1>1. req \in [Txn -> Request] /\ req[t] \in Request
  BY DEF PMTypeOK
<1>2. /\ [req[t] EXCEPT !.pc = pc] \in Request
      /\ [req[t] EXCEPT !.pc = pc, !.to = to] \in Request
      /\ [req[t] EXCEPT !.pc = pc, !.from = from] \in Request
  BY <1>1 DEF Request
<1> QED BY <1>1, <1>2

\* A step of SetPowerState keeps the types.
LEMMA PMTypeRequest ==
  ASSUME PMTypeOK, NEW t \in Txn,
         \/ SetPowerStateNext(t)
         \/ \E to \in PowerState : SetPowerState(t, to)
  PROVE  PMTypeOK'
<1>0. power \in PowerState
  BY DEF PMTypeOK
<1>1. ASSUME NEW to \in PowerState, SetPowerState(t, to)
      PROVE  PMTypeOK'
  <2>1. req' \in [Txn -> Request]
    BY <1>0, <1>1, RequestType DEF SetPowerState
  <2> QED BY <1>1, <2>1 DEF PMTypeOK, SetPowerState, RequestStep
<1>2. CASE ScheduleRuns(t)
  BY <1>2 DEF PMTypeOK, ScheduleRuns, pmvars
<1>3. CASE ReadState(t)
  <2>1. req' \in [Txn -> Request]
    BY <1>0, <1>3, RequestType DEF ReadState
  <2> QED BY <1>3, <2>1 DEF PMTypeOK, ReadState, RequestStep
<1>4. CASE CompleteAtOnce(t) \/ AwaitClients(t)
  BY <1>4 DEF PMTypeOK, CompleteAtOnce, AwaitClients, RequestStep, Step
<1>5. CASE \/ LockSelf(t) \/ SameState(t) \/ DeepSleepInProgress(t)
           \/ Redundant(t) \/ CancelOld(t) \/ NewModeChange(t)
           \/ SetPowerStateReturns(t)
  <2>1. PICK pc \in {"read", "returned", "locked", "schedule"} : Goto(t, pc)
    BY <1>5
    DEF LockSelf, SameState, DeepSleepInProgress, Redundant, CancelOld,
        NewModeChange, SetPowerStateReturns, ReturnAndUnlock
  <2>2. req' \in [Txn -> Request]
    BY <1>0, <2>1, RequestType DEF Goto
  <2>3. UNCHANGED <<clients, hal, power, deepSleep, step>>
    BY <1>5
    DEF LockSelf, SameState, DeepSleepInProgress, Redundant, CancelOld,
        NewModeChange, SetPowerStateReturns, RequestStep
  <2>4. selfLock' \in {selfLock, t, NoTxn}
    BY <1>5
    DEF LockSelf, SameState, DeepSleepInProgress, Redundant, CancelOld,
        NewModeChange, SetPowerStateReturns, ReturnAndUnlock
  <2> QED BY <2>2, <2>3, <2>4 DEF PMTypeOK
<1> QED BY <1>1, <1>2, <1>3, <1>4, <1>5 DEF SetPowerStateNext

\* A step of a completion handler, and one that begins or ends it.
LEMMA PMTypeHandler ==
  ASSUME PMTypeOK, NEW t \in Txn,
         HandlerNext(t) \/ TimerCompletesChange(t)
  PROVE  PMTypeOK'
<1>1. req[t] \in Request
  BY DEF PMTypeOK
<1>2. \/ HalFails(t) \/ SetHal(t) \/ SaveState(t) \/ Publish(t)
      \/ HandlerReturns(t) \/ TimerCompletesChange(t)
  BY DEF HandlerNext
<1>3. UNCHANGED <<clients, req>>
  BY <1>2 DEF HalFails, SetHal, SaveState, Publish, HandlerReturns, HandlerStep,
              TimerCompletesChange
<1>4. selfLock' \in {selfLock, NoTxn}
  BY <1>2 DEF HalFails, SetHal, SaveState, Publish, HandlerReturns, HandlerStep,
              TimerCompletesChange
<1>5. hal' \in {hal, req[t].to} /\ power' \in {power, req[t].to}
  BY <1>2 DEF HalFails, SetHal, SaveState, Publish, HandlerReturns, HandlerStep,
              TimerCompletesChange
<1>6. deepSleep' \in BOOLEAN
  BY <1>2 DEF HalFails, SetHal, SaveState, Publish, HandlerReturns, HandlerStep,
              TimerCompletesChange, PMTypeOK
<1>7. \E s \in Step : step' = [step EXCEPT ![t] = s]
  BY <1>2 DEF HalFails, SetHal, SaveState, Publish, HandlerReturns, HandlerStep,
              TimerCompletesChange, Step
<1>8. step' \in [Txn -> Step]
  BY <1>7 DEF PMTypeOK
<1> QED BY <1>1, <1>3, <1>4, <1>5, <1>6, <1>8 DEF PMTypeOK, Request

\* Every step keeps the types.
LEMMA PMTypeNext ==
  ASSUME PMTypeOK, call.pc # "idle" => call.txn \in Txn, [PMNext]_allvars
  PROVE  PMTypeOK'
<1>1. CASE UNCHANGED pmvars
  BY <1>1 DEF PMTypeOK, pmvars
<1>2. CASE Finished \/ TimePasses \/ ApiRuns \/ AbortModeChange
           \/ UNCHANGED allvars
  BY <1>1, <1>2
  DEF Finished, TimePasses, ApiRuns, AbortModeChange, allvars
<1>3. CASE LastAckCompletesChange
  <2>1. UNCHANGED <<clients, req, selfLock, hal, power, deepSleep>>
    BY <1>3 DEF LastAckCompletesChange
  <2>2. step' \in [Txn -> Step]
    BY <1>3 DEF LastAckCompletesChange, PMTypeOK, Step
  <2> QED BY <2>1, <2>2 DEF PMTypeOK
<1>4. ASSUME NEW c \in Client, AddClient(c) \/ RemoveClient(c)
      PROVE  PMTypeOK'
  BY <1>4 DEF PMTypeOK, AddClient, RemoveClient
<1>5. ASSUME NEW t \in Txn, NEW c \in Client, ClientCall(c, t)
      PROVE  PMTypeOK'
  BY <1>1, <1>5 DEF ClientCall
<1>6. ASSUME NEW t \in Txn, PMTimerNext(t)
      PROVE  PMTypeOK'
  BY <1>1, <1>6, PMTypeHandler DEF PMTimerNext, TimerRuns
<1> QED
  BY <1>2, <1>3, <1>4, <1>5, <1>6, PMTypeRequest, PMTypeHandler
  DEF PMNext, ApiNext

----------------------------------------------------------------------------
(* The invariant: which states of a request go with which states of its     *)
(* controller, of its handler and of selfLock.                              *)

\* What holds of one request.  "locked" and "enter" come before its controller
\* exists; a synchronous one keeps selfLock until its handler has returned,
\* and only Schedule itself runs that handler.
Serial(t) ==
  LET r  == req[t].pc
      s  == sched[t].pc
      me == ctl[t]
  IN
  /\ r \in {"read", "enter", "locked"} => selfLock = t
  /\ r = "schedule" /\ (Sync(t) => s # "done") => selfLock = t
  /\ r = "schedule" /\ s = "idle" => current = t
  /\ r = "locked" => current = NoTxn
  /\ r \in {"idle", "lock", "read", "enter", "locked"} => me.life = "unborn"
  /\ r = "schedule" => me.life # "unborn"
  /\ s \notin {"idle", "done"} => r = "schedule"
  /\ s # "idle" => r \in {"schedule", "returned"}
  /\ r = "returned" => me.life = "unborn" \/ s = "done"
  /\ Sync(t) /\ me.life # "unborn" => s = "idle" \/ "schedule" \in me.by
  /\ step[t] # "none" <=> me.busy # {}

SInv == \A t \in Txn : Serial(t)

\* A step of AckController that neither creates nor drops a controller and
\* begins or ends no handler.  An object the timer job frees has run its.
Quiet ==
  /\ current' = current
  /\ \A u \in Txn :
       /\ ctl'[u].by = ctl[u].by /\ ctl'[u].busy = ctl[u].busy
       /\ \/ ctl'[u].life = ctl[u].life
          \/ /\ ctl[u].life = "alive" /\ ctl'[u].life = "freed"
             /\ u # current /\ ctl[u].by # {}
       /\ \/ sched'[u].pc = sched[u].pc
          \/ /\ sched[u].pc \notin {"idle", "handler", "done"}
             /\ sched'[u].pc \notin {"idle", "handler"}

\* Schedule between arming and queueing is quiet.
LEMMA QuietSchedule ==
  ASSUME TypeOK, NEW t \in Txn, ScheduleRuns(t)
  PROVE  Quiet
<1>0. /\ ctl \in [Txn -> Controller] /\ ctl[t] \in Controller
      /\ sched \in [Txn -> Thread] /\ sched[t] \in Thread
  BY DEF TypeOK
<1>1. UNCHANGED current
  BY DEF ScheduleRuns, ScheduleArm, ScheduleStoreHandler,
         ScheduleReadTimeout, ScheduleCreateJob, ScheduleSubmit, ScheduleStep
<1>2. /\ \A u \in Txn : u # t => sched'[u] = sched[u]
      /\ sched[t].pc \notin {"idle", "handler", "done"}
      /\ sched'[t].pc \notin {"idle", "handler"}
  BY <1>0
  DEF ScheduleRuns, ScheduleArm, ScheduleStoreHandler, ScheduleReadTimeout,
      ScheduleCreateJob, ScheduleSubmit, ScheduleStep, Thread
<1>3. /\ \A u \in Txn : u # t => ctl'[u] = ctl[u]
      /\ ctl'[t].by = ctl[t].by /\ ctl'[t].busy = ctl[t].busy
      /\ ctl'[t].life = ctl[t].life
  <2>1. CASE ScheduleArm(t)
    BY <1>0, <2>1 DEF ScheduleArm, Update, Controller
  <2>2. CASE ScheduleStoreHandler(t)
    BY <1>0, <2>2 DEF ScheduleStoreHandler, Update, Controller
  <2>3. CASE ScheduleReadTimeout(t)
    BY <2>3 DEF ScheduleReadTimeout
  <2>4. CASE ScheduleCreateJob(t)
    BY <1>0, <2>4 DEF ScheduleCreateJob, Update, Controller
  <2>5. CASE ScheduleSubmit(t)
    BY <1>0, <2>5 DEF ScheduleSubmit, Update, Controller
  <2> QED BY <2>1, <2>2, <2>3, <2>4, <2>5 DEF ScheduleRuns
<1> QED BY <1>1, <1>2, <1>3 DEF Quiet

\* The timer job up to its decision is quiet; one that finds _running cleared
\* by an acknowledgement, and the owner gone, frees the object.
LEMMA QuietTimer ==
  ASSUME TypeOK, IInv, RInv, NEW t \in Txn,
         TimerDispatch(t) \/ TimerLock(t) \/ TimerCheck(t)
  PROVE  Quiet
<1>0. /\ ctl \in [Txn -> Controller] /\ ctl[t] \in Controller
      /\ Sound(t) /\ Resolvable(t) /\ CallSound
  BY DEF TypeOK, IInv, RInv
<1>1. UNCHANGED <<current, sched>>
  BY DEF TimerDispatch, TimerLock, TimerCheck, TimerStep
<1>2. CASE TimerDispatch(t) \/ TimerLock(t)
  <2>1. /\ \A u \in Txn : u # t => ctl'[u] = ctl[u]
        /\ ctl'[t].by = ctl[t].by /\ ctl'[t].busy = ctl[t].busy
        /\ ctl'[t].life = ctl[t].life
    BY <1>0, <1>2 DEF TimerDispatch, TimerLock, Update, Controller
  <2> QED BY <1>1, <2>1 DEF Quiet
<1>3. CASE TimerCheck(t) /\ ctl[t].running
  BY <1>1, <1>3 DEF Quiet, TimerCheck
<1>4. CASE TimerCheck(t) /\ ~ctl[t].running
  <2>0. TimerRelease(t)
    BY <1>4 DEF TimerCheck
  <2>1. /\ \A u \in Txn : u # t => ctl'[u] = ctl[u]
        /\ ctl'[t].by = ctl[t].by /\ ctl'[t].busy = ctl[t].busy \ {"timer"}
        /\ ctl'[t].life = IF current = t THEN ctl[t].life ELSE "freed"
    BY <1>0, <2>0 DEF TimerRelease, Update, Controller
  <2>2. /\ timer[t] = "held" /\ "timer" \notin ctl[t].busy
        /\ ctl[t].life = "alive"
    BY <1>0, <1>4 DEF TimerCheck, TimerStep, Sound
  <2>3. sched[t].pc \notin {"idle", "arm", "handler"}
    BY <1>0, <2>2 DEF Sound
  <2>4. ctl[t].by = {} => t = current
    BY <1>0, <1>4, <2>2, <2>3 DEF Resolvable, AboutToRun, CallSound
  <2> QED BY <1>1, <2>1, <2>2, <2>4 DEF Quiet
<1> QED BY <1>0, <1>2, <1>3, <1>4 DEF Controller

\* Calls of clients are quiet but for the handler of the last acknowledgement.
LEMMA QuietCall ==
  ASSUME TypeOK, CallSound, NEW c \in Client, NEW t \in Txn,
         Ack(c, t) \/ AckInvalid(c, t)
  PROVE  Quiet
<1>1. ctl \in [Txn -> Controller] /\ ctl[t] \in Controller
  BY DEF TypeOK
<1>2. UNCHANGED <<current, sched>>
  BY DEF Ack, AckInvalid, CallStep
<1>3. /\ \A u \in Txn : u # t => ctl'[u] = ctl[u]
      /\ ctl'[t].by = ctl[t].by /\ ctl'[t].busy = ctl[t].busy
      /\ ctl'[t].life = ctl[t].life
  BY <1>1 DEF Ack, AckInvalid, Update, Controller
<1> QED BY <1>2, <1>3 DEF Quiet

\* So are the later steps of such a call.
LEMMA QuietApi ==
  ASSUME TypeOK, CallSound, ApiRuns
  PROVE  Quiet
<1>1. CASE Return \/ AckCallsEmptyHandler
  BY <1>1 DEF Return, AckCallsEmptyHandler, CallStep, Quiet
<1>2. CASE AckClearRunning \/ RescheduleStore
  <2>1. /\ call.txn \in Txn /\ ctl \in [Txn -> Controller]
        /\ ctl[call.txn] \in Controller
    BY <1>2 DEF TypeOK, CallSound, AckClearRunning, RescheduleStore, CallStep
  <2>2. UNCHANGED <<current, sched>>
    BY <1>2 DEF AckClearRunning, RescheduleStore, CallStep
  <2>3. /\ \A u \in Txn : u # call.txn => ctl'[u] = ctl[u]
        /\ ctl'[call.txn].by = ctl[call.txn].by
        /\ ctl'[call.txn].busy = ctl[call.txn].busy
        /\ ctl'[call.txn].life = ctl[call.txn].life
    <3>1. CASE AckClearRunning
      BY <2>1, <3>1 DEF AckClearRunning, Update, Controller
    <3>2. CASE RescheduleStore
      BY <2>1, <3>2 DEF RescheduleStore, Update, Controller
    <3> QED BY <1>2, <3>1, <3>2
  <2> QED BY <2>2, <2>3 DEF Quiet
<1> QED BY <1>1, <1>2 DEF ApiRuns

\* The beginning of Reschedule changes nothing but the call.
LEMMA QuietReschedule ==
  ASSUME NEW c \in Client, NEW t \in Txn, NEW d \in Delay,
         Reschedule(c, t, d)
  PROVE  Quiet
BY DEF Reschedule, CallStep, Quiet

\* Trigger g begins to run the handler of t; the object stays.
Begins(t, g) ==
  /\ current' = current
  /\ \A u \in Txn : u # t => ctl'[u] = ctl[u]
  /\ ctl'[t].by = ctl[t].by \cup {g}
  /\ ctl'[t].busy = ctl[t].busy \cup {g}
  /\ ctl'[t].life = ctl[t].life

\* Schedule runs the handler itself.
LEMMA BeginsAtOnce ==
  ASSUME TypeOK, IInv, NEW t \in Txn, NEW off \in Offset,
         ScheduleAtOnce(t, off)
  PROVE  /\ Begins(t, "schedule")
         /\ t = current /\ ctl[t].by = {} /\ ctl[t].life = "alive"
         /\ \A u \in Txn : u # t => sched'[u] = sched[u]
         /\ sched[t].pc = "idle" /\ sched'[t].pc = "handler"
<1>1. /\ ctl \in [Txn -> Controller] /\ ctl[t] \in Controller
      /\ sched \in [Txn -> Thread] /\ sched[t] \in Thread
      /\ Sound(t) /\ CallSound
  BY DEF TypeOK, IInv
<1>2. current' = current /\ t = current /\ sched[t].pc = "idle"
  BY DEF ScheduleAtOnce, ScheduleStep
<1>3. /\ \A u \in Txn : u # t => ctl'[u] = ctl[u]
      /\ ctl'[t].by = ctl[t].by \cup {"schedule"}
      /\ ctl'[t].busy = ctl[t].busy \cup {"schedule"}
      /\ ctl'[t].life = ctl[t].life
  BY <1>1 DEF ScheduleAtOnce, Update, Controller
<1>4. /\ \A u \in Txn : u # t => sched'[u] = sched[u]
      /\ sched'[t].pc = "handler"
  BY <1>1 DEF ScheduleAtOnce, Thread
<1>5. ctl[t].by = {} /\ ctl[t].life = "alive"
  BY <1>1, <1>2, NoTxnAssumption DEF Sound, CallSound
<1> QED BY <1>2, <1>3, <1>4, <1>5 DEF Begins

\* The last acknowledgement runs the handler.
LEMMA BeginsAck ==
  ASSUME TypeOK, IInv, AckRunHandler
  PROVE  /\ call.txn \in Txn /\ Begins(call.txn, "ack") /\ UNCHANGED sched
         /\ call.txn = current /\ ctl[call.txn].life = "alive"
         /\ ctl[call.txn].by \subseteq {"ack", "timer"}
<1>1. /\ call.txn \in Txn /\ ctl \in [Txn -> Controller]
      /\ ctl[call.txn] \in Controller /\ Sound(call.txn) /\ CallSound
      /\ call.pc = "ackRevoke"
  BY DEF TypeOK, IInv, CallSound, AckRunHandler, CallStep
<1>2. UNCHANGED <<current, sched>>
  BY DEF AckRunHandler, CallStep
<1>3. /\ \A u \in Txn : u # call.txn => ctl'[u] = ctl[u]
      /\ ctl'[call.txn].by = ctl[call.txn].by \cup {"ack"}
      /\ ctl'[call.txn].busy = ctl[call.txn].busy \cup {"ack"}
      /\ ctl'[call.txn].life = ctl[call.txn].life
  BY <1>1 DEF AckRunHandler, Update, Controller
<1>4. call.txn = current /\ ctl[call.txn].life = "alive"
  BY <1>1, NoTxnAssumption DEF CallSound
<1>5. ctl[call.txn].by \subseteq {"ack", "timer"}
  BY <1>1, <1>4 DEF CallSound, Sound, Controller, Trigger
<1> QED BY <1>1, <1>2, <1>3, <1>4, <1>5 DEF Begins

\* The timer job runs the handler.
LEMMA BeginsTimer ==
  ASSUME TypeOK, IInv, NEW t \in Txn, TimerRunHandler(t)
  PROVE  /\ Begins(t, "timer") /\ UNCHANGED sched
         /\ ctl[t].life = "alive" /\ ctl[t].by \subseteq {"ack", "timer"}
<1>1. /\ ctl \in [Txn -> Controller] /\ ctl[t] \in Controller
      /\ Sound(t) /\ timer[t] = "won"
  BY DEF TypeOK, IInv, TimerRunHandler, TimerStep
<1>2. UNCHANGED <<current, sched>>
  BY DEF TimerRunHandler, TimerStep
<1>3. /\ \A u \in Txn : u # t => ctl'[u] = ctl[u]
      /\ ctl'[t].by = ctl[t].by \cup {"timer"}
      /\ ctl'[t].busy = ctl[t].busy \cup {"timer"}
      /\ ctl'[t].life = ctl[t].life
  BY <1>1 DEF TimerRunHandler, Update, Controller
<1>4. ctl[t].life = "alive" /\ ctl[t].by \subseteq {"ack", "timer"}
  BY <1>1 DEF Sound, Controller, Trigger
<1> QED BY <1>2, <1>3, <1>4 DEF Begins

\* The handler of t returns, to whoever ran it; no other run of it is going
\* on.  The timer job may have been the last to hold the object.
Ends(t) ==
  /\ current' = current
  /\ \A u \in Txn : u # t => ctl'[u] = ctl[u] /\ sched'[u] = sched[u]
  /\ ctl[t].busy # {} /\ ctl'[t].busy = {}
  /\ ctl[t].by # {} /\ ctl'[t].by = ctl[t].by
  /\ \/ ctl'[t].life = ctl[t].life
     \/ ctl[t].life = "alive" /\ ctl'[t].life = "freed" /\ t # current
  /\ \/ sched[t].pc = "handler" /\ sched'[t].pc = "done"
     \/ sched[t].pc # "handler" /\ sched' = sched

\* At most one trigger is in the handler.
LEMMA OneRun ==
  ASSUME TypeOK, IInv, NEW t \in Txn, NEW g \in ctl[t].busy
  PROVE  ctl[t].busy = {g} /\ ctl[t].by # {}
<1>1. Sound(t) /\ CallSound /\ ctl[t] \in Controller
  BY DEF TypeOK, IInv
<1>2. ctl[t].busy \subseteq {"schedule", "ack", "timer"}
  BY <1>1 DEF Sound, Controller, Trigger
<1>3. ctl[t].busy \subseteq ctl[t].by
  BY <1>1 DEF Sound
<1>4. ~("ack" \in ctl[t].busy /\ "timer" \in ctl[t].busy)
  BY <1>1 DEF Sound, CallSound
<1>5. "schedule" \in ctl[t].busy => ctl[t].by = {"schedule"}
  BY <1>1, <1>3 DEF Sound
<1> QED BY <1>2, <1>3, <1>4, <1>5

\* The three ways back from the handler.
LEMMA EndsHandler ==
  ASSUME TypeOK, IInv, NEW t \in Txn,
         \/ ScheduleHandlerReturns(t)
         \/ AckHandlerReturns /\ call.txn = t
         \/ TimerHandlerReturns(t)
  PROVE  Ends(t)
<1>0. /\ ctl \in [Txn -> Controller] /\ ctl[t] \in Controller
      /\ sched \in [Txn -> Thread] /\ sched[t] \in Thread /\ Sound(t)
  BY DEF TypeOK, IInv
<1>1. CASE ScheduleHandlerReturns(t)
  <2>1. sched[t].pc = "handler" /\ UNCHANGED current
    BY <1>1 DEF ScheduleHandlerReturns, ScheduleStep
  <2>2. /\ \A u \in Txn : u # t => sched'[u] = sched[u]
        /\ sched'[t].pc = "done"
    BY <1>0, <1>1 DEF ScheduleHandlerReturns, Thread
  <2>3. /\ \A u \in Txn : u # t => ctl'[u] = ctl[u]
        /\ ctl'[t].by = ctl[t].by /\ ctl'[t].life = ctl[t].life
        /\ ctl'[t].busy = ctl[t].busy \ {"schedule"}
    BY <1>0, <1>1 DEF ScheduleHandlerReturns, Update, Controller
  <2>4. "schedule" \in ctl[t].busy
    BY <1>0, <2>1 DEF Sound
  <2>5. ctl[t].busy = {"schedule"} /\ ctl[t].by # {}
    BY <2>4, OneRun
  <2> QED BY <2>1, <2>2, <2>3, <2>5 DEF Ends
<1>2. CASE AckHandlerReturns /\ call.txn = t
  <2>1. call.pc = "ackHandler" /\ UNCHANGED <<current, sched>>
    BY <1>2 DEF AckHandlerReturns, CallStep
  <2>2. /\ \A u \in Txn : u # t => ctl'[u] = ctl[u]
        /\ ctl'[t].by = ctl[t].by /\ ctl'[t].life = ctl[t].life
        /\ ctl'[t].busy = ctl[t].busy \ {"ack"}
    BY <1>0, <1>2 DEF AckHandlerReturns, Update, Controller
  <2>3. "ack" \in ctl[t].busy
    BY <1>0, <1>2, <2>1 DEF Sound
  <2>4. ctl[t].busy = {"ack"} /\ ctl[t].by # {}
    BY <2>3, OneRun
  <2>5. sched[t].pc # "handler"
    BY <1>0, <2>4 DEF Sound
  <2> QED BY <2>1, <2>2, <2>4, <2>5 DEF Ends
<1>3. CASE TimerHandlerReturns(t)
  <2>1. timer[t] = "handler" /\ UNCHANGED <<current, sched>> /\ TimerRelease(t)
    BY <1>3 DEF TimerHandlerReturns, TimerStep
  <2>2. /\ \A u \in Txn : u # t => ctl'[u] = ctl[u]
        /\ ctl'[t].by = ctl[t].by
        /\ ctl'[t].life = IF current = t THEN ctl[t].life ELSE "freed"
        /\ ctl'[t].busy = ctl[t].busy \ {"timer"}
    BY <1>0, <2>1 DEF TimerRelease, Update, Controller
  <2>3. "timer" \in ctl[t].busy /\ ctl[t].life = "alive"
    BY <1>0, <2>1 DEF Sound
  <2>4. ctl[t].busy = {"timer"} /\ ctl[t].by # {}
    BY <2>3, OneRun
  <2>5. sched[t].pc # "handler"
    BY <1>0, <2>4 DEF Sound
  <2> QED BY <2>1, <2>2, <2>3, <2>4, <2>5 DEF Ends
<1> QED BY <1>1, <1>2, <1>3

\* The owner drops a controller, which the timer job may keep alive.
Drops ==
  /\ current \in Txn /\ current' = NoTxn /\ sched' = sched
  /\ sched[current].pc = "done"
  /\ \A u \in Txn : u # current => ctl'[u] = ctl[u]
  /\ ctl'[current].by = ctl[current].by
  /\ ctl'[current].busy = ctl[current].busy
  /\ ctl[current].life = "alive"
  /\ \/ /\ ctl'[current].life = "freed"
        /\ ctl[current].by = {} => call'.pc = "cancel"
     \/ ctl'[current].life = "alive" /\ call' = call

\* Cancel drops the current controller: freed here, or kept by the timer job.
LEMMA DropsCancelled ==
  ASSUME TypeOK, IInv, RInv, Cancel
  PROVE  Drops
<1> DEFINE t == current
<1>1. /\ t \in Txn /\ ctl \in [Txn -> Controller] /\ ctl[t] \in Controller
      /\ Sound(t) /\ CallSound /\ Resolvable(t)
      /\ current' = NoTxn /\ sched' = sched /\ sched[t].pc = "done"
      /\ call.pc = "idle"
  BY DEF TypeOK, IInv, RInv, Cancel, CallStep
<1>2. ctl[t].life = "alive"
  BY <1>1, NoTxnAssumption DEF CallSound
<1>3. CASE timer[t] \in {"held", "won", "handler"} /\ UNCHANGED <<ctl, call>>
  BY <1>1, <1>2, <1>3 DEF Drops
<1>4. CASE /\ ctl[t].running
           /\ Update(t, [ctl[t] EXCEPT !.life = "freed", !.running = FALSE])
           /\ call' = [IdleCall EXCEPT !.pc = "cancel", !.txn = t]
  <2>1. /\ \A u \in Txn : u # t => ctl'[u] = ctl[u]
        /\ ctl'[t].by = ctl[t].by /\ ctl'[t].busy = ctl[t].busy
        /\ ctl'[t].life = "freed"
    BY <1>1, <1>4 DEF Update, Controller
  <2>2. call'.pc = "cancel"
    BY <1>4 DEF IdleCall
  <2> QED BY <1>1, <1>2, <2>1, <2>2 DEF Drops
<1>5. CASE /\ ~ctl[t].running
           /\ Update(t, [ctl[t] EXCEPT !.life = "freed"])
  <2>1. /\ \A u \in Txn : u # t => ctl'[u] = ctl[u]
        /\ ctl'[t].by = ctl[t].by /\ ctl'[t].busy = ctl[t].busy
        /\ ctl'[t].life = "freed"
    BY <1>1, <1>5 DEF Update, Controller
  <2>2. ctl[t].by # {}
    BY <1>1, <1>5 DEF Resolvable, AboutToRun
  <2> QED BY <1>1, <1>2, <2>1, <2>2 DEF Drops
<1> QED BY <1>3, <1>4, <1>5 DEF Cancel

\* The destructor of a dropped controller tells its handler that it is aborted.
Aborts(t) ==
  /\ current' = current /\ sched' = sched
  /\ \A u \in Txn : u # t => ctl'[u] = ctl[u]
  /\ ctl[t].by = {} /\ ctl'[t].by = {"abort"}
  /\ ctl'[t].busy = ctl[t].busy
  /\ ctl[t].life = "freed" /\ ctl'[t].life = "freed"
  /\ sched[t].pc = "done"

\* The destructor's revoke() aborts a controller whose handler never ran.
LEMMA AbortsRevoked ==
  ASSUME TypeOK, IInv, RInv, CancelRevoke
  PROVE  call.txn \in Txn /\ Aborts(call.txn)
<1>1. /\ call.txn \in Txn /\ ctl \in [Txn -> Controller]
      /\ ctl[call.txn] \in Controller /\ Sound(call.txn) /\ CallSound
      /\ Resolvable(call.txn) /\ call.pc = "cancel"
      /\ UNCHANGED <<current, sched>>
  BY DEF TypeOK, IInv, RInv, CallSound, CancelRevoke, CallStep
<1>2. /\ ctl[call.txn].life = "freed" /\ ctl[call.txn].by = {}
      /\ sched[call.txn].pc = "done"
  BY <1>1 DEF CallSound
<1>3. ctl[call.txn].timerJob # "none"
  BY <1>1, <1>2 DEF Resolvable
<1>4. /\ \A u \in Txn : u # call.txn => ctl'[u] = ctl[u]
      /\ ctl'[call.txn].by = ctl[call.txn].by \cup {"abort"}
      /\ ctl'[call.txn].busy = ctl[call.txn].busy
      /\ ctl'[call.txn].life = ctl[call.txn].life
  BY <1>1, <1>3 DEF CancelRevoke, Update, Controller
<1> QED BY <1>1, <1>2, <1>4 DEF Aborts

\* The owner gets a new controller.
Creates(t) ==
  /\ current = NoTxn /\ current' = t /\ sched' = sched /\ call' = call
  /\ call.pc = "idle"
  /\ \A u \in Txn : u # t => ctl'[u] = ctl[u]
  /\ ctl[t].life = "unborn" /\ ctl'[t].life = "alive"
  /\ ctl[t].by = {} /\ ctl'[t].by = {}
  /\ ctl[t].busy = {} /\ ctl'[t].busy = {}
  /\ sched[t].pc = "idle"

\* Create, whatever the set of clients.
LEMMA CreatesNew ==
  ASSUME TypeOK, IInv, NEW t \in Txn, NEW S \in SUBSET Client, Create(t, S)
  PROVE  Creates(t)
<1>1. ctl \in [Txn -> Controller] /\ Sound(t) /\ ctl[t].life = "unborn"
  BY DEF TypeOK, IInv, Create
<1>2. /\ current = NoTxn /\ current' = t /\ sched' = sched /\ call' = call
      /\ call.pc = "idle"
  BY DEF Create
<1>3. /\ \A u \in Txn : u # t => ctl'[u] = ctl[u]
      /\ ctl'[t].life = "alive" /\ ctl'[t].by = {} /\ ctl'[t].busy = {}
  BY <1>1 DEF Create, Update, NewController
<1> QED BY <1>1, <1>2, <1>3 DEF Sound, Creates

\* Quiet steps and steps that leave AckController alone keep the invariant,
\* whatever they do to the rest.
LEMMA SerialQuiet ==
  ASSUME SInv, Quiet, UNCHANGED <<req, selfLock, step>>
  PROVE  SInv'
<1> SUFFICES ASSUME NEW t \in Txn PROVE Serial(t)'
  BY DEF SInv
<1>1. Serial(t)
  BY DEF SInv
<1>2. Sync(t)' <=> Sync(t)
  BY DEF Sync
<1> QED BY <1>1, <1>2 DEF Serial, Quiet

\* What a step of SetPowerState does to the table of requests.
LEMMA GotoFacts ==
  ASSUME PMTypeOK, NEW t \in Txn, NEW pc, Goto(t, pc)
  PROVE  /\ \A u \in Txn : u # t => req'[u] = req[u]
         /\ req'[t].pc = pc /\ req'[t].from = req[t].from
         /\ req'[t].to = req[t].to
BY DEF Goto, PMTypeOK, Request

\* The invariant of a request is about its own state only.
LEMMA SerialOthers ==
  ASSUME NEW t \in Txn, Serial(t),
         /\ req'[t] = req[t] /\ step'[t] = step[t] /\ sched'[t].pc = sched[t].pc
         /\ ctl'[t].by = ctl[t].by /\ ctl'[t].busy = ctl[t].busy
         /\ ctl'[t].life = ctl[t].life,
         selfLock = t => selfLock' = t,
         selfLock = t => current' = current
  PROVE  Serial(t)'
<1>1. Sync(t)' <=> Sync(t)
  BY DEF Sync
<1> QED BY <1>1 DEF Serial

\* The steps of SetPowerState before it has a controller, but for Cancel.
LEMMA SerialEarly ==
  ASSUME TypeOK, PMTypeOK, IInv, SInv, NEW t \in Txn,
         \/ \E to \in PowerState : SetPowerState(t, to)
         \/ LockSelf(t) \/ SameState(t) \/ DeepSleepInProgress(t)
         \/ ReadState(t) \/ Redundant(t)
  PROVE  SInv'
<1>1. Serial(t) /\ Sound(t) /\ req \in [Txn -> Request]
  BY DEF SInv, IInv, PMTypeOK
<1>2. UNCHANGED <<vars, step>>
  BY DEF SetPowerState, LockSelf, SameState, DeepSleepInProgress, ReadState,
         Redundant
<1>3. \A u \in Txn : u # t => req'[u] = req[u]
  BY <1>1, GotoFacts
  DEF SetPowerState, LockSelf, SameState, DeepSleepInProgress, ReadState,
      Redundant, ReturnAndUnlock
<1>4. /\ req[t].pc \in {"idle", "lock", "read", "enter"}
      /\ req'[t].pc \in {"lock", "read", "enter", "returned"}
      /\ req'[t].pc \in {"read", "enter"} => selfLock' = t
      /\ selfLock \in {t, NoTxn} \/ selfLock' = selfLock
  <2>1. CASE \E to \in PowerState : SetPowerState(t, to)
    BY <1>1, <2>1 DEF SetPowerState, RequestStep, Request
  <2>2. CASE LockSelf(t)
    BY <1>1, <2>2, GotoFacts DEF LockSelf, RequestStep
  <2>3. CASE SameState(t) \/ DeepSleepInProgress(t) \/ Redundant(t)
    BY <1>1, <2>3, GotoFacts
    DEF SameState, DeepSleepInProgress, Redundant, ReturnAndUnlock,
        RequestStep, Serial
  <2>4. CASE ReadState(t)
    BY <1>1, <2>4 DEF ReadState, RequestStep, Request, Serial
  <2> QED BY <2>1, <2>2, <2>3, <2>4
<1>5. Serial(t)'
  BY <1>1, <1>2, <1>4 DEF Serial, Sound, vars
<1>6. ASSUME NEW u \in Txn, u # t
      PROVE  Serial(u)'
  <2>1. Serial(u) /\ req'[u] = req[u] /\ UNCHANGED <<vars, step>>
    BY <1>2, <1>3, <1>6 DEF SInv
  <2>2. selfLock = u => selfLock' = u
    BY <1>4, <1>6, NoTxnAssumption
  <2> QED BY <2>1, <2>2, SerialOthers DEF vars
<1> QED BY <1>5, <1>6 DEF SInv

\* A request cancels the one before it: both are past what selfLock guards,
\* or hold it.
LEMMA SerialCancelOld ==
  ASSUME TypeOK, PMTypeOK, IInv, RInv, SInv, NEW t \in Txn, CancelOld(t)
  PROVE  SInv'
<1>1. /\ Drops /\ Serial(t) /\ Sound(t)
      /\ req[t].pc = "enter" /\ selfLock' = selfLock /\ step' = step
      /\ Goto(t, "locked")
  BY DropsCancelled DEF SInv, IInv, CancelOld, RequestStep
<1>2. /\ \A u \in Txn : u # t => req'[u] = req[u]
      /\ req'[t].pc = "locked" /\ req'[t].from = req[t].from
      /\ req'[t].to = req[t].to
  BY <1>1, GotoFacts
<1>3. selfLock = t /\ ctl[t].life = "unborn" /\ t # current
  BY <1>1 DEF Serial, Sound
<1>4. Serial(t)'
  BY <1>1, <1>2, <1>3 DEF Serial, Sound, Drops
<1>5. ASSUME NEW u \in Txn, u # t PROVE Serial(u)'
  <2>1. Serial(u) /\ req'[u] = req[u] /\ (Sync(u)' <=> Sync(u))
    BY <1>2, <1>5 DEF SInv, Sync
  <2>2. CASE u # current
    BY <1>1, <1>3, <1>5, <2>1, <2>2, SerialOthers DEF Drops
  <2>3. CASE u = current
    BY <1>1, <1>3, <1>5, <2>1, <2>3 DEF Serial, Drops
  <2> QED BY <2>2, <2>3
<1> QED BY <1>4, <1>5 DEF SInv

\* A request gets its controller.
LEMMA SerialCreate ==
  ASSUME TypeOK, PMTypeOK, IInv, SInv, NEW t \in Txn, NewModeChange(t)
  PROVE  SInv'
<1>1. /\ Creates(t) /\ Serial(t) /\ req[t].pc \in {"enter", "locked"}
      /\ selfLock' = selfLock /\ step' = step /\ Goto(t, "schedule")
  BY CreatesNew DEF SInv, NewModeChange, RequestStep, PMTypeOK
<1>2. /\ \A u \in Txn : u # t => req'[u] = req[u]
      /\ req'[t].pc = "schedule"
  BY <1>1, GotoFacts
<1>3. selfLock = t
  BY <1>1 DEF Serial
<1>4. Serial(t)'
  BY <1>1, <1>2, <1>3 DEF Serial, Creates
<1>5. ASSUME NEW u \in Txn, u # t PROVE Serial(u)'
  BY <1>1, <1>2, <1>3, <1>5, SerialOthers DEF SInv, Creates
<1> QED BY <1>4, <1>5 DEF SInv

\* Schedule runs the handler itself.
LEMMA SerialAtOnce ==
  ASSUME TypeOK, PMTypeOK, IInv, SInv, NEW t \in Txn, CompleteAtOnce(t)
  PROVE  SInv'
<1>1. OffsetOf(t) \in Offset /\ ScheduleAtOnce(t, OffsetOf(t))
  BY OffsetFacts DEF CompleteAtOnce
<1>2. /\ Begins(t, "schedule") /\ t = current
      /\ \A u \in Txn : u # t => sched'[u] = sched[u]
      /\ sched[t].pc = "idle" /\ sched'[t].pc = "handler"
      /\ ctl[t].life = "alive"
  BY <1>1, BeginsAtOnce
<1>3. /\ UNCHANGED <<req, selfLock>> /\ req[t].pc = "schedule"
      /\ \A u \in Txn : u # t => step'[u] = step[u]
      /\ step'[t] = "hal"
  BY DEF CompleteAtOnce, RequestStep, PMTypeOK
<1>4. Serial(t)'
  BY <1>2, <1>3 DEF Serial, Begins, SInv, Sync
<1>5. ASSUME NEW u \in Txn, u # t PROVE Serial(u)'
  BY <1>2, <1>3, <1>5, SerialOthers DEF SInv, Begins
<1> QED BY <1>4, <1>5 DEF SInv

\* Schedule waits for the clients: the request is not a synchronous one.
LEMMA SerialWait ==
  ASSUME TypeOK, SInv, NEW t \in Txn, AwaitClients(t)
  PROVE  SInv'
<1>1. /\ ~Sync(t) /\ sched[t].pc = "idle" /\ current = t
      /\ req[t].pc = "schedule"
      /\ UNCHANGED <<ctl, current, req, selfLock, step>>
  BY DEF AwaitClients, RequestStep, ScheduleWait, ScheduleStep, OffsetOf
<1>2. /\ \A u \in Txn : u # t => sched'[u] = sched[u]
      /\ sched'[t].pc = "arm"
  BY DEF AwaitClients, ScheduleWait, TypeOK, Thread
<1>3. Serial(t)'
  BY <1>1, <1>2 DEF Serial, SInv, Sync
<1>4. ASSUME NEW u \in Txn, u # t PROVE Serial(u)'
  BY <1>1, <1>2, <1>4, SerialOthers DEF SInv
<1> QED BY <1>3, <1>4 DEF SInv

\* SetPowerState returns.
LEMMA SerialReturns ==
  ASSUME TypeOK, PMTypeOK, SInv, NEW t \in Txn, SetPowerStateReturns(t)
  PROVE  SInv'
<1>1. /\ Serial(t) /\ req[t].pc = "schedule" /\ sched[t].pc = "done"
      /\ UNCHANGED <<vars, step>> /\ Goto(t, "returned")
      /\ selfLock' = IF Sync(t) THEN selfLock ELSE NoTxn
  BY DEF SInv, SetPowerStateReturns, RequestStep
<1>2. /\ \A u \in Txn : u # t => req'[u] = req[u]
      /\ req'[t].pc = "returned" /\ req'[t].from = req[t].from
      /\ req'[t].to = req[t].to
  BY <1>1, GotoFacts
<1>3. Sync(t)' <=> Sync(t)
  BY <1>2 DEF Sync
<1>4. Serial(t)'
  BY <1>1, <1>2, <1>3 DEF Serial, vars
<1>5. ASSUME NEW u \in Txn, u # t PROVE Serial(u)'
  <2>1. selfLock = u => selfLock' = u
    BY <1>1, <1>5 DEF Serial
  <2> QED BY <1>1, <1>2, <1>5, <2>1, SerialOthers DEF SInv, vars
<1> QED BY <1>4, <1>5 DEF SInv

\* The completion handler is at work.
LEMMA SerialHandler ==
  ASSUME PMTypeOK, SInv, NEW t \in Txn,
         SetHal(t) \/ HalFails(t) \/ SaveState(t) \/ Publish(t)
  PROVE  SInv'
<1>1. UNCHANGED <<vars, req, selfLock>>
  BY DEF SetHal, HalFails, SaveState, Publish, HandlerStep
<1>2. /\ \A u \in Txn : u # t => step'[u] = step[u]
      /\ step[t] # "none" /\ step'[t] # "none"
  BY DEF SetHal, HalFails, SaveState, Publish, HandlerStep, PMTypeOK
<1> QED BY <1>1, <1>2 DEF SInv, Serial, Sync, vars

\* It returns; a synchronous one was run by Schedule and gives selfLock back.
LEMMA SerialHandlerReturns ==
  ASSUME TypeOK, PMTypeOK, IInv, SInv, NEW t \in Txn, HandlerReturns(t)
  PROVE  SInv'
<1>1. /\ Ends(t) /\ Serial(t) /\ Sound(t)
      /\ step[t] = "release" /\ step' = [step EXCEPT ![t] = "none"]
      /\ selfLock' = IF Sync(t) THEN NoTxn ELSE selfLock
      /\ req' = req
  BY EndsHandler DEF SInv, IInv, HandlerReturns
<1>2. /\ \A u \in Txn : u # t => step'[u] = step[u]
      /\ step'[t] = "none"
  BY <1>1 DEF PMTypeOK
<1>3. Sync(t) => /\ "schedule" \in ctl[t].by /\ sched[t].pc = "handler"
                 /\ selfLock = t
  <2>1. ctl[t].busy # {} /\ ctl[t].by # {} /\ ctl[t].life # "unborn"
    BY <1>1 DEF Ends, Sound
  <2>2. sched[t].pc # "idle"
    BY <1>1, <2>1 DEF Sound
  <2>3. Sync(t) => "schedule" \in ctl[t].by
    BY <1>1, <2>1, <2>2 DEF Serial
  <2>4. "schedule" \in ctl[t].by => "schedule" \in ctl[t].busy
    BY <1>1, <2>1 DEF Sound
  <2>5. "schedule" \in ctl[t].busy => sched[t].pc = "handler"
    BY <1>1 DEF Sound
  <2>6. sched[t].pc = "handler" => req[t].pc = "schedule"
    BY <1>1 DEF Serial
  <2> QED BY <1>1, <2>3, <2>4, <2>5, <2>6 DEF Serial
<1>4. Sync(t)' <=> Sync(t)
  BY <1>1 DEF Sync
<1>5. Serial(t)'
  BY <1>1, <1>2, <1>3, <1>4 DEF Serial, Ends
<1>6. ASSUME NEW u \in Txn, u # t PROVE Serial(u)'
  <2>1. selfLock = u => selfLock' = u
    BY <1>1, <1>3, <1>6
  <2> QED BY <1>1, <1>2, <1>6, <2>1, SerialOthers DEF SInv, Ends
<1> QED BY <1>5, <1>6 DEF SInv

\* The handler begins, in Ack or in the timer job.
LEMMA SerialBegins ==
  ASSUME PMTypeOK, SInv, NEW t \in Txn, NEW g, Begins(t, g),
         UNCHANGED <<sched, req, selfLock>>,
         step' = [step EXCEPT ![t] = "hal"]
  PROVE  SInv'
<1>1. /\ \A u \in Txn : u # t => step'[u] = step[u]
      /\ step'[t] = "hal"
  BY DEF PMTypeOK
<1>2. Sync(t)' <=> Sync(t)
  BY DEF Sync
<1>3. Serial(t)'
  BY <1>1, <1>2 DEF SInv, Serial, Begins
<1>4. ASSUME NEW u \in Txn, u # t PROVE Serial(u)'
  BY <1>1, <1>4, SerialOthers DEF SInv, Begins
<1> QED BY <1>3, <1>4 DEF SInv

\* The handler is told that it is aborted.
LEMMA SerialAborts ==
  ASSUME PMTypeOK, SInv, NEW t \in Txn, Aborts(t),
         UNCHANGED <<req, selfLock, step>>
  PROVE  SInv'
<1>1. Serial(t)'
  BY DEF SInv, Serial, Aborts, Sync
<1>2. ASSUME NEW u \in Txn, u # t PROVE Serial(u)'
  BY <1>2, SerialOthers DEF SInv, Aborts
<1> QED BY <1>1, <1>2 DEF SInv

\* Every step preserves it.
LEMMA SerialNext ==
  ASSUME TypeOK, PMTypeOK, IInv, RInv, SInv, [PMNext]_allvars
  PROVE  SInv'
<1>0. CallSound
  BY DEF IInv
<1>1. CASE Finished \/ TimePasses \/ UNCHANGED allvars
  <2>1. UNCHANGED <<ctl, sched, current, req, selfLock, step>>
    BY <1>1 DEF Finished, TimePasses, Tick, allvars, vars, pmvars
  <2> QED BY <2>1 DEF SInv, Serial, Sync
<1>2. ASSUME NEW t \in Txn, SetPowerStateNext(t) PROVE SInv'
  <2>1. CASE ScheduleRuns(t)
    BY <2>1, QuietSchedule, SerialQuiet DEF ScheduleRuns, pmvars
  <2> QED
    BY <1>2, <2>1, SerialEarly, SerialCancelOld, SerialCreate, SerialAtOnce,
       SerialWait, SerialReturns
    DEF SetPowerStateNext
<1>3. ASSUME NEW t \in Txn, HandlerNext(t) PROVE SInv'
  BY <1>3, SerialHandler, SerialHandlerReturns DEF HandlerNext
<1>4. ASSUME NEW t \in Txn, PMTimerNext(t) PROVE SInv'
  <2>1. CASE TimerRuns(t)
    BY <2>1, QuietTimer, SerialQuiet DEF TimerRuns, pmvars
  <2>2. CASE TimerCompletesChange(t)
    BY <2>2, BeginsTimer, SerialBegins DEF TimerCompletesChange
  <2> QED BY <1>4, <2>1, <2>2 DEF PMTimerNext
<1>5. ASSUME NEW t \in Txn, NEW c \in Client, ClientCall(c, t) PROVE SInv'
  <2>1. Quiet
    BY <1>0, <1>5, QuietCall, QuietReschedule DEF ClientCall
  <2> QED BY <1>5, <2>1, SerialQuiet DEF ClientCall, pmvars
<1>6. ASSUME NEW c \in Client, AddClient(c) \/ RemoveClient(c) PROVE SInv'
  <2>1. CASE UNCHANGED vars
    <3>1. UNCHANGED <<ctl, sched, current, req, selfLock, step>>
      BY <1>6, <2>1 DEF AddClient, RemoveClient, vars
    <3> QED BY <3>1 DEF SInv, Serial, Sync
  <2>2. CASE /\ current \in Txn
             /\ Ack(c, current) \/ AckInvalid(c, current)
    <3>1. Quiet
      BY <1>0, <2>2, QuietCall
    <3> QED BY <1>6, <3>1, SerialQuiet DEF AddClient, RemoveClient
  <2> QED BY <1>6, <2>1, <2>2 DEF AddClient, RemoveClient, TypeOK
<1>7. CASE ApiRuns
  BY <1>0, <1>7, QuietApi, SerialQuiet DEF ApiRuns, pmvars
<1>8. CASE AbortModeChange
  BY <1>8, AbortsRevoked, SerialAborts DEF AbortModeChange, pmvars
<1>9. CASE LastAckCompletesChange
  BY <1>9, BeginsAck, SerialBegins DEF LastAckCompletesChange
<1> QED
  BY <1>1, <1>2, <1>3, <1>4, <1>5, <1>6, <1>7, <1>8, <1>9, SerialEarly
  DEF PMNext, ApiNext

----------------------------------------------------------------------------
(* The invariant holds, and what follows from it.                          *)

PMInv == PMTypeOK /\ SInv

\* Every reachable state of a mode change satisfies the invariants of
\* AckController and its own.
THEOREM PMInvariance == PMSpec => [](TypeOK /\ IInv /\ RInv /\ PMInv)
<1>1. PMInit => TypeOK /\ IInv /\ RInv /\ PMInv
  <2> SUFFICES ASSUME PMInit PROVE TypeOK /\ IInv /\ RInv /\ PMInv
    OBVIOUS
  <2>1. Init /\ \A t \in Txn : req[t].pc = "idle" /\ step[t] = "none"
    BY DEF PMInit
  <2>2. TypeOK /\ IInv /\ RInv
    BY <2>1, IInvInit, ResolvableInit
  <2>3. PMTypeOK
    BY DEF PMInit, PMTypeOK, Request, Step
  <2>4. \A t \in Txn : /\ sched[t].pc = "idle" /\ ctl[t].life = "unborn"
                       /\ ctl[t].busy = {}
    BY <2>1 DEF Init
  <2>5. SInv
    BY <2>1, <2>4 DEF SInv, Serial
  <2> QED BY <2>2, <2>3, <2>5 DEF PMInv
<1>2. TypeOK /\ IInv /\ RInv /\ PMInv /\ [PMNext]_allvars
        => (TypeOK /\ IInv /\ RInv /\ PMInv)'
  <2> SUFFICES ASSUME TypeOK, IInv, RInv, PMInv, [PMNext]_allvars
               PROVE  (TypeOK /\ IInv /\ RInv /\ PMInv)'
    OBVIOUS
  <2>1. [Next]_vars
    BY AckStep DEF PMInv
  <2>2. call.pc # "idle" => call.txn \in Txn
    BY DEF IInv, CallSound
  <2> QED
    BY <2>1, <2>2, TypeNext, IInvNext, ResolvableNext, PMTypeNext, SerialNext
    DEF PMInv
<1> QED BY <1>1, <1>2, PTL DEF PMSpec

\* PMTypeOK: the requests, the lock and the hardware keep their types.
THEOREM PMTypeCorrect == PMSpec => []PMTypeOK
BY PMInvariance, PTL DEF PMInv

\* The mode change is a use of AckController: whatever SetPowerState, the API
\* of the clients and the handler do, the controllers behave as AckController
\* says, so that each theorem about Spec holds of the plugin.
THEOREM ModeChangeUsesAckController == PMSpec => Spec
<1>1. PMInit => Init
  BY DEF PMInit
<1>2. TypeOK /\ PMInv /\ [PMNext]_allvars => [Next]_vars
  BY AckStep DEF PMInv
<1> QED BY <1>1, <1>2, PMInvariance, PTL DEF PMSpec, Spec

\* OnlyCurrentWaits: a controller that still waits for clients is the current
\* one, or the timer job has it.
THEOREM OnlyTheCurrentWaits == PMSpec => []OnlyCurrentWaits
<1>1. TypeOK /\ IInv => OnlyCurrentWaits
  BY DEF IInv, Sound, OnlyCurrentWaits
<1> QED BY <1>1, PMInvariance, PTL

\* SyncBlocksRequests: from the request's controller to the end of its handler
\* a wake from DEEP_SLEEP to LIGHT_SLEEP holds selfLock and is the current one.
THEOREM SyncExcludesOthers == PMSpec => []SyncBlocksRequests
<1>1. ASSUME IInv, SInv, NEW t \in Txn, Sync(t), req[t].pc = "schedule",
             sched[t].pc # "done"
      PROVE  selfLock = t /\ current = t
  BY <1>1 DEF IInv, Sound, SInv, Serial
<1>2. IInv /\ SInv => SyncBlocksRequests
  BY <1>1 DEF SyncBlocksRequests
<1> QED BY <1>2, PMInvariance, PTL DEF PMInv

\* selfLock gives AckController what it relies on without checking it: when a
\* request is about to make a controller no Schedule is in progress, when it
\* drops the old one that one's Schedule has returned, and when it calls
\* Schedule the controller is still the one it made.
THEOREM SelfLockSerialisesSchedules ==
  PMSpec => [](\A t \in Txn :
    /\ req[t].pc \in {"enter", "locked"}
         => NoScheduleInProgress /\ ctl[t].life = "unborn"
    /\ req[t].pc = "enter" /\ current # NoTxn => sched[current].pc = "done"
    /\ req[t].pc = "schedule" /\ sched[t].pc = "idle" => current = t)
<1>1. ASSUME TypeOK, PMTypeOK, IInv, SInv, NEW t \in Txn
      PROVE  /\ req[t].pc \in {"enter", "locked"}
                  => NoScheduleInProgress /\ ctl[t].life = "unborn"
             /\ req[t].pc = "enter" /\ current # NoTxn
                  => sched[current].pc = "done"
             /\ req[t].pc = "schedule" /\ sched[t].pc = "idle" => current = t
  <2>1. Serial(t) /\ CallSound /\ current \in Txn \cup {NoTxn}
    BY <1>1 DEF TypeOK, IInv, SInv
  <2>2. ASSUME req[t].pc \in {"enter", "locked"}, NEW u \in Txn
        PROVE  sched[u].pc \in {"idle", "done"}
    <3>1. Serial(u) /\ selfLock = t
      BY <1>1, <2>1, <2>2 DEF SInv, Serial
    <3> QED BY <2>2, <3>1 DEF Serial
  <2>3. ASSUME req[t].pc = "enter", current # NoTxn
        PROVE  sched[current].pc = "done"
    <3>1. PICK u \in Txn : u = current
      BY <2>1, <2>3
    <3>2. /\ Serial(u) /\ ctl[u].life = "alive" /\ req[u] \in Request
          /\ selfLock = t /\ ctl[t].life = "unborn"
      BY <1>1, <2>1, <2>3, <3>1 DEF SInv, CallSound, Serial, PMTypeOK
    <3>3. req[u].pc \in {"schedule", "returned"}
      BY <3>2 DEF Serial, Request
    <3>4. u # t
      BY <3>2
    <3>5. sched[u].pc = "done"
      BY <3>2, <3>3, <3>4 DEF Serial
    <3> QED BY <3>1, <3>5
  <2>4. req[t].pc \in {"enter", "locked"} => NoScheduleInProgress
    BY <2>2 DEF NoScheduleInProgress
  <2> QED BY <2>1, <2>3, <2>4 DEF Serial
<1>2. TypeOK /\ IInv /\ PMInv => \A t \in Txn :
        /\ req[t].pc \in {"enter", "locked"}
             => NoScheduleInProgress /\ ctl[t].life = "unborn"
        /\ req[t].pc = "enter" /\ current # NoTxn => sched[current].pc = "done"
        /\ req[t].pc = "schedule" /\ sched[t].pc = "idle" => current = t
  BY <1>1 DEF PMInv
<1> QED BY <1>2, PMInvariance, PTL

\* PendingAreRegistered: removing a client acknowledges for it, so that no
\* order of AddClient, RemoveClient and mode changes leaves the current
\* controller waiting for a client that has unregistered.
THEOREM OnlyRegisteredAreAwaited == PMSpec => []PendingAreRegistered
<1>1. PMInit => PendingAreRegistered
  BY DEF PMInit, Init, PendingAreRegistered
<1>2. ASSUME TypeOK, IInv, RInv, PMInv, PendingAreRegistered,
             [PMNext]_allvars
      PROVE  PendingAreRegistered'
  <2>0. [Next]_vars /\ CallSound /\ current \in Txn \cup {NoTxn}
    BY <1>2, AckStep DEF PMInv, IInv, TypeOK
  <2>1. CASE current' = current /\ clients \subseteq clients'
    <3>1. ASSUME current # NoTxn
          PROVE  ctl'[current].pending \subseteq ctl[current].pending
      <4>1. current \in Txn /\ ctl[current].life # "unborn"
        BY <2>0, <3>1 DEF CallSound
      <4> QED BY <1>2, <2>0, <4>1, PendingShrinks
    <3> QED BY <1>2, <2>1, <3>1 DEF PendingAreRegistered
  <2>2. CASE current' = NoTxn
    BY <2>2 DEF PendingAreRegistered
  <2>3. ASSUME NEW t \in Txn, NewModeChange(t)
        PROVE  PendingAreRegistered'
    <3>1. clients' = clients /\ current' = t /\ ctl'[t].pending = clients
      BY <1>2, <2>3
      DEF NewModeChange, RequestStep, Create, Update, NewController, TypeOK
    <3> QED BY <3>1 DEF PendingAreRegistered
  <2>4. ASSUME NEW c \in Client, RemoveClient(c)
        PROVE  PendingAreRegistered'
    <3>1. clients' = clients \ {c}
      BY <2>4 DEF RemoveClient
    <3>2. CASE Ack(c, current) /\ current # NoTxn
      <4>1. /\ current' = current
            /\ ctl'[current].pending = ctl[current].pending \ {c}
        BY <1>2, <2>0, <3>2 DEF Ack, Update, TypeOK, Controller
      <4> QED BY <1>2, <3>1, <3>2, <4>1 DEF PendingAreRegistered
    <3>3. CASE AckInvalid(c, current) /\ current # NoTxn
      <4>1. ctl' = ctl /\ current' = current /\ c \notin ctl[current].pending
        BY <3>3 DEF AckInvalid, Valid
      <4> QED BY <1>2, <3>1, <3>3, <4>1 DEF PendingAreRegistered
    <3>4. CASE current = NoTxn /\ UNCHANGED vars
      BY <3>4 DEF vars, PendingAreRegistered
    <3> QED BY <2>4, <3>2, <3>3, <3>4 DEF RemoveClient
  <2>5. ASSUME NEW t \in Txn, SetPowerStateNext(t), ~NewModeChange(t)
        PROVE  current' \in {current, NoTxn} /\ clients' = clients
    BY <2>5
    DEF SetPowerStateNext, LockSelf, SameState, DeepSleepInProgress, ReadState,
        Redundant, CancelOld, Cancel, CompleteAtOnce, ScheduleAtOnce,
        ScheduleStep, AwaitClients, ScheduleWait, ScheduleRuns, ScheduleArm,
        ScheduleStoreHandler, ScheduleReadTimeout, ScheduleCreateJob,
        ScheduleSubmit, SetPowerStateReturns, RequestStep, vars, pmvars
  <2>6. ASSUME NEW t \in Txn, HandlerNext(t) \/ PMTimerNext(t)
        PROVE  current' = current /\ clients' = clients
    BY <2>6
    DEF HandlerNext, SetHal, HalFails, SaveState, Publish, HandlerStep,
        HandlerReturns, ScheduleHandlerReturns, ScheduleStep,
        AckHandlerReturns, CallStep, TimerHandlerReturns, TimerStep,
        PMTimerNext, TimerRuns, TimerDispatch, TimerLock, TimerCheck,
        TimerCompletesChange, TimerRunHandler, vars, pmvars
  <2>7. ASSUME ApiNext \/ TimePasses \/ Finished \/ UNCHANGED allvars
        PROVE  current' = current /\ clients' = clients
    BY <2>7
    DEF ApiNext, ApiRuns, AbortModeChange, LastAckCompletesChange, TimePasses,
        Finished, AckClearRunning, AckCallsEmptyHandler, RescheduleStore,
        Return, CancelRevoke, AckRunHandler, Tick, CallStep, allvars, vars,
        pmvars
  <2>8. ASSUME NEW t \in Txn, NEW c \in Client, ClientCall(c, t)
        PROVE  current' = current /\ clients' = clients
    BY <2>8 DEF ClientCall, Ack, AckInvalid, Reschedule, pmvars
  <2>9. ASSUME NEW c \in Client, AddClient(c)
        PROVE  current' = current /\ clients \subseteq clients'
    BY <2>9 DEF AddClient, vars
  <2>10. ASSUME NEW t \in Txn, NEW to \in PowerState, SetPowerState(t, to)
         PROVE  current' = current /\ clients' = clients
    BY <2>10 DEF SetPowerState, RequestStep, vars
  <2> QED
    BY <1>2, <2>1, <2>2, <2>3, <2>4, <2>5, <2>6, <2>7, <2>8, <2>9, <2>10
    DEF PMNext
<1> QED BY <1>1, <1>2, PMInvariance, PTL DEF PMSpec

----------------------------------------------------------------------------
(* The mode change implements PowerRequests.                               *)

\* The status of a request depends on its trigger, its object, the owner's
\* pointer and, before it has an object, on how far SetPowerState is.
LEMMA StatusSame ==
  ASSUME NEW t \in Txn, ctl'[t].by = ctl[t].by,
         \/ /\ ctl'[t].life = ctl[t].life
            /\ current' = t <=> current = t
         \/ ctl[t].by # {} /\ ctl[t].by \subseteq Trigger,
         \/ req'[t].pc = req[t].pc
         \/ ctl[t].life # "unborn" /\ ctl'[t].life # "unborn"
  PROVE  StatusOf(t)' = StatusOf(t)
<1>1. CASE ctl[t].by # {} /\ ctl[t].by \subseteq Trigger
  <2>1. "abort" \notin ctl[t].by
          => ctl[t].by \cap {"schedule", "ack", "timer"} # {}
    BY <1>1 DEF Trigger
  <2> QED BY <2>1 DEF StatusOf
<1>2. CASE /\ ctl'[t].life = ctl[t].life
           /\ current' = t <=> current = t
  BY <1>2 DEF StatusOf
<1> QED BY <1>1, <1>2

\* A step that changes no status, no goal and not the settings is a stutter.
LEMMA MapsToStutter ==
  ASSUME \A t \in Txn : StatusOf(t)' = StatusOf(t),
         \A t \in Txn : req'[t].to = req[t].to, power' = power
  PROVE  UNCHANGED Requests!vars
<1>1. [t \in Txn |-> StatusOf(t)]' = [t \in Txn |-> StatusOf(t)]
  OBVIOUS
<1>2. [t \in Txn |-> req[t].to]' = [t \in Txn |-> req[t].to]
  OBVIOUS
<1> QED BY <1>1, <1>2 DEF Requests!vars

\* A step that changes one status.
LEMMA MapsToBecome ==
  ASSUME NEW t \in Txn, NEW from, NEW to,
         StatusOf(t) = from, StatusOf(t)' = to,
         \A u \in Txn : u # t => StatusOf(u)' = StatusOf(u)
  PROVE  Requests!Become(t, from, to)
BY DEF Requests!Become

\* The abstract actions that keep the goals and the settings.
LEMMA MapsToStep ==
  ASSUME NEW t \in Txn,
         \A u \in Txn : u # t => StatusOf(u)' = StatusOf(u),
         \A u \in Txn : req'[u].to = req[u].to, power' = power,
         \/ StatusOf(t)' = StatusOf(t)
         \/ StatusOf(t) = "asked" /\ StatusOf(t)' = "ignored"
         \/ StatusOf(t) = "waiting" /\ StatusOf(t)' = "committed"
         \/ StatusOf(t) = "waiting" /\ StatusOf(t)' = "aborted"
  PROVE  Requests!Next \/ UNCHANGED Requests!vars
<1>1. [u \in Txn |-> req[u].to]' = [u \in Txn |-> req[u].to]
  OBVIOUS
<1>2. CASE StatusOf(t)' = StatusOf(t)
  BY <1>2, MapsToStutter
<1>3. CASE StatusOf(t) = "asked" /\ StatusOf(t)' = "ignored"
  <2>1. Requests!Become(t, "asked", "ignored")
    BY <1>3, MapsToBecome
  <2>2. Requests!Ignore(t)
    BY <1>1, <2>1 DEF Requests!Ignore
  <2> QED BY <2>2 DEF Requests!Next
<1>4. CASE StatusOf(t) = "waiting" /\ StatusOf(t)' = "committed"
  <2>1. Requests!Become(t, "waiting", "committed")
    BY <1>4, MapsToBecome
  <2>2. Requests!Commit(t)
    BY <1>1, <2>1 DEF Requests!Commit
  <2> QED BY <2>2 DEF Requests!Next
<1>5. CASE StatusOf(t) = "waiting" /\ StatusOf(t)' = "aborted"
  <2>1. Requests!Become(t, "waiting", "aborted")
    BY <1>5, MapsToBecome
  <2>2. Requests!Abort(t)
    BY <1>1, <2>1 DEF Requests!Abort
  <2> QED BY <2>2 DEF Requests!Next
<1> QED BY <1>2, <1>3, <1>4, <1>5

\* A quiet step of the controllers is a stutter.
LEMMA MapsQuiet ==
  ASSUME TypeOK, Quiet, UNCHANGED <<req, power>>
  PROVE  UNCHANGED Requests!vars
<1>1. ASSUME NEW u \in Txn PROVE StatusOf(u)' = StatusOf(u)
  <2>1. ctl[u].by \subseteq Trigger
    BY DEF TypeOK, Controller
  <2> QED BY <2>1, StatusSame DEF Quiet
<1> QED BY <1>1, MapsToStutter

\* So is one that leaves the controllers and the requests alone.
LEMMA MapsUnchanged ==
  ASSUME UNCHANGED <<ctl, current, req, power>>
  PROVE  UNCHANGED Requests!vars
<1>1. ASSUME NEW u \in Txn PROVE StatusOf(u)' = StatusOf(u)
  BY StatusSame
<1> QED BY <1>1, MapsToStutter

\* A request is made.
LEMMA MapsAsk ==
  ASSUME TypeOK, PMTypeOK, IInv, SInv, NEW t \in Txn, NEW to \in PowerState,
         SetPowerState(t, to)
  PROVE  Requests!Next
<1>1. /\ req[t].pc = "idle" /\ UNCHANGED <<ctl, current, power>>
      /\ ctl[t].life = "unborn" /\ ctl[t].by = {}
  BY DEF SetPowerState, RequestStep, vars, SInv, Serial, IInv, Sound
<1>2. /\ \A u \in Txn : u # t => req'[u] = req[u]
      /\ req'[t].pc = "lock" /\ req'[t].to = to
  BY DEF SetPowerState, PMTypeOK, Request
<1>3. StatusOf(t) = "idle" /\ StatusOf(t)' = "asked"
  BY <1>1, <1>2 DEF StatusOf
<1>4. ASSUME NEW u \in Txn, u # t PROVE StatusOf(u)' = StatusOf(u)
  BY <1>1, <1>2, <1>4, StatusSame
<1>5. Requests!Become(t, "idle", "asked")
  BY <1>3, <1>4, MapsToBecome
<1>6. [u \in Txn |-> req[u].to]' = [[u \in Txn |-> req[u].to] EXCEPT ![t] = to]
  BY <1>2
<1>7. Requests!Ask(t, to)
  BY <1>1, <1>5, <1>6 DEF Requests!Ask
<1> QED BY <1>7 DEF Requests!Next

\* The request goes on, or is ignored.
LEMMA MapsEarly ==
  ASSUME TypeOK, PMTypeOK, IInv, SInv, NEW t \in Txn,
         \/ LockSelf(t) \/ SameState(t) \/ DeepSleepInProgress(t)
         \/ ReadState(t) \/ Redundant(t)
  PROVE  Requests!Next \/ UNCHANGED Requests!vars
<1>1. /\ req[t].pc \in {"lock", "read", "enter"}
      /\ UNCHANGED <<ctl, current, power>>
  BY DEF LockSelf, SameState, DeepSleepInProgress, ReadState, Redundant,
         RequestStep, vars
<1>2. ctl[t].life = "unborn" /\ ctl[t].by = {}
  BY <1>1 DEF SInv, Serial, IInv, Sound
<1>3. /\ \A u \in Txn : u # t => req'[u] = req[u]
      /\ req'[t].to = req[t].to
      /\ req'[t].pc \in {"read", "enter", "returned"}
  <2>1. CASE ReadState(t)
    BY <2>1 DEF ReadState, PMTypeOK, Request
  <2>2. CASE \/ LockSelf(t) \/ SameState(t) \/ DeepSleepInProgress(t)
             \/ Redundant(t)
    BY <2>2, GotoFacts
    DEF LockSelf, SameState, DeepSleepInProgress, Redundant, ReturnAndUnlock
  <2> QED BY <2>1, <2>2
<1>4. StatusOf(t) = "asked" /\ StatusOf(t)' \in {"asked", "ignored"}
  BY <1>1, <1>2, <1>3 DEF StatusOf
<1>5. ASSUME NEW u \in Txn, u # t PROVE StatusOf(u)' = StatusOf(u)
  BY <1>1, <1>3, <1>5, StatusSame
<1>6. \A u \in Txn : req'[u].to = req[u].to
  BY <1>3
<1> QED BY <1>1, <1>4, <1>5, <1>6, MapsToStep

\* The one before it is dropped: committed if the timer job has it.
LEMMA MapsCancelOld ==
  ASSUME TypeOK, PMTypeOK, IInv, RInv, SInv, NEW t \in Txn, CancelOld(t)
  PROVE  Requests!Next \/ UNCHANGED Requests!vars
<1>1. /\ Drops /\ req[t].pc = "enter" /\ power' = power /\ Goto(t, "locked")
      /\ ctl[t].life = "unborn" /\ ctl[t].by = {}
  BY DropsCancelled
  DEF CancelOld, RequestStep, SInv, Serial, IInv, Sound
<1>2. /\ \A u \in Txn : u # t => req'[u] = req[u]
      /\ req'[t].to = req[t].to /\ req'[t].pc = "locked"
  BY <1>1, GotoFacts
<1>3. PICK c \in Txn : c = current
  BY <1>1 DEF Drops
<1>4. /\ c # t /\ ctl[c].life = "alive" /\ ctl'[c].by = ctl[c].by
      /\ ctl[c].by \subseteq Trigger /\ NoTxn # c
      /\ ctl'[c].life \in {"alive", "freed"}
  BY <1>1, <1>3, NoTxnAssumption DEF Drops, TypeOK, Controller
<1>5. ASSUME NEW u \in Txn, u # c PROVE StatusOf(u)' = StatusOf(u)
  <2>1. CASE u = t
    <3>1. ctl'[t] = ctl[t]
      BY <1>1, <1>3, <1>4 DEF Drops
    <3> QED BY <1>1, <1>2, <2>1, <3>1 DEF StatusOf
  <2>2. CASE u # t
    BY <1>1, <1>2, <1>3, <1>5, <2>2, NoTxnAssumption, StatusSame DEF Drops
  <2> QED BY <2>1, <2>2
<1>6. \/ StatusOf(c)' = StatusOf(c)
      \/ StatusOf(c) = "waiting" /\ StatusOf(c)' = "committed"
  <2>1. CASE ctl[c].by # {}
    BY <1>2, <1>4, <2>1, StatusSame
  <2>2. CASE ctl[c].by = {}
    <3>1. current' # c
      BY <1>1, <1>4 DEF Drops
    <3> QED BY <1>3, <1>4, <2>2, <3>1 DEF StatusOf
  <2> QED BY <2>1, <2>2
<1>7. \A u \in Txn : req'[u].to = req[u].to
  BY <1>2
<1> QED BY <1>1, <1>5, <1>6, <1>7, MapsToStep

\* A request is accepted: nobody else waits.
LEMMA MapsCreate ==
  ASSUME TypeOK, PMTypeOK, IInv, RInv, SInv, NEW t \in Txn, NewModeChange(t)
  PROVE  Requests!Next
<1>1. /\ Creates(t) /\ req[t].pc \in {"enter", "locked"} /\ power' = power
      /\ Goto(t, "schedule")
  BY CreatesNew DEF NewModeChange, RequestStep, PMTypeOK
<1>2. /\ \A u \in Txn : u # t => req'[u] = req[u]
      /\ req'[t].to = req[t].to
  BY <1>1, GotoFacts
<1>3. ASSUME NEW u \in Txn PROVE StatusOf(u) # "waiting"
  <2>1. Sound(u) /\ Resolvable(u) /\ call.pc = "idle" /\ u # current
    BY <1>1, NoTxnAssumption DEF IInv, RInv, Creates
  <2>2. ~(ctl[u].by = {} /\ ctl[u].life = "freed")
    BY <2>1 DEF Sound, Resolvable, AboutToRun
  <2> QED BY <2>1, <2>2 DEF StatusOf
<1>4. StatusOf(t) = "asked" /\ StatusOf(t)' = "waiting"
  BY <1>1 DEF StatusOf, Creates
<1>5. ASSUME NEW u \in Txn, u # t PROVE StatusOf(u)' = StatusOf(u)
  BY <1>1, <1>2, <1>5, NoTxnAssumption, StatusSame DEF Creates
<1>6. Requests!Become(t, "asked", "waiting")
  BY <1>4, <1>5, MapsToBecome
<1>7. [u \in Txn |-> req[u].to]' = [u \in Txn |-> req[u].to]
  BY <1>2
<1>8. Requests!Accept(t)
  BY <1>1, <1>3, <1>6, <1>7 DEF Requests!Accept
<1> QED BY <1>8 DEF Requests!Next

\* Schedule and the return of SetPowerState.
LEMMA MapsSchedule ==
  ASSUME TypeOK, PMTypeOK, IInv, SInv, NEW t \in Txn,
         \/ CompleteAtOnce(t) \/ AwaitClients(t) \/ ScheduleRuns(t)
         \/ SetPowerStateReturns(t)
  PROVE  Requests!Next \/ UNCHANGED Requests!vars
<1>1. CASE CompleteAtOnce(t)
  <2>1. Begins(t, "schedule") /\ t = current /\ ctl[t].by = {}
        /\ ctl[t].life = "alive" /\ UNCHANGED <<req, power>>
    BY <1>1, OffsetFacts, BeginsAtOnce DEF CompleteAtOnce, RequestStep
  <2>2. StatusOf(t) = "waiting" /\ StatusOf(t)' = "committed"
    BY <2>1 DEF StatusOf, Begins
  <2>3. ASSUME NEW u \in Txn, u # t PROVE StatusOf(u)' = StatusOf(u)
    BY <2>1, <2>3, StatusSame DEF Begins
  <2> QED BY <2>1, <2>2, <2>3, MapsToStep
<1>2. CASE AwaitClients(t)
  BY <1>2, MapsUnchanged
  DEF AwaitClients, ScheduleWait, ScheduleStep, RequestStep
<1>3. CASE ScheduleRuns(t)
  BY <1>3, QuietSchedule, MapsQuiet DEF ScheduleRuns, pmvars
<1>4. CASE SetPowerStateReturns(t)
  <2>1. /\ req[t].pc = "schedule" /\ UNCHANGED <<ctl, current, power>>
        /\ Goto(t, "returned") /\ ctl[t].life # "unborn"
    BY <1>4 DEF SetPowerStateReturns, RequestStep, vars, SInv, Serial
  <2>2. /\ \A u \in Txn : u # t => req'[u] = req[u]
        /\ req'[t].to = req[t].to
    BY <2>1, GotoFacts
  <2>3. ASSUME NEW u \in Txn PROVE StatusOf(u)' = StatusOf(u)
    BY <2>1, <2>2, <2>3, StatusSame
  <2>4. \A u \in Txn : req'[u].to = req[u].to
    BY <2>2
  <2> QED BY <2>1, <2>3, <2>4, MapsToStutter
<1> QED BY <1>1, <1>2, <1>3, <1>4

\* The completion handler; only SaveState writes the settings.
LEMMA MapsHandler ==
  ASSUME TypeOK, PMTypeOK, IInv, SInv, NEW t \in Txn, HandlerNext(t)
  PROVE  Requests!Next \/ UNCHANGED Requests!vars
<1>1. CASE SetHal(t) \/ HalFails(t) \/ Publish(t)
  BY <1>1, MapsUnchanged DEF SetHal, HalFails, Publish, HandlerStep, vars
<1>2. CASE SaveState(t)
  <2>1. /\ step[t] # "none" /\ power' = req[t].to
        /\ UNCHANGED <<ctl, current, req>>
    BY <1>2 DEF SaveState, HandlerStep, vars
  <2>2. ctl[t].busy # {} /\ ctl[t].by \subseteq Trigger /\ Sound(t)
    BY <2>1 DEF SInv, Serial, IInv, TypeOK, Controller
  <2>3. /\ ctl[t].by \cap {"schedule", "ack", "timer"} # {}
        /\ "abort" \notin ctl[t].by /\ ctl[t].life # "unborn"
    BY <2>2 DEF Sound, Trigger
  <2>4. StatusOf(t) = "committed"
    BY <2>3 DEF StatusOf
  <2>5. ASSUME NEW u \in Txn PROVE StatusOf(u)' = StatusOf(u)
    BY <2>1, StatusSame
  <2>6. /\ [u \in Txn |-> StatusOf(u)]' = [u \in Txn |-> StatusOf(u)]
        /\ [u \in Txn |-> req[u].to]' = [u \in Txn |-> req[u].to]
    BY <2>1, <2>5
  <2>7. Requests!Apply(t)
    BY <2>1, <2>4, <2>6 DEF Requests!Apply
  <2> QED BY <2>7 DEF Requests!Next
<1>3. CASE HandlerReturns(t)
  <2>1. Ends(t) /\ UNCHANGED <<req, power>>
    BY <1>3, EndsHandler DEF HandlerReturns
  <2>2. ctl[t].by \subseteq Trigger
    BY DEF TypeOK, Controller
  <2>3. ASSUME NEW u \in Txn PROVE StatusOf(u)' = StatusOf(u)
    BY <2>1, <2>2, StatusSame DEF Ends
  <2> QED BY <2>1, <2>3, MapsToStutter
<1> QED BY <1>1, <1>2, <1>3 DEF HandlerNext

\* A handler that begins in Ack or in the timer job commits the request,
\* unless it is committed already.
LEMMA MapsBegins ==
  ASSUME IInv, NEW t \in Txn, NEW g \in {"ack", "timer"}, Begins(t, g),
         ctl[t].life = "alive", ctl[t].by \subseteq {"ack", "timer"},
         UNCHANGED <<req, power>>
  PROVE  Requests!Next \/ UNCHANGED Requests!vars
<1>1. StatusOf(t) \in {"waiting", "committed"}
  BY DEF StatusOf
<1>2. StatusOf(t)' = "committed"
  BY DEF StatusOf, Begins
<1>3. ASSUME NEW u \in Txn, u # t PROVE StatusOf(u)' = StatusOf(u)
  BY <1>3, StatusSame DEF Begins
<1> QED BY <1>1, <1>2, <1>3, MapsToStep

\* The handler that is told to abort.
LEMMA MapsAbort ==
  ASSUME TypeOK, IInv, RInv, AbortModeChange
  PROVE  Requests!Next \/ UNCHANGED Requests!vars
<1>1. PICK t \in Txn : t = call.txn /\ Aborts(t)
  BY AbortsRevoked DEF AbortModeChange
<1>2. UNCHANGED <<req, power>>
  BY DEF AbortModeChange, pmvars
<1>3. StatusOf(t) = "waiting" /\ StatusOf(t)' = "aborted"
  BY <1>1 DEF StatusOf, Aborts
<1>4. ASSUME NEW u \in Txn, u # t PROVE StatusOf(u)' = StatusOf(u)
  BY <1>1, <1>2, <1>4, StatusSame DEF Aborts
<1> QED BY <1>2, <1>3, <1>4, MapsToStep

\* Every step of the mode change is one of PowerRequests, or a stutter.
LEMMA MapsNext ==
  ASSUME TypeOK, IInv, RInv, PMInv, [PMNext]_allvars
  PROVE  Requests!Next \/ UNCHANGED Requests!vars
<1>0. CallSound /\ PMTypeOK /\ SInv
  BY DEF IInv, PMInv
<1>1. CASE Finished \/ TimePasses \/ UNCHANGED allvars
  BY <1>1, MapsUnchanged
  DEF Finished, TimePasses, Tick, allvars, vars, pmvars
<1>2. ASSUME NEW t \in Txn, SetPowerStateNext(t)
      PROVE  Requests!Next \/ UNCHANGED Requests!vars
  BY <1>0, <1>2, MapsEarly, MapsCancelOld, MapsCreate, MapsSchedule
  DEF SetPowerStateNext
<1>3. ASSUME NEW t \in Txn, PMTimerNext(t)
      PROVE  Requests!Next \/ UNCHANGED Requests!vars
  <2>1. CASE TimerRuns(t)
    BY <2>1, QuietTimer, MapsQuiet DEF TimerRuns, pmvars
  <2>2. CASE TimerCompletesChange(t)
    BY <2>2, BeginsTimer, MapsBegins DEF TimerCompletesChange
  <2> QED BY <1>3, <2>1, <2>2 DEF PMTimerNext
<1>4. ASSUME NEW t \in Txn, NEW c \in Client, ClientCall(c, t)
      PROVE  Requests!Next \/ UNCHANGED Requests!vars
  <2>1. Quiet
    BY <1>0, <1>4, QuietCall, QuietReschedule DEF ClientCall
  <2> QED BY <1>4, <2>1, MapsQuiet DEF ClientCall, pmvars
<1>5. ASSUME NEW c \in Client, AddClient(c) \/ RemoveClient(c)
      PROVE  Requests!Next \/ UNCHANGED Requests!vars
  <2>0. UNCHANGED <<req, power>>
    BY <1>5 DEF AddClient, RemoveClient
  <2>1. CASE UNCHANGED vars
    BY <2>0, <2>1, MapsUnchanged DEF vars
  <2>2. CASE /\ current \in Txn
             /\ Ack(c, current) \/ AckInvalid(c, current)
    <3>1. Quiet
      BY <1>0, <2>2, QuietCall
    <3> QED BY <2>0, <3>1, MapsQuiet
  <2> QED BY <1>5, <2>1, <2>2 DEF AddClient, RemoveClient, TypeOK
<1>6. CASE ApiRuns
  BY <1>0, <1>6, QuietApi, MapsQuiet DEF ApiRuns, pmvars
<1>7. CASE LastAckCompletesChange
  BY <1>7, BeginsAck, MapsBegins DEF LastAckCompletesChange
<1> QED
  BY <1>0, <1>1, <1>2, <1>3, <1>4, <1>5, <1>6, <1>7, MapsAsk, MapsHandler,
     MapsAbort
  DEF PMNext, ApiNext

\* ImplementsRequests: without the locks, threads, timers and controllers, the
\* plugin does what PowerRequests promises.  One request at a time waits for
\* its clients; it is aborted or committed, never both, however Ack, the timer
\* job and a newer request race; only a committed one touches the settings.
THEOREM ModeChangeImplementsRequests == PMSpec => ImplementsRequests
<1>1. PMInit => Requests!Init
  <2> SUFFICES ASSUME PMInit PROVE Requests!Init
    OBVIOUS
  <2>1. ASSUME NEW t \in Txn PROVE StatusOf(t) = "idle"
    BY <2>1 DEF PMInit, Init, StatusOf
  <2>2. [t \in Txn |-> req[t].to] \in [Txn -> PowerState]
    BY DEF PMInit
  <2> QED BY <2>1, <2>2 DEF Requests!Init, PMInit
<1>2. TypeOK /\ IInv /\ RInv /\ PMInv /\ [PMNext]_allvars
        => [Requests!Next]_(Requests!vars)
  BY MapsNext
<1> QED
  BY <1>1, <1>2, PMInvariance, PTL DEF PMSpec, ImplementsRequests, Requests!Spec
================================================================================
