-------------------------- MODULE PluginApi_proof --------------------------
(***************************************************************************)
(* What PluginApi keeps for any clients, observers and calls, under        *)
(* ApiAssumption: the types, that an observer that is called is in its     *)
(* list, that no client reads a temperature that is older than the one the *)
(* observers were told, and that threads wait for each other's locks in    *)
(* two ways only.                                                          *)
(*                                                                         *)
(* The locks are those of Threads_proof, under the discipline ApiLocks and *)
(* in the order ApiOrder.                                                  *)
(***************************************************************************)
EXTENDS PluginApi, Threads_proof

\* What depends on values: the bodies of Maybe.
Bodies ==
  {dispatchNetworkStandbyModeChangedEvent, SetNetworkStandbyMode,
   Query \o Maybe(SetNetworkStandbyMode),
   Query \o Maybe(Query \o Maybe(SetNetworkStandbyMode)),
   With("api", <<Do("begin", 0)>>) \o <<Do("submit", 0), Do("schedule", 0)>>,
   dispatchPowerModeChangedEvent, SetPowerState}

\* The instructions of a call and of a job.
CallCode ==
  {Do(op, l) : op \in {"lock", "unlock"},
               l \in {"api", "callback", "self", "therm", "grace", Again, Own}}
    \cup {Do(op, 0) : op \in {"query", "thermal", "ack", "begin", "submit",
                              "schedule"}}
    \cup {Do("notify", l) : l \in List}
    \cup {Do(op, o) : op \in {"job", "preChangeCall"}, o \in Observer}
    \cup {Do("maybe", b) : b \in Bodies}

\* Those on the observers of a list, and those of the thermal poll.
ListCode ==
  {Do(op, x) : op \in {"register", "unregister", "call"}, x \in List \X Observer}

PollCode ==
  {Do("sensor", 0)} \cup {Do(op, v) : op \in {"tell", "store"}, v \in Reading}

Code == CallCode \cup ListCode \cup PollCode

\* An observer is called within the dispatch, the reading told within the poll's
\* critical section, and the temperature read right after the mutex is taken.
ApiLocks ==
  [under  |-> {<<"register", "callback">>, <<"unregister", "callback">>,
               <<"notify", "callback">>, <<"sensor", "therm">>},
   inside |-> {<<"call", "callback">>, <<"tell", "therm">>, <<"store", "therm">>},
   first  |-> {<<"thermal", "therm">>}]

----------------------------------------------------------------------------
(* The code that is put in front keeps the discipline.                     *)

LEMMA PlainCode == Plain(CallCode, ApiLocks) /\ Plain(Code, ApiLocks)
BY DoFacts DEF Plain, Renamed, CallCode, ListCode, PollCode, Code, ApiLocks, Do,
   Again, Own

\* The argument of an operation has its type.
LEMMA CodeFacts ==
  ASSUME NEW x \in Code
  PROVE  /\ x.op \in {"register", "unregister", "call"} => x.arg \in List \X Observer
         /\ x.op = "notify" => x.arg \in List
         /\ x.op \in {"job", "preChangeCall"} => x.arg \in Observer
         /\ x.op \in {"tell", "store"} => x.arg \in Reading
         /\ x.op = "maybe" => x.arg \in Bodies
BY DoFacts DEF Code, CallCode, ListCode, PollCode

LEMMA CallCodeFacts ==
  \A x \in CallCode :
    x.op \notin {"register", "unregister", "call", "sensor", "tell", "store"}
BY DoFacts DEF CallCode

\* A single operation that relies on no lock.
Free == {"query", "ack", "begin", "submit", "schedule", "maybe", "job",
         "preChangeCall"}

LEMMA FreeReady ==
  ASSUME NEW op \in Free, NEW arg, Do(op, arg) \in CallCode
  PROVE  Ready(<<Do(op, arg)>>, CallCode, ApiLocks, {}, {})
<1>1. /\ op \notin {"lock", "unlock"}
      /\ \A g \in ApiLocks.under \cup ApiLocks.inside \cup ApiLocks.first : op # g[1]
  BY DEF Free, ApiLocks
<1> QED BY <1>1, ReadyOne

LEMMA LocksInCode ==
  ASSUME NEW l \in {"api", "callback", "self", "therm", "grace"}
  PROVE  {Do("lock", l), Do("unlock", l)} \subseteq CallCode
BY DEF CallCode

\* Ready code under a lock.
LEMMA WithReady ==
  ASSUME NEW l \in {"api", "callback", "self", "therm", "grace"},
         NEW b, b # <<>>, Ready(b, CallCode, ApiLocks, {}, {})
  PROVE  Ready(With(l, b), CallCode, ApiLocks, {}, {})
<1>1. b \in Seq(CallCode)
  BY DEF Ready
<1> QED BY <1>1, PlainCode, LocksInCode, ReadyWith

LEMMA QueryReady == Ready(Query, CallCode, ApiLocks, {}, {})
<1>1. Do("query", 0) \in CallCode
  BY DEF CallCode
<1>2. Ready(<<Do("query", 0)>>, CallCode, ApiLocks, {}, {})
  BY <1>1, FreeReady DEF Free
<1> QED BY <1>2, WithReady DEF Query

LEMMA MaybeReady ==
  ASSUME NEW b \in Bodies
  PROVE  Ready(Maybe(b), CallCode, ApiLocks, {}, {})
<1>1. Do("maybe", b) \in CallCode
  BY DEF CallCode
<1> QED BY <1>1, FreeReady DEF Free, Maybe

LEMMA DispatchReady ==
  ASSUME NEW l
  PROVE  Ready(Dispatch(l), CallCode, ApiLocks, {}, {})
<1>1. CASE l \notin List
  BY <1>1, ReadyEmpty DEF Dispatch
<1>2. CASE l \in List
  <2>1. PICK b : b = <<Do("notify", l)>>
    OBVIOUS
  <2>2. Do("notify", l) \in CallCode
    BY <1>2 DEF CallCode
  <2>3. b \in Seq(CallCode) /\ b # <<>> /\ DOMAIN b = {1} /\ b[1].op = "notify"
    BY <2>1, <2>2, DoFacts
  <2>4. /\ \A g \in ApiLocks.under : "notify" = g[1] => g[2] \in {} \cup {"callback"}
        /\ \A g \in ApiLocks.inside : "notify" = g[1] => g[2] \in {}
        /\ \A g \in ApiLocks.first : "notify" = g[1] => g[2] = "callback"
    BY DEF ApiLocks
  <2>5. \A i \in DOMAIN b :
          /\ b[i].op \notin {"lock", "unlock"}
          /\ \A g \in ApiLocks.under : b[i].op = g[1] => g[2] \in {} \cup {"callback"}
          /\ \A g \in ApiLocks.inside : b[i].op = g[1] => g[2] \in {}
          /\ \A g \in ApiLocks.first : b[i].op = g[1] => i = 1 /\ g[2] = "callback"
    BY <2>3, <2>4
  <2>6. Ready(With("callback", b), CallCode, ApiLocks, {}, {})
    BY <2>3, <2>5, PlainCode, LocksInCode, ReadyWith
  <2> QED BY <1>2, <2>1, <2>6 DEF Dispatch
<1> QED BY <1>1, <1>2

LEMMA ThermalReady == Ready(GetThermalState, CallCode, ApiLocks, {}, {})
<1>1. PICK b : b = <<Do("thermal", 0)>>
  OBVIOUS
<1>2. Do("thermal", 0) \in CallCode
  BY DEF CallCode
<1>3. b \in Seq(CallCode) /\ b # <<>> /\ DOMAIN b = {1} /\ b[1].op = "thermal"
  BY <1>1, <1>2, DoFacts
<1>4. /\ \A g \in ApiLocks.under \cup ApiLocks.inside : "thermal" # g[1]
      /\ \A g \in ApiLocks.first : g[2] = "therm"
  BY DEF ApiLocks
<1>5. \A i \in DOMAIN b :
        /\ b[i].op \notin {"lock", "unlock"}
        /\ \A g \in ApiLocks.under : b[i].op = g[1] => g[2] \in {} \cup {"therm"}
        /\ \A g \in ApiLocks.inside : b[i].op = g[1] => g[2] \in {}
        /\ \A g \in ApiLocks.first : b[i].op = g[1] => i = 1 /\ g[2] = "therm"
  BY <1>3, <1>4
<1>6. Ready(With("therm", b), CallCode, ApiLocks, {}, {})
  BY <1>3, <1>5, PlainCode, LocksInCode, ReadyWith
<1>7. With("therm", b) # <<>>
  BY <1>3, LocksInCode, LockedNotEmpty
<1>8. Ready(With("api", With("therm", b)), CallCode, ApiLocks, {}, {})
  BY <1>6, <1>7, WithReady
<1> QED BY <1>1, <1>8 DEF GetThermalState

LEMMA JoinReady ==
  ASSUME NEW b, Ready(b, CallCode, ApiLocks, {}, {}),
         NEW c, Ready(c, CallCode, ApiLocks, {}, {})
  PROVE  Ready(b \o c, CallCode, ApiLocks, {}, {})
BY ReadyJoin

LEMMA StandbyReady == Ready(SetNetworkStandbyMode, CallCode, ApiLocks, {}, {})
<1>1. dispatchNetworkStandbyModeChangedEvent \in Bodies
  BY DEF Bodies
<1>2. Ready(Maybe(dispatchNetworkStandbyModeChangedEvent), CallCode, ApiLocks, {}, {})
  BY <1>1, MaybeReady
<1> QED BY <1>2, QueryReady, JoinReady DEF SetNetworkStandbyMode

LEMMA QueryMaybeReady ==
  ASSUME NEW b \in Bodies
  PROVE  Ready(Query \o Maybe(b), CallCode, ApiLocks, {}, {})
BY QueryReady, MaybeReady, JoinReady

LEMMA ChangeReady ==
  Ready(With("api", <<Do("begin", 0)>>) \o <<Do("submit", 0), Do("schedule", 0)>>,
        CallCode, ApiLocks, {}, {})
<1>1. PICK b, c : b = <<Do("begin", 0)>> /\ c = <<Do("submit", 0), Do("schedule", 0)>>
  OBVIOUS
<1>2. {Do("begin", 0), Do("submit", 0), Do("schedule", 0)} \subseteq CallCode
  BY DEF CallCode
<1>3. Ready(b, CallCode, ApiLocks, {}, {}) /\ b # <<>>
  BY <1>1, <1>2, FreeReady DEF Free
<1>4. Ready(With("api", b), CallCode, ApiLocks, {}, {})
  BY <1>3, WithReady
<1>5. /\ c \in Seq(CallCode) /\ DOMAIN c = {1, 2}
      /\ c[1].op = "submit" /\ c[2].op = "schedule"
  BY <1>1, <1>2, DoFacts
<1>6. Ready(c, CallCode, ApiLocks, {}, {})
  <2>1. \A op \in {"submit", "schedule"} :
          /\ op \notin {"lock", "unlock"}
          /\ \A g \in ApiLocks.under \cup ApiLocks.inside \cup ApiLocks.first : op # g[1]
    BY DEF ApiLocks
  <2> QED BY <1>5, <2>1, ReadyPlain
<1> QED BY <1>1, <1>4, <1>6, JoinReady

LEMMA PowerReady == Ready(SetPowerState, CallCode, ApiLocks, {}, {})
<1>1. PICK b : b = With("api", <<Do("begin", 0)>>) \o <<Do("submit", 0), Do("schedule", 0)>>
  OBVIOUS
<1>2. b \in Bodies
  BY <1>1 DEF Bodies
<1>3. Ready(Query \o Maybe(b), CallCode, ApiLocks, {}, {})
  BY <1>2, QueryMaybeReady
<1>4. Query \o Maybe(b) # <<>>
  <2>1. Do("query", 0) \in CallCode /\ Do("maybe", b) \in CallCode
    BY <1>2 DEF CallCode
  <2>2. <<Do("query", 0)>> \in Seq(CallCode) /\ Maybe(b) \in Seq(CallCode)
    BY <2>1 DEF Maybe
  <2> QED BY <2>2, LocksInCode, LockedNotEmpty DEF Query
<1>5. Ready(With("self", Query \o Maybe(b)), CallCode, ApiLocks, {}, {})
  BY <1>3, <1>4, WithReady
<1> QED BY <1>1, <1>5 DEF SetPowerState

\* Whatever a thread may go on with is ready to be put in front.
LEMMA BodiesReady ==
  ASSUME NEW b \in Bodies
  PROVE  Ready(b, CallCode, ApiLocks, {}, {})
<1>1. /\ Ready(dispatchNetworkStandbyModeChangedEvent, CallCode, ApiLocks, {}, {})
      /\ Ready(dispatchPowerModeChangedEvent, CallCode, ApiLocks, {}, {})
  BY DispatchReady DEF dispatchNetworkStandbyModeChangedEvent,
     dispatchPowerModeChangedEvent
<1>2. /\ SetNetworkStandbyMode \in Bodies
      /\ Query \o Maybe(SetNetworkStandbyMode) \in Bodies
  BY DEF Bodies
<1>3. /\ Ready(Query \o Maybe(SetNetworkStandbyMode), CallCode, ApiLocks, {}, {})
      /\ Ready(Query \o Maybe(Query \o Maybe(SetNetworkStandbyMode)), CallCode,
               ApiLocks, {}, {})
  BY <1>2, QueryMaybeReady
<1> QED BY <1>1, <1>3, StandbyReady, ChangeReady, PowerReady DEF Bodies

LEMMA AckReady == Ready(Ack, CallCode, ApiLocks, {}, {})
<1>1. Do("ack", 0) \in CallCode
  BY DEF CallCode
<1>2. Ready(<<Do("ack", 0)>>, CallCode, ApiLocks, {}, {})
  BY <1>1, FreeReady DEF Free
<1> QED BY <1>2, WithReady DEF Ack

LEMMA GraceReady == Ready(SetOvertempGraceInterval, CallCode, ApiLocks, {}, {})
<1>1. Do("query", 0) \in CallCode
  BY DEF CallCode
<1>2. PICK b : b = <<Do("query", 0)>>
  OBVIOUS
<1>3. Ready(b, CallCode, ApiLocks, {}, {}) /\ b # <<>> /\ b \in Seq(CallCode)
  BY <1>1, <1>2, FreeReady DEF Free
<1>4. Ready(With("grace", b), CallCode, ApiLocks, {}, {}) /\ With("grace", b) # <<>>
  BY <1>3, WithReady, LocksInCode, LockedNotEmpty
<1> QED BY <1>2, <1>4, WithReady DEF SetOvertempGraceInterval

LEMMA RequestReady ==
  ASSUME NEW call \in Calls \cup CallbackCalls \cup JobCalls
  PROVE  Ready(Request(call), CallCode, ApiLocks, {}, {})
<1>1. /\ call \in Queries \cup Acks
           \cup {"SetPowerState", "SetOvertempGraceInterval", "GetThermalState",
                 "Reboot", "SetNetworkStandbyMode", "SetWakeupSourceConfig"}
  BY ApiAssumption DEF AllCalls
<1>2. Request(call) \in {Query, Ack, GetThermalState, SetOvertempGraceInterval, Reboot,
                         SetNetworkStandbyMode, setWakeupSourceConfig, SetPowerState}
  <2>1. CASE call \in Queries
    BY <2>1 DEF Request, Queries, Acks
  <2>2. CASE call \in Acks
    BY <2>2 DEF Request, Queries, Acks
  <2>3. CASE call \notin Queries \cup Acks
    BY <1>1, <2>3 DEF Request
  <2> QED BY <2>1, <2>2, <2>3
<1>3. Ready(Reboot, CallCode, ApiLocks, {}, {})
  BY DispatchReady, QueryReady, JoinReady DEF Reboot, dispatchRebootBeginEvent
<1>4. Ready(setWakeupSourceConfig, CallCode, ApiLocks, {}, {})
  BY QueryMaybeReady DEF setWakeupSourceConfig, Bodies
<1> QED BY <1>2, <1>3, <1>4, QueryReady, AckReady, ThermalReady, GraceReady,
           StandbyReady, PowerReady

LEMMA ChangedReady == Ready(setDevicePowerState, CallCode, ApiLocks, {}, {})
BY MaybeReady DEF setDevicePowerState, Bodies

----------------------------------------------------------------------------
(* The steps.                                                              *)

\* Who updates a list does nothing else.
Lone(s) ==
  \/ \A x : Includes(s, x) => x.op \notin {"register", "unregister"}
  \/ \A x : Includes(s, x) /\ IsOperation(x) => x.op \in {"register", "unregister"}

\* Of the poll's operations on the reading there is one at a time, or one to
\* tell a reading and one to store it.
Ordered(s) ==
  \A i, j \in DOMAIN s :
    /\ i < j
    /\ s[i].op \in {"sensor", "tell", "store"}
    /\ s[j].op \in {"sensor", "tell", "store"}
    => s[i].op = "tell" /\ s[j] = Do("store", s[i].arg)

\* A reading that was told is stored, one that is to be stored was told.
Pending(s) ==
  /\ reading # told => Includes(s, Do("store", told))
  /\ \A v : Includes(s, Do("tell", v)) => Includes(s, Do("store", v))
  /\ \A v : Includes(s, Do("store", v)) => v = told \/ Includes(s, Do("tell", v))

FiniteLists == \A l \in List : IsFiniteSet(observers[l])

Called(s) ==
  \A x : Includes(s, x) /\ x.op = "call" => x.arg[2] \in observers[x.arg[1]]

\* Code that neither updates a list nor tells a reading, and calls only who is in
\* a list.
Common(b) ==
  /\ \A i \in DOMAIN b :
       b[i].op \notin {"register", "unregister", "sensor", "tell", "store"}
  /\ Called(b)

ApiInv ==
  /\ TypeOK
  /\ Disciplined(Code, ApiLocks)
  /\ FiniteLists
  /\ \A t \in Thread : Lone(todo[t])
  /\ \A t \in Thread : Called(todo[t])
  /\ Ordered(todo[Poll])
  /\ Pending(todo[Poll])

\* Code is ready for the larger set of instructions too.
LEMMA ReadyCode ==
  ASSUME NEW H, NEW C, NEW b, Ready(b, CallCode, ApiLocks, H, C)
  PROVE  Ready(b, Code, ApiLocks, H, C) /\ Common(b)
<1>1. CallCode \subseteq Code
  BY DEF Code
<1>2. b \in Seq(CallCode)
  BY DEF Ready
<1>3. Common(b)
  BY <1>2, CallCodeFacts DEF Common, Called, Includes
<1> QED BY <1>1, <1>3 DEF Ready

\* The poll's operations on the reading stay in order.
LEMMA OrderKept ==
  ASSUME ApiInv, NEW t \in Thread, t = Poll, NEW op, At(t, op),
         op \notin {"lock", "unlock"}, NEW b \in Seq(Code), Continue(t, b),
         \A i \in DOMAIN b : b[i].op \notin {"sensor", "tell", "store"}
  PROVE  Ordered(todo'[t])
<1>a. Disciplined(Code, ApiLocks)
  BY DEF ApiInv
<1>b. todo' \in [Thread -> Seq(Code)]
  <2>1. Rest(t) \in Seq(Code) /\ Renamed \subseteq Code
    BY <1>a, PlainCode, AtFacts DEF Sound, Plain
  <2>2. PICK n : n = Nested(b, Rest(t))
    OBVIOUS
  <2>3. n \in Seq(Code)
    BY <2>1, <2>2, NestedFacts
  <2>4. AfterUnlocks(n) \in Seq(Code)
    BY <2>3, AfterUnlocksFacts, SuffixFacts
  <2> QED BY <1>a, <2>2, <2>4 DEF Continue, Disciplined
<1>1. Shifted(todo'[t], b, todo[t], Place(t))
  BY <1>a, PlainCode, ContinueOrder
<1>2. PICK d, e \in Int : \A i \in DOMAIN todo'[t] :
        IsOperation(todo'[t][i])
          => \/ i + d \in DOMAIN b /\ todo'[t][i] = b[i + d]
             \/ /\ i + d > Len(b) /\ i + e > Place(t) /\ i + e \in DOMAIN todo[t]
                /\ todo'[t][i] = todo[t][i + e]
  BY <1>1 DEF Shifted
<1>3. ASSUME NEW i \in DOMAIN todo'[t],
             todo'[t][i].op \in {"sensor", "tell", "store"}
      PROVE  i + e \in DOMAIN todo[t] /\ todo'[t][i] = todo[t][i + e]
  <2>1. IsOperation(todo'[t][i])
    BY <1>3 DEF IsOperation
  <2>2. ~(i + d \in DOMAIN b /\ todo'[t][i] = b[i + d])
    BY <1>3
  <2> QED BY <1>2, <2>1, <2>2
<1>4. todo'[t] \in Seq(Code)
  BY <1>b DEF Disciplined
<1>5. ASSUME NEW i \in DOMAIN todo'[t], NEW j \in DOMAIN todo'[t], i < j,
             todo'[t][i].op \in {"sensor", "tell", "store"},
             todo'[t][j].op \in {"sensor", "tell", "store"}
      PROVE  todo'[t][i].op = "tell" /\ todo'[t][j] = Do("store", todo'[t][i].arg)
  <2>1. /\ i + e \in DOMAIN todo[t] /\ todo'[t][i] = todo[t][i + e]
        /\ j + e \in DOMAIN todo[t] /\ todo'[t][j] = todo[t][j + e]
    BY <1>3, <1>5
  <2>2. i + e < j + e
    BY <1>4, <1>5
  <2>3. Ordered(todo[t])
    BY DEF ApiInv
  <2> QED BY <1>5, <2>1, <2>2, <2>3 DEF Ordered
<1> QED BY <1>5 DEF Ordered

\* Steps that are not about the reading leave what the poll has to do with it.
LEMMA PollKept ==
  ASSUME ApiInv, NEW t \in Thread, NEW op, At(t, op),
         op \notin {"lock", "unlock", "sensor", "tell", "store"},
         NEW b \in Seq(Code), Continue(t, b), UNCHANGED <<reading, told>>,
         \A i \in DOMAIN b : b[i].op \notin {"sensor", "tell", "store"}
  PROVE  Ordered(todo'[Poll]) /\ Pending(todo[Poll])'
<1>1. Disciplined(Code, ApiLocks)
  BY DEF ApiInv
<1>2. Became(t, b, Rest(t))
  BY <1>1, PlainCode, ContinueChanges
<1>5. /\ \A u \in Thread \ {t} : todo'[u] = todo[u]
      /\ \A x : IsOperation(x)
           => (Includes(todo'[t], x) <=> Includes(b, x) \/ Includes(Rest(t), x))
  BY <1>2 DEF Became
<1>7. ASSUME NEW x, Includes(Rest(t), x)
      PROVE  Includes(todo[t], x)
  BY <1>1, <1>7, PlainCode, RestContained DEF Includes
<1>8. ASSUME t = Poll
       PROVE  Ordered(todo'[t]) /\ Pending(todo[t])'
  <2>1. Ordered(todo'[t])
    BY <1>1, <1>8, OrderKept
  <2>2. ASSUME NEW o \in {"tell", "store"}, NEW v
        PROVE  Includes(todo'[t], Do(o, v)) <=> Includes(todo[t], Do(o, v))
    <3>1. Do(o, v).op = o /\ IsOperation(Do(o, v))
      BY DoFacts DEF IsOperation
    <3>2. ~Includes(b, Do(o, v))
      BY <3>1 DEF Includes
    <3>3. Includes(todo[t], Do(o, v)) => Includes(Rest(t), Do(o, v))
      BY <1>1, <3>1, PlainCode, LeftInRest
    <3> QED BY <1>5, <1>7, <3>1, <3>2, <3>3
  <2>3. Pending(todo[t])
    BY <1>8 DEF ApiInv
  <2>4. Pending(todo[t])'
    BY <2>2, <2>3 DEF Pending
  <2> QED BY <2>1, <2>4
<1> QED
  <2>1. CASE t = Poll
    BY <1>8, <2>1
  <2>2. CASE t # Poll
    <3>1. todo'[Poll] = todo[Poll]
      BY <1>5, <2>2, ApiAssumption
    <3> QED BY <3>1 DEF ApiInv, Pending
  <2> QED BY <2>1, <2>2

\* A step that goes on with common code.
LEMMA GoesOn ==
  ASSUME ApiInv, NEW t \in Thread, NEW op, At(t, op),
         op \notin {"lock", "unlock", "register", "unregister", "sensor",
                   "tell", "store"},
         NEW H, NEW b, Ready(b, Code, ApiLocks, H, H), Common(b),
         \A l \in H : <<op, l>> \in ApiLocks.under \cup ApiLocks.inside,
         Continue(t, b), TypeOK', UNCHANGED <<observers, reading, told>>
  PROVE  ApiInv'
<1>1. Disciplined(Code, ApiLocks)
  BY DEF ApiInv
<1>2. Disciplined(Code, ApiLocks)'
  BY <1>1, PlainCode, ContinueKeeps
<1>3. b \in Seq(Code)
  BY DEF Ready
<1>4. Became(t, b, Rest(t))
  BY <1>1, <1>3, PlainCode, ContinueChanges
<1>5. /\ \A u \in Thread \ {t} : todo'[u] = todo[u]
      /\ \A x : IsOperation(x)
           => (Includes(todo'[t], x) <=> Includes(b, x) \/ Includes(Rest(t), x))
  BY <1>4 DEF Became
<1>6. /\ Place(t) \in DOMAIN todo[t] /\ todo[t][Place(t)].op = op
  BY <1>1, PlainCode, AtFacts
<1>7. ASSUME NEW x, Includes(Rest(t), x)
      PROVE  Includes(todo[t], x)
  BY <1>1, <1>7, PlainCode, RestContained DEF Includes
<1>8. \A x : Includes(todo[t], x) => x.op \notin {"register", "unregister"}
  <2>1. PICK y : y = todo[t][Place(t)]
    OBVIOUS
  <2>2. Includes(todo[t], y) /\ IsOperation(y) /\ y.op \notin {"register", "unregister"}
    BY <1>6, <2>1 DEF Includes, IsOperation
  <2> QED BY <2>2 DEF ApiInv, Lone
<1>9. Lone(todo'[t])
  <2>1. ASSUME NEW x, Includes(todo'[t], x)
        PROVE  x.op \notin {"register", "unregister"}
    <3>1. CASE IsOperation(x)
      <4>1. CASE Includes(b, x)
        BY <4>1 DEF Common, Includes
      <4>2. CASE Includes(Rest(t), x)
        BY <1>7, <1>8, <4>2
      <4> QED BY <1>5, <2>1, <3>1, <4>1, <4>2
    <3>2. CASE ~IsOperation(x)
      BY <3>2 DEF IsOperation
    <3> QED BY <3>1, <3>2
  <2> QED BY <2>1 DEF Lone
<1>10. ASSUME NEW x, Includes(todo'[t], x), x.op = "call"
       PROVE  x.arg[2] \in observers[x.arg[1]]
  <2>1. IsOperation(x)
    BY <1>10 DEF IsOperation
  <2>2. Includes(b, x) \/ Includes(todo[t], x)
    BY <1>5, <1>7, <1>10, <2>1
  <2>3. Called(todo[t]) /\ Called(b)
    BY DEF ApiInv, Common
  <2> QED BY <1>10, <2>2, <2>3 DEF Called
<1>12. \A u \in Thread : Lone(todo'[u])
  BY <1>5, <1>9 DEF ApiInv
<1>13. \A u \in Thread : Called(todo[u])'
  <2> SUFFICES ASSUME NEW u \in Thread, NEW x, Includes(todo'[u], x), x.op = "call"
               PROVE  x.arg[2] \in observers[x.arg[1]]
    BY DEF Called
  <2>1. CASE u = t
    BY <1>10, <2>1
  <2>2. CASE u # t
    <3>1. Called(todo[u]) /\ todo'[u] = todo[u]
      BY <1>5, <2>2 DEF ApiInv
    <3> QED BY <3>1 DEF Called
  <2> QED BY <2>1, <2>2
<1>14. Ordered(todo'[Poll]) /\ Pending(todo[Poll])'
  BY <1>3, PollKept DEF Common
<1>15. FiniteLists'
  BY DEF ApiInv, FiniteLists
<1> QED BY <1>2, <1>12, <1>13, <1>14, <1>15 DEF ApiInv

\* An idle thread that starts with common code.
LEMMA Starts ==
  ASSUME ApiInv, NEW t \in Thread, NEW b, Ready(b, Code, ApiLocks, {}, {}),
         Lone(b), Called(b), t = Poll => Ordered(b) /\ \A i \in DOMAIN b :
                                          b[i].op \notin {"tell", "store"},
         Start(t, b), TypeOK', UNCHANGED <<observers, reading, told>>
  PROVE  ApiInv'
<1>1. Disciplined(Code, ApiLocks)
  BY DEF ApiInv
<1>2. Disciplined(Code, ApiLocks)'
  BY <1>1, StartKeeps
<1>3. todo'[t] = b /\ \A u \in Thread \ {t} : todo'[u] = todo[u]
  BY <1>1 DEF Start, Disciplined
<1>4. todo[t] = <<>>
  BY DEF Start, Idle
<1>5. \A u \in Thread : Lone(todo'[u])
  BY <1>3 DEF ApiInv
<1>6. \A u \in Thread : Called(todo[u])'
  <2> SUFFICES ASSUME NEW u \in Thread, NEW x, Includes(todo'[u], x), x.op = "call"
               PROVE  x.arg[2] \in observers[x.arg[1]]
    BY DEF Called
  <2>1. CASE u = t
    BY <1>3, <2>1 DEF Called
  <2>2. CASE u # t
    <3>1. Called(todo[u]) /\ todo'[u] = todo[u]
      BY <1>3, <2>2 DEF ApiInv
    <3> QED BY <3>1 DEF Called
  <2> QED BY <2>1, <2>2
<1>7. Ordered(todo'[Poll]) /\ Pending(todo[Poll])'
  <2>1. CASE t = Poll
    <3>1. \A x : ~Includes(<<>>, x)
      BY DEF Includes
    <3>2. reading = told
      BY <1>4, <2>1, <3>1 DEF ApiInv, Pending
    <3>3. \A v : ~Includes(b, Do("tell", v)) /\ ~Includes(b, Do("store", v))
      BY <2>1, DoFacts DEF Includes
    <3> QED BY <1>3, <2>1, <3>2, <3>3 DEF Pending
  <2>2. CASE t # Poll
    <3>1. todo'[Poll] = todo[Poll]
      BY <1>3, <2>2, ApiAssumption
    <3> QED BY <3>1 DEF ApiInv, Pending
  <2> QED BY <2>1, <2>2
<1>8. FiniteLists'
  BY DEF ApiInv, FiniteLists
<1> QED BY <1>2, <1>5, <1>6, <1>7, <1>8 DEF ApiInv

\* Common code is what a thread may start with.
LEMMA CommonStarts ==
  ASSUME ApiInv, NEW t \in Thread, NEW b, Ready(b, CallCode, ApiLocks, {}, {}),
         Start(t, b), TypeOK', UNCHANGED <<observers, reading, told>>
  PROVE  ApiInv'
<1>1. Ready(b, Code, ApiLocks, {}, {}) /\ Common(b)
  BY ReadyCode
<1>2. \A i \in DOMAIN b :
        b[i].op \notin {"register", "unregister", "sensor", "tell", "store"}
  BY <1>1 DEF Common
<1>3. Lone(b) /\ Called(b) /\ Ordered(b)
  BY <1>1, <1>2 DEF Lone, Common, Ordered, Includes
<1> QED BY <1>1, <1>2, <1>3, Starts

\* A lock taken under which another one is taken next.
LEMMA TakesLock ==
  ASSUME ApiInv, NEW t \in Thread, TakeOuterLock(t)
  PROVE  ApiInv'
<1>1. Disciplined(Code, ApiLocks) /\ Acquire(t) /\ UNCHANGED api
  BY DEF ApiInv, TakeOuterLock
<1>2. Disciplined(Code, ApiLocks)'
  BY <1>1, PlainCode, AcquireKeeps
<1>3. Became(t, <<>>, todo[t])
  BY <1>1, AcquireChanges
<1>4. /\ \A u \in Thread \ {t} : todo'[u] = todo[u]
      /\ \A x : IsOperation(x) => (Includes(todo'[t], x) <=> Includes(todo[t], x))
  BY <1>3 DEF Became, Includes
<1>5. \A u \in Thread : Lone(todo'[u])
  BY <1>4 DEF ApiInv, Lone, IsOperation
<1>6. \A u \in Thread : Called(todo[u])'
  BY <1>1, <1>4 DEF ApiInv, Called, IsOperation, api
<1>7. Ordered(todo'[Poll]) /\ Pending(todo[Poll])'
  <2>1. CASE t = Poll
    <3>1. Shifted(todo'[t], <<>>, todo[t], 1)
      BY <1>1, AcquireOrder
    <3>2. PICK d, e \in Int : \A i \in DOMAIN todo'[t] :
            IsOperation(todo'[t][i])
              => \/ i + d \in DOMAIN <<>> /\ todo'[t][i] = <<>>[i + d]
                 \/ /\ i + d > Len(<<>>) /\ i + e > 1 /\ i + e \in DOMAIN todo[t]
                    /\ todo'[t][i] = todo[t][i + e]
      BY <3>1 DEF Shifted
    <3>3. ASSUME NEW i \in DOMAIN todo'[t],
                 todo'[t][i].op \in {"sensor", "tell", "store"}
          PROVE  i + e \in DOMAIN todo[t] /\ todo'[t][i] = todo[t][i + e]
      <4>1. IsOperation(todo'[t][i])
        BY <3>3 DEF IsOperation
      <4> QED BY <3>2, <4>1
    <3>4. todo'[t] \in Seq(Code)
      BY <1>2 DEF Disciplined
    <3>5. ASSUME NEW i \in DOMAIN todo'[t], NEW j \in DOMAIN todo'[t], i < j,
                 todo'[t][i].op \in {"sensor", "tell", "store"},
                 todo'[t][j].op \in {"sensor", "tell", "store"}
          PROVE  todo'[t][i].op = "tell" /\ todo'[t][j] = Do("store", todo'[t][i].arg)
      <4>1. /\ i + e \in DOMAIN todo[t] /\ todo'[t][i] = todo[t][i + e]
            /\ j + e \in DOMAIN todo[t] /\ todo'[t][j] = todo[t][j + e]
        BY <3>3, <3>5
      <4>2. i + e < j + e
        BY <3>4, <3>5
      <4>3. Ordered(todo[t])
        BY <2>1 DEF ApiInv
      <4> QED BY <3>5, <4>1, <4>2, <4>3 DEF Ordered
    <3>6. \A o \in {"tell", "store"} : \A v :
            Includes(todo'[t], Do(o, v)) <=> Includes(todo[t], Do(o, v))
      BY <1>4, DoFacts DEF IsOperation
    <3>7. Pending(todo[t]) /\ UNCHANGED <<reading, told>>
      BY <1>1, <2>1 DEF ApiInv, api
    <3>8. Pending(todo[t])'
      BY <3>6, <3>7 DEF Pending
    <3> QED BY <2>1, <3>5, <3>8 DEF Ordered
  <2>2. CASE t # Poll
    <3>1. todo'[Poll] = todo[Poll]
      BY <1>4, <2>2, ApiAssumption
    <3> QED BY <1>1, <3>1 DEF ApiInv, Pending, api
  <2> QED BY <2>1, <2>2
<1>8. TypeOK' /\ FiniteLists'
  BY <1>1 DEF ApiInv, FiniteLists, TypeOK, api
<1> QED BY <1>2, <1>5, <1>6, <1>7, <1>8 DEF ApiInv

\* The observers of a list are called one after the other.
LEMMA Notifies ==
  ASSUME ApiInv, NEW t \in Thread, Notify(t)
  PROVE  ApiInv'
<1>1. At(t, "notify") /\ UNCHANGED api /\ Disciplined(Code, ApiLocks)
  BY DEF Notify, ApiInv
<1>2. Arg(t) \in List
  BY <1>1, PlainCode, AtFacts, CodeFacts
<1>3. PICK l \in List : l = Arg(t)
  BY <1>2
<1>4. PICK S : S = observers[l]
  OBVIOUS
<1>5. S \subseteq Observer /\ IsFiniteSet(S)
  BY <1>4 DEF ApiInv, TypeOK, FiniteLists
<1>6. PICK n, q : n = Cardinality(S) /\ q = SetToSeq(S)
  OBVIOUS
<1>7. n \in Nat /\ q \in [1 .. n -> S]
  BY <1>5, <1>6, Enumerated
<1>8. PICK b : b = [i \in 1 .. n |-> Do("call", <<l, q[i]>>)]
  OBVIOUS
<1>9. Continue(t, b)
  BY <1>3, <1>4, <1>6, <1>8 DEF Notify, Each
<1>10. ASSUME NEW o \in Observer
       PROVE  Do("call", <<l, o>>) \in Code
  BY DEF Code, ListCode
<1>11. b \in Seq(Code) /\ DOMAIN b = 1 .. n
  BY <1>5, <1>7, <1>8, <1>10
<1>12. \A i \in DOMAIN b : b[i].op = "call" /\ b[i].arg = <<l, q[i]>> /\ q[i] \in S
  BY <1>7, <1>8, DoFacts
<1>13. /\ \A g \in ApiLocks.under \cup ApiLocks.first : "call" # g[1]
       /\ \A g \in ApiLocks.inside : "call" = g[1] => g[2] \in {"callback"}
  BY DEF ApiLocks
<1>14. Ready(b, Code, ApiLocks, {"callback"}, {"callback"})
  BY <1>11, <1>12, <1>13, ReadyPlain
<1>15. Common(b)
  BY <1>4, <1>12 DEF Common, Called, Includes
<1>16. \A k \in {"callback"} :
         <<"notify", k>> \in ApiLocks.under \cup ApiLocks.inside
  BY DEF ApiLocks
<1>17. TypeOK' /\ UNCHANGED <<observers, reading, told>>
  BY <1>1 DEF ApiInv, TypeOK, api
<1> QED BY <1>1, <1>9, <1>14, <1>15, <1>16, <1>17, GoesOn

\* A step that goes on with code that relies on no lock.
LEMMA GoesOnFree ==
  ASSUME ApiInv, NEW t \in Thread, NEW op, At(t, op),
         op \notin {"lock", "unlock", "register", "unregister", "sensor",
                   "tell", "store"},
         NEW b, Ready(b, CallCode, ApiLocks, {}, {}),
         Continue(t, b), TypeOK', UNCHANGED <<observers, reading, told>>
  PROVE  ApiInv'
<1>1. Ready(b, Code, ApiLocks, {}, {}) /\ Common(b)
  BY ReadyCode
<1>2. PICK H : H = {}
  OBVIOUS
<1>3. /\ Ready(b, Code, ApiLocks, H, H)
      /\ \A l \in H : <<op, l>> \in ApiLocks.under \cup ApiLocks.inside
  BY <1>1, <1>2
<1> QED BY <1>1, <1>3, GoesOn

\* A job for each observer in the list.
LEMMA Submits ==
  ASSUME ApiInv, NEW t \in Thread, submitPowerModePreChangeEvent(t)
  PROVE  ApiInv'
<1>1. At(t, "submit") /\ UNCHANGED api
  BY DEF submitPowerModePreChangeEvent
<1>2. TypeOK' /\ UNCHANGED <<observers, reading, told>>
  BY <1>1 DEF ApiInv, TypeOK, api
<1>3. CASE "preChange" \notin List
  <2>1. Continue(t, <<>>)
    BY <1>3 DEF submitPowerModePreChangeEvent
  <2> QED BY <1>1, <1>2, <2>1, ReadyEmpty, GoesOnFree
<1>4. CASE "preChange" \in List
  <2>1. PICK S : S = observers["preChange"]
    OBVIOUS
  <2>2. S \subseteq Observer /\ IsFiniteSet(S)
    BY <1>4, <2>1 DEF ApiInv, TypeOK, FiniteLists
  <2>3. PICK n, q : n = Cardinality(S) /\ q = SetToSeq(S)
    OBVIOUS
  <2>4. n \in Nat /\ q \in [1 .. n -> S]
    BY <2>2, <2>3, Enumerated
  <2>5. PICK b : b = [i \in 1 .. n |-> Do("job", q[i])]
    OBVIOUS
  <2>6. Continue(t, b)
    BY <1>4, <2>1, <2>3, <2>5 DEF submitPowerModePreChangeEvent, Each
  <2>7. ASSUME NEW o \in Observer
        PROVE  Do("job", o) \in CallCode
    BY DEF CallCode
  <2>8. b \in Seq(CallCode) /\ DOMAIN b = 1 .. n
    BY <2>2, <2>4, <2>5, <2>7
  <2>9. \A i \in DOMAIN b : b[i].op = "job"
    BY <2>5, DoFacts
  <2>10. \A g \in ApiLocks.under \cup ApiLocks.first \cup ApiLocks.inside : "job" # g[1]
    BY DEF ApiLocks
  <2>11. Ready(b, CallCode, ApiLocks, {}, {})
    BY <2>8, <2>9, <2>10, ReadyPlain
  <2> QED BY <1>1, <1>2, <2>6, <2>11, GoesOnFree
<1> QED BY <1>3, <1>4

\* The steps that neither update a list nor tell a reading.
LEMMA CallSteps ==
  ASSUME ApiInv, NEW t \in Thread,
         \/ SubmitJob(t) \/ Return(t) \/ MaybeGoOn(t) \/ ObserverCalled(t)
         \/ Begin(t) \/ Schedule(t) \/ AckStep(t)
  PROVE  ApiInv'
<1>0. ApiInv /\ TypeOK /\ Disciplined(Code, ApiLocks)
  BY DEF ApiInv
<1>1. CASE SubmitJob(t)
  <2>1. Arg(t) \in Observer
    BY <1>0, <1>1, PlainCode, AtFacts, CodeFacts DEF SubmitJob
  <2>2. TypeOK'
    BY <1>0, <1>1, <2>1 DEF TypeOK, SubmitJob
  <2> QED BY <1>1, <2>2, ReadyEmpty, GoesOnFree DEF SubmitJob
<1>2. CASE Return(t)
  <2>1. TypeOK' /\ UNCHANGED <<observers, reading, told>>
    BY <1>0, <1>2 DEF TypeOK, Return, api
  <2> QED BY <1>2, <2>1, ReadyEmpty, GoesOnFree DEF Return
<1>3. CASE MaybeGoOn(t)
  <2>1. TypeOK' /\ UNCHANGED <<observers, reading, told>>
    BY <1>0, <1>3 DEF TypeOK, MaybeGoOn, api
  <2>2. Arg(t) \in Bodies
    BY <1>0, <1>3, PlainCode, AtFacts, CodeFacts DEF MaybeGoOn
  <2>3. PICK body \in {<<>>, Arg(t)} : Continue(t, body)
    BY <1>3 DEF MaybeGoOn
  <2>4. Ready(body, CallCode, ApiLocks, {}, {})
    BY <2>2, <2>3, ReadyEmpty, BodiesReady
  <2> QED BY <1>3, <2>1, <2>3, <2>4, GoesOnFree DEF MaybeGoOn
<1>4. CASE ObserverCalled(t)
  <2>1. TypeOK' /\ UNCHANGED <<observers, reading, told>>
    BY <1>0, <1>4 DEF TypeOK, ObserverCalled, api
  <2>2. PICK body \in {<<>>} \cup {Request(call) : call \in CallbackCalls \cup JobCalls} :
          Continue(t, body)
    BY <1>4 DEF ObserverCalled
  <2>3. Ready(body, CallCode, ApiLocks, {}, {})
    BY <2>2, ReadyEmpty, RequestReady
  <2> QED BY <1>4, <2>1, <2>2, <2>3, GoesOnFree DEF ObserverCalled
<1>5. CASE Begin(t)
  <2>1. TypeOK'
    BY <1>0, <1>5 DEF TypeOK, Begin
  <2> QED BY <1>5, <2>1, ReadyEmpty, GoesOnFree DEF Begin
<1>6. CASE Schedule(t)
  <2>1. TypeOK'
    BY <1>0, <1>6 DEF TypeOK, Schedule
  <2>2. PICK body \in {<<>>, setDevicePowerState} : Continue(t, body)
    BY <1>6 DEF Schedule
  <2>3. Ready(body, CallCode, ApiLocks, {}, {})
    BY <2>2, ReadyEmpty, ChangedReady
  <2> QED BY <1>6, <2>1, <2>2, <2>3, GoesOnFree DEF Schedule
<1>7. CASE AckStep(t)
  <2>1. TypeOK'
    BY <1>0, <1>7 DEF TypeOK, AckStep
  <2>2. PICK body \in {<<>>, setDevicePowerState} : Continue(t, body)
    BY <1>7 DEF AckStep
  <2>3. Ready(body, CallCode, ApiLocks, {}, {})
    BY <2>2, ReadyEmpty, ChangedReady
  <2> QED BY <1>7, <2>1, <2>2, <2>3, GoesOnFree DEF AckStep
<1> QED BY <1>1, <1>2, <1>3, <1>4, <1>5, <1>6, <1>7

\* A list is updated: the observer that leaves it is not being called.
LEMMA ListChanges ==
  ASSUME ApiInv, NEW t \in Thread, Register(t) \/ Unregister(t)
  PROVE  ApiInv'
<1>0. TypeOK /\ Disciplined(Code, ApiLocks) /\ FiniteLists
  BY DEF ApiInv
<1>1. PICK op \in {"register", "unregister"} :
        /\ At(t, op)
        /\ op = "register" => Register(t)
        /\ op = "unregister" => Unregister(t)
  <2>1. CASE Register(t)
    BY <2>1 DEF Register
  <2>2. CASE Unregister(t)
    BY <2>2 DEF Unregister
  <2> QED BY <2>1, <2>2
<1>20. op \notin {"lock", "unlock", "sensor", "tell", "store"}
  BY <1>1
<1>2. Continue(t, <<>>) /\ UNCHANGED <<reading, told, change, jobs>>
  BY <1>1 DEF Register, Unregister
<1>3. Arg(t) \in List \X Observer
  BY <1>0, <1>1, <1>20, PlainCode, AtFacts, CodeFacts
<1>4. PICK l \in List, o \in Observer : l = Arg(t)[1] /\ o = Arg(t)[2]
  BY <1>3
<1>5. /\ observers \in [List -> SUBSET Observer]
      /\ op = "register" => observers' = [observers EXCEPT ![l] = @ \cup {o}]
      /\ op = "unregister" => observers' = [observers EXCEPT ![l] = @ \ {o}]
  <2>1. observers \in [List -> SUBSET Observer]
    BY <1>0 DEF TypeOK
  <2>2. op = "register" => observers' = [observers EXCEPT ![l] = @ \cup {o}]
    BY <1>1, <1>4 DEF Register
  <2>3. op = "unregister" => observers' = [observers EXCEPT ![l] = @ \ {o}]
    BY <1>1, <1>4 DEF Unregister
  <2> QED BY <2>1, <2>2, <2>3
<1>6. /\ observers' \in [List -> SUBSET Observer]
      /\ op = "register" => observers'[l] = observers[l] \cup {o}
      /\ op = "unregister" => observers'[l] = observers[l] \ {o}
      /\ \A k \in List \ {l} : observers'[k] = observers[k]
  BY <1>5
<1>7. TypeOK'
  BY <1>0, <1>2, <1>6 DEF TypeOK
<1>8. FiniteLists'
  <2> SUFFICES ASSUME NEW k \in List
               PROVE  IsFiniteSet(observers'[k])
    BY DEF FiniteLists
  <2>1. IsFiniteSet(observers[k])
    BY <1>0 DEF FiniteLists
  <2>2. IsFiniteSet(observers[k] \cup {o}) /\ IsFiniteSet(observers[k] \ {o})
    BY <2>1, FS_AddElement, FS_RemoveElement
  <2> QED BY <1>6, <2>1, <2>2
<1>9. /\ Ready(<<>>, Code, ApiLocks, {}, {}) /\ <<>> \in Seq(Code)
      /\ \A l1 \in {} : <<op, l1>> \in ApiLocks.under \cup ApiLocks.inside
  BY ReadyEmpty
<1>10. Disciplined(Code, ApiLocks)'
  <2>1. PICK H : H = {}
    OBVIOUS
  <2>2. Ready(<<>>, Code, ApiLocks, H, H) /\ \A k \in H : FALSE
    BY <1>9, <2>1
  <2> QED BY <1>0, <1>1, <1>20, <1>2, <2>2, PlainCode, ContinueKeeps
<1>11. Became(t, <<>>, Rest(t))
  BY <1>0, <1>1, <1>20, <1>2, <1>9, PlainCode, ContinueChanges
<1>12. /\ \A u \in Thread \ {t} : todo'[u] = todo[u]
       /\ \A x : IsOperation(x) => (Includes(todo'[t], x) <=> Includes(Rest(t), x))
  BY <1>11 DEF Became, Includes
<1>13. ASSUME NEW x, Includes(Rest(t), x)
       PROVE  Includes(todo[t], x)
  BY <1>0, <1>1, <1>20, <1>13, PlainCode, RestContained DEF Includes
<1>14. \A x : Includes(todo[t], x) /\ IsOperation(x) => x.op \in {"register", "unregister"}
  <2>1. Place(t) \in DOMAIN todo[t] /\ todo[t][Place(t)].op = op
    BY <1>0, <1>1, <1>20, PlainCode, AtFacts
  <2>2. PICK y : y = todo[t][Place(t)]
    OBVIOUS
  <2>3. Includes(todo[t], y) /\ y.op \in {"register", "unregister"}
    BY <2>1, <2>2 DEF Includes
  <2> QED BY <2>3 DEF ApiInv, Lone
<1>15. \A x : Includes(todo'[t], x) /\ IsOperation(x) => x.op \in {"register", "unregister"}
  BY <1>12, <1>13, <1>14
<1>16. \A u \in Thread : Lone(todo'[u])
  <2>1. Lone(todo'[t])
    BY <1>15 DEF Lone
  <2> QED BY <1>12, <2>1 DEF ApiInv
<1>17. \A u \in Thread : Called(todo[u])'
  <2> SUFFICES ASSUME NEW u \in Thread, NEW x, Includes(todo'[u], x), x.op = "call"
               PROVE  x.arg[2] \in observers'[x.arg[1]]
    BY DEF Called
  <2>1. u # t
    BY <1>15 DEF IsOperation
  <2>2. todo'[u] = todo[u] /\ Called(todo[u]) /\ Includes(todo[u], x)
    BY <1>12, <2>1 DEF ApiInv
  <2>3. PICK i \in DOMAIN todo[u] : todo[u][i] = x
    BY <2>2 DEF Includes
  <2>4. x \in Code
    BY <1>0, <2>3 DEF Disciplined
  <2>5. x.arg \in List \X Observer /\ x.arg[2] \in observers[x.arg[1]]
    BY <2>2, <2>4, CodeFacts DEF Called
  <2>6. CASE op = "register"
    BY <1>6, <2>5, <2>6
  <2>7. CASE op = "unregister"
    <3>1. GivesBack(Rest(t), "callback")
      <4>1. /\ <<op, "callback">> \in ApiLocks.under
            /\ <<op, "callback">>[1] = op /\ <<op, "callback">>[2] = "callback"
        BY <2>7 DEF ApiLocks
      <4> QED BY <1>0, <1>1, <1>20, <4>1, PlainCode, AtFacts
    <3>2. ~Holds(u, "callback")
      <4>1. "callback" \notin {Again, Own}
        BY DEF Again, Own
      <4> QED BY <1>0, <1>1, <1>20, <2>1, <3>1, <4>1, PlainCode, AtFacts
    <3>3. Holds(u, "callback")
      <4>1. /\ <<"call", "callback">> \in ApiLocks.inside
            /\ <<"call", "callback">>[1] = "call"
            /\ <<"call", "callback">>[2] = "callback"
        BY DEF ApiLocks
      <4>2. Sound(todo[u], Code, ApiLocks)
        BY <1>0 DEF Disciplined
      <4> QED BY <2>3, <4>1, <4>2, InsideHolds
    <3> QED BY <3>2, <3>3
  <2> QED BY <2>6, <2>7
<1>18. Ordered(todo'[Poll]) /\ Pending(todo[Poll])'
  <2>1. \A i \in DOMAIN <<>> : FALSE
    OBVIOUS
  <2>2. UNCHANGED <<reading, told>>
    BY <1>2
  <2> QED BY <1>1, <1>2, <1>9, <1>20, <2>1, <2>2, PollKept
<1> QED BY <1>7, <1>8, <1>10, <1>16, <1>17, <1>18 DEF ApiInv

----------------------------------------------------------------------------
(* The poll.                                                               *)

\* What the poll has to do when it looks at the reading.
LEMMA PollFacts ==
  ASSUME ApiInv, NEW op, op \notin {"lock", "unlock"}, At(Poll, op)
  PROVE  /\ Poll \in Thread /\ Disciplined(Code, ApiLocks)
         /\ Place(Poll) \in DOMAIN todo[Poll]
         /\ todo[Poll] \in Seq(Code)
         /\ todo[Poll][Place(Poll)] = Do(op, Arg(Poll))
         /\ \A x : Includes(Rest(Poll), x)
              => \E i \in DOMAIN todo[Poll] : i > Place(Poll) /\ todo[Poll][i] = x
<1>1. Poll \in Thread /\ Disciplined(Code, ApiLocks)
  BY ApiAssumption DEF ApiInv
<1>2. \A x : Includes(Rest(Poll), x)
        => \E i \in DOMAIN todo[Poll] : i > Place(Poll) /\ todo[Poll][i] = x
  BY <1>1, PlainCode, RestContained
<1>3. PICK x \in Code : x = todo[Poll][Place(Poll)] /\ x.op = op /\ x.arg = Arg(Poll)
  BY <1>1, PlainCode, AtFacts
<1>4. x = Do(x.op, x.arg)
  BY DoFacts DEF Code, CallCode, ListCode, PollCode
<1> QED BY <1>1, <1>2, <1>3, <1>4, PlainCode, AtFacts

\* What is left of a reading that is being looked at.
LEMMA PollRest ==
  ASSUME ApiInv, NEW op \in {"sensor", "tell", "store"}, At(Poll, op)
  PROVE  \A x : Includes(Rest(Poll), x) /\ x.op \in {"sensor", "tell", "store"}
           => op = "tell" /\ x = Do("store", Arg(Poll))
<1>1. op \notin {"lock", "unlock"}
  OBVIOUS
<1>2. SUFFICES ASSUME NEW x, Includes(Rest(Poll), x),
                      x.op \in {"sensor", "tell", "store"}
               PROVE  op = "tell" /\ x = Do("store", Arg(Poll))
  OBVIOUS
<1>3. PICK i \in DOMAIN todo[Poll] : i > Place(Poll) /\ todo[Poll][i] = x
  BY <1>1, <1>2, PollFacts
<1>4. PICK p : p = Place(Poll)
  OBVIOUS
<1>5. /\ p \in DOMAIN todo[Poll] /\ p < i
      /\ todo[Poll][p].op = op /\ todo[Poll][p].arg = Arg(Poll)
  <2>1. /\ p \in DOMAIN todo[Poll] /\ todo[Poll] \in Seq(Code)
        /\ todo[Poll][p] = Do(op, Arg(Poll))
    BY <1>1, <1>4, PollFacts
  <2>2. p < i
    BY <1>3, <1>4, <2>1
  <2> QED BY <2>1, <2>2, DoFacts
<1>6. Ordered(todo[Poll])
  BY DEF ApiInv
<1> QED BY <1>2, <1>3, <1>5, <1>6 DEF Ordered

\* The parts of the invariant that a step of the poll leaves alone.
LEMMA PollSteps ==
  ASSUME ApiInv, NEW op \in {"sensor", "tell", "store"}, At(Poll, op),
         NEW b \in Seq(Code), Continue(Poll, b), observers' = observers,
         \A i \in DOMAIN b : b[i].op \notin {"register", "unregister", "call"}
  PROVE  /\ \A u \in Thread : Lone(todo'[u])
         /\ \A u \in Thread : Called(todo[u])'
         /\ FiniteLists'
         /\ \A x : IsOperation(x)
              => (Includes(todo'[Poll], x) <=> Includes(b, x) \/ Includes(Rest(Poll), x))
<1>1. op \notin {"lock", "unlock"} /\ op \notin {"register", "unregister"}
  OBVIOUS
<1>2. /\ Poll \in Thread /\ Disciplined(Code, ApiLocks)
      /\ Place(Poll) \in DOMAIN todo[Poll]
      /\ todo[Poll][Place(Poll)] = Do(op, Arg(Poll))
      /\ \A x : Includes(Rest(Poll), x) => Includes(todo[Poll], x)
  BY <1>1, PollFacts DEF Includes
<1>3. Became(Poll, b, Rest(Poll))
  BY <1>1, <1>2, PlainCode, ContinueChanges
<1>4. /\ \A u \in Thread \ {Poll} : todo'[u] = todo[u]
      /\ \A x : IsOperation(x)
           => (Includes(todo'[Poll], x) <=> Includes(b, x) \/ Includes(Rest(Poll), x))
  BY <1>3 DEF Became
<1>5. \A x : Includes(todo[Poll], x) => x.op \notin {"register", "unregister"}
  <2>1. PICK y : y = Do(op, Arg(Poll))
    OBVIOUS
  <2>2. Includes(todo[Poll], y) /\ IsOperation(y) /\ y.op = op
    BY <1>1, <1>2, <2>1, DoFacts DEF Includes, IsOperation
  <2>3. Lone(todo[Poll])
    BY <1>2 DEF ApiInv
  <2> QED BY <1>1, <2>2, <2>3 DEF Lone
<1>6. Lone(todo'[Poll])
  <2>1. ASSUME NEW x, Includes(todo'[Poll], x), IsOperation(x)
        PROVE  x.op \notin {"register", "unregister"}
    BY <1>2, <1>4, <1>5, <2>1 DEF Includes
  <2> QED BY <2>1 DEF Lone, IsOperation
<1>7. \A u \in Thread : Called(todo[u])'
  <2> SUFFICES ASSUME NEW u \in Thread, NEW x, Includes(todo'[u], x), x.op = "call"
               PROVE  x.arg[2] \in observers[x.arg[1]]
    BY DEF Called
  <2>1. Includes(todo[u], x)
    <3>1. CASE u = Poll
      <4>1. IsOperation(x) /\ ~Includes(b, x)
        BY DEF IsOperation, Includes
      <4> QED BY <1>2, <1>4, <3>1, <4>1
    <3>2. CASE u # Poll
      BY <1>4, <3>2
    <3> QED BY <3>1, <3>2
  <2> QED BY <2>1 DEF ApiInv, Called
<1>8. FiniteLists'
  BY DEF ApiInv, FiniteLists
<1> QED BY <1>2, <1>4, <1>6, <1>7, <1>8 DEF ApiInv

\* One operation, code, and another one.
Frame(b, x, y, z, m) ==
  /\ DOMAIN b = 1 .. m + 2 /\ b[1] = x[1] /\ b[m + 2] = z[1]
  /\ \A i \in 2 .. m + 1 : \E j \in DOMAIN y : b[i] = y[j]

LEMMA Framed ==
  ASSUME NEW x, NEW y, NEW z, NEW c, NEW b, Joined(c, x, y), Joined(b, c, z),
         NEW m \in Nat, Len(x) = 1, Len(y) = m, Len(z) = 1, Len(c) = m + 1,
         DOMAIN y = 1 .. m
  PROVE  Frame(b, x, y, z, m)
<1>5. PICK u, v, w : u = Len(x) /\ v = Len(c) /\ w = Len(z)
  OBVIOUS
<1>6. u = 1 /\ w = 1 /\ v = m + 1
  BY <1>5
<1>7. /\ \A i \in 1 .. 1 : c[i] = x[i]
      /\ \A i \in 1 .. m : c[1 + i] = y[i]
  BY DEF Joined
<1>8. /\ DOMAIN b = 1 .. v + w
      /\ \A i \in 1 .. v : b[i] = c[i]
      /\ \A i \in 1 .. w : b[v + i] = z[i]
  BY <1>5 DEF Joined
<1>10. b[1] = x[1]
  BY <1>6, <1>7, <1>8
<1>11. b[m + 2] = z[1]
  <2>1. 1 \in 1 .. w /\ v + 1 = m + 2
    BY <1>6
  <2>2. b[v + 1] = z[1]
    BY <1>8, <2>1
  <2> QED BY <2>1, <2>2
<1>12. DOMAIN b = 1 .. m + 2
  BY <1>6, <1>8
<1>13. ASSUME NEW i \in 2 .. m + 1
       PROVE  \E j \in DOMAIN y : b[i] = y[j]
  <2>1. PICK j : j = i - 1
    OBVIOUS
  <2>2. j \in 1 .. m /\ 1 + j = i /\ i \in 1 .. v
    BY <1>6, <2>1
  <2>3. c[1 + j] = y[j]
    BY <1>7, <2>2
  <2>4. b[i] = c[i]
    BY <1>8, <2>2
  <2> QED BY <2>2, <2>3, <2>4
<1> QED BY <1>10, <1>11, <1>12, <1>13 DEF Frame

\* The sensor read: a new level is told before the reading is stored.
LEMMA SensorRead ==
  ASSUME ApiInv, onThermalTemperatureChanged
  PROVE  ApiInv'
<1>1. /\ At(Poll, "sensor") /\ UNCHANGED <<observers, change, jobs>>
      /\ Poll \in Thread /\ Disciplined(Code, ApiLocks) /\ TypeOK
  BY PollFacts DEF onThermalTemperatureChanged, ApiInv
<1>2. observers' = observers
  BY <1>1
<1>3. \A x : Includes(Rest(Poll), x) => x.op \notin {"sensor", "tell", "store"}
  BY <1>1, PollRest
<1>4. reading = told
  <2>1. PICK x : x = Do("store", told)
    OBVIOUS
  <2>2. x.op = "store" /\ IsOperation(x)
    BY <2>1, DoFacts DEF IsOperation
  <2>3. ~Includes(todo[Poll], x)
    BY <1>1, <1>3, <2>2, PlainCode, LeftInRest
  <2> QED BY <2>1, <2>3 DEF ApiInv, Pending
<1>5. ASSUME Continue(Poll, <<>>), reading' = told', reading' \in Reading
      PROVE  ApiInv'
  <2>1. PICK b, H : b = <<>> /\ H = {}
    OBVIOUS
  <2>2. /\ b \in Seq(Code) /\ DOMAIN b = {} /\ Continue(Poll, b)
        /\ Ready(b, Code, ApiLocks, H, H)
        /\ \A l \in H : <<"sensor", l>> \in ApiLocks.under \cup ApiLocks.inside
    BY <1>5, <2>1, ReadyEmpty
  <2>3. Disciplined(Code, ApiLocks)'
    BY <1>1, <2>2, PlainCode, ContinueKeeps
  <2>4. Ordered(todo'[Poll])
    BY <1>1, <2>2, OrderKept
  <2>5. /\ \A u \in Thread : Lone(todo'[u])
        /\ \A u \in Thread : Called(todo[u])'
        /\ FiniteLists'
        /\ \A x : IsOperation(x)
             => (Includes(todo'[Poll], x) <=> Includes(b, x) \/ Includes(Rest(Poll), x))
    BY <1>1, <1>2, <2>2, PollSteps
  <2>6. \A o \in {"tell", "store"} : \A v : ~Includes(todo'[Poll], Do(o, v))
    BY <1>3, <2>2, <2>5, DoFacts DEF IsOperation, Includes
  <2>7. Pending(todo[Poll])'
    BY <1>5, <2>6 DEF Pending
  <2>8. TypeOK'
    BY <1>1, <1>5 DEF TypeOK
  <2> QED BY <2>3, <2>4, <2>5, <2>7, <2>8 DEF ApiInv
<1>6. ASSUME NEW new \in Reading,
             Continue(Poll, <<Do("tell", new)>> \o dispatchThermalModeChangedEvent
                              \o <<Do("store", new)>>),
             UNCHANGED <<reading, told>>
      PROVE  ApiInv'
  <2>1. PICK x, y, z : /\ x = <<Do("tell", new)>> /\ z = <<Do("store", new)>>
                       /\ y = dispatchThermalModeChangedEvent
    OBVIOUS
  <2>2. PICK H : H = {"therm"}
    OBVIOUS
  <2>3. /\ Ready(x, Code, ApiLocks, H, H) /\ Ready(z, Code, ApiLocks, H, H)
        /\ x \in Seq(Code) /\ z \in Seq(Code) /\ Len(x) = 1 /\ Len(z) = 1
        /\ x[1] = Do("tell", new) /\ z[1] = Do("store", new)
    <3>1. {Do("tell", new), Do("store", new)} \subseteq Code
      BY DEF Code, PollCode
    <3>2. ASSUME NEW o \in {"tell", "store"}
          PROVE  /\ o \notin {"lock", "unlock"}
                 /\ \A g \in ApiLocks.under \cup ApiLocks.first : o # g[1]
                 /\ \A g \in ApiLocks.inside : o = g[1] => g[2] \in H
      BY <2>2 DEF ApiLocks
    <3>3. Ready(x, Code, ApiLocks, H, H) /\ Ready(z, Code, ApiLocks, H, H)
      BY <2>1, <3>1, <3>2, ReadyOne
    <3> QED BY <2>1, <3>1, <3>3
  <2>4. /\ Ready(y, Code, ApiLocks, H, H) /\ y \in Seq(Code)
        /\ \A i \in DOMAIN y : y[i] \in CallCode
    <3>1. Ready(y, CallCode, ApiLocks, {}, {})
      BY <2>1, DispatchReady DEF dispatchThermalModeChangedEvent
    <3>2. Ready(y, Code, ApiLocks, {}, {}) /\ y \in Seq(CallCode)
      BY <3>1, ReadyCode DEF Ready
    <3>3. Ready(y, Code, ApiLocks, H, H)
      BY <3>2, ReadyMore
    <3> QED BY <3>2, <3>3 DEF Ready
  <2>15. PICK c : c = x \o y
    OBVIOUS
  <2>5. PICK b : b = c \o z
    OBVIOUS
  <2>6. /\ Ready(b, Code, ApiLocks, H, H) /\ b \in Seq(Code)
        /\ Continue(Poll, b)
    <3>1. Ready(c, Code, ApiLocks, H, H)
      BY <2>3, <2>4, <2>15, ReadyJoin
    <3>2. Ready(b, Code, ApiLocks, H, H)
      BY <2>3, <2>5, <3>1, ReadyJoin
    <3> QED BY <1>6, <2>1, <2>5, <2>15, <3>2 DEF Ready
  <2>7. PICK m \in Nat : m = Len(y)
    BY <2>4, LenProperties
  <2>8. /\ DOMAIN b = 1 .. m + 2 /\ b[1] = Do("tell", new) /\ b[m + 2] = Do("store", new)
        /\ \A i \in 2 .. m + 1 : b[i] \in CallCode
    <3>1. /\ DOMAIN b = 1 .. m + 2 /\ b[1] = x[1] /\ b[m + 2] = z[1]
          /\ \A i \in 2 .. m + 1 : \E j \in DOMAIN y : b[i] = y[j]
      <4>1. x \in Seq(Code) /\ y \in Seq(Code) /\ z \in Seq(Code)
        BY <2>3, <2>4
      <4>2. Joined(c, x, y) /\ c \in Seq(Code) /\ Len(c) = Len(x) + Len(y)
        <5>1. Joined(c, x, y)
          BY <2>15, <4>1, JoinedFacts
        <5>2. x \o y \in Seq(Code) /\ Len(x \o y) = Len(x) + Len(y)
          BY <4>1, ConcatProperties
        <5> QED BY <2>15, <5>1, <5>2
      <4>3. Joined(b, c, z)
        BY <2>5, <4>1, <4>2, JoinedFacts
      <4>4. Len(c) = m + 1 /\ DOMAIN y = 1 .. m
        BY <2>3, <2>7, <4>1, <4>2, LenProperties
      <4>5. Len(x) = 1 /\ Len(y) = m /\ Len(z) = 1
        BY <2>3, <2>7
      <4>6. Joined(c, x, y)
        BY <4>2
      <4>7. Frame(b, x, y, z, m)
        BY <4>3, <4>4, <4>5, <4>6, Framed
      <4> QED BY <4>7 DEF Frame
    <3> QED BY <2>3, <2>4, <3>1
  <2>9. ASSUME NEW i \in DOMAIN b,
               b[i].op \in {"register", "unregister", "call", "sensor", "tell", "store"}
        PROVE  i = 1 \/ i = m + 2
    <3>1. i \notin 2 .. m + 1
      BY <2>8, <2>9, CallCodeFacts
    <3> QED BY <2>7, <2>8, <3>1
  <2>10. \A i \in DOMAIN b : b[i].op \notin {"register", "unregister", "call"}
    BY <2>8, <2>9, DoFacts
  <2>11. Disciplined(Code, ApiLocks)'
    <3>1. \A l \in H : <<"sensor", l>> \in ApiLocks.under \cup ApiLocks.inside
      BY <2>2 DEF ApiLocks
    <3> QED BY <1>1, <2>6, <3>1, PlainCode, ContinueKeeps
  <2>12. /\ \A u \in Thread : Lone(todo'[u])
         /\ \A u \in Thread : Called(todo[u])'
         /\ FiniteLists'
         /\ \A q : IsOperation(q)
              => (Includes(todo'[Poll], q) <=> Includes(b, q) \/ Includes(Rest(Poll), q))
    BY <1>1, <1>2, <2>6, <2>10, PollSteps
  <2>13. Ordered(todo'[Poll])
    <3>1. Shifted(todo'[Poll], b, todo[Poll], Place(Poll))
      BY <1>1, <2>6, PlainCode, ContinueOrder
    <3>2. PICK d, e \in Int : \A i \in DOMAIN todo'[Poll] :
            IsOperation(todo'[Poll][i])
              => \/ i + d \in DOMAIN b /\ todo'[Poll][i] = b[i + d]
                 \/ /\ i + d > Len(b) /\ i + e > Place(Poll) /\ i + e \in DOMAIN todo[Poll]
                    /\ todo'[Poll][i] = todo[Poll][i + e]
      BY <3>1 DEF Shifted
    <3>3. ASSUME NEW i \in DOMAIN todo'[Poll],
                 todo'[Poll][i].op \in {"sensor", "tell", "store"}
          PROVE  i + d \in {1, m + 2} /\ todo'[Poll][i] = b[i + d]
      <4>1. IsOperation(todo'[Poll][i])
        BY <3>3 DEF IsOperation
      <4>2. ~(i + e > Place(Poll) /\ i + e \in DOMAIN todo[Poll]
                /\ todo'[Poll][i] = todo[Poll][i + e])
        <5> SUFFICES ASSUME i + e > Place(Poll), i + e \in DOMAIN todo[Poll],
                            todo'[Poll][i] = todo[Poll][i + e]
                     PROVE  FALSE
          OBVIOUS
        <5>1. PICK h : h = i + e
          OBVIOUS
        <5>2. /\ Place(Poll) \in DOMAIN todo[Poll] /\ todo[Poll] \in Seq(Code)
              /\ todo[Poll][Place(Poll)] = Do("sensor", Arg(Poll))
          BY <1>1, PollFacts
        <5>3. todo[Poll][Place(Poll)].op = "sensor"
          BY <5>2, DoFacts
        <5>4. Place(Poll) < h /\ h \in DOMAIN todo[Poll]
          BY <5>1, <5>2
        <5>5. todo[Poll][Place(Poll)].op = "tell"
          BY <3>3, <5>1, <5>2, <5>3, <5>4 DEF ApiInv, Ordered
        <5> QED BY <5>3, <5>5
      <4>3. i + d \in DOMAIN b /\ todo'[Poll][i] = b[i + d]
        BY <3>2, <4>1, <4>2
      <4>4. i + d = 1 \/ i + d = m + 2
        BY <2>9, <3>3, <4>3
      <4> QED BY <4>3, <4>4
    <3>4. todo'[Poll] \in Seq(Code)
      BY <1>1, <2>11 DEF Disciplined
    <3>5. ASSUME NEW i \in DOMAIN todo'[Poll], NEW j \in DOMAIN todo'[Poll], i < j,
                 todo'[Poll][i].op \in {"sensor", "tell", "store"},
                 todo'[Poll][j].op \in {"sensor", "tell", "store"}
          PROVE  todo'[Poll][i].op = "tell"
                 /\ todo'[Poll][j] = Do("store", todo'[Poll][i].arg)
      <4>1. /\ i + d \in {1, m + 2} /\ todo'[Poll][i] = b[i + d]
            /\ j + d \in {1, m + 2} /\ todo'[Poll][j] = b[j + d]
        BY <3>3, <3>5
      <4>2. i + d < j + d
        BY <3>4, <3>5
      <4>3. i + d = 1 /\ j + d = m + 2
        BY <2>7, <4>1, <4>2
      <4>4. todo'[Poll][i] = Do("tell", new) /\ todo'[Poll][j] = Do("store", new)
        BY <2>8, <4>1, <4>3
      <4> QED BY <4>4, DoFacts
    <3> QED BY <3>5 DEF Ordered
  <2>14. Pending(todo[Poll])'
    <3>1. Includes(b, Do("tell", new)) /\ Includes(b, Do("store", new))
      BY <2>7, <2>8 DEF Includes
    <3>2. \A o \in {"tell", "store"} : \A v :
            Includes(todo'[Poll], Do(o, v)) <=> Includes(b, Do(o, v))
      BY <1>3, <2>12, DoFacts DEF IsOperation
    <3>3. ASSUME NEW o \in {"tell", "store"}, NEW v, Includes(b, Do(o, v))
          PROVE  v = new
      <4>1. PICK i \in DOMAIN b : b[i] = Do(o, v)
        BY <3>3 DEF Includes
      <4>2. b[i].op = o /\ b[i].arg = v
        BY <4>1, DoFacts
      <4>3. i = 1 \/ i = m + 2
        BY <2>9, <4>2
      <4> QED BY <2>8, <4>2, <4>3, DoFacts
    <3> QED BY <1>4, <1>6, <3>1, <3>2, <3>3 DEF Pending
  <2>16. TypeOK'
    BY <1>1, <1>6 DEF TypeOK
  <2> QED BY <2>11, <2>12, <2>13, <2>14, <2>16 DEF ApiInv
<1>7. reading \in Reading
  BY <1>1 DEF TypeOK
<1>8. CASE Continue(Poll, <<>>) /\ UNCHANGED <<reading, told>>
  BY <1>4, <1>5, <1>7, <1>8
<1> QED BY <1>5, <1>6, <1>8 DEF onThermalTemperatureChanged

\* The reading is told, and then stored.
LEMMA ReadingToldAndStored ==
  ASSUME ApiInv, TellReading \/ StoreReading
  PROVE  ApiInv'
<1>1. PICK op \in {"tell", "store"} :
        /\ At(Poll, op) /\ Continue(Poll, <<>>)
        /\ UNCHANGED <<observers, change, jobs>>
        /\ op = "tell" => told' = Arg(Poll) /\ reading' = reading
        /\ op = "store" => reading' = Arg(Poll) /\ told' = told
  <2>1. CASE TellReading
    BY <2>1 DEF TellReading
  <2>2. CASE StoreReading
    BY <2>2 DEF StoreReading
  <2> QED BY <2>1, <2>2
<1>2. /\ op \notin {"lock", "unlock"} /\ op \in {"sensor", "tell", "store"}
      /\ op \in {"tell", "store"}
  BY <1>1
<1>3. /\ Poll \in Thread /\ Disciplined(Code, ApiLocks)
      /\ Place(Poll) \in DOMAIN todo[Poll]
      /\ todo[Poll] \in Seq(Code)
      /\ todo[Poll][Place(Poll)] = Do(op, Arg(Poll))
      /\ \A x : Includes(Rest(Poll), x) => Includes(todo[Poll], x)
  BY <1>1, <1>2, PollFacts DEF Includes
<1>4. PICK b, H, v : b = <<>> /\ H = {} /\ v = Arg(Poll)
  OBVIOUS
<1>5. /\ b \in Seq(Code) /\ DOMAIN b = {} /\ Continue(Poll, b)
      /\ Ready(b, Code, ApiLocks, H, H)
      /\ \A l \in H : <<op, l>> \in ApiLocks.under \cup ApiLocks.inside
  BY <1>1, <1>4, ReadyEmpty
<1>6. Disciplined(Code, ApiLocks)'
  BY <1>1, <1>2, <1>3, <1>5, PlainCode, ContinueKeeps
<1>7. Ordered(todo'[Poll])
  BY <1>1, <1>2, <1>3, <1>5, OrderKept
<1>8. /\ \A u \in Thread : Lone(todo'[u])
      /\ \A u \in Thread : Called(todo[u])'
      /\ FiniteLists'
      /\ \A x : IsOperation(x)
           => (Includes(todo'[Poll], x) <=> Includes(b, x) \/ Includes(Rest(Poll), x))
  <2>1. \A i \in DOMAIN b : b[i].op \notin {"register", "unregister", "call"}
    BY <1>5
  <2> QED BY <1>1, <1>2, <1>5, <2>1, PollSteps
<1>9. \A x : Includes(Rest(Poll), x) /\ x.op \in {"sensor", "tell", "store"}
        => op = "tell" /\ x = Do("store", v)
  BY <1>1, <1>2, <1>4, PollRest
<1>10. v \in Reading
  <2>1. Do(op, v) \in Code
    BY <1>3, <1>4
  <2> QED BY <1>2, <2>1, CodeFacts, DoFacts
<1>11. TypeOK'
  BY <1>1, <1>4, <1>10 DEF ApiInv, TypeOK
<1>12. ASSUME NEW o \in {"tell", "store"}, NEW w
       PROVE  Includes(todo'[Poll], Do(o, w)) <=> Includes(Rest(Poll), Do(o, w))
  <2>1. IsOperation(Do(o, w)) /\ ~Includes(b, Do(o, w))
    BY <1>5, DoFacts DEF IsOperation, Includes
  <2> QED BY <1>8, <2>1
<1>13. ASSUME NEW o \in {"tell", "store"}, NEW w, Includes(Rest(Poll), Do(o, w))
       PROVE  op = "tell" /\ o = "store" /\ w = v
  <2>1. op = "tell" /\ Do(o, w) = Do("store", v)
    BY <1>9, <1>13, DoFacts
  <2> QED BY <2>1, DoFacts
<1>14. Includes(todo[Poll], Do(op, v))
  BY <1>3, <1>4 DEF Includes
<1>15. Pending(todo[Poll])
  BY DEF ApiInv
<1>16. CASE op = "tell"
  <2>1. told' = v /\ reading' = reading
    BY <1>1, <1>4, <1>16
  <2>2. Includes(todo[Poll], Do("store", v))
    BY <1>14, <1>15, <1>16 DEF Pending
  <2>3. Includes(Rest(Poll), Do("store", v))
    <3>1. IsOperation(Do("store", v)) /\ Do("store", v).op # op
      BY <1>16, DoFacts DEF IsOperation
    <3> QED BY <1>1, <1>2, <1>3, <2>2, <3>1, PlainCode, LeftInRest
  <2>4. Pending(todo[Poll])'
    BY <1>12, <1>13, <2>1, <2>3 DEF Pending
  <2> QED BY <1>6, <1>7, <1>8, <1>11, <2>4 DEF ApiInv
<1>17. CASE op = "store"
  <2>1. told' = told /\ reading' = v
    BY <1>1, <1>4, <1>17
  <2>2. ~Includes(todo[Poll], Do("tell", v))
    <3>1. IsOperation(Do("tell", v)) /\ Do("tell", v).op # op
      BY <1>17, DoFacts DEF IsOperation
    <3>2. ~Includes(Rest(Poll), Do("tell", v))
      BY <1>13, <1>17
    <3> QED BY <1>1, <1>2, <1>3, <3>1, <3>2, PlainCode, LeftInRest
  <2>3. v = told
    BY <1>14, <1>15, <1>17, <2>2 DEF Pending
  <2>4. Pending(todo[Poll])'
    BY <1>12, <1>13, <1>17, <2>1, <2>3 DEF Pending
  <2> QED BY <1>6, <1>7, <1>8, <1>11, <2>4 DEF ApiInv
<1> QED BY <1>1, <1>16, <1>17

\* One operation under a lock.
Locked(w, op) ==
  /\ Len(w) = 3 /\ DOMAIN w = 1 .. 3
  /\ w[1].op = "lock" /\ w[2].op = op /\ w[3].op = "unlock"

LEMMA OneLocked ==
  ASSUME NEW l \in {"api", "callback", "self", "therm", "grace"},
         NEW op, NEW arg, Do(op, arg) \in Code, NEW w, w = With(l, <<Do(op, arg)>>)
  PROVE  Locked(w, op)
<1>1. PICK x, b, z, c : /\ x = <<Do("lock", l)>> /\ b = <<Do(op, arg)>>
                        /\ z = <<Do("unlock", l)>> /\ c = x \o b
  OBVIOUS
<1>2. {Do("lock", l), Do("unlock", l)} \subseteq Code
  BY LocksInCode DEF Code
<1>3. /\ x \in Seq(Code) /\ Len(x) = 1 /\ x[1].op = "lock"
      /\ b \in Seq(Code) /\ Len(b) = 1 /\ b[1].op = op /\ DOMAIN b = {1}
      /\ z \in Seq(Code) /\ Len(z) = 1 /\ z[1].op = "unlock"
  BY <1>1, <1>2, DoFacts
<1>4. x \in Seq(Code) /\ b \in Seq(Code) /\ z \in Seq(Code)
  BY <1>3
<1>5. Joined(c, x, b)
  BY <1>1, <1>4, JoinedFacts
<1>6. x \o b \in Seq(Code) /\ Len(x \o b) = Len(x) + Len(b)
  BY <1>4, ConcatProperties
<1>7. c \in Seq(Code) /\ Len(c) = 2
  BY <1>1, <1>3, <1>6
<1>8. w = c \o z
  BY <1>1 DEF With
<1>9. Joined(w, c, z)
  BY <1>4, <1>7, <1>8, JoinedFacts
<1>10. Frame(w, x, b, z, 1)
  <2>1. Len(c) = 1 + 1 /\ DOMAIN b = 1 .. 1 /\ 1 \in Nat
    BY <1>3, <1>7
  <2>2. Len(x) = 1 /\ Len(b) = 1 /\ Len(z) = 1
    BY <1>3
  <2> QED BY <1>5, <1>9, <2>1, <2>2, Framed
<1>11. /\ DOMAIN w = 1 .. 3 /\ w[1] = x[1] /\ w[3] = z[1]
       /\ \A i \in 2 .. 2 : \E j \in DOMAIN b : w[i] = b[j]
  BY <1>10 DEF Frame
<1>12. Len(c \o z) = Len(c) + Len(z)
  BY <1>4, <1>7, ConcatProperties
<1>13. Len(w) = 3
  <2>1. Len(w) = Len(c) + Len(z)
    BY <1>8, <1>12
  <2>2. Len(c) = 2 /\ Len(z) = 1
    BY <1>3, <1>7
  <2> QED BY <2>1, <2>2
<1> QED BY <1>3, <1>11, <1>13 DEF Locked

\* A client registers or unregisters an observer.
LEMMA ListCallStarts ==
  ASSUME ApiInv, NEW t \in Thread, NEW l \in List, NEW o \in Observer,
         Start(t, RegisterCall(l, o)) \/ Start(t, UnregisterCall(l, o)), UNCHANGED api
  PROVE  ApiInv'
<1>1. PICK op \in {"register", "unregister"} :
        Start(t, With("callback", <<Do(op, <<l, o>>)>>))
  BY DEF RegisterCall, UnregisterCall
<1>2. PICK b : b = <<Do(op, <<l, o>>)>>
  OBVIOUS
<1>3. Do(op, <<l, o>>) \in Code
  BY <1>1 DEF Code, ListCode
<1>4. b \in Seq(Code) /\ b # <<>> /\ DOMAIN b = {1} /\ b[1].op = op /\ Len(b) = 1
  BY <1>2, <1>3, DoFacts
<1>5. /\ op \notin {"lock", "unlock"}
      /\ \A g \in ApiLocks.under : op = g[1] => g[2] \in {} \cup {"callback"}
      /\ \A g \in ApiLocks.inside \cup ApiLocks.first : op # g[1]
  BY <1>1 DEF ApiLocks
<1>6. \A i \in DOMAIN b :
        /\ b[i].op \notin {"lock", "unlock"}
        /\ \A g \in ApiLocks.under : b[i].op = g[1] => g[2] \in {} \cup {"callback"}
        /\ \A g \in ApiLocks.inside : b[i].op = g[1] => g[2] \in {}
        /\ \A g \in ApiLocks.first : b[i].op = g[1] => i = 1 /\ g[2] = "callback"
  BY <1>4, <1>5
<1>7. {Do("lock", "callback"), Do("unlock", "callback")} \subseteq Code
  BY LocksInCode DEF Code
<1>8. Ready(With("callback", b), Code, ApiLocks, {}, {})
  BY <1>4, <1>6, <1>7, PlainCode, ReadyWith
<1>9. PICK w : w = With("callback", b)
  OBVIOUS
<1>10. \A i \in DOMAIN w : w[i].op \in {"lock", "unlock", op}
  <2>1. Locked(w, op)
    BY <1>2, <1>3, <1>9, OneLocked
  <2> QED BY <2>1 DEF Locked
<1>11. Lone(w) /\ Called(w) /\ Ordered(w)
  BY <1>1, <1>10 DEF Lone, Called, Ordered, Includes, IsOperation
<1>12. \A i \in DOMAIN w : w[i].op \notin {"tell", "store"}
  BY <1>1, <1>10
<1>13. Start(t, w) /\ Ready(w, Code, ApiLocks, {}, {})
  BY <1>1, <1>2, <1>8, <1>9
<1>14. TypeOK' /\ UNCHANGED <<observers, reading, told>>
  BY DEF ApiInv, TypeOK, api
<1> QED BY <1>11, <1>12, <1>13, <1>14, Starts

\* The poll starts: it looks at the temperature once.
LEMMA PollStarts ==
  ASSUME ApiInv, pollThermalLevels
  PROVE  ApiInv'
<1>1. PICK q, w, g, y : /\ q = Query /\ w = With("therm", y)
                        /\ g = With("grace", Maybe(SetPowerState))
                        /\ y = <<Do("sensor", 0)>>
  OBVIOUS
<1>2. PICK c, b : c = q \o w /\ b = c \o g
  OBVIOUS
<1>3. Start(Poll, b) /\ UNCHANGED api /\ Poll \in Thread
  BY <1>1, <1>2, ApiAssumption DEF pollThermalLevels
<1>4. Ready(q, CallCode, ApiLocks, {}, {}) /\ Ready(g, CallCode, ApiLocks, {}, {})
  <2>1. SetPowerState \in Bodies
    BY DEF Bodies
  <2>2. Ready(Maybe(SetPowerState), CallCode, ApiLocks, {}, {}) /\ Maybe(SetPowerState) # <<>>
    BY <2>1, MaybeReady DEF Maybe
  <2> QED BY <1>1, <2>2, QueryReady, WithReady
<1>5. /\ Ready(q, Code, ApiLocks, {}, {}) /\ Ready(g, Code, ApiLocks, {}, {})
      /\ q \in Seq(CallCode) /\ g \in Seq(CallCode)
  BY <1>4, ReadyCode DEF Ready
<1>6. Do("sensor", 0) \in Code
  BY DEF Code, PollCode
<1>7. Ready(w, Code, ApiLocks, {}, {})
  <2>1. y \in Seq(Code) /\ y # <<>> /\ DOMAIN y = {1} /\ y[1].op = "sensor"
    BY <1>1, <1>6, DoFacts
  <2>2. /\ \A p \in ApiLocks.under : "sensor" = p[1] => p[2] \in {} \cup {"therm"}
        /\ \A p \in ApiLocks.inside \cup ApiLocks.first : "sensor" # p[1]
    BY DEF ApiLocks
  <2>3. \A i \in DOMAIN y :
          /\ y[i].op \notin {"lock", "unlock"}
          /\ \A p \in ApiLocks.under : y[i].op = p[1] => p[2] \in {} \cup {"therm"}
          /\ \A p \in ApiLocks.inside : y[i].op = p[1] => p[2] \in {}
          /\ \A p \in ApiLocks.first : y[i].op = p[1] => i = 1 /\ p[2] = "therm"
    BY <2>1, <2>2
  <2>4. {Do("lock", "therm"), Do("unlock", "therm")} \subseteq Code
    BY LocksInCode DEF Code
  <2>5. Ready(With("therm", y), Code, ApiLocks, {}, {})
    BY <2>1, <2>3, <2>4, PlainCode, ReadyWith
  <2> QED BY <1>1, <2>5
<1>8. Ready(b, Code, ApiLocks, {}, {})
  <2>1. Ready(c, Code, ApiLocks, {}, {})
    BY <1>2, <1>5, <1>7, ReadyJoin
  <2> QED BY <1>2, <1>5, <2>1, ReadyJoin
<1>9. Locked(w, "sensor")
  BY <1>1, <1>6, OneLocked
<1>10. q \in Seq(Code) /\ w \in Seq(Code) /\ g \in Seq(Code)
  BY <1>5, <1>7 DEF Ready
<1>11. Joined(c, q, w)
  BY <1>2, <1>10, JoinedFacts
<1>12. q \o w \in Seq(Code)
  BY <1>10, ConcatProperties
<1>13. c \in Seq(Code)
  BY <1>2, <1>12
<1>14. Joined(b, c, g)
  BY <1>2, <1>10, <1>13, JoinedFacts
<1>15. Joined(c, q, w) /\ Len(q \o w) = Len(q) + Len(w)
  BY <1>10, <1>11, ConcatProperties
<1>16. PICK n, m, k : n = Len(q) /\ m = Len(c) /\ k = Len(g)
  OBVIOUS
<1>17. /\ n \in Nat /\ m = n + 3 /\ k \in Nat
       /\ DOMAIN q = 1 .. n /\ DOMAIN g = 1 .. k
  <2>1. Len(q) \in Nat /\ DOMAIN q = 1 .. Len(q)
    BY <1>10, LenProperties
  <2>2. Len(g) \in Nat /\ DOMAIN g = 1 .. Len(g)
    BY <1>10, LenProperties
  <2>3. Len(w) = 3
    BY <1>9 DEF Locked
  <2> QED BY <1>2, <1>15, <1>16, <2>1, <2>2, <2>3
<1>18. /\ DOMAIN b = 1 .. m + k
       /\ \A i \in 1 .. m : b[i] = c[i]
       /\ \A i \in 1 .. k : b[m + i] = g[i]
       /\ \A i \in 1 .. n : c[i] = q[i]
       /\ \A i \in 1 .. 3 : c[n + i] = w[i]
  <2>1. Len(w) = 3
    BY <1>9 DEF Locked
  <2> QED BY <1>14, <1>15, <1>16, <2>1 DEF Joined
<1>19. ASSUME NEW i \in DOMAIN b,
              b[i].op \in {"register", "unregister", "call", "sensor", "tell", "store"}
       PROVE  i = n + 2 /\ b[i].op = "sensor"
  <2>1. CASE i \in 1 .. n
    <3>1. b[i] = q[i] /\ q[i] \in CallCode
      BY <1>5, <1>17, <1>18, <2>1
    <3> QED BY <1>19, <3>1, CallCodeFacts
  <2>2. CASE i \in n + 1 .. m
    <3>1. PICK j : j = i - n
      OBVIOUS
    <3>2. j \in 1 .. 3 /\ n + j = i /\ i \in 1 .. m
      BY <1>17, <2>2, <3>1
    <3>3. b[i] = c[i] /\ c[n + j] = w[j]
      BY <1>18, <3>2
    <3>4. b[i] = w[j]
      BY <3>2, <3>3
    <3>5. j # 1 /\ j # 3
      BY <1>9, <1>19, <3>4 DEF Locked
    <3>6. j = 2
      BY <3>2, <3>5
    <3> QED BY <1>9, <1>17, <3>2, <3>4, <3>6 DEF Locked
  <2>3. CASE i \in m + 1 .. m + k
    <3>1. PICK j : j = i - m
      OBVIOUS
    <3>2. j \in 1 .. k /\ m + j = i
      BY <1>17, <2>3, <3>1
    <3>3. b[m + j] = g[j] /\ g[j] \in CallCode
      BY <1>5, <1>17, <1>18, <3>2
    <3> QED BY <1>19, <3>2, <3>3, CallCodeFacts
  <2>4. i \in 1 .. n \/ i \in n + 1 .. m \/ i \in m + 1 .. m + k
    BY <1>17, <1>18
  <2> QED BY <2>1, <2>2, <2>3, <2>4
<1>20. \A i \in DOMAIN b :
         /\ b[i].op \notin {"register", "unregister", "call", "tell", "store"}
         /\ b[i].op = "sensor" => i = n + 2
  BY <1>19
<1>21. Lone(b) /\ Called(b) /\ Ordered(b)
  BY <1>17, <1>20 DEF Lone, Called, Ordered, Includes
<1>22. TypeOK' /\ UNCHANGED <<observers, reading, told>>
  BY <1>3 DEF ApiInv, TypeOK, api
<1> QED BY <1>3, <1>8, <1>20, <1>21, <1>22, Starts

\* The threads that start with a call, a dispatch or a job.
LEMMA CallStarts ==
  ASSUME ApiInv,
         \/ \E t \in Client : ClientCalls(t)
         \/ onDeepSleepTimerWakeup \/ onDeepSleepEnds \/ AckTimeout \/ RunJob
  PROVE  ApiInv'
<1>0. /\ Client \subseteq Thread /\ {Sleep, Timer, Worker} \subseteq Thread /\ TypeOK
  BY ApiAssumption DEF ApiInv
<1>1. ASSUME NEW t \in Client, ClientCalls(t)
      PROVE  ApiInv'
  <2>1. t \in Thread /\ UNCHANGED api
    BY <1>0, <1>1 DEF ClientCalls
  <2>2. TypeOK' /\ UNCHANGED <<observers, reading, told>>
    BY <1>0, <2>1 DEF TypeOK, api
  <2>3. ASSUME NEW call \in Calls, Start(t, Request(call))
        PROVE  ApiInv'
    BY <2>1, <2>2, <2>3, RequestReady, CommonStarts
  <2>4. ASSUME NEW l \in List, NEW o \in Observer,
               Start(t, RegisterCall(l, o)) \/ Start(t, UnregisterCall(l, o))
        PROVE  ApiInv'
    BY <2>1, <2>4, ListCallStarts
  <2> QED BY <1>1, <2>3, <2>4 DEF ClientCalls
<1>2. CASE onDeepSleepTimerWakeup
  <2>1. TypeOK' /\ UNCHANGED <<observers, reading, told>>
    BY <1>0, <1>2 DEF TypeOK, api, onDeepSleepTimerWakeup
  <2>2. Ready(dispatchDeepSleepTimeoutEvent \o SetPowerState, CallCode, ApiLocks, {}, {})
    BY DispatchReady, PowerReady, JoinReady DEF dispatchDeepSleepTimeoutEvent
  <2> QED BY <1>0, <1>2, <2>1, <2>2, CommonStarts DEF onDeepSleepTimerWakeup
<1>3. CASE onDeepSleepEnds
  <2>1. TypeOK' /\ UNCHANGED <<observers, reading, told>>
    BY <1>0, <1>3 DEF TypeOK, api, onDeepSleepEnds
  <2> QED BY <1>0, <1>3, <2>1, PowerReady, CommonStarts DEF onDeepSleepEnds
<1>4. CASE AckTimeout
  <2>1. TypeOK' /\ UNCHANGED <<observers, reading, told>>
    BY <1>0, <1>4 DEF TypeOK, AckTimeout
  <2> QED BY <1>0, <1>4, <2>1, ChangedReady, CommonStarts DEF AckTimeout
<1>5. CASE RunJob
  <2>1. PICK o \in jobs : /\ jobs' = jobs \ {o}
                         /\ Start(Worker, <<Do("preChangeCall", o)>>)
    BY <1>5 DEF RunJob
  <2>2. o \in Observer
    BY <1>0, <2>1 DEF TypeOK
  <2>3. Do("preChangeCall", o) \in CallCode
    BY <2>2 DEF CallCode
  <2>4. Ready(<<Do("preChangeCall", o)>>, CallCode, ApiLocks, {}, {})
    BY <2>3, FreeReady DEF Free
  <2>5. TypeOK' /\ UNCHANGED <<observers, reading, told>>
    BY <1>0, <1>5, <2>1 DEF TypeOK, RunJob
  <2> QED BY <1>0, <2>1, <2>4, <2>5, CommonStarts
<1> QED BY <1>1, <1>2, <1>3, <1>4, <1>5

----------------------------------------------------------------------------
(* The order of the locks.  An observer may ask for anything, but does so  *)
(* with _callbackLock held; SetOvertempGraceInterval takes the interval's  *)
(* mutex under _apiLock, while the poll may ask for deep sleep under that  *)
(* mutex.                                                                  *)

ApiLock == {"grace", "self", "api", "therm", "callback"}

Rank ==
  [l \in ApiLock |-> IF l = "grace" THEN 1 ELSE IF l = "self" THEN 2
                     ELSE IF l = "api" THEN 3 ELSE IF l = "therm" THEN 4 ELSE 5]

Below(l) == {m \in ApiLock : Rank[m] < Rank[l]}

\* The locks held when a body, that starts with a lock, is gone on with.
Room(b) == IF b = <<>> THEN ApiLock ELSE Below(b[1].arg)

\* The locks held when an operation is done.
May(op, arg) ==
  {m \in ApiLock : /\ op = "maybe" => m \in Room(arg)
                   /\ op \in {"schedule", "ack", "sensor"} => m # "callback"
                   /\ op # "preChangeCall"}

ApiOrder ==
  [rank  |-> Rank,
   never |-> {p \in Code \X ApiLock : p[2] \notin May(p[1].op, p[1].arg)},
   pairs |-> {<<"grace", "api">>},
   outer |-> {"callback"}]

Fits(b, K) == Ready(b, CallCode, ApiLocks, {}, {}) /\ Orderly(b, K, ApiOrder)

LEMMA BelowFacts ==
  /\ Below("grace") = {}
  /\ Below("self") = Below("grace") \cup {"grace"}
  /\ Below("api") = Below("self") \cup {"self"}
  /\ Below("therm") = Below("api") \cup {"api"}
  /\ Below("callback") = Below("therm") \cup {"therm"}
  /\ "callback" \notin Below("callback")
  /\ \A m \in ApiLock : m = "callback" \/ m \in Below("callback")
<1>1. /\ Rank["grace"] = 1 /\ Rank["self"] = 2 /\ Rank["api"] = 3
      /\ Rank["therm"] = 4 /\ Rank["callback"] = 5
  BY DEF Rank, ApiLock
<1>2. Below("grace") = {}
  BY <1>1 DEF Below, ApiLock
<1>3. Below("self") = {"grace"}
  BY <1>1 DEF Below, ApiLock
<1>4. Below("api") = {"grace", "self"}
  BY <1>1 DEF Below, ApiLock
<1>5. Below("therm") = {"grace", "self", "api"}
  BY <1>1 DEF Below, ApiLock
<1>6. Below("callback") = {"grace", "self", "api", "therm"}
  BY <1>1 DEF Below, ApiLock
<1> QED BY <1>2, <1>3, <1>4, <1>5, <1>6 DEF ApiLock

LEMMA ApiOrderFacts ==
  /\ ApiOrder.rank = Rank /\ DOMAIN ApiOrder.rank = ApiLock
  /\ \A x, m : <<x, m>> \in ApiOrder.never
       => x \in Code /\ m \in ApiLock /\ m \notin May(x.op, x.arg)
  /\ \A x \in Code : \A m \in ApiLock :
       <<x, m>> \notin ApiOrder.never => m \in May(x.op, x.arg)
  /\ ApiOrder.pairs = {<<"grace", "api">>} /\ ApiOrder.outer = {"callback"}
  /\ OrderAssumptions(ApiOrder)
  /\ Ranked(Code, ApiOrder)
<1>1. /\ ApiOrder.rank = Rank
      /\ ApiOrder.pairs = {<<"grace", "api">>} /\ ApiOrder.outer = {"callback"}
      /\ ApiOrder.never = {p \in Code \X ApiLock : p[2] \notin May(p[1].op, p[1].arg)}
  BY DEF ApiOrder
<1>2. DOMAIN Rank = ApiLock /\ Rank \in [ApiLock -> 0 .. 5]
  BY DEF Rank
<1>3. {Again, Own} \cap ApiLock = {} /\ Again \notin Mutex
  BY ApiAssumption DEF Again, Own, ApiLock
<1>4. OrderAssumptions(ApiOrder)
  BY <1>1, <1>2, <1>3 DEF OrderAssumptions, ApiLock
<1>5. ASSUME NEW x \in Code, x.op \in {"lock", "unlock"}
      PROVE  x = Do(x.op, x.arg) /\ x.arg \in ApiLock \cup {Again, Own}
  <2>1. PICK op \in {"lock", "unlock"}, l \in ApiLock \cup {Again, Own} : x = Do(op, l)
    BY <1>5, DoFacts DEF Code, CallCode, ListCode, PollCode, ApiLock
  <2> QED BY <2>1, DoFacts
<1>6. Ranked(Code, ApiOrder)
  BY <1>1, <1>2, <1>5 DEF Ranked
<1>7. \A x, m : <<x, m>> \in ApiOrder.never
        => x \in Code /\ m \in ApiLock /\ m \notin May(x.op, x.arg)
  BY <1>1
<1>8. \A x \in Code : \A m \in ApiLock :
        <<x, m>> \notin ApiOrder.never => m \in May(x.op, x.arg)
  BY <1>1
<1> QED BY <1>1, <1>2, <1>4, <1>6, <1>7, <1>8

LEMMA LessFits ==
  ASSUME NEW K, NEW L, L \subseteq K, NEW b, Fits(b, K)
  PROVE  Fits(b, L)
BY OrderlyLess DEF Fits

LEMMA EmptyFits ==
  ASSUME NEW K
  PROVE  Fits(<<>>, K)
BY ReadyEmpty, OrderlyEmpty DEF Fits

LEMMA OneFits ==
  ASSUME NEW op, op \in Free, NEW arg, Do(op, arg) \in CallCode, NEW K, K \subseteq May(op, arg)
  PROVE  Fits(<<Do(op, arg)>>, K)
<1>1. op \notin {"lock", "unlock"}
  BY DEF Free
<1>2. \A m \in K : <<Do(op, arg), m>> \notin ApiOrder.never
  BY ApiOrderFacts, DoFacts
<1> QED BY <1>1, <1>2, FreeReady, OrderlyOne DEF Fits

LEMMA JoinFits ==
  ASSUME NEW K, NEW b, NEW c, Fits(b, K), Fits(c, K)
  PROVE  Fits(b \o c, K)
<1>1. b \in Seq(CallCode) /\ c \in Seq(CallCode) /\ Balanced(c)
  BY DEF Fits, Ready
<1>2. Orderly(b \o c, K, ApiOrder)
  BY <1>1, OrderlyJoin DEF Fits
<1> QED BY <1>2, JoinReady DEF Fits

\* Code under a lock, with locks of a lower rank held.
LEMMA OrderlyUnder ==
  ASSUME NEW l \in ApiLock, NEW S, NEW b \in Seq(S), Balanced(b),
         Orderly(b, Below(l) \cup {l}, ApiOrder)
  PROVE  Orderly(With(l, b), Below(l), ApiOrder)
<1>1. \A m \in Below(l) : ApiOrder.rank[m] < ApiOrder.rank[l]
  BY ApiOrderFacts DEF Below
<1>2. l \notin Below(l)
  BY DEF Below, Rank, ApiLock
<1> QED BY <1>1, <1>2, ApiOrderFacts, OrderlyWith

LEMMA WithFits ==
  ASSUME NEW l \in ApiLock, NEW b, b # <<>>, Fits(b, Below(l) \cup {l})
  PROVE  Fits(With(l, b), Below(l))
<1>1. b \in Seq(CallCode) /\ Balanced(b) /\ Ready(b, CallCode, ApiLocks, {}, {})
  BY DEF Fits, Ready
<1>2. Orderly(With(l, b), Below(l), ApiOrder)
  BY <1>1, OrderlyUnder DEF Fits
<1>3. Ready(With(l, b), CallCode, ApiLocks, {}, {})
  BY <1>1, WithReady DEF ApiLock
<1> QED BY <1>2, <1>3 DEF Fits

\* An operation under a lock that it relies on.
LEMMA OneUnder ==
  ASSUME NEW l \in ApiLock, NEW op, op \notin {"lock", "unlock"}, NEW arg,
         Below(l) \cup {l} \subseteq May(op, arg)
  PROVE  Orderly(With(l, <<Do(op, arg)>>), Below(l), ApiOrder)
<1>1. PICK b : b = <<Do(op, arg)>>
  OBVIOUS
<1>2. \A m \in Below(l) \cup {l} : <<Do(op, arg), m>> \notin ApiOrder.never
  BY ApiOrderFacts, DoFacts
<1>3. Orderly(b, Below(l) \cup {l}, ApiOrder)
  BY <1>1, <1>2, OrderlyOne
<1>4. b \in Seq({Do(op, arg)}) /\ DOMAIN b = {1} /\ b[1].op = op
  BY <1>1, DoFacts
<1>5. Balanced(b)
  BY <1>4, DoFacts DEF Balanced, GivesBack
<1> QED BY <1>1, <1>3, <1>4, <1>5, OrderlyUnder

\* Code that starts with a lock is gone on with under locks of a lower rank.
LEMMA WithRoom ==
  ASSUME NEW l \in ApiLock, NEW b \in Seq(CallCode), NEW c \in Seq(CallCode)
  PROVE  Room(With(l, b)) = Below(l) /\ Room(With(l, b) \o c) = Below(l)
<1>1. PICK x, z, d, w : /\ x = <<Do("lock", l)>> /\ z = <<Do("unlock", l)>>
                        /\ d = x \o b /\ w = d \o z
  OBVIOUS
<1>2. x \in Seq(CallCode) /\ z \in Seq(CallCode)
  BY <1>1, LocksInCode DEF ApiLock
<1>3. Len(x) = 1 /\ x[1] = Do("lock", l) /\ Len(z) = 1
  BY <1>1
<1>4. d \in Seq(CallCode) /\ Joined(d, x, b) /\ Len(d) = Len(x) + Len(b)
  <2>1. x \o b \in Seq(CallCode) /\ Len(x \o b) = Len(x) + Len(b)
    BY <1>2, ConcatProperties
  <2>2. Joined(d, x, b)
    BY <1>1, <1>2, JoinedFacts
  <2> QED BY <1>1, <2>1, <2>2
<1>5. w \in Seq(CallCode) /\ Joined(w, d, z) /\ Len(w) = Len(d) + Len(z)
  <2>1. d \o z \in Seq(CallCode) /\ Len(d \o z) = Len(d) + Len(z)
    BY <1>2, <1>4, ConcatProperties
  <2>2. Joined(w, d, z)
    BY <1>1, <1>2, <1>4, JoinedFacts
  <2> QED BY <1>1, <2>1, <2>2
<1>6. Joined(w \o c, w, c)
  BY <1>5, JoinedFacts
<1>7. Len(b) \in Nat /\ Len(d) \in Nat /\ Len(w) \in Nat
  BY <1>4, <1>5, LenProperties
<1>8. 1 \in 1 .. Len(x) /\ 1 \in 1 .. Len(d) /\ 1 \in 1 .. Len(w)
  <2>1. PICK k, n, m : k = Len(b) /\ n = Len(d) /\ m = Len(w)
    OBVIOUS
  <2>2. k \in Nat /\ n = 1 + k /\ m = n + 1
    BY <1>3, <1>4, <1>5, <1>7, <2>1
  <2>3. 1 \in 1 .. n /\ 1 \in 1 .. m
    BY <2>2
  <2> QED BY <1>3, <2>1, <2>3
<1>9. w[1] = Do("lock", l) /\ (w \o c)[1] = Do("lock", l)
  BY <1>3, <1>4, <1>5, <1>6, <1>8 DEF Joined
<1>10. w = With(l, b)
  BY <1>1 DEF With
<1>11. With(l, b) # <<>> /\ With(l, b) \o c # <<>>
  BY LocksInCode, LockedNotEmpty DEF ApiLock
<1> QED BY <1>9, <1>10, <1>11, DoFacts DEF Room

----------------------------------------------------------------------------
(* The code of the calls and the dispatches is in order.                   *)

LEMMA MayFacts ==
  /\ \A op, arg : May(op, arg) \subseteq ApiLock
  /\ \A op, arg : op \notin {"maybe", "schedule", "ack", "sensor", "preChangeCall"}
       => May(op, arg) = ApiLock
  /\ \A op \in {"schedule", "ack", "sensor"} : \A arg :
       May(op, arg) = Below("callback")
  /\ \A b : May("maybe", b) = Room(b) \cap ApiLock
  /\ \A l : Below(l) \subseteq ApiLock
<1>1. \A op, arg : May(op, arg) \subseteq ApiLock
  BY DEF May
<1>2. \A op, arg : op \notin {"maybe", "schedule", "ack", "sensor", "preChangeCall"}
        => May(op, arg) = ApiLock
  BY DEF May
<1>3. Below("callback") = {m \in ApiLock : m # "callback"}
  BY BelowFacts DEF Below
<1>4. \A op \in {"schedule", "ack", "sensor"} : \A arg :
        May(op, arg) = Below("callback")
  BY <1>3 DEF May
<1>5. \A b : May("maybe", b) = Room(b) \cap ApiLock
  BY DEF May
<1>6. \A l : Below(l) \subseteq ApiLock
  BY DEF Below
<1> QED BY <1>1, <1>2, <1>4, <1>5, <1>6

LEMMA DispatchFits ==
  ASSUME NEW l
  PROVE  Fits(Dispatch(l), Below("callback")) /\ Below("callback") \subseteq Room(Dispatch(l))
<1>1. CASE l \notin List
  BY <1>1, EmptyFits, MayFacts DEF Dispatch, Room
<1>2. CASE l \in List
  <2>1. PICK b : b = <<Do("notify", l)>>
    OBVIOUS
  <2>2. Do("notify", l) \in CallCode
    BY <1>2 DEF CallCode
  <2>3. b \in Seq(CallCode) /\ <<>> \in Seq(CallCode) /\ Dispatch(l) = With("callback", b)
    BY <1>2, <2>1, <2>2 DEF Dispatch
  <2>4. "callback" \in ApiLock
    BY DEF ApiLock
  <2>5. Room(Dispatch(l)) = Below("callback")
    BY <2>3, <2>4, WithRoom
  <2>6. Below("callback") \cup {"callback"} \subseteq May("notify", l)
    BY <2>4, MayFacts
  <2>7. Orderly(With("callback", b), Below("callback"), ApiOrder)
    BY <2>1, <2>4, <2>6, OneUnder
  <2> QED BY <2>3, <2>5, <2>7, DispatchReady DEF Fits
<1> QED BY <1>1, <1>2

LEMMA MaybeFits ==
  ASSUME NEW b \in Bodies, NEW K, K \subseteq Room(b), K \subseteq ApiLock
  PROVE  Fits(Maybe(b), K) /\ Maybe(b) # <<>>
<1>1. K \subseteq May("maybe", b)
  BY MayFacts
<1>2. Do("maybe", b) \in CallCode
  BY DEF CallCode
<1>3. "maybe" \in Free
  BY DEF Free
<1>4. Fits(<<Do("maybe", b)>>, K)
  BY <1>1, <1>2, <1>3, OneFits
<1> QED BY <1>4 DEF Maybe

\* A call that only reads or writes.
LEMMA QueryFits ==
  Fits(Query, Below("api")) /\ \A c \in Seq(CallCode) : Room(Query \o c) = Below("api")
<1>1. Do("query", 0) \in CallCode /\ "query" \in Free /\ "api" \in ApiLock
  BY DEF CallCode, Free, ApiLock
<1>2. Below("api") \cup {"api"} \subseteq May("query", 0)
  BY <1>1, MayFacts
<1>3. PICK b : b = <<Do("query", 0)>>
  OBVIOUS
<1>4. b # <<>> /\ b \in Seq(CallCode) /\ Query = With("api", b)
  BY <1>1, <1>3 DEF Query
<1>5. Fits(b, Below("api") \cup {"api"})
  BY <1>1, <1>2, <1>3, OneFits
<1> QED BY <1>1, <1>4, <1>5, WithFits, WithRoom

\* A call that may go on after that.
LEMMA QueryMaybeFits ==
  ASSUME NEW b \in Bodies, Below("api") \subseteq Room(b)
  PROVE  Fits(Query \o Maybe(b), Below("api")) /\ Room(Query \o Maybe(b)) = Below("api")
<1>1. Fits(Maybe(b), Below("api"))
  BY MayFacts, MaybeFits
<1>2. Maybe(b) \in Seq(CallCode)
  BY <1>1 DEF Fits, Ready
<1> QED BY <1>1, <1>2, QueryFits, JoinFits

LEMMA StandbyFits ==
  Fits(SetNetworkStandbyMode, Below("api")) /\ Room(SetNetworkStandbyMode) = Below("api")
<1>1. dispatchNetworkStandbyModeChangedEvent \in Bodies
  BY DEF Bodies
<1>2. Below("api") \subseteq Room(dispatchNetworkStandbyModeChangedEvent)
  BY DispatchFits, BelowFacts DEF dispatchNetworkStandbyModeChangedEvent
<1> QED BY <1>1, <1>2, QueryMaybeFits DEF SetNetworkStandbyMode

\* The change of the power state, and its request.
LEMMA ChangeFits ==
  ASSUME NEW b, b = With("api", <<Do("begin", 0)>>) \o <<Do("submit", 0), Do("schedule", 0)>>
  PROVE  Fits(b, Below("api")) /\ Room(b) = Below("api")
<1>1. PICK x, y, z : /\ x = <<Do("begin", 0)>> /\ y = Do("submit", 0)
                     /\ z = Do("schedule", 0)
  OBVIOUS
<1>2. {Do("begin", 0), y, z} \subseteq CallCode
  BY <1>1 DEF CallCode
<1>3. PICK c : c = <<y, z>>
  OBVIOUS
<1>4. x \in Seq(CallCode) /\ x # <<>> /\ c \in Seq(CallCode) /\ b = With("api", x) \o c
  BY <1>1, <1>2, <1>3
<1>5. "api" \in ApiLock
  BY DEF ApiLock
<1>6. /\ Below("api") \cup {"api"} \subseteq May("begin", 0)
      /\ Below("api") \subseteq May("submit", 0) /\ Below("api") \subseteq May("schedule", 0)
  BY <1>5, BelowFacts, MayFacts
<1>7. Orderly(With("api", x), Below("api"), ApiOrder)
  BY <1>1, <1>5, <1>6, OneUnder
<1>8. Orderly(c, Below("api"), ApiOrder)
  <2>1. DOMAIN c = {1, 2} /\ c[1] = y /\ c[2] = z
    BY <1>3
  <2>2. \A v \in {y, z} : /\ v.op \notin {"lock", "unlock"}
                          /\ \A m \in Below("api") : <<v, m>> \notin ApiOrder.never
    BY <1>1, <1>6, ApiOrderFacts, DoFacts
  <2>3. \A i \in DOMAIN c : /\ c[i].op \notin {"lock", "unlock"}
                            /\ \A m \in Below("api") : <<c[i], m>> \notin ApiOrder.never
    BY <2>1, <2>2
  <2> QED BY <2>3, OrderlyPlain
<1>9. Balanced(c)
  <2>1. \A i \in DOMAIN c : c[i].op # "unlock"
    BY <1>1, <1>3, DoFacts
  <2> QED BY <2>1, DoFacts DEF Balanced, GivesBack
<1>10. With("api", x) \in Seq(CallCode)
  <2>1. Do("begin", 0) \in CallCode /\ "begin" \in Free
    BY <1>2 DEF Free
  <2>2. Ready(x, CallCode, ApiLocks, {}, {})
    BY <1>1, <2>1, FreeReady
  <2> QED BY <1>4, <2>2, WithReady DEF Ready
<1>11. Orderly(b, Below("api"), ApiOrder)
  BY <1>4, <1>7, <1>8, <1>9, <1>10, OrderlyJoin
<1>12. Room(b) = Below("api")
  BY <1>4, <1>5, WithRoom
<1> QED BY <1>11, <1>12, ChangeReady DEF Fits

LEMMA PowerFits ==
  Fits(SetPowerState, Below("self")) /\ Room(SetPowerState) = Below("self")
<1>1. PICK b : b = With("api", <<Do("begin", 0)>>) \o <<Do("submit", 0), Do("schedule", 0)>>
  OBVIOUS
<1>2. b \in Bodies
  BY <1>1 DEF Bodies
<1>3. PICK c : c = Query \o Maybe(b)
  OBVIOUS
<1>4. Fits(c, Below("api")) /\ Room(c) = Below("api")
  BY <1>1, <1>2, <1>3, ChangeFits, QueryMaybeFits
<1>5. c # <<>>
  <2>1. <<Do("query", 0)>> \in Seq(CallCode) /\ Maybe(b) \in Seq(CallCode)
    BY <1>2 DEF CallCode, Maybe
  <2> QED BY <1>3, <2>1, LocksInCode, LockedNotEmpty DEF Query
<1>6. "self" \in ApiLock /\ c \in Seq(CallCode) /\ <<>> \in Seq(CallCode)
  BY <1>4 DEF ApiLock, Fits, Ready
<1>7. SetPowerState = With("self", c)
  BY <1>1, <1>3 DEF SetPowerState
<1> QED BY <1>4, <1>5, <1>6, <1>7, BelowFacts, WithFits, WithRoom

\* Whatever a thread may go on with is in order where it may do so.
LEMMA BodiesFit ==
  ASSUME NEW b \in Bodies
  PROVE  Fits(b, Room(b) \cap ApiLock)
<1>1. ASSUME NEW l \in ApiLock, Fits(b, Below(l)), Room(b) = Below(l)
      PROVE  Fits(b, Room(b) \cap ApiLock)
  <2>1. Room(b) \cap ApiLock = Below(l)
    BY <1>1, MayFacts
  <2> QED BY <1>1, <2>1
<1>2. ASSUME NEW l, b = Dispatch(l)
      PROVE  Fits(b, Room(b) \cap ApiLock)
  <2>1. CASE l \notin List
    BY <1>2, <2>1, EmptyFits DEF Dispatch
  <2>2. CASE l \in List
    <3>1. "callback" \in ApiLock /\ <<Do("notify", l)>> \in Seq(CallCode)
          /\ <<>> \in Seq(CallCode)
      BY <2>2 DEF CallCode, ApiLock
    <3>2. Room(b) = Below("callback")
      BY <1>2, <2>2, <3>1, WithRoom DEF Dispatch
    <3> QED BY <1>1, <1>2, <3>1, <3>2, DispatchFits
  <2> QED BY <2>1, <2>2
<1>3. "api" \in ApiLock /\ "self" \in ApiLock
  BY DEF ApiLock
<1>4. CASE b = SetNetworkStandbyMode
  BY <1>1, <1>3, <1>4, StandbyFits
<1>5. CASE b \in {Query \o Maybe(SetNetworkStandbyMode),
                  Query \o Maybe(Query \o Maybe(SetNetworkStandbyMode))}
  <2>1. SetNetworkStandbyMode \in Bodies /\ Query \o Maybe(SetNetworkStandbyMode) \in Bodies
    BY DEF Bodies
  <2>2. Fits(b, Below("api")) /\ Room(b) = Below("api")
    BY <1>5, <2>1, StandbyFits, QueryMaybeFits
  <2> QED BY <1>1, <1>3, <2>2
<1>6. CASE b = With("api", <<Do("begin", 0)>>) \o <<Do("submit", 0), Do("schedule", 0)>>
  BY <1>1, <1>3, <1>6, ChangeFits
<1>7. CASE b = SetPowerState
  BY <1>1, <1>3, <1>7, PowerFits
<1>8. CASE b \in {dispatchNetworkStandbyModeChangedEvent, dispatchPowerModeChangedEvent}
  BY <1>2, <1>8 DEF dispatchNetworkStandbyModeChangedEvent, dispatchPowerModeChangedEvent
<1> QED BY <1>4, <1>5, <1>6, <1>7, <1>8 DEF Bodies

LEMMA ChangedFits == Fits(setDevicePowerState, Below("callback"))
<1>1. dispatchPowerModeChangedEvent \in Bodies
  BY DEF Bodies
<1>2. Below("callback") \subseteq Room(dispatchPowerModeChangedEvent)
  BY DispatchFits DEF dispatchPowerModeChangedEvent
<1> QED BY <1>1, <1>2, MayFacts, MaybeFits DEF setDevicePowerState

LEMMA AckFits == Fits(Ack, Below("api"))
<1>1. "api" \in ApiLock /\ "ack" \notin {"lock", "unlock"}
  BY DEF ApiLock
<1>2. Below("api") \cup {"api"} \subseteq May("ack", 0)
  BY BelowFacts, MayFacts
<1>3. Orderly(Ack, Below("api"), ApiOrder)
  BY <1>1, <1>2, OneUnder DEF Ack
<1> QED BY <1>3, AckReady DEF Fits

LEMMA ThermalFits == Fits(GetThermalState, Below("api"))
<1>1. "api" \in ApiLock /\ "therm" \in ApiLock /\ "thermal" \notin {"lock", "unlock"}
  BY DEF ApiLock
<1>2. Below("therm") \cup {"therm"} \subseteq May("thermal", 0)
  BY <1>1, MayFacts
<1>3. PICK b, c : b = <<Do("thermal", 0)>> /\ c = With("therm", b)
  OBVIOUS
<1>4. Orderly(c, Below("therm"), ApiOrder)
  BY <1>1, <1>2, <1>3, OneUnder
<1>5. c \in Seq(CallCode) /\ Balanced(c)
  <2>1. Do("thermal", 0) \in CallCode
    BY DEF CallCode
  <2>2. b \in Seq(CallCode) /\ b # <<>> /\ DOMAIN b = {1} /\ b[1].op = "thermal"
    BY <1>3, <2>1, DoFacts
  <2>3. /\ \A g \in ApiLocks.under \cup ApiLocks.inside : "thermal" # g[1]
        /\ \A g \in ApiLocks.first : g[2] = "therm"
    BY DEF ApiLocks
  <2>4. \A i \in DOMAIN b :
          /\ b[i].op \notin {"lock", "unlock"}
          /\ \A g \in ApiLocks.under : b[i].op = g[1] => g[2] \in {} \cup {"therm"}
          /\ \A g \in ApiLocks.inside : b[i].op = g[1] => g[2] \in {}
          /\ \A g \in ApiLocks.first : b[i].op = g[1] => i = 1 /\ g[2] = "therm"
    BY <2>2, <2>3
  <2>5. Ready(c, CallCode, ApiLocks, {}, {})
    BY <1>3, <2>2, <2>4, PlainCode, LocksInCode, ReadyWith
  <2> QED BY <2>5 DEF Ready
<1>6. Orderly(With("api", c), Below("api"), ApiOrder)
  BY <1>1, <1>4, <1>5, BelowFacts, OrderlyUnder
<1> QED BY <1>3, <1>6, ThermalReady DEF Fits, GetThermalState

\* The interval's mutex is taken under _apiLock.
LEMMA GraceFits == Fits(SetOvertempGraceInterval, {})
<1>1. "api" \in ApiLock /\ "grace" \in ApiLock /\ "query" \notin {"lock", "unlock"}
  BY DEF ApiLock
<1>2. PICK b, c : b = <<Do("query", 0)>> /\ c = With("grace", b)
  OBVIOUS
<1>3. {"grace", "api"} \subseteq May("query", 0)
  BY <1>1, MayFacts
<1>4. Orderly(b, {"api"} \cup {"grace"}, ApiOrder)
  <2>1. \A m \in {"api"} \cup {"grace"} : <<Do("query", 0), m>> \notin ApiOrder.never
    BY <1>3, ApiOrderFacts, DoFacts
  <2> QED BY <1>1, <1>2, <2>1, OrderlyOne
<1>5. b \in Seq(CallCode) /\ b # <<>> /\ DOMAIN b = {1} /\ b[1].op = "query"
  <2>1. Do("query", 0) \in CallCode
    BY DEF CallCode
  <2> QED BY <1>2, <2>1, DoFacts
<1>6. Balanced(b)
  BY <1>5, DoFacts DEF Balanced, GivesBack
<1>7. Orderly(c, {"api"}, ApiOrder)
  <2>1. \A m \in {"api"} : <<"grace", m>> \in ApiOrder.pairs /\ "grace" # m
    BY ApiOrderFacts
  <2> QED BY <1>1, <1>2, <1>4, <1>5, <1>6, <2>1, ApiOrderFacts, OrderlyWith
<1>8. c \in Seq(CallCode) /\ Balanced(c)
  <2>1. Do("query", 0) \in CallCode /\ "query" \in Free
    BY DEF CallCode, Free
  <2>2. Ready(b, CallCode, ApiLocks, {}, {})
    BY <1>2, <2>1, FreeReady
  <2> QED BY <1>2, <1>5, <2>2, WithReady DEF Ready
<1>9. Orderly(With("api", c), {}, ApiOrder)
  BY <1>1, <1>7, <1>8, ApiOrderFacts, OrderlyWith
<1> QED BY <1>2, <1>9, GraceReady DEF Fits, SetOvertempGraceInterval

\* The calls.
LEMMA RequestFits ==
  ASSUME NEW call \in Calls \cup JobCalls
  PROVE  Fits(Request(call), {})
<1>1. call \in Queries \cup Acks
        \cup {"SetPowerState", "SetOvertempGraceInterval", "GetThermalState", "Reboot",
              "SetNetworkStandbyMode", "SetWakeupSourceConfig"}
  BY ApiAssumption DEF AllCalls
<1>2. Request(call) \in {Query, Ack, GetThermalState, SetOvertempGraceInterval, Reboot,
                         SetNetworkStandbyMode, setWakeupSourceConfig, SetPowerState}
  <2>1. CASE call \in Queries
    BY <2>1 DEF Request, Queries, Acks
  <2>2. CASE call \in Acks
    BY <2>2 DEF Request, Queries, Acks
  <2>3. CASE call \notin Queries \cup Acks
    BY <1>1, <2>3 DEF Request
  <2> QED BY <2>1, <2>2, <2>3
<1>3. Fits(Reboot, Below("api"))
  <2>1. Below("api") \subseteq Below("callback")
    BY BelowFacts
  <2>2. Fits(dispatchRebootBeginEvent, Below("api"))
    BY <2>1, DispatchFits, LessFits DEF dispatchRebootBeginEvent
  <2> QED BY <2>2, QueryFits, JoinFits DEF Reboot
<1>4. Fits(setWakeupSourceConfig, Below("api"))
  <2>1. PICK b, c : b = Query \o Maybe(SetNetworkStandbyMode) /\ c = Query \o Maybe(b)
    OBVIOUS
  <2>2. SetNetworkStandbyMode \in Bodies /\ b \in Bodies /\ c \in Bodies
    BY <2>1 DEF Bodies
  <2>3. Room(b) = Below("api")
    BY <2>1, <2>2, StandbyFits, QueryMaybeFits
  <2>4. Room(c) = Below("api")
    BY <2>1, <2>2, <2>3, QueryMaybeFits
  <2>5. setWakeupSourceConfig = Query \o Maybe(c)
    BY <2>1 DEF setWakeupSourceConfig
  <2> QED BY <2>2, <2>4, <2>5, QueryMaybeFits
<1>5. \E K : Fits(Request(call), K)
  BY <1>2, <1>3, <1>4, QueryFits, AckFits, ThermalFits, GraceFits, StandbyFits,
     PowerFits
<1> QED BY <1>5, LessFits

----------------------------------------------------------------------------
(* The steps keep the order.                                               *)

\* A step goes on with code that is in order under the locks it may have.
LEMMA InOrderStep ==
  ASSUME ApiInv, LocksInOrder(ApiOrder), NEW t \in Thread,
         NEW op, op \notin {"lock", "unlock"}, At(t, op),
         NEW b \in Seq(Code), Orderly(b, May(op, Arg(t)), ApiOrder), Continue(t, b)
  PROVE  LocksInOrder(ApiOrder)'
<1>1. Disciplined(Code, ApiLocks) /\ Plain(Code, ApiLocks)
  BY PlainCode DEF ApiInv
<1>2. PICK x \in Code : x = todo[t][Place(t)] /\ x.op = op /\ x.arg = Arg(t)
  BY <1>1, AtFacts
<1>3. \A m \in DOMAIN ApiOrder.rank :
        <<todo[t][Place(t)], m>> \notin ApiOrder.never => m \in May(op, Arg(t))
  BY <1>2, ApiOrderFacts
<1> QED BY <1>1, <1>3, ApiOrderFacts, ContinueInOrder

\* What an observer asks within a notification.
LEMMA CalledStep ==
  ASSUME ApiInv, LocksInOrder(ApiOrder), NEW t \in Thread, At(t, "call"),
         NEW call \in CallbackCalls, Continue(t, Request(call))
  PROVE  LocksInOrder(ApiOrder)'
<1>1. Disciplined(Code, ApiLocks) /\ Plain(Code, ApiLocks)
  BY PlainCode DEF ApiInv
<1>2. /\ todo[t] \in Seq(Code) /\ Place(t) \in DOMAIN todo[t]
      /\ todo[t][Place(t)].op = "call"
  BY <1>1, AtFacts
<1>3. /\ <<"call", "callback">> \in ApiLocks.inside
      /\ <<"call", "callback">>[1] = "call" /\ <<"call", "callback">>[2] = "callback"
  BY DEF ApiLocks
<1>4. Holds(t, "callback")
  BY <1>1, <1>2, <1>3, InsideHolds DEF Disciplined
<1>5. HeldAfter(todo[t], Place(t), "callback")
  BY <1>1, <1>4, HeldHere
<1>6. Request(call) \in Seq(Code)
  BY RequestReady, ReadyCode DEF Ready
<1>7. \E m \in ApiOrder.outer : HeldAfter(todo[t], Place(t), m)
  BY <1>5, ApiOrderFacts
<1> QED BY <1>1, <1>6, <1>7, ApiOrderFacts, ContinueInOrder

LEMMA FittingStep ==
  ASSUME ApiInv, LocksInOrder(ApiOrder), NEW t \in Thread,
         NEW op, op \notin {"lock", "unlock"}, At(t, op),
         NEW b, NEW K, Fits(b, K), May(op, Arg(t)) \subseteq K, Continue(t, b)
  PROVE  LocksInOrder(ApiOrder)'
<1>1. Fits(b, May(op, Arg(t)))
  BY LessFits
<1>2. b \in Seq(Code) /\ Orderly(b, May(op, Arg(t)), ApiOrder)
  <2>1. Ready(b, CallCode, ApiLocks, {}, {})
    BY DEF Fits
  <2> QED BY <1>1, <2>1, ReadyCode DEF Fits, Ready
<1> QED BY <1>2, InOrderStep

LEMMA LastStep ==
  ASSUME ApiInv, LocksInOrder(ApiOrder), NEW t \in Thread,
         NEW op, op \notin {"lock", "unlock"}, At(t, op), Continue(t, <<>>)
  PROVE  LocksInOrder(ApiOrder)'
BY EmptyFits, FittingStep

\* An operation goes on with one for each observer of a list.
LEMMA EachStep ==
  ASSUME ApiInv, LocksInOrder(ApiOrder), NEW t \in Thread,
         NEW op, op \notin {"lock", "unlock"}, At(t, op),
         NEW S, S \subseteq Code, \A x \in S : x.op \in {"call", "job"},
         NEW n \in Nat, NEW b \in [1 .. n -> S], Continue(t, b)
  PROVE  LocksInOrder(ApiOrder)'
<1>1. b \in Seq(Code) /\ \A i \in DOMAIN b : b[i] \in S
  OBVIOUS
<1>2. \A x \in S : /\ x.op \notin {"lock", "unlock"}
                   /\ \A m \in ApiLock : <<x, m>> \notin ApiOrder.never
  BY ApiOrderFacts, MayFacts
<1>3. Orderly(b, May(op, Arg(t)), ApiOrder)
  <2>1. \A i \in DOMAIN b : /\ b[i].op \notin {"lock", "unlock"}
                            /\ \A m \in May(op, Arg(t)) : <<b[i], m>> \notin ApiOrder.never
    BY <1>1, <1>2, MayFacts
  <2> QED BY <2>1, OrderlyPlain
<1> QED BY <1>1, <1>3, InOrderStep

LEMMA DispatchSteps ==
  ASSUME ApiInv, LocksInOrder(ApiOrder), NEW t \in Thread,
         Notify(t) \/ submitPowerModePreChangeEvent(t)
  PROVE  LocksInOrder(ApiOrder)'
<1>1. CASE Notify(t)
  <2>1. At(t, "notify") /\ Disciplined(Code, ApiLocks)
    BY <1>1 DEF Notify, ApiInv
  <2>2. Arg(t) \in List
    BY <2>1, PlainCode, AtFacts, CodeFacts
  <2>3. PICK l \in List : l = Arg(t)
    BY <2>2
  <2>4. PICK O : O = observers[l]
    OBVIOUS
  <2>5. O \subseteq Observer /\ IsFiniteSet(O)
    BY <2>4 DEF ApiInv, TypeOK, FiniteLists
  <2>6. PICK n, q : n = Cardinality(O) /\ q = SetToSeq(O)
    OBVIOUS
  <2>7. n \in Nat /\ q \in [1 .. n -> O]
    BY <2>5, <2>6, Enumerated
  <2>8. PICK b : b = [i \in 1 .. n |-> Do("call", <<l, q[i]>>)]
    OBVIOUS
  <2>9. Continue(t, b)
    BY <1>1, <2>3, <2>4, <2>6, <2>8 DEF Notify, Each
  <2>10. PICK S : S = {Do("call", <<l, o>>) : o \in Observer}
    OBVIOUS
  <2>11. b \in [1 .. n -> S]
    BY <2>5, <2>7, <2>8, <2>10
  <2>12. S \subseteq Code /\ \A x \in S : x.op = "call"
    <3>1. ASSUME NEW o \in Observer
          PROVE  Do("call", <<l, o>>) \in Code
      BY DEF Code, ListCode
    <3>2. \A x \in S : x.op = "call"
      BY <2>10, DoFacts
    <3> QED BY <2>10, <3>1, <3>2
  <2> QED BY <2>1, <2>7, <2>9, <2>11, <2>12, EachStep
<1>2. CASE submitPowerModePreChangeEvent(t)
  <2>1. At(t, "submit")
    BY <1>2 DEF submitPowerModePreChangeEvent
  <2>2. CASE "preChange" \notin List
    <3>1. Continue(t, <<>>)
      BY <1>2, <2>2 DEF submitPowerModePreChangeEvent
    <3> QED BY <2>1, <3>1, LastStep
  <2>3. CASE "preChange" \in List
    <3>1. PICK O : O = observers["preChange"]
      OBVIOUS
    <3>2. O \subseteq Observer /\ IsFiniteSet(O)
      BY <2>3, <3>1 DEF ApiInv, TypeOK, FiniteLists
    <3>3. PICK n, q : n = Cardinality(O) /\ q = SetToSeq(O)
      OBVIOUS
    <3>4. n \in Nat /\ q \in [1 .. n -> O]
      BY <3>2, <3>3, Enumerated
    <3>5. PICK b : b = [i \in 1 .. n |-> Do("job", q[i])]
      OBVIOUS
    <3>6. Continue(t, b)
      BY <1>2, <2>3, <3>1, <3>3, <3>5 DEF submitPowerModePreChangeEvent, Each
    <3>7. PICK S : S = {Do("job", o) : o \in Observer}
      OBVIOUS
    <3>8. b \in [1 .. n -> S]
      BY <3>2, <3>4, <3>5, <3>7
    <3>9. S \subseteq Code /\ \A x \in S : x.op = "job"
      BY <3>7, DoFacts DEF Code, CallCode
    <3> QED BY <2>1, <3>4, <3>6, <3>8, <3>9, EachStep
  <2> QED BY <2>2, <2>3
<1> QED BY <1>1, <1>2

\* The operations that go on with calls and dispatches.
LEMMA OuterSteps ==
  ASSUME ApiInv, LocksInOrder(ApiOrder), NEW t \in Thread,
         MaybeGoOn(t) \/ Schedule(t) \/ AckStep(t) \/ ObserverCalled(t)
  PROVE  LocksInOrder(ApiOrder)'
<1>1. CASE MaybeGoOn(t)
  <2>1. At(t, "maybe") /\ Disciplined(Code, ApiLocks)
    BY <1>1 DEF MaybeGoOn, ApiInv
  <2>2. Arg(t) \in Bodies
    BY <2>1, PlainCode, AtFacts, CodeFacts
  <2>3. PICK b \in {<<>>, Arg(t)} : Continue(t, b)
    BY <1>1 DEF MaybeGoOn
  <2>4. Fits(b, Room(Arg(t)) \cap ApiLock)
    BY <2>2, <2>3, EmptyFits, BodiesFit
  <2>5. May("maybe", Arg(t)) \subseteq Room(Arg(t)) \cap ApiLock
    BY MayFacts
  <2> QED BY <2>1, <2>3, <2>4, <2>5, FittingStep
<1>2. CASE Schedule(t) \/ AckStep(t)
  <2>1. PICK op \in {"schedule", "ack"}, b \in {<<>>, setDevicePowerState} :
          At(t, op) /\ Continue(t, b)
    BY <1>2 DEF Schedule, AckStep
  <2>2. May(op, Arg(t)) \subseteq Below("callback")
    BY MayFacts
  <2>3. Fits(b, Below("callback"))
    BY ChangedFits, EmptyFits
  <2> QED BY <2>1, <2>2, <2>3, FittingStep
<1>3. CASE ObserverCalled(t)
  <2>1. CASE Continue(t, <<>>)
    <3>1. PICK op \in {"call", "preChangeCall"} : At(t, op)
      BY <1>3 DEF ObserverCalled
    <3> QED BY <2>1, <3>1, LastStep
  <2>2. CASE ~Continue(t, <<>>)
    <3>1. CASE At(t, "call")
      <4>1. PICK call \in CallbackCalls : Continue(t, Request(call))
        BY <1>3, <2>2, <3>1 DEF ObserverCalled
      <4> QED BY <3>1, <4>1, CalledStep
    <3>2. CASE ~At(t, "call")
      <4>1. PICK call \in JobCalls : Continue(t, Request(call))
        BY <1>3, <2>2, <3>2 DEF ObserverCalled
      <4>2. At(t, "preChangeCall")
        BY <1>3, <3>2 DEF ObserverCalled
      <4>3. May("preChangeCall", Arg(t)) = {}
        BY DEF May
      <4>4. Fits(Request(call), {})
        BY <4>1, RequestFits
      <4> QED BY <4>1, <4>2, <4>3, <4>4, FittingStep
    <3> QED BY <3>1, <3>2
  <2> QED BY <2>1, <2>2
<1> QED BY <1>1, <1>2, <1>3

\* The poll tells a reading with the mutex of the controller held.
LEMMA PollOrder ==
  ASSUME ApiInv, LocksInOrder(ApiOrder),
         onThermalTemperatureChanged \/ TellReading \/ StoreReading
  PROVE  LocksInOrder(ApiOrder)'
<1>1. Poll \in Thread
  BY ApiAssumption
<1>2. CASE \/ TellReading \/ StoreReading
           \/ onThermalTemperatureChanged /\ Continue(Poll, <<>>)
  <2>1. PICK op \in {"tell", "store", "sensor"} : At(Poll, op) /\ Continue(Poll, <<>>)
    BY <1>2 DEF TellReading, StoreReading, onThermalTemperatureChanged
  <2> QED BY <1>1, <2>1, LastStep
<1>3. CASE onThermalTemperatureChanged /\ ~Continue(Poll, <<>>)
  <2>1. PICK new \in Reading :
          Continue(Poll, <<Do("tell", new)>> \o dispatchThermalModeChangedEvent
                           \o <<Do("store", new)>>)
    BY <1>3 DEF onThermalTemperatureChanged
  <2>2. PICK x, y, z, c, b : /\ x = <<Do("tell", new)>> /\ z = <<Do("store", new)>>
                             /\ y = dispatchThermalModeChangedEvent
                             /\ c = x \o y /\ b = c \o z
    OBVIOUS
  <2>3. PICK K : K = Below("callback")
    OBVIOUS
  <2>4. {Do("tell", new), Do("store", new)} \subseteq Code
    BY DEF Code, PollCode
  <2>5. \A op \in {"tell", "store"} : \A m \in K : <<Do(op, new), m>> \notin ApiOrder.never
    BY <2>3, ApiOrderFacts, MayFacts, DoFacts
  <2>6. Orderly(x, K, ApiOrder) /\ Orderly(z, K, ApiOrder)
    BY <2>2, <2>5, OrderlyOne
  <2>7. x \in Seq(Code) /\ z \in Seq(Code)
    BY <2>2, <2>4
  <2>8. Orderly(y, K, ApiOrder) /\ y \in Seq(Code) /\ Balanced(y)
    <3>1. Fits(y, K)
      BY <2>2, <2>3, DispatchFits DEF dispatchThermalModeChangedEvent
    <3>2. Ready(y, CallCode, ApiLocks, {}, {})
      BY <3>1 DEF Fits
    <3> QED BY <3>1, <3>2, ReadyCode DEF Fits, Ready
  <2>9. Balanced(z)
    <3>1. DOMAIN z = {1} /\ z[1].op = "store"
      BY <2>2, DoFacts
    <3> QED BY <3>1, DoFacts DEF Balanced, GivesBack
  <2>10. Orderly(c, K, ApiOrder) /\ c \in Seq(Code)
    BY <2>2, <2>6, <2>7, <2>8, OrderlyJoin, ConcatProperties
  <2>11. Orderly(b, K, ApiOrder) /\ b \in Seq(Code)
    BY <2>2, <2>6, <2>7, <2>9, <2>10, OrderlyJoin, ConcatProperties
  <2>12. May("sensor", Arg(Poll)) = K /\ At(Poll, "sensor")
    BY <1>3, <2>3, MayFacts DEF onThermalTemperatureChanged
  <2> QED BY <1>1, <2>1, <2>2, <2>11, <2>12, InOrderStep
<1> QED BY <1>2, <1>3

\* What is started is in order.
LEMMA StartsInOrder ==
  ASSUME ApiInv, LocksInOrder(ApiOrder),
         \/ \E t \in Client : ClientCalls(t)
         \/ pollThermalLevels \/ onDeepSleepTimerWakeup \/ onDeepSleepEnds
         \/ AckTimeout \/ RunJob
  PROVE  LocksInOrder(ApiOrder)'
<1>1. /\ todo \in [Thread -> Seq(Code)] /\ TypeOK
      /\ Client \cup {Poll, Sleep, Timer, Worker} \subseteq Thread
  BY ApiAssumption DEF ApiInv, Disciplined
<1>2. ASSUME NEW t \in Thread, NEW b, NEW K, Orderly(b, K, ApiOrder), Start(t, b)
      PROVE  LocksInOrder(ApiOrder)'
  BY <1>1, <1>2, StartInOrder DEF Orderly
<1>3. ASSUME NEW t \in Client, ClientCalls(t)
      PROVE  LocksInOrder(ApiOrder)'
  <2>1. ASSUME NEW call \in Calls, Start(t, Request(call))
        PROVE  LocksInOrder(ApiOrder)'
    <3>1. Fits(Request(call), {})
      BY RequestFits
    <3> QED BY <1>1, <1>2, <2>1, <3>1 DEF Fits
  <2>2. ASSUME NEW l \in List, NEW o \in Observer,
               Start(t, RegisterCall(l, o)) \/ Start(t, UnregisterCall(l, o))
        PROVE  LocksInOrder(ApiOrder)'
    <3>1. PICK op \in {"register", "unregister"} :
            Start(t, With("callback", <<Do(op, <<l, o>>)>>))
      BY <2>2 DEF RegisterCall, UnregisterCall
    <3>2. "callback" \in ApiLock /\ op \notin {"lock", "unlock"}
      BY DEF ApiLock
    <3>3. Below("callback") \cup {"callback"} \subseteq May(op, <<l, o>>)
      BY <3>2, MayFacts
    <3>4. PICK d : d = <<l, o>>
      OBVIOUS
    <3>5. Orderly(With("callback", <<Do(op, d)>>), Below("callback"), ApiOrder)
      BY <3>2, <3>3, <3>4, OneUnder
    <3> QED BY <1>1, <1>2, <3>1, <3>4, <3>5
  <2> QED BY <1>3, <2>1, <2>2 DEF ClientCalls
<1>4. CASE pollThermalLevels
  <2>1. PICK q, w, g, c, b : /\ q = Query /\ w = With("therm", <<Do("sensor", 0)>>)
                             /\ g = With("grace", Maybe(SetPowerState))
                             /\ c = q \o w /\ b = c \o g
    OBVIOUS
  <2>2. "therm" \in ApiLock /\ "grace" \in ApiLock
    BY DEF ApiLock
  <2>3. Orderly(q, {}, ApiOrder) /\ q \in Seq(Code)
    <3>1. Fits(q, {})
      BY <2>1, QueryFits, LessFits
    <3>2. Ready(q, CallCode, ApiLocks, {}, {})
      BY <3>1 DEF Fits
    <3> QED BY <3>1, <3>2, ReadyCode DEF Fits, Ready
  <2>4. Orderly(w, {}, ApiOrder)
    <3>1. Below("therm") \cup {"therm"} \subseteq May("sensor", 0)
      BY BelowFacts, MayFacts
    <3>2. Orderly(w, Below("therm"), ApiOrder)
      BY <2>1, <2>2, <3>1, OneUnder
    <3> QED BY <3>2, OrderlyLess
  <2>5. w \in Seq(Code) /\ Balanced(w)
    <3>1. PICK y : y = <<Do("sensor", 0)>>
      OBVIOUS
    <3>2. Do("sensor", 0) \in Code
      BY DEF Code, PollCode
    <3>3. y \in Seq(Code) /\ y # <<>> /\ DOMAIN y = {1} /\ y[1].op = "sensor"
      BY <3>1, <3>2, DoFacts
    <3>4. /\ \A p \in ApiLocks.under : "sensor" = p[1] => p[2] \in {} \cup {"therm"}
          /\ \A p \in ApiLocks.inside \cup ApiLocks.first : "sensor" # p[1]
      BY DEF ApiLocks
    <3>5. \A i \in DOMAIN y :
            /\ y[i].op \notin {"lock", "unlock"}
            /\ \A p \in ApiLocks.under : y[i].op = p[1] => p[2] \in {} \cup {"therm"}
            /\ \A p \in ApiLocks.inside : y[i].op = p[1] => p[2] \in {}
            /\ \A p \in ApiLocks.first : y[i].op = p[1] => i = 1 /\ p[2] = "therm"
      BY <3>3, <3>4
    <3>6. {Do("lock", "therm"), Do("unlock", "therm")} \subseteq Code
      BY LocksInCode DEF Code
    <3>7. Ready(With("therm", y), Code, ApiLocks, {}, {})
      BY <3>3, <3>5, <3>6, PlainCode, ReadyWith
    <3> QED BY <2>1, <3>1, <3>7 DEF Ready
  <2>6. Orderly(g, {}, ApiOrder) /\ g \in Seq(Code) /\ Balanced(g)
    <3>1. SetPowerState \in Bodies
      BY DEF Bodies
    <3>2. Fits(Maybe(SetPowerState), Below("self")) /\ Maybe(SetPowerState) # <<>>
      BY <3>1, PowerFits, MayFacts, MaybeFits
    <3>3. Fits(g, Below("grace"))
      BY <2>1, <2>2, <3>2, BelowFacts, WithFits
    <3>4. Ready(g, CallCode, ApiLocks, {}, {})
      BY <3>3 DEF Fits
    <3> QED BY <3>3, <3>4, BelowFacts, ReadyCode DEF Fits, Ready
  <2>7. Orderly(c, {}, ApiOrder) /\ c \in Seq(Code)
    BY <2>1, <2>3, <2>4, <2>5, OrderlyJoin, ConcatProperties
  <2>8. Orderly(b, {}, ApiOrder)
    BY <2>1, <2>6, <2>7, OrderlyJoin
  <2>9. Start(Poll, b)
    BY <1>4, <2>1 DEF pollThermalLevels
  <2> QED BY <1>1, <1>2, <2>8, <2>9
<1>5. CASE onDeepSleepTimerWakeup \/ onDeepSleepEnds
  <2>1. PICK b \in {dispatchDeepSleepTimeoutEvent \o SetPowerState, SetPowerState} :
          Start(Sleep, b)
    BY <1>5 DEF onDeepSleepTimerWakeup, onDeepSleepEnds
  <2>2. Below("self") \subseteq Below("callback")
    BY BelowFacts
  <2>3. Fits(dispatchDeepSleepTimeoutEvent, Below("self"))
    BY <2>2, DispatchFits, LessFits DEF dispatchDeepSleepTimeoutEvent
  <2>4. Fits(b, Below("self"))
    BY <2>1, <2>3, PowerFits, JoinFits
  <2> QED BY <1>1, <1>2, <2>1, <2>4 DEF Fits
<1>6. CASE AckTimeout
  <2>1. Start(Timer, setDevicePowerState)
    BY <1>6 DEF AckTimeout
  <2> QED BY <1>1, <1>2, <2>1, ChangedFits DEF Fits
<1>7. CASE RunJob
  <2>1. PICK o \in jobs : Start(Worker, <<Do("preChangeCall", o)>>)
    BY <1>7 DEF RunJob
  <2>2. Orderly(<<Do("preChangeCall", o)>>, {}, ApiOrder)
    BY OrderlyOne
  <2> QED BY <1>1, <1>2, <2>1, <2>2
<1> QED BY <1>3, <1>4, <1>5, <1>6, <1>7

LEMMA ApiOrderKept ==
  ASSUME ApiInv, LocksInOrder(ApiOrder), [Next]_vars
  PROVE  LocksInOrder(ApiOrder)'
<1>1. ASSUME NEW t \in Thread, Step(t)
      PROVE  LocksInOrder(ApiOrder)'
  <2>1. CASE TakeOuterLock(t)
    <3>1. Acquire(t) /\ todo \in [Thread -> Seq(Code)]
      BY <2>1 DEF TakeOuterLock, ApiInv, Disciplined
    <3> QED BY <3>1, AcquireInOrder
  <2>2. CASE Register(t) \/ Unregister(t) \/ SubmitJob(t) \/ Return(t) \/ Begin(t)
    <3>1. PICK op \in {"register", "unregister", "job", "query", "thermal", "begin"} :
            At(t, op) /\ Continue(t, <<>>)
      BY <2>2 DEF Register, Unregister, SubmitJob, Return, Begin
    <3> QED BY <3>1, LastStep
  <2> QED BY <1>1, <2>1, <2>2, DispatchSteps, OuterSteps DEF Step
<1>2. CASE \/ \E t \in Client : ClientCalls(t)
           \/ pollThermalLevels \/ onDeepSleepTimerWakeup \/ onDeepSleepEnds
           \/ AckTimeout \/ RunJob
  BY <1>2, StartsInOrder
<1>3. CASE onThermalTemperatureChanged \/ TellReading \/ StoreReading
  BY <1>3, PollOrder
<1>4. CASE UNCHANGED vars
  <2>1. UNCHANGED todo
    BY <1>4 DEF vars
  <2> QED BY <2>1 DEF LocksInOrder, InOrder, Inner, Placed, HeldAfter
<1> QED BY <1>1, <1>2, <1>3, <1>4 DEF Next

----------------------------------------------------------------------------
(* The theorems.                                                           *)

LEMMA ApiInvInitially == Init => ApiInv
<1> SUFFICES ASSUME Init PROVE ApiInv
  OBVIOUS
<1>1. \A t \in Thread : todo[t] = <<>>
  BY DEF Init, ThreadsInit
<1>2. Disciplined(Code, ApiLocks)
  BY InitDisciplined DEF Init
<1>3. \A x : ~Includes(<<>>, x)
  BY DEF Includes
<1>4. \A t \in Thread : Lone(todo[t]) /\ Called(todo[t])
  BY <1>1, <1>3 DEF Lone, Called
<1>5. Poll \in Thread
  BY ApiAssumption
<1>6. Ordered(todo[Poll]) /\ Pending(todo[Poll])
  <2>1. DOMAIN <<>> = {}
    OBVIOUS
  <2> QED BY <1>1, <1>3, <1>5, <2>1 DEF Ordered, Pending, Init
<1>7. TypeOK /\ FiniteLists
  BY FS_EmptySet DEF Init, TypeOK, FiniteLists
<1> QED BY <1>2, <1>4, <1>6, <1>7 DEF ApiInv

LEMMA ApiInvKept == ApiInv /\ [Next]_vars => ApiInv'
<1> SUFFICES ASSUME ApiInv, [Next]_vars PROVE ApiInv'
  OBVIOUS
<1>1. ASSUME NEW t \in Thread, Step(t)
      PROVE  ApiInv'
  BY <1>1, TakesLock, ListChanges, Notifies, Submits, CallSteps DEF Step
<1>2. CASE \/ \E t \in Client : ClientCalls(t)
           \/ onDeepSleepTimerWakeup \/ onDeepSleepEnds \/ AckTimeout \/ RunJob
  BY <1>2, CallStarts
<1>3. CASE pollThermalLevels
  BY <1>3, PollStarts
<1>4. CASE onThermalTemperatureChanged
  BY <1>4, SensorRead
<1>5. CASE TellReading \/ StoreReading
  BY <1>5, ReadingToldAndStored
<1>6. CASE UNCHANGED vars
  <2>1. UNCHANGED <<todo, observers, reading, told, change, jobs>>
    BY <1>6 DEF vars, api
  <2> QED BY <2>1 DEF ApiInv, TypeOK, FiniteLists, Called, Pending, Disciplined,
             Exclusive, Holds
<1> QED BY <1>1, <1>2, <1>3, <1>4, <1>5, <1>6 DEF Next

LEMMA ApiInvAlways == Spec => []ApiInv
BY ApiInvInitially, ApiInvKept, PTL DEF Spec

\* The variables have their types, whatever the calls and their order.
THEOREM ApiTypeCorrect == Spec => []TypeOK
<1>1. ApiInv => TypeOK
  BY DEF ApiInv
<1> QED BY <1>1, ApiInvAlways, PTL

\* An observer that a dispatch calls or is about to call is in its list, so the
\* plugin holds its reference: Unregister and the dispatch exclude each other
\* by _callbackLock, and a notification does not unregister.
THEOREM CalledAreRegistered == Spec => []CalledIsRegistered
<1>1. ApiInv => CalledIsRegistered
  BY DEF ApiInv, Called, CalledIsRegistered, Includes
<1> QED BY <1>1, ApiInvAlways, PTL

\* A client never reads a temperature that is older than the reading the observers
\* were told last: it is told and stored in one critical section of
\* ThermalController's mutex, and read under that mutex.
THEOREM ReadingsAreAsTold == Spec => []ThermalStateAsTold
<1>1. ASSUME ApiInv, NEW t \in Thread, At(t, "thermal"), reading # told
      PROVE  FALSE
  <2>1. Disciplined(Code, ApiLocks) /\ Poll \in Thread
    BY <1>1, ApiAssumption DEF ApiInv
  <2>2. PICK i \in DOMAIN todo[Poll] : todo[Poll][i] = Do("store", told)
    BY <1>1 DEF ApiInv, Pending, Includes
  <2>3. todo[Poll][i].op = "store"
    BY <2>2, DoFacts
  <2>4. /\ <<"store", "therm">> \in ApiLocks.inside
        /\ <<"store", "therm">>[1] = "store" /\ <<"store", "therm">>[2] = "therm"
        /\ <<"thermal", "therm">> \in ApiLocks.first
        /\ <<"thermal", "therm">>[1] = "thermal" /\ <<"thermal", "therm">>[2] = "therm"
    BY DEF ApiLocks
  <2>5. Sound(todo[Poll], Code, ApiLocks) /\ Sound(todo[t], Code, ApiLocks)
    BY <2>1 DEF Disciplined
  <2>6. Holds(Poll, "therm")
    BY <2>2, <2>3, <2>4, <2>5, InsideHolds
  <2>7. \A j \in 1 .. i - 1 : todo[Poll][j] # Do("lock", "therm")
    BY <2>2, <2>3, <2>4, <2>5 DEF Sound
  <2>8. /\ Place(t) \in DOMAIN todo[t] /\ todo[t][Place(t)].op = "thermal"
        /\ todo[t] \in Seq(Code)
    BY <1>1, <2>1, PlainCode, AtFacts
  <2>9. Place(t) > 1 /\ todo[t][Place(t) - 1] \in Taking("therm")
    BY <2>4, <2>5, <2>8 DEF Sound
  <2>10. Place(t) = 2 /\ todo[t][1] \in Taking("therm")
    BY <2>9 DEF Place
  <2>11. todo[t][1] \in {Do("lock", "therm"), Do("lock", Own)}
    BY <2>10, ApiAssumption DEF Taking
  <2>12. todo[t][1].op = "lock" /\ todo[t][1].arg \in {"therm", Own}
    BY <2>11, DoFacts
  <2>13. CanTake(t, todo[t][1].arg)
    BY <1>1, <2>12 DEF At, Waiting, Locking
  <2>14. todo[t][1].arg = "therm" /\ todo[t][1] = Do("lock", "therm")
    BY <2>11, <2>12, <2>13, DoFacts DEF CanTake, Again, Own
  <2>15. CASE t = Poll
    <3>1. i # 1
      BY <2>3, <2>12, <2>15
    <3>2. 1 \in 1 .. i - 1
      BY <2>2, <2>8, <2>15, <3>1
    <3> QED BY <2>7, <2>14, <2>15, <3>2
  <2>16. CASE t # Poll
    BY <2>1, <2>6, <2>13, <2>14, <2>16 DEF CanTake, Again, Own
  <2> QED BY <2>15, <2>16
<1>2. ApiInv => ThermalStateAsTold
  BY <1>1 DEF ThermalStateAsTold
<1> QED BY <1>2, ApiInvAlways, PTL

\* The plugin's threads wait for each other's locks in two ways only: with an
\* observer that asks within a notification, or in SetOvertempGraceInterval, which
\* takes the interval's mutex under _apiLock.  But for these the interval's mutex,
\* the semaphore of SetPowerState, _apiLock, the controller's mutex and
\* _callbackLock are taken in this order.
THEOREM ApiLocksAreOrdered == Spec => []NoOtherLockCycle
<1>1. Init => ApiInv /\ LocksInOrder(ApiOrder)
  BY ApiInvInitially, InitOrdered DEF Init
<1>2. ApiInv /\ LocksInOrder(ApiOrder) /\ [Next]_vars
        => ApiInv' /\ LocksInOrder(ApiOrder)'
  BY ApiInvKept, ApiOrderKept
<1>3. ASSUME ApiInv, LocksInOrder(ApiOrder),
             NEW S \in (SUBSET {t \in Thread : Waiting(t) /\ ~Entangled(t)}) \ {{}},
             \A t \in S : \E u \in S : WaitsForLock(t, u)
      PROVE  FALSE
  <2>1. S \in SUBSET {t \in Thread : Waiting(t)} /\ S # {}
    BY <1>3
  <2>2. PICK t \in S :
          \/ \E m \in ApiOrder.outer : Holds(t, m)
          \/ \E m \in DOMAIN ApiOrder.rank :
               Holds(t, m) /\ <<todo[t][1].arg, m>> \in ApiOrder.pairs
    BY <1>3, <2>1, ApiOrderFacts, OrderNoCycle DEF ApiInv, Disciplined
  <2>3. Entangled(t)
    BY <2>2, ApiOrderFacts DEF Entangled
  <2> QED BY <1>3, <2>3
<1>4. ApiInv /\ LocksInOrder(ApiOrder) => NoOtherLockCycle
  BY <1>3 DEF NoOtherLockCycle
<1> QED BY <1>1, <1>2, <1>4, PTL DEF Spec

=============================================================================
