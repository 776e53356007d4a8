----------------------- MODULE ClientLibrary_proof -----------------------
(***************************************************************************)
(* What the client library keeps for any application, callbacks and calls, *)
(* under CallsAssumption: the types, that a request uses an interface the  *)
(* library still holds, that a callback about to be called is in its list, *)
(* unless Term deleted the lists under the dispatch, that the plugin knows *)
(* the lists with a callback once everything has settled, unless a list    *)
(* was updated from both sides at once, and that threads do not wait for   *)
(* each other's locks, unless one is in a callback that makes requests.    *)
(*                                                                         *)
(* The locks are those of Threads_proof, under the discipline ClientLocks  *)
(* and in the order ClientOrder; the subscriptions rest on SubscribeInv.   *)
(***************************************************************************)
EXTENDS ClientLibrary, Threads_proof

Lock == {"capi", "internal", "callback"}

\* The operations without an argument.
Bare == {"attach", "detach", "drop", "open", "stop", "join", "close", "closed",
         "new", "destroy", "delete", "instance"}

\* What PowerController_Disconnect and UnRegister do when initialized.
Unregistering == {UnRegisterCallback(l, c) : l \in List, c \in Callback}

Guarded == {<<>>, DisconnectBody(FALSE)} \cup Unregistering

LockCode == {Do(op, l) : op \in {"lock", "unlock"}, l \in Lock \cup {Again, Own}}

BareCode == {Do(op, 0) : op \in Bare}

ValueCode ==
  {Do("mark", b) : b \in BOOLEAN}
    \cup {Do("pid", n) : n \in Nat}
    \cup {Do("guarded", b) : b \in Guarded}
    \cup {Do("proxy", call) : call \in AllCalls}
    \cup {Do("invoke", x) : x \in AllCalls \X Nat}

\* On a list, on what the plugin is asked about it, on one of its callbacks.
ListCode == {Do(op, l) : op \in {"register", "notify", "tell"}, l \in List}

SubscribeCode == {Do("subscribe", <<l>>) : l \in List}

UpdateCode ==
  {Do(op, x) : op \in {"unregister", "unsubscribe", "latch"}, x \in List \X BOOLEAN}

CallbackCode == {Do(op, x) : op \in {"add", "remove", "call"}, x \in List \X Callback}

Code ==
  LockCode \cup BareCode \cup ValueCode \cup ListCode \cup SubscribeCode
    \cup UpdateCode \cup CallbackCode

\* The interface is written, and used by a request, under the lock of the
\* connection; a callback is called within the dispatch of its list.
ClientLocks ==
  [under  |-> {<<"remove", "callback">>, <<"notify", "callback">>,
               <<"attach", "internal">>, <<"detach", "internal">>,
               <<"new", "internal">>, <<"proxy", "internal">>},
   inside |-> {<<"call", "callback">>, <<"drop", "internal">>,
               <<"invoke", "internal">>},
   first  |-> {}]

\* The operations that rely on a lock.
Relying == {"remove", "notify", "attach", "detach", "new", "proxy", "call",
            "drop", "invoke"}

WorldOK ==
  world \in [pid : Nat, written : BOOLEAN, plugin : 0 .. MaxRestarts,
             up : BOOLEAN, channel : Nat, reported : Nat,
             subscribed : SUBSET List]

FiniteLists == \A l \in List : IsFiniteSet(cbs[l])

Values == TypeOK /\ WorldOK /\ FiniteLists

\* A request in the plugin is the first thing its thread has to do.
Invoked(s) ==
  \A i \in DOMAIN s : s[i].op = "invoke" => i = 1 /\ s[i].arg[2] = iface

ClientInv ==
  /\ Values
  /\ Disciplined(Code, ClientLocks)
  /\ \A t \in Thread : Invoked(todo[t])

----------------------------------------------------------------------------
(* The code keeps the discipline.                                          *)

LEMMA OperationsOf ==
  /\ \A x \in LockCode : x.op \in {"lock", "unlock"} /\ x = Do(x.op, x.arg)
  /\ \A x \in BareCode : x.op \in Bare
  /\ \A x \in ValueCode : x.op \in {"mark", "pid", "guarded", "proxy", "invoke"}
  /\ \A x \in ListCode : x.op \in {"register", "notify", "tell"} /\ x.arg \in List
  /\ \A x \in SubscribeCode : x.op = "subscribe" /\ \E l \in List : x.arg = <<l>>
  /\ \A x \in UpdateCode : /\ x.op \in {"unregister", "unsubscribe", "latch"}
                          /\ x.arg \in List \X BOOLEAN
  /\ \A x \in CallbackCode : /\ x.op \in {"add", "remove", "call"}
                            /\ x.arg \in List \X Callback
<1>1. \A x \in LockCode : x.op \in {"lock", "unlock"} /\ x = Do(x.op, x.arg)
  BY DoFacts DEF LockCode
<1>2. \A x \in BareCode : x.op \in Bare
  BY DoFacts DEF BareCode
<1>3. \A x \in ValueCode : x.op \in {"mark", "pid", "guarded", "proxy", "invoke"}
  BY DoFacts DEF ValueCode
<1>4. \A x \in ListCode : x.op \in {"register", "notify", "tell"} /\ x.arg \in List
  BY DoFacts DEF ListCode
<1>5. \A x \in SubscribeCode :
        x.op = "subscribe" /\ \E l \in List : x.arg = <<l>>
  <2> SUFFICES ASSUME NEW x \in SubscribeCode
               PROVE  x.op = "subscribe" /\ \E l \in List : x.arg = <<l>>
    OBVIOUS
  <2>1. PICK l \in List : x = Do("subscribe", <<l>>)
    BY DEF SubscribeCode
  <2> QED BY <2>1, DoFacts
<1>6. \A x \in UpdateCode : /\ x.op \in {"unregister", "unsubscribe", "latch"}
                           /\ x.arg \in List \X BOOLEAN
  <2> SUFFICES ASSUME NEW x \in UpdateCode
               PROVE  /\ x.op \in {"unregister", "unsubscribe", "latch"}
                      /\ x.arg \in List \X BOOLEAN
    OBVIOUS
  <2>1. PICK op \in {"unregister", "unsubscribe", "latch"}, y \in List \X BOOLEAN :
          x = Do(op, y)
    BY DEF UpdateCode
  <2>2. x.op = op /\ x.arg = y
    BY <2>1, DoFacts
  <2> QED BY <2>1, <2>2
<1>7. \A x \in CallbackCode : /\ x.op \in {"add", "remove", "call"}
                             /\ x.arg \in List \X Callback
  <2> SUFFICES ASSUME NEW x \in CallbackCode
               PROVE  /\ x.op \in {"add", "remove", "call"}
                      /\ x.arg \in List \X Callback
    OBVIOUS
  <2>1. PICK op \in {"add", "remove", "call"}, y \in List \X Callback : x = Do(op, y)
    BY DEF CallbackCode
  <2>2. x.op = op /\ x.arg = y
    BY <2>1, DoFacts
  <2> QED BY <2>1, <2>2
<1> QED BY <1>1, <1>2, <1>3, <1>4, <1>5, <1>6, <1>7

LEMMA PlainCode == Plain(Code, ClientLocks)
<1>1. Renamed \subseteq Code
  BY DEF Renamed, Code, LockCode
<1>2. \A x \in Code : x.op \in {"lock", "unlock"} => x = Do(x.op, x.arg)
  BY OperationsOf DEF Code, Bare
<1>3. \A g \in ClientLocks.under \cup ClientLocks.inside \cup ClientLocks.first :
        g[1] \notin {"lock", "unlock"} /\ g[2] \notin {Again, Own}
  BY DEF ClientLocks, Again, Own
<1> QED BY <1>1, <1>2, <1>3 DEF Plain

\* The argument of an operation has its type.
LEMMA CodeFacts ==
  ASSUME NEW x \in Code
  PROVE  /\ x.op = "mark" => x.arg \in BOOLEAN
         /\ x.op = "pid" => x.arg \in Nat
         /\ x.op = "guarded" => x.arg \in Guarded
         /\ x.op = "proxy" => x.arg \in AllCalls
         /\ x.op \in {"register", "notify", "tell"} => x.arg \in List
         /\ x.op = "subscribe" => \E l \in List : x.arg = <<l>>
         /\ x.op \in {"unregister", "unsubscribe", "latch"}
              => x.arg \in List \X BOOLEAN
         /\ x.op \in {"add", "remove", "call"} => x.arg \in List \X Callback
<1>1. CASE x \in LockCode \cup BareCode
  BY <1>1, OperationsOf DEF Bare
<1>2. CASE x \in ValueCode
  BY <1>2, DoFacts DEF ValueCode
<1>3. CASE x \in ListCode \cup SubscribeCode
  BY <1>3, OperationsOf
<1>4. CASE x \in UpdateCode \cup CallbackCode
  BY <1>4, OperationsOf
<1> QED BY <1>1, <1>2, <1>3, <1>4 DEF Code

LEMMA LocksInCode ==
  ASSUME NEW l \in Lock
  PROVE  {Do("lock", l), Do("unlock", l)} \subseteq Code
BY DEF Code, LockCode

LEMMA ReliedOn ==
  \A g \in ClientLocks.under \cup ClientLocks.inside \cup ClientLocks.first :
    g[1] \in Relying
BY DEF ClientLocks, Relying

\* Code that relies on no lock.
LEMMA FreeReady ==
  ASSUME NEW b \in Seq(Code),
         \A i \in DOMAIN b : b[i].op \notin Relying \cup {"lock", "unlock"}
  PROVE  Ready(b, Code, ClientLocks, {}, {})
BY ReliedOn, ReadyPlain

LEMMA OneReady ==
  ASSUME NEW op, NEW arg, Do(op, arg) \in Code, op \notin Relying \cup {"lock", "unlock"}
  PROVE  Ready(<<Do(op, arg)>>, Code, ClientLocks, {}, {})
<1>1. PICK b : b = <<Do(op, arg)>>
  OBVIOUS
<1>2. b \in Seq(Code) /\ DOMAIN b = {1} /\ b[1].op = op
  BY <1>1, DoFacts
<1> QED BY <1>1, <1>2, FreeReady

\* Code under the lock it relies on.
LEMMA UnderReady ==
  ASSUME NEW l \in Lock, NEW b \in Seq(Code), b # <<>>,
         \A i \in DOMAIN b :
           /\ b[i].op \notin {"lock", "unlock"}
           /\ \A g \in ClientLocks.under : b[i].op = g[1] => g[2] = l
           /\ \A g \in ClientLocks.inside : b[i].op # g[1]
  PROVE  Ready(With(l, b), Code, ClientLocks, {}, {})
<1>1. \A i \in DOMAIN b :
        /\ b[i].op \notin {"lock", "unlock"}
        /\ \A g \in ClientLocks.under : b[i].op = g[1] => g[2] \in {} \cup {l}
        /\ \A g \in ClientLocks.inside : b[i].op = g[1] => g[2] \in {}
        /\ \A g \in ClientLocks.first : b[i].op = g[1] => i = 1 /\ g[2] = l
  BY DEF ClientLocks
<1> QED BY <1>1, PlainCode, LocksInCode, ReadyWith

LEMMA OneUnderReady ==
  ASSUME NEW l \in Lock, NEW op, NEW arg, Do(op, arg) \in Code,
         op \notin {"lock", "unlock"},
         \A g \in ClientLocks.under : op = g[1] => g[2] = l,
         \A g \in ClientLocks.inside : op # g[1]
  PROVE  /\ Ready(With(l, <<Do(op, arg)>>), Code, ClientLocks, {}, {})
         /\ With(l, <<Do(op, arg)>>) # <<>>
<1>1. PICK b : b = <<Do(op, arg)>>
  OBVIOUS
<1>2. b \in Seq(Code) /\ b # <<>> /\ DOMAIN b = {1} /\ b[1].op = op
  BY <1>1, DoFacts
<1>3. Ready(With(l, b), Code, ClientLocks, {}, {})
  BY <1>2, UnderReady
<1>4. With(l, b) # <<>>
  BY <1>2, LocksInCode, LockedNotEmpty
<1> QED BY <1>1, <1>3, <1>4

\* Ready code under a lock.
LEMMA WithReady ==
  ASSUME NEW l \in Lock, NEW b, b # <<>>, Ready(b, Code, ClientLocks, {}, {})
  PROVE  Ready(With(l, b), Code, ClientLocks, {}, {})
<1>1. b \in Seq(Code)
  BY DEF Ready
<1> QED BY <1>1, PlainCode, LocksInCode, ReadyWith

LEMMA BareInCode == \A op \in Bare : Do(op, 0) \in Code
BY DEF Code, BareCode

LEMMA ConnectReady ==
  /\ Ready(ConnectBody, Code, ClientLocks, {}, {}) /\ ConnectBody # <<>>
  /\ Ready(InitBody, Code, ClientLocks, {}, {}) /\ InitBody # <<>>
  /\ Ready(TermBody, Code, ClientLocks, {}, {}) /\ TermBody # <<>>
<1>1. \A op \in {"open", "new", "destroy"} :
        /\ Do(op, 0) \in Code /\ op \notin {"lock", "unlock"}
        /\ \A g \in ClientLocks.under : op = g[1] => g[2] = "internal"
        /\ \A g \in ClientLocks.inside : op # g[1]
  BY BareInCode DEF Bare, ClientLocks
<1>2. "internal" \in Lock
  BY DEF Lock
<1> QED BY <1>1, <1>2, OneUnderReady DEF ConnectBody, InitBody, TermBody

LEMMA OperationalReady ==
  ASSUME NEW up \in BOOLEAN
  PROVE  Ready(OperationalBody(up), Code, ClientLocks, {}, {})
<1>1. PICK op \in {"attach", "detach"} : op = IF up THEN "attach" ELSE "detach"
  OBVIOUS
<1>2. /\ Do(op, 0) \in Code /\ op \notin {"lock", "unlock"}
      /\ \A g \in ClientLocks.under : op = g[1] => g[2] = "internal"
      /\ \A g \in ClientLocks.inside : op # g[1]
  BY BareInCode DEF Bare, ClientLocks
<1>3. Ready(With("internal", <<Do(op, 0)>>), Code, ClientLocks, {}, {})
  BY <1>2, OneUnderReady DEF Lock
<1>4. Do("tell", Ops) \in Code
  BY CallsAssumption DEF Code, ListCode
<1>5. Ready(<<Do("tell", Ops)>>, Code, ClientLocks, {}, {})
  BY <1>4, OneReady DEF Relying
<1> QED BY <1>1, <1>3, <1>5, ReadyJoin DEF OperationalBody

LEMMA DisconnectReady ==
  ASSUME NEW final \in BOOLEAN
  PROVE  /\ Ready(DisconnectBody(final), Code, ClientLocks, {}, {})
         /\ DisconnectBody(final) # <<>>
<1>1. PICK x : x = IF final THEN <<Do("stop", 0)>> ELSE <<>>
  OBVIOUS
<1>2. PICK y : y = <<Do("close", 0)>>
  OBVIOUS
<1>3. PICK b : b = x \o y
  OBVIOUS
<1>4. Do("stop", 0) \in Code /\ Do("close", 0) \in Code
  BY BareInCode DEF Bare
<1>5. /\ x \in Seq(Code) /\ \A i \in DOMAIN x : x[i].op = "stop"
      /\ y \in Seq(Code) /\ DOMAIN y = {1} /\ y[1].op = "close" /\ Len(y) = 1
  BY <1>1, <1>2, <1>4, DoFacts
<1>6. Joined(b, x, y) /\ b \in Seq(Code) /\ Len(b) = Len(x) + Len(y)
  <2>1. x \in Seq(Code) /\ y \in Seq(Code)
    BY <1>5
  <2>2. Joined(b, x, y)
    BY <1>3, <2>1, JoinedFacts
  <2>3. x \o y \in Seq(Code) /\ Len(x \o y) = Len(x) + Len(y)
    BY <2>1, ConcatProperties
  <2> QED BY <1>3, <2>2, <2>3
<1>7. b # <<>>
  BY <1>5, <1>6, LenProperties, EmptySeq
<1>8. \A i \in DOMAIN b : b[i].op \in {"stop", "close"}
  <2> SUFFICES ASSUME NEW i \in DOMAIN b PROVE b[i].op \in {"stop", "close"}
    OBVIOUS
  <2>1. PICK n, m : n = Len(x) /\ m = Len(y)
    OBVIOUS
  <2>2. n \in Nat /\ m = 1 /\ DOMAIN x = 1 .. n /\ DOMAIN b = 1 .. n + m
    BY <1>5, <1>6, <2>1, LenProperties DEF Joined
  <2>3. CASE i \in 1 .. n
    BY <1>5, <1>6, <2>1, <2>2, <2>3 DEF Joined
  <2>4. CASE i \notin 1 .. n
    <3>1. i = n + 1 /\ 1 \in 1 .. m
      BY <2>2, <2>4
    <3>2. b[n + 1] = y[1]
      BY <1>6, <2>1, <3>1 DEF Joined
    <3> QED BY <1>5, <3>1, <3>2
  <2> QED BY <2>3, <2>4
<1>9. \A op \in {"stop", "close"} :
        /\ op \notin {"lock", "unlock"}
        /\ \A g \in ClientLocks.under \cup ClientLocks.inside : op # g[1]
  BY DEF ClientLocks
<1>10. "internal" \in Lock
  BY DEF Lock
<1>11. Ready(With("internal", b), Code, ClientLocks, {}, {})
  BY <1>6, <1>7, <1>8, <1>9, <1>10, UnderReady
<1>12. With("internal", b) # <<>>
  BY <1>6, <1>10, LocksInCode, LockedNotEmpty
<1> QED BY <1>1, <1>2, <1>3, <1>11, <1>12 DEF DisconnectBody

LEMMA GuardedReady ==
  ASSUME NEW b \in Guarded
  PROVE  Ready(b, Code, ClientLocks, {}, {})
<1>1. CASE b \in {<<>>, DisconnectBody(FALSE)}
  BY <1>1, ReadyEmpty, DisconnectReady
<1>2. ASSUME NEW l \in List, NEW c \in Callback, b = UnRegisterCallback(l, c)
      PROVE  Ready(b, Code, ClientLocks, {}, {})
  <2>1. Do("remove", <<l, c>>) \in Code
    BY DEF Code, CallbackCode
  <2>2. /\ \A g \in ClientLocks.under : "remove" = g[1] => g[2] = "callback"
        /\ \A g \in ClientLocks.inside : "remove" # g[1]
    BY DEF ClientLocks
  <2>3. "callback" \in Lock /\ "remove" \notin {"lock", "unlock"}
    BY DEF Lock
  <2>4. Ready(With("callback", <<Do("remove", <<l, c>>)>>), Code, ClientLocks, {}, {})
    BY <2>1, <2>2, <2>3, OneUnderReady
  <2>5. UnRegisterCallback(l, c) = With("callback", <<Do("remove", <<l, c>>)>>)
    BY DEF UnRegisterCallback
  <2> QED BY <1>2, <2>4, <2>5
<1>3. CASE b \in Unregistering
  BY <1>2, <1>3 DEF Unregistering
<1> QED BY <1>1, <1>3 DEF Guarded

\* A C function: ready code under the lock of the functions.
LEMMA CApiReady ==
  ASSUME NEW b, b # <<>>, Ready(b, Code, ClientLocks, {}, {})
  PROVE  Ready(CApi(b), Code, ClientLocks, {}, {})
BY WithReady DEF CApi, Lock

\* The same after some other ready code.
LEMMA AfterReady ==
  ASSUME NEW op, NEW arg, Do(op, arg) \in Code, op \notin Relying \cup {"lock", "unlock"},
         NEW b, Ready(b, Code, ClientLocks, {}, {})
  PROVE  /\ Ready(<<Do(op, arg)>> \o b, Code, ClientLocks, {}, {})
         /\ <<Do(op, arg)>> \o b # <<>>
<1>1. PICK x, c : x = <<Do(op, arg)>> /\ c = x \o b
  OBVIOUS
<1>2. Ready(x, Code, ClientLocks, {}, {})
  BY <1>1, OneReady
<1>3. Ready(c, Code, ClientLocks, {}, {})
  BY <1>1, <1>2, ReadyJoin
<1>4. x \in Seq(Code) /\ b \in Seq(Code) /\ Len(x) = 1
  BY <1>1, <1>2 DEF Ready
<1>5. c \in Seq(Code) /\ Len(c) = Len(x) + Len(b)
  BY <1>1, <1>4, ConcatProperties
<1>6. c # <<>>
  BY <1>4, <1>5, LenProperties, EmptySeq
<1> QED BY <1>1, <1>3, <1>6

LEMMA BeforeReady ==
  ASSUME NEW op, NEW arg, Do(op, arg) \in Code, op \notin Relying \cup {"lock", "unlock"},
         NEW b, Ready(b, Code, ClientLocks, {}, {}), b # <<>>
  PROVE  /\ Ready(b \o <<Do(op, arg)>>, Code, ClientLocks, {}, {})
         /\ b \o <<Do(op, arg)>> # <<>>
<1>1. PICK x, c : x = <<Do(op, arg)>> /\ c = b \o x
  OBVIOUS
<1>2. Ready(x, Code, ClientLocks, {}, {})
  BY <1>1, OneReady
<1>3. Ready(c, Code, ClientLocks, {}, {})
  BY <1>1, <1>2, ReadyJoin
<1>4. x \in Seq(Code) /\ b \in Seq(Code) /\ Len(x) = 1
  BY <1>1, <1>2 DEF Ready
<1>5. c \in Seq(Code) /\ Len(c) = Len(b) + Len(x)
  BY <1>1, <1>4, ConcatProperties
<1>6. c # <<>>
  BY <1>4, <1>5, LenProperties, EmptySeq
<1> QED BY <1>1, <1>3, <1>6

LEMMA RequestReady ==
  ASSUME NEW call \in AllCalls
  PROVE  Ready(Request(call), Code, ClientLocks, {}, {})
<1>1. Do("proxy", call) \in Code /\ "proxy" \notin {"lock", "unlock"}
  BY DEF Code, ValueCode
<1>2. /\ \A g \in ClientLocks.under : "proxy" = g[1] => g[2] = "internal"
      /\ \A g \in ClientLocks.inside : "proxy" # g[1]
      /\ "internal" \in Lock
  BY DEF ClientLocks, Lock
<1>3. PICK b : b = With("internal", <<Do("proxy", call)>>)
  OBVIOUS
<1>4. Ready(b, Code, ClientLocks, {}, {})
  BY <1>1, <1>2, <1>3, OneUnderReady
<1>5. Do("instance", 0) \in Code /\ "instance" \notin Relying \cup {"lock", "unlock"}
  BY BareInCode DEF Bare, Relying
<1>6. /\ Ready(<<Do("instance", 0)>> \o b, Code, ClientLocks, {}, {})
      /\ <<Do("instance", 0)>> \o b # <<>>
  BY <1>4, <1>5, AfterReady
<1> QED BY <1>3, <1>6, CApiReady DEF Request

\* What a C function does when there is an instance.
LEMMA InstanceReady ==
  ASSUME NEW b, Ready(b, Code, ClientLocks, {}, {})
  PROVE  /\ Ready(<<Do("instance", 0)>> \o b, Code, ClientLocks, {}, {})
         /\ Ready(CApi(<<Do("instance", 0)>> \o b), Code, ClientLocks, {}, {})
<1>1. Do("instance", 0) \in Code /\ "instance" \notin Relying \cup {"lock", "unlock"}
  BY BareInCode DEF Bare, Relying
<1>2. /\ Ready(<<Do("instance", 0)>> \o b, Code, ClientLocks, {}, {})
      /\ <<Do("instance", 0)>> \o b # <<>>
  BY <1>1, AfterReady
<1> QED BY <1>2, CApiReady

LEMMA GuardedCallReady ==
  ASSUME NEW b \in Guarded
  PROVE  Ready(CApi(<<Do("guarded", b)>>), Code, ClientLocks, {}, {})
<1>1. Do("guarded", b) \in Code /\ "guarded" \notin Relying \cup {"lock", "unlock"}
  BY DEF Code, ValueCode, Relying
<1>2. PICK c : c = <<Do("guarded", b)>>
  OBVIOUS
<1>3. Ready(c, Code, ClientLocks, {}, {}) /\ c # <<>>
  BY <1>1, <1>2, OneReady
<1> QED BY <1>2, <1>3, CApiReady

LEMMA MarkedReady ==
  ASSUME NEW v \in BOOLEAN, NEW b, b # <<>>, Ready(b, Code, ClientLocks, {}, {})
  PROVE  Ready(CApi(b \o <<Do("mark", v)>>), Code, ClientLocks, {}, {})
<1>1. Do("mark", v) \in Code /\ "mark" \notin Relying \cup {"lock", "unlock"}
  BY DEF Code, ValueCode, Relying
<1>2. PICK c : c = b \o <<Do("mark", v)>>
  OBVIOUS
<1>3. Ready(c, Code, ClientLocks, {}, {}) /\ c # <<>>
  BY <1>1, <1>2, BeforeReady
<1> QED BY <1>2, <1>3, CApiReady

LEMMA RegisterReady ==
  ASSUME NEW l \in List, NEW c \in Callback
  PROVE  Ready(RegisterApi(l, c), Code, ClientLocks, {}, {})
<1>1. Do("add", <<l, c>>) \in Code /\ "add" \notin {"lock", "unlock"}
  BY DEF Code, CallbackCode
<1>2. /\ \A g \in ClientLocks.under \cup ClientLocks.inside : "add" # g[1]
      /\ "callback" \in Lock
  BY DEF ClientLocks, Lock
<1>3. Ready(With("callback", <<Do("add", <<l, c>>)>>), Code, ClientLocks, {}, {})
  BY <1>1, <1>2, OneUnderReady
<1>4. Ready(RegisterCallbackInternal(l, c), Code, ClientLocks, {}, {})
  BY <1>3 DEF RegisterCallbackInternal
<1> QED BY <1>4, InstanceReady DEF RegisterApi

LEMMA FunctionsReady ==
  ASSUME NEW b \in Functions
  PROVE  Ready(b, Code, ClientLocks, {}, {})
<1>1. /\ Ready(PowerController_Init, Code, ClientLocks, {}, {})
      /\ Ready(PowerController_Term, Code, ClientLocks, {}, {})
  BY ConnectReady, MarkedReady DEF PowerController_Init, PowerController_Term
<1>2. Ready(PowerController_Connect, Code, ClientLocks, {}, {})
  BY ConnectReady, InstanceReady DEF PowerController_Connect
<1>3. /\ Ready(PowerController_Disconnect, Code, ClientLocks, {}, {})
      /\ Ready(PowerController_IsOperational, Code, ClientLocks, {}, {})
  <2>1. DisconnectBody(FALSE) \in Guarded /\ <<>> \in Guarded
    BY DEF Guarded
  <2> QED BY <2>1, GuardedCallReady DEF PowerController_Disconnect,
             PowerController_IsOperational
<1>4. ASSUME NEW call \in Calls
      PROVE  Ready(Request(call), Code, ClientLocks, {}, {})
  BY CallsAssumption, RequestReady
<1>5. ASSUME NEW l \in Used, NEW c \in Callback
      PROVE  /\ Ready(RegisterApi(l, c), Code, ClientLocks, {}, {})
             /\ Ready(UnRegisterApi(l, c), Code, ClientLocks, {}, {})
  <2>1. l \in List
    BY CallsAssumption
  <2>2. UnRegisterCallback(l, c) \in Unregistering
    BY <2>1 DEF Unregistering
  <2>3. UnRegisterCallback(l, c) \in Guarded
    BY <2>2 DEF Guarded
  <2> QED BY <2>1, <2>3, RegisterReady, GuardedCallReady DEF UnRegisterApi
<1> QED BY <1>1, <1>2, <1>3, <1>4, <1>5 DEF Functions

\* The lists but the operational state's, one after the other.
LEMMA ListsCode ==
  /\ SubscribeAllNotificationsLocked \in Seq({x \in Code : x.op = "register"})
  /\ UnsubscribeAllNotificationsLocked \in Seq({x \in Code : x.op = "unregister"})
<1>1. PICK L, n, q : L = List \ {Ops} /\ n = Cardinality(L) /\ q = SetToSeq(L)
  OBVIOUS
<1>2. n \in Nat /\ q \in [1 .. n -> L]
  <2>1. IsFiniteSet(L)
    BY <1>1, CallsAssumption, FS_Subset
  <2> QED BY <1>1, <2>1, Enumerated
<1>3. PICK b : b = [i \in 1 .. n |-> Do("register", q[i])]
  OBVIOUS
<1>e. PICK v \in BOOLEAN : v = TRUE
  OBVIOUS
<1>4. PICK c : c = [i \in 1 .. n |-> Do("unregister", <<q[i], v>>)]
  OBVIOUS
<1>5. L \subseteq List
  BY <1>1
<1>a. ASSUME NEW l \in List
      PROVE  Do("register", l) \in Code
  BY DEF Code, ListCode
<1>b. ASSUME NEW l \in List
      PROVE  Do("unregister", <<l, v>>) \in Code
  <2>2. <<l, v>> \in List \X BOOLEAN
    OBVIOUS
  <2>3. Do("unregister", <<l, v>>) \in UpdateCode
    BY <2>2 DEF UpdateCode
  <2> QED BY <2>3 DEF Code
<1>f. PICK R, U : /\ R = {x \in Code : x.op = "register"}
                  /\ U = {x \in Code : x.op = "unregister"}
  OBVIOUS
<1>6. \A l \in List : Do("register", l) \in R
  BY <1>a, <1>f, DoFacts
<1>7. \A l \in List : Do("unregister", <<l, v>>) \in U
  BY <1>b, <1>f, DoFacts
<1>8. b \in Seq(R)
  BY <1>2, <1>3, <1>5, <1>6
<1>9. c \in Seq(U)
  BY <1>2, <1>4, <1>5, <1>7
<1>10. SubscribeAllNotificationsLocked = b
  BY <1>1, <1>3 DEF SubscribeAllNotificationsLocked, Lists
<1>11. UnsubscribeAllNotificationsLocked = c
  BY <1>1, <1>4, <1>e DEF UnsubscribeAllNotificationsLocked, Lists
<1> QED BY <1>8, <1>9, <1>10, <1>11, <1>f

LEMMA ListsReady ==
  /\ Ready(SubscribeAllNotificationsLocked, Code, ClientLocks, {}, {})
  /\ Ready(UnsubscribeAllNotificationsLocked, Code, ClientLocks, {}, {})
<1>1. ASSUME NEW op \in {"register", "unregister"},
             NEW b \in Seq({x \in Code : x.op = op})
      PROVE  Ready(b, Code, ClientLocks, {}, {})
  <2>1. \A i \in DOMAIN b : b[i] \in {x \in Code : x.op = op}
    BY ElementOfSeq, LenProperties
  <2>2. b \in Seq(Code)
    OBVIOUS
  <2>3. op \notin Relying \cup {"lock", "unlock"}
    BY DEF Relying
  <2> QED BY <2>1, <2>2, <2>3, FreeReady
<1> QED BY <1>1, ListsCode

----------------------------------------------------------------------------
(* The steps.                                                              *)

\* Code that is put in front makes no request in the plugin.
NoInvoke(b) == \A i \in DOMAIN b : b[i].op # "invoke"

LEMMA ReadyNoInvoke ==
  ASSUME NEW H, "internal" \notin H, NEW b, Ready(b, Code, ClientLocks, H, H)
  PROVE  NoInvoke(b)
<1>1. /\ <<"invoke", "internal">> \in ClientLocks.inside
      /\ <<"invoke", "internal">>[1] = "invoke"
      /\ <<"invoke", "internal">>[2] = "internal"
  BY DEF ClientLocks
<1> QED BY <1>1 DEF Ready, NoInvoke

\* Only who makes a request is in the plugin, and no one else has the lock of
\* the connection then.
LEMMA NobodyElseInvokes ==
  ASSUME ClientInv, NEW t \in Thread, NEW op, op \notin {"lock", "unlock"}, At(t, op),
         <<op, "internal">> \in ClientLocks.under \cup ClientLocks.inside
  PROVE  \A u \in Thread \ {t} : NoInvoke(todo[u])
<1>1. Disciplined(Code, ClientLocks)
  BY DEF ClientInv
<1>2. PICK g \in ClientLocks.under \cup ClientLocks.inside : g = <<op, "internal">>
  OBVIOUS
<1>3. g[1] = op /\ g[2] = "internal"
  BY <1>2
<1>4. GivesBack(Rest(t), "internal")
  BY <1>1, <1>3, PlainCode, AtFacts
<1>5. "internal" \notin {Again, Own}
  BY DEF Again, Own
<1>6. \A u \in Thread \ {t} : ~Holds(u, "internal")
  BY <1>1, <1>4, <1>5, PlainCode, AtFacts
<1>7. ASSUME NEW u \in Thread, NEW i \in DOMAIN todo[u], todo[u][i].op = "invoke"
      PROVE  Holds(u, "internal")
  <2>1. PICK h \in ClientLocks.inside : h = <<"invoke", "internal">>
    BY DEF ClientLocks
  <2>2. h[1] = "invoke" /\ h[2] = "internal"
    BY <2>1
  <2>3. Sound(todo[u], Code, ClientLocks)
    BY <1>1 DEF Disciplined
  <2> QED BY <1>7, <2>2, <2>3, InsideHolds
<1> QED BY <1>6, <1>7 DEF NoInvoke

\* What is left of a thread's code makes no request in the plugin.
LEMMA RestNoInvoke ==
  ASSUME ClientInv, NEW t \in Thread, NEW op, op \notin {"lock", "unlock"}, At(t, op)
  PROVE  \A x : Includes(Rest(t), x) => x.op # "invoke"
<1> SUFFICES ASSUME NEW x, Includes(Rest(t), x), x.op = "invoke" PROVE FALSE
  OBVIOUS
<1>1. Disciplined(Code, ClientLocks) /\ Invoked(todo[t])
  BY DEF ClientInv
<1>2. PICK i \in DOMAIN todo[t] : i > 1 /\ todo[t][i] = x
  BY <1>1, PlainCode, RestContained
<1> QED BY <1>1, <1>2 DEF Invoked

\* A step that goes on with code that makes no request in the plugin.  The
\* interface is written only by who has the lock of the connection.
LEMMA GoesOn ==
  ASSUME ClientInv, NEW t \in Thread, NEW op, op \notin {"lock", "unlock"}, At(t, op),
         NEW H, NEW b, Ready(b, Code, ClientLocks, H, H), NoInvoke(b),
         \A l \in H : <<op, l>> \in ClientLocks.under \cup ClientLocks.inside,
         Continue(t, b), Values',
         \/ UNCHANGED iface
         \/ <<op, "internal">> \in ClientLocks.under \cup ClientLocks.inside
  PROVE  ClientInv'
<1>1. Disciplined(Code, ClientLocks)
  BY DEF ClientInv
<1>2. Disciplined(Code, ClientLocks)'
  BY <1>1, PlainCode, ContinueKeeps
<1>3. b \in Seq(Code)
  BY DEF Ready
<1>4. Became(t, b, Rest(t))
  BY <1>1, <1>3, PlainCode, ContinueChanges
<1>5. /\ \A u \in Thread \ {t} : todo'[u] = todo[u]
      /\ \A x : IsOperation(x)
           => (Includes(todo'[t], x) <=> Includes(b, x) \/ Includes(Rest(t), x))
  BY <1>4 DEF Became
<1>6. NoInvoke(todo'[t])
  <2> SUFFICES ASSUME NEW i \in DOMAIN todo'[t], todo'[t][i].op = "invoke"
               PROVE  FALSE
    BY DEF NoInvoke
  <2>1. PICK x : x = todo'[t][i]
    OBVIOUS
  <2>2. Includes(todo'[t], x) /\ IsOperation(x)
    BY <2>1 DEF Includes, IsOperation
  <2>3. ~Includes(b, x)
    BY <2>1 DEF NoInvoke, Includes
  <2>4. ~Includes(Rest(t), x)
    BY <2>1, RestNoInvoke
  <2> QED BY <1>5, <2>2, <2>3, <2>4
<1>7. ASSUME NEW u \in Thread
      PROVE  Invoked(todo[u])'
  <2>1. CASE u = t
    BY <1>6, <2>1 DEF NoInvoke, Invoked
  <2>2. CASE u # t /\ UNCHANGED iface
    <3>1. Invoked(todo[u]) /\ todo'[u] = todo[u]
      BY <1>5, <2>2 DEF ClientInv
    <3> QED BY <2>2, <3>1 DEF Invoked
  <2>3. CASE u # t /\ <<op, "internal">> \in ClientLocks.under \cup ClientLocks.inside
    <3>1. NoInvoke(todo[u]) /\ todo'[u] = todo[u]
      BY <1>5, <2>3, NobodyElseInvokes
    <3> QED BY <3>1 DEF Invoked, NoInvoke
  <2> QED BY <2>1, <2>2, <2>3
<1> QED BY <1>2, <1>7 DEF ClientInv

\* The same without a lock.
LEMMA GoesOnFree ==
  ASSUME ClientInv, NEW t \in Thread, NEW op, op \notin {"lock", "unlock"}, At(t, op),
         NEW b, Ready(b, Code, ClientLocks, {}, {}), Continue(t, b), Values',
         \/ UNCHANGED iface
         \/ <<op, "internal">> \in ClientLocks.under \cup ClientLocks.inside
  PROVE  ClientInv'
<1>1. NoInvoke(b)
  BY ReadyNoInvoke
<1>2. \A l \in {} : <<op, l>> \in ClientLocks.under \cup ClientLocks.inside
  OBVIOUS
<1> QED BY <1>1, <1>2, GoesOn

\* An idle thread starts.
LEMMA Starts ==
  ASSUME ClientInv, NEW t \in Thread, NEW b, Ready(b, Code, ClientLocks, {}, {}),
         Start(t, b), Values', UNCHANGED iface
  PROVE  ClientInv'
<1>1. Disciplined(Code, ClientLocks)
  BY DEF ClientInv
<1>2. Disciplined(Code, ClientLocks)'
  BY <1>1, StartKeeps
<1>3. todo'[t] = b /\ \A u \in Thread \ {t} : todo'[u] = todo[u]
  BY <1>1 DEF Start, Disciplined
<1>4. NoInvoke(b)
  BY ReadyNoInvoke
<1>5. ASSUME NEW u \in Thread
      PROVE  Invoked(todo[u])'
  <2>1. CASE u = t
    BY <1>3, <1>4, <2>1 DEF NoInvoke, Invoked
  <2>2. CASE u # t
    <3>1. Invoked(todo[u]) /\ todo'[u] = todo[u]
      BY <1>3, <2>2 DEF ClientInv
    <3> QED BY <3>1 DEF Invoked
  <2> QED BY <2>1, <2>2
<1> QED BY <1>2, <1>5 DEF ClientInv

\* A step outside the threads.
LEMMA NothingStarts ==
  ASSUME ClientInv, Values', UNCHANGED <<todo, iface>>
  PROVE  ClientInv'
BY DEF ClientInv, Disciplined, Exclusive, Holds, Invoked

\* A lock taken under which another one is taken next.
LEMMA TakesLock ==
  ASSUME ClientInv, NEW t \in Thread, TakeOuterLock(t)
  PROVE  ClientInv'
<1>1. /\ Disciplined(Code, ClientLocks) /\ Acquire(t) /\ Values /\ Invoked(todo[t])
      /\ UNCHANGED <<library, link, lists, thread, world, calls, raced, torn>>
  BY DEF ClientInv, TakeOuterLock
<1>2. Disciplined(Code, ClientLocks)'
  BY <1>1, PlainCode, AcquireKeeps
<1>3. Became(t, <<>>, todo[t])
  BY <1>1, AcquireChanges
<1>4. /\ \A u \in Thread \ {t} : todo'[u] = todo[u]
      /\ \A x : IsOperation(x) => (Includes(todo'[t], x) <=> Includes(todo[t], x))
  BY <1>3 DEF Became, Includes
<1>5. todo[t] # <<>> /\ todo[t][1].op = "lock"
  BY <1>1 DEF Acquire, Locking, Idle
<1>6. NoInvoke(todo[t])
  BY <1>1, <1>5 DEF Invoked, NoInvoke
<1>7. NoInvoke(todo'[t])
  <2> SUFFICES ASSUME NEW i \in DOMAIN todo'[t], todo'[t][i].op = "invoke"
               PROVE  FALSE
    BY DEF NoInvoke
  <2>1. PICK x : x = todo'[t][i]
    OBVIOUS
  <2>2. Includes(todo'[t], x) /\ IsOperation(x)
    BY <2>1 DEF Includes, IsOperation
  <2>3. Includes(todo[t], x)
    BY <1>4, <2>2
  <2> QED BY <1>6, <2>1, <2>3 DEF NoInvoke, Includes
<1>8. UNCHANGED iface
  BY <1>1 DEF link
<1>9. ASSUME NEW u \in Thread
      PROVE  Invoked(todo[u])'
  <2>1. CASE u = t
    BY <1>7, <2>1 DEF NoInvoke, Invoked
  <2>2. CASE u # t
    <3>1. Invoked(todo[u]) /\ todo'[u] = todo[u]
      BY <1>4, <2>2 DEF ClientInv
    <3> QED BY <1>8, <3>1 DEF Invoked
  <2> QED BY <2>1, <2>2
<1>10. Values'
  BY <1>1 DEF Values, TypeOK, WorldOK, FiniteLists, library, link, lists, thread
<1> QED BY <1>2, <1>9, <1>10 DEF ClientInv

\* The argument of the operation a thread is at.
LEMMA AtArg ==
  ASSUME ClientInv, NEW t \in Thread, NEW op, op \notin {"lock", "unlock"}, At(t, op)
  PROVE  \E x \in Code : x.op = op /\ x.arg = Arg(t)
BY PlainCode, AtFacts DEF ClientInv

\* Nothing changes but what threads have to do.
LEMMA ValuesKept ==
  ASSUME Values, UNCHANGED <<library, link, lists, thread, world, raced, torn>>
  PROVE  Values' /\ UNCHANGED iface
BY DEF Values, TypeOK, WorldOK, FiniteLists, library, link, lists, thread

\* One operation that relies on no lock, or nothing.
LEMMA OneOrNone ==
  ASSUME NEW op, NEW arg, Do(op, arg) \in Code, op \notin Relying \cup {"lock", "unlock"},
         NEW b \in {<<>>, <<Do(op, arg)>>}
  PROVE  Ready(b, Code, ClientLocks, {}, {})
BY OneReady, ReadyEmpty

\* The lists of callbacks.
LEMMA ListSteps ==
  ASSUME ClientInv, NEW t \in Thread, AddCallbackLocked(t) \/ RemoveCallbackLocked(t)
  PROVE  ClientInv'
<1>1. PICK op \in {"add", "remove"} : At(t, op)
  BY DEF AddCallbackLocked, RemoveCallbackLocked
<1>2. Arg(t) \in List \X Callback
  BY <1>1, AtArg, CodeFacts
<1>3. PICK l \in List, c \in Callback : Arg(t) = <<l, c>>
  BY <1>2
<1>4. Arg(t)[1] = l /\ Arg(t)[2] = c
  BY <1>3
<1>5. Values /\ cbs \in [List -> SUBSET Callback] /\ IsFiniteSet(cbs[l])
  BY DEF ClientInv, Values, TypeOK, FiniteLists
<1>6. ASSUME NEW S \in SUBSET Callback, IsFiniteSet(S), cbs' = [cbs EXCEPT ![l] = S],
             UNCHANGED <<library, link, registered, thread, world, raced, torn>>
      PROVE  Values' /\ UNCHANGED iface
  <2>1. cbs' \in [List -> SUBSET Callback] /\ \A k \in List : IsFiniteSet(cbs'[k])
    BY <1>5, <1>6 DEF Values, FiniteLists
  <2>2. WorldOK' /\ UNCHANGED iface
    BY <1>5, <1>6 DEF Values, WorldOK, link
  <2>3. TypeOK'
    BY <1>5, <1>6, <2>1 DEF Values, TypeOK, library, link, thread
  <2> QED BY <2>1, <2>2, <2>3 DEF Values, FiniteLists
<1>7. CASE AddCallbackLocked(t)
  <2>1. PICK b : b = IF c \in cbs[l] THEN <<>> ELSE <<Do("register", l)>>
    OBVIOUS
  <2>2. Do("register", l) \in Code /\ "register" \notin Relying \cup {"lock", "unlock"}
    BY DEF Code, ListCode, Relying
  <2>3. Ready(b, Code, ClientLocks, {}, {})
    BY <2>1, <2>2, OneOrNone
  <2>4. cbs[l] \cup {c} \in SUBSET Callback /\ IsFiniteSet(cbs[l] \cup {c})
    BY <1>5, FS_AddElement
  <2>5. /\ At(t, "add") /\ Continue(t, b) /\ cbs' = [cbs EXCEPT ![l] = cbs[l] \cup {c}]
        /\ UNCHANGED <<library, link, registered, thread, world, raced, torn>>
    BY <1>4, <1>7, <2>1 DEF AddCallbackLocked
  <2>6. Values' /\ UNCHANGED iface
    BY <1>6, <2>4, <2>5
  <2> QED BY <2>3, <2>5, <2>6, GoesOnFree
<1>8. CASE RemoveCallbackLocked(t)
  <2>1. PICK d \in BOOLEAN : d = FALSE
    OBVIOUS
  <2>2. PICK b : b = IF c \in cbs[l] THEN <<Do("unregister", <<l, d>>)>> ELSE <<>>
    OBVIOUS
  <2>3. /\ Do("unregister", <<l, d>>) \in Code
        /\ "unregister" \notin Relying \cup {"lock", "unlock"}
    BY DEF Code, UpdateCode, Relying
  <2>4. Ready(b, Code, ClientLocks, {}, {})
    BY <2>2, <2>3, OneOrNone
  <2>5. cbs[l] \ {c} \in SUBSET Callback /\ IsFiniteSet(cbs[l] \ {c})
    BY <1>5, FS_RemoveElement
  <2>6. /\ At(t, "remove") /\ cbs' = [cbs EXCEPT ![l] = cbs[l] \ {c}]
        /\ UNCHANGED <<library, link, registered, thread, world, raced, torn>>
    BY <1>4, <1>8 DEF RemoveCallbackLocked
  <2>7. Continue(t, b)
    BY <1>4, <1>8, <2>1, <2>2 DEF RemoveCallbackLocked
  <2>8. Values' /\ UNCHANGED iface
    BY <1>6, <2>5, <2>6
  <2> QED BY <2>4, <2>6, <2>7, <2>8, GoesOnFree
<1> QED BY <1>7, <1>8

\* What a list asks the plugin for.
LEMMA AskSteps ==
  ASSUME ClientInv, NEW t \in Thread,
         \/ RegisterNotificationInternalLocked(t)
         \/ UnregisterNotificationInternalLocked(t)
  PROVE  ClientInv'
<1>1. ASSUME UNCHANGED <<library, link, lists, thread, world, torn>>,
             raced' \in BOOLEAN
      PROVE  Values' /\ UNCHANGED iface
  BY <1>1 DEF ClientInv, Values, TypeOK, WorldOK, FiniteLists, library, link, lists,
     thread
<1>2. CASE RegisterNotificationInternalLocked(t)
  <2>1. At(t, "register") /\ UNCHANGED <<library, link, lists, thread, world, torn>>
    BY <1>2 DEF RegisterNotificationInternalLocked
  <2>2. PICK l \in List : l = Arg(t)
    BY <2>1, AtArg, CodeFacts
  <2>3. PICK b : b = IF ~registered[l] /\ cbs[l] # {} /\ iface # 0
                     THEN <<Do("subscribe", <<l>>)>> ELSE <<>>
    OBVIOUS
  <2>4. Do("subscribe", <<l>>) \in Code /\ "subscribe" \notin Relying \cup {"lock", "unlock"}
    BY DEF Code, SubscribeCode, Relying
  <2>5. Ready(b, Code, ClientLocks, {}, {})
    BY <2>3, <2>4, OneOrNone
  <2>6. Continue(t, b)
    BY <1>2, <2>2, <2>3 DEF RegisterNotificationInternalLocked
  <2>7. raced' \in BOOLEAN
    BY <1>2 DEF RegisterNotificationInternalLocked
  <2>8. Values' /\ UNCHANGED iface
    BY <1>1, <2>1, <2>7
  <2> QED BY <2>1, <2>5, <2>6, <2>8, GoesOnFree
<1>3. CASE UnregisterNotificationInternalLocked(t)
  <2>1. At(t, "unregister") /\ UNCHANGED <<library, link, lists, thread, world, torn>>
    BY <1>3 DEF UnregisterNotificationInternalLocked
  <2>2. PICK x \in List \X BOOLEAN : x = Arg(t)
    BY <2>1, AtArg, CodeFacts
  <2>3. PICK b : b = IF registered[x[1]] /\ iface # 0 /\ (x[2] \/ cbs[x[1]] = {})
                     THEN <<Do("unsubscribe", x)>> ELSE <<>>
    OBVIOUS
  <2>4. Do("unsubscribe", x) \in Code /\ "unsubscribe" \notin Relying \cup {"lock", "unlock"}
    BY DEF Code, UpdateCode, Relying
  <2>5. Ready(b, Code, ClientLocks, {}, {})
    BY <2>3, <2>4, OneOrNone
  <2>6. Continue(t, b)
    BY <1>3, <2>2, <2>3 DEF UnregisterNotificationInternalLocked
  <2>7. raced' \in BOOLEAN
    BY <1>3 DEF UnregisterNotificationInternalLocked
  <2>8. Values' /\ UNCHANGED iface
    BY <1>1, <2>1, <2>7
  <2> QED BY <2>1, <2>5, <2>6, <2>8, GoesOnFree
<1> QED BY <1>2, <1>3

\* What the plugin answers is noted.
LEMMA LatchReady ==
  ASSUME NEW l \in List, NEW d \in BOOLEAN
  PROVE  Ready(<<Do("latch", <<l, d>>)>>, Code, ClientLocks, {}, {})
<1>1. <<l, d>> \in List \X BOOLEAN
  OBVIOUS
<1>2. Do("latch", <<l, d>>) \in Code /\ "latch" \notin Relying \cup {"lock", "unlock"}
  BY <1>1 DEF Code, UpdateCode, Relying
<1> QED BY <1>2, OneReady

LEMMA AnswerSteps ==
  ASSUME ClientInv, NEW t \in Thread,
         \/ RegisterThunderNotificationLocked(t)
         \/ UnregisterThunderNotificationLocked(t)
  PROVE  ClientInv'
<1>1. ASSUME NEW S \in SUBSET List,
             world' = world \/ world' = [world EXCEPT !.subscribed = S],
             UNCHANGED <<library, link, lists, thread, raced, torn>>
      PROVE  Values' /\ UNCHANGED iface
  <2>1. Values
    BY DEF ClientInv
  <2>2. WorldOK'
    BY <1>1, <2>1 DEF Values, WorldOK
  <2> QED BY <1>1, <2>1, <2>2 DEF Values, TypeOK, FiniteLists, library, link, lists,
             thread
<1>2. world.subscribed \in SUBSET List
  BY DEF ClientInv, Values, WorldOK
<1>3. CASE RegisterThunderNotificationLocked(t)
  <2>1. At(t, "subscribe") /\ UNCHANGED <<library, link, lists, thread, raced, torn>>
    BY <1>3 DEF RegisterThunderNotificationLocked
  <2>2. PICK l \in List : Arg(t) = <<l>>
    BY <2>1, AtArg, CodeFacts
  <2>3. PICK d \in BOOLEAN : d = (l = Ops \/ (Alive(iface) /\ l \notin world.subscribed))
    OBVIOUS
  <2>4. Arg(t)[1] = l
    BY <2>2
  <2>5. Continue(t, <<Do("latch", <<l, d>>)>>)
    BY <1>3, <2>3, <2>4 DEF RegisterThunderNotificationLocked
  <2>6. \/ world' = world
        \/ world' = [world EXCEPT !.subscribed = world.subscribed \cup {l}]
    BY <1>3, <2>4 DEF RegisterThunderNotificationLocked
  <2>7. world.subscribed \cup {l} \in SUBSET List
    BY <1>2
  <2>8. Values' /\ UNCHANGED iface
    BY <1>1, <2>1, <2>6, <2>7
  <2> QED BY <2>1, <2>5, <2>8, LatchReady, GoesOnFree
<1>4. CASE UnregisterThunderNotificationLocked(t)
  <2>1. At(t, "unsubscribe") /\ UNCHANGED <<library, link, lists, thread, raced, torn>>
    BY <1>4 DEF UnregisterThunderNotificationLocked
  <2>2. PICK l \in List : l = Arg(t)[1]
    BY <2>1, AtArg, CodeFacts
  <2>3. PICK d \in BOOLEAN :
          d = AfterUnregister(Arg(t)[2],
                              l = Ops \/ (Alive(iface) /\ l \in world.subscribed))
    BY DEF AfterUnregister
  <2>5. Continue(t, <<Do("latch", <<l, d>>)>>)
    BY <1>4, <2>2, <2>3 DEF UnregisterThunderNotificationLocked
  <2>6. \/ world' = world
        \/ world' = [world EXCEPT !.subscribed = world.subscribed \ {l}]
    BY <1>4, <2>2 DEF UnregisterThunderNotificationLocked
  <2>7. world.subscribed \ {l} \in SUBSET List
    BY <1>2
  <2>8. Values' /\ UNCHANGED iface
    BY <1>1, <2>1, <2>6, <2>7
  <2> QED BY <2>1, <2>5, <2>8, LatchReady, GoesOnFree
<1> QED BY <1>3, <1>4

LEMMA LatchStep ==
  ASSUME ClientInv, NEW t \in Thread, Latch(t)
  PROVE  ClientInv'
<1>1. /\ At(t, "latch") /\ Continue(t, <<>>) /\ Values
      /\ registered' = [registered EXCEPT ![Arg(t)[1]] = Arg(t)[2]]
      /\ UNCHANGED <<library, link, cbs, thread, world, raced, torn>>
  BY DEF Latch, ClientInv
<1>2. Arg(t) \in List \X BOOLEAN
  BY <1>1, AtArg, CodeFacts
<1>3. registered' \in [List -> BOOLEAN]
  BY <1>1, <1>2 DEF Values, TypeOK
<1>4. TypeOK' /\ UNCHANGED iface
  BY <1>1, <1>3 DEF Values, TypeOK, library, link, thread
<1>5. Values'
  BY <1>1, <1>4 DEF Values, WorldOK, FiniteLists
<1> QED BY <1>1, <1>4, <1>5, ReadyEmpty, GoesOnFree

\* The interface is obtained and released.
LEMMA InterfaceSteps ==
  ASSUME ClientInv, NEW t \in Thread, Attach(t) \/ Drop(t)
  PROVE  ClientInv'
<1>1. ASSUME NEW i \in 0 .. MaxRestarts, iface' = i,
             UNCHANGED <<library, connected, lists, thread, world, raced, torn>>
      PROVE  Values'
  <2>1. TypeOK'
    BY <1>1 DEF ClientInv, Values, TypeOK, library, lists, thread
  <2> QED BY <1>1, <2>1 DEF ClientInv, Values, WorldOK, FiniteLists, lists
<1>2. iface \in 0 .. MaxRestarts /\ world.plugin \in 0 .. MaxRestarts
  BY DEF ClientInv, Values, TypeOK, WorldOK
<1>3. CASE Attach(t)
  <2>1. /\ At(t, "attach")
        /\ iface' = IF iface = 0 /\ Alive(world.reported) THEN world.plugin ELSE iface
        /\ UNCHANGED <<library, connected, lists, thread, world, raced, torn>>
    BY <1>3 DEF Attach
  <2>2. Values'
    BY <1>1, <1>2, <2>1
  <2>3. PICK b : b = IF iface' # iface THEN SubscribeAllNotificationsLocked ELSE <<>>
    OBVIOUS
  <2>4. Continue(t, b)
    BY <1>3, <2>3 DEF Attach
  <2>5. Ready(b, Code, ClientLocks, {}, {})
    BY <2>3, ListsReady, ReadyEmpty
  <2>6. <<"attach", "internal">> \in ClientLocks.under \cup ClientLocks.inside
    BY DEF ClientLocks
  <2> QED BY <2>1, <2>2, <2>4, <2>5, <2>6, GoesOnFree
<1>4. CASE Drop(t)
  <2>1. /\ At(t, "drop") /\ iface' = 0 /\ Continue(t, <<>>)
        /\ UNCHANGED <<library, connected, lists, thread, world, raced, torn>>
    BY <1>4 DEF Drop
  <2>2. 0 \in 0 .. MaxRestarts
    BY CallsAssumption
  <2>3. Values'
    BY <1>1, <2>1, <2>2
  <2>4. <<"drop", "internal">> \in ClientLocks.under \cup ClientLocks.inside
    BY DEF ClientLocks
  <2> QED BY <2>1, <2>3, <2>4, ReadyEmpty, GoesOnFree
<1> QED BY <1>3, <1>4

\* Before the interface is released the lists are unregistered.
LEMMA DetachStep ==
  ASSUME ClientInv, NEW t \in Thread, Detach(t)
  PROVE  ClientInv'
<1>1. /\ At(t, "detach") /\ Values /\ Disciplined(Code, ClientLocks)
      /\ UNCHANGED <<library, link, lists, thread, world, raced, torn>>
  BY DEF Detach, ClientInv
<1>2. PICK u : u = UnsubscribeAllNotificationsLocked
  OBVIOUS
<1>3. PICK d : d = <<Do("drop", 0)>>
  OBVIOUS
<1>4. Ready(u, Code, ClientLocks, {"internal"}, {"internal"}) /\ NoInvoke(u)
  BY <1>2, ListsReady, ReadyMore, ReadyNoInvoke
<1>5. d \in Seq(Code) /\ DOMAIN d = {1} /\ d[1].op = "drop"
  BY <1>3, BareInCode, DoFacts DEF Bare
<1>6. /\ \A g \in ClientLocks.under \cup ClientLocks.first : "drop" # g[1]
      /\ \A g \in ClientLocks.inside : "drop" = g[1] => g[2] \in {"internal"}
  BY DEF ClientLocks
<1>7. Ready(d, Code, ClientLocks, {"internal"}, {"internal"})
  BY <1>5, <1>6, ReadyPlain
<1>8. Ready(u \o d, Code, ClientLocks, {"internal"}, {"internal"})
  BY <1>4, <1>7, ReadyJoin
<1>9. u \in Seq(Code)
  BY <1>4 DEF Ready
<1>10. NoInvoke(u \o d)
  <2>1. PICK z : z = u \o d
    OBVIOUS
  <2>2. Joined(z, u, d)
    BY <1>5, <1>9, <2>1, JoinedFacts
  <2>3. PICK n, m : n = Len(u) /\ m = Len(d)
    OBVIOUS
  <2>4. n \in Nat /\ m \in Nat /\ DOMAIN u = 1 .. n /\ DOMAIN d = 1 .. m
    BY <1>5, <1>9, <2>3, LenProperties
  <2>5. /\ DOMAIN z = 1 .. n + m
        /\ \A i \in 1 .. n : z[i] = u[i]
        /\ \A i \in 1 .. m : z[n + i] = d[i]
    BY <2>2, <2>3 DEF Joined
  <2>6. ASSUME NEW i \in DOMAIN z
        PROVE  z[i].op # "invoke"
    <3>1. CASE i \in 1 .. n
      BY <1>4, <2>4, <2>5, <3>1 DEF NoInvoke
    <3>2. CASE i \notin 1 .. n
      <4>1. PICK j : j = i - n
        OBVIOUS
      <4>2. j \in 1 .. m /\ n + j = i
        BY <2>4, <2>5, <3>2, <4>1
      <4>3. z[i] = d[j] /\ j = 1
        BY <1>5, <2>4, <2>5, <4>2
      <4> QED BY <1>5, <4>3
    <3> QED BY <3>1, <3>2
  <2> QED BY <2>1, <2>6 DEF NoInvoke
<1>11. Append(u, Do("drop", 0)) = u \o d
  BY <1>3, <1>9
<1>12. PICK b : b = IF iface # 0 THEN u \o d ELSE <<>>
  OBVIOUS
<1>13. Continue(t, b)
  BY <1>2, <1>11, <1>12 DEF Detach
<1>14. NoInvoke(<<>>) /\ Ready(<<>>, Code, ClientLocks, {"internal"}, {"internal"})
  BY ReadyEmpty DEF NoInvoke
<1>15. NoInvoke(b) /\ Ready(b, Code, ClientLocks, {"internal"}, {"internal"})
  BY <1>8, <1>10, <1>12, <1>14
<1>16. \A l \in {"internal"} :
         <<"detach", l>> \in ClientLocks.under \cup ClientLocks.inside
  BY DEF ClientLocks
<1>17. Values' /\ UNCHANGED iface
  BY <1>1, ValuesKept
<1> QED BY <1>1, <1>13, <1>15, <1>16, <1>17, GoesOn

\* The operational state is told, and a list's callbacks are called.
LEMMA TellStep ==
  ASSUME ClientInv, NEW t \in Thread, Tell(t)
  PROVE  ClientInv'
<1>1. /\ At(t, "tell") /\ Values
      /\ UNCHANGED <<library, link, lists, thread, world, raced, torn>>
  BY DEF Tell, ClientInv
<1>2. PICK b : b = IF shutdown THEN <<>> ELSE With("callback", <<Do("notify", Ops)>>)
  OBVIOUS
<1>3. Continue(t, b)
  BY <1>2 DEF Tell
<1>4. Do("notify", Ops) \in Code /\ "notify" \notin {"lock", "unlock"}
  BY CallsAssumption DEF Code, ListCode
<1>5. /\ \A g \in ClientLocks.under : "notify" = g[1] => g[2] = "callback"
      /\ \A g \in ClientLocks.inside : "notify" # g[1]
      /\ "callback" \in Lock
  BY DEF ClientLocks, Lock
<1>6. Ready(With("callback", <<Do("notify", Ops)>>), Code, ClientLocks, {}, {})
  BY <1>4, <1>5, OneUnderReady
<1>7. Ready(b, Code, ClientLocks, {}, {})
  BY <1>2, <1>6, ReadyEmpty
<1> QED BY <1>1, <1>3, <1>7, ValuesKept, GoesOnFree

LEMMA NotifyStep ==
  ASSUME ClientInv, NEW t \in Thread, Notify(t)
  PROVE  ClientInv'
<1>1. /\ At(t, "notify") /\ Values
      /\ UNCHANGED <<library, link, lists, thread, world, raced, torn>>
  BY DEF Notify, ClientInv
<1>2. PICK l \in List : l = Arg(t)
  BY <1>1, AtArg, CodeFacts
<1>3. PICK S : S = cbs[l]
  OBVIOUS
<1>4. S \subseteq Callback /\ IsFiniteSet(S)
  BY <1>1, <1>3 DEF Values, TypeOK, FiniteLists
<1>5. PICK n, q : n = Cardinality(S) /\ q = SetToSeq(S)
  OBVIOUS
<1>6. n \in Nat /\ q \in [1 .. n -> S]
  BY <1>4, <1>5, Enumerated
<1>7. PICK b : b = [i \in 1 .. n |-> Do("call", <<l, q[i]>>)]
  OBVIOUS
<1>8. Continue(t, b)
  BY <1>2, <1>3, <1>5, <1>7 DEF Notify
<1>9. ASSUME NEW c \in Callback
      PROVE  Do("call", <<l, c>>) \in Code
  BY DEF Code, CallbackCode
<1>10. b \in Seq(Code) /\ DOMAIN b = 1 .. n
  BY <1>4, <1>6, <1>7, <1>9
<1>11. \A i \in DOMAIN b : b[i].op = "call"
  BY <1>7, <1>10, DoFacts
<1>12. /\ \A g \in ClientLocks.under \cup ClientLocks.first : "call" # g[1]
       /\ \A g \in ClientLocks.inside : "call" = g[1] => g[2] \in {"callback"}
  BY DEF ClientLocks
<1>13. Ready(b, Code, ClientLocks, {"callback"}, {"callback"})
  BY <1>10, <1>11, <1>12, ReadyPlain
<1>14. NoInvoke(b)
  BY <1>11 DEF NoInvoke
<1>15. \A k \in {"callback"} :
         <<"notify", k>> \in ClientLocks.under \cup ClientLocks.inside
  BY DEF ClientLocks
<1>16. Values' /\ UNCHANGED iface
  BY <1>1, ValuesKept
<1> QED BY <1>1, <1>8, <1>13, <1>14, <1>15, <1>16, GoesOn

\* A request enters the plugin, with the interface the library holds.
LEMMA ProxyStep ==
  ASSUME ClientInv, NEW t \in Thread, Proxy(t)
  PROVE  ClientInv'
<1>1. /\ At(t, "proxy") /\ Values /\ Disciplined(Code, ClientLocks)
      /\ UNCHANGED <<library, link, lists, thread, world, raced, torn>>
  BY DEF Proxy, ClientInv
<1>2. Values' /\ UNCHANGED iface
  BY <1>1, ValuesKept
<1>3. CASE iface = 0
  <2>1. Continue(t, <<>>)
    BY <1>3 DEF Proxy
  <2> QED BY <1>1, <1>2, <2>1, ReadyEmpty, GoesOnFree
<1>4. CASE iface # 0
  <2>1. PICK call \in AllCalls : call = Arg(t)
    BY <1>1, AtArg, CodeFacts
  <2>2. PICK x, b : x = Do("invoke", <<call, iface>>) /\ b = <<x>>
    OBVIOUS
  <2>3. Continue(t, b)
    BY <1>4, <2>1, <2>2 DEF Proxy
  <2>4. iface \in Nat
    BY <1>1, CallsAssumption DEF Values, TypeOK
  <2>5. x \in Code /\ x.op = "invoke" /\ x.arg[2] = iface
    BY <2>2, <2>4, DoFacts DEF Code, ValueCode
  <2>6. /\ b \in Seq(Code) /\ DOMAIN b = {1} /\ b[1] = x
    BY <2>2, <2>5
  <2>7. /\ \A g \in ClientLocks.under \cup ClientLocks.first : "invoke" # g[1]
        /\ \A g \in ClientLocks.inside : "invoke" = g[1] => g[2] \in {"internal"}
    BY DEF ClientLocks
  <2>8. Ready(b, Code, ClientLocks, {"internal"}, {"internal"})
    BY <2>5, <2>6, <2>7, ReadyPlain
  <2>9. \A l \in {"internal"} :
          <<"proxy", l>> \in ClientLocks.under \cup ClientLocks.inside
    BY DEF ClientLocks
  <2>10. Disciplined(Code, ClientLocks)'
    BY <1>1, <2>3, <2>8, <2>9, PlainCode, ContinueKeeps
  <2>11. PICK r : r = Rest(t)
    OBVIOUS
  <2>12. r \in Seq(Code)
    BY <1>1, <2>11, PlainCode, AtFacts DEF Sound
  <2>13. PICK n : n = Nested(b, r)
    OBVIOUS
  <2>14. Renamed \subseteq Code
    BY PlainCode DEF Plain
  <2>15. n \in Seq(Code) /\ InFront(n, b, r)
    BY <2>6, <2>12, <2>13, <2>14, NestedFacts
  <2>16. PICK m, k : m = Len(n) /\ k = Len(r)
    OBVIOUS
  <2>17. m \in Nat /\ k \in Nat /\ DOMAIN n = 1 .. m /\ m = k + 1 /\ Len(b) = 1
    <3>1. Len(b) = 1
      BY <2>2
    <3>2. m \in Nat /\ k \in Nat /\ DOMAIN n = 1 .. m
      BY <2>12, <2>15, <2>16, LenProperties
    <3>3. Len(n) = Len(b) + Len(r)
      BY <2>15 DEF InFront
    <3> QED BY <2>16, <3>1, <3>2, <3>3
  <2>18. n[1] = x
    <3>1. n[1] = Under(b[1], r)
      BY <2>15, <2>17 DEF InFront
    <3> QED BY <2>5, <2>6, <3>1 DEF Under
  <2>19. ASSUME NEW i \in DOMAIN n, i # 1
         PROVE  n[i].op # "invoke"
    <3>1. PICK j : j = i - 1
      OBVIOUS
    <3>2. j \in 1 .. k /\ 1 + j = i
      BY <2>17, <2>19, <3>1
    <3>3. n[1 + j] = r[j]
      BY <2>15, <2>16, <2>17, <3>2 DEF InFront
    <3>4. j \in DOMAIN r
      BY <2>12, <2>16, <3>2, LenProperties
    <3>5. Includes(r, n[i])
      BY <3>2, <3>3, <3>4 DEF Includes
    <3> QED BY <1>1, <2>11, <3>5, RestNoInvoke
  <2>20. AfterUnlocks(n) = n
    <3>1. PICK e \in 1 .. Len(n) + 1 :
            /\ AfterUnlocks(n) = SubSeq(n, e, Len(n))
            /\ \A j \in 1 .. e - 1 : n[j].op = "unlock"
      BY <2>15, AfterUnlocksFacts
    <3>2. ~(1 \in 1 .. e - 1)
      BY <2>5, <2>18, <3>1
    <3>3. e = 1
      BY <2>16, <2>17, <3>1, <3>2
    <3> QED BY <2>15, <3>1, <3>3
  <2>21. todo'[t] = n /\ \A u \in Thread \ {t} : todo'[u] = todo[u]
    BY <1>1, <2>3, <2>11, <2>13, <2>20 DEF Continue, Disciplined
  <2>22. ASSUME NEW u \in Thread
         PROVE  Invoked(todo[u])'
    <3>1. CASE u = t
      BY <1>2, <2>5, <2>18, <2>19, <2>21, <3>1 DEF Invoked
    <3>2. CASE u # t
      <4>1. Invoked(todo[u]) /\ todo'[u] = todo[u]
        BY <2>21, <3>2 DEF ClientInv
      <4> QED BY <1>2, <4>1 DEF Invoked
    <3> QED BY <3>1, <3>2
  <2> QED BY <1>2, <2>10, <2>22 DEF ClientInv
<1> QED BY <1>3, <1>4

\* The channel.
LEMMA ChannelSteps ==
  ASSUME ClientInv, NEW t \in Thread, Connect(t) \/ Closed(t)
  PROVE  ClientInv'
<1>1. Values /\ world.pid \in Nat /\ pid \in {pid}
  BY DEF ClientInv, Values, WorldOK
<1>2. CASE Connect(t)
  <2>1. /\ At(t, "open") /\ Continue(t, <<>>)
        /\ UNCHANGED <<library, iface, lists, stop, raced, torn>>
    BY <1>2 DEF Connect
  <2>2. /\ connected' \in BOOLEAN
        /\ monitor' \in {"none", "running", "ended"}
        /\ world' = world \/ world' = [world EXCEPT !.channel = world.pid]
    BY <1>1, <1>2 DEF Connect, Run, Values, TypeOK
  <2>3. WorldOK'
    BY <1>1, <2>2 DEF Values, WorldOK
  <2>4. TypeOK'
    BY <1>1, <2>1, <2>2 DEF Values, TypeOK, library, lists
  <2>5. Values'
    BY <1>1, <2>1, <2>3, <2>4 DEF Values, FiniteLists, lists
  <2> QED BY <2>1, <2>5, ReadyEmpty, GoesOnFree
<1>3. CASE Closed(t)
  <2>1. /\ At(t, "closed") /\ Continue(t, <<>>) /\ connected' = FALSE
        /\ UNCHANGED <<library, iface, lists, thread, world, raced, torn>>
    BY <1>3 DEF Closed
  <2>2. TypeOK'
    BY <1>1, <2>1 DEF Values, TypeOK, library, lists, thread
  <2>3. Values'
    BY <1>1, <2>1, <2>2 DEF Values, WorldOK, FiniteLists, lists
  <2> QED BY <2>1, <2>3, ReadyEmpty, GoesOnFree
<1> QED BY <1>2, <1>3

\* Close reports the loss of the plugin, when one was reported.
LEMMA CloseStep ==
  ASSUME ClientInv, NEW t \in Thread, Disconnect(t)
  PROVE  ClientInv'
<1>1. /\ At(t, "close") /\ Values
      /\ UNCHANGED <<library, link, lists, thread, raced, torn>>
      /\ world' = world \/ world' = [world EXCEPT !.channel = 0, !.reported = 0]
  BY DEF Disconnect, ClientInv
<1>2. WorldOK'
  <2>1. CASE world' = world
    BY <1>1, <2>1 DEF Values, WorldOK
  <2>2. CASE world' = [world EXCEPT !.channel = 0, !.reported = 0]
    BY <1>1, <2>2 DEF Values, WorldOK
  <2> QED BY <1>1, <2>1, <2>2
<1>3. Values' /\ UNCHANGED iface
  BY <1>1, <1>2 DEF Values, TypeOK, FiniteLists, library, link, lists, thread
<1>4. PICK f \in BOOLEAN : f = FALSE
  OBVIOUS
<1>5. PICK x : x = IF world.reported # 0 THEN OperationalBody(f) ELSE <<>>
  OBVIOUS
<1>6. Ready(x, Code, ClientLocks, {}, {})
  BY <1>5, OperationalReady, ReadyEmpty
<1>7. Do("closed", 0) \in Code /\ "closed" \notin Relying \cup {"lock", "unlock"}
  BY BareInCode DEF Bare, Relying
<1>8. PICK y : y = x \o <<Do("closed", 0)>>
  OBVIOUS
<1>9. Ready(y, Code, ClientLocks, {}, {})
  BY <1>6, <1>7, <1>8, OneReady, ReadyJoin
<1>10. PICK b : b = IF ~connected THEN <<>> ELSE y
  OBVIOUS
<1>11. Continue(t, b)
  BY <1>4, <1>5, <1>8, <1>10 DEF Disconnect
<1>12. Ready(b, Code, ClientLocks, {}, {})
  BY <1>9, <1>10, ReadyEmpty
<1> QED BY <1>1, <1>3, <1>11, <1>12, GoesOnFree

\* The monitor.
LEMMA MonitorSteps ==
  ASSUME ClientInv, NEW t \in Thread, Stop(t) \/ Join(t) \/ PidStored(t)
  PROVE  ClientInv'
<1>1. Values /\ stop \in BOOLEAN
  BY DEF ClientInv, Values, TypeOK
<1>2. ASSUME UNCHANGED <<library, link, lists, world, raced, torn>>, stop' \in BOOLEAN,
             monitor' \in {"none", "running", "ended"}
      PROVE  Values' /\ UNCHANGED iface
  BY <1>1, <1>2 DEF Values, TypeOK, WorldOK, FiniteLists, library, link, lists
<1>3. CASE Stop(t)
  <2>1. PICK b : b = IF monitor = "none" THEN <<>> ELSE <<Do("join", 0)>>
    OBVIOUS
  <2>2. At(t, "stop") /\ Continue(t, b)
    BY <1>3, <2>1 DEF Stop
  <2>3. Do("join", 0) \in Code /\ "join" \notin Relying \cup {"lock", "unlock"}
    BY BareInCode DEF Bare, Relying
  <2>4. Ready(b, Code, ClientLocks, {}, {})
    BY <2>1, <2>3, OneOrNone
  <2>5. stop' \in BOOLEAN
    BY <1>3 DEF Stop
  <2>6. Values' /\ UNCHANGED iface
    BY <1>1, <1>2, <1>3, <2>5 DEF Stop, Values, TypeOK
  <2> QED BY <2>2, <2>4, <2>6, GoesOnFree
<1>4. CASE Join(t)
  <2>1. At(t, "join") /\ Continue(t, <<>>)
    BY <1>4 DEF Join
  <2>2. Values' /\ UNCHANGED iface
    BY <1>1, <1>2, <1>4 DEF Join
  <2> QED BY <2>1, <2>2, ReadyEmpty, GoesOnFree
<1>5. CASE PidStored(t)
  <2>1. At(t, "pid") /\ Continue(t, <<>>)
    BY <1>5 DEF PidStored
  <2>2. Values' /\ UNCHANGED iface
    BY <1>1, <1>2, <1>5 DEF PidStored, Values, TypeOK
  <2> QED BY <2>1, <2>2, ReadyEmpty, GoesOnFree
<1> QED BY <1>3, <1>4, <1>5

\* The instance is made.
LEMMA NewStep ==
  ASSUME ClientInv, NEW t \in Thread, New(t)
  PROVE  ClientInv'
<1>1. Values /\ At(t, "new") /\ instance' = TRUE
      /\ UNCHANGED <<initialized, lists, world, raced, torn>>
  BY DEF New, ClientInv
<1>2. PICK b : b = IF instance THEN <<>> ELSE ConnectBody
  OBVIOUS
<1>3. Continue(t, b)
  BY <1>2 DEF New
<1>4. Ready(b, Code, ClientLocks, {}, {})
  BY <1>2, ConnectReady, ReadyEmpty
<1>5. 0 \in 0 .. MaxRestarts
  BY CallsAssumption
<1>6. TypeOK'
  <2>1. CASE instance
    <3>1. UNCHANGED <<shutdown, link, thread>>
      BY <2>1 DEF New
    <3> QED BY <1>1, <3>1 DEF Values, TypeOK, link, thread, lists
  <2>2. CASE ~instance
    <3>1. /\ shutdown' = FALSE /\ stop' = FALSE /\ connected' = FALSE /\ iface' = 0
          /\ UNCHANGED monitor
      BY <2>2 DEF New
    <3> QED BY <1>1, <1>5, <3>1 DEF Values, TypeOK, lists
  <2> QED BY <2>1, <2>2
<1>7. Values'
  BY <1>1, <1>6 DEF Values, WorldOK, FiniteLists, lists
<1>8. <<"new", "internal">> \in ClientLocks.under \cup ClientLocks.inside
  BY DEF ClientLocks
<1> QED BY <1>1, <1>3, <1>4, <1>7, <1>8, GoesOnFree

\* The instance is destroyed.
LEMMA DestroySteps ==
  ASSUME ClientInv, NEW t \in Thread, Destroy(t) \/ Delete(t)
  PROVE  ClientInv'
<1>1. Values
  BY DEF ClientInv
<1>2. CASE Destroy(t)
  <2>1. /\ At(t, "destroy") /\ shutdown' = (shutdown \/ instance)
        /\ UNCHANGED <<instance, initialized, link, lists, thread, world, raced, torn>>
    BY <1>2 DEF Destroy
  <2>2. shutdown' \in BOOLEAN
    BY <2>1
  <2>3. TypeOK' /\ UNCHANGED iface
    BY <1>1, <2>1, <2>2 DEF Values, TypeOK, link, lists, thread
  <2>4. Values'
    BY <1>1, <2>1, <2>3 DEF Values, WorldOK, FiniteLists, lists
  <2>5. PICK f \in BOOLEAN : f = TRUE
    OBVIOUS
  <2>6. PICK x, y : x = DisconnectBody(f) /\ y = x \o <<Do("delete", 0)>>
    OBVIOUS
  <2>7. Do("delete", 0) \in Code /\ "delete" \notin Relying \cup {"lock", "unlock"}
    BY BareInCode DEF Bare, Relying
  <2>8. Ready(x, Code, ClientLocks, {}, {})
    BY <2>6, DisconnectReady
  <2>9. Ready(y, Code, ClientLocks, {}, {})
    BY <2>6, <2>7, <2>8, OneReady, ReadyJoin
  <2>10. x \in Seq(Code)
    BY <2>8 DEF Ready
  <2>11. Append(x, Do("delete", 0)) = y
    BY <2>6, <2>10
  <2>12. PICK b : b = IF instance THEN y ELSE <<>>
    OBVIOUS
  <2>13. Continue(t, b)
    BY <1>2, <2>5, <2>6, <2>11, <2>12 DEF Destroy
  <2>14. Ready(b, Code, ClientLocks, {}, {})
    BY <2>9, <2>12, ReadyEmpty
  <2> QED BY <2>1, <2>3, <2>4, <2>13, <2>14, GoesOnFree
<1>3. CASE Delete(t)
  <2>1. /\ At(t, "delete") /\ Continue(t, <<>>) /\ instance' = FALSE
        /\ cbs' = [l \in List |-> {}] /\ registered' = [l \in List |-> FALSE]
        /\ torn' = (torn \/ Dispatching)
        /\ UNCHANGED <<initialized, shutdown, link, thread, world, raced>>
    BY <1>3 DEF Delete
  <2>2. /\ cbs' \in [List -> SUBSET Callback] /\ registered' \in [List -> BOOLEAN]
        /\ \A l \in List : IsFiniteSet(cbs'[l])
    BY <2>1, FS_EmptySet
  <2>3. TypeOK' /\ UNCHANGED iface
    BY <1>1, <2>1, <2>2 DEF Values, TypeOK, link, thread
  <2>4. Values'
    BY <1>1, <2>1, <2>2, <2>3 DEF Values, WorldOK, FiniteLists
  <2> QED BY <2>1, <2>3, <2>4, ReadyEmpty, GoesOnFree
<1> QED BY <1>2, <1>3

\* The C functions, and what they find initialized.
LEMMA FunctionSteps ==
  ASSUME ClientInv, NEW t \in Thread,
         \/ Instance(t) \/ MarkInitialized(t) \/ IfInitialized(t)
         \/ Return(t) \/ UserCallback(t)
  PROVE  ClientInv'
<1>1. Values
  BY DEF ClientInv
<1>2. CASE Instance(t)
  <2>1. PICK b : b = IF instance THEN <<>> ELSE InitBody
    OBVIOUS
  <2>2. At(t, "instance") /\ Continue(t, b)
    BY <1>2, <2>1 DEF Instance
  <2>3. Ready(b, Code, ClientLocks, {}, {})
    BY <2>1, ConnectReady, ReadyEmpty
  <2>4. Values' /\ UNCHANGED iface
    BY <1>1, <1>2, ValuesKept DEF Instance
  <2> QED BY <2>2, <2>3, <2>4, GoesOnFree
<1>3. CASE MarkInitialized(t)
  <2>1. /\ At(t, "mark") /\ Continue(t, <<>>) /\ initialized' = Arg(t)
        /\ UNCHANGED <<instance, shutdown, link, lists, thread, world, raced, torn>>
    BY <1>3 DEF MarkInitialized
  <2>2. initialized' \in BOOLEAN
    BY <2>1, AtArg, CodeFacts
  <2>3. TypeOK' /\ UNCHANGED iface
    BY <1>1, <2>1, <2>2 DEF Values, TypeOK, link, lists, thread
  <2>4. Values'
    BY <1>1, <2>1, <2>3 DEF Values, WorldOK, FiniteLists, lists
  <2> QED BY <2>1, <2>3, <2>4, ReadyEmpty, GoesOnFree
<1>4. CASE IfInitialized(t)
  <2>1. At(t, "guarded")
    BY <1>4 DEF IfInitialized
  <2>2. PICK g \in Guarded : g = Arg(t)
    BY <2>1, AtArg, CodeFacts
  <2>3. PICK b : b = IF initialized THEN <<Do("instance", 0)>> \o g ELSE <<>>
    OBVIOUS
  <2>4. Continue(t, b)
    BY <1>4, <2>2, <2>3 DEF IfInitialized
  <2>5. Ready(<<Do("instance", 0)>> \o g, Code, ClientLocks, {}, {})
    BY GuardedReady, InstanceReady
  <2>6. Ready(b, Code, ClientLocks, {}, {})
    BY <2>3, <2>5, ReadyEmpty
  <2>7. Values' /\ UNCHANGED iface
    BY <1>1, <1>4, ValuesKept DEF IfInitialized
  <2> QED BY <2>1, <2>4, <2>6, <2>7, GoesOnFree
<1>5. CASE Return(t)
  <2>1. At(t, "invoke") /\ Continue(t, <<>>)
    BY <1>5 DEF Return
  <2>2. Values' /\ UNCHANGED iface
    BY <1>1, <1>5, ValuesKept DEF Return
  <2> QED BY <2>1, <2>2, ReadyEmpty, GoesOnFree
<1>6. CASE UserCallback(t)
  <2>1. At(t, "call")
    BY <1>6 DEF UserCallback
  <2>2. PICK b \in {<<>>} \cup {Request(call) : call \in CallbackCalls} : Continue(t, b)
    BY <1>6 DEF UserCallback
  <2>3. Ready(b, Code, ClientLocks, {}, {})
    BY <2>2, CallsAssumption, RequestReady, ReadyEmpty
  <2>4. Values' /\ UNCHANGED iface
    BY <1>1, <1>6, ValuesKept DEF UserCallback
  <2> QED BY <2>1, <2>2, <2>3, <2>4, GoesOnFree
<1> QED BY <1>2, <1>3, <1>4, <1>5, <1>6

\* Whoever starts: the application, the monitor, Thunder's threads.
LEMMA ThreadsStart ==
  ASSUME ClientInv,
         \/ \E t \in App : ApplicationCalls(t)
         \/ handle_inotify_event \/ LinkReports \/ PluginNotifies
  PROVE  ClientInv'
<1>1. Values /\ App \subseteq Thread /\ {Monitor, Link, Notifier} \subseteq Thread
  BY CallsAssumption DEF ClientInv
<1>2. ASSUME WorldOK', UNCHANGED <<library, link, lists, thread, raced, torn>>
      PROVE  Values' /\ UNCHANGED iface
  BY <1>1, <1>2 DEF Values, TypeOK, FiniteLists, library, link, lists, thread
<1>3. ASSUME NEW t \in App, ApplicationCalls(t)
      PROVE  ClientInv'
  <2>1. PICK b \in Functions : Start(t, b)
    BY <1>3 DEF ApplicationCalls
  <2>2. Values' /\ UNCHANGED iface
    BY <1>1, <1>3, ValuesKept DEF ApplicationCalls
  <2> QED BY <1>1, <2>1, <2>2, FunctionsReady, Starts
<1>4. CASE handle_inotify_event
  <2>1. PICK read \in readPID :
          Start(Monitor, IF read = 0 THEN <<>> ELSE pidChangedCb(read))
    BY <1>4 DEF handle_inotify_event
  <2>2. read \in Nat
    BY <1>1, <2>1 DEF readPID, Values, WorldOK
  <2>3. PICK f \in BOOLEAN : f = FALSE
    OBVIOUS
  <2>4. Do("pid", read) \in Code /\ "pid" \notin Relying \cup {"lock", "unlock"}
    BY <2>2 DEF Code, ValueCode, Relying
  <2>5. Ready(DisconnectBody(f) \o ConnectBody, Code, ClientLocks, {}, {})
    BY DisconnectReady, ConnectReady, ReadyJoin
  <2>6. Ready((DisconnectBody(f) \o ConnectBody) \o <<Do("pid", read)>>, Code,
              ClientLocks, {}, {})
    BY <2>4, <2>5, OneReady, ReadyJoin
  <2>7. Ready(pidChangedCb(read), Code, ClientLocks, {}, {})
    BY <2>3, <2>6, ReadyEmpty DEF pidChangedCb
  <2>8. PICK b : b = IF read = 0 THEN <<>> ELSE pidChangedCb(read)
    OBVIOUS
  <2>9. Ready(b, Code, ClientLocks, {}, {}) /\ Start(Monitor, b)
    BY <2>1, <2>7, <2>8, ReadyEmpty
  <2>10. WorldOK'
    BY <1>1, <1>4 DEF handle_inotify_event, Values, WorldOK
  <2>11. Values' /\ UNCHANGED iface
    BY <1>2, <1>4, <2>10 DEF handle_inotify_event
  <2> QED BY <1>1, <2>9, <2>11, Starts
<1>5. CASE LinkReports
  <2>1. UNCHANGED <<library, link, lists, thread, raced, torn>>
    BY <1>5 DEF LinkReports
  <2>2. PICK up \in BOOLEAN, v \in {0, world.plugin} :
          world' = [world EXCEPT !.reported = v] /\ Start(Link, OperationalBody(up))
    BY <1>5 DEF LinkReports
  <2>3. v \in Nat
    BY <1>1, <2>2, CallsAssumption DEF Values, WorldOK
  <2>4. WorldOK'
    BY <1>1, <2>2, <2>3 DEF Values, WorldOK
  <2>5. Values' /\ UNCHANGED iface
    BY <1>2, <2>1, <2>4
  <2> QED BY <1>1, <2>2, <2>5, OperationalReady, Starts
<1>6. CASE PluginNotifies
  <2>1. PICK l \in world.subscribed :
          Start(Notifier, With("callback", <<Do("notify", l)>>))
    BY <1>6 DEF PluginNotifies
  <2>2. l \in List
    BY <1>1, <2>1 DEF Values, WorldOK
  <2>3. Do("notify", l) \in Code /\ "notify" \notin {"lock", "unlock"}
    BY <2>2 DEF Code, ListCode
  <2>4. /\ \A g \in ClientLocks.under : "notify" = g[1] => g[2] = "callback"
        /\ \A g \in ClientLocks.inside : "notify" # g[1]
        /\ "callback" \in Lock
    BY DEF ClientLocks, Lock
  <2>5. Ready(With("callback", <<Do("notify", l)>>), Code, ClientLocks, {}, {})
    BY <2>3, <2>4, OneUnderReady
  <2>6. Values' /\ UNCHANGED iface
    BY <1>1, <1>6, ValuesKept DEF PluginNotifies
  <2> QED BY <1>1, <2>1, <2>5, <2>6, Starts
<1> QED BY <1>3, <1>4, <1>5, <1>6

\* What happens outside, and the end of the monitor.
LEMMA OutsideSteps ==
  ASSUME ClientInv, Outside \/ monitorThread \/ UNCHANGED vars
  PROVE  ClientInv'
<1>1. Values
  BY DEF ClientInv
<1>2. CASE Outside
  <2>1. UNCHANGED <<todo, library, link, lists, thread, raced, torn>>
    BY <1>2 DEF Outside
  <2>2. CASE PluginActivated
    <3>1. world.plugin + 1 \in 0 .. MaxRestarts
      BY <1>1, <2>2, CallsAssumption DEF PluginActivated, Values, WorldOK
    <3>2. WorldOK'
      BY <1>1, <2>2, <3>1 DEF PluginActivated, Values, WorldOK
    <3>3. Values' /\ UNCHANGED iface
      BY <1>1, <2>1, <3>2 DEF Values, TypeOK, FiniteLists, library, link, lists, thread
    <3> QED BY <2>1, <3>3, NothingStarts
  <2>3. CASE PluginDeactivated \/ ThunderRestarted
    <3>1. WorldOK'
      <4>1. CASE PluginDeactivated
        BY <1>1, <4>1 DEF PluginDeactivated, Values, WorldOK
      <4>2. CASE ThunderRestarted
        <5>1. world.pid + 1 \in Nat
          BY <1>1 DEF Values, WorldOK
        <5> QED BY <1>1, <4>2, <5>1 DEF ThunderRestarted, Values, WorldOK
      <4> QED BY <2>3, <4>1, <4>2
    <3>2. Values' /\ UNCHANGED iface
      BY <1>1, <2>1, <3>1 DEF Values, TypeOK, FiniteLists, library, link, lists, thread
    <3> QED BY <2>1, <3>2, NothingStarts
  <2> QED BY <1>2, <2>2, <2>3 DEF Outside
<1>3. CASE monitorThread
  <2>1. /\ monitor' = "ended"
        /\ UNCHANGED <<todo, library, link, lists, stop, pid, world, raced, torn>>
    BY <1>3 DEF monitorThread
  <2>2. Values' /\ UNCHANGED iface
    BY <1>1, <2>1 DEF Values, TypeOK, WorldOK, FiniteLists, library, link, lists
  <2> QED BY <2>1, <2>2, NothingStarts
<1>4. CASE UNCHANGED vars
  <2>1. UNCHANGED <<todo, library, link, lists, thread, world, raced, torn>>
    BY <1>4 DEF vars
  <2> QED BY <1>1, <2>1, ValuesKept, NothingStarts
<1> QED BY <1>2, <1>3, <1>4

----------------------------------------------------------------------------
(* The order of the locks: the functions' before the connection's before   *)
(* the callbacks'.  What a callback of the application requests, with the  *)
(* callbacks' lock held, is outside it.                                    *)

\* The operations that go on to take locks, never within a dispatch.
Outer == {"instance", "new", "guarded", "close", "tell", "destroy"}

ClientOrder ==
  [rank  |-> [l \in Lock |-> IF l = "capi" THEN 1 ELSE IF l = "internal" THEN 2 ELSE 3],
   never |-> {x \in Code : x.op \in Outer} \X {"callback"},
   pairs |-> {},
   outer |-> IF CallbackCalls = {} THEN {} ELSE {"callback"}]

\* The locks an outer operation may be called with.
Connection == {"capi", "internal"}

Safe(b) == Ready(b, Code, ClientLocks, {}, {}) /\ Orderly(b, Connection, ClientOrder)

LEMMA ClientOrderFacts ==
  /\ ClientOrder.rank = [l \in Lock |-> IF l = "capi" THEN 1
                                        ELSE IF l = "internal" THEN 2 ELSE 3]
  /\ DOMAIN ClientOrder.rank = Lock
  /\ \A x, m : <<x, m>> \in ClientOrder.never => x.op \in Outer /\ m = "callback"
  /\ ClientOrder.pairs = {}
  /\ ClientOrder.outer = IF CallbackCalls = {} THEN {} ELSE {"callback"}
  /\ OrderAssumptions(ClientOrder)
  /\ Ranked(Code, ClientOrder)
<1>1. /\ ClientOrder.rank = [l \in Lock |-> IF l = "capi" THEN 1
                                            ELSE IF l = "internal" THEN 2 ELSE 3]
      /\ ClientOrder.never = {x \in Code : x.op \in Outer} \X {"callback"}
      /\ ClientOrder.pairs = {}
      /\ ClientOrder.outer = IF CallbackCalls = {} THEN {} ELSE {"callback"}
  BY DEF ClientOrder
<1>2. DOMAIN ClientOrder.rank = Lock
  BY <1>1
<1>3. ClientOrder.rank \in [Lock -> 0 .. 3]
  BY <1>1
<1>4. {Again, Own} \cap Lock = {}
  BY DEF Again, Own, Lock
<1>5. OrderAssumptions(ClientOrder)
  <2>1. ClientOrder.outer \subseteq Lock
    BY <1>1 DEF Lock
  <2> QED BY <1>2, <1>3, <1>4, <2>1, LocksAssumption DEF OrderAssumptions
<1>6. ASSUME NEW x \in Code, x.op \in {"lock", "unlock"}
      PROVE  x = Do(x.op, x.arg) /\ x.arg \in Lock \cup {Again, Own}
  <2>1. x \in LockCode
    BY <1>6, OperationsOf DEF Code, Bare
  <2> QED BY <2>1, DoFacts DEF LockCode
<1>7. Ranked(Code, ClientOrder)
  BY <1>2, <1>6 DEF Ranked
<1>8. \A x, m : <<x, m>> \in ClientOrder.never => x.op \in Outer /\ m = "callback"
  BY <1>1
<1> QED BY <1>1, <1>2, <1>5, <1>7, <1>8

LEMMA ConnectionFacts ==
  /\ "callback" \notin Connection /\ Connection \subseteq Lock /\ "callback" \in Lock
  /\ "capi" \in Lock /\ "internal" \in Lock /\ "capi" # "internal"
BY DEF Connection, Lock

----------------------------------------------------------------------------
(* Code that may be started, or put in front by an outer operation.        *)

LEMMA SafeEmpty == Safe(<<>>)
BY ReadyEmpty, OrderlyEmpty DEF Safe

LEMMA SafeOne ==
  ASSUME NEW op, NEW arg, Do(op, arg) \in Code, op \notin Relying \cup {"lock", "unlock"}
  PROVE  Safe(<<Do(op, arg)>>)
<1>1. \A m \in Connection : <<Do(op, arg), m>> \notin ClientOrder.never
  BY ClientOrderFacts, ConnectionFacts
<1>2. Orderly(<<Do(op, arg)>>, Connection, ClientOrder)
  BY <1>1, OrderlyOne
<1> QED BY <1>2, OneReady DEF Safe

LEMMA SafeJoin ==
  ASSUME NEW b, NEW c, Safe(b), Safe(c)
  PROVE  Safe(b \o c)
<1>1. /\ Ready(b, Code, ClientLocks, {}, {}) /\ Ready(c, Code, ClientLocks, {}, {})
      /\ b \in Seq(Code) /\ c \in Seq(Code) /\ Balanced(c)
  BY DEF Safe, Ready
<1>2. Ready(b \o c, Code, ClientLocks, {}, {})
  BY <1>1, ReadyJoin
<1>3. Orderly(b \o c, Connection, ClientOrder)
  BY <1>1, OrderlyJoin DEF Safe
<1> QED BY <1>2, <1>3 DEF Safe

\* Operations under the lock of the connection.
LEMMA SafeConnection ==
  ASSUME NEW S, NEW b \in Seq(S), \A i \in DOMAIN b : b[i].op \notin {"lock", "unlock"},
         Ready(With("internal", b), Code, ClientLocks, {}, {})
  PROVE  Safe(With("internal", b))
<1>1. Connection \cup {"internal"} = Connection
  BY DEF Connection
<1>2. \A i \in DOMAIN b : \A m \in Connection : <<b[i], m>> \notin ClientOrder.never
  BY ClientOrderFacts, ConnectionFacts
<1>3. Orderly(b, Connection \cup {"internal"}, ClientOrder)
  BY <1>1, <1>2, OrderlyPlain
<1>4. Balanced(b)
  BY DoFacts DEF Balanced, GivesBack
<1>5. \A m \in Connection : m = "internal" \/ ClientOrder.rank[m] < ClientOrder.rank["internal"]
  BY ClientOrderFacts, ConnectionFacts DEF Connection
<1>6. "internal" \in DOMAIN ClientOrder.rank /\ "internal" \notin Mutex
  BY ClientOrderFacts, ConnectionFacts, LocksAssumption
<1>7. Orderly(With("internal", b), Connection, ClientOrder)
  BY <1>3, <1>4, <1>5, <1>6, ClientOrderFacts, OrderlyWith
<1> QED BY <1>7 DEF Safe

\* An operation under the lock of the callbacks.
LEMMA SafeCallback ==
  ASSUME NEW op, op \notin Outer \cup {"lock", "unlock"}, NEW arg,
         Ready(With("callback", <<Do(op, arg)>>), Code, ClientLocks, {}, {})
  PROVE  Safe(With("callback", <<Do(op, arg)>>))
<1>1. PICK b, K : b = <<Do(op, arg)>> /\ K = Connection \cup {"callback"}
  OBVIOUS
<1>2. \A m : <<Do(op, arg), m>> \notin ClientOrder.never
  BY ClientOrderFacts, DoFacts
<1>3. Orderly(b, K, ClientOrder)
  BY <1>1, <1>2, OrderlyOne
<1>4. b \in Seq({Do(op, arg)}) /\ DOMAIN b = {1} /\ b[1] = Do(op, arg) /\ b[1].op = op
  BY <1>1, DoFacts
<1>5. Balanced(b)
  BY <1>4, DoFacts DEF Balanced, GivesBack
<1>6. \A m \in Connection : ClientOrder.rank[m] < ClientOrder.rank["callback"]
  BY ClientOrderFacts, ConnectionFacts DEF Connection
<1>7. "callback" \in DOMAIN ClientOrder.rank /\ "callback" \notin Mutex
  BY ClientOrderFacts, ConnectionFacts, LocksAssumption
<1>8. Orderly(With("callback", b), Connection, ClientOrder)
  BY <1>1, <1>3, <1>4, <1>5, <1>6, <1>7, ClientOrderFacts, OrderlyWith
<1> QED BY <1>1, <1>8 DEF Safe

LEMMA SafeConnect == Safe(ConnectBody) /\ Safe(InitBody) /\ Safe(TermBody)
<1>1. ASSUME NEW op, op \in {"open", "new", "destroy"},
             Ready(With("internal", <<Do(op, 0)>>), Code, ClientLocks, {}, {})
      PROVE  Safe(With("internal", <<Do(op, 0)>>))
  <2>1. PICK b : b = <<Do(op, 0)>>
    OBVIOUS
  <2>2. b \in Seq({Do(op, 0)}) /\ DOMAIN b = {1} /\ b[1].op = op
    BY <2>1, DoFacts
  <2>3. \A i \in DOMAIN b : b[i].op \notin {"lock", "unlock"}
    BY <1>1, <2>2
  <2> QED BY <1>1, <2>1, <2>2, <2>3, SafeConnection
<1> QED BY <1>1, ConnectReady DEF ConnectBody, InitBody, TermBody

LEMMA SafeOperational ==
  ASSUME NEW up \in BOOLEAN
  PROVE  Safe(OperationalBody(up))
<1>1. PICK op \in {"attach", "detach"} : op = IF up THEN "attach" ELSE "detach"
  OBVIOUS
<1>2. PICK b : b = <<Do(op, 0)>>
  OBVIOUS
<1>3. b \in Seq({Do(op, 0)}) /\ DOMAIN b = {1} /\ b[1].op = op
  BY <1>2, DoFacts
<1>4. /\ Do(op, 0) \in Code /\ op \notin {"lock", "unlock"}
      /\ \A g \in ClientLocks.under : op = g[1] => g[2] = "internal"
      /\ \A g \in ClientLocks.inside : op # g[1]
  BY BareInCode DEF Bare, ClientLocks
<1>5. Ready(With("internal", <<Do(op, 0)>>), Code, ClientLocks, {}, {})
  BY <1>4, ConnectionFacts, OneUnderReady
<1>6. Safe(With("internal", b))
  BY <1>2, <1>3, <1>4, <1>5, SafeConnection
<1>7. Do("tell", Ops) \in Code /\ "tell" \notin Relying \cup {"lock", "unlock"}
  BY CallsAssumption DEF Code, ListCode, Relying
<1>8. Safe(<<Do("tell", Ops)>>)
  BY <1>7, SafeOne
<1>9. Safe(With("internal", b) \o <<Do("tell", Ops)>>)
  BY <1>6, <1>8, SafeJoin
<1> QED BY <1>1, <1>2, <1>9 DEF OperationalBody

LEMMA SafeDisconnect ==
  ASSUME NEW final \in BOOLEAN
  PROVE  Safe(DisconnectBody(final))
<1>1. PICK x, b : /\ x = IF final THEN <<Do("stop", 0)>> ELSE <<>>
                  /\ b = x \o <<Do("close", 0)>>
  OBVIOUS
<1>2. PICK S : S = {Do("stop", 0), Do("close", 0)}
  OBVIOUS
<1>3. b \in Seq(S)
  <2>1. x \in Seq(S) /\ <<Do("close", 0)>> \in Seq(S)
    BY <1>1, <1>2
  <2> QED BY <1>1, <2>1, ConcatProperties
<1>4. \A y \in S : y.op \notin {"lock", "unlock"}
  BY <1>2, DoFacts
<1>5. \A i \in DOMAIN b : b[i].op \notin {"lock", "unlock"}
  BY <1>3, <1>4, ElementOfSeq, LenProperties
<1>6. DisconnectBody(final) = With("internal", b)
  BY <1>1 DEF DisconnectBody
<1> QED BY <1>3, <1>5, <1>6, DisconnectReady, SafeConnection

LEMMA SafeGuarded ==
  ASSUME NEW b \in Guarded
  PROVE  Safe(b)
<1>1. CASE b \in {<<>>, DisconnectBody(FALSE)}
  BY <1>1, SafeEmpty, SafeDisconnect
<1>2. ASSUME NEW l \in List, NEW c \in Callback, b = UnRegisterCallback(l, c)
      PROVE  Safe(b)
  <2>1. b = With("callback", <<Do("remove", <<l, c>>)>>)
    BY <1>2 DEF UnRegisterCallback
  <2>2. "remove" \notin Outer \cup {"lock", "unlock"}
    BY DEF Outer
  <2> QED BY <2>1, <2>2, GuardedReady, SafeCallback
<1>3. CASE b \in Unregistering
  BY <1>2, <1>3 DEF Unregistering
<1> QED BY <1>1, <1>3 DEF Guarded

LEMMA SafeInstance ==
  ASSUME NEW b, Safe(b)
  PROVE  Safe(<<Do("instance", 0)>> \o b)
<1>1. Do("instance", 0) \in Code /\ "instance" \notin Relying \cup {"lock", "unlock"}
  BY BareInCode DEF Bare, Relying
<1> QED BY <1>1, SafeOne, SafeJoin

\* A list is told: its callbacks are called under their lock.
LEMMA SafeDispatch ==
  ASSUME NEW l \in List
  PROVE  Safe(With("callback", <<Do("notify", l)>>))
<1>1. Do("notify", l) \in Code /\ "notify" \notin Outer \cup {"lock", "unlock"}
  BY DEF Code, ListCode, Outer
<1>2. /\ \A g \in ClientLocks.under : "notify" = g[1] => g[2] = "callback"
      /\ \A g \in ClientLocks.inside : "notify" # g[1]
  BY DEF ClientLocks
<1> QED BY <1>1, <1>2, ConnectionFacts, OneUnderReady, SafeCallback

\* A C function.
LEMMA FunctionInOrder ==
  ASSUME NEW b, Safe(b)
  PROVE  InOrder(CApi(b), ClientOrder)
<1>1. b \in Seq(Code) /\ Balanced(b) /\ Orderly(b, Connection, ClientOrder)
  BY DEF Safe, Ready
<1>2. {} \cup {"capi"} \subseteq Connection
  BY DEF Connection
<1>3. Orderly(b, {} \cup {"capi"}, ClientOrder)
  BY <1>1, <1>2, OrderlyLess
<1>4. Orderly(With("capi", b), {}, ClientOrder)
  BY <1>1, <1>3, ClientOrderFacts, ConnectionFacts, OrderlyWith
<1> QED BY <1>4 DEF CApi, Orderly

LEMMA FunctionsInOrder ==
  ASSUME NEW b \in Functions
  PROVE  InOrder(b, ClientOrder)
<1>1. ASSUME NEW v \in BOOLEAN, NEW x, Safe(x)
      PROVE  InOrder(CApi(x \o <<Do("mark", v)>>), ClientOrder)
  <2>1. Do("mark", v) \in Code /\ "mark" \notin Relying \cup {"lock", "unlock"}
    BY DEF Code, ValueCode, Relying
  <2> QED BY <1>1, <2>1, SafeOne, SafeJoin, FunctionInOrder
<1>2. ASSUME NEW g \in Guarded
      PROVE  InOrder(CApi(<<Do("guarded", g)>>), ClientOrder)
  <2>1. Do("guarded", g) \in Code /\ "guarded" \notin Relying \cup {"lock", "unlock"}
    BY DEF Code, ValueCode, Relying
  <2> QED BY <2>1, SafeOne, FunctionInOrder
<1>3. /\ InOrder(PowerController_Init, ClientOrder)
      /\ InOrder(PowerController_Term, ClientOrder)
  BY <1>1, SafeConnect DEF PowerController_Init, PowerController_Term
<1>4. InOrder(PowerController_Connect, ClientOrder)
  BY SafeConnect, SafeInstance, FunctionInOrder DEF PowerController_Connect
<1>5. /\ InOrder(PowerController_Disconnect, ClientOrder)
      /\ InOrder(PowerController_IsOperational, ClientOrder)
  <2>1. DisconnectBody(FALSE) \in Guarded /\ <<>> \in Guarded
    BY DEF Guarded
  <2> QED BY <1>2, <2>1 DEF PowerController_Disconnect, PowerController_IsOperational
<1>6. ASSUME NEW call \in Calls
      PROVE  InOrder(Request(call), ClientOrder)
  <2>1. PICK x : x = <<Do("proxy", call)>>
    OBVIOUS
  <2>2. Do("proxy", call) \in Code /\ "proxy" \notin {"lock", "unlock"}
    BY CallsAssumption DEF Code, ValueCode
  <2>3. /\ \A g \in ClientLocks.under : "proxy" = g[1] => g[2] = "internal"
        /\ \A g \in ClientLocks.inside : "proxy" # g[1]
    BY DEF ClientLocks
  <2>4. Ready(With("internal", <<Do("proxy", call)>>), Code, ClientLocks, {}, {})
    BY <2>2, <2>3, ConnectionFacts, OneUnderReady
  <2>5. x \in Seq({Do("proxy", call)}) /\ DOMAIN x = {1} /\ x[1].op = "proxy"
    BY <2>1, DoFacts
  <2>6. Safe(With("internal", x))
    BY <2>1, <2>4, <2>5, SafeConnection
  <2> QED BY <2>1, <2>6, SafeInstance, FunctionInOrder DEF Request
<1>7. ASSUME NEW l \in Used, NEW c \in Callback
      PROVE  /\ InOrder(RegisterApi(l, c), ClientOrder)
             /\ InOrder(UnRegisterApi(l, c), ClientOrder)
  <2>1. l \in List
    BY CallsAssumption
  <2>2. UnRegisterCallback(l, c) \in Guarded
    <3>1. UnRegisterCallback(l, c) \in Unregistering
      BY <2>1 DEF Unregistering
    <3> QED BY <3>1 DEF Guarded
  <2>3. Do("add", <<l, c>>) \in Code /\ "add" \notin Outer \cup {"lock", "unlock"}
    BY <2>1 DEF Code, CallbackCode, Outer
  <2>4. \A g \in ClientLocks.under \cup ClientLocks.inside : "add" # g[1]
    BY DEF ClientLocks
  <2>5. Ready(With("callback", <<Do("add", <<l, c>>)>>), Code, ClientLocks, {}, {})
    BY <2>3, <2>4, ConnectionFacts, OneUnderReady
  <2>6. Safe(RegisterCallbackInternal(l, c))
    BY <2>3, <2>5, SafeCallback DEF RegisterCallbackInternal
  <2>7. InOrder(RegisterApi(l, c), ClientOrder)
    BY <2>6, SafeInstance, FunctionInOrder DEF RegisterApi
  <2> QED BY <1>2, <2>2, <2>7 DEF UnRegisterApi
<1> QED BY <1>3, <1>4, <1>5, <1>6, <1>7 DEF Functions

----------------------------------------------------------------------------
(* The steps keep the order.                                               *)

LEMMA OuterStep ==
  ASSUME ClientInv, LocksInOrder(ClientOrder), NEW t \in Thread,
         NEW op \in Outer, At(t, op), NEW b, Safe(b), Continue(t, b)
  PROVE  LocksInOrder(ClientOrder)'
<1>1. /\ Disciplined(Code, ClientLocks) /\ b \in Seq(Code)
      /\ Orderly(b, Connection, ClientOrder)
  BY DEF ClientInv, Safe, Ready
<1>2. op \notin {"lock", "unlock"}
  BY DEF Outer
<1>3. todo[t][Place(t)] \in Code /\ todo[t][Place(t)].op = op
  <2>1. todo[t] \in Seq(Code) /\ Place(t) \in DOMAIN todo[t] /\ todo[t][Place(t)].op = op
    BY <1>1, <1>2, PlainCode, AtFacts DEF Sound
  <2> QED BY <2>1, ElementOfSeq, LenProperties
<1>4. <<todo[t][Place(t)], "callback">> \in ClientOrder.never
  BY <1>3 DEF ClientOrder
<1>5. \A m \in DOMAIN ClientOrder.rank :
        <<todo[t][Place(t)], m>> \notin ClientOrder.never => m \in Connection
  BY <1>4, ClientOrderFacts DEF Lock, Connection
<1> QED BY <1>1, <1>2, <1>5, PlainCode, ClientOrderFacts, ContinueInOrder

\* An operation that goes on without locks.
LEMMA InnerStep ==
  ASSUME ClientInv, LocksInOrder(ClientOrder), NEW t \in Thread,
         NEW op, op \notin {"lock", "unlock"}, At(t, op),
         NEW S, \A x \in S : x.op \notin Outer \cup {"lock", "unlock"},
         NEW b \in Seq(S), Continue(t, b)
  PROVE  LocksInOrder(ClientOrder)'
<1>1. Disciplined(Code, ClientLocks)
  BY DEF ClientInv
<1>2. \A i \in DOMAIN b : b[i] \in S
  BY ElementOfSeq, LenProperties
<1>3. \A i \in DOMAIN b : /\ b[i].op \notin {"lock", "unlock"}
                          /\ \A m \in Lock : <<b[i], m>> \notin ClientOrder.never
  BY <1>2, ClientOrderFacts
<1>4. Orderly(b, Lock, ClientOrder)
  BY <1>3, OrderlyPlain
<1>5. Ranked(S, ClientOrder)
  BY DEF Ranked
<1> QED BY <1>1, <1>4, <1>5, PlainCode, ClientOrderFacts, ContinueInOrder

LEMMA OneStep ==
  ASSUME ClientInv, LocksInOrder(ClientOrder), NEW t \in Thread,
         NEW op, op \notin {"lock", "unlock"}, At(t, op),
         NEW o, o \notin Outer \cup {"lock", "unlock"}, NEW arg,
         NEW b \in {<<>>, <<Do(o, arg)>>}, Continue(t, b)
  PROVE  LocksInOrder(ClientOrder)'
<1>1. PICK S : S = {Do(o, arg)}
  OBVIOUS
<1>2. b \in Seq(S)
  <2>1. CASE b = <<>>
    BY <2>1
  <2>2. PICK x : x = Do(o, arg)
    OBVIOUS
  <2>3. CASE b = <<x>>
    BY <1>1, <2>2, <2>3
  <2> QED BY <2>1, <2>2, <2>3
<1>3. \A x \in S : x.op \notin Outer \cup {"lock", "unlock"}
  <2>1. Do(o, arg).op = o
    BY DoFacts
  <2> QED BY <1>1, <2>1
<1> QED BY <1>2, <1>3, InnerStep

LEMMA LastStep ==
  ASSUME ClientInv, LocksInOrder(ClientOrder), NEW t \in Thread,
         NEW op, op \notin {"lock", "unlock"}, At(t, op), Continue(t, <<>>)
  PROVE  LocksInOrder(ClientOrder)'
<1>1. "join" \notin Outer \cup {"lock", "unlock"}
  BY DEF Outer
<1> QED BY <1>1, OneStep

\* Operations that are the last of their kind, or go on with another one.
LEMMA ShortSteps ==
  ASSUME ClientInv, LocksInOrder(ClientOrder), NEW t \in Thread,
         \/ AddCallbackLocked(t) \/ RemoveCallbackLocked(t)
         \/ RegisterNotificationInternalLocked(t)
         \/ UnregisterNotificationInternalLocked(t)
         \/ RegisterThunderNotificationLocked(t)
         \/ UnregisterThunderNotificationLocked(t)
         \/ Latch(t) \/ Drop(t) \/ Connect(t) \/ Closed(t)
         \/ Stop(t) \/ Join(t) \/ PidStored(t) \/ Delete(t)
         \/ MarkInitialized(t) \/ Proxy(t) \/ Return(t)
  PROVE  LocksInOrder(ClientOrder)'
<1>1. {"register", "unregister", "subscribe", "unsubscribe", "latch", "join", "invoke"}
        \cap (Outer \cup {"lock", "unlock"}) = {}
  BY DEF Outer
<1>2. CASE AddCallbackLocked(t)
  <2>1. PICK b \in {<<>>, <<Do("register", Arg(t)[1])>>} : At(t, "add") /\ Continue(t, b)
    BY <1>2 DEF AddCallbackLocked
  <2> QED BY <1>1, <2>1, OneStep
<1>3. CASE RemoveCallbackLocked(t)
  <2>1. PICK d \in BOOLEAN : d = FALSE
    OBVIOUS
  <2>2. PICK b \in {<<>>, <<Do("unregister", <<Arg(t)[1], d>>)>>} :
          At(t, "remove") /\ Continue(t, b)
    BY <1>3, <2>1 DEF RemoveCallbackLocked
  <2> QED BY <1>1, <2>2, OneStep
<1>4. CASE RegisterNotificationInternalLocked(t)
  <2>1. PICK b \in {<<>>, <<Do("subscribe", <<Arg(t)>>)>>} :
          At(t, "register") /\ Continue(t, b)
    BY <1>4 DEF RegisterNotificationInternalLocked
  <2> QED BY <1>1, <2>1, OneStep
<1>5. CASE UnregisterNotificationInternalLocked(t)
  <2>1. PICK b \in {<<>>, <<Do("unsubscribe", Arg(t))>>} :
          At(t, "unregister") /\ Continue(t, b)
    BY <1>5 DEF UnregisterNotificationInternalLocked
  <2> QED BY <1>1, <2>1, OneStep
<1>6. CASE RegisterThunderNotificationLocked(t)
  <2>1. PICK d \in BOOLEAN :
          d = (Arg(t)[1] = Ops \/ (Alive(iface) /\ Arg(t)[1] \notin world.subscribed))
    OBVIOUS
  <2>2. At(t, "subscribe") /\ Continue(t, <<Do("latch", <<Arg(t)[1], d>>)>>)
    BY <1>6, <2>1 DEF RegisterThunderNotificationLocked
  <2> QED BY <1>1, <2>2, OneStep
<1>7. CASE UnregisterThunderNotificationLocked(t)
  <2>1. PICK d \in BOOLEAN :
          d = AfterUnregister(Arg(t)[2],
                Arg(t)[1] = Ops \/ (Alive(iface) /\ Arg(t)[1] \in world.subscribed))
    BY DEF AfterUnregister
  <2>2. At(t, "unsubscribe") /\ Continue(t, <<Do("latch", <<Arg(t)[1], d>>)>>)
    BY <1>7, <2>1 DEF UnregisterThunderNotificationLocked
  <2> QED BY <1>1, <2>2, OneStep
<1>8. CASE \/ Latch(t) \/ Drop(t) \/ Connect(t) \/ Closed(t) \/ Join(t)
           \/ PidStored(t) \/ Delete(t) \/ MarkInitialized(t) \/ Return(t)
  <2>1. PICK op \in {"latch", "drop", "open", "closed", "join", "pid", "delete",
                     "mark", "invoke"} : At(t, op) /\ Continue(t, <<>>)
    BY <1>8 DEF Latch, Drop, Connect, Closed, Join, PidStored, Delete,
       MarkInitialized, Return
  <2> QED BY <2>1, LastStep
<1>9. CASE Stop(t)
  <2>1. PICK b \in {<<>>, <<Do("join", 0)>>} : At(t, "stop") /\ Continue(t, b)
    BY <1>9 DEF Stop
  <2> QED BY <1>1, <2>1, OneStep
<1>10. CASE Proxy(t)
  <2>1. PICK b \in {<<>>, <<Do("invoke", <<Arg(t), iface>>)>>} :
          At(t, "proxy") /\ Continue(t, b)
    BY <1>10 DEF Proxy
  <2> QED BY <1>1, <2>1, OneStep
<1> QED BY <1>2, <1>3, <1>4, <1>5, <1>6, <1>7, <1>8, <1>9, <1>10

\* Operations that go on with one for each list, or for each callback.
LEMMA LongSteps ==
  ASSUME ClientInv, LocksInOrder(ClientOrder), NEW t \in Thread,
         Attach(t) \/ Detach(t) \/ Notify(t)
  PROVE  LocksInOrder(ClientOrder)'
<1>1. PICK S, u, d : /\ S = {x \in Code : x.op \in {"register", "unregister", "drop"}}
                     /\ u = UnsubscribeAllNotificationsLocked
                     /\ d = Do("drop", 0)
  OBVIOUS
<1>2. \A x \in S : x.op \notin Outer \cup {"lock", "unlock"}
  BY <1>1 DEF Outer
<1>3. SubscribeAllNotificationsLocked \in Seq(S) /\ u \in Seq(S)
  <2>1. \A x \in {y \in Code : y.op = "register"} \cup {y \in Code : y.op = "unregister"} :
          x \in S
    BY <1>1
  <2> QED BY <1>1, <2>1, ListsCode
<1>4. d \in S
  BY <1>1, BareInCode, DoFacts DEF Bare
<1>5. Append(u, d) \in Seq(S) /\ <<>> \in Seq(S)
  BY <1>3, <1>4, AppendProperties
<1>6. CASE Attach(t)
  <2>1. PICK b \in {<<>>, SubscribeAllNotificationsLocked} :
          At(t, "attach") /\ Continue(t, b)
    BY <1>6 DEF Attach
  <2> QED BY <1>2, <1>3, <1>5, <2>1, InnerStep
<1>7. CASE Detach(t)
  <2>1. PICK b \in {<<>>, Append(u, d)} : At(t, "detach") /\ Continue(t, b)
    BY <1>1, <1>7 DEF Detach
  <2> QED BY <1>2, <1>5, <2>1, InnerStep
<1>8. CASE Notify(t)
  <2>1. At(t, "notify")
    BY <1>8 DEF Notify
  <2>2. PICK l \in List : l = Arg(t)
    BY <2>1, AtArg, CodeFacts
  <2>3. PICK C : C = cbs[l]
    OBVIOUS
  <2>4. C \subseteq Callback /\ IsFiniteSet(C)
    BY <2>3 DEF ClientInv, Values, TypeOK, FiniteLists
  <2>5. PICK n, q : n = Cardinality(C) /\ q = SetToSeq(C)
    OBVIOUS
  <2>6. n \in Nat /\ q \in [1 .. n -> C]
    BY <2>4, <2>5, Enumerated
  <2>7. PICK b : b = [i \in 1 .. n |-> Do("call", <<l, q[i]>>)]
    OBVIOUS
  <2>8. Continue(t, b)
    BY <1>8, <2>2, <2>3, <2>5, <2>7 DEF Notify
  <2>9. PICK V : V = {Do("call", <<l, c>>) : c \in C}
    OBVIOUS
  <2>10. b \in Seq(V)
    BY <2>6, <2>7, <2>9
  <2>11. \A x \in V : x.op \notin Outer \cup {"lock", "unlock"}
    <3>1. \A x \in V : x.op = "call"
      BY <2>9, DoFacts
    <3> QED BY <3>1 DEF Outer
  <2> QED BY <2>1, <2>8, <2>10, <2>11, InnerStep
<1> QED BY <1>6, <1>7, <1>8

\* The operations that go on with locks.
LEMMA OuterSteps ==
  ASSUME ClientInv, LocksInOrder(ClientOrder), NEW t \in Thread,
         \/ Tell(t) \/ Disconnect(t) \/ New(t) \/ Destroy(t)
         \/ Instance(t) \/ IfInitialized(t)
  PROVE  LocksInOrder(ClientOrder)'
<1>1. {"tell", "close", "new", "destroy", "instance", "guarded"} \subseteq Outer
  BY DEF Outer
<1>2. CASE Tell(t)
  <2>1. PICK b \in {<<>>, With("callback", <<Do("notify", Ops)>>)} :
          At(t, "tell") /\ Continue(t, b)
    BY <1>2 DEF Tell
  <2>2. Safe(b)
    BY <2>1, CallsAssumption, SafeDispatch, SafeEmpty
  <2> QED BY <1>1, <2>1, <2>2, OuterStep
<1>3. CASE Disconnect(t)
  <2>1. PICK f \in BOOLEAN : f = FALSE
    OBVIOUS
  <2>2. PICK x : x = IF world.reported # 0 THEN OperationalBody(f) ELSE <<>>
    OBVIOUS
  <2>3. PICK b : b = IF ~connected THEN <<>> ELSE x \o <<Do("closed", 0)>>
    OBVIOUS
  <2>4. At(t, "close") /\ Continue(t, b)
    BY <1>3, <2>1, <2>2, <2>3 DEF Disconnect
  <2>5. Do("closed", 0) \in Code /\ "closed" \notin Relying \cup {"lock", "unlock"}
    BY BareInCode DEF Bare, Relying
  <2>6. Safe(x)
    BY <2>2, SafeOperational, SafeEmpty
  <2>7. Safe(b)
    BY <2>3, <2>5, <2>6, SafeOne, SafeJoin, SafeEmpty
  <2> QED BY <1>1, <2>4, <2>7, OuterStep
<1>4. CASE New(t)
  <2>1. PICK b \in {<<>>, ConnectBody} : At(t, "new") /\ Continue(t, b)
    BY <1>4 DEF New
  <2>2. Safe(b)
    BY <2>1, SafeConnect, SafeEmpty
  <2> QED BY <1>1, <2>1, <2>2, OuterStep
<1>5. CASE Destroy(t)
  <2>1. PICK f \in BOOLEAN : f = TRUE
    OBVIOUS
  <2>2. PICK x, y : x = DisconnectBody(f) /\ y = x \o <<Do("delete", 0)>>
    OBVIOUS
  <2>3. Do("delete", 0) \in Code /\ "delete" \notin Relying \cup {"lock", "unlock"}
    BY BareInCode DEF Bare, Relying
  <2>4. Safe(x)
    BY <2>2, SafeDisconnect
  <2>5. Safe(y)
    BY <2>2, <2>3, <2>4, SafeOne, SafeJoin
  <2>6. x \in Seq(Code)
    BY <2>4 DEF Safe, Ready
  <2>7. Append(x, Do("delete", 0)) = y
    BY <2>2, <2>6
  <2>8. PICK b : b = IF instance THEN y ELSE <<>>
    OBVIOUS
  <2>9. At(t, "destroy") /\ Continue(t, b)
    BY <1>5, <2>1, <2>2, <2>7, <2>8 DEF Destroy
  <2>10. Safe(b)
    BY <2>5, <2>8, SafeEmpty
  <2> QED BY <1>1, <2>9, <2>10, OuterStep
<1>6. CASE Instance(t)
  <2>1. PICK b \in {<<>>, InitBody} : At(t, "instance") /\ Continue(t, b)
    BY <1>6 DEF Instance
  <2>2. Safe(b)
    BY <2>1, SafeConnect, SafeEmpty
  <2> QED BY <1>1, <2>1, <2>2, OuterStep
<1>7. CASE IfInitialized(t)
  <2>1. At(t, "guarded") /\ "guarded" \notin {"lock", "unlock"}
    BY <1>7 DEF IfInitialized
  <2>2. PICK g \in Guarded : g = Arg(t)
    BY <2>1, AtArg, CodeFacts
  <2>3. PICK b : b = IF initialized THEN <<Do("instance", 0)>> \o g ELSE <<>>
    OBVIOUS
  <2>4. Continue(t, b)
    BY <1>7, <2>2, <2>3 DEF IfInitialized
  <2>5. Safe(b)
    BY <2>3, SafeGuarded, SafeInstance, SafeEmpty
  <2> QED BY <1>1, <2>1, <2>4, <2>5, OuterStep
<1> QED BY <1>2, <1>3, <1>4, <1>5, <1>6, <1>7

\* What is started is in order.
LEMMA StartSteps ==
  ASSUME ClientInv, LocksInOrder(ClientOrder),
         \/ \E t \in App : ApplicationCalls(t)
         \/ handle_inotify_event \/ LinkReports \/ PluginNotifies
  PROVE  LocksInOrder(ClientOrder)'
<1>1. /\ todo \in [Thread -> Seq(Code)] /\ Values
      /\ App \subseteq Thread /\ {Monitor, Link, Notifier} \subseteq Thread
  BY CallsAssumption DEF ClientInv, Disciplined
<1>2. ASSUME NEW b, Safe(b)
      PROVE  InOrder(b, ClientOrder)
  BY <1>2 DEF Safe, Orderly
<1>3. ASSUME NEW t \in App, ApplicationCalls(t)
      PROVE  LocksInOrder(ClientOrder)'
  <2>1. PICK b \in Functions : Start(t, b)
    BY <1>3 DEF ApplicationCalls
  <2> QED BY <1>1, <2>1, FunctionsInOrder, StartInOrder
<1>4. CASE handle_inotify_event
  <2>1. PICK read \in readPID :
          Start(Monitor, IF read = 0 THEN <<>> ELSE pidChangedCb(read))
    BY <1>4 DEF handle_inotify_event
  <2>2. Do("pid", read) \in Code /\ "pid" \notin Relying \cup {"lock", "unlock"}
    BY <1>1, <2>1 DEF readPID, Values, WorldOK, Code, ValueCode, Relying
  <2>3. PICK f \in BOOLEAN : f = FALSE
    OBVIOUS
  <2>4. Safe((DisconnectBody(f) \o ConnectBody) \o <<Do("pid", read)>>)
    <3>1. Safe(DisconnectBody(f) \o ConnectBody)
      BY SafeDisconnect, SafeConnect, SafeJoin
    <3>2. Safe(<<Do("pid", read)>>)
      BY <2>2, SafeOne
    <3> QED BY <3>1, <3>2, SafeJoin
  <2>5. Safe(pidChangedCb(read))
    BY <2>3, <2>4, SafeEmpty DEF pidChangedCb
  <2>6. PICK b : b = IF read = 0 THEN <<>> ELSE pidChangedCb(read)
    OBVIOUS
  <2>7. Safe(b) /\ Start(Monitor, b)
    BY <2>1, <2>5, <2>6, SafeEmpty
  <2> QED BY <1>1, <1>2, <2>7, StartInOrder
<1>5. CASE LinkReports
  <2>1. PICK up \in BOOLEAN : Start(Link, OperationalBody(up))
    BY <1>5 DEF LinkReports
  <2> QED BY <1>1, <1>2, <2>1, SafeOperational, StartInOrder
<1>6. CASE PluginNotifies
  <2>1. PICK l \in world.subscribed :
          Start(Notifier, With("callback", <<Do("notify", l)>>))
    BY <1>6 DEF PluginNotifies
  <2>2. l \in List
    BY <1>1, <2>1 DEF Values, WorldOK
  <2> QED BY <1>1, <1>2, <2>1, <2>2, SafeDispatch, StartInOrder
<1> QED BY <1>3, <1>4, <1>5, <1>6

\* What a callback of the application requests.
LEMMA CalledStep ==
  ASSUME ClientInv, LocksInOrder(ClientOrder), NEW t \in Thread, At(t, "call"),
         NEW call \in CallbackCalls, Continue(t, Request(call))
  PROVE  LocksInOrder(ClientOrder)'
<1>1. Disciplined(Code, ClientLocks)
  BY DEF ClientInv
<1>2. /\ todo[t] \in Seq(Code) /\ Place(t) \in DOMAIN todo[t]
      /\ todo[t][Place(t)].op = "call"
  BY <1>1, PlainCode, AtFacts
<1>3. /\ <<"call", "callback">> \in ClientLocks.inside
      /\ <<"call", "callback">>[1] = "call" /\ <<"call", "callback">>[2] = "callback"
  BY DEF ClientLocks
<1>4. Holds(t, "callback")
  BY <1>1, <1>2, <1>3, InsideHolds DEF Disciplined
<1>5. HeldAfter(todo[t], Place(t), "callback")
  BY <1>1, <1>4, PlainCode, HeldHere
<1>6. Request(call) \in Seq(Code)
  BY CallsAssumption, RequestReady DEF Ready
<1>7. \E m \in ClientOrder.outer : HeldAfter(todo[t], Place(t), m)
  BY <1>5, ClientOrderFacts
<1> QED BY <1>1, <1>6, <1>7, PlainCode, ClientOrderFacts, ContinueInOrder

LEMMA OrderKept ==
  ASSUME ClientInv, LocksInOrder(ClientOrder), [Next]_vars
  PROVE  LocksInOrder(ClientOrder)'
<1>1. ASSUME NEW t \in Thread, Step(t)
      PROVE  LocksInOrder(ClientOrder)'
  <2>1. CASE TakeOuterLock(t)
    <3>1. Acquire(t) /\ todo \in [Thread -> Seq(Code)]
      BY <2>1 DEF TakeOuterLock, ClientInv, Disciplined
    <3> QED BY <3>1, AcquireInOrder
  <2>2. CASE UserCallback(t)
    <3>1. CASE Continue(t, <<>>)
      <4>1. At(t, "call")
        BY <2>2 DEF UserCallback
      <4> QED BY <3>1, <4>1, LastStep
    <3>2. CASE \E call \in CallbackCalls : Continue(t, Request(call))
      BY <2>2, <3>2, CalledStep DEF UserCallback
    <3> QED BY <2>2, <3>1, <3>2 DEF UserCallback
  <2> QED BY <1>1, <2>1, <2>2, ShortSteps, LongSteps, OuterSteps DEF Step
<1>2. CASE \/ \E t \in App : ApplicationCalls(t)
           \/ handle_inotify_event \/ LinkReports \/ PluginNotifies
  BY <1>2, StartSteps
<1>3. CASE Outside \/ monitorThread \/ UNCHANGED vars
  <2>1. UNCHANGED todo
    BY <1>3 DEF Outside, monitorThread, vars
  <2> QED BY <2>1 DEF LocksInOrder, InOrder, Inner, Placed, HeldAfter
<1> QED BY <1>1, <1>2, <1>3 DEF Next

----------------------------------------------------------------------------
(* Subscriptions: what a thread has to do.                                 *)

Has(t, x) == Includes(todo[t], x)

HasOp(t, op) == \E i \in DOMAIN todo[t] : todo[t][i].op = op

\* The lists that the plugin notifies.
Subscribable == List \ {Ops}

\* What is done to a list, forced or for its lack of callbacks.
Register(l) == Do("register", l)

Unregister(l) == Do("unregister", <<l, TRUE>>)

Subscribe(l) == Do("subscribe", <<l>>)

Leave(l) == Do("unsubscribe", <<l, FALSE>>)

LeaveForced(l) == Do("unsubscribe", <<l, TRUE>>)

LatchOn(l) == Do("latch", <<l, TRUE>>)

LatchOff(l) == Do("latch", <<l, FALSE>>)

Release == Do("drop", 0)

Updating == {"register", "unregister"} \cup Midway

\* What closes the connection or removes a callback, and what registers
\* callbacks: no thread does both.
Closing == {"guarded", "destroy", "close", "detach", "drop", "remove"}

Opening == {"add", "register", "attach"}

\* What a callback is called from, and what it is removed in.
Telling == {"tell", "notify", "call"}

Removing == {"guarded", "remove"}

\* The locks an operation is covered by: callbacks are added and removed within
\* a C function, the instance goes within one and with the connection locked,
\* and a list is updated with either of these locks held.
Covered(s) ==
  \A i \in DOMAIN s :
    /\ s[i].op \in {"add", "remove", "guarded", "destroy", "delete"}
         => HeldAfter(s, i, "capi")
    /\ s[i].op \in {"destroy", "delete"} => HeldAfter(s, i, "internal")
    /\ s[i].op \in Updating
         => HeldAfter(s, i, "capi") \/ HeldAfter(s, i, "internal")

\* An update of a list goes on before anything else.
Foremost(s) == \A i \in DOMAIN s : s[i].op \in Midway => i = 1

\* The connection is closed once.
ClosesOnce(s) ==
  \A i, j \in DOMAIN s : s[i].op \in Closing /\ s[j].op \in Closing => i = j

OpensOrCloses(s) ==
  \A i, j \in DOMAIN s :
    ~ (s[i].op \in Closing \cup {"delete"} /\ s[j].op \in Opening)

\* A thread that removes a callback calls none.
Untold(s) ==
  \A i, j \in DOMAIN s : ~ (s[i].op \in Removing /\ s[j].op \in Telling)

\* The lists are unregistered before the interface is released.
ReleasesLast(s) ==
  \A l \in List :
    /\ Includes(s, Unregister(l)) \/ Includes(s, LeaveForced(l)) => Includes(s, Release)
    /\ \A i, j \in DOMAIN s : s[i] = Release /\ s[j] = Unregister(l) => j < i

\* A C function that adds a callback gets the instance first, and the lock is
\* taken before that.
InstanceFirst(s) ==
  \A i \in DOMAIN s : s[i].op = "add" =>
    /\ \A j \in DOMAIN s : s[j].op \in {"instance", "new"} => j < i
    /\ \A j \in 1 .. i - 1 :
         s[j] = Do("lock", "capi")
           => j = 1 /\ \E k \in DOMAIN s : s[k].op = "instance"

Stack(s) ==
  /\ Covered(s) /\ Foremost(s) /\ ClosesOnce(s) /\ OpensOrCloses(s) /\ Untold(s)
  /\ ReleasesLast(s) /\ InstanceFirst(s)

StackInv == \A t \in Thread : Stack(todo[t])

----------------------------------------------------------------------------
(* Subscriptions: what the library and the plugin know.                    *)

\* The updates of l that are under way.
Updates(l) == {Subscribe(l), Leave(l), LeaveForced(l), LatchOn(l), LatchOff(l)}

Mid(t, l) == \E x \in Updates(l) : Has(t, x)

\* No instance, no callbacks.
NothingWithout ==
  ~instance => \A l \in List : /\ cbs[l] = {} /\ ~registered[l]
                              /\ \A t \in Thread : ~Mid(t, l)

\* What adds a callback has got the instance, or is about to.
AddsToInstance ==
  \A t \in Thread : HasOp(t, "add") =>
    instance \/ HasOp(t, "instance") \/ HasOp(t, "new")

InstanceInv == NothingWithout /\ AddsToInstance

WorldInv == iface <= world.plugin

\* One thread at a time updates a list.
OneUpdates(l) ==
  \A t \in Thread : \A u \in Thread \ {t} : ~ (Mid(t, l) /\ Mid(u, l))

\* Before the interface is released the list is unregistered.
Unregisters(l) ==
  \A t \in Thread : Has(t, Release) =>
    \/ Has(t, Unregister(l)) \/ Has(t, LeaveForced(l)) \/ Has(t, LatchOff(l))
    \/ ~registered[l] /\ \A u \in Thread : ~Mid(u, l)

\* A list that is registered is one the plugin knows, or it is about to be
\* marked as unregistered.
KnownInPlugin(l) ==
  /\ registered[l] =>
       /\ iface # 0
       /\ \/ ~Alive(iface) \/ l \in world.subscribed
          \/ \E t \in Thread : Has(t, LatchOff(l))
  /\ \A t \in Thread :
       /\ Mid(t, l) => iface # 0
       /\ Has(t, LatchOn(l)) => ~Alive(iface) \/ l \in world.subscribed
       /\ Has(t, Leave(l)) \/ Has(t, LeaveForced(l)) => registered[l]

\* A list with a callback is one the plugin knows, or about to become one, or
\* the interface is released.
WillSubscribe(l) ==
  cbs[l] # {} /\ iface # 0 /\ Alive(iface) =>
    \/ l \in world.subscribed
    \/ \E t \in Thread : Has(t, Register(l)) \/ Has(t, Release) \/ Has(t, Subscribe(l))

\* A list that loses the plugin for its lack of callbacks has none, or is
\* looked at again.
UnusedLeaves(l) ==
  cbs[l] # {} /\ (\E t \in Thread : Has(t, Leave(l)))
    => \E t \in Thread : Has(t, Register(l))

ListInv(l) ==
  OneUpdates(l) /\ Unregisters(l) /\ KnownInPlugin(l) /\ WillSubscribe(l)
    /\ UnusedLeaves(l)

SubscribeInv ==
  /\ StackInv /\ InstanceInv /\ WorldInv
  /\ ~raced => \A l \in Subscribable : ListInv(l)

\* An operation and the ones it goes on with.
MayCall(op, callee) ==
  \/ op = "add" /\ callee = "register"
  \/ op = "remove" /\ callee = "unregister"
  \/ op = "register" /\ callee = "subscribe"
  \/ op = "unregister" /\ callee = "unsubscribe"
  \/ op \in {"subscribe", "unsubscribe"} /\ callee = "latch"
  \/ op = "attach" /\ callee = "register"
  \/ op = "detach" /\ callee \in {"unregister", "drop"}
  \/ op = "close" /\ callee \in {"detach", "tell", "closed"}
  \/ op = "destroy" /\ callee \in {"stop", "close", "delete"}
  \/ op = "instance" /\ callee = "new"
  \/ op = "new" /\ callee = "open"
  \/ op = "guarded" /\ callee \in {"instance", "remove", "stop", "close"}
  \/ op = "stop" /\ callee = "join"
  \/ op = "tell" /\ callee = "notify"
  \/ op = "notify" /\ callee = "call"
  \/ op = "call" /\ callee \in {"instance", "proxy"}
  \/ op = "proxy" /\ callee = "invoke"

\* What the instruction x goes on with.
Body(x, b) ==
  /\ b \in Seq(Code)
  /\ \A i \in DOMAIN b : IsOperation(b[i]) => MayCall(x.op, b[i].op)
  /\ Foremost(b)
  /\ ClosesOnce(b)
  /\ \A i \in DOMAIN b :
       b[i] = Do("lock", "capi") => i = 1 /\ \E k \in DOMAIN b : b[k].op = "instance"
  /\ \A l \in List :
       /\ Includes(b, LeaveForced(l)) => x = Unregister(l)
       /\ Includes(b, Unregister(l)) => Includes(b, Release)
       /\ \A i, j \in DOMAIN b : b[i] = Release /\ b[j] = Unregister(l) => j < i

\* n is s after its operation at p, which went on with b.
Goes(n, b, s, p) ==
  /\ Traced(n, b, s, p)
  /\ \A x : IsOperation(x) /\ (Includes(b, x) \/ (Includes(s, x) /\ x # s[p]))
       => Includes(n, x)

----------------------------------------------------------------------------
(* Stacks are kept.                                                        *)

LEMMA Traceable ==
  /\ \A x : IsOperation(x) => Genuine(x)
  /\ Genuine(Do("lock", "capi")) /\ {"capi", "internal"} \cap {Again, Own} = {}
<1>1. \A x \in Renamed : x.op \in {"lock", "unlock"} /\ x.arg \in {Again, Own}
  BY DoFacts DEF Renamed
<1>2. \A x : IsOperation(x) => Genuine(x)
  BY <1>1 DEF IsOperation, Genuine
<1>3. "capi" \notin {Again, Own} /\ "internal" \notin {Again, Own}
  BY DEF Again, Own
<1>4. Genuine(Do("lock", "capi"))
  BY <1>1, <1>3, DoFacts DEF Genuine
<1> QED BY <1>2, <1>3, <1>4

LEMMA CoveredKept ==
  ASSUME NEW s, NEW p \in DOMAIN s, Covered(s), NEW b, Body(s[p], b), NEW n,
         Goes(n, b, s, p),
         s[p].op \in {"attach", "detach"} => HeldAfter(s, p, "internal")
  PROVE  Covered(n)
<1>1. PICK d \in Nat, e \in Int : \A i \in DOMAIN n :
        Genuine(n[i])
          => \/ /\ i + d \in DOMAIN b /\ n[i] = b[i + d]
                /\ \A l : l \notin {Again, Own} /\ (HeldAfter(b, i + d, l) \/ HeldAfter(s, p, l))
                     => HeldAfter(n, i, l)
             \/ /\ i + e \in DOMAIN s /\ n[i] = s[i + e]
                /\ \A l : l \notin {Again, Own} /\ HeldAfter(s, i + e, l) => HeldAfter(n, i, l)
  BY DEF Goes, Traced
<1>2. PICK P : P = {"add", "remove", "guarded", "destroy", "delete"} \cup Updating
  OBVIOUS
<1>3. ASSUME NEW i \in DOMAIN n, n[i].op \in P
      PROVE  /\ n[i].op \in {"add", "remove", "guarded", "destroy", "delete"}
                  => HeldAfter(n, i, "capi")
             /\ n[i].op \in {"destroy", "delete"} => HeldAfter(n, i, "internal")
             /\ n[i].op \in Updating
                  => HeldAfter(n, i, "capi") \/ HeldAfter(n, i, "internal")
  <2>1. IsOperation(n[i])
    BY <1>2, <1>3 DEF IsOperation, Updating, Midway
  <2>2. Genuine(n[i])
    BY <2>1, Traceable
  <2>3. CASE /\ i + e \in DOMAIN s /\ n[i] = s[i + e]
             /\ \A l : l \notin {Again, Own} /\ HeldAfter(s, i + e, l) => HeldAfter(n, i, l)
    BY <2>3, Traceable DEF Covered
  <2>4. CASE /\ i + d \in DOMAIN b /\ n[i] = b[i + d]
             /\ \A l : l \notin {Again, Own} /\ (HeldAfter(b, i + d, l) \/ HeldAfter(s, p, l))
                  => HeldAfter(n, i, l)
    <3>1. MayCall(s[p].op, n[i].op)
      BY <2>1, <2>4 DEF Body
    <3>2. /\ s[p].op \in {"add", "remove", "guarded", "destroy", "delete"}
               => HeldAfter(s, p, "capi")
          /\ s[p].op \in {"destroy", "delete"} => HeldAfter(s, p, "internal")
          /\ s[p].op \in Updating
               => HeldAfter(s, p, "capi") \/ HeldAfter(s, p, "internal")
      BY DEF Covered
    <3>3. \A l \in {"capi", "internal"} : HeldAfter(s, p, l) => HeldAfter(n, i, l)
      BY <2>4, Traceable
    <3> QED BY <1>2, <1>3, <3>1, <3>2, <3>3 DEF MayCall, Updating, Midway
  <2> QED BY <1>1, <2>2, <2>3, <2>4
<1> QED BY <1>2, <1>3 DEF Covered

\* The instructions of n are those of b, or of s behind p, in their order.
LEMMA GoesFrom ==
  ASSUME NEW s \in Seq(Code), NEW p \in DOMAIN s, NEW b \in Seq(Code),
         NEW n \in Seq(Code), Goes(n, b, s, p)
  PROVE  \E d \in Nat, e \in Int :
           /\ \A i \in DOMAIN n : i \in Nat /\ i >= 1
           /\ DOMAIN b = 1 .. Len(b) /\ Len(b) \in Nat
           /\ p \in Nat /\ p >= 1
           /\ \A i \in DOMAIN n :
                Genuine(n[i])
                  => \/ i + d \in DOMAIN b /\ n[i] = b[i + d]
                     \/ /\ i + d > Len(b) /\ i + e > p
                        /\ i + e \in DOMAIN s /\ n[i] = s[i + e]
<1>1. /\ \A i \in DOMAIN n : i \in Nat /\ i >= 1
      /\ DOMAIN b = 1 .. Len(b) /\ Len(b) \in Nat
      /\ p \in Nat /\ p >= 1
  BY LenProperties
<1> QED BY <1>1 DEF Goes, Traced

LEMMA ForemostKept ==
  ASSUME NEW s \in Seq(Code), NEW p \in DOMAIN s, Foremost(s),
         NEW b, Body(s[p], b), NEW n \in Seq(Code), Goes(n, b, s, p)
  PROVE  Foremost(n)
<1> SUFFICES ASSUME NEW i \in DOMAIN n, n[i].op \in Midway PROVE i = 1
  BY DEF Foremost
<1>1. b \in Seq(Code)
  BY DEF Body
<1>2. PICK d \in Nat, e \in Int :
        /\ \A k \in DOMAIN n : k \in Nat /\ k >= 1
        /\ DOMAIN b = 1 .. Len(b) /\ Len(b) \in Nat
        /\ p \in Nat /\ p >= 1
        /\ \A k \in DOMAIN n :
             Genuine(n[k])
               => \/ k + d \in DOMAIN b /\ n[k] = b[k + d]
                  \/ /\ k + d > Len(b) /\ k + e > p
                     /\ k + e \in DOMAIN s /\ n[k] = s[k + e]
  BY <1>1, GoesFrom
<1>3. Genuine(n[i])
  BY Traceable DEF Midway, IsOperation
<1>4. CASE i + d \in DOMAIN b /\ n[i] = b[i + d]
  <2>1. i + d = 1
    BY <1>4 DEF Body, Foremost
  <2> QED BY <1>2, <2>1
<1>5. CASE i + e > p /\ i + e \in DOMAIN s /\ n[i] = s[i + e]
  <2>1. i + e = 1
    BY <1>5 DEF Foremost
  <2> QED BY <1>2, <1>5, <2>1
<1> QED BY <1>2, <1>3, <1>4, <1>5

LEMMA ClosingKept ==
  ASSUME NEW s \in Seq(Code), NEW p \in DOMAIN s, ClosesOnce(s), OpensOrCloses(s),
         NEW b, Body(s[p], b), NEW n \in Seq(Code), Goes(n, b, s, p)
  PROVE  ClosesOnce(n) /\ OpensOrCloses(n)
<1>1. b \in Seq(Code)
  BY DEF Body
<1>2. PICK d \in Nat, e \in Int :
        /\ \A k \in DOMAIN n : k \in Nat /\ k >= 1
        /\ DOMAIN b = 1 .. Len(b) /\ Len(b) \in Nat
        /\ p \in Nat /\ p >= 1
        /\ \A k \in DOMAIN n :
             Genuine(n[k])
               => \/ k + d \in DOMAIN b /\ n[k] = b[k + d]
                  \/ /\ k + d > Len(b) /\ k + e > p
                     /\ k + e \in DOMAIN s /\ n[k] = s[k + e]
  BY <1>1, GoesFrom
<1>3. ASSUME NEW i \in DOMAIN n, n[i].op \in Closing \cup {"delete"} \cup Opening
      PROVE  \/ /\ i + d \in DOMAIN b /\ n[i] = b[i + d]
                /\ n[i].op \in Closing \cup {"delete"} => s[p].op \in Closing
                /\ n[i].op \in Opening => s[p].op \in Opening
             \/ i + e > p /\ i + e \in DOMAIN s /\ n[i] = s[i + e]
  <2>1. IsOperation(n[i])
    BY <1>3 DEF Closing, Opening, IsOperation
  <2>2. CASE i + d \in DOMAIN b /\ n[i] = b[i + d]
    <3>1. MayCall(s[p].op, n[i].op)
      BY <2>1, <2>2 DEF Body
    <3> QED BY <1>3, <2>2, <3>1 DEF MayCall, Closing, Opening
  <2> QED BY <1>2, <2>1, <2>2, Traceable
<1>4. ASSUME NEW i \in DOMAIN n, NEW j \in DOMAIN n,
             n[i].op \in Closing, n[j].op \in Closing
      PROVE  i = j
  <2>1. i \in Nat /\ j \in Nat
    BY <1>2
  <2>2. CASE /\ i + d \in DOMAIN b /\ n[i] = b[i + d]
             /\ j + d \in DOMAIN b /\ n[j] = b[j + d]
    <3>1. i + d = j + d
      BY <1>4, <2>2 DEF Body, ClosesOnce
    <3> QED BY <2>1, <3>1
  <2>3. CASE /\ i + e > p /\ i + e \in DOMAIN s /\ n[i] = s[i + e]
             /\ j + e > p /\ j + e \in DOMAIN s /\ n[j] = s[j + e]
    <3>1. i + e = j + e
      BY <1>4, <2>3 DEF ClosesOnce
    <3> QED BY <2>1, <3>1
  <2>4. CASE /\ s[p].op \in Closing
             /\ \E k \in DOMAIN s : k > p /\ s[k].op \in Closing
    BY <1>2, <2>4 DEF ClosesOnce
  <2> QED BY <1>3, <1>4, <2>2, <2>3, <2>4
<1>5. ASSUME NEW i \in DOMAIN n, NEW j \in DOMAIN n,
             n[i].op \in Closing \cup {"delete"}, n[j].op \in Opening
      PROVE  FALSE
  <2>1. \/ s[p].op \in Closing
        \/ i + e \in DOMAIN s /\ n[i] = s[i + e]
    BY <1>3, <1>5
  <2>2. \/ s[p].op \in Opening
        \/ j + e \in DOMAIN s /\ n[j] = s[j + e]
    BY <1>3, <1>5
  <2> QED BY <1>5, <2>1, <2>2 DEF OpensOrCloses
<1> QED BY <1>4, <1>5 DEF ClosesOnce, OpensOrCloses

\* What the instructions on a list are.
LEMMA InstructionFacts ==
  /\ Release.op = "drop" /\ IsOperation(Release)
  /\ \A l : /\ Register(l).op = "register" /\ Register(l).arg = l
            /\ Unregister(l).op = "unregister" /\ Unregister(l).arg[1] = l
            /\ Subscribe(l).op = "subscribe" /\ Subscribe(l).arg[1] = l
            /\ Leave(l).op = "unsubscribe" /\ Leave(l).arg[1] = l
            /\ LeaveForced(l).op = "unsubscribe" /\ LeaveForced(l).arg[1] = l
            /\ LatchOn(l).op = "latch" /\ LatchOn(l).arg[1] = l
            /\ LatchOff(l).op = "latch" /\ LatchOff(l).arg[1] = l
<1>1. Release.op = "drop" /\ IsOperation(Release)
  BY DoFacts DEF Release, IsOperation
<1> SUFFICES ASSUME NEW l
             PROVE  /\ Register(l).op = "register" /\ Register(l).arg = l
                    /\ Unregister(l).op = "unregister" /\ Unregister(l).arg[1] = l
                    /\ Subscribe(l).op = "subscribe" /\ Subscribe(l).arg[1] = l
                    /\ Leave(l).op = "unsubscribe" /\ Leave(l).arg[1] = l
                    /\ LeaveForced(l).op = "unsubscribe" /\ LeaveForced(l).arg[1] = l
                    /\ LatchOn(l).op = "latch" /\ LatchOn(l).arg[1] = l
                    /\ LatchOff(l).op = "latch" /\ LatchOff(l).arg[1] = l
  BY <1>1
<1>2. PICK yes, no : yes = TRUE /\ no = FALSE
  OBVIOUS
<1>3. PICK x, y, z : x = <<l, yes>> /\ y = <<l, no>> /\ z = <<l>>
  OBVIOUS
<1>4. x[1] = l /\ y[1] = l /\ z[1] = l
  BY <1>3
<1>5. /\ Unregister(l) = Do("unregister", x) /\ Leave(l) = Do("unsubscribe", y)
      /\ LeaveForced(l) = Do("unsubscribe", x) /\ LatchOn(l) = Do("latch", x)
      /\ LatchOff(l) = Do("latch", y) /\ Subscribe(l) = Do("subscribe", z)
      /\ Register(l) = Do("register", l)
  BY <1>2, <1>3, Zenon DEF Register, Unregister, Subscribe, Leave, LeaveForced,
     LatchOn, LatchOff
<1> QED BY <1>4, <1>5, DoFacts

LEMMA ReleasesKept ==
  ASSUME NEW s \in Seq(Code), NEW p \in DOMAIN s, ReleasesLast(s), Foremost(s),
         ClosesOnce(s), NEW b, Body(s[p], b), NEW n \in Seq(Code), Goes(n, b, s, p)
  PROVE  ReleasesLast(n)
<1>1. b \in Seq(Code)
  BY DEF Body
<1>2. PICK d \in Nat, e \in Int :
        /\ \A k \in DOMAIN n : k \in Nat /\ k >= 1
        /\ DOMAIN b = 1 .. Len(b) /\ Len(b) \in Nat
        /\ p \in Nat /\ p >= 1
        /\ \A k \in DOMAIN n :
             Genuine(n[k])
               => \/ k + d \in DOMAIN b /\ n[k] = b[k + d]
                  \/ /\ k + d > Len(b) /\ k + e > p
                     /\ k + e \in DOMAIN s /\ n[k] = s[k + e]
  BY <1>1, GoesFrom
<1>3. ASSUME NEW l \in List
      PROVE  IsOperation(Unregister(l)) /\ IsOperation(LeaveForced(l))
  BY InstructionFacts DEF IsOperation
<1>4. ASSUME NEW x, IsOperation(x), Includes(n, x)
      PROVE  Includes(b, x) \/ \E k \in DOMAIN s : k > p /\ s[k] = x
  BY <1>2, <1>4, Traceable DEF Includes
<1>5. ASSUME Includes(s, Release), s[p] # Release
      PROVE  Includes(n, Release)
  BY <1>5, InstructionFacts DEF Goes
<1>6. ASSUME Includes(b, Release)
      PROVE  Includes(n, Release)
  BY <1>6, InstructionFacts DEF Goes
<1>7. ASSUME NEW l \in List, Includes(n, Unregister(l))
      PROVE  Includes(n, Release)
  <2>1. CASE Includes(b, Unregister(l))
    BY <1>6, <2>1 DEF Body
  <2>2. ASSUME NEW k \in DOMAIN s, k > p, s[k] = Unregister(l)
        PROVE  Includes(n, Release)
    <3>1. Includes(s, Release)
      BY <2>2 DEF ReleasesLast, Includes
    <3>2. s[p] # Release
      <4>1. s[p] = Release => k < p
        BY <2>2 DEF ReleasesLast
      <4>2. k \in Int
        BY LenProperties
      <4> QED BY <1>2, <2>2, <4>1, <4>2
    <3> QED BY <1>5, <3>1, <3>2
  <2> QED BY <1>3, <1>4, <1>7, <2>1, <2>2
<1>8. ASSUME NEW l \in List, Includes(n, LeaveForced(l))
      PROVE  Includes(n, Release)
  <2>1. CASE Includes(b, LeaveForced(l))
    <3>1. s[p] = Unregister(l)
      BY <2>1 DEF Body
    <3>2. Includes(s, Release) /\ s[p] # Release
      BY <3>1, InstructionFacts DEF ReleasesLast, Includes
    <3> QED BY <1>5, <3>2
  <2>2. ASSUME NEW k \in DOMAIN s, k > p, s[k] = LeaveForced(l)
        PROVE  FALSE
    <3>1. k = 1
      BY <2>2, InstructionFacts DEF Foremost, Midway
    <3> QED BY <1>2, <2>2, <3>1
  <2> QED BY <1>3, <1>4, <1>8, <2>1, <2>2
<1>9. ASSUME NEW l \in List, NEW i \in DOMAIN n, NEW j \in DOMAIN n,
             n[i] = Release, n[j] = Unregister(l)
      PROVE  j < i
  <2>1. i \in Nat /\ j \in Nat
    BY <1>2
  <2>2. CASE /\ i + d \in DOMAIN b /\ n[i] = b[i + d]
             /\ j + d \in DOMAIN b /\ n[j] = b[j + d]
    <3>1. j + d < i + d
      BY <1>9, <2>2 DEF Body
    <3> QED BY <2>1, <3>1
  <2>3. CASE /\ i + d > Len(b)
             /\ j + d \in DOMAIN b /\ n[j] = b[j + d]
    BY <1>2, <2>1, <2>3
  <2>4. CASE /\ i + d \in DOMAIN b /\ n[i] = b[i + d]
             /\ j + e > p /\ j + e \in DOMAIN s /\ n[j] = s[j + e]
    <3>1. MayCall(s[p].op, "drop")
      BY <1>9, <2>4, InstructionFacts DEF Body
    <3>2. s[p].op = "detach"
      BY <3>1 DEF MayCall
    <3>3. Includes(s, Release)
      BY <1>9, <2>4 DEF ReleasesLast, Includes
    <3>4. PICK k \in DOMAIN s : s[k] = Release
      BY <3>3 DEF Includes
    <3>5. k = p
      BY <3>2, <3>4, InstructionFacts DEF ClosesOnce, Closing
    <3> QED BY <3>2, <3>4, <3>5, InstructionFacts
  <2>5. CASE /\ i + e > p /\ i + e \in DOMAIN s /\ n[i] = s[i + e]
             /\ j + e > p /\ j + e \in DOMAIN s /\ n[j] = s[j + e]
    <3>1. j + e < i + e
      BY <1>9, <2>5 DEF ReleasesLast
    <3> QED BY <2>1, <3>1
  <2>6. Genuine(n[i]) /\ Genuine(n[j])
    BY <1>3, <1>9, InstructionFacts, Traceable
  <2> QED BY <1>2, <2>2, <2>3, <2>4, <2>5, <2>6
<1> QED BY <1>7, <1>8, <1>9 DEF ReleasesLast

LEMMA InstanceFirstKept ==
  ASSUME NEW s \in Seq(Code), NEW p \in DOMAIN s, InstanceFirst(s),
         NEW b, Body(s[p], b), NEW n \in Seq(Code), Goes(n, b, s, p)
  PROVE  InstanceFirst(n)
<1>1. b \in Seq(Code)
  BY DEF Body
<1>2. PICK d \in Nat, e \in Int :
        /\ \A k \in DOMAIN n : k \in Nat /\ k >= 1
        /\ DOMAIN b = 1 .. Len(b) /\ Len(b) \in Nat
        /\ p \in Nat /\ p >= 1
        /\ \A k \in DOMAIN n :
             Genuine(n[k])
               => \/ k + d \in DOMAIN b /\ n[k] = b[k + d]
                  \/ /\ k + d > Len(b) /\ k + e > p
                     /\ k + e \in DOMAIN s /\ n[k] = s[k + e]
  BY <1>1, GoesFrom
<1> SUFFICES ASSUME NEW i \in DOMAIN n, n[i].op = "add"
             PROVE  /\ \A j \in DOMAIN n : n[j].op \in {"instance", "new"} => j < i
                    /\ \A j \in 1 .. i - 1 :
                         n[j] = Do("lock", "capi")
                           => j = 1 /\ \E k \in DOMAIN n : n[k].op = "instance"
  BY DEF InstanceFirst
<1>3. i + d > Len(b) /\ i + e \in DOMAIN s /\ n[i] = s[i + e] /\ i \in Nat
  <2>1. IsOperation(n[i])
    BY DEF IsOperation
  <2>2. CASE i + d \in DOMAIN b /\ n[i] = b[i + d]
    <3>1. MayCall(s[p].op, "add")
      BY <2>1, <2>2 DEF Body
    <3> QED BY <3>1 DEF MayCall
  <2> QED BY <1>2, <2>1, <2>2, Traceable
<1>4. ASSUME NEW j \in DOMAIN n, n[j].op \in {"instance", "new"}
      PROVE  j < i
  <2>1. Genuine(n[j]) /\ j \in Nat
    BY <1>2, <1>4, Traceable DEF IsOperation
  <2>2. CASE j + d \in DOMAIN b
    BY <1>2, <1>3, <2>1, <2>2
  <2>3. CASE j + e \in DOMAIN s /\ n[j] = s[j + e]
    <3>1. j + e < i + e
      BY <1>3, <1>4, <2>3 DEF InstanceFirst
    <3> QED BY <1>3, <2>1, <3>1
  <2> QED BY <1>2, <2>1, <2>2, <2>3
<1>5. ASSUME NEW j \in 1 .. i - 1, n[j] = Do("lock", "capi")
      PROVE  j = 1 /\ \E k \in DOMAIN n : n[k].op = "instance"
  <2>1. j \in DOMAIN n /\ j \in Nat /\ j >= 1 /\ j < i
    <3>1. DOMAIN n = 1 .. Len(n) /\ Len(n) \in Nat
      BY LenProperties
    <3> QED BY <1>3, <3>1
  <2>2. Genuine(n[j])
    BY <1>5, Traceable
  <2>3. CASE j + e > p /\ j + e \in DOMAIN s /\ n[j] = s[j + e]
    <3>1. PICK k, m : k = j + e /\ m = i + e
      OBVIOUS
    <3>2. /\ k > p /\ k \in DOMAIN s /\ n[j] = s[k]
          /\ m \in DOMAIN s /\ n[i] = s[m]
      BY <1>3, <2>3, <3>1
    <3>3. k \in Int /\ m \in Int /\ k < m
      <4>1. e \in Int /\ i \in Int /\ j \in Int /\ j < i
        BY <1>3, <2>1
      <4>2. j + e < i + e /\ j + e \in Int /\ i + e \in Int
        BY <4>1
      <4> QED BY <3>1, <4>2
    <3>4. k \in 1 .. m - 1
      BY <1>2, <3>2, <3>3
    <3>5. k = 1
      BY <1>5, <3>2, <3>4 DEF InstanceFirst
    <3> QED BY <1>2, <3>2, <3>5
  <2>4. CASE j + d \in DOMAIN b /\ n[j] = b[j + d]
    <3>1. j + d = 1 /\ \E k \in DOMAIN b : b[k].op = "instance"
      BY <1>5, <2>4 DEF Body
    <3>2. PICK k \in DOMAIN b : b[k].op = "instance"
      BY <3>1
    <3>3. Includes(n, b[k])
      BY <3>2 DEF Goes, Includes, IsOperation
    <3>4. \E m \in DOMAIN n : n[m].op = "instance"
      BY <3>2, <3>3 DEF Includes
    <3> QED BY <2>1, <3>1, <3>4
  <2> QED BY <1>2, <2>1, <2>2, <2>3, <2>4
<1> QED BY <1>4, <1>5

LEMMA UntoldKept ==
  ASSUME NEW s \in Seq(Code), NEW p \in DOMAIN s, ClosesOnce(s), Untold(s),
         NEW b, Body(s[p], b), NEW n \in Seq(Code), Goes(n, b, s, p)
  PROVE  Untold(n)
<1>1. b \in Seq(Code)
  BY DEF Body
<1>2. PICK d \in Nat, e \in Int :
        /\ \A k \in DOMAIN n : k \in Nat /\ k >= 1
        /\ DOMAIN b = 1 .. Len(b) /\ Len(b) \in Nat
        /\ p \in Nat /\ p >= 1
        /\ \A k \in DOMAIN n :
             Genuine(n[k])
               => \/ k + d \in DOMAIN b /\ n[k] = b[k + d]
                  \/ /\ k + d > Len(b) /\ k + e > p
                     /\ k + e \in DOMAIN s /\ n[k] = s[k + e]
  BY <1>1, GoesFrom
<1>3. ASSUME NEW i \in DOMAIN n, n[i].op \in Removing \cup Telling
      PROVE  \/ MayCall(s[p].op, n[i].op)
             \/ \E k \in DOMAIN s : k > p /\ s[k] = n[i]
  <2>1. IsOperation(n[i])
    BY <1>3 DEF Removing, Telling, IsOperation
  <2>2. CASE i + d \in DOMAIN b /\ n[i] = b[i + d]
    BY <2>1, <2>2 DEF Body
  <2>3. CASE i + e > p /\ i + e \in DOMAIN s /\ n[i] = s[i + e]
    <3>1. PICK k : k = i + e
      OBVIOUS
    <3> QED BY <2>3, <3>1
  <2> QED BY <1>2, <2>1, <2>2, <2>3, Traceable
<1> SUFFICES ASSUME NEW i \in DOMAIN n, NEW j \in DOMAIN n,
                    n[i].op \in Removing, n[j].op \in Telling
             PROVE  FALSE
  BY DEF Untold
<1>4. CASE MayCall(s[p].op, n[i].op)
  <2>1. s[p].op = "guarded"
    BY <1>4 DEF MayCall, Removing
  <2>2. ~MayCall(s[p].op, n[j].op)
    BY <2>1 DEF MayCall, Telling
  <2> QED BY <1>3, <2>1, <2>2 DEF Untold, Removing
<1>5. ASSUME NEW k \in DOMAIN s, k > p, s[k] = n[i]
      PROVE  FALSE
  <2>1. CASE MayCall(s[p].op, n[j].op)
    <3>1. s[p].op \in {"close"} \cup Telling
      BY <2>1 DEF MayCall, Telling
    <3>2. CASE s[p].op = "close"
      <4>1. k = p
        BY <1>5, <3>2 DEF ClosesOnce, Closing, Removing
      <4> QED BY <1>2, <1>5, <4>1
    <3> QED BY <1>5, <3>1, <3>2 DEF Untold
  <2> QED BY <1>3, <1>5, <2>1 DEF Untold
<1> QED BY <1>3, <1>4, <1>5

LEMMA StackKept ==
  ASSUME NEW s \in Seq(Code), NEW p \in DOMAIN s, Stack(s), NEW b, Body(s[p], b),
         NEW n \in Seq(Code), Goes(n, b, s, p),
         s[p].op \in {"attach", "detach"} => HeldAfter(s, p, "internal")
  PROVE  Stack(n)
BY CoveredKept, ForemostKept, ClosingKept, UntoldKept, ReleasesKept,
   InstanceFirstKept DEF Stack


----------------------------------------------------------------------------
(* What operations go on with keeps the stacks.                            *)

\* b is made of operations of T under locks of L, and closes at most once.
Part(b, T, L) ==
  /\ b \in Seq(Code)
  /\ \A i \in DOMAIN b :
       \/ b[i].op \in T \cup {"unlock"}
       \/ \E l \in L : b[i] = Do("lock", l)
  /\ ClosesOnce(b)

Quiescent(b) == \A i \in DOMAIN b : b[i].op \notin Closing

LEMMA PartEmpty ==
  ASSUME NEW T, NEW L
  PROVE  Part(<<>>, T, L) /\ Quiescent(<<>>)
BY DEF Part, ClosesOnce, Quiescent

LEMMA PartOne ==
  ASSUME NEW op, NEW arg, Do(op, arg) \in Code, NEW L
  PROVE  Part(<<Do(op, arg)>>, {op}, L)
<1>1. PICK x, b : x = Do(op, arg) /\ b = <<x>>
  OBVIOUS
<1>2. x \in Code /\ x.op = op
  BY <1>1, DoFacts
<1>3. b \in Seq(Code) /\ DOMAIN b = {1} /\ b[1] = x
  BY <1>1, <1>2
<1>4. Part(b, {op}, L)
  BY <1>2, <1>3 DEF Part, ClosesOnce
<1> QED BY <1>1, <1>4

LEMMA PartMore ==
  ASSUME NEW b, NEW T, NEW L, Part(b, T, L), NEW U, NEW M, T \subseteq U, L \subseteq M
  PROVE  Part(b, U, M)
BY DEF Part

LEMMA PartQuiescent ==
  ASSUME NEW b, NEW T, NEW L, Part(b, T, L), T \cap Closing = {}
  PROVE  Quiescent(b)
<1> SUFFICES ASSUME NEW i \in DOMAIN b PROVE b[i].op \notin Closing
  BY DEF Quiescent
<1>1. CASE b[i].op \in T \cup {"unlock"}
  BY <1>1 DEF Closing
<1>2. CASE \E l \in L : b[i] = Do("lock", l)
  BY <1>2, DoFacts DEF Closing
<1> QED BY <1>1, <1>2 DEF Part

LEMMA PartJoin ==
  ASSUME NEW T, NEW L, NEW b, Part(b, T, L), NEW c, Part(c, T, L),
         Quiescent(b) \/ Quiescent(c)
  PROVE  Part(b \o c, T, L)
<1>1. b \in Seq(Code) /\ c \in Seq(Code)
  BY DEF Part
<1>2. PICK n : n = b \o c
  OBVIOUS
<1>3. Joined(n, b, c) /\ n \in Seq(Code)
  BY <1>1, <1>2, JoinedFacts
<1>4. PICK m, k : m = Len(b) /\ k = Len(c)
  OBVIOUS
<1>5. m \in Nat /\ k \in Nat /\ DOMAIN b = 1 .. m /\ DOMAIN c = 1 .. k
  BY <1>1, <1>4, LenProperties
<1>6. /\ DOMAIN n = 1 .. m + k
      /\ \A i \in 1 .. m : n[i] = b[i]
      /\ \A i \in 1 .. k : n[m + i] = c[i]
  BY <1>3, <1>4 DEF Joined
<1>7. ASSUME NEW i \in DOMAIN n
      PROVE  i \in 1 .. m \/ (i - m \in 1 .. k /\ m + (i - m) = i /\ i \in Int)
  BY <1>5, <1>6
<1>8. ASSUME NEW i \in DOMAIN n
      PROVE  \/ i \in DOMAIN b /\ n[i] = b[i]
             \/ i - m \in DOMAIN c /\ n[i] = c[i - m] /\ i \in Int
  <2>1. CASE i \in 1 .. m
    BY <1>5, <1>6, <2>1
  <2>2. CASE i - m \in 1 .. k /\ m + (i - m) = i /\ i \in Int
    <3>1. PICK j \in 1 .. k : j = i - m
      BY <2>2
    <3>2. n[m + j] = c[j] /\ m + j = i
      BY <1>6, <2>2, <3>1
    <3> QED BY <1>5, <2>2, <3>1, <3>2
  <2> QED BY <1>7, <2>1, <2>2
<1>9. ASSUME NEW i \in DOMAIN n
      PROVE  \/ n[i].op \in T \cup {"unlock"}
             \/ \E l \in L : n[i] = Do("lock", l)
  BY <1>8 DEF Part
<1>10. ASSUME NEW i \in DOMAIN n, NEW j \in DOMAIN n,
              n[i].op \in Closing, n[j].op \in Closing
       PROVE  i = j
  <2>1. CASE Quiescent(b)
    <3>1. i - m \in DOMAIN c /\ n[i] = c[i - m] /\ i \in Int
      BY <1>8, <1>10, <2>1 DEF Quiescent
    <3>2. j - m \in DOMAIN c /\ n[j] = c[j - m] /\ j \in Int
      BY <1>8, <1>10, <2>1 DEF Quiescent
    <3>3. i - m = j - m
      BY <1>10, <3>1, <3>2 DEF Part, ClosesOnce
    <3> QED BY <1>5, <3>1, <3>2, <3>3
  <2>2. CASE Quiescent(c)
    <3>1. i \in DOMAIN b /\ n[i] = b[i]
      BY <1>8, <1>10, <2>2 DEF Quiescent
    <3>2. j \in DOMAIN b /\ n[j] = b[j]
      BY <1>8, <1>10, <2>2 DEF Quiescent
    <3> QED BY <1>10, <3>1, <3>2 DEF Part, ClosesOnce
  <2> QED BY <2>1, <2>2
<1> QED BY <1>2, <1>3, <1>9, <1>10 DEF Part, ClosesOnce

LEMMA PartWith ==
  ASSUME NEW T, NEW L, NEW b, Part(b, T, L), NEW l \in Lock
  PROVE  Part(With(l, b), T, L \cup {l})
<1>1. b \in Seq(Code) /\ {Do("lock", l), Do("unlock", l)} \subseteq Code
  BY LocksInCode DEF Part
<1>2. PICK n : n = With(l, b)
  OBVIOUS
<1>3. /\ n \in Seq(Code) /\ DOMAIN b = 1 .. Len(b) /\ Len(b) \in Nat
      /\ DOMAIN n = 1 .. Len(b) + 2
      /\ n[1] = Do("lock", l) /\ n[Len(b) + 2] = Do("unlock", l)
      /\ \A i \in DOMAIN b : i + 1 \in DOMAIN n /\ n[i + 1] = b[i]
      /\ \A i \in DOMAIN n : \/ i = 1 \/ i = Len(b) + 2
                            \/ \E h \in DOMAIN b : i = h + 1
  BY <1>1, <1>2, WithParts
<1>4. ASSUME NEW i \in DOMAIN n
      PROVE  \/ n[i] = Do("lock", l)
             \/ n[i].op = "unlock"
             \/ \E h \in DOMAIN b : i = h + 1 /\ n[i] = b[h]
  BY <1>3, DoFacts
<1>5. ASSUME NEW i \in DOMAIN n
      PROVE  \/ n[i].op \in T \cup {"unlock"}
             \/ \E k \in L \cup {l} : n[i] = Do("lock", k)
  BY <1>4 DEF Part
<1>6. ASSUME NEW i \in DOMAIN n, NEW j \in DOMAIN n,
             n[i].op \in Closing, n[j].op \in Closing
      PROVE  i = j
  <2>1. n[i].op \notin {"lock", "unlock"} /\ n[j].op \notin {"lock", "unlock"}
    BY <1>6 DEF Closing
  <2>2. PICK h \in DOMAIN b : i = h + 1 /\ n[i] = b[h]
    BY <1>4, <2>1, DoFacts
  <2>3. PICK k \in DOMAIN b : j = k + 1 /\ n[j] = b[k]
    BY <1>4, <2>1, DoFacts
  <2>4. h = k
    BY <1>6, <2>2, <2>3 DEF Part, ClosesOnce
  <2> QED BY <2>2, <2>3, <2>4
<1> QED BY <1>2, <1>3, <1>5, <1>6 DEF Part, ClosesOnce

\* A part that does without the instructions the stacks are about.
LEMMA PartBody ==
  ASSUME NEW x, NEW b, NEW T, NEW L, Part(b, T, L), "capi" \notin L,
         \A op \in T : MayCall(x.op, op) /\ op \notin {"unregister"} \cup Midway
  PROVE  Body(x, b)
<1>1. ASSUME NEW op \in T
      PROVE  op \notin {"lock", "unlock"}
  BY DEF MayCall
<1>2. ASSUME NEW i \in DOMAIN b
      PROVE  /\ IsOperation(b[i]) => b[i].op \in T
             /\ b[i].op \notin {"unregister"} \cup Midway
             /\ b[i] # Do("lock", "capi")
  <2>1. CASE b[i].op \in T \cup {"unlock"}
    BY <1>1, <2>1, DoFacts DEF IsOperation, Midway
  <2>2. CASE \E l \in L : b[i] = Do("lock", l)
    <3>1. PICK l \in L : b[i] = Do("lock", l)
      BY <2>2
    <3>2. b[i].op = "lock" /\ b[i].arg = l
      BY <3>1, DoFacts
    <3> QED BY <3>2, DoFacts DEF IsOperation, Midway
  <2> QED BY <2>1, <2>2 DEF Part
<1>3. ASSUME NEW l
      PROVE  ~Includes(b, Unregister(l)) /\ ~Includes(b, LeaveForced(l))
  BY <1>2, InstructionFacts DEF Includes, Midway
<1>4. ASSUME NEW l, NEW j \in DOMAIN b
      PROVE  b[j] # Unregister(l)
  BY <1>3 DEF Includes
<1> QED BY <1>2, <1>3, <1>4 DEF Body, Part, Foremost

\* One instruction, or none.
LEMMA OneBody ==
  ASSUME NEW x, NEW op, NEW arg, NEW y, y = Do(op, arg), y \in Code, IsOperation(y),
         MayCall(x.op, op), \A l : y # Unregister(l),
         \A l : y = LeaveForced(l) => x = Unregister(l),
         NEW b \in {<<>>, <<y>>}
  PROVE  Body(x, b)
<1>1. y.op = op
  BY DoFacts
<1>2. /\ b \in Seq(Code)
      /\ \A i \in DOMAIN b : i = 1 /\ b[i] = y
  <2>1. CASE b = <<>>
    BY <2>1
  <2>2. CASE b = <<y>>
    <3>1. b \in Seq(Code) /\ DOMAIN b = {1} /\ b[1] = y
      BY <2>2
    <3> QED BY <3>1
  <2> QED BY <2>1, <2>2
<1>3. \A i \in DOMAIN b : b[i] # Do("lock", "capi")
  BY <1>2, DoFacts DEF IsOperation
<1>4. ASSUME NEW l
      PROVE  ~Includes(b, Unregister(l)) /\ (Includes(b, LeaveForced(l)) => x = Unregister(l))
  BY <1>2 DEF Includes
<1>5. ASSUME NEW l, NEW j \in DOMAIN b
      PROVE  b[j] # Unregister(l)
  BY <1>2
<1> QED BY <1>1, <1>2, <1>3, <1>4, <1>5 DEF Body, Foremost, ClosesOnce

LEMMA ConnectPart ==
  /\ Part(ConnectBody, {"open"}, {"internal"})
  /\ Part(InitBody, {"new"}, {"internal"})
  /\ Part(TermBody, {"destroy"}, {"internal"})
<1>1. ASSUME NEW op \in {"open", "new", "destroy"}
      PROVE  Part(With("internal", <<Do(op, 0)>>), {op}, {"internal"})
  <2>1. Do(op, 0) \in Code
    BY BareInCode DEF Bare
  <2>2. Part(<<Do(op, 0)>>, {op}, {})
    BY <2>1, PartOne
  <2>3. Part(With("internal", <<Do(op, 0)>>), {op}, {} \cup {"internal"})
    BY <2>2, PartWith DEF Lock
  <2>4. {} \cup {"internal"} = {"internal"}
    OBVIOUS
  <2> QED BY <2>3, <2>4
<1> QED BY <1>1 DEF ConnectBody, InitBody, TermBody

LEMMA OperationalPart ==
  ASSUME NEW up \in BOOLEAN
  PROVE  Part(OperationalBody(up), {IF up THEN "attach" ELSE "detach", "tell"},
              {"internal"})
<1>1. PICK op \in {"attach", "detach"} : op = IF up THEN "attach" ELSE "detach"
  OBVIOUS
<1>2. Do(op, 0) \in Code /\ Do("tell", Ops) \in Code
  BY BareInCode, CallsAssumption DEF Bare, Code, ListCode
<1>3. Part(<<Do(op, 0)>>, {op}, {}) /\ Part(<<Do("tell", Ops)>>, {"tell"}, {"internal"})
  BY <1>2, PartOne
<1>4. Part(With("internal", <<Do(op, 0)>>), {op}, {} \cup {"internal"})
  BY <1>3, PartWith DEF Lock
<1>5. Quiescent(<<Do("tell", Ops)>>)
  BY <1>3, PartQuiescent DEF Closing
<1>6. /\ Part(With("internal", <<Do(op, 0)>>), {op, "tell"}, {"internal"})
      /\ Part(<<Do("tell", Ops)>>, {op, "tell"}, {"internal"})
  BY <1>3, <1>4, PartMore
<1>7. Part(With("internal", <<Do(op, 0)>>) \o <<Do("tell", Ops)>>, {op, "tell"}, {"internal"})
  BY <1>5, <1>6, PartJoin
<1> QED BY <1>1, <1>7 DEF OperationalBody

LEMMA DisconnectPart ==
  ASSUME NEW final \in BOOLEAN
  PROVE  Part(DisconnectBody(final), {"stop", "close"}, {"internal"})
<1>1. PICK x : x = IF final THEN <<Do("stop", 0)>> ELSE <<>>
  OBVIOUS
<1>2. Do("stop", 0) \in Code /\ Do("close", 0) \in Code
  BY BareInCode DEF Bare
<1>3. Part(x, {"stop"}, {}) /\ Part(<<Do("close", 0)>>, {"close"}, {})
  BY <1>1, <1>2, PartOne, PartEmpty
<1>4. Quiescent(x)
  BY <1>3, PartQuiescent DEF Closing
<1>5. Part(x, {"stop", "close"}, {}) /\ Part(<<Do("close", 0)>>, {"stop", "close"}, {})
  BY <1>3, PartMore
<1>6. Part(x \o <<Do("close", 0)>>, {"stop", "close"}, {})
  BY <1>4, <1>5, PartJoin
<1>7. Part(With("internal", x \o <<Do("close", 0)>>), {"stop", "close"},
           {} \cup {"internal"})
  BY <1>6, PartWith DEF Lock
<1>8. {} \cup {"internal"} = {"internal"}
  OBVIOUS
<1> QED BY <1>1, <1>7, <1>8 DEF DisconnectBody

LEMMA GuardedPart ==
  ASSUME NEW b \in Guarded
  PROVE  Part(b, {"stop", "close", "remove"}, {"internal", "callback"})
<1>1. CASE b = <<>>
  BY <1>1, PartEmpty
<1>2. CASE b = DisconnectBody(FALSE)
  <2>1. Part(b, {"stop", "close"}, {"internal"})
    BY <1>2, DisconnectPart
  <2> QED BY <2>1, PartMore
<1>3. ASSUME NEW l \in List, NEW c \in Callback, b = UnRegisterCallback(l, c)
      PROVE  Part(b, {"stop", "close", "remove"}, {"internal", "callback"})
  <2>1. Do("remove", <<l, c>>) \in Code
    BY DEF Code, CallbackCode
  <2>2. Part(<<Do("remove", <<l, c>>)>>, {"remove"}, {})
    BY <2>1, PartOne
  <2>3. Part(With("callback", <<Do("remove", <<l, c>>)>>), {"remove"}, {} \cup {"callback"})
    BY <2>2, PartWith DEF Lock
  <2>4. Part(b, {"remove"}, {} \cup {"callback"})
    BY <1>3, <2>3 DEF UnRegisterCallback
  <2> QED BY <2>4, PartMore
<1>4. CASE b \in Unregistering
  BY <1>3, <1>4 DEF Unregistering
<1> QED BY <1>1, <1>2, <1>4 DEF Guarded

\* The instance first.
LEMMA InstancePart ==
  ASSUME NEW T, NEW L, NEW b, Part(b, T, L)
  PROVE  Part(<<Do("instance", 0)>> \o b, T \cup {"instance"}, L)
<1>1. Part(<<Do("instance", 0)>>, {"instance"}, L)
  BY BareInCode, PartOne DEF Bare
<1>2. Quiescent(<<Do("instance", 0)>>)
  BY <1>1, PartQuiescent DEF Closing
<1>3. Part(<<Do("instance", 0)>>, T \cup {"instance"}, L) /\ Part(b, T \cup {"instance"}, L)
  BY <1>1, PartMore
<1> QED BY <1>2, <1>3, PartJoin

\* A request of a callback.
LEMMA RequestParts ==
  ASSUME NEW call \in AllCalls
  PROVE  /\ Part(Request(call), {"instance", "proxy"}, {"internal", "capi"})
         /\ \A i \in DOMAIN Request(call) :
              Request(call)[i] = Do("lock", "capi")
                => i = 1 /\ \E k \in DOMAIN Request(call) : Request(call)[k].op = "instance"
<1>1. Do("proxy", call) \in Code
  BY DEF Code, ValueCode
<1>2. Part(<<Do("proxy", call)>>, {"proxy"}, {})
  BY <1>1, PartOne
<1>3. PICK w : w = With("internal", <<Do("proxy", call)>>)
  OBVIOUS
<1>4. Part(w, {"proxy"}, {"internal"})
  <2>1. Part(w, {"proxy"}, {} \cup {"internal"})
    BY <1>2, <1>3, PartWith DEF Lock
  <2> QED BY <2>1, PartMore
<1>5. PICK x, b : x = <<Do("instance", 0)>> /\ b = x \o w
  OBVIOUS
<1>6. Part(b, {"instance", "proxy"}, {"internal"})
  <2>1. Part(b, {"proxy"} \cup {"instance"}, {"internal"})
    BY <1>4, <1>5, InstancePart
  <2> QED BY <2>1, PartMore
<1>7. PICK n : n = With("capi", b)
  OBVIOUS
<1>8. Part(n, {"instance", "proxy"}, {"internal", "capi"})
  <2>1. Part(n, {"instance", "proxy"}, {"internal"} \cup {"capi"})
    BY <1>6, <1>7, PartWith DEF Lock
  <2> QED BY <2>1, PartMore
<1>9. b \in Seq(Code) /\ {Do("lock", "capi"), Do("unlock", "capi")} \subseteq Code
  BY <1>6, LocksInCode DEF Part, Lock
<1>10. /\ n[Len(b) + 2] = Do("unlock", "capi") /\ Len(b) \in Nat
       /\ \A i \in DOMAIN b : i + 1 \in DOMAIN n /\ n[i + 1] = b[i]
       /\ \A i \in DOMAIN n : \/ i = 1 \/ i = Len(b) + 2
                             \/ \E h \in DOMAIN b : i = h + 1
  BY <1>7, <1>9, WithParts
<1>11. ASSUME NEW i \in DOMAIN n, n[i] = Do("lock", "capi")
       PROVE  i = 1
  <2>1. i # Len(b) + 2
    BY <1>10, <1>11, DoFacts
  <2>2. ASSUME NEW h \in DOMAIN b, b[h] = Do("lock", "capi")
        PROVE  FALSE
    <3>1. \E l \in {"internal"} : Do("lock", "capi") = Do("lock", l)
      BY <1>6, <2>2, DoFacts DEF Part
    <3> QED BY <3>1, DoFacts
  <2> QED BY <1>10, <1>11, <2>1, <2>2
<1>12. 1 \in DOMAIN b /\ b[1].op = "instance"
  <2>1. x \in Seq(Code) /\ w \in Seq(Code) /\ Len(x) = 1 /\ x[1] = Do("instance", 0)
    <3>1. Do("instance", 0) \in Code /\ w \in Seq(Code)
      BY <1>4, BareInCode DEF Bare, Part
    <3> QED BY <1>5, <3>1
  <2>2. Joined(b, x, w)
    BY <1>5, <2>1, JoinedFacts
  <2>3. Len(w) \in Nat
    BY <2>1, LenProperties
  <2> QED BY <2>1, <2>2, <2>3, DoFacts DEF Joined
<1>13. Request(call) = n
  BY <1>3, <1>5, <1>7 DEF Request, CApi
<1> QED BY <1>8, <1>10, <1>11, <1>12, <1>13

\* Every list but the operational state's is registered, or unregistered.
LEMMA RegistersAll ==
  ASSUME NEW b, b = SubscribeAllNotificationsLocked
  PROVE  /\ Part(b, {"register"}, {})
         /\ \A i \in DOMAIN b : \E l \in Subscribable : b[i] = Register(l)
         /\ \A l \in Subscribable : Includes(b, Register(l))
<1>1. PICK L, n, q : L = Subscribable /\ n = Cardinality(L) /\ q = SetToSeq(L)
  OBVIOUS
<1>2. IsFiniteSet(L) /\ L \subseteq List
  BY <1>1, CallsAssumption, FS_Subset DEF Subscribable
<1>3. n \in Nat /\ q \in [1 .. n -> L]
  BY <1>1, <1>2, Enumerated
<1>4. b = [i \in 1 .. n |-> Do("register", q[i])]
  BY <1>1 DEF SubscribeAllNotificationsLocked, Lists, Subscribable
<1>5. DOMAIN b = 1 .. n /\ \A i \in 1 .. n : b[i] = Register(q[i])
  BY <1>4 DEF Register
<1>6. \A l \in L : \E i \in 1 .. n : q[i] = l
  BY <1>1, <1>2, EnumeratedAll
<1>7. b \in Seq(Code)
  BY ListsCode, <1>4
<1>8. \A i \in DOMAIN b : b[i].op = "register"
  BY <1>5, InstructionFacts
<1>9. Part(b, {"register"}, {})
  BY <1>7, <1>8 DEF Part, ClosesOnce, Closing
<1> QED BY <1>1, <1>3, <1>5, <1>6, <1>9 DEF Includes

LEMMA UnregistersAll ==
  ASSUME NEW b, b = Append(UnsubscribeAllNotificationsLocked, Do("drop", 0))
  PROVE  /\ b \in Seq(Code)
         /\ \E n \in Nat : /\ DOMAIN b = 1 .. n + 1 /\ b[n + 1] = Release
                           /\ \A i \in 1 .. n : \E l \in Subscribable : b[i] = Unregister(l)
         /\ \A l \in Subscribable : Includes(b, Unregister(l))
<1>1. PICK L, n, q : L = Subscribable /\ n = Cardinality(L) /\ q = SetToSeq(L)
  OBVIOUS
<1>2. IsFiniteSet(L) /\ L \subseteq List
  BY <1>1, CallsAssumption, FS_Subset DEF Subscribable
<1>3. n \in Nat /\ q \in [1 .. n -> L]
  BY <1>1, <1>2, Enumerated
<1>4. PICK v \in BOOLEAN : v = TRUE
  OBVIOUS
<1>5. PICK c : c = [i \in 1 .. n |-> Do("unregister", <<q[i], v>>)]
  OBVIOUS
<1>6. UnsubscribeAllNotificationsLocked = c
  BY <1>1, <1>4, <1>5 DEF UnsubscribeAllNotificationsLocked, Lists, Subscribable
<1>7. DOMAIN c = 1 .. n /\ \A i \in 1 .. n : c[i] = Unregister(q[i])
  BY <1>4, <1>5 DEF Unregister
<1>8. \A l \in L : \E i \in 1 .. n : q[i] = l
  BY <1>1, <1>2, EnumeratedAll
<1>9. c \in Seq(Code) /\ Release \in Code
  BY ListsCode, <1>6, BareInCode DEF Release, Bare
<1>10. b = Append(c, Release)
  BY <1>6 DEF Release
<1>11. Len(c) = n
  BY <1>3, <1>7, <1>9, LenProperties
<1>12. /\ b \in Seq(Code) /\ Len(b) = n + 1 /\ b[n + 1] = Release
       /\ \A i \in 1 .. n : b[i] = c[i]
  <2>1. b \in Seq(Code) /\ Len(b) = Len(c) + 1 /\ b[Len(c) + 1] = Release
    <3>1. /\ Append(c, Release) \in Seq(Code)
          /\ Len(Append(c, Release)) = Len(c) + 1
          /\ Append(c, Release)[Len(c) + 1] = Release
      <4>1. c \in Seq(Code)
        BY <1>9
      <4>2. Release \in Code
        BY <1>9
      <4> QED BY <4>1, <4>2, AppendProperties
    <3> QED BY <1>10, <3>1
  <2>2. \A i \in 1 .. Len(c) : b[i] = c[i]
    BY <1>9, <1>10, AppendProperties
  <2> QED BY <1>11, <2>1, <2>2
<1>13. DOMAIN b = 1 .. n + 1
  BY <1>12, LenProperties
<1>14. \A i \in 1 .. n : i \in DOMAIN b /\ q[i] \in L /\ b[i] = Unregister(q[i])
  BY <1>3, <1>7, <1>12, <1>13
<1>15. ASSUME NEW l \in L PROVE Includes(b, Unregister(l))
  <2>1. PICK i \in 1 .. n : q[i] = l
    BY <1>8
  <2> QED BY <1>14, <2>1 DEF Includes
<1> QED BY <1>1, <1>3, <1>12, <1>13, <1>14, <1>15

LEMMA DetachBody ==
  ASSUME NEW x, x.op = "detach",
         NEW b, b = Append(UnsubscribeAllNotificationsLocked, Do("drop", 0))
  PROVE  Body(x, b)
<1>1. PICK n \in Nat : /\ DOMAIN b = 1 .. n + 1 /\ b[n + 1] = Release
                       /\ \A i \in 1 .. n : \E l \in Subscribable : b[i] = Unregister(l)
  BY UnregistersAll
<1>2. ASSUME NEW i \in DOMAIN b
      PROVE  \/ i = n + 1 /\ b[i] = Release /\ b[i].op = "drop"
             \/ i \in 1 .. n /\ b[i].op = "unregister"
  <2>1. CASE i = n + 1
    BY <1>1, <2>1, InstructionFacts
  <2>2. CASE i \in 1 .. n
    BY <1>1, <2>2, InstructionFacts
  <2> QED BY <1>1, <2>1, <2>2
<1>3. b \in Seq(Code)
  BY UnregistersAll
<1>4. \A i \in DOMAIN b : MayCall(x.op, b[i].op)
  BY <1>2 DEF MayCall
<1>5. Foremost(b) /\ ClosesOnce(b)
  BY <1>2 DEF Foremost, Midway, ClosesOnce, Closing
<1>6. \A i \in DOMAIN b : b[i] # Do("lock", "capi")
  BY <1>2, DoFacts
<1>7. \A l : ~Includes(b, LeaveForced(l))
  BY <1>2, InstructionFacts DEF Includes
<1>8. Includes(b, Release)
  BY <1>1 DEF Includes
<1>9. \A l : \A i, j \in DOMAIN b : b[i] = Release /\ b[j] = Unregister(l) => j < i
  BY <1>1, <1>2, InstructionFacts
<1> QED BY <1>3, <1>4, <1>5, <1>6, <1>7, <1>8, <1>9 DEF Body

LEMMA RequestBody ==
  ASSUME NEW x, x.op = "call", NEW call \in AllCalls
  PROVE  Body(x, Request(call))
<1>1. PICK b : b = Request(call)
  OBVIOUS
<1>2. /\ Part(b, {"instance", "proxy"}, {"internal", "capi"})
      /\ \A i \in DOMAIN b : b[i] = Do("lock", "capi")
                               => i = 1 /\ \E k \in DOMAIN b : b[k].op = "instance"
  BY <1>1, RequestParts
<1>3. ASSUME NEW i \in DOMAIN b
      PROVE  b[i].op \in {"instance", "proxy", "lock", "unlock"}
  BY <1>2, DoFacts DEF Part
<1>4. \A i \in DOMAIN b : IsOperation(b[i]) => MayCall(x.op, b[i].op)
  BY <1>3 DEF MayCall, IsOperation
<1>5. Foremost(b)
  BY <1>3 DEF Foremost, Midway
<1>6. \A l : ~Includes(b, Unregister(l)) /\ ~Includes(b, LeaveForced(l))
  BY <1>3, InstructionFacts DEF Includes
<1>7. \A l : \A j \in DOMAIN b : b[j] # Unregister(l)
  BY <1>6 DEF Includes
<1> QED BY <1>1, <1>2, <1>4, <1>5, <1>6, <1>7 DEF Body, Part

\* An instruction is its operation on its argument.
LEMMA CodeShape ==
  ASSUME NEW x \in Code
  PROVE  x = Do(x.op, x.arg)
<1>1. SUFFICES \E op, arg : x = Do(op, arg)
  BY DoFacts
<1>2. CASE x \in LockCode \cup BareCode
  BY <1>2 DEF LockCode, BareCode
<1>3. CASE x \in ValueCode
  BY <1>3 DEF ValueCode
<1>4. CASE x \in ListCode
  BY <1>4 DEF ListCode
<1>7. CASE x \in SubscribeCode
  <2>1. PICK l \in List : x = Do("subscribe", <<l>>)
    BY <1>7 DEF SubscribeCode
  <2> QED BY <2>1
<1>5. CASE x \in UpdateCode
  <2>1. PICK op \in {"unregister", "unsubscribe", "latch"}, y \in List \X BOOLEAN :
          x = Do(op, y)
    BY <1>5 DEF UpdateCode
  <2> QED BY <2>1
<1>6. CASE x \in CallbackCode
  <2>1. PICK op \in {"add", "remove", "call"}, y \in List \X Callback : x = Do(op, y)
    BY <1>6 DEF CallbackCode
  <2> QED BY <2>1
<1> QED BY <1>2, <1>3, <1>4, <1>5, <1>6, <1>7 DEF Code

\* The instructions that update lists.
LEMMA UpdateShapes ==
  ASSUME NEW x \in Code
  PROVE  /\ x.op = "drop" => x = Release
         /\ x.op = "register" => x = Register(x.arg) /\ x.arg \in List
         /\ x.op = "subscribe" => x.arg[1] \in List /\ x = Subscribe(x.arg[1])
         /\ x.op = "unsubscribe" =>
              /\ x.arg[1] \in List
              /\ x = IF x.arg[2] THEN LeaveForced(x.arg[1]) ELSE Leave(x.arg[1])
         /\ x.op = "latch" =>
              /\ x.arg[1] \in List
              /\ x = IF x.arg[2] THEN LatchOn(x.arg[1]) ELSE LatchOff(x.arg[1])
         /\ x.op = "unregister" =>
              /\ x.arg[1] \in List
              /\ x.arg[2] => x = Unregister(x.arg[1])
<1>1. x = Do(x.op, x.arg)
  BY CodeShape
<1>2. ASSUME x.op = "drop" PROVE x = Release
  <2>1. x \in BareCode
    BY <1>2, OperationsOf DEF Code
  <2>2. PICK op \in Bare : x = Do(op, 0)
    BY <2>1 DEF BareCode
  <2> QED BY <1>2, <2>2, DoFacts DEF Release
<1>3. ASSUME x.op = "register" PROVE x = Register(x.arg) /\ x.arg \in List
  BY <1>1, <1>3, CodeFacts DEF Register
<1>4. ASSUME x.op = "subscribe" PROVE x.arg[1] \in List /\ x = Subscribe(x.arg[1])
  <2>1. PICK l \in List : x.arg = <<l>>
    BY <1>4, CodeFacts
  <2>2. x.arg[1] = l
    BY <2>1
  <2> QED BY <1>1, <1>4, <2>1, <2>2 DEF Subscribe
<1>5. ASSUME x.op \in {"unsubscribe", "latch", "unregister"}
      PROVE  \E l \in List, f \in BOOLEAN :
               /\ x.arg[1] = l /\ x.arg[2] = f
               /\ x = Do(x.op, <<l, f>>)
  <2>1. x.arg \in List \X BOOLEAN
    BY <1>5, CodeFacts
  <2>2. PICK l \in List, f \in BOOLEAN : x.arg = <<l, f>>
    BY <2>1
  <2>3. x.arg[1] = l /\ x.arg[2] = f
    BY <2>2
  <2> QED BY <1>1, <2>2, <2>3
<1>6. ASSUME x.op = "unsubscribe"
      PROVE  /\ x.arg[1] \in List
             /\ x = IF x.arg[2] THEN LeaveForced(x.arg[1]) ELSE Leave(x.arg[1])
  <2>1. PICK l \in List, f \in BOOLEAN :
          x.arg[1] = l /\ x.arg[2] = f /\ x = Do(x.op, <<l, f>>)
    BY <1>5, <1>6
  <2>2. CASE f = TRUE
    <3>1. x = LeaveForced(l)
      BY <1>6, <2>1, <2>2, Zenon DEF LeaveForced
    <3> QED BY <2>1, <2>2, <3>1
  <2>3. CASE f = FALSE
    <3>1. x = Leave(l)
      BY <1>6, <2>1, <2>3, Zenon DEF Leave
    <3> QED BY <2>1, <2>3, <3>1
  <2> QED BY <2>2, <2>3
<1>7. ASSUME x.op = "latch"
      PROVE  /\ x.arg[1] \in List
             /\ x = IF x.arg[2] THEN LatchOn(x.arg[1]) ELSE LatchOff(x.arg[1])
  <2>1. PICK l \in List, f \in BOOLEAN :
          x.arg[1] = l /\ x.arg[2] = f /\ x = Do(x.op, <<l, f>>)
    BY <1>5, <1>7
  <2>2. CASE f = TRUE
    <3>1. x = LatchOn(l)
      BY <1>7, <2>1, <2>2, Zenon DEF LatchOn
    <3> QED BY <2>1, <2>2, <3>1
  <2>3. CASE f = FALSE
    <3>1. x = LatchOff(l)
      BY <1>7, <2>1, <2>3, Zenon DEF LatchOff
    <3> QED BY <2>1, <2>3, <3>1
  <2> QED BY <2>2, <2>3
<1>8. ASSUME x.op = "unregister"
      PROVE  /\ x.arg[1] \in List
             /\ x.arg[2] => x = Unregister(x.arg[1])
  <2>1. PICK l \in List, f \in BOOLEAN :
          x.arg[1] = l /\ x.arg[2] = f /\ x = Do(x.op, <<l, f>>)
    BY <1>5, <1>8
  <2>2. CASE f = TRUE
    <3>1. x = Unregister(l)
      BY <1>8, <2>1, <2>2, Zenon DEF Unregister
    <3> QED BY <2>1, <2>2, <3>1
  <2>3. CASE f = FALSE
    BY <2>1, <2>3
  <2> QED BY <2>2, <2>3
<1> QED BY <1>2, <1>3, <1>4, <1>6, <1>7, <1>8

\* Forced or not, on or off, is told apart.
LEMMA InstructionsDiffer ==
  \A l, k : Leave(l) # LeaveForced(k) /\ LatchOn(l) # LatchOff(k)
<1> SUFFICES ASSUME NEW l, NEW k
             PROVE  Leave(l) # LeaveForced(k) /\ LatchOn(l) # LatchOff(k)
  OBVIOUS
<1>1. PICK yes \in BOOLEAN, no \in BOOLEAN : yes = TRUE /\ no = FALSE
  OBVIOUS
<1>2. PICK x, y, z, w : x = <<l, no>> /\ y = <<k, yes>> /\ z = <<l, yes>> /\ w = <<k, no>>
  OBVIOUS
<1>3. x[2] = no /\ y[2] = yes /\ z[2] = yes /\ w[2] = no
  BY <1>2
<1>4. x # y /\ z # w
  <2>1. yes # no
    BY <1>1
  <2> QED BY <1>3, <2>1
<1>5. /\ Leave(l) = Do("unsubscribe", x) /\ LeaveForced(k) = Do("unsubscribe", y)
      /\ LatchOn(l) = Do("latch", z) /\ LatchOff(k) = Do("latch", w)
  BY <1>1, <1>2, Zenon DEF Leave, LeaveForced, LatchOn, LatchOff
<1> QED BY <1>4, <1>5, DoFacts

\* t performs its operation x, which goes on with b.
Performs(t, x, b) ==
  /\ IsOperation(x) /\ x \in Code /\ At(t, x.op) /\ x = todo[t][Place(t)]
  /\ Continue(t, b) /\ Body(x, b)

\* The step of t at op, which goes on with b.
LEMMA Performed ==
  ASSUME ClientInv, NEW t \in Thread, NEW op, op \notin {"lock", "unlock"}, At(t, op),
         NEW b, Continue(t, b), \A x : x \in Code /\ x.op = op /\ x.arg = Arg(t) => Body(x, b)
  PROVE  \E x : Performs(t, x, b)
<1>1. PICK x : x = todo[t][Place(t)]
  OBVIOUS
<1>2. x \in Code /\ x.op = op /\ x.arg = Arg(t)
  BY <1>1, PlainCode, AtFacts DEF ClientInv
<1> QED BY <1>1, <1>2 DEF Performs, IsOperation

\* The same where the operation's argument does not matter.
LEMMA PartPerformed ==
  ASSUME ClientInv, NEW t \in Thread, NEW op, op \notin {"lock", "unlock"}, At(t, op),
         NEW b, Continue(t, b), NEW T, NEW L, Part(b, T, L), "capi" \notin L,
         \A o \in T : MayCall(op, o) /\ o \notin {"unregister"} \cup Midway
  PROVE  \E x : Performs(t, x, b)
<1>1. \A x : x.op = op => Body(x, b)
  BY PartBody
<1> QED BY <1>1, Performed

LEMMA OnePerformed ==
  ASSUME ClientInv, NEW t \in Thread, NEW op, op \notin {"lock", "unlock"}, At(t, op),
         NEW o, NEW arg, Do(o, arg) \in Code, o \notin {"lock", "unlock"}, MayCall(op, o),
         o \notin {"unregister", "unsubscribe"},
         NEW b \in {<<>>, <<Do(o, arg)>>}, Continue(t, b)
  PROVE  \E x : Performs(t, x, b)
<1>1. PICK y : y = Do(o, arg)
  OBVIOUS
<1>2. y.op = o /\ y \in Code /\ IsOperation(y)
  BY <1>1, DoFacts DEF IsOperation
<1>3. \A l : y # Unregister(l) /\ y # LeaveForced(l)
  BY <1>2, InstructionFacts
<1>4. \A x : x.op = op => Body(x, b)
  BY <1>1, <1>2, <1>3, OneBody
<1> QED BY <1>4, Performed

LEMMA NonePerformed ==
  ASSUME ClientInv, NEW t \in Thread, NEW op, op \notin {"lock", "unlock"}, At(t, op),
         Continue(t, <<>>)
  PROVE  \E x : Performs(t, x, <<>>)
<1>1. Part(<<>>, {}, {})
  BY PartEmpty
<1> QED BY <1>1, PartPerformed

\* Instructions that are not forced.
LEMMA UnforcedFacts ==
  ASSUME NEW l, NEW f, f = FALSE, NEW k
  PROVE  Do("unregister", <<l, f>>) # Unregister(k) /\ Do("unsubscribe", <<l, f>>) # LeaveForced(k)
<1>1. PICK yes \in BOOLEAN : yes = TRUE
  OBVIOUS
<1>2. PICK x, y : x = <<l, f>> /\ y = <<k, yes>>
  OBVIOUS
<1>3. x[2] = f /\ y[2] = yes
  BY <1>2
<1>4. yes # f
  BY <1>1
<1>5. x # y
  BY <1>3, <1>4
<1>6. Unregister(k) = Do("unregister", y) /\ LeaveForced(k) = Do("unsubscribe", y)
  BY <1>1, <1>2, Zenon DEF Unregister, LeaveForced
<1> QED BY <1>2, <1>5, <1>6, DoFacts

LEMMA ListPerforms ==
  ASSUME ClientInv, NEW t \in Thread,
         \/ AddCallbackLocked(t) \/ RemoveCallbackLocked(t)
         \/ RegisterNotificationInternalLocked(t)
         \/ UnregisterNotificationInternalLocked(t)
         \/ RegisterThunderNotificationLocked(t)
         \/ UnregisterThunderNotificationLocked(t)
  PROVE  \E x, b : Performs(t, x, b)
<1>1. CASE AddCallbackLocked(t)
  <2>1. At(t, "add")
    BY <1>1 DEF AddCallbackLocked
  <2>2. PICK l \in List, c \in Callback : Arg(t) = <<l, c>>
    BY <2>1, AtArg, CodeFacts
  <2>3. PICK b : b = IF c \in cbs[l] THEN <<>> ELSE <<Do("register", l)>>
    OBVIOUS
  <2>4. Continue(t, b)
    BY <1>1, <2>2, <2>3 DEF AddCallbackLocked
  <2>5. Do("register", l) \in Code /\ MayCall("add", "register")
    BY DEF Code, ListCode, MayCall
  <2> QED BY <2>1, <2>3, <2>4, <2>5, OnePerformed
<1>2. CASE RemoveCallbackLocked(t)
  <2>1. At(t, "remove")
    BY <1>2 DEF RemoveCallbackLocked
  <2>2. PICK l \in List, c \in Callback : Arg(t) = <<l, c>>
    BY <2>1, AtArg, CodeFacts
  <2>3. PICK d \in BOOLEAN : d = FALSE
    OBVIOUS
  <2>4. PICK y, b : /\ y = Do("unregister", <<l, d>>)
                    /\ b = IF c \in cbs[l] THEN <<y>> ELSE <<>>
    OBVIOUS
  <2>5. Continue(t, b)
    <3>1. Arg(t)[1] = l /\ Arg(t)[2] = c
      BY <2>2
    <3> QED BY <1>2, <2>3, <2>4, <3>1 DEF RemoveCallbackLocked
  <2>6. y \in Code
    BY <2>4 DEF Code, UpdateCode
  <2>7. IsOperation(y) /\ y.op = "unregister" /\ MayCall("remove", "unregister")
    BY <2>4, DoFacts DEF IsOperation, MayCall
  <2>8. ASSUME NEW k
        PROVE  y # Unregister(k) /\ y # LeaveForced(k)
    <3>1. Do("unregister", <<l, d>>) # Unregister(k)
      BY <2>3, UnforcedFacts
    <3> QED BY <2>4, <2>7, <3>1, InstructionFacts
  <2>9. \A x : x.op = "remove" => Body(x, b)
    BY <2>4, <2>6, <2>7, <2>8, OneBody
  <2> QED BY <2>1, <2>5, <2>9, Performed
<1>3. CASE RegisterNotificationInternalLocked(t)
  <2>1. At(t, "register")
    BY <1>3 DEF RegisterNotificationInternalLocked
  <2>2. PICK l \in List : l = Arg(t)
    BY <2>1, AtArg, CodeFacts
  <2>3. PICK b : b = IF ~registered[l] /\ cbs[l] # {} /\ iface # 0
                     THEN <<Do("subscribe", <<l>>)>> ELSE <<>>
    OBVIOUS
  <2>4. Continue(t, b)
    BY <1>3, <2>2, <2>3 DEF RegisterNotificationInternalLocked
  <2>5. Do("subscribe", <<l>>) \in Code /\ MayCall("register", "subscribe")
    BY DEF Code, SubscribeCode, MayCall
  <2> QED BY <2>1, <2>3, <2>4, <2>5, OnePerformed
<1>4. CASE UnregisterNotificationInternalLocked(t)
  <2>1. At(t, "unregister")
    BY <1>4 DEF UnregisterNotificationInternalLocked
  <2>2. PICK a \in List \X BOOLEAN : a = Arg(t)
    BY <2>1, AtArg, CodeFacts
  <2>3. PICK y, b : /\ y = Do("unsubscribe", a)
                    /\ b = IF registered[a[1]] /\ iface # 0 /\ (a[2] \/ cbs[a[1]] = {})
                           THEN <<y>> ELSE <<>>
    OBVIOUS
  <2>4. Continue(t, b)
    BY <1>4, <2>2, <2>3 DEF UnregisterNotificationInternalLocked
  <2>5. y \in Code
    BY <2>3 DEF Code, UpdateCode
  <2>6. IsOperation(y) /\ y.op = "unsubscribe" /\ MayCall("unregister", "unsubscribe")
    BY <2>3, DoFacts DEF IsOperation, MayCall
  <2>7. ASSUME NEW x, x \in Code, x.op = "unregister", x.arg = a
        PROVE  Body(x, b)
    <3>1. \A l : y # Unregister(l)
      BY <2>6, InstructionFacts
    <3>2. ASSUME NEW l, y = LeaveForced(l)
          PROVE  x = Unregister(l)
      <4>1. y.arg = a /\ y.arg = LeaveForced(l).arg
        BY <2>3, <3>2, DoFacts
      <4>2. PICK yes \in BOOLEAN : yes = TRUE
        OBVIOUS
      <4>3. PICK z : z = <<l, yes>>
        OBVIOUS
      <4>4. LeaveForced(l) = Do("unsubscribe", z) /\ Unregister(l) = Do("unregister", z)
        BY <4>2, <4>3, Zenon DEF LeaveForced, Unregister
      <4>5. z = a
        BY <4>1, <4>4, DoFacts
      <4>6. x = Do(x.op, x.arg)
        BY <2>7, CodeShape
      <4> QED BY <2>7, <4>4, <4>5, <4>6
    <3> QED BY <2>3, <2>5, <2>6, <2>7, <3>1, <3>2, OneBody
  <2> QED BY <2>1, <2>2, <2>4, <2>7, Performed
<1>5. CASE RegisterThunderNotificationLocked(t)
  <2>1. At(t, "subscribe")
    BY <1>5 DEF RegisterThunderNotificationLocked
  <2>2. PICK l \in List : Arg(t) = <<l>>
    <3>1. PICK x \in Code : x.op = "subscribe" /\ x.arg = Arg(t)
      BY <2>1, AtArg
    <3>2. \E l \in List : x.arg = <<l>>
      BY <3>1, CodeFacts
    <3> QED BY <3>1, <3>2
  <2>3. PICK d \in BOOLEAN : d = (l = Ops \/ (Alive(iface) /\ l \notin world.subscribed))
    OBVIOUS
  <2>4. Arg(t)[1] = l
    BY <2>2
  <2>5. Continue(t, <<Do("latch", <<l, d>>)>>)
    BY <1>5, <2>3, <2>4 DEF RegisterThunderNotificationLocked
  <2>6. Do("latch", <<l, d>>) \in Code /\ MayCall("subscribe", "latch")
    BY LatchReady DEF Code, UpdateCode, MayCall
  <2> QED BY <2>1, <2>5, <2>6, OnePerformed
<1>6. CASE UnregisterThunderNotificationLocked(t)
  <2>1. At(t, "unsubscribe")
    BY <1>6 DEF UnregisterThunderNotificationLocked
  <2>2. PICK l \in List : l = Arg(t)[1]
    BY <2>1, AtArg, CodeFacts
  <2>3. PICK d \in BOOLEAN :
          d = AfterUnregister(Arg(t)[2],
                              l = Ops \/ (Alive(iface) /\ l \in world.subscribed))
    BY DEF AfterUnregister
  <2>5. Continue(t, <<Do("latch", <<l, d>>)>>)
    BY <1>6, <2>2, <2>3 DEF UnregisterThunderNotificationLocked
  <2>6. Do("latch", <<l, d>>) \in Code /\ MayCall("unsubscribe", "latch")
    BY DEF Code, UpdateCode, MayCall
  <2> QED BY <2>1, <2>5, <2>6, OnePerformed
<1> QED BY <1>1, <1>2, <1>3, <1>4, <1>5, <1>6

LEMMA InterfacePerforms ==
  ASSUME ClientInv, NEW t \in Thread,
         Attach(t) \/ Detach(t) \/ Tell(t) \/ Disconnect(t) \/ New(t) \/ Instance(t)
  PROVE  \E x, b : Performs(t, x, b)
<1>1. CASE Attach(t)
  <2>1. PICK b : b = IF iface' # iface THEN SubscribeAllNotificationsLocked ELSE <<>>
    OBVIOUS
  <2>2. At(t, "attach") /\ Continue(t, b)
    BY <1>1, <2>1 DEF Attach
  <2>3. Part(b, {"register"}, {})
    BY <2>1, RegistersAll, PartEmpty
  <2>4. MayCall("attach", "register") /\ "register" \notin {"unregister"} \cup Midway
    BY DEF MayCall, Midway
  <2> QED BY <2>2, <2>3, <2>4, PartPerformed
<1>2. CASE Detach(t)
  <2>1. PICK b : b = IF iface # 0
                     THEN Append(UnsubscribeAllNotificationsLocked, Do("drop", 0))
                     ELSE <<>>
    OBVIOUS
  <2>2. At(t, "detach") /\ Continue(t, b)
    BY <1>2, <2>1 DEF Detach
  <2>3. CASE iface = 0
    BY <2>1, <2>2, <2>3, NonePerformed
  <2>4. CASE iface # 0
    <3>1. \A x : x.op = "detach" => Body(x, b)
      BY <2>1, <2>4, DetachBody
    <3> QED BY <2>2, <3>1, Performed
  <2> QED BY <2>3, <2>4
<1>3. CASE Tell(t)
  <2>1. PICK b : b = IF shutdown THEN <<>> ELSE With("callback", <<Do("notify", Ops)>>)
    OBVIOUS
  <2>2. At(t, "tell") /\ Continue(t, b)
    BY <1>3, <2>1 DEF Tell
  <2>3. Part(b, {"notify"}, {} \cup {"callback"})
    <3>1. Do("notify", Ops) \in Code
      BY CallsAssumption DEF Code, ListCode
    <3>2. Part(With("callback", <<Do("notify", Ops)>>), {"notify"}, {} \cup {"callback"})
      BY <3>1, PartOne, PartWith DEF Lock
    <3> QED BY <2>1, <3>2, PartEmpty
  <2>4. /\ MayCall("tell", "notify") /\ "notify" \notin {"unregister"} \cup Midway
        /\ "capi" \notin {} \cup {"callback"}
    BY DEF MayCall, Midway
  <2> QED BY <2>2, <2>3, <2>4, PartPerformed
<1>4. CASE Disconnect(t)
  <2>1. PICK f \in BOOLEAN : f = FALSE
    OBVIOUS
  <2>2. PICK u : u = IF world.reported # 0 THEN OperationalBody(f) ELSE <<>>
    OBVIOUS
  <2>3. PICK b : b = IF ~connected THEN <<>> ELSE u \o <<Do("closed", 0)>>
    OBVIOUS
  <2>4. At(t, "close") /\ Continue(t, b)
    BY <1>4, <2>1, <2>2, <2>3 DEF Disconnect
  <2>5. PICK T : T = {"detach", "tell", "closed"}
    OBVIOUS
  <2>6. Part(u, T, {"internal"})
    <3>1. Part(OperationalBody(f), {"detach", "tell"}, {"internal"})
      BY <2>1, OperationalPart
    <3> QED BY <2>2, <2>5, <3>1, PartEmpty, PartMore
  <2>7. Part(<<Do("closed", 0)>>, {"closed"}, {"internal"})
    BY BareInCode, PartOne DEF Bare
  <2>8. Quiescent(<<Do("closed", 0)>>)
    BY <2>7, PartQuiescent DEF Closing
  <2>9. Part(<<Do("closed", 0)>>, T, {"internal"})
    BY <2>5, <2>7, PartMore
  <2>10. Part(u \o <<Do("closed", 0)>>, T, {"internal"})
    BY <2>6, <2>8, <2>9, PartJoin
  <2>11. Part(b, T, {"internal"})
    BY <2>3, <2>10, PartEmpty
  <2>12. \A o \in T : MayCall("close", o) /\ o \notin {"unregister"} \cup Midway
    BY <2>5 DEF MayCall, Midway
  <2> QED BY <2>4, <2>11, <2>12, PartPerformed
<1>5. CASE New(t)
  <2>1. PICK b : b = IF instance THEN <<>> ELSE ConnectBody
    OBVIOUS
  <2>2. At(t, "new") /\ Continue(t, b)
    BY <1>5, <2>1 DEF New
  <2>3. Part(b, {"open"}, {"internal"})
    BY <2>1, ConnectPart, PartEmpty
  <2>4. MayCall("new", "open") /\ "open" \notin {"unregister"} \cup Midway
    BY DEF MayCall, Midway
  <2> QED BY <2>2, <2>3, <2>4, PartPerformed
<1>6. CASE Instance(t)
  <2>1. PICK b : b = IF instance THEN <<>> ELSE InitBody
    OBVIOUS
  <2>2. At(t, "instance") /\ Continue(t, b)
    BY <1>6, <2>1 DEF Instance
  <2>3. Part(b, {"new"}, {"internal"})
    BY <2>1, ConnectPart, PartEmpty
  <2>4. MayCall("instance", "new") /\ "new" \notin {"unregister"} \cup Midway
    BY DEF MayCall, Midway
  <2> QED BY <2>2, <2>3, <2>4, PartPerformed
<1> QED BY <1>1, <1>2, <1>3, <1>4, <1>5, <1>6

LEMMA FunctionPerforms ==
  ASSUME ClientInv, NEW t \in Thread,
         \/ Destroy(t) \/ IfInitialized(t) \/ Notify(t) \/ Proxy(t) \/ UserCallback(t)
         \/ Stop(t)
  PROVE  \E x, b : Performs(t, x, b)
<1>1. CASE Destroy(t)
  <2>1. PICK f \in BOOLEAN : f = TRUE
    OBVIOUS
  <2>2. PICK x, y : x = DisconnectBody(f) /\ y = x \o <<Do("delete", 0)>>
    OBVIOUS
  <2>3. PICK T : T = {"stop", "close", "delete"}
    OBVIOUS
  <2>4. Part(x, {"stop", "close"}, {"internal"})
    BY <2>2, DisconnectPart
  <2>5. Part(<<Do("delete", 0)>>, {"delete"}, {"internal"})
    BY BareInCode, PartOne DEF Bare
  <2>6. Quiescent(<<Do("delete", 0)>>)
    BY <2>5, PartQuiescent DEF Closing
  <2>7. Part(x, T, {"internal"}) /\ Part(<<Do("delete", 0)>>, T, {"internal"})
    BY <2>3, <2>4, <2>5, PartMore
  <2>8. Part(y, T, {"internal"})
    BY <2>2, <2>6, <2>7, PartJoin
  <2>9. x \in Seq(Code)
    BY <2>4 DEF Part
  <2>10. Append(x, Do("delete", 0)) = y
    BY <2>2, <2>9
  <2>11. PICK b : b = IF instance THEN y ELSE <<>>
    OBVIOUS
  <2>12. At(t, "destroy") /\ Continue(t, b)
    BY <1>1, <2>1, <2>2, <2>10, <2>11 DEF Destroy
  <2>13. Part(b, T, {"internal"})
    BY <2>8, <2>11, PartEmpty
  <2>14. \A o \in T : MayCall("destroy", o) /\ o \notin {"unregister"} \cup Midway
    BY <2>3 DEF MayCall, Midway
  <2> QED BY <2>12, <2>13, <2>14, PartPerformed
<1>2. CASE IfInitialized(t)
  <2>1. At(t, "guarded")
    BY <1>2 DEF IfInitialized
  <2>2. PICK g \in Guarded : g = Arg(t)
    BY <2>1, AtArg, CodeFacts
  <2>3. PICK b : b = IF initialized THEN <<Do("instance", 0)>> \o g ELSE <<>>
    OBVIOUS
  <2>4. Continue(t, b)
    BY <1>2, <2>2, <2>3 DEF IfInitialized
  <2>5. PICK T, L : /\ T = {"stop", "close", "remove"} \cup {"instance"}
                    /\ L = {"internal", "callback"}
    OBVIOUS
  <2>6. Part(<<Do("instance", 0)>> \o g, T, L)
    BY <2>5, GuardedPart, InstancePart
  <2>7. Part(b, T, L)
    BY <2>3, <2>6, PartEmpty
  <2>8. "capi" \notin L /\ \A o \in T : MayCall("guarded", o) /\ o \notin {"unregister"} \cup Midway
    BY <2>5 DEF MayCall, Midway
  <2> QED BY <2>1, <2>4, <2>7, <2>8, PartPerformed
<1>3. CASE Notify(t)
  <2>1. At(t, "notify")
    BY <1>3 DEF Notify
  <2>2. PICK l \in List : l = Arg(t)
    BY <2>1, AtArg, CodeFacts
  <2>3. PICK S : S = cbs[l]
    OBVIOUS
  <2>4. S \subseteq Callback /\ IsFiniteSet(S)
    BY <2>3 DEF ClientInv, Values, TypeOK, FiniteLists
  <2>5. PICK n, q : n = Cardinality(S) /\ q = SetToSeq(S)
    OBVIOUS
  <2>6. n \in Nat /\ q \in [1 .. n -> S]
    BY <2>4, <2>5, Enumerated
  <2>7. PICK b : b = [i \in 1 .. n |-> Do("call", <<l, q[i]>>)]
    OBVIOUS
  <2>8. Continue(t, b)
    BY <1>3, <2>2, <2>3, <2>5, <2>7 DEF Notify
  <2>9. ASSUME NEW c \in Callback
        PROVE  Do("call", <<l, c>>) \in Code
    BY DEF Code, CallbackCode
  <2>10. b \in Seq(Code) /\ DOMAIN b = 1 .. n
    BY <2>4, <2>6, <2>7, <2>9
  <2>11. \A i \in DOMAIN b : b[i].op = "call"
    BY <2>7, <2>10, DoFacts
  <2>12. Part(b, {"call"}, {})
    BY <2>10, <2>11 DEF Part, ClosesOnce, Closing
  <2>13. MayCall("notify", "call") /\ "call" \notin {"unregister"} \cup Midway
    BY DEF MayCall, Midway
  <2> QED BY <2>1, <2>8, <2>12, <2>13, PartPerformed
<1>4. CASE Proxy(t)
  <2>1. At(t, "proxy")
    BY <1>4 DEF Proxy
  <2>2. PICK call \in AllCalls : call = Arg(t)
    BY <2>1, AtArg, CodeFacts
  <2>3. PICK a : a = <<call, iface>>
    OBVIOUS
  <2>4. iface \in Nat
    BY CallsAssumption DEF ClientInv, Values, TypeOK
  <2>5. Do("invoke", a) \in Code /\ MayCall("proxy", "invoke")
    BY <2>3, <2>4 DEF Code, ValueCode, MayCall
  <2>6. PICK b : b = IF iface = 0 THEN <<>> ELSE <<Do("invoke", a)>>
    OBVIOUS
  <2>7. Continue(t, b)
    BY <1>4, <2>2, <2>3, <2>6 DEF Proxy
  <2> QED BY <2>1, <2>5, <2>6, <2>7, OnePerformed
<1>5. CASE UserCallback(t)
  <2>1. At(t, "call")
    BY <1>5 DEF UserCallback
  <2>2. PICK b \in {<<>>} \cup {Request(call) : call \in CallbackCalls} : Continue(t, b)
    BY <1>5 DEF UserCallback
  <2>3. CASE b = <<>>
    BY <2>1, <2>2, <2>3, NonePerformed
  <2>4. ASSUME NEW call \in CallbackCalls, b = Request(call)
        PROVE  \E x : Performs(t, x, b)
    <3>1. \A x : x.op = "call" => Body(x, b)
      BY <2>4, CallsAssumption, RequestBody
    <3> QED BY <2>1, <2>2, <3>1, Performed
  <2> QED BY <2>2, <2>3, <2>4
<1>6. CASE Stop(t)
  <2>1. PICK b : b = IF monitor = "none" THEN <<>> ELSE <<Do("join", 0)>>
    OBVIOUS
  <2>2. At(t, "stop") /\ Continue(t, b)
    BY <1>6, <2>1 DEF Stop
  <2>3. Do("join", 0) \in Code /\ MayCall("stop", "join")
    BY BareInCode DEF Bare, MayCall
  <2> QED BY <2>1, <2>2, <2>3, OnePerformed
<1> QED BY <1>1, <1>2, <1>3, <1>4, <1>5, <1>6

\* Every step takes a lock or performs an operation.
LEMMA StepPerforms ==
  ASSUME ClientInv, NEW t \in Thread, Step(t)
  PROVE  Acquire(t) \/ \E x, b : Performs(t, x, b)
<1>1. CASE TakeOuterLock(t)
  BY <1>1 DEF TakeOuterLock
<1>2. CASE \/ Latch(t) \/ Drop(t) \/ Connect(t) \/ Closed(t) \/ Join(t) \/ PidStored(t)
           \/ Delete(t) \/ MarkInitialized(t) \/ Return(t)
  <2>1. \E op \in {"latch", "drop", "open", "closed", "join", "pid", "delete", "mark",
                   "invoke"} : At(t, op) /\ Continue(t, <<>>)
    BY <1>2 DEF Latch, Drop, Connect, Closed, Join, PidStored, Delete, MarkInitialized,
       Return
  <2> QED BY <2>1, NonePerformed
<1> QED BY <1>1, <1>2, ListPerforms, InterfacePerforms, FunctionPerforms DEF Step

\* What a thread has to do after its operation, or after it has taken a lock.
LEMMA PerformsGoes ==
  ASSUME ClientInv, NEW t \in Thread, NEW x, NEW b, Performs(t, x, b)
  PROVE  /\ Goes(todo'[t], b, todo[t], Place(t)) /\ Place(t) \in DOMAIN todo[t]
         /\ todo[t] \in Seq(Code)
         /\ \A u \in Thread \ {t} : todo'[u] = todo[u]
         /\ x.op \in {"attach", "detach"} => HeldAfter(todo[t], Place(t), "internal")
<1>1. Disciplined(Code, ClientLocks) /\ b \in Seq(Code)
  BY DEF ClientInv, Performs, Body
<1>2. /\ Became(t, b, Rest(t)) /\ Traced(todo'[t], b, todo[t], Place(t))
  BY <1>1, PlainCode, ContinueChanges, ContinueTraces DEF Performs, IsOperation
<1>3. /\ todo[t] \in Seq(Code) /\ Place(t) \in DOMAIN todo[t]
  BY <1>1, PlainCode, AtFacts DEF Performs, IsOperation
<1>4. ASSUME NEW y, IsOperation(y), Includes(b, y) \/ (Includes(todo[t], y) /\ y # x)
      PROVE  Includes(todo'[t], y)
  <2>1. CASE Includes(b, y)
    BY <1>2, <1>4, <2>1 DEF Became
  <2>2. CASE Includes(todo[t], y) /\ y # x
    <3>1. Includes(Rest(t), y)
      BY <1>1, <1>4, <2>2, PlainCode, OthersInRest DEF Performs, IsOperation
    <3> QED BY <1>2, <1>4, <3>1 DEF Became
  <2> QED BY <1>4, <2>1, <2>2
<1>5. Goes(todo'[t], b, todo[t], Place(t))
  BY <1>2, <1>4 DEF Goes, Performs
<1>6. x.op \in {"attach", "detach"} => HeldAfter(todo[t], Place(t), "internal")
  <2>1. Sound(todo[t], Code, ClientLocks)
    BY <1>1 DEF Disciplined
  <2>2. \A op \in {"attach", "detach"} : <<op, "internal">> \in ClientLocks.under
    BY DEF ClientLocks
  <2> QED BY <1>3, <2>1, <2>2 DEF Sound, Performs
<1> QED BY <1>2, <1>3, <1>5, <1>6 DEF Became

LEMMA AcquireGoes ==
  ASSUME ClientInv, NEW t \in Thread, Acquire(t)
  PROVE  /\ Goes(todo'[t], <<>>, todo[t], 1) /\ 1 \in DOMAIN todo[t]
         /\ todo[t] \in Seq(Code) /\ todo[t][1].op = "lock"
         /\ \A u \in Thread \ {t} : todo'[u] = todo[u]
         /\ \A x : IsOperation(x) => (Includes(todo'[t], x) <=> Includes(todo[t], x))
<1>1. Disciplined(Code, ClientLocks)
  BY DEF ClientInv
<1>2. Became(t, <<>>, todo[t]) /\ Traced(todo'[t], <<>>, todo[t], 1)
  BY <1>1, AcquireChanges, AcquireTraces
<1>3. \A x : ~Includes(<<>>, x)
  BY DEF Includes
<1>4. Goes(todo'[t], <<>>, todo[t], 1)
  BY <1>2, <1>3 DEF Goes, Became
<1>5. todo[t] \in Seq(Code) /\ todo[t] # <<>> /\ todo[t][1].op = "lock"
  BY <1>1 DEF Acquire, Locking, Idle, Disciplined
<1>6. 1 \in DOMAIN todo[t]
  BY <1>5, LenProperties, EmptySeq
<1> QED BY <1>2, <1>3, <1>4, <1>5, <1>6 DEF Became

LEMMA StepStacks ==
  ASSUME ClientInv, ClientInv', StackInv, NEW t \in Thread,
         Acquire(t) \/ \E x, b : Performs(t, x, b)
  PROVE  StackInv'
<1>1. todo' \in [Thread -> Seq(Code)]
  BY DEF ClientInv, Disciplined
<1>2. CASE Acquire(t)
  <2>1. Body(todo[t][1], <<>>)
    <3>1. ~ \E y : Includes(<<>>, y)
      BY DEF Includes
    <3> QED BY <3>1 DEF Body, Foremost, ClosesOnce
  <2>2. Stack(todo'[t])
    BY <1>1, <1>2, <2>1, AcquireGoes, StackKept DEF StackInv
  <2> QED BY <1>2, <2>2, AcquireGoes DEF StackInv
<1>3. ASSUME NEW x, NEW b, Performs(t, x, b)
      PROVE  StackInv'
  <2>1. Stack(todo'[t])
    BY <1>1, <1>3, PerformsGoes, StackKept DEF StackInv, Performs
  <2> QED BY <1>3, <2>1, PerformsGoes DEF StackInv
<1> QED BY <1>2, <1>3

----------------------------------------------------------------------------
(* What threads start with.                                                *)

\* Code that updates no list and calls no callback yet, and gets the instance
\* before it adds one.
Fresh(b) ==
  /\ b \in Seq(Code) /\ Stack(b)
  /\ \A i \in DOMAIN b :
       /\ b[i].op \notin Updating \cup {"drop", "call"}
       /\ b[i].op = "add" => \E k \in DOMAIN b : b[k].op = "instance"

\* What relies on no lock, and what C functions add.
LEMMA PartStack ==
  ASSUME NEW b, NEW T, NEW L, Part(b, T, L),
         T \cap ({"remove", "delete", "drop", "call", "lock", "unlock"} \cup Updating) = {},
         T \cap Closing = {} \/ T \cap Opening = {},
         "guarded" \in T => T \cap Telling = {},
         \A i \in DOMAIN b :
           /\ b[i].op \in {"add", "guarded", "destroy"} => HeldAfter(b, i, "capi")
           /\ b[i].op = "destroy" => HeldAfter(b, i, "internal"),
         "add" \in T => InstanceFirst(b) /\ \E k \in DOMAIN b : b[k].op = "instance"
  PROVE  Fresh(b)
<1>1. ASSUME NEW i \in DOMAIN b
      PROVE  b[i].op \in T \cup {"lock", "unlock"}
  BY DoFacts DEF Part
<1>2. \A i \in DOMAIN b : b[i].op \notin {"remove", "delete", "drop", "call"} \cup Updating
  BY <1>1 DEF Updating, Midway
<1>3. Covered(b)
  BY <1>2 DEF Covered
<1>4. Foremost(b)
  BY <1>2 DEF Foremost, Updating
<1>5. OpensOrCloses(b)
  BY <1>1, <1>2 DEF OpensOrCloses, Closing, Opening
<1>6. \A l : \A i \in DOMAIN b : b[i] # Unregister(l) /\ b[i] # LeaveForced(l)
  BY <1>2, InstructionFacts DEF Updating, Midway
<1>7. ReleasesLast(b)
  BY <1>6 DEF ReleasesLast, Includes
<1>8. InstanceFirst(b)
  <2>1. CASE "add" \notin T
    BY <1>1, <2>1 DEF InstanceFirst
  <2> QED BY <2>1
<1>u. Untold(b)
  BY <1>1, <1>2 DEF Untold, Removing, Telling
<1>9. Stack(b) /\ b \in Seq(Code)
  BY <1>3, <1>4, <1>5, <1>u, <1>7, <1>8 DEF Stack, Part
<1>10. \A i \in DOMAIN b : b[i].op = "add" => \E k \in DOMAIN b : b[k].op = "instance"
  BY <1>1
<1> QED BY <1>2, <1>9, <1>10 DEF Fresh

\* Nothing that relies on a lock.
LEMMA FreeStack ==
  ASSUME NEW b, NEW T, NEW L, Part(b, T, L),
         T \cap ({"add", "guarded", "destroy", "remove", "delete", "drop", "call", "lock",
                   "unlock"} \cup Updating) = {},
         T \cap Closing = {} \/ T \cap Opening = {}
  PROVE  Fresh(b)
<1>1. ASSUME NEW i \in DOMAIN b
      PROVE  b[i].op \in T \cup {"lock", "unlock"}
  BY DoFacts DEF Part
<1> QED BY <1>1, PartStack

\* A C function: its operations run with the lock of the functions.
LEMMA FunctionParts ==
  ASSUME NEW T, NEW L, NEW b, Part(b, T, L), "capi" \notin L, "lock" \notin T
  PROVE  /\ Part(CApi(b), T, L \cup {"capi"})
         /\ \A i \in DOMAIN CApi(b) :
              CApi(b)[i].op \in T => HeldAfter(CApi(b), i, "capi") \/ CApi(b)[i].op = "unlock"
<1>1. PICK n : n = CApi(b)
  OBVIOUS
<1>2. b \in Seq(Code) /\ {Do("lock", "capi"), Do("unlock", "capi")} \subseteq Code
  BY LocksInCode DEF Part, Lock
<1>3. n = With("capi", b)
  BY <1>1 DEF CApi
<1>4. /\ n \in Seq(Code) /\ DOMAIN b = 1 .. Len(b) /\ Len(b) \in Nat
      /\ DOMAIN n = 1 .. Len(b) + 2
      /\ n[1] = Do("lock", "capi") /\ n[Len(b) + 2] = Do("unlock", "capi")
      /\ \A i \in DOMAIN b : i + 1 \in DOMAIN n /\ n[i + 1] = b[i]
      /\ \A i \in DOMAIN n : \/ i = 1 \/ i = Len(b) + 2
                            \/ \E h \in DOMAIN b : i = h + 1
  BY <1>2, <1>3, WithParts
<1>5. ASSUME NEW h \in DOMAIN b
      PROVE  b[h] # Do("lock", "capi")
  <2>1. CASE b[h].op \in T \cup {"unlock"}
    BY <2>1, DoFacts
  <2>2. CASE \E l \in L : b[h] = Do("lock", l)
    <3>1. PICK l \in L : b[h] = Do("lock", l)
      BY <2>2
    <3>2. b[h].arg = l
      BY <3>1, DoFacts
    <3> QED BY <3>2, DoFacts
  <2> QED BY <2>1, <2>2 DEF Part
<1>6. ASSUME NEW i \in DOMAIN n, n[i].op \in T
      PROVE  HeldAfter(n, i, "capi") \/ n[i].op = "unlock"
  <2>1. CASE i = Len(b) + 2
    BY <1>4, <2>1, DoFacts
  <2>2. CASE i # Len(b) + 2
    <3>1. PICK m : m = Len(b) + 2
      OBVIOUS
    <3>2. m \in DOMAIN n /\ m > i /\ n[m] = Do("unlock", "capi") /\ i \in Nat /\ i >= 1
      BY <1>4, <2>2, <3>1
    <3>3. ASSUME NEW k \in i + 1 .. m - 1
          PROVE  n[k] # Do("lock", "capi")
      <4>1. k \in DOMAIN n /\ k # 1 /\ k # m
        BY <1>4, <3>1, <3>2
      <4>2. PICK h \in DOMAIN b : k = h + 1
        BY <1>4, <3>1, <4>1
      <4> QED BY <1>4, <1>5, <4>2
    <3> QED BY <3>2, <3>3 DEF HeldAfter
  <2> QED BY <2>1, <2>2
<1>7. Part(n, T, L \cup {"capi"})
  BY <1>3, PartWith DEF Lock
<1> QED BY <1>1, <1>6, <1>7

\* A C function that neither adds a callback nor destroys the instance.
LEMMA FunctionStack ==
  ASSUME NEW T, NEW L, NEW b, Part(b, T, L), "capi" \notin L,
         T \cap ({"add", "destroy", "remove", "delete", "drop", "call", "lock", "unlock"}
                   \cup Updating) = {},
         T \cap Closing = {} \/ T \cap Opening = {},
         "guarded" \in T => T \cap Telling = {}
  PROVE  Fresh(CApi(b))
<1>1. PICK n : n = CApi(b)
  OBVIOUS
<1>2. /\ Part(n, T, L \cup {"capi"})
      /\ \A i \in DOMAIN n : n[i].op \in T => HeldAfter(n, i, "capi") \/ n[i].op = "unlock"
  BY <1>1, FunctionParts
<1>3. ASSUME NEW i \in DOMAIN n
      PROVE  n[i].op \in T \cup {"lock", "unlock"}
  BY <1>2, DoFacts DEF Part
<1>4. ASSUME NEW i \in DOMAIN n
      PROVE  /\ n[i].op \in {"add", "guarded", "destroy"} => HeldAfter(n, i, "capi")
             /\ n[i].op = "destroy" => HeldAfter(n, i, "internal")
  BY <1>2, <1>3
<1>5. /\ "add" \notin T
      /\ T \cap ({"remove", "delete", "drop", "call", "lock", "unlock"} \cup Updating) = {}
  OBVIOUS
<1>6. Fresh(n)
  BY <1>2, <1>4, <1>5, PartStack
<1> QED BY <1>1, <1>6

\* Code in front of one more instruction.
LEMMA PartAfter ==
  ASSUME NEW T, NEW L, NEW b, Part(b, T, L), NEW op, NEW arg, Do(op, arg) \in Code,
         op \notin Closing
  PROVE  Part(b \o <<Do(op, arg)>>, T \cup {op}, L)
<1>1. Part(<<Do(op, arg)>>, {op}, L)
  BY PartOne
<1>2. Quiescent(<<Do(op, arg)>>)
  BY <1>1, PartQuiescent
<1>3. Part(<<Do(op, arg)>>, T \cup {op}, L) /\ Part(b, T \cup {op}, L)
  BY <1>1, PartMore
<1> QED BY <1>2, <1>3, PartJoin

LEMMA ShortFunctionStacks ==
  /\ Fresh(PowerController_Init) /\ Fresh(PowerController_Connect)
  /\ \A g \in Guarded : Fresh(CApi(<<Do("guarded", g)>>))
  /\ \A call \in AllCalls : Fresh(Request(call))
<1>1. Fresh(PowerController_Init)
  <2>1. PICK v \in BOOLEAN : v = TRUE
    OBVIOUS
  <2>2. Do("mark", v) \in Code
    BY DEF Code, ValueCode
  <2>3. Part(InitBody \o <<Do("mark", v)>>, {"new"} \cup {"mark"}, {"internal"})
    BY <2>2, ConnectPart, PartAfter DEF Closing
  <2>4. Fresh(CApi(InitBody \o <<Do("mark", v)>>))
    BY <2>3, FunctionStack DEF Closing, Opening, Telling, Updating, Midway
  <2> QED BY <2>1, <2>4 DEF PowerController_Init
<1>2. Fresh(PowerController_Connect)
  <2>1. Part(<<Do("instance", 0)>> \o ConnectBody, {"open"} \cup {"instance"}, {"internal"})
    BY ConnectPart, InstancePart
  <2>2. Fresh(CApi(<<Do("instance", 0)>> \o ConnectBody))
    BY <2>1, FunctionStack DEF Closing, Opening, Telling, Updating, Midway
  <2> QED BY <2>2 DEF PowerController_Connect
<1>3. ASSUME NEW g \in Guarded
      PROVE  Fresh(CApi(<<Do("guarded", g)>>))
  <2>1. Do("guarded", g) \in Code
    BY DEF Code, ValueCode
  <2>2. Part(<<Do("guarded", g)>>, {"guarded"}, {})
    BY <2>1, PartOne
  <2> QED BY <2>2, FunctionStack DEF Closing, Opening, Telling, Updating, Midway
<1>4. ASSUME NEW call \in AllCalls
      PROVE  Fresh(Request(call))
  <2>1. Part(Request(call), {"instance", "proxy"}, {"internal", "capi"})
    BY RequestParts
  <2> QED BY <2>1, FreeStack DEF Closing, Opening, Updating, Midway
<1> QED BY <1>1, <1>2, <1>3, <1>4

\* The positions of a locked sequence in front of another one.
LEMMA TermStack == Fresh(PowerController_Term)
<1>1. PICK v \in BOOLEAN : v = FALSE
  OBVIOUS
<1>2. Do("mark", v) \in Code /\ Do("destroy", 0) \in Code
  BY BareInCode DEF Bare, Code, ValueCode
<1>3. PICK a, w, m : /\ a = <<Do("destroy", 0)>> /\ w = With("internal", a)
                     /\ m = <<Do("mark", v)>>
  OBVIOUS
<1>4. /\ a \in Seq(Code) /\ Len(a) = 1 /\ a[1] = Do("destroy", 0)
      /\ m \in Seq(Code) /\ Len(m) = 1 /\ m[1] = Do("mark", v)
  BY <1>2, <1>3
<1>5. {Do("lock", "internal"), Do("unlock", "internal")} \subseteq Code
  BY LocksInCode DEF Lock
<1>6. /\ w \in Seq(Code) /\ DOMAIN a = 1 .. Len(a)
      /\ DOMAIN w = 1 .. Len(a) + 2
      /\ w[1] = Do("lock", "internal") /\ w[Len(a) + 2] = Do("unlock", "internal")
      /\ \A i \in DOMAIN a : i + 1 \in DOMAIN w /\ w[i + 1] = a[i]
  <2>1. w = With("internal", a) /\ a \in Seq(Code)
    BY <1>3, <1>4
  <2> QED BY <1>5, <2>1, WithParts
<1>7. /\ DOMAIN w = 1 .. 3 /\ Len(w) = 3
      /\ w[1] = Do("lock", "internal") /\ w[2] = Do("destroy", 0)
      /\ w[3] = Do("unlock", "internal")
  <2>1. DOMAIN w = 1 .. 3 /\ w[3] = Do("unlock", "internal") /\ 1 \in DOMAIN a
    BY <1>4, <1>6
  <2>2. w[1 + 1] = a[1]
    BY <1>6, <2>1
  <2>3. Len(w) = 3
    <3>1. w \in Seq(Code)
      BY <1>6
    <3>2. DOMAIN w = 1 .. Len(w) /\ Len(w) \in Nat
      BY <3>1, LenProperties
    <3> QED BY <2>1, <3>2
  <2> QED BY <1>4, <1>6, <2>1, <2>2, <2>3
<1>8. PICK b : b = w \o m
  OBVIOUS
<1>9. Joined(b, w, m) /\ b \in Seq(Code) /\ Len(b) = 4
  <2>1. w \in Seq(Code) /\ m \in Seq(Code)
    BY <1>4, <1>6
  <2>2. Joined(b, w, m)
    BY <1>8, <2>1, JoinedFacts
  <2>3. w \o m \in Seq(Code) /\ Len(w \o m) = Len(w) + Len(m)
    BY <2>1, ConcatProperties
  <2> QED BY <1>4, <1>7, <1>8, <2>2, <2>3
<1>10. PICK n : n = CApi(b)
  OBVIOUS
<1>11. /\ DOMAIN b = 1 .. 4
       /\ \A i \in 1 .. 3 : b[i] = w[i]
  BY <1>4, <1>7, <1>9 DEF Joined
<1>12. {Do("lock", "capi"), Do("unlock", "capi")} \subseteq Code
  BY LocksInCode DEF Lock
<1>13. /\ n \in Seq(Code) /\ DOMAIN n = 1 .. 6 /\ n[1] = Do("lock", "capi")
       /\ n[6] = Do("unlock", "capi")
       /\ \A i \in 1 .. 4 : n[i + 1] = b[i]
  <2>1. /\ n \in Seq(Code) /\ DOMAIN n = 1 .. Len(b) + 2 /\ n[1] = Do("lock", "capi")
        /\ n[Len(b) + 2] = Do("unlock", "capi")
        /\ \A i \in DOMAIN b : i + 1 \in DOMAIN n /\ n[i + 1] = b[i]
    <3>1. b \in Seq(Code) /\ n = With("capi", b)
      BY <1>9, <1>10 DEF CApi
    <3> QED BY <1>12, <3>1, WithParts
  <2> QED BY <1>9, <1>11, <2>1
<1>14. /\ n[2] = Do("lock", "internal") /\ n[3] = Do("destroy", 0)
       /\ n[4] = Do("unlock", "internal")
  <2>1. n[1 + 1] = w[1] /\ n[2 + 1] = w[2] /\ n[3 + 1] = w[3]
    BY <1>11, <1>13
  <2> QED BY <1>7, <2>1
<1>15. Part(b, {"destroy"} \cup {"mark"}, {"internal"})
  <2>1. Part(w, {"destroy"}, {"internal"})
    BY <1>3, ConnectPart DEF TermBody
  <2> QED BY <1>2, <1>3, <1>8, <2>1, PartAfter DEF Closing
<1>16. PICK T : T = {"destroy", "mark"}
  OBVIOUS
<1>17. /\ Part(n, T, {"internal"} \cup {"capi"})
       /\ \A i \in DOMAIN n : n[i].op \in T => HeldAfter(n, i, "capi") \/ n[i].op = "unlock"
  <2>1. Part(b, T, {"internal"})
    BY <1>15, <1>16, PartMore
  <2> QED BY <1>10, <1>16, <2>1, FunctionParts
<1>18. ASSUME NEW i \in DOMAIN n, n[i].op \in {"add", "guarded", "destroy"}
       PROVE  i = 3 /\ n[i].op = "destroy"
  <2>1. n[i].op = "destroy"
    BY <1>16, <1>17, <1>18, DoFacts DEF Part
  <2>2. n[3].op = "destroy" /\ 3 \in DOMAIN n
    BY <1>13, <1>14, DoFacts
  <2> QED BY <1>17, <2>1, <2>2 DEF Part, ClosesOnce, Closing
<1>19. HeldAfter(n, 3, "internal")
  <2>1. 4 \in DOMAIN n /\ 4 > 3 /\ ~ \E k : k \in 3 + 1 .. 4 - 1
    BY <1>13
  <2> QED BY <1>14, <2>1 DEF HeldAfter
<1>20. \A i \in DOMAIN n :
         /\ n[i].op \in {"add", "guarded", "destroy"} => HeldAfter(n, i, "capi")
         /\ n[i].op = "destroy" => HeldAfter(n, i, "internal")
  BY <1>16, <1>17, <1>18, <1>19
<1>21. Fresh(n)
  BY <1>16, <1>17, <1>20, PartStack DEF Closing, Opening, Telling, Updating,
     Midway
<1>22. PowerController_Term = n
  BY <1>1, <1>3, <1>8, <1>10 DEF PowerController_Term, TermBody
<1> QED BY <1>21, <1>22

LEMMA RegisterStack ==
  ASSUME NEW l \in List, NEW c \in Callback
  PROVE  Fresh(RegisterApi(l, c))
<1>1. Do("add", <<l, c>>) \in Code /\ Do("instance", 0) \in Code
  BY BareInCode DEF Bare, Code, CallbackCode
<1>2. PICK x : x = Do("add", <<l, c>>)
  OBVIOUS
<1>3. PICK a, w, m : a = <<x>> /\ w = With("callback", a) /\ m = <<Do("instance", 0)>>
  OBVIOUS
<1>4. /\ a \in Seq(Code) /\ Len(a) = 1 /\ a[1] = x /\ x.op = "add"
      /\ m \in Seq(Code) /\ Len(m) = 1 /\ m[1] = Do("instance", 0)
  BY <1>1, <1>2, <1>3, DoFacts
<1>5. {Do("lock", "callback"), Do("unlock", "callback")} \subseteq Code
  BY LocksInCode DEF Lock
<1>6. /\ w \in Seq(Code) /\ DOMAIN a = 1 .. Len(a)
      /\ DOMAIN w = 1 .. Len(a) + 2
      /\ w[1] = Do("lock", "callback") /\ w[Len(a) + 2] = Do("unlock", "callback")
      /\ \A i \in DOMAIN a : i + 1 \in DOMAIN w /\ w[i + 1] = a[i]
  <2>1. w = With("callback", a) /\ a \in Seq(Code)
    BY <1>3, <1>4
  <2> QED BY <1>5, <2>1, WithParts
<1>7. /\ DOMAIN w = 1 .. 3 /\ Len(w) = 3
      /\ w[1] = Do("lock", "callback") /\ w[2] = x /\ w[3] = Do("unlock", "callback")
  <2>1. DOMAIN w = 1 .. 3 /\ w[3] = Do("unlock", "callback") /\ 1 \in DOMAIN a
    BY <1>4, <1>6
  <2>2. w[1 + 1] = a[1]
    BY <1>6, <2>1
  <2>3. Len(w) = 3
    <3>1. w \in Seq(Code)
      BY <1>6
    <3>2. DOMAIN w = 1 .. Len(w) /\ Len(w) \in Nat
      BY <3>1, LenProperties
    <3> QED BY <2>1, <3>2
  <2> QED BY <1>4, <1>6, <2>1, <2>2, <2>3
<1>8. PICK b : b = m \o w
  OBVIOUS
<1>9. Joined(b, m, w) /\ b \in Seq(Code) /\ Len(b) = 4
  <2>1. w \in Seq(Code) /\ m \in Seq(Code)
    BY <1>4, <1>6
  <2>2. Joined(b, m, w)
    BY <1>8, <2>1, JoinedFacts
  <2>3. m \o w \in Seq(Code) /\ Len(m \o w) = Len(m) + Len(w)
    BY <2>1, ConcatProperties
  <2> QED BY <1>4, <1>7, <1>8, <2>2, <2>3
<1>10. PICK n : n = CApi(b)
  OBVIOUS
<1>11. /\ DOMAIN b = 1 .. 4 /\ b[1] = m[1]
       /\ \A i \in 1 .. 3 : b[1 + i] = w[i]
  BY <1>4, <1>7, <1>9 DEF Joined
<1>12. {Do("lock", "capi"), Do("unlock", "capi")} \subseteq Code
  BY LocksInCode DEF Lock
<1>13. /\ n \in Seq(Code) /\ DOMAIN n = 1 .. 6 /\ n[1] = Do("lock", "capi")
       /\ n[6] = Do("unlock", "capi")
       /\ \A i \in 1 .. 4 : n[i + 1] = b[i]
  <2>1. /\ n \in Seq(Code) /\ DOMAIN n = 1 .. Len(b) + 2 /\ n[1] = Do("lock", "capi")
        /\ n[Len(b) + 2] = Do("unlock", "capi")
        /\ \A i \in DOMAIN b : i + 1 \in DOMAIN n /\ n[i + 1] = b[i]
    <3>1. b \in Seq(Code) /\ n = With("capi", b)
      BY <1>9, <1>10 DEF CApi
    <3> QED BY <1>12, <3>1, WithParts
  <2> QED BY <1>9, <1>11, <2>1
<1>14. /\ n[2] = Do("instance", 0) /\ n[3] = Do("lock", "callback") /\ n[4] = x
       /\ n[5] = Do("unlock", "callback")
  <2>1. b[1 + 1] = w[1] /\ b[1 + 2] = w[2] /\ b[1 + 3] = w[3]
    BY <1>11
  <2>2. n[1 + 1] = b[1] /\ n[2 + 1] = b[2] /\ n[3 + 1] = b[3] /\ n[4 + 1] = b[4]
    BY <1>13
  <2> QED BY <1>4, <1>7, <1>11, <2>1, <2>2
<1>15. Part(b, {"add"} \cup {"instance"}, {} \cup {"callback"})
  <2>1. Part(a, {"add"}, {})
    BY <1>1, <1>2, <1>3, PartOne
  <2>2. Part(w, {"add"}, {} \cup {"callback"})
    BY <1>3, <2>1, PartWith DEF Lock
  <2> QED BY <1>3, <1>8, <2>2, InstancePart
<1>16. PICK T : T = {"add", "instance"}
  OBVIOUS
<1>17. /\ Part(n, T, {"callback"} \cup {"capi"})
       /\ \A i \in DOMAIN n : n[i].op \in T => HeldAfter(n, i, "capi") \/ n[i].op = "unlock"
  <2>1. Part(b, T, {"callback"})
    BY <1>15, <1>16, PartMore
  <2> QED BY <1>10, <1>16, <2>1, FunctionParts
<1>18. \A i \in DOMAIN n :
         /\ n[i].op \in {"add", "guarded", "destroy"} => HeldAfter(n, i, "capi")
         /\ n[i].op = "destroy" => HeldAfter(n, i, "internal")
  <2>1. \A i \in DOMAIN n : n[i].op \in T \cup {"lock", "unlock"}
    BY <1>17, DoFacts DEF Part
  <2> QED BY <1>16, <1>17, <2>1
<1>19. /\ n[1].op = "lock" /\ n[2].op = "instance" /\ n[3].op = "lock" /\ n[4].op = "add"
       /\ n[5].op = "unlock" /\ n[6].op = "unlock"
       /\ n[3] # Do("lock", "capi")
  BY <1>4, <1>13, <1>14, DoFacts
<1>20. InstanceFirst(n)
  <2>1. \A i \in DOMAIN n : i \in {1, 2, 3, 4, 5, 6}
    BY <1>13
  <2>2. \A i \in DOMAIN n : n[i].op = "add" => i = 4
    BY <1>19, <2>1
  <2>3. \A j \in DOMAIN n : n[j].op \in {"instance", "new"} => j = 2
    BY <1>19, <2>1
  <2>4. \A j \in 1 .. 4 - 1 : n[j] = Do("lock", "capi") => j = 1
    <3>1. \A j \in 1 .. 4 - 1 : j \in {1, 2, 3}
      OBVIOUS
    <3> QED BY <1>19, <3>1, DoFacts
  <2>5. 2 \in DOMAIN n
    BY <1>13
  <2> QED BY <1>19, <2>2, <2>3, <2>4, <2>5 DEF InstanceFirst
<1>21. Fresh(n)
  <2>1. 2 \in DOMAIN n
    BY <1>13
  <2> QED BY <1>16, <1>17, <1>18, <1>19, <1>20, <2>1, PartStack DEF Closing, Opening, Telling, Updating,
     Midway
<1>22. RegisterApi(l, c) = n
  BY <1>2, <1>3, <1>8, <1>10 DEF RegisterApi, RegisterCallbackInternal
<1> QED BY <1>21, <1>22

LEMMA FunctionStacks ==
  ASSUME NEW b \in Functions
  PROVE  Fresh(b)
<1>1. <<>> \in Guarded /\ DisconnectBody(FALSE) \in Guarded
  BY DEF Guarded
<1>2. Fresh(PowerController_Disconnect) /\ Fresh(PowerController_IsOperational)
  BY <1>1, ShortFunctionStacks DEF PowerController_Disconnect, PowerController_IsOperational
<1>3. CASE b \in {PowerController_Init, PowerController_Term, PowerController_Connect,
                  PowerController_Disconnect, PowerController_IsOperational}
  BY <1>2, <1>3, ShortFunctionStacks, TermStack
<1>4. CASE b \in {Request(call) : call \in Calls}
  BY <1>4, ShortFunctionStacks, CallsAssumption
<1>5. ASSUME NEW l \in Used, NEW c \in Callback, b = RegisterApi(l, c)
      PROVE  Fresh(b)
  BY <1>5, RegisterStack, CallsAssumption
<1>6. ASSUME NEW l \in Used, NEW c \in Callback, b = UnRegisterApi(l, c)
      PROVE  Fresh(b)
  <2>1. UnRegisterCallback(l, c) \in Guarded
    <3>1. l \in List
      BY CallsAssumption
    <3>2. UnRegisterCallback(l, c) \in Unregistering
      BY <3>1 DEF Unregistering
    <3> QED BY <3>2 DEF Guarded
  <2> QED BY <1>6, <2>1, ShortFunctionStacks DEF UnRegisterApi
<1> QED BY <1>3, <1>4, <1>5, <1>6 DEF Functions

LEMMA OtherStacks ==
  /\ \A up \in BOOLEAN : Fresh(OperationalBody(up))
  /\ \A l \in List : Fresh(With("callback", <<Do("notify", l)>>))
  /\ \A read \in Nat : Fresh(pidChangedCb(read))
  /\ Fresh(<<>>)
<1>1. ASSUME NEW up \in BOOLEAN
      PROVE  Fresh(OperationalBody(up))
  <2>1. PICK op \in {"attach", "detach"} : op = IF up THEN "attach" ELSE "detach"
    OBVIOUS
  <2>2. Part(OperationalBody(up), {op, "tell"}, {"internal"})
    BY <2>1, OperationalPart
  <2> QED BY <2>2, FreeStack DEF Closing, Opening, Updating, Midway
<1>2. ASSUME NEW l \in List
      PROVE  Fresh(With("callback", <<Do("notify", l)>>))
  <2>1. Do("notify", l) \in Code
    BY DEF Code, ListCode
  <2>2. Part(With("callback", <<Do("notify", l)>>), {"notify"}, {} \cup {"callback"})
    BY <2>1, PartOne, PartWith DEF Lock
  <2> QED BY <2>2, FreeStack DEF Closing, Opening, Updating, Midway
<1>3. Fresh(<<>>)
  <2>1. Part(<<>>, {}, {})
    BY PartEmpty
  <2> QED BY <2>1, FreeStack
<1>4. ASSUME NEW read \in Nat
      PROVE  Fresh(pidChangedCb(read))
  <2>1. PICK f \in BOOLEAN : f = FALSE
    OBVIOUS
  <2>2. PICK T : T = {"stop", "close", "open"}
    OBVIOUS
  <2>3. Part(DisconnectBody(f), {"stop", "close"}, {"internal"})
    BY DisconnectPart
  <2>4. Part(DisconnectBody(f), T, {"internal"}) /\ Part(ConnectBody, T, {"internal"})
    BY <2>2, <2>3, ConnectPart, PartMore
  <2>5. Quiescent(ConnectBody)
    BY ConnectPart, PartQuiescent DEF Closing
  <2>6. Part(DisconnectBody(f) \o ConnectBody, T, {"internal"})
    BY <2>4, <2>5, PartJoin
  <2>7. Do("pid", read) \in Code
    BY DEF Code, ValueCode
  <2>8. Part((DisconnectBody(f) \o ConnectBody) \o <<Do("pid", read)>>, T \cup {"pid"},
             {"internal"})
    BY <2>6, <2>7, PartAfter DEF Closing
  <2>9. Fresh((DisconnectBody(f) \o ConnectBody) \o <<Do("pid", read)>>)
    BY <2>2, <2>8, FreeStack DEF Closing, Opening, Updating, Midway
  <2> QED BY <1>3, <2>1, <2>9 DEF pidChangedCb
<1> QED BY <1>1, <1>2, <1>3, <1>4

\* Threads start with fresh code.
LEMMA StartsFresh ==
  ASSUME ClientInv,
         \/ \E t \in App : ApplicationCalls(t)
         \/ handle_inotify_event \/ LinkReports \/ PluginNotifies
  PROVE  \E t \in Thread : \E b : Start(t, b) /\ Fresh(b)
<1>1. App \cup {Monitor, Link, Notifier} \subseteq Thread
  BY CallsAssumption
<1>2. CASE \E t \in App : ApplicationCalls(t)
  <2>1. PICK t \in App, b \in Functions : Start(t, b)
    BY <1>2 DEF ApplicationCalls
  <2> QED BY <1>1, <2>1, FunctionStacks
<1>3. CASE handle_inotify_event
  <2>1. PICK read \in readPID : Start(Monitor, IF read = 0 THEN <<>> ELSE pidChangedCb(read))
    BY <1>3 DEF handle_inotify_event
  <2>2. read \in Nat
    BY DEF readPID, ClientInv, Values, WorldOK
  <2>3. PICK b : b = IF read = 0 THEN <<>> ELSE pidChangedCb(read)
    OBVIOUS
  <2>4. Fresh(b)
    BY <2>2, <2>3, OtherStacks
  <2> QED BY <1>1, <2>1, <2>3, <2>4
<1>4. CASE LinkReports
  <2>1. PICK yes \in BOOLEAN, no \in BOOLEAN : yes = TRUE /\ no = FALSE
    OBVIOUS
  <2>2. Start(Link, OperationalBody(yes)) \/ Start(Link, OperationalBody(no))
    BY <1>4, <2>1 DEF LinkReports
  <2>3. Fresh(OperationalBody(yes)) /\ Fresh(OperationalBody(no))
    BY OtherStacks
  <2> QED BY <1>1, <2>2, <2>3
<1>5. CASE PluginNotifies
  <2>1. PICK l \in world.subscribed : Start(Notifier, With("callback", <<Do("notify", l)>>))
    BY <1>5 DEF PluginNotifies
  <2>2. l \in List
    BY DEF ClientInv, Values, WorldOK
  <2> QED BY <1>1, <2>1, <2>2, OtherStacks
<1> QED BY <1>2, <1>3, <1>4, <1>5

----------------------------------------------------------------------------
(* What a step does to the instructions on lists.                          *)

\* t performs x, which goes on with b: what threads have to do.
Does(t, x, b) ==
  /\ IsOperation(x) /\ Has(t, x)
  /\ \A u \in Thread \ {t} : \A y : Has(u, y)' <=> Has(u, y)
  /\ \A y : IsOperation(y) =>
       /\ Has(t, y)' => Includes(b, y) \/ Has(t, y)
       /\ Includes(b, y) \/ (Has(t, y) /\ y # x) => Has(t, y)'
  /\ \A y : y.op \in Midway =>
       /\ Has(t, y)' => Includes(b, y)
       /\ Has(t, y) => y = x
  /\ x = Release => \A l \in List : ~Has(t, Unregister(l))

LEMMA Doing ==
  ASSUME ClientInv, StackInv, NEW t \in Thread, NEW op, op \notin {"lock", "unlock"},
         At(t, op), NEW b \in Seq(Code), Continue(t, b)
  PROVE  \E x \in Code : x.op = op /\ x.arg = Arg(t) /\ Does(t, x, b)
<1>1. PICK s, p, x : s = todo[t] /\ p = Place(t) /\ x = todo[t][Place(t)]
  OBVIOUS
<1>2. Disciplined(Code, ClientLocks) /\ Stack(s)
  BY <1>1 DEF ClientInv, StackInv
<1>3. /\ s \in Seq(Code) /\ p \in DOMAIN s /\ x = s[p]
      /\ x \in Code /\ x.op = op /\ x.arg = Arg(t) /\ IsOperation(x)
  BY <1>1, <1>2, PlainCode, AtFacts DEF IsOperation
<1>4. Became(t, b, Rest(t))
  BY <1>2, PlainCode, ContinueChanges
<1>5. Has(t, x)
  BY <1>1, <1>3 DEF Has, Includes
<1>6. ASSUME NEW u \in Thread \ {t}, NEW y
      PROVE  Has(u, y)' <=> Has(u, y)
  BY <1>4 DEF Became, Has
<1>7. ASSUME NEW y, Includes(Rest(t), y)
      PROVE  \E i \in DOMAIN s : i > p /\ i > 1 /\ s[i] = y
  BY <1>1, <1>2, <1>7, PlainCode, RestContained
<1>8. ASSUME NEW y, IsOperation(y)
      PROVE  /\ Has(t, y)' => Includes(b, y) \/ Has(t, y)
             /\ Includes(b, y) \/ (Has(t, y) /\ y # x) => Has(t, y)'
  <2>1. Has(t, y)' <=> Includes(b, y) \/ Includes(Rest(t), y)
    BY <1>4, <1>8 DEF Became, Has
  <2>2. Includes(Rest(t), y) => Has(t, y)
    BY <1>1, <1>7 DEF Has, Includes
  <2>3. Has(t, y) /\ y # x => Includes(Rest(t), y)
    BY <1>1, <1>2, <1>8, PlainCode, OthersInRest DEF Has
  <2> QED BY <2>1, <2>2, <2>3
<1>9. /\ s[1].op # "lock" => p = 1
      /\ p > 1 => s[1].op = "lock"
      /\ p \in {1, 2}
  BY <1>1 DEF Place
<1>10. ASSUME NEW y, y.op \in Midway
       PROVE  /\ Has(t, y)' => Includes(b, y)
              /\ Has(t, y) => y = x
  <2>1. IsOperation(y)
    BY <1>10 DEF IsOperation, Midway
  <2>2. ASSUME NEW i \in DOMAIN s, s[i] = y
        PROVE  i = 1
    BY <1>2, <1>10, <2>2 DEF Stack, Foremost
  <2>3. ~Includes(Rest(t), y)
    BY <1>7, <2>2
  <2>4. Has(t, y) => y = x
    <3> SUFFICES ASSUME Has(t, y) PROVE y = x
      OBVIOUS
    <3>1. PICK i \in DOMAIN s : s[i] = y
      BY <1>1 DEF Has, Includes
    <3>2. s[1] = y
      BY <2>2, <3>1
    <3>3. p = 1
      BY <1>9, <1>10, <3>2 DEF Midway
    <3> QED BY <1>3, <3>2, <3>3
  <2>5. Has(t, y)' <=> Includes(b, y) \/ Includes(Rest(t), y)
    BY <1>4, <2>1 DEF Became, Has
  <2> QED BY <2>3, <2>4, <2>5
<1>11. ASSUME x = Release, NEW l \in List, Has(t, Unregister(l))
       PROVE  FALSE
  <2>1. PICK j \in DOMAIN s : s[j] = Unregister(l)
    BY <1>1, <1>11 DEF Has, Includes
  <2>2. j < p
    BY <1>2, <1>3, <1>11, <2>1 DEF Stack, ReleasesLast
  <2>3. j \in Nat /\ j >= 1
    BY <1>3, LenProperties
  <2>4. j = 1 /\ p > 1
    BY <1>9, <2>2, <2>3
  <2>5. s[1].op = "lock"
    BY <1>9, <2>4
  <2> QED BY <2>1, <2>4, <2>5, InstructionFacts
<1> QED BY <1>3, <1>5, <1>6, <1>8, <1>10, <1>11 DEF Does

\* The instructions that a list depends on.
Relevant(l) == Updates(l) \cup {Register(l), Unregister(l), Release}

LEMMA RelevantFacts ==
  ASSUME NEW l
  PROVE  /\ \A y \in Relevant(l) : IsOperation(y)
         /\ \A y \in Updates(l) : y.op \in Midway /\ y.arg[1] = l
         /\ \A y \in Relevant(l) : y.op \in Updating \cup {"drop"}
         /\ Updates(l) \subseteq Relevant(l)
BY InstructionFacts DEF Relevant, Updates, IsOperation, Midway, Updating

LEMMA OthersRelevant ==
  ASSUME NEW l, NEW k, k # l
  PROVE  /\ {Subscribe(k), Leave(k), LeaveForced(k), LatchOn(k), LatchOff(k)}
              \cap Relevant(l) = {}
         /\ Register(k) \notin Relevant(l) /\ Unregister(k) \notin Relevant(l)
<1>1. ASSUME NEW y \in Relevant(l), NEW z,
             z \in {Subscribe(k), Leave(k), LeaveForced(k), LatchOn(k), LatchOff(k)}
      PROVE  y # z
  <2>1. z.op \in Midway /\ z.arg[1] = k
    BY <1>1, InstructionFacts DEF Midway
  <2>2. CASE y \in Updates(l)
    BY <2>1, <2>2, RelevantFacts
  <2>3. CASE y \in {Register(l), Unregister(l), Release}
    BY <2>1, <2>3, InstructionFacts DEF Midway
  <2> QED BY <2>2, <2>3 DEF Relevant
<1>2. ASSUME NEW y \in Relevant(l)
      PROVE  y # Register(k) /\ y # Unregister(k)
  <2>1. CASE y \in Updates(l)
    BY <2>1, RelevantFacts, InstructionFacts DEF Midway
  <2>2. CASE y = Release
    BY <2>2, InstructionFacts
  <2>3. CASE y = Register(l)
    BY <2>3, InstructionFacts
  <2>4. CASE y = Unregister(l)
    BY <2>4, InstructionFacts
  <2> QED BY <2>1, <2>2, <2>3, <2>4 DEF Relevant
<1> QED BY <1>1, <1>2

\* A list whose instructions and callbacks stay, or go, is left as it is; the
\* plugin may go.
LEMMA ListFrame ==
  ASSUME NEW l \in Subscribable, ListInv(l),
         \A u \in Thread : \A y \in Relevant(l) : Has(u, y)' <=> Has(u, y),
         registered'[l] = registered[l], iface' = iface,
         cbs'[l] # {} => cbs[l] # {},
         Alive(iface)' => /\ Alive(iface)
                          /\ l \in world'.subscribed <=> l \in world.subscribed
  PROVE  ListInv(l)'
<1>1. \A u \in Thread : \A y \in Updates(l) : Has(u, y)' <=> Has(u, y)
  BY RelevantFacts
<1>2. \A u \in Thread : Mid(u, l)' <=> Mid(u, l)
  BY <1>1 DEF Mid
<1>3. \A u \in Thread :
        /\ Has(u, Release)' <=> Has(u, Release)
        /\ Has(u, Register(l))' <=> Has(u, Register(l))
        /\ Has(u, Unregister(l))' <=> Has(u, Unregister(l))
        /\ Has(u, Subscribe(l))' <=> Has(u, Subscribe(l))
        /\ Has(u, Leave(l))' <=> Has(u, Leave(l))
        /\ Has(u, LeaveForced(l))' <=> Has(u, LeaveForced(l))
        /\ Has(u, LatchOn(l))' <=> Has(u, LatchOn(l))
        /\ Has(u, LatchOff(l))' <=> Has(u, LatchOff(l))
  BY DEF Relevant, Updates
<1>4. OneUpdates(l)'
  BY <1>2 DEF ListInv, OneUpdates
<1>5. Unregisters(l)'
  BY <1>2, <1>3 DEF ListInv, Unregisters
<1>6. KnownInPlugin(l)'
  BY <1>2, <1>3 DEF ListInv, KnownInPlugin
<1>7. WillSubscribe(l)'
  BY <1>3 DEF ListInv, WillSubscribe
<1>8. UnusedLeaves(l)'
  BY <1>3 DEF ListInv, UnusedLeaves
<1> QED BY <1>4, <1>5, <1>6, <1>7, <1>8 DEF ListInv

\* A list that is neither registered nor being updated.
LEMMA ListBlank ==
  ASSUME NEW l \in Subscribable, ~registered'[l],
         \A u \in Thread : ~Mid(u, l)',
         iface' = 0 \/ cbs'[l] = {}
  PROVE  ListInv(l)'
<1>1. ASSUME NEW u \in Thread
      PROVE  ~Has(u, LatchOn(l))' /\ ~Has(u, Leave(l))' /\ ~Has(u, LeaveForced(l))'
  BY DEF Mid, Updates
<1>2. OneUpdates(l)' /\ Unregisters(l)' /\ WillSubscribe(l)'
  BY DEF OneUpdates, Unregisters, WillSubscribe
<1>3. KnownInPlugin(l)' /\ UnusedLeaves(l)'
  BY <1>1 DEF KnownInPlugin, UnusedLeaves
<1> QED BY <1>2, <1>3 DEF ListInv

----------------------------------------------------------------------------
(* One list through the steps on it.                                       *)

\* What is not on the list leaves it as it is.
LEMMA DoesFrame ==
  ASSUME NEW t \in Thread, NEW x, NEW b, Does(t, x, b),
         NEW l \in Subscribable, ListInv(l),
         x \notin Relevant(l), \A y \in Relevant(l) : ~Includes(b, y),
         registered'[l] = registered[l], iface' = iface,
         cbs'[l] # {} => cbs[l] # {},
         Alive(iface)' => /\ Alive(iface)
                          /\ l \in world'.subscribed <=> l \in world.subscribed
  PROVE  ListInv(l)'
<1>1. ASSUME NEW u \in Thread, NEW y \in Relevant(l)
      PROVE  Has(u, y)' <=> Has(u, y)
  <2>1. CASE u # t
    BY <2>1 DEF Does
  <2>2. CASE u = t
    <3>1. IsOperation(y) /\ y # x /\ ~Includes(b, y)
      BY RelevantFacts
    <3> QED BY <2>2, <3>1 DEF Does
  <2> QED BY <2>1, <2>2
<1> QED BY <1>1, ListFrame

\* The others keep what they have, the thread adds what it goes on with.
LEMMA DoesKeeps ==
  ASSUME NEW t \in Thread, NEW x, NEW b, Does(t, x, b), NEW u \in Thread,
         NEW y, IsOperation(y)
  PROVE  /\ Has(u, y) /\ y # x => Has(u, y)'
         /\ Has(u, y)' => Has(u, y) \/ (u = t /\ Includes(b, y))
         /\ Includes(b, y) => Has(t, y)'
<1>1. CASE u # t
  BY <1>1 DEF Does
<1>2. CASE u = t
  BY <1>2 DEF Does
<1> QED BY <1>1, <1>2

\* A thread that updates the list without another one.
LEMMA DoesUpdates ==
  ASSUME NEW t \in Thread, NEW x, NEW b, Does(t, x, b), NEW l,
         \A u \in Thread \ {t} : ~Mid(u, l)
  PROVE  /\ \A u \in Thread : \A y \in Updates(l) : Has(u, y) => u = t /\ y = x
         /\ \A u \in Thread : \A y \in Updates(l) : Has(u, y)' => u = t /\ Includes(b, y)
         /\ OneUpdates(l)'
<1>1. ASSUME NEW u \in Thread, NEW y \in Updates(l)
      PROVE  /\ Has(u, y) => u = t /\ y = x
             /\ Has(u, y)' => u = t /\ Includes(b, y)
  <2>1. y.op \in Midway
    BY RelevantFacts
  <2>2. CASE u # t
    <3>1. ~Has(u, y)
      BY <2>2 DEF Mid
    <3> QED BY <2>2, <3>1 DEF Does
  <2>3. CASE u = t
    BY <2>1, <2>3 DEF Does
  <2> QED BY <2>2, <2>3
<1>2. OneUpdates(l)'
  <2>1. \A u \in Thread : Mid(u, l)' => u = t
    BY <1>1 DEF Mid
  <2> QED BY <2>1 DEF OneUpdates
<1> QED BY <1>1, <1>2

LEMMA Different ==
  ASSUME NEW l
  PROVE  /\ \A y \in {Register(l), Unregister(l), Release} : y \notin Updates(l) /\ IsOperation(y)
         /\ Register(l) \notin {Unregister(l), Release} /\ Unregister(l) # Release
         /\ Subscribe(l) \notin {Leave(l), LeaveForced(l), LatchOn(l), LatchOff(l)}
         /\ {Leave(l), LeaveForced(l)} \cap {LatchOn(l), LatchOff(l)} = {}
         /\ Leave(l) # LeaveForced(l) /\ LatchOn(l) # LatchOff(l)
<1>1. ASSUME NEW y \in {Register(l), Unregister(l), Release}
      PROVE  y \notin Updates(l) /\ IsOperation(y)
  <2>1. y.op \notin Midway /\ IsOperation(y)
    BY InstructionFacts DEF Midway, IsOperation
  <2> QED BY <2>1, RelevantFacts
<1>2. Register(l) \notin {Unregister(l), Release} /\ Unregister(l) # Release
  BY InstructionFacts
<1>3. Subscribe(l) \notin {Leave(l), LeaveForced(l), LatchOn(l), LatchOff(l)}
  BY InstructionFacts
<1>4. {Leave(l), LeaveForced(l)} \cap {LatchOn(l), LatchOff(l)} = {}
  BY InstructionFacts
<1>5. Leave(l) # LeaveForced(l) /\ LatchOn(l) # LatchOff(l)
  BY InstructionsDiffer
<1> QED BY <1>1, <1>2, <1>3, <1>4, <1>5

LEMMA EmptyIncludes == \A y : ~Includes(<<>>, y)
BY DEF Includes

LEMMA OneIncludes ==
  ASSUME NEW z, NEW y
  PROVE  Includes(<<z>>, y) <=> y = z
BY DEF Includes

\* At the update x of the list, only its thread is in the middle of it.
LEMMA AtUpdate ==
  ASSUME NEW t \in Thread, NEW x, NEW b, Does(t, x, b), NEW l, ListInv(l),
         x \in Updates(l)
  PROVE  /\ \A u \in Thread \ {t} : ~Mid(u, l)
         /\ iface # 0
         /\ \A u \in Thread : \A y \in Updates(l) : Has(u, y) => u = t /\ y = x
<1>1. Mid(t, l)
  BY DEF Does, Mid
<1>2. \A u \in Thread \ {t} : ~Mid(u, l)
  BY <1>1 DEF ListInv, OneUpdates
<1>3. iface # 0
  BY <1>1 DEF ListInv, KnownInPlugin
<1> QED BY <1>2, <1>3, DoesUpdates

\* When no list is updated from both sides, the list has its thread alone.
LEMMA Alone ==
  ASSUME NEW t \in Thread, NEW l, ~Overlaps(t, l)
  PROVE  \A u \in Thread \ {t} : ~Mid(u, l) /\ ~Has(u, Release)
<1>1. ASSUME NEW u \in Thread \ {t}, NEW y, Has(u, y),
             y.op = "drop" \/ (y.op \in Midway /\ y.arg[1] = l)
      PROVE  FALSE
  BY <1>1 DEF Overlaps, Has, Includes
<1>2. Release.op = "drop"
  BY InstructionFacts
<1> QED BY <1>1, <1>2, RelevantFacts DEF Mid

LEMMA AddKeepsList ==
  ASSUME ClientInv, StackInv, NEW t \in Thread, AddCallbackLocked(t),
         NEW l \in Subscribable, ListInv(l)
  PROVE  ListInv(l)'
<1>1. PICK k, c, b : /\ k = Arg(t)[1] /\ c = Arg(t)[2]
                     /\ b = IF c \in cbs[k] THEN <<>> ELSE <<Register(k)>>
  OBVIOUS
<1>2. /\ At(t, "add") /\ Continue(t, b)
      /\ cbs' = [cbs EXCEPT ![k] = @ \cup {c}]
      /\ UNCHANGED <<iface, registered, world>>
  BY <1>1 DEF AddCallbackLocked, link, Register
<1>3. PICK z \in Code : z.op = "add" /\ z.arg = Arg(t)
  BY <1>2, AtArg
<1>4. z.arg \in List \X Callback
  BY <1>3, CodeFacts
<1>5. k \in List /\ cbs \in [List -> SUBSET Callback]
  BY <1>1, <1>3, <1>4 DEF ClientInv, Values, TypeOK
<1>6. b \in Seq(Code)
  <2>1. Register(k) \in Code
    BY <1>5 DEF Register, Code, ListCode
  <2> QED BY <1>1, <2>1
<1>7. PICK x \in Code : x.op = "add" /\ Does(t, x, b)
  BY <1>2, <1>6, Doing
<1>8. x \notin Relevant(l)
  BY <1>7, RelevantFacts DEF Updating, Midway
<1>9. \A y : Includes(b, y) <=> c \notin cbs[k] /\ y = Register(k)
  BY <1>1, EmptyIncludes, OneIncludes
<1>10. cbs'[l] = IF l = k THEN cbs[l] \cup {c} ELSE cbs[l]
  BY <1>2, <1>5 DEF Subscribable
<1>11. Alive(iface)' <=> Alive(iface)
  BY <1>2 DEF Alive
<1>12. CASE k # l
  <2>1. \A y \in Relevant(l) : ~Includes(b, y)
    BY <1>9, <1>12, OthersRelevant
  <2> QED BY <1>2, <1>7, <1>8, <1>10, <1>11, <1>12, <2>1, DoesFrame
<1>13. CASE k = l /\ c \in cbs[l]
  <2>1. \A y \in Relevant(l) : ~Includes(b, y)
    BY <1>9, <1>13
  <2>2. cbs'[l] = cbs[l]
    BY <1>10, <1>13
  <2> QED BY <1>2, <1>7, <1>8, <1>11, <2>1, <2>2, DoesFrame
<1>14. CASE k = l /\ c \notin cbs[l]
  <2>1. ASSUME NEW u \in Thread, NEW y \in Relevant(l), y # Register(l)
        PROVE  Has(u, y)' <=> Has(u, y)
    <3>1. IsOperation(y) /\ y # x /\ ~Includes(b, y)
      BY <1>8, <1>9, <1>14, <2>1, RelevantFacts
    <3> QED BY <1>7, <3>1, DoesKeeps
  <2>2. Has(t, Register(l))'
    <3>1. IsOperation(Register(l)) /\ Includes(b, Register(l))
      BY <1>9, <1>14, Different
    <3> QED BY <1>7, <3>1, DoesKeeps
  <2>3. \A u \in Thread : \A y \in Updates(l) \cup {Release, Unregister(l)} :
          Has(u, y)' <=> Has(u, y)
    BY <2>1, Different, RelevantFacts DEF Relevant
  <2>4. \A u \in Thread : Mid(u, l)' <=> Mid(u, l)
    BY <2>3 DEF Mid
  <2>5. /\ Leave(l) \in Updates(l) /\ LeaveForced(l) \in Updates(l)
        /\ LatchOn(l) \in Updates(l) /\ LatchOff(l) \in Updates(l)
    BY DEF Updates
  <2>6. OneUpdates(l)'
    BY <2>4 DEF ListInv, OneUpdates
  <2>7. Unregisters(l)'
    BY <1>2, <2>3, <2>4, <2>5 DEF ListInv, Unregisters
  <2>8. KnownInPlugin(l)'
    BY <1>2, <1>11, <2>3, <2>4, <2>5 DEF ListInv, KnownInPlugin
  <2>9. WillSubscribe(l)' /\ UnusedLeaves(l)'
    BY <2>2 DEF WillSubscribe, UnusedLeaves
  <2> QED BY <2>6, <2>7, <2>8, <2>9 DEF ListInv
<1> QED BY <1>12, <1>13, <1>14

LEMMA RemoveKeepsList ==
  ASSUME ClientInv, StackInv, NEW t \in Thread, RemoveCallbackLocked(t),
         NEW l \in Subscribable, ListInv(l)
  PROVE  ListInv(l)'
<1>1. PICK k, c, f, b : /\ k = Arg(t)[1] /\ c = Arg(t)[2] /\ f = FALSE
                        /\ b = IF c \in cbs[k] THEN <<Do("unregister", <<k, f>>)>> ELSE <<>>
  OBVIOUS
<1>2. /\ At(t, "remove") /\ Continue(t, b)
      /\ cbs' = [cbs EXCEPT ![k] = @ \ {c}]
      /\ UNCHANGED <<iface, registered, world>>
  BY <1>1 DEF RemoveCallbackLocked, link
<1>3. PICK z \in Code : z.op = "remove" /\ z.arg = Arg(t)
  BY <1>2, AtArg
<1>4. z.arg \in List \X Callback
  BY <1>3, CodeFacts
<1>5. k \in List /\ cbs \in [List -> SUBSET Callback]
  BY <1>1, <1>3, <1>4 DEF ClientInv, Values, TypeOK
<1>6. PICK w : w = Do("unregister", <<k, f>>)
  OBVIOUS
<1>7. w \in Code /\ w.op = "unregister" /\ w # Unregister(l)
  <2>1. <<k, f>> \in List \X BOOLEAN
    BY <1>1, <1>5
  <2>2. w \in UpdateCode
    BY <1>6, <2>1 DEF UpdateCode
  <2> QED BY <1>1, <1>6, <2>2, DoFacts, UnforcedFacts DEF Code
<1>8. b \in Seq(Code) /\ \A y : Includes(b, y) => y = w
  BY <1>1, <1>6, <1>7, EmptyIncludes, OneIncludes
<1>9. PICK x \in Code : x.op = "remove" /\ Does(t, x, b)
  BY <1>2, <1>8, Doing
<1>10. x \notin Relevant(l)
  BY <1>9, RelevantFacts DEF Updating, Midway
<1>11. w \notin Relevant(l)
  <2>1. w \notin Updates(l) /\ w # Register(l) /\ w # Release
    BY <1>7, RelevantFacts, InstructionFacts DEF Midway
  <2> QED BY <1>7, <2>1 DEF Relevant
<1>12. cbs'[l] # {} => cbs[l] # {}
  BY <1>2, <1>5 DEF Subscribable
<1>13. Alive(iface)' <=> Alive(iface)
  BY <1>2 DEF Alive
<1>14. \A y \in Relevant(l) : ~Includes(b, y)
  BY <1>8, <1>11
<1> QED BY <1>2, <1>9, <1>10, <1>12, <1>13, <1>14, DoesFrame

LEMMA RegisterKeepsList ==
  ASSUME ClientInv, StackInv, NEW t \in Thread, RegisterNotificationInternalLocked(t),
         ~raced', NEW l \in Subscribable, ListInv(l)
  PROVE  ListInv(l)'
<1>1. PICK k, b : /\ k = Arg(t)
                  /\ b = IF ~registered[k] /\ cbs[k] # {} /\ iface # 0
                         THEN <<Subscribe(k)>> ELSE <<>>
  OBVIOUS
<1>2. /\ At(t, "register") /\ Continue(t, b) /\ ~Overlaps(t, k)
      /\ UNCHANGED <<iface, registered, cbs, world>>
  BY <1>1 DEF RegisterNotificationInternalLocked, link, lists, Subscribe
<1>3. PICK z \in Code : z.op = "register" /\ z.arg = k
  BY <1>1, <1>2, AtArg
<1>4. k \in List
  BY <1>3, CodeFacts
<1>5. b \in Seq(Code) /\ \A y : Includes(b, y) => y = Subscribe(k)
  <2>1. Subscribe(k) \in Code
    BY <1>4 DEF Subscribe, Code, SubscribeCode
  <2> QED BY <1>1, <2>1, EmptyIncludes, OneIncludes
<1>6. PICK x \in Code : x.op = "register" /\ x.arg = k /\ Does(t, x, b)
  BY <1>1, <1>2, <1>5, Doing
<1>7. x = Register(k)
  BY <1>6, UpdateShapes
<1>8. Alive(iface)' <=> Alive(iface)
  BY <1>2 DEF Alive
<1>9. CASE k # l
  <2>1. x \notin Relevant(l) /\ \A y \in Relevant(l) : ~Includes(b, y)
    BY <1>5, <1>7, <1>9, OthersRelevant
  <2> QED BY <1>2, <1>6, <1>8, <2>1, DoesFrame
<1>10. CASE k = l
  <2>1. \A u \in Thread \ {t} : ~Mid(u, l) /\ ~Has(u, Release)
    BY <1>2, <1>10, Alone
  <2>2. x \notin Updates(l)
    BY <1>6, RelevantFacts DEF Midway
  <2>3. /\ \A u \in Thread : \A y \in Updates(l) : ~Has(u, y)
        /\ \A u \in Thread : \A y \in Updates(l) : Has(u, y)' => u = t /\ y = Subscribe(l)
        /\ OneUpdates(l)'
    BY <1>5, <1>6, <1>10, <2>1, <2>2, DoesUpdates
  <2>4. ~Has(t, Release)
    <3> SUFFICES ASSUME Has(t, Release) PROVE FALSE
      OBVIOUS
    <3>1. PICK i \in DOMAIN todo[t] : todo[t][i] = Release
      BY DEF Has, Includes
    <3>2. PICK j \in DOMAIN todo[t] : todo[t][j] = x
      BY <1>6 DEF Does, Has, Includes
    <3>3. todo[t][i].op = "drop" /\ todo[t][j].op = "register"
      BY <1>6, <3>1, <3>2, InstructionFacts
    <3>4. OpensOrCloses(todo[t])
      BY DEF StackInv, Stack
    <3> QED BY <3>3, <3>4 DEF OpensOrCloses, Closing, Opening
  <2>5. \A u \in Thread : ~Has(u, Release)'
    <3> SUFFICES ASSUME NEW u \in Thread PROVE ~Has(u, Release)'
      OBVIOUS
    <3>1. ~Has(u, Release) /\ ~Includes(b, Release)
      BY <1>5, <2>1, <2>4, InstructionFacts
    <3> QED BY <1>6, <3>1, DoesKeeps, Different
  <2>6. Unregisters(l)'
    BY <2>5 DEF Unregisters
  <2>7. /\ Leave(l) \in Updates(l) /\ LeaveForced(l) \in Updates(l)
        /\ LatchOn(l) \in Updates(l) /\ LatchOff(l) \in Updates(l)
        /\ Subscribe(l) \in Updates(l)
    BY DEF Updates
  <2>8. registered[l] => iface # 0 /\ (~Alive(iface) \/ l \in world.subscribed)
    BY <2>3, <2>7 DEF ListInv, KnownInPlugin
  <2>9. \A u \in Thread : ~Has(u, Leave(l))' /\ ~Has(u, LeaveForced(l))' /\ ~Has(u, LatchOn(l))'
    BY <2>3, <2>7, Different
  <2>10. ASSUME NEW u \in Thread, Mid(u, l)'
         PROVE  iface # 0
    <3>1. Includes(b, Subscribe(l))
      BY <1>6, <2>1, <2>3, <2>10, DoesUpdates DEF Mid
    <3> QED BY <1>1, <1>10, <3>1, EmptyIncludes
  <2>11. KnownInPlugin(l)'
    BY <1>2, <1>8, <2>8, <2>9, <2>10 DEF KnownInPlugin
  <2>12. WillSubscribe(l)'
    <3> SUFFICES ASSUME cbs[l] # {}, iface # 0, Alive(iface), l \notin world.subscribed
                 PROVE  Has(t, Subscribe(l))'
      BY <1>2, <1>8 DEF WillSubscribe
    <3>1. b = <<Subscribe(l)>>
      BY <1>1, <1>10, <2>8
    <3>2. Includes(b, Subscribe(l)) /\ IsOperation(Subscribe(l))
      BY <2>7, <3>1, OneIncludes, RelevantFacts
    <3> QED BY <1>6, <3>2, DoesKeeps
  <2>13. UnusedLeaves(l)'
    BY <2>9 DEF UnusedLeaves
  <2> QED BY <2>3, <2>6, <2>11, <2>12, <2>13 DEF ListInv
<1> QED BY <1>9, <1>10

LEMMA UnregisterKeepsList ==
  ASSUME ClientInv, StackInv, NEW t \in Thread, UnregisterNotificationInternalLocked(t),
         ~raced', NEW l \in Subscribable, ListInv(l)
  PROVE  ListInv(l)'
<1>1. PICK k, f, z, b : /\ k = Arg(t)[1] /\ f = Arg(t)[2] /\ z = Do("unsubscribe", Arg(t))
                        /\ b = IF registered[k] /\ iface # 0 /\ (f \/ cbs[k] = {})
                               THEN <<z>> ELSE <<>>
  OBVIOUS
<1>2. /\ At(t, "unregister") /\ Continue(t, b) /\ ~Overlaps(t, k)
      /\ UNCHANGED <<iface, registered, cbs, world>>
  BY <1>1 DEF UnregisterNotificationInternalLocked, link, lists
<1>3. PICK w \in Code : w.op = "unregister" /\ w.arg = Arg(t)
  BY <1>2, AtArg
<1>4. Arg(t) \in List \X BOOLEAN /\ k \in List /\ f \in BOOLEAN
  BY <1>1, <1>3, CodeFacts
<1>5. z \in Code /\ z.op = "unsubscribe" /\ z.arg = Arg(t)
  BY <1>1, <1>4, DoFacts DEF Code, UpdateCode
<1>6. z = IF f THEN LeaveForced(k) ELSE Leave(k)
  BY <1>1, <1>5, UpdateShapes
<1>7. b \in Seq(Code) /\ \A y : Includes(b, y) => y = z
  BY <1>1, <1>5, EmptyIncludes, OneIncludes
<1>8. PICK x \in Code : x.op = "unregister" /\ x.arg = Arg(t) /\ Does(t, x, b)
  BY <1>1, <1>2, <1>7, Doing
<1>9. Alive(iface)' <=> Alive(iface)
  BY <1>2 DEF Alive
<1>10. x \notin Updates(l) /\ x # Register(l) /\ x # Release
  BY <1>8, RelevantFacts, InstructionFacts DEF Midway
<1>11. CASE k # l
  <2>1. x # Unregister(l)
    BY <1>1, <1>8, <1>11, InstructionFacts
  <2>2. x \notin Relevant(l)
    BY <1>10, <2>1 DEF Relevant
  <2>3. \A y \in Relevant(l) : ~Includes(b, y)
    BY <1>6, <1>7, <1>11, OthersRelevant
  <2> QED BY <1>2, <1>8, <1>9, <2>2, <2>3, DoesFrame
<1>12. CASE k = l
  <2>1. \A u \in Thread \ {t} : ~Mid(u, l) /\ ~Has(u, Release)
    BY <1>2, <1>12, Alone
  <2>2. /\ Leave(l) \in Updates(l) /\ LeaveForced(l) \in Updates(l)
        /\ LatchOn(l) \in Updates(l) /\ LatchOff(l) \in Updates(l)
        /\ Subscribe(l) \in Updates(l)
    BY DEF Updates
  <2>3. /\ \A u \in Thread : \A y \in Updates(l) : ~Has(u, y)
        /\ \A u \in Thread : \A y \in Updates(l) : Has(u, y)' => u = t /\ Includes(b, y)
        /\ OneUpdates(l)'
    BY <1>8, <1>10, <2>1, DoesUpdates
  <2>4. ASSUME NEW y, Includes(b, y)
        PROVE  /\ y = z /\ registered[l] /\ iface # 0
               /\ f \/ cbs[l] = {}
    BY <1>1, <1>7, <1>12, <2>4, EmptyIncludes
  <2>5. Unregisters(l)'
    <3> SUFFICES ASSUME NEW u \in Thread, Has(u, Release)'
                 PROVE  \/ Has(u, Unregister(l))' \/ Has(u, LeaveForced(l))'
                        \/ ~registered'[l] /\ \A v \in Thread : ~Mid(v, l)'
      BY DEF Unregisters
    <3>1. z # Release
      BY <1>5, InstructionFacts
    <3>2. Has(u, Release)
      BY <1>8, <2>4, <3>1, DoesKeeps, Different
    <3>3. u = t
      BY <2>1, <3>2
    <3>4. Has(t, Unregister(l)) \/ ~registered[l]
      BY <2>2, <2>3, <3>2, <3>3 DEF ListInv, Unregisters
    <3>5. CASE ~registered[l]
      <4>1. \A v \in Thread : ~Mid(v, l)'
        BY <2>3, <2>4, <3>5 DEF Mid
      <4> QED BY <1>2, <3>5, <4>1
    <3>6. CASE registered[l] /\ x # Unregister(l)
      BY <1>8, <3>3, <3>4, <3>6, DoesKeeps, Different
    <3>7. CASE registered[l] /\ x = Unregister(l)
      <4>1. f
        <5>1. x.arg[2] = f /\ x = Do("unregister", <<l, f>>)
          <6>1. x = Do("unregister", Arg(t)) /\ Arg(t) = <<k, f>>
            BY <1>1, <1>4, <1>8, CodeShape
          <6> QED BY <1>1, <1>8, <1>12, <6>1
        <5> QED BY <1>4, <3>7, <5>1, UnforcedFacts
      <4>2. iface # 0
        BY <3>7 DEF ListInv, KnownInPlugin
      <4>3. b = <<z>> /\ z = LeaveForced(l)
        BY <1>1, <1>6, <1>12, <3>7, <4>1, <4>2
      <4>4. Has(t, LeaveForced(l))'
        BY <1>8, <2>2, <4>3, OneIncludes, DoesKeeps, RelevantFacts
      <4> QED BY <3>3, <4>4
    <3> QED BY <3>5, <3>6, <3>7
  <2>6. registered[l] => iface # 0 /\ (~Alive(iface) \/ l \in world.subscribed)
    BY <2>2, <2>3 DEF ListInv, KnownInPlugin
  <2>7. \A u \in Thread : ~Has(u, LatchOn(l))'
    BY <1>6, <1>12, <2>2, <2>3, <2>4, Different
  <2>8. \A u \in Thread : Mid(u, l)' => iface # 0 /\ registered[l]
    BY <2>3, <2>4 DEF Mid
  <2>9. \A u \in Thread : Has(u, Leave(l))' => Mid(u, l)'
    BY <2>2 DEF Mid
  <2>10. \A u \in Thread : Has(u, LeaveForced(l))' => Mid(u, l)'
    BY <2>2 DEF Mid
  <2>11. KnownInPlugin(l)'
    BY <1>2, <1>9, <2>6, <2>7, <2>8, <2>9, <2>10 DEF KnownInPlugin
  <2>12. WillSubscribe(l)'
    <3>1. ASSUME NEW u \in Thread, NEW y \in {Register(l), Release, Subscribe(l)}, Has(u, y)
          PROVE  Has(u, y)'
      BY <1>8, <1>10, <2>2, <3>1, DoesKeeps, Different, RelevantFacts
    <3> QED BY <1>2, <1>9, <3>1 DEF ListInv, WillSubscribe
  <2>13. UnusedLeaves(l)'
    <3> SUFFICES ASSUME cbs[l] # {}, NEW u \in Thread, Has(u, Leave(l))'
                 PROVE  FALSE
      BY <1>2 DEF UnusedLeaves
    <3>1. Includes(b, Leave(l))
      BY <2>2, <2>3
    <3>2. Leave(l) = z /\ f
      BY <2>4, <3>1
    <3> QED BY <1>6, <1>12, <3>2, Different
  <2> QED BY <2>3, <2>5, <2>11, <2>12, <2>13 DEF ListInv
<1> QED BY <1>11, <1>12

\* What is left of an update when its thread updates the list alone.
LEMMA UpdateLeaves ==
  ASSUME ClientInv, StackInv, NEW t \in Thread, NEW x, NEW b, Does(t, x, b),
         NEW l, ListInv(l), x \in Updates(l), NEW z \in Updates(l),
         \A y : Includes(b, y) => y = z
  PROVE  /\ \A u \in Thread : Has(u, Release)' =>
              Has(u, Unregister(l))' \/ (u = t /\ x \in {LeaveForced(l), LatchOff(l)})
         /\ \A u \in Thread : \A y \in {Register(l), Release} : Has(u, y) => Has(u, y)'
         /\ \A u \in Thread : \A y \in Updates(l) : Has(u, y) => u = t /\ y = x
         /\ \A u \in Thread : \A y \in Updates(l) : Has(u, y)' => u = t /\ Includes(b, y)
         /\ iface # 0 /\ OneUpdates(l)'
<1>1. /\ \A u \in Thread \ {t} : ~Mid(u, l)
      /\ iface # 0
      /\ \A u \in Thread : \A y \in Updates(l) : Has(u, y) => u = t /\ y = x
  BY AtUpdate
<1>2. /\ \A u \in Thread : \A y \in Updates(l) : Has(u, y)' => u = t /\ Includes(b, y)
      /\ OneUpdates(l)'
  BY <1>1, DoesUpdates
<1>3. \A u \in Thread : \A y \in {Register(l), Release, Unregister(l)} :
        Has(u, y) => Has(u, y)'
  BY Different, DoesKeeps
<1>4. ASSUME NEW u \in Thread, Has(u, Release)'
      PROVE  Has(u, Unregister(l))' \/ (u = t /\ x \in {LeaveForced(l), LatchOff(l)})
  <2>1. Has(u, Release)
    <3>1. Release # z
      BY Different
    <3> QED BY <1>4, <3>1, DoesKeeps, Different
  <2>2. Mid(t, l)
    BY DEF Does, Mid
  <2>3. \/ Has(u, Unregister(l)) \/ Has(u, LeaveForced(l)) \/ Has(u, LatchOff(l))
    BY <2>1, <2>2 DEF ListInv, Unregisters
  <2>4. LeaveForced(l) \in Updates(l) /\ LatchOff(l) \in Updates(l)
    BY DEF Updates
  <2> QED BY <1>1, <1>3, <2>3, <2>4
<1> QED BY <1>1, <1>2, <1>3, <1>4

\* The plugin is asked about the list k, and the answer d is about to be kept.
LEMMA AskedBody ==
  ASSUME NEW k \in List, NEW d \in BOOLEAN, NEW z, z = Do("latch", <<k, d>>),
         NEW b, b = <<z>>
  PROVE  /\ z \in Code /\ z.op = "latch" /\ z = IF d THEN LatchOn(k) ELSE LatchOff(k)
         /\ b \in Seq(Code) /\ \A y : Includes(b, y) <=> y = z
<1>1. <<k, d>> \in List \X BOOLEAN
  OBVIOUS
<1>2. z \in UpdateCode
  BY <1>1 DEF UpdateCode
<1>3. z \in Code /\ z.op = "latch" /\ z.arg = <<k, d>>
  BY <1>2, DoFacts DEF Code
<1>4. z.arg[1] = k /\ z.arg[2] = d
  BY <1>3
<1>5. z = IF d THEN LatchOn(k) ELSE LatchOff(k)
  BY <1>3, <1>4, UpdateShapes
<1>6. \A y : Includes(b, y) <=> y = z
  BY OneIncludes
<1>7. b \in Seq(Code)
  BY <1>3
<1> QED BY <1>3, <1>5, <1>6, <1>7

LEMMA SubscribeKeepsList ==
  ASSUME ClientInv, StackInv, NEW t \in Thread, RegisterThunderNotificationLocked(t),
         NEW l \in Subscribable, ListInv(l)
  PROVE  ListInv(l)'
<1>1. PICK k, d, z, b :
        /\ k = Arg(t)[1]
        /\ d = (k = Ops \/ (Alive(iface) /\ k \notin world.subscribed))
        /\ z = Do("latch", <<k, d>>) /\ b = <<z>>
  OBVIOUS
<1>2. /\ At(t, "subscribe") /\ Continue(t, b)
      /\ world' = IF d /\ k # Ops
                  THEN [world EXCEPT !.subscribed = @ \cup {k}] ELSE world
      /\ UNCHANGED <<iface, registered, cbs>>
  BY <1>1 DEF RegisterThunderNotificationLocked, link, lists
<1>3. PICK w \in Code : w.op = "subscribe" /\ w.arg = Arg(t)
  BY <1>2, AtArg
<1>4. k \in List /\ d \in BOOLEAN
  BY <1>1, <1>3, UpdateShapes
<1>5. /\ z = IF d THEN LatchOn(k) ELSE LatchOff(k)
      /\ b \in Seq(Code) /\ \A y : Includes(b, y) <=> y = z
  <2>1. z = Do("latch", <<k, d>>) /\ b = <<z>>
    BY <1>1
  <2> QED BY <1>4, <2>1, AskedBody
<1>6. PICK x \in Code : x.op = "subscribe" /\ x.arg = Arg(t) /\ Does(t, x, b)
  BY <1>2, <1>5, Doing
<1>7. x = Subscribe(k)
  BY <1>1, <1>6, UpdateShapes
<1>8. /\ Alive(iface)' <=> Alive(iface)
      /\ world'.subscribed = IF d /\ k # Ops THEN world.subscribed \cup {k}
                                             ELSE world.subscribed
  BY <1>2 DEF ClientInv, Values, WorldOK, Alive
<1>9. CASE k # l
  <2>1. x \notin Relevant(l) /\ \A y \in Relevant(l) : ~Includes(b, y)
    BY <1>5, <1>7, <1>9, OthersRelevant
  <2>2. l \in world'.subscribed <=> l \in world.subscribed
    BY <1>8, <1>9
  <2> QED BY <1>2, <1>6, <1>8, <2>1, <2>2, DoesFrame
<1>10. CASE k = l
  <2>1. /\ Leave(l) \in Updates(l) /\ LeaveForced(l) \in Updates(l)
        /\ LatchOn(l) \in Updates(l) /\ LatchOff(l) \in Updates(l)
        /\ Subscribe(l) \in Updates(l)
    BY DEF Updates
  <2>2. x \in Updates(l) /\ z \in Updates(l) /\ z \in {LatchOn(l), LatchOff(l)}
    BY <1>5, <1>7, <1>10, <2>1
  <2>3. x \notin {Leave(l), LeaveForced(l), LatchOn(l), LatchOff(l)}
    BY <1>7, <1>10, Different
  <2>4. /\ \A u \in Thread : Has(u, Release)' => Has(u, Unregister(l))'
        /\ \A u \in Thread : \A y \in Updates(l) : Has(u, y) => y = x
        /\ \A u \in Thread : \A y \in Updates(l) : Has(u, y)' => y = z
        /\ iface # 0 /\ OneUpdates(l)'
    BY <1>5, <1>6, <2>2, <2>3, UpdateLeaves
  <2>5. Unregisters(l)'
    BY <2>4 DEF Unregisters
  <2>6. registered[l] => ~Alive(iface) \/ l \in world.subscribed
    BY <2>1, <2>3, <2>4 DEF ListInv, KnownInPlugin
  <2>7. ~Alive(iface)' \/ l \in world'.subscribed
    <3>1. l # Ops
      BY DEF Subscribable
    <3> QED BY <1>1, <1>8, <1>10, <3>1
  <2>8. \A u \in Thread : ~Has(u, Leave(l))' /\ ~Has(u, LeaveForced(l))'
    BY <2>1, <2>2, <2>4, Different
  <2>9. iface' # 0
    BY <1>2, <2>4
  <2>10. KnownInPlugin(l)' /\ WillSubscribe(l)' /\ UnusedLeaves(l)'
    BY <2>7, <2>8, <2>9 DEF KnownInPlugin, WillSubscribe, UnusedLeaves
  <2> QED BY <2>4, <2>5, <2>10 DEF ListInv
<1> QED BY <1>9, <1>10

LEMMA UnsubscribeKeepsList ==
  ASSUME ClientInv, StackInv, NEW t \in Thread, UnregisterThunderNotificationLocked(t),
         NEW l \in Subscribable, ListInv(l)
  PROVE  ListInv(l)'
<1>1. PICK k, f, d, v, z, b :
        /\ k = Arg(t)[1] /\ f = Arg(t)[2]
        /\ d = (k = Ops \/ (Alive(iface) /\ k \in world.subscribed))
        /\ v = (~f /\ ~d)
        /\ z = Do("latch", <<k, v>>) /\ b = <<z>>
  OBVIOUS
<1>2. /\ At(t, "unsubscribe") /\ Continue(t, b)
      /\ world' = IF d THEN [world EXCEPT !.subscribed = @ \ {k}] ELSE world
      /\ UNCHANGED <<iface, registered, cbs>>
  BY <1>1 DEF UnregisterThunderNotificationLocked, AfterUnregister, link, lists
<1>3. PICK w \in Code : w.op = "unsubscribe" /\ w.arg = Arg(t)
  BY <1>2, AtArg
<1>4. Arg(t) \in List \X BOOLEAN
  BY <1>3, CodeFacts
<1>5. k \in List /\ f \in BOOLEAN /\ d \in BOOLEAN /\ v \in BOOLEAN
  BY <1>1, <1>4
<1>6. /\ z = IF v THEN LatchOn(k) ELSE LatchOff(k)
      /\ b \in Seq(Code) /\ \A y : Includes(b, y) <=> y = z
  <2>1. z = Do("latch", <<k, v>>) /\ b = <<z>>
    BY <1>1
  <2> QED BY <1>5, <2>1, AskedBody
<1>7. PICK x \in Code : x.op = "unsubscribe" /\ x.arg = Arg(t) /\ Does(t, x, b)
  BY <1>2, <1>6, Doing
<1>8. x = IF f THEN LeaveForced(k) ELSE Leave(k)
  BY <1>1, <1>7, UpdateShapes
<1>9. /\ Alive(iface)' <=> Alive(iface)
      /\ world'.subscribed = IF d THEN world.subscribed \ {k} ELSE world.subscribed
  BY <1>2 DEF ClientInv, Values, WorldOK, Alive
<1>10. CASE k # l
  <2>1. x \notin Relevant(l) /\ \A y \in Relevant(l) : ~Includes(b, y)
    BY <1>6, <1>8, <1>10, OthersRelevant
  <2>2. l \in world'.subscribed <=> l \in world.subscribed
    BY <1>9, <1>10
  <2> QED BY <1>2, <1>7, <1>9, <2>1, <2>2, DoesFrame
<1>11. CASE k = l
  <2>1. /\ Leave(l) \in Updates(l) /\ LeaveForced(l) \in Updates(l)
        /\ LatchOn(l) \in Updates(l) /\ LatchOff(l) \in Updates(l)
        /\ Subscribe(l) \in Updates(l)
    BY DEF Updates
  <2>2. x \in Updates(l) /\ z \in Updates(l) /\ z \in {LatchOn(l), LatchOff(l)}
    BY <1>6, <1>8, <1>11, <2>1
  <2>3. x \notin {Subscribe(l), LatchOn(l), LatchOff(l)}
    BY <1>8, <1>11, Different
  <2>4. /\ \A u \in Thread : Has(u, Release)' =>
              Has(u, Unregister(l))' \/ (u = t /\ x \in {LeaveForced(l), LatchOff(l)})
        /\ \A u \in Thread : \A y \in {Register(l), Release} : Has(u, y) => Has(u, y)'
        /\ \A u \in Thread : \A y \in Updates(l) : Has(u, y) => y = x
        /\ \A u \in Thread : \A y \in Updates(l) : Has(u, y)' => y = z
        /\ iface # 0 /\ OneUpdates(l)'
    BY <1>6, <1>7, <2>2, UpdateLeaves
  <2>5. Has(t, z)'
    <3>1. IsOperation(z)
      BY <2>2, RelevantFacts
    <3> QED BY <1>6, <1>7, <3>1, DoesKeeps
  <2>6. Unregisters(l)'
    <3>1. x = LeaveForced(l) => z = LatchOff(l)
      BY <1>1, <1>5, <1>6, <1>8, <1>11, Different
    <3>2. \A u \in Thread : Has(u, Release)' => Has(u, Unregister(l))' \/ Has(u, LatchOff(l))'
      BY <2>3, <2>4, <2>5, <3>1
    <3> QED BY <3>2 DEF Unregisters
  <2>7. registered[l] /\ (~Alive(iface) \/ l \in world.subscribed)
    <3>1. registered[l]
      BY <1>7, <1>8, <1>11 DEF ListInv, KnownInPlugin, Does
    <3> QED BY <2>1, <2>3, <2>4, <3>1 DEF ListInv, KnownInPlugin
  <2>8. l # Ops
    BY DEF Subscribable
  <2>9. v => ~Alive(iface)'
    BY <1>1, <1>9, <1>11, <2>7, <2>8
  <2>10. ~v => z = LatchOff(l)
    BY <1>6, <1>11
  <2>11. \A u \in Thread : Has(u, LatchOn(l))' => v
    BY <1>6, <1>11, <2>1, <2>4, Different
  <2>12. \A u \in Thread : ~Has(u, Leave(l))' /\ ~Has(u, LeaveForced(l))'
    BY <2>1, <2>2, <2>4, Different
  <2>13. KnownInPlugin(l)'
    <3>1. iface' # 0
      BY <1>2, <2>4
    <3> QED BY <2>5, <2>9, <2>10, <2>11, <2>12, <3>1 DEF KnownInPlugin
  <2>14. WillSubscribe(l)'
    <3>1. CASE ~d
      <4>1. ~Alive(iface)'
        BY <1>1, <1>9, <1>11, <2>7, <3>1
      <4> QED BY <1>2, <4>1 DEF WillSubscribe
    <3>2. CASE x = LeaveForced(l)
      <4>1. Includes(todo[t], LeaveForced(l)) /\ l \in List
        BY <1>7, <3>2 DEF Does, Has, Subscribable
      <4>2. Has(t, Release)
        BY <4>1 DEF StackInv, Stack, ReleasesLast, Has
      <4>3. Has(t, Release)'
        BY <2>4, <4>2
      <4> QED BY <4>3 DEF WillSubscribe
    <3>3. CASE x = Leave(l)
      <4> SUFFICES ASSUME cbs[l] # {} PROVE \E u \in Thread : Has(u, Register(l))'
        BY <1>2 DEF WillSubscribe
      <4>1. Has(t, Leave(l))
        BY <1>7, <3>3 DEF Does
      <4>2. \E u \in Thread : Has(u, Register(l))
        BY <4>1 DEF ListInv, UnusedLeaves
      <4> QED BY <2>4, <4>2
    <3> QED BY <1>8, <1>11, <3>2, <3>3
  <2>15. UnusedLeaves(l)'
    BY <2>12 DEF UnusedLeaves
  <2> QED BY <2>4, <2>6, <2>13, <2>14, <2>15 DEF ListInv
<1> QED BY <1>10, <1>11

LEMMA LatchKeepsList ==
  ASSUME ClientInv, StackInv, NEW t \in Thread, Latch(t),
         NEW l \in Subscribable, ListInv(l)
  PROVE  ListInv(l)'
<1>1. PICK k, v, b : k = Arg(t)[1] /\ v = Arg(t)[2] /\ b = <<>>
  OBVIOUS
<1>2. /\ At(t, "latch") /\ Continue(t, b)
      /\ registered' = [registered EXCEPT ![k] = v]
      /\ UNCHANGED <<iface, cbs, world>>
  BY <1>1 DEF Latch, link
<1>3. PICK w \in Code : w.op = "latch" /\ w.arg = Arg(t)
  BY <1>2, AtArg
<1>4. Arg(t) \in List \X BOOLEAN
  BY <1>3, CodeFacts
<1>5. k \in List /\ v \in BOOLEAN /\ registered \in [List -> BOOLEAN]
  BY <1>1, <1>4 DEF ClientInv, Values, TypeOK
<1>6. b \in Seq(Code) /\ \A y : ~Includes(b, y)
  BY <1>1, EmptyIncludes
<1>7. PICK x \in Code : x.op = "latch" /\ x.arg = Arg(t) /\ Does(t, x, b)
  BY <1>2, <1>6, Doing
<1>8. x = IF v THEN LatchOn(k) ELSE LatchOff(k)
  BY <1>1, <1>7, UpdateShapes
<1>9. /\ Alive(iface)' <=> Alive(iface)
      /\ registered'[l] = IF k = l THEN v ELSE registered[l]
  BY <1>2, <1>5 DEF Alive, Subscribable
<1>10. CASE k # l
  <2>1. x \notin Relevant(l)
    BY <1>8, <1>10, OthersRelevant
  <2> QED BY <1>2, <1>6, <1>7, <1>9, <1>10, <2>1, DoesFrame
<1>11. CASE k = l
  <2>1. LatchOn(l) \in Updates(l) /\ LatchOff(l) \in Updates(l)
    BY DEF Updates
  <2>2. x \in Updates(l)
    BY <1>8, <1>11, <2>1
  <2>3. x \notin {Leave(l), LeaveForced(l)} /\ (x = LatchOff(l) => ~v)
    BY <1>8, <1>11, Different
  <2>4. /\ \A u \in Thread : Has(u, Release)' =>
              Has(u, Unregister(l))' \/ (u = t /\ x \in {LeaveForced(l), LatchOff(l)})
        /\ \A u \in Thread : \A y \in {Register(l), Release} : Has(u, y) => Has(u, y)'
        /\ \A u \in Thread : \A y \in Updates(l) : Has(u, y) => y = x
        /\ \A u \in Thread : \A y \in Updates(l) : ~Has(u, y)'
        /\ iface # 0 /\ OneUpdates(l)'
    BY <1>6, <1>7, <2>2, UpdateLeaves
  <2>5. \A u \in Thread : ~Mid(u, l)'
    BY <2>4 DEF Mid
  <2>6. Unregisters(l)'
    BY <1>9, <1>11, <2>3, <2>4, <2>5 DEF Unregisters
  <2>7. /\ Leave(l) \in Updates(l) /\ LeaveForced(l) \in Updates(l)
        /\ Subscribe(l) \in Updates(l)
    BY DEF Updates
  <2>8. v => ~Alive(iface) \/ l \in world.subscribed
    BY <1>7, <1>8, <1>11 DEF ListInv, KnownInPlugin, Does
  <2>9. KnownInPlugin(l)'
    BY <1>2, <1>9, <1>11, <2>1, <2>4, <2>5, <2>7, <2>8 DEF KnownInPlugin
  <2>10. Subscribe(l) # x
    BY <1>8, <1>11, Different
  <2>11. WillSubscribe(l)'
    BY <1>2, <1>9, <2>4, <2>7, <2>10 DEF ListInv, WillSubscribe
  <2>12. UnusedLeaves(l)'
    BY <2>4, <2>7 DEF UnusedLeaves
  <2> QED BY <2>4, <2>6, <2>9, <2>11, <2>12 DEF ListInv
<1> QED BY <1>10, <1>11

----------------------------------------------------------------------------
(* One list through the steps on the interface and on the instance.        *)

LEMMA AttachKeepsList ==
  ASSUME ClientInv, StackInv, NEW t \in Thread, Attach(t),
         NEW l \in Subscribable, ListInv(l)
  PROVE  ListInv(l)'
<1>1. PICK r, b : /\ r = SubscribeAllNotificationsLocked
                  /\ b = IF iface' # iface THEN r ELSE <<>>
  OBVIOUS
<1>2. /\ At(t, "attach") /\ Continue(t, b)
      /\ iface' = IF iface = 0 /\ Alive(world.reported) THEN world.plugin ELSE iface
      /\ UNCHANGED <<registered, cbs, world>>
  BY <1>1 DEF Attach, lists
<1>3. /\ r \in Seq(Code)
      /\ \A i \in DOMAIN r : \E k \in Subscribable : r[i] = Register(k)
      /\ Includes(r, Register(l))
  BY <1>1, RegistersAll DEF Part
<1>4. b \in Seq(Code)
  BY <1>1, <1>3
<1>5. PICK x \in Code : x.op = "attach" /\ Does(t, x, b)
  BY <1>2, <1>4, Doing
<1>6. x \notin Relevant(l)
  BY <1>5, RelevantFacts DEF Updating, Midway
<1>7. CASE iface' = iface
  <2>1. \A y : ~Includes(b, y)
    BY <1>1, <1>7, EmptyIncludes
  <2>2. Alive(iface)' <=> Alive(iface)
    BY <1>2, <1>7 DEF Alive
  <2> QED BY <1>2, <1>5, <1>6, <1>7, <2>1, <2>2, DoesFrame
<1>8. CASE iface' # iface
  <2>1. iface = 0 /\ b = r
    BY <1>1, <1>2, <1>8
  <2>2. ~registered[l] /\ \A u \in Thread : ~Mid(u, l)
    BY <2>1 DEF ListInv, KnownInPlugin
  <2>3. x \notin Updates(l)
    BY <1>6, RelevantFacts
  <2>4. /\ \A u \in Thread : \A y \in Updates(l) : Has(u, y)' => u = t /\ Includes(b, y)
        /\ OneUpdates(l)'
    BY <1>5, <2>2, DoesUpdates
  <2>5. \A y \in Updates(l) : ~Includes(b, y)
    <3> SUFFICES ASSUME NEW y \in Updates(l), Includes(b, y) PROVE FALSE
      OBVIOUS
    <3>1. PICK k \in Subscribable : y = Register(k)
      BY <1>3, <2>1 DEF Includes
    <3> QED BY <3>1, RelevantFacts, InstructionFacts DEF Midway
  <2>6. \A u \in Thread : \A y \in Updates(l) : ~Has(u, y)'
    BY <2>4, <2>5
  <2>7. \A u \in Thread : ~Mid(u, l)'
    BY <2>6 DEF Mid
  <2>8. Leave(l) \in Updates(l) /\ LeaveForced(l) \in Updates(l) /\ LatchOn(l) \in Updates(l)
    BY DEF Updates
  <2>9. Has(t, Register(l))'
    BY <1>3, <1>5, <2>1, DoesKeeps, Different
  <2>10. ~registered'[l]
    BY <1>2, <2>2
  <2>11. Unregisters(l)' /\ KnownInPlugin(l)'
    BY <2>6, <2>7, <2>8, <2>10 DEF Unregisters, KnownInPlugin
  <2>12. WillSubscribe(l)' /\ UnusedLeaves(l)'
    BY <2>9 DEF WillSubscribe, UnusedLeaves
  <2> QED BY <2>4, <2>11, <2>12 DEF ListInv
<1> QED BY <1>7, <1>8

LEMMA DetachKeepsList ==
  ASSUME ClientInv, StackInv, NEW t \in Thread, Detach(t),
         NEW l \in Subscribable, ListInv(l)
  PROVE  ListInv(l)'
<1>1. PICK r, b : /\ r = Append(UnsubscribeAllNotificationsLocked, Do("drop", 0))
                  /\ b = IF iface # 0 THEN r ELSE <<>>
  OBVIOUS
<1>2. /\ At(t, "detach") /\ Continue(t, b)
      /\ UNCHANGED <<iface, registered, cbs, world>>
  BY <1>1 DEF Detach, lists, link
<1>3. /\ r \in Seq(Code)
      /\ \E n \in Nat : /\ DOMAIN r = 1 .. n + 1 /\ r[n + 1] = Release
                        /\ \A i \in 1 .. n : \E k \in Subscribable : r[i] = Unregister(k)
      /\ Includes(r, Unregister(l))
  BY <1>1, UnregistersAll
<1>4. b \in Seq(Code)
  BY <1>1, <1>3
<1>5. PICK x \in Code : x.op = "detach" /\ Does(t, x, b)
  BY <1>2, <1>4, Doing
<1>6. x \notin Relevant(l)
  BY <1>5, RelevantFacts DEF Updating, Midway
<1>7. Alive(iface)' <=> Alive(iface)
  BY <1>2 DEF Alive
<1>8. CASE iface = 0
  <2>1. \A y : ~Includes(b, y)
    BY <1>1, <1>8, EmptyIncludes
  <2> QED BY <1>2, <1>5, <1>6, <1>7, <2>1, DoesFrame
<1>9. CASE iface # 0
  <2>1. b = r
    BY <1>1, <1>9
  <2>2. \A y : Includes(b, y) => y = Release \/ \E k \in Subscribable : y = Unregister(k)
    <3>1. PICK n \in Nat : /\ DOMAIN r = 1 .. n + 1 /\ r[n + 1] = Release
                           /\ \A i \in 1 .. n : \E k \in Subscribable : r[i] = Unregister(k)
      BY <1>3
    <3>2. \A i \in 1 .. n + 1 : i \in 1 .. n \/ i = n + 1
      OBVIOUS
    <3> QED BY <2>1, <3>1, <3>2 DEF Includes
  <2>3. ASSUME NEW y, y \in Updates(l) \cup {Register(l)}
        PROVE  ~Includes(b, y) /\ IsOperation(y) /\ y # x
    <3>1. y.op \in Midway \cup {"register"} /\ IsOperation(y) /\ y # x
      BY <1>6, <2>3, RelevantFacts, InstructionFacts DEF Relevant
    <3> QED BY <2>2, <3>1, InstructionFacts DEF Midway
  <2>4. \A u \in Thread : \A y \in Updates(l) \cup {Register(l)} : Has(u, y)' <=> Has(u, y)
    BY <1>5, <2>3, DoesKeeps
  <2>5. \A u \in Thread : Mid(u, l)' <=> Mid(u, l)
    BY <2>4 DEF Mid
  <2>6. /\ Leave(l) \in Updates(l) /\ LeaveForced(l) \in Updates(l)
        /\ LatchOn(l) \in Updates(l) /\ LatchOff(l) \in Updates(l)
        /\ Subscribe(l) \in Updates(l)
    BY DEF Updates
  <2>7. Has(t, Unregister(l))'
    BY <1>3, <1>5, <2>1, DoesKeeps, Different
  <2>8. \A u \in Thread : Has(u, Release) => Has(u, Release)'
    BY <1>5, <1>6, DoesKeeps, Different DEF Relevant
  <2>9. Unregisters(l)'
    <3> SUFFICES ASSUME NEW u \in Thread, u # t, Has(u, Release)'
                 PROVE  \/ Has(u, Unregister(l))' \/ Has(u, LeaveForced(l))' \/ Has(u, LatchOff(l))'
                        \/ ~registered'[l] /\ \A v \in Thread : ~Mid(v, l)'
      BY <2>7 DEF Unregisters
    <3>1. Has(u, Release) /\ (Has(u, Unregister(l))' <=> Has(u, Unregister(l)))
      BY <1>5 DEF Does
    <3> QED BY <1>2, <2>4, <2>5, <2>6, <3>1 DEF ListInv, Unregisters
  <2>10. OneUpdates(l)' /\ KnownInPlugin(l)'
    BY <1>2, <1>7, <2>4, <2>5, <2>6 DEF ListInv, OneUpdates, KnownInPlugin
  <2>11. WillSubscribe(l)' /\ UnusedLeaves(l)'
    BY <1>2, <1>7, <2>4, <2>6, <2>8 DEF ListInv, WillSubscribe, UnusedLeaves
  <2> QED BY <2>9, <2>10, <2>11 DEF ListInv
<1> QED BY <1>8, <1>9

LEMMA DropKeepsList ==
  ASSUME ClientInv, StackInv, NEW t \in Thread, Drop(t),
         NEW l \in Subscribable, ListInv(l)
  PROVE  ListInv(l)'
<1>1. PICK b \in Seq(Code) : b = <<>> /\ \A y : ~Includes(b, y)
  <2>1. <<>> \in Seq(Code) /\ \A y : ~Includes(<<>>, y)
    BY EmptyIncludes
  <2> WITNESS <<>> \in Seq(Code)
  <2> QED BY <2>1
<1>2. At(t, "drop") /\ Continue(t, b) /\ iface' = 0 /\ UNCHANGED registered
  BY <1>1 DEF Drop, lists
<1>3. PICK x \in Code : x.op = "drop" /\ Does(t, x, b)
  BY <1>1, <1>2, Doing
<1>4. x = Release
  BY <1>3, UpdateShapes
<1>5. ~Has(t, Unregister(l)) /\ Has(t, Release)
  BY <1>3, <1>4 DEF Does, Subscribable
<1>6. LeaveForced(l) \in Updates(l) /\ LatchOff(l) \in Updates(l)
  BY DEF Updates
<1>7. x \notin Updates(l)
  BY <1>4, Different
<1>8. \A y \in Updates(l) : ~Has(t, y)
  BY <1>3, <1>7, RelevantFacts DEF Does
<1>9. ~registered[l] /\ \A u \in Thread : ~Mid(u, l)
  BY <1>5, <1>6, <1>8 DEF ListInv, Unregisters
<1>10. \A u \in Thread : \A y \in Updates(l) : ~Has(u, y)'
  BY <1>3, <1>9, DoesUpdates, <1>1
<1> QED BY <1>2, <1>9, <1>10, ListBlank DEF Mid

\* The instance goes with both locks held.
LEMMA DeleteHolds ==
  ASSUME ClientInv, StackInv, NEW t \in Thread, At(t, "delete")
  PROVE  \A l \in Connection : \A u \in Thread \ {t} : ~Holds(u, l)
<1>1. PICK s, p : s = todo[t] /\ p = Place(t)
  OBVIOUS
<1>2. /\ Disciplined(Code, ClientLocks) /\ s \in Seq(Code) /\ p \in DOMAIN s
      /\ s[p].op = "delete"
      /\ \A l : l \notin {Again, Own} /\ GivesBack(Rest(t), l)
           => \A u \in Thread \ {t} : ~Holds(u, l)
  <2>1. Disciplined(Code, ClientLocks)
    BY DEF ClientInv
  <2> QED BY <1>1, <2>1, PlainCode, AtFacts
<1>3. \A l \in Connection : GivesBack(Rest(t), l)
  <2> SUFFICES ASSUME NEW l \in Connection PROVE GivesBack(Rest(t), l)
    OBVIOUS
  <2>1. HeldAfter(s, p, l)
    BY <1>1, <1>2 DEF StackInv, Stack, Covered, Connection
  <2>2. p + 1 \in 1 .. Len(s) + 1 /\ (p + 1) - 1 = p
    <3>1. DOMAIN s = 1 .. Len(s) /\ Len(s) \in Nat
      BY <1>2, LenProperties
    <3> QED BY <1>2, <3>1
  <2>3. Rest(t) = SubSeq(s, p + 1, Len(s))
    BY <1>1 DEF Rest
  <2> QED BY <1>2, <2>1, <2>2, <2>3, SuffixHeld
<1> QED BY <1>2, <1>3, Traceable DEF Connection

\* Nobody updates a list then.
LEMMA DeleteAlone ==
  ASSUME ClientInv, StackInv, NEW t \in Thread, At(t, "delete")
  PROVE  \A u \in Thread : \A l : ~Mid(u, l)
<1>1. PICK s, p : s = todo[t] /\ p = Place(t)
  OBVIOUS
<1>2. Disciplined(Code, ClientLocks) /\ s[p].op = "delete"
  BY <1>1 DEF At, ClientInv
<1>3. \A l \in Connection : \A u \in Thread \ {t} : ~Holds(u, l)
  BY DeleteHolds
<1>4. ASSUME NEW u \in Thread, NEW l, NEW y \in Updates(l), Has(u, y)
      PROVE  FALSE
  <2>1. PICK i \in DOMAIN todo[u] : todo[u][i] = y
    BY <1>4 DEF Has, Includes
  <2>2. y.op \in Midway
    BY RelevantFacts
  <2>3. i = 1
    BY <2>1, <2>2 DEF StackInv, Stack, Foremost
  <2>4. CASE u # t
    <3>1. \E m \in Connection : HeldAfter(todo[u], 1, m)
      BY <2>1, <2>2, <2>3 DEF StackInv, Stack, Covered, Updating, Connection
    <3>2. PICK m \in Connection : HeldAfter(todo[u], 1, m)
      BY <3>1
    <3>3. PICK j \in DOMAIN todo[u] :
            /\ j > 1 /\ todo[u][j] = Do("unlock", m)
            /\ \A k \in 1 + 1 .. j - 1 : todo[u][k] # Do("lock", m)
      BY <3>2 DEF HeldAfter
    <3>4. todo[u] \in Seq(Code)
      BY <1>2, <2>4 DEF Disciplined
    <3>5. DOMAIN todo[u] = 1 .. Len(todo[u]) /\ Len(todo[u]) \in Nat
      BY <3>4, LenProperties
    <3>6. \A k \in 1 .. j - 1 : k = 1 \/ k \in 1 + 1 .. j - 1
      BY <3>5
    <3>7. todo[u][1] # Do("lock", m)
      BY <2>1, <2>2, <2>3, DoFacts DEF Midway
    <3>8. Holds(u, m)
      BY <3>3, <3>6, <3>7 DEF Holds, GivesBack
    <3> QED BY <1>3, <2>4, <3>8
  <2>5. CASE u = t
    <3>1. s[1].op \in Midway
      BY <1>1, <2>1, <2>2, <2>3, <2>5
    <3>2. p = 1
      BY <1>1, <3>1 DEF Place, Midway
    <3> QED BY <1>2, <3>1, <3>2 DEF Midway
  <2> QED BY <2>4, <2>5
<1> QED BY <1>4 DEF Mid

LEMMA DeleteKeepsList ==
  ASSUME ClientInv, StackInv, NEW t \in Thread, Delete(t),
         NEW l \in Subscribable, ListInv(l)
  PROVE  ListInv(l)'
<1>1. PICK b \in Seq(Code) : b = <<>> /\ \A y : ~Includes(b, y)
  <2>1. <<>> \in Seq(Code) /\ \A y : ~Includes(<<>>, y)
    BY EmptyIncludes
  <2> WITNESS <<>> \in Seq(Code)
  <2> QED BY <2>1
<1>2. /\ At(t, "delete") /\ Continue(t, b)
      /\ cbs' = [k \in List |-> {}] /\ registered' = [k \in List |-> FALSE]
  BY <1>1 DEF Delete
<1>3. PICK x \in Code : x.op = "delete" /\ Does(t, x, b)
  BY <1>1, <1>2, Doing
<1>4. \A u \in Thread : ~Mid(u, l)
  BY <1>2, DeleteAlone
<1>5. \A u \in Thread : \A y \in Updates(l) : ~Has(u, y)'
  BY <1>3, <1>4, DoesUpdates, <1>1
<1>6. ~registered'[l] /\ cbs'[l] = {}
  BY <1>2 DEF Subscribable
<1> QED BY <1>5, <1>6, ListBlank DEF Mid

\* The operations that concern a list.
Listed == {"add", "remove", "register", "unregister", "subscribe", "unsubscribe",
           "latch", "attach", "detach", "drop"}

\* The other ones go on with nothing that does.
LEMMA NothingRelevant ==
  ASSUME NEW x, NEW b, Body(x, b), x.op \notin Listed, NEW l
  PROVE  /\ x \notin Relevant(l)
         /\ \A y \in Relevant(l) : ~Includes(b, y)
<1>1. x \notin Relevant(l)
  BY RelevantFacts DEF Listed, Updating, Midway
<1>2. ASSUME NEW y \in Relevant(l), NEW i \in DOMAIN b, b[i] = y
      PROVE  FALSE
  <2>1. MayCall(x.op, y.op)
    BY <1>2, RelevantFacts DEF Body
  <2>2. y.op \in Updating \cup {"drop"}
    BY <1>2, RelevantFacts
  <2> QED BY <2>1, <2>2 DEF MayCall, Listed, Updating, Midway
<1> QED BY <1>1, <1>2 DEF Includes

\* What t does next is x, which goes on with b.
LEMMA PerformsDoes ==
  ASSUME ClientInv, StackInv, NEW t \in Thread, NEW x, NEW b, Performs(t, x, b)
  PROVE  Does(t, x, b)
<1>1. At(t, x.op) /\ Continue(t, b) /\ b \in Seq(Code) /\ x.op \notin {"lock", "unlock"}
  BY DEF Performs, Body, IsOperation
<1>2. PICK w \in Code : w.op = x.op /\ w.arg = Arg(t) /\ Does(t, w, b)
  BY <1>1, Doing
<1>3. x \in Code /\ x.arg = Arg(t)
  BY DEF Performs, Arg
<1>4. x = w
  <2>1. x = Do(x.op, x.arg) /\ w = Do(w.op, w.arg)
    BY <1>3, CodeShape
  <2> QED BY <1>2, <1>3, <2>1
<1> QED BY <1>2, <1>4

LEMMA AtOne ==
  ASSUME NEW t, NEW op, At(t, op), NEW o, At(t, o)
  PROVE  op = o
BY DEF At

LEMMA UnlistedKeepsList ==
  ASSUME ClientInv, StackInv, NEW t \in Thread, NEW x, NEW b, Performs(t, x, b),
         x.op \notin Listed, NEW l \in Subscribable, ListInv(l),
         registered' = registered, iface' = iface, cbs' = cbs,
         Alive(iface)' <=> Alive(iface), world'.subscribed = world.subscribed
  PROVE  ListInv(l)'
<1>1. Does(t, x, b)
  BY PerformsDoes
<1>2. Body(x, b)
  BY DEF Performs
<1>3. x \notin Relevant(l) /\ \A y \in Relevant(l) : ~Includes(b, y)
  BY <1>2, NothingRelevant
<1> QED BY <1>1, <1>3, DoesFrame

LEMMA NewKeepsList ==
  ASSUME ClientInv, StackInv, InstanceInv, NEW t \in Thread, New(t),
         NEW l \in Subscribable, ListInv(l)
  PROVE  ListInv(l)'
<1>1. At(t, "new") /\ UNCHANGED <<registered, cbs, world>>
  BY DEF New, lists
<1>2. PICK x, b : Performs(t, x, b)
  BY InterfacePerforms
<1>3. x.op = "new"
  BY <1>1, <1>2, AtOne DEF Performs
<1>4. CASE instance
  <2>1. iface' = iface /\ (Alive(iface)' <=> Alive(iface))
    BY <1>1, <1>4 DEF New, link, Alive
  <2> QED BY <1>1, <1>2, <1>3, <2>1, UnlistedKeepsList DEF Listed
<1>5. CASE ~instance
  <2>1. iface' = 0
    BY <1>5 DEF New
  <2>2. ~registered[l] /\ \A u \in Thread : ~Mid(u, l)
    BY <1>5 DEF InstanceInv, NothingWithout, Subscribable
  <2>3. Does(t, x, b) /\ Body(x, b)
    BY <1>2, PerformsDoes DEF Performs
  <2>4. \A y \in Relevant(l) : ~Includes(b, y)
    BY <1>3, <2>3, NothingRelevant DEF Listed
  <2>5. \A u \in Thread : \A y \in Updates(l) : ~Has(u, y)'
    BY <2>2, <2>3, <2>4, DoesUpdates, RelevantFacts
  <2> QED BY <1>1, <2>1, <2>2, <2>5, ListBlank DEF Mid
<1> QED BY <1>4, <1>5

LEMMA AcquireKeepsList ==
  ASSUME ClientInv, NEW t \in Thread, Acquire(t), NEW l \in Subscribable, ListInv(l),
         registered' = registered, iface' = iface, cbs' = cbs,
         Alive(iface)' <=> Alive(iface), world'.subscribed = world.subscribed
  PROVE  ListInv(l)'
<1>1. ASSUME NEW u \in Thread, NEW y \in Relevant(l)
      PROVE  Has(u, y)' <=> Has(u, y)
  <2>1. IsOperation(y)
    BY RelevantFacts
  <2>2. CASE u = t
    BY <2>1, <2>2, AcquireGoes DEF Has
  <2>3. CASE u # t
    BY <2>3, AcquireGoes DEF Has
  <2> QED BY <2>2, <2>3
<1> QED BY <1>1, ListFrame

\* The steps that leave the lists alone.
LEMMA OtherKeepsList ==
  ASSUME ClientInv, StackInv, NEW t \in Thread, Step(t),
         \/ Tell(t) \/ Connect(t) \/ Disconnect(t) \/ Closed(t) \/ Stop(t) \/ Join(t)
         \/ PidStored(t) \/ Destroy(t) \/ Instance(t) \/ MarkInitialized(t)
         \/ IfInitialized(t) \/ Notify(t) \/ Proxy(t) \/ Return(t) \/ UserCallback(t),
         NEW l \in Subscribable, ListInv(l)
  PROVE  ListInv(l)'
<1>1. /\ registered' = registered /\ iface' = iface /\ cbs' = cbs
      /\ world'.up = world.up /\ world'.plugin = world.plugin
      /\ world'.subscribed = world.subscribed
  <2>1. CASE Connect(t) \/ Disconnect(t)
    BY <2>1 DEF Connect, Disconnect, link, lists, ClientInv, Values, WorldOK
  <2>2. CASE \/ Tell(t) \/ Closed(t) \/ Stop(t) \/ Join(t)
             \/ PidStored(t) \/ Destroy(t) \/ Instance(t) \/ MarkInitialized(t)
             \/ IfInitialized(t) \/ Notify(t) \/ Proxy(t) \/ Return(t) \/ UserCallback(t)
    BY <2>2 DEF Tell, Closed, Stop, Join, PidStored, Destroy, Instance, MarkInitialized,
                IfInitialized, Notify, Proxy, Return, UserCallback, link, lists
  <2> QED BY <2>1, <2>2
<1>2. PICK op : At(t, op) /\ op \notin Listed \cup {"lock"}
  <2>1. \E op \in {"tell", "open", "close", "closed", "stop", "join", "pid", "destroy",
                   "instance", "mark", "guarded", "notify", "proxy", "invoke", "call"} :
          At(t, op)
    BY DEF Tell, Connect, Disconnect, Closed, Stop, Join, PidStored, Destroy, Instance,
           MarkInitialized, IfInitialized, Notify, Proxy, Return, UserCallback
  <2> QED BY <2>1 DEF Listed
<1>3. Alive(iface)' <=> Alive(iface)
  BY <1>1 DEF Alive
<1>4. CASE Acquire(t)
  BY <1>1, <1>3, <1>4, AcquireKeepsList
<1>5. ASSUME NEW x, NEW b, Performs(t, x, b)
      PROVE  ListInv(l)'
  <2>1. x.op = op
    BY <1>2, <1>5, AtOne DEF Performs
  <2> QED BY <1>1, <1>2, <1>3, <1>5, <2>1, UnlistedKeepsList
<1> QED BY <1>4, <1>5, StepPerforms

\* A thread that starts, and what the threads have no part in.
LEMMA StartKeepsList ==
  ASSUME ClientInv,
         \/ \E t \in App : ApplicationCalls(t)
         \/ handle_inotify_event \/ LinkReports \/ PluginNotifies,
         NEW l \in Subscribable, ListInv(l)
  PROVE  ListInv(l)'
<1>1. /\ registered' = registered /\ iface' = iface /\ cbs' = cbs
      /\ world'.up = world.up /\ world'.plugin = world.plugin
      /\ world'.subscribed = world.subscribed
  BY DEF ApplicationCalls, handle_inotify_event, LinkReports, PluginNotifies, link, lists,
         ClientInv, Values, WorldOK
<1>2. Alive(iface)' <=> Alive(iface)
  BY <1>1 DEF Alive
<1>3. PICK t, b : t \in Thread /\ Start(t, b) /\ Fresh(b)
  BY StartsFresh
<1>4. Became(t, b, <<>>) /\ todo[t] = <<>>
  BY <1>3, StartChanges DEF ClientInv
<1>5. ASSUME NEW u \in Thread, NEW y \in Relevant(l)
      PROVE  Has(u, y)' <=> Has(u, y)
  <2>1. IsOperation(y) /\ y.op \in Updating \cup {"drop"}
    BY RelevantFacts
  <2>2. CASE u = t
    <3>1. ~Includes(b, y)
      BY <1>3, <2>1 DEF Fresh, Includes
    <3> QED BY <1>4, <2>1, <2>2, <3>1, EmptyIncludes DEF Became, Has
  <2>3. CASE u # t
    BY <1>4, <2>3 DEF Became, Has
  <2> QED BY <2>2, <2>3
<1> QED BY <1>1, <1>2, <1>5, ListFrame

LEMMA OutsideKeepsList ==
  ASSUME ClientInv, WorldInv, Outside \/ monitorThread \/ UNCHANGED vars,
         NEW l \in Subscribable, ListInv(l)
  PROVE  ListInv(l)'
<1>1. /\ registered' = registered /\ iface' = iface /\ cbs' = cbs /\ todo' = todo
  BY DEF Outside, monitorThread, vars, link, lists
<1>2. Alive(iface)' => Alive(iface) /\ world'.subscribed = world.subscribed
  <2>1. world.plugin \in Int /\ iface \in Int
    BY CallsAssumption DEF ClientInv, Values, WorldOK, TypeOK
  <2>2. CASE UNCHANGED world
    BY <1>1, <2>2 DEF Alive
  <2>3. CASE PluginActivated
    <3>1. world'.plugin = world.plugin + 1
      BY <2>3 DEF PluginActivated, ClientInv, Values, WorldOK
    <3> QED BY <1>1, <2>1, <3>1 DEF Alive, WorldInv
  <2>4. CASE PluginDeactivated \/ ThunderRestarted
    <3>1. ~world'.up
      BY <2>4 DEF PluginDeactivated, ThunderRestarted, ClientInv, Values, WorldOK
    <3> QED BY <3>1 DEF Alive
  <2> QED BY <2>2, <2>3, <2>4 DEF Outside, monitorThread, vars
<1>3. \A u \in Thread : \A y \in Relevant(l) : Has(u, y)' <=> Has(u, y)
  BY <1>1 DEF Has
<1> QED BY <1>1, <1>2, <1>3, ListFrame

LEMMA ListsKept ==
  ASSUME ClientInv, StackInv, InstanceInv, WorldInv, [Next]_vars, ~raced',
         NEW l \in Subscribable, ListInv(l)
  PROVE  ListInv(l)'
<1>1. ASSUME NEW t \in Thread, Step(t)
      PROVE  ListInv(l)'
  <2>1. CASE TakeOuterLock(t)
    <3>1. /\ Acquire(t) /\ registered' = registered /\ iface' = iface /\ cbs' = cbs
          /\ world' = world
      BY <2>1 DEF TakeOuterLock, link, lists
    <3>2. Alive(iface)' <=> Alive(iface)
      BY <3>1 DEF Alive
    <3> QED BY <3>1, <3>2, AcquireKeepsList
  <2>2. CASE AddCallbackLocked(t) \/ RemoveCallbackLocked(t)
    BY <2>2, AddKeepsList, RemoveKeepsList
  <2>3. CASE \/ RegisterNotificationInternalLocked(t)
             \/ UnregisterNotificationInternalLocked(t)
    BY <2>3, RegisterKeepsList, UnregisterKeepsList
  <2>4. CASE \/ RegisterThunderNotificationLocked(t)
             \/ UnregisterThunderNotificationLocked(t) \/ Latch(t)
    BY <2>4, SubscribeKeepsList, UnsubscribeKeepsList, LatchKeepsList
  <2>5. CASE Attach(t) \/ Detach(t) \/ Drop(t)
    BY <2>5, AttachKeepsList, DetachKeepsList, DropKeepsList
  <2>6. CASE New(t) \/ Delete(t)
    BY <2>6, NewKeepsList, DeleteKeepsList
  <2>7. CASE \/ Tell(t) \/ Connect(t) \/ Disconnect(t) \/ Closed(t) \/ Stop(t) \/ Join(t)
             \/ PidStored(t) \/ Destroy(t) \/ Instance(t) \/ MarkInitialized(t)
             \/ IfInitialized(t) \/ Notify(t) \/ Proxy(t) \/ Return(t) \/ UserCallback(t)
    BY <1>1, <2>7, OtherKeepsList
  <2> QED BY <1>1, <2>1, <2>2, <2>3, <2>4, <2>5, <2>6, <2>7 DEF Step
<1>2. CASE \/ \E t \in App : ApplicationCalls(t)
           \/ handle_inotify_event \/ LinkReports \/ PluginNotifies
  BY <1>2, StartKeepsList
<1>3. CASE Outside \/ monitorThread \/ UNCHANGED vars
  BY <1>3, OutsideKeepsList
<1> QED BY <1>1, <1>2, <1>3 DEF Next

----------------------------------------------------------------------------
(* The instance, and the plugin the interface belongs to.                  *)

\* A callback is added to an instance that is there.
LEMMA AddedToInstance ==
  ASSUME ClientInv, StackInv, AddsToInstance, NEW t \in Thread, At(t, "add")
  PROVE  instance
<1>1. PICK s, p : s = todo[t] /\ p = Place(t)
  OBVIOUS
<1>2. s \in Seq(Code) /\ p \in DOMAIN s /\ s[p].op = "add"
  <2>1. Disciplined(Code, ClientLocks)
    BY DEF ClientInv
  <2> QED BY <1>1, <2>1, PlainCode, AtFacts
<1>3. InstanceFirst(s)
  BY <1>1 DEF StackInv, Stack
<1>4. HasOp(t, "add")
  BY <1>1, <1>2 DEF HasOp
<1>5. ASSUME NEW j \in DOMAIN s, s[j].op \in {"instance", "new"}
      PROVE  FALSE
  <2>1. j < p
    BY <1>2, <1>3, <1>5 DEF InstanceFirst
  <2>2. p = IF s[1].op = "lock" THEN 2 ELSE 1
    BY <1>1 DEF Place
  <2>3. j \in Nat /\ j >= 1
    BY <1>2, LenProperties
  <2>4. j = 1 /\ s[1].op = "lock"
    BY <2>1, <2>2, <2>3
  <2> QED BY <1>5, <2>4
<1> QED BY <1>1, <1>4, <1>5 DEF AddsToInstance, HasOp

\* Without an instance nothing happens to a list.
LEMMA NothingAsked ==
  ASSUME ClientInv, StackInv, NothingWithout, ~instance, NEW t \in Thread,
         RegisterNotificationInternalLocked(t) \/ UnregisterNotificationInternalLocked(t)
  PROVE  \A l \in List : \A u \in Thread : ~Mid(u, l)'
<1>1. PICK op \in {"register", "unregister"} :
        /\ At(t, op)
        /\ op = "register" => RegisterNotificationInternalLocked(t)
        /\ op = "unregister" => UnregisterNotificationInternalLocked(t)
  BY DEF RegisterNotificationInternalLocked, UnregisterNotificationInternalLocked
<1>2. PICK b \in Seq(Code) : b = <<>> /\ \A y : ~Includes(b, y)
  <2>1. <<>> \in Seq(Code) /\ \A y : ~Includes(<<>>, y)
    BY EmptyIncludes
  <2> WITNESS <<>> \in Seq(Code)
  <2> QED BY <2>1
<1>3. PICK z \in Code : z.op = op /\ z.arg = Arg(t)
  BY <1>1, AtArg
<1>4. Continue(t, b)
  <2>1. CASE op = "register"
    <3>1. Arg(t) \in List
      BY <1>3, <2>1, CodeFacts
    <3>2. cbs[Arg(t)] = {}
      BY <3>1 DEF NothingWithout
    <3> QED BY <1>1, <1>2, <2>1, <3>2 DEF RegisterNotificationInternalLocked
  <2>2. CASE op = "unregister"
    <3>1. Arg(t)[1] \in List
      BY <1>3, <2>2, UpdateShapes
    <3>2. ~registered[Arg(t)[1]]
      BY <3>1 DEF NothingWithout
    <3> QED BY <1>1, <1>2, <2>2, <3>2 DEF UnregisterNotificationInternalLocked
  <2> QED BY <2>1, <2>2
<1>5. PICK x \in Code : x.op = op /\ Does(t, x, b)
  BY <1>1, <1>2, <1>4, Doing
<1>6. ASSUME NEW l \in List
      PROVE  \A u \in Thread : ~Mid(u, l)'
  <2>1. \A u \in Thread \ {t} : ~Mid(u, l)
    BY DEF NothingWithout
  <2>2. \A u \in Thread : \A y \in Updates(l) : ~Has(u, y)'
    BY <1>2, <1>5, <2>1, DoesUpdates
  <2> QED BY <2>2 DEF Mid
<1> QED BY <1>6

\* No thread is in the middle of an update then.
LEMMA NothingMidway ==
  ASSUME ClientInv, StackInv, NothingWithout, ~instance, NEW t \in Thread,
         NEW op, At(t, op)
  PROVE  op \notin Midway
<1> SUFFICES ASSUME op \in Midway PROVE FALSE
  OBVIOUS
<1>1. Disciplined(Code, ClientLocks) /\ op \notin {"lock", "unlock"}
  BY DEF ClientInv, Midway
<1>2. PICK x \in Code : x.op = op /\ Has(t, x)
  <2>1. /\ Place(t) \in DOMAIN todo[t] /\ todo[t][Place(t)] \in Code
        /\ todo[t][Place(t)].op = op
    BY <1>1, PlainCode, AtFacts
  <2> QED BY <2>1 DEF Has, Includes
<1>3. x.arg[1] \in List /\ x \in Updates(x.arg[1])
  BY <1>2, UpdateShapes DEF Updates, Midway
<1> QED BY <1>2, <1>3 DEF NothingWithout, Mid

LEMMA NothingElse ==
  ASSUME ClientInv, StackInv, NothingWithout, ~instance, NEW t \in Thread,
         NEW x, NEW b, Performs(t, x, b), x.op \notin {"register", "unregister"}
  PROVE  \A l \in List : \A u \in Thread : ~Mid(u, l)'
<1>1. Does(t, x, b) /\ Body(x, b) /\ At(t, x.op)
  BY PerformsDoes DEF Performs
<1>2. x.op \notin Midway
  BY <1>1, NothingMidway
<1>3. ASSUME NEW l \in List
      PROVE  \A u \in Thread : ~Mid(u, l)'
  <2>1. \A y \in Updates(l) : ~Includes(b, y)
    <3> SUFFICES ASSUME NEW y \in Updates(l), Includes(b, y) PROVE FALSE
      OBVIOUS
    <3>1. MayCall(x.op, y.op) /\ y.op \in Midway
      BY <1>1, RelevantFacts DEF Body, Includes
    <3> QED BY <1>2, <3>1 DEF MayCall, Midway
  <2>2. \A u \in Thread \ {t} : ~Mid(u, l)
    BY DEF NothingWithout
  <2>3. \A u \in Thread : \A y \in Updates(l) : ~Has(u, y)'
    BY <1>1, <2>1, <2>2, DoesUpdates
  <2> QED BY <2>3 DEF Mid
<1> QED BY <1>3

\* The steps, by what they do to the instance and the lists.
LEMMA StepSorts ==
  ASSUME NEW t \in Thread, Step(t)
  PROVE  \/ TakeOuterLock(t)
         \/ /\ UNCHANGED <<instance, lists>>
            /\ \/ RegisterNotificationInternalLocked(t)
               \/ UnregisterNotificationInternalLocked(t)
         \/ AddCallbackLocked(t) \/ RemoveCallbackLocked(t) \/ Latch(t) \/ Delete(t)
         \/ New(t) \/ Instance(t)
         \/ /\ UNCHANGED <<instance, lists>>
            /\ \E op : /\ At(t, op)
                       /\ op \notin {"add", "remove", "register", "unregister", "latch",
                                     "instance", "new", "delete"}
<1>1. CASE \/ RegisterNotificationInternalLocked(t)
           \/ UnregisterNotificationInternalLocked(t)
  BY <1>1 DEF RegisterNotificationInternalLocked, UnregisterNotificationInternalLocked, library
<1>2. CASE \/ RegisterThunderNotificationLocked(t)
           \/ UnregisterThunderNotificationLocked(t)
           \/ Attach(t) \/ Detach(t) \/ Drop(t) \/ Tell(t) \/ Connect(t) \/ Disconnect(t)
           \/ Closed(t)
  <2>1. \E op \in {"subscribe", "unsubscribe", "attach", "detach", "drop", "tell", "open",
                   "close", "closed"} : At(t, op)
    BY <1>2 DEF RegisterThunderNotificationLocked, UnregisterThunderNotificationLocked,
       Attach, Detach, Drop, Tell, Connect, Disconnect, Closed
  <2>2. UNCHANGED <<instance, lists>>
    BY <1>2 DEF RegisterThunderNotificationLocked, UnregisterThunderNotificationLocked,
       Attach, Detach, Drop, Tell, Connect, Disconnect, Closed, library
  <2> QED BY <2>1, <2>2
<1>3. CASE \/ Stop(t) \/ Join(t) \/ PidStored(t) \/ Destroy(t) \/ MarkInitialized(t)
           \/ IfInitialized(t) \/ Notify(t) \/ Proxy(t) \/ Return(t) \/ UserCallback(t)
  <2>1. \E op \in {"stop", "join", "pid", "destroy", "mark", "guarded", "notify", "proxy",
                   "invoke", "call"} : At(t, op)
    BY <1>3 DEF Stop, Join, PidStored, Destroy, MarkInitialized, IfInitialized, Notify,
       Proxy, Return, UserCallback
  <2>2. UNCHANGED <<instance, lists>>
    BY <1>3 DEF Stop, Join, PidStored, Destroy, MarkInitialized, IfInitialized, Notify,
       Proxy, Return, UserCallback, library
  <2> QED BY <2>1, <2>2
<1> QED BY <1>1, <1>2, <1>3 DEF Step

LEMMA NothingKept ==
  ASSUME ClientInv, StackInv, InstanceInv, NEW t \in Thread, Step(t)
  PROVE  NothingWithout'
<1> USE DEF InstanceInv
<1>1. /\ registered \in [List -> BOOLEAN] /\ cbs \in [List -> SUBSET Callback]
  BY DEF ClientInv, Values, TypeOK
<1>2. CASE Delete(t)
  <2>1. /\ At(t, "delete") /\ Continue(t, <<>>)
        /\ cbs' = [l \in List |-> {}] /\ registered' = [l \in List |-> FALSE]
    BY <1>2 DEF Delete
  <2>2. PICK x : Performs(t, x, <<>>)
    BY <2>1, NonePerformed
  <2>3. Does(t, x, <<>>)
    BY <2>2, PerformsDoes
  <2>4. \A l : \A u \in Thread : \A y \in Updates(l) : ~Has(u, y)'
    <3> SUFFICES ASSUME NEW l PROVE \A u \in Thread : \A y \in Updates(l) : ~Has(u, y)'
      OBVIOUS
    <3>1. \A u \in Thread \ {t} : ~Mid(u, l)
      BY <2>1, DeleteAlone
    <3> QED BY <2>3, <3>1, DoesUpdates, EmptyIncludes
  <2> QED BY <2>1, <2>4 DEF NothingWithout, Mid
<1>3. CASE ~Delete(t)
  <2> SUFFICES ASSUME ~instance'
               PROVE  /\ \A l \in List : cbs'[l] = {} /\ ~registered'[l]
                      /\ \A l \in List : \A u \in Thread : ~Mid(u, l)'
    BY DEF NothingWithout
  <2>1. ~instance /\ ~AddCallbackLocked(t) /\ ~Latch(t) /\ ~New(t)
    <3>1. ~instance
      BY <1>3, StepSorts DEF AddCallbackLocked, RemoveCallbackLocked, Latch, New, Instance,
         TakeOuterLock, library
    <3>2. ~AddCallbackLocked(t)
      BY <3>1, AddedToInstance DEF AddCallbackLocked
    <3>3. ~Latch(t)
      BY <3>1, NothingMidway DEF Latch, Midway
    <3> QED BY <3>1, <3>2, <3>3 DEF New
  <2>2. \A l \in List : cbs[l] = {} /\ ~registered[l] /\ \A u \in Thread : ~Mid(u, l)
    BY <2>1 DEF NothingWithout
  <2>3. \A l \in List : cbs'[l] = {} /\ ~registered'[l]
    <3>1. CASE RemoveCallbackLocked(t)
      BY <1>1, <2>2, <3>1 DEF RemoveCallbackLocked
    <3>2. CASE UNCHANGED lists
      BY <2>2, <3>2 DEF lists
    <3> QED BY <1>3, <2>1, <3>1, <3>2, StepSorts DEF TakeOuterLock, Instance
  <2>4. CASE TakeOuterLock(t)
    <3>1. \A l \in List : \A y \in Updates(l) : IsOperation(y)
      BY RelevantFacts
    <3>2. \A l \in List : \A u \in Thread : \A y \in Updates(l) : Has(u, y)' <=> Has(u, y)
      BY <2>4, <3>1, AcquireGoes DEF TakeOuterLock, Has
    <3> QED BY <2>2, <2>3, <3>2 DEF Mid
  <2>5. CASE \/ RegisterNotificationInternalLocked(t)
             \/ UnregisterNotificationInternalLocked(t)
    BY <2>1, <2>3, <2>5, NothingAsked
  <2>6. ASSUME NEW op, At(t, op), op \notin {"register", "unregister"}
        PROVE  \A l \in List : \A u \in Thread : ~Mid(u, l)'
    <3>1. CASE Acquire(t)
      <4>1. \A l \in List : \A y \in Updates(l) : IsOperation(y)
        BY RelevantFacts
      <4>2. \A l \in List : \A u \in Thread : \A y \in Updates(l) : Has(u, y)' <=> Has(u, y)
        BY <3>1, <4>1, AcquireGoes DEF Has
      <4> QED BY <2>2, <4>2 DEF Mid
    <3>2. ASSUME NEW x, NEW b, Performs(t, x, b)
          PROVE  \A l \in List : \A u \in Thread : ~Mid(u, l)'
      <4>1. x.op = op
        BY <2>6, <3>2, AtOne DEF Performs
      <4> QED BY <2>1, <2>6, <3>2, <4>1, NothingElse
    <3> QED BY <3>1, <3>2, StepPerforms
  <2>7. \/ TakeOuterLock(t) \/ RegisterNotificationInternalLocked(t)
        \/ UnregisterNotificationInternalLocked(t)
        \/ \E op : At(t, op) /\ op \notin {"register", "unregister"}
    <3>1. CASE RemoveCallbackLocked(t)
      <4>1. At(t, "remove") /\ "remove" \notin {"register", "unregister"}
        BY <3>1 DEF RemoveCallbackLocked
      <4> QED BY <4>1
    <3>2. CASE Instance(t)
      <4>1. At(t, "instance") /\ "instance" \notin {"register", "unregister"}
        BY <3>2 DEF Instance
      <4> QED BY <4>1
    <3> QED BY <1>3, <2>1, <3>1, <3>2, StepSorts
  <2> QED BY <2>3, <2>4, <2>5, <2>6, <2>7
<1> QED BY <1>2, <1>3

\* The lock of the C functions is given back before it is taken again, unless
\* a function is about to take it.
LEMMA AboutToTake ==
  ASSUME ClientInv, NEW u \in Thread, ~Holds(u, "capi"), NEW i \in DOMAIN todo[u],
         IsOperation(todo[u][i]), HeldAfter(todo[u], i, "capi")
  PROVE  \E k \in 1 .. i - 1 : todo[u][k] = Do("lock", "capi")
<1>1. todo[u] \in Seq(Code)
  BY DEF ClientInv, Disciplined
<1>2. DOMAIN todo[u] = 1 .. Len(todo[u]) /\ Len(todo[u]) \in Nat
  BY <1>1, LenProperties
<1>3. PICK j \in DOMAIN todo[u] :
        /\ j > i /\ todo[u][j] = Do("unlock", "capi")
        /\ \A k \in i + 1 .. j - 1 : todo[u][k] # Do("lock", "capi")
  BY DEF HeldAfter
<1>4. PICK k \in 1 .. j - 1 : todo[u][k] = Do("lock", "capi")
  BY <1>3 DEF Holds, GivesBack
<1>5. k # i
  BY <1>4, DoFacts DEF IsOperation
<1>6. i \in Nat /\ j \in Nat /\ k \in Nat
  BY <1>2
<1>7. k \in 1 .. i - 1
  BY <1>3, <1>4, <1>5, <1>6
<1> QED BY <1>4, <1>7

LEMMA DeleteAdds ==
  ASSUME ClientInv, StackInv, NEW t \in Thread, Delete(t)
  PROVE  AddsToInstance'
<1>1. At(t, "delete") /\ Continue(t, <<>>)
  BY DEF Delete
<1>2. PICK x : Performs(t, x, <<>>)
  BY <1>1, NonePerformed
<1>3. Does(t, x, <<>>) /\ x.op = "delete" /\ Has(t, x)
  BY <1>1, <1>2, PerformsDoes, AtOne DEF Performs, Does
<1>4. ASSUME NEW u \in Thread, HasOp(u, "add")'
      PROVE  HasOp(u, "instance")'
  <2>1. PICK y : y.op = "add" /\ Has(u, y)'
    BY <1>4 DEF HasOp, Has, Includes
  <2>2. Has(u, y)
    <3>1. IsOperation(y)
      BY <2>1 DEF IsOperation
    <3> QED BY <1>3, <2>1, <3>1, DoesKeeps, EmptyIncludes
  <2>3. PICK i \in DOMAIN todo[u] : todo[u][i] = y
    BY <2>2 DEF Has, Includes
  <2>4. u # t
    <3> SUFFICES ASSUME u = t PROVE FALSE
      OBVIOUS
    <3>1. PICK j \in DOMAIN todo[t] : todo[t][j] = x
      BY <1>3 DEF Has, Includes
    <3>2. OpensOrCloses(todo[t])
      BY DEF StackInv, Stack
    <3> QED BY <1>3, <2>1, <2>3, <3>1, <3>2 DEF OpensOrCloses, Opening
  <2>5. ~Holds(u, "capi")
    BY <1>1, <2>4, DeleteHolds DEF Connection
  <2>6. HeldAfter(todo[u], i, "capi") /\ IsOperation(todo[u][i])
    BY <2>1, <2>3 DEF StackInv, Stack, Covered, IsOperation
  <2>7. PICK k \in 1 .. i - 1 : todo[u][k] = Do("lock", "capi")
    BY <2>5, <2>6, AboutToTake
  <2>8. InstanceFirst(todo[u])
    BY DEF StackInv, Stack
  <2>9. PICK m \in DOMAIN todo[u] : todo[u][m].op = "instance"
    BY <2>1, <2>3, <2>7, <2>8 DEF InstanceFirst
  <2>10. PICK z : z = todo[u][m]
    OBVIOUS
  <2>11. IsOperation(z) /\ Has(u, z) /\ z # x /\ z.op = "instance"
    BY <1>3, <2>9, <2>10 DEF IsOperation, Has, Includes
  <2>12. Has(u, z)'
    BY <1>3, <2>11, DoesKeeps
  <2> QED BY <2>11, <2>12 DEF HasOp, Has, Includes
<1> QED BY <1>4 DEF AddsToInstance

\* Instance() goes on to create the instance.
LEMMA InstanceCreates ==
  ASSUME ClientInv, StackInv, NEW t \in Thread, Instance(t), ~instance
  PROVE  HasOp(t, "new")'
<1>1. PICK z, c, b : z = Do("new", 0) /\ c = <<z>> /\ b = With("internal", c)
  OBVIOUS
<1>2. b = InitBody /\ z.op = "new"
  BY <1>1, DoFacts DEF InitBody
<1>3. c \in Seq(Code) /\ c[1] = z /\ 1 \in DOMAIN c
  <2>1. z \in Code
    BY <1>1, BareInCode DEF Bare
  <2> QED BY <1>1, <2>1
<1>4. b \in Seq(Code) /\ Includes(b, z)
  <2>1. {Do("lock", "internal"), Do("unlock", "internal")} \subseteq Code
    BY LocksInCode DEF Lock
  <2>2. b \in Seq(Code) /\ \A i \in DOMAIN c : i + 1 \in DOMAIN b /\ b[i + 1] = c[i]
    <3>1. b = With("internal", c) /\ c \in Seq(Code)
      BY <1>1, <1>3
    <3> QED BY <2>1, <3>1, WithParts
  <2>3. 1 + 1 \in DOMAIN b /\ b[1 + 1] = z
    BY <1>3, <2>2
  <2> QED BY <2>2, <2>3 DEF Includes
<1>5. At(t, "instance") /\ Continue(t, b)
  BY <1>2 DEF Instance
<1>6. PICK x \in Code : Does(t, x, b)
  BY <1>4, <1>5, Doing
<1>7. Has(t, z)'
  <2>1. IsOperation(z)
    BY <1>2 DEF IsOperation
  <2> QED BY <1>4, <1>6, <2>1, DoesKeeps
<1> QED BY <1>2, <1>7 DEF HasOp, Has, Includes

LEMMA AddsKept ==
  ASSUME ClientInv, StackInv, AddsToInstance, NEW t \in Thread, Step(t)
  PROVE  AddsToInstance'
<1>1. CASE Delete(t)
  BY <1>1, DeleteAdds
<1>2. CASE Acquire(t)
  <2>1. At(t, "lock")
    BY <1>2 DEF Acquire, Locking, At, Place, Idle
  <2>2. instance' = instance
    <3>1. ~Delete(t) /\ ~New(t)
      BY <2>1, AtOne DEF Delete, New
    <3> QED BY <3>1, StepSorts DEF TakeOuterLock, library, AddCallbackLocked,
            RemoveCallbackLocked, Latch, Instance
  <2>3. ASSUME NEW u \in Thread, NEW y, IsOperation(y)
        PROVE  Has(u, y)' <=> Has(u, y)
    BY <1>2, <2>3, AcquireGoes DEF Has
  <2>4. ASSUME NEW u \in Thread, NEW op, op \notin {"lock", "unlock"}
        PROVE  HasOp(u, op)' <=> HasOp(u, op)
    <3>1. \A y : y.op = op => (Has(u, y)' <=> Has(u, y))
      BY <2>3, <2>4 DEF IsOperation
    <3> QED BY <3>1 DEF HasOp, Has, Includes
  <2> QED BY <2>2, <2>4 DEF AddsToInstance
<1>3. ASSUME ~Delete(t), ~Acquire(t)
      PROVE  AddsToInstance'
  <2>1. PICK x, b : Performs(t, x, b)
    BY <1>3, StepPerforms
  <2>2. Does(t, x, b) /\ Body(x, b) /\ At(t, x.op)
    BY <2>1, PerformsDoes DEF Performs
  <2>3. instance => instance'
    BY <1>3, StepSorts DEF TakeOuterLock, library, AddCallbackLocked,
       RemoveCallbackLocked, Latch, Instance, New
  <2>4. ASSUME NEW u \in Thread, HasOp(u, "add")'
        PROVE  instance' \/ HasOp(u, "instance")' \/ HasOp(u, "new")'
    <3>1. PICK y : y.op = "add" /\ Has(u, y)'
      BY <2>4 DEF HasOp, Has, Includes
    <3>2. ~Includes(b, y)
      BY <2>2, <3>1 DEF Body, MayCall, IsOperation, Includes
    <3>3. Has(u, y)
      <4>1. IsOperation(y)
        BY <3>1 DEF IsOperation
      <4> QED BY <2>2, <3>1, <3>2, <4>1, DoesKeeps
    <3>4. HasOp(u, "add")
      BY <3>1, <3>3 DEF HasOp, Has, Includes
    <3>5. CASE instance
      BY <2>3, <3>5
    <3>6. CASE HasOp(u, "instance") \/ HasOp(u, "new")
      <4>1. PICK z : z.op \in {"instance", "new"} /\ Has(u, z)
        BY <3>6 DEF HasOp, Has, Includes
      <4>2. IsOperation(z)
        BY <4>1 DEF IsOperation
      <4>3. CASE z # x
        <5>1. Has(u, z)'
          BY <2>2, <4>1, <4>2, <4>3, DoesKeeps
        <5> QED BY <4>1, <5>1 DEF HasOp, Has, Includes
      <4>4. CASE z = x /\ u # t
        <5>1. Has(u, z)'
          BY <2>2, <4>1, <4>4 DEF Does
        <5> QED BY <4>1, <5>1 DEF HasOp, Has, Includes
      <4>5. CASE z = x /\ u = t
        <5>1. At(t, "instance") \/ At(t, "new")
          BY <2>2, <4>1, <4>5
        <5>2. /\ ~TakeOuterLock(t) /\ ~RegisterNotificationInternalLocked(t)
              /\ ~UnregisterNotificationInternalLocked(t) /\ ~AddCallbackLocked(t)
              /\ ~RemoveCallbackLocked(t) /\ ~Latch(t)
          BY <1>3, <5>1, AtOne DEF TakeOuterLock, RegisterNotificationInternalLocked,
             UnregisterNotificationInternalLocked, AddCallbackLocked,
             RemoveCallbackLocked, Latch
        <5>3. ~ \E op : /\ At(t, op)
                        /\ op \notin {"add", "remove", "register", "unregister", "latch",
                                      "instance", "new", "delete"}
          BY <5>1, AtOne
        <5>4. New(t) \/ Instance(t)
          BY <1>3, <5>2, <5>3, StepSorts
        <5>5. CASE New(t)
          BY <5>5 DEF New
        <5>6. CASE Instance(t)
          BY <2>3, <4>5, <5>6, InstanceCreates
        <5> QED BY <5>4, <5>5, <5>6
      <4> QED BY <4>3, <4>4, <4>5
    <3> QED BY <3>4, <3>5, <3>6 DEF AddsToInstance
  <2> QED BY <2>4 DEF AddsToInstance
<1> QED BY <1>1, <1>2, <1>3

LEMMA WorldKept ==
  ASSUME ClientInv, WorldInv, [Next]_vars
  PROVE  WorldInv'
<1>1. world.plugin \in Nat /\ iface \in Nat
  BY CallsAssumption DEF ClientInv, Values, WorldOK, TypeOK
<1>2. world'.plugin \in {world.plugin, world.plugin + 1}
  <2>1. ASSUME NEW t \in Thread, Step(t)
        PROVE  world'.plugin = world.plugin
    <3>1. CASE \/ RegisterThunderNotificationLocked(t)
               \/ UnregisterThunderNotificationLocked(t)
               \/ Connect(t) \/ Disconnect(t)
      BY <3>1 DEF RegisterThunderNotificationLocked, UnregisterThunderNotificationLocked,
         Connect, Disconnect, ClientInv, Values, WorldOK
    <3>2. CASE UNCHANGED world
      BY <3>2
    <3> QED BY <2>1, <3>1, <3>2 DEF Step, TakeOuterLock, AddCallbackLocked,
            RemoveCallbackLocked, RegisterNotificationInternalLocked,
            UnregisterNotificationInternalLocked, Latch, Attach, Detach, Drop, Tell, Closed,
            Stop, Join, PidStored, New, Destroy, Delete, Instance, MarkInitialized,
            IfInitialized, Notify, Proxy, Return, UserCallback
  <2>2. CASE handle_inotify_event \/ LinkReports
    BY <2>2 DEF handle_inotify_event, LinkReports, ClientInv, Values, WorldOK
  <2>3. CASE Outside
    BY <2>3 DEF Outside, PluginActivated, PluginDeactivated, ThunderRestarted, ClientInv,
       Values, WorldOK
  <2>4. CASE \/ \E t \in App : ApplicationCalls(t)
             \/ monitorThread \/ PluginNotifies \/ UNCHANGED vars
    BY <2>4 DEF ApplicationCalls, monitorThread, PluginNotifies, vars
  <2> QED BY <2>1, <2>2, <2>3, <2>4 DEF Next
<1>3. iface' \in {0, iface, world.plugin}
  <2>1. ASSUME NEW t \in Thread, Step(t)
        PROVE  iface' \in {0, iface, world.plugin}
    <3>1. CASE Attach(t) \/ Drop(t) \/ New(t)
      BY <3>1 DEF Attach, Drop, New, link
    <3>2. CASE UNCHANGED iface
      BY <3>2
    <3> QED BY <2>1, <3>1, <3>2 DEF Step, TakeOuterLock, AddCallbackLocked,
            RemoveCallbackLocked, RegisterNotificationInternalLocked,
            UnregisterNotificationInternalLocked, RegisterThunderNotificationLocked,
            UnregisterThunderNotificationLocked, Latch, Detach, Tell, Connect, Disconnect,
            Closed, Stop, Join, PidStored, Destroy, Delete, Instance, MarkInitialized,
            IfInitialized, Notify, Proxy, Return, UserCallback, link
  <2>2. CASE \/ \E t \in App : ApplicationCalls(t)
             \/ handle_inotify_event \/ monitorThread \/ Outside \/ LinkReports
             \/ PluginNotifies \/ UNCHANGED vars
    BY <2>2 DEF ApplicationCalls, handle_inotify_event, monitorThread, Outside, LinkReports,
       PluginNotifies, vars, link
  <2> QED BY <2>1, <2>2 DEF Next
<1> QED BY <1>1, <1>2, <1>3 DEF WorldInv

\* A thread that starts, and what is outside, leave the instance alone.
LEMMA StartInstance ==
  ASSUME ClientInv, StackInv, InstanceInv,
         \/ \E t \in App : ApplicationCalls(t)
         \/ handle_inotify_event \/ LinkReports \/ PluginNotifies
  PROVE  StackInv' /\ InstanceInv'
<1>1. UNCHANGED <<instance, registered, cbs>>
  BY DEF ApplicationCalls, handle_inotify_event, LinkReports, PluginNotifies, library, lists
<1>2. PICK t, b : t \in Thread /\ Start(t, b) /\ Fresh(b)
  BY StartsFresh
<1>3. Became(t, b, <<>>) /\ todo[t] = <<>> /\ todo \in [Thread -> Seq(Code)]
  BY <1>2, StartChanges DEF ClientInv, Disciplined
<1>4. todo'[t] = b /\ \A u \in Thread \ {t} : todo'[u] = todo[u]
  BY <1>2, <1>3 DEF Start
<1>5. StackInv'
  <2> SUFFICES ASSUME NEW u \in Thread PROVE Stack(todo'[u])
    BY DEF StackInv
  <2>1. CASE u = t
    BY <1>2, <1>4, <2>1 DEF Fresh
  <2>2. CASE u # t
    BY <1>4, <2>2 DEF StackInv
  <2> QED BY <2>1, <2>2
<1>6. ASSUME NEW l, NEW u \in Thread, NEW y \in Updates(l), Has(u, y)'
      PROVE  Has(u, y)
  <2>1. y.op \in Updating
    BY RelevantFacts DEF Updating
  <2>2. CASE u = t
    BY <1>2, <1>4, <1>6, <2>1, <2>2 DEF Fresh, Has, Includes
  <2>3. CASE u # t
    BY <1>4, <1>6, <2>3 DEF Has
  <2> QED BY <2>2, <2>3
<1>7. NothingWithout'
  BY <1>1, <1>6 DEF InstanceInv, NothingWithout, Mid
<1>8. AddsToInstance'
  <2> SUFFICES ASSUME NEW u \in Thread, HasOp(u, "add")'
               PROVE  instance' \/ HasOp(u, "instance")' \/ HasOp(u, "new")'
    BY DEF AddsToInstance
  <2>1. CASE u = t
    BY <1>2, <1>4, <2>1 DEF Fresh, HasOp
  <2>2. CASE u # t
    BY <1>1, <1>4, <2>2 DEF InstanceInv, AddsToInstance, HasOp
  <2> QED BY <2>1, <2>2
<1> QED BY <1>5, <1>7, <1>8 DEF InstanceInv

LEMMA SubscribeInvInitially == Init => SubscribeInv
<1> SUFFICES ASSUME Init PROVE SubscribeInv
  OBVIOUS
<1>1. \A t \in Thread : todo[t] = <<>>
  BY DEF Init, ThreadsInit
<1>2. Stack(<<>>)
  BY OtherStacks DEF Fresh
<1>3. StackInv
  BY <1>1, <1>2 DEF StackInv
<1>4. \A t \in Thread : \A y : ~Has(t, y)
  BY <1>1, EmptyIncludes DEF Has
<1>5. \A t \in Thread : \A l : ~Mid(t, l)
  BY <1>4 DEF Mid
<1>6. \A t \in Thread : \A op : ~HasOp(t, op)
  BY <1>1 DEF HasOp
<1>7. InstanceInv
  BY <1>5, <1>6 DEF Init, InstanceInv, NothingWithout, AddsToInstance
<1>8. WorldInv
  BY DEF Init, WorldInv
<1>9. ASSUME NEW l \in Subscribable
      PROVE  ListInv(l)
  <2>1. ~registered[l] /\ cbs[l] = {}
    BY DEF Init, Subscribable
  <2> QED BY <1>4, <1>5, <2>1 DEF ListInv, OneUpdates, Unregisters, KnownInPlugin,
          WillSubscribe, UnusedLeaves
<1> QED BY <1>3, <1>7, <1>8, <1>9 DEF SubscribeInv

LEMMA SubscribeInvKept ==
  ClientInv /\ ClientInv' /\ SubscribeInv /\ [Next]_vars => SubscribeInv'
<1> SUFFICES ASSUME ClientInv, ClientInv', SubscribeInv, [Next]_vars
             PROVE  SubscribeInv'
  OBVIOUS
<1>1. StackInv /\ InstanceInv /\ WorldInv
  BY DEF SubscribeInv
<1>2. WorldInv'
  BY <1>1, WorldKept
<1>3. StackInv' /\ InstanceInv'
  <2>1. ASSUME NEW t \in Thread, Step(t)
        PROVE  StackInv' /\ InstanceInv'
    <3>1. StackInv'
      BY <1>1, <2>1, StepPerforms, StepStacks
    <3>2. NothingWithout' /\ AddsToInstance'
      BY <1>1, <2>1, NothingKept, AddsKept DEF InstanceInv
    <3> QED BY <3>1, <3>2 DEF InstanceInv
  <2>2. CASE \/ \E t \in App : ApplicationCalls(t)
             \/ handle_inotify_event \/ LinkReports \/ PluginNotifies
    BY <1>1, <2>2, StartInstance
  <2>3. CASE Outside \/ monitorThread \/ UNCHANGED vars
    <3>1. UNCHANGED <<todo, instance, registered, cbs>>
      BY <2>3 DEF Outside, monitorThread, vars, library, lists
    <3>2. StackInv'
      BY <1>1, <3>1 DEF StackInv
    <3>3. NothingWithout' /\ AddsToInstance'
      BY <1>1, <3>1 DEF InstanceInv, NothingWithout, AddsToInstance, Mid, Has, HasOp
    <3> QED BY <3>2, <3>3 DEF InstanceInv
  <2> QED BY <2>1, <2>2, <2>3 DEF Next
<1>4. ~raced' => ~raced
  <2>1. ASSUME NEW t \in Thread, Step(t)
        PROVE  raced => raced'
    <3>1. CASE \/ RegisterNotificationInternalLocked(t)
               \/ UnregisterNotificationInternalLocked(t)
      BY <3>1 DEF RegisterNotificationInternalLocked, UnregisterNotificationInternalLocked
    <3>2. CASE UNCHANGED raced
      BY <3>2
    <3> QED BY <2>1, <3>1, <3>2 DEF Step, TakeOuterLock, AddCallbackLocked,
            RemoveCallbackLocked, RegisterThunderNotificationLocked,
            UnregisterThunderNotificationLocked, Latch, Attach, Detach, Drop, Tell, Connect,
            Disconnect, Closed, Stop, Join, PidStored, New, Destroy, Delete, Instance,
            MarkInitialized, IfInitialized, Notify, Proxy, Return, UserCallback
  <2>2. CASE \/ \E t \in App : ApplicationCalls(t)
             \/ handle_inotify_event \/ monitorThread \/ Outside \/ LinkReports
             \/ PluginNotifies \/ UNCHANGED vars
    BY <2>2 DEF ApplicationCalls, handle_inotify_event, monitorThread, Outside, LinkReports,
       PluginNotifies, vars
  <2> QED BY <2>1, <2>2 DEF Next
<1>5. ASSUME ~raced', NEW l \in Subscribable
      PROVE  ListInv(l)'
  <2>1. ListInv(l)
    BY <1>4, <1>5 DEF SubscribeInv
  <2> QED BY <1>1, <1>5, <2>1, ListsKept
<1> QED BY <1>2, <1>3, <1>5 DEF SubscribeInv

\* With nothing to do, the plugin knows every list with a callback.
LEMMA SettledLists ==
  SubscribeInv => SubscribedUnlessRaced
<1> SUFFICES ASSUME SubscribeInv, ~raced, Quiet, iface # 0, Alive(iface),
                    NEW l \in List \ {Ops}, cbs[l] # {}
             PROVE  l \in world.subscribed
  BY DEF SubscribedUnlessRaced, SubscribedWhenSettled
<1>1. WillSubscribe(l)
  BY DEF SubscribeInv, ListInv, Subscribable
<1>2. \A t \in Thread : \A y : ~Has(t, y)
  BY EmptyIncludes DEF Quiet, Idle, Has
<1> QED BY <1>1, <1>2 DEF WillSubscribe
----------------------------------------------------------------------------
(* The callbacks that are still to be called are in their lists.           *)

CalledListed ==
  ~torn => \A u \in Thread : \A y : y.op = "call" /\ Has(u, y)
             => y.arg[2] \in cbs[y.arg[1]]

LEMMA CalledInitially == Init => CalledListed
BY EmptyIncludes DEF Init, ThreadsInit, CalledListed, Has

LEMMA CallFacts ==
  ASSUME ClientInv, NEW u \in Thread, NEW y, y.op = "call", Has(u, y)
  PROVE  IsOperation(y) /\ y.arg[1] \in List
<1>1. todo[u] \in Seq(Code)
  BY DEF ClientInv, Disciplined
<1>2. y \in Code
  BY <1>1, ElementOfSeq, LenProperties DEF Has, Includes
<1>3. y.arg \in List \X Callback
  BY <1>2, CodeFacts
<1> QED BY <1>3 DEF IsOperation

\* The steps that change the lists.
LEMMA CallbackLists ==
  ASSUME NEW t \in Thread, Step(t)
  PROVE  cbs' = cbs \/ AddCallbackLocked(t) \/ RemoveCallbackLocked(t) \/ Delete(t)
BY StepSorts DEF TakeOuterLock, Latch, New, Instance, lists

\* While a callback is removed nobody is about to call one.
LEMMA RemovedAlone ==
  ASSUME ClientInv, StackInv, NEW t \in Thread, At(t, "remove"),
         NEW u \in Thread, NEW y, y.op = "call", Has(u, y)
  PROVE  FALSE
<1>1. Disciplined(Code, ClientLocks)
  BY DEF ClientInv
<1>2. PICK i \in DOMAIN todo[u] : todo[u][i].op = "call"
  BY DEF Has, Includes
<1>3. CASE u # t
  <2>1. PICK g \in ClientLocks.under : g[1] = "remove" /\ g[2] = "callback"
    <3>1. PICK g \in ClientLocks.under : g = <<"remove", "callback">>
      BY DEF ClientLocks
    <3> QED BY <3>1
  <2>2. GivesBack(Rest(t), "callback")
    BY <1>1, <2>1, PlainCode, AtFacts
  <2>3. "callback" \notin {Again, Own}
    BY DEF Again, Own
  <2>4. ~Holds(u, "callback")
    BY <1>1, <1>3, <2>2, <2>3, PlainCode, AtFacts
  <2>5. PICK h \in ClientLocks.inside : h[1] = "call" /\ h[2] = "callback"
    <3>1. PICK h \in ClientLocks.inside : h = <<"call", "callback">>
      BY DEF ClientLocks
    <3> QED BY <3>1
  <2>6. Sound(todo[u], Code, ClientLocks)
    BY <1>1 DEF Disciplined
  <2>7. Holds(u, "callback")
    BY <1>2, <2>5, <2>6, InsideHolds
  <2> QED BY <2>4, <2>7
<1>4. CASE u = t
  <2>1. Place(t) \in DOMAIN todo[t] /\ todo[t][Place(t)].op = "remove"
    BY <1>1, PlainCode, AtFacts
  <2>2. Untold(todo[t])
    BY DEF StackInv, Stack
  <2> QED BY <1>2, <1>4, <2>1, <2>2 DEF Untold, Removing, Telling
<1> QED BY <1>3, <1>4

\* Callbacks that were to be called stay in their lists.
LEMMA StayListed ==
  ASSUME ClientInv, StackInv, CalledListed, NEW t \in Thread, Step(t), ~torn, ~torn',
         NEW u \in Thread, NEW y, y.op = "call", Has(u, y)
  PROVE  y.arg[2] \in cbs'[y.arg[1]]
<1>1. y.arg[2] \in cbs[y.arg[1]] /\ y.arg[1] \in List
  BY CallFacts DEF CalledListed
<1>2. CASE AddCallbackLocked(t)
  <2>1. \A l \in List : cbs[l] \subseteq cbs'[l]
    BY <1>2 DEF AddCallbackLocked, ClientInv, Values, TypeOK
  <2> QED BY <1>1, <2>1
<1>3. CASE RemoveCallbackLocked(t)
  BY <1>3, RemovedAlone DEF RemoveCallbackLocked
<1>4. CASE Delete(t)
  <2>1. Dispatching
    BY DEF Dispatching, Has, Includes
  <2> QED BY <1>4, <2>1 DEF Delete
<1> QED BY <1>1, <1>2, <1>3, <1>4, CallbackLists

\* Going through a list calls what is in it.
LEMMA NotifyCalls ==
  ASSUME ClientInv, StackInv, NEW t \in Thread, Notify(t),
         NEW u \in Thread, NEW y, y.op = "call", Has(u, y)'
  PROVE  Has(u, y) \/ y.arg[2] \in cbs[y.arg[1]]
<1>1. At(t, "notify")
  BY DEF Notify
<1>2. PICK l \in List : l = Arg(t)
  BY <1>1, AtArg, CodeFacts
<1>3. PICK C : C = cbs[l]
  OBVIOUS
<1>4. C \subseteq Callback /\ IsFiniteSet(C)
  BY <1>3 DEF ClientInv, Values, TypeOK, FiniteLists
<1>5. PICK n, q : n = Cardinality(C) /\ q = SetToSeq(C)
  OBVIOUS
<1>6. n \in Nat /\ q \in [1 .. n -> C]
  BY <1>4, <1>5, Enumerated
<1>7. PICK b : b = [i \in 1 .. n |-> Do("call", <<l, q[i]>>)]
  OBVIOUS
<1>8. Continue(t, b)
  BY <1>2, <1>3, <1>5, <1>7 DEF Notify
<1>9. ASSUME NEW i \in DOMAIN b
      PROVE  \E c \in C : b[i] = Do("call", <<l, c>>)
  <2>1. i \in 1 .. n /\ b[i] = Do("call", <<l, q[i]>>) /\ q[i] \in C
    BY <1>6, <1>7
  <2> QED BY <2>1
<1>10. b \in Seq(Code)
  <2>1. PICK V : V = {Do("call", <<l, c>>) : c \in C}
    OBVIOUS
  <2>2. b \in Seq(V)
    BY <1>6, <1>7, <2>1
  <2>3. V \subseteq Code
    <3>1. ASSUME NEW c \in C
          PROVE  Do("call", <<l, c>>) \in Code
      <4>1. <<l, c>> \in List \X Callback
        BY <1>4
      <4> QED BY <4>1 DEF Code, CallbackCode
    <3> QED BY <2>1, <3>1
  <2> QED BY <2>2, <2>3
<1>11. PICK x : Does(t, x, b)
  BY <1>1, <1>8, <1>10, Doing
<1>12. Has(u, y) \/ Includes(b, y)
  BY <1>11, DoesKeeps DEF IsOperation
<1>13. ASSUME Includes(b, y)
       PROVE  y.arg[2] \in cbs[y.arg[1]]
  <2>1. PICK i \in DOMAIN b : b[i] = y
    BY <1>13 DEF Includes
  <2>2. PICK c \in C : y = Do("call", <<l, c>>)
    BY <1>9, <2>1
  <2>3. y.arg = <<l, c>>
    BY <2>2, DoFacts
  <2>4. y.arg[1] = l /\ y.arg[2] = c
    BY <2>3
  <2> QED BY <1>3, <2>4
<1> QED BY <1>12, <1>13

\* Nothing else adds a call.
LEMMA NoNewCalls ==
  ASSUME ClientInv, StackInv, NEW t \in Thread, Step(t), ~Notify(t),
         NEW u \in Thread, NEW y, y.op = "call", Has(u, y)'
  PROVE  Has(u, y)
<1>1. IsOperation(y)
  BY DEF IsOperation
<1>2. CASE Acquire(t)
  <2>1. CASE u = t
    BY <1>1, <1>2, <2>1, AcquireGoes DEF Has
  <2>2. CASE u # t
    BY <1>2, <2>2, AcquireGoes DEF Has
  <2> QED BY <2>1, <2>2
<1>3. ASSUME ~Acquire(t), NEW x, NEW b, Performs(t, x, b)
      PROVE  Has(u, y)
  <2>1. Does(t, x, b) /\ Body(x, b) /\ At(t, x.op)
    BY <1>3, PerformsDoes DEF Performs
  <2>2. x.op # "notify"
    <3>1. \E op : op # "notify" /\ At(t, op)
      BY <1>3 DEF Step, TakeOuterLock, AddCallbackLocked, RemoveCallbackLocked,
         RegisterNotificationInternalLocked, UnregisterNotificationInternalLocked,
         RegisterThunderNotificationLocked, UnregisterThunderNotificationLocked, Latch,
         Attach, Detach, Drop, Tell, Connect, Disconnect, Closed, Stop, Join, PidStored,
         New, Destroy, Delete, Instance, MarkInitialized, IfInitialized, Proxy, Return,
         UserCallback
    <3> QED BY <2>1, <3>1, AtOne
  <2>3. ~Includes(b, y)
    BY <1>1, <2>1, <2>2 DEF Body, MayCall, Includes
  <2> QED BY <1>1, <2>1, <2>3, DoesKeeps
<1> QED BY <1>2, <1>3, StepPerforms

LEMMA CalledKept ==
  ClientInv /\ SubscribeInv /\ CalledListed /\ [Next]_vars => CalledListed'
<1> SUFFICES ASSUME ClientInv, SubscribeInv, CalledListed, [Next]_vars, ~torn',
                    NEW u \in Thread, NEW y, y.op = "call", Has(u, y)'
             PROVE  y.arg[2] \in cbs'[y.arg[1]]
  BY DEF CalledListed
<1>1. StackInv
  BY DEF SubscribeInv
<1>2. ASSUME NEW t \in Thread, Step(t)
      PROVE  y.arg[2] \in cbs'[y.arg[1]]
  <2>1. ~torn
    <3>1. CASE Delete(t)
      BY <3>1 DEF Delete
    <3>2. CASE UNCHANGED torn
      BY <3>2
    <3> QED BY <1>2, <3>1, <3>2 DEF Step, TakeOuterLock, AddCallbackLocked,
            RemoveCallbackLocked, RegisterNotificationInternalLocked,
            UnregisterNotificationInternalLocked, RegisterThunderNotificationLocked,
            UnregisterThunderNotificationLocked, Latch, Attach, Detach, Drop, Tell, Connect,
            Disconnect, Closed, Stop, Join, PidStored, New, Destroy, Instance,
            MarkInitialized, IfInitialized, Notify, Proxy, Return, UserCallback
  <2>2. CASE Has(u, y)
    BY <1>1, <1>2, <2>1, <2>2, StayListed
  <2>3. CASE Notify(t) /\ ~Has(u, y)
    <3>1. cbs' = cbs
      BY <2>3 DEF Notify, lists
    <3> QED BY <1>1, <2>3, <3>1, NotifyCalls
  <2> QED BY <1>1, <1>2, <2>2, <2>3, NoNewCalls
<1>3. CASE \/ \E t \in App : ApplicationCalls(t)
           \/ handle_inotify_event \/ LinkReports \/ PluginNotifies
  <2>1. cbs' = cbs /\ torn' = torn
    BY <1>3 DEF ApplicationCalls, handle_inotify_event, LinkReports, PluginNotifies, lists
  <2>2. PICK t, b : t \in Thread /\ Start(t, b) /\ Fresh(b)
    BY <1>3, StartsFresh
  <2>3. Became(t, b, <<>>)
    BY <2>2, StartChanges DEF ClientInv
  <2>4. Has(u, y)
    <3>1. CASE u = t
      <4>1. IsOperation(y)
        BY DEF IsOperation
      <4>2. Includes(b, y)
        BY <2>3, <3>1, <4>1, EmptyIncludes DEF Became, Has
      <4> QED BY <2>2, <4>2 DEF Fresh, Includes
    <3>2. CASE u # t
      BY <2>3, <3>2 DEF Became, Has
    <3> QED BY <3>1, <3>2
  <2> QED BY <2>1, <2>4 DEF CalledListed
<1>4. CASE Outside \/ monitorThread \/ UNCHANGED vars
  <2>1. UNCHANGED <<todo, cbs, torn>>
    BY <1>4 DEF Outside, monitorThread, vars, lists
  <2> QED BY <2>1 DEF CalledListed, Has
<1> QED BY <1>2, <1>3, <1>4 DEF Next

----------------------------------------------------------------------------
(* The theorems.                                                           *)

LEMMA ClientInvInitially == Init => ClientInv
<1> SUFFICES ASSUME Init PROVE ClientInv
  OBVIOUS
<1>1. Disciplined(Code, ClientLocks) /\ \A t \in Thread : todo[t] = <<>>
  BY InitDisciplined DEF Init, ThreadsInit
<1>2. \A t \in Thread : Invoked(todo[t])
  BY <1>1 DEF Invoked
<1>3. FiniteLists
  BY FS_EmptySet DEF Init, FiniteLists
<1>4. 0 \in 0 .. MaxRestarts
  BY CallsAssumption
<1>5. WorldOK
  BY <1>4 DEF Init, WorldOK
<1>6. TypeOK
  BY <1>4 DEF Init, TypeOK
<1> QED BY <1>1, <1>2, <1>3, <1>5, <1>6 DEF ClientInv, Values

LEMMA ClientInvKept == ClientInv /\ [Next]_vars => ClientInv'
<1> SUFFICES ASSUME ClientInv, [Next]_vars PROVE ClientInv'
  OBVIOUS
<1>1. ASSUME NEW t \in Thread, Step(t)
      PROVE  ClientInv'
  BY <1>1, TakesLock, ListSteps, AskSteps, AnswerSteps, LatchStep, InterfaceSteps,
     DetachStep, TellStep, NotifyStep, ProxyStep, ChannelSteps, CloseStep,
     MonitorSteps, NewStep, DestroySteps, FunctionSteps DEF Step
<1>2. CASE \/ \E t \in App : ApplicationCalls(t)
           \/ handle_inotify_event \/ LinkReports \/ PluginNotifies
  BY <1>2, ThreadsStart
<1>3. CASE Outside \/ monitorThread \/ UNCHANGED vars
  BY <1>3, OutsideSteps
<1> QED BY <1>1, <1>2, <1>3 DEF Next

LEMMA ClientInvAlways == Spec => []ClientInv
BY ClientInvInitially, ClientInvKept, PTL DEF Spec

\* The variables have their types, whatever the calls and their order.
THEOREM ClientTypeCorrect == Spec => []TypeOK
<1>1. ClientInv => TypeOK
  BY DEF ClientInv, Values
<1> QED BY <1>1, ClientInvAlways, PTL

\* The plugin is asked through an interface the library still holds.  A request
\* obtains, uses and releases it under the lock of the connection, which its
\* thread has until the plugin has answered.  A list is registered, and
\* unregistered, by one thread at a time, and before the interface is released,
\* as long as it was not updated from both sides at once.
THEOREM InterfaceIsHeld == Spec => []InvokedInterfaceHeld
<1>1. Init => ClientInv /\ SubscribeInv
  BY ClientInvInitially, SubscribeInvInitially
<1>2. ClientInv /\ SubscribeInv /\ [Next]_vars => ClientInv' /\ SubscribeInv'
  BY ClientInvKept, SubscribeInvKept
<1>3. ASSUME ClientInv, NEW t \in Thread, At(t, "invoke")
      PROVE  iface = Arg(t)[2]
  <2>1. /\ Place(t) \in DOMAIN todo[t] /\ todo[t][Place(t)].op = "invoke"
        /\ todo[t][Place(t)].arg = Arg(t)
    BY <1>3, PlainCode, AtFacts DEF ClientInv
  <2>2. Invoked(todo[t])
    BY <1>3 DEF ClientInv
  <2> QED BY <2>1, <2>2 DEF Invoked
<1>4. ASSUME ClientInv, SubscribeInv, NEW t \in Thread,
             NEW op \in {"subscribe", "unsubscribe"}, At(t, op),
             Arg(t)[1] # Ops, ~raced
      PROVE  iface # 0
  <2>1. PICK x \in Code : Has(t, x) /\ x.op = op /\ x.arg = Arg(t)
    BY <1>4, PlainCode, AtFacts DEF ClientInv, Has, Includes
  <2>2. Arg(t)[1] \in Subscribable /\ x \in Updates(Arg(t)[1])
    BY <1>4, <2>1, UpdateShapes DEF Updates, Subscribable
  <2>3. Mid(t, Arg(t)[1])
    BY <2>1, <2>2 DEF Mid
  <2> QED BY <1>4, <2>2, <2>3 DEF SubscribeInv, ListInv, KnownInPlugin
<1>5. ClientInv /\ SubscribeInv => InvokedInterfaceHeld
  BY <1>3, <1>4 DEF InvokedInterfaceHeld
<1> QED BY <1>1, <1>2, <1>5, PTL DEF Spec

\* A callback that is about to be called is in its list, unless Term deleted the
\* lists while one was gone through: a list is gone through, and a callback
\* removed from it, under the lock of the callbacks, and no thread that removes
\* a callback goes through a list.
THEOREM CalledAreInList == Spec => []CalledIsInList
<1>1. Init => ClientInv /\ SubscribeInv /\ CalledListed
  BY ClientInvInitially, SubscribeInvInitially, CalledInitially
<1>2. ClientInv /\ SubscribeInv /\ CalledListed /\ [Next]_vars
        => ClientInv' /\ SubscribeInv' /\ CalledListed'
  BY ClientInvKept, SubscribeInvKept, CalledKept
<1>3. CalledListed => CalledIsInList
  BY DEF CalledListed, CalledIsInList, Has, Includes
<1> QED BY <1>1, <1>2, <1>3, PTL DEF Spec

\* Once everything has settled, the plugin notifies the library of every list
\* with a callback whose interface is held and alive, however often the plugin
\* and Thunder restarted and instances came and went, as long as the lock of the
\* callbacks and that of the connection never protected two updates of one list
\* at a time.
THEOREM SubscriptionsSurvive == Spec => []SubscribedUnlessRaced
<1>1. Init => ClientInv /\ SubscribeInv
  BY ClientInvInitially, SubscribeInvInitially
<1>2. ClientInv /\ SubscribeInv /\ [Next]_vars => ClientInv' /\ SubscribeInv'
  BY ClientInvKept, SubscribeInvKept
<1> QED BY <1>1, <1>2, SettledLists, PTL DEF Spec

\* The threads of the library and of the application do not wait for each
\* other's locks, unless one of them waits within a callback of an application
\* whose callbacks make requests: the locks are taken in one order, however the
\* calls, the reports of Thunder and the notifications interleave.
THEOREM LocksAreOrdered == Spec => []NoOtherLockCycle
<1>1. Init => ClientInv /\ LocksInOrder(ClientOrder)
  BY ClientInvInitially, InitOrdered DEF Init
<1>2. ClientInv /\ LocksInOrder(ClientOrder) /\ [Next]_vars
        => ClientInv' /\ LocksInOrder(ClientOrder)'
  BY ClientInvKept, OrderKept
<1>3. ASSUME ClientInv, LocksInOrder(ClientOrder),
             NEW S \in (SUBSET {t \in Thread : Waiting(t) /\ ~Entangled(t)}) \ {{}},
             \A t \in S : \E u \in S : WaitsForLock(t, u)
      PROVE  FALSE
  <2>1. S \in SUBSET {t \in Thread : Waiting(t)} /\ S # {}
    BY <1>3
  <2>2. PICK t \in S :
          \/ \E m \in ClientOrder.outer : Holds(t, m)
          \/ \E m \in DOMAIN ClientOrder.rank :
               Holds(t, m) /\ <<todo[t][1].arg, m>> \in ClientOrder.pairs
    BY <1>3, <2>1, ClientOrderFacts, OrderNoCycle DEF ClientInv, Disciplined
  <2>3. Entangled(t)
    BY <2>2, ClientOrderFacts DEF Entangled
  <2> QED BY <1>3, <2>3
<1>4. ClientInv /\ LocksInOrder(ClientOrder) => NoOtherLockCycle
  BY <1>3 DEF NoOtherLockCycle
<1> QED BY <1>1, <1>2, <1>4, PTL DEF Spec

=============================================================================
