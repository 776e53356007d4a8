------------------------ MODULE PowerSettings_proof ------------------------
(***************************************************************************)
(* The settings stay typed, the file holds them when nothing is under way, *)
(* the platform and the wakeup sources agree with them, the state before   *)
(* the reboot is kept, and the device wakes when it should: for every      *)
(* number of clients, calls, starts and faults.                            *)
(*                                                                         *)
(* The invariants speak of Work, the set of what a thread has still to do; *)
(* what a thread may have to do at all is ShapeInv.  None of them needs a  *)
(* lock to be exclusive: the handlers take none.                           *)
(***************************************************************************)
EXTENDS PowerSettings, Threads_proof

----------------------------------------------------------------------------
(* What a thread may have to do.                                           *)

States == Names \cup {"UNKNOWN"}

Stored == [state : Names \cup {"MAX"}, timeout : 0 .. Word - 1, standby : BOOLEAN]

File == Stored \cup {NoFile, BadFile}

SettingsType ==
  [usable : BOOLEAN, state : States, before : States, timeout : 0 .. Word - 1,
   standby : BOOLEAN]

BootCode ==
  <<Do("load", 0), Do("ram", 0), Do("standbyBuild", 0),
    Do("sourcesAtStart", 0), Do("init", 0), Do("started", 0)>>

Saves(name) ==
  [op : {"save"}, arg : {name}]
    \cup [op : {"write"}, arg : [name : {name}, image : Stored \cup {BadFile}]]

Calls ==
  {Do("sinceWakeup", 0), Do("readBack", 0)}
    \cup {Do(op, mode) : op \in {"standby", "compare"}, mode \in BOOLEAN}
    \cup {Do("sources", config) : config \in Configs}
    \cup {Do("timer", time) : time \in Timeouts}

\* A time to sleep that wakes the device when WakesForMaintenance says.
Wakes(s) ==
  IF s.clock.file = "none"
  THEN InWindow(s.clock.second + s.time - getTZDiffInSec(s.clock.payload))
  ELSE s.time <= limit

Performing(x) == x = Do("perform", x.arg) /\ (x.arg.asked \/ Wakes(x.arg))

GoodSleep(s) == s.asked \/ s.forced \/ Wakes(s)

Sleeping(x) == x = Do("sleep", x.arg) /\ GoodSleep(x.arg)

IsLock(x) == x.op \in {"lock", "unlock"}

\* The stages of the start from the n-th.
Later(n) == SubSeq(BootCode, n, 6)

\* What may be done before the n-th stage, on account of the one before it.
Before(n) ==
  CASE n = 2 -> Saves("opt") \ {Do("save", "opt")}
    [] n = 3 -> Saves("ram")
    [] n = 6 -> Saves("opt")
    [] OTHER -> {}

Starting(s) ==
  \E n \in 1 .. 6 :
    \/ s = Later(n)
    \/ Head(s) \in Before(n) /\ Tail(s) = Later(n)

After == {<<>>, <<Do("wakeup", 0)>>, <<Do("activate", 0)>>}

\* The state asked for, and the one the handler found.
Change == [state : States, from : States]

\* What a completion handler has to do.
Completing(s) ==
  \/ Head(s) \in {Do("platform", change) : change \in Change} /\ Tail(s) = <<>>
  \/ /\ Head(s) \in {Do("state", state) : state \in States}
     /\ \E a \in After : Tail(s) = <<Do("save", "opt")>> \o a
  \/ Head(s) \in Saves("opt") /\ Tail(s) \in After
  \/ Head(s) \in {Do("wakeup", 0), Do("activate", 0)} /\ Tail(s) = <<>>
  \/ Performing(Head(s)) /\ Tail(s) = <<>>
  \/ Sleeping(Head(s)) /\ Tail(s) = <<>>

\* What a call has to do: its operation, or what remains to be saved.
Serving(s) ==
  \/ \E x \in Calls : s = Api(x.op, x.arg)
  \/ /\ Head(s) \in Saves("opt")
     /\ Tail(s) \in {<<Do("unlock", "api")>>,
                     <<Do("save", "opt"), Do("unlock", "api")>>}

ShapeInv ==
  /\ DOMAIN todo = Thread
  /\ \A t \in Thread : todo[t] \in Seq(Range(todo[t]))
  /\ todo[Starter] # <<>> => ~up /\ Starting(todo[Starter])
  /\ \A t \in Thread \ {Starter} :
       todo[t] # <<>> => up /\ (Serving(todo[t]) \/ Completing(todo[t]))

----------------------------------------------------------------------------
(* The parts of the invariant.                                             *)

TypeInv ==
  /\ opt \in File /\ ram \in File
  /\ up \in BOOLEAN /\ timerSet \in BOOLEAN
  /\ settings \in SettingsType
  /\ hw \in [state : Names \cup {"MAX"}, sources : [Sources -> BOOLEAN]]
  /\ wakeups \in Nat /\ stamp \in Int
  /\ excuses \subseteq Excuse

\* What a thread has still to do, apart from the locks.
Bare(s) == {x \in Range(s) : ~IsLock(x)}

Work(t) == Bare(todo[t])

Saving(t) == Do("save", "opt") \in Work(t)

Writes(t, name) == {x \in Work(t) : x.op = "write" /\ x.arg.name = name}

Down == ~up /\ Quiet

\* The start has still to come to this stage.
Ahead(stage) == Do(stage, 0) \in Work(Starter)

\* What is about to be written is what the settings are, or else they will be
\* saved once more; and what is not in the file will be.
SavedInv ==
  /\ "crossed" \notin excuses =>
       \A t \in Thread : \A x \in Writes(t, "opt") :
         x.arg.image = Image(settings) \/ \E u \in Thread : Saving(u)
  /\ settings.usable /\ excuses \cap {"unsaved", "crossed"} = {} =>
       \/ opt = Image(settings)
       \/ \E t \in Thread : Saving(t) \/ Writes(t, "opt") # {}
       \/ Down \/ Ahead("load")

Keeps(file) == Valid(file) /\ FromPlatform(file.state) = atBoot

\* Until the first start has made the file in /tmp, the other one has the state
\* at the start of the device; then the file in /tmp has it.
BootInv ==
  "boot" \notin excuses =>
    /\ ram = NoFile =>
         /\ ~up /\ Loaded(opt).state = atBoot
         /\ Quiet \/ Ahead("load") \/ (settings.usable /\ settings.state = atBoot)
         /\ Quiet \/ Ahead("ram") \/ Do("save", "ram") \in Work(Starter)
         /\ \A x \in Writes(Starter, "opt") : Keeps(x.arg.image)
    /\ ram = BadFile => Writes(Starter, "ram") # {}
    /\ Valid(ram) => Keeps(ram)
    /\ \A x \in Writes(Starter, "ram") : Keeps(x.arg.image)
    /\ Do("save", "ram") \in Work(Starter) => ram = NoFile
    /\ Down \/ Ahead("ram") \/ settings.before = atBoot

PlatformInv ==
  /\ "raced" \notin excuses =>
       \A t \in Thread : \A x \in Work(t) :
         x.op = "state" => x.arg = FromPlatform(hw.state)
  /\ excuses \cap {"blind", "raced"} = {} =>
       \/ FromPlatform(hw.state) = settings.state
       \/ \E t \in Thread : Do("state", FromPlatform(hw.state)) \in Work(t)
       \/ Down \/ Ahead("init")

\* The operations after which network standby is mode.
Agreeing(mode) == {Do("readBack", 0), Do("compare", mode), Do("standby", mode)}

StandbyInv ==
  "source" \notin excuses /\ hw.sources["WIFI"] = hw.sources["LAN"] =>
    \/ settings.standby = hw.sources["WIFI"]
    \/ \E t \in Thread : Work(t) \cap Agreeing(hw.sources["WIFI"]) # {}
    \/ Down \/ Ahead("sourcesAtStart")

\* Handlers that do not overlap find the state that the one before them stored,
\* and so the time is taken after every change to ON.
AwakeInv ==
  "stale" \notin excuses =>
    /\ up /\ settings.state = "ON" =>
         stamp = wakeups \/ \E t \in Thread : Do("wakeup", 0) \in Work(t)
    /\ \A t \in Thread : \A x \in Work(t) :
         x.op = "platform" => x.arg.from = settings.state
    /\ \A t \in Thread : Do("state", "ON") \in Work(t) /\ settings.state # "ON"
         => Do("wakeup", 0) \in Work(t)
    /\ \A t, u \in Thread : Handling(t) /\ Handling(u) => t = u

Inv ==
  ShapeInv /\ TypeInv /\ SavedInv /\ BootInv /\ PlatformInv /\ StandbyInv
    /\ AwakeInv

----------------------------------------------------------------------------
(* Sequences.                                                              *)

LEMMA SelfTyped ==
  ASSUME NEW S, NEW s \in Seq(S)
  PROVE  s \in Seq(Range(s))
<1>1. s \in [1 .. Len(s) -> S] /\ Len(s) \in Nat
  OBVIOUS
<1>2. s \in [1 .. Len(s) -> Range(s)]
  BY <1>1 DEF Range
<1> QED BY <1>1, <1>2, SeqDef

LEMMA JoinedRange ==
  ASSUME NEW S, NEW x \in Seq(S), NEW y \in Seq(S)
  PROVE  Range(x \o y) = Range(x) \cup Range(y)
<1>1. PICK z : z = x \o y
  OBVIOUS
<1>2. Joined(z, x, y)
  BY <1>1, JoinedFacts
<1>a. PICK m, n : m = Len(x) /\ n = Len(y)
  OBVIOUS
<1>3. m = Len(x) /\ n = Len(y) /\ m \in Nat /\ n \in Nat
  BY <1>a
<1>4. DOMAIN x = 1 .. m /\ DOMAIN y = 1 .. n /\ DOMAIN z = 1 .. m + n
  BY <1>2, <1>3, LenProperties DEF Joined
<1>5. /\ \A i \in 1 .. m : z[i] = x[i]
      /\ \A i \in 1 .. n : z[m + i] = y[i]
  BY <1>2, <1>3 DEF Joined
<1>6. \A i \in 1 .. m + n : i \in 1 .. m \/ (i - m \in 1 .. n /\ m + (i - m) = i)
  BY <1>3
<1>7. \A i \in 1 .. n : m + i \in 1 .. m + n
  BY <1>3
<1>8. \A i \in 1 .. m : i \in 1 .. m + n
  BY <1>3
<1>9. Range(z) \subseteq Range(x) \cup Range(y)
  BY <1>4, <1>5, <1>6 DEF Range
<1>10. Range(x) \subseteq Range(z) /\ Range(y) \subseteq Range(z)
  BY <1>4, <1>5, <1>7, <1>8 DEF Range
<1> QED BY <1>1, <1>9, <1>10

\* s is x in front of r.
FrontOf(s, x, r) ==
  /\ s # <<>> /\ Head(s) = x /\ Tail(s) = r
  /\ s \in Seq(Range(s)) /\ Range(s) = {x} \cup Range(r)
  /\ s[1] = x /\ Len(s) = Len(r) + 1
  /\ SubSeq(s, 2, Len(s)) = r

LEMMA OneInFront ==
  ASSUME NEW T, NEW q \in Seq(T), Len(q) = 1, NEW r \in Seq(T),
         NEW s, s = q \o r
  PROVE  FrontOf(s, q[1], r)
<1>a. Joined(s, q, r)
  BY JoinedFacts
<1>b. s \in Seq(T) /\ Len(s) = Len(q) + Len(r)
  BY ConcatProperties
<1>1. Joined(s, q, r) /\ s \in Seq(T) /\ Len(s) = Len(q) + Len(r)
  BY <1>a, <1>b
<1>2. Len(s) = Len(r) + 1 /\ s # <<>> /\ Len(r) \in Nat
  BY <1>1
<1>3. s[1] = q[1] /\ \A i \in 1 .. Len(r) : s[1 + i] = r[i]
  BY <1>1 DEF Joined
<1>4. Range(s) = {q[1]} \cup Range(r)
  <2>1. Range(s) = Range(q) \cup Range(r)
    BY JoinedRange
  <2>2. Range(q) = {q[1]}
    BY DEF Range
  <2> QED BY <2>1, <2>2
<1>5. Head(s) = q[1] /\ Tail(s) = r
  <2>1. Head(s) = q[1]
    BY <1>1, <1>2, <1>3
  <2>2. Tail(s) \in Seq(T) /\ Len(Tail(s)) = Len(r)
    BY <1>1, <1>2
  <2>3. \A i \in 1 .. Len(r) : Tail(s)[i] = r[i]
    BY <1>1, <1>2, <1>3
  <2>4. Tail(s) = r
    BY <2>2, <2>3, SeqEqual
  <2> QED BY <2>1, <2>4
<1>6. SubSeq(s, 2, Len(s)) = r
  <2>1. PICK p : p = SubSeq(s, 2, Len(s))
    OBVIOUS
  <2>2. 2 \in 1 .. Len(s) + 1
    BY <1>2
  <2>3. /\ p \in Seq(T) /\ Len(p) = Len(s) + 1 - 2
        /\ \A i \in 1 .. Len(s) + 1 - 2 : p[i] = s[i + 2 - 1]
    BY <1>1, <2>1, <2>2, SuffixFacts
  <2>4. PICK n : n = Len(r)
    OBVIOUS
  <2>5. n \in Nat /\ Len(s) + 1 - 2 = n
    BY <1>2, <2>4
  <2>6. \A i \in 1 .. n : i + 2 - 1 = 1 + i
    BY <2>5
  <2>7. Len(p) = n /\ \A i \in 1 .. n : p[i] = r[i]
    BY <1>3, <2>3, <2>4, <2>5, <2>6
  <2>8. p = r
    BY <2>3, <2>4, <2>7, SeqEqual
  <2> QED BY <2>1, <2>8
<1>7. s \in Seq(Range(s))
  BY <1>1, SelfTyped
<1> QED BY <1>2, <1>3, <1>4, <1>5, <1>6, <1>7 DEF FrontOf

\* An instruction in front of others.
LEMMA InFrontOf ==
  ASSUME NEW S, NEW r \in Seq(S), NEW x
  PROVE  \A s : s = <<x>> \o r => FrontOf(s, x, r)
<1>1. PICK q : q = <<x>>
  OBVIOUS
<1>a. PICK T : T = S \cup {x}
  OBVIOUS
<1>2. q \in Seq(T) /\ Len(q) = 1 /\ q[1] = x /\ r \in Seq(T)
  BY <1>1, <1>a
<1>3. ASSUME NEW s, s = q \o r
      PROVE  FrontOf(s, x, r)
  <2>1. FrontOf(s, q[1], r)
    BY <1>2, <1>3, OneInFront
  <2> QED BY <1>2, <2>1
<1> QED BY <1>1, <1>2, <1>3

LEMMA HeadAndTail ==
  ASSUME NEW S, NEW s \in Seq(S), s # <<>>
  PROVE  /\ Head(s) \in S /\ Tail(s) \in Seq(S) /\ s = <<Head(s)>> \o Tail(s)
         /\ Head(s) \in Range(s)
<1>1. Head(s) = s[1] /\ 1 \in DOMAIN s /\ Tail(s) \in Seq(S) /\ Head(s) \in S
  OBVIOUS
<1>2. s = <<Head(s)>> \o Tail(s)
  OBVIOUS
<1> QED BY <1>1, <1>2 DEF Range

----------------------------------------------------------------------------
(* One step of a thread.                                                   *)

\* t is about to do x, and r after it.
Doing(t, x, r) ==
  /\ ~IsLock(x) /\ r \in Seq(Range(r))
  /\ \/ todo[t] = <<x>> \o r
     \/ todo[t] = <<Do("lock", "api")>> \o (<<x>> \o r)

LEMMA BareFacts ==
  /\ Bare(<<>>) = {}
  /\ \A x : Bare(<<x>>) = IF IsLock(x) THEN {} ELSE {x}
<1>1. Bare(<<>>) = {}
  BY DEF Bare, Range
<1>2. ASSUME NEW x
      PROVE  Bare(<<x>>) = IF IsLock(x) THEN {} ELSE {x}
  <2>1. Range(<<x>>) = {x}
    BY DEF Range
  <2> QED BY <2>1 DEF Bare
<1> QED BY <1>1, <1>2

LEMMA BareInFront ==
  ASSUME NEW S, NEW r \in Seq(S), NEW x
  PROVE  Bare(<<x>> \o r) = (IF IsLock(x) THEN {} ELSE {x}) \cup Bare(r)
<1>1. FrontOf(<<x>> \o r, x, r)
  BY InFrontOf
<1>2. Range(<<x>> \o r) = {x} \cup Range(r)
  BY <1>1 DEF FrontOf
<1> QED BY <1>2 DEF Bare

LEMMA DoingFacts ==
  ASSUME NEW t, NEW x, NEW r, Doing(t, x, r)
  PROVE  /\ todo[t][Place(t)] = x /\ Arg(t) = x.arg /\ Rest(t) = r
         /\ Work(t) = {x} \cup Bare(r)
         /\ \A op : At(t, op) => op = x.op
<1>1. r \in Seq(Range(r)) /\ ~IsLock(x)
  BY DEF Doing
<1>2. PICK p : p = <<x>> \o r
  OBVIOUS
<1>3. FrontOf(p, x, r)
  BY <1>1, <1>2, InFrontOf
<1>4. p[1] = x /\ SubSeq(p, 2, Len(p)) = r /\ p \in Seq(Range(p)) /\ p # <<>>
      /\ Len(p) = Len(r) + 1 /\ Len(r) \in Nat
  BY <1>1, <1>3 DEF FrontOf
<1>5. x.op \notin {"lock", "unlock"}
  BY <1>1 DEF IsLock
<1>6. Bare(p) = {x} \cup Bare(r)
  BY <1>1, <1>2, BareInFront
<1>7. CASE todo[t] = p
  <2>1. Place(t) = 1
    BY <1>4, <1>5, <1>7 DEF Place
  <2>2. todo[t][Place(t)] = x
    BY <1>4, <1>7, <2>1
  <2>3. Rest(t) = r
    BY <1>4, <1>7, <2>1 DEF Rest
  <2>4. Work(t) = {x} \cup Bare(r)
    BY <1>6, <1>7 DEF Work
  <2> QED BY <2>2, <2>3, <2>4 DEF Arg, At
<1>8. CASE todo[t] = <<Do("lock", "api")>> \o p
  <2>0. PICK lock : lock = Do("lock", "api")
    OBVIOUS
  <2>1. FrontOf(todo[t], lock, p)
    BY <1>4, <1>8, <2>0, InFrontOf
  <2>2. todo[t][1] = lock /\ SubSeq(todo[t], 2, Len(todo[t])) = p
        /\ Len(todo[t]) = Len(p) + 1 /\ todo[t] \in Seq(Range(todo[t]))
    BY <2>1 DEF FrontOf
  <2>3. lock.op = "lock" /\ IsLock(lock)
    BY <2>0, DoFacts DEF IsLock
  <2>4. Place(t) = 2
    BY <2>2, <2>3 DEF Place
  <2>5. PICK n : n = Len(r)
    OBVIOUS
  <2>6. n \in Nat /\ Len(p) = n + 1 /\ Len(todo[t]) = n + 2
    BY <1>4, <2>2, <2>5
  <2>7. \A i \in 1 .. n + 1 : p[i] = todo[t][i + 1]
    <3>1. 2 \in 1 .. Len(todo[t]) + 1 /\ Len(todo[t]) + 1 - 2 = n + 1
      BY <2>6
    <3>2. \A i \in 1 .. Len(todo[t]) + 1 - 2 : p[i] = todo[t][i + 2 - 1]
      BY <2>2, <3>1, SuffixFacts
    <3>3. \A i \in 1 .. n + 1 : i + 2 - 1 = i + 1
      BY <2>6
    <3> QED BY <3>1, <3>2, <3>3
  <2>8. todo[t][2] = x
    <3>1. 1 \in 1 .. n + 1 /\ 1 + 1 = 2
      BY <2>6
    <3> QED BY <1>4, <2>7, <3>1
  <2>9. PICK q : q = SubSeq(todo[t], 3, Len(todo[t]))
    OBVIOUS
  <2>10. q = r
    <3>1. 3 \in 1 .. Len(todo[t]) + 1 /\ Len(todo[t]) + 1 - 3 = n
      BY <2>6
    <3>2. /\ q \in Seq(Range(todo[t])) /\ Len(q) = Len(todo[t]) + 1 - 3
          /\ \A i \in 1 .. Len(todo[t]) + 1 - 3 : q[i] = todo[t][i + 3 - 1]
      BY <2>2, <2>9, <3>1, SuffixFacts
    <3>3. 2 \in 1 .. Len(p) + 1 /\ Len(p) + 1 - 2 = n
      BY <2>6
    <3>4. \A i \in 1 .. Len(p) + 1 - 2 : r[i] = p[i + 2 - 1]
      BY <1>4, <3>3, SuffixFacts
    <3>5. \A i \in 1 .. n : i + 3 - 1 = (i + 1) + 1 /\ i + 2 - 1 = i + 1
                            /\ i + 1 \in 1 .. n + 1
      BY <2>6
    <3>6. \A i \in 1 .. n : q[i] = r[i]
      BY <2>7, <3>1, <3>2, <3>3, <3>4, <3>5
    <3>7. Len(q) = Len(r)
      BY <2>5, <3>1, <3>2
    <3>8. q \in Seq(Range(todo[t]) \cup Range(r)) /\ r \in Seq(Range(todo[t]) \cup Range(r))
      BY <1>1, <3>2, SeqMonotonic
    <3> QED BY <2>5, <3>6, <3>7, <3>8, SeqEqual
  <2>11. Rest(t) = r
    BY <2>4, <2>9, <2>10 DEF Rest
  <2>12. Work(t) = {x} \cup Bare(r)
    <3>1. Bare(<<lock>> \o p) = Bare(p)
      BY <1>4, <2>3, BareInFront
    <3> QED BY <1>6, <1>8, <2>0, <3>1 DEF Work
  <2> QED BY <2>4, <2>8, <2>11, <2>12 DEF Arg, At
<1> QED BY <1>2, <1>7, <1>8 DEF Doing

\* Code that starts with something else gives nothing back.
LEMMA NothingGivenBack ==
  ASSUME NEW S, NEW s \in Seq(S), s = <<>> \/ s[1].op # "unlock"
  PROVE  AfterUnlocks(s) = s
<1>1. PICK k \in 1 .. Len(s) + 1 :
        /\ AfterUnlocks(s) = SubSeq(s, k, Len(s))
        /\ \A j \in 1 .. k - 1 : s[j].op = "unlock"
        /\ k <= Len(s) => s[k].op # "unlock"
  BY AfterUnlocksFacts
<1>2. k = 1
  <2>1. CASE s = <<>>
    BY <2>1
  <2>2. CASE s # <<>> /\ s[1].op # "unlock"
    <3>1. k - 1 >= 1 => s[1].op = "unlock"
      BY <1>1
    <3> QED BY <2>2, <3>1
  <2> QED BY <2>1, <2>2
<1>3. SubSeq(s, 1, Len(s)) = s
  OBVIOUS
<1> QED BY <1>1, <1>2, <1>3

LEMMA AllGivenBack ==
  AfterUnlocks(<<Do("unlock", "api")>>) = <<>>
<1>1. PICK s : s = <<Do("unlock", "api")>>
  OBVIOUS
<1>2. s[1].op = "unlock" /\ DOMAIN s = {1}
  BY <1>1, DoFacts
<1>3. {i \in DOMAIN s : s[i].op # "unlock"} = {}
  BY <1>2
<1> QED BY <1>1, <1>3 DEF AfterUnlocks

\* Code without locks goes in front as it is.
LEMMA NestedBare ==
  ASSUME NEW S, NEW b \in Seq(S), NEW r,
         \A i \in DOMAIN b : ~IsLock(b[i])
  PROVE  Nested(b, r) = b \o r
<1>1. \A i \in DOMAIN b : Under(b[i], r) = b[i]
  BY DEF Under, IsLock
<1>2. [i \in DOMAIN b |-> Under(b[i], r)] = [i \in DOMAIN b |-> b[i]]
  BY <1>1
<1>3. [i \in DOMAIN b |-> b[i]] = b
  OBVIOUS
<1> QED BY <1>2, <1>3 DEF Nested

\* And any code goes as it is where no lock is held.
LEMMA NestedUnlocked ==
  ASSUME NEW S, NEW b \in Seq(S)
  PROVE  Nested(b, <<>>) = b
<1>1. \A l : ~GivesBack(<<>>, l)
  BY DEF GivesBack
<1>2. \A i \in DOMAIN b : Under(b[i], <<>>) = b[i]
  BY <1>1 DEF Under
<1>3. [i \in DOMAIN b |-> Under(b[i], <<>>)] = [i \in DOMAIN b |-> b[i]]
  BY <1>2
<1>4. [i \in DOMAIN b |-> b[i]] = b
  OBVIOUS
<1>5. b \o <<>> = b
  BY ConcatEmptySeq
<1> QED BY <1>3, <1>4, <1>5 DEF Nested

\* t goes on with s, and the others do what they did.
Goes(t, s) ==
  /\ DOMAIN todo' = Thread
  /\ todo'[t] = s
  /\ \A u \in Thread \ {t} : todo'[u] = todo[u]

LEMMA ExceptGoes ==
  ASSUME NEW t \in Thread, DOMAIN todo = Thread, NEW s,
         todo' = [todo EXCEPT ![t] = s]
  PROVE  Goes(t, s)
BY DEF Goes

\* t has done x and goes on with r.
LEMMA Finished ==
  ASSUME NEW t \in Thread, DOMAIN todo = Thread, NEW x, NEW r, Doing(t, x, r),
         Continue(t, <<>>)
  PROVE  Goes(t, AfterUnlocks(r))
<1>1. Rest(t) = r /\ r \in Seq(Range(r))
  BY DoingFacts DEF Doing
<1>2. Nested(<<>>, r) = r
  <2>1. <<>> \in Seq(Range(r))
    OBVIOUS
  <2>2. \A i \in DOMAIN <<>> : ~IsLock(<<>>[i])
    OBVIOUS
  <2>3. Nested(<<>>, r) = <<>> \o r
    BY <2>1, <2>2, NestedBare
  <2>4. <<>> \o r = r
    BY <1>1, ConcatEmptySeq
  <2> QED BY <2>3, <2>4
<1>3. todo' = [todo EXCEPT ![t] = AfterUnlocks(r)]
  BY <1>1, <1>2 DEF Continue
<1> QED BY <1>3, ExceptGoes

\* t has done x and goes on with b.
LEMMA Continued ==
  ASSUME NEW t \in Thread, DOMAIN todo = Thread, NEW x, NEW r, Doing(t, x, r),
         NEW S, NEW b \in Seq(S), b # <<>>, \A i \in DOMAIN b : ~IsLock(b[i]),
         Continue(t, b)
  PROVE  Goes(t, b \o r)
<1>1. Rest(t) = r /\ r \in Seq(Range(r))
  BY DoingFacts DEF Doing
<1>2. Nested(b, r) = b \o r
  BY NestedBare
<1>3. PICK T : T = S \cup Range(r)
  OBVIOUS
<1>4. b \in Seq(T) /\ r \in Seq(T)
  BY <1>1, <1>3, SeqMonotonic
<1>5. PICK z : z = b \o r
  OBVIOUS
<1>6. Joined(z, b, r)
  BY <1>4, <1>5, JoinedFacts
<1>7. z \in Seq(T)
  BY <1>4, <1>5, ConcatProperties
<1>8. z[1].op # "unlock"
  <2>1. 1 \in 1 .. Len(b) /\ 1 \in DOMAIN b
    OBVIOUS
  <2>2. z[1] = b[1]
    BY <1>6, <2>1 DEF Joined
  <2> QED BY <2>1, <2>2 DEF IsLock
<1>9. AfterUnlocks(z) = z
  BY <1>7, <1>8, NothingGivenBack
<1>10. todo' = [todo EXCEPT ![t] = z]
  BY <1>1, <1>2, <1>5, <1>9 DEF Continue
<1> QED BY <1>5, <1>10, ExceptGoes

\* t has done x, and has one thing more to do.
LEMMA ContinuedOne ==
  ASSUME NEW t \in Thread, DOMAIN todo = Thread, NEW x, NEW r, Doing(t, x, r),
         NEW y, ~IsLock(y), Continue(t, <<y>>)
  PROVE  Goes(t, <<y>> \o r)
<1>1. PICK b : b = <<y>>
  OBVIOUS
<1>2. b \in Seq({y}) /\ b # <<>> /\ \A i \in DOMAIN b : ~IsLock(b[i])
  BY <1>1
<1>3. Continue(t, b)
  BY <1>1
<1>4. Goes(t, b \o r)
  BY <1>2, <1>3, Continued
<1> QED BY <1>1, <1>4

----------------------------------------------------------------------------
(* What a thread is doing.                                                 *)

LEMMA BootFacts ==
  /\ BootCode[1] = Do("load", 0) /\ BootCode[2] = Do("ram", 0)
  /\ BootCode[3] = Do("standbyBuild", 0) /\ BootCode[4] = Do("sourcesAtStart", 0)
  /\ BootCode[5] = Do("init", 0) /\ BootCode[6] = Do("started", 0)
BY DEF BootCode

\* The names of the operations.
LEMMA Ops ==
  /\ BootCode[1].op = "load" /\ BootCode[2].op = "ram"
  /\ BootCode[3].op = "standbyBuild" /\ BootCode[4].op = "sourcesAtStart"
  /\ BootCode[5].op = "init" /\ BootCode[6].op = "started"
  /\ \A name : \A x \in Saves(name) : x.op \in {"save", "write"}
  /\ \A x \in Calls : x.op \in {"sinceWakeup", "readBack", "standby", "compare",
                               "sources", "timer"}
<1>1. \A name : \A x \in Saves(name) : x.op \in {"save", "write"}
  BY DEF Saves
<1>2. \A x \in Calls : x.op \in {"sinceWakeup", "readBack", "standby", "compare",
                               "sources", "timer"}
  BY DoFacts DEF Calls
<1>3. /\ BootCode[1].op = "load" /\ BootCode[2].op = "ram"
      /\ BootCode[3].op = "standbyBuild" /\ BootCode[4].op = "sourcesAtStart"
      /\ BootCode[5].op = "init" /\ BootCode[6].op = "started"
  BY BootFacts, DoFacts
<1> QED BY <1>1, <1>2, <1>3

LEMMA LaterFacts ==
  /\ Later(7) = <<>>
  /\ \A n \in 1 .. 7 : Later(n) \in Seq(Range(Later(n)))
  /\ \A n \in 1 .. 6 : Later(n) = <<BootCode[n]>> \o Later(n + 1)
<1>1. PICK b : b = BootCode
  OBVIOUS
<1>2. PICK S : S = Range(b)
  OBVIOUS
<1>3. b \in Seq(S) /\ Len(b) = 6
  <2>1. PICK T : T = {Do("load", 0), Do("ram", 0), Do("standbyBuild", 0),
                      Do("sourcesAtStart", 0), Do("init", 0), Do("started", 0)}
    OBVIOUS
  <2>2. b \in Seq(T) /\ Len(b) = 6
    BY <1>1, <2>1 DEF BootCode
  <2> QED BY <1>2, <2>2, SelfTyped
<1>4. ASSUME NEW n \in 1 .. 7
      PROVE  /\ Later(n) \in Seq(S) /\ Len(Later(n)) = 7 - n
             /\ \A i \in 1 .. 7 - n : Later(n)[i] = b[i + n - 1]
  <2>1. Later(n) = SubSeq(b, n, Len(b))
    BY <1>1, <1>3 DEF Later
  <2>a. n \in 1 .. Len(b) + 1
    BY <1>3
  <2>2. Len(b) + 1 - n = 7 - n
    BY <1>3
  <2>3. PICK r : r = SubSeq(b, n, Len(b))
    OBVIOUS
  <2>b. b \in Seq(S)
    BY <1>3
  <2>4. /\ r \in Seq(S)
        /\ Len(r) = Len(b) + 1 - n
        /\ DOMAIN r = 1 .. Len(b) + 1 - n
        /\ \A i \in 1 .. Len(b) + 1 - n : r[i] = b[i + n - 1]
    BY <2>a, <2>b, <2>3, SuffixFacts
  <2> QED BY <2>1, <2>2, <2>3, <2>4
<1>5. Later(7) = <<>>
  <2>1. 7 \in 1 .. 7 /\ 7 - 7 = 0
    OBVIOUS
  <2>2. Later(7) \in Seq(S) /\ Len(Later(7)) = 0
    BY <1>4, <2>1
  <2> QED BY <2>2, EmptySeq
<1>6. ASSUME NEW n \in 1 .. 6
      PROVE  Later(n) = <<BootCode[n]>> \o Later(n + 1)
  <2>1. n \in 1 .. 7 /\ n + 1 \in 1 .. 7 /\ 7 - (n + 1) = 6 - n
    OBVIOUS
  <2>2. PICK r, s : r = Later(n) /\ s = Later(n + 1)
    OBVIOUS
  <2>3. /\ r \in Seq(S) /\ Len(r) = 7 - n
        /\ \A i \in 1 .. 7 - n : r[i] = b[i + n - 1]
    BY <1>4, <2>1, <2>2
  <2>4. /\ s \in Seq(S) /\ Len(s) = 6 - n
        /\ \A i \in 1 .. 6 - n : s[i] = b[i + (n + 1) - 1]
    BY <1>4, <2>1, <2>2
  <2>5. Len(r) # 0 /\ 1 \in 1 .. 7 - n /\ 1 + n - 1 = n
    BY <2>3
  <2>6. r # <<>> /\ Head(r) = BootCode[n]
    BY <1>1, <2>3, <2>5
  <2>7. Tail(r) = s
    <3>1. Tail(r) \in Seq(S) /\ Len(Tail(r)) = 6 - n
          /\ \A i \in 1 .. 6 - n : Tail(r)[i] = r[i + 1]
      BY <2>3, <2>6
    <3>2. \A i \in 1 .. 6 - n : i + 1 \in 1 .. 7 - n /\ (i + 1) + n - 1 = i + (n + 1) - 1
      OBVIOUS
    <3>3. \A i \in 1 .. 6 - n : Tail(r)[i] = s[i]
      BY <2>3, <2>4, <3>1, <3>2
    <3> QED BY <2>4, <3>1, <3>3, SeqEqual
  <2>8. r = <<Head(r)>> \o Tail(r)
    BY <2>3, <2>6, HeadAndTail
  <2> QED BY <2>2, <2>6, <2>7, <2>8
<1> QED BY <1>4, <1>5, <1>6, SelfTyped

\* What t does, x, and after it r.
Busy(t, x, r) ==
  \/ /\ t = Starter /\ ~up
     /\ \E n \in 1 .. 6 : \/ x = BootCode[n] /\ r = Later(n + 1)
                          \/ x \in Before(n) /\ r = Later(n)
  \/ /\ t # Starter /\ up
     /\ \/ x \in {Do("platform", change) : change \in Change} /\ r = <<>>
        \/ /\ x \in {Do("state", state) : state \in States}
           /\ \E a \in After : r = <<Do("save", "opt")>> \o a
        \/ x \in Saves("opt") /\ r \in After
        \/ x \in {Do("wakeup", 0), Do("activate", 0)} /\ r = <<>>
        \/ Performing(x) /\ r = <<>>
        \/ Sleeping(x) /\ r = <<>>
        \/ x \in Calls /\ r = <<Do("unlock", "api")>>
        \/ /\ x \in Saves("opt")
           /\ r \in {<<Do("unlock", "api")>>,
                     <<Do("save", "opt"), Do("unlock", "api")>>}

LEMMA BeforeFacts ==
  \A n \in 1 .. 6 : \A x \in Before(n) :
    \/ n = 2 /\ x \in Saves("opt") /\ x # Do("save", "opt")
    \/ n = 3 /\ x \in Saves("ram")
    \/ n = 6 /\ x \in Saves("opt")
BY DEF Before

LEMMA BusyIsNoLock ==
  ASSUME NEW t, NEW x, NEW r, Busy(t, x, r)
  PROVE  ~IsLock(x)
<1>1. \A n \in 1 .. 6 : \A y \in Before(n) : y.op \in {"save", "write"}
  BY BeforeFacts, Ops
<1>2. \A n \in 1 .. 6 : BootCode[n].op \notin {"lock", "unlock"}
  BY Ops
<1>3. /\ \A change : Do("platform", change).op = "platform"
      /\ \A state : Do("state", state).op = "state"
      /\ Do("wakeup", 0).op = "wakeup" /\ Do("activate", 0).op = "activate"
      /\ Performing(x) => x.op = "perform"
      /\ Sleeping(x) => x.op = "sleep"
  BY DoFacts DEF Performing, Sleeping
<1>4. x.op \notin {"lock", "unlock"}
  BY <1>1, <1>2, <1>3, Ops DEF Busy
<1> QED BY <1>4 DEF IsLock

LEMMA ApiIs ==
  \A op, arg :
    Api(op, arg) =
      <<Do("lock", "api")>> \o (<<Do(op, arg)>> \o <<Do("unlock", "api")>>)
<1> SUFFICES ASSUME NEW op, NEW arg
             PROVE  Api(op, arg) =
                      <<Do("lock", "api")>> \o (<<Do(op, arg)>> \o <<Do("unlock", "api")>>)
  OBVIOUS
<1>1. PICK x, y, z : /\ x = <<Do("lock", "api")>> /\ y = <<Do(op, arg)>>
                     /\ z = <<Do("unlock", "api")>>
  OBVIOUS
<1>2. PICK T : T = {Do("lock", "api"), Do(op, arg), Do("unlock", "api")}
  OBVIOUS
<1>3. x \in Seq(T) /\ y \in Seq(T) /\ z \in Seq(T)
  BY <1>1, <1>2
<1>4. (x \o y) \o z = x \o (y \o z)
  BY <1>3, ConcatAssociative
<1>5. Api(op, arg) = (x \o y) \o z
  BY <1>1 DEF Api, With
<1> QED BY <1>1, <1>4, <1>5

\* The rests are sequences.
LEMMA RestTyped ==
  ASSUME NEW r,
         \/ \E n \in 1 .. 7 : r = Later(n)
         \/ r \in After
         \/ \E a \in After : r = <<Do("save", "opt")>> \o a
         \/ r \in {<<Do("unlock", "api")>>,
                   <<Do("save", "opt"), Do("unlock", "api")>>}
  PROVE  r \in Seq(Range(r))
<1>1. ASSUME NEW a \in After
      PROVE  \E S : a \in Seq(S)
  <2>1. PICK S : S = {Do("wakeup", 0), Do("activate", 0)}
    OBVIOUS
  <2>2. <<>> \in Seq(S) /\ <<Do("wakeup", 0)>> \in Seq(S) /\ <<Do("activate", 0)>> \in Seq(S)
    BY <2>1
  <2>3. a \in Seq(S)
    BY <2>2 DEF After
  <2> QED BY <2>3
<1>2. CASE \E n \in 1 .. 7 : r = Later(n)
  BY <1>2, LaterFacts
<1>3. CASE r \in After
  BY <1>1, <1>3, SelfTyped
<1>4. CASE \E a \in After : r = <<Do("save", "opt")>> \o a
  <2>1. PICK a \in After : r = <<Do("save", "opt")>> \o a
    BY <1>4
  <2>2. PICK S : a \in Seq(S)
    BY <1>1
  <2>3. FrontOf(r, Do("save", "opt"), a)
    BY <2>1, <2>2, InFrontOf
  <2> QED BY <2>3 DEF FrontOf
<1>5. CASE r \in {<<Do("unlock", "api")>>,
                  <<Do("save", "opt"), Do("unlock", "api")>>}
  <2>1. PICK S : S = {Do("unlock", "api"), Do("save", "opt")}
    OBVIOUS
  <2>2. <<Do("unlock", "api")>> \in Seq(S) /\ <<Do("save", "opt"), Do("unlock", "api")>> \in Seq(S)
    BY <2>1
  <2>3. r \in Seq(S)
    BY <1>5, <2>2
  <2> QED BY <2>3, SelfTyped
<1> QED BY <1>2, <1>3, <1>4, <1>5

LEMMA BusyTyped ==
  ASSUME NEW t, NEW x, NEW r, Busy(t, x, r)
  PROVE  r \in Seq(Range(r))
<1>1. \A n \in 1 .. 6 : n \in 1 .. 7 /\ n + 1 \in 1 .. 7
  OBVIOUS
<1>2. <<>> \in After
  BY DEF After
<1> QED BY <1>1, <1>2, RestTyped DEF Busy

LEMMA CallIs ==
  \A x \in Calls : x = Do(x.op, x.arg)
BY DoFacts DEF Calls

LEMMA ThreadBusy ==
  ASSUME ShapeInv, NEW t \in Thread, todo[t] # <<>>
  PROVE  \E x, r : Busy(t, x, r) /\ Doing(t, x, r)
<1>1. PICK s : s = todo[t]
  OBVIOUS
<1>2. s \in Seq(Range(s)) /\ s # <<>>
  BY <1>1 DEF ShapeInv
<1>3. s = <<Head(s)>> \o Tail(s)
  BY <1>2, HeadAndTail
<1>4. ASSUME Busy(t, Head(s), Tail(s))
      PROVE  \E x, r : Busy(t, x, r) /\ Doing(t, x, r)
  <2>1. Doing(t, Head(s), Tail(s))
    BY <1>1, <1>3, <1>4, BusyIsNoLock, BusyTyped DEF Doing
  <2> QED BY <1>4, <2>1
<1>5. CASE t = Starter /\ ~up
  <2>1. PICK n \in 1 .. 6 : s = Later(n) \/ (Head(s) \in Before(n) /\ Tail(s) = Later(n))
    BY <1>1, <1>2, <1>5 DEF ShapeInv, Starting
  <2>2. CASE s = Later(n)
    <3>1. n + 1 \in 1 .. 7
      OBVIOUS
    <3>2. FrontOf(s, BootCode[n], Later(n + 1))
      BY <2>2, <3>1, LaterFacts, InFrontOf
    <3>3. Busy(t, Head(s), Tail(s))
      BY <1>5, <3>2 DEF FrontOf, Busy
    <3> QED BY <1>4, <3>3
  <2>3. CASE Head(s) \in Before(n) /\ Tail(s) = Later(n)
    <3>1. Busy(t, Head(s), Tail(s))
      BY <1>5, <2>3 DEF Busy
    <3> QED BY <1>4, <3>1
  <2> QED BY <2>1, <2>2, <2>3
<1>6. CASE t = Starter /\ up
  BY <1>1, <1>2, <1>6 DEF ShapeInv
<1>7. CASE t # Starter
  <2>1. up /\ (Serving(s) \/ Completing(s))
    BY <1>1, <1>2, <1>7 DEF ShapeInv
  <2>a. CASE Completing(s)
    <3>1. Busy(t, Head(s), Tail(s))
      BY <1>7, <2>1, <2>a DEF Completing, Busy
    <3> QED BY <1>4, <3>1
  <2>2. CASE \E x \in Calls : s = Api(x.op, x.arg)
    <3>1. PICK x \in Calls : s = Api(x.op, x.arg)
      BY <2>2
    <3>2. s = <<Do("lock", "api")>> \o (<<x>> \o <<Do("unlock", "api")>>)
      BY <3>1, ApiIs, CallIs
    <3>3. Busy(t, x, <<Do("unlock", "api")>>)
      BY <1>7, <2>1, <3>1 DEF Busy
    <3>4. Doing(t, x, <<Do("unlock", "api")>>)
      BY <1>1, <3>2, <3>3, BusyIsNoLock, BusyTyped DEF Doing
    <3> QED BY <3>3, <3>4
  <2>3. CASE /\ Head(s) \in Saves("opt")
             /\ Tail(s) \in {<<Do("unlock", "api")>>,
                             <<Do("save", "opt"), Do("unlock", "api")>>}
    <3>1. Busy(t, Head(s), Tail(s))
      BY <1>7, <2>1, <2>3 DEF Busy
    <3> QED BY <1>4, <3>1
  <2> QED BY <2>1, <2>a, <2>2, <2>3 DEF Serving
<1> QED BY <1>5, <1>6, <1>7

LEMMA AtBusy ==
  ASSUME ShapeInv, NEW t \in Thread, NEW op, At(t, op)
  PROVE  \E x, r : /\ Busy(t, x, r) /\ Doing(t, x, r)
                   /\ x.op = op /\ Arg(t) = x.arg
<1>1. todo[t] # <<>>
  BY DEF At, Idle
<1> QED BY <1>1, ThreadBusy, DoingFacts

\* Only the thread that starts the plugin is at a stage of the start.
LEMMA StageAt ==
  ASSUME ShapeInv, NEW t \in Thread, NEW n \in 1 .. 6, At(t, BootCode[n].op)
  PROVE  /\ t = Starter /\ ~up
         /\ Busy(t, BootCode[n], Later(n + 1)) /\ Doing(t, BootCode[n], Later(n + 1))
<1>1. PICK x, r : Busy(t, x, r) /\ Doing(t, x, r) /\ x.op = BootCode[n].op
  BY AtBusy
<1>2. x.op \notin {"save", "write", "sinceWakeup", "readBack", "standby", "compare",
                   "sources", "timer", "platform", "state", "wakeup", "activate",
                   "perform", "sleep"}
  BY <1>1, Ops
<1>3. /\ x \notin Calls /\ \A name : x \notin Saves(name)
      /\ \A m \in 1 .. 6 : x \notin Before(m)
  BY <1>2, BeforeFacts, Ops
<1>4. /\ \A state : x # Do("platform", state) /\ x # Do("state", state)
      /\ x # Do("wakeup", 0) /\ x # Do("activate", 0) /\ ~Performing(x)
      /\ ~Sleeping(x)
  BY <1>2, DoFacts DEF Performing, Sleeping
<1>5. t = Starter /\ ~up /\ \E m \in 1 .. 6 : x = BootCode[m] /\ r = Later(m + 1)
  BY <1>1, <1>3, <1>4 DEF Busy
<1>6. PICK m \in 1 .. 6 : x = BootCode[m] /\ r = Later(m + 1)
  BY <1>5
<1>7. BootCode[m].op = BootCode[n].op
  BY <1>1, <1>6
<1>8. m = n
  BY <1>7, Ops
<1> QED BY <1>1, <1>5, <1>6, <1>8

LEMMA CallAt ==
  ASSUME ShapeInv, NEW t \in Thread,
         NEW op \in {"sinceWakeup", "readBack", "standby", "compare", "sources",
                     "timer"}, At(t, op)
  PROVE  /\ t # Starter /\ up
         /\ \E x \in Calls : /\ x.op = op /\ Arg(t) = x.arg
                             /\ Busy(t, x, <<Do("unlock", "api")>>)
                             /\ Doing(t, x, <<Do("unlock", "api")>>)
<1>1. PICK x, r : Busy(t, x, r) /\ Doing(t, x, r) /\ x.op = op /\ Arg(t) = x.arg
  BY AtBusy
<1>2. /\ \A name : x \notin Saves(name)
      /\ \A m \in 1 .. 6 : x \notin Before(m) /\ x # BootCode[m]
  BY <1>1, BeforeFacts, Ops
<1>3. /\ \A state : x # Do("platform", state) /\ x # Do("state", state)
      /\ x # Do("wakeup", 0) /\ x # Do("activate", 0) /\ ~Performing(x)
      /\ ~Sleeping(x)
  BY <1>1, DoFacts DEF Performing, Sleeping
<1>4. t # Starter /\ up /\ x \in Calls /\ r = <<Do("unlock", "api")>>
  BY <1>1, <1>2, <1>3 DEF Busy
<1> QED BY <1>1, <1>4

\* What the handlers do, apart from saving.
LEMMA HandlingAt ==
  ASSUME ShapeInv, NEW t \in Thread,
         NEW op \in {"platform", "state", "wakeup", "activate", "perform", "sleep"},
         At(t, op)
  PROVE  /\ t # Starter /\ up
         /\ \E r : /\ Busy(t, Do(op, Arg(t)), r) /\ Doing(t, Do(op, Arg(t)), r)
                   /\ \/ op = "platform" /\ Arg(t) \in Change
                      \/ op = "state" /\ Arg(t) \in States
                      \/ op \in {"wakeup", "activate"} /\ Arg(t) = 0
                      \/ op = "perform" /\ Performing(Do(op, Arg(t)))
                      \/ op = "sleep" /\ GoodSleep(Arg(t))
                   /\ IF op = "state" THEN \E a \in After : r = <<Do("save", "opt")>> \o a
                      ELSE r = <<>>
<1>1. PICK x, r : Busy(t, x, r) /\ Doing(t, x, r) /\ x.op = op /\ Arg(t) = x.arg
  BY AtBusy
<1>2. /\ x \notin Calls /\ \A name : x \notin Saves(name)
      /\ \A m \in 1 .. 6 : x \notin Before(m) /\ x # BootCode[m]
  BY <1>1, BeforeFacts, Ops
<1>3. t # Starter /\ up
  BY <1>1, <1>2 DEF Busy
<1>4. \/ x \in {Do("platform", change) : change \in Change} /\ r = <<>>
      \/ /\ x \in {Do("state", state) : state \in States}
         /\ \E a \in After : r = <<Do("save", "opt")>> \o a
      \/ x \in {Do("wakeup", 0), Do("activate", 0)} /\ r = <<>>
      \/ Performing(x) /\ r = <<>>
      \/ Sleeping(x) /\ r = <<>>
  BY <1>1, <1>2 DEF Busy
<1>5. x = Do(x.op, x.arg)
  BY <1>4, DoFacts DEF Performing, Sleeping
<1>6. \/ op = "platform" /\ Arg(t) \in Change
      \/ op = "state" /\ Arg(t) \in States
      \/ op \in {"wakeup", "activate"} /\ Arg(t) = 0
      \/ op = "perform" /\ Performing(Do(op, Arg(t)))
      \/ op = "sleep" /\ GoodSleep(Arg(t))
  BY <1>1, <1>4, <1>5, DoFacts DEF Performing, Sleeping
<1>7. IF op = "state" THEN \E a \in After : r = <<Do("save", "opt")>> \o a
      ELSE r = <<>>
  BY <1>1, <1>4, DoFacts DEF Performing, Sleeping
<1> QED BY <1>1, <1>3, <1>5, <1>6, <1>7

\* Who saves or writes, and what follows.
LEMMA SavingAt ==
  ASSUME ShapeInv, NEW t \in Thread, NEW op \in {"save", "write"}, At(t, op)
  PROVE  \E x, r, name :
           /\ Busy(t, x, r) /\ Doing(t, x, r) /\ x.op = op /\ Arg(t) = x.arg
           /\ x \in Saves(name)
           /\ \/ up /\ name = "opt"
              \/ t = Starter /\ ~up /\ name = "opt" /\ r = Later(2) /\ op = "write"
              \/ t = Starter /\ ~up /\ name = "ram" /\ r = Later(3)
              \/ t = Starter /\ ~up /\ name = "opt" /\ r = Later(6)
<1>1. PICK x, r : Busy(t, x, r) /\ Doing(t, x, r) /\ x.op = op /\ Arg(t) = x.arg
  BY AtBusy
<1>2. x \notin Calls /\ \A m \in 1 .. 6 : x # BootCode[m]
  BY <1>1, Ops
<1>3. /\ \A state : x # Do("platform", state) /\ x # Do("state", state)
      /\ x # Do("wakeup", 0) /\ x # Do("activate", 0) /\ ~Performing(x)
      /\ ~Sleeping(x)
  BY <1>1, DoFacts DEF Performing, Sleeping
<1>4. CASE up
  <2>1. x \in Saves("opt")
    BY <1>1, <1>2, <1>3, <1>4 DEF Busy
  <2> QED BY <1>1, <1>4, <2>1
<1>5. CASE ~up
  <2>1. t = Starter /\ \E n \in 1 .. 6 : x \in Before(n) /\ r = Later(n)
    BY <1>1, <1>2, <1>5 DEF Busy
  <2>2. PICK n \in 1 .. 6 : x \in Before(n) /\ r = Later(n)
    BY <2>1
  <2>3. x \in Saves("opt") /\ x # Do("save", "opt") => op = "write"
    BY <1>1 DEF Saves, Do
  <2> QED BY <1>1, <1>5, <2>1, <2>2, <2>3, BeforeFacts
<1> QED BY <1>4, <1>5

----------------------------------------------------------------------------
(* The shape of what is to be done.                                        *)

\* s is what t may have to do.
Stacked(t, s) ==
  \/ s = <<>>
  \/ \E x, r : Busy(t, x, r) /\ x \notin Calls /\ s = <<x>> \o r
  \/ t # Starter /\ up /\ \E x \in Calls : s = Api(x.op, x.arg)

LEMMA NotCalls ==
  /\ \A name : \A x \in Saves(name) : x \notin Calls
  /\ \A n \in 1 .. 6 : BootCode[n] \notin Calls
  /\ \A n \in 1 .. 6 : \A x \in Before(n) : x \notin Calls
  /\ \A op \in {"platform", "state", "wakeup", "activate", "perform", "sleep"} :
       \A arg : Do(op, arg) \notin Calls
  /\ \A x : Performing(x) \/ Sleeping(x) => x \notin Calls
<1>1. \A x : x.op \notin {"sinceWakeup", "readBack", "standby", "compare",
                          "sources", "timer"} => x \notin Calls
  BY Ops
<1>2. \A name : \A x \in Saves(name) : x \notin Calls
  BY <1>1, Ops
<1>3. \A n \in 1 .. 6 : BootCode[n] \notin Calls
  BY <1>1, Ops
<1>4. \A n \in 1 .. 6 : \A x \in Before(n) : x \notin Calls
  BY <1>2, BeforeFacts
<1>5. \A op \in {"platform", "state", "wakeup", "activate", "perform", "sleep"} :
       \A arg : Do(op, arg) \notin Calls
  BY <1>1, DoFacts
<1>6. \A x : Performing(x) \/ Sleeping(x) => x \notin Calls
  BY <1>5 DEF Performing, Sleeping
<1> QED BY <1>2, <1>3, <1>4, <1>5, <1>6

LEMMA StackedShape ==
  ASSUME NEW t \in Thread, NEW s, Stacked(t, s), s # <<>>
  PROVE  /\ s \in Seq(Range(s))
         /\ t = Starter => ~up /\ Starting(s)
         /\ t # Starter => up /\ (Serving(s) \/ Completing(s))
<1>1. CASE \E x, r : Busy(t, x, r) /\ x \notin Calls /\ s = <<x>> \o r
  <2>1. PICK x, r : Busy(t, x, r) /\ x \notin Calls /\ s = <<x>> \o r
    BY <1>1
  <2>2. r \in Seq(Range(r))
    BY <2>1, BusyTyped
  <2>3. FrontOf(s, x, r)
    BY <2>1, <2>2, InFrontOf
  <2>4. s \in Seq(Range(s)) /\ Head(s) = x /\ Tail(s) = r
    BY <2>3 DEF FrontOf
  <2>5. CASE t = Starter /\ ~up
    <3>1. PICK n \in 1 .. 6 : \/ x = BootCode[n] /\ r = Later(n + 1)
                              \/ x \in Before(n) /\ r = Later(n)
      BY <2>1, <2>5 DEF Busy
    <3>2. x = BootCode[n] /\ r = Later(n + 1) => s = Later(n)
      BY <2>1, LaterFacts
    <3> QED BY <2>4, <2>5, <3>1, <3>2 DEF Starting
  <2>6. CASE t = Starter /\ up
    BY <2>1, <2>6 DEF Busy
  <2>7. CASE t # Starter
    BY <2>1, <2>4, <2>7 DEF Busy, Serving, Completing
  <2> QED BY <2>4, <2>5, <2>6, <2>7
<1>2. CASE t # Starter /\ up /\ \E x \in Calls : s = Api(x.op, x.arg)
  <2>1. PICK x \in Calls : s = Api(x.op, x.arg)
    BY <1>2
  <2>2. PICK y, z, g : y = Do("lock", "api") /\ z = Do(x.op, x.arg)
                       /\ g = <<Do("unlock", "api")>>
    OBVIOUS
  <2>3. s = <<y>> \o (<<z>> \o g)
    BY <2>1, <2>2, ApiIs
  <2>4. PICK S : S = {Do("unlock", "api")}
    OBVIOUS
  <2>5. g \in Seq(S)
    BY <2>2, <2>4
  <2>6. FrontOf(<<z>> \o g, z, g)
    BY <2>5, InFrontOf
  <2>7. \E T : <<z>> \o g \in Seq(T)
    BY <2>6 DEF FrontOf
  <2>8. FrontOf(s, y, <<z>> \o g)
    BY <2>3, <2>7, InFrontOf
  <2>9. s \in Seq(Range(s))
    BY <2>8 DEF FrontOf
  <2> QED BY <1>2, <2>9 DEF Serving
<1> QED BY <1>1, <1>2 DEF Stacked

\* What may have to be done depends on up alone.
LEMMA ShapeKept ==
  ASSUME ShapeInv, NEW t \in Thread, NEW s, Stacked(t, s), Goes(t, s), up' = up
  PROVE  ShapeInv'
<1>1. DOMAIN todo' = Thread
  BY DEF Goes
<1>2. \A u \in Thread : todo'[u] = IF u = t THEN s ELSE todo[u]
  BY DEF Goes
<1>3. <<>> \in Seq(Range(<<>>))
  OBVIOUS
<1>4. \A u \in Thread : todo'[u] \in Seq(Range(todo'[u]))
  BY <1>2, <1>3, StackedShape DEF ShapeInv
<1>5. Starter \in Thread
  BY SettingsAssumption
<1>6. todo'[Starter] # <<>> => ~up' /\ Starting(todo'[Starter])
  BY <1>2, <1>5, StackedShape DEF ShapeInv
<1>7. \A u \in Thread \ {Starter} :
        todo'[u] # <<>> => up' /\ (Serving(todo'[u]) \/ Completing(todo'[u]))
  BY <1>2, StackedShape DEF ShapeInv
<1> QED BY <1>1, <1>4, <1>6, <1>7 DEF ShapeInv

\* And so may the rest of what is being done.
LEMMA RestStacked ==
  ASSUME NEW t, NEW x, NEW r, Busy(t, x, r)
  PROVE  /\ Stacked(t, AfterUnlocks(r))
         /\ Bare(AfterUnlocks(r)) = Bare(r)
<1>0. <<>> \in Seq({}) /\ Bare(<<>>) = {}
  BY BareFacts
<1>1. CASE \E n \in 1 .. 7 : t = Starter /\ ~up /\ r = Later(n)
  <2>1. PICK n \in 1 .. 7 : r = Later(n) /\ t = Starter /\ ~up
    BY <1>1
  <2>2. CASE n = 7
    <3>1. r = <<>>
      BY <2>1, <2>2, LaterFacts
    <3>2. AfterUnlocks(r) = r
      BY <1>0, <3>1, NothingGivenBack
    <3> QED BY <3>1, <3>2 DEF Stacked
  <2>3. CASE n \in 1 .. 6
    <3>1. r \in Seq(Range(r)) /\ r = <<BootCode[n]>> \o Later(n + 1)
      BY <2>1, <2>3, LaterFacts
    <3>2. Busy(t, BootCode[n], Later(n + 1))
      BY <2>1, <2>3 DEF Busy
    <3>3. n + 1 \in 1 .. 7
      BY <2>3
    <3>4. FrontOf(r, BootCode[n], Later(n + 1))
      BY <3>1, <3>3, LaterFacts, InFrontOf
    <3>5. r[1].op # "unlock"
      BY <2>3, <3>4, Ops DEF FrontOf
    <3>6. AfterUnlocks(r) = r
      BY <3>1, <3>5, NothingGivenBack
    <3>7. BootCode[n] \notin Calls
      BY <2>3, NotCalls
    <3>8. Stacked(t, r)
      BY <3>1, <3>2, <3>7 DEF Stacked
    <3> QED BY <3>6, <3>8
  <2> QED BY <2>2, <2>3
<1>2. CASE t # Starter /\ up /\ r \in After
  <2>1. CASE r = <<>>
    <3>1. AfterUnlocks(r) = r
      BY <1>0, <2>1, NothingGivenBack
    <3> QED BY <2>1, <3>1 DEF Stacked
  <2>2. ASSUME NEW y \in {Do("wakeup", 0), Do("activate", 0)}, r = <<y>>
        PROVE  Stacked(t, AfterUnlocks(r)) /\ Bare(AfterUnlocks(r)) = Bare(r)
    <3>1. Busy(t, y, <<>>) /\ y \notin Calls /\ y.op # "unlock"
      BY <1>2, DoFacts, NotCalls DEF Busy
    <3>2. r \in Seq({y}) /\ r[1] = y /\ r = <<y>> \o <<>>
      BY <2>2
    <3>3. AfterUnlocks(r) = r
      BY <3>1, <3>2, NothingGivenBack
    <3>4. Stacked(t, r)
      BY <3>1, <3>2 DEF Stacked
    <3> QED BY <3>3, <3>4
  <2> QED BY <1>2, <2>1, <2>2 DEF After
<1>3. CASE t # Starter /\ up /\ \E a \in After : r = <<Do("save", "opt")>> \o a
  <2>1. PICK a \in After : r = <<Do("save", "opt")>> \o a
    BY <1>3
  <2>2. a \in Seq(Range(a)) /\ r \in Seq(Range(r))
    BY <2>1, RestTyped
  <2>3. PICK y : y = Do("save", "opt")
    OBVIOUS
  <2>4. y \in Saves("opt") /\ y.op = "save" /\ y \notin Calls
    BY <2>3, DoFacts, NotCalls DEF Saves, Do
  <2>5. FrontOf(r, y, a)
    BY <2>1, <2>2, <2>3, InFrontOf
  <2>6. AfterUnlocks(r) = r
    BY <2>2, <2>4, <2>5, NothingGivenBack DEF FrontOf
  <2>7. Busy(t, y, a)
    BY <1>3, <2>4 DEF Busy
  <2>8. Stacked(t, r)
    BY <2>1, <2>3, <2>4, <2>7 DEF Stacked
  <2> QED BY <2>6, <2>8
<1>4. CASE r = <<Do("unlock", "api")>>
  <2>1. AfterUnlocks(r) = <<>>
    BY <1>4, AllGivenBack
  <2>2. IsLock(Do("unlock", "api"))
    BY DoFacts DEF IsLock
  <2>3. Bare(r) = {}
    BY <1>4, <2>2, BareFacts
  <2> QED BY <1>0, <2>1, <2>3 DEF Stacked
<1>5. CASE t # Starter /\ up /\ r = <<Do("save", "opt"), Do("unlock", "api")>>
  <2>1. PICK y, g : y = Do("save", "opt") /\ g = <<Do("unlock", "api")>>
    OBVIOUS
  <2>2. y \in Saves("opt") /\ y.op = "save" /\ y \notin Calls
    BY <2>1, DoFacts, NotCalls DEF Saves, Do
  <2>3. Busy(t, y, g)
    BY <1>5, <2>1, <2>2 DEF Busy
  <2>4. r = <<y>> \o g /\ r[1] = y /\ r \in Seq({y, Do("unlock", "api")})
    BY <1>5, <2>1
  <2>5. AfterUnlocks(r) = r
    BY <2>2, <2>4, NothingGivenBack
  <2>6. Stacked(t, r)
    BY <2>2, <2>3, <2>4 DEF Stacked
  <2> QED BY <2>5, <2>6
<1>6. \A n \in 1 .. 6 : n \in 1 .. 7 /\ n + 1 \in 1 .. 7
  OBVIOUS
<1>7. <<>> \in After
  BY DEF After
<1> QED BY <1>1, <1>2, <1>3, <1>4, <1>5, <1>6, <1>7 DEF Busy

----------------------------------------------------------------------------
(* What a step does to the work of the threads.                            *)

\* t has x and R to do, does x, and then has B and R to do.
Replaces(t, x, B, R) ==
  /\ todo[t] # <<>> /\ Work(t) = {x} \cup R
  /\ Work(t)' = B \cup R
  /\ \A u \in Thread \ {t} : Work(u)' = Work(u)

LEMMA GoesReplaces ==
  ASSUME NEW t \in Thread, NEW x, NEW r, Doing(t, x, r), todo[t] # <<>>,
         NEW s, Goes(t, s), NEW B, Bare(s) = B \cup Bare(r)
  PROVE  Replaces(t, x, B, Bare(r))
<1>1. Work(t) = {x} \cup Bare(r)
  BY DoingFacts
<1>2. Work(t)' = B \cup Bare(r)
  BY DEF Work, Goes
<1>3. \A u \in Thread \ {t} : Work(u)' = Work(u)
  BY DEF Work, Goes
<1> QED BY <1>1, <1>2, <1>3 DEF Replaces

LEMMA DoingNotIdle ==
  ASSUME NEW t, NEW x, NEW r, Doing(t, x, r)
  PROVE  todo[t] # <<>>
<1>1. x \in Work(t)
  BY DoingFacts
<1>2. Bare(<<>>) = {}
  BY BareFacts
<1> QED BY <1>1, <1>2 DEF Work

LEMMA FinishStep ==
  ASSUME ShapeInv, NEW t \in Thread, NEW x, NEW r, Busy(t, x, r), Doing(t, x, r),
         Continue(t, <<>>)
  PROVE  /\ Goes(t, AfterUnlocks(r)) /\ Replaces(t, x, {}, Bare(r))
         /\ up' = up => ShapeInv'
<1>1. DOMAIN todo = Thread
  BY DEF ShapeInv
<1>2. Goes(t, AfterUnlocks(r))
  BY <1>1, Finished
<1>3. Stacked(t, AfterUnlocks(r)) /\ Bare(AfterUnlocks(r)) = {} \cup Bare(r)
  BY RestStacked
<1>4. Replaces(t, x, {}, Bare(r))
  BY <1>2, <1>3, GoesReplaces, DoingNotIdle
<1> QED BY <1>2, <1>3, <1>4, ShapeKept

LEMMA PushStep ==
  ASSUME ShapeInv, NEW t \in Thread, NEW x, NEW r, Busy(t, x, r), Doing(t, x, r),
         NEW y, Busy(t, y, r), y \notin Calls, Continue(t, <<y>>)
  PROVE  Replaces(t, x, {y}, Bare(r)) /\ (up' = up => ShapeInv')
<1>1. DOMAIN todo = Thread
  BY DEF ShapeInv
<1>2. ~IsLock(y)
  BY BusyIsNoLock
<1>3. Goes(t, <<y>> \o r)
  BY <1>1, <1>2, ContinuedOne
<1>4. Bare(<<y>> \o r) = {y} \cup Bare(r)
  BY <1>2, BusyTyped, BareInFront
<1>5. Replaces(t, x, {y}, Bare(r))
  BY <1>3, <1>4, GoesReplaces, DoingNotIdle
<1>6. Stacked(t, <<y>> \o r)
  BY DEF Stacked
<1> QED BY <1>3, <1>5, <1>6, ShapeKept

LEMMA BareApi ==
  ASSUME NEW x \in Calls, NEW s, s = Api(x.op, x.arg)
  PROVE  s \in Seq(Range(s)) /\ Bare(s) = {x}
<1>1. PICK l, g : l = Do("lock", "api") /\ g = <<Do("unlock", "api")>>
  OBVIOUS
<1>2. s = <<l>> \o (<<x>> \o g)
  BY <1>1, ApiIs, CallIs
<1>3. \E S : g \in Seq(S)
  <2>1. PICK S : S = {Do("unlock", "api")}
    OBVIOUS
  <2>2. g \in Seq(S)
    BY <1>1, <2>1
  <2> QED BY <2>2
<1>4. FrontOf(<<x>> \o g, x, g)
  BY <1>3, InFrontOf
<1>5. ~IsLock(x) /\ IsLock(l)
  BY <1>1, Ops, DoFacts DEF IsLock
<1>6. Bare(<<x>> \o g) = {x} \cup Bare(g)
  BY <1>3, <1>5, BareInFront
<1>7. \E S : <<x>> \o g \in Seq(S)
  BY <1>4 DEF FrontOf
<1>8. Bare(s) = Bare(<<x>> \o g)
  BY <1>2, <1>5, <1>7, BareInFront
<1>9. FrontOf(s, l, <<x>> \o g)
  BY <1>2, <1>7, InFrontOf
<1>10. Bare(g) = {}
  BY <1>1, BareFacts, DoFacts DEF IsLock
<1> QED BY <1>6, <1>8, <1>9, <1>10 DEF FrontOf

\* The lock is given back, and taken again for the next call.
LEMMA BackStep ==
  ASSUME ShapeInv, NEW t \in Thread, NEW x \in Calls,
         Busy(t, x, <<Do("unlock", "api")>>), Doing(t, x, <<Do("unlock", "api")>>),
         up' = up
  PROVE  /\ GiveBack(t, <<>>) => Replaces(t, x, {}, {}) /\ ShapeInv'
         /\ \A y \in Calls : GiveBack(t, Api(y.op, y.arg)) =>
              Replaces(t, x, {y}, {}) /\ ShapeInv'
<1>1. DOMAIN todo = Thread
  BY DEF ShapeInv
<1>2. Rest(t) = <<Do("unlock", "api")>>
  BY DoingFacts
<1>3. AfterUnlocks(Rest(t)) = <<>>
  BY <1>2, AllGivenBack
<1>4. Bare(<<Do("unlock", "api")>>) = {}
  BY BareFacts, DoFacts DEF IsLock
<1>5. t # Starter /\ up
  <2>1. \A n \in 1 .. 6 : x # BootCode[n] /\ x \notin Before(n)
    BY NotCalls
  <2>2. x \notin Saves("opt") /\ ~Performing(x) /\ ~Sleeping(x)
    BY NotCalls
  <2>3. \A op \in {"platform", "state", "wakeup", "activate"} :
          \A arg : x # Do(op, arg)
    BY NotCalls
  <2> QED BY <2>1, <2>2, <2>3 DEF Busy
<1>6. ASSUME GiveBack(t, <<>>)
      PROVE  Replaces(t, x, {}, {}) /\ ShapeInv'
  <2>1. Nested(<<>>, <<>>) = <<>>
    <3>1. <<>> \in Seq({})
      OBVIOUS
    <3> QED BY <3>1, NestedUnlocked
  <2>2. Goes(t, <<>>)
    BY <1>1, <1>3, <1>6, <2>1, ExceptGoes DEF GiveBack
  <2>3. Bare(<<>>) = {} \cup Bare(<<Do("unlock", "api")>>)
    BY <1>4, BareFacts
  <2>4. Replaces(t, x, {}, Bare(<<Do("unlock", "api")>>))
    BY <2>2, <2>3, GoesReplaces, DoingNotIdle
  <2>5. Stacked(t, <<>>)
    BY DEF Stacked
  <2> QED BY <1>4, <2>2, <2>4, <2>5, ShapeKept
<1>7. ASSUME NEW y \in Calls, GiveBack(t, Api(y.op, y.arg))
      PROVE  Replaces(t, x, {y}, {}) /\ ShapeInv'
  <2>1. PICK s : s = Api(y.op, y.arg)
    OBVIOUS
  <2>2. Stacked(t, s)
    BY <1>5, <2>1 DEF Stacked
  <2>3. s \in Seq(Range(s)) /\ Bare(s) = {y}
    BY <2>1, BareApi
  <2>4. Nested(s, <<>>) = s
    BY <2>3, NestedUnlocked
  <2>5. Goes(t, s)
    BY <1>1, <1>3, <1>7, <2>1, <2>4, ExceptGoes DEF GiveBack
  <2>6. Bare(s) = {y} \cup Bare(<<Do("unlock", "api")>>)
    BY <1>4, <2>3
  <2>7. Replaces(t, x, {y}, Bare(<<Do("unlock", "api")>>))
    BY <2>5, <2>6, GoesReplaces, DoingNotIdle
  <2> QED BY <1>4, <2>2, <2>5, <2>7, ShapeKept
<1> QED BY <1>6, <1>7

----------------------------------------------------------------------------
(* Files and platform states.                                              *)

LEMMA PlatformFacts ==
  /\ \A state \in States : /\ ToPlatform(state) \in Names \cup {"MAX"}
                           /\ FromPlatform(ToPlatform(state)) = state
  /\ \A state \in Names \cup {"MAX"} : /\ FromPlatform(state) \in States
                                       /\ ToPlatform(FromPlatform(state)) = state
  /\ FromPlatform("ON") = "ON" /\ ToPlatform("ON") = "ON"
BY DEF States, Names, ToPlatform, FromPlatform

LEMMA ValidFacts ==
  /\ NoFile # BadFile
  /\ \A file \in Stored : Valid(file)
  /\ \A file \in File : Valid(file) => file \in Stored
<1>1. NoFile # BadFile
  <2>1. NoFile.is = "none" /\ BadFile.is = "bad"
    BY DEF NoFile, BadFile
  <2> QED BY <2>1
<1>2. ASSUME NEW file \in Stored
      PROVE  Valid(file)
  <2>1. DOMAIN file = {"state", "timeout", "standby"}
    BY DEF Stored
  <2>2. DOMAIN NoFile = {"is"} /\ DOMAIN BadFile = {"is"}
    BY DEF NoFile, BadFile
  <2>3. "state" # "is"
    OBVIOUS
  <2>4. file # NoFile /\ file # BadFile
    BY <2>1, <2>2, <2>3
  <2> QED BY <2>4 DEF Valid
<1> QED BY <1>1, <1>2 DEF File, Valid

LEMMA NoSettingsTyped ==
  /\ NoSettings \in SettingsType
  /\ NoSettings.state = "ON" /\ NoSettings.usable = FALSE
<1>1. 8 * Hour \in 0 .. Word - 1
  BY WordAssumption DEF Hour, limit
<1>2. "ON" \in States
  BY DEF States, Names
<1> QED BY <1>1, <1>2 DEF NoSettings, SettingsType

LEMMA ImageFacts ==
  ASSUME NEW s \in SettingsType
  PROVE  /\ Image(s) \in Stored \cup {BadFile}
         /\ s.usable => Image(s) \in Stored /\ Image(s).state = ToPlatform(s.state)
<1>1. ToPlatform(s.state) \in Names \cup {"MAX"}
  BY PlatformFacts DEF SettingsType
<1> QED BY <1>1 DEF Image, Stored, SettingsType

LEMMA LoadedFacts ==
  ASSUME NEW file \in File
  PROVE  /\ Loaded(file) \in SettingsType /\ Loaded(file).usable = TRUE
         /\ Valid(file) => /\ Image(Loaded(file)) = file
                           /\ Loaded(file).state = FromPlatform(file.state)
         /\ ~Valid(file) => /\ Loaded(file) = Loaded(BadFile)
                            /\ Loaded(file).state = "ON"
<1>1. CASE Valid(file)
  <2>1. file \in Stored
    BY <1>1, ValidFacts
  <2>2. PICK s : s = Loaded(file)
    OBVIOUS
  <2>3. s = [NoSettings EXCEPT !.usable = TRUE,
               !.state = FromPlatform(file.state), !.timeout = file.timeout,
               !.standby = file.standby]
    BY <1>1, <2>2 DEF Loaded
  <2>4. /\ file.state \in Names \cup {"MAX"} /\ file.timeout \in 0 .. Word - 1
        /\ file.standby \in BOOLEAN
        /\ file = [state |-> file.state, timeout |-> file.timeout,
                   standby |-> file.standby]
    BY <2>1 DEF Stored
  <2>5. FromPlatform(file.state) \in States
        /\ ToPlatform(FromPlatform(file.state)) = file.state
    BY <2>4, PlatformFacts
  <2>6. /\ s \in SettingsType /\ s.usable = TRUE
        /\ s.state = FromPlatform(file.state) /\ s.timeout = file.timeout
        /\ s.standby = file.standby
    BY <2>3, <2>4, <2>5, NoSettingsTyped DEF SettingsType
  <2>7. Image(s) = file
    BY <2>4, <2>5, <2>6 DEF Image
  <2> QED BY <1>1, <2>2, <2>6, <2>7
<1>2. CASE ~Valid(file)
  <2>1. Loaded(file) = [NoSettings EXCEPT !.usable = TRUE]
    BY <1>2 DEF Loaded, initDefaults
  <2>2. ~Valid(BadFile)
    BY DEF Valid
  <2>3. Loaded(BadFile) = [NoSettings EXCEPT !.usable = TRUE]
    BY <2>2 DEF Loaded, initDefaults
  <2>4. Loaded(file) \in SettingsType /\ Loaded(file).usable = TRUE
        /\ Loaded(file).state = "ON"
    BY <2>1, NoSettingsTyped DEF SettingsType
  <2> QED BY <1>2, <2>1, <2>3, <2>4
<1> QED BY <1>1, <1>2

\* What is written over a file that cannot be read.
LEMMA RepairFacts ==
  /\ BadFile \in File /\ NoFile \in File /\ ~Valid(BadFile) /\ ~Valid(NoFile)
  /\ Image(Loaded(BadFile)) \in Stored /\ Image(Loaded(BadFile)).state = "ON"
  /\ \A file \in File : ~Valid(file) => file \in {NoFile, BadFile}
<1>1. BadFile \in File /\ NoFile \in File /\ ~Valid(BadFile) /\ ~Valid(NoFile)
  BY DEF File, Valid
<1>2. Loaded(BadFile) \in SettingsType /\ Loaded(BadFile).usable = TRUE
      /\ Loaded(BadFile).state = "ON"
  BY <1>1, LoadedFacts
<1>3. Image(Loaded(BadFile)) \in Stored /\ Image(Loaded(BadFile)).state = "ON"
  BY <1>2, ImageFacts, PlatformFacts
<1>4. \A file \in File : ~Valid(file) => file \in {NoFile, BadFile}
  BY DEF Valid
<1> QED BY <1>1, <1>3, <1>4

----------------------------------------------------------------------------
(* The stages of the start.                                                *)

StageSet(n) == {BootCode[i] : i \in n .. 6}

LEMMA StageWork ==
  \A n \in 1 .. 7 : Bare(Later(n)) = StageSet(n)
<1>1. Bare(Later(7)) = {} /\ StageSet(7) = {}
  BY LaterFacts, BareFacts DEF StageSet
<1>2. ASSUME NEW n \in 1 .. 6
      PROVE  /\ Bare(Later(n)) = {BootCode[n]} \cup Bare(Later(n + 1))
             /\ StageSet(n) = {BootCode[n]} \cup StageSet(n + 1)
  <2>1. n + 1 \in 1 .. 7
    OBVIOUS
  <2>2. Later(n) = <<BootCode[n]>> \o Later(n + 1)
        /\ Later(n + 1) \in Seq(Range(Later(n + 1)))
    BY <2>1, LaterFacts
  <2>3. ~IsLock(BootCode[n])
    BY Ops DEF IsLock
  <2>4. Bare(Later(n)) = {BootCode[n]} \cup Bare(Later(n + 1))
    BY <2>2, <2>3, BareInFront
  <2>5. \A i \in n .. 6 : i = n \/ i \in n + 1 .. 6
    OBVIOUS
  <2>6. \A i \in n + 1 .. 6 : i \in n .. 6
    OBVIOUS
  <2>7. n \in n .. 6
    OBVIOUS
  <2>8. StageSet(n) = {BootCode[n]} \cup StageSet(n + 1)
    BY <2>5, <2>6, <2>7 DEF StageSet
  <2> QED BY <2>4, <2>8
<1>3. Bare(Later(6)) = StageSet(6)
  <2>1. 6 \in 1 .. 6 /\ 6 + 1 = 7
    OBVIOUS
  <2> QED BY <1>1, <1>2, <2>1
<1>4. Bare(Later(5)) = StageSet(5)
  <2>1. 5 \in 1 .. 6 /\ 5 + 1 = 6
    OBVIOUS
  <2> QED BY <1>2, <1>3, <2>1
<1>5. Bare(Later(4)) = StageSet(4)
  <2>1. 4 \in 1 .. 6 /\ 4 + 1 = 5
    OBVIOUS
  <2> QED BY <1>2, <1>4, <2>1
<1>6. Bare(Later(3)) = StageSet(3)
  <2>1. 3 \in 1 .. 6 /\ 3 + 1 = 4
    OBVIOUS
  <2> QED BY <1>2, <1>5, <2>1
<1>7. Bare(Later(2)) = StageSet(2)
  <2>1. 2 \in 1 .. 6 /\ 2 + 1 = 3
    OBVIOUS
  <2> QED BY <1>2, <1>6, <2>1
<1>8. Bare(Later(1)) = StageSet(1)
  <2>1. 1 \in 1 .. 6 /\ 1 + 1 = 2
    OBVIOUS
  <2> QED BY <1>2, <1>7, <2>1
<1>9. \A n \in 1 .. 7 : n \in {1, 2, 3, 4, 5, 6, 7}
  OBVIOUS
<1> QED BY <1>1, <1>3, <1>4, <1>5, <1>6, <1>7, <1>8, <1>9

LEMMA StageFacts ==
  ASSUME NEW n \in 1 .. 7
  PROVE  /\ Do("load", 0) \in StageSet(n) <=> n = 1
         /\ Do("ram", 0) \in StageSet(n) <=> n <= 2
         /\ Do("sourcesAtStart", 0) \in StageSet(n) <=> n <= 4
         /\ Do("init", 0) \in StageSet(n) <=> n <= 5
         /\ \A y \in StageSet(n) :
              y.op \in {"load", "ram", "standbyBuild", "sourcesAtStart", "init",
                        "started"}
<1>1. ASSUME NEW m \in 1 .. 6
      PROVE  BootCode[m] \in StageSet(n) <=> n <= m
  <2>1. n <= m => BootCode[m] \in StageSet(n)
    BY DEF StageSet
  <2>2. ASSUME BootCode[m] \in StageSet(n)
        PROVE  n <= m
    <3>1. PICK i \in n .. 6 : BootCode[m] = BootCode[i]
      BY <2>2 DEF StageSet
    <3>2. i \in 1 .. 6 /\ BootCode[m].op = BootCode[i].op
      BY <3>1
    <3>3. i = m
      BY <3>2, Ops
    <3> QED BY <3>1, <3>3
  <2> QED BY <2>1, <2>2
<1>2. 1 \in 1 .. 6 /\ 2 \in 1 .. 6 /\ 4 \in 1 .. 6 /\ 5 \in 1 .. 6
  OBVIOUS
<1>3. /\ Do("load", 0) \in StageSet(n) <=> n <= 1
      /\ Do("ram", 0) \in StageSet(n) <=> n <= 2
      /\ Do("sourcesAtStart", 0) \in StageSet(n) <=> n <= 4
      /\ Do("init", 0) \in StageSet(n) <=> n <= 5
  BY <1>1, <1>2, BootFacts
<1>4. n <= 1 <=> n = 1
  OBVIOUS
<1>5. \A i \in n .. 6 : i \in 1 .. 6
  OBVIOUS
<1>6. \A y \in StageSet(n) :
        y.op \in {"load", "ram", "standbyBuild", "sourcesAtStart", "init",
                  "started"}
  BY <1>5, Ops DEF StageSet
<1> QED BY <1>3, <1>4, <1>6

LEMMA RestFacts ==
  ASSUME NEW t, NEW x, NEW r, Busy(t, x, r)
  PROVE  \A y \in Bare(r) : y.op # "write" /\ y # Do("save", "ram")
<1>1. ASSUME NEW n \in 1 .. 7, r = Later(n), NEW y \in Bare(r)
      PROVE  y.op # "write" /\ y # Do("save", "ram")
  BY <1>1, StageWork, StageFacts, DoFacts
<1>2. \A a \in After : \A y \in Bare(a) : y.op \in {"wakeup", "activate"}
  <2>1. Bare(<<>>) = {}
    BY BareFacts
  <2>2. \A y \in Bare(<<Do("wakeup", 0)>>) : y = Do("wakeup", 0)
    BY BareFacts
  <2>3. \A y \in Bare(<<Do("activate", 0)>>) : y = Do("activate", 0)
    BY BareFacts
  <2> QED BY <2>1, <2>2, <2>3, DoFacts DEF After
<1>3. Do("save", "opt").op = "save" /\ Do("save", "opt") # Do("save", "ram")
  BY DoFacts
<1>4. ASSUME NEW a \in After, r = <<Do("save", "opt")>> \o a, NEW y \in Bare(r)
      PROVE  y.op # "write" /\ y # Do("save", "ram")
  <2>1. a \in Seq(Range(a))
    BY RestTyped
  <2>2. y = Do("save", "opt") \/ y \in Bare(a)
    BY <1>4, <2>1, BareInFront
  <2> QED BY <1>2, <1>3, <2>2, DoFacts
<1>5. ASSUME r = <<Do("save", "opt"), Do("unlock", "api")>>, NEW y \in Bare(r)
      PROVE  y.op # "write" /\ y # Do("save", "ram")
  <2>1. r[1] = Do("save", "opt") /\ r[2] = Do("unlock", "api") /\ DOMAIN r = {1, 2}
    BY <1>5
  <2>2. y = Do("save", "opt") \/ y = Do("unlock", "api")
    BY <2>1 DEF Bare, Range
  <2> QED BY <1>3, <2>2, DoFacts
<1>6. Bare(<<Do("unlock", "api")>>) = {} /\ Bare(<<>>) = {}
  BY BareFacts, DoFacts DEF IsLock
<1>7. \A n \in 1 .. 6 : n \in 1 .. 7 /\ n + 1 \in 1 .. 7
  OBVIOUS
<1>8. ASSUME r \in After, NEW y \in Bare(r)
      PROVE  y.op # "write" /\ y # Do("save", "ram")
  BY <1>2, <1>8, DoFacts
<1> QED BY <1>1, <1>4, <1>5, <1>6, <1>7, <1>8 DEF Busy

----------------------------------------------------------------------------
(* The steps, one operation at a time.                                     *)

LEMMA SavedImage ==
  ASSUME NEW name, NEW image \in Stored \cup {BadFile}
  PROVE  /\ Do("write", [name |-> name, image |-> image]) \in Saves(name)
         /\ Do("save", name) \in Saves(name)
BY DEF Saves, Do

\* In place of one thing that saves a thread may do another one.
LEMMA SavesAlike ==
  ASSUME NEW t, NEW x \in Saves("opt"), NEW r, Busy(t, x, r), up,
         NEW y \in Saves("opt")
  PROVE  Busy(t, y, r)
<1>1. x.op \in {"save", "write"} /\ x \notin Calls
  BY Ops, NotCalls
<1>2. /\ x \notin {Do("platform", change) : change \in Change}
      /\ x \notin {Do("state", state) : state \in States}
      /\ x \notin {Do("wakeup", 0), Do("activate", 0)}
      /\ ~Performing(x) /\ ~Sleeping(x)
  BY <1>1, DoFacts DEF Performing, Sleeping
<1>3. /\ t # Starter
      /\ \/ r \in After
         \/ r \in {<<Do("unlock", "api")>>,
                   <<Do("save", "opt"), Do("unlock", "api")>>}
  BY <1>1, <1>2 DEF Busy
<1> QED BY <1>3 DEF Busy

\* Where it is saved: the file, and what its thread does after it.
SavePlace(t, name, R) ==
  \/ up /\ name = "opt"
  \/ t = Starter /\ ~up /\ name = "ram" /\ R = StageSet(3)
  \/ t = Starter /\ ~up /\ name = "opt" /\ R = StageSet(6)

NoWrites(R) == \A y \in R : y.op # "write" /\ y # Do("save", "ram")

LEMMA OpenToSaveEffect ==
  ASSUME ShapeInv, TypeInv, NEW t \in Thread, OpenToSave(t)
  PROVE  /\ ShapeInv'
         /\ \E name, R, B :
              /\ Replaces(t, Do("save", name), B, R)
              /\ SavePlace(t, name, R) /\ NoWrites(R)
              /\ \/ /\ B = {Do("write", [name |-> name, image |-> Image(settings)])}
                    /\ Write(name, Created(name))
                    /\ excuses' = excuses \cup Crossing(t)
                 \/ /\ B = {} /\ UNCHANGED files
                    /\ excuses' = excuses \cup (Crossing(t) \cup {Lost(name)})
<1>1. At(t, "save") /\ up' = up
  BY DEF OpenToSave
<1>2. PICK x, r, name :
        /\ Busy(t, x, r) /\ Doing(t, x, r) /\ x.op = "save" /\ Arg(t) = x.arg
        /\ x \in Saves(name)
        /\ \/ up /\ name = "opt"
           \/ t = Starter /\ ~up /\ name = "ram" /\ r = Later(3)
           \/ t = Starter /\ ~up /\ name = "opt" /\ r = Later(6)
  BY <1>1, SavingAt
<1>3. x = Do("save", name) /\ Arg(t) = name
  BY <1>2 DEF Saves, Do
<1>4. NoWrites(Bare(r))
  BY <1>2, RestFacts DEF NoWrites
<1>5. SavePlace(t, name, Bare(r))
  <2>1. 3 \in 1 .. 7 /\ 6 \in 1 .. 7
    OBVIOUS
  <2> QED BY <1>2, <2>1, StageWork DEF SavePlace
<1>6. PICK y : y = Do("write", [name |-> name, image |-> Image(settings)])
  OBVIOUS
<1>7. y \in Saves(name)
  <2>1. Image(settings) \in Stored \cup {BadFile}
    BY ImageFacts DEF TypeInv
  <2> QED BY <1>6, <2>1, SavedImage
<1>8. Busy(t, y, r)
  <2>1. CASE up
    BY <1>2, <1>7, <2>1, SavesAlike
  <2>2. CASE ~up
    <3>1. 3 \in 1 .. 6 /\ Before(3) = Saves("ram") /\ 6 \in 1 .. 6 /\ Before(6) = Saves("opt")
      BY DEF Before
    <3> QED BY <1>2, <1>7, <2>2, <3>1 DEF Busy
  <2> QED BY <2>1, <2>2
<1>9. y \notin Calls
  BY <1>7, NotCalls
<1>10. \/ /\ Continue(t, <<y>>) /\ Write(name, Created(name))
          /\ excuses' = excuses \cup Crossing(t)
       \/ /\ Continue(t, <<>>) /\ UNCHANGED files
          /\ excuses' = excuses \cup (Crossing(t) \cup {Lost(name)})
  BY <1>3, <1>6 DEF OpenToSave, Excused
<1>11. CASE /\ Continue(t, <<y>>) /\ Write(name, Created(name))
            /\ excuses' = excuses \cup Crossing(t)
  <2>1. Replaces(t, x, {y}, Bare(r)) /\ ShapeInv'
    BY <1>1, <1>2, <1>8, <1>9, <1>11, PushStep
  <2> QED BY <1>3, <1>4, <1>5, <1>6, <1>11, <2>1
<1>12. CASE /\ Continue(t, <<>>) /\ UNCHANGED files
            /\ excuses' = excuses \cup (Crossing(t) \cup {Lost(name)})
  <2>1. Replaces(t, x, {}, Bare(r)) /\ ShapeInv'
    BY <1>1, <1>2, <1>12, FinishStep
  <2> QED BY <1>3, <1>4, <1>5, <1>12, <2>1
<1> QED BY <1>10, <1>11, <1>12

LEMMA WriteImageEffect ==
  ASSUME ShapeInv, NEW t \in Thread, WriteImage(t)
  PROVE  /\ ShapeInv'
         /\ \E x, name, image, R :
              /\ x = Do("write", [name |-> name, image |-> image])
              /\ image \in Stored \cup {BadFile}
              /\ Replaces(t, x, {}, R) /\ NoWrites(R)
              /\ \/ SavePlace(t, name, R)
                 \/ t = Starter /\ ~up /\ name = "opt" /\ R = StageSet(2)
              /\ \/ /\ Write(name, image)
                    /\ excuses' = IF name = "opt" THEN excuses \ {"unsaved"}
                                  ELSE excuses
                 \/ excuses' = excuses \cup {Lost(name)} /\ UNCHANGED files
<1>1. At(t, "write") /\ up' = up /\ Continue(t, <<>>)
  BY DEF WriteImage
<1>2. PICK x, r, name :
        /\ Busy(t, x, r) /\ Doing(t, x, r) /\ x.op = "write" /\ Arg(t) = x.arg
        /\ x \in Saves(name)
        /\ \/ up /\ name = "opt"
           \/ t = Starter /\ ~up /\ name = "opt" /\ r = Later(2)
           \/ t = Starter /\ ~up /\ name = "ram" /\ r = Later(3)
           \/ t = Starter /\ ~up /\ name = "opt" /\ r = Later(6)
  BY <1>1, SavingAt
<1>3. x \in [op : {"write"}, arg : [name : {name}, image : Stored \cup {BadFile}]]
  BY <1>2 DEF Saves
<1>4. PICK image \in Stored \cup {BadFile} :
        x = Do("write", [name |-> name, image |-> image])
  BY <1>3 DEF Do
<1>5. Arg(t).name = name /\ Arg(t).image = image
  BY <1>2, <1>4, DoFacts
<1>6. NoWrites(Bare(r))
  BY <1>2, RestFacts DEF NoWrites
<1>7. \/ SavePlace(t, name, Bare(r))
      \/ t = Starter /\ ~up /\ name = "opt" /\ Bare(r) = StageSet(2)
  <2>1. 2 \in 1 .. 7 /\ 3 \in 1 .. 7 /\ 6 \in 1 .. 7
    OBVIOUS
  <2> QED BY <1>2, <2>1, StageWork DEF SavePlace
<1>8. \/ /\ Write(name, image)
         /\ excuses' = IF name = "opt" THEN excuses \ {"unsaved"} ELSE excuses
      \/ excuses' = excuses \cup {Lost(name)} /\ UNCHANGED files
  BY <1>5 DEF WriteImage, Excused
<1>9. Replaces(t, x, {}, Bare(r)) /\ ShapeInv'
  BY <1>1, <1>2, FinishStep
<1> QED BY <1>4, <1>6, <1>7, <1>8, <1>9

LEMMA StageStep ==
  ASSUME ShapeInv, NEW t \in Thread, NEW n \in 1 .. 6, At(t, BootCode[n].op)
  PROVE  /\ t = Starter /\ ~up
         /\ Continue(t, <<>>) => /\ Replaces(t, BootCode[n], {}, StageSet(n + 1))
                                 /\ up' = up => ShapeInv'
         /\ \A y : y \in Before(n + 1) /\ n + 1 \in 1 .. 6 /\ Continue(t, <<y>>) =>
              /\ Replaces(t, BootCode[n], {y}, StageSet(n + 1))
              /\ up' = up => ShapeInv'
<1>1. /\ t = Starter /\ ~up
      /\ Busy(t, BootCode[n], Later(n + 1)) /\ Doing(t, BootCode[n], Later(n + 1))
  BY StageAt
<1>2. Bare(Later(n + 1)) = StageSet(n + 1)
  <2>1. n + 1 \in 1 .. 7
    OBVIOUS
  <2> QED BY <2>1, StageWork
<1>3. ASSUME Continue(t, <<>>)
      PROVE  /\ Replaces(t, BootCode[n], {}, StageSet(n + 1))
             /\ up' = up => ShapeInv'
  BY <1>1, <1>2, <1>3, FinishStep
<1>4. ASSUME NEW y, y \in Before(n + 1), n + 1 \in 1 .. 6, Continue(t, <<y>>)
      PROVE  /\ Replaces(t, BootCode[n], {y}, StageSet(n + 1))
             /\ up' = up => ShapeInv'
  <2>1. Busy(t, y, Later(n + 1))
    BY <1>1, <1>4 DEF Busy
  <2>2. y \notin Calls
    BY <1>4, NotCalls
  <2> QED BY <1>1, <1>2, <1>4, <2>1, <2>2, PushStep
<1> QED BY <1>1, <1>3, <1>4

LEMMA BareSave ==
  ~IsLock(Do("save", "opt")) /\ Save("opt") = <<Do("save", "opt")>>
BY DoFacts DEF IsLock, Save

LEMMA Twice ==
  \A y : <<y>> \o <<y>> = <<y, y>>
<1> SUFFICES ASSUME NEW y PROVE <<y>> \o <<y>> = <<y, y>>
  OBVIOUS
<1>1. PICK S, p : S = {y} /\ p = <<y>>
  OBVIOUS
<1>2. PICK z, q : z = p \o p /\ q = <<y, y>>
  OBVIOUS
<1>3. p \in Seq(S) /\ Len(p) = 1 /\ p[1] = y
  BY <1>1
<1>4. q \in Seq(S) /\ Len(q) = 2 /\ q[1] = y /\ q[2] = y
  BY <1>1, <1>2
<1>5. z \in Seq(S) /\ Len(z) = 2 /\ z[1] = y /\ z[2] = y
  <2>1. Joined(z, p, p)
    BY <1>2, <1>3, JoinedFacts
  <2>2. z \in Seq(S) /\ Len(z) = Len(p) + Len(p)
    BY <1>2, <1>3, ConcatProperties
  <2>3. 1 \in 1 .. 1 /\ 1 + 1 = 2
    OBVIOUS
  <2>4. z[1] = y /\ z[1 + 1] = y
    BY <1>3, <2>1, <2>3 DEF Joined
  <2> QED BY <1>3, <2>2, <2>3, <2>4
<1>6. \A i \in 1 .. 2 : i = 1 \/ i = 2
  OBVIOUS
<1>7. z = q
  BY <1>4, <1>5, <1>6, SeqEqual
<1> QED BY <1>1, <1>2, <1>7

\* A call's step: it is done, or it saves, or it goes on to the next call.
LEMMA CallStep ==
  ASSUME ShapeInv, NEW t \in Thread,
         NEW op \in {"sinceWakeup", "readBack", "standby", "compare", "sources",
                     "timer"}, At(t, op), up' = up,
         NEW x, x = Do(op, Arg(t))
  PROVE  /\ t # Starter /\ up /\ x \in Calls
         /\ Continue(t, <<>>) => Replaces(t, x, {}, {}) /\ ShapeInv'
         /\ Continue(t, Save("opt")) =>
              Replaces(t, x, {Do("save", "opt")}, {}) /\ ShapeInv'
         /\ Continue(t, Save("opt") \o Save("opt")) =>
              Replaces(t, x, {Do("save", "opt")}, {}) /\ ShapeInv'
         /\ GiveBack(t, <<>>) => Replaces(t, x, {}, {}) /\ ShapeInv'
         /\ \A y \in Calls : GiveBack(t, Api(y.op, y.arg)) =>
              Replaces(t, x, {y}, {}) /\ ShapeInv'
<1>1. PICK g, y : g = <<Do("unlock", "api")>> /\ y = Do("save", "opt")
  OBVIOUS
<1>2. t # Starter /\ up /\ x \in Calls /\ Busy(t, x, g) /\ Doing(t, x, g)
  <2>1. PICK z \in Calls : /\ z.op = op /\ Arg(t) = z.arg
                           /\ Busy(t, z, g) /\ Doing(t, z, g)
    BY <1>1, CallAt
  <2>2. z = x
    BY <2>1, CallIs
  <2> QED BY <2>1, <2>2, CallAt
<1>3. Bare(g) = {}
  BY <1>1, BareFacts, DoFacts DEF IsLock
<1>4. y \in Saves("opt") /\ y \notin Calls /\ ~IsLock(y) /\ Save("opt") = <<y>>
  BY <1>1, BareSave, NotCalls DEF Saves, Do
<1>5. Busy(t, y, g)
  BY <1>1, <1>2, <1>4 DEF Busy
<1>6. ASSUME Continue(t, <<>>)
      PROVE  Replaces(t, x, {}, {}) /\ ShapeInv'
  BY <1>2, <1>3, <1>6, FinishStep
<1>7. ASSUME Continue(t, Save("opt"))
      PROVE  Replaces(t, x, {y}, {}) /\ ShapeInv'
  <2>1. Continue(t, <<y>>)
    BY <1>4, <1>7
  <2>2. Replaces(t, x, {y}, Bare(g)) /\ ShapeInv'
    BY <1>2, <1>4, <1>5, <2>1, PushStep
  <2> QED BY <1>3, <2>2
<1>8. ASSUME Continue(t, Save("opt") \o Save("opt"))
      PROVE  Replaces(t, x, {y}, {}) /\ ShapeInv'
  <2>1. PICK b : b = <<y, y>>
    OBVIOUS
  <2>2. b \in Seq({y}) /\ b # <<>> /\ DOMAIN b = {1, 2} /\ b[1] = y /\ b[2] = y
    BY <2>1
  <2>a. <<y>> \o <<y>> = b
    BY <2>1, Twice
  <2>3. Continue(t, b)
    BY <1>4, <1>8, <2>a
  <2>4. Goes(t, b \o g)
    <3>1. \A i \in DOMAIN b : ~IsLock(b[i])
      BY <1>4, <2>2
    <3>2. DOMAIN todo = Thread
      BY DEF ShapeInv
    <3> QED BY <1>2, <2>2, <2>3, <3>1, <3>2, Continued
  <2>5. PICK u : u = Do("unlock", "api")
    OBVIOUS
  <2>6. PICK q : q = <<y, u>>
    OBVIOUS
  <2>7. b \o g = <<y>> \o q
    BY <1>1, <2>1, <2>5, <2>6
  <2>8. Busy(t, y, q)
    BY <1>1, <1>2, <1>4, <2>5, <2>6 DEF Busy
  <2>9. Stacked(t, b \o g)
    BY <1>4, <2>7, <2>8 DEF Stacked
  <2>10. q = <<y>> \o g
    BY <1>1, <2>5, <2>6
  <2>11. q \in Seq(Range(q)) /\ g \in Seq(Range(g))
    BY <1>5, <2>8, BusyTyped
  <2>12. Bare(q) = {y} \cup Bare(g)
    BY <1>4, <2>10, <2>11, BareInFront
  <2>13. Bare(b \o g) = {y} \cup Bare(g)
    BY <1>4, <2>7, <2>11, <2>12, BareInFront
  <2>14. Replaces(t, x, {y}, Bare(g))
    BY <1>2, <2>4, <2>13, GoesReplaces, DoingNotIdle
  <2> QED BY <1>3, <2>4, <2>9, <2>14, ShapeKept
<1>9. /\ GiveBack(t, <<>>) => Replaces(t, x, {}, {}) /\ ShapeInv'
      /\ \A z \in Calls : GiveBack(t, Api(z.op, z.arg)) =>
           Replaces(t, x, {z}, {}) /\ ShapeInv'
  BY <1>1, <1>2, BackStep
<1> QED BY <1>1, <1>2, <1>6, <1>7, <1>8, <1>9

\* What a call may be given.
LEMMA CallArgs ==
  ASSUME NEW op, NEW arg, Do(op, arg) \in Calls
  PROVE  /\ op \in {"standby", "compare"} => arg \in BOOLEAN
         /\ op = "sources" => arg \in Configs
         /\ op = "timer" => arg \in Timeouts
         /\ op = "readBack" => arg = 0
BY DoFacts DEF Calls

LEMMA InCalls ==
  /\ \A mode \in BOOLEAN : Do("standby", mode) \in Calls /\ Do("compare", mode) \in Calls
  /\ Do("readBack", 0) \in Calls
BY DEF Calls

\* The platform is in the state, and the handler has to store and to save it.
LEMMA SetPlatformStateEffect ==
  ASSUME ShapeInv, NEW t \in Thread, SetPlatformState(t)
  PROVE  /\ ShapeInv' /\ t # Starter /\ up
         /\ \E change \in Change : LET x == Do("platform", change) IN
              \/ Replaces(t, x, {}, {}) /\ UNCHANGED <<hw, excuses>>
              \/ /\ hw' = [hw EXCEPT !.state = ToPlatform(change.state)]
                 /\ excuses' = IF \E u \in Thread \ {t} : Storing(u)
                               THEN excuses \cup {"raced"} ELSE excuses \ {"raced"}
                 /\ \E A : /\ Replaces(t, x, {Do("state", change.state),
                                               Do("save", "opt")} \cup A, {})
                           /\ \A y \in A : y.op \in {"wakeup", "activate"}
                           /\ change.state = "ON" /\ change.from # "ON"
                                => Do("wakeup", 0) \in A
<1>1. At(t, "platform") /\ up' = up
  BY DEF SetPlatformState
<1>2. PICK change, state, from, x :
        /\ change = Arg(t) /\ x = Do("platform", change)
        /\ state = change.state /\ from = change.from
  OBVIOUS
<1>3. t # Starter /\ up /\ Busy(t, x, <<>>) /\ Doing(t, x, <<>>) /\ change \in Change
  BY <1>1, <1>2, HandlingAt
<1>a. state \in States
  BY <1>2, <1>3 DEF Change
<1>4. Bare(<<>>) = {}
  BY BareFacts
<1>5. CASE Continue(t, <<>>) /\ UNCHANGED <<hw, excuses>>
  <2>1. Replaces(t, x, {}, Bare(<<>>)) /\ ShapeInv'
    BY <1>1, <1>3, <1>5, FinishStep
  <2> QED BY <1>2, <1>3, <1>4, <1>5, <2>1
<1>6. ASSUME hw' = [hw EXCEPT !.state = ToPlatform(state)],
             Continue(t, <<Do("state", state)>> \o Save("opt")
                         \o (IF WokenUp(from, state)
                             THEN <<Do("wakeup", 0)>> ELSE <<>>)
                         \o (IF state = "DEEP_SLEEP"
                             THEN <<Do("activate", 0)>> ELSE <<>>))
      PROVE  /\ ShapeInv'
             /\ hw' = [hw EXCEPT !.state = ToPlatform(state)]
             /\ \E A : /\ Replaces(t, x, {Do("state", state), Do("save", "opt")}
                                           \cup A, {})
                       /\ \A y \in A : y.op \in {"wakeup", "activate"}
                       /\ state = "ON" /\ from # "ON" => Do("wakeup", 0) \in A
  <2>1. PICK p, q, w, d : /\ p = Do("state", state) /\ q = Do("save", "opt")
                          /\ w = Do("wakeup", 0) /\ d = Do("activate", 0)
    OBVIOUS
  <2>2. PICK a : a = IF state = "ON" /\ from # "ON" THEN <<w>>
                     ELSE IF state = "DEEP_SLEEP" THEN <<d>> ELSE <<>>
    OBVIOUS
  <2>a. a \in {<<>>, <<w>>, <<d>>}
    BY <2>2
  <2>b. a \in After
    BY <2>1, <2>a DEF After
  <2>c. <<>> \in Seq({w, d}) /\ <<w>> \in Seq({w, d}) /\ <<d>> \in Seq({w, d})
    OBVIOUS
  <2>3. a \in After /\ a \in Seq({w, d})
    BY <2>a, <2>b, <2>c
  <2>4. PICK b : b = <<p>> \o (<<q>> \o a)
    OBVIOUS
  <2>5. Continue(t, b)
    <3>1. Save("opt") = <<q>>
      BY <2>1 DEF Save
    <3>2. CASE state = "ON" /\ from # "ON"
      <4>1. Continue(t, <<p>> \o <<q>> \o <<w>> \o <<>>)
        BY <1>6, <2>1, <3>1, <3>2 DEF WokenUp
      <4>2. <<p>> \o <<q>> \o <<w>> \o <<>> = <<p>> \o (<<q>> \o <<w>>)
        OBVIOUS
      <4>3. a = <<w>>
        BY <2>2, <3>2
      <4> QED BY <2>4, <4>1, <4>2, <4>3
    <3>3. CASE ~(state = "ON" /\ from # "ON") /\ state = "DEEP_SLEEP"
      <4>1. Continue(t, <<p>> \o <<q>> \o <<>> \o <<d>>)
        BY <1>6, <2>1, <3>1, <3>3 DEF WokenUp
      <4>2. <<p>> \o <<q>> \o <<>> \o <<d>> = <<p>> \o (<<q>> \o <<d>>)
        OBVIOUS
      <4>3. a = <<d>>
        BY <2>2, <3>3
      <4> QED BY <2>4, <4>1, <4>2, <4>3
    <3>4. CASE ~(state = "ON" /\ from # "ON") /\ state # "DEEP_SLEEP"
      <4>1. Continue(t, <<p>> \o <<q>> \o <<>> \o <<>>)
        BY <1>6, <2>1, <3>1, <3>4 DEF WokenUp
      <4>2. <<p>> \o <<q>> \o <<>> \o <<>> = <<p>> \o (<<q>> \o <<>>)
        OBVIOUS
      <4>3. a = <<>>
        BY <2>2, <3>4
      <4> QED BY <2>4, <4>1, <4>2, <4>3
    <3> QED BY <3>2, <3>3, <3>4
  <2>6. ~IsLock(p) /\ ~IsLock(q) /\ ~IsLock(w) /\ ~IsLock(d)
    BY <2>1, DoFacts DEF IsLock
  <2>7. FrontOf(<<q>> \o a, q, a)
    BY <2>3, InFrontOf
  <2>8. PICK c : c = <<q>> \o a
    OBVIOUS
  <2>9. c \in Seq(Range(c)) /\ Range(c) = {q} \cup Range(a)
    BY <2>7, <2>8 DEF FrontOf
  <2>10. FrontOf(b, p, c)
    BY <2>4, <2>8, <2>9, InFrontOf
  <2>11. b \in Seq(Range(b)) /\ Range(b) = {p} \cup Range(c) /\ b # <<>>
    BY <2>10 DEF FrontOf
  <2>12. \A y \in Range(a) : y \in {w, d}
    BY <2>3 DEF Range
  <2>13. \A i \in DOMAIN b : ~IsLock(b[i])
    <3>1. \A i \in DOMAIN b : b[i] \in Range(b)
      BY DEF Range
    <3> QED BY <2>6, <2>9, <2>11, <2>12, <3>1
  <2>14. Goes(t, b \o <<>>)
    <3>1. DOMAIN todo = Thread
      BY DEF ShapeInv
    <3> QED BY <1>3, <2>5, <2>11, <2>13, <3>1, Continued
  <2>15. Goes(t, b)
    BY <2>11, <2>14, ConcatEmptySeq
  <2>16. Bare(b) = {p, q} \cup Bare(a)
    <3>1. Bare(c) = {q} \cup Bare(a)
      BY <2>3, <2>6, <2>8, BareInFront
    <3>2. Bare(b) = {p} \cup Bare(c)
      BY <2>4, <2>6, <2>8, <2>9, BareInFront
    <3> QED BY <3>1, <3>2
  <2>17. Replaces(t, x, {p, q} \cup Bare(a), Bare(<<>>))
    <3>1. Bare(b) = ({p, q} \cup Bare(a)) \cup Bare(<<>>)
      BY <1>4, <2>16
    <3> QED BY <1>3, <2>15, <3>1, GoesReplaces, DoingNotIdle
  <2>18. Busy(t, p, c) /\ p \notin Calls
    BY <1>3, <1>a, <2>1, <2>3, <2>8, NotCalls DEF Busy
  <2>19. Stacked(t, b)
    BY <2>4, <2>8, <2>18 DEF Stacked
  <2>20. ShapeInv'
    BY <1>1, <2>15, <2>19, ShapeKept
  <2>21. \A y \in Bare(a) : y.op \in {"wakeup", "activate"}
    BY <2>1, <2>12, DoFacts DEF Bare
  <2>22. state = "ON" /\ from # "ON" => w \in Bare(a)
    <3>1. Bare(<<w>>) = {w}
      BY <2>6, BareFacts
    <3> QED BY <2>2, <3>1
  <2> QED BY <1>2, <1>4, <1>6, <2>1, <2>17, <2>20, <2>21, <2>22
<1>7. \/ Continue(t, <<>>) /\ UNCHANGED <<hw, excuses>>
      \/ /\ hw' = [hw EXCEPT !.state = ToPlatform(state)]
         /\ excuses' = IF \E u \in Thread \ {t} : Storing(u)
                       THEN excuses \cup {"raced"} ELSE excuses \ {"raced"}
         /\ Continue(t, <<Do("state", state)>> \o Save("opt")
                         \o (IF WokenUp(from, state)
                             THEN <<Do("wakeup", 0)>> ELSE <<>>)
                         \o (IF state = "DEEP_SLEEP"
                             THEN <<Do("activate", 0)>> ELSE <<>>))
  BY <1>2 DEF SetPlatformState
<1> QED BY <1>2, <1>3, <1>5, <1>6, <1>7

----------------------------------------------------------------------------
(* How long the device sleeps.                                             *)

\* The device wakes in the maintenance window, a zone's difference later: for
\* every time of the day and every random number (getWakeupTime).
THEOREM WakesInWindow ==
  ASSUME NEW second \in Nat, second < Day, NEW random \in Nat
  PROVE  InWindow(second + calculated(second, random))
<1> DEFINE r == random % Hour
<1>1. r \in Nat /\ r < 3600
  BY DEF Hour
<1>2. calculated(second, random) = Until2(second) + r
  BY DEF calculated
<1> HIDE DEF r
<1>3. \/ second + Until2(second) = 7200
      \/ second + Until2(second) = 93600
  BY DEF Until2, Day
<1>4. Until2(second) \in Nat
  BY DEF Until2, Day
<1>5. \/ second + calculated(second, random) = 7200 + r
      \/ second + calculated(second, random) = 93600 + r
  BY <1>1, <1>2, <1>3, <1>4
<1>6. (7200 + r) % 86400 = 7200 + r /\ (93600 + r) % 86400 = 7200 + r
  BY <1>1, SMTT(20)
<1> QED
  BY <1>1, <1>5, <1>6 DEF InWindow, Hour, Day

\* The minutes of the file are cut at the limit when they are read for the first
\* time (getWakeupTime).
LEMMA OverrideBounded ==
  ASSUME NEW minutes \in Int
  PROVE  override(minutes) \in Nat /\ override(minutes) <= limit
<1>1. Word \in Nat /\ Word > 0
  BY WordAssumption DEF limit
<1> DEFINE seconds == (minutes * 60) % Word
<1>2. seconds \in Nat
  BY <1>1
<1>3. override(minutes) = IF seconds > limit THEN limit ELSE seconds
  BY DEF override
<1> HIDE DEF seconds
<1> QED
  BY <1>1, <1>2, <1>3 DEF limit

\* No zone is fractions of a second away.
LEMMA ZoneIsInt ==
  \A payload : getTZDiffInSec(payload) \in Int
<1> SUFFICES ASSUME NEW payload PROVE getTZDiffInSec(payload) \in Int
  OBVIOUS
<1>0. DOMAIN initializeTimeZone =
        {"HST11", "HST11HDT", "AKST", "AKST09AKDT", "PST08", "PST08PDT",
         "MST07", "MST07MDT", "CST06", "CST06CDT", "EST05", "EST05EDT"}
  BY DEF initializeTimeZone
<1>1. CASE payload = "none"
  <2>0. payload \notin DOMAIN initializeTimeZone
    BY <1>0, <1>1
  <2>1. getTZDiffInSec(payload) = 6 * Hour
    BY <1>1, <2>0 DEF getTZDiffInSec
  <2> QED BY <2>1 DEF Hour
<1>2. CASE payload # "none" /\ payload \in DOMAIN initializeTimeZone
  <2>2. initializeTimeZone[payload] \in Int
    BY <1>0, <1>2 DEF initializeTimeZone
  <2>3. getTZDiffInSec(payload) = initializeTimeZone[payload] * Hour
    BY <1>2 DEF getTZDiffInSec
  <2> QED BY <2>2, <2>3 DEF Hour
<1>3. CASE payload # "none" /\ payload \notin DOMAIN initializeTimeZone
  <2>1. getTZDiffInSec(payload) = 0
    BY <1>3 DEF getTZDiffInSec
  <2> QED BY <2>1
<1> QED BY <1>1, <1>2, <1>3

LEMMA GoodTimeout ==
  ASSUME timerSet \in BOOLEAN, NEW clock \in Clocks,
         NEW s, s = [clock |-> clock, time |-> timeout(clock), asked |-> timerSet]
  PROVE  s.asked \/ Wakes(s)
<1>2. /\ clock.file \in {"none", "text", "number"} /\ clock.number \in Int
      /\ clock.second \in 0 .. Day - 1 /\ clock.random \in Nat
  BY SettingsAssumption
<1>3. s.clock = clock /\ s.time = timeout(clock) /\ s.asked = timerSet
  OBVIOUS
<1>4. CASE timerSet
  BY <1>3, <1>4
<1>5. CASE ~timerSet /\ clock.file # "none"
  <2>1. PICK minutes \in Int : timeout(clock) = override(minutes)
    BY <1>2, <1>5 DEF timeout
  <2>2. timeout(clock) <= limit
    BY <2>1, OverrideBounded
  <2> QED BY <1>3, <1>5, <2>2 DEF Wakes
<1>6. CASE ~timerSet /\ clock.file = "none"
  <2>1. PICK c, z, n : /\ c = calculated(clock.second, clock.random)
                       /\ z = getTZDiffInSec(clock.payload) /\ n = clock.second
    OBVIOUS
  <2>2. timeout(clock) = c + z
    BY <1>6, <2>1 DEF timeout, getWakeupTime
  <2>a. n \in 0 .. Day - 1
    BY <1>2, <2>1
  <2>3. n \in Nat /\ n < Day
    BY <2>a DEF Day
  <2>4. InWindow(n + c)
    BY <1>2, <2>1, <2>3, WakesInWindow
  <2>5. c \in Int
    <3>1. clock.random % Hour \in Int
      BY <1>2 DEF Hour
    <3>2. Until2(n) \in Int
      BY <2>3 DEF Until2, Day
    <3> QED BY <2>1, <3>1, <3>2 DEF calculated
  <2>6. z \in Int
    BY <2>1, ZoneIsInt
  <2>7. n + (c + z) - z = n + c
    BY <2>3, <2>5, <2>6
  <2>8. InWindow(s.clock.second + s.time - getTZDiffInSec(s.clock.payload))
    BY <1>3, <2>1, <2>2, <2>4, <2>7
  <2> QED BY <1>3, <1>6, <2>8 DEF Wakes
<1> QED BY <1>4, <1>5, <1>6

----------------------------------------------------------------------------
(* The other steps.                                                        *)

LEMMA ActivateDeepSleepEffect ==
  ASSUME ShapeInv, TypeInv, NEW t \in Thread, ActivateDeepSleep(t)
  PROVE  /\ ShapeInv' /\ t # Starter /\ up
         /\ \E y : y.op = "perform" /\ Replaces(t, Do("activate", 0), {y}, {})
<1>1. At(t, "activate") /\ up' = up
  BY DEF ActivateDeepSleep
<1>2. t # Starter /\ up /\ Busy(t, Do("activate", 0), <<>>)
      /\ Doing(t, Do("activate", 0), <<>>)
  BY <1>1, HandlingAt
<1>3. PICK clock \in Clocks :
        Continue(t, <<Do("perform", [clock |-> clock, time |-> timeout(clock),
                                     asked |-> timerSet])>>)
  BY DEF ActivateDeepSleep
<1>4. PICK s, y : /\ s = [clock |-> clock, time |-> timeout(clock), asked |-> timerSet]
                  /\ y = Do("perform", s)
  OBVIOUS
<1>5. s.asked \/ Wakes(s)
  <2>1. timerSet \in BOOLEAN
    BY DEF TypeInv
  <2> QED BY <1>4, <2>1, GoodTimeout
<1>6. Performing(y) /\ y.op = "perform"
  BY <1>4, <1>5, DoFacts DEF Performing
<1>7. Busy(t, y, <<>>) /\ y \notin Calls
  BY <1>2, <1>6, NotCalls DEF Busy
<1>8. Continue(t, <<y>>)
  BY <1>3, <1>4
<1>9. Replaces(t, Do("activate", 0), {y}, Bare(<<>>)) /\ ShapeInv'
  BY <1>1, <1>2, <1>7, <1>8, PushStep
<1>10. Bare(<<>>) = {}
  BY BareFacts
<1> QED BY <1>2, <1>6, <1>9, <1>10

\* The time is the one that was found out first, or the number in the file.
LEMMA performActivateEffect ==
  ASSUME ShapeInv, NEW t \in Thread, performActivate(t)
  PROVE  /\ ShapeInv' /\ t # Starter /\ up
         /\ \E B : /\ \A y \in B : y.op = "sleep"
                   /\ Replaces(t, Do("perform", Arg(t)), B, {})
<1>1. At(t, "perform") /\ up' = up
  BY DEF performActivate
<1>2. PICK s, x : s = Arg(t) /\ x = Do("perform", s)
  OBVIOUS
<1>3. t # Starter /\ up /\ Busy(t, x, <<>>) /\ Doing(t, x, <<>>) /\ Performing(x)
  BY <1>1, <1>2, HandlingAt
<1>4. Bare(<<>>) = {}
  BY BareFacts
<1>5. CASE Continue(t, <<>>)
  <2>1. Replaces(t, x, {}, Bare(<<>>)) /\ ShapeInv'
    BY <1>1, <1>3, <1>5, FinishStep
  <2> QED BY <1>2, <1>3, <1>4, <2>1
<1>6. ASSUME NEW now \in Clocks,
             Continue(t, <<Do("sleep",
               [clock |-> s.clock, asked |-> s.asked, forced |-> Forced(now),
                time |-> IF Forced(now) THEN now.number % Word ELSE s.time])>>)
      PROVE  /\ ShapeInv'
             /\ \E B : (\A y \in B : y.op = "sleep") /\ Replaces(t, x, B, {})
  <2>1. PICK z, y :
          /\ z = [clock |-> s.clock, asked |-> s.asked, forced |-> Forced(now),
                  time |-> IF Forced(now) THEN now.number % Word ELSE s.time]
          /\ y = Do("sleep", z)
    OBVIOUS
  <2>2. s.asked \/ Wakes(s)
    BY <1>2, <1>3, DoFacts DEF Performing
  <2>3. GoodSleep(z)
    <3>1. CASE Forced(now)
      BY <2>1, <3>1 DEF GoodSleep
    <3>2. CASE ~Forced(now)
      <4>1. z.clock = s.clock /\ z.asked = s.asked /\ z.time = s.time
        BY <2>1, <3>2
      <4> QED BY <2>2, <4>1 DEF GoodSleep, Wakes
    <3> QED BY <3>1, <3>2
  <2>4. Sleeping(y) /\ y.op = "sleep"
    BY <2>1, <2>3, DoFacts DEF Sleeping
  <2>5. Busy(t, y, <<>>) /\ y \notin Calls
    BY <1>3, <2>4, NotCalls DEF Busy
  <2>6. Continue(t, <<y>>)
    BY <1>6, <2>1
  <2>7. Replaces(t, x, {y}, Bare(<<>>)) /\ ShapeInv'
    BY <1>1, <1>3, <2>5, <2>6, PushStep
  <2> QED BY <1>4, <2>4, <2>7
<1>7. \/ Continue(t, <<>>)
      \/ \E now \in Clocks :
           Continue(t, <<Do("sleep",
             [clock |-> s.clock, asked |-> s.asked, forced |-> Forced(now),
              time |-> IF Forced(now) THEN now.number % Word ELSE s.time])>>)
  BY <1>2 DEF performActivate
<1> QED BY <1>2, <1>3, <1>5, <1>6, <1>7

\* The last operations of a handler.
LEMMA LastStep ==
  ASSUME ShapeInv, NEW t \in Thread, NEW op \in {"wakeup", "sleep"}, At(t, op),
         Continue(t, <<>>), up' = up
  PROVE  /\ ShapeInv' /\ t # Starter /\ up
         /\ Replaces(t, Do(op, Arg(t)), {}, {})
         /\ op = "wakeup" => Arg(t) = 0
<1>1. /\ t # Starter /\ up
      /\ \E r : /\ Busy(t, Do(op, Arg(t)), r) /\ Doing(t, Do(op, Arg(t)), r)
                /\ \/ op \in {"wakeup", "activate"} /\ Arg(t) = 0
                   \/ op = "sleep" /\ GoodSleep(Arg(t))
                /\ r = <<>>
  BY HandlingAt
<1>2. Busy(t, Do(op, Arg(t)), <<>>) /\ Doing(t, Do(op, Arg(t)), <<>>)
  BY <1>1
<1>3. Replaces(t, Do(op, Arg(t)), {}, Bare(<<>>)) /\ ShapeInv'
  BY <1>2, FinishStep
<1>4. Bare(<<>>) = {}
  BY BareFacts
<1> QED BY <1>1, <1>3, <1>4

LEMMA StoreStateEffect ==
  ASSUME ShapeInv, NEW t \in Thread, StoreState(t)
  PROVE  /\ ShapeInv' /\ t # Starter /\ up
         /\ \E state \in States : \E R :
              /\ state = Arg(t)
              /\ Replaces(t, Do("state", state), {}, R)
              /\ Do("save", "opt") \in R
              /\ \A y \in R : y.op \in {"save", "wakeup", "activate"}
<1>1. At(t, "state") /\ up' = up /\ Continue(t, <<>>)
  BY DEF StoreState
<1>2. PICK r : /\ t # Starter /\ up
               /\ Busy(t, Do("state", Arg(t)), r) /\ Doing(t, Do("state", Arg(t)), r)
               /\ Arg(t) \in States
               /\ \E a \in After : r = <<Do("save", "opt")>> \o a
  BY <1>1, HandlingAt
<1>3. PICK a \in After : r = <<Do("save", "opt")>> \o a
  BY <1>2
<1>4. Replaces(t, Do("state", Arg(t)), {}, Bare(r)) /\ ShapeInv'
  BY <1>1, <1>2, FinishStep
<1>5. a \in Seq(Range(a))
  BY RestTyped
<1>6. Do("save", "opt") \in Bare(r)
  BY <1>3, <1>5, BareSave, BareInFront
<1>7. \A y \in Bare(a) : y.op \in {"wakeup", "activate"}
  <2>1. \A y \in Bare(<<>>) : y.op \in {"wakeup", "activate"}
    BY BareFacts
  <2>2. ASSUME NEW x, NEW y \in Bare(<<x>>)
        PROVE  y = x
    <3>1. Bare(<<x>>) = {} \/ Bare(<<x>>) = {x}
      BY BareFacts
    <3> QED BY <3>1
  <2>3. /\ \A y \in Bare(<<Do("wakeup", 0)>>) : y = Do("wakeup", 0)
        /\ \A y \in Bare(<<Do("activate", 0)>>) : y = Do("activate", 0)
    BY <2>2
  <2> QED BY <2>1, <2>3, DoFacts DEF After
<1>8. \A y \in Bare(r) : y.op \in {"save", "wakeup", "activate"}
  <2>1. Bare(r) = {Do("save", "opt")} \cup Bare(a)
    BY <1>3, <1>5, BareSave, BareInFront
  <2> QED BY <1>7, <2>1, DoFacts
<1> QED BY <1>2, <1>4, <1>6, <1>8

\* t has begun to do B.
Begins(t, B) ==
  /\ todo[t] = <<>> /\ todo'[t] # <<>>
  /\ Work(t) = {} /\ Work(t)' = B
  /\ \A u \in Thread \ {t} : Work(u)' = Work(u)

LEMMA StartStep ==
  ASSUME ShapeInv, NEW t \in Thread, NEW body, Start(t, body), body # <<>>,
         Stacked(t, body), up' = up
  PROVE  ShapeInv' /\ Begins(t, Bare(body))
<1>1. DOMAIN todo = Thread
  BY DEF ShapeInv
<1>2. todo[t] = <<>> /\ Goes(t, body)
  BY <1>1, ExceptGoes DEF Start, Idle
<1>3. ShapeInv'
  BY <1>2, ShapeKept
<1>4. Work(t) = {} /\ Work(t)' = Bare(body)
  BY <1>2, BareFacts DEF Work, Goes
<1>5. \A u \in Thread \ {t} : Work(u)' = Work(u)
  BY <1>2 DEF Work, Goes
<1> QED BY <1>2, <1>3, <1>4, <1>5 DEF Begins, Goes

\* What calls and handlers begin with.
Beginnings == {"sinceWakeup", "standby", "sources", "timer", "platform"}

LEMMA ClientCallsEffect ==
  ASSUME ShapeInv, TypeInv, ClientCalls
  PROVE  /\ ShapeInv' /\ up
         /\ \E t \in Thread : \E y :
              /\ Begins(t, {y}) /\ y.op \in Beginnings
              /\ IF y.op = "platform"
                 THEN /\ y.arg.from = settings.state
                      /\ excuses' = IF \E u \in Thread \ {t} : Handling(u)
                                    THEN excuses \cup {"stale"} ELSE excuses
                 ELSE excuses' = excuses
<1>0. DEFINE Good(t, y) ==
               /\ Begins(t, {y}) /\ y.op \in Beginnings
               /\ IF y.op = "platform"
                  THEN /\ y.arg.from = settings.state
                       /\ excuses' = IF \E u \in Thread \ {t} : Handling(u)
                                     THEN excuses \cup {"stale"} ELSE excuses
                  ELSE excuses' = excuses
<1>1. up /\ up' = up
  BY DEF ClientCalls
<1>2. ASSUME NEW t \in Client, NEW body \in Requests, Start(t, body),
             excuses' = excuses
      PROVE  ShapeInv' /\ \E u \in Thread : \E y : Good(u, y)
  <2>1. t \in Thread /\ t # Starter
    BY SettingsAssumption
  <2>2. PICK x \in Calls : /\ body = Api(x.op, x.arg)
                           /\ x.op \in Beginnings \ {"platform"}
    <3>1. ASSUME NEW op, NEW arg, Do(op, arg) \in Calls, body = Api(op, arg),
                 op \in Beginnings \ {"platform"}
          PROVE  \E x \in Calls : /\ body = Api(x.op, x.arg)
                                  /\ x.op \in Beginnings \ {"platform"}
      BY <3>1, DoFacts
    <3>2. /\ Do("sinceWakeup", 0) \in Calls
          /\ \A config \in Configs : Do("sources", config) \in Calls
          /\ \A time \in Timeouts : Do("timer", time) \in Calls
          /\ \A mode \in BOOLEAN : Do("standby", mode) \in Calls
      BY InCalls DEF Calls
    <3>3. {"sinceWakeup", "sources", "timer", "standby"}
            \subseteq Beginnings \ {"platform"}
      BY DEF Beginnings
    <3>4. \/ body = Api("sinceWakeup", 0)
          \/ \E mode \in BOOLEAN : body = Api("standby", mode)
          \/ \E config \in Configs : body = Api("sources", config)
          \/ \E time \in Timeouts : body = Api("timer", time)
      BY DEF Requests
    <3> QED BY <3>1, <3>2, <3>3, <3>4
  <2>3. Bare(body) = {x}
    BY <2>2, BareApi
  <2>4. body # <<>>
    BY <2>3, BareFacts
  <2>5. Stacked(t, body)
    BY <1>1, <2>1, <2>2 DEF Stacked
  <2>6. ShapeInv' /\ Begins(t, Bare(body))
    BY <1>1, <1>2, <2>1, <2>4, <2>5, StartStep
  <2> QED BY <1>2, <2>1, <2>2, <2>3, <2>6
<1>3. ASSUME NEW t \in Client, NEW state \in Requested, setDevicePowerState(t, state),
             settings.state \in States
      PROVE  ShapeInv' /\ \E u \in Thread : \E y : Good(u, y)
  <2>1. t \in Thread /\ t # Starter /\ state \in States
    BY SettingsAssumption DEF States
  <2>2. PICK change, y, body : /\ change = [state |-> state, from |-> settings.state]
                               /\ y = Do("platform", change) /\ body = <<y>>
    OBVIOUS
  <2>3. Start(t, body) /\ body # <<>> /\ body = <<y>> \o <<>>
        /\ excuses' = IF \E u \in Thread \ {t} : Handling(u)
                      THEN excuses \cup {"stale"} ELSE excuses
    BY <1>3, <2>2 DEF setDevicePowerState
  <2>4. y.op = "platform" /\ y.arg = change /\ ~IsLock(y) /\ y \notin Calls
    BY <2>2, DoFacts, NotCalls DEF IsLock
  <2>5. Bare(body) = {y}
    BY <2>2, <2>4, BareFacts
  <2>6. Busy(t, y, <<>>)
    <3>1. change \in Change
      BY <1>3, <2>1, <2>2 DEF Change
    <3> QED BY <1>1, <2>1, <2>2, <3>1 DEF Busy
  <2>7. Stacked(t, body)
    BY <2>3, <2>4, <2>6 DEF Stacked
  <2>8. ShapeInv' /\ Begins(t, Bare(body))
    BY <1>1, <2>1, <2>3, <2>7, StartStep
  <2>9. y.op \in Beginnings
    BY <2>4 DEF Beginnings
  <2>10. y.arg.from = settings.state
    BY <2>2, <2>4
  <2> QED BY <2>1, <2>3, <2>4, <2>5, <2>8, <2>9, <2>10
<1>4. \E t \in Client :
        \/ \E body \in Requests : Start(t, body) /\ excuses' = excuses
        \/ \E state \in Requested : setDevicePowerState(t, state)
  BY DEF ClientCalls
<1>5. settings.state \in States
  BY DEF TypeInv, SettingsType
<1> QED BY <1>1, <1>2, <1>3, <1>4, <1>5

LEMMA PluginStartsEffect ==
  ASSUME ShapeInv, PluginStarts
  PROVE  /\ ShapeInv' /\ ~up /\ Quiet
         /\ Begins(Starter, StageSet(1))
<1>1. ~up /\ up' = up /\ Starter \in Thread
  BY SettingsAssumption DEF PluginStarts
<1>2. PICK body : body = BootCode
  OBVIOUS
<1>3. Start(Starter, body)
  BY <1>2 DEF PluginStarts, BootCode
<1>4. body = Later(1)
  <2>1. Len(body) = 6 /\ \E S : body \in Seq(S)
    <3>1. PICK S : S = {Do("load", 0), Do("ram", 0), Do("standbyBuild", 0),
                        Do("sourcesAtStart", 0), Do("init", 0), Do("started", 0)}
      OBVIOUS
    <3>2. body \in Seq(S) /\ Len(body) = 6
      BY <1>2, <3>1 DEF BootCode
    <3> QED BY <3>2
  <2>2. SubSeq(body, 1, Len(body)) = body
    BY <2>1
  <2> QED BY <1>2, <2>1, <2>2 DEF Later
<1>5. 1 \in 1 .. 6 /\ 1 \in 1 .. 7 /\ 1 + 1 = 2
  OBVIOUS
<1>6. Busy(Starter, BootCode[1], Later(2)) /\ body = <<BootCode[1]>> \o Later(2)
  BY <1>1, <1>4, <1>5, LaterFacts DEF Busy
<1>7. Stacked(Starter, body)
  BY <1>5, <1>6, NotCalls DEF Stacked
<1>8. Bare(body) = StageSet(1)
  BY <1>4, <1>5, StageWork
<1>9. body # <<>>
  <2>1. Do("load", 0) \in StageSet(1)
    BY <1>5, StageFacts
  <2> QED BY <1>8, <2>1, BareFacts
<1>10. ShapeInv' /\ Begins(Starter, Bare(body))
  BY <1>1, <1>3, <1>7, <1>9, StartStep
<1>11. Quiet
  BY <1>1, <1>3 DEF ShapeInv, Quiet, Idle, Start
<1> QED BY <1>1, <1>8, <1>10, <1>11

LEMMA StartedEffect ==
  ASSUME ShapeInv, NEW t \in Thread, Started(t)
  PROVE  /\ ShapeInv' /\ t = Starter /\ ~up /\ up'
         /\ Replaces(t, Do("started", 0), {}, {}) /\ Work(Starter) = {Do("started", 0)}
<1>1. At(t, BootCode[6].op) /\ Continue(t, <<>>) /\ up' = TRUE
  BY Ops DEF Started
<1>2. 6 \in 1 .. 6 /\ 6 + 1 = 7 /\ 7 \in 1 .. 7
  OBVIOUS
<1>3. /\ t = Starter /\ ~up
      /\ Busy(t, BootCode[6], Later(7)) /\ Doing(t, BootCode[6], Later(7))
  BY <1>1, <1>2, StageAt
<1>4. Later(7) = <<>>
  BY LaterFacts
<1>5. AfterUnlocks(<<>>) = <<>>
  <2>1. <<>> \in Seq({})
    OBVIOUS
  <2> QED BY <2>1, NothingGivenBack
<1>6. Goes(t, <<>>) /\ Replaces(t, BootCode[6], {}, Bare(<<>>))
  BY <1>1, <1>3, <1>4, <1>5, FinishStep
<1>7. \A u \in Thread : todo'[u] = <<>>
  BY <1>3, <1>6 DEF Goes, ShapeInv
<1>8. <<>> \in Seq(Range(<<>>))
  OBVIOUS
<1>9. ShapeInv'
  BY <1>3, <1>6, <1>7, <1>8 DEF ShapeInv, Goes
<1>10. Replaces(t, Do("started", 0), {}, {})
  BY <1>6, BareFacts, BootFacts
<1> QED BY <1>1, <1>3, <1>9, <1>10 DEF Replaces

LEMMA DiesEffect ==
  ASSUME Dies
  PROVE  /\ ShapeInv' /\ ~up' /\ Quiet'
         /\ \A t \in Thread : Work(t)' = {}
<1>1. DOMAIN todo' = Thread /\ \A t \in Thread : todo'[t] = <<>>
  BY DEF Dies
<1>2. <<>> \in Seq(Range(<<>>))
  OBVIOUS
<1>3. Starter \in Thread
  BY SettingsAssumption
<1>4. ShapeInv'
  BY <1>1, <1>2, <1>3 DEF ShapeInv
<1>5. Quiet' /\ ~up'
  BY <1>1 DEF Quiet, Idle, Dies
<1>6. \A t \in Thread : Work(t)' = {}
  BY <1>1, BareFacts DEF Work
<1> QED BY <1>4, <1>5, <1>6

----------------------------------------------------------------------------
(* Types.                                                                  *)

Platform == [state : Names \cup {"MAX"}, sources : [Sources -> BOOLEAN]]

\* The sources of config are set, or else "source" says that they may not be.
LEMMA SourcesSet ==
  ASSUME NEW D \in SUBSET Sources, NEW config \in [D -> BOOLEAN],
         hw \in Platform, excuses \subseteq Excuse,
         NEW failed \in BOOLEAN, SetSources(config, failed)
  PROVE  /\ hw' \in Platform /\ hw'.state = hw.state
         /\ excuses' \subseteq Excuse
         /\ \A e : e # "source" => (e \in excuses' <=> e \in excuses)
         /\ failed => "source" \in excuses'
         /\ "source" \in excuses' \/ (D = Sources /\ hw'.sources = config)
              \/ (D # Sources /\ "source" \notin excuses)
<1>1. DOMAIN config = D
  OBVIOUS
<1>2. PICK done \in SUBSET D :
        /\ failed => done # D
        /\ hw' = [hw EXCEPT !.sources =
                    [s \in Sources |-> IF s \in done THEN config[s] ELSE @[s]]]
        /\ IF done = Sources THEN excuses' = excuses \ {"source"}
           ELSE Excused(IF done = D THEN {} ELSE {"source"})
  BY <1>1 DEF SetSources
<1>3. PICK f : f = [s \in Sources |-> IF s \in done THEN config[s] ELSE hw.sources[s]]
  OBVIOUS
<1>4. hw' = [hw EXCEPT !.sources = f]
  BY <1>2, <1>3
<1>5. f \in [Sources -> BOOLEAN]
  <2>1. \A s \in Sources : hw.sources[s] \in BOOLEAN
    BY DEF Platform
  <2>2. \A s \in done : config[s] \in BOOLEAN
    OBVIOUS
  <2> QED BY <1>3, <2>1, <2>2
<1>6. hw' \in Platform /\ hw'.state = hw.state /\ hw'.sources = f
  BY <1>4, <1>5 DEF Platform
<1>7. CASE done = Sources
  <2>1. D = Sources /\ ~failed
    BY <1>2, <1>7
  <2>2. excuses' = excuses \ {"source"}
    BY <1>2, <1>7
  <2>3. f = [s \in Sources |-> config[s]]
    BY <1>3, <1>7
  <2>4. f = config
    BY <2>1, <2>3
  <2> QED BY <1>6, <2>1, <2>2, <2>4
<1>8. CASE done # Sources
  <2>1. excuses' = excuses \cup (IF done = D THEN {} ELSE {"source"})
    BY <1>2, <1>8 DEF Excused
  <2>2. done # D => "source" \in excuses'
    BY <2>1
  <2>3. done = D => D # Sources /\ excuses' = excuses
    BY <1>8, <2>1
  <2>4. \A e : e # "source" => (e \in excuses' <=> e \in excuses)
    BY <2>1
  <2>5. excuses' \subseteq Excuse
    BY <2>1 DEF Excuse
  <2> QED BY <1>2, <1>6, <2>2, <2>3, <2>4, <2>5
<1> QED BY <1>7, <1>8

LEMMA BothFacts ==
  \A mode \in BOOLEAN : /\ Both(mode) \in [Sources -> BOOLEAN]
                        /\ Both(mode)["WIFI"] = mode /\ Both(mode)["LAN"] = mode
BY DEF Both, Sources

LEMMA SomeConfig ==
  ASSUME NEW config \in Configs
  PROVE  \E D \in SUBSET Sources : config \in [D -> BOOLEAN]
BY SettingsAssumption

LEMMA TypeFacts ==
  /\ TypeInv => hw \in Platform /\ excuses \subseteq Excuse
  /\ \A name : Lost(name) \in Excuse
  /\ \A t : Crossing(t) \subseteq Excuse
BY DEF TypeInv, Platform, Lost, Crossing, Excuse

LEMMA WriteTyped ==
  ASSUME TypeInv, NEW name, NEW content \in File, Write(name, content)
  PROVE  opt' \in File /\ ram' \in File
BY DEF TypeInv, Write

LEMMA CreatedTyped ==
  ASSUME TypeInv, NEW name
  PROVE  Created(name) \in File
BY RepairFacts DEF TypeInv, Created, Content

LEMMA SaveTyped ==
  ASSUME ShapeInv, TypeInv, NEW t \in Thread, OpenToSave(t) \/ WriteImage(t)
  PROVE  TypeInv'
<1>1. CASE OpenToSave(t)
  <2>1. /\ \/ /\ \E name : Write(name, Created(name))
              /\ excuses' = excuses \cup Crossing(t)
           \/ /\ UNCHANGED files
              /\ \E name : excuses' = excuses \cup (Crossing(t) \cup {Lost(name)})
    BY <1>1, OpenToSaveEffect
  <2>2. opt' \in File /\ ram' \in File
    BY <2>1, CreatedTyped, WriteTyped DEF files, TypeInv
  <2>3. excuses' \subseteq Excuse
    BY <2>1, TypeFacts
  <2>4. UNCHANGED <<up, settings, timerSet, hw, wakeups, stamp>>
    BY <1>1 DEF OpenToSave, counts, wake
  <2> QED BY <2>2, <2>3, <2>4 DEF TypeInv
<1>2. CASE WriteImage(t)
  <2>1. \E name : \E image \in Stored \cup {BadFile} :
          \/ /\ Write(name, image)
             /\ excuses' = IF name = "opt" THEN excuses \ {"unsaved"} ELSE excuses
          \/ excuses' = excuses \cup {Lost(name)} /\ UNCHANGED files
    BY <1>2, WriteImageEffect
  <2>2. PICK name : \E image \in Stored \cup {BadFile} :
          \/ /\ Write(name, image)
             /\ excuses' = IF name = "opt" THEN excuses \ {"unsaved"} ELSE excuses
          \/ excuses' = excuses \cup {Lost(name)} /\ UNCHANGED files
    BY <2>1
  <2>3. \A image \in Stored \cup {BadFile} : image \in File
    BY DEF File
  <2>4. opt' \in File /\ ram' \in File
    BY <2>2, <2>3, WriteTyped DEF files, TypeInv
  <2>5. excuses' \subseteq Excuse
    BY <2>2, TypeFacts
  <2>6. UNCHANGED <<up, settings, timerSet, hw, wakeups, stamp>>
    BY <1>2 DEF WriteImage, counts, wake
  <2> QED BY <2>4, <2>5, <2>6 DEF TypeInv
<1> QED BY <1>1, <1>2

LEMMA StartTyped ==
  ASSUME ShapeInv, TypeInv, NEW t \in Thread,
         \/ LoadSettings(t) \/ LoadRam(t) \/ BootToStandby(t) \/ SourcesAtStart(t)
         \/ init(t) \/ Started(t)
  PROVE  TypeInv'
<1>1. settings \in SettingsType /\ hw \in Platform /\ opt \in File /\ ram \in File
  BY TypeFacts DEF TypeInv
<1>2. CASE LoadSettings(t)
  <2>1. settings' \in SettingsType
    <3>1. settings' \in {Loaded(opt), Loaded(BadFile), NoSettings}
      BY <1>2 DEF LoadSettings
    <3> QED BY <1>1, <3>1, LoadedFacts, RepairFacts, NoSettingsTyped
  <2>2. opt' \in File /\ ram' \in File
    BY <1>1, <1>2, CreatedTyped, WriteTyped DEF LoadSettings, files
  <2>3. excuses' \subseteq Excuse
    BY <1>2, TypeFacts DEF LoadSettings, Excused, Excuse
  <2>4. UNCHANGED <<up, timerSet, hw, wakeups, stamp>>
    BY <1>2 DEF LoadSettings, counts, wake
  <2> QED BY <2>1, <2>2, <2>3, <2>4 DEF TypeInv
<1>3. CASE LoadRam(t)
  <2>1. Loaded(ram).state \in States /\ NoSettings.state \in States
    BY <1>1, LoadedFacts, NoSettingsTyped DEF SettingsType
  <2>2. settings' \in SettingsType
    <3>1. \E state \in States : settings' = [settings EXCEPT !.before = state]
      BY <1>1, <1>3, <2>1 DEF LoadRam, SettingsType
    <3> QED BY <1>1, <3>1 DEF SettingsType
  <2>3. excuses' \subseteq Excuse
    BY <1>3, TypeFacts DEF LoadRam, Excused, Excuse
  <2>4. UNCHANGED <<opt, ram, up, timerSet, hw, wakeups, stamp>>
    BY <1>3 DEF LoadRam, counts, wake, files
  <2> QED BY <2>2, <2>3, <2>4 DEF TypeInv
<1>4. CASE BootToStandby(t)
  <2>1. settings' \in SettingsType
    <3>1. "STANDBY" \in States
      BY DEF States, Names
    <3> QED BY <1>1, <1>4, <3>1 DEF BootToStandby, SettingsType
  <2>2. excuses' \subseteq Excuse
    BY <1>4, TypeFacts DEF BootToStandby, Excuse
  <2>3. UNCHANGED <<opt, ram, up, timerSet, hw, wakeups, stamp>>
    BY <1>4 DEF BootToStandby, counts, wake, files
  <2> QED BY <2>1, <2>2, <2>3 DEF TypeInv
<1>5. CASE SourcesAtStart(t)
  <2>1. PICK f \in BOOLEAN : f = FALSE
    OBVIOUS
  <2>2. SetSources(Both(settings.standby), f)
    BY <1>5, <2>1 DEF SourcesAtStart
  <2>3. Both(settings.standby) \in [Sources -> BOOLEAN]
    BY <1>1, BothFacts DEF SettingsType
  <2>4. hw' \in Platform /\ excuses' \subseteq Excuse
    BY <2>2, <2>3, SourcesSet, TypeFacts
  <2>5. UNCHANGED <<opt, ram, up, settings, timerSet, wakeups, stamp>>
    BY <1>5 DEF SourcesAtStart, counts, wake, files
  <2> QED BY <2>4, <2>5 DEF TypeInv, Platform
<1>6. CASE init(t)
  <2>1. /\ hw' = hw \/ hw' = [hw EXCEPT !.state = ToPlatform(settings.state)]
        /\ settings' = settings
             \/ settings' = [settings EXCEPT !.state = FromPlatform(hw.state)]
    BY <1>6 DEF init
  <2>2. /\ ToPlatform(settings.state) \in Names \cup {"MAX"}
        /\ FromPlatform(hw.state) \in States
    BY <1>1, PlatformFacts DEF SettingsType, Platform
  <2>3. hw' \in Platform /\ settings' \in SettingsType
    BY <1>1, <2>1, <2>2 DEF SettingsType, Platform
  <2>4. excuses' \subseteq Excuse
    BY <1>6, TypeFacts DEF init, Excused, Excuse
  <2>5. UNCHANGED <<opt, ram, up, timerSet, wakeups, stamp>>
    BY <1>6 DEF init, counts, wake, files
  <2> QED BY <2>3, <2>4, <2>5 DEF TypeInv, Platform
<1>7. CASE Started(t)
  <2>1. up' \in BOOLEAN
    BY <1>7 DEF Started
  <2>2. stamp' \in Int
    BY <1>7 DEF Started, TypeInv
  <2>3. UNCHANGED <<opt, ram, settings, timerSet, hw, wakeups, excuses>>
    BY <1>7 DEF Started, files
  <2> QED BY <2>1, <2>2, <2>3 DEF TypeInv
<1> QED BY <1>2, <1>3, <1>4, <1>5, <1>6, <1>7

LEMMA CallTyped ==
  ASSUME ShapeInv, TypeInv, NEW t \in Thread,
         \/ SetNetworkStandbyMode(t) \/ SetWakeupSourceConfig(t)
         \/ GetWakeupSourceConfig(t) \/ GetNetworkStandbyMode(t)
         \/ SetDeepSleepTimer(t) \/ GetTimeSinceWakeup(t)
  PROVE  TypeInv'
<1>1. settings \in SettingsType /\ hw \in Platform
  BY TypeFacts DEF TypeInv
<1>2. CASE SetNetworkStandbyMode(t)
  <2>1. PICK mode : mode = Arg(t)
    OBVIOUS
  <2>2. mode \in BOOLEAN
    <3>1. At(t, "standby") /\ up' = up
      BY <1>2 DEF SetNetworkStandbyMode
    <3>2. Do("standby", mode) \in Calls
      BY <2>1, <3>1, CallStep
    <3> QED BY <3>2, CallArgs
  <2>3. settings' \in SettingsType
    <3>1. settings' = settings \/ settings' = [settings EXCEPT !.standby = mode]
      BY <1>2, <2>1 DEF SetNetworkStandbyMode
    <3> QED BY <1>1, <2>2, <3>1 DEF SettingsType
  <2>4. PICK y, n : y = TRUE /\ n = FALSE
    OBVIOUS
  <2>5. \/ hw' = hw /\ excuses' = excuses
        \/ SetSources(Both(mode), y) \/ SetSources(Both(mode), n)
    BY <1>2, <2>1, <2>4 DEF SetNetworkStandbyMode
  <2>6. hw' \in Platform /\ excuses' \subseteq Excuse
    <3>1. y \in BOOLEAN /\ n \in BOOLEAN /\ Sources \in SUBSET Sources
      BY <2>4
    <3> QED BY <2>2, <2>5, <3>1, BothFacts, SourcesSet, TypeFacts
  <2>7. UNCHANGED <<opt, ram, up, timerSet, wakeups, stamp>>
    BY <1>2 DEF SetNetworkStandbyMode, counts, wake, files
  <2> QED BY <2>3, <2>6, <2>7 DEF TypeInv, Platform
<1>3. CASE SetWakeupSourceConfig(t)
  <2>1. PICK config : config = Arg(t)
    OBVIOUS
  <2>2. config \in Configs
    <3>1. At(t, "sources") /\ up' = up
      BY <1>3 DEF SetWakeupSourceConfig
    <3>2. Do("sources", config) \in Calls
      BY <2>1, <3>1, CallStep
    <3> QED BY <3>2, CallArgs
  <2>3. PICK D \in SUBSET Sources : config \in [D -> BOOLEAN]
    BY <2>2, SomeConfig
  <2>4. PICK y, n : y = TRUE /\ n = FALSE
    OBVIOUS
  <2>5. SetSources(config, y) \/ SetSources(config, n)
    BY <1>3, <2>1, <2>4 DEF SetWakeupSourceConfig
  <2>6. hw' \in Platform /\ excuses' \subseteq Excuse
    <3>1. y \in BOOLEAN /\ n \in BOOLEAN
      BY <2>4
    <3> QED BY <2>3, <2>5, <3>1, SourcesSet, TypeFacts
  <2>7. UNCHANGED <<opt, ram, up, settings, timerSet, wakeups, stamp>>
    BY <1>3 DEF SetWakeupSourceConfig, counts, wake, files
  <2> QED BY <2>6, <2>7 DEF TypeInv, Platform
<1>4. CASE GetWakeupSourceConfig(t)
  <2>1. excuses' \subseteq Excuse
    BY <1>4, TypeFacts DEF GetWakeupSourceConfig, Excused, Excuse
  <2>2. UNCHANGED <<opt, ram, up, settings, timerSet, hw, wakeups, stamp>>
    BY <1>4 DEF GetWakeupSourceConfig, counts, wake, files
  <2> QED BY <2>1, <2>2 DEF TypeInv
<1>5. CASE GetNetworkStandbyMode(t)
  <2>1. UNCHANGED <<opt, ram, up, settings, timerSet, hw, wakeups, stamp, excuses>>
    BY <1>5 DEF GetNetworkStandbyMode, counts, wake, files
  <2> QED BY <2>1 DEF TypeInv
<1>6. CASE SetDeepSleepTimer(t)
  <2>1. PICK time : time = Arg(t)
    OBVIOUS
  <2>2. time \in Int
    <3>1. At(t, "timer") /\ up' = up
      BY <1>6 DEF SetDeepSleepTimer
    <3>2. Do("timer", time) \in Calls
      BY <2>1, <3>1, CallStep
    <3>3. time \in Timeouts
      BY <3>2, CallArgs
    <3> QED BY <3>3, SettingsAssumption
  <2>3. PICK v : v = IF time > Day THEN 0 ELSE time
    OBVIOUS
  <2>4. v \in Int /\ Word \in Nat /\ Word > 0
    BY <2>2, <2>3, WordAssumption DEF limit
  <2>5. v % Word \in 0 .. Word - 1
    BY <2>4
  <2>6. settings' = [settings EXCEPT !.timeout = v % Word] /\ timerSet' = TRUE
    BY <1>6, <2>1, <2>3 DEF SetDeepSleepTimer
  <2>7. settings' \in SettingsType
    BY <1>1, <2>5, <2>6 DEF SettingsType
  <2>8. UNCHANGED <<opt, ram, up, hw, wakeups, stamp, excuses>>
    BY <1>6 DEF SetDeepSleepTimer, counts, wake, files
  <2> QED BY <2>6, <2>7, <2>8 DEF TypeInv
<1>7. CASE GetTimeSinceWakeup(t)
  <2>1. UNCHANGED <<opt, ram, up, settings, timerSet, hw, wakeups, stamp, excuses>>
    BY <1>7 DEF GetTimeSinceWakeup, counts, wake, files
  <2> QED BY <2>1 DEF TypeInv
<1> QED BY <1>2, <1>3, <1>4, <1>5, <1>6, <1>7

LEMMA HandlerTyped ==
  ASSUME ShapeInv, TypeInv, NEW t \in Thread,
         \/ SetPlatformState(t) \/ StoreState(t) \/ ActivateDeepSleep(t)
         \/ performActivate(t) \/ Sleep(t) \/ TakeTimestamp(t)
  PROVE  TypeInv'
<1>1. settings \in SettingsType /\ hw \in Platform
  BY TypeFacts DEF TypeInv
<1>2. CASE SetPlatformState(t)
  <2>1. PICK change \in Change :
          hw' = hw \/ hw' = [hw EXCEPT !.state = ToPlatform(change.state)]
    BY <1>2, SetPlatformStateEffect
  <2>2. ToPlatform(change.state) \in Names \cup {"MAX"}
    BY PlatformFacts DEF Change
  <2>3. hw' \in Platform
    BY <1>1, <2>1, <2>2 DEF Platform
  <2>4. UNCHANGED <<opt, ram, up, settings, timerSet, wakeups, stamp>>
    BY <1>2 DEF SetPlatformState, counts, wake, files
  <2>5. \/ excuses' = excuses \/ excuses' = excuses \ {"raced"}
        \/ excuses' = excuses \cup {"raced"}
    BY <1>2, SetPlatformStateEffect
  <2>6. excuses' \subseteq Excuse
    BY <2>5 DEF TypeInv, Excuse
  <2> QED BY <2>3, <2>4, <2>6 DEF TypeInv, Platform
<1>3. CASE StoreState(t)
  <2>1. PICK state \in States : state = Arg(t)
    BY <1>3, StoreStateEffect
  <2>2. settings' = [settings EXCEPT !.state = state]
        /\ (wakeups' = wakeups + 1 \/ wakeups' = wakeups)
    BY <1>3, <2>1 DEF StoreState
  <2>3. settings' \in SettingsType
    BY <1>1, <2>2 DEF SettingsType
  <2>4. wakeups' \in Nat
    BY <2>2 DEF TypeInv
  <2>5. UNCHANGED <<opt, ram, up, timerSet, hw, stamp, excuses>>
    BY <1>3 DEF StoreState, files
  <2> QED BY <2>3, <2>4, <2>5 DEF TypeInv
<1>4. CASE ActivateDeepSleep(t) \/ performActivate(t) \/ Sleep(t)
  <2>1. UNCHANGED <<opt, ram, up, settings, timerSet, hw, wakeups, stamp, excuses>>
    BY <1>4 DEF ActivateDeepSleep, performActivate, Sleep, counts, wake, files
  <2> QED BY <2>1 DEF TypeInv
<1>5. CASE TakeTimestamp(t)
  <2>1. stamp' = wakeups /\ excuses' \subseteq excuses
        /\ UNCHANGED <<opt, ram, up, settings, timerSet, hw, wakeups>>
    BY <1>5 DEF TakeTimestamp, files
  <2> QED BY <2>1 DEF TypeInv
<1> QED BY <1>2, <1>3, <1>4, <1>5

LEMMA OtherTyped ==
  ASSUME TypeInv, ClientCalls \/ PluginStarts \/ PluginDies \/ DeviceDies
  PROVE  TypeInv'
<1>1. CASE ClientCalls \/ PluginStarts
  <2>1. UNCHANGED <<opt, ram, up, settings, timerSet, hw, wakeups, stamp>>
        /\ excuses' \subseteq excuses \cup {"stale"}
    BY <1>1 DEF ClientCalls, setDevicePowerState, PluginStarts, wake, files
  <2> QED BY <2>1 DEF TypeInv, Excuse
<1>2. CASE PluginDies \/ DeviceDies
  <2>1. /\ up' = FALSE /\ settings' = NoSettings /\ timerSet' = FALSE
        /\ wakeups' = 0 /\ stamp' = -1 /\ opt' = opt
    BY <1>2 DEF PluginDies, DeviceDies, Dies
  <2>2. ram' \in File /\ hw' \in Platform
    BY <1>2, SettingsAssumption, RepairFacts, TypeFacts
    DEF PluginDies, DeviceDies, TypeInv, Platform
  <2>3. excuses' \subseteq Excuse
    <3>1. \/ excuses' = excuses \cup {"boot"}
          \/ excuses' = excuses
          \/ excuses' = {}
      BY <1>2 DEF PluginDies, DeviceDies
    <3> QED BY <3>1 DEF TypeInv, Excuse
  <2>4. opt' \in File /\ settings' \in SettingsType
    BY <2>1, NoSettingsTyped DEF TypeInv
  <2>5. up' \in BOOLEAN /\ timerSet' \in BOOLEAN
    BY <2>1, Zenon
  <2>6. wakeups' \in Nat
    BY <2>1
  <2>7. stamp' \in Int
    BY <2>1
  <2> QED BY <2>2, <2>3, <2>4, <2>5, <2>6, <2>7 DEF TypeInv, Platform
<1> QED BY <1>1, <1>2

LEMMA StepCases ==
  ASSUME NEW t \in Thread, Step(t)
  PROVE  \/ OpenToSave(t) \/ WriteImage(t)
         \/ LoadSettings(t) \/ LoadRam(t) \/ BootToStandby(t) \/ SourcesAtStart(t)
         \/ init(t) \/ Started(t)
         \/ SetPlatformState(t) \/ StoreState(t) \/ ActivateDeepSleep(t)
         \/ performActivate(t) \/ Sleep(t) \/ TakeTimestamp(t)
         \/ SetNetworkStandbyMode(t) \/ SetWakeupSourceConfig(t)
         \/ GetWakeupSourceConfig(t) \/ GetNetworkStandbyMode(t)
         \/ SetDeepSleepTimer(t) \/ GetTimeSinceWakeup(t)
BY DEF Step

LEMMA TypeStep ==
  ASSUME ShapeInv, TypeInv, Next
  PROVE  TypeInv'
<1>1. ASSUME NEW t \in Thread, Step(t)
      PROVE  TypeInv'
  BY <1>1, StepCases, SaveTyped, StartTyped, CallTyped, HandlerTyped
<1> QED BY <1>1, OtherTyped DEF Next

----------------------------------------------------------------------------
(* The steps that are not yet described.                                   *)

Rewritten(name) == Do("write", [name |-> name, image |-> Image(Loaded(BadFile))])

LEMMA LoadSettingsEffect ==
  ASSUME ShapeInv, NEW t \in Thread, LoadSettings(t)
  PROVE  /\ ShapeInv' /\ t = Starter /\ ~up /\ ~up'
         /\ \E B : /\ Replaces(t, Do("load", 0), B, StageSet(2))
                   /\ \/ /\ settings' = Loaded(opt) /\ Write("opt", Created("opt"))
                         /\ excuses' = excuses
                         /\ B = IF Valid(opt) THEN {} ELSE {Rewritten("opt")}
                      \/ /\ UNCHANGED files
                         /\ excuses' = excuses \cup
                                         (IF ram = NoFile THEN {"boot"} ELSE {})
                         /\ \/ settings' = NoSettings /\ B = {}
                            \/ /\ settings' = Loaded(BadFile)
                               /\ B = {Rewritten("opt")}
<1>1. At(t, BootCode[1].op) /\ up' = up /\ 1 \in 1 .. 6 /\ 1 + 1 = 2 /\ 2 \in 1 .. 6
  BY Ops DEF LoadSettings
<1>2. /\ t = Starter /\ ~up
      /\ Continue(t, <<>>) => Replaces(t, Do("load", 0), {}, StageSet(2)) /\ ShapeInv'
      /\ \A y \in Before(2) : Continue(t, <<y>>) =>
           Replaces(t, Do("load", 0), {y}, StageSet(2)) /\ ShapeInv'
  BY <1>1, StageStep, BootFacts
<1>3. Rewritten("opt") \in Before(2)
  <2>1. Rewritten("opt") \in Saves("opt")
    BY RepairFacts, SavedImage DEF Rewritten
  <2>2. Rewritten("opt") # Do("save", "opt")
    BY DoFacts DEF Rewritten
  <2> QED BY <2>1, <2>2 DEF Before
<1>4. Repair("opt") = IF Valid(opt) THEN <<>> ELSE <<Rewritten("opt")>>
  BY DEF Repair, Content, Rewrite, Rewritten
<1>5. \/ /\ settings' = Loaded(opt) /\ Write("opt", Created("opt"))
         /\ Continue(t, Repair("opt")) /\ excuses' = excuses
      \/ /\ settings' = NoSettings /\ Continue(t, <<>>) /\ UNCHANGED files
         /\ excuses' = excuses \cup (IF ram = NoFile THEN {"boot"} ELSE {})
      \/ /\ settings' = Loaded(BadFile) /\ Continue(t, <<Rewritten("opt")>>)
         /\ UNCHANGED files
         /\ excuses' = excuses \cup (IF ram = NoFile THEN {"boot"} ELSE {})
  BY DEF LoadSettings, Excused, Rewrite, Rewritten
<1>6. CASE /\ settings' = Loaded(opt) /\ Write("opt", Created("opt"))
           /\ Continue(t, Repair("opt")) /\ excuses' = excuses
  <2>1. CASE Valid(opt)
    BY <1>1, <1>2, <1>4, <1>6, <2>1
  <2>2. CASE ~Valid(opt)
    <3>1. Continue(t, <<Rewritten("opt")>>)
      BY <1>4, <1>6, <2>2
    <3>2. Replaces(t, Do("load", 0), {Rewritten("opt")}, StageSet(2)) /\ ShapeInv'
      BY <1>2, <1>3, <3>1
    <3> QED BY <1>1, <1>2, <1>6, <2>2, <3>2
  <2> QED BY <2>1, <2>2
<1>7. CASE /\ settings' = NoSettings /\ Continue(t, <<>>) /\ UNCHANGED files
           /\ excuses' = excuses \cup (IF ram = NoFile THEN {"boot"} ELSE {})
  BY <1>1, <1>2, <1>7
<1>8. CASE /\ settings' = Loaded(BadFile) /\ Continue(t, <<Rewritten("opt")>>)
           /\ UNCHANGED files
           /\ excuses' = excuses \cup (IF ram = NoFile THEN {"boot"} ELSE {})
  <2>1. Replaces(t, Do("load", 0), {Rewritten("opt")}, StageSet(2)) /\ ShapeInv'
    BY <1>2, <1>3, <1>8
  <2> QED BY <1>1, <1>2, <1>8, <2>1
<1> QED BY <1>5, <1>6, <1>7, <1>8

LEMMA LoadRamEffect ==
  ASSUME ShapeInv, NEW t \in Thread, LoadRam(t)
  PROVE  /\ ShapeInv' /\ t = Starter /\ ~up /\ ~up'
         /\ \E B : \E before :
              /\ Replaces(t, Do("ram", 0), B, StageSet(3))
              /\ settings' = [settings EXCEPT !.before = before]
              /\ \/ /\ ram = NoFile /\ before = settings.state
                    /\ B = {Do("save", "ram")} /\ excuses' = excuses
                 \/ /\ ram # NoFile /\ before = Loaded(ram).state
                    /\ B = IF Valid(ram) THEN {} ELSE {Rewritten("ram")}
                    /\ excuses' = excuses
                 \/ /\ ram # NoFile /\ B \subseteq {Rewritten("ram")}
                    /\ excuses' = excuses \cup {"boot"}
<1>1. At(t, BootCode[2].op) /\ up' = up /\ 2 \in 1 .. 6 /\ 2 + 1 = 3 /\ 3 \in 1 .. 6
  BY Ops DEF LoadRam
<1>2. /\ t = Starter /\ ~up
      /\ Continue(t, <<>>) => Replaces(t, Do("ram", 0), {}, StageSet(3)) /\ ShapeInv'
      /\ \A y \in Before(3) : Continue(t, <<y>>) =>
           Replaces(t, Do("ram", 0), {y}, StageSet(3)) /\ ShapeInv'
  BY <1>1, StageStep, BootFacts
<1>3. Rewritten("ram") \in Before(3) /\ Do("save", "ram") \in Before(3)
  <2>1. Rewritten("ram") \in Saves("ram") /\ Do("save", "ram") \in Saves("ram")
    BY RepairFacts, SavedImage DEF Rewritten
  <2> QED BY <2>1 DEF Before
<1>4. Repair("ram") = IF Valid(ram) THEN <<>> ELSE <<Rewritten("ram")>>
  BY DEF Repair, Content, Rewrite, Rewritten
<1>5. CASE ram = NoFile
  <2>1. /\ settings' = [settings EXCEPT !.before = settings.state]
        /\ Continue(t, <<Do("save", "ram")>>) /\ excuses' = excuses
    BY <1>5 DEF LoadRam, Save
  <2>2. Replaces(t, Do("ram", 0), {Do("save", "ram")}, StageSet(3)) /\ ShapeInv'
    BY <1>2, <1>3, <2>1
  <2> QED BY <1>1, <1>2, <1>5, <2>1, <2>2
<1>6. CASE ram # NoFile
  <2>1. \/ /\ settings' = [settings EXCEPT !.before = Loaded(ram).state]
           /\ Continue(t, Repair("ram")) /\ excuses' = excuses
        \/ /\ settings' = [settings EXCEPT !.before = NoSettings.state]
           /\ excuses' = excuses \cup {"boot"}
           /\ Continue(t, <<>>) \/ Continue(t, <<Rewritten("ram")>>)
    BY <1>6 DEF LoadRam, Excused, Rewrite, Rewritten
  <2>2. CASE /\ settings' = [settings EXCEPT !.before = Loaded(ram).state]
             /\ Continue(t, Repair("ram")) /\ excuses' = excuses
    <3>1. CASE Valid(ram)
      <4>1. Replaces(t, Do("ram", 0), {}, StageSet(3)) /\ ShapeInv'
        BY <1>2, <1>4, <2>2, <3>1
      <4> QED BY <1>1, <1>2, <1>6, <2>2, <3>1, <4>1
    <3>2. CASE ~Valid(ram)
      <4>1. Continue(t, <<Rewritten("ram")>>)
        BY <1>4, <2>2, <3>2
      <4>2. Replaces(t, Do("ram", 0), {Rewritten("ram")}, StageSet(3)) /\ ShapeInv'
        BY <1>2, <1>3, <4>1
      <4> QED BY <1>1, <1>2, <1>6, <2>2, <3>2, <4>2
    <3> QED BY <3>1, <3>2
  <2>3. CASE /\ settings' = [settings EXCEPT !.before = NoSettings.state]
             /\ excuses' = excuses \cup {"boot"}
             /\ Continue(t, <<>>) \/ Continue(t, <<Rewritten("ram")>>)
    <3>1. PICK B : B \subseteq {Rewritten("ram")} /\ ShapeInv'
                   /\ Replaces(t, Do("ram", 0), B, StageSet(3))
      BY <1>2, <1>3, <2>3
    <3> QED BY <1>1, <1>2, <1>6, <2>3, <3>1
  <2> QED BY <2>1, <2>2, <2>3
<1> QED BY <1>5, <1>6

LEMMA StandbyBuildEffect ==
  ASSUME ShapeInv, NEW t \in Thread, BootToStandby(t)
  PROVE  /\ ShapeInv' /\ t = Starter /\ ~up /\ ~up'
         /\ Replaces(t, Do("standbyBuild", 0), {}, StageSet(4))
<1>1. At(t, BootCode[3].op) /\ up' = up /\ 3 \in 1 .. 6 /\ 3 + 1 = 4 /\ Continue(t, <<>>)
  BY Ops DEF BootToStandby
<1> QED BY <1>1, StageStep, BootFacts

LEMMA SourcesAtStartEffect ==
  ASSUME ShapeInv, NEW t \in Thread, SourcesAtStart(t)
  PROVE  /\ ShapeInv' /\ t = Starter /\ ~up /\ ~up'
         /\ Replaces(t, Do("sourcesAtStart", 0), {}, StageSet(5))
<1>1. At(t, BootCode[4].op) /\ up' = up /\ 4 \in 1 .. 6 /\ 4 + 1 = 5 /\ Continue(t, <<>>)
  BY Ops DEF SourcesAtStart
<1> QED BY <1>1, StageStep, BootFacts

LEMMA initEffect ==
  ASSUME ShapeInv, NEW t \in Thread, init(t)
  PROVE  /\ ShapeInv' /\ t = Starter /\ ~up /\ ~up'
         /\ \/ /\ Replaces(t, Do("init", 0), {}, StageSet(6))
               /\ settings' = settings /\ hw' = hw
               /\ \/ excuses' = excuses \cup {"blind"}
                  \/ /\ excuses' = excuses \ {"blind"}
                     /\ FromPlatform(hw.state) = settings.state
            \/ /\ Replaces(t, Do("init", 0), {Do("save", "opt")}, StageSet(6))
               /\ excuses' = excuses \ {"blind"}
               /\ \/ /\ hw' = [hw EXCEPT !.state = ToPlatform(settings.state)]
                     /\ settings' = settings
                  \/ /\ settings' = [settings EXCEPT !.state = FromPlatform(hw.state)]
                     /\ hw' = hw
<1>1. At(t, BootCode[5].op) /\ up' = up /\ 5 \in 1 .. 6 /\ 5 + 1 = 6 /\ 6 \in 1 .. 6
  BY Ops DEF init
<1>2. /\ t = Starter /\ ~up
      /\ Continue(t, <<>>) => Replaces(t, Do("init", 0), {}, StageSet(6)) /\ ShapeInv'
      /\ \A y \in Before(6) : Continue(t, <<y>>) =>
           Replaces(t, Do("init", 0), {y}, StageSet(6)) /\ ShapeInv'
  BY <1>1, StageStep, BootFacts
<1>3. Do("save", "opt") \in Before(6)
  <2>1. Do("save", "opt") \in Saves("opt")
    BY RepairFacts, SavedImage
  <2> QED BY <2>1 DEF Before
<1>4. \/ /\ Continue(t, <<>>) /\ settings' = settings /\ hw' = hw
         /\ \/ excuses' = excuses \cup {"blind"}
            \/ /\ excuses' = excuses \ {"blind"}
               /\ FromPlatform(hw.state) = settings.state
      \/ /\ Continue(t, <<Do("save", "opt")>>)
         /\ excuses' = excuses \ {"blind"}
         /\ \/ /\ hw' = [hw EXCEPT !.state = ToPlatform(settings.state)]
               /\ settings' = settings
            \/ /\ settings' = [settings EXCEPT !.state = FromPlatform(hw.state)]
               /\ hw' = hw
  BY DEF init, Excused, Save
<1>5. Continue(t, <<Do("save", "opt")>>) =>
        Replaces(t, Do("init", 0), {Do("save", "opt")}, StageSet(6)) /\ ShapeInv'
  BY <1>2, <1>3
<1> QED BY <1>1, <1>2, <1>4, <1>5

LEMMA StandbyEffect ==
  ASSUME ShapeInv, NEW t \in Thread, SetNetworkStandbyMode(t)
  PROVE  /\ ShapeInv' /\ up
         /\ \E mode \in BOOLEAN : LET x == Do("standby", mode) IN
              \/ /\ Replaces(t, x, {}, {}) /\ UNCHANGED <<settings, hw, excuses>>
                 /\ mode = settings.standby
              \/ /\ Replaces(t, x, {}, {}) /\ settings' = settings
                 /\ \E failed \in BOOLEAN : failed /\ SetSources(Both(mode), failed)
              \/ /\ Replaces(t, x, {Do("save", "opt")}, {})
                 /\ settings' = [settings EXCEPT !.standby = mode]
                 /\ \E failed \in BOOLEAN : SetSources(Both(mode), failed)
<1>1. At(t, "standby") /\ up' = up
  BY DEF SetNetworkStandbyMode
<1>2. PICK mode, x : mode = Arg(t) /\ x = Do("standby", mode)
  OBVIOUS
<1>3. /\ up /\ x \in Calls
      /\ Continue(t, <<>>) => Replaces(t, x, {}, {}) /\ ShapeInv'
      /\ Continue(t, Save("opt")) => Replaces(t, x, {Do("save", "opt")}, {}) /\ ShapeInv'
  BY <1>1, <1>2, CallStep
<1>4. mode \in BOOLEAN
  BY <1>2, <1>3, CallArgs
<1>5. PICK y, n : y = TRUE /\ n = FALSE
  OBVIOUS
<1>6. \/ /\ Continue(t, <<>>) /\ UNCHANGED <<settings, hw, excuses>>
         /\ mode = settings.standby
      \/ Continue(t, <<>>) /\ settings' = settings /\ SetSources(Both(mode), y)
      \/ /\ Continue(t, Save("opt")) /\ SetSources(Both(mode), n)
         /\ settings' = [settings EXCEPT !.standby = mode]
  BY <1>2, <1>5 DEF SetNetworkStandbyMode
<1>7. y \in BOOLEAN /\ y /\ n \in BOOLEAN
  BY <1>5
<1> QED BY <1>2, <1>3, <1>4, <1>6, <1>7

LEMMA SourceConfigEffect ==
  ASSUME ShapeInv, NEW t \in Thread, SetWakeupSourceConfig(t)
  PROVE  /\ ShapeInv' /\ up
         /\ \E config \in Configs : LET x == Do("sources", config) IN
              \E failed \in BOOLEAN :
                /\ SetSources(config, failed)
                /\ \/ failed /\ Replaces(t, x, {}, {})
                   \/ Replaces(t, x, {Do("readBack", 0)}, {})
<1>1. At(t, "sources") /\ up' = up
  BY DEF SetWakeupSourceConfig
<1>2. PICK config, x : config = Arg(t) /\ x = Do("sources", config)
  OBVIOUS
<1>3. /\ up /\ x \in Calls
      /\ Continue(t, <<>>) => Replaces(t, x, {}, {}) /\ ShapeInv'
      /\ \A y \in Calls : GiveBack(t, Api(y.op, y.arg)) =>
           Replaces(t, x, {y}, {}) /\ ShapeInv'
  BY <1>1, <1>2, CallStep
<1>4. config \in Configs
  BY <1>2, <1>3, CallArgs
<1>5. PICK y, n : y = TRUE /\ n = FALSE
  OBVIOUS
<1>6. \/ Continue(t, <<>>) /\ SetSources(config, y)
      \/ GiveBack(t, Api("readBack", 0)) /\ SetSources(config, n)
  BY <1>2, <1>5 DEF SetWakeupSourceConfig
<1>7. y \in BOOLEAN /\ y /\ n \in BOOLEAN
  BY <1>5
<1>8. GiveBack(t, Api("readBack", 0)) => Replaces(t, x, {Do("readBack", 0)}, {}) /\ ShapeInv'
  <2>1. PICK z : z = Do("readBack", 0)
    OBVIOUS
  <2>2. z \in Calls /\ z.op = "readBack" /\ z.arg = 0
    BY <2>1, InCalls, DoFacts
  <2> QED BY <1>3, <2>1, <2>2
<1> QED BY <1>2, <1>3, <1>4, <1>6, <1>7, <1>8

LEMMA ReadBackEffect ==
  ASSUME ShapeInv, TypeInv, NEW t \in Thread, GetWakeupSourceConfig(t)
  PROVE  /\ ShapeInv' /\ up
         /\ excuses' = excuses \/ excuses' = excuses \cup {"source"}
         /\ \E B : /\ Replaces(t, Do("readBack", 0), B, {})
                   /\ \A y \in B : y.op = "compare"
                   /\ hw.sources["WIFI"] = hw.sources["LAN"] =>
                        "source" \in excuses' \/ Do("compare", hw.sources["WIFI"]) \in B
<1>1. At(t, "readBack") /\ up' = up
  BY DEF GetWakeupSourceConfig
<1>2. PICK x : x = Do("readBack", Arg(t))
  OBVIOUS
<1>3. /\ up /\ x \in Calls
      /\ Continue(t, <<>>) => Replaces(t, x, {}, {}) /\ ShapeInv'
      /\ GiveBack(t, <<>>) => Replaces(t, x, {}, {}) /\ ShapeInv'
      /\ \A y \in Calls : GiveBack(t, Api(y.op, y.arg)) =>
           Replaces(t, x, {y}, {}) /\ ShapeInv'
  BY <1>1, <1>2, CallStep
<1>4. x = Do("readBack", 0)
  <2>1. Arg(t) = 0
    BY <1>2, <1>3, CallArgs
  <2> QED BY <1>2, <2>1
<1>5. CASE Continue(t, <<>>) /\ Excused({"source"})
  <2>1. excuses' = excuses \cup {"source"}
    BY <1>5 DEF Excused
  <2> QED BY <1>3, <1>4, <1>5, <2>1
<1>6. ASSUME NEW read \in SUBSET Sources, NEW wifi, NEW lan,
             wifi = ("WIFI" \in read /\ hw.sources["WIFI"]),
             lan = ("LAN" \in read /\ hw.sources["LAN"]),
             GiveBack(t, IF wifi # lan THEN <<>> ELSE Api("compare", wifi)),
             Excused(IF read = Sources THEN {} ELSE {"source"})
      PROVE  /\ ShapeInv'
             /\ excuses' = excuses \/ excuses' = excuses \cup {"source"}
             /\ \E B : /\ Replaces(t, Do("readBack", 0), B, {})
                       /\ \A y \in B : y.op = "compare"
                       /\ hw.sources["WIFI"] = hw.sources["LAN"] =>
                            "source" \in excuses' \/ Do("compare", hw.sources["WIFI"]) \in B
  <2>1. wifi \in BOOLEAN /\ lan \in BOOLEAN
    BY <1>6
  <2>2. excuses' = excuses \cup (IF read = Sources THEN {} ELSE {"source"})
    BY <1>6 DEF Excused
  <2>3. read = Sources =>
          wifi = hw.sources["WIFI"] /\ lan = hw.sources["LAN"]
    <3>1. "WIFI" \in Sources /\ "LAN" \in Sources
      BY DEF Sources
    <3>2. hw.sources["WIFI"] \in BOOLEAN /\ hw.sources["LAN"] \in BOOLEAN
      BY <3>1 DEF TypeInv
    <3> QED BY <1>6, <3>1, <3>2
  <2>4. CASE wifi # lan
    <3>1. GiveBack(t, <<>>)
      BY <1>6, <2>4
    <3>2. Replaces(t, x, {}, {}) /\ ShapeInv'
      BY <1>3, <3>1
    <3>3. hw.sources["WIFI"] = hw.sources["LAN"] => "source" \in excuses'
      BY <2>2, <2>3, <2>4
    <3> QED BY <1>4, <2>2, <3>2, <3>3
  <2>5. CASE wifi = lan
    <3>1. PICK y : y = Do("compare", wifi)
      OBVIOUS
    <3>2. y \in Calls /\ y.op = "compare" /\ y.arg = wifi
      BY <2>1, <3>1, InCalls, DoFacts
    <3>3. GiveBack(t, Api(y.op, y.arg))
      BY <1>6, <2>5, <3>2
    <3>4. Replaces(t, x, {y}, {}) /\ ShapeInv'
      BY <1>3, <3>2, <3>3
    <3>5. "source" \in excuses' \/ Do("compare", hw.sources["WIFI"]) \in {y}
      BY <2>2, <2>3, <3>1
    <3> QED BY <1>4, <2>2, <3>2, <3>4, <3>5
  <2> QED BY <2>4, <2>5
<1>7. \/ Continue(t, <<>>) /\ Excused({"source"})
      \/ \E read \in SUBSET Sources : \E wifi, lan :
           /\ wifi = ("WIFI" \in read /\ hw.sources["WIFI"])
           /\ lan = ("LAN" \in read /\ hw.sources["LAN"])
           /\ GiveBack(t, IF wifi # lan THEN <<>> ELSE Api("compare", wifi))
           /\ Excused(IF read = Sources THEN {} ELSE {"source"})
  BY DEF GetWakeupSourceConfig
<1>8. CASE \E read \in SUBSET Sources : \E wifi, lan :
             /\ wifi = ("WIFI" \in read /\ hw.sources["WIFI"])
             /\ lan = ("LAN" \in read /\ hw.sources["LAN"])
             /\ GiveBack(t, IF wifi # lan THEN <<>> ELSE Api("compare", wifi))
             /\ Excused(IF read = Sources THEN {} ELSE {"source"})
  BY <1>3, <1>6, <1>8
<1> QED BY <1>3, <1>5, <1>7, <1>8

LEMMA CompareEffect ==
  ASSUME ShapeInv, NEW t \in Thread, GetNetworkStandbyMode(t)
  PROVE  /\ ShapeInv' /\ up
         /\ \E mode \in BOOLEAN : LET x == Do("compare", mode) IN
              \/ Replaces(t, x, {}, {}) /\ settings.standby = mode
              \/ Replaces(t, x, {Do("standby", mode)}, {})
<1>1. At(t, "compare") /\ up' = up
  BY DEF GetNetworkStandbyMode
<1>2. PICK mode, x : mode = Arg(t) /\ x = Do("compare", mode)
  OBVIOUS
<1>3. /\ up /\ x \in Calls
      /\ GiveBack(t, <<>>) => Replaces(t, x, {}, {}) /\ ShapeInv'
      /\ \A y \in Calls : GiveBack(t, Api(y.op, y.arg)) =>
           Replaces(t, x, {y}, {}) /\ ShapeInv'
  BY <1>1, <1>2, CallStep
<1>4. mode \in BOOLEAN
  BY <1>2, <1>3, CallArgs
<1>5. PICK y : y = Do("standby", mode)
  OBVIOUS
<1>6. y \in Calls /\ y.op = "standby" /\ y.arg = mode
  BY <1>4, <1>5, InCalls, DoFacts
<1>7. \/ settings.standby = mode /\ GiveBack(t, <<>>)
      \/ GiveBack(t, Api(y.op, y.arg))
  BY <1>2, <1>6 DEF GetNetworkStandbyMode
<1> QED BY <1>2, <1>3, <1>4, <1>5, <1>6, <1>7

LEMMA TimerEffect ==
  ASSUME ShapeInv, NEW t \in Thread, SetDeepSleepTimer(t)
  PROVE  /\ ShapeInv' /\ up
         /\ \E time : Replaces(t, Do("timer", time), {Do("save", "opt")}, {})
<1>1. At(t, "timer") /\ up' = up /\ Continue(t, Save("opt") \o Save("opt"))
  BY DEF SetDeepSleepTimer
<1>2. PICK x : x = Do("timer", Arg(t))
  OBVIOUS
<1>3. up /\ (Continue(t, Save("opt") \o Save("opt")) =>
               Replaces(t, x, {Do("save", "opt")}, {}) /\ ShapeInv')
  BY <1>1, <1>2, CallStep
<1> QED BY <1>1, <1>2, <1>3

LEMMA SinceWakeupEffect ==
  ASSUME ShapeInv, NEW t \in Thread, GetTimeSinceWakeup(t)
  PROVE  /\ ShapeInv' /\ up
         /\ \E arg : Replaces(t, Do("sinceWakeup", arg), {}, {})
<1>1. At(t, "sinceWakeup") /\ up' = up /\ Continue(t, <<>>)
  BY DEF GetTimeSinceWakeup
<1>2. PICK x : x = Do("sinceWakeup", Arg(t))
  OBVIOUS
<1>3. up /\ (Continue(t, <<>>) => Replaces(t, x, {}, {}) /\ ShapeInv')
  BY <1>1, <1>2, CallStep
<1> QED BY <1>1, <1>2, <1>3

LEMMA LastEffect ==
  ASSUME ShapeInv, NEW t \in Thread, Sleep(t) \/ TakeTimestamp(t)
  PROVE  /\ ShapeInv' /\ up /\ t # Starter
         /\ Sleep(t) => \E arg : Replaces(t, Do("sleep", arg), {}, {})
         /\ TakeTimestamp(t) => Replaces(t, Do("wakeup", 0), {}, {})
<1>1. CASE Sleep(t)
  <2>1. At(t, "sleep") /\ up' = up /\ Continue(t, <<>>)
    BY <1>1 DEF Sleep
  <2>2. ShapeInv' /\ up /\ t # Starter /\ Replaces(t, Do("sleep", Arg(t)), {}, {})
    BY <2>1, LastStep
  <2>3. ~TakeTimestamp(t)
    BY <2>1 DEF TakeTimestamp, At
  <2> QED BY <2>2, <2>3
<1>2. CASE TakeTimestamp(t)
  <2>1. At(t, "wakeup") /\ up' = up /\ Continue(t, <<>>)
    BY <1>2 DEF TakeTimestamp
  <2>2. /\ ShapeInv' /\ up /\ t # Starter /\ Replaces(t, Do("wakeup", Arg(t)), {}, {})
        /\ Arg(t) = 0
    BY <2>1, LastStep
  <2>3. ~Sleep(t)
    BY <2>1 DEF Sleep, At
  <2> QED BY <2>2, <2>3
<1> QED BY <1>1, <1>2

LEMMA ShapeStep ==
  ASSUME ShapeInv, TypeInv, Next
  PROVE  ShapeInv'
<1>1. ASSUME NEW t \in Thread, Step(t)
      PROVE  ShapeInv'
  BY <1>1, StepCases, OpenToSaveEffect, WriteImageEffect, LoadSettingsEffect,
     LoadRamEffect, StandbyBuildEffect, SourcesAtStartEffect, initEffect,
     StartedEffect, SetPlatformStateEffect, StoreStateEffect,
     ActivateDeepSleepEffect, performActivateEffect, LastEffect, StandbyEffect,
     SourceConfigEffect,
     ReadBackEffect, CompareEffect, TimerEffect, SinceWakeupEffect
<1>2. PluginDies \/ DeviceDies => ShapeInv'
  BY DiesEffect DEF PluginDies, DeviceDies
<1> QED BY <1>1, <1>2, ClientCallsEffect, PluginStartsEffect DEF Next

----------------------------------------------------------------------------
(* What a step leaves as it was.                                           *)

\* Something is under way; of the work only X goes, and only B comes.
Alters(X, B) ==
  /\ ~Down
  /\ \A u \in Thread : /\ \A y \in Work(u) : y \in X \/ y \in Work(u)'
                       /\ \A y \in Work(u)' : y \in Work(u) \/ y \in B

LEMMA StarterIsThread ==
  Starter \in Thread
BY SettingsAssumption

LEMMA ReplacesFacts ==
  ASSUME NEW t \in Thread, NEW x, NEW B, NEW R, Replaces(t, x, B, R)
  PROVE  /\ Alters({x}, B) /\ ~Quiet
         /\ x \in Work(t) /\ \A y \in B : y \in Work(t)'
         /\ Work(t) = {x} \cup R /\ Work(t)' = B \cup R
<1>1. ~Quiet
  BY DEF Replaces, Quiet, Idle
<1>2. Work(t) = {x} \cup R /\ Work(t)' = B \cup R
      /\ \A u \in Thread \ {t} : Work(u)' = Work(u)
  BY DEF Replaces
<1>3. Alters({x}, B)
  BY <1>1, <1>2 DEF Alters, Down
<1> QED BY <1>1, <1>2, <1>3

LEMMA BeginsAlters ==
  ASSUME up, NEW t \in Thread, NEW B, Begins(t, B)
  PROVE  Alters({}, B)
BY DEF Alters, Down, Begins

\* Only the thread that starts the plugin works before it has started.
LEMMA NotUp ==
  ASSUME ShapeInv, ~up, NEW t \in Thread, t # Starter
  PROVE  Work(t) = {}
<1>1. todo[t] = <<>>
  BY DEF ShapeInv
<1> QED BY <1>1, BareFacts DEF Work

\* The threads that handle and that store, by their work.
LEMMA HandlingIs ==
  ASSUME NEW t
  PROVE  /\ Handling(t) <=> \E x \in Work(t) : x.op \in {"platform", "state"}
         /\ Storing(t) <=> \E x \in Work(t) : x.op = "state"
<1>1. ASSUME NEW S, \A op \in S : op \notin {"lock", "unlock"}
      PROVE  (\E i \in DOMAIN todo[t] : todo[t][i].op \in S)
               <=> \E x \in Work(t) : x.op \in S
  BY <1>1 DEF Work, Bare, Range, IsLock
<1>2. Handling(t) <=> \E x \in Work(t) : x.op \in {"platform", "state"}
  BY <1>1 DEF Handling
<1>3. Storing(t) <=> \E x \in Work(t) : x.op = "state"
  BY DEF Storing, Work, Bare, Range, IsLock
<1> QED BY <1>2, <1>3

LEMMA HandlingNext ==
  ASSUME NEW t
  PROVE  Handling(t)' <=> \E x \in Work(t)' : x.op \in {"platform", "state"}
BY DEF Handling, Work, Bare, Range, IsLock

\* Nobody handles before the plugin has started.
NoHandler ==
  \A t \in Thread : \A y \in Work(t) : y.op \notin {"platform", "state"}

LEMMA BeforeUp ==
  ShapeInv /\ ~up => NoHandler
<1> SUFFICES ASSUME ShapeInv, ~up, NEW t \in Thread, NEW y \in Work(t)
             PROVE  y.op \notin {"platform", "state"}
  BY DEF NoHandler
<1>1. todo[t] # <<>>
  BY BareFacts DEF Work
<1>2. PICK x, r : Busy(t, x, r) /\ Doing(t, x, r)
  BY <1>1, ThreadBusy
<1>3. Work(t) = {x} \cup Bare(r)
  BY <1>2, DoingFacts
<1>4. PICK n \in 1 .. 6 : \/ x = BootCode[n] /\ r = Later(n + 1)
                          \/ x \in Before(n) /\ r = Later(n)
  BY <1>2 DEF Busy
<1>5. n \in 1 .. 7 /\ n + 1 \in 1 .. 7
  OBVIOUS
<1>6. Bare(r) = StageSet(n) \/ Bare(r) = StageSet(n + 1)
  BY <1>4, <1>5, StageWork
<1>7. \A z \in Bare(r) : z.op \notin {"platform", "state"}
  BY <1>5, <1>6, StageFacts
<1>8. x.op \notin {"platform", "state"}
  <2>1. BootCode[n].op \notin {"platform", "state"}
    BY Ops
  <2>2. x \in Before(n) => x.op \in {"save", "write"}
    BY BeforeFacts, Ops
  <2> QED BY <1>4, <2>1, <2>2
<1> QED BY <1>3, <1>7, <1>8

LEMMA BeforeUpNext ==
  (ShapeInv /\ ~up => NoHandler)'
BY BeforeUp, PTL

LEMMA QuietWork ==
  ASSUME Quiet, NEW t \in Thread
  PROVE  Work(t) = {}
BY BareFacts DEF Work, Quiet, Idle

\* A boot stage leaves these stages to come.
LEMMA StageAhead ==
  ASSUME NEW n \in 2 .. 6, NEW x, NEW B, Replaces(Starter, x, B, StageSet(n))
  PROVE  /\ n <= 2 => Ahead("ram") /\ Ahead("ram")'
         /\ n <= 4 => Ahead("sourcesAtStart") /\ Ahead("sourcesAtStart")'
         /\ n <= 5 => Ahead("init") /\ Ahead("init")'
         /\ \A y \in Work(Starter)' : y \in B \/ y.op \notin {"write", "save", "state"}
         /\ \A y \in Work(Starter) : y = x \/ y.op \notin {"write", "save", "state"}
         /\ Ahead("load") => x = Do("load", 0)
         /\ Ahead("ram") => n <= 2 \/ x = Do("ram", 0)
<1>1. n \in 1 .. 7 /\ n # 1
  OBVIOUS
<1>2. Work(Starter) = {x} \cup StageSet(n) /\ Work(Starter)' = B \cup StageSet(n)
  BY StarterIsThread, ReplacesFacts
<1>3. \A y \in StageSet(n) : y.op \notin {"write", "save", "state"}
  BY <1>1, StageFacts
<1>4. /\ n <= 2 => Do("ram", 0) \in StageSet(n)
      /\ n <= 4 => Do("sourcesAtStart", 0) \in StageSet(n)
      /\ n <= 5 => Do("init", 0) \in StageSet(n)
      /\ Do("load", 0) \notin StageSet(n)
      /\ Do("ram", 0) \in StageSet(n) => n <= 2
  BY <1>1, StageFacts
<1> QED BY <1>2, <1>3, <1>4 DEF Ahead

LEMMA SavedFrame ==
  ASSUME SavedInv, NEW X, NEW B, Alters(X, B),
         Do("save", "opt") \notin X, Do("load", 0) \notin X,
         \A y \in X \cup B : ~(y.op = "write" /\ y.arg.name = "opt"),
         opt' = opt, settings'.usable = settings.usable,
         Image(settings)' = Image(settings),
         \A e \in {"crossed", "unsaved"} : e \in excuses => e \in excuses'
  PROVE  SavedInv'
<1>1. \A t \in Thread : Saving(t) => Saving(t)'
  BY DEF Saving, Alters
<1>2. \A t \in Thread : Writes(t, "opt")' = Writes(t, "opt")
  BY DEF Writes, Alters
<1>3. Ahead("load") => Ahead("load")'
  BY StarterIsThread DEF Ahead, Alters
<1>4. ~Down
  BY DEF Alters
<1>5. "crossed" \notin excuses' =>
        \A t \in Thread : \A x \in Writes(t, "opt")' :
          x.arg.image = Image(settings)' \/ \E u \in Thread : Saving(u)'
  BY <1>1, <1>2 DEF SavedInv
<1>6. settings'.usable /\ excuses' \cap {"unsaved", "crossed"} = {} =>
        \/ opt' = Image(settings)'
        \/ \E t \in Thread : Saving(t)' \/ Writes(t, "opt")' # {}
        \/ Ahead("load")'
  <2>1. SUFFICES ASSUME settings'.usable, excuses' \cap {"unsaved", "crossed"} = {}
                 PROVE  \/ opt' = Image(settings)'
                        \/ \E t \in Thread : Saving(t)' \/ Writes(t, "opt")' # {}
                        \/ Ahead("load")'
    OBVIOUS
  <2>2. settings.usable /\ excuses \cap {"unsaved", "crossed"} = {}
    BY <2>1
  <2>3. \/ opt = Image(settings)
        \/ \E t \in Thread : Saving(t) \/ Writes(t, "opt") # {}
        \/ Ahead("load")
    BY <1>4, <2>2 DEF SavedInv
  <2> QED BY <1>1, <1>2, <1>3, <2>3
<1> QED BY <1>5, <1>6 DEF SavedInv

\* What is still to be saved covers everything.
LEMMA StillSaving ==
  ASSUME NEW t \in Thread, Saving(t)'
  PROVE  SavedInv'
BY DEF SavedInv

\* Once the file in /tmp is there.
LEMMA BootFrame ==
  ASSUME BootInv, NEW X, NEW B, Alters(X, B),
         "boot" \notin excuses => ram # NoFile,
         Do("save", "ram") \notin B,
         \A y \in X \cup B : ~(y.op = "write" /\ y.arg.name = "ram"),
         ram' = ram, atBoot' = atBoot,
         \/ Ahead("ram")'
         \/ Do("ram", 0) \notin X /\ settings'.before = settings.before,
         "boot" \in excuses => "boot" \in excuses'
  PROVE  BootInv'
<1>1. Writes(Starter, "ram")' = Writes(Starter, "ram")
  BY StarterIsThread DEF Writes, Alters
<1>2. Do("save", "ram") \in Work(Starter)' => Do("save", "ram") \in Work(Starter)
  BY StarterIsThread DEF Alters
<1>3. Do("ram", 0) \notin X /\ Ahead("ram") => Ahead("ram")'
  BY StarterIsThread DEF Ahead, Alters
<1>4. ~Down
  BY DEF Alters
<1>5. SUFFICES ASSUME "boot" \notin excuses'
               PROVE  /\ ram' # NoFile
                      /\ ram' = BadFile => Writes(Starter, "ram")' # {}
                      /\ Valid(ram') => Keeps(ram)'
                      /\ \A x \in Writes(Starter, "ram")' : Keeps(x.arg.image)'
                      /\ Do("save", "ram") \notin Work(Starter)'
                      /\ Ahead("ram")' \/ settings'.before = atBoot'
  BY DEF BootInv
<1>6. /\ ram # NoFile
      /\ ram = BadFile => Writes(Starter, "ram") # {}
      /\ Valid(ram) => Keeps(ram)
      /\ \A x \in Writes(Starter, "ram") : Keeps(x.arg.image)
      /\ Do("save", "ram") \notin Work(Starter)
      /\ Ahead("ram") \/ settings.before = atBoot
  BY <1>4, <1>5 DEF BootInv
<1>7. \A file : Keeps(file) => Valid(file) /\ FromPlatform(file.state) = atBoot'
  BY DEF Keeps
<1>8. Valid(ram') => Keeps(ram)'
  BY <1>6, <1>7 DEF Keeps
<1>9. \A x \in Writes(Starter, "ram")' : Keeps(x.arg.image)'
  BY <1>1, <1>6, <1>7 DEF Keeps
<1> QED BY <1>1, <1>2, <1>3, <1>6, <1>8, <1>9

\* It is there once the plugin is up or past the stage that makes it.
LEMMA RamThere ==
  ASSUME BootInv, "boot" \notin excuses, ~Quiet,
         up \/ (~Ahead("ram") /\ Do("save", "ram") \notin Work(Starter))
  PROVE  ram # NoFile
BY DEF BootInv

LEMMA PlatformFrame ==
  ASSUME PlatformInv, NEW X, NEW B, Alters(X, B),
         Do("init", 0) \notin X,
         \A y \in X \cup B : y.op # "state",
         hw'.state = hw.state, settings'.state = settings.state,
         \A e \in {"blind", "raced"} : e \in excuses => e \in excuses'
  PROVE  PlatformInv'
<1>1. Ahead("init") => Ahead("init")'
  BY StarterIsThread DEF Ahead, Alters
<1>2. \A t \in Thread : \A y \in Work(t)' : y.op = "state" => y \in Work(t)
  BY DEF Alters
<1>3. \A t \in Thread : \A y \in Work(t) : y.op = "state" => y \in Work(t)'
  BY DEF Alters
<1>4. \A s : Do("state", s).op = "state"
  BY DoFacts
<1>5. ~Down
  BY DEF Alters
<1>6. FromPlatform(hw'.state) = FromPlatform(hw.state)
  OBVIOUS
<1>7. "raced" \notin excuses' =>
        \A t \in Thread : \A y \in Work(t)' :
          y.op = "state" => y.arg = FromPlatform(hw'.state)
  BY <1>2, <1>6 DEF PlatformInv
<1>8. excuses' \cap {"blind", "raced"} = {} =>
        \/ FromPlatform(hw'.state) = settings'.state
        \/ \E t \in Thread : Do("state", FromPlatform(hw'.state)) \in Work(t)'
        \/ Ahead("init")'
  <2>1. SUFFICES ASSUME excuses' \cap {"blind", "raced"} = {}
                 PROVE  \/ FromPlatform(hw'.state) = settings'.state
                        \/ \E t \in Thread :
                             Do("state", FromPlatform(hw'.state)) \in Work(t)'
                        \/ Ahead("init")'
    OBVIOUS
  <2>2. excuses \cap {"blind", "raced"} = {}
    BY <2>1
  <2>3. \/ FromPlatform(hw.state) = settings.state
        \/ \E t \in Thread : Do("state", FromPlatform(hw.state)) \in Work(t)
        \/ Ahead("init")
    BY <1>5, <2>2 DEF PlatformInv
  <2> QED BY <1>1, <1>3, <1>4, <1>6, <2>3
<1> QED BY <1>7, <1>8 DEF PlatformInv

\* The start will bring them together.
LEMMA PlatformAhead ==
  ASSUME ShapeInv', ~up', Ahead("init")' \/ Down'
  PROVE  PlatformInv'
<1>1. NoHandler'
  BY BeforeUpNext
<1>2. \A t \in Thread : \A y \in Work(t)' : y.op # "state"
  BY <1>1 DEF NoHandler
<1> QED BY <1>2 DEF PlatformInv

LEMMA StandbyFrame ==
  ASSUME StandbyInv, NEW X, NEW B, Alters(X, B),
         Do("sourcesAtStart", 0) \notin X,
         \A y \in X : y.op \notin {"readBack", "compare", "standby"},
         hw'.sources = hw.sources, settings'.standby = settings.standby,
         "source" \in excuses => "source" \in excuses'
  PROVE  StandbyInv'
<1>1. Ahead("sourcesAtStart") => Ahead("sourcesAtStart")'
  BY StarterIsThread DEF Ahead, Alters
<1>2. ASSUME NEW mode, NEW t \in Thread, Work(t) \cap Agreeing(mode) # {}
      PROVE  Work(t)' \cap Agreeing(mode) # {}
  <2>1. PICK y \in Work(t) : y \in Agreeing(mode)
    BY <1>2
  <2>2. y.op \in {"readBack", "compare", "standby"}
    BY <2>1, DoFacts DEF Agreeing
  <2> QED BY <2>1, <2>2 DEF Alters
<1>3. ~Down
  BY DEF Alters
<1>4. SUFFICES ASSUME "source" \notin excuses',
                      hw'.sources["WIFI"] = hw'.sources["LAN"]
               PROVE  \/ settings'.standby = hw'.sources["WIFI"]
                      \/ \E t \in Thread : Work(t)' \cap Agreeing(hw'.sources["WIFI"]) # {}
                      \/ Ahead("sourcesAtStart")'
  BY DEF StandbyInv, Agreeing
<1>5. \/ settings.standby = hw.sources["WIFI"]
      \/ \E t \in Thread : Work(t) \cap Agreeing(hw.sources["WIFI"]) # {}
      \/ Ahead("sourcesAtStart")
  BY <1>3, <1>4 DEF StandbyInv
<1> QED BY <1>1, <1>2, <1>5

LEMMA StandbyAhead ==
  ASSUME Ahead("sourcesAtStart")' \/ Down'
  PROVE  StandbyInv'
BY DEF StandbyInv

LEMMA AwakeFrame ==
  ASSUME AwakeInv, NEW X, NEW B, Alters(X, B),
         Do("wakeup", 0) \notin X,
         \A y \in B : y.op \notin {"platform", "state"},
         up' = up, settings'.state = settings.state,
         stamp' = stamp, wakeups' = wakeups,
         "stale" \in excuses => "stale" \in excuses'
  PROVE  AwakeInv'
<1>1. \A t \in Thread : Do("wakeup", 0) \in Work(t) => Do("wakeup", 0) \in Work(t)'
  BY DEF Alters
<1>2. \A t \in Thread : \A y \in Work(t)' :
        y.op \in {"platform", "state"} => y \in Work(t)
  BY DEF Alters
<1>3. Do("state", "ON").op = "state"
  BY DoFacts
<1>4. \A t \in Thread : Handling(t)' => Handling(t)
  BY <1>2, HandlingIs, HandlingNext
<1>5. SUFFICES ASSUME "stale" \notin excuses'
               PROVE  AwakeInv'
  BY DEF AwakeInv
<1>6. "stale" \notin excuses
  BY <1>5
<1>7. up' /\ settings'.state = "ON" =>
        stamp' = wakeups' \/ \E t \in Thread : Do("wakeup", 0) \in Work(t)'
  BY <1>1, <1>6 DEF AwakeInv
<1>8. \A t \in Thread : \A x \in Work(t)' :
        x.op = "platform" => x.arg.from = settings'.state
  BY <1>2, <1>6 DEF AwakeInv
<1>9. \A t \in Thread : Do("state", "ON") \in Work(t)' /\ settings'.state # "ON"
        => Do("wakeup", 0) \in Work(t)'
  BY <1>1, <1>2, <1>3, <1>6 DEF AwakeInv
<1>10. \A t, u \in Thread : Handling(t)' /\ Handling(u)' => t = u
  BY <1>4, <1>6 DEF AwakeInv
<1> QED BY <1>7, <1>8, <1>9, <1>10 DEF AwakeInv

LEMMA NotAwake ==
  ASSUME ShapeInv', ~up'
  PROVE  AwakeInv'
<1>1. NoHandler'
  BY BeforeUpNext
<1>2. \A t \in Thread : \A y \in Work(t)' : y.op \notin {"platform", "state"}
  BY <1>1 DEF NoHandler
<1>3. \A t \in Thread : ~Handling(t)'
  BY <1>2, HandlingNext
<1>4. Do("state", "ON").op = "state"
  BY DoFacts
<1> QED BY <1>2, <1>3, <1>4 DEF AwakeInv

----------------------------------------------------------------------------
(* What the steps do to the parts of the invariant.                        *)

Parts == SavedInv /\ BootInv /\ PlatformInv /\ StandbyInv /\ AwakeInv

LEMMA NotThat ==
  \A x, op, arg : x.op # op => x # Do(op, arg)
BY DoFacts

\* A step that changes nothing but what is to be done.
LEMMA PlainStep ==
  ASSUME Parts, up, NEW X, NEW B, Alters(X, B),
         \A y \in X : y.op \in {"platform", "activate", "perform", "sleep",
                                "sinceWakeup"},
         \A y \in B : y.op \in {"sinceWakeup", "standby", "sources", "timer",
                                "perform", "sleep"},
         UNCHANGED <<opt, ram, up, settings, hw, wakeups, stamp, atBoot, excuses>>
  PROVE  Parts'
<1>1. Image(settings)' = Image(settings)
  BY DEF Image
<1>2. /\ \A op \in {"save", "load", "ram", "init", "sourcesAtStart", "wakeup"} :
           \A arg : Do(op, arg) \notin X
      /\ \A op \in {"save", "state"} : \A arg : Do(op, arg) \notin B
  BY DoFacts
<1>3. /\ \A y \in X \cup B : y.op # "write" /\ y.op # "state"
      /\ \A y \in B : y.op \notin {"platform", "state"}
  OBVIOUS
<1>4. SavedInv'
  BY <1>1, <1>2, <1>3, SavedFrame DEF Parts
<1>5. BootInv'
  <2>1. "boot" \notin excuses => ram # NoFile
    BY DEF Parts, BootInv
  <2> QED BY <1>2, <1>3, <2>1, BootFrame DEF Parts
<1>6. PlatformInv'
  BY <1>2, <1>3, PlatformFrame DEF Parts
<1>7. StandbyInv'
  BY <1>2, StandbyFrame DEF Parts
<1>8. AwakeInv'
  BY <1>2, <1>3, AwakeFrame DEF Parts
<1> QED BY <1>4, <1>5, <1>6, <1>7, <1>8 DEF Parts

\* A handler starts with the state that the one before it has stored, unless that
\* one has not.
LEMMA HandlerStarts ==
  ASSUME Parts, up, NEW t \in Thread, NEW y, Begins(t, {y}), y.op = "platform",
         y.arg.from = settings.state,
         excuses' = IF \E u \in Thread \ {t} : Handling(u)
                    THEN excuses \cup {"stale"} ELSE excuses,
         UNCHANGED <<opt, ram, up, settings, hw, wakeups, stamp, atBoot>>
  PROVE  Parts'
<1>0. Alters({}, {y})
  BY BeginsAlters
<1>1. Image(settings)' = Image(settings)
  BY DEF Image
<1>2. \A op \in {"save", "state"} : \A arg : Do(op, arg) # y
  BY DoFacts
<1>3. \A e \in Excuse \ {"stale"} : e \in excuses <=> e \in excuses'
  OBVIOUS
<1>a. \A e \in {"crossed", "unsaved", "boot", "blind", "raced", "source"} :
        e \in excuses <=> e \in excuses'
  BY <1>3 DEF Excuse
<1>4. SavedInv'
  BY <1>0, <1>1, <1>2, <1>a, SavedFrame DEF Parts
<1>5. BootInv'
  <2>1. "boot" \notin excuses => ram # NoFile
    BY DEF Parts, BootInv
  <2> QED BY <1>0, <1>2, <1>a, <2>1, BootFrame DEF Parts
<1>6. PlatformInv'
  BY <1>0, <1>2, <1>a, PlatformFrame DEF Parts
<1>7. StandbyInv'
  BY <1>0, <1>2, <1>a, StandbyFrame DEF Parts
<1>8. ASSUME "stale" \notin excuses'
      PROVE  AwakeInv'
  <2>1. "stale" \notin excuses /\ \A u \in Thread \ {t} : ~Handling(u)
    BY <1>8
  <2>2. Work(t)' = {y} /\ \A u \in Thread \ {t} : Work(u)' = Work(u)
    BY DEF Begins
  <2>a. Work(t) = {}
    BY DEF Begins
  <2>3. \A u \in Thread \ {t} : ~Handling(u)'
    BY <2>1, <2>2, HandlingIs, HandlingNext
  <2>4. up' /\ settings'.state = "ON" =>
          stamp' = wakeups' \/ \E u \in Thread : Do("wakeup", 0) \in Work(u)'
    BY <2>1, <2>2, <2>a DEF Parts, AwakeInv
  <2>5. \A u \in Thread \ {t} : \A x \in Work(u)' : x.op \notin {"platform", "state"}
    BY <2>3, HandlingNext
  <2>6. \A u \in Thread : \A x \in Work(u)' :
          x.op = "platform" => x.arg.from = settings'.state
    BY <2>2, <2>5
  <2>7. \A u \in Thread : Do("state", "ON") \notin Work(u)'
    BY <1>2, <2>2, <2>5, DoFacts
  <2>8. \A u, v \in Thread : Handling(u)' /\ Handling(v)' => u = v
    BY <2>3
  <2> QED BY <2>4, <2>6, <2>7, <2>8 DEF AwakeInv
<1>9. AwakeInv'
  BY <1>8 DEF AwakeInv
<1> QED BY <1>4, <1>5, <1>6, <1>7, <1>9 DEF Parts

LEMMA PlainSteps ==
  ASSUME ShapeInv, TypeInv, Parts
  PROVE  /\ \A t \in Thread :
              (\/ ActivateDeepSleep(t) \/ performActivate(t) \/ Sleep(t)
               \/ GetTimeSinceWakeup(t)) => Parts'
         /\ ClientCalls => Parts'
<1>1. ASSUME NEW t \in Thread, ActivateDeepSleep(t)
      PROVE  Parts'
  <2>1. PICK y : up /\ y.op = "perform" /\ Replaces(t, Do("activate", 0), {y}, {})
    BY <1>1, ActivateDeepSleepEffect
  <2>2. Alters({Do("activate", 0)}, {y}) /\ Do("activate", 0).op = "activate"
    BY <2>1, ReplacesFacts, DoFacts
  <2>3. UNCHANGED <<opt, ram, up, settings, hw, wakeups, stamp, atBoot, excuses>>
    BY <1>1 DEF ActivateDeepSleep, files, counts, wake
  <2> QED BY <2>1, <2>2, <2>3, PlainStep
<1>a. ASSUME NEW t \in Thread, performActivate(t)
      PROVE  Parts'
  <2>1. PICK B : /\ up /\ \A y \in B : y.op = "sleep"
                 /\ Replaces(t, Do("perform", Arg(t)), B, {})
    BY <1>a, performActivateEffect
  <2>2. Alters({Do("perform", Arg(t))}, B) /\ Do("perform", Arg(t)).op = "perform"
    BY <2>1, ReplacesFacts, DoFacts
  <2>3. UNCHANGED <<opt, ram, up, settings, hw, wakeups, stamp, atBoot, excuses>>
    BY <1>a DEF performActivate, files, counts, wake
  <2> QED BY <2>1, <2>2, <2>3, PlainStep
<1>2. ASSUME NEW t \in Thread, Sleep(t) \/ GetTimeSinceWakeup(t)
      PROVE  Parts'
  <2>1. PICK op \in {"sleep", "sinceWakeup"} : up /\ \E arg : Replaces(t, Do(op, arg), {}, {})
    BY <1>2, LastEffect, SinceWakeupEffect
  <2>2. PICK arg : Replaces(t, Do(op, arg), {}, {})
    BY <2>1
  <2>3. Alters({Do(op, arg)}, {}) /\ Do(op, arg).op = op
    BY <2>2, ReplacesFacts, DoFacts
  <2>4. UNCHANGED <<opt, ram, up, settings, hw, wakeups, stamp, atBoot, excuses>>
    BY <1>2 DEF Sleep, GetTimeSinceWakeup, files, counts, wake
  <2> QED BY <2>1, <2>3, <2>4, PlainStep
<1>3. ASSUME ClientCalls
      PROVE  Parts'
  <2> DEFINE Good(t, y) ==
               /\ Begins(t, {y}) /\ y.op \in Beginnings
               /\ IF y.op = "platform"
                  THEN /\ y.arg.from = settings.state
                       /\ excuses' = IF \E u \in Thread \ {t} : Handling(u)
                                     THEN excuses \cup {"stale"} ELSE excuses
                  ELSE excuses' = excuses
  <2>1. up /\ \E t \in Thread : \E y : Good(t, y)
    BY <1>3, ClientCallsEffect
  <2>2. PICK t \in Thread : \E y : Good(t, y)
    BY <2>1
  <2>3. PICK y : Good(t, y)
    BY <2>2
  <2>4. UNCHANGED <<opt, ram, up, settings, hw, wakeups, stamp, atBoot>>
    BY <1>3 DEF ClientCalls, files, wake
  <2>5. CASE y.op = "platform"
    BY <2>1, <2>3, <2>4, <2>5, HandlerStarts
  <2>6. CASE y.op # "platform"
    <3>1. Alters({}, {y})
      BY <2>1, <2>3, BeginsAlters
    <3>2. excuses' = excuses
      BY <2>3, <2>6
    <3> QED BY <2>1, <2>3, <2>4, <2>6, <3>1, <3>2, PlainStep DEF Beginnings
  <2> QED BY <2>5, <2>6
<1> QED BY <1>1, <1>a, <1>2, <1>3

\* No other thread writes when t finds no file being written.
LEMMA CrossingFacts ==
  ASSUME ShapeInv, NEW t \in Thread, "crossed" \notin Crossing(t)
  PROVE  \A u \in Thread \ {t} : Writes(u, "opt") = {}
<1>1. \A u \in Thread \ {t} : ~Writing(u)
  BY DEF Crossing
<1>2. ASSUME NEW u \in Thread, ~Writing(u)
      PROVE  Writes(u, "opt") = {}
  BY <1>2 DEF Writing, Writes, Work, Bare, Range
<1> QED BY <1>1, <1>2

\* The steps of a save leave the rest alone.
LEMMA SaveFrames ==
  ASSUME ShapeInv, Parts, NEW X, NEW B, Alters(X, B),
         \A y \in X : y.op \in {"save", "write"}, \A y \in B : y.op = "write",
         UNCHANGED <<up, settings, hw, wakeups, stamp, atBoot>>,
         \A e \in {"blind", "source", "raced", "stale"} :
           e \in excuses => e \in excuses'
  PROVE  PlatformInv' /\ StandbyInv' /\ AwakeInv'
<1>1. /\ \A op \in {"init", "sourcesAtStart", "wakeup"} : \A arg : Do(op, arg) \notin X
      /\ \A y \in B : y.op \notin {"platform", "state"}
  BY DoFacts
<1>2. PlatformInv'
  BY <1>1, PlatformFrame DEF Parts
<1>3. StandbyInv'
  BY <1>1, StandbyFrame DEF Parts
<1>4. AwakeInv'
  BY <1>1, AwakeFrame DEF Parts
<1> QED BY <1>2, <1>3, <1>4

\* Where a save is under way the file in /tmp is there, unless it is that save.
LEMMA SavePlaceRam ==
  ASSUME Parts, NEW t \in Thread, NEW x, NEW B, NEW R, Replaces(t, x, B, R),
         x.op \in {"save", "write"}, x # Do("save", "ram"),
         \E name : SavePlace(t, name, R), "boot" \notin excuses
  PROVE  ram # NoFile
<1>1. ~Quiet /\ Work(t) = {x} \cup R
  BY ReplacesFacts
<1>2. x # Do("ram", 0)
  BY DoFacts
<1>3. CASE up
  BY <1>1, <1>3, RamThere DEF Parts
<1>4. CASE ~up
  <2>1. t = Starter /\ (R = StageSet(3) \/ R = StageSet(6))
    BY <1>4 DEF SavePlace
  <2>2. PICK n \in {3, 6} : R = StageSet(n)
    BY <2>1
  <2>3. n \in 1 .. 7 /\ ~(n <= 2)
    BY <2>2
  <2>4. Do("ram", 0) \notin R /\ \A y \in R : y.op # "save"
    BY <2>2, <2>3, StageFacts
  <2>5. Do("save", "ram").op = "save"
    BY DoFacts
  <2>6. Do("ram", 0) \notin Work(Starter) /\ Do("save", "ram") \notin Work(Starter)
    BY <1>1, <1>2, <2>1, <2>4, <2>5
  <2> QED BY <1>1, <2>6, RamThere DEF Parts, Ahead
<1> QED BY <1>3, <1>4

LEMMA OpenToSaveParts ==
  ASSUME ShapeInv, TypeInv, Parts, NEW t \in Thread, OpenToSave(t)
  PROVE  Parts'
<1>1. PICK name, R, B :
        /\ Replaces(t, Do("save", name), B, R)
        /\ SavePlace(t, name, R) /\ NoWrites(R)
        /\ \/ /\ B = {Do("write", [name |-> name, image |-> Image(settings)])}
              /\ Write(name, Created(name))
              /\ excuses' = excuses \cup Crossing(t)
           \/ /\ B = {} /\ UNCHANGED files
              /\ excuses' = excuses \cup (Crossing(t) \cup {Lost(name)})
  BY OpenToSaveEffect
<1>2. UNCHANGED <<up, settings, hw, wakeups, stamp, atBoot>>
  BY DEF OpenToSave, counts, wake
<1>3. PICK x, w : /\ x = Do("save", name)
                  /\ w = Do("write", [name |-> name, image |-> Image(settings)])
  OBVIOUS
<1>4. /\ x.op = "save" /\ x.arg = name
      /\ w.op = "write" /\ w.arg.name = name /\ w.arg.image = Image(settings)
  BY <1>3, DoFacts
<1>a. Replaces(t, x, B, R)
  BY <1>1, <1>3
<1>5. /\ Alters({x}, B) /\ ~Quiet
      /\ Work(t) = {x} \cup R /\ Work(t)' = B \cup R
  BY <1>a, ReplacesFacts
<1>6. B = {} \/ B = {w}
  BY <1>1, <1>3
<1>7. excuses \subseteq excuses' /\ Crossing(t) \subseteq excuses'
  BY <1>1
<1>8. PlatformInv' /\ StandbyInv' /\ AwakeInv'
  BY <1>2, <1>4, <1>5, <1>6, <1>7, SaveFrames
<1>9. name \in {"opt", "ram"}
  BY <1>1 DEF SavePlace
<1>10. Image(settings)' = Image(settings)
  BY <1>2 DEF Image
<1>11. /\ \A op \in {"load", "ram"} : \A arg : x # Do(op, arg)
       /\ \A arg : w # Do("save", arg)
  BY <1>4, NotThat
<1>12. CASE name = "opt"
  <2>1. x # Do("save", "ram")
    BY <1>3, <1>4, <1>12, DoFacts
  <2>2. ram' = ram
    BY <1>1, <1>12 DEF Write, files
  <2>3. BootInv'
    <3>1. "boot" \notin excuses => ram # NoFile
      BY <1>1, <1>3, <1>4, <2>1, SavePlaceRam
    <3>2. \A y \in {x} \cup B : ~(y.op = "write" /\ y.arg.name = "ram")
      BY <1>4, <1>6, <1>12
    <3>3. Do("save", "ram") \notin B /\ Do("ram", 0) \notin {x}
      BY <1>6, <1>11
    <3> QED BY <1>2, <1>5, <1>7, <2>2, <3>1, <3>2, <3>3, BootFrame DEF Parts
  <2>4. SavedInv'
    <3>1. CASE "crossed" \in excuses'
      BY <3>1 DEF SavedInv
    <3>2. CASE "crossed" \notin excuses'
      <4>1. "crossed" \notin Crossing(t)
        BY <1>7, <3>2
      <4>2. \A u \in Thread \ {t} : Writes(u, "opt")' = {}
        BY <1>1, <4>1, CrossingFacts DEF Writes, Replaces
      <4>3. \A y \in Writes(t, "opt")' : y = w
        BY <1>1, <1>5, <1>6 DEF Writes, NoWrites
      <4>4. \A u \in Thread : \A y \in Writes(u, "opt")' :
              y.arg.image = Image(settings)'
        BY <1>4, <1>10, <4>2, <4>3
      <4>5. CASE B = {w}
        <5>1. w \in Writes(t, "opt")'
          BY <1>4, <1>5, <1>12, <4>5 DEF Writes
        <5> QED BY <4>4, <5>1 DEF SavedInv
      <4>6. CASE B = {}
        <5>1. "unsaved" \in excuses'
          BY <1>1, <1>12, <4>6 DEF Lost
        <5> QED BY <4>4, <5>1 DEF SavedInv
      <4> QED BY <1>6, <4>5, <4>6
    <3> QED BY <3>1, <3>2
  <2> QED BY <1>8, <2>3, <2>4 DEF Parts
<1>13. CASE name = "ram"
  <2>1. t = Starter /\ ~up /\ R = StageSet(3)
    BY <1>1, <1>13 DEF SavePlace
  <2>2. SavedInv'
    <3>1. opt' = opt
      BY <1>1, <1>13 DEF Write, files
    <3>2. Do("save", "opt") # x
      BY <1>4, <1>13, DoFacts
    <3>3. \A y \in {x} \cup B : ~(y.op = "write" /\ y.arg.name = "opt")
      BY <1>4, <1>6, <1>13
    <3> QED BY <1>2, <1>5, <1>7, <1>10, <1>11, <3>1, <3>2, <3>3, SavedFrame DEF Parts
  <2>3. BootInv'
    <3>1. CASE B = {}
      <4>1. "boot" \in excuses'
        BY <1>1, <1>13, <3>1 DEF Lost
      <4> QED BY <4>1 DEF BootInv
    <3>2. CASE B = {w}
      <4>0. SUFFICES ASSUME "boot" \notin excuses'
                     PROVE  BootInv'
        BY DEF BootInv
      <4>1. Created(name) \in {BadFile, ram} /\ ram' = Created(name)
            /\ (ram = NoFile => Created(name) = BadFile)
        BY <1>1, <1>3, <1>13, <3>2 DEF Write, Created, Content
      <4>2. /\ ram = NoFile /\ BootInv /\ "boot" \notin excuses
        BY <1>3, <1>5, <1>7, <1>13, <2>1, <4>0 DEF Parts, BootInv
      <4>3. ~Ahead("load") /\ ~Ahead("ram")
        <5>1. 3 \in 2 .. 6 /\ ~(3 <= 2)
          OBVIOUS
        <5>2. Replaces(Starter, x, B, StageSet(3))
          BY <1>1, <1>3, <2>1
        <5> QED BY <1>11, <5>1, <5>2, StageAhead
      <4>4. settings.usable /\ settings.state = atBoot /\ settings.before = atBoot
        BY <1>5, <4>2, <4>3 DEF BootInv, Down
      <4>5. Image(settings) \in Stored /\ Image(settings).state = ToPlatform(settings.state)
        BY <4>4, ImageFacts DEF TypeInv
      <4>6. settings.state \in States
        BY DEF TypeInv, SettingsType
      <4>7. Valid(Image(settings)) /\ FromPlatform(Image(settings).state) = atBoot'
        BY <1>2, <4>4, <4>5, <4>6, ValidFacts, PlatformFacts
      <4>8. \A y \in Work(Starter)' : y.op = "write" => y = w
        BY <1>1, <1>5, <2>1, <3>2 DEF NoWrites
      <4>9. w \in Writes(Starter, "ram")'
        BY <1>4, <1>5, <1>13, <2>1, <3>2 DEF Writes
      <4>10. \A y \in Writes(Starter, "ram")' : Keeps(y.arg.image)'
        <5>1. \A y \in Writes(Starter, "ram")' : y = w
          BY <4>8 DEF Writes
        <5> QED BY <1>4, <4>7, <5>1 DEF Keeps
      <4>11. Do("save", "ram") \notin Work(Starter)'
        BY <1>1, <1>5, <1>11, <2>1, <3>2 DEF NoWrites
      <4>12. ram' = BadFile /\ ram' # NoFile /\ ~Valid(ram')
        BY <4>1, <4>2, ValidFacts, RepairFacts
      <4>13. settings'.before = atBoot'
        BY <1>2, <4>4
      <4> QED BY <4>9, <4>10, <4>11, <4>12, <4>13 DEF BootInv
    <3> QED BY <1>6, <3>1, <3>2
  <2> QED BY <1>8, <2>2, <2>3 DEF Parts
<1> QED BY <1>9, <1>12, <1>13

LEMMA WriteImageParts ==
  ASSUME ShapeInv, TypeInv, Parts, NEW t \in Thread, WriteImage(t)
  PROVE  Parts'
<1>1. PICK x, name, image, R :
        /\ x = Do("write", [name |-> name, image |-> image])
        /\ image \in Stored \cup {BadFile}
        /\ Replaces(t, x, {}, R) /\ NoWrites(R)
        /\ \/ SavePlace(t, name, R)
           \/ t = Starter /\ ~up /\ name = "opt" /\ R = StageSet(2)
        /\ \/ /\ Write(name, image)
              /\ excuses' = IF name = "opt" THEN excuses \ {"unsaved"}
                            ELSE excuses
           \/ excuses' = excuses \cup {Lost(name)} /\ UNCHANGED files
  BY WriteImageEffect
<1>2. UNCHANGED <<up, settings, hw, wakeups, stamp, atBoot>>
  BY DEF WriteImage, counts, wake
<1>3. x.op = "write" /\ x.arg.name = name /\ x.arg.image = image
  BY <1>1, DoFacts
<1>a. Replaces(t, x, {}, R)
  BY <1>1
<1>b. /\ Alters({x}, {}) /\ ~Quiet /\ x \in Work(t)
      /\ Work(t) = {x} \cup R /\ Work(t)' = {} \cup R
  BY <1>a, ReplacesFacts
<1>4. /\ Alters({x}, {}) /\ ~Quiet /\ x \in Work(t)
      /\ Work(t) = {x} \cup R /\ Work(t)' = R
  BY <1>b
<1>5. \A e : e # "unsaved" /\ e \in excuses => e \in excuses'
  BY <1>1
<1>6. PlatformInv' /\ StandbyInv' /\ AwakeInv'
  BY <1>2, <1>3, <1>4, <1>5, SaveFrames
<1>7. name \in {"opt", "ram"}
  BY <1>1 DEF SavePlace
<1>8. Image(settings)' = Image(settings)
  BY <1>2 DEF Image
<1>9. \A op \in {"load", "ram", "save"} : \A arg : x # Do(op, arg)
  BY <1>3, NotThat
<1>10. Writes(t, "opt")' = {} /\ Writes(t, "ram")' = {}
  BY <1>1, <1>4 DEF Writes, NoWrites
<1>11. CASE name = "opt"
  <2>1. ram' = ram
    BY <1>1, <1>11 DEF Write, files
  <2>2. SavedInv'
    <3>1. CASE "crossed" \in excuses'
      BY <3>1 DEF SavedInv
    <3>2. CASE "crossed" \notin excuses'
      <4>1. "crossed" \notin excuses
        BY <1>5, <3>2
      <4>2. \A u \in Thread : Saving(u) => Saving(u)'
        BY <1>4, <1>9 DEF Saving, Alters
      <4>3. \A u \in Thread : \A y \in Writes(u, "opt") :
              y.arg.image = Image(settings)' \/ \E v \in Thread : Saving(v)'
        BY <1>8, <4>1, <4>2 DEF Parts, SavedInv
      <4>4. \A u \in Thread : Writes(u, "opt")' \subseteq Writes(u, "opt")
        BY <1>4 DEF Writes, Alters
      <4>5. x \in Writes(t, "opt")
        BY <1>3, <1>4, <1>11 DEF Writes
      <4>6. "unsaved" \in excuses' \/ opt' = image
        BY <1>1, <1>11 DEF Write, Lost
      <4>7. "unsaved" \in excuses' \/ opt' = Image(settings)' \/ \E v \in Thread : Saving(v)'
        BY <1>3, <4>3, <4>5, <4>6
      <4>8. \A u \in Thread : \A y \in Writes(u, "opt")' :
              y.arg.image = Image(settings)' \/ \E v \in Thread : Saving(v)'
        BY <4>3, <4>4
      <4> QED BY <4>7, <4>8 DEF SavedInv
    <3> QED BY <3>1, <3>2
  <2>3. BootInv'
    <3>0. /\ \A y \in {x} \cup {} : ~(y.op = "write" /\ y.arg.name = "ram")
          /\ Do("save", "ram") \notin {} /\ Do("ram", 0) \notin {x}
      BY <1>3, <1>9, <1>11
    <3>1. CASE "boot" \notin excuses => ram # NoFile
      BY <1>2, <1>4, <1>5, <2>1, <3>0, <3>1, BootFrame DEF Parts
    <3>2. CASE "boot" \notin excuses /\ ram = NoFile
      <4>1. t = Starter /\ ~up /\ R = StageSet(2)
        <5>1. x # Do("save", "ram")
          BY <1>9
        <5> QED BY <1>1, <1>3, <3>2, <5>1, SavePlaceRam
      <4>2. Ahead("ram") /\ Ahead("ram")' /\ ~Ahead("load")
        <5>1. 2 \in 2 .. 6 /\ 2 <= 2
          OBVIOUS
        <5>2. Replaces(Starter, x, {}, StageSet(2))
          BY <1>1, <4>1
        <5> QED BY <1>9, <5>1, <5>2, StageAhead
      <4>3. /\ Loaded(opt).state = atBoot
            /\ settings.usable /\ settings.state = atBoot
            /\ Keeps(image)
        <5>1. x \in Writes(Starter, "opt")
          BY <1>3, <1>4, <1>11, <4>1 DEF Writes
        <5> QED BY <1>3, <1>4, <3>2, <4>2, <5>1 DEF Parts, BootInv
      <4>4. Loaded(opt').state = atBoot'
        <5>1. opt' = opt \/ opt' = image
          BY <1>1, <1>11 DEF Write, files
        <5>2. image \in File
          BY <1>1 DEF File
        <5>3. Loaded(image).state = atBoot
          BY <4>3, <5>2, LoadedFacts DEF Keeps
        <5> QED BY <1>2, <4>3, <5>1, <5>3
      <4>5. Loaded(opt)'.state = Loaded(opt').state
        BY DEF Loaded
      <4>6. Do("save", "ram") \notin Work(Starter)' \/ ram' = NoFile
        BY <2>1, <3>2
      <4>7. ram' = NoFile /\ ~Valid(ram') /\ ram' # BadFile
        BY <2>1, <3>2, ValidFacts, RepairFacts
      <4>8. settings'.usable /\ settings'.state = atBoot' /\ ~up'
        BY <1>2, <4>1, <4>3
      <4> QED BY <1>10, <4>1, <4>2, <4>4, <4>5, <4>6, <4>7, <4>8 DEF BootInv
    <3> QED BY <3>1, <3>2
  <2> QED BY <1>6, <2>2, <2>3 DEF Parts
<1>12. CASE name = "ram"
  <2>1. t = Starter /\ ~up /\ R = StageSet(3)
    BY <1>1, <1>12 DEF SavePlace
  <2>2. SavedInv'
    <3>1. opt' = opt
      BY <1>1, <1>12 DEF Write, files
    <3>2. \A y \in {x} \cup {} : ~(y.op = "write" /\ y.arg.name = "opt")
      BY <1>3, <1>12
    <3>3. \A e \in {"crossed", "unsaved"} : e \in excuses => e \in excuses'
      BY <1>1, <1>12
    <3> QED BY <1>2, <1>4, <1>8, <1>9, <3>1, <3>2, <3>3, SavedFrame DEF Parts
  <2>3. BootInv'
    <3>0. SUFFICES ASSUME "boot" \notin excuses'
                   PROVE  BootInv'
      BY DEF BootInv
    <3>1. ram' = image /\ "boot" \notin excuses
      BY <1>1, <1>5, <1>12, <3>0 DEF Write, Lost
    <3>2. x \in Writes(Starter, "ram")
      BY <1>3, <1>4, <1>12, <2>1 DEF Writes
    <3>3. Keeps(image)
      BY <1>3, <3>1, <3>2 DEF Parts, BootInv
    <3>4. Valid(ram') /\ FromPlatform(ram'.state) = atBoot'
      BY <1>2, <3>1, <3>3 DEF Keeps
    <3>5. ram' # NoFile /\ ram' # BadFile /\ Keeps(ram)'
      BY <3>4 DEF Valid, Keeps
    <3>6. settings'.before = atBoot'
      <4>1. ~Ahead("ram")
        <5>1. 3 \in 2 .. 6 /\ ~(3 <= 2)
          OBVIOUS
        <5>2. Replaces(Starter, x, {}, StageSet(3))
          BY <1>1, <2>1
        <5> QED BY <1>9, <5>1, <5>2, StageAhead
      <4> QED BY <1>2, <1>4, <3>1, <4>1 DEF Parts, BootInv, Down
    <3>7. Do("save", "ram") \notin Work(Starter)'
      BY <1>1, <1>4, <2>1 DEF NoWrites
    <3> QED BY <1>10, <2>1, <3>5, <3>6, <3>7 DEF BootInv
  <2> QED BY <1>6, <2>2, <2>3 DEF Parts
<1> QED BY <1>7, <1>11, <1>12

\* Before the stage of init the start has still to bring all together.
LEMMA EarlyStage ==
  ASSUME NEW n \in 2 .. 4, NEW x, NEW B, Replaces(Starter, x, B, StageSet(n)),
         ShapeInv', ~up'
  PROVE  PlatformInv' /\ StandbyInv' /\ AwakeInv'
<1>1. n \in 2 .. 6 /\ n <= 4 /\ n <= 5
  OBVIOUS
<1>2. Ahead("sourcesAtStart")' /\ Ahead("init")'
  BY <1>1, StageAhead
<1>3. PlatformInv'
  BY <1>2, PlatformAhead
<1>4. StandbyInv'
  BY <1>2, StandbyAhead
<1>5. AwakeInv'
  BY NotAwake
<1> QED BY <1>3, <1>4, <1>5

\* While the plugin starts only its thread writes, and what it has just begun.
LEMMA StageWrites ==
  ASSUME ShapeInv, ~up, NEW n \in 2 .. 6, NEW x, NEW B,
         Replaces(Starter, x, B, StageSet(n))
  PROVE  /\ \A u \in Thread : \A name : \A y \in Writes(u, name)' :
              u = Starter /\ y \in B
         /\ \A y \in B : y.op = "write" => y \in Writes(Starter, y.arg.name)'
<1>1. \A y \in Work(Starter)' : y \in B \/ y.op # "write"
  BY StageAhead
<1>2. \A u \in Thread : u # Starter => Work(u)' = {}
  BY NotUp DEF Replaces
<1>3. \A y \in B : y \in Work(Starter)'
  BY StarterIsThread, ReplacesFacts
<1> QED BY <1>1, <1>2, <1>3 DEF Writes

LEMMA RewriteFacts ==
  \A name : /\ Rewritten(name).op = "write" /\ Rewritten(name).arg.name = name
            /\ Rewritten(name).arg.image = Image(Loaded(BadFile))
BY DoFacts DEF Rewritten

LEMMA LoadSettingsParts ==
  ASSUME ShapeInv, TypeInv, Parts, NEW t \in Thread, LoadSettings(t)
  PROVE  Parts'
<1>1. PICK B :
        /\ t = Starter /\ ~up /\ ~up'
        /\ Replaces(t, Do("load", 0), B, StageSet(2))
        /\ \/ /\ settings' = Loaded(opt) /\ Write("opt", Created("opt"))
              /\ excuses' = excuses
              /\ B = IF Valid(opt) THEN {} ELSE {Rewritten("opt")}
           \/ /\ UNCHANGED files
              /\ excuses' = excuses \cup (IF ram = NoFile THEN {"boot"} ELSE {})
              /\ \/ settings' = NoSettings /\ B = {}
                 \/ settings' = Loaded(BadFile) /\ B = {Rewritten("opt")}
  BY LoadSettingsEffect
<1>2. atBoot' = atBoot
  BY DEF LoadSettings
<1>3. PICK x : x = Do("load", 0)
  OBVIOUS
<1>a. Replaces(Starter, x, B, StageSet(2))
  BY <1>1, <1>3
<1>b. PICK R : R = StageSet(2)
  OBVIOUS
<1>c. Replaces(Starter, x, B, R)
  BY <1>a, <1>b
<1>4. /\ Alters({x}, B) /\ ~Quiet
      /\ Work(Starter) = {x} \cup R /\ Work(Starter)' = B \cup R
  BY <1>c, StarterIsThread, ReplacesFacts
<1>5. B = {} \/ B = {Rewritten("opt")}
  BY <1>1
<1>6. \A y \in B : y.op = "write" /\ y.arg.name = "opt"
                   /\ y.arg.image = Image(Loaded(BadFile))
  BY <1>5, RewriteFacts
<1>7. 2 \in 2 .. 4 /\ 2 \in 2 .. 6 /\ 2 <= 2
  OBVIOUS
<1>8. PlatformInv' /\ StandbyInv' /\ AwakeInv'
  BY <1>1, <1>a, <1>7, LoadSettingsEffect, EarlyStage
<1>9. Ahead("ram")'
  BY <1>a, <1>7, StageAhead
<1>10. /\ \A u \in Thread : \A name : \A y \in Writes(u, name)' : u = Starter /\ y \in B
       /\ \A y \in B : y.op = "write" => y \in Writes(Starter, y.arg.name)'
  BY <1>1, <1>a, <1>7, StageWrites
<1>11. ram' = ram
  BY <1>1 DEF Write, files
<1>12. opt \in File /\ (Valid(opt) => Created("opt") = opt)
       /\ (~Valid(opt) => Created("opt") = BadFile)
  <2>1. opt \in File
    BY DEF TypeInv
  <2>2. Valid(opt) => opt # NoFile
    BY DEF Valid
  <2> QED BY <2>1, <2>2, RepairFacts DEF Created, Content
<1>13. SavedInv'
  <2>1. CASE /\ settings' = Loaded(opt) /\ Write("opt", Created("opt"))
             /\ B = IF Valid(opt) THEN {} ELSE {Rewritten("opt")}
    <3>1. CASE Valid(opt)
      <4>1. opt' = opt /\ Image(settings') = opt /\ B = {}
        BY <1>12, <2>1, <3>1, LoadedFacts DEF Write
      <4>2. Image(settings)' = Image(settings')
        BY DEF Image
      <4>3. \A u \in Thread : Writes(u, "opt")' = {}
        BY <1>10, <4>1
      <4> QED BY <4>1, <4>2, <4>3 DEF SavedInv
    <3>2. CASE ~Valid(opt)
      <4>1. settings' = Loaded(BadFile) /\ B = {Rewritten("opt")}
        BY <1>12, <2>1, <3>2, LoadedFacts
      <4>2. Image(settings)' = Image(Loaded(BadFile))
        BY <4>1 DEF Image
      <4>3. \A u \in Thread : \A y \in Writes(u, "opt")' :
              y.arg.image = Image(settings)'
        BY <1>6, <1>10, <4>2
      <4>4. Rewritten("opt") \in Writes(Starter, "opt")'
        BY <1>10, <4>1, RewriteFacts
      <4> QED BY <4>3, <4>4, StarterIsThread DEF SavedInv
    <3> QED BY <3>1, <3>2
  <2>2. CASE settings' = NoSettings /\ B = {}
    <3>1. settings'.usable = FALSE
      BY <2>2, NoSettingsTyped
    <3>2. \A u \in Thread : Writes(u, "opt")' = {}
      BY <1>10, <2>2
    <3> QED BY <3>1, <3>2 DEF SavedInv
  <2>3. CASE settings' = Loaded(BadFile) /\ B = {Rewritten("opt")}
    <3>1. Image(settings)' = Image(Loaded(BadFile))
      BY <2>3 DEF Image
    <3>2. \A u \in Thread : \A y \in Writes(u, "opt")' :
            y.arg.image = Image(settings)'
      BY <1>6, <1>10, <3>1
    <3>3. Rewritten("opt") \in Writes(Starter, "opt")'
      BY <1>10, <2>3, RewriteFacts
    <3> QED BY <3>2, <3>3, StarterIsThread DEF SavedInv
  <2> QED BY <1>1, <2>1, <2>2, <2>3
<1>14. BootInv'
  <2>0. SUFFICES ASSUME "boot" \notin excuses'
                 PROVE  BootInv'
    BY DEF BootInv
  <2>a. "boot" \notin excuses
    BY <1>1, <2>0
  <2>b. /\ Do("save", "ram") \notin B
        /\ \A y \in {x} \cup B : ~(y.op = "write" /\ y.arg.name = "ram")
    BY <1>3, <1>6, DoFacts
  <2>1. CASE ram # NoFile
    BY <1>2, <1>4, <1>9, <1>11, <2>a, <2>b, <2>1, BootFrame DEF Parts
  <2>2. CASE ram = NoFile
    <3>1. /\ settings' = Loaded(opt) /\ Write("opt", Created("opt"))
          /\ B = IF Valid(opt) THEN {} ELSE {Rewritten("opt")}
      BY <1>1, <2>0, <2>2
    <3>2. Loaded(opt).state = atBoot
      BY <2>2, <2>a DEF Parts, BootInv
    <3>3. settings'.usable /\ settings'.state = atBoot'
      BY <1>2, <1>12, <3>1, <3>2, LoadedFacts
    <3>4. Loaded(opt') = Loaded(opt)
      <4>1. opt' = Created("opt")
        BY <3>1 DEF Write
      <4> QED BY <1>12, <4>1, LoadedFacts
    <3>5. Loaded(opt)'.state = atBoot'
      <4>1. Loaded(opt)' = Loaded(opt')
        BY DEF Loaded
      <4> QED BY <1>2, <3>2, <3>4, <4>1
    <3>6. \A y \in Writes(Starter, "opt")' : Keeps(y.arg.image)'
      <4>1. ASSUME NEW y \in Writes(Starter, "opt")'
            PROVE  Keeps(y.arg.image)'
        <5>1. y \in B /\ ~Valid(opt)
          BY <1>10, <3>1, <4>1, StarterIsThread
        <5>2. y.arg.image = Image(Loaded(BadFile)) /\ atBoot' = "ON"
          BY <1>2, <1>6, <1>12, <3>2, <5>1, LoadedFacts
        <5>3. Valid(y.arg.image) /\ FromPlatform(y.arg.image.state) = atBoot'
          BY <5>2, RepairFacts, ValidFacts, PlatformFacts
        <5> QED BY <5>3 DEF Keeps
      <4> QED BY <4>1
    <3>7. ram' = NoFile /\ ~Valid(ram') /\ ram' # BadFile
      BY <1>11, <2>2, ValidFacts, RepairFacts
    <3>8. \A y \in Writes(Starter, "ram")' : FALSE
      <4>1. ASSUME NEW y \in Writes(Starter, "ram")'
            PROVE  FALSE
        <5>1. y \in B /\ y.arg.name = "ram"
          BY <1>10, StarterIsThread DEF Writes
        <5> QED BY <1>6, <5>1
      <4> QED BY <4>1
    <3> QED BY <1>1, <1>9, <3>3, <3>5, <3>6, <3>7, <3>8 DEF BootInv
  <2> QED BY <2>1, <2>2
<1> QED BY <1>8, <1>13, <1>14 DEF Parts

LEMMA LoadRamParts ==
  ASSUME ShapeInv, TypeInv, Parts, NEW t \in Thread, LoadRam(t)
  PROVE  Parts'
<1>1. PICK B, before :
        /\ t = Starter /\ ~up /\ ~up'
        /\ Replaces(t, Do("ram", 0), B, StageSet(3))
        /\ settings' = [settings EXCEPT !.before = before]
        /\ \/ /\ ram = NoFile /\ before = settings.state
              /\ B = {Do("save", "ram")} /\ excuses' = excuses
           \/ /\ ram # NoFile /\ before = Loaded(ram).state
              /\ B = IF Valid(ram) THEN {} ELSE {Rewritten("ram")}
              /\ excuses' = excuses
           \/ /\ ram # NoFile /\ B \subseteq {Rewritten("ram")}
              /\ excuses' = excuses \cup {"boot"}
  BY LoadRamEffect
<1>2. UNCHANGED <<opt, ram, atBoot>>
  BY DEF LoadRam, files
<1>3. PICK x : x = Do("ram", 0)
  OBVIOUS
<1>a. Replaces(Starter, x, B, StageSet(3))
  BY <1>1, <1>3
<1>b. PICK R : R = StageSet(3)
  OBVIOUS
<1>c. Replaces(Starter, x, B, R)
  BY <1>a, <1>b
<1>4. /\ Alters({x}, B) /\ ~Quiet
      /\ Work(Starter) = {x} \cup R /\ Work(Starter)' = B \cup R
  BY <1>c, StarterIsThread, ReplacesFacts
<1>5. 3 \in 2 .. 4 /\ 3 \in 2 .. 6 /\ ~(3 <= 2)
  OBVIOUS
<1>6. B = {} \/ B = {Do("save", "ram")} \/ B = {Rewritten("ram")}
  BY <1>1
<1>7. \A y \in B : /\ y.op \in {"save", "write"} /\ y.op # "state"
                   /\ ~(y.op = "write" /\ y.arg.name = "opt")
  BY <1>6, RewriteFacts, DoFacts
<1>8. PlatformInv' /\ StandbyInv' /\ AwakeInv'
  BY <1>1, <1>a, <1>5, LoadRamEffect, EarlyStage
<1>9. x.op = "ram"
  BY <1>3, DoFacts
<1>10. /\ settings'.usable = settings.usable /\ settings'.state = settings.state
       /\ settings'.timeout = settings.timeout /\ settings'.standby = settings.standby
       /\ settings'.before = before
  BY <1>1 DEF TypeInv, SettingsType
<1>11. SavedInv'
  <2>1. Image(settings)' = Image(settings)
    BY <1>10 DEF Image
  <2>2. Do("save", "opt") \notin {x} /\ Do("load", 0) \notin {x}
    BY <1>9, NotThat
  <2>3. \A y \in {x} \cup B : ~(y.op = "write" /\ y.arg.name = "opt")
    BY <1>7, <1>9
  <2>4. \A e \in {"crossed", "unsaved"} : e \in excuses => e \in excuses'
    BY <1>1
  <2> QED BY <1>2, <1>4, <1>10, <2>1, <2>2, <2>3, <2>4, SavedFrame DEF Parts
<1>12. BootInv'
  <2>0. SUFFICES ASSUME "boot" \notin excuses'
                 PROVE  BootInv'
    BY DEF BootInv
  <2>a. "boot" \notin excuses
    BY <1>1, <2>0
  <2>b. ~Ahead("load")
    BY <1>a, <1>5, <1>9, NotThat, StageAhead
  <2>c. /\ \A y \in Work(Starter)' : y \in B \/ y.op \notin {"write", "save"}
        /\ \A y \in Work(Starter) : y = x \/ y.op \notin {"write", "save"}
    BY <1>a, <1>5, StageAhead
  <2>1. CASE ram = NoFile
    <3>1. before = settings.state /\ B = {Do("save", "ram")}
      BY <1>1, <2>1
    <3>2. /\ Loaded(opt).state = atBoot
          /\ settings.usable /\ settings.state = atBoot
      BY <1>4, <2>1, <2>a, <2>b DEF Parts, BootInv
    <3>3. \A y \in Work(Starter)' : y.op # "write"
      BY <2>c, <3>1, DoFacts
    <3>4. \A name : Writes(Starter, name)' = {}
      BY <3>3 DEF Writes
    <3>5. Do("save", "ram") \in Work(Starter)'
      BY <1>4, <3>1
    <3>6. ram' = NoFile /\ ~Valid(ram') /\ ram' # BadFile
      BY <1>2, <2>1, ValidFacts, RepairFacts
    <3>7. Loaded(opt)'.state = atBoot'
      <4>1. Loaded(opt)' = Loaded(opt)
        BY <1>2 DEF Loaded
      <4> QED BY <1>2, <3>2, <4>1
    <3>8. settings'.usable /\ settings'.state = atBoot' /\ settings'.before = atBoot'
      BY <1>2, <1>10, <3>1, <3>2
    <3> QED BY <1>1, <3>4, <3>5, <3>6, <3>7, <3>8 DEF BootInv
  <2>2. CASE ram # NoFile
    <3>1. before = Loaded(ram).state /\ B = IF Valid(ram) THEN {} ELSE {Rewritten("ram")}
      BY <1>1, <2>0, <2>2
    <3>2. Writes(Starter, "ram") = {}
      BY <1>9, <2>c DEF Writes
    <3>3. /\ ram # BadFile /\ (Valid(ram) => Keeps(ram))
      BY <2>2, <2>a, <3>2 DEF Parts, BootInv
    <3>4. Valid(ram)
      BY <2>2, <3>3 DEF Valid
    <3>5. Loaded(ram).state = FromPlatform(ram.state) /\ FromPlatform(ram.state) = atBoot
      BY <3>3, <3>4, LoadedFacts DEF TypeInv, Keeps
    <3>6. Keeps(ram)' /\ Valid(ram') /\ ram' # BadFile /\ ram' # NoFile
      BY <1>2, <2>2, <3>3, <3>4, <3>5 DEF Keeps
    <3>7. \A y \in Work(Starter)' : y.op \notin {"write", "save"}
      BY <2>c, <3>1, <3>4
    <3>8. \A name : Writes(Starter, name)' = {}
      BY <3>7 DEF Writes
    <3>9. Do("save", "ram") \notin Work(Starter)'
      BY <3>7, DoFacts
    <3>10. settings'.before = atBoot'
      BY <1>2, <1>10, <3>1, <3>5
    <3> QED BY <3>6, <3>8, <3>9, <3>10 DEF BootInv
  <2> QED BY <2>1, <2>2
<1> QED BY <1>8, <1>11, <1>12 DEF Parts

LEMMA LateBoot ==
  ASSUME ShapeInv, Parts, NEW n \in 4 .. 6, NEW x,
         x.op \in {"standbyBuild", "sourcesAtStart", "init"},
         NEW B, B \subseteq {Do("save", "opt")},
         Replaces(Starter, x, B, StageSet(n)),
         ram' = ram, atBoot' = atBoot, settings'.before = settings.before,
         "boot" \in excuses => "boot" \in excuses'
  PROVE  BootInv'
<1>1. n \in 2 .. 6 /\ ~(n <= 2)
  OBVIOUS
<1>2. \A op \in {"load", "ram", "save"} : \A arg : x # Do(op, arg)
  BY NotThat
<1>3. Alters({x}, B) /\ ~Quiet
  BY StarterIsThread, ReplacesFacts
<1>4. ~Ahead("ram")
  BY <1>1, <1>2, StageAhead
<1>5. Do("save", "ram") \notin Work(Starter)
  <2>1. \A y \in Work(Starter) : y = x \/ y.op # "save"
    BY <1>1, StageAhead
  <2> QED BY <1>2, <2>1, DoFacts
<1>6. "boot" \notin excuses => ram # NoFile
  BY <1>3, <1>4, <1>5, RamThere DEF Parts
<1>7. /\ Do("save", "ram") \notin B
      /\ \A y \in {x} \cup B : ~(y.op = "write" /\ y.arg.name = "ram")
      /\ Do("ram", 0) \notin {x}
  BY <1>2, DoFacts
<1> QED BY <1>3, <1>6, <1>7, BootFrame DEF Parts

LEMMA LateSaved ==
  ASSUME Parts, NEW x, x.op \in {"standbyBuild", "sourcesAtStart", "init", "started"},
         Alters({x}, {}), opt' = opt, settings' = settings,
         \A e \in {"crossed", "unsaved"} : e \in excuses => e \in excuses'
  PROVE  SavedInv'
<1>1. \A op \in {"load", "save"} : \A arg : x # Do(op, arg)
  BY NotThat
<1>2. Image(settings)' = Image(settings)
  BY DEF Image
<1>3. \A y \in {x} \cup {} : ~(y.op = "write" /\ y.arg.name = "opt")
  OBVIOUS
<1> QED BY <1>1, <1>2, <1>3, SavedFrame DEF Parts

LEMMA StandbyBuildParts ==
  ASSUME ShapeInv, TypeInv, Parts, NEW t \in Thread, BootToStandby(t)
  PROVE  Parts'
<1>1. PICK x, B, n :
        /\ t = Starter /\ ~up /\ ~up'
        /\ x = Do("standbyBuild", 0) /\ B = {} /\ n = 4
        /\ Replaces(Starter, x, B, StageSet(n))
  BY StandbyBuildEffect
<1>2. /\ UNCHANGED <<opt, ram, atBoot>>
      /\ \/ settings' = settings /\ excuses' = excuses
         \/ /\ settings' = [settings EXCEPT !.state = "STANDBY"]
            /\ excuses' = excuses \cup {"unsaved"}
  BY DEF BootToStandby, files
<1>3. settings'.before = settings.before
  BY <1>2 DEF TypeInv, SettingsType
<1>4. x.op = "standbyBuild"
  BY <1>1, DoFacts
<1>5. n \in 2 .. 4 /\ n \in 2 .. 6 /\ n \in 4 .. 6
  BY <1>1
<1>6. PlatformInv' /\ StandbyInv' /\ AwakeInv'
  BY <1>1, <1>5, StandbyBuildEffect, EarlyStage
<1>7. BootInv'
  BY <1>1, <1>2, <1>3, <1>4, <1>5, LateBoot
<1>8. Alters({x}, {})
  BY <1>1, StarterIsThread, ReplacesFacts
<1>9. SavedInv'
  <2>1. CASE settings' = settings /\ excuses' = excuses
    BY <1>2, <1>4, <1>8, <2>1, LateSaved
  <2>2. CASE excuses' = excuses \cup {"unsaved"}
    <3>1. \A u \in Thread : Writes(u, "opt")' = {}
      BY <1>1, <1>5, StageWrites
    <3> QED BY <2>2, <3>1 DEF SavedInv
  <2> QED BY <1>2, <2>1, <2>2
<1> QED BY <1>6, <1>7, <1>9 DEF Parts

LEMMA SourcesAtStartParts ==
  ASSUME ShapeInv, TypeInv, Parts, NEW t \in Thread, SourcesAtStart(t)
  PROVE  Parts'
<1>1. PICK x, B, n :
        /\ t = Starter /\ ~up /\ ~up'
        /\ x = Do("sourcesAtStart", 0) /\ B = {} /\ n = 5
        /\ Replaces(Starter, x, B, StageSet(n))
  BY SourcesAtStartEffect
<1>2. UNCHANGED <<opt, ram, settings, atBoot>>
  BY DEF SourcesAtStart, files
<1>4. x.op = "sourcesAtStart"
  BY <1>1, DoFacts
<1>5. n \in 2 .. 6 /\ n \in 4 .. 6 /\ n <= 5
  BY <1>1
<1>6. PICK failed \in BOOLEAN : SetSources(Both(settings.standby), failed)
  BY DEF SourcesAtStart
<1>7. settings.standby \in BOOLEAN
  BY DEF TypeInv, SettingsType
<1>8. Both(settings.standby) \in [Sources -> BOOLEAN]
  BY <1>7, BothFacts
<1>9. /\ \A e : e # "source" => (e \in excuses' <=> e \in excuses)
      /\ "source" \in excuses' \/ hw'.sources = Both(settings.standby)
  <2>1. hw \in Platform /\ excuses \subseteq Excuse /\ Sources \in SUBSET Sources
    BY TypeFacts
  <2> QED BY <1>6, <1>8, <2>1, SourcesSet
<1>10. Alters({x}, {})
  BY <1>1, StarterIsThread, ReplacesFacts
<1>11. SavedInv'
  BY <1>2, <1>4, <1>9, <1>10, LateSaved
<1>12. BootInv'
  BY <1>1, <1>2, <1>4, <1>5, <1>9, LateBoot
<1>13. Ahead("init")' /\ ShapeInv'
  BY <1>1, <1>5, StageAhead, SourcesAtStartEffect
<1>14. PlatformInv'
  BY <1>1, <1>13, PlatformAhead
<1>15. StandbyInv'
  <2>1. "source" \in excuses' \/ settings'.standby = hw'.sources["WIFI"]
    BY <1>2, <1>7, <1>9, BothFacts
  <2> QED BY <2>1 DEF StandbyInv
<1>16. AwakeInv'
  BY <1>1, <1>13, NotAwake
<1> QED BY <1>11, <1>12, <1>14, <1>15, <1>16 DEF Parts

LEMMA initParts ==
  ASSUME ShapeInv, TypeInv, Parts, NEW t \in Thread, init(t)
  PROVE  Parts'
<1>1. PICK x, n, save :
        /\ t = Starter /\ ~up /\ ~up'
        /\ x = Do("init", 0) /\ n = 6 /\ save = Do("save", "opt")
        /\ \/ /\ Replaces(Starter, x, {}, StageSet(n))
              /\ settings' = settings /\ hw' = hw
              /\ \/ excuses' = excuses \cup {"blind"}
                 \/ /\ excuses' = excuses \ {"blind"}
                    /\ FromPlatform(hw.state) = settings.state
           \/ /\ Replaces(Starter, x, {save}, StageSet(n))
              /\ excuses' = excuses \ {"blind"}
              /\ \/ /\ hw' = [hw EXCEPT !.state = ToPlatform(settings.state)]
                    /\ settings' = settings
                 \/ /\ settings' = [settings EXCEPT !.state = FromPlatform(hw.state)]
                    /\ hw' = hw
  BY initEffect
<1>2. UNCHANGED <<opt, ram, atBoot>>
  BY DEF init, files
<1>3. x.op = "init" /\ save.op = "save"
  BY <1>1, DoFacts
<1>4. n \in 2 .. 6 /\ n \in 4 .. 6
  BY <1>1
<1>5. PICK B : /\ Replaces(Starter, x, B, StageSet(n)) /\ B \subseteq {save}
               /\ B = {} => settings' = settings
  BY <1>1
<1>6. /\ settings'.before = settings.before /\ settings'.standby = settings.standby
      /\ hw'.sources = hw.sources
      /\ \A e : e # "blind" => (e \in excuses' <=> e \in excuses)
  BY <1>1 DEF TypeInv, SettingsType
<1>7. PICK R : R = StageSet(n)
  OBVIOUS
<1>8. Alters({x}, B) /\ \A y \in B : y \in Work(Starter)'
  <2>1. Replaces(Starter, x, B, R)
    BY <1>5, <1>7
  <2> QED BY <2>1, StarterIsThread, ReplacesFacts
<1>9. SavedInv'
  <2>1. CASE B = {}
    BY <1>2, <1>3, <1>5, <1>6, <1>8, <2>1, LateSaved
  <2>2. CASE B # {}
    <3>1. Do("save", "opt") \in Work(Starter)'
      BY <1>1, <1>5, <1>8, <2>2
    <3> QED BY <3>1, StarterIsThread, StillSaving DEF Saving
  <2> QED BY <2>1, <2>2
<1>10. BootInv'
  BY <1>1, <1>2, <1>3, <1>4, <1>5, <1>6, LateBoot
<1>11. ShapeInv' /\ \A u \in Thread : \A y \in Work(u)' : y.op # "state"
  <2>1. ShapeInv'
    BY initEffect
  <2>2. NoHandler'
    BY <1>1, <2>1, BeforeUpNext
  <2> QED BY <2>1, <2>2 DEF NoHandler
<1>12. PlatformInv'
  <2>1. settings.state \in States /\ hw.state \in Names \cup {"MAX"}
    BY DEF TypeInv, SettingsType
  <2>2. FromPlatform(ToPlatform(settings.state)) = settings.state
    BY <2>1, PlatformFacts
  <2>3. "blind" \in excuses' \/ FromPlatform(hw'.state) = settings'.state
    BY <1>1, <2>2 DEF TypeInv, SettingsType
  <2> QED BY <1>11, <2>3 DEF PlatformInv
<1>13. StandbyInv'
  <2>1. Do("sourcesAtStart", 0) \notin {x}
    BY <1>3, NotThat
  <2>2. \A y \in {x} : y.op \notin {"readBack", "compare", "standby"}
    BY <1>3
  <2> QED BY <1>6, <1>8, <2>1, <2>2, StandbyFrame DEF Parts
<1>14. AwakeInv'
  BY <1>1, <1>11, NotAwake
<1> QED BY <1>9, <1>10, <1>12, <1>13, <1>14 DEF Parts

LEMMA StartedParts ==
  ASSUME ShapeInv, TypeInv, Parts, NEW t \in Thread, Started(t)
  PROVE  Parts'
<1>1. PICK x : /\ t = Starter /\ ~up /\ up' /\ x = Do("started", 0)
               /\ Replaces(t, x, {}, {}) /\ Work(Starter) = {x}
  BY StartedEffect
<1>2. /\ UNCHANGED <<opt, ram, settings, hw, wakeups, atBoot, excuses>>
      /\ stamp' = IF settings.state = "ON" THEN wakeups ELSE stamp
  BY DEF Started, files
<1>3. x.op = "started"
  BY <1>1, DoFacts
<1>4. \A op \in {"ram", "init", "sourcesAtStart", "save", "load", "state"} :
        \A arg : Do(op, arg) # x
  BY <1>3, NotThat
<1>5. Alters({x}, {}) /\ ~Quiet
  BY <1>1, ReplacesFacts
<1>6. SavedInv'
  BY <1>2, <1>3, <1>5, LateSaved
<1>7. BootInv'
  <2>1. "boot" \notin excuses => ram # NoFile
    BY <1>1, <1>4, <1>5, RamThere DEF Parts, Ahead
  <2>2. /\ Do("save", "ram") \notin {} /\ Do("ram", 0) \notin {x}
        /\ \A y \in {x} \cup {} : ~(y.op = "write" /\ y.arg.name = "ram")
    BY <1>3, <1>4
  <2> QED BY <1>2, <1>5, <2>1, <2>2, BootFrame DEF Parts
<1>8. PlatformInv'
  <2>1. /\ Do("init", 0) \notin {x}
        /\ \A y \in {x} \cup {} : y.op # "state"
    BY <1>3, <1>4
  <2> QED BY <1>2, <1>5, <2>1, PlatformFrame DEF Parts
<1>9. StandbyInv'
  <2>1. /\ Do("sourcesAtStart", 0) \notin {x}
        /\ \A y \in {x} : y.op \notin {"readBack", "compare", "standby"}
    BY <1>3, <1>4
  <2> QED BY <1>2, <1>5, <2>1, StandbyFrame DEF Parts
<1>10. AwakeInv'
  <2>1. Work(t)' = {}
    BY <1>1 DEF Replaces
  <2>2. \A u \in Thread : Work(u)' = {}
    BY <1>1, <2>1, NotUp DEF Replaces
  <2>3. \A u \in Thread : ~Handling(u)'
    BY <2>2, HandlingNext
  <2> QED BY <1>2, <2>2, <2>3 DEF AwakeInv
<1> QED BY <1>6, <1>7, <1>8, <1>9, <1>10 DEF Parts

\* While the plugin is up, a step that neither saves nor writes.
LEMMA UpFrames ==
  ASSUME Parts, up, NEW X, NEW B, Alters(X, B),
         \A y \in X : y.op \notin {"save", "write", "load", "ram"},
         \A y \in B : y.op \notin {"write"} /\ y # Do("save", "ram"),
         UNCHANGED <<opt, ram, atBoot>>,
         settings'.before = settings.before,
         \A e \in {"crossed", "unsaved", "boot"} : e \in excuses => e \in excuses'
  PROVE  /\ BootInv'
         /\ settings' = settings => SavedInv'
<1>1. /\ \A op \in {"save", "load", "ram"} : \A arg : Do(op, arg) \notin X
      /\ \A y \in X \cup B : y.op # "write"
  BY DoFacts
<1>2. BootInv'
  <2>1. "boot" \notin excuses => ram # NoFile
    BY DEF Parts, BootInv
  <2>2. Do("save", "ram") \notin B
    OBVIOUS
  <2> QED BY <1>1, <2>1, <2>2, BootFrame DEF Parts
<1>3. settings' = settings => SavedInv'
  <2>1. settings' = settings => Image(settings)' = Image(settings)
    BY DEF Image
  <2> QED BY <1>1, <2>1, SavedFrame DEF Parts
<1> QED BY <1>2, <1>3

\* A handler has set the state and has to store it.
LEMMA NowStoring ==
  ASSUME TypeInv, Parts, up, NEW t \in Thread, NEW change \in Change, NEW A,
         Replaces(t, Do("platform", change),
                  {Do("state", change.state), Do("save", "opt")} \cup A, {}),
         \A y \in A : y.op \in {"wakeup", "activate"},
         change.state = "ON" /\ change.from # "ON" => Do("wakeup", 0) \in A,
         UNCHANGED <<opt, ram, up, settings, wakeups, stamp, atBoot>>,
         hw' = [hw EXCEPT !.state = ToPlatform(change.state)],
         excuses' = IF \E u \in Thread \ {t} : Storing(u)
                    THEN excuses \cup {"raced"} ELSE excuses \ {"raced"}
  PROVE  Parts'
<1>1. PICK x, s, save, B :
        /\ x = Do("platform", change) /\ x.op = "platform" /\ x.arg = change
        /\ s = Do("state", change.state) /\ s.op = "state" /\ s.arg = change.state
        /\ save = Do("save", "opt") /\ save.op = "save" /\ save.arg = "opt"
        /\ B = {s, save} \cup A
  BY DoFacts
<1>2. Replaces(t, x, B, {})
  BY <1>1
<1>3. /\ Alters({x}, B) /\ x \in Work(t)
      /\ Work(t)' = B /\ \A u \in Thread \ {t} : Work(u)' = Work(u)
  <2>1. Work(t)' = B \cup {} /\ Alters({x}, B) /\ x \in Work(t)
    BY <1>2, ReplacesFacts
  <2> QED BY <1>2, <2>1 DEF Replaces
<1>4. change.state \in States
  BY DEF Change
<1>5. \A e : e # "raced" => (e \in excuses' <=> e \in excuses)
  OBVIOUS
<1>6. SavedInv'
  BY <1>1, <1>3, StillSaving DEF Saving
<1>7. BootInv'
  <2>1. \A y \in B : y.op # "write" /\ y # Do("save", "ram")
    BY <1>1, DoFacts
  <2> QED BY <1>1, <1>3, <1>5, <2>1, UpFrames
<1>8. PlatformInv'
  <2>1. SUFFICES ASSUME "raced" \notin excuses'
                 PROVE  PlatformInv'
    BY DEF PlatformInv
  <2>2. hw'.state = ToPlatform(change.state)
    BY DEF TypeInv
  <2>3. FromPlatform(hw'.state) = change.state
    BY <1>4, <2>2, PlatformFacts
  <2>4. \A u \in Thread \ {t} : ~Storing(u)
    BY <2>1
  <2>5. \A u \in Thread : \A y \in Work(u)' :
          y.op = "state" => y.arg = FromPlatform(hw'.state)
    BY <1>1, <1>3, <2>3, <2>4, HandlingIs
  <2>6. Do("state", FromPlatform(hw'.state)) \in Work(t)'
    BY <1>1, <1>3, <2>3
  <2> QED BY <2>5, <2>6 DEF PlatformInv
<1>9. StandbyInv'
  <2>1. /\ Do("sourcesAtStart", 0) \notin {x}
        /\ \A y \in {x} : y.op \notin {"readBack", "compare", "standby"}
    BY <1>1, NotThat
  <2>2. hw'.sources = hw.sources
    BY DEF TypeInv
  <2> QED BY <1>3, <1>5, <2>1, <2>2, StandbyFrame DEF Parts
<1>10. AwakeInv'
  <2>1. SUFFICES ASSUME "stale" \notin excuses'
                 PROVE  AwakeInv'
    BY DEF AwakeInv
  <2>2. "stale" \notin excuses
    BY <1>5, <2>1
  <2>3. change.from = settings.state
    BY <1>1, <1>3, <2>2 DEF Parts, AwakeInv
  <2>4. \A u \in Thread \ {t} : ~Handling(u)
    BY <1>1, <1>3, <2>2, HandlingIs DEF Parts, AwakeInv
  <2>5. \A u \in Thread \ {t} : ~Handling(u)'
    BY <1>3, <2>4, HandlingIs, HandlingNext
  <2>6. \A u \in Thread \ {t} : \A y \in Work(u)' : y.op \notin {"platform", "state"}
    BY <2>5, HandlingNext
  <2>7. Do("wakeup", 0) # x
    BY <1>1, NotThat
  <2>8. up' /\ settings'.state = "ON" =>
          stamp' = wakeups' \/ \E u \in Thread : Do("wakeup", 0) \in Work(u)'
    BY <1>3, <2>2, <2>7 DEF Parts, AwakeInv, Alters
  <2>9. \A u \in Thread : \A y \in Work(u)' :
          y.op = "platform" => y.arg.from = settings'.state
    BY <1>1, <1>3, <2>6
  <2>10. \A u \in Thread : Do("state", "ON") \in Work(u)' /\ settings'.state # "ON"
           => Do("wakeup", 0) \in Work(u)'
    <3>1. Do("state", "ON").op = "state" /\ Do("state", "ON").arg = "ON"
      BY DoFacts
    <3>2. Do("state", "ON") \in Work(t)' => change.state = "ON"
      BY <1>1, <1>3, <3>1
    <3> QED BY <1>1, <1>3, <2>3, <2>6, <3>1, <3>2
  <2>11. \A u, v \in Thread : Handling(u)' /\ Handling(v)' => u = v
    BY <2>5
  <2> QED BY <2>8, <2>9, <2>10, <2>11 DEF AwakeInv
<1> QED BY <1>6, <1>7, <1>8, <1>9, <1>10 DEF Parts

LEMMA SetPlatformStateParts ==
  ASSUME ShapeInv, TypeInv, Parts, NEW t \in Thread, SetPlatformState(t)
  PROVE  Parts'
<1>1. up /\ UNCHANGED <<opt, ram, up, settings, wakeups, stamp, atBoot>>
  BY SetPlatformStateEffect DEF SetPlatformState, files, counts, wake
<1>2. PICK change \in Change : LET x == Do("platform", change) IN
        \/ Replaces(t, x, {}, {}) /\ UNCHANGED <<hw, excuses>>
        \/ /\ hw' = [hw EXCEPT !.state = ToPlatform(change.state)]
           /\ excuses' = IF \E u \in Thread \ {t} : Storing(u)
                         THEN excuses \cup {"raced"} ELSE excuses \ {"raced"}
           /\ \E A : /\ Replaces(t, x, {Do("state", change.state),
                                         Do("save", "opt")} \cup A, {})
                     /\ \A y \in A : y.op \in {"wakeup", "activate"}
                     /\ change.state = "ON" /\ change.from # "ON"
                          => Do("wakeup", 0) \in A
  BY SetPlatformStateEffect
<1>3. CASE Replaces(t, Do("platform", change), {}, {}) /\ UNCHANGED <<hw, excuses>>
  <2>1. Alters({Do("platform", change)}, {}) /\ Do("platform", change).op = "platform"
    BY <1>3, ReplacesFacts, DoFacts
  <2> QED BY <1>1, <1>3, <2>1, PlainStep
<1>4. CASE ~(Replaces(t, Do("platform", change), {}, {}) /\ UNCHANGED <<hw, excuses>>)
  <2>1. PICK A : /\ Replaces(t, Do("platform", change),
                             {Do("state", change.state), Do("save", "opt")} \cup A, {})
                 /\ \A y \in A : y.op \in {"wakeup", "activate"}
                 /\ change.state = "ON" /\ change.from # "ON"
                      => Do("wakeup", 0) \in A
    BY <1>2, <1>4
  <2> QED BY <1>1, <1>2, <1>4, <2>1, NowStoring
<1> QED BY <1>3, <1>4

LEMMA StoreStateParts ==
  ASSUME ShapeInv, TypeInv, Parts, NEW t \in Thread, StoreState(t)
  PROVE  Parts'
<1>1. PICK state, R :
        /\ state \in States
        /\ t # Starter /\ up /\ state = Arg(t)
        /\ Replaces(t, Do("state", state), {}, R)
        /\ Do("save", "opt") \in R
        /\ \A y \in R : y.op \in {"save", "wakeup", "activate"}
  BY StoreStateEffect
<1>2. PICK x : x = Do("state", state) /\ x.op = "state" /\ x.arg = state
  BY DoFacts
<1>3. /\ UNCHANGED <<opt, ram, up, hw, stamp, atBoot, excuses>>
      /\ settings' = [settings EXCEPT !.state = state]
      /\ wakeups' = IF state = "ON" /\ settings.state # "ON" THEN wakeups + 1
                    ELSE wakeups
  BY <1>1 DEF StoreState, files
<1>4. /\ settings'.state = state /\ settings'.before = settings.before
      /\ settings'.standby = settings.standby
  BY <1>3 DEF TypeInv, SettingsType
<1>5. /\ Alters({x}, {}) /\ x \in Work(t) /\ Work(t)' = R
      /\ \A u \in Thread \ {t} : Work(u)' = Work(u)
  <2>1. Replaces(t, x, {}, R)
    BY <1>1, <1>2
  <2>2. Alters({x}, {}) /\ x \in Work(t) /\ Work(t)' = {} \cup R
    BY <2>1, ReplacesFacts
  <2> QED BY <2>1, <2>2 DEF Replaces
<1>6. SavedInv'
  BY <1>1, <1>5, StillSaving DEF Saving
<1>7. BootInv'
  BY <1>1, <1>2, <1>3, <1>4, <1>5, UpFrames
<1>8. PlatformInv'
  <2>1. SUFFICES ASSUME "raced" \notin excuses'
                 PROVE  PlatformInv'
    BY DEF PlatformInv
  <2>2. \A u \in Thread : \A y \in Work(u) :
          y.op = "state" => y.arg = FromPlatform(hw.state)
    BY <1>3, <2>1 DEF Parts, PlatformInv
  <2>3. state = FromPlatform(hw.state)
    BY <1>2, <1>5, <2>2
  <2>4. \A u \in Thread : \A y \in Work(u)' : y.op = "state" => y \in Work(u)
    BY <1>1, <1>5
  <2> QED BY <1>3, <1>4, <2>2, <2>3, <2>4 DEF PlatformInv
<1>9. StandbyInv'
  <2>1. /\ Do("sourcesAtStart", 0) \notin {x}
        /\ \A y \in {x} : y.op \notin {"readBack", "compare", "standby"}
    BY <1>2, NotThat
  <2> QED BY <1>3, <1>4, <1>5, <2>1, StandbyFrame DEF Parts
<1>10. AwakeInv'
  <2>1. SUFFICES ASSUME "stale" \notin excuses
                 PROVE  AwakeInv'
    BY <1>3 DEF AwakeInv
  <2>2. \A u \in Thread : Do("wakeup", 0) \in Work(u) => Do("wakeup", 0) \in Work(u)'
    <3>1. Do("wakeup", 0) # x
      BY <1>2, NotThat
    <3> QED BY <1>5, <3>1 DEF Alters
  <2>3. \A u \in Thread \ {t} : ~Handling(u)
    BY <1>2, <1>5, <2>1, HandlingIs DEF Parts, AwakeInv
  <2>4. \A u \in Thread : \A y \in Work(u)' : y.op \notin {"platform", "state"}
    BY <1>1, <1>5, <2>3, HandlingIs
  <2>5. \A u \in Thread : ~Handling(u)'
    BY <2>4, HandlingNext
  <2>6. \A u \in Thread : Do("state", "ON") \notin Work(u)'
    BY <2>4, DoFacts
  <2>7. CASE state = "ON" /\ settings.state # "ON"
    <3>1. Do("wakeup", 0) \in Work(t)
      BY <1>2, <1>5, <2>1, <2>7 DEF Parts, AwakeInv
    <3> QED BY <2>2, <2>4, <2>5, <2>6, <3>1 DEF AwakeInv
  <2>8. CASE state = "ON" /\ settings.state = "ON"
    <3>1. stamp = wakeups \/ \E u \in Thread : Do("wakeup", 0) \in Work(u)
      BY <1>1, <2>1, <2>8 DEF Parts, AwakeInv
    <3>2. stamp' = stamp /\ wakeups' = wakeups
      BY <1>3, <2>8
    <3> QED BY <2>2, <2>4, <2>5, <2>6, <3>1, <3>2 DEF AwakeInv
  <2>9. CASE state # "ON"
    BY <1>4, <2>4, <2>5, <2>6, <2>9 DEF AwakeInv
  <2> QED BY <2>7, <2>8, <2>9
<1> QED BY <1>6, <1>7, <1>8, <1>9, <1>10 DEF Parts

LEMMA TakeTimestampParts ==
  ASSUME ShapeInv, TypeInv, Parts, NEW t \in Thread, TakeTimestamp(t)
  PROVE  Parts'
<1>1. up /\ Replaces(t, Do("wakeup", 0), {}, {})
  BY LastEffect
<1>2. PICK x : x = Do("wakeup", 0) /\ x.op = "wakeup"
  BY DoFacts
<1>3. /\ UNCHANGED <<opt, ram, up, settings, hw, wakeups, atBoot>>
      /\ stamp' = wakeups
      /\ \A e : e # "stale" => (e \in excuses' <=> e \in excuses)
      /\ excuses' = IF \E u \in Thread : Handling(u) THEN excuses
                    ELSE excuses \ {"stale"}
  BY DEF TakeTimestamp, files
<1>4. Alters({x}, {})
  BY <1>1, <1>2, ReplacesFacts
<1>5. BootInv' /\ SavedInv'
  BY <1>1, <1>2, <1>3, <1>4, UpFrames
<1>6. PlatformInv'
  <2>1. /\ Do("init", 0) \notin {x}
        /\ \A y \in {x} \cup {} : y.op # "state"
    BY <1>2, NotThat
  <2> QED BY <1>3, <1>4, <2>1, PlatformFrame DEF Parts
<1>7. StandbyInv'
  <2>1. /\ Do("sourcesAtStart", 0) \notin {x}
        /\ \A y \in {x} : y.op \notin {"readBack", "compare", "standby"}
    BY <1>2, NotThat
  <2> QED BY <1>3, <1>4, <2>1, StandbyFrame DEF Parts
<1>8. AwakeInv'
  <2>1. \A u \in Thread : \A y \in Work(u)' : y \in Work(u)
    BY <1>4 DEF Alters
  <2>2. \A u \in Thread : Handling(u)' => Handling(u)
    BY <2>1, HandlingIs, HandlingNext
  <2>3. CASE "stale" \in excuses /\ \E u \in Thread : Handling(u)
    BY <1>3, <2>3 DEF AwakeInv
  <2>4. CASE \A u \in Thread : ~Handling(u)
    <3>1. \A u \in Thread : \A y \in Work(u) : y.op \notin {"platform", "state"}
      BY <2>4, HandlingIs
    <3>2. Do("state", "ON").op = "state"
      BY DoFacts
    <3> QED BY <1>3, <2>1, <2>2, <2>4, <3>1, <3>2 DEF AwakeInv
  <2>5. CASE "stale" \notin excuses
    <3>1. \A u \in Thread : Do("state", "ON") \in Work(u)' =>
            Work(u)' = Work(u) \/ Handling(t)
      <4>1. \A u \in Thread \ {t} : Work(u)' = Work(u)
        BY <1>1 DEF Replaces
      <4>2. Do("state", "ON").op = "state"
        BY DoFacts
      <4> QED BY <2>1, <4>1, <4>2, HandlingIs
    <3>2. ~Handling(t)
      <4>1. Work(t) = {x}
        <5>1. Work(t) = {x} \cup {}
          BY <1>1, <1>2, ReplacesFacts
        <5> QED BY <5>1
      <4> QED BY <1>2, <4>1, HandlingIs
    <3> QED BY <1>3, <2>1, <2>2, <2>5, <3>1, <3>2 DEF Parts, AwakeInv
  <2> QED BY <2>3, <2>4, <2>5
<1> QED BY <1>5, <1>6, <1>7, <1>8 DEF Parts

\* A call changes neither the power state nor what is remembered of the boot.
LEMMA CallFrames ==
  ASSUME Parts, up, NEW X, NEW B, Alters(X, B),
         \A y \in X : y.op \in {"standby", "sources", "readBack", "compare", "timer"},
         \A y \in B : y.op \in {"standby", "readBack", "compare"} \/ y = Do("save", "opt"),
         UNCHANGED <<opt, ram, up, atBoot, wakeups, stamp>>,
         settings'.before = settings.before, settings'.state = settings.state,
         hw'.state = hw.state,
         \A e : e # "source" => (e \in excuses' <=> e \in excuses)
  PROVE  /\ BootInv' /\ PlatformInv' /\ AwakeInv'
         /\ settings' = settings => SavedInv'
<1>1. Do("save", "opt").op = "save" /\ Do("save", "opt") # Do("save", "ram")
  BY DoFacts
<1>2. /\ \A y \in B : y.op \notin {"write", "state"} /\ y # Do("save", "ram")
      /\ \A y \in X : y.op \notin {"save", "write", "load", "ram", "state"}
  BY <1>1, DoFacts
<1>3. BootInv' /\ (settings' = settings => SavedInv')
  BY <1>2, UpFrames
<1>4. \A op \in {"init", "wakeup"} : \A arg : Do(op, arg) \notin X
  BY DoFacts
<1>5. PlatformInv'
  BY <1>2, <1>4, PlatformFrame DEF Parts
<1>6. AwakeInv'
  <2>1. \A y \in B : y.op \notin {"platform", "state"}
    BY <1>1
  <2> QED BY <1>4, <2>1, AwakeFrame DEF Parts
<1> QED BY <1>3, <1>5, <1>6

\* What network standby should be, it is already.
LEMMA StandbyAlready ==
  ASSUME Parts, NEW op, NEW mode, NEW B, Alters({Do(op, mode)}, B),
         op \in {"compare", "standby"}, settings.standby = mode,
         settings' = settings, hw' = hw, excuses' = excuses
  PROVE  StandbyInv'
<1>1. Ahead("sourcesAtStart") => Ahead("sourcesAtStart")'
  BY StarterIsThread, DoFacts DEF Ahead, Alters
<1>2. ~Down
  BY DEF Alters
<1>3. ASSUME NEW m, NEW t \in Thread, Work(t) \cap Agreeing(m) # {}
      PROVE  m = settings.standby \/ Work(t)' \cap Agreeing(m) # {}
  <2>1. PICK y \in Work(t) : y \in Agreeing(m)
    BY <1>3
  <2>2. y = Do(op, mode) => m = mode
    BY <2>1, DoFacts DEF Agreeing
  <2> QED BY <2>1, <2>2 DEF Alters
<1>4. SUFFICES ASSUME "source" \notin excuses,
                      hw.sources["WIFI"] = hw.sources["LAN"]
               PROVE  \/ settings.standby = hw.sources["WIFI"]
                      \/ \E t \in Thread : Work(t)' \cap Agreeing(hw.sources["WIFI"]) # {}
                      \/ Ahead("sourcesAtStart")'
  BY DEF StandbyInv, Agreeing
<1>5. \/ settings.standby = hw.sources["WIFI"]
      \/ \E t \in Thread : Work(t) \cap Agreeing(hw.sources["WIFI"]) # {}
      \/ Ahead("sourcesAtStart")
  BY <1>2, <1>4 DEF Parts, StandbyInv
<1> QED BY <1>1, <1>3, <1>5

LEMMA StandbyParts ==
  ASSUME ShapeInv, TypeInv, Parts, NEW t \in Thread, SetNetworkStandbyMode(t)
  PROVE  Parts'
<1>0. up
  BY StandbyEffect
<1>1. UNCHANGED <<opt, ram, up, atBoot, wakeups, stamp>>
  BY DEF SetNetworkStandbyMode, files, counts, wake
<1>2. PICK mode \in BOOLEAN : LET x == Do("standby", mode) IN
        \/ /\ Replaces(t, x, {}, {}) /\ UNCHANGED <<settings, hw, excuses>>
           /\ mode = settings.standby
        \/ /\ Replaces(t, x, {}, {}) /\ settings' = settings
           /\ \E failed \in BOOLEAN : failed /\ SetSources(Both(mode), failed)
        \/ /\ Replaces(t, x, {Do("save", "opt")}, {})
           /\ settings' = [settings EXCEPT !.standby = mode]
           /\ \E failed \in BOOLEAN : SetSources(Both(mode), failed)
  BY StandbyEffect
<1>3. PICK x, save : x = Do("standby", mode) /\ x.op = "standby" /\ save = Do("save", "opt")
  BY DoFacts
<1>4. ASSUME NEW failed \in BOOLEAN, SetSources(Both(mode), failed)
      PROVE  /\ hw'.state = hw.state
             /\ \A e : e # "source" => (e \in excuses' <=> e \in excuses)
             /\ failed => "source" \in excuses'
             /\ "source" \in excuses' \/ hw'.sources["WIFI"] = mode
  <2>1. /\ hw \in Platform /\ excuses \subseteq Excuse /\ Sources \in SUBSET Sources
        /\ Both(mode) \in [Sources -> BOOLEAN] /\ Both(mode)["WIFI"] = mode
    BY TypeFacts, BothFacts
  <2> QED BY <1>4, <2>1, SourcesSet
<1>5. CASE /\ Replaces(t, x, {}, {}) /\ UNCHANGED <<settings, hw, excuses>>
           /\ mode = settings.standby
  <2>1. Alters({x}, {})
    BY <1>5, ReplacesFacts
  <2>2. SavedInv' /\ BootInv' /\ PlatformInv' /\ AwakeInv'
    BY <1>0, <1>1, <1>3, <1>5, <2>1, CallFrames
  <2>3. StandbyInv'
    BY <1>3, <1>5, <2>1, StandbyAlready
  <2> QED BY <2>2, <2>3 DEF Parts
<1>6. CASE /\ Replaces(t, x, {}, {}) /\ settings' = settings
           /\ \E failed \in BOOLEAN : failed /\ SetSources(Both(mode), failed)
  <2>1. Alters({x}, {})
    BY <1>6, ReplacesFacts
  <2>2. /\ hw'.state = hw.state
        /\ \A e : e # "source" => (e \in excuses' <=> e \in excuses)
        /\ "source" \in excuses'
    BY <1>4, <1>6
  <2>3. SavedInv' /\ BootInv' /\ PlatformInv' /\ AwakeInv'
    BY <1>0, <1>1, <1>3, <1>6, <2>1, <2>2, CallFrames
  <2> QED BY <2>2, <2>3 DEF Parts, StandbyInv
<1>7. CASE /\ Replaces(t, x, {save}, {})
           /\ settings' = [settings EXCEPT !.standby = mode]
           /\ \E failed \in BOOLEAN : SetSources(Both(mode), failed)
  <2>1. Alters({x}, {save}) /\ save \in Work(t)'
    BY <1>7, ReplacesFacts
  <2>2. /\ hw'.state = hw.state
        /\ \A e : e # "source" => (e \in excuses' <=> e \in excuses)
        /\ "source" \in excuses' \/ hw'.sources["WIFI"] = mode
    BY <1>4, <1>7
  <2>3. /\ settings'.before = settings.before /\ settings'.state = settings.state
        /\ settings'.standby = mode
    BY <1>7 DEF TypeInv, SettingsType
  <2>4. BootInv' /\ PlatformInv' /\ AwakeInv'
    BY <1>0, <1>1, <1>3, <2>1, <2>2, <2>3, CallFrames
  <2>5. SavedInv'
    BY <1>3, <2>1, StillSaving DEF Saving
  <2>6. StandbyInv'
    BY <2>2, <2>3 DEF StandbyInv
  <2> QED BY <2>4, <2>5, <2>6 DEF Parts
<1> QED BY <1>2, <1>3, <1>5, <1>6, <1>7

LEMMA SourceConfigParts ==
  ASSUME ShapeInv, TypeInv, Parts, NEW t \in Thread, SetWakeupSourceConfig(t)
  PROVE  Parts'
<1>0. up
  BY SourceConfigEffect
<1>1. UNCHANGED <<opt, ram, up, settings, atBoot, wakeups, stamp>>
  BY DEF SetWakeupSourceConfig, files, counts, wake
<1>2. PICK config \in Configs : \E failed \in BOOLEAN :
        /\ SetSources(config, failed)
        /\ \/ failed /\ Replaces(t, Do("sources", config), {}, {})
           \/ Replaces(t, Do("sources", config), {Do("readBack", 0)}, {})
  BY SourceConfigEffect
<1>3. PICK failed \in BOOLEAN :
        /\ SetSources(config, failed)
        /\ \/ failed /\ Replaces(t, Do("sources", config), {}, {})
           \/ Replaces(t, Do("sources", config), {Do("readBack", 0)}, {})
  BY <1>2
<1>4. PICK x, y : /\ x = Do("sources", config) /\ x.op = "sources"
                  /\ y = Do("readBack", 0) /\ y.op = "readBack"
  BY DoFacts
<1>5. /\ hw'.state = hw.state
      /\ \A e : e # "source" => (e \in excuses' <=> e \in excuses)
      /\ failed => "source" \in excuses'
  <2>1. hw \in Platform /\ excuses \subseteq Excuse
    BY TypeFacts
  <2>2. PICK D \in SUBSET Sources : config \in [D -> BOOLEAN]
    BY SomeConfig
  <2> QED BY <1>3, <2>1, <2>2, SourcesSet
<1>6. PICK B : /\ Replaces(t, x, B, {})
               /\ (B = {} /\ failed) \/ B = {y}
  BY <1>3, <1>4
<1>7. Alters({x}, B) /\ \A z \in B : z \in Work(t)'
  BY <1>6, ReplacesFacts
<1>8. SavedInv' /\ BootInv' /\ PlatformInv' /\ AwakeInv'
  BY <1>0, <1>1, <1>4, <1>5, <1>6, <1>7, CallFrames
<1>9. StandbyInv'
  <2>1. CASE failed
    BY <1>5, <2>1 DEF StandbyInv
  <2>2. CASE B = {y}
    <3>1. \A mode : y \in Agreeing(mode)
      BY <1>4 DEF Agreeing
    <3>2. \A mode : Work(t)' \cap Agreeing(mode) # {}
      BY <1>7, <2>2, <3>1
    <3>3. Work(t)' \cap Agreeing(hw.sources["WIFI"])' # {}
      BY <3>2 DEF Agreeing
    <3> QED BY <3>3 DEF StandbyInv
  <2> QED BY <1>6, <2>1, <2>2
<1> QED BY <1>8, <1>9 DEF Parts

LEMMA ReadBackParts ==
  ASSUME ShapeInv, TypeInv, Parts, NEW t \in Thread, GetWakeupSourceConfig(t)
  PROVE  Parts'
<1>1. UNCHANGED <<opt, ram, up, settings, hw, atBoot, wakeups, stamp>>
  BY DEF GetWakeupSourceConfig, files, counts, wake
<1>2. PICK B :
        /\ up /\ (excuses' = excuses \/ excuses' = excuses \cup {"source"})
        /\ Replaces(t, Do("readBack", 0), B, {})
        /\ \A y \in B : y.op = "compare"
        /\ hw.sources["WIFI"] = hw.sources["LAN"] =>
             "source" \in excuses' \/ Do("compare", hw.sources["WIFI"]) \in B
  BY ReadBackEffect
<1>3. PICK x : x = Do("readBack", 0) /\ x.op = "readBack"
  BY DoFacts
<1>a. Replaces(t, x, B, {})
  BY <1>2, <1>3
<1>4. Alters({x}, B) /\ \A y \in B : y \in Work(t)'
  BY <1>a, ReplacesFacts
<1>5. SavedInv' /\ BootInv' /\ PlatformInv' /\ AwakeInv'
  BY <1>1, <1>2, <1>3, <1>4, CallFrames
<1>6. StandbyInv'
  <2>1. SUFFICES ASSUME "source" \notin excuses',
                        hw'.sources["WIFI"] = hw'.sources["LAN"]
                 PROVE  Work(t)' \cap Agreeing(hw.sources["WIFI"])' # {}
    BY DEF StandbyInv
  <2>2. Do("compare", hw.sources["WIFI"]) \in Work(t)'
    BY <1>1, <1>2, <1>4, <2>1
  <2>3. PICK m : m = hw.sources["WIFI"] /\ m = hw'.sources["WIFI"]
    BY <1>1
  <2>4. Do("compare", m) \in Work(t)' /\ Do("compare", m) \in Agreeing(m)
    BY <2>2, <2>3 DEF Agreeing
  <2> QED BY <2>3, <2>4 DEF Agreeing
<1> QED BY <1>5, <1>6 DEF Parts

LEMMA CompareParts ==
  ASSUME ShapeInv, TypeInv, Parts, NEW t \in Thread, GetNetworkStandbyMode(t)
  PROVE  Parts'
<1>1. UNCHANGED <<opt, ram, up, settings, hw, atBoot, wakeups, stamp, excuses>>
  BY DEF GetNetworkStandbyMode, files, counts, wake
<1>2. PICK mode \in BOOLEAN :
        \/ Replaces(t, Do("compare", mode), {}, {}) /\ settings.standby = mode
        \/ Replaces(t, Do("compare", mode), {Do("standby", mode)}, {})
  BY CompareEffect
<1>3. PICK x, y : /\ x = Do("compare", mode) /\ x.op = "compare"
                  /\ y = Do("standby", mode) /\ y.op = "standby"
  BY DoFacts
<1>4. up
  BY CompareEffect
<1>5. CASE Replaces(t, x, {}, {}) /\ settings.standby = mode
  <2>1. Alters({x}, {})
    BY <1>5, ReplacesFacts
  <2>2. SavedInv' /\ BootInv' /\ PlatformInv' /\ AwakeInv'
    BY <1>1, <1>3, <1>4, <2>1, CallFrames
  <2>3. StandbyInv'
    BY <1>1, <1>3, <1>5, <2>1, StandbyAlready
  <2> QED BY <2>2, <2>3 DEF Parts
<1>6. CASE Replaces(t, x, {y}, {})
  <2>1. Alters({x}, {y}) /\ y \in Work(t)'
    BY <1>6, ReplacesFacts
  <2>2. SavedInv' /\ BootInv' /\ PlatformInv' /\ AwakeInv'
    BY <1>1, <1>3, <1>4, <2>1, CallFrames
  <2>3. StandbyInv'
    <3>1. Ahead("sourcesAtStart") => Ahead("sourcesAtStart")'
      BY <1>3, <2>1, StarterIsThread, NotThat DEF Ahead, Alters
    <3>2. ASSUME NEW m, NEW u \in Thread, Work(u) \cap Agreeing(m) # {}
          PROVE  \E v \in Thread : Work(v)' \cap Agreeing(m) # {}
      <4>1. PICK z \in Work(u) : z \in Agreeing(m)
        BY <3>2
      <4>2. CASE z = x
        <5>1. m = mode
          BY <1>3, <4>1, <4>2, DoFacts DEF Agreeing
        <5>2. y \in Agreeing(m)
          BY <1>3, <5>1 DEF Agreeing
        <5> QED BY <2>1, <5>2
      <4>3. CASE z # x
        BY <2>1, <4>1, <4>3 DEF Alters
      <4> QED BY <4>2, <4>3
    <3>3. ~Down
      BY <2>1 DEF Alters
    <3>4. SUFFICES ASSUME "source" \notin excuses,
                          hw.sources["WIFI"] = hw.sources["LAN"]
                   PROVE  \/ settings.standby = hw.sources["WIFI"]
                          \/ \E v \in Thread : Work(v)' \cap Agreeing(hw.sources["WIFI"]) # {}
                          \/ Ahead("sourcesAtStart")'
      BY <1>1 DEF StandbyInv, Agreeing
    <3>5. \/ settings.standby = hw.sources["WIFI"]
          \/ \E u \in Thread : Work(u) \cap Agreeing(hw.sources["WIFI"]) # {}
          \/ Ahead("sourcesAtStart")
      BY <3>3, <3>4 DEF Parts, StandbyInv
    <3> QED BY <3>1, <3>2, <3>5
  <2> QED BY <2>2, <2>3 DEF Parts
<1> QED BY <1>2, <1>3, <1>5, <1>6

LEMMA TimerParts ==
  ASSUME ShapeInv, TypeInv, Parts, NEW t \in Thread, SetDeepSleepTimer(t)
  PROVE  Parts'
<1>1. /\ UNCHANGED <<opt, ram, up, hw, atBoot, wakeups, stamp, excuses>>
      /\ \E v : settings' = [settings EXCEPT !.timeout = v]
  BY DEF SetDeepSleepTimer, files, counts, wake
<1>2. /\ settings'.before = settings.before /\ settings'.state = settings.state
      /\ settings'.standby = settings.standby
  BY <1>1 DEF TypeInv, SettingsType
<1>3. PICK time : up /\ Replaces(t, Do("timer", time), {Do("save", "opt")}, {})
  BY TimerEffect
<1>4. PICK x, save : x = Do("timer", time) /\ x.op = "timer" /\ save = Do("save", "opt")
  BY DoFacts
<1>5. Alters({x}, {save}) /\ save \in Work(t)'
  BY <1>3, <1>4, ReplacesFacts
<1>6. BootInv' /\ PlatformInv' /\ AwakeInv'
  BY <1>1, <1>2, <1>3, <1>4, <1>5, CallFrames
<1>7. SavedInv'
  BY <1>4, <1>5, StillSaving DEF Saving
<1>8. StandbyInv'
  <2>1. /\ Do("sourcesAtStart", 0) \notin {x}
        /\ \A y \in {x} : y.op \notin {"readBack", "compare", "standby"}
    BY <1>4, NotThat
  <2> QED BY <1>1, <1>2, <1>5, <2>1, StandbyFrame DEF Parts
<1> QED BY <1>6, <1>7, <1>8 DEF Parts

LEMMA PluginStartsParts ==
  ASSUME ShapeInv, TypeInv, Parts, PluginStarts
  PROVE  Parts'
<1>1. ShapeInv' /\ ~up /\ Quiet /\ Begins(Starter, StageSet(1))
  BY PluginStartsEffect
<1>2. /\ UNCHANGED <<opt, ram, up, settings, atBoot>>
      /\ excuses' = excuses \ {"crossed", "unsaved", "raced", "stale"}
  BY DEF PluginStarts, files
<1>3. /\ \A u \in Thread : Work(u) = {}
      /\ \A u \in Thread : u # Starter => Work(u)' = {}
      /\ Work(Starter)' = StageSet(1)
  BY <1>1, QuietWork DEF Begins
<1>4. 1 \in 1 .. 7 /\ 1 <= 2 /\ 1 <= 4 /\ 1 <= 5
  OBVIOUS
<1>5. /\ Do("load", 0) \in StageSet(1) /\ Do("ram", 0) \in StageSet(1)
      /\ Do("sourcesAtStart", 0) \in StageSet(1) /\ Do("init", 0) \in StageSet(1)
      /\ \A y \in StageSet(1) : y.op \notin {"write", "save", "state"}
  BY <1>4, StageFacts
<1>6. /\ Ahead("load")' /\ Ahead("ram")' /\ Ahead("sourcesAtStart")' /\ Ahead("init")'
      /\ \A y \in Work(Starter)' : y.op # "state"
  BY <1>3, <1>5 DEF Ahead
<1>7. /\ \A u \in Thread : \A name : Writes(u, name)' = {} /\ Writes(u, name) = {}
      /\ Do("save", "ram") \notin Work(Starter)'
  <2>1. \A u \in Thread : \A y \in Work(u)' : y.op \notin {"write", "save"}
    BY <1>3, <1>5
  <2> QED BY <1>3, <2>1, StarterIsThread, DoFacts DEF Writes
<1>8. SavedInv'
  BY <1>6, <1>7 DEF SavedInv
<1>9. BootInv'
  <2>0. SUFFICES ASSUME "boot" \notin excuses'
                 PROVE  BootInv'
    BY DEF BootInv
  <2>1. /\ ram = NoFile => Loaded(opt).state = atBoot
        /\ ram # BadFile /\ (Valid(ram) => Keeps(ram))
    BY <1>2, <1>7, <2>0, StarterIsThread DEF Parts, BootInv
  <2>2. Keeps(ram)' <=> Keeps(ram)
    BY <1>2 DEF Keeps
  <2>3. Loaded(opt)' = Loaded(opt)
    BY <1>2 DEF Loaded
  <2> QED BY <1>1, <1>2, <1>6, <1>7, <2>1, <2>2, <2>3, StarterIsThread DEF BootInv
<1>10. PlatformInv'
  BY <1>1, <1>2, <1>6, PlatformAhead
<1>11. StandbyInv'
  BY <1>6, StandbyAhead
<1>12. AwakeInv'
  BY <1>1, <1>2, <1>6, NotAwake
<1> QED BY <1>8, <1>9, <1>10, <1>11, <1>12 DEF Parts

LEMMA DiesParts ==
  ASSUME ShapeInv, TypeInv, Parts, PluginDies \/ DeviceDies
  PROVE  Parts'
<1>1. /\ ShapeInv' /\ ~up' /\ Quiet' /\ \A u \in Thread : Work(u)' = {}
      /\ opt' = opt
  BY DiesEffect DEF PluginDies, DeviceDies, Dies
<1>2. Down' /\ \A y \in Work(Starter)' : FALSE
  BY <1>1, StarterIsThread DEF Down
<1>3. \A u \in Thread : \A name : Writes(u, name)' = {}
  BY <1>1 DEF Writes
<1>4. SavedInv'
  BY <1>2, <1>3 DEF SavedInv
<1>5. PlatformInv'
  BY <1>1, <1>2, PlatformAhead
<1>6. StandbyInv'
  BY <1>2, StandbyAhead
<1>7. AwakeInv'
  BY <1>1, <1>2, NotAwake
<1>8. Loaded(opt)' = Loaded(opt)
  BY <1>1 DEF Loaded
<1>9. BootInv'
  <2>1. CASE PluginDies
    <3>0. SUFFICES ASSUME "boot" \notin excuses'
                   PROVE  BootInv'
      BY DEF BootInv
    <3>1. /\ ram' = ram /\ atBoot' = atBoot
          /\ excuses' = IF ram = BadFile THEN excuses \cup {"boot"} ELSE excuses
      BY <2>1 DEF PluginDies
    <3>2. ram # BadFile /\ "boot" \notin excuses
      BY <3>0, <3>1
    <3>3. /\ ram = NoFile => Loaded(opt).state = atBoot
          /\ Valid(ram) => Keeps(ram)
      BY <3>2 DEF Parts, BootInv
    <3>4. Keeps(ram)' <=> Keeps(ram)
      BY <3>1 DEF Keeps
    <3> QED BY <1>1, <1>2, <1>3, <1>8, <3>1, <3>2, <3>3, <3>4, StarterIsThread DEF BootInv
  <2>2. CASE DeviceDies
    <3>1. ram' = NoFile /\ atBoot' = Loaded(opt).state
      BY <2>2 DEF DeviceDies
    <3>2. ram' # BadFile /\ ~Valid(ram')
      BY <3>1, ValidFacts, RepairFacts
    <3> QED BY <1>1, <1>2, <1>3, <1>8, <3>1, <3>2, StarterIsThread DEF BootInv
  <2> QED BY <2>1, <2>2
<1> QED BY <1>4, <1>5, <1>6, <1>7, <1>9 DEF Parts

----------------------------------------------------------------------------
(* The invariant.                                                          *)

LEMMA InitInv ==
  Init => Inv
<1> SUFFICES ASSUME Init
             PROVE  Inv
  OBVIOUS
<1>1. DOMAIN todo = Thread /\ \A t \in Thread : todo[t] = <<>>
  BY DEF Init, ThreadsInit
<1>2. ~up /\ Quiet /\ Down /\ \A t \in Thread : Work(t) = {}
  BY <1>1, BareFacts DEF Quiet, Idle, Down, Work, Init
<1>3. ShapeInv
  <2>1. <<>> \in Seq(Range(<<>>))
    OBVIOUS
  <2> QED BY <1>1, <2>1, StarterIsThread DEF ShapeInv
<1>4. opt = NoFile /\ ram = NoFile /\ atBoot = Loaded(opt).state
  BY DEF Init
<1>5. TypeInv
  <2>1. hw \in [state : Names \cup {"MAX"}, sources : [Sources -> BOOLEAN]]
    BY SettingsAssumption DEF Init
  <2>2. up \in BOOLEAN /\ timerSet \in BOOLEAN
    BY Zenon DEF Init
  <2>3. wakeups \in Nat /\ stamp \in Int /\ excuses \subseteq Excuse
    BY DEF Init
  <2>4. settings \in SettingsType
    BY NoSettingsTyped DEF Init
  <2>5. opt \in File /\ ram \in File
    BY <1>4, RepairFacts
  <2> QED BY <2>1, <2>2, <2>3, <2>4, <2>5 DEF TypeInv
<1>6. \A t \in Thread : \A name : Writes(t, name) = {}
  BY <1>2 DEF Writes
<1>7. SavedInv /\ PlatformInv /\ StandbyInv /\ AwakeInv
  <2>1. \A t \in Thread : ~Handling(t)
    BY <1>2, HandlingIs
  <2>2. SavedInv /\ PlatformInv /\ StandbyInv
    BY <1>2, <1>6, StarterIsThread DEF SavedInv, PlatformInv, StandbyInv
  <2> QED BY <1>2, <2>1, <2>2 DEF AwakeInv
<1>8. BootInv
  <2>1. ram # BadFile /\ ~Valid(ram)
    BY <1>4, ValidFacts, RepairFacts
  <2> QED BY <1>2, <1>4, <1>6, <2>1, StarterIsThread DEF BootInv
<1> QED BY <1>3, <1>5, <1>7, <1>8 DEF Inv

LEMMA PartsStep ==
  ASSUME ShapeInv, TypeInv, Parts, Next
  PROVE  Parts'
<1>1. ASSUME NEW t \in Thread, Step(t)
      PROVE  Parts'
  <2>1. CASE \/ OpenToSave(t) \/ WriteImage(t) \/ LoadSettings(t) \/ LoadRam(t)
             \/ BootToStandby(t) \/ SourcesAtStart(t) \/ init(t) \/ Started(t)
    BY <2>1, OpenToSaveParts, WriteImageParts, LoadSettingsParts, LoadRamParts,
       StandbyBuildParts, SourcesAtStartParts, initParts, StartedParts
  <2>2. CASE \/ SetPlatformState(t) \/ StoreState(t) \/ TakeTimestamp(t)
             \/ SetNetworkStandbyMode(t) \/ SetWakeupSourceConfig(t)
             \/ GetWakeupSourceConfig(t) \/ GetNetworkStandbyMode(t)
             \/ SetDeepSleepTimer(t)
    BY <2>2, SetPlatformStateParts, StoreStateParts, TakeTimestampParts,
       StandbyParts, SourceConfigParts, ReadBackParts, CompareParts, TimerParts
  <2>3. CASE \/ ActivateDeepSleep(t) \/ performActivate(t) \/ Sleep(t)
             \/ GetTimeSinceWakeup(t)
    BY <2>3, PlainSteps
  <2> QED BY <1>1, <2>1, <2>2, <2>3, StepCases
<1> QED BY <1>1, PlainSteps, PluginStartsParts, DiesParts DEF Next

LEMMA InvStep ==
  Inv /\ [Next]_vars => Inv'
<1> SUFFICES ASSUME Inv, [Next]_vars
             PROVE  Inv'
  OBVIOUS
<1>1. ShapeInv /\ TypeInv /\ Parts
  BY DEF Inv, Parts
<1>2. CASE Next
  BY <1>1, <1>2, ShapeStep, TypeStep, PartsStep DEF Inv, Parts
<1>3. CASE UNCHANGED vars
  <2>1. UNCHANGED <<todo, opt, ram, up, settings, timerSet, hw, wakeups, stamp,
                    atBoot, excuses>>
    BY <1>3 DEF vars, files, counts, wake
  <2>2. /\ Quiet' <=> Quiet
        /\ \A t : Work(t)' = Work(t)
    BY <2>1 DEF Quiet, Idle, Work
  <2>3. /\ Down' <=> Down
        /\ \A stage : Ahead(stage)' <=> Ahead(stage)
        /\ \A t : Saving(t)' <=> Saving(t)
        /\ \A t, name : Writes(t, name)' = Writes(t, name)
    BY <2>1, <2>2 DEF Down, Ahead, Saving, Writes
  <2>4. ShapeInv'
    BY <1>1, <2>1 DEF ShapeInv
  <2>5. TypeInv'
    BY <1>1, <2>1 DEF TypeInv
  <2>6. SavedInv'
    <3>1. Image(settings)' = Image(settings)
      BY <2>1 DEF Image
    <3> QED BY <1>1, <2>1, <2>3, <3>1 DEF Parts, SavedInv
  <2>7. BootInv'
    <3>1. \A file : FromPlatform(file.state) = atBoot <=> FromPlatform(file.state) = atBoot'
      BY <2>1
    <3>2. Loaded(opt)' = Loaded(opt) /\ (Keeps(ram)' <=> Keeps(ram))
      BY <2>1 DEF Loaded, Keeps
    <3>3. \A name : \A x : Keeps(x.arg.image)' <=> Keeps(x.arg.image)
      BY <2>1 DEF Keeps
    <3> QED BY <1>1, <2>1, <2>2, <2>3, <3>2, <3>3 DEF Parts, BootInv
  <2>8. PlatformInv'
    BY <1>1, <2>1, <2>2, <2>3 DEF Parts, PlatformInv
  <2>9. StandbyInv'
    BY <1>1, <2>1, <2>2, <2>3 DEF Parts, StandbyInv, Agreeing
  <2>10. AwakeInv'
    <3>1. \A t : Handling(t)' <=> Handling(t)
      BY <2>1 DEF Handling
    <3> QED BY <1>1, <2>1, <2>2, <2>3, <3>1 DEF Parts, AwakeInv
  <2> QED BY <2>4, <2>5, <2>6, <2>7, <2>8, <2>9, <2>10 DEF Inv
<1> QED BY <1>2, <1>3

LEMMA Invariance ==
  Spec => []Inv
BY InitInv, InvStep, PTL DEF Spec

\* When nothing is under way nothing is left to be done.
LEMMA SettledFacts ==
  ASSUME Inv, Settled
  PROVE  /\ ~Down /\ \A t \in Thread : Work(t) = {}
         /\ Starter \in Thread
         /\ \A stage : ~Ahead(stage)
<1>1. ~Down /\ \A t \in Thread : Work(t) = {}
  BY QuietWork DEF Settled, Down
<1> QED BY <1>1, StarterIsThread DEF Ahead

----------------------------------------------------------------------------
(* The theorems.                                                           *)

\* The settings, the files and the platform have their types: a time that
\* SetDeepSleepTimer takes from a client stays an unsigned word, and what Load
\* reads back from a file is a power state again.
THEOREM SettingsTyped ==
  Spec => []TypeOK
<1>1. Inv => TypeOK
  <2> SUFFICES ASSUME Inv
               PROVE  TypeOK
    OBVIOUS
  <2>1. TypeInv
    BY DEF Inv
  <2>2. \A file \in {opt, ram} : Valid(file) => file \in Stored
    BY <2>1, ValidFacts DEF TypeInv
  <2>3. \A file \in {opt, ram} : Valid(file) =>
          /\ file.state \in Names \cup {"MAX"}
          /\ file.timeout \in 0 .. Word - 1
          /\ file.standby \in BOOLEAN
    BY <2>2 DEF Stored
  <2>4. settings.state \in Names \cup {"UNKNOWN"} /\ settings.timeout \in 0 .. Word - 1
    BY <2>1 DEF TypeInv, SettingsType, States
  <2>5. hw.sources \in [Sources -> BOOLEAN] /\ excuses \subseteq Excuse
    BY <2>1 DEF TypeInv
  <2> QED BY <2>3, <2>4, <2>5 DEF TypeOK
<1> QED BY <1>1, Invariance, PTL

\* Every change of the settings is saved in the end: when nothing is under way
\* the file that Settings::Save writes holds them, unless a save failed, two of
\* them crossed, or the start put the state to STANDBY.
THEOREM SettingsSaved ==
  Spec => []SavedWhenSettled
<1>1. Inv => SavedWhenSettled
  <2> SUFFICES ASSUME Inv, Settled, settings.usable,
                      excuses \cap {"unsaved", "crossed"} = {}
               PROVE  opt = Image(settings)
    BY DEF SavedWhenSettled
  <2>1. SavedInv
    BY DEF Inv
  <2>2. \A t \in Thread : ~Saving(t) /\ Writes(t, "opt") = {}
    BY SettledFacts DEF Saving, Writes
  <2> QED BY <2>1, <2>2, SettledFacts DEF SavedInv
<1> QED BY <1>1, Invariance, PTL

\* _powerStateBeforeReboot is the state the device started with, which
\* Settings::Load keeps in the file in /tmp, however often the plugin dies and
\* starts again and whatever is saved in between.
THEOREM StateBeforeReboot ==
  Spec => []StateBeforeRebootKept
<1>1. Inv => StateBeforeRebootKept
  <2> SUFFICES ASSUME Inv, Settled, "boot" \notin excuses
               PROVE  settings.before = atBoot
    BY DEF StateBeforeRebootKept
  <2>1. BootInv
    BY DEF Inv
  <2> QED BY <2>1, SettledFacts DEF BootInv
<1> QED BY <1>1, Invariance, PTL

\* The power state of the platform is the one in the settings when nothing is
\* under way: PowerController::init brings the two together at every start, and
\* a completion handler stores the state that it has set.  Handlers may overlap;
\* one that sets the platform's state while no other one has set it and not yet
\* stored it brings the two together again.
THEOREM PlatformAgrees ==
  Spec => []SettingsMatchPlatform
<1>1. Inv => SettingsMatchPlatform
  <2> SUFFICES ASSUME Inv, Settled, excuses \cap {"blind", "raced"} = {}
               PROVE  FromPlatform(hw.state) = settings.state
    BY DEF SettingsMatchPlatform
  <2>1. PlatformInv
    BY DEF Inv
  <2> QED BY <2>1, SettledFacts DEF PlatformInv
<1> QED BY <1>1, Invariance, PTL

\* Two wakeup sources that agree are what network standby says, although
\* setWakeupSourceConfig gives _apiLock back between setting the sources,
\* reading them and setting the mode, and other calls come in between.
THEOREM StandbyAgrees ==
  Spec => []StandbyMatchesSources
<1>1. Inv => StandbyMatchesSources
  <2> SUFFICES ASSUME Inv, Settled, "source" \notin excuses,
                      hw.sources["WIFI"] = hw.sources["LAN"]
               PROVE  settings.standby = hw.sources["WIFI"]
    BY DEF StandbyMatchesSources
  <2>1. StandbyInv
    BY DEF Inv
  <2> QED BY <2>1, SettledFacts DEF StandbyInv
<1> QED BY <1>1, Invariance, PTL

\* The time since the wakeup is counted from the last change to ON, or the
\* completion handler of that change has still to take the time
\* (GetTimeSinceWakeup beside handlers that run without _apiLock), as long as no
\* handler started before another one had stored its state.
THEOREM TimeSinceLastWakeup ==
  Spec => []AwakeSinceLastWakeup
<1>1. Inv => AwakeSinceLastWakeup
  <2> SUFFICES ASSUME Inv, NEW t \in Client, At(t, "sinceWakeup"),
                      settings.state = "ON", "stale" \notin excuses
               PROVE  \/ stamp = wakeups
                      \/ \E u \in Thread : \E i \in DOMAIN todo[u] :
                           todo[u][i].op = "wakeup"
    BY DEF AwakeSinceLastWakeup
  <2>1. AwakeInv /\ ShapeInv
    BY DEF Inv
  <2>2. t \in Thread
    BY SettingsAssumption
  <2>3. up
    BY <2>1, <2>2, CallAt
  <2>4. \A u \in Thread : Do("wakeup", 0) \in Work(u) =>
          \E i \in DOMAIN todo[u] : todo[u][i].op = "wakeup"
    BY DoFacts DEF Work, Bare, Range
  <2> QED BY <2>1, <2>3, <2>4 DEF AwakeInv
<1> QED BY <1>1, Invariance, PTL

\* The device sleeps until the maintenance window, a zone's difference later,
\* or no longer than the limit that DeepSleepWakeupSettings gives a time from the
\* file, unless a client has set the time, or performActivate has replaced it by
\* the number it read in the file.
THEOREM WakesInTime ==
  Spec => []WakesForMaintenance
<1>1. Inv => WakesForMaintenance
  <2> SUFFICES ASSUME Inv, NEW t \in Thread, At(t, "sleep")
               PROVE  GoodSleep(Arg(t))
    BY DEF WakesForMaintenance, GoodSleep, Wakes
  <2>1. ShapeInv
    BY DEF Inv
  <2> QED BY <2>1, HandlingAt
<1> QED BY <1>1, Invariance, PTL

=============================================================================
