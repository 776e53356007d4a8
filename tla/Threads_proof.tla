--------------------------- MODULE Threads_proof ---------------------------
(***************************************************************************)
(* What the threads of Threads keep, whatever operations they run: no two  *)
(* of them hold a lock, and an operation finds the locks held that its     *)
(* callers took.                                                           *)
(*                                                                         *)
(* Code are the instructions of a program; a discipline says what they     *)
(* rely on:                                                                *)
(*   under   pairs <<op, l>>: op is run with l held;                       *)
(*   inside  pairs <<op, l>>: op is put before what is to be done when l   *)
(*           is held already, so that l is not given back until op is done;*)
(*   first   pairs <<op, l>>: op directly follows the lock l.              *)
(***************************************************************************)
EXTENDS Threads, TLAPS, SequenceTheorems, FiniteSetTheorems, NaturalsInduction,
        WellFoundedInduction

Renamed == {Do(op, l) : op \in {"lock", "unlock"}, l \in {Again, Own}}

Plain(Code, D) ==
  /\ Renamed \subseteq Code
  /\ \A x \in Code : x.op \in {"lock", "unlock"} => x = Do(x.op, x.arg)
  /\ \A g \in D.under \cup D.inside \cup D.first :
       g[1] \notin {"lock", "unlock"} /\ g[2] \notin {Again, Own}

\* After i, l is given back before it is taken again.
HeldAfter(s, i, l) ==
  \E j \in DOMAIN s :
    /\ j > i /\ s[j] = Do("unlock", l)
    /\ \A k \in i + 1 .. j - 1 : s[k] # Do("lock", l)

\* The ways in which a nested operation takes l.
Taking(l) == {Do("lock", l), Do("lock", IF l \in Mutex THEN Own ELSE Again)}

\* A lock is taken for something.
Paired(s) ==
  \A i \in DOMAIN s : s[i].op = "lock" => i + 1 \in DOMAIN s /\ s[i + 1].op # "unlock"

\* What a thread has to do keeps the discipline D.
Sound(s, Code, D) ==
  /\ s \in Seq(Code)
  /\ Paired(s)
  /\ \A i \in DOMAIN s : \A g \in D.under :
       s[i].op = g[1] => HeldAfter(s, i, g[2])
  /\ \A i \in DOMAIN s : \A g \in D.inside :
       s[i].op = g[1]
         => /\ HeldAfter(s, i, g[2])
            /\ \A j \in 1 .. i - 1 : s[j] # Do("lock", g[2])
  /\ \A i \in DOMAIN s : \A g \in D.first :
       s[i].op = g[1]
         => i > 1 /\ s[i - 1] \in Taking(g[2])

Exclusive ==
  \A t \in Thread : \A u \in Thread \ {t} :
    \A l : l \notin {Again, Own} => ~(Holds(t, l) /\ Holds(u, l))

Disciplined(Code, D) ==
  /\ todo \in [Thread -> Seq(Code)]
  /\ \A t \in Thread : Sound(todo[t], Code, D)
  /\ Exclusive

\* An operation gives back only what it has taken.
Balanced(b) == \A l : ~GivesBack(b, l)

\* b may be put in front when the locks of C are held; those of H are held in
\* front of b itself.
Ready(b, Code, D, H, C) ==
  /\ b \in Seq(Code)
  /\ Balanced(b)
  /\ Paired(b)
  /\ \A i \in DOMAIN b : \A g \in D.under :
       b[i].op = g[1] => HeldAfter(b, i, g[2]) \/ g[2] \in H
  /\ \A i \in DOMAIN b : \A g \in D.inside : b[i].op = g[1] => g[2] \in C
  /\ \A i \in DOMAIN b : \A g \in D.first :
       b[i].op = g[1] => i > 1 /\ b[i - 1] = Do("lock", g[2])

----------------------------------------------------------------------------
(* Sequences.                                                              *)

LEMMA DoFacts ==
  \A op, arg : Do(op, arg).op = op /\ Do(op, arg).arg = arg
BY DEF Do

\* A sequence in front of another one.
Joined(z, x, y) ==
  /\ DOMAIN z = 1 .. Len(x) + Len(y)
  /\ \A i \in 1 .. Len(x) : z[i] = x[i]
  /\ \A i \in 1 .. Len(y) : z[Len(x) + i] = y[i]

LEMMA JoinedFacts ==
  ASSUME NEW S, NEW x \in Seq(S), NEW y \in Seq(S), NEW z, z = x \o y
  PROVE  Joined(z, x, y) /\ z \in Seq(S) /\ Len(z) = Len(x) + Len(y)
<1>1. z \in Seq(S) /\ Len(z) = Len(x) + Len(y)
  BY ConcatProperties
<1>2. DOMAIN z = 1 .. Len(x) + Len(y)
  BY <1>1, LenProperties
<1>3. ASSUME NEW i \in 1 .. Len(x) PROVE z[i] = x[i]
  OBVIOUS
<1>4. ASSUME NEW i \in 1 .. Len(y) PROVE z[Len(x) + i] = y[i]
  OBVIOUS
<1> QED BY <1>1, <1>2, <1>3, <1>4 DEF Joined

\* Locked code is not empty, whatever follows it.
LEMMA LockedNotEmpty ==
  ASSUME NEW S, NEW l, NEW b \in Seq(S), NEW c \in Seq(S),
         {Do("lock", l), Do("unlock", l)} \subseteq S
  PROVE  With(l, b) # <<>> /\ With(l, b) \o c # <<>>
<1>1. PICK x, y : x = <<Do("lock", l)>> /\ y = <<Do("unlock", l)>>
  OBVIOUS
<1>2. x \in Seq(S) /\ y \in Seq(S) /\ Len(x) = 1
  BY <1>1
<1>3. x \o b \in Seq(S) /\ Len(x \o b) = Len(x) + Len(b)
  BY <1>2, ConcatProperties
<1>4. /\ (x \o b) \o y \in Seq(S)
      /\ Len((x \o b) \o y) = Len(x \o b) + Len(y)
  BY <1>2, <1>3, ConcatProperties
<1>5. /\ ((x \o b) \o y) \o c \in Seq(S)
      /\ Len(((x \o b) \o y) \o c) = Len((x \o b) \o y) + Len(c)
  BY <1>4, ConcatProperties
<1>6. Len((x \o b) \o y) # 0 /\ Len(((x \o b) \o y) \o c) # 0
  BY <1>2, <1>3, <1>4, <1>5, LenProperties
<1>7. With(l, b) = (x \o b) \o y
  BY <1>1 DEF With
<1> QED BY <1>4, <1>5, <1>6, <1>7, EmptySeq

\* Locked code: the lock, the code, the lock given back.
LEMMA WithParts ==
  ASSUME NEW S, NEW l, NEW b \in Seq(S), {Do("lock", l), Do("unlock", l)} \subseteq S,
         NEW n, n = With(l, b)
  PROVE  /\ n \in Seq(S) /\ DOMAIN b = 1 .. Len(b) /\ Len(b) \in Nat
         /\ DOMAIN n = 1 .. Len(b) + 2
         /\ n[1] = Do("lock", l) /\ n[Len(b) + 2] = Do("unlock", l)
         /\ \A i \in DOMAIN b : i + 1 \in DOMAIN n /\ n[i + 1] = b[i]
         /\ \A i \in DOMAIN n : \/ i = 1 \/ i = Len(b) + 2
                               \/ \E h \in DOMAIN b : i = h + 1
<1>1. PICK x, y, z : /\ x = <<Do("lock", l)>> /\ y = <<Do("unlock", l)>>
                     /\ z = x \o b /\ n = z \o y
  BY DEF With
<1>2. /\ x \in Seq(S) /\ y \in Seq(S)
      /\ Len(x) = 1 /\ Len(y) = 1 /\ x[1] = Do("lock", l) /\ y[1] = Do("unlock", l)
  BY <1>1
<1>3. PICK w : w = Len(b)
  OBVIOUS
<1>4. DOMAIN b = 1 .. w /\ w \in Nat
  BY <1>3, LenProperties
<1>5. Joined(z, x, b) /\ z \in Seq(S) /\ Len(z) = 1 + w
  <2>1. x \in Seq(S) /\ b \in Seq(S) /\ z = x \o b
    BY <1>1, <1>2
  <2>2. Joined(z, x, b)
    BY <2>1, JoinedFacts
  <2>3. z \in Seq(S)
    BY <2>1, JoinedFacts
  <2>4. Len(z) = Len(x) + Len(b)
    BY <2>1, JoinedFacts
  <2> QED BY <1>2, <1>3, <2>2, <2>3, <2>4
<1>6. Joined(n, z, y)
  BY <1>1, <1>2, <1>5, JoinedFacts
<1>a. n \in Seq(S)
  BY <1>1, <1>2, <1>5, JoinedFacts
<1>7. /\ z[1] = Do("lock", l)
      /\ \A i \in 1 .. w : z[1 + i] = b[i]
  BY <1>2, <1>3, <1>5 DEF Joined
<1>8. /\ DOMAIN n = 1 .. (1 + w) + 1
      /\ \A i \in 1 .. 1 + w : n[i] = z[i]
      /\ \A i \in 1 .. 1 : n[(1 + w) + i] = y[i]
  BY <1>2, <1>5, <1>6 DEF Joined
<1>9. n[1] = z[1] /\ \A i \in DOMAIN b : n[i + 1] = z[i + 1] /\ z[i + 1] = z[1 + i]
  BY <1>4, <1>8
<1>10. n[w + 2] = y[1] /\ (1 + w) + 1 = w + 2
  BY <1>4, <1>8
<1>11. /\ DOMAIN n = 1 .. w + 2 /\ n[1] = Do("lock", l) /\ n[w + 2] = Do("unlock", l)
       /\ \A i \in DOMAIN b : n[i + 1] = b[i]
  BY <1>2, <1>4, <1>7, <1>8, <1>9, <1>10
<1>12. \A i \in DOMAIN b : i + 1 \in DOMAIN n
  BY <1>4, <1>11
<1>13. ASSUME NEW i \in DOMAIN n
       PROVE  i = 1 \/ i = w + 2 \/ \E h \in DOMAIN b : i = h + 1
  <2>1. PICK h : h = i - 1
    OBVIOUS
  <2>2. i = 1 \/ i = w + 2 \/ (h \in DOMAIN b /\ i = h + 1)
    BY <1>4, <1>11, <2>1
  <2> QED BY <2>2
<1> QED BY <1>3, <1>4, <1>a, <1>11, <1>12, <1>13

\* A set of positions has a least one.
LEMMA LeastExists ==
  ASSUME NEW S \in SUBSET Nat, S # {}
  PROVE  Min(S) \in S /\ \A i \in S : Min(S) <= i
<1>1. \E i \in S : \A j \in S : <<j, i>> \notin OpToRel(<, Nat)
  BY NatLessThanWellFounded, WFMin
<1>2. ASSUME NEW i \in S, NEW j \in S, <<j, i>> \notin OpToRel(<, Nat)
      PROVE  i <= j
  <2>1. <<j, i>> \in Nat \X Nat /\ <<j, i>>[1] = j /\ <<j, i>>[2] = i
    OBVIOUS
  <2>2. ~(j < i)
    BY <1>2, <2>1 DEF OpToRel
  <2> QED BY <2>2
<1>3. \E i \in S : \A j \in S : i <= j
  BY <1>1, <1>2
<1> QED BY <1>3 DEF Min

\* The elements of a finite set in some order.
LEMMA Enumerated ==
  ASSUME NEW S, IsFiniteSet(S)
  PROVE  Cardinality(S) \in Nat /\ SetToSeq(S) \in [1 .. Cardinality(S) -> S]
<1>1. Cardinality(S) \in Nat /\ ExistsBijection(1 .. Cardinality(S), S)
  BY FS_CardinalityType
<1>2. \E f \in [1 .. Cardinality(S) -> S] : IsInjective(f)
  BY <1>1 DEF ExistsBijection, Bijection, Injection
<1> QED BY <1>1, <1>2 DEF SetToSeq

\* All of them.
LEMMA EnumeratedAll ==
  ASSUME NEW S, IsFiniteSet(S), NEW x \in S
  PROVE  \E i \in 1 .. Cardinality(S) : SetToSeq(S)[i] = x
<1>1. Cardinality(S) \in Nat /\ ExistsBijection(1 .. Cardinality(S), S)
  BY FS_CardinalityType
<1>2. PICK n \in Nat : n = Cardinality(S)
  BY <1>1
<1>3. \E f \in [1 .. n -> S] : IsInjective(f)
  BY <1>1, <1>2 DEF ExistsBijection, Bijection, Injection
<1>4. PICK q \in [1 .. n -> S] : q = SetToSeq(S) /\ IsInjective(q)
  BY <1>2, <1>3 DEF SetToSeq
<1>5. q \in Injection(1 .. n, S)
  BY <1>4 DEF Injection
<1>6. Cardinality(1 .. n) = n
  BY FS_Interval
<1>7. q \in Surjection(1 .. n, S)
  BY <1>2, <1>5, <1>6, FS_Injection
<1> QED BY <1>2, <1>4, <1>7 DEF Surjection

LEMMA SuffixFacts ==
  ASSUME NEW Code, NEW s \in Seq(Code), NEW k \in 1 .. Len(s) + 1,
         NEW r, r = SubSeq(s, k, Len(s))
  PROVE  /\ r \in Seq(Code)
         /\ Len(r) = Len(s) + 1 - k
         /\ DOMAIN r = 1 .. Len(s) + 1 - k
         /\ \A i \in 1 .. Len(s) + 1 - k : r[i] = s[i + k - 1]
BY Z3

LEMMA AfterUnlocksFacts ==
  ASSUME NEW Code, NEW s \in Seq(Code)
  PROVE  \E k \in 1 .. Len(s) + 1 :
           /\ AfterUnlocks(s) = SubSeq(s, k, Len(s))
           /\ \A j \in 1 .. k - 1 : s[j].op = "unlock"
           /\ k <= Len(s) => s[k].op # "unlock"
<1> DEFINE kept == {i \in DOMAIN s : s[i].op # "unlock"}
<1>1. AfterUnlocks(s) = IF kept = {} THEN <<>> ELSE SubSeq(s, Min(kept), Len(s))
  BY DEF AfterUnlocks
<1>2. CASE kept = {}
  <2>1. SubSeq(s, Len(s) + 1, Len(s)) = <<>>
    OBVIOUS
  <2> QED BY <1>1, <1>2, <2>1
<1>3. CASE kept # {}
  <2>0. kept \in SUBSET Nat
    OBVIOUS
  <2>1. Min(kept) \in kept /\ \A i \in kept : Min(kept) <= i
    BY <1>3, <2>0, LeastExists
  <2> HIDE DEF kept
  <2>2. AfterUnlocks(s) = SubSeq(s, Min(kept), Len(s))
    BY <1>1, <1>3
  <2>3. Min(kept) \in 1 .. Len(s) /\ s[Min(kept)].op # "unlock"
    BY <2>1 DEF kept
  <2>4. \A j \in 1 .. Min(kept) - 1 : s[j].op = "unlock"
    <3> SUFFICES ASSUME NEW j \in 1 .. Min(kept) - 1
                 PROVE  s[j].op = "unlock"
      OBVIOUS
    <3>1. j \in DOMAIN s /\ ~(Min(kept) <= j)
      BY <2>3
    <3> QED BY <2>1, <3>1 DEF kept
  <2> QED BY <2>2, <2>3, <2>4
<1> QED BY <1>2, <1>3

\* n is b under the locks of r, and then r.
InFront(n, b, r) ==
  /\ Len(n) = Len(b) + Len(r)
  /\ DOMAIN n = 1 .. Len(b) + Len(r)
  /\ \A i \in 1 .. Len(b) : n[i] = Under(b[i], r)
  /\ \A i \in 1 .. Len(r) : n[Len(b) + i] = r[i]

LEMMA NestedFacts ==
  ASSUME NEW Code, NEW b \in Seq(Code), NEW r \in Seq(Code),
         Renamed \subseteq Code
  PROVE  Nested(b, r) \in Seq(Code) /\ InFront(Nested(b, r), b, r)
<1> DEFINE m == [i \in DOMAIN b |-> Under(b[i], r)]
<1>1. \A i \in DOMAIN b : Under(b[i], r) \in Code
  <2> SUFFICES ASSUME NEW i \in DOMAIN b
               PROVE  Under(b[i], r) \in Code
    OBVIOUS
  <2>1. b[i] \in Code
    OBVIOUS
  <2> QED BY <2>1 DEF Under, Renamed
<1>2. m \in Seq(Code) /\ Len(m) = Len(b)
  BY <1>1
<1>3. \A i \in 1 .. Len(b) : m[i] = Under(b[i], r)
  OBVIOUS
<1>4. PICK n : n = Nested(b, r)
  OBVIOUS
<1>9. n = m \o r
  BY <1>4 DEF Nested
<1> HIDE DEF m
<1>5. n \in Seq(Code) /\ Len(n) = Len(b) + Len(r)
  <2>1. m \o r \in Seq(Code) /\ Len(m \o r) = Len(m) + Len(r)
    BY <1>2, ConcatProperties
  <2> QED BY <1>2, <1>9, <2>1
<1>6. DOMAIN n = 1 .. Len(b) + Len(r)
  BY <1>5
<1>7. ASSUME NEW i \in 1 .. Len(b)
      PROVE  n[i] = Under(b[i], r)
  BY <1>2, <1>3, <1>9
<1>8. ASSUME NEW i \in 1 .. Len(r)
      PROVE  n[Len(b) + i] = r[i]
  BY <1>2, <1>9
<1> QED BY <1>4, <1>5, <1>6, <1>7, <1>8 DEF InFront

----------------------------------------------------------------------------
(* What is held in a part of a sequence.                                   *)

LEMMA SuffixHeld ==
  ASSUME NEW Code, NEW s \in Seq(Code), NEW k \in 1 .. Len(s) + 1,
         NEW r, r = SubSeq(s, k, Len(s)), NEW l
  PROVE  /\ GivesBack(r, l) <=> HeldAfter(s, k - 1, l)
         /\ \A i \in DOMAIN r : HeldAfter(s, i + k - 1, l) => HeldAfter(r, i, l)
<1>1. /\ r \in Seq(Code)
      /\ DOMAIN r = 1 .. Len(s) + 1 - k /\ DOMAIN s = 1 .. Len(s) /\ Len(s) \in Nat
      /\ \A i \in 1 .. Len(s) + 1 - k : r[i] = s[i + k - 1]
  BY SuffixFacts
<1>2. ASSUME GivesBack(r, l)
      PROVE  HeldAfter(s, k - 1, l)
  <2>1. PICK j \in DOMAIN r : /\ r[j] = Do("unlock", l)
                              /\ \A i \in 1 .. j - 1 : r[i] # Do("lock", l)
    BY <1>2 DEF GivesBack
  <2>2. \A i \in k .. j + k - 2 : s[i] # Do("lock", l)
    <3> SUFFICES ASSUME NEW i \in k .. j + k - 2
                 PROVE  s[i] # Do("lock", l)
      OBVIOUS
    <3>1. i - k + 1 \in 1 .. j - 1 /\ i - k + 1 \in 1 .. Len(s) + 1 - k
          /\ (i - k + 1) + k - 1 = i
      BY <1>1, <2>1
    <3> QED BY <1>1, <2>1, <3>1
  <2>3. j + k - 1 \in DOMAIN s /\ j + k - 1 > k - 1 /\ s[j + k - 1] = Do("unlock", l)
    BY <1>1, <2>1
  <2> QED BY <2>2, <2>3 DEF HeldAfter
<1>3. ASSUME NEW i \in 0 .. Len(s) + 1 - k, HeldAfter(s, i + k - 1, l)
      PROVE  \E j \in DOMAIN r :
               /\ j > i /\ r[j] = Do("unlock", l)
               /\ \A h \in i + 1 .. j - 1 : r[h] # Do("lock", l)
  <2>1. PICK j \in DOMAIN s : /\ j > i + k - 1 /\ s[j] = Do("unlock", l)
                              /\ \A h \in i + k - 1 + 1 .. j - 1 : s[h] # Do("lock", l)
    BY <1>3 DEF HeldAfter
  <2>2. \A h \in i + 1 .. j - k : r[h] # Do("lock", l)
    <3> SUFFICES ASSUME NEW h \in i + 1 .. j - k
                 PROVE  r[h] # Do("lock", l)
      OBVIOUS
    <3>1. h + k - 1 \in i + k - 1 + 1 .. j - 1 /\ h \in 1 .. Len(s) + 1 - k
      BY <1>1, <2>1
    <3> QED BY <1>1, <2>1, <3>1
  <2>3. j - k + 1 \in DOMAIN r /\ j - k + 1 > i /\ r[j - k + 1] = Do("unlock", l)
        /\ j - k + 1 - 1 = j - k
    <3>1. j \in Int /\ j > i + k - 1 /\ j <= Len(s)
      BY <1>1, <2>1
    <3>2. j - k + 1 \in 1 .. Len(s) + 1 - k /\ j - k + 1 > i
          /\ (j - k + 1) + k - 1 = j /\ j - k + 1 - 1 = j - k
      BY <1>1, <3>1
    <3>3. r[j - k + 1] = s[j]
      BY <1>1, <3>2
    <3>4. s[j] = Do("unlock", l) /\ DOMAIN r = 1 .. Len(s) + 1 - k
      BY <1>1, <2>1
    <3> QED BY <3>2, <3>3, <3>4
  <2>4. PICK q \in DOMAIN r : q = j - k + 1
    BY <2>3
  <2>5. q > i /\ r[q] = Do("unlock", l) /\ q - 1 = j - k
    BY <2>3, <2>4
  <2>6. \A h \in i + 1 .. q - 1 : r[h] # Do("lock", l)
    BY <2>2, <2>5
  <2> QED BY <2>5, <2>6
<1>4. ASSUME HeldAfter(s, k - 1, l)
      PROVE  GivesBack(r, l)
  <2>1. 0 \in 0 .. Len(s) + 1 - k /\ 0 + k - 1 = k - 1
    BY <1>1
  <2>2. PICK j \in DOMAIN r : /\ j > 0 /\ r[j] = Do("unlock", l)
                              /\ \A h \in 0 + 1 .. j - 1 : r[h] # Do("lock", l)
    BY <1>3, <1>4, <2>1
  <2> QED BY <2>2 DEF GivesBack
<1>5. ASSUME NEW i \in DOMAIN r, HeldAfter(s, i + k - 1, l)
      PROVE  HeldAfter(r, i, l)
  <2>1. i \in 0 .. Len(s) + 1 - k
    BY <1>1
  <2> QED BY <1>3, <1>5, <2>1 DEF HeldAfter
<1> QED BY <1>2, <1>4, <1>5

\* A lock held behind b is not taken in b, and one held in b or behind it is
\* held still.
LEMMA NestedHeld ==
  ASSUME NEW Code, Renamed \subseteq Code, NEW b \in Seq(Code), NEW r \in Seq(Code),
         NEW n, n = Nested(b, r), NEW l, l \notin {Again, Own}
  PROVE  /\ \A i \in DOMAIN r : HeldAfter(r, i, l) => HeldAfter(n, Len(b) + i, l)
         /\ GivesBack(r, l)
              => \A i \in DOMAIN b : HeldAfter(n, i, l) /\ n[i] # Do("lock", l)
         /\ \A i \in DOMAIN b : HeldAfter(b, i, l) => HeldAfter(n, i, l)
         /\ Balanced(b) /\ GivesBack(n, l) => GivesBack(r, l)
<1>0. /\ DOMAIN b = 1 .. Len(b) /\ DOMAIN r = 1 .. Len(r)
      /\ Len(b) \in Nat /\ Len(r) \in Nat
  BY LenProperties
<1>a. InFront(n, b, r)
  BY NestedFacts
<1>1. /\ DOMAIN b = 1 .. Len(b) /\ DOMAIN r = 1 .. Len(r)
      /\ Len(b) \in Nat /\ Len(r) \in Nat
      /\ DOMAIN n = 1 .. Len(b) + Len(r)
      /\ \A i \in 1 .. Len(b) : n[i] = Under(b[i], r)
      /\ \A i \in 1 .. Len(r) : n[Len(b) + i] = r[i]
  BY <1>0, <1>a DEF InFront
<1>2. ASSUME NEW i \in 1 .. Len(b), NEW op \in {"lock", "unlock"}
      PROVE  /\ n[i] = Do(op, l) => b[i] = Do(op, l)
             /\ b[i] = Do(op, l) /\ ~GivesBack(r, l) => n[i] = Do(op, l)
             /\ GivesBack(r, l) => n[i] # Do(op, l)
  <2>1. n[i] = Under(b[i], r) /\ b[i] \in Code
    BY <1>1
  <2>2. Under(b[i], r) = b[i]
          \/ Under(b[i], r) \in {Do(b[i].op, Again), Do(b[i].op, Own)}
    BY DEF Under
  <2>3. Do(op, l).arg = l /\ Do(op, l).op = op
        /\ Do(b[i].op, Again).arg = Again /\ Do(b[i].op, Own).arg = Own
    BY DoFacts
  <2>4. n[i] = Do(op, l) => b[i] = Do(op, l)
    BY <2>1, <2>2, <2>3
  <2>5. b[i] = Do(op, l) /\ ~GivesBack(r, l) => n[i] = Do(op, l)
    BY <2>1, <2>3 DEF Under
  <2>6. GivesBack(r, l) => n[i] # Do(op, l)
    <3> SUFFICES ASSUME GivesBack(r, l), n[i] = Do(op, l)
                 PROVE  FALSE
      OBVIOUS
    <3>1. Under(b[i], r) = Do(b[i].op, IF b[i].arg \in Mutex THEN Own ELSE Again)
      BY <2>3, <2>4 DEF Under
    <3> QED BY <2>1, <2>3, <3>1
  <2> QED BY <2>4, <2>5, <2>6
<1>3. ASSUME NEW i \in DOMAIN r, HeldAfter(r, i, l)
      PROVE  HeldAfter(n, Len(b) + i, l)
  <2>1. PICK j \in DOMAIN r : /\ j > i /\ r[j] = Do("unlock", l)
                              /\ \A k \in i + 1 .. j - 1 : r[k] # Do("lock", l)
    BY <1>3 DEF HeldAfter
  <2>2. \A k \in Len(b) + i + 1 .. Len(b) + j - 1 : n[k] # Do("lock", l)
    <3> SUFFICES ASSUME NEW k \in Len(b) + i + 1 .. Len(b) + j - 1
                 PROVE  n[k] # Do("lock", l)
      OBVIOUS
    <3>1. k - Len(b) \in i + 1 .. j - 1 /\ k - Len(b) \in 1 .. Len(r)
          /\ Len(b) + (k - Len(b)) = k
      BY <1>1, <2>1
    <3> QED BY <1>1, <2>1, <3>1
  <2>3. Len(b) + j \in DOMAIN n /\ Len(b) + j > Len(b) + i
        /\ n[Len(b) + j] = Do("unlock", l)
    BY <1>1, <2>1
  <2> QED BY <2>2, <2>3 DEF HeldAfter
<1>4. ASSUME GivesBack(r, l), NEW i \in DOMAIN b
      PROVE  HeldAfter(n, i, l) /\ n[i] # Do("lock", l)
  <2>1. PICK j \in DOMAIN r : /\ r[j] = Do("unlock", l)
                              /\ \A k \in 1 .. j - 1 : r[k] # Do("lock", l)
    BY <1>4 DEF GivesBack
  <2>2. \A k \in i + 1 .. Len(b) + j - 1 : n[k] # Do("lock", l)
    <3> SUFFICES ASSUME NEW k \in i + 1 .. Len(b) + j - 1
                 PROVE  n[k] # Do("lock", l)
      OBVIOUS
    <3>1. CASE k <= Len(b)
      BY <1>1, <1>2, <1>4, <3>1
    <3>2. CASE k > Len(b)
      <4>1. k - Len(b) \in 1 .. j - 1 /\ k - Len(b) \in 1 .. Len(r)
            /\ Len(b) + (k - Len(b)) = k
        BY <1>1, <2>1, <3>2
      <4> QED BY <1>1, <2>1, <4>1
    <3> QED BY <1>1, <3>1, <3>2
  <2>3. Len(b) + j \in DOMAIN n /\ Len(b) + j > i /\ n[Len(b) + j] = Do("unlock", l)
    BY <1>1, <2>1
  <2>4. n[i] # Do("lock", l)
    BY <1>1, <1>2, <1>4
  <2> QED BY <2>2, <2>3, <2>4 DEF HeldAfter
<1>5. ASSUME NEW i \in DOMAIN b, HeldAfter(b, i, l)
      PROVE  HeldAfter(n, i, l)
  <2>1. CASE GivesBack(r, l)
    BY <1>4, <2>1
  <2>2. CASE ~GivesBack(r, l)
    <3>1. PICK j \in DOMAIN b : /\ j > i /\ b[j] = Do("unlock", l)
                                /\ \A k \in i + 1 .. j - 1 : b[k] # Do("lock", l)
      BY <1>5 DEF HeldAfter
    <3>2. \A k \in i + 1 .. j - 1 : n[k] # Do("lock", l)
      BY <1>1, <1>2, <3>1
    <3>3. j \in DOMAIN n /\ n[j] = Do("unlock", l)
      BY <1>1, <1>2, <2>2, <3>1
    <3> QED BY <3>1, <3>2, <3>3 DEF HeldAfter
  <2> QED BY <2>1, <2>2
<1>6. ASSUME Balanced(b), GivesBack(n, l), ~GivesBack(r, l)
      PROVE  FALSE
  <2>1. PICK j \in DOMAIN n : /\ n[j] = Do("unlock", l)
                              /\ \A k \in 1 .. j - 1 : n[k] # Do("lock", l)
    BY <1>6 DEF GivesBack
  <2>2. CASE j <= Len(b)
    <3>1. j \in DOMAIN b /\ b[j] = Do("unlock", l)
      BY <1>1, <1>2, <2>1, <2>2
    <3>2. \A k \in 1 .. j - 1 : b[k] # Do("lock", l)
      BY <1>1, <1>2, <1>6, <2>1, <2>2
    <3> QED BY <1>6, <3>1, <3>2 DEF Balanced, GivesBack
  <2>3. CASE j > Len(b)
    <3>1. j - Len(b) \in DOMAIN r /\ Len(b) + (j - Len(b)) = j
      BY <1>1, <2>1, <2>3
    <3>2. \A k \in 1 .. (j - Len(b)) - 1 : r[k] # Do("lock", l)
      <4> SUFFICES ASSUME NEW k \in 1 .. (j - Len(b)) - 1
                   PROVE  r[k] # Do("lock", l)
        OBVIOUS
      <4>1. Len(b) + k \in 1 .. j - 1 /\ k \in 1 .. Len(r)
        BY <1>1, <2>1, <2>3
      <4> QED BY <1>1, <2>1, <4>1
    <3> QED BY <1>1, <1>6, <2>1, <3>1, <3>2 DEF GivesBack
  <2> QED BY <1>1, <2>1, <2>2, <2>3
<1> QED BY <1>3, <1>4, <1>5, <1>6

----------------------------------------------------------------------------
(* Sound sequences.                                                        *)

\* What is left of a sound sequence is sound, unless an operation is parted
\* from its lock.
LEMMA SuffixSound ==
  ASSUME NEW Code, NEW D, Plain(Code, D), NEW s, Sound(s, Code, D),
         NEW k \in 1 .. Len(s) + 1,
         k > 1 => s[k - 1].op # "lock" \/ (k <= Len(s) /\ s[k].op = "lock")
  PROVE  Sound(SubSeq(s, k, Len(s)), Code, D)
<1>1. PICK r : r = SubSeq(s, k, Len(s))
  OBVIOUS
<1>2. s \in Seq(Code)
  BY DEF Sound
<1>3. /\ r \in Seq(Code)
      /\ DOMAIN r = 1 .. Len(s) + 1 - k /\ DOMAIN s = 1 .. Len(s) /\ Len(s) \in Nat
      /\ \A i \in 1 .. Len(s) + 1 - k : r[i] = s[i + k - 1]
  BY <1>1, <1>2, SuffixFacts
<1>4. ASSUME NEW i \in DOMAIN r
      PROVE  /\ i + k - 1 \in DOMAIN s /\ r[i] = s[i + k - 1]
             /\ \A l : HeldAfter(s, i + k - 1, l) => HeldAfter(r, i, l)
  <2>0. i \in 1 .. Len(s) + 1 - k
    BY <1>3
  <2>a. i + k - 1 \in 1 .. Len(s)
    BY <1>3, <2>0
  <2>1. i + k - 1 \in DOMAIN s /\ r[i] = s[i + k - 1]
    BY <1>3, <2>0, <2>a
  <2>2. ASSUME NEW l
        PROVE  HeldAfter(s, i + k - 1, l) => HeldAfter(r, i, l)
    BY <1>1, <1>2, SuffixHeld
  <2> QED BY <2>1, <2>2
<1>5. Paired(r)
  <2> SUFFICES ASSUME NEW i \in DOMAIN r, r[i].op = "lock"
               PROVE  i + 1 \in DOMAIN r /\ r[i + 1].op # "unlock"
    BY DEF Paired
  <2>1. i + k - 1 \in DOMAIN s /\ s[i + k - 1].op = "lock"
    BY <1>4
  <2>2. (i + k - 1) + 1 \in DOMAIN s /\ s[(i + k - 1) + 1].op # "unlock"
    BY <2>1 DEF Sound, Paired
  <2>3. i + 1 \in 1 .. Len(s) + 1 - k /\ (i + 1) + k - 1 = (i + k - 1) + 1
    BY <1>3, <2>2
  <2> QED BY <1>3, <2>2, <2>3
<1>6. \A i \in DOMAIN r : \A g \in D.under : r[i].op = g[1] => HeldAfter(r, i, g[2])
  BY <1>4 DEF Sound
<1>7. ASSUME NEW i \in DOMAIN r, NEW g \in D.inside, r[i].op = g[1]
      PROVE  HeldAfter(r, i, g[2]) /\ \A j \in 1 .. i - 1 : r[j] # Do("lock", g[2])
  <2>1. /\ i + k - 1 \in DOMAIN s /\ s[i + k - 1].op = g[1]
    BY <1>4, <1>7
  <2>2. /\ HeldAfter(s, i + k - 1, g[2])
        /\ \A j \in 1 .. (i + k - 1) - 1 : s[j] # Do("lock", g[2])
    BY <2>1 DEF Sound
  <2>3. ASSUME NEW j \in 1 .. i - 1
        PROVE  r[j] # Do("lock", g[2])
    <3>1. j \in 1 .. Len(s) + 1 - k /\ j + k - 1 \in 1 .. (i + k - 1) - 1
      BY <1>3
    <3> QED BY <1>3, <2>2, <3>1
  <2> QED BY <1>4, <2>2, <2>3
<1>8. ASSUME NEW i \in DOMAIN r, NEW g \in D.first, r[i].op = g[1]
      PROVE  i > 1 /\ r[i - 1] \in Taking(g[2])
  <2>1. i + k - 1 \in DOMAIN s /\ s[i + k - 1].op = g[1]
    BY <1>4, <1>8
  <2>2. /\ i + k - 1 > 1
        /\ s[(i + k - 1) - 1] \in Taking(g[2])
    BY <2>1 DEF Sound
  <2>3. i > 1
    <3> SUFFICES ASSUME i = 1 PROVE FALSE
      BY <1>3
    <3>1. k > 1 /\ s[k].op = g[1] /\ s[k - 1].op = "lock"
      BY <2>1, <2>2, DoFacts DEF Taking
    <3>2. g[1] # "lock"
      BY DEF Plain
    <3> QED BY <3>1, <3>2
  <2>4. i - 1 \in 1 .. Len(s) + 1 - k
    BY <1>3, <2>3
  <2>5. (i - 1) + k - 1 = (i + k - 1) - 1
    BY <1>3
  <2>6. r[i - 1] = s[(i - 1) + k - 1]
    BY <1>3, <2>4
  <2>7. r[i - 1] = s[(i + k - 1) - 1]
    BY <2>5, <2>6
  <2> QED BY <2>2, <2>3, <2>7
<1> QED BY <1>1, <1>3, <1>5, <1>6, <1>7, <1>8 DEF Sound

\* Code that is ready for the locks held behind it.
LEMMA NestedSound ==
  ASSUME NEW Code, NEW D, Plain(Code, D), NEW b, NEW H, NEW C,
         Ready(b, Code, D, H, C), NEW r, Sound(r, Code, D),
         \A l \in H \cup C : GivesBack(r, l)
  PROVE  Sound(Nested(b, r), Code, D)
<1>1. PICK n : n = Nested(b, r)
  OBVIOUS
<1>2. b \in Seq(Code) /\ r \in Seq(Code) /\ Renamed \subseteq Code
  BY DEF Sound, Ready, Plain
<1>3. n \in Seq(Code) /\ InFront(n, b, r)
  BY <1>1, <1>2, NestedFacts
<1>4. /\ DOMAIN b = 1 .. Len(b) /\ DOMAIN r = 1 .. Len(r)
      /\ Len(b) \in Nat /\ Len(r) \in Nat
  BY <1>2, LenProperties
<1>5. /\ DOMAIN n = 1 .. Len(b) + Len(r)
      /\ \A i \in 1 .. Len(b) : n[i] = Under(b[i], r)
      /\ \A i \in 1 .. Len(r) : n[Len(b) + i] = r[i]
  BY <1>3 DEF InFront
<1>6. ASSUME NEW i \in 1 .. Len(b)
      PROVE  /\ n[i].op = b[i].op
             /\ n[i] = b[i] \/ n[i] \in {Do(b[i].op, Again), Do(b[i].op, Own)}
  BY <1>5, DoFacts DEF Under
<1>7. ASSUME NEW i \in DOMAIN n, i > Len(b)
      PROVE  i - Len(b) \in DOMAIN r /\ n[i] = r[i - Len(b)] /\ Len(b) + (i - Len(b)) = i
  <2>1. i - Len(b) \in 1 .. Len(r) /\ Len(b) + (i - Len(b)) = i
    BY <1>4, <1>5, <1>7
  <2> QED BY <1>4, <1>5, <2>1
<1>8. ASSUME NEW l, l \notin {Again, Own}
      PROVE  /\ \A i \in DOMAIN r : HeldAfter(r, i, l) => HeldAfter(n, Len(b) + i, l)
             /\ GivesBack(r, l)
                  => \A i \in DOMAIN b : HeldAfter(n, i, l) /\ n[i] # Do("lock", l)
             /\ \A i \in DOMAIN b : HeldAfter(b, i, l) => HeldAfter(n, i, l)
  BY <1>1, <1>2, <1>8, NestedHeld
<1>9. Paired(n)
  <2> SUFFICES ASSUME NEW i \in DOMAIN n, n[i].op = "lock"
               PROVE  i + 1 \in DOMAIN n /\ n[i + 1].op # "unlock"
    BY DEF Paired
  <2>1. CASE i <= Len(b)
    <3>1. i \in DOMAIN b /\ b[i].op = "lock"
      BY <1>4, <1>5, <1>6, <2>1
    <3>2. i + 1 \in DOMAIN b /\ b[i + 1].op # "unlock"
      BY <3>1 DEF Ready, Paired
    <3> QED BY <1>4, <1>5, <1>6, <3>2
  <2>2. CASE i > Len(b)
    <3>1. i - Len(b) \in DOMAIN r /\ r[i - Len(b)].op = "lock"
      BY <1>7, <2>2
    <3>2. (i - Len(b)) + 1 \in DOMAIN r /\ r[(i - Len(b)) + 1].op # "unlock"
      BY <3>1 DEF Sound, Paired
    <3>3. Len(b) + ((i - Len(b)) + 1) = i + 1 /\ i + 1 \in DOMAIN n
      BY <1>4, <1>5, <2>2, <3>2
    <3> QED BY <1>4, <1>5, <3>2, <3>3
  <2> QED BY <1>4, <1>5, <2>1, <2>2
<1>10. \A g \in D.under \cup D.inside \cup D.first : g[2] \notin {Again, Own}
         /\ g[1] \notin {"lock", "unlock"}
  BY DEF Plain
<1>11. ASSUME NEW i \in DOMAIN n, NEW g \in D.under, n[i].op = g[1]
       PROVE  HeldAfter(n, i, g[2])
  <2>1. CASE i <= Len(b)
    <3>1. i \in DOMAIN b /\ b[i].op = g[1]
      BY <1>4, <1>5, <1>6, <1>11, <2>1
    <3>2. HeldAfter(b, i, g[2]) \/ GivesBack(r, g[2])
      BY <3>1 DEF Ready
    <3> QED BY <1>8, <1>10, <3>1, <3>2
  <2>2. CASE i > Len(b)
    <3>1. i - Len(b) \in DOMAIN r /\ r[i - Len(b)].op = g[1] /\ Len(b) + (i - Len(b)) = i
      BY <1>7, <1>11, <2>2
    <3>2. HeldAfter(r, i - Len(b), g[2])
      BY <3>1 DEF Sound
    <3>3. HeldAfter(n, Len(b) + (i - Len(b)), g[2])
      BY <1>8, <1>10, <3>1, <3>2
    <3> QED BY <3>1, <3>3
  <2> QED BY <1>4, <1>5, <2>1, <2>2
<1>12. ASSUME NEW i \in DOMAIN n, NEW g \in D.inside, n[i].op = g[1]
       PROVE  HeldAfter(n, i, g[2]) /\ \A j \in 1 .. i - 1 : n[j] # Do("lock", g[2])
  <2>1. CASE i <= Len(b)
    <3>1. i \in DOMAIN b /\ b[i].op = g[1]
      BY <1>4, <1>5, <1>6, <1>12, <2>1
    <3>2. GivesBack(r, g[2])
      BY <3>1 DEF Ready
    <3>3. \A j \in 1 .. i - 1 : j \in DOMAIN b
      BY <1>4, <3>1
    <3> QED BY <1>8, <1>10, <3>1, <3>2, <3>3
  <2>2. CASE i > Len(b)
    <3>1. i - Len(b) \in DOMAIN r /\ r[i - Len(b)].op = g[1] /\ Len(b) + (i - Len(b)) = i
      BY <1>7, <1>12, <2>2
    <3>2. /\ HeldAfter(r, i - Len(b), g[2])
          /\ \A j \in 1 .. (i - Len(b)) - 1 : r[j] # Do("lock", g[2])
      BY <3>1 DEF Sound
    <3>3. HeldAfter(n, Len(b) + (i - Len(b)), g[2])
      BY <1>8, <1>10, <3>1, <3>2
    <3>4. GivesBack(r, g[2])
      <4>1. PICK h \in DOMAIN r : /\ h > i - Len(b) /\ r[h] = Do("unlock", g[2])
                                  /\ \A k \in (i - Len(b)) + 1 .. h - 1 : r[k] # Do("lock", g[2])
        BY <3>2 DEF HeldAfter
      <4>2. r[i - Len(b)] # Do("lock", g[2])
        BY <1>10, <3>1, DoFacts
      <4>3. \A k \in 1 .. h - 1 : r[k] # Do("lock", g[2])
        <5> SUFFICES ASSUME NEW k \in 1 .. h - 1
                     PROVE  r[k] # Do("lock", g[2])
          OBVIOUS
        <5>1. \/ k \in 1 .. (i - Len(b)) - 1
              \/ k = i - Len(b)
              \/ k \in (i - Len(b)) + 1 .. h - 1
          BY <1>4, <3>1
        <5> QED BY <3>2, <4>1, <4>2, <5>1
      <4> QED BY <4>1, <4>3 DEF GivesBack
    <3>5. ASSUME NEW j \in 1 .. i - 1
          PROVE  n[j] # Do("lock", g[2])
      <4>1. CASE j <= Len(b)
        BY <1>4, <1>8, <1>10, <3>4, <4>1
      <4>2. CASE j > Len(b)
        <5>1. j - Len(b) \in 1 .. (i - Len(b)) - 1 /\ j \in DOMAIN n
          BY <1>4, <1>5, <4>2
        <5> QED BY <1>7, <3>2, <4>2, <5>1
      <4> QED BY <1>4, <4>1, <4>2
    <3> QED BY <3>1, <3>3, <3>5
  <2> QED BY <1>4, <1>5, <2>1, <2>2
<1>13. ASSUME NEW i \in DOMAIN n, NEW g \in D.first, n[i].op = g[1]
       PROVE  i > 1 /\ n[i - 1] \in Taking(g[2])
  <2>1. CASE i <= Len(b)
    <3>1. i \in DOMAIN b /\ b[i].op = g[1]
      BY <1>4, <1>5, <1>6, <1>13, <2>1
    <3>2. i > 1 /\ b[i - 1] = Do("lock", g[2])
      BY <3>1 DEF Ready
    <3>3. i - 1 \in 1 .. Len(b) /\ b[i - 1].op = "lock"
      BY <1>4, <3>1, <3>2, DoFacts
    <3>4. n[i - 1] = Under(b[i - 1], r)
      BY <1>5, <3>3
    <3>5. Under(b[i - 1], r) \in Taking(g[2])
      BY <3>2, DoFacts DEF Under, Taking
    <3> QED BY <3>2, <3>4, <3>5
  <2>2. CASE i > Len(b)
    <3>1. i - Len(b) \in DOMAIN r /\ r[i - Len(b)].op = g[1]
      BY <1>7, <1>13, <2>2
    <3>2. /\ i - Len(b) > 1
          /\ r[(i - Len(b)) - 1] \in Taking(g[2])
      BY <3>1 DEF Sound
    <3>3. i - 1 \in DOMAIN n /\ i - 1 > Len(b) /\ (i - 1) - Len(b) = (i - Len(b)) - 1
      BY <1>4, <1>5, <2>2, <3>2
    <3>4. n[i - 1] = r[(i - 1) - Len(b)]
      BY <1>7, <3>3
    <3>5. i > 1
      BY <1>4, <1>5, <2>2, <3>2
    <3>6. n[i - 1] = r[(i - Len(b)) - 1]
      BY <3>3, <3>4
    <3> QED BY <3>2, <3>5, <3>6
  <2> QED BY <1>4, <1>5, <2>1, <2>2
<1> QED BY <1>1, <1>3, <1>9, <1>11, <1>12, <1>13 DEF Sound

\* Code that an idle thread may start with.
LEMMA ReadySound ==
  ASSUME NEW Code, NEW D, NEW b, Ready(b, Code, D, {}, {})
  PROVE  Sound(b, Code, D)
BY DEF Ready, Sound, Taking

LEMMA EmptySound ==
  ASSUME NEW Code, NEW D
  PROVE  Sound(<<>>, Code, D)
BY DEF Sound, Paired

\* Locks given back by a nested sequence were given back behind it; dropping
\* what gives locks back in front holds no lock that was not held before.
LEMMA AfterUnlocksSound ==
  ASSUME NEW Code, NEW D, Plain(Code, D), NEW s, Sound(s, Code, D)
  PROVE  /\ Sound(AfterUnlocks(s), Code, D)
         /\ \A l : GivesBack(AfterUnlocks(s), l) => GivesBack(s, l)
<1>1. s \in Seq(Code)
  BY DEF Sound
<1>2. DOMAIN s = 1 .. Len(s) /\ Len(s) \in Nat
  BY <1>1, LenProperties
<1>3. PICK k \in 1 .. Len(s) + 1 :
        /\ AfterUnlocks(s) = SubSeq(s, k, Len(s))
        /\ \A j \in 1 .. k - 1 : s[j].op = "unlock"
        /\ k <= Len(s) => s[k].op # "unlock"
  BY <1>1, AfterUnlocksFacts
<1>4. k > 1 => s[k - 1].op # "lock"
  BY <1>2, <1>3
<1>5. Sound(AfterUnlocks(s), Code, D)
  BY <1>3, <1>4, SuffixSound
<1>6. ASSUME NEW l, GivesBack(AfterUnlocks(s), l)
      PROVE  GivesBack(s, l)
  <2>1. HeldAfter(s, k - 1, l)
    BY <1>1, <1>3, <1>6, SuffixHeld
  <2>2. PICK j \in DOMAIN s : /\ j > k - 1 /\ s[j] = Do("unlock", l)
                              /\ \A i \in k - 1 + 1 .. j - 1 : s[i] # Do("lock", l)
    BY <2>1 DEF HeldAfter
  <2>3. ASSUME NEW i \in 1 .. j - 1
        PROVE  s[i] # Do("lock", l)
    <3>1. CASE i <= k - 1
      BY <1>2, <1>3, <3>1, DoFacts
    <3>2. CASE i > k - 1
      BY <1>2, <2>2, <3>2
    <3> QED BY <1>2, <3>1, <3>2
  <2> QED BY <2>2, <2>3 DEF GivesBack
<1> QED BY <1>5, <1>6

----------------------------------------------------------------------------
(* Steps.                                                                  *)

\* Where an operation that is about to be performed is, and what it finds.
LEMMA AtFacts ==
  ASSUME NEW Code, NEW D, Plain(Code, D), Disciplined(Code, D),
         NEW t \in Thread, NEW op, op \notin {"lock", "unlock"}, At(t, op)
  PROVE  /\ todo[t] \in Seq(Code) /\ Place(t) \in DOMAIN todo[t]
         /\ todo[t][Place(t)] \in Code
         /\ todo[t][Place(t)].op = op /\ todo[t][Place(t)].arg = Arg(t)
         /\ Sound(Rest(t), Code, D)
         /\ \A l : l \notin {Again, Own} /\ GivesBack(Rest(t), l)
              => \A u \in Thread \ {t} : ~Holds(u, l)
         /\ \A g \in D.under \cup D.inside : g[1] = op => GivesBack(Rest(t), g[2])
<1>1. PICK s : s = todo[t]
  OBVIOUS
<1>2. s \in Seq(Code) /\ Sound(s, Code, D) /\ Paired(s)
  BY <1>1 DEF Disciplined, Sound
<1>3. DOMAIN s = 1 .. Len(s) /\ Len(s) \in Nat /\ s # <<>>
  BY <1>1, <1>2, LenProperties DEF At, Idle
<1>4. 1 \in DOMAIN s
  BY <1>2, <1>3, EmptySeq
<1>5. PICK p : p = Place(t)
  OBVIOUS
<1>6. /\ p \in DOMAIN s /\ s[p].op = op
      /\ p = 1 \/ (p = 2 /\ s[1].op = "lock")
  <2>1. s[p].op = op
    BY <1>1, <1>5 DEF At
  <2>2. CASE s[1].op = "lock"
    BY <1>1, <1>2, <1>3, <1>4, <1>5, <2>1, <2>2 DEF Place, Paired
  <2>3. CASE s[1].op # "lock"
    BY <1>1, <1>4, <1>5, <2>1, <2>3 DEF Place
  <2> QED BY <2>2, <2>3
<1>7. s[p] \in Code
  BY <1>2, <1>3, <1>6, ElementOfSeq
<1>8. PICK r : r = Rest(t)
  OBVIOUS
<1>9. r = SubSeq(s, p + 1, Len(s)) /\ p + 1 \in 1 .. Len(s) + 1 /\ (p + 1) - 1 = p
  BY <1>1, <1>3, <1>5, <1>6, <1>8 DEF Rest
<1>10. s[(p + 1) - 1].op # "lock"
  BY <1>6, <1>9
<1>11. Sound(r, Code, D)
  BY <1>2, <1>9, <1>10, SuffixSound
<1>12. \A l : GivesBack(r, l) <=> HeldAfter(s, p, l)
  <2> SUFFICES ASSUME NEW l PROVE GivesBack(r, l) <=> HeldAfter(s, p, l)
    OBVIOUS
  <2>1. GivesBack(r, l) <=> HeldAfter(s, (p + 1) - 1, l)
    BY <1>2, <1>9, SuffixHeld
  <2> QED BY <1>9, <2>1
<1>13. ASSUME NEW l, l \notin {Again, Own}, GivesBack(r, l), NEW u \in Thread \ {t}
       PROVE  ~Holds(u, l)
  <2>1. PICK j \in DOMAIN s : /\ j > p /\ s[j] = Do("unlock", l)
                              /\ \A k \in p + 1 .. j - 1 : s[k] # Do("lock", l)
    BY <1>12, <1>13 DEF HeldAfter
  <2>2. s[p] # Do("lock", l)
    BY <1>6, DoFacts
  <2>3. CASE p = 1 \/ s[1] # Do("lock", l)
    <3>1. ASSUME NEW k \in 1 .. j - 1
          PROVE  s[k] # Do("lock", l)
      <4>1. k = p \/ k \in p + 1 .. j - 1 \/ (p = 2 /\ k = 1)
        BY <1>3, <1>6
      <4> QED BY <2>1, <2>2, <2>3, <4>1
    <3>2. Holds(t, l)
      BY <1>1, <2>1, <3>1 DEF Holds, GivesBack
    <3> QED BY <1>13, <3>2 DEF Disciplined, Exclusive
  <2>4. CASE s[1] = Do("lock", l)
    <3>1. Locking(t) /\ todo[t][1].arg = l
      BY <1>1, <2>4, DoFacts DEF Locking, At
    <3>2. CanTake(t, l)
      BY <3>1 DEF At, Waiting
    <3> QED BY <1>13, <3>2 DEF CanTake
  <2> QED BY <2>3, <2>4
<1>14. \A g \in D.under \cup D.inside : g[1] = op => GivesBack(r, g[2])
  BY <1>2, <1>6, <1>12 DEF Sound
<1>15. s[p].arg = Arg(t)
  BY <1>1, <1>5 DEF Arg
<1> QED BY <1>1, <1>2, <1>5, <1>6, <1>7, <1>8, <1>11, <1>13, <1>14, <1>15

\* A thread may hold what nobody else holds.
LEMMA ThreadChanges ==
  ASSUME NEW Code, NEW D, Disciplined(Code, D), NEW t \in Thread,
         NEW s, Sound(s, Code, D), todo' = [todo EXCEPT ![t] = s],
         \A l : l \notin {Again, Own} /\ GivesBack(s, l)
           => \A u \in Thread \ {t} : ~Holds(u, l)
  PROVE  Disciplined(Code, D)'
<1>1. s \in Seq(Code)
  BY DEF Sound
<1>2. todo' \in [Thread -> Seq(Code)]
  BY <1>1 DEF Disciplined
<1>3. todo'[t] = s /\ \A u \in Thread \ {t} : todo'[u] = todo[u]
  BY DEF Disciplined
<1>4. \A u \in Thread : Sound(todo'[u], Code, D)
  BY <1>3 DEF Disciplined
<1>5. ASSUME NEW u \in Thread, NEW v \in Thread \ {u}, NEW l, l \notin {Again, Own},
             GivesBack(todo'[u], l), GivesBack(todo'[v], l)
      PROVE  FALSE
  <2>1. CASE u = t
    BY <1>3, <1>5, <2>1 DEF Holds
  <2>2. CASE v = t
    BY <1>3, <1>5, <2>2 DEF Holds
  <2>3. CASE u # t /\ v # t
    BY <1>3, <1>5, <2>3 DEF Holds, Disciplined, Exclusive
  <2> QED BY <2>1, <2>2, <2>3
<1>6. Exclusive'
  BY <1>5 DEF Exclusive, Holds
<1> QED BY <1>2, <1>4, <1>6 DEF Disciplined

LEMMA StartKeeps ==
  ASSUME NEW Code, NEW D, Disciplined(Code, D), NEW t \in Thread, NEW b,
         Ready(b, Code, D, {}, {}), Start(t, b)
  PROVE  Disciplined(Code, D)'
<1>1. Sound(b, Code, D) /\ \A l : ~GivesBack(b, l)
  BY ReadySound DEF Ready, Balanced
<1>2. todo' = [todo EXCEPT ![t] = b]
  BY DEF Start
<1> QED BY <1>1, <1>2, ThreadChanges

\* An operation goes on with code that relies on the locks it finds held.
LEMMA ContinueKeeps ==
  ASSUME NEW Code, NEW D, Plain(Code, D), Disciplined(Code, D),
         NEW t \in Thread, NEW op, op \notin {"lock", "unlock"}, At(t, op),
         NEW b, NEW H, Ready(b, Code, D, H, H),
         \A l \in H : <<op, l>> \in D.under \cup D.inside, Continue(t, b)
  PROVE  Disciplined(Code, D)'
<1>1. PICK r : r = Rest(t)
  OBVIOUS
<1>2. /\ Sound(r, Code, D)
      /\ \A l : l \notin {Again, Own} /\ GivesBack(r, l)
           => \A u \in Thread \ {t} : ~Holds(u, l)
      /\ \A g \in D.under \cup D.inside : g[1] = op => GivesBack(r, g[2])
  BY <1>1, AtFacts
<1>3. \A l \in H \cup H : GivesBack(r, l)
  <2> SUFFICES ASSUME NEW l \in H PROVE GivesBack(r, l)
    OBVIOUS
  <2>1. <<op, l>>[1] = op /\ <<op, l>>[2] = l
    OBVIOUS
  <2> QED BY <1>2, <2>1
<1>4. PICK n : n = Nested(b, r)
  OBVIOUS
<1>5. Sound(n, Code, D)
  BY <1>2, <1>3, <1>4, NestedSound
<1>6. PICK s : s = AfterUnlocks(n)
  OBVIOUS
<1>7. Sound(s, Code, D) /\ \A l : GivesBack(s, l) => GivesBack(n, l)
  BY <1>5, <1>6, AfterUnlocksSound
<1>8. b \in Seq(Code) /\ r \in Seq(Code) /\ Balanced(b) /\ Renamed \subseteq Code
  BY <1>2 DEF Sound, Ready, Plain
<1>9. \A l : l \notin {Again, Own} /\ GivesBack(n, l) => GivesBack(r, l)
  BY <1>4, <1>8, NestedHeld
<1>10. todo' = [todo EXCEPT ![t] = s]
  BY <1>1, <1>4, <1>6 DEF Continue
<1> QED BY <1>2, <1>7, <1>9, <1>10, ThreadChanges

\* An operation gives its locks back and goes on with code that relies on none.
LEMMA GiveBackKeeps ==
  ASSUME NEW Code, NEW D, Plain(Code, D), Disciplined(Code, D),
         NEW t \in Thread, NEW op, op \notin {"lock", "unlock"}, At(t, op),
         NEW b, Ready(b, Code, D, {}, {}), GiveBack(t, b)
  PROVE  Disciplined(Code, D)'
<1>1. PICK r : r = Rest(t)
  OBVIOUS
<1>2. /\ Sound(r, Code, D)
      /\ \A l : l \notin {Again, Own} /\ GivesBack(r, l)
           => \A u \in Thread \ {t} : ~Holds(u, l)
  BY <1>1, AtFacts
<1>3. PICK s : s = AfterUnlocks(r)
  OBVIOUS
<1>4. Sound(s, Code, D) /\ \A l : GivesBack(s, l) => GivesBack(r, l)
  BY <1>2, <1>3, AfterUnlocksSound
<1>5. PICK n : n = Nested(b, s)
  OBVIOUS
<1>6. Sound(n, Code, D)
  BY <1>4, <1>5, NestedSound
<1>7. b \in Seq(Code) /\ s \in Seq(Code) /\ Balanced(b) /\ Renamed \subseteq Code
  BY <1>4 DEF Sound, Ready, Plain
<1>8. \A l : l \notin {Again, Own} /\ GivesBack(n, l) => GivesBack(s, l)
  BY <1>5, <1>7, NestedHeld
<1>9. todo' = [todo EXCEPT ![t] = n]
  BY <1>1, <1>3, <1>5 DEF GiveBack
<1> QED BY <1>2, <1>4, <1>6, <1>8, <1>9, ThreadChanges

\* A lock is taken on the way to another one.
LEMMA AcquireKeeps ==
  ASSUME NEW Code, NEW D, Plain(Code, D), Disciplined(Code, D),
         NEW t \in Thread, Acquire(t)
  PROVE  Disciplined(Code, D)'
<1>1. PICK s : s = todo[t]
  OBVIOUS
<1>2. s \in Seq(Code) /\ Sound(s, Code, D) /\ Paired(s)
  BY <1>1 DEF Disciplined, Sound
<1>3. DOMAIN s = 1 .. Len(s) /\ Len(s) \in Nat /\ s # <<>> /\ s[1].op = "lock"
  BY <1>1, <1>2, LenProperties DEF Acquire, Locking, Idle
<1>4. 1 \in DOMAIN s /\ 2 \in DOMAIN s /\ s[2].op = "lock"
  BY <1>1, <1>2, <1>3, EmptySeq DEF Paired, Acquire
<1>5. Tail(s) = SubSeq(s, 2, Len(s))
  BY <1>2, <1>3, TailIsSubSeq
<1>6. PICK r : r = SubSeq(s, 2, Len(s))
  OBVIOUS
<1>7. Sound(r, Code, D)
  BY <1>2, <1>3, <1>4, <1>6, SuffixSound
<1>8. todo' = [todo EXCEPT ![t] = r]
  BY <1>1, <1>5, <1>6 DEF Acquire
<1>9. ASSUME NEW l, l \notin {Again, Own}, GivesBack(r, l), NEW u \in Thread \ {t}
      PROVE  ~Holds(u, l)
  <2>1. HeldAfter(s, 1, l)
    <3>1. PICK k \in 1 .. Len(s) + 1 : k = 2
      BY <1>3, <1>4
    <3>2. HeldAfter(s, k - 1, l)
      BY <1>2, <1>6, <1>9, <3>1, SuffixHeld
    <3>3. k - 1 = 1
      BY <3>1
    <3> QED BY <3>2, <3>3
  <2>2. CASE s[1] = Do("lock", l)
    <3>1. Locking(t) /\ ~Waiting(t) /\ todo[t][1].arg = l
      BY <1>1, <2>2, DoFacts DEF Acquire
    <3>2. CanTake(t, l)
      BY <3>1 DEF Waiting
    <3> QED BY <1>9, <3>2 DEF CanTake
  <2>3. CASE s[1] # Do("lock", l)
    <3>1. PICK j \in DOMAIN s : /\ j > 1 /\ s[j] = Do("unlock", l)
                                /\ \A k \in 1 + 1 .. j - 1 : s[k] # Do("lock", l)
      BY <2>1 DEF HeldAfter
    <3>2. \A k \in 1 .. j - 1 : k = 1 \/ k \in 1 + 1 .. j - 1
      BY <1>3
    <3>3. Holds(t, l)
      BY <1>1, <2>3, <3>1, <3>2 DEF Holds, GivesBack
    <3> QED BY <1>9, <3>3 DEF Disciplined, Exclusive
  <2> QED BY <2>2, <2>3
<1> QED BY <1>7, <1>8, <1>9, ThreadChanges

----------------------------------------------------------------------------
(* Code that is ready.                                                     *)

\* Operations that take no locks.
LEMMA ReadyPlain ==
  ASSUME NEW Code, NEW D, NEW H, NEW C, NEW b \in Seq(Code),
         \A i \in DOMAIN b :
           /\ b[i].op \notin {"lock", "unlock"}
           /\ \A g \in D.under : b[i].op = g[1] => g[2] \in H
           /\ \A g \in D.inside : b[i].op = g[1] => g[2] \in C
           /\ \A g \in D.first : b[i].op # g[1]
  PROVE  Ready(b, Code, D, H, C)
<1>1. Balanced(b)
  BY DoFacts DEF Balanced, GivesBack
<1>2. Paired(b)
  BY DEF Paired
<1> QED BY <1>1, <1>2 DEF Ready

LEMMA ReadyEmpty ==
  ASSUME NEW Code, NEW D, NEW H, NEW C
  PROVE  Ready(<<>>, Code, D, H, C)
<1>1. <<>> \in Seq(Code) /\ DOMAIN <<>> = {}
  OBVIOUS
<1> QED BY <1>1, ReadyPlain

LEMMA ReadyOne ==
  ASSUME NEW Code, NEW D, NEW H, NEW C, NEW op, NEW arg, Do(op, arg) \in Code,
         op \notin {"lock", "unlock"},
         \A g \in D.under : op = g[1] => g[2] \in H,
         \A g \in D.inside : op = g[1] => g[2] \in C,
         \A g \in D.first : op # g[1]
  PROVE  Ready(<<Do(op, arg)>>, Code, D, H, C)
<1>1. PICK b : b = <<Do(op, arg)>>
  OBVIOUS
<1>2. b \in Seq(Code) /\ DOMAIN b = {1} /\ b[1].op = op
  BY <1>1, DoFacts
<1>3. Ready(b, Code, D, H, C)
  BY <1>2, ReadyPlain
<1> QED BY <1>1, <1>3

LEMMA ReadyMore ==
  ASSUME NEW Code, NEW D, NEW H, NEW C, NEW b, NEW I, NEW E,
         Ready(b, Code, D, H, C), H \subseteq I, C \subseteq E
  PROVE  Ready(b, Code, D, I, E)
BY DEF Ready

\* One after the other.
LEMMA ReadyJoin ==
  ASSUME NEW Code, NEW D, NEW H, NEW C, NEW b, NEW c,
         Ready(b, Code, D, H, C), Ready(c, Code, D, H, C)
  PROVE  Ready(b \o c, Code, D, H, C)
<1>1. PICK n : n = b \o c
  OBVIOUS
<1>2. b \in Seq(Code) /\ c \in Seq(Code)
  BY DEF Ready
<1>3. /\ DOMAIN b = 1 .. Len(b) /\ DOMAIN c = 1 .. Len(c)
      /\ Len(b) \in Nat /\ Len(c) \in Nat
  BY <1>2, LenProperties
<1>4. n \in Seq(Code) /\ Len(n) = Len(b) + Len(c)
  BY <1>1, <1>2, ConcatProperties
<1>5. DOMAIN n = 1 .. Len(b) + Len(c)
  BY <1>4, LenProperties
<1>6. ASSUME NEW i \in DOMAIN b
      PROVE  i \in DOMAIN n /\ n[i] = b[i]
  BY <1>1, <1>2, <1>3, <1>5
<1>7. ASSUME NEW i \in DOMAIN c
      PROVE  Len(b) + i \in DOMAIN n /\ n[Len(b) + i] = c[i]
  BY <1>1, <1>2, <1>3, <1>5
<1>8. ASSUME NEW i \in DOMAIN n, i > Len(b)
      PROVE  i - Len(b) \in DOMAIN c /\ n[i] = c[i - Len(b)] /\ Len(b) + (i - Len(b)) = i
  <2>1. i - Len(b) \in DOMAIN c /\ Len(b) + (i - Len(b)) = i
    BY <1>3, <1>5, <1>8
  <2> QED BY <1>7, <2>1
<1>9. ASSUME NEW i \in DOMAIN n, i <= Len(b)
      PROVE  i \in DOMAIN b /\ n[i] = b[i]
  <2>1. i \in DOMAIN b
    BY <1>3, <1>5, <1>9
  <2> QED BY <1>6, <2>1
<1>10. \A i \in DOMAIN n : i <= Len(b) \/ i > Len(b)
  BY <1>3, <1>5
<1>11. Balanced(n)
  <2> SUFFICES ASSUME NEW l, NEW j \in DOMAIN n, n[j] = Do("unlock", l),
                      \A k \in 1 .. j - 1 : n[k] # Do("lock", l)
               PROVE  FALSE
    BY DEF Balanced, GivesBack
  <2>1. CASE j <= Len(b)
    <3>1. j \in DOMAIN b /\ b[j] = Do("unlock", l)
      BY <1>9, <2>1
    <3>2. \A k \in 1 .. j - 1 : k \in DOMAIN b
      BY <1>3, <3>1
    <3>3. \A k \in 1 .. j - 1 : b[k] # Do("lock", l)
      BY <1>6, <3>2
    <3> QED BY <3>1, <3>3 DEF Ready, Balanced, GivesBack
  <2>2. CASE j > Len(b)
    <3>1. PICK i : i = j - Len(b)
      OBVIOUS
    <3>2. i \in DOMAIN c /\ c[i] = Do("unlock", l)
      BY <1>8, <2>2, <3>1
    <3>3. ASSUME NEW k \in 1 .. i - 1
          PROVE  c[k] # Do("lock", l)
      <4>1. k \in DOMAIN c /\ Len(b) + k \in 1 .. j - 1
        BY <1>3, <1>5, <3>1, <3>2
      <4> QED BY <1>7, <4>1
    <3> QED BY <3>2, <3>3 DEF Ready, Balanced, GivesBack
  <2> QED BY <1>10, <2>1, <2>2
<1>12. Paired(n)
  <2> SUFFICES ASSUME NEW i \in DOMAIN n, n[i].op = "lock"
               PROVE  i + 1 \in DOMAIN n /\ n[i + 1].op # "unlock"
    BY DEF Paired
  <2>1. CASE i <= Len(b)
    <3>1. i + 1 \in DOMAIN b /\ b[i + 1].op # "unlock"
      BY <1>9, <2>1 DEF Ready, Paired
    <3> QED BY <1>6, <3>1
  <2>2. CASE i > Len(b)
    <3>1. PICK j : j = i - Len(b)
      OBVIOUS
    <3>2. j + 1 \in DOMAIN c /\ c[j + 1].op # "unlock"
      BY <1>8, <2>2, <3>1 DEF Ready, Paired
    <3>3. Len(b) + (j + 1) = i + 1
      BY <1>3, <1>5, <3>1
    <3> QED BY <1>7, <3>2, <3>3
  <2> QED BY <1>10, <2>1, <2>2
<1>13. ASSUME NEW i \in DOMAIN n, NEW g \in D.under, n[i].op = g[1]
       PROVE  HeldAfter(n, i, g[2]) \/ g[2] \in H
  <2>1. CASE i <= Len(b)
    <3>1. i \in DOMAIN b /\ (HeldAfter(b, i, g[2]) \/ g[2] \in H)
      BY <1>9, <1>13, <2>1 DEF Ready
    <3>2. ASSUME HeldAfter(b, i, g[2])
          PROVE  HeldAfter(n, i, g[2])
      <4>1. PICK j \in DOMAIN b : /\ j > i /\ b[j] = Do("unlock", g[2])
                                  /\ \A k \in i + 1 .. j - 1 : b[k] # Do("lock", g[2])
        BY <3>2 DEF HeldAfter
      <4>2. \A k \in i + 1 .. j - 1 : k \in DOMAIN b
        BY <1>3, <3>1
      <4> QED BY <1>6, <4>1, <4>2 DEF HeldAfter
    <3> QED BY <3>1, <3>2
  <2>2. CASE i > Len(b)
    <3>1. PICK h : h = i - Len(b)
      OBVIOUS
    <3>2. h \in DOMAIN c /\ i = Len(b) + h /\ (HeldAfter(c, h, g[2]) \/ g[2] \in H)
      BY <1>8, <1>13, <2>2, <3>1 DEF Ready
    <3>3. ASSUME HeldAfter(c, h, g[2])
          PROVE  HeldAfter(n, i, g[2])
      <4>1. PICK j \in DOMAIN c : /\ j > h /\ c[j] = Do("unlock", g[2])
                                  /\ \A k \in h + 1 .. j - 1 : c[k] # Do("lock", g[2])
        BY <3>3 DEF HeldAfter
      <4>2. PICK q : q = Len(b) + j
        OBVIOUS
      <4>3. q \in DOMAIN n /\ q > i /\ n[q] = Do("unlock", g[2])
        BY <1>3, <1>7, <3>2, <4>1, <4>2
      <4>4. ASSUME NEW k \in i + 1 .. q - 1
            PROVE  n[k] # Do("lock", g[2])
        <5>1. k - Len(b) \in h + 1 .. j - 1 /\ k \in DOMAIN n /\ k > Len(b)
          BY <1>3, <1>5, <3>2, <4>1, <4>2
        <5> QED BY <1>8, <4>1, <5>1
      <4> QED BY <4>3, <4>4 DEF HeldAfter
    <3> QED BY <3>2, <3>3
  <2> QED BY <1>10, <2>1, <2>2
<1>14. ASSUME NEW i \in DOMAIN n, NEW g \in D.inside, n[i].op = g[1]
       PROVE  g[2] \in C
  BY <1>8, <1>9, <1>10, <1>14 DEF Ready
<1>15. ASSUME NEW i \in DOMAIN n, NEW g \in D.first, n[i].op = g[1]
       PROVE  i > 1 /\ n[i - 1] = Do("lock", g[2])
  <2>1. CASE i <= Len(b)
    <3>1. i \in DOMAIN b /\ i > 1 /\ b[i - 1] = Do("lock", g[2])
      BY <1>9, <1>15, <2>1 DEF Ready
    <3>2. i - 1 \in DOMAIN b
      BY <1>3, <3>1
    <3> QED BY <1>6, <3>1, <3>2
  <2>2. CASE i > Len(b)
    <3>1. PICK h : h = i - Len(b)
      OBVIOUS
    <3>2. h \in DOMAIN c /\ h > 1 /\ c[h - 1] = Do("lock", g[2])
      BY <1>8, <1>15, <2>2, <3>1 DEF Ready
    <3>3. h - 1 \in DOMAIN c /\ i - 1 = Len(b) + (h - 1) /\ i > 1
      BY <1>3, <1>5, <3>1, <3>2
    <3> QED BY <1>7, <3>2, <3>3
  <2> QED BY <1>10, <2>1, <2>2
<1> QED BY <1>1, <1>4, <1>11, <1>12, <1>13, <1>14, <1>15 DEF Ready

\* Operations that take no locks, or code that does not rely on l, under l.
LEMMA ReadyWith ==
  ASSUME NEW Code, NEW D, Plain(Code, D), NEW H, NEW C, NEW l,
         NEW b \in Seq(Code), b # <<>>,
         {Do("lock", l), Do("unlock", l)} \subseteq Code,
         \/ Ready(b, Code, D, H, C)
         \/ \A i \in DOMAIN b :
              /\ b[i].op \notin {"lock", "unlock"}
              /\ \A g \in D.under : b[i].op = g[1] => g[2] \in H \cup {l}
              /\ \A g \in D.inside : b[i].op = g[1] => g[2] \in C
              /\ \A g \in D.first : b[i].op = g[1] => i = 1 /\ g[2] = l
  PROVE  Ready(With(l, b), Code, D, H, C)
<1>1. PICK n : n = With(l, b)
  OBVIOUS
<1>2. PICK m : m = Len(b)
  OBVIOUS
<1>3. m \in Nat /\ DOMAIN b = 1 .. m /\ m > 0
  BY <1>2, LenProperties, EmptySeq
<1>4. /\ n \in Seq(Code) /\ DOMAIN n = 1 .. m + 2
      /\ n[1] = Do("lock", l) /\ n[m + 2] = Do("unlock", l)
      /\ \A i \in DOMAIN b : n[i + 1] = b[i]
  <2>1. PICK x, y : x = <<Do("lock", l)>> /\ y = <<Do("unlock", l)>>
    OBVIOUS
  <2>2. /\ x \in Seq(Code) /\ Len(x) = 1 /\ x[1] = Do("lock", l)
        /\ y \in Seq(Code) /\ Len(y) = 1 /\ y[1] = Do("unlock", l)
    BY <2>1
  <2>3. PICK z : z = x \o b
    OBVIOUS
  <2>4. z \in Seq(Code) /\ Len(z) = Len(x) + Len(b)
    <3>1. x \o b \in Seq(Code) /\ Len(x \o b) = Len(x) + Len(b)
      BY <2>2, ConcatProperties
    <3> QED BY <2>3, <3>1
  <2>5. z[1] = Do("lock", l) /\ \A i \in DOMAIN b : z[i + 1] = b[i]
    <3>1. ASSUME NEW i \in 1 .. Len(x)
          PROVE  z[i] = x[i]
      <4>1. x \in Seq(Code)
        BY <2>2
      <4> QED BY <2>3, <4>1
    <3>2. ASSUME NEW i \in 1 .. Len(b)
          PROVE  z[Len(x) + i] = b[i]
      <4>1. x \in Seq(Code)
        BY <2>2
      <4> QED BY <2>3, <4>1
    <3>3. z[1] = Do("lock", l)
      BY <2>2, <3>1
    <3>4. ASSUME NEW i \in DOMAIN b
          PROVE  z[i + 1] = b[i]
      <4>1. i \in 1 .. Len(b) /\ Len(x) + i = i + 1
        BY <1>2, <1>3, <2>2
      <4>2. z[Len(x) + i] = b[i]
        BY <3>2, <4>1
      <4> QED BY <4>1, <4>2
    <3> QED BY <3>3, <3>4
  <2>6. n = z \o y
    BY <1>1, <2>1, <2>3 DEF With
  <2>7. n \in Seq(Code) /\ Len(n) = Len(z) + Len(y)
    <3>1. z \o y \in Seq(Code) /\ Len(z \o y) = Len(z) + Len(y)
      BY <2>2, <2>4, ConcatProperties
    <3> QED BY <2>6, <3>1
  <2>8. Len(z) = m + 1 /\ Len(n) = m + 2
    BY <1>2, <1>3, <2>2, <2>4, <2>7
  <2>9. n[m + 2] = Do("unlock", l)
    BY <1>3, <2>2, <2>4, <2>6, <2>8
  <2>10. \A i \in 1 .. m + 1 : n[i] = z[i]
    BY <1>3, <2>2, <2>4, <2>6, <2>8
  <2>11. n[1] = z[1] /\ \A i \in DOMAIN b : n[i + 1] = z[i + 1]
    BY <1>3, <2>10
  <2>12. DOMAIN n = 1 .. m + 2
    BY <2>7, <2>8, LenProperties
  <2> QED BY <2>5, <2>7, <2>9, <2>11, <2>12
<1>5. ASSUME NEW i \in DOMAIN b
      PROVE  i + 1 \in DOMAIN n /\ n[i + 1] = b[i]
  BY <1>3, <1>4
<1>6. \A i \in DOMAIN n : i = 1 \/ i = m + 2 \/ i - 1 \in DOMAIN b
  BY <1>3, <1>4
<1>7. ASSUME NEW i \in DOMAIN n, i - 1 \in DOMAIN b
      PROVE  n[i] = b[i - 1]
  <2>1. (i - 1) + 1 = i
    BY <1>4
  <2> QED BY <1>5, <1>7, <2>1
<1>8. n[1].op = "lock" /\ n[m + 2].op = "unlock"
  BY <1>4, DoFacts
<1>9. Balanced(b) /\ Paired(b)
  <2>1. CASE Ready(b, Code, D, H, C)
    BY <2>1 DEF Ready
  <2>2. CASE \A i \in DOMAIN b : b[i].op \notin {"lock", "unlock"}
    BY <2>2, DoFacts DEF Balanced, GivesBack, Paired
  <2> QED BY <2>1, <2>2
<1>10. b[1].op # "unlock"
  <2> SUFFICES ASSUME b[1].op = "unlock" PROVE FALSE
    OBVIOUS
  <2>1. 1 \in DOMAIN b /\ b[1] \in Code
    BY <1>3
  <2>2. b[1] = Do("unlock", b[1].arg)
    BY <2>1 DEF Plain
  <2>3. GivesBack(b, b[1].arg)
    BY <2>1, <2>2 DEF GivesBack
  <2> QED BY <1>9, <2>3 DEF Balanced
<1>11. Balanced(n)
  <2> SUFFICES ASSUME NEW x, NEW j \in DOMAIN n, n[j] = Do("unlock", x),
                      \A k \in 1 .. j - 1 : n[k] # Do("lock", x)
               PROVE  FALSE
    BY DEF Balanced, GivesBack
  <2>1. n[j].op = "unlock" /\ n[j].arg = x
    BY DoFacts
  <2>2. j # 1
    BY <1>8, <2>1
  <2>3. CASE j = m + 2
    <3>1. x = l
      BY <1>4, <2>1, <2>3, DoFacts
    <3>2. 1 \in 1 .. j - 1
      BY <1>3, <2>3
    <3> QED BY <1>4, <3>1, <3>2
  <2>4. CASE j - 1 \in DOMAIN b
    <3>1. PICK i : i = j - 1
      OBVIOUS
    <3>2. i \in DOMAIN b /\ b[i] = Do("unlock", x)
      BY <1>7, <2>4, <3>1
    <3>3. ASSUME NEW k \in 1 .. i - 1
          PROVE  b[k] # Do("lock", x)
      <4>1. k \in DOMAIN b /\ k + 1 \in 1 .. j - 1
        BY <1>3, <1>4, <3>1, <3>2
      <4> QED BY <1>5, <4>1
    <3> QED BY <1>9, <3>2, <3>3 DEF Balanced, GivesBack
  <2> QED BY <1>6, <2>2, <2>3, <2>4
<1>12. Paired(n)
  <2> SUFFICES ASSUME NEW i \in DOMAIN n, n[i].op = "lock"
               PROVE  i + 1 \in DOMAIN n /\ n[i + 1].op # "unlock"
    BY DEF Paired
  <2>1. CASE i = 1
    <3>1. 1 \in DOMAIN b
      BY <1>3
    <3>2. 1 + 1 \in DOMAIN n /\ n[1 + 1] = b[1]
      BY <1>5, <3>1
    <3> QED BY <1>10, <2>1, <3>2
  <2>2. CASE i = m + 2
    BY <1>8, <2>2
  <2>3. CASE i - 1 \in DOMAIN b
    <3>1. PICK j : j = i - 1
      OBVIOUS
    <3>2. j + 1 \in DOMAIN b /\ b[j + 1].op # "unlock"
      BY <1>7, <1>9, <2>3, <3>1 DEF Paired
    <3>3. (j + 1) + 1 = i + 1
      BY <1>4, <3>1
    <3>4. (j + 1) + 1 \in DOMAIN n /\ n[(j + 1) + 1] = b[j + 1]
      BY <1>5, <3>2
    <3> QED BY <3>2, <3>3, <3>4
  <2> QED BY <1>6, <2>1, <2>2, <2>3
<1>13. \A g \in D.under \cup D.inside \cup D.first : g[1] \notin {"lock", "unlock"}
  BY DEF Plain
<1>14. ASSUME NEW i \in DOMAIN n, n[i].op \notin {"lock", "unlock"}
       PROVE  i - 1 \in DOMAIN b /\ n[i] = b[i - 1]
  BY <1>6, <1>7, <1>8, <1>14
<1>15. ASSUME NEW i \in DOMAIN n, NEW g \in D.under, n[i].op = g[1]
       PROVE  HeldAfter(n, i, g[2]) \/ g[2] \in H
  <2>1. PICK h : h = i - 1
    OBVIOUS
  <2>2. h \in DOMAIN b /\ b[h].op = g[1] /\ i = h + 1
    BY <1>4, <1>13, <1>14, <1>15, <2>1
  <2>3. CASE Ready(b, Code, D, H, C)
    <3>1. HeldAfter(b, h, g[2]) \/ g[2] \in H
      BY <2>2, <2>3 DEF Ready
    <3>2. ASSUME HeldAfter(b, h, g[2])
          PROVE  HeldAfter(n, i, g[2])
      <4>1. PICK j \in DOMAIN b : /\ j > h /\ b[j] = Do("unlock", g[2])
                                  /\ \A k \in h + 1 .. j - 1 : b[k] # Do("lock", g[2])
        BY <3>2 DEF HeldAfter
      <4>2. PICK q : q = j + 1
        OBVIOUS
      <4>3. q \in DOMAIN n /\ q > i /\ n[q] = Do("unlock", g[2])
        BY <1>3, <1>5, <2>2, <4>1, <4>2
      <4>4. ASSUME NEW k \in i + 1 .. q - 1
            PROVE  n[k] # Do("lock", g[2])
        <5>1. k - 1 \in h + 1 .. j - 1 /\ k - 1 \in DOMAIN b /\ k \in DOMAIN n
          BY <1>3, <1>4, <2>2, <4>1, <4>2
        <5> QED BY <1>7, <4>1, <5>1
      <4> QED BY <4>3, <4>4 DEF HeldAfter
    <3> QED BY <3>1, <3>2
  <2>4. CASE /\ \A k \in DOMAIN b : b[k].op \notin {"lock", "unlock"}
             /\ g[2] \in H \cup {l}
    <3>1. CASE g[2] \in H
      BY <3>1
    <3>2. CASE g[2] = l
      <4>1. ASSUME NEW k \in i + 1 .. (m + 2) - 1
            PROVE  n[k] # Do("lock", l)
        <5>1. k \in DOMAIN n /\ k - 1 \in DOMAIN b
          BY <1>3, <1>4, <2>2
        <5>2. n[k] = b[k - 1] /\ b[k - 1].op # "lock"
          BY <1>7, <2>4, <5>1
        <5> QED BY <5>2, DoFacts
      <4>2. m + 2 \in DOMAIN n /\ m + 2 > i
        BY <1>3, <1>4, <2>2
      <4> QED BY <1>4, <3>2, <4>1, <4>2 DEF HeldAfter
    <3> QED BY <2>4, <3>1, <3>2
  <2> QED BY <2>2, <2>3, <2>4
<1>16. ASSUME NEW i \in DOMAIN n, NEW g \in D.inside, n[i].op = g[1]
       PROVE  g[2] \in C
  <2>1. i - 1 \in DOMAIN b /\ b[i - 1].op = g[1]
    BY <1>13, <1>14, <1>16
  <2> QED BY <2>1 DEF Ready
<1>17. ASSUME NEW i \in DOMAIN n, NEW g \in D.first, n[i].op = g[1]
       PROVE  i > 1 /\ n[i - 1] = Do("lock", g[2])
  <2>1. PICK h : h = i - 1
    OBVIOUS
  <2>2. h \in DOMAIN b /\ b[h].op = g[1] /\ i = h + 1 /\ i > 1
    BY <1>3, <1>4, <1>13, <1>14, <1>17, <2>1
  <2>3. CASE Ready(b, Code, D, H, C)
    <3>1. h > 1 /\ b[h - 1] = Do("lock", g[2])
      BY <2>2, <2>3 DEF Ready
    <3>2. PICK q : q = h - 1
      OBVIOUS
    <3>3. q \in DOMAIN b /\ q + 1 = i - 1
      BY <1>3, <2>2, <3>1, <3>2
    <3>4. n[q + 1] = b[q]
      BY <1>5, <3>3
    <3> QED BY <2>2, <3>1, <3>2, <3>3, <3>4
  <2>4. CASE h = 1 /\ g[2] = l
    <3>1. i - 1 = 1
      BY <2>1, <2>4
    <3> QED BY <1>4, <2>2, <2>4, <3>1
  <2> QED BY <2>2, <2>3, <2>4
<1> QED BY <1>1, <1>4, <1>11, <1>12, <1>15, <1>16, <1>17 DEF Ready

----------------------------------------------------------------------------
(* What a thread has to do after a step.                                   *)

Includes(s, x) == \E i \in DOMAIN s : s[i] = x

IsOperation(x) == x.op \notin {"lock", "unlock"}

\* t has to do what it had left in r, and b in front of it.
Became(t, b, r) ==
  /\ \A u \in Thread \ {t} : todo'[u] = todo[u]
  /\ \A x : IsOperation(x)
       => (Includes(todo'[t], x) <=> Includes(b, x) \/ Includes(r, x))

LEMMA NestedContains ==
  ASSUME NEW Code, Renamed \subseteq Code, NEW b \in Seq(Code), NEW r \in Seq(Code),
         NEW x, IsOperation(x)
  PROVE  Includes(Nested(b, r), x) <=> Includes(b, x) \/ Includes(r, x)
<1>1. PICK n : n = Nested(b, r)
  OBVIOUS
<1>2. InFront(n, b, r)
  BY <1>1, NestedFacts
<1>3. /\ DOMAIN b = 1 .. Len(b) /\ DOMAIN r = 1 .. Len(r)
      /\ Len(b) \in Nat /\ Len(r) \in Nat
      /\ DOMAIN n = 1 .. Len(b) + Len(r)
      /\ \A i \in 1 .. Len(b) : n[i] = Under(b[i], r)
      /\ \A i \in 1 .. Len(r) : n[Len(b) + i] = r[i]
  BY <1>2, LenProperties DEF InFront
<1>4. \A i \in DOMAIN b : i \in DOMAIN n /\ (n[i] = x <=> b[i] = x)
  <2> SUFFICES ASSUME NEW i \in DOMAIN b
               PROVE  i \in DOMAIN n /\ (n[i] = x <=> b[i] = x)
    OBVIOUS
  <2>1. i \in DOMAIN n /\ n[i] = Under(b[i], r)
    BY <1>3
  <2>2. Under(b[i], r) = x <=> b[i] = x
    BY DoFacts DEF Under, IsOperation
  <2> QED BY <2>1, <2>2
<1>5. \A i \in DOMAIN r : Len(b) + i \in DOMAIN n /\ n[Len(b) + i] = r[i]
  BY <1>3
<1>6. ASSUME NEW i \in DOMAIN n, i \notin DOMAIN b
      PROVE  i - Len(b) \in DOMAIN r /\ n[i] = r[i - Len(b)]
  <2>1. i - Len(b) \in DOMAIN r /\ Len(b) + (i - Len(b)) = i
    BY <1>3, <1>6
  <2> QED BY <1>5, <2>1
<1>7. Includes(b, x) \/ Includes(r, x) => Includes(n, x)
  BY <1>4, <1>5 DEF Includes
<1>8. Includes(n, x) => Includes(b, x) \/ Includes(r, x)
  BY <1>4, <1>6 DEF Includes
<1> QED BY <1>1, <1>7, <1>8

LEMMA AfterUnlocksContains ==
  ASSUME NEW Code, NEW s \in Seq(Code), NEW x, IsOperation(x)
  PROVE  Includes(AfterUnlocks(s), x) <=> Includes(s, x)
<1>1. PICK k \in 1 .. Len(s) + 1 :
        /\ AfterUnlocks(s) = SubSeq(s, k, Len(s))
        /\ \A j \in 1 .. k - 1 : s[j].op = "unlock"
        /\ k <= Len(s) => s[k].op # "unlock"
  BY AfterUnlocksFacts
<1>2. PICK r : r = SubSeq(s, k, Len(s))
  OBVIOUS
<1>3. /\ r \in Seq(Code)
      /\ DOMAIN r = 1 .. Len(s) + 1 - k /\ DOMAIN s = 1 .. Len(s) /\ Len(s) \in Nat
      /\ \A i \in 1 .. Len(s) + 1 - k : r[i] = s[i + k - 1]
  BY <1>2, SuffixFacts
<1>4. ASSUME NEW i \in DOMAIN r, r[i] = x
      PROVE  Includes(s, x)
  <2>1. i + k - 1 \in DOMAIN s
    BY <1>3
  <2>2. s[i + k - 1] = x
    BY <1>3, <1>4
  <2> QED BY <2>1, <2>2 DEF Includes
<1>5. ASSUME NEW i \in DOMAIN s, s[i] = x
      PROVE  Includes(r, x)
  <2>1. i \notin 1 .. k - 1
    BY <1>1, <1>5 DEF IsOperation
  <2>2. PICK j : j = i - k + 1
    OBVIOUS
  <2>5. i \in Int /\ k \in Int /\ i <= Len(s) /\ i >= k /\ Len(s) \in Int
    BY <1>3, <2>1
  <2>6. j >= 1 /\ j <= Len(s) + 1 - k /\ j \in Int
    BY <2>2, <2>5
  <2>7. j + k - 1 = i
    BY <2>2, <2>5
  <2>3. j \in 1 .. Len(s) + 1 - k /\ j + k - 1 = i
    BY <2>5, <2>6, <2>7
  <2>4. r[j] = x /\ j \in DOMAIN r
    BY <1>3, <1>5, <2>3
  <2> QED BY <2>4 DEF Includes
<1> QED BY <1>1, <1>2, <1>4, <1>5 DEF Includes

LEMMA StartChanges ==
  ASSUME NEW Code, NEW D, Disciplined(Code, D), NEW t \in Thread, NEW b, Start(t, b)
  PROVE  Became(t, b, <<>>) /\ todo[t] = <<>>
<1>1. \A x : ~Includes(<<>>, x)
  BY DEF Includes
<1>2. /\ todo'[t] = b /\ \A u \in Thread \ {t} : todo'[u] = todo[u]
      /\ todo[t] = <<>>
  BY DEF Start, Idle, Disciplined
<1> QED BY <1>1, <1>2 DEF Became

LEMMA ContinueChanges ==
  ASSUME NEW Code, NEW D, Plain(Code, D), Disciplined(Code, D),
         NEW t \in Thread, NEW op, op \notin {"lock", "unlock"}, At(t, op),
         NEW b \in Seq(Code), Continue(t, b)
  PROVE  Became(t, b, Rest(t))
<1>1. PICK r : r = Rest(t)
  OBVIOUS
<1>2. r \in Seq(Code) /\ Renamed \subseteq Code
  BY <1>1, AtFacts DEF Sound, Plain
<1>3. PICK n : n = Nested(b, r)
  OBVIOUS
<1>4. n \in Seq(Code)
  BY <1>2, <1>3, NestedFacts
<1>5. todo'[t] = AfterUnlocks(n) /\ \A u \in Thread \ {t} : todo'[u] = todo[u]
  BY <1>1, <1>3 DEF Continue, Disciplined
<1>6. ASSUME NEW x, IsOperation(x)
      PROVE  Includes(todo'[t], x) <=> Includes(b, x) \/ Includes(r, x)
  <2>1. Includes(AfterUnlocks(n), x) <=> Includes(n, x)
    BY <1>4, <1>6, AfterUnlocksContains
  <2>2. Includes(n, x) <=> Includes(b, x) \/ Includes(r, x)
    BY <1>2, <1>3, <1>6, NestedContains
  <2> QED BY <1>5, <2>1, <2>2
<1> QED BY <1>1, <1>5, <1>6 DEF Became

LEMMA GiveBackChanges ==
  ASSUME NEW Code, NEW D, Plain(Code, D), Disciplined(Code, D),
         NEW t \in Thread, NEW op, op \notin {"lock", "unlock"}, At(t, op),
         NEW b \in Seq(Code), GiveBack(t, b)
  PROVE  Became(t, b, Rest(t))
<1>1. PICK r : r = Rest(t)
  OBVIOUS
<1>2. r \in Seq(Code) /\ Sound(r, Code, D) /\ Renamed \subseteq Code
  BY <1>1, AtFacts DEF Sound, Plain
<1>3. PICK a : a = AfterUnlocks(r)
  OBVIOUS
<1>4. a \in Seq(Code)
  BY <1>2, <1>3, AfterUnlocksSound DEF Sound
<1>5. todo'[t] = Nested(b, a) /\ \A u \in Thread \ {t} : todo'[u] = todo[u]
  BY <1>1, <1>3 DEF GiveBack, Disciplined
<1>6. ASSUME NEW x, IsOperation(x)
      PROVE  Includes(todo'[t], x) <=> Includes(b, x) \/ Includes(r, x)
  <2>1. Includes(a, x) <=> Includes(r, x)
    BY <1>2, <1>3, <1>6, AfterUnlocksContains
  <2>2. Includes(Nested(b, a), x) <=> Includes(b, x) \/ Includes(a, x)
    BY <1>2, <1>4, <1>6, NestedContains
  <2> QED BY <1>5, <2>1, <2>2
<1> QED BY <1>1, <1>5, <1>6 DEF Became

LEMMA AcquireChanges ==
  ASSUME NEW Code, NEW D, Disciplined(Code, D), NEW t \in Thread, Acquire(t)
  PROVE  Became(t, <<>>, todo[t])
<1>1. PICK s : s = todo[t]
  OBVIOUS
<1>2. s \in Seq(Code) /\ s # <<>> /\ s[1].op = "lock"
  BY <1>1 DEF Disciplined, Acquire, Locking, Idle
<1>3. PICK r : r = Tail(s)
  OBVIOUS
<1>4. todo'[t] = r /\ \A u \in Thread \ {t} : todo'[u] = todo[u]
  BY <1>1, <1>3 DEF Acquire, Disciplined
<1>5. /\ Len(s) \in Nat /\ DOMAIN s = 1 .. Len(s) /\ DOMAIN r = 1 .. Len(s) - 1
      /\ \A i \in 1 .. Len(s) - 1 : r[i] = s[i + 1]
  BY <1>2, <1>3, HeadTailProperties, LenProperties
<1>6. ASSUME NEW x, IsOperation(x)
      PROVE  Includes(r, x) <=> Includes(s, x)
  <2>1. ASSUME NEW i \in DOMAIN s, s[i] = x
        PROVE  Includes(r, x)
    <3>1. i # 1
      BY <1>2, <1>6, <2>1 DEF IsOperation
    <3>2. PICK j : j = i - 1
      OBVIOUS
    <3>3. j \in DOMAIN r /\ j + 1 = i
      BY <1>5, <3>1, <3>2
    <3>4. r[j] = x
      BY <1>5, <2>1, <3>3
    <3> QED BY <3>3, <3>4 DEF Includes
  <2>2. ASSUME NEW i \in DOMAIN r, r[i] = x
        PROVE  Includes(s, x)
    BY <1>5, <2>2 DEF Includes
  <2> QED BY <2>1, <2>2 DEF Includes
<1>7. \A x : ~Includes(<<>>, x)
  BY DEF Includes
<1> QED BY <1>1, <1>4, <1>6, <1>7 DEF Became

\* n is what is left behind p in s, with b in front, less some locks.
Shifted(n, b, s, p) ==
  \E d, e \in Int : \A i \in DOMAIN n :
    IsOperation(n[i])
      => \/ i + d \in DOMAIN b /\ n[i] = b[i + d]
         \/ i + d > Len(b) /\ i + e > p /\ i + e \in DOMAIN s /\ n[i] = s[i + e]

\* An instruction that nesting does not rename.
Genuine(x) == x.op # "unlock" /\ x \notin Renamed

\* The same with the locks that are held.
Traced(n, b, s, p) ==
  \E d \in Nat, e \in Int : \A i \in DOMAIN n :
    Genuine(n[i])
      => \/ /\ i + d \in DOMAIN b /\ n[i] = b[i + d]
            /\ \A l : l \notin {Again, Own} /\ (HeldAfter(b, i + d, l) \/ HeldAfter(s, p, l))
                 => HeldAfter(n, i, l)
         \/ /\ i + d > Len(b) /\ i + e > p /\ i + e \in DOMAIN s /\ n[i] = s[i + e]
            /\ \A l : l \notin {Again, Own} /\ HeldAfter(s, i + e, l) => HeldAfter(n, i, l)

LEMMA ContinueTraces ==
  ASSUME NEW Code, NEW D, Plain(Code, D), Disciplined(Code, D),
         NEW t \in Thread, NEW op, op \notin {"lock", "unlock"}, At(t, op),
         NEW b \in Seq(Code), Continue(t, b)
  PROVE  Traced(todo'[t], b, todo[t], Place(t))
<1>1. PICK s, p, r : s = todo[t] /\ p = Place(t) /\ r = Rest(t)
  OBVIOUS
<1>2. s \in Seq(Code) /\ p \in DOMAIN s /\ Renamed \subseteq Code /\ r \in Seq(Code)
  BY <1>1, AtFacts DEF Plain, Sound
<1>3. DOMAIN s = 1 .. Len(s) /\ Len(s) \in Nat /\ p + 1 \in 1 .. Len(s) + 1
  BY <1>2, LenProperties
<1>4. r = SubSeq(s, p + 1, Len(s))
  BY <1>1 DEF Rest
<1>5. PICK h \in 1 .. Len(s) + 1 : h = p + 1
  BY <1>3
<1>6. /\ DOMAIN r = 1 .. Len(s) + 1 - h
      /\ \A i \in 1 .. Len(s) + 1 - h : r[i] = s[i + h - 1]
  BY <1>2, <1>4, <1>5, SuffixFacts
<1>7. PICK n : n = Nested(b, r)
  OBVIOUS
<1>8. n \in Seq(Code) /\ InFront(n, b, r)
  BY <1>2, <1>7, NestedFacts
<1>9. /\ DOMAIN b = 1 .. Len(b) /\ Len(b) \in Nat
      /\ DOMAIN r = 1 .. Len(r) /\ Len(r) \in Nat
      /\ DOMAIN n = 1 .. Len(b) + Len(r)
      /\ \A i \in 1 .. Len(b) : n[i] = Under(b[i], r)
      /\ \A i \in 1 .. Len(r) : n[Len(b) + i] = r[i]
  BY <1>2, <1>8, LenProperties DEF InFront
<1>10. PICK k \in 1 .. Len(n) + 1 : AfterUnlocks(n) = SubSeq(n, k, Len(n))
  BY <1>8, AfterUnlocksFacts
<1>11. PICK q : q = SubSeq(n, k, Len(n))
  OBVIOUS
<1>12. /\ DOMAIN q = 1 .. Len(n) + 1 - k
       /\ \A i \in 1 .. Len(n) + 1 - k : q[i] = n[i + k - 1]
  BY <1>8, <1>11, SuffixFacts
<1>13. Len(n) \in Nat /\ DOMAIN n = 1 .. Len(n)
  BY <1>8, LenProperties
<1>c. k - 1 \in Nat /\ (k - 1 - Len(b)) + p \in Int
  <2>1. k \in Int /\ 1 <= k /\ Len(b) \in Int /\ p \in Int
    BY <1>2, <1>3, <1>9, <1>13
  <2>2. PICK w \in Int : w = Len(b)
    BY <2>1
  <2>3. k - 1 \in Nat /\ (k - 1 - w) + p \in Int
    BY <2>1
  <2> QED BY <2>2, <2>3
<1>14. PICK d \in Nat, e \in Int : d = k - 1 /\ e = (k - 1 - Len(b)) + p
  BY <1>c
<1>a. ASSUME NEW l, l \notin {Again, Own}
      PROVE  /\ \A i \in DOMAIN r : HeldAfter(r, i, l) => HeldAfter(n, Len(b) + i, l)
             /\ GivesBack(r, l) => \A i \in DOMAIN b : HeldAfter(n, i, l)
             /\ \A i \in DOMAIN b : HeldAfter(b, i, l) => HeldAfter(n, i, l)
             /\ GivesBack(r, l) <=> HeldAfter(s, h - 1, l)
             /\ \A i \in DOMAIN r : HeldAfter(s, i + h - 1, l) => HeldAfter(r, i, l)
             /\ \A i \in DOMAIN q : HeldAfter(n, i + k - 1, l) => HeldAfter(q, i, l)
  <2>1. r = SubSeq(s, h, Len(s))
    BY <1>4, <1>5
  <2>2. /\ GivesBack(r, l) <=> HeldAfter(s, h - 1, l)
        /\ \A i \in DOMAIN r : HeldAfter(s, i + h - 1, l) => HeldAfter(r, i, l)
    BY <1>2, <2>1, SuffixHeld
  <2>3. \A i \in DOMAIN q : HeldAfter(n, i + k - 1, l) => HeldAfter(q, i, l)
    BY <1>8, <1>11, SuffixHeld
  <2>4. /\ \A i \in DOMAIN r : HeldAfter(r, i, l) => HeldAfter(n, Len(b) + i, l)
        /\ GivesBack(r, l)
             => \A i \in DOMAIN b : HeldAfter(n, i, l) /\ n[i] # Do("lock", l)
        /\ \A i \in DOMAIN b : HeldAfter(b, i, l) => HeldAfter(n, i, l)
    BY <1>2, <1>7, <1>a, NestedHeld
  <2> QED BY <2>2, <2>3, <2>4
<1>b. h - 1 = p
  BY <1>2, <1>3, <1>5
<1>15. ASSUME NEW i \in DOMAIN q, Genuine(q[i])
       PROVE  \/ /\ i + d \in DOMAIN b /\ q[i] = b[i + d]
                 /\ \A l : l \notin {Again, Own} /\ (HeldAfter(b, i + d, l) \/ HeldAfter(s, p, l))
                      => HeldAfter(q, i, l)
              \/ /\ i + d > Len(b) /\ i + e > p /\ i + e \in DOMAIN s /\ q[i] = s[i + e]
                 /\ \A l : l \notin {Again, Own} /\ HeldAfter(s, i + e, l) => HeldAfter(q, i, l)
  <2>1. PICK m : m = i + d
    OBVIOUS
  <2>2. m \in DOMAIN n /\ m = i + k - 1 /\ m \in Nat
    BY <1>12, <1>13, <1>14, <2>1
  <2>3. q[i] = n[m]
    BY <1>12, <2>2
  <2>4. CASE m <= Len(b)
    <3>1. m \in DOMAIN b /\ n[m] = Under(b[m], r)
      BY <1>9, <2>2, <2>4
    <3>2. n[m] = b[m]
      BY <1>15, <2>3, <3>1, DoFacts DEF Under, Genuine, Renamed
    <3>3. ASSUME NEW l, l \notin {Again, Own}, HeldAfter(b, m, l) \/ HeldAfter(s, p, l)
          PROVE  HeldAfter(q, i, l)
      <4>1. HeldAfter(n, m, l)
        BY <1>a, <1>b, <3>1, <3>3
      <4>2. HeldAfter(n, i + k - 1, l)
        BY <2>2, <4>1
      <4> QED BY <1>a, <3>3, <4>2
    <3> QED BY <2>1, <2>3, <3>1, <3>2, <3>3
  <2>5. CASE ~(m <= Len(b))
    <3>1. PICK j : j = m - Len(b)
      OBVIOUS
    <3>2. j \in 1 .. Len(r) /\ Len(b) + j = m
      BY <1>9, <2>2, <2>5, <3>1
    <3>3. n[m] = r[j]
      BY <1>9, <3>2
    <3>4. PICK g : g = j + h - 1
      OBVIOUS
    <3>5. j \in 1 .. Len(s) + 1 - h
      BY <1>6, <1>9, <3>2
    <3>6. r[j] = s[g]
      BY <1>6, <3>4, <3>5
    <3>7. PICK u, v : u = Len(b) /\ v = Len(s)
      OBVIOUS
    <3>8. /\ i \in Int /\ k \in Int /\ p \in Int /\ h \in Int /\ j \in Int
           /\ u \in Int /\ v \in Int /\ h = p + 1 /\ g = j + h - 1 /\ p >= 1
           /\ 1 <= j /\ j <= v + 1 - h
      BY <1>2, <1>3, <1>5, <1>9, <1>12, <1>13, <3>4, <3>5, <3>7
    <3>9. j = m - u /\ m = i + d /\ d = k - 1 /\ e = (k - 1 - u) + p
      BY <1>14, <2>1, <3>1, <3>7
    <3>10. d \in Int /\ e \in Int
      BY <1>14
    <3>11. g = j + p
      BY <3>8
    <3>12. j = ((i + d) - u)
      BY <3>9
    <3>13. \A x, y, w, z \in Int : x + ((y - w) + z) = ((x + y) - w) + z
      OBVIOUS
    <3>14. i \in Int /\ d \in Int /\ u \in Int /\ p \in Int
      BY <3>8, <3>10
    <3>15. e = (d - u) + p
      BY <3>9
    <3>16. i + e = ((i + d) - u) + p
      BY <3>13, <3>14, <3>15
    <3>17. g = i + e
      BY <3>11, <3>12, <3>16
    <3>18. g \in 1 .. v /\ g > p
      BY <3>8
    <3>19. g \in DOMAIN s /\ g > p
      BY <1>3, <3>7, <3>18
    <3>20. m > Len(b)
      BY <1>9, <2>2, <2>5
    <3>21. ASSUME NEW l, l \notin {Again, Own}, HeldAfter(s, g, l)
           PROVE  HeldAfter(q, i, l)
      <4>1. j \in DOMAIN r
        BY <1>9, <3>2
      <4>2. HeldAfter(s, j + h - 1, l)
        BY <3>4, <3>21
      <4>3. HeldAfter(r, j, l)
        BY <1>a, <3>21, <4>1, <4>2
      <4>4. HeldAfter(n, Len(b) + j, l)
        BY <1>a, <3>21, <4>1, <4>3
      <4>5. HeldAfter(n, i + k - 1, l)
        BY <2>2, <3>2, <4>4
      <4> QED BY <1>a, <3>21, <4>5
    <3> QED BY <2>1, <2>3, <3>3, <3>6, <3>19, <3>17, <3>20, <3>21
  <2> QED BY <2>4, <2>5
<1>16. Traced(q, b, s, p)
  BY <1>15 DEF Traced
<1>17. todo'[t] = q
  BY <1>1, <1>7, <1>10, <1>11 DEF Continue, Disciplined
<1> QED BY <1>1, <1>16, <1>17

LEMMA TracedShifted ==
  ASSUME NEW n, NEW b, NEW s, NEW p, Traced(n, b, s, p)
  PROVE  Shifted(n, b, s, p)
<1>1. \A x \in Renamed : x.op \in {"lock", "unlock"}
  BY DoFacts DEF Renamed
<1>2. \A x : IsOperation(x) => Genuine(x)
  BY <1>1 DEF IsOperation, Genuine
<1>3. PICK d \in Nat, e \in Int : \A i \in DOMAIN n :
        Genuine(n[i])
          => \/ i + d \in DOMAIN b /\ n[i] = b[i + d]
             \/ i + d > Len(b) /\ i + e > p /\ i + e \in DOMAIN s /\ n[i] = s[i + e]
  BY DEF Traced
<1>4. d \in Int
  OBVIOUS
<1> QED BY <1>2, <1>3, <1>4 DEF Shifted

LEMMA ContinueOrder ==
  ASSUME NEW Code, NEW D, Plain(Code, D), Disciplined(Code, D),
         NEW t \in Thread, NEW op, op \notin {"lock", "unlock"}, At(t, op),
         NEW b \in Seq(Code), Continue(t, b)
  PROVE  Shifted(todo'[t], b, todo[t], Place(t))
BY ContinueTraces, TracedShifted

LEMMA AcquireTraces ==
  ASSUME NEW Code, NEW D, Disciplined(Code, D), NEW t \in Thread, Acquire(t)
  PROVE  Traced(todo'[t], <<>>, todo[t], 1)
<1>1. PICK s : s = todo[t]
  OBVIOUS
<1>2. s \in Seq(Code) /\ s # <<>>
  BY <1>1 DEF Disciplined, Acquire, Locking, Idle
<1>3. PICK r : r = Tail(s)
  OBVIOUS
<1>4. todo'[t] = r
  BY <1>1, <1>3 DEF Acquire, Disciplined
<1>5. /\ Len(s) \in Nat /\ DOMAIN s = 1 .. Len(s) /\ DOMAIN r = 1 .. Len(s) - 1
      /\ \A i \in 1 .. Len(s) - 1 : r[i] = s[i + 1]
  BY <1>2, <1>3, HeadTailProperties, LenProperties
<1>6. \A i \in DOMAIN r : /\ i + 0 > Len(<<>>) /\ i + 1 > 1
                          /\ i + 1 \in DOMAIN s /\ r[i] = s[i + 1]
  BY <1>5
<1>7. ASSUME NEW i \in DOMAIN r, NEW l, HeldAfter(s, i + 1, l)
      PROVE  HeldAfter(r, i, l)
  <2>1. r = SubSeq(s, 2, Len(s)) /\ 2 \in 1 .. Len(s) + 1
    BY <1>2, <1>3, TailIsSubSeq, EmptySeq, LenProperties
  <2>2. PICK k \in 1 .. Len(s) + 1 : k = 2
    BY <2>1
  <2>3. r = SubSeq(s, k, Len(s)) /\ i + k - 1 = i + 1
    BY <1>5, <2>1, <2>2
  <2>4. HeldAfter(s, i + k - 1, l)
    BY <1>7, <2>3
  <2> QED BY <1>2, <2>3, <2>4, SuffixHeld
<1>8. 0 \in Nat /\ 1 \in Int
  OBVIOUS
<1>9. Traced(r, <<>>, s, 1)
  BY <1>6, <1>7, <1>8 DEF Traced
<1> QED BY <1>1, <1>4, <1>9

LEMMA AcquireOrder ==
  ASSUME NEW Code, NEW D, Disciplined(Code, D), NEW t \in Thread, Acquire(t)
  PROVE  Shifted(todo'[t], <<>>, todo[t], 1)
BY AcquireTraces, TracedShifted

\* What is left was there.
LEMMA RestContained ==
  ASSUME NEW Code, NEW D, Plain(Code, D), Disciplined(Code, D),
         NEW t \in Thread, NEW op, op \notin {"lock", "unlock"}, At(t, op),
         NEW x, Includes(Rest(t), x)
  PROVE  \E i \in DOMAIN todo[t] : i > Place(t) /\ i > 1 /\ todo[t][i] = x
<1>1. PICK s, p, r : s = todo[t] /\ p = Place(t) /\ r = Rest(t)
  OBVIOUS
<1>2. s \in Seq(Code) /\ p \in DOMAIN s
  BY <1>1, AtFacts
<1>3. DOMAIN s = 1 .. Len(s) /\ Len(s) \in Nat /\ p + 1 \in 1 .. Len(s) + 1
  BY <1>2, LenProperties
<1>4. r = SubSeq(s, p + 1, Len(s))
  BY <1>1 DEF Rest
<1>5. PICK k \in 1 .. Len(s) + 1 : k = p + 1
  BY <1>3
<1>6. r = SubSeq(s, k, Len(s))
  BY <1>4, <1>5
<1>7. /\ DOMAIN r = 1 .. Len(s) + 1 - k
      /\ \A i \in 1 .. Len(s) + 1 - k : r[i] = s[i + k - 1]
  BY <1>2, <1>6, SuffixFacts
<1>8. PICK i \in DOMAIN r : r[i] = x
  BY <1>1 DEF Includes
<1>9. PICK j : j = i + k - 1
  OBVIOUS
<1>10. j \in DOMAIN s /\ j > p /\ j > 1
  BY <1>2, <1>3, <1>5, <1>7, <1>9
<1>11. s[j] = x
  BY <1>7, <1>8, <1>9
<1> QED BY <1>1, <1>10, <1>11

\* What comes after the operation is left.
LEMMA OthersInRest ==
  ASSUME NEW Code, NEW D, Plain(Code, D), Disciplined(Code, D),
         NEW t \in Thread, NEW op, op \notin {"lock", "unlock"}, At(t, op),
         NEW x, IsOperation(x), x # todo[t][Place(t)], Includes(todo[t], x)
  PROVE  Includes(Rest(t), x)
<1>1. PICK s, p, r : s = todo[t] /\ p = Place(t) /\ r = Rest(t)
  OBVIOUS
<1>2. s \in Seq(Code) /\ p \in DOMAIN s /\ s[p].op = op
  BY <1>1, AtFacts
<1>3. DOMAIN s = 1 .. Len(s) /\ Len(s) \in Nat /\ p + 1 \in 1 .. Len(s) + 1
  BY <1>2, LenProperties
<1>4. r = SubSeq(s, p + 1, Len(s))
  BY <1>1 DEF Rest
<1>5. PICK k \in 1 .. Len(s) + 1 : k = p + 1
  BY <1>3
<1>6. r = SubSeq(s, k, Len(s))
  BY <1>4, <1>5
<1>7. /\ DOMAIN r = 1 .. Len(s) + 1 - k
      /\ \A i \in 1 .. Len(s) + 1 - k : r[i] = s[i + k - 1]
  BY <1>2, <1>6, SuffixFacts
<1>8. PICK i \in DOMAIN s : s[i] = x
  BY <1>1 DEF Includes
<1>9. i # p
  BY <1>1, <1>2, <1>8
<1>10. p = 2 => i # 1
  BY <1>1, <1>2, <1>8 DEF Place, IsOperation
<1>11. p \in {1, 2}
  BY <1>1 DEF Place
<1>12. PICK j : j = i - p
  OBVIOUS
<1>13. PICK v : v = Len(s)
  OBVIOUS
<1>14. i \in Int /\ p \in Int /\ v \in Int /\ 1 <= i /\ i <= v /\ i > p /\ k = p + 1
  BY <1>3, <1>5, <1>9, <1>10, <1>11, <1>13
<1>15. j \in 1 .. v + 1 - k /\ j + k - 1 = i
  BY <1>12, <1>14
<1>16. j \in DOMAIN r /\ r[j] = s[i]
  BY <1>7, <1>13, <1>15
<1> QED BY <1>1, <1>8, <1>16 DEF Includes

LEMMA LeftInRest ==
  ASSUME NEW Code, NEW D, Plain(Code, D), Disciplined(Code, D),
         NEW t \in Thread, NEW op, op \notin {"lock", "unlock"}, At(t, op),
         NEW x, IsOperation(x), x.op # op, Includes(todo[t], x)
  PROVE  Includes(Rest(t), x)
BY AtFacts, OthersInRest

\* What is done inside a lock keeps that lock held from the start.
LEMMA InsideHolds ==
  ASSUME NEW Code, NEW D, NEW t, Sound(todo[t], Code, D), NEW i \in DOMAIN todo[t],
         NEW g \in D.inside, todo[t][i].op = g[1], g[1] \notin {"lock", "unlock"}
  PROVE  Holds(t, g[2])
<1>1. PICK s, l : s = todo[t] /\ l = g[2]
  OBVIOUS
<1>2. /\ s \in Seq(Code) /\ HeldAfter(s, i, l)
      /\ \A j \in 1 .. i - 1 : s[j] # Do("lock", l)
  BY <1>1 DEF Sound
<1>3. PICK j \in DOMAIN s : /\ j > i /\ s[j] = Do("unlock", l)
                            /\ \A k \in i + 1 .. j - 1 : s[k] # Do("lock", l)
  BY <1>2 DEF HeldAfter
<1>4. s[i] # Do("lock", l)
  BY <1>1, DoFacts
<1>5. DOMAIN s = 1 .. Len(s) /\ Len(s) \in Nat
  BY <1>2, LenProperties
<1>6. ASSUME NEW k \in 1 .. j - 1
      PROVE  s[k] # Do("lock", l)
  <2>1. k \in 1 .. i - 1 \/ k = i \/ k \in i + 1 .. j - 1
    BY <1>1, <1>3, <1>5
  <2> QED BY <1>2, <1>3, <1>4, <2>1
<1>7. GivesBack(s, l)
  BY <1>3, <1>6 DEF GivesBack
<1> QED BY <1>1, <1>7 DEF Holds

LEMMA InitDisciplined ==
  ASSUME NEW Code, NEW D, ThreadsInit
  PROVE  Disciplined(Code, D)
<1>1. \A t \in Thread : todo[t] = <<>>
  BY DEF ThreadsInit
<1>2. \A l : ~GivesBack(<<>>, l)
  BY DEF GivesBack
<1>3. <<>> \in Seq(Code) /\ Sound(<<>>, Code, D)
  BY EmptySound
<1> QED BY <1>1, <1>2, <1>3 DEF ThreadsInit, Disciplined, Exclusive, Holds
----------------------------------------------------------------------------
(* The order of the locks.  An order O says                                *)
(*   rank    the rank of each lock: a lock is taken with locks of a lower  *)
(*           rank held only;                                               *)
(*   never   pairs <<x, m>>: x is not done with m held;                    *)
(*   pairs   pairs <<l, m>>: l is taken with m held, whatever their ranks; *)
(*   outer   locks with which held nothing need be in order.               *)
(* A lock that is held may be taken again, unless it does not nest.        *)

OrderAssumptions(O) ==
  /\ \E n \in Nat : O.rank \in [DOMAIN O.rank -> 0 .. n]
  /\ Again \notin Mutex
  /\ {Again, Own} \cap DOMAIN O.rank = {}
  /\ O.outer \subseteq DOMAIN O.rank

\* The instructions of S take ranked locks.
Ranked(S, O) ==
  \A x \in S :
    x.op \in {"lock", "unlock"}
      => x = Do(x.op, x.arg) /\ x.arg \in DOMAIN O.rank \cup {Again, Own}

\* x may be done with m held.
Allowed(x, m, O) ==
  /\ x.op \notin {"lock", "unlock"} => <<x, m>> \notin O.never
  /\ x.op = "lock" /\ x.arg \notin {m, Again}
       => \/ x.arg \in DOMAIN O.rank /\ O.rank[m] < O.rank[x.arg]
          \/ <<x.arg, m>> \in O.pairs

\* s[i] is done with a lock of O.outer held.
Inner(s, i, O) ==
  \E m \in O.outer : HeldAfter(s, i, m) /\ s[i] # Do("lock", m)

Placed(s, i, O) ==
  /\ s[i] # Do("lock", Own)
  /\ \A m \in DOMAIN O.rank : HeldAfter(s, i, m) => Allowed(s[i], m, O)

InOrder(s, O) == \A i \in DOMAIN s : Inner(s, i, O) \/ Placed(s, i, O)

\* b may be put in front with the locks of K held.
Orderly(b, K, O) ==
  /\ InOrder(b, O)
  /\ \A i \in DOMAIN b :
       \/ Inner(b, i, O)
       \/ \A m \in K : Allowed(b[i], m, O) /\ (m \in Mutex => b[i] # Do("lock", m))

LocksInOrder(O) == \A t \in Thread : InOrder(todo[t], O)

\* What is left of a sequence is in order.
LEMMA SuffixOrder ==
  ASSUME NEW Code, NEW O, NEW s \in Seq(Code), InOrder(s, O),
         NEW k \in 1 .. Len(s) + 1
  PROVE  InOrder(SubSeq(s, k, Len(s)), O)
<1>1. PICK r : r = SubSeq(s, k, Len(s))
  OBVIOUS
<1>2. /\ DOMAIN r = 1 .. Len(s) + 1 - k /\ DOMAIN s = 1 .. Len(s) /\ Len(s) \in Nat
      /\ \A i \in 1 .. Len(s) + 1 - k : r[i] = s[i + k - 1]
  BY <1>1, SuffixFacts
<1>3. ASSUME NEW i \in DOMAIN r
      PROVE  i + k - 1 \in DOMAIN s /\ r[i] = s[i + k - 1]
  <2>1. PICK u : u = Len(s)
    OBVIOUS
  <2>2. u \in Nat /\ k \in 1 .. u + 1 /\ i \in 1 .. u + 1 - k /\ DOMAIN s = 1 .. u
    BY <1>2, <2>1
  <2>3. i + k - 1 \in 1 .. u
    BY <2>2
  <2> QED BY <1>2, <2>1, <2>2, <2>3
<1>4. ASSUME NEW i \in DOMAIN r, NEW m, HeldAfter(r, i, m)
      PROVE  HeldAfter(s, i + k - 1, m)
  <2>1. PICK j \in DOMAIN r : /\ j > i /\ r[j] = Do("unlock", m)
                              /\ \A h \in i + 1 .. j - 1 : r[h] # Do("lock", m)
    BY <1>4 DEF HeldAfter
  <2>2. PICK q : q = j + k - 1
    OBVIOUS
  <2>3. q \in DOMAIN s /\ q > i + k - 1 /\ s[q] = Do("unlock", m)
    BY <1>2, <1>3, <2>1, <2>2
  <2>4. ASSUME NEW h \in i + k - 1 + 1 .. q - 1
        PROVE  s[h] # Do("lock", m)
    <3>1. PICK g : g = h - k + 1
      OBVIOUS
    <3>2. PICK u \in Nat : u = Len(s) + 1 - k /\ DOMAIN r = 1 .. u
      <4>1. PICK v \in Nat : v = Len(s)
        BY <1>2
      <4>2. v + 1 - k \in Nat
        BY <4>1
      <4> QED BY <1>2, <4>1, <4>2
    <3>3. i \in 1 .. u /\ j \in 1 .. u /\ k \in Nat
      BY <1>2, <2>1, <3>2
    <3>4. h \in i + k .. j + k - 2
      BY <2>2, <3>3
    <3>5. g \in i + 1 .. j - 1 /\ g + k - 1 = h
      BY <3>1, <3>3, <3>4
    <3>6. g \in 1 .. u
      BY <3>3, <3>5
    <3> QED BY <1>3, <2>1, <3>2, <3>5, <3>6
  <2> QED BY <2>3, <2>4 DEF HeldAfter
<1>5. ASSUME NEW i \in DOMAIN r
      PROVE  Inner(r, i, O) \/ Placed(r, i, O)
  <2>1. PICK j \in DOMAIN s : j = i + k - 1 /\ r[i] = s[j]
    BY <1>3
  <2>2. \A m : HeldAfter(s, j, m) => HeldAfter(r, i, m)
    BY <1>1, <2>1, SuffixHeld
  <2>3. Inner(s, j, O) => Inner(r, i, O)
    BY <2>1, <2>2 DEF Inner
  <2>4. Placed(s, j, O) => Placed(r, i, O)
    BY <1>4, <2>1 DEF Placed
  <2> QED BY <2>1, <2>3, <2>4 DEF InOrder
<1> QED BY <1>1, <1>5 DEF InOrder

\* Orderly code in front of what gives the locks of K back, but no outer lock.
LEMMA NestedInside ==
  ASSUME NEW Code, Renamed \subseteq Code, NEW O, OrderAssumptions(O), Ranked(Code, O),
         NEW b \in Seq(Code), NEW r \in Seq(Code), NEW K,
         Orderly(b, K, O), InOrder(r, O),
         \A m \in DOMAIN O.rank : GivesBack(r, m) => m \in K,
         \A m \in O.outer : ~GivesBack(r, m)
  PROVE  \A i \in DOMAIN b :
           Inner(Nested(b, r), i, O) \/ Placed(Nested(b, r), i, O)
<1>1. PICK n : n = Nested(b, r)
  OBVIOUS
<1>2. /\ DOMAIN b = 1 .. Len(b) /\ DOMAIN r = 1 .. Len(r)
      /\ Len(b) \in Nat /\ Len(r) \in Nat
  BY LenProperties
<1>3. InFront(n, b, r)
  BY <1>1, NestedFacts
<1>4. /\ DOMAIN n = 1 .. Len(b) + Len(r)
      /\ \A i \in DOMAIN b : n[i] = Under(b[i], r)
      /\ \A i \in DOMAIN r : n[Len(b) + i] = r[i]
  BY <1>2, <1>3 DEF InFront
<1>a. ASSUME NEW i \in DOMAIN b
      PROVE  /\ n[i] = b[i] \/ n[i].arg \in {Again, Own}
             /\ ~GivesBack(r, b[i].arg) => n[i] = b[i]
  <2>1. n[i] = Under(b[i], r) /\ b[i] \in Code
    BY <1>2, <1>4, ElementOfSeq
  <2> QED BY <2>1, DoFacts DEF Under
<1>b. ASSUME NEW i \in DOMAIN b, Inner(b, i, O)
      PROVE  Inner(n, i, O)
  <2>1. PICK m \in O.outer : HeldAfter(b, i, m) /\ b[i] # Do("lock", m)
    BY <1>b DEF Inner
  <2>2. m \notin {Again, Own}
    BY DEF OrderAssumptions
  <2>3. HeldAfter(n, i, m)
    BY <1>1, <2>1, <2>2, NestedHeld
  <2>4. n[i] # Do("lock", m)
    BY <1>a, <2>1, <2>2, DoFacts
  <2> QED BY <2>3, <2>4 DEF Inner
<1>5. ASSUME NEW i \in DOMAIN b, ~Inner(b, i, O)
      PROVE  /\ n[i] # Do("lock", Own)
             /\ \A m : Allowed(b[i], m, O) => Allowed(n[i], m, O)
  <2>1. n[i] = Under(b[i], r) /\ b[i] \in Code /\ b[i] # Do("lock", Own)
    BY <1>2, <1>4, <1>5, ElementOfSeq DEF Orderly, InOrder, Placed
  <2>2. CASE n[i] = b[i]
    BY <2>1, <2>2
  <2>3. CASE n[i] # b[i]
    <3>1. PICK op, l :
            /\ op \in {"lock", "unlock"} /\ op = b[i].op /\ l = b[i].arg /\ GivesBack(r, l)
            /\ n[i] = Do(op, IF l \in Mutex THEN Own ELSE Again)
      BY <2>1, <2>3 DEF Under
    <3>2. b[i] = Do(op, l) /\ l \in DOMAIN O.rank \cup {Again, Own}
      BY <2>1, <3>1 DEF Ranked
    <3>3. op = "lock" => l \notin Mutex
      <4> SUFFICES ASSUME op = "lock", l \in Mutex
                   PROVE  FALSE
        OBVIOUS
      <4>1. l \in DOMAIN O.rank
        BY <2>1, <3>2 DEF OrderAssumptions
      <4>2. l \in K
        BY <3>1, <4>1
      <4> QED BY <1>5, <3>2, <4>2 DEF Orderly
    <3>4. n[i].op = op /\ n[i].arg \in {Again, Own} /\ (op = "lock" => n[i].arg = Again)
      BY <3>1, <3>3, DoFacts
    <3>5. n[i] # Do("lock", Own)
      <4>1. Again # Own
        BY DEF Again, Own
      <4> QED BY <3>4, <4>1, DoFacts
    <3>6. \A m : Allowed(n[i], m, O)
      BY <3>1, <3>4 DEF Allowed
    <3> QED BY <3>5, <3>6
  <2> QED BY <2>2, <2>3
<1>6. ASSUME NEW i \in DOMAIN b, ~Inner(b, i, O),
             NEW m \in DOMAIN O.rank, HeldAfter(n, i, m)
      PROVE  Allowed(n[i], m, O)
  <2>1. CASE GivesBack(r, m)
    <3>1. Allowed(b[i], m, O)
      BY <1>6, <2>1 DEF Orderly
    <3> QED BY <1>5, <1>6, <3>1
  <2>2. CASE ~GivesBack(r, m)
    <3>1. PICK j \in DOMAIN n : /\ j > i /\ n[j] = Do("unlock", m)
                                /\ \A k \in i + 1 .. j - 1 : n[k] # Do("lock", m)
      BY <1>6 DEF HeldAfter
    <3>2. m \notin {Again, Own}
      BY DEF OrderAssumptions
    <3>3. j \in DOMAIN b
      <4> SUFFICES ASSUME j \notin DOMAIN b
                   PROVE  FALSE
        OBVIOUS
      <4>1. PICK h : h = j - Len(b)
        OBVIOUS
      <4>2. h \in DOMAIN r /\ Len(b) + h = j
        <5>1. PICK u, v : u = Len(b) /\ v = Len(r)
          OBVIOUS
        <5>2. u \in Nat /\ v \in Nat /\ j \in 1 .. u + v /\ j \notin 1 .. u
          BY <1>2, <1>4, <5>1
        <5>3. j - u \in 1 .. v /\ u + (j - u) = j
          BY <5>2
        <5> QED BY <1>2, <4>1, <5>1, <5>3
      <4>3. r[h] = Do("unlock", m)
        BY <1>4, <3>1, <4>2
      <4>4. ASSUME NEW k \in 1 .. h - 1
            PROVE  r[k] # Do("lock", m)
        <5>1. k \in DOMAIN r /\ Len(b) + k \in i + 1 .. j - 1
          BY <1>2, <4>2
        <5> QED BY <1>4, <3>1, <5>1
      <4> QED BY <2>2, <4>2, <4>3, <4>4 DEF GivesBack
    <3>4. b[j] = Do("unlock", m)
      BY <1>a, <3>1, <3>2, <3>3, DoFacts
    <3>5. ASSUME NEW k \in i + 1 .. j - 1
          PROVE  b[k] # Do("lock", m)
      <4>1. k \in DOMAIN b
        BY <1>2, <3>3
      <4> QED BY <1>a, <2>2, <3>1, <4>1, DoFacts
    <3>6. HeldAfter(b, i, m)
      BY <3>1, <3>3, <3>4, <3>5 DEF HeldAfter
    <3>7. Allowed(b[i], m, O)
      BY <1>6, <3>6 DEF Orderly, InOrder, Placed
    <3> QED BY <1>5, <1>6, <3>7
  <2> QED BY <2>1, <2>2
<1> QED BY <1>1, <1>b, <1>5, <1>6 DEF Placed

\* Orderly code in front of what gives the locks of K back, or any code in front
\* of what gives an outer lock back.
LEMMA NestedOrder ==
  ASSUME NEW Code, Renamed \subseteq Code, NEW O, OrderAssumptions(O), Ranked(Code, O),
         NEW b \in Seq(Code), NEW r \in Seq(Code), InOrder(r, O), NEW K,
         \/ \E m \in O.outer : GivesBack(r, m)
         \/ /\ Orderly(b, K, O)
            /\ \A m \in DOMAIN O.rank : GivesBack(r, m) => m \in K
  PROVE  InOrder(Nested(b, r), O)
<1>1. PICK n : n = Nested(b, r)
  OBVIOUS
<1>2. /\ DOMAIN b = 1 .. Len(b) /\ DOMAIN r = 1 .. Len(r)
      /\ Len(b) \in Nat /\ Len(r) \in Nat
  BY LenProperties
<1>3. InFront(n, b, r)
  BY <1>1, NestedFacts
<1>4. /\ DOMAIN n = 1 .. Len(b) + Len(r)
      /\ \A i \in DOMAIN r : n[Len(b) + i] = r[i]
  BY <1>2, <1>3 DEF InFront
<1>5. ASSUME NEW i \in DOMAIN b
      PROVE  Inner(n, i, O) \/ Placed(n, i, O)
  <2>1. CASE \E m \in O.outer : GivesBack(r, m)
    <3>1. PICK m \in O.outer : GivesBack(r, m)
      BY <2>1
    <3>2. m \notin {Again, Own}
      BY DEF OrderAssumptions
    <3>3. HeldAfter(n, i, m) /\ n[i] # Do("lock", m)
      BY <1>1, <3>1, <3>2, NestedHeld
    <3> QED BY <3>3 DEF Inner
  <2>2. CASE \A m \in O.outer : ~GivesBack(r, m)
    BY <1>1, <2>2, NestedInside
  <2> QED BY <2>1, <2>2
<1>7. ASSUME NEW i \in DOMAIN r, NEW m, HeldAfter(n, Len(b) + i, m)
      PROVE  HeldAfter(r, i, m)
  <2>1. PICK j \in DOMAIN n : /\ j > Len(b) + i /\ n[j] = Do("unlock", m)
                              /\ \A k \in Len(b) + i + 1 .. j - 1 : n[k] # Do("lock", m)
    BY <1>7 DEF HeldAfter
  <2>2. PICK h : h = j - Len(b)
    OBVIOUS
  <2>3. h \in DOMAIN r /\ Len(b) + h = j /\ h > i
    BY <1>2, <1>4, <2>1, <2>2
  <2>4. r[h] = Do("unlock", m)
    BY <1>4, <2>1, <2>3
  <2>5. ASSUME NEW k \in i + 1 .. h - 1
        PROVE  r[k] # Do("lock", m)
    <3>1. k \in DOMAIN r /\ Len(b) + k \in Len(b) + i + 1 .. j - 1
      BY <1>2, <2>3
    <3> QED BY <1>4, <2>1, <3>1
  <2> QED BY <2>3, <2>4, <2>5 DEF HeldAfter
<1>8. ASSUME NEW h \in DOMAIN r
      PROVE  Inner(n, Len(b) + h, O) \/ Placed(n, Len(b) + h, O)
  <2>1. n[Len(b) + h] = r[h]
    BY <1>4
  <2>2. \A m : m \notin {Again, Own} /\ HeldAfter(r, h, m) => HeldAfter(n, Len(b) + h, m)
    BY <1>1, NestedHeld
  <2>3. \A m \in O.outer : m \notin {Again, Own}
    BY DEF OrderAssumptions
  <2>4. Inner(r, h, O) => Inner(n, Len(b) + h, O)
    BY <2>1, <2>2, <2>3 DEF Inner
  <2>5. Placed(r, h, O) => Placed(n, Len(b) + h, O)
    BY <1>7, <2>1 DEF Placed
  <2> QED BY <2>4, <2>5 DEF InOrder
<1>9. ASSUME NEW i \in DOMAIN n, i \notin DOMAIN b
      PROVE  \E h \in DOMAIN r : Len(b) + h = i
  <2>1. PICK h : h = i - Len(b)
    OBVIOUS
  <2>2. h \in DOMAIN r /\ Len(b) + h = i
    BY <1>2, <1>4, <1>9, <2>1
  <2> QED BY <2>2
<1> QED BY <1>1, <1>5, <1>8, <1>9 DEF InOrder

LEMMA AfterUnlocksOrder ==
  ASSUME NEW Code, NEW O, NEW s \in Seq(Code), InOrder(s, O)
  PROVE  InOrder(AfterUnlocks(s), O) /\ AfterUnlocks(s) \in Seq(Code)
<1>1. PICK k \in 1 .. Len(s) + 1 : AfterUnlocks(s) = SubSeq(s, k, Len(s))
  BY AfterUnlocksFacts
<1> QED BY <1>1, SuffixOrder, SuffixFacts

\* A lock that is held while a thread performs an operation.
LEMMA HeldHere ==
  ASSUME NEW Code, NEW D, Plain(Code, D), Disciplined(Code, D),
         NEW t \in Thread, NEW op, op \notin {"lock", "unlock"}, At(t, op),
         NEW m, Holds(t, m)
  PROVE  HeldAfter(todo[t], Place(t), m)
<1>1. PICK s, p : s = todo[t] /\ p = Place(t)
  OBVIOUS
<1>2. /\ s \in Seq(Code) /\ p \in DOMAIN s /\ s[p].op = op
      /\ p = 1 \/ (p = 2 /\ s[1].op = "lock")
  BY <1>1, AtFacts DEF Place
<1>3. PICK i \in DOMAIN s : /\ s[i] = Do("unlock", m)
                            /\ \A j \in 1 .. i - 1 : s[j] # Do("lock", m)
  BY <1>1 DEF Holds, GivesBack
<1>4. i # p /\ (p = 2 => i # 1)
  BY <1>2, <1>3, DoFacts
<1>5. i \in Nat /\ i >= 1
  BY <1>2, <1>3, LenProperties
<1>6. i > p /\ p + 1 .. i - 1 \subseteq 1 .. i - 1
  BY <1>2, <1>4, <1>5
<1> QED BY <1>1, <1>3, <1>6 DEF HeldAfter

\* An operation goes on with orderly code.
LEMMA ContinueInOrder ==
  ASSUME NEW Code, NEW D, Plain(Code, D), Disciplined(Code, D),
         NEW O, OrderAssumptions(O), Ranked(Code, O), LocksInOrder(O),
         NEW t \in Thread, NEW op, op \notin {"lock", "unlock"}, At(t, op),
         NEW S, Ranked(S, O), NEW b \in Seq(S), NEW K,
         \/ \E m \in O.outer : HeldAfter(todo[t], Place(t), m)
         \/ /\ Orderly(b, K, O)
            /\ \A m \in DOMAIN O.rank :
                 <<todo[t][Place(t)], m>> \notin O.never => m \in K,
         Continue(t, b)
  PROVE  LocksInOrder(O)'
<1>1. PICK s, p, r : s = todo[t] /\ p = Place(t) /\ r = Rest(t)
  OBVIOUS
<1>2. /\ s \in Seq(Code) /\ p \in DOMAIN s /\ s[p].op = op
      /\ InOrder(s, O)
  BY <1>1, AtFacts DEF LocksInOrder
<1>3. DOMAIN s = 1 .. Len(s) /\ Len(s) \in Nat
  BY <1>2, LenProperties
<1>4. PICK k : k = p + 1
  OBVIOUS
<1>5. /\ k \in 1 .. Len(s) + 1 /\ k - 1 = p
      /\ r = SubSeq(s, k, Len(s))
  BY <1>1, <1>2, <1>3, <1>4 DEF Rest
<1>6. r \in Seq(Code) /\ InOrder(r, O)
  BY <1>2, <1>5, SuffixOrder, SuffixFacts
<1>a. \A m : GivesBack(r, m) <=> HeldAfter(s, p, m)
  BY <1>2, <1>5, SuffixHeld
<1>7. \/ \E m \in O.outer : GivesBack(r, m)
      \/ /\ Orderly(b, K, O)
         /\ \A m \in DOMAIN O.rank : GivesBack(r, m) => m \in K
  <2>1. CASE \E m \in O.outer : HeldAfter(s, p, m)
    BY <1>a, <2>1
  <2>2. CASE \A m \in O.outer : ~HeldAfter(s, p, m)
    <3>1. Placed(s, p, O)
      BY <1>2, <2>2 DEF InOrder, Inner
    <3>2. ASSUME NEW m \in DOMAIN O.rank, GivesBack(r, m)
          PROVE  m \in K
      <4>1. Allowed(s[p], m, O)
        BY <1>a, <3>1, <3>2 DEF Placed
      <4> QED BY <1>1, <1>2, <2>2, <4>1 DEF Allowed
    <3> QED BY <1>1, <2>2, <3>2
  <2> QED BY <2>1, <2>2
<1>8. PICK All : All = Code \cup S
  OBVIOUS
<1>9. b \in Seq(All) /\ r \in Seq(All) /\ Ranked(All, O) /\ Renamed \subseteq All
  BY <1>6, <1>8 DEF Ranked, Plain
<1>10. PICK n : n = Nested(b, r)
  OBVIOUS
<1>11. n \in Seq(All)
  BY <1>9, <1>10, NestedFacts
<1>12. InOrder(n, O)
  BY <1>6, <1>7, <1>9, <1>10, NestedOrder
<1>13. InOrder(AfterUnlocks(n), O)
  BY <1>11, <1>12, AfterUnlocksOrder
<1>14. todo' = [todo EXCEPT ![t] = AfterUnlocks(n)]
  BY <1>1, <1>10 DEF Continue
<1>15. ASSUME NEW u \in Thread
       PROVE  InOrder(todo'[u], O)
  BY <1>13, <1>14 DEF LocksInOrder, Disciplined
<1> QED BY <1>15 DEF LocksInOrder

LEMMA StartInOrder ==
  ASSUME NEW Code, todo \in [Thread -> Seq(Code)], NEW O, LocksInOrder(O),
         NEW t \in Thread, NEW b, InOrder(b, O), Start(t, b)
  PROVE  LocksInOrder(O)'
<1>1. ASSUME NEW u \in Thread
      PROVE  InOrder(todo'[u], O)
  BY DEF Start, LocksInOrder
<1> QED BY <1>1 DEF LocksInOrder

LEMMA AcquireInOrder ==
  ASSUME NEW Code, todo \in [Thread -> Seq(Code)], NEW O, LocksInOrder(O),
         NEW t \in Thread, Acquire(t)
  PROVE  LocksInOrder(O)'
<1>1. PICK s : s = todo[t]
  OBVIOUS
<1>2. s \in Seq(Code) /\ s # <<>> /\ InOrder(s, O)
  BY <1>1 DEF LocksInOrder, Acquire, Locking, Idle
<1>3. Tail(s) = SubSeq(s, 2, Len(s)) /\ 2 \in 1 .. Len(s) + 1
  BY <1>2, TailIsSubSeq, EmptySeq, LenProperties
<1>4. InOrder(Tail(s), O)
  BY <1>2, <1>3, SuffixOrder
<1>5. todo' = [todo EXCEPT ![t] = Tail(s)]
  BY <1>1 DEF Acquire
<1>6. ASSUME NEW u \in Thread
      PROVE  InOrder(todo'[u], O)
  BY <1>4, <1>5 DEF LocksInOrder
<1> QED BY <1>6 DEF LocksInOrder

\* Operations that take no locks.
LEMMA OrderlyPlain ==
  ASSUME NEW O, NEW K, NEW b,
         \A i \in DOMAIN b : /\ b[i].op \notin {"lock", "unlock"}
                             /\ \A m \in K : <<b[i], m>> \notin O.never
  PROVE  Orderly(b, K, O)
<1>1. ASSUME NEW i \in DOMAIN b
      PROVE  \A l : b[i] # Do("lock", l) /\ b[i] # Do("unlock", l)
  BY DoFacts
<1>2. \A i \in DOMAIN b : \A m : ~HeldAfter(b, i, m)
  BY <1>1 DEF HeldAfter
<1>3. InOrder(b, O)
  BY <1>1, <1>2 DEF InOrder, Placed
<1>4. \A i \in DOMAIN b : \A m \in K : Allowed(b[i], m, O)
  BY DEF Allowed
<1> QED BY <1>1, <1>3, <1>4 DEF Orderly

LEMMA OrderlyEmpty ==
  ASSUME NEW O, NEW K
  PROVE  Orderly(<<>>, K, O)
BY OrderlyPlain

LEMMA OrderlyOne ==
  ASSUME NEW O, NEW K, NEW op, op \notin {"lock", "unlock"}, NEW arg,
         \A m \in K : <<Do(op, arg), m>> \notin O.never
  PROVE  Orderly(<<Do(op, arg)>>, K, O)
<1>1. PICK b : b = <<Do(op, arg)>>
  OBVIOUS
<1>2. DOMAIN b = {1} /\ b[1] = Do(op, arg) /\ b[1].op = op
  BY <1>1, DoFacts
<1>3. Orderly(b, K, O)
  BY <1>2, OrderlyPlain
<1> QED BY <1>1, <1>3

LEMMA OrderlyLess ==
  ASSUME NEW O, NEW K, NEW L, L \subseteq K, NEW b, Orderly(b, K, O)
  PROVE  Orderly(b, L, O)
BY DEF Orderly

\* What is held in one of two parts.
LEMMA JoinHeld ==
  ASSUME NEW S, NEW b \in Seq(S), NEW c \in Seq(S), NEW n, Joined(n, b, c), NEW m
  PROVE  /\ \A i \in DOMAIN b : HeldAfter(b, i, m) => HeldAfter(n, i, m)
         /\ \A i \in DOMAIN c : HeldAfter(c, i, m) => HeldAfter(n, Len(b) + i, m)
<1>1. Joined(n, b, c)
  OBVIOUS
<1>2. /\ DOMAIN b = 1 .. Len(b) /\ DOMAIN c = 1 .. Len(c)
      /\ Len(b) \in Nat /\ Len(c) \in Nat
  BY LenProperties
<1>3. /\ DOMAIN n = 1 .. Len(b) + Len(c)
      /\ \A i \in DOMAIN b : n[i] = b[i]
      /\ \A i \in DOMAIN c : n[Len(b) + i] = c[i]
  BY <1>1, <1>2 DEF Joined
<1>4. ASSUME NEW i \in DOMAIN b, HeldAfter(b, i, m)
      PROVE  HeldAfter(n, i, m)
  <2>1. PICK j \in DOMAIN b : /\ j > i /\ b[j] = Do("unlock", m)
                              /\ \A k \in i + 1 .. j - 1 : b[k] # Do("lock", m)
    BY <1>4 DEF HeldAfter
  <2>2. \A k \in i + 1 .. j - 1 : k \in DOMAIN b
    BY <1>2, <2>1
  <2>3. j \in DOMAIN n
    BY <1>2, <1>3, <2>1
  <2> QED BY <1>3, <2>1, <2>2, <2>3 DEF HeldAfter
<1>5. ASSUME NEW i \in DOMAIN c, HeldAfter(c, i, m)
      PROVE  HeldAfter(n, Len(b) + i, m)
  <2>1. PICK j \in DOMAIN c : /\ j > i /\ c[j] = Do("unlock", m)
                              /\ \A k \in i + 1 .. j - 1 : c[k] # Do("lock", m)
    BY <1>5 DEF HeldAfter
  <2>2. PICK h : h = Len(b) + j
    OBVIOUS
  <2>3. h \in DOMAIN n /\ h > Len(b) + i /\ n[h] = Do("unlock", m)
    BY <1>2, <1>3, <2>1, <2>2
  <2>4. ASSUME NEW k \in Len(b) + i + 1 .. h - 1
        PROVE  n[k] # Do("lock", m)
    <3>1. PICK g : g = k - Len(b)
      OBVIOUS
    <3>2. g \in i + 1 .. j - 1 /\ g \in DOMAIN c /\ Len(b) + g = k
      BY <1>2, <2>1, <2>2, <3>1
    <3> QED BY <1>3, <2>1, <3>2
  <2> QED BY <2>3, <2>4 DEF HeldAfter
<1> QED BY <1>3, <1>4, <1>5

\* One after the other.
LEMMA OrderlyJoin ==
  ASSUME NEW S, NEW O, NEW K, NEW b \in Seq(S), NEW c \in Seq(S),
         Orderly(b, K, O), Orderly(c, K, O), Balanced(c)
  PROVE  Orderly(b \o c, K, O)
<1>1. PICK n : n = b \o c
  OBVIOUS
<1>2. Joined(n, b, c)
  BY <1>1, JoinedFacts
<1>3. /\ DOMAIN b = 1 .. Len(b) /\ DOMAIN c = 1 .. Len(c)
      /\ Len(b) \in Nat /\ Len(c) \in Nat
  BY LenProperties
<1>4. /\ DOMAIN n = 1 .. Len(b) + Len(c)
      /\ \A i \in DOMAIN b : n[i] = b[i]
      /\ \A i \in DOMAIN c : n[Len(b) + i] = c[i]
  BY <1>2, <1>3 DEF Joined
<1>5. ASSUME NEW i \in DOMAIN n, i \notin DOMAIN b
      PROVE  \E h \in DOMAIN c : Len(b) + h = i /\ n[i] = c[h]
  <2>1. PICK h : h = i - Len(b)
    OBVIOUS
  <2>2. h \in DOMAIN c /\ Len(b) + h = i
    BY <1>3, <1>4, <1>5, <2>1
  <2> QED BY <1>4, <2>2
<1>6. ASSUME NEW i \in DOMAIN b, NEW m, HeldAfter(n, i, m)
      PROVE  HeldAfter(b, i, m)
  <2>1. PICK j \in DOMAIN n : /\ j > i /\ n[j] = Do("unlock", m)
                              /\ \A k \in i + 1 .. j - 1 : n[k] # Do("lock", m)
    BY <1>6 DEF HeldAfter
  <2>2. CASE j \in DOMAIN b
    <3>1. ASSUME NEW k \in i + 1 .. j - 1
          PROVE  b[k] # Do("lock", m)
      <4>1. k \in DOMAIN b
        BY <1>3, <2>2
      <4> QED BY <1>4, <2>1, <4>1
    <3> QED BY <1>4, <2>1, <2>2, <3>1 DEF HeldAfter
  <2>3. CASE j \notin DOMAIN b
    <3>1. PICK h \in DOMAIN c : Len(b) + h = j /\ n[j] = c[h]
      BY <1>5, <2>3
    <3>2. ASSUME NEW k \in 1 .. h - 1
          PROVE  c[k] # Do("lock", m)
      <4>1. k \in DOMAIN c /\ Len(b) + k \in i + 1 .. j - 1
        BY <1>3, <3>1
      <4> QED BY <1>4, <2>1, <4>1
    <3> QED BY <2>1, <3>1, <3>2 DEF Balanced, GivesBack
  <2> QED BY <2>2, <2>3
<1>7. ASSUME NEW h \in DOMAIN c, NEW m, HeldAfter(n, Len(b) + h, m)
      PROVE  HeldAfter(c, h, m)
  <2>1. PICK j \in DOMAIN n : /\ j > Len(b) + h /\ n[j] = Do("unlock", m)
                              /\ \A k \in Len(b) + h + 1 .. j - 1 : n[k] # Do("lock", m)
    BY <1>7 DEF HeldAfter
  <2>2. j \notin DOMAIN b
    BY <1>3, <2>1
  <2>3. PICK g \in DOMAIN c : Len(b) + g = j /\ n[j] = c[g]
    BY <1>5, <2>2
  <2>4. ASSUME NEW k \in h + 1 .. g - 1
        PROVE  c[k] # Do("lock", m)
    <3>1. k \in DOMAIN c /\ Len(b) + k \in Len(b) + h + 1 .. j - 1
      BY <1>3, <2>3
    <3> QED BY <1>4, <2>1, <3>1
  <2>5. g > h
    BY <1>3, <2>1, <2>3
  <2> QED BY <2>1, <2>3, <2>4, <2>5 DEF HeldAfter
<1>a. /\ \A i \in DOMAIN b : \A m : HeldAfter(b, i, m) => HeldAfter(n, i, m)
      /\ \A h \in DOMAIN c : \A m : HeldAfter(c, h, m) => HeldAfter(n, Len(b) + h, m)
  <2>1. ASSUME NEW m
        PROVE  /\ \A i \in DOMAIN b : HeldAfter(b, i, m) => HeldAfter(n, i, m)
               /\ \A h \in DOMAIN c : HeldAfter(c, h, m) => HeldAfter(n, Len(b) + h, m)
    BY <1>2, JoinHeld
  <2> QED BY <2>1
<1>8. ASSUME NEW i \in DOMAIN n
      PROVE  /\ Inner(n, i, O) \/ Placed(n, i, O)
             /\ \/ Inner(n, i, O)
                \/ \A m \in K : Allowed(n[i], m, O) /\ (m \in Mutex => n[i] # Do("lock", m))
  <2>1. CASE i \in DOMAIN b
    <3>1. Inner(b, i, O) => Inner(n, i, O)
      BY <1>4, <1>a, <2>1 DEF Inner
    <3>2. Placed(b, i, O) => Placed(n, i, O)
      BY <1>4, <1>6, <2>1 DEF Placed
    <3> QED BY <1>4, <2>1, <3>1, <3>2 DEF Orderly, InOrder
  <2>2. CASE i \notin DOMAIN b
    <3>1. PICK h \in DOMAIN c : Len(b) + h = i /\ n[i] = c[h]
      BY <1>5, <2>2
    <3>2. Inner(c, h, O) => Inner(n, i, O)
      BY <1>a, <3>1 DEF Inner
    <3>3. Placed(c, h, O) => Placed(n, i, O)
      BY <1>7, <3>1 DEF Placed
    <3> QED BY <3>1, <3>2, <3>3 DEF Orderly, InOrder
  <2> QED BY <2>1, <2>2
<1>9. InOrder(n, O)
  BY <1>8 DEF InOrder
<1> QED BY <1>1, <1>8, <1>9 DEF Orderly

\* Code that is in order with l held, under l.
LEMMA OrderlyWith ==
  ASSUME NEW S, NEW O, OrderAssumptions(O), NEW K, NEW l \in DOMAIN O.rank,
         NEW b \in Seq(S), Balanced(b),
         \/ l \in O.outer /\ \A i \in DOMAIN b : b[i] # Do("lock", l)
         \/ Orderly(b, K \cup {l}, O),
         \A m \in K : m = l \/ O.rank[m] < O.rank[l] \/ <<l, m>> \in O.pairs,
         l \in Mutex => l \notin K
  PROVE  Orderly(With(l, b), K, O)
<1>1. PICK x, y, z, n : /\ x = <<Do("lock", l)>> /\ y = <<Do("unlock", l)>>
                        /\ z = x \o b /\ n = z \o y
  OBVIOUS
<1>2. n = With(l, b)
  BY <1>1 DEF With
<1>3. PICK All : All = S \cup {Do("lock", l), Do("unlock", l)}
  OBVIOUS
<1>4. /\ x \in Seq(All) /\ y \in Seq(All) /\ b \in Seq(All)
      /\ Len(x) = 1 /\ Len(y) = 1 /\ x[1] = Do("lock", l) /\ y[1] = Do("unlock", l)
  BY <1>1, <1>3
<1>5. PICK w : w = Len(b)
  OBVIOUS
<1>6. DOMAIN b = 1 .. w /\ w \in Nat
  BY <1>5, LenProperties
<1>7. Joined(z, x, b) /\ z \in Seq(All) /\ Len(z) = 1 + w
  <2>1. x \in Seq(All) /\ b \in Seq(All) /\ z = x \o b
    BY <1>1, <1>4
  <2>2. Joined(z, x, b)
    BY <2>1, JoinedFacts
  <2>3. z \in Seq(All)
    BY <2>1, JoinedFacts
  <2>4. Len(z) = Len(x) + Len(b)
    BY <2>1, JoinedFacts
  <2> QED BY <1>4, <1>5, <2>2, <2>3, <2>4
<1>8. Joined(n, z, y)
  BY <1>1, <1>4, <1>7, JoinedFacts
<1>9. /\ z[1] = Do("lock", l)
      /\ \A i \in 1 .. w : z[1 + i] = b[i]
  BY <1>4, <1>5, <1>7 DEF Joined
<1>10. /\ DOMAIN n = 1 .. w + 2 /\ n[1] = Do("lock", l) /\ n[w + 2] = Do("unlock", l)
       /\ \A i \in DOMAIN b : n[i + 1] = b[i]
  <2>1. /\ DOMAIN n = 1 .. (1 + w) + 1
        /\ \A i \in 1 .. 1 + w : n[i] = z[i]
        /\ \A i \in 1 .. 1 : n[(1 + w) + i] = y[i]
    BY <1>4, <1>7, <1>8 DEF Joined
  <2>2. n[1] = z[1] /\ \A i \in DOMAIN b : n[i + 1] = z[i + 1] /\ z[i + 1] = z[1 + i]
    BY <1>6, <2>1
  <2>3. n[w + 2] = y[1] /\ (1 + w) + 1 = w + 2
    BY <1>6, <2>1
  <2> QED BY <1>4, <1>6, <1>9, <2>1, <2>2, <2>3
<1>11. l \notin {Again, Own}
  BY DEF OrderAssumptions
<1>12. ASSUME NEW i \in DOMAIN n
       PROVE  i = 1 \/ i = w + 2 \/ \E h \in DOMAIN b : i = h + 1
  <2>1. PICK h : h = i - 1
    OBVIOUS
  <2>2. i = 1 \/ i = w + 2 \/ (h \in DOMAIN b /\ i = h + 1)
    BY <1>6, <1>10, <2>1
  <2> QED BY <2>2
<1>13. ASSUME NEW i \in DOMAIN n, NEW m, m # l, NEW j \in DOMAIN n, n[j] = Do("unlock", m)
       PROVE  \E h \in DOMAIN b : j = h + 1
  BY <1>10, <1>12, <1>13, DoFacts
<1>14. ASSUME NEW m, m # l
       PROVE  ~HeldAfter(n, 1, m)
  <2> SUFFICES ASSUME HeldAfter(n, 1, m)
               PROVE  FALSE
    OBVIOUS
  <2>1. PICK j \in DOMAIN n : /\ j > 1 /\ n[j] = Do("unlock", m)
                              /\ \A k \in 1 + 1 .. j - 1 : n[k] # Do("lock", m)
    BY DEF HeldAfter
  <2>2. PICK h \in DOMAIN b : j = h + 1
    BY <1>13, <1>14, <2>1
  <2>3. b[h] = Do("unlock", m)
    BY <1>10, <2>1, <2>2
  <2>4. ASSUME NEW k \in 1 .. h - 1
        PROVE  b[k] # Do("lock", m)
    <3>1. k \in DOMAIN b /\ k + 1 \in 1 + 1 .. j - 1
      BY <1>6, <2>2
    <3> QED BY <1>10, <2>1, <3>1
  <2> QED BY <2>3, <2>4 DEF Balanced, GivesBack
<1>15. ASSUME NEW h \in DOMAIN b, NEW m, m # l, HeldAfter(n, h + 1, m)
       PROVE  HeldAfter(b, h, m)
  <2>1. PICK j \in DOMAIN n : /\ j > h + 1 /\ n[j] = Do("unlock", m)
                              /\ \A k \in h + 1 + 1 .. j - 1 : n[k] # Do("lock", m)
    BY <1>15 DEF HeldAfter
  <2>2. PICK g \in DOMAIN b : j = g + 1
    BY <1>13, <1>15, <2>1
  <2>3. b[g] = Do("unlock", m) /\ g > h
    BY <1>6, <1>10, <2>1, <2>2
  <2>4. ASSUME NEW k \in h + 1 .. g - 1
        PROVE  b[k] # Do("lock", m)
    <3>1. k \in DOMAIN b /\ k + 1 \in h + 1 + 1 .. j - 1
      BY <1>6, <2>2
    <3> QED BY <1>10, <2>1, <3>1
  <2> QED BY <2>3, <2>4 DEF HeldAfter
<1>a. ASSUME NEW h \in DOMAIN b, NEW m, HeldAfter(b, h, m)
      PROVE  HeldAfter(n, h + 1, m)
  <2>1. HeldAfter(z, 1 + h, m) /\ 1 + h \in DOMAIN z
    <3>1. HeldAfter(z, Len(x) + h, m)
      <4>1. x \in Seq(All) /\ b \in Seq(All) /\ Joined(z, x, b)
        BY <1>4, <1>7
      <4>2. \A i \in DOMAIN b : HeldAfter(b, i, m) => HeldAfter(z, Len(x) + i, m)
        BY <4>1, JoinHeld
      <4> QED BY <1>a, <4>2
    <3>2. DOMAIN z = 1 .. Len(z)
      BY <1>7, LenProperties
    <3> QED BY <1>4, <1>6, <1>7, <3>1, <3>2
  <2>2. HeldAfter(n, 1 + h, m)
    BY <1>4, <1>7, <1>8, <2>1, JoinHeld
  <2>3. 1 + h = h + 1
    BY <1>6
  <2> QED BY <2>2, <2>3
<1>b. ASSUME NEW h \in DOMAIN b, Inner(b, h, O)
      PROVE  Inner(n, h + 1, O)
  BY <1>10, <1>a, <1>b DEF Inner
<1>c. ASSUME NEW h \in DOMAIN b, l \in O.outer,
             \A i \in DOMAIN b : b[i] # Do("lock", l)
      PROVE  Inner(n, h + 1, O)
  <2>1. \A k \in h + 1 + 1 .. (w + 2) - 1 : n[k] # Do("lock", l)
    <3> SUFFICES ASSUME NEW k \in h + 1 + 1 .. (w + 2) - 1
                 PROVE  n[k] # Do("lock", l)
      OBVIOUS
    <3>1. k - 1 \in DOMAIN b /\ (k - 1) + 1 = k
      BY <1>6
    <3> QED BY <1>10, <1>c, <3>1
  <2>2. w + 2 \in DOMAIN n /\ w + 2 > h + 1
    BY <1>6, <1>10
  <2>3. HeldAfter(n, h + 1, l)
    BY <1>10, <2>1, <2>2 DEF HeldAfter
  <2> QED BY <1>10, <1>c, <2>3 DEF Inner
<1>17. ASSUME NEW m
       PROVE  Allowed(n[w + 2], m, O)
  BY <1>10, DoFacts DEF Allowed
<1>18. ASSUME NEW i \in {1, w + 2}
       PROVE  /\ Placed(n, i, O)
              /\ \A m \in K : Allowed(n[i], m, O) /\ (m \in Mutex => n[i] # Do("lock", m))
  <2>1. CASE i = 1
    <3>1. n[i] = Do("lock", l) /\ n[i].op = "lock" /\ n[i].arg = l
      BY <1>10, <2>1, DoFacts
    <3>2. \A m : HeldAfter(n, i, m) => Allowed(n[i], m, O)
      BY <1>14, <2>1, <3>1 DEF Allowed
    <3>3. \A m \in K : Allowed(n[i], m, O)
      BY <3>1 DEF Allowed
    <3> QED BY <1>11, <3>1, <3>2, <3>3, DoFacts DEF Placed
  <2>2. CASE i = w + 2
    <3>1. n[i] = Do("unlock", l) /\ n[i].op = "unlock" /\ \A m : Allowed(n[i], m, O)
      BY <1>10, <1>17, <2>2, DoFacts
    <3> QED BY <3>1, DoFacts DEF Placed
  <2> QED BY <2>1, <2>2
<1>19. ASSUME NEW h \in DOMAIN b
       PROVE  /\ Inner(n, h + 1, O) \/ Placed(n, h + 1, O)
              /\ \/ Inner(n, h + 1, O)
                 \/ \A m \in K : /\ Allowed(n[h + 1], m, O)
                                 /\ m \in Mutex => n[h + 1] # Do("lock", m)
  <2>1. CASE Inner(n, h + 1, O)
    BY <2>1
  <2>2. CASE ~Inner(n, h + 1, O)
    <3>1. Orderly(b, K \cup {l}, O) /\ ~Inner(b, h, O)
      BY <1>b, <1>c, <2>2
    <3>2. \A m \in K \cup {l} : Allowed(b[h], m, O) /\ (m \in Mutex => b[h] # Do("lock", m))
      BY <3>1 DEF Orderly
    <3>3. Placed(b, h, O)
      BY <3>1 DEF Orderly, InOrder
    <3>4. Placed(n, h + 1, O)
      BY <1>10, <1>15, <3>2, <3>3 DEF Placed
    <3> QED BY <1>10, <3>2, <3>4
  <2> QED BY <2>1, <2>2
<1>20. InOrder(n, O)
  BY <1>12, <1>18, <1>19 DEF InOrder
<1> QED BY <1>2, <1>12, <1>18, <1>19, <1>20 DEF Orderly

\* Threads that take their locks in order do not wait in a circle, unless one of
\* them holds an outer lock or waits for a lock with the other one of its pair
\* held.
LEMMA OrderNoCycle ==
  ASSUME NEW Code, todo \in [Thread -> Seq(Code)],
         NEW O, OrderAssumptions(O), Ranked(Code, O), LocksInOrder(O),
         NEW S \in SUBSET {t \in Thread : Waiting(t)}, S # {},
         \A t \in S : \E u \in S : WaitsForLock(t, u)
  PROVE  \E t \in S :
           \/ \E m \in O.outer : Holds(t, m)
           \/ \E m \in DOMAIN O.rank : Holds(t, m) /\ <<todo[t][1].arg, m>> \in O.pairs
<1>1. PICK N \in Nat : O.rank \in [DOMAIN O.rank -> 0 .. N]
  BY DEF OrderAssumptions
<1> SUFFICES ASSUME \A t \in S :
                      /\ \A m \in O.outer : ~Holds(t, m)
                      /\ \A m \in DOMAIN O.rank :
                           Holds(t, m) => <<todo[t][1].arg, m>> \notin O.pairs
             PROVE  FALSE
  OBVIOUS
<1>2. PICK wanted : wanted = [t \in S |-> todo[t][1].arg]
  OBVIOUS
<1>3. ASSUME NEW t \in S
      PROVE  /\ t \in Thread /\ todo[t] \in Seq(Code) /\ todo[t] # <<>>
             /\ 1 \in DOMAIN todo[t] /\ todo[t][1] = Do("lock", wanted[t])
             /\ wanted[t] \in DOMAIN O.rank /\ Placed(todo[t], 1, O)
  <2>1. t \in Thread /\ Waiting(t) /\ todo[t] \in Seq(Code) /\ todo[t] # <<>>
        /\ todo[t][1].op = "lock" /\ wanted[t] = todo[t][1].arg
    BY <1>2 DEF Waiting, Locking, Idle
  <2>2. 1 \in DOMAIN todo[t]
    BY <2>1, EmptySeq, LenProperties
  <2>3. todo[t][1] \in Code
    BY <2>1, <2>2, ElementOfSeq, LenProperties
  <2>4. /\ todo[t][1] = Do("lock", wanted[t])
        /\ wanted[t] \in DOMAIN O.rank \cup {Again, Own}
    BY <2>1, <2>3 DEF Ranked
  <2>a. ~Inner(todo[t], 1, O)
    <3> SUFFICES ASSUME Inner(todo[t], 1, O)
                 PROVE  FALSE
      OBVIOUS
    <3>1. PICK m \in O.outer : HeldAfter(todo[t], 1, m) /\ todo[t][1] # Do("lock", m)
      BY DEF Inner
    <3>2. PICK j \in DOMAIN todo[t] :
            /\ j > 1 /\ todo[t][j] = Do("unlock", m)
            /\ \A k \in 1 + 1 .. j - 1 : todo[t][k] # Do("lock", m)
      BY <3>1 DEF HeldAfter
    <3>3. \A k \in 1 .. j - 1 : k = 1 \/ k \in 1 + 1 .. j - 1
      OBVIOUS
    <3>4. GivesBack(todo[t], m)
      BY <3>1, <3>2, <3>3 DEF GivesBack
    <3> QED BY <3>4 DEF Holds
  <2>b. Placed(todo[t], 1, O)
    BY <2>1, <2>2, <2>a DEF LocksInOrder, InOrder
  <2>5. wanted[t] # Own
    BY <2>4, <2>b DEF Placed
  <2>6. wanted[t] # Again
    BY <2>1 DEF Waiting, CanTake
  <2> QED BY <2>1, <2>2, <2>4, <2>5, <2>6, <2>b
<1>4. ASSUME NEW t \in S, NEW u \in S, WaitsForLock(t, u)
      PROVE  O.rank[wanted[t]] < O.rank[wanted[u]]
  <2>1. PICK s, l, k : s = todo[u] /\ l = wanted[t] /\ k = wanted[u]
    OBVIOUS
  <2>2. /\ s \in Seq(Code) /\ Placed(s, 1, O) /\ 1 \in DOMAIN s /\ s[1] = Do("lock", k)
        /\ l \in DOMAIN O.rank /\ k \in DOMAIN O.rank
    BY <1>3, <2>1
  <2>3. DOMAIN s = 1 .. Len(s) /\ Len(s) \in Nat
    BY <2>2, LenProperties
  <2>4. l \notin {Again, Own} /\ k \notin {Again, Own}
    BY <2>2 DEF OrderAssumptions
  <2>5. GivesBack(s, l)
    <3>1. todo[t][1].arg = l
      BY <1>2, <2>1
    <3> QED BY <1>4, <2>1, <2>4, <3>1 DEF WaitsForLock, Holds
  <2>6. PICK j \in DOMAIN s : /\ s[j] = Do("unlock", l)
                              /\ \A i \in 1 .. j - 1 : s[i] # Do("lock", l)
    BY <2>5 DEF GivesBack
  <2>7. j # 1
    <3>1. s[1].op = "lock" /\ s[j].op = "unlock"
      BY <2>2, <2>6, DoFacts
    <3> QED BY <3>1
  <2>8. j > 1 /\ 1 \in 1 .. j - 1 /\ \A i \in 1 + 1 .. j - 1 : i \in 1 .. j - 1
    <3>1. j \in Nat /\ j >= 1
      BY <2>3, <2>6
    <3>2. \A x \in Nat : x >= 1 /\ x # 1 => x >= 2 /\ x > 1
      OBVIOUS
    <3>3. j >= 2 /\ j > 1
      BY <2>7, <3>1, <3>2
    <3>4. 1 \in 1 .. j - 1
      BY <3>1, <3>3
    <3>5. ASSUME NEW i \in 1 + 1 .. j - 1
          PROVE  i \in 1 .. j - 1
      BY <3>1, <3>3
    <3> QED BY <3>3, <3>4, <3>5
  <2>9. HeldAfter(s, 1, l) /\ k # l
    BY <2>2, <2>6, <2>8 DEF HeldAfter
  <2>10. Allowed(s[1], l, O) /\ s[1].op = "lock" /\ s[1].arg = k
    <3>1. HeldAfter(s, 1, l) /\ l \in DOMAIN O.rank /\ Placed(s, 1, O)
      BY <2>2, <2>9
    <3>2. Allowed(s[1], l, O)
      BY <3>1 DEF Placed
    <3>3. s[1] = Do("lock", k)
      BY <2>2
    <3> QED BY <3>2, <3>3, DoFacts
  <2>11. <<k, l>> \notin O.pairs
    <3>1. Holds(u, l) /\ l \in DOMAIN O.rank
      BY <2>1, <2>2, <2>5 DEF Holds
    <3>2. todo[u][1].arg = k
      BY <2>1, <2>2, DoFacts
    <3>3. <<todo[u][1].arg, l>> \notin O.pairs
      BY <3>1
    <3> QED BY <3>2, <3>3
  <2> QED BY <2>1, <2>4, <2>9, <2>10, <2>11 DEF Allowed
<1>5. PICK T : T = {N - O.rank[wanted[t]] : t \in S}
  OBVIOUS
<1>6. T \in SUBSET Nat /\ T # {}
  <2>1. ASSUME NEW t \in S
        PROVE  N - O.rank[wanted[t]] \in Nat
    <3>1. PICK x \in 0 .. N : x = O.rank[wanted[t]]
      BY <1>1, <1>3
    <3>2. N - x \in Nat
      OBVIOUS
    <3> QED BY <3>1, <3>2
  <2> QED BY <1>5, <2>1
<1>7. Min(T) \in T /\ \A i \in T : Min(T) <= i
  BY <1>6, LeastExists
<1>8. PICK t \in S : Min(T) = N - O.rank[wanted[t]]
  BY <1>5, <1>7
<1>9. PICK u \in S : WaitsForLock(t, u)
  OBVIOUS
<1>10. Min(T) <= N - O.rank[wanted[u]]
  BY <1>5, <1>7
<1>11. O.rank[wanted[t]] < O.rank[wanted[u]]
  BY <1>4, <1>9
<1>12. PICK x, y \in 0 .. N : x = O.rank[wanted[t]] /\ y = O.rank[wanted[u]]
  BY <1>1, <1>3
<1>13. N - x <= N - y /\ x < y
  BY <1>8, <1>10, <1>11, <1>12
<1> QED BY <1>13

LEMMA InitOrdered ==
  ASSUME NEW O, ThreadsInit
  PROVE  LocksInOrder(O)
BY DEF ThreadsInit, LocksInOrder, InOrder

=============================================================================
