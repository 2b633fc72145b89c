--------------------------- MODULE SemaOpsProofs ---------------------------
(***************************************************************************)
(* What the operations on a semaphore keep, for the proofs of every module *)
(* that uses one: the agreement of count and queue, who sleeps on it, and  *)
(* for a semaphore of one unit, who has it.                                *)
(***************************************************************************)
EXTENDS SemaOps, FiniteSetTheorems, TLAPS

(* p_sema() keeps the agreement of count and queue, and adds at most the    *)
(* caller to the sleepers (mutex.c:133-168).                                *)
LEMMA PSemaKeeps ==
    ASSUME NEW T, NEW s, SemaType(s, T), CountsSleepers(s), NEW t \in T
    PROVE  /\ SemaType(PSema(s, t), T)
           /\ CountsSleepers(PSema(s, t))
           /\ PSema(s, t).cnt = s.cnt - 1
           /\ PSema(s, t).q = IF s.cnt <= 0 THEN Append(s.q, t) ELSE s.q
  BY DEF SemaType, CountsSleepers, PSema, PSleeps

(* v_sema() keeps it too, whether or not it finds a sleeper                 *)
(* (mutex.c:214-237).                                                       *)
LEMMA VSemaKeeps ==
    ASSUME NEW T, NEW s, SemaType(s, T), CountsSleepers(s)
    PROVE  /\ SemaType(VSema(s), T)
           /\ CountsSleepers(VSema(s))
           /\ VSema(s).cnt = s.cnt + 1
           /\ s.q # <<>> => VSema(s).q = Tail(s.q) /\ s.cnt < 0
           /\ s.q = <<>> => VSema(s).q = <<>> /\ s.cnt >= 0
  <1>1. CASE s.q = <<>>
    BY <1>1 DEF SemaType, CountsSleepers, VSema
  <1>2. CASE s.q # <<>>
    <2>1. Len(s.q) \in Nat \ {0}
      BY <1>2 DEF SemaType
    <2>2. s.cnt < 0 /\ Len(s.q) = - s.cnt
      BY <1>2 DEF SemaType, CountsSleepers
    <2>3. Tail(s.q) \in Seq(T) /\ Len(Tail(s.q)) = Len(s.q) - 1
      BY <1>2, <2>1 DEF SemaType
    <2>4. s.cnt + 1 >= 0 => Tail(s.q) = <<>>
      BY <2>2, <2>3 DEF SemaType
    <2> QED
      BY <1>2, <2>2, <2>3, <2>4 DEF SemaType, CountsSleepers, VSema
  <1> QED
    BY <1>1, <1>2

(* Taking one element out of a sequence keeps the others in order.          *)
LEMMA RemoveAtShape ==
    ASSUME NEW T, NEW q \in Seq(T), NEW i \in DOMAIN q
    PROVE  /\ RemoveAt(q, i) \in Seq(T)
           /\ Len(RemoveAt(q, i)) = Len(q) - 1
           /\ \A j \in 1 .. Len(q) - 1 :
                 RemoveAt(q, i)[j] = IF j < i THEN q[j] ELSE q[j + 1]
  <1> DEFINE a == SubSeq(q, 1, i - 1)
             b == SubSeq(q, i + 1, Len(q))
  <1>1. i \in 1 .. Len(q) /\ Len(q) \in Nat
    OBVIOUS
  <1>2. a \in Seq(T) /\ Len(a) = i - 1 /\ \A j \in 1 .. i - 1 : a[j] = q[j]
    BY <1>1
  <1>3. b \in Seq(T) /\ Len(b) = Len(q) - i
        /\ \A j \in 1 .. Len(q) - i : b[j] = q[i + j]
    BY <1>1
  <1>4. RemoveAt(q, i) = a \o b
    BY DEF RemoveAt
  <1> HIDE DEF a, b
  <1>5. a \o b \in Seq(T) /\ Len(a \o b) = Len(q) - 1
    BY <1>1, <1>2, <1>3
  <1>6. ASSUME NEW j \in 1 .. Len(q) - 1
        PROVE  (a \o b)[j] = IF j < i THEN q[j] ELSE q[j + 1]
    <2>1. CASE j < i
      BY <1>1, <1>2, <1>3, <2>1
    <2>2. CASE ~ (j < i)
      <3>1. j - (i - 1) \in 1 .. Len(q) - i /\ i + (j - (i - 1)) = j + 1
        BY <1>1, <2>2
      <3>2. (a \o b)[j] = b[j - (i - 1)]
        BY <1>1, <1>2, <1>3, <2>2
      <3> QED
        BY <1>3, <2>2, <3>1, <3>2
    <2> QED
      BY <2>1, <2>2
  <1> QED
    BY <1>4, <1>5, <1>6 DEF a, b

(* A finite set as a list: each element stands on it once.                  *)
LEMMA ListOf ==
    ASSUME NEW S, IsFiniteSet(S)
    PROVE  /\ SetToSeq(S) \in Seq(S) /\ ToSet(SetToSeq(S)) = S
           /\ \A i, j \in DOMAIN SetToSeq(S) : SetToSeq(S)[i] = SetToSeq(S)[j] => i = j
<1> DEFINE n == Cardinality(S)
           f == SetToSeq(S)
<1>1. n \in Nat /\ ExistsBijection(1..n, S)
  BY FS_CardinalityType
<1>2. PICK g \in [1..n -> S] : IsInjective(g)
  BY <1>1 DEF ExistsBijection, Bijection, Injection
<1>3. f \in [1..n -> S] /\ IsInjective(f)
  BY <1>2 DEF SetToSeq
<1>4. Cardinality(1..n) = n
  BY <1>1, FS_Interval
<1> HIDE DEF f
<1>5. f \in Injection(1..n, S)
  BY <1>3 DEF Injection
<1>6. f \in Surjection(1..n, S)
  BY <1>4, <1>5, FS_Injection
<1>7. {f[i] : i \in 1..n} = S
  BY <1>3, <1>6 DEF Surjection
<1>8. f \in Seq(S) /\ DOMAIN f = 1..n
  BY <1>1, <1>3
<1>9. QED BY <1>3, <1>7, <1>8 DEF IsInjective, ToSet, f

(* dq_sema() on a sleeper keeps the agreement of count and queue            *)
(* (mutex.c:114-131).                                                       *)
LEMMA DqSemaKeeps ==
    ASSUME NEW T, NEW s, SemaType(s, T), CountsSleepers(s), NEW t \in Sleepers(s)
    PROVE  /\ SemaType(DqSema(s, t), T)
           /\ CountsSleepers(DqSema(s, t))
           /\ DqSema(s, t).cnt = s.cnt + 1
           /\ s.cnt < 0
           /\ \E i \in DOMAIN s.q : s.q[i] = t /\ DqSema(s, t).q = RemoveAt(s.q, i)
  <1> DEFINE i == CHOOSE j \in DOMAIN s.q : s.q[j] = t
  <1>1. i \in DOMAIN s.q /\ s.q[i] = t
    BY DEF Sleepers
  <1>2. s.q \in Seq(T) /\ s.q # <<>>
    BY <1>1 DEF SemaType
  <1>3. s.cnt < 0 /\ Len(s.q) = - s.cnt
    BY <1>2 DEF CountsSleepers, SemaType
  <1>4. RemoveAt(s.q, i) \in Seq(T) /\ Len(RemoveAt(s.q, i)) = Len(s.q) - 1
    BY <1>1, <1>2, RemoveAtShape
  <1>5. DqSema(s, t) = [cnt |-> s.cnt + 1, q |-> RemoveAt(s.q, i)]
    BY DEF DqSema
  <1>6. s.cnt + 1 >= 0 => RemoveAt(s.q, i) = <<>>
    BY <1>3, <1>4 DEF SemaType
  <1> HIDE DEF i
  <1> QED
    BY <1>1, <1>3, <1>4, <1>5, <1>6 DEF SemaType, CountsSleepers

-----------------------------------------------------------------------------
(* Who sleeps on a semaphore                                                *)

(* The sleepers of s are the threads of L, each on the queue once. *)
SleptOn(s, T, L) ==
    /\ SemaType(s, T) /\ CountsSleepers(s)
    /\ Sleepers(s) = L
    /\ \A i, j \in DOMAIN s.q : s.q[i] = s.q[j] => i = j

(* A semaphore of one unit with sleepers L, given to those of I. *)
HeldBy(s, T, L, I) ==
    /\ SleptOn(s, T, L) /\ s.cnt <= 1
    /\ s.cnt > 0 <=> I = {}
    /\ \A t, u \in I : t = u

(* A new semaphore has no sleepers. *)
LEMMA NewSlept ==
    ASSUME NEW T, NEW n \in Nat
    PROVE  SleptOn(NewSema(n), T, {}) /\ NewSema(n).cnt = n
BY DEF NewSema, SleptOn, SemaType, CountsSleepers, Sleepers

(* p_sema() of a thread that does not sleep: it joins the sleepers when     *)
(* there is no unit, and there was no sleeper when there is one.            *)
LEMMA SleptAsk ==
    ASSUME NEW T, NEW s, NEW L, SleptOn(s, T, L), NEW t \in T, t \notin L
    PROVE  /\ PSema(s, t).cnt = s.cnt - 1 /\ s.cnt \in Int
           /\ PSleeps(s) => s.cnt <= 0 /\ SleptOn(PSema(s, t), T, L \cup {t})
           /\ ~ PSleeps(s) => s.cnt > 0 /\ L = {} /\ SleptOn(PSema(s, t), T, {})
<1> DEFINE r == PSema(s, t)
<1>1. /\ s.cnt \in Int /\ s.q \in Seq(T) /\ CountsSleepers(s)
      /\ L = {s.q[i] : i \in DOMAIN s.q}
      /\ \A i, j \in DOMAIN s.q : s.q[i] = s.q[j] => i = j
  BY DEF SleptOn, SemaType, Sleepers
<1>2. /\ SemaType(r, T) /\ CountsSleepers(r) /\ r.cnt = s.cnt - 1
      /\ r.q = IF s.cnt <= 0 THEN Append(s.q, t) ELSE s.q
  BY PSemaKeeps DEF SleptOn
<1>3. PSleeps(s) <=> s.cnt <= 0
  BY DEF PSleeps
<1> HIDE DEF r
<1>4. CASE s.cnt <= 0
  <2>1. /\ r.q \in Seq(T) /\ Len(r.q) = Len(s.q) + 1 /\ Len(s.q) \in Nat
        /\ \A i \in 1 .. Len(s.q) : r.q[i] = s.q[i]
        /\ r.q[Len(s.q) + 1] = t
    BY <1>1, <1>2, <1>4
  <2>2. DOMAIN s.q = 1 .. Len(s.q) /\ DOMAIN r.q = 1 .. Len(s.q) + 1
    BY <1>1, <2>1
  <2>3. Sleepers(r) = L \cup {t}
    <3>1. ASSUME NEW x \in Sleepers(r) PROVE x \in L \cup {t}
      BY <1>1, <2>1, <2>2, <3>1 DEF Sleepers
    <3>2. ASSUME NEW x \in L PROVE x \in Sleepers(r)
      BY <1>1, <2>1, <2>2, <3>2 DEF Sleepers
    <3>3. t \in Sleepers(r)
      BY <2>1, <2>2 DEF Sleepers
    <3>4. QED BY <3>1, <3>2, <3>3
  <2>4. \A i \in 1 .. Len(s.q) : s.q[i] # t
    BY <1>1, <2>2
  <2>5. ASSUME NEW i \in DOMAIN r.q, NEW j \in DOMAIN r.q, r.q[i] = r.q[j] PROVE i = j
    <3>1. (i \in DOMAIN s.q \/ i = Len(s.q) + 1) /\ (j \in DOMAIN s.q \/ j = Len(s.q) + 1)
      BY <2>1, <2>2
    <3>2. CASE i \in DOMAIN s.q /\ j \in DOMAIN s.q
      <4>1. r.q[i] = s.q[i] /\ r.q[j] = s.q[j]
        BY <2>1, <2>2, <3>2
      <4>2. QED BY <1>1, <2>5, <3>2, <4>1
    <3>3. CASE i \in DOMAIN s.q /\ j = Len(s.q) + 1
      BY <2>1, <2>2, <2>4, <2>5, <3>3
    <3>4. CASE i = Len(s.q) + 1 /\ j \in DOMAIN s.q
      BY <2>1, <2>2, <2>4, <2>5, <3>4
    <3>5. QED BY <3>1, <3>2, <3>3, <3>4
  <2>6. SleptOn(r, T, L \cup {t})
    BY <1>2, <2>3, <2>5 DEF SleptOn
  <2>7. QED BY <1>1, <1>2, <1>3, <1>4, <2>6 DEF r
<1>5. CASE ~ (s.cnt <= 0)
  <2>1. s.q = <<>> /\ r.q = <<>> /\ s.cnt > 0
    BY <1>1, <1>2, <1>5 DEF CountsSleepers
  <2>2. L = {} /\ Sleepers(r) = {}
    BY <1>1, <2>1 DEF Sleepers
  <2>3. SleptOn(r, T, {})
    BY <1>2, <2>1, <2>2 DEF SleptOn
  <2>4. QED BY <1>1, <1>2, <1>3, <1>5, <2>1, <2>2, <2>3 DEF r
<1>6. QED BY <1>1, <1>4, <1>5

LEMMA TailShape ==
    ASSUME NEW T, NEW q \in Seq(T), q # <<>>
    PROVE  /\ Tail(q) \in Seq(T) /\ Len(q) \in Nat \ {0}
           /\ Len(Tail(q)) = Len(q) - 1
           /\ \A i \in 1 .. Len(q) - 1 : Tail(q)[i] = q[i + 1]
OBVIOUS

(* v_sema(): the one it wakes, if any, sleeps no more. *)
LEMMA SleptGive ==
    ASSUME NEW T, NEW s, NEW L, SleptOn(s, T, L)
    PROVE  /\ VSema(s).cnt = s.cnt + 1 /\ s.cnt \in Int
           /\ VWakes(s) \subseteq L
           /\ SleptOn(VSema(s), T, L \ VWakes(s))
           /\ VWakes(s) = {} => L = {} /\ s.cnt >= 0
           /\ VWakes(s) # {} => s.cnt < 0 /\ \E t \in L : VWakes(s) = {t}
<1> DEFINE r == VSema(s)
<1>1. /\ s.cnt \in Int /\ s.q \in Seq(T) /\ CountsSleepers(s)
      /\ L = {s.q[i] : i \in DOMAIN s.q}
      /\ \A i, j \in DOMAIN s.q : s.q[i] = s.q[j] => i = j
  BY DEF SleptOn, SemaType, Sleepers
<1>2. /\ SemaType(r, T) /\ CountsSleepers(r) /\ r.cnt = s.cnt + 1
      /\ s.q # <<>> => r.q = Tail(s.q) /\ s.cnt < 0
      /\ s.q = <<>> => r.q = <<>> /\ s.cnt >= 0
  BY VSemaKeeps DEF SleptOn
<1> HIDE DEF r
<1>3. CASE s.q = <<>>
  <2>1. VWakes(s) = {} /\ L = {} /\ Sleepers(r) = {}
    BY <1>1, <1>2, <1>3 DEF VWakes, Sleepers
  <2>2. SleptOn(r, T, {})
    BY <1>2, <1>3, <2>1 DEF SleptOn
  <2>3. QED BY <1>1, <1>2, <1>3, <2>1, <2>2 DEF r
<1>4. CASE s.q # <<>>
  <2>1. /\ r.q \in Seq(T) /\ Len(r.q) = Len(s.q) - 1 /\ Len(s.q) \in Nat \ {0}
        /\ \A i \in 1 .. Len(s.q) - 1 : r.q[i] = s.q[i + 1]
    BY <1>1, <1>2, <1>4, TailShape
  <2>2. DOMAIN s.q = 1 .. Len(s.q) /\ DOMAIN r.q = 1 .. Len(s.q) - 1
    BY <1>1, <2>1
  <2>3. VWakes(s) = {s.q[1]} /\ s.q[1] \in L
    BY <1>1, <1>4, <2>1, <2>2 DEF VWakes
  <2>4. \A i \in DOMAIN r.q : r.q[i] = s.q[i + 1] /\ i + 1 \in DOMAIN s.q /\ i + 1 # 1
    BY <2>1, <2>2
  <2>5. Sleepers(r) = L \ VWakes(s)
    <3>1. ASSUME NEW i \in DOMAIN r.q PROVE r.q[i] \in L \ VWakes(s)
      <4>1. s.q[i + 1] # s.q[1]
        BY <1>1, <2>1, <2>2, <2>4
      <4>2. QED BY <1>1, <2>3, <2>4, <4>1
    <3>2. ASSUME NEW i \in DOMAIN s.q, s.q[i] \notin VWakes(s) PROVE s.q[i] \in Sleepers(r)
      <4>1. i # 1
        BY <2>3, <3>2
      <4>2. i - 1 \in DOMAIN r.q /\ r.q[i - 1] = s.q[i]
        BY <2>1, <2>2, <4>1
      <4>3. QED BY <4>2 DEF Sleepers
    <3>3. QED BY <1>1, <3>1, <3>2 DEF Sleepers
  <2>6. ASSUME NEW i \in DOMAIN r.q, NEW j \in DOMAIN r.q, r.q[i] = r.q[j] PROVE i = j
    <3>1. i + 1 = j + 1
      BY <1>1, <2>4, <2>6
    <3>2. i \in Int /\ j \in Int
      BY <2>2
    <3>3. QED BY <3>1, <3>2
  <2>7. SleptOn(r, T, L \ VWakes(s))
    BY <1>2, <2>5, <2>6 DEF SleptOn
  <2>8. QED BY <1>1, <1>2, <1>4, <2>3, <2>7 DEF r
<1>5. QED BY <1>3, <1>4

(* Taking one element out of a list without repetitions leaves the others,  *)
(* and no repetitions.                                                      *)
LEMMA RemoveOne ==
    ASSUME NEW T, NEW q \in Seq(T), NEW i \in DOMAIN q,
           \A j, k \in DOMAIN q : q[j] = q[k] => j = k
    PROVE  LET r == RemoveAt(q, i) IN
           /\ r \in Seq(T)
           /\ {r[j] : j \in DOMAIN r} = {q[j] : j \in DOMAIN q} \ {q[i]}
           /\ \A j, k \in DOMAIN r : r[j] = r[k] => j = k
<1> DEFINE r == RemoveAt(q, i)
           old(j) == IF j < i THEN j ELSE j + 1
<1>1. /\ r \in Seq(T) /\ Len(r) = Len(q) - 1
      /\ \A j \in 1 .. Len(q) - 1 : r[j] = IF j < i THEN q[j] ELSE q[j + 1]
  BY RemoveAtShape
<1>2. Len(q) \in Nat /\ DOMAIN q = 1 .. Len(q) /\ i \in 1 .. Len(q)
  OBVIOUS
<1> HIDE DEF r
<1>3. DOMAIN r = 1 .. Len(q) - 1
  BY <1>1, <1>2
<1>4. \A j \in DOMAIN r : old(j) \in DOMAIN q /\ old(j) # i /\ r[j] = q[old(j)]
  BY <1>1, <1>2, <1>3
<1>5. \A j, k \in DOMAIN r : old(j) = old(k) => j = k
  BY <1>2, <1>3
<1>6. ASSUME NEW k \in DOMAIN q, k # i PROVE \E j \in DOMAIN r : r[j] = q[k]
  <2>1. CASE k < i
    <3>1. k \in DOMAIN r /\ r[k] = q[k]
      BY <1>1, <1>2, <1>3, <2>1
    <3>2. QED BY <3>1
  <2>2. CASE k > i
    <3>1. k - 1 \in DOMAIN r /\ r[k - 1] = q[k]
      BY <1>1, <1>2, <1>3, <2>2
    <3>2. QED BY <3>1
  <2>3. QED BY <1>2, <1>6, <2>1, <2>2
<1> HIDE DEF old
<1>7. \A j, k \in DOMAIN r : r[j] = r[k] => j = k
  BY <1>4, <1>5
<1>8. {r[j] : j \in DOMAIN r} = {q[j] : j \in DOMAIN q} \ {q[i]}
  <2>1. ASSUME NEW j \in DOMAIN r PROVE r[j] \in {q[k] : k \in DOMAIN q} \ {q[i]}
    BY <1>2, <1>4
  <2>2. ASSUME NEW k \in DOMAIN q, q[k] # q[i] PROVE q[k] \in {r[j] : j \in DOMAIN r}
    BY <1>6, <2>2
  <2>3. QED BY <2>1, <2>2
<1>9. QED BY <1>1, <1>7, <1>8 DEF r

(* dq_sema(): a sleeper is taken off the list. *)
LEMMA SleptLeave ==
    ASSUME NEW T, NEW s, NEW L, SleptOn(s, T, L), NEW t \in L
    PROVE  /\ SleptOn(DqSema(s, t), T, L \ {t})
           /\ DqSema(s, t).cnt = s.cnt + 1 /\ s.cnt < 0 /\ s.cnt \in Int
<1> DEFINE r == DqSema(s, t)
<1>1. /\ s.cnt \in Int /\ s.q \in Seq(T) /\ t \in Sleepers(s)
      /\ SemaType(s, T) /\ CountsSleepers(s)
      /\ L = {s.q[i] : i \in DOMAIN s.q}
      /\ \A i, j \in DOMAIN s.q : s.q[i] = s.q[j] => i = j
  BY DEF SleptOn, SemaType, Sleepers
<1>2. /\ SemaType(r, T) /\ CountsSleepers(r) /\ r.cnt = s.cnt + 1 /\ s.cnt < 0
  BY <1>1, DqSemaKeeps
<1>3. PICK i \in DOMAIN s.q : s.q[i] = t /\ r.q = RemoveAt(s.q, i)
  BY <1>1, DqSemaKeeps
<1> HIDE DEF r
<1> DEFINE x == RemoveAt(s.q, i)
<1>4. /\ {x[j] : j \in DOMAIN x} = {s.q[j] : j \in DOMAIN s.q} \ {s.q[i]}
      /\ \A j, k \in DOMAIN x : x[j] = x[k] => j = k
  BY <1>1, RemoveOne
<1>a. r.q = x
  BY <1>3
<1> HIDE DEF x
<1>b. {x[j] : j \in DOMAIN x} = L \ {t}
  BY <1>1, <1>3, <1>4
<1>5. {r.q[j] : j \in DOMAIN r.q} = L \ {t}
  BY <1>a, <1>b
<1>c. \A j, k \in DOMAIN r.q : r.q[j] = r.q[k] => j = k
  BY <1>4, <1>a
<1>6. SleptOn(r, T, L \ {t})
  BY <1>2, <1>5, <1>c DEF SleptOn, Sleepers
<1>7. QED BY <1>1, <1>2, <1>6 DEF r

-----------------------------------------------------------------------------
(* A semaphore of one unit                                                  *)

(* p_sema(): one more sleeper, or the caller has the unit nobody had. *)
LEMMA HeldAsk ==
    ASSUME NEW T, NEW s, NEW L, NEW I, HeldBy(s, T, L, I), NEW t \in T, t \notin L
    PROVE  IF PSleeps(s) THEN HeldBy(PSema(s, t), T, L \cup {t}, I)
           ELSE I = {} /\ L = {} /\ HeldBy(PSema(s, t), T, {}, {t})
<1> DEFINE r == PSema(s, t)
<1>1. SleptOn(s, T, L)
  BY DEF HeldBy
<1>2. /\ r.cnt = s.cnt - 1 /\ s.cnt \in Int
      /\ PSleeps(s) => s.cnt <= 0 /\ SleptOn(r, T, L \cup {t})
      /\ ~ PSleeps(s) => s.cnt > 0 /\ L = {} /\ SleptOn(r, T, {})
  BY <1>1, SleptAsk
<1> HIDE DEF r
<1>3. CASE PSleeps(s)
  BY <1>2, <1>3 DEF HeldBy, r
<1>4. CASE ~ PSleeps(s)
  <2>1. s.cnt = 1 /\ I = {} /\ r.cnt = 0
    BY <1>2, <1>4 DEF HeldBy
  <2>2. HeldBy(r, T, {}, {t})
    BY <1>2, <1>4, <2>1 DEF HeldBy
  <2>3. QED BY <1>2, <1>4, <2>1, <2>2 DEF r
<1>5. QED BY <1>3, <1>4

(* v_sema() by the one who has it: it passes to the one that is woken. *)
LEMMA HeldGive ==
    ASSUME NEW T, NEW s, NEW L, NEW I, HeldBy(s, T, L, I), NEW t \in I
    PROVE  /\ VWakes(s) \subseteq L /\ I = {t}
           /\ HeldBy(VSema(s), T, L \ VWakes(s), VWakes(s))
<1> DEFINE r == VSema(s)
<1>1. SleptOn(s, T, L)
  BY DEF HeldBy
<1>2. /\ r.cnt = s.cnt + 1 /\ s.cnt \in Int
      /\ VWakes(s) \subseteq L
      /\ SleptOn(r, T, L \ VWakes(s))
      /\ VWakes(s) = {} => L = {} /\ s.cnt >= 0
      /\ VWakes(s) # {} => s.cnt < 0 /\ \E x \in L : VWakes(s) = {x}
  BY <1>1, SleptGive
<1> HIDE DEF r
<1>3. s.cnt <= 0 /\ I = {t}
  BY <1>2 DEF HeldBy
<1>4. /\ r.cnt > 0 <=> VWakes(s) = {}
      /\ r.cnt <= 1
      /\ \A x, y \in VWakes(s) : x = y
  BY <1>2, <1>3
<1>5. HeldBy(r, T, L \ VWakes(s), VWakes(s))
  BY <1>2, <1>4 DEF HeldBy
<1>6. QED BY <1>2, <1>3, <1>5 DEF r

(* dq_sema(): a sleeper gives up; the unit stays where it is. *)
LEMMA HeldLeave ==
    ASSUME NEW T, NEW s, NEW L, NEW I, HeldBy(s, T, L, I), NEW t \in L
    PROVE  HeldBy(DqSema(s, t), T, L \ {t}, I) /\ I # {}
<1>1. SleptOn(s, T, L)
  BY DEF HeldBy
<1>2. /\ SleptOn(DqSema(s, t), T, L \ {t})
      /\ DqSema(s, t).cnt = s.cnt + 1 /\ s.cnt < 0 /\ s.cnt \in Int
  BY <1>1, SleptLeave
<1>3. QED BY <1>2 DEF HeldBy
=============================================================================
