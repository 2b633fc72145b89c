----------------------------- MODULE SemaProofs -----------------------------
(***************************************************************************)
(* Proofs about the semaphore: the theorems are the invariants of Sema for *)
(* any number of threads, any initial count and either discipline.         *)
(***************************************************************************)
EXTENDS Sema, SemaOpsProofs

-----------------------------------------------------------------------------
(***************************************************************************)
(* The inductive invariant.  CountOK alone is not inductive: dq_sema()     *)
(* keeps it only for a thread that is on the queue, which is QueueMatches; and  *)
(* mutual exclusion needs to know that a free mutex has no holder.         *)
(***************************************************************************)
FreeIffNoHolder ==
    InitCount = 1 /\ ~ anyone =>
        /\ holders = {} => sema.cnt = 1
        /\ holders # {} => sema.cnt <= 0

NoVallOnMutex == ~ anyone => \A t \in Thread : pc[t] \notin {"vall", "kick"}

AsleepNotIntr == \A t \in Thread : pc[t] = "asleep" => ~ intr[t]

IInv ==
    /\ TypeOK
    /\ CountOK
    /\ QueueMatches
    /\ UnitsConserved
    /\ HiNotInterrupted
    /\ OwnsUnlessInterrupted
    /\ MutualExclusion
    /\ FreeIffNoHolder
    /\ NoVallOnMutex
    /\ AsleepNotIntr

(* The invariant holds when the semaphore is created.                       *)
LEMMA InitIInv == Init => IInv
  BY InitCountAssumption
  DEF Init, IInv, TypeOK, CountOK, QueueMatches, UnitsConserved, HiNotInterrupted,
      OwnsUnlessInterrupted, MutualExclusion, FreeIffNoHolder, NoVallOnMutex, AsleepNotIntr, NewSema,
      SemaType, CountsSleepers, Sleepers, Pri

(* p_sema() keeps the invariant, granted or put to sleep.                   *)
LEMMA PKeepsIInv ==
    ASSUME IInv, NEW t \in Thread, NEW p \in Pri, P(t, p)
    PROVE  IInv'
  <1> USE DEF IInv
  <1>1. SemaType(sema, Thread) /\ CountsSleepers(sema)
    BY DEF TypeOK, CountOK
  <1>2. /\ SemaType(sema', Thread)
        /\ CountsSleepers(sema')
        /\ sema'.cnt = sema.cnt - 1
        /\ sema'.q = IF sema.cnt <= 0 THEN Append(sema.q, t) ELSE sema.q
    BY <1>1, PSemaKeeps DEF P
  <1>3. sema.cnt \in Int /\ sema.q \in Seq(Thread) /\ pc[t] = "idle"
        /\ (PSleeps(sema) <=> sema.cnt <= 0)
    BY <1>1 DEF SemaType, P, MayTake, PSleeps
  <1>4. CASE sema.cnt <= 0
    <2>1. /\ pc' = [pc EXCEPT ![t] = "asleep"]
          /\ pri' = [pri EXCEPT ![t] = p]
          /\ intr' = [intr EXCEPT ![t] = FALSE]
          /\ UNCHANGED <<holders, out, anyone>>
      BY <1>3, <1>4 DEF P
    <2>2. sema'.q = Append(sema.q, t)
      BY <1>2, <1>4
    <2>3. TypeOK'
      BY <1>2, <2>1 DEF TypeOK
    <2>4. QueueMatches'
      <3>1. t \notin Sleepers(sema)
        BY <1>3 DEF QueueMatches
      <3>2. \A i \in DOMAIN sema.q : sema'.q[i] = sema.q[i]
        BY <1>3, <2>2
      <3>3. DOMAIN sema'.q = DOMAIN sema.q \cup {Len(sema.q) + 1}
            /\ sema'.q[Len(sema.q) + 1] = t
        BY <1>3, <2>2
      <3>4. Sleepers(sema') = Sleepers(sema) \cup {t}
        BY <3>2, <3>3 DEF Sleepers
      <3>5. {u \in Thread : pc'[u] = "asleep"}
              = {u \in Thread : pc[u] = "asleep"} \cup {t}
        BY <2>1 DEF TypeOK
      <3>6. \A i \in DOMAIN sema.q : sema.q[i] # t
        BY <3>1 DEF Sleepers
      <3>7. \A i, j \in DOMAIN sema'.q : sema'.q[i] = sema'.q[j] => i = j
        BY <3>2, <3>3, <3>6 DEF QueueMatches
      <3> QED
        BY <3>4, <3>5, <3>7 DEF QueueMatches
    <2>5. UnitsConserved' /\ FreeIffNoHolder'
      BY <1>2, <1>3, <1>4, <2>1 DEF UnitsConserved, FreeIffNoHolder
    <2>6. HiNotInterrupted' /\ OwnsUnlessInterrupted' /\ NoVallOnMutex' /\ MutualExclusion'
          /\ AsleepNotIntr'
      BY <1>3, <2>1 DEF TypeOK, HiNotInterrupted, OwnsUnlessInterrupted, NoVallOnMutex,
         MutualExclusion, AsleepNotIntr
    <2> QED
      BY <1>2, <2>3, <2>4, <2>5, <2>6 DEF CountOK
  <1>5. CASE ~ (sema.cnt <= 0)
    <2>1. /\ holders' = holders \cup {t}
          /\ out' = out + 1
          /\ UNCHANGED <<pc, pri, intr, anyone>>
          /\ sema'.q = sema.q
      BY <1>2, <1>3, <1>5 DEF P
    <2>2. TypeOK'
      BY <1>2, <2>1 DEF TypeOK
    <2>3. QueueMatches'
      BY <2>1 DEF QueueMatches, Sleepers
    <2>4. UnitsConserved'
      BY <1>2, <1>3, <1>5, <2>1 DEF UnitsConserved, TypeOK
    <2>5. InitCount = 1 /\ ~ anyone => holders = {} /\ sema.cnt = 1
      BY <1>3, <1>5 DEF FreeIffNoHolder
    <2>6. MutualExclusion' /\ FreeIffNoHolder'
      BY <1>2, <2>1, <2>5 DEF MutualExclusion, FreeIffNoHolder
    <2>7. HiNotInterrupted' /\ OwnsUnlessInterrupted' /\ NoVallOnMutex' /\ AsleepNotIntr'
      BY <2>1 DEF HiNotInterrupted, OwnsUnlessInterrupted, NoVallOnMutex, AsleepNotIntr
    <2> QED
      BY <1>2, <2>2, <2>3, <2>4, <2>6, <2>7 DEF CountOK
  <1> QED
    BY <1>4, <1>5

(* cp_sema() is a granted p_sema() that never sleeps.                       *)
LEMMA CPKeepsIInv ==
    ASSUME IInv, NEW t \in Thread, CP(t)
    PROVE  IInv'
  <1> USE DEF IInv
  <1>1. /\ sema.cnt \in Int /\ sema.cnt > 0 /\ sema.q = <<>>
        /\ SemaType(sema, Thread)
    BY DEF TypeOK, CountOK, CountsSleepers, SemaType, CP
  <1>2. /\ sema' = [sema EXCEPT !.cnt = @ - 1]
        /\ holders' = holders \cup {t}
        /\ out' = out + 1
        /\ UNCHANGED <<pc, pri, intr, anyone>>
    BY DEF CP
  <1>3. sema'.cnt = sema.cnt - 1 /\ sema'.q = sema.q /\ SemaType(sema', Thread)
    BY <1>1, <1>2 DEF SemaType
  <1>4. TypeOK' /\ CountOK'
    BY <1>1, <1>2, <1>3 DEF TypeOK, CountOK, CountsSleepers
  <1>5. QueueMatches' /\ HiNotInterrupted' /\ OwnsUnlessInterrupted' /\ NoVallOnMutex'
        /\ AsleepNotIntr'
    BY <1>2, <1>3 DEF QueueMatches, Sleepers, HiNotInterrupted, OwnsUnlessInterrupted,
       NoVallOnMutex, AsleepNotIntr
  <1>6. UnitsConserved'
    BY <1>1, <1>2, <1>3 DEF UnitsConserved, TypeOK
  <1>7. InitCount = 1 /\ ~ anyone => holders = {} /\ sema.cnt = 1
    BY <1>1 DEF FreeIffNoHolder
  <1>8. MutualExclusion' /\ FreeIffNoHolder'
    BY <1>1, <1>2, <1>3, <1>7 DEF MutualExclusion, FreeIffNoHolder
  <1> QED
    BY <1>4, <1>5, <1>6, <1>8

(* v_sema() keeps the invariant, from v_sema()'s caller or vall_sema()'s    *)
(* loop: the head of the queue, if any, is the thread that becomes holder.  *)
LEMMA ReleaseKeepsIInv ==
    ASSUME IInv, NEW t \in Thread, NEW n \in {"idle", "vall"}, Release(t, n),
           pc[t] \in {"idle", "kick"},
           anyone \/ (t \in holders /\ n = "idle")
    PROVE  IInv'
  <1> USE DEF IInv
  <1>1. SemaType(sema, Thread) /\ CountsSleepers(sema)
        /\ sema.cnt \in Int /\ sema.q \in Seq(Thread)
    BY DEF TypeOK, CountOK, SemaType
  <1>2. /\ SemaType(sema', Thread)
        /\ CountsSleepers(sema')
        /\ sema'.cnt = sema.cnt + 1
        /\ sema.q # <<>> => sema'.q = Tail(sema.q) /\ sema.cnt < 0
        /\ sema.q = <<>> => sema'.q = <<>> /\ sema.cnt >= 0
    BY <1>1, VSemaKeeps DEF Release
  <1>3. /\ pc' = [u \in Thread |-> IF u = t THEN n
                                   ELSE IF u \in VWakes(sema) THEN "woken"
                                   ELSE pc[u]]
        /\ holders' = (holders \ {t}) \cup VWakes(sema)
        /\ out' = IF sema.q = <<>> THEN out - 1 ELSE out
        /\ UNCHANGED <<pri, intr, anyone>>
    BY DEF Release
  <1>4. CASE sema.q = <<>>
    <2>1. VWakes(sema) = {} /\ sema'.q = <<>> /\ sema.cnt >= 0
      BY <1>2, <1>4 DEF VWakes
    <2>2. TypeOK' /\ CountOK' /\ UnitsConserved'
      BY <1>1, <1>2, <1>3, <1>4, <2>1 DEF TypeOK, CountOK, UnitsConserved
    <2>3. QueueMatches' /\ HiNotInterrupted' /\ OwnsUnlessInterrupted'
      BY <1>3, <1>4, <2>1
      DEF TypeOK, QueueMatches, Sleepers, HiNotInterrupted, OwnsUnlessInterrupted
    <2>4. NoVallOnMutex' /\ AsleepNotIntr'
      BY <1>3, <2>1 DEF TypeOK, NoVallOnMutex, AsleepNotIntr
    <2>5. InitCount = 1 /\ ~ anyone => holders = {t} /\ holders' = {} /\ sema.cnt = 0
      BY <1>1, <1>3, <2>1 DEF MutualExclusion, FreeIffNoHolder
    <2>6. MutualExclusion' /\ FreeIffNoHolder'
      BY <1>2, <1>3, <2>5 DEF MutualExclusion, FreeIffNoHolder
    <2> QED
      BY <2>2, <2>3, <2>4, <2>6
  <1>5. CASE sema.q # <<>>
    <2> DEFINE h == Head(sema.q)
    <2>1. /\ VWakes(sema) = {h}
          /\ sema'.q = Tail(sema.q)
          /\ sema.cnt < 0
          /\ h \in Thread
          /\ Len(sema.q) \in Nat \ {0}
          /\ h = sema.q[1]
      BY <1>1, <1>2, <1>5 DEF VWakes
    <2>2. pc[h] = "asleep" /\ h # t
      BY <2>1 DEF QueueMatches, Sleepers
    <2>3. TypeOK' /\ CountOK'
      BY <1>2, <1>3, <1>5, <2>1 DEF TypeOK, CountOK
    <2>4. UnitsConserved'
      BY <1>1, <1>2, <1>3, <1>5, <2>1 DEF UnitsConserved
    <2>5. QueueMatches'
      <3>1. /\ DOMAIN Tail(sema.q) = 1 .. Len(sema.q) - 1
            /\ \A i \in 1 .. Len(sema.q) - 1 : Tail(sema.q)[i] = sema.q[i + 1]
        BY <1>1, <1>5, <2>1
      <3>2. DOMAIN sema.q = 1 .. Len(sema.q)
        BY <1>1
      <3>3. ASSUME NEW i \in DOMAIN sema'.q, NEW j \in DOMAIN sema'.q,
                   sema'.q[i] = sema'.q[j]
            PROVE  i = j
        <4>1. /\ i \in 1 .. Len(sema.q) - 1 /\ j \in 1 .. Len(sema.q) - 1
              /\ i + 1 \in DOMAIN sema.q /\ j + 1 \in DOMAIN sema.q
          BY <2>1, <3>1, <3>2
        <4>2. sema.q[i + 1] = sema.q[j + 1]
          BY <2>1, <3>1, <3>3, <4>1
        <4>3. i + 1 = j + 1
          BY <4>1, <4>2 DEF QueueMatches
        <4> QED
          BY <4>1, <4>3
      <3>4. \A u : u \in Sleepers(sema') <=> u \in Sleepers(sema) /\ u # h
        <4>1. ASSUME NEW i \in 1 .. Len(sema.q) - 1
              PROVE  sema'.q[i] \in Sleepers(sema) /\ sema'.q[i] # h
          BY <2>1, <3>1, <3>2 DEF QueueMatches, Sleepers
        <4>2. ASSUME NEW u \in Sleepers(sema), u # h
              PROVE  u \in Sleepers(sema')
          <5>1. PICK i \in 1 .. Len(sema.q) : sema.q[i] = u
            BY <3>2 DEF Sleepers
          <5>2. i # 1
            BY <2>1, <4>2, <5>1
          <5>3. i - 1 \in 1 .. Len(sema.q) - 1 /\ sema'.q[i - 1] = u
            BY <2>1, <3>1, <5>1, <5>2
          <5> QED
            BY <2>1, <3>1, <5>3 DEF Sleepers
        <4> QED
          BY <2>1, <3>1, <4>1, <4>2 DEF Sleepers
      <3>5. \A u \in Thread : pc'[u] = "asleep" <=> pc[u] = "asleep" /\ u # h
        BY <1>3, <2>1, <2>2
      <3> HIDE DEF h
      <3> QED
        BY <3>3, <3>4, <3>5 DEF QueueMatches
    <2>6. HiNotInterrupted'
      <3>1. \A u \in Thread : pc[u] = "asleep" => intr[u] = FALSE
        BY DEF AsleepNotIntr
      <3> QED
        BY <1>3, <2>1, <2>2, <3>1 DEF HiNotInterrupted
    <2>7. OwnsUnlessInterrupted' /\ NoVallOnMutex' /\ AsleepNotIntr'
      BY <1>3, <2>1 DEF TypeOK, OwnsUnlessInterrupted, NoVallOnMutex, AsleepNotIntr
    <2>8. InitCount = 1 /\ ~ anyone => holders = {t} /\ holders' = {h} /\ sema'.cnt <= 0
      BY <1>1, <1>2, <1>3, <2>1 DEF MutualExclusion
    <2>9. MutualExclusion' /\ FreeIffNoHolder'
      BY <1>2, <1>3, <2>8 DEF MutualExclusion, FreeIffNoHolder
    <2> QED
      BY <2>3, <2>4, <2>5, <2>6, <2>7, <2>9
  <1> QED
    BY <1>4, <1>5

(* cunsleep() keeps the invariant: the sleeper leaves with nothing.         *)
LEMMA UnsleepKeepsIInv ==
    ASSUME IInv, NEW t \in Thread, Unsleep(t)
    PROVE  IInv'
  <1> USE DEF IInv
  <1>1. SemaType(sema, Thread) /\ CountsSleepers(sema)
        /\ sema.cnt \in Int /\ sema.q \in Seq(Thread)
    BY DEF TypeOK, CountOK, SemaType
  <1>2. t \in Sleepers(sema)
    BY DEF QueueMatches, Unsleep
  <1>3. PICK i \in DOMAIN sema.q : /\ sema.q[i] = t
                                  /\ DqSema(sema, t).q = RemoveAt(sema.q, i)
    BY <1>1, <1>2, DqSemaKeeps
  <1>4. /\ SemaType(sema', Thread)
        /\ CountsSleepers(sema')
        /\ sema'.cnt = sema.cnt + 1
        /\ sema.cnt < 0
        /\ sema'.q = RemoveAt(sema.q, i)
    BY <1>1, <1>2, <1>3, DqSemaKeeps DEF Unsleep
  <1>5. /\ pc' = [pc EXCEPT ![t] = "woken"]
        /\ intr' = [intr EXCEPT ![t] = TRUE]
        /\ pri[t] # "hi"
        /\ UNCHANGED <<pri, holders, out, anyone>>
    BY DEF Unsleep
  <1>6. TypeOK' /\ CountOK'
    BY <1>4, <1>5 DEF TypeOK, CountOK
  <1>7. UnitsConserved' /\ FreeIffNoHolder' /\ MutualExclusion'
    BY <1>1, <1>4, <1>5 DEF UnitsConserved, FreeIffNoHolder, MutualExclusion
  <1>8. HiNotInterrupted' /\ OwnsUnlessInterrupted' /\ NoVallOnMutex'
    BY <1>5 DEF TypeOK, HiNotInterrupted, OwnsUnlessInterrupted, NoVallOnMutex
  <1>9. AsleepNotIntr'
    BY <1>5 DEF TypeOK, AsleepNotIntr
  <1>10. QueueMatches'
    <2>1. /\ Len(sema'.q) = Len(sema.q) - 1
          /\ \A j \in 1 .. Len(sema.q) - 1 :
                sema'.q[j] = IF j < i THEN sema.q[j] ELSE sema.q[j + 1]
          /\ sema'.q \in Seq(Thread)
      <3> DEFINE r == RemoveAt(sema.q, i)
      <3>1. sema'.q = r /\ sema.q \in Seq(Thread)
        BY <1>1, <1>4
      <3>2. /\ Len(r) = Len(sema.q) - 1
            /\ \A j \in 1 .. Len(sema.q) - 1 :
                  r[j] = IF j < i THEN sema.q[j] ELSE sema.q[j + 1]
            /\ r \in Seq(Thread)
        BY <3>1, RemoveAtShape
      <3> HIDE DEF r
      <3> QED
        BY <3>1, <3>2
    <2>2. Len(sema.q) \in Nat /\ DOMAIN sema.q = 1 .. Len(sema.q)
          /\ DOMAIN sema'.q = 1 .. Len(sema.q) - 1 /\ i \in 1 .. Len(sema.q)
      BY <1>1, <2>1
    <2> DEFINE old(j) == IF j < i THEN j ELSE j + 1
    <2>a. \A j \in 1 .. Len(sema.q) - 1 :
             /\ old(j) \in DOMAIN sema.q /\ old(j) # i
             /\ sema'.q[j] = sema.q[old(j)]
      BY <2>1, <2>2
    <2>b. \A j, k \in 1 .. Len(sema.q) - 1 : old(j) = old(k) => j = k
      BY <2>2
    <2> HIDE DEF old
    <2>3. \A j, k \in DOMAIN sema'.q : sema'.q[j] = sema'.q[k] => j = k
      BY <2>2, <2>a, <2>b DEF QueueMatches
    <2>4. ASSUME NEW j \in 1 .. Len(sema.q) - 1
          PROVE  sema'.q[j] \in Sleepers(sema) /\ sema'.q[j] # t
      BY <1>3, <2>2, <2>a DEF QueueMatches, Sleepers
    <2>5. ASSUME NEW u \in Sleepers(sema), u # t
          PROVE  u \in Sleepers(sema')
      <3>1. PICK k \in 1 .. Len(sema.q) : sema.q[k] = u
        BY <2>2 DEF Sleepers
      <3>2. k # i
        BY <1>3, <2>5, <3>1
      <3>3. CASE k < i
        <4>1. k \in 1 .. Len(sema.q) - 1 /\ sema'.q[k] = u
          BY <2>1, <2>2, <3>1, <3>3
        <4> QED
          BY <2>2, <4>1 DEF Sleepers
      <3>4. CASE k > i
        <4>1. k - 1 \in 1 .. Len(sema.q) - 1 /\ sema'.q[k - 1] = u
          BY <2>1, <2>2, <3>1, <3>4
        <4> QED
          BY <2>2, <4>1 DEF Sleepers
      <3> QED
        BY <2>2, <3>2, <3>3, <3>4
    <2>6. \A u : u \in Sleepers(sema') <=> u \in Sleepers(sema) /\ u # t
      BY <2>2, <2>4, <2>5 DEF Sleepers
    <2>7. \A u \in Thread : pc'[u] = "asleep" <=> pc[u] = "asleep" /\ u # t
      BY <1>5 DEF TypeOK
    <2> QED
      BY <2>3, <2>6, <2>7 DEF QueueMatches
  <1> QED
    BY <1>6, <1>7, <1>8, <1>9, <1>10

(* Every step keeps the invariant.                                          *)
LEMMA NextKeepsIInv == IInv /\ [Next]_vars => IInv'
  <1> SUFFICES ASSUME IInv, [Next]_vars PROVE IInv'
    OBVIOUS
  <1>1. ASSUME NEW t \in Thread, NEW p \in Pri, P(t, p) PROVE IInv'
    BY <1>1, PKeepsIInv
  <1>2. ASSUME NEW t \in Thread, CP(t) PROVE IInv'
    BY <1>2, CPKeepsIInv
  <1>3. ASSUME NEW t \in Thread, V(t) PROVE IInv'
    BY <1>3, ReleaseKeepsIInv DEF V, MayRelease
  <1>4. ASSUME NEW t \in Thread, VallTest(t) PROVE IInv'
    BY <1>4 DEF VallTest, IInv, TypeOK, CountOK, QueueMatches, UnitsConserved,
       HiNotInterrupted, OwnsUnlessInterrupted, MutualExclusion, FreeIffNoHolder,
       NoVallOnMutex, AsleepNotIntr
  <1>5. ASSUME NEW t \in Thread, VallRelease(t) PROVE IInv'
    BY <1>5, ReleaseKeepsIInv DEF VallRelease, IInv, NoVallOnMutex
  <1>6. ASSUME NEW t \in Thread, Unsleep(t) PROVE IInv'
    BY <1>6, UnsleepKeepsIInv
  <1>7. ASSUME NEW t \in Thread, Return(t) PROVE IInv'
    BY <1>7 DEF Return, IInv, TypeOK, CountOK, QueueMatches, UnitsConserved,
       HiNotInterrupted, OwnsUnlessInterrupted, MutualExclusion, FreeIffNoHolder,
       NoVallOnMutex, AsleepNotIntr
  <1>8. CASE UNCHANGED vars
    BY <1>8 DEF vars, IInv, TypeOK, CountOK, QueueMatches, UnitsConserved,
       HiNotInterrupted, OwnsUnlessInterrupted, MutualExclusion, FreeIffNoHolder,
       NoVallOnMutex, AsleepNotIntr, Sleepers
  <1> QED
    BY <1>1, <1>2, <1>3, <1>4, <1>5, <1>6, <1>7, <1>8 DEF Next

(* The inductive invariant holds in every reachable state.                  *)
THEOREM Invariance == Spec => []IInv
  BY InitIInv, NextKeepsIInv, PTL DEF Spec

(* The type invariant, for any number of threads.                           *)
THEOREM TypeCorrect == Spec => []TypeOK
  BY Invariance, PTL DEF IInv

(* No lost wakeup: a negative count is the number of sleepers and a         *)
(* semaphore with units has none (the DEBUG assertions of dq_sema() and     *)
(* v_sema() at mutex.c:117 and mutex.c:226 cannot fail).                    *)
THEOREM CountCorrect == Spec => []CountOK
  BY Invariance, PTL DEF IInv

(* Units are neither created nor lost by any mixture of p_sema(),           *)
(* cp_sema(), v_sema(), vall_sema() and interrupts.                         *)
THEOREM Conservation == Spec => []UnitsConserved
  BY Invariance, PTL DEF IInv

(* A semaphore created with one unit and released by its holder only is a   *)
(* mutex: this is how p_sema of a proc, a port, a portref or the pid table  *)
(* is used.                                                                 *)
THEOREM Mutex == Spec => []MutualExclusion
  BY Invariance, PTL DEF IInv

(* The queue is exactly the set of sleepers, each of them once: v_sema()    *)
(* and cunsleep() never take the same thread off twice.                     *)
THEOREM QueueCorrect == Spec => []QueueOK
  BY Invariance, PTL DEF IInv, QueueOK

(* A PRIHI sleeper is never interrupted (the assertion at mutex.c:177), and *)
(* p_sema() returning 0 always means that the unit is held.                 *)
THEOREM WokenOwns == Spec => []WokenHolds
  BY Invariance, PTL DEF IInv, WokenHolds

(* Whoever is granted a unit while others sleep is the head of the queue:   *)
(* p_sema() and cp_sema() grant only with units left, and then nobody       *)
(* sleeps; v_sema() grants to the head (mutex.c:224-231).                   *)
LEMMA GrantsInOrder ==
    ASSUME IInv, [Next]_vars, NEW t \in holders' \ holders, sema.q # <<>>
    PROVE  t = Head(sema.q)
  <1>1. sema.cnt \in Int /\ sema.cnt < 0
    BY DEF IInv, TypeOK, CountOK, CountsSleepers, SemaType
  <1>2. CASE holders' = holders
    BY <1>2
  <1>3. ASSUME NEW u \in Thread, NEW n, Release(u, n)
        PROVE  t = Head(sema.q)
    BY <1>3 DEF Release, VWakes
  <1>4. ASSUME NEW u \in Thread, NEW p \in Pri, P(u, p)
        PROVE  holders' = holders
    BY <1>1, <1>4 DEF P, PSleeps
  <1>5. ASSUME NEW u \in Thread, CP(u)
        PROVE  FALSE
    BY <1>1, <1>5 DEF CP
  <1>6. ASSUME NEW u \in Thread, VallTest(u) \/ Unsleep(u) \/ Return(u)
        PROVE  holders' = holders
    BY <1>6 DEF VallTest, Unsleep, Return
  <1> QED
    BY <1>2, <1>3, <1>4, <1>5, <1>6 DEF Next, V, VallRelease, vars

(* First come, first served, for any number of threads.                     *)
THEOREM FirstComeFirstServed == Spec => NoOvertaking
  <1>1. IInv /\ [Next]_vars =>
            [\A t \in holders' \ holders : sema.q # <<>> => t = Head(sema.q)]_vars
    BY GrantsInOrder
  <1> QED
    BY <1>1, Invariance, PTL DEF Spec, NoOvertaking
=============================================================================
