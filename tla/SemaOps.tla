------------------------------ MODULE SemaOps ------------------------------
(***************************************************************************)
(* The sleeping semaphore of the kernel, src/src/os/mach/mutex.c, as pure  *)
(* operators on its state.  A semaphore is a record                        *)
(*    cnt : s_count, negative when threads sleep on it                     *)
(*    q   : s_sleepq, the circular list of sleepers, head first            *)
(* Every operator is one critical section of s_lock.  The modules that use *)
(* a semaphore decide what a thread does when it sleeps or is woken.       *)
(***************************************************************************)
EXTENDS Integers, Sequences, SequencesExt

(* init_sema() followed by set_sema(): a semaphore of n units, no sleeper. *)
NewSema(n) == [cnt |-> n, q |-> <<>>]

(* Definitions marked "Mutant" are slips this code could have had; each one  *)
(* breaks a property, which shows that the property depends on the code.     *)

(* Mutant: the test of p_sema() is off by one. *)
PSleepsOffByOne(s) == s.cnt < 0

(* p_sema() sleeps iff the decremented count is negative. *)
PSleeps(s) == s.cnt <= 0

(* Mutant: sleepers queue at the head. *)
PSemaLifo(s, t) == [cnt |-> s.cnt - 1,
                    q   |-> IF PSleeps(s) THEN <<t>> \o s.q ELSE s.q]

(* p_sema(), p_sema_v_lock(): take a unit, or join the tail of the queue. *)
PSema(s, t) == [cnt |-> s.cnt - 1,
                q   |-> IF PSleeps(s) THEN Append(s.q, t) ELSE s.q]

(* Mutant: the links of the thread are zeroed but it stays on the list. *)
DqSemaNulled(s, t) ==
    LET i == CHOOSE j \in DOMAIN s.q : s.q[j] = t
    IN  [cnt |-> s.cnt + 1, q |-> [s.q EXCEPT ![i] = 0]]

(* Mutant: the head is taken off instead of the given thread. *)
DqSemaHead(s, t) == [cnt |-> s.cnt + 1, q |-> Tail(s.q)]

(* dq_sema(): take a given sleeper off the list and give its unit back. *)
DqSema(s, t) ==
    LET i == CHOOSE j \in DOMAIN s.q : s.q[j] = t
    IN  [cnt |-> s.cnt + 1, q |-> RemoveAt(s.q, i)]

(* Mutant: waking a sleeper forgets the count dq_sema() would update. *)
VSemaLostCount(s) == [cnt |-> IF s.q = <<>> THEN s.cnt + 1 ELSE s.cnt,
                      q   |-> IF s.q = <<>> THEN <<>> ELSE Tail(s.q)]

(* v_sema(): the head sleeper gets the unit, if there is one. *)
VSema(s) == [cnt |-> s.cnt + 1,
             q   |-> IF s.q = <<>> THEN <<>> ELSE Tail(s.q)]

(* Mutant: the latest sleeper is woken. *)
VWakesLast(s) == IF s.q = <<>> THEN {} ELSE {Last(s.q)}

(* The thread v_sema() makes runnable, as a set of at most one. *)
VWakes(s) == IF s.q = <<>> THEN {} ELSE {Head(s.q)}

(* blocked_sema() *)
Blocked(s) == s.cnt < 0

(* set_sema(): the count alone; the sleep queue stays as it is. *)
SetSema(s, n) == [s EXCEPT !.cnt = n]

Sleepers(s) == {s.q[i] : i \in DOMAIN s.q}

SemaType(s, Thread) == s \in [cnt : Int, q : Seq(Thread)]

(***************************************************************************)
(* What every operation relies on and keeps: a negative count is the       *)
(* number of sleepers, and nobody sleeps on a semaphore that has units.    *)
(* dq_sema() and v_sema() assert parts of it under DEBUG.                  *)
(***************************************************************************)
CountsSleepers(s) == IF s.cnt < 0 THEN Len(s.q) = - s.cnt ELSE s.q = <<>>
=============================================================================
