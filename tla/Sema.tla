------------------------------- MODULE Sema -------------------------------
(***************************************************************************)
(* Threads using one semaphore of src/src/os/mach/mutex.c.  By the design   *)
(* (src/src/vsta_intro.txt:92, :154) other processors run the same code    *)
(* and a thread loses the CPU anywhere except while it holds a spinlock,    *)
(* so a step here is one critical section of                                *)
(* s_lock: p_sema(), cp_sema(), v_sema(), one test or one v_sema() of      *)
(* vall_sema(), cunsleep() (called by signal_thread()), and the return of  *)
(* a woken thread from swtch().                                            *)
(***************************************************************************)
EXTENDS SemaOps

CONSTANTS
    Thread,      \* the threads
    InitCount,   \* set_sema() at creation: 1 for a mutex, 0 for an event
    CountCap     \* bound: nobody calls v_sema() when the count has this value

ASSUME InitCountAssumption == InitCount \in Nat
ASSUME CountCapAssumption  == CountCap \in Nat

(* The sleep priorities: PRIHI is uninterruptible, PRICATCH returns 1 to   *)
(* the caller, PRILO leaves the system call by longjmp(t_qsav).            *)
Pri == {"hi", "catch", "lo"}

VARIABLES
    anyone,    \* how the semaphore is used, fixed from the start: a mutex,
               \* released by its holder only (FALSE), or an event counter
               \* any thread may v_sema() or vall_sema() (TRUE)
    sema,      \* the semaphore
    pc,        \* per thread: where it is
    pri,       \* per thread: priority of its last sleep (t_nointr)
    intr,      \* per thread: t_intr
    holders,   \* history: threads granted a unit since they last released
    out        \* history: units granted less units released

vars == <<anyone, sema, pc, pri, intr, holders, out>>

Init ==
    /\ anyone \in BOOLEAN
    /\ sema = NewSema(InitCount)
    /\ pc = [t \in Thread |-> "idle"]
    /\ pri = [t \in Thread |-> "hi"]
    /\ intr = [t \in Thread |-> FALSE]
    /\ holders = {}
    /\ out = 0

(* A mutex is not entered twice by the thread that owns it. *)
MayTake(t) == pc[t] = "idle" /\ (anyone \/ t \notin holders)
MayRelease(t) == (anyone \/ t \in holders) /\ sema.cnt < CountCap

(* p_sema(): take a unit, or queue at the tail and give up the CPU. *)
P(t, p) ==
    /\ MayTake(t)
    /\ sema' = PSema(sema, t)
    /\ IF PSleeps(sema)
         THEN /\ pc' = [pc EXCEPT ![t] = "asleep"]
              /\ pri' = [pri EXCEPT ![t] = p]
              /\ intr' = [intr EXCEPT ![t] = FALSE]
              /\ UNCHANGED <<holders, out, anyone>>
         ELSE /\ holders' = holders \cup {t}
              /\ out' = out + 1
              /\ UNCHANGED <<pc, pri, intr, anyone>>

(* Mutant: cp_sema() accepts a count of zero. *)
CPAtZero(t) ==
    /\ MayTake(t)
    /\ sema.cnt >= 0
    /\ sema' = [sema EXCEPT !.cnt = @ - 1]
    /\ holders' = holders \cup {t}
    /\ out' = out + 1
    /\ UNCHANGED <<pc, pri, intr, anyone>>

(* cp_sema(): take a unit only if that needs no sleep. *)
CP(t) ==
    /\ MayTake(t)
    /\ sema.cnt > 0
    /\ sema' = [sema EXCEPT !.cnt = @ - 1]
    /\ holders' = holders \cup {t}
    /\ out' = out + 1
    /\ UNCHANGED <<pc, pri, intr, anyone>>

(* v_sema() as called by thread t, which goes on at pcNext.  The head of    *)
(* the queue is made runnable and owns the unit from this moment on.        *)
Release(t, pcNext) ==
    /\ sema' = VSema(sema)
    /\ pc' = [u \in Thread |-> IF u = t THEN pcNext
                               ELSE IF u \in VWakes(sema) THEN "woken"
                               ELSE pc[u]]
    /\ holders' = (holders \ {t}) \cup VWakes(sema)
    /\ out' = IF sema.q = <<>> THEN out - 1 ELSE out
    /\ UNCHANGED <<pri, intr, anyone>>

V(t) ==
    /\ pc[t] = "idle"
    /\ MayRelease(t)
    /\ Release(t, "idle")

(* vall_sema(): the test of its loop reads the count with no lock held. *)
VallTest(t) ==
    /\ anyone
    /\ pc[t] \in {"idle", "vall"}
    /\ pc' = [pc EXCEPT ![t] = IF Blocked(sema) THEN "kick" ELSE "idle"]
    /\ UNCHANGED <<sema, pri, intr, holders, out, anyone>>

(* vall_sema(): the v_sema() of its loop. *)
VallRelease(t) ==
    /\ pc[t] = "kick"
    /\ Release(t, "vall")

(* Mutant: t_intr is not set. *)
UnsleepSilent(t) ==
    /\ pc[t] = "asleep"
    /\ pri[t] # "hi"
    /\ sema' = DqSema(sema, t)
    /\ pc' = [pc EXCEPT ![t] = "woken"]
    /\ UNCHANGED <<pri, intr, holders, out, anyone>>

(* cunsleep() followed by lsetrun(): an event reaches a thread asleep       *)
(* below PRIHI; it leaves the queue without the unit.                       *)
Unsleep(t) ==
    /\ pc[t] = "asleep"
    /\ pri[t] # "hi"
    /\ sema' = DqSema(sema, t)
    /\ pc' = [pc EXCEPT ![t] = "woken"]
    /\ intr' = [intr EXCEPT ![t] = TRUE]
    /\ UNCHANGED <<pri, holders, out, anyone>>

(* p_sema() after swtch(): with t_intr it returns 1 or longjmps, without    *)
(* it returns 0; the grant itself was the waker's work.                     *)
Return(t) ==
    /\ pc[t] = "woken"
    /\ pc' = [pc EXCEPT ![t] = "idle"]
    /\ UNCHANGED <<sema, pri, intr, holders, out, anyone>>

Next ==
    \E t \in Thread :
        \/ \E p \in Pri : P(t, p)
        \/ CP(t)
        \/ V(t)
        \/ VallTest(t)
        \/ VallRelease(t)
        \/ Unsleep(t)
        \/ Return(t)

Spec == Init /\ [][Next]_vars

(* A runnable thread gets the CPU in the end, and a holder of a mutex       *)
(* releases it: every p_sema() of the kernel has its v_sema().              *)
Fairness ==
    \A t \in Thread :
        /\ WF_vars(Return(t))
        /\ WF_vars(t \in holders /\ V(t))

LiveSpec == Spec /\ Fairness

-----------------------------------------------------------------------------
TypeOK ==
    /\ anyone \in BOOLEAN
    /\ SemaType(sema, Thread)
    /\ pc \in [Thread -> {"idle", "asleep", "woken", "vall", "kick"}]
    /\ pri \in [Thread -> Pri]
    /\ intr \in [Thread -> BOOLEAN]
    /\ holders \subseteq Thread
    /\ out \in Int

(* The count and the queue agree: nobody is left sleeping on a semaphore    *)
(* that has units (no lost wakeup), and dq_sema() never finds the count     *)
(* non-negative (mutex.c:117, mutex.c:226).                                 *)
CountOK == CountsSleepers(sema)

(* The queue holds exactly the threads asleep, each once: cunsleep() and    *)
(* v_sema() never take the same thread off twice (t_wchan, mutex.c:228).    *)
QueueMatches ==
    /\ Sleepers(sema) = {t \in Thread : pc[t] = "asleep"}
    /\ \A i, j \in DOMAIN sema.q : sema.q[i] = sema.q[j] => i = j

(* Count, queue and sleeping threads agree. *)
QueueOK == CountOK /\ QueueMatches

(* No unit is created or lost, whatever mixture of hand-offs, interrupts    *)
(* and conditional takes happened: what was there at first is either still  *)
(* in the count or granted and not released.                                *)
UnitsConserved == InitCount = out + (IF sema.cnt > 0 THEN sema.cnt ELSE 0)

(* p_sema() of a woken thread: a PRIHI sleeper is never handed an interrupt *)
(* (mutex.c:177), so its caller may ignore the result; and a thread that    *)
(* was not interrupted owns a unit, so 0 always means it has the semaphore. *)
HiNotInterrupted ==
    \A t \in Thread : pc[t] = "woken" /\ intr[t] => pri[t] # "hi"

OwnsUnlessInterrupted ==
    \A t \in Thread : pc[t] = "woken" => (intr[t] \/ t \in holders)

WokenHolds == HiNotInterrupted /\ OwnsUnlessInterrupted

(* The kernel's mutexes: with one unit, released by its holder only, no two *)
(* threads are between p_sema() and v_sema() at once.                       *)
MutualExclusion ==
    InitCount = 1 /\ ~ anyone => \A t, u \in holders : t = u

(* First come, first served: a thread granted a unit while others sleep was *)
(* the longest sleeper; a newcomer never overtakes the queue.               *)
NoOvertaking ==
    [][\A t \in holders' \ holders :
            sema.q # <<>> => t = Head(sema.q)]_vars

(* What the comment of vall_sema() promises on one processor ("races on MP"): *)
(* it kicks sleepers loose and leaves no unit behind.                         *)
VallLeavesNoUnit ==
    [][\A t \in Thread : VallRelease(t) => sema.q # <<>>]_vars

(* A thread that sleeps on a mutex comes back. *)
SleepEnds ==
    \A t \in Thread : ~ anyone /\ pc[t] = "asleep" ~> pc[t] = "idle"
=============================================================================
