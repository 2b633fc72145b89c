------------------------------- MODULE Sched -------------------------------
(***************************************************************************)
(* The scheduler: src/src/os/kern/sched.c, with its callers in             *)
(* src/src/os/mach/mutex.c (sleeping), trap.c (preemption), locore.s       *)
(* (idle), src/src/os/kern/xclock.c (the clock) and proc.c (fork, exit).   *)
(*                                                                         *)
(* Threads ready to run are on circular lists through s_hd and s_tl:       *)
(* real-time, "cheated" (they gave up the CPU early), background, or below *)
(* the node of their process, which is itself on the list below the root.  *)
(* There is one CPU, as in mutex.c.  A step is what runs with runq_lock    *)
(* held, or between; interrupts come in between, and not while the lock is *)
(* held (pc "swtch").  No priority but the default is ever given to a      *)
(* node, so random() can pick any.  s_refs is read nowhere and left out.   *)
(***************************************************************************)
EXTENDS Integers, FiniteSets

CONSTANTS
    Thread, Proc,
    ProcOf,     \* the process of each thread
    Rt, Cheated, Bg, Root, \* sched_rt, sched_cheated, sched_bg, sched_root
    None,
    RunTicks,   \* RUN_TICKS
    MaxOink,    \* T_MAX_OINK
    Envs        \* the settings to look at, see Env

Head == {Rt, Cheated, Bg, Root} \cup Proc   \* nodes with an s_down
Node == Thread \cup Proc                    \* nodes with a place on a list

(* What happens, fixed from the start:                                      *)
(*    boot   the threads of the boot processes                              *)
(*    forks  do threads fork?                                               *)
(*    exits  do threads exit?                                               *)
(*    prio   do threads change their priority?                              *)
Env == [boot : SUBSET Thread, forks : BOOLEAN, exits : BOOLEAN, prio : BOOLEAN]

ASSUME EnvAssumption == Envs \subseteq Env
ASSUME NodeAssumption ==
    /\ IsFiniteSet(Thread) /\ ProcOf \in [Thread -> Proc]
    /\ Thread \cap Head = {} /\ Proc \cap {Rt, Cheated, Bg, Root} = {}
    /\ Rt # Cheated /\ Rt # Bg /\ Rt # Root
    /\ Cheated # Bg /\ Cheated # Root /\ Bg # Root
    /\ None \notin Thread \cup Head
ASSUME TickAssumption == RunTicks \in Nat /\ MaxOink \in Nat

CheatTicks == RunTicks \div 2

VARIABLES
    env,     \* the setting
    q,       \* the nodes: s_down, s_hd, s_tl, s_nrun
    state,   \* t_state; "none" for a thread that is not there
    ticks,   \* t_runticks
    oink,    \* t_oink
    cls,     \* T_RT and T_BG of t_flags
    cpu,     \* where the CPU is, curthread, pc_pri, do_preempt
    num_run

vars == <<env, q, state, ticks, oink, cls, cpu, num_run>>
attrs == <<ticks, oink, cls>>

Init ==
    /\ env \in Envs
    /\ q = [down |-> [h \in Head |-> None], hd |-> [n \in Node |-> None],
            tl |-> [n \in Node |-> None],
            nrun |-> [n \in Node \cup {Root} |-> 0]]
    /\ state = [t \in Thread |-> "none"]
    /\ ticks = [t \in Thread |-> 0]
    /\ oink = [t \in Thread |-> 0]
    /\ cls = [t \in Thread |-> "ts"]
    /\ cpu = [pc |-> "boot", cur |-> None, pri |-> 0, preempt |-> FALSE]
    /\ num_run = 0

-----------------------------------------------------------------------------
(* The lists                                                                *)

queue(r, up, s) ==
    LET first == r.down[up] last == r.tl[first] IN
    IF first = None
    THEN [r EXCEPT !.down[up] = s, !.hd[s] = s, !.tl[s] = s]
    ELSE [r EXCEPT !.hd = [@ EXCEPT ![s] = first, ![last] = s],
                   !.tl = [@ EXCEPT ![s] = last, ![first] = s]]

(* Mutant: the parent's pointer is left alone. *)
dequeueBehind(r, up, s) ==
    LET next == r.hd[s] prev == r.tl[s] IN
    IF next = s
    THEN [r EXCEPT !.down[up] = None, !.hd[s] = None, !.tl[s] = None]
    ELSE [r EXCEPT !.hd = [@ EXCEPT ![prev] = next, ![s] = None],
                   !.tl = [@ EXCEPT ![next] = prev, ![s] = None]]

dequeue(r, up, s) ==
    LET next == r.hd[s] prev == r.tl[s] IN
    IF next = s
    THEN [r EXCEPT !.down[up] = None, !.hd[s] = None, !.tl[s] = None]
    ELSE [r EXCEPT !.hd = [@ EXCEPT ![prev] = next, ![s] = None],
                   !.tl = [@ EXCEPT ![next] = prev, ![s] = None],
                   !.down[up] = IF @ = s THEN next ELSE @]

(* A leaf is counted, or not any more, in each node up the tree. *)
Count(r, t, by) ==
    [r EXCEPT !.nrun = [n \in Node \cup {Root} |->
                            r.nrun[n] + IF n \in {t, ProcOf[t], Root} THEN by ELSE 0]]

(* The nodes of N met on the way round from first: those in every set that  *)
(* holds first and the successors of its members.                           *)
Ring(r, N, first) ==
    IF first = None THEN {}
    ELSE {n \in N : \A S \in SUBSET (N \ {n}) :
                        first \in S => \E m \in S : r.hd[m] \notin S}

-----------------------------------------------------------------------------
(* lsetrun(): the queue t goes to, and whether that preempts                *)

Cheats(t) == ticks[t] > CheatTicks /\ oink[t] = 0

Ready(t) ==
    CASE cls[t] = "rt" -> queue(q, Rt, t)
      [] cls[t] = "bg" -> queue(q, Bg, t)
      [] cls[t] = "ts" /\ Cheats(t) -> queue(q, Cheated, t)
      [] OTHER -> Count(queue(q, ProcOf[t], t), t, 1)

Preempts(t) == cls[t] = "rt" \/ (cls[t] = "ts" /\ Cheats(t) /\ cpu.pri < 3)

(* setrun() of a sleeper: by an interrupt, or whoever runs. *)
Wake(t) ==
    /\ cpu.pc \notin {"swtch", "boot"} /\ state[t] = "sleep"
    /\ q' = Ready(t)
    /\ state' = [state EXCEPT ![t] = "run"]
    /\ num_run' = num_run + 1
    /\ cpu' = [cpu EXCEPT !.preempt = @ \/ Preempts(t)]
    /\ UNCHANGED <<env, attrs>>

-----------------------------------------------------------------------------
(* What the thread on the CPU does                                          *)

Running == cpu.pc = "run"
Switch  == [cpu EXCEPT !.pc = "swtch", !.preempt = FALSE]

(* p_sema() sleeps; giving up the CPU takes back a point of overuse. *)
Sleep ==
    LET t == cpu.cur IN
    /\ Running
    /\ state' = [state EXCEPT ![t] = "sleep"]
    /\ oink' = [oink EXCEPT ![t] = IF @ > 0 THEN @ - 1 ELSE @]
    /\ num_run' = num_run - 1
    /\ cpu' = Switch
    /\ UNCHANGED <<env, q, ticks, cls>>

(* timeslice() *)
Timeslice ==
    LET t == cpu.cur IN
    /\ Running
    /\ q' = Ready(t)
    /\ state' = [state EXCEPT ![t] = "run"]
    /\ cpu' = Switch
    /\ UNCHANGED <<env, attrs, num_run>>

(* The thread returns to user level and is to go off the CPU, or it yields. *)
Preempt == cpu.preempt /\ Timeslice
Yield   == Timeslice

(* Mutant: the ticks are not stopped at zero. *)
TickOn ==
    LET t == cpu.cur IN
    /\ cpu.pc \in {"run", "exit"}
    /\ ticks' = [ticks EXCEPT ![t] = @ - 1]
    /\ oink' = [oink EXCEPT ![t] = IF ticks'[t] = 0 /\ @ < MaxOink THEN @ + 1 ELSE @]
    /\ cpu' = [cpu EXCEPT !.preempt = @ \/ ticks'[t] = 0]
    /\ UNCHANGED <<env, q, state, cls, num_run>>

(* hardclock() *)
Tick ==
    LET t == cpu.cur IN
    /\ cpu.pc \in {"run", "exit"}
    /\ ticks' = [ticks EXCEPT ![t] = IF @ > 0 THEN @ - 1 ELSE @]
    /\ oink' = [oink EXCEPT ![t] = IF ticks'[t] = 0 /\ @ < MaxOink THEN @ + 1 ELSE @]
    /\ cpu' = [cpu EXCEPT !.preempt = @ \/ ticks'[t] = 0]
    /\ UNCHANGED <<env, q, state, cls, num_run>>

(* Mutant: no nudge for a priority that fell. *)
SetPrioQuiet(pri, u) ==
    /\ Running /\ env.prio /\ (u # None => state[u] # "none")
    /\ cls' = IF u = None THEN cls
              ELSE [cls EXCEPT ![u] = CASE pri = 1 -> "bg" [] pri = 4 -> "rt" [] OTHER -> "ts"]
    /\ cpu' = [cpu EXCEPT !.pri = pri]
    /\ UNCHANGED <<env, q, state, ticks, oink, num_run>>

(* sched_prichg(): which thread it writes to is not defined, as t is never  *)
(* set: the caller, another, or memory that is no thread.                   *)
SetPrio(pri, u) ==
    /\ Running /\ env.prio /\ (u # None => state[u] # "none")
    /\ cls' = IF u = None THEN cls
              ELSE [cls EXCEPT ![u] = CASE pri = 1 -> "bg" [] pri = 4 -> "rt" [] OTHER -> "ts"]
    /\ cpu' = [cpu EXCEPT !.preempt = @ \/ cpu.pri > pri, !.pri = pri]
    /\ UNCHANGED <<env, q, state, ticks, oink, num_run>>

-----------------------------------------------------------------------------
(* swtch()                                                                  *)

(* pick_run(): one of the processes with threads to run, and one of these.  *)
Candidate(t) ==
    /\ ProcOf[t] \in Ring(q, Proc, q.down[Root]) /\ q.nrun[ProcOf[t]] > 0
    /\ t \in Ring(q, Thread, q.down[ProcOf[t]]) /\ q.nrun[t] > 0

(* Mutant: every thread that is run gets a new share. *)
RunItAnew(t, r, pri) ==
    /\ q' = r
    /\ state' = [state EXCEPT ![t] = "onproc"]
    /\ ticks' = [ticks EXCEPT ![t] = RunTicks]
    /\ cpu' = [cpu EXCEPT !.pc = "run", !.cur = t, !.pri = pri]
    /\ UNCHANGED <<env, oink, cls, num_run>>

(* t is run, off the list r, with the priority pri; those who gave up the   *)
(* CPU early go on with what they had left of it.                           *)
RunIt(t, r, pri) ==
    /\ q' = r
    /\ state' = [state EXCEPT ![t] = "onproc"]
    /\ ticks' = [ticks EXCEPT ![t] = IF pri = 3 THEN @ ELSE RunTicks]
    /\ cpu' = [cpu EXCEPT !.pc = "run", !.cur = t, !.pri = pri]
    /\ UNCHANGED <<env, oink, cls, num_run>>

(* Mutant: pick_run() counts the leaf only. *)
PickLeaf(t) ==
    /\ cpu.pc = "swtch"
    /\ IF q.down[Rt] # None THEN t = q.down[Rt] /\ RunIt(t, dequeue(q, Rt, t), 4)
       ELSE IF q.down[Cheated] # None
            THEN t = q.down[Cheated] /\ RunIt(t, dequeue(q, Cheated, t), 3)
       ELSE IF q.nrun[Root] > 0
            THEN /\ Candidate(t)
                 /\ RunIt(t, [dequeue(q, ProcOf[t], t) EXCEPT !.nrun[t] = 0], 2)
       ELSE q.down[Bg] # None /\ t = q.down[Bg] /\ RunIt(t, dequeue(q, Bg, t), 1)

Pick(t) ==
    /\ cpu.pc = "swtch"
    /\ IF q.down[Rt] # None THEN t = q.down[Rt] /\ RunIt(t, dequeue(q, Rt, t), 4)
       ELSE IF q.down[Cheated] # None
            THEN t = q.down[Cheated] /\ RunIt(t, dequeue(q, Cheated, t), 3)
       ELSE IF q.nrun[Root] > 0
            THEN Candidate(t) /\ RunIt(t, Count(dequeue(q, ProcOf[t], t), t, -1), 2)
       ELSE q.down[Bg] # None /\ t = q.down[Bg] /\ RunIt(t, dequeue(q, Bg, t), 1)

(* Nothing to run. *)
GoIdle ==
    /\ cpu.pc = "swtch" /\ q.nrun[Root] = 0
    /\ \A h \in {Rt, Cheated, Bg} : q.down[h] = None
    /\ cpu' = [cpu EXCEPT !.pc = "idle", !.cur = None]
    /\ UNCHANGED <<env, q, state, attrs, num_run>>

(* idle() waits for num_run. *)
LeaveIdle ==
    /\ cpu.pc = "idle" /\ num_run # 0
    /\ cpu' = [cpu EXCEPT !.pc = "swtch"]
    /\ UNCHANGED <<env, q, state, attrs, num_run>>

-----------------------------------------------------------------------------
(* Threads and processes come and go                                        *)

Lives(p) == \E t \in Thread : ProcOf[t] = p /\ state[t] # "none"

(* bootproc(), before there is anybody to run *)
BootProc(t) ==
    /\ cpu.pc = "boot" /\ t \in env.boot /\ ~ Lives(ProcOf[t])
    /\ q' = Count(queue(queue(q, Root, ProcOf[t]), ProcOf[t], t), t, 1)
    /\ state' = [state EXCEPT ![t] = "run"]
    /\ num_run' = num_run + 1
    /\ UNCHANGED <<env, attrs, cpu>>

Start ==
    /\ cpu.pc = "boot" /\ \A t \in env.boot : Lives(ProcOf[t])
    /\ cpu' = Switch
    /\ UNCHANGED <<env, q, state, attrs, num_run>>

(* A new thread sleeps until the setrun() at the end of the fork; most of   *)
(* it is copied from its parent, but fork_proc() starts with no ticks.      *)
ForkThread(t) ==
    /\ Running /\ env.forks /\ state[t] = "none" /\ ProcOf[t] = ProcOf[cpu.cur]
    /\ state' = [state EXCEPT ![t] = "sleep"]
    /\ ticks' = [ticks EXCEPT ![t] = ticks[cpu.cur]]
    /\ oink' = [oink EXCEPT ![t] = 0]
    /\ cls' = [cls EXCEPT ![t] = cls[cpu.cur]]
    /\ UNCHANGED <<env, q, cpu, num_run>>

ForkProc(t) ==
    /\ Running /\ env.forks /\ ~ Lives(ProcOf[t])
    /\ q' = queue(q, Root, ProcOf[t])
    /\ state' = [state EXCEPT ![t] = "sleep"]
    /\ ticks' = [ticks EXCEPT ![t] = 0]
    /\ oink' = [oink EXCEPT ![t] = 0]
    /\ cls' = [cls EXCEPT ![t] = cls[cpu.cur]]
    /\ UNCHANGED <<env, cpu, num_run>>

(* do_exit() frees the thread's node, and the process's with the last; it   *)
(* does not give up the CPU until it is done, with the thread freed.        *)
Exit ==
    LET t == cpu.cur p == ProcOf[t]
        last == \A u \in Thread \ {t} : ProcOf[u] = p => state[u] = "none"
    IN
    /\ Running /\ env.exits
    /\ q' = IF last THEN dequeue(q, Root, p) ELSE q
    /\ cpu' = [cpu EXCEPT !.pc = "exit"]
    /\ UNCHANGED <<env, state, attrs, num_run>>

ExitDone ==
    /\ cpu.pc = "exit"
    /\ num_run' = num_run - 1
    /\ state' = [state EXCEPT ![cpu.cur] = "none"]
    /\ ticks' = [ticks EXCEPT ![cpu.cur] = 0]
    /\ oink' = [oink EXCEPT ![cpu.cur] = 0]
    /\ cls' = [cls EXCEPT ![cpu.cur] = "ts"]
    /\ cpu' = [Switch EXCEPT !.cur = None]
    /\ UNCHANGED <<env, q>>

-----------------------------------------------------------------------------
Next ==
    \/ \E t \in Thread : Wake(t) \/ Pick(t) \/ BootProc(t) \/ ForkThread(t) \/ ForkProc(t)
    \/ \E pri \in 1..4, u \in Thread \cup {None} : SetPrio(pri, u)
    \/ Sleep \/ Preempt \/ Yield \/ Tick
    \/ GoIdle \/ LeaveIdle \/ Start \/ Exit \/ ExitDone

Spec == Init /\ [][Next]_vars

(* The boot code runs, a preempted thread returns to user level, and an     *)
(* exit ends; the clock interrupts whoever runs, at the latest when         *)
(* interrupts are on again; and random() does not pass over the same thread *)
(* every time.                                                              *)
Fairness ==
    /\ WF_vars(Start \/ \E t \in Thread : BootProc(t))
    /\ WF_vars(Preempt) /\ WF_vars(ExitDone) /\ WF_vars(LeaveIdle)
    /\ WF_vars(GoIdle) /\ WF_vars(\E t \in Thread : Pick(t))
    /\ SF_vars(Tick)
    /\ \A t \in Thread : SF_vars(Pick(t))

LiveSpec == Spec /\ Fairness

-----------------------------------------------------------------------------
(* Properties                                                               *)

Priority == 0..4

(* What the variables hold.                                                 *)
TypeOK ==
    /\ env \in Env
    /\ q \in [down : [Head -> Node \cup {None}], hd : [Node -> Node \cup {None}],
              tl : [Node -> Node \cup {None}], nrun : [Node \cup {Root} -> Int]]
    /\ state \in [Thread -> {"none", "sleep", "run", "onproc"}]
    /\ ticks \in [Thread -> 0..RunTicks]
    /\ oink \in [Thread -> 0..MaxOink]
    /\ cls \in [Thread -> {"ts", "rt", "bg"}]
    /\ cpu \in [pc : {"boot", "run", "swtch", "idle", "exit"}, cur : Thread \cup {None},
                pri : Priority, preempt : BOOLEAN]
    /\ num_run \in Int

List(h) == Ring(q, Thread, q.down[h])
Lists   == {Rt, Cheated, Bg} \cup Proc

(* A thread that is ready to run is found on exactly one list, below its    *)
(* own process if it is in the tree; no other thread is on any, and the     *)
(* processes there are on the root's (sched.c:36-82).                       *)
RunnableQueued ==
    /\ \A t \in Thread :
           IF state[t] = "run" THEN \E h \in Lists : \A g \in Lists : t \in List(g) <=> g = h
           ELSE \A h \in Lists : t \notin List(h)
    /\ \A p \in Proc : \A t \in List(p) : ProcOf[t] = p
    /\ cpu.pc # "exit" => Ring(q, Proc, q.down[Root]) = {p \in Proc : Lives(p)}

Queued(p) == {t \in Thread : ProcOf[t] = p /\ q.nrun[t] = 1}

(* s_nrun of a node counts the leaves on the lists below it (sched.h:61),   *)
(* and num_run the threads that run or wait to (sched.c:30): the idle CPU   *)
(* (locore.s:491) sees every thread there is to run, and pick_run() never   *)
(* comes to a node with nothing below it (sched.c:146).                     *)
Counts ==
    /\ \A t \in Thread : q.nrun[t] = IF t \in List(ProcOf[t]) THEN 1 ELSE 0
    /\ \A p \in Proc : q.nrun[p] = Cardinality(Queued(p))
    /\ q.nrun[Root] = Cardinality({t \in Thread : q.nrun[t] = 1})
    /\ num_run = Cardinality({t \in Thread : state[t] \in {"run", "onproc"}})

(* When a thread of a higher class is ready, the one on the CPU has been    *)
(* told to go (sched.c:358, :373, :573).                                    *)
PreemptPending ==
    cpu.pc = "run" /\ (\/ q.down[Rt] # None /\ cpu.pri < 4
                       \/ q.down[Cheated] # None /\ cpu.pri < 3)
    => cpu.preempt

(* Unless there are real-time threads, a timeshare thread gets the CPU,     *)
(* however often others give it up early and come back first                *)
(* (sched.c:322-331).  Threads that fork and exit in turn can keep it for   *)
(* ever: fork_thread() copies what is left of the parent's ticks, and both  *)
(* have them (proc.c:328).                                                  *)
TimeShared(t) == q.nrun[t] = 1 \/ t \in List(Cheated)
Served ==
    (~ env.exits /\ <>[](q.down[Rt] = None /\ \A u \in Thread : cls[u] # "rt"))
    => \A t \in Thread : TimeShared(t) ~> state[t] = "onproc"
=============================================================================
