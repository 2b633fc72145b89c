------------------------------- MODULE Event -------------------------------
(***************************************************************************)
(* Events: notify() to a process, a thread or a process group, their       *)
(* delivery, and the exit of the threads and processes they are sent to    *)
(* (src/src/os/kern/event.c, pfind/do_exit/free_proc/fork_thread of        *)
(* proc.c).                                                                *)
(*                                                                         *)
(* The sender holds p_sema of the target process, "needed to keep the      *)
(* process around", and sleeps with it on the thread's t_evq until an      *)
(* earlier event was delivered.  A step is one critical section of a       *)
(* semaphore or of runq_lock; a thread is asleep at the pcs of WakeTo.     *)
(***************************************************************************)
EXTENDS SemaOps, FiniteSets

CONSTANTS
    Proc,      \* the processes
    Thread,    \* the threads
    NoProc,    \* no process
    Envs       \* the settings to look at, see Env

(* What the threads do, fixed from the start:                               *)
(*    owner    the process of each thread                                   *)
(*    unborn   threads that fork_thread() has yet to create                 *)
(*    senders  threads that call notify()                                   *)
(*    targets  processes they name                                          *)
(*    ops      "all" threads of it, "one" thread, its group ("pg"), or      *)
(*             the caller's own process ("self")                            *)
(*    group    the processes of one process group; the others are in groups *)
(*             of their own                                                 *)
(*    exit     may threads exit, by themselves or killed by an event?       *)
Env == [owner : [Thread -> Proc], unborn : SUBSET Thread,
        senders : SUBSET Thread, targets : SUBSET Proc,
        ops : SUBSET {"all", "one", "pg", "self"}, group : SUBSET Proc,
        exit : BOOLEAN]

ASSUME EnvAssumption == Envs \subseteq Env /\ NoProc \notin Proc
ASSUME FiniteAssumption == IsFiniteSet(Thread) /\ IsFiniteSet(Proc)

VARIABLES
    env,      \* the setting
    pid,      \* pid_sema
    hashed,   \* the processes in pid_hash
    freed,    \* the processes whose struct proc was freed
    ps,       \* p_sema of each process
    links,    \* p_threads of each process
    pg,       \* the process group: pg_sema, members, freed?
    evq,      \* t_evq of each thread
    evp,      \* t_evproc of each thread is set
    evs,      \* t_evsys of each thread is set
    th,       \* what each thread does
    panic     \* which assertion failed, "none" while the kernel runs

sys  == <<env, hashed, freed, links, pg>>
vars == <<env, pid, hashed, freed, ps, links, pg, evq, evp, evs, th, panic>>

Owned(e, p) == {t \in Thread \ e.unborn : e.owner[t] = p}

(* op: what notify() was asked for; p: the process it works on; left: its   *)
(* threads still to signal; rest: members of the group still to notify.     *)
User == [pc |-> "user", op |-> "none", p |-> NoProc, left |-> <<>>, rest |-> <<>>]

Init ==
    /\ env \in Envs
    /\ pid = NewSema(1)
    /\ hashed = {p \in Proc : Owned(env, p) # {}}
    /\ freed = {}
    /\ ps = [p \in Proc |-> NewSema(1)]
    /\ links = [p \in Proc |-> SetToSeq(Owned(env, p))]
    /\ pg = [sema |-> NewSema(1), members |-> env.group, freed |-> FALSE]
    /\ evq = [t \in Thread |-> NewSema(1)]
    /\ evp = [t \in Thread |-> FALSE]
    /\ evs = [t \in Thread |-> FALSE]
    /\ th = [t \in Thread |-> IF t \in env.unborn THEN [User EXCEPT !.pc = "none"]
                              ELSE User]
    /\ panic = "none"

Run == panic = "none"
At(t, where) == Run /\ th[t].pc = where
Go(t, where) == [th EXCEPT ![t].pc = where]
Own(t) == env.owner[t]

(* Where a sleeping thread goes on when it is given what it waits for.      *)
WakeTo == [pidw |-> "pidh", pw |-> "ph", slo |-> "beg", evw |-> "evh",
           gw |-> "gh", xw |-> "xh", fw |-> "fh", lw |-> "lh", kw |-> "kh"]

(* The threads v_sema(s) wakes move on in state f. *)
Wake(f, s) ==
    [t \in Thread |->
        IF t \in VWakes(s) THEN [f[t] EXCEPT !.pc = WakeTo[@]] ELSE f[t]]

(* p_sema(s) of thread t takes it to pc "have", or to sleep at "wait". *)
Take(s, t, wait, have) == Go(t, IF PSleeps(s) THEN wait ELSE have)

-----------------------------------------------------------------------------
(* notify2() and pfind()                                                    *)

(* notify() of another process, of a thread of it, or of its group.         *)
Notify(t, p, op) ==
    /\ At(t, "user") /\ t \in env.senders
    /\ p \in env.targets /\ op \in env.ops \ {"self"}
    /\ op = "pg" => p \in env.group
    /\ pid' = PSema(pid, t)
    /\ th' = [Take(pid, t, "pidw", "pidh") EXCEPT ![t].op = op, ![t].p = p]
    /\ UNCHANGED <<sys, ps, evq, evp, evs, panic>>

(* notify(0, ...): the caller's own process, interruptibly. *)
NotifySelf(t) ==
    LET p == Own(t) IN
    /\ At(t, "user") /\ t \in env.senders /\ "self" \in env.ops
    /\ ps' = [ps EXCEPT ![p] = PSema(@, t)]
    /\ th' = [Take(ps[p], t, "slo", "beg") EXCEPT ![t].op = "all", ![t].p = p]
    /\ UNCHANGED <<sys, pid, evq, evp, evs, panic>>

(* The next member of a group, or back to user level by way of the check    *)
(* for events every trap ends with.                                         *)
NextMember(f, t) ==
    IF f[t].rest = <<>> THEN [f EXCEPT ![t] = [User EXCEPT !.pc = "chk"]]
    ELSE [f EXCEPT ![t].pc = "mem", ![t].p = Head(f[t].rest), ![t].rest = Tail(@)]

Member(t) ==
    /\ At(t, "mem")
    /\ pid' = PSema(pid, t)
    /\ th' = [Take(pid, t, "pidw", "pidh") EXCEPT ![t].op = "all"]
    /\ UNCHANGED <<sys, ps, evq, evp, evs, panic>>

(* pfind(): nobody has this pid (any more) ...                              *)
PfindNone(t) ==
    /\ At(t, "pidh") /\ th[t].p \notin hashed
    /\ pid' = VSema(pid)
    /\ th' = Wake(NextMember(th, t), pid)
    /\ UNCHANGED <<sys, ps, evq, evp, evs, panic>>

(* ... or lock the process, uninterruptibly and with pid_sema held.         *)
Pfind(t) ==
    LET p == th[t].p IN
    /\ At(t, "pidh") /\ p \in hashed
    /\ ps' = [ps EXCEPT ![p] = PSema(@, t)]
    /\ th' = Take(ps[p], t, "pw", "ph")
    /\ UNCHANGED <<sys, pid, evq, evp, evs, panic>>

PfindDone(t) ==
    /\ At(t, "ph")
    /\ pid' = VSema(pid)
    /\ th' = Wake(Go(t, "beg"), pid)
    /\ UNCHANGED <<sys, ps, evq, evp, evs, panic>>

(* Not permitted (P_SIG). *)
Denied(t) ==
    /\ At(t, "beg")
    /\ th' = Go(t, "out")
    /\ UNCHANGED <<sys, pid, ps, evq, evp, evs, panic>>

(* All threads of the process, or one of them if it is there. *)
Begin(t) ==
    /\ At(t, "beg") /\ th[t].op # "pg"
    /\ \E left \in IF th[t].op = "all" THEN {links[th[t].p]}
                   ELSE {<<>>} \cup {<<u>> : u \in ToSet(links[th[t].p])} :
          th' = [th EXCEPT ![t].pc = "walk", ![t].left = left]
    /\ UNCHANGED <<sys, pid, ps, evq, evp, evs, panic>>

-----------------------------------------------------------------------------
(* signal_thread()                                                          *)

(* Mutant: t_evq is not taken. *)
WalkUnqueued(t) ==
    /\ At(t, "walk") /\ th[t].left # <<>>
    /\ th' = Go(t, "evh")
    /\ UNCHANGED <<sys, pid, ps, evq, evp, evs, panic>>

(* Wait until the thread has accepted the event before.                     *)
Walk(t) ==
    LET u == Head(th[t].left) IN
    /\ At(t, "walk") /\ th[t].left # <<>>
    /\ evq' = [evq EXCEPT ![u] = PSema(@, t)]
    /\ th' = Take(evq[u], t, "evw", "evh")
    /\ UNCHANGED <<sys, pid, ps, evp, evs, panic>>

WalkDone(t) ==
    /\ At(t, "walk") /\ th[t].left = <<>>
    /\ th' = Go(t, "out")
    /\ UNCHANGED <<sys, pid, ps, evq, evp, evs, panic>>

(* Place the event; a thread in an interruptible sleep leaves it: a sender  *)
(* on t_evq gives up with EINTR, a notify() of its own process ends.  One   *)
(* that fork_thread() has linked but not started sleeps on nothing.         *)
Post(t) ==
    LET u    == Head(th[t].left)
        done == [th EXCEPT ![t].pc = "walk", ![t].left = Tail(@)]
    IN
    /\ At(t, "evh")
    /\ evp' = [evp EXCEPT ![u] = th[u].pc # "new" \/ @]
    /\ UNCHANGED <<sys, pid, evs>>
    /\ CASE th[u].pc = "evw" ->
              /\ evq' = [evq EXCEPT ![Head(th[u].left)] = DqSema(@, u)]
              /\ th' = [done EXCEPT ![u].pc = "out"]
              /\ UNCHANGED <<ps, panic>>
         [] th[u].pc = "slo" ->
              /\ ps' = [ps EXCEPT ![th[u].p] = DqSema(@, u)]
              /\ th' = [done EXCEPT ![u] = [User EXCEPT !.pc = "chk"]]
              /\ UNCHANGED <<evq, panic>>
         [] th[u].pc = "new" ->
              /\ panic' = "cunsleep: zero wchan"
              /\ UNCHANGED <<th, ps, evq>>
         [] OTHER ->
              /\ th' = done
              /\ UNCHANGED <<ps, evq, panic>>

(* notify2() is done with the process.                                      *)
Out(t) ==
    LET p == th[t].p IN
    /\ At(t, "out")
    /\ ps' = [ps EXCEPT ![p] = VSema(@)]
    /\ th' = Wake(NextMember([th EXCEPT ![t].left = <<>>], t), ps[p])
    /\ UNCHANGED <<sys, pid, evq, evp, evs, panic>>

(* notifypg(): list the members under pg_sema, then notify each.            *)
BeginGroup(t) ==
    /\ At(t, "beg") /\ th[t].op = "pg"
    /\ pg' = [pg EXCEPT !.sema = PSema(@, t)]
    /\ th' = Take(pg.sema, t, "gw", "gh")
    /\ UNCHANGED <<env, hashed, freed, links, pid, ps, evq, evp, evs, panic>>

ListGroup(t) ==
    /\ At(t, "gh")
    /\ pg' = [pg EXCEPT !.sema = VSema(@)]
    /\ th' = Wake([th EXCEPT ![t].pc = "out", ![t].rest = SetToSeq(pg.members)],
                  pg.sema)
    /\ UNCHANGED <<env, hashed, freed, links, pid, ps, evq, evp, evs, panic>>

-----------------------------------------------------------------------------
(* selfsig() and check_events()                                             *)

(* A trap of the thread's own making. *)
SelfSig(t) ==
    /\ At(t, "user") /\ t \in env.senders
    /\ evs' = [evs EXCEPT ![t] = TRUE]
    /\ th' = Go(t, "chk")
    /\ UNCHANGED <<sys, pid, ps, evq, evp, panic>>

(* An interrupt of user mode finds an event pending. *)
Interrupted(t) ==
    /\ At(t, "user") /\ (evs[t] \/ evp[t])
    /\ th' = Go(t, "chk")
    /\ UNCHANGED <<sys, pid, ps, evq, evp, evs, panic>>

CheckNone(t) ==
    /\ At(t, "chk") /\ ~ evs[t] /\ ~ evp[t]
    /\ th' = Go(t, "user")
    /\ UNCHANGED <<sys, pid, ps, evq, evp, evs, panic>>

(* sendev(): call the handler, or exit at once: no handler, or EKILL. *)
Fates == IF env.exit THEN {"user", "exit"} ELSE {"user"}

(* A system event goes first; the event of a process stays for the next     *)
(* check.                                                                   *)
CheckSys(t) ==
    /\ At(t, "chk") /\ evs[t]
    /\ evs' = [evs EXCEPT ![t] = FALSE]
    /\ \E fate \in Fates : th' = Go(t, fate)
    /\ UNCHANGED <<sys, pid, ps, evq, evp, panic>>

CheckProc(t) ==
    /\ At(t, "chk") /\ ~ evs[t] /\ evp[t]
    /\ evp' = [evp EXCEPT ![t] = FALSE]
    /\ \E fate \in Fates : th' = Go(t, IF fate = "user" THEN "dlv" ELSE fate)
    /\ UNCHANGED <<sys, pid, ps, evq, evs, panic>>

(* Mutant: t_evq is released only when somebody sleeps on it. *)
DeliveredIfBlocked(t) ==
    /\ At(t, "dlv")
    /\ evq' = [evq EXCEPT ![t] = IF Blocked(@) THEN VSema(@) ELSE @]
    /\ th' = Wake(Go(t, "user"), evq[t])
    /\ UNCHANGED <<sys, pid, ps, evp, evs, panic>>

(* Delivered: the next sender may come.                                     *)
Delivered(t) ==
    /\ At(t, "dlv")
    /\ evq' = [evq EXCEPT ![t] = VSema(@)]
    /\ th' = Wake(Go(t, "user"), evq[t])
    /\ UNCHANGED <<sys, pid, ps, evp, evs, panic>>

-----------------------------------------------------------------------------
(* do_exit() and free_proc()                                                *)

ExitCall(t) ==
    /\ At(t, "user") /\ env.exit
    /\ th' = Go(t, "exit")
    /\ UNCHANGED <<sys, pid, ps, evq, evp, evs, panic>>

(* The list q with the one pointer to t unlinked. *)
Without(q, t) == RemoveAt(q, CHOOSE i \in DOMAIN q : q[i] = t)

(* Mutant: the thread leaves p_threads without p_sema. *)
ExitUnlocked(t) ==
    LET p == Own(t) IN
    /\ At(t, "exit")
    /\ links' = [links EXCEPT ![p] = Without(@, t)]
    /\ th' = Go(t, IF links[p] = <<t>> THEN "xlast" ELSE "x")
    /\ UNCHANGED <<env, hashed, freed, pg, pid, ps, evq, evp, evs, panic>>

Exit(t) ==
    LET p == Own(t) IN
    /\ At(t, "exit")
    /\ ps' = [ps EXCEPT ![p] = PSema(@, t)]
    /\ th' = Take(ps[p], t, "xw", "xh")
    /\ UNCHANGED <<sys, pid, evq, evp, evs, panic>>

(* The thread leaves p_threads; was it the last one?                        *)
Unlink(t) ==
    LET p == Own(t) IN
    /\ At(t, "xh")
    /\ links' = [links EXCEPT ![p] = Without(@, t)]
    /\ ps' = [ps EXCEPT ![p] = VSema(@)]
    /\ th' = Wake(Go(t, IF links[p] = <<t>> THEN "xlast" ELSE "x"), ps[p])
    /\ UNCHANGED <<env, hashed, freed, pg, pid, evq, evp, evs, panic>>

(* "Let through anybody waiting to signal" (proc.c:592) finds nobody: whoever *)
(* waits to signal t holds p_sema, which t has just had (TargetsLinked).     *)
ThreadGone(t) ==
    /\ At(t, "x")
    /\ th' = Go(t, "none")
    /\ UNCHANGED <<sys, pid, ps, evq, evp, evs, panic>>

(* free_proc(): out of the hash, out of the group, and freed.               *)
FreeProc(t) ==
    /\ At(t, "xlast")
    /\ pid' = PSema(pid, t)
    /\ th' = Take(pid, t, "fw", "fh")
    /\ UNCHANGED <<sys, ps, evq, evp, evs, panic>>

Unhash(t) ==
    /\ At(t, "fh")
    /\ hashed' = hashed \ {Own(t)}
    /\ pid' = VSema(pid)
    /\ th' = Wake(Go(t, "leave"), pid)
    /\ UNCHANGED <<env, freed, links, pg, ps, evq, evp, evs, panic>>

LeaveGroup(t) ==
    /\ At(t, "leave") /\ Own(t) \in env.group
    /\ pg' = [pg EXCEPT !.sema = PSema(@, t)]
    /\ th' = Take(pg.sema, t, "lw", "lh")
    /\ UNCHANGED <<env, hashed, freed, links, pid, ps, evq, evp, evs, panic>>

LeaveOwnGroup(t) ==
    /\ At(t, "leave") /\ Own(t) \notin env.group
    /\ th' = Go(t, "free")
    /\ UNCHANGED <<sys, pid, ps, evq, evp, evs, panic>>

(* leave_pgrp(): the last member frees the group as it is, taken.           *)
Left(t) ==
    /\ At(t, "lh")
    /\ IF pg.members = {Own(t)}
         THEN /\ pg' = [pg EXCEPT !.members = {}, !.freed = TRUE]
              /\ th' = Go(t, "free")
         ELSE /\ pg' = [pg EXCEPT !.members = @ \ {Own(t)}, !.sema = VSema(@)]
              /\ th' = Wake(Go(t, "free"), pg.sema)
    /\ UNCHANGED <<env, hashed, freed, links, pid, ps, evq, evp, evs, panic>>

Free(t) ==
    /\ At(t, "free")
    /\ freed' = freed \cup {Own(t)}
    /\ th' = Go(t, "none")
    /\ UNCHANGED <<env, hashed, links, pg, pid, ps, evq, evp, evs, panic>>

-----------------------------------------------------------------------------
(* fork_thread(): the new thread is linked asleep, and set running later.   *)

ForkThread(t) ==
    LET p == Own(t) IN
    /\ At(t, "user") /\ \E u \in env.unborn : env.owner[u] = p /\ th[u].pc = "none"
    /\ ps' = [ps EXCEPT ![p] = PSema(@, t)]
    /\ th' = Take(ps[p], t, "kw", "kh")
    /\ UNCHANGED <<sys, pid, evq, evp, evs, panic>>

LinkThread(t, u) ==
    LET p == Own(t) IN
    /\ At(t, "kh") /\ u \in env.unborn /\ env.owner[u] = p /\ th[u].pc = "none"
    /\ links' = [links EXCEPT ![p] = <<u>> \o @]
    /\ ps' = [ps EXCEPT ![p] = VSema(@)]
    /\ evq' = [evq EXCEPT ![u] = NewSema(1)]
    /\ evp' = [evp EXCEPT ![u] = FALSE]
    /\ evs' = [evs EXCEPT ![u] = FALSE]
    /\ th' = Wake([th EXCEPT ![t].pc = "kr", ![t].left = <<u>>,
                             ![u] = [User EXCEPT !.pc = "new"]], ps[p])
    /\ UNCHANGED <<env, hashed, freed, pg, pid, panic>>

StartThread(t) ==
    /\ At(t, "kr")
    /\ th' = [th EXCEPT ![t] = [User EXCEPT !.pc = "chk"],
                        ![Head(th[t].left)].pc = "user"]
    /\ UNCHANGED <<sys, pid, ps, evq, evp, evs, panic>>

-----------------------------------------------------------------------------
Syscall(t) ==
    \/ \E p \in Proc : \E op \in {"all", "one", "pg"} : Notify(t, p, op)
    \/ NotifySelf(t) \/ SelfSig(t) \/ ExitCall(t) \/ ForkThread(t)

Step(t) ==
    \/ Member(t) \/ PfindNone(t) \/ Pfind(t) \/ PfindDone(t)
    \/ Denied(t) \/ Begin(t) \/ Walk(t) \/ WalkDone(t) \/ Post(t) \/ Out(t)
    \/ BeginGroup(t) \/ ListGroup(t)
    \/ Interrupted(t) \/ CheckNone(t) \/ CheckSys(t) \/ CheckProc(t) \/ Delivered(t)
    \/ Exit(t) \/ Unlink(t) \/ ThreadGone(t)
    \/ FreeProc(t) \/ Unhash(t) \/ LeaveGroup(t)
    \/ LeaveOwnGroup(t) \/ Left(t) \/ Free(t)
    \/ (\E u \in Thread : LinkThread(t, u)) \/ StartThread(t)

Next == \E t \in Thread : Syscall(t) \/ Step(t)

Spec == Init /\ [][Next]_vars

(* A runnable thread gets the CPU, an interrupt comes now and then. *)
LiveSpec == Spec /\ \A t \in Thread : WF_vars(Step(t))

-----------------------------------------------------------------------------
TypeOK ==
    /\ env \in Envs
    /\ SemaType(pid, Thread) /\ CountsSleepers(pid)
    /\ hashed \subseteq Proc /\ freed \subseteq Proc
    /\ \A p \in Proc : /\ SemaType(ps[p], Thread) /\ CountsSleepers(ps[p])
                       /\ links[p] \in Seq(Thread)
    /\ SemaType(pg.sema, Thread) /\ CountsSleepers(pg.sema)
    /\ pg.members \subseteq Proc /\ pg.freed \in BOOLEAN
    /\ \A t \in Thread : /\ SemaType(evq[t], Thread) /\ CountsSleepers(evq[t])
                         /\ th[t].p \in Proc \cup {NoProc}
                         /\ th[t].left \in Seq(Thread) /\ th[t].rest \in Seq(Proc)
    /\ evp \in [Thread -> BOOLEAN] /\ evs \in [Thread -> BOOLEAN]

(* t_evq is a mutex that changes hands: from the sender that got it to the  *)
(* event in t_evproc, from there to the delivery, and back when sendev()    *)
(* has built the handler's frame (event.c:289): an event is overwritten by  *)
(* no other before that.  Exactly one of them has it, or it is free; a      *)
(* thread killed by an event takes it along.  That the handler has returned *)
(* is not part of it, although event.c:12-15 says so of the next sender.    *)
Signalling(t) == {s \in Thread : th[s].pc = "evh" /\ Head(th[s].left) = t}
EvqHandedOn ==
    \A t \in Thread : th[t].pc # "none" =>
        LET owners == Cardinality(Signalling(t)) + (IF evp[t] THEN 1 ELSE 0)
                        + (IF th[t].pc = "dlv" THEN 1 ELSE 0)
        IN  /\ owners <= 1
            /\ owners = 1 => evq[t].cnt <= 0
            /\ ~ env.exit /\ owners = 0 => evq[t].cnt = 1

(* Whoever works its way through the threads of a process, its p_sema held, *)
(* finds threads that are there: none is unlinked, and so none is freed,    *)
(* before the sender has gone past it.  So nobody is left to let through    *)
(* when do_exit() asks (proc.c:594).                                        *)
TargetsLinked ==
    /\ \A s \in Thread :
        th[s].pc \in {"walk", "evw", "evh"} =>
            ToSet(th[s].left) \subseteq ToSet(links[th[s].p])
    /\ \A t \in Thread : th[t].pc \in {"x", "xlast"} => ~ Blocked(evq[t])

(* p_sema keeps the process around while its threads are manipulated        *)
(* (event.c:21).                                                            *)
ProcKept ==
    \A s \in Thread :
        th[s].pc \in {"ph", "beg", "walk", "evw", "evh", "out", "gw", "gh"} =>
            th[s].p \notin freed

(* The group is not freed under a thread that waits for it or lists it. *)
GroupKept == \A s \in Thread : th[s].pc \in {"gw", "gh", "lw", "lh"} => ~ pg.freed

(* An event finds no thread that sleeps on nothing (assertion of cunsleep()).*)
NoPanic == panic = "none"

(* A thread in do_exit() lets through anybody waiting to signal it          *)
(* (proc.c:592).                                                            *)
WaitersLetThrough ==
    \A t \in Thread :
        th[t].pc = "exit" /\ Blocked(evq[t]) ~> ~ Blocked(evq[t])

(* notify() ends as long as the threads it is for return to user level: the *)
(* senders queue on t_evq, p_sema and pid_sema, each with the ones before   *)
(* held, and the delivery lets them go one by one.                          *)
NotifyEnds ==
    \A t \in Thread :
        th[t].pc \in {"pidw", "pw", "evw"} /\ ~ env.exit /\ env.unborn = {}
            /\ (\A s \in env.senders : Own(s) \notin env.targets)
            ~> th[t].pc = "user"
=============================================================================
