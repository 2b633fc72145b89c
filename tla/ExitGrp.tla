------------------------------ MODULE ExitGrp ------------------------------
(***************************************************************************)
(* fork(), exit() and waits(): processes, and the exit groups through      *)
(* which a parent learns of the exit of its children                       *)
(* (src/src/os/kern/exitgrp.c, fork/fork_thread/do_exit/waits of proc.c).  *)
(*                                                                         *)
(* The exit group of process p (p_children of p, p_parent of each of its   *)
(* children) is grp[p].  It is referenced by p and by each child, and      *)
(* freed with the last reference, long after p if a child outlives it.     *)
(* Each action is one e_lock (or p_sema) section of the code, or one       *)
(* unlocked look at the group.                                             *)
(***************************************************************************)
EXTENDS SemaOps, FiniteSets

CONSTANTS
    Proc,      \* the processes that can exist
    Root,      \* the one created by the boot
    NoProc,    \* no process
    Thread,    \* the threads a process can have
    Main,      \* the thread a process starts with
    Waiter,    \* the threads that call waits()
    Events     \* TRUE: events may interrupt waits()

ASSUME ProcAssumption == Root \in Proc /\ NoProc \notin Proc /\ IsFiniteSet(Proc)
ASSUME ThreadAssumption == Main \in Thread /\ Waiter \subseteq Thread
ASSUME EventsAssumption == Events \in BOOLEAN

VARIABLES
    st,       \* how far each process is in its life
    par,      \* its parent
    grp,      \* its exit group (struct exitgrp)
    pc,       \* its threads
    got,      \* how often waits() returned its status (auxiliary)
    panic     \* which assertion failed, "none" while the kernel runs

vars == <<st, par, grp, pc, got, panic>>

(* A process: not forked yet; referenced but not running; running; the last *)
(* thread in do_exit() before noparent_exitgrp(), its dereference, the      *)
(* unlocked and the locked part of post_exitgrp(), the dereference of the   *)
(* parent's group; gone.                                                    *)
Life == {"unused", "born", "live", "np", "npd", "post", "postl", "drf", "dead"}

(* A thread: none; at user level; in fork(); in waits(): asleep for a       *)
(* child, woken, holding a status before p_sema(e_sema), asleep in it.      *)
ThreadPC == {"none", "idle", "fork", "wsleep", "wgot", "wp", "wpsleep"}

(* alloc_exitgrp() of a process *)
NewGrp == [mem |-> "alloc", parent |-> TRUE, stat |-> <<>>, refs |-> 1,
           sema |-> NewSema(0)]
NoGrp  == [mem |-> "none", parent |-> FALSE, stat |-> <<>>, refs |-> 0,
           sema |-> NewSema(0)]

NoThreads == [t \in Thread |-> "none"]
OneThread == [NoThreads EXCEPT ![Main] = "idle"]

Init ==
    /\ st  = [p \in Proc |-> IF p = Root THEN "live" ELSE "unused"]
    /\ par = [p \in Proc |-> NoProc]
    /\ grp = [p \in Proc |-> IF p = Root THEN NewGrp ELSE NoGrp]
    /\ pc  = [p \in Proc |-> IF p = Root THEN OneThread ELSE NoThreads]
    /\ got = [p \in Proc |-> 0]
    /\ panic = "none"

Run == panic = "none"
Panic(why) == panic' = why /\ UNCHANGED <<st, par, grp, pc, got>>

At(p, t, where) == Run /\ st[p] = "live" /\ pc[p][t] = where
Step(p, t, where) == pc' = [pc EXCEPT ![p][t] = where]

-----------------------------------------------------------------------------
(* deref_exitgrp() of group g: which assertion fails, and the result.       *)

DerefFails(g) ==
    IF g.refs = 0 THEN "deref_exitgrp: no refs"
    ELSE IF g.refs = 1 /\ g.parent THEN "deref_exitgrp: !ref parent"
    ELSE IF g.refs = 1 /\ g.stat # <<>> THEN "deref_exitgrp: stat"
    ELSE "none"

(* Mutant: freed one reference early. *)
DerefEarly(g) == [g EXCEPT !.refs = @ - 1,
                           !.mem = IF g.refs <= 2 THEN "free" ELSE @]

Deref(g) == [g EXCEPT !.refs = @ - 1,
                      !.mem = IF g.refs = 1 THEN "free" ELSE @]

-----------------------------------------------------------------------------
(* Mutant: the child's reference is not counted. *)
ForkRefForgets(p, t, c) ==
    /\ At(p, t, "idle") /\ st[c] = "unused"
    /\ st' = [st EXCEPT ![c] = "born"]
    /\ par' = [par EXCEPT ![c] = p]
    /\ Step(p, t, "fork")
    /\ UNCHANGED <<grp, got, panic>>

(* fork(): the child refers to the group of its parent ...                  *)
ForkRef(p, t, c) ==
    /\ At(p, t, "idle") /\ st[c] = "unused"
    /\ st' = [st EXCEPT ![c] = "born"]
    /\ par' = [par EXCEPT ![c] = p]
    /\ grp' = [grp EXCEPT ![p].refs = @ + 1]
    /\ Step(p, t, "fork")
    /\ UNCHANGED <<got, panic>>

(* ... gets one of its own and runs.                                        *)
ForkRun(p, t, c) ==
    /\ At(p, t, "fork") /\ st[c] = "born" /\ par[c] = p
    /\ st' = [st EXCEPT ![c] = "live"]
    /\ grp' = [grp EXCEPT ![c] = NewGrp]
    /\ pc' = [pc EXCEPT ![p][t] = "idle", ![c] = OneThread]
    /\ UNCHANGED <<par, got, panic>>

ForkThread(p, t, u) ==
    /\ At(p, t, "idle") /\ pc[p][u] = "none"
    /\ Step(p, u, "idle")
    /\ UNCHANGED <<st, par, grp, got, panic>>

-----------------------------------------------------------------------------
(* do_exit()                                                                *)

(* A thread leaves p_threads; the last one tears the process down.          *)
Exit(p, t) ==
    /\ At(p, t, "idle")
    /\ Step(p, t, "none")
    /\ st' = [st EXCEPT ![p] =
                IF \A u \in Thread \ {t} : pc[p][u] = "none" THEN "np" ELSE @]
    /\ UNCHANGED <<par, grp, got, panic>>

Exiting(p, where) == Run /\ st[p] = where

(* Mutant: the statuses nobody took stay on the group. *)
NoparentKeepsStat(p) ==
    /\ Exiting(p, "np")
    /\ grp' = [grp EXCEPT ![p].parent = FALSE]
    /\ st' = [st EXCEPT ![p] = "npd"]
    /\ UNCHANGED <<par, pc, got, panic>>

(* noparent_exitgrp(): no parent any more, its statuses are dropped ...     *)
Noparent(p) ==
    /\ Exiting(p, "np")
    /\ IF ~ grp[p].parent THEN Panic("noparent_exitgrp: no parent")
       ELSE /\ grp' = [grp EXCEPT ![p].parent = FALSE, ![p].stat = <<>>]
            /\ st' = [st EXCEPT ![p] = "npd"]
            /\ UNCHANGED <<par, pc, got, panic>>

(* ... and its reference too.                                               *)
NoparentDeref(p) ==
    /\ Exiting(p, "npd")
    /\ IF DerefFails(grp[p]) # "none" THEN Panic(DerefFails(grp[p]))
       ELSE /\ grp' = [grp EXCEPT ![p] = Deref(@)]
            /\ st' = [st EXCEPT ![p] = "post"]
            /\ UNCHANGED <<par, pc, got, panic>>

(* Has the group of p's parent a parent still?  (That of the boot never had.)*)
Attached(p) == par[p] # NoProc /\ grp[par[p]].parent

(* post_exitgrp(): a quick, unlocked look ...                               *)
PostLook(p) ==
    /\ Exiting(p, "post")
    /\ st' = [st EXCEPT ![p] = IF Attached(p) THEN "postl" ELSE "drf"]
    /\ UNCHANGED <<par, grp, pc, got, panic>>

(* Where a thread asleep on e_sema goes on. *)
WakeTo == [wsleep |-> "wgot", wpsleep |-> "idle"]

(* Mutant: the waiting parent is not woken. *)
PostSilent(p) ==
    LET g == par[p] IN
    /\ Exiting(p, "postl")
    /\ st' = [st EXCEPT ![p] = "drf"]
    /\ UNCHANGED <<par, got, panic, pc>>
    /\ IF Attached(p) THEN grp' = [grp EXCEPT ![g].stat = <<p>> \o @]
       ELSE UNCHANGED grp

(* Mutant: a status replaces the one before it. *)
PostOver(p) ==
    LET g == par[p] IN
    /\ Exiting(p, "postl")
    /\ st' = [st EXCEPT ![p] = "drf"]
    /\ UNCHANGED <<par, got, panic>>
    /\ IF Attached(p)
         THEN /\ grp' = [grp EXCEPT ![g].stat = <<p>>, ![g].sema = VSema(@)]
              /\ pc' = [pc EXCEPT ![g] =
                          [t \in Thread |-> IF t \in VWakes(grp[g].sema)
                                            THEN WakeTo[@[t]] ELSE @[t]]]
         ELSE UNCHANGED <<grp, pc>>

(* ... and under the lock, if the parent did not leave in between: the      *)
(* status goes to the head of the list and e_sema is released.              *)
Post(p) ==
    LET g == par[p] IN
    /\ Exiting(p, "postl")
    /\ st' = [st EXCEPT ![p] = "drf"]
    /\ UNCHANGED <<par, got, panic>>
    /\ IF Attached(p)
         THEN /\ grp' = [grp EXCEPT ![g].stat = <<p>> \o @, ![g].sema = VSema(@)]
              /\ pc' = [pc EXCEPT ![g] =
                          [t \in Thread |-> IF t \in VWakes(grp[g].sema)
                                            THEN WakeTo[@[t]] ELSE @[t]]]
         ELSE UNCHANGED <<grp, pc>>

(* The reference to the parent's group goes, and the process is freed.      *)
DerefParent(p) ==
    /\ Exiting(p, "drf")
    /\ IF par[p] # NoProc /\ DerefFails(grp[par[p]]) # "none"
         THEN Panic(DerefFails(grp[par[p]]))
         ELSE /\ grp' = IF par[p] = NoProc THEN grp
                        ELSE [grp EXCEPT ![par[p]] = Deref(@)]
              /\ st' = [st EXCEPT ![p] = "dead"]
              /\ UNCHANGED <<par, pc, got, panic>>

-----------------------------------------------------------------------------
(* waits() -> wait_exitgrp()                                                *)

(* A status waits: take it. *)
WaitTake(p, t) ==
    /\ At(p, t, "idle") /\ t \in Waiter
    /\ grp[p].stat # <<>>
    /\ grp' = [grp EXCEPT ![p].stat = Tail(@)]
    /\ got' = [got EXCEPT ![Head(grp[p].stat)] = @ + 1]
    /\ Step(p, t, "wp")
    /\ UNCHANGED <<st, par, panic>>

(* No status, and no child: nothing to wait for.  (So also without "block", *)
(* child or not.)  Nothing changes.                                         *)
NoChild(p) == grp[p].stat = <<>> /\ grp[p].refs = 1

(* Otherwise ask for a unit of e_sema, asleep as a rule. *)
WaitBlock(p, t) ==
    LET s == grp[p].sema IN
    /\ At(p, t, "idle") /\ t \in Waiter
    /\ grp[p].stat = <<>> /\ ~ NoChild(p)
    /\ grp' = [grp EXCEPT ![p].sema = PSema(s, t)]
    /\ Step(p, t, IF PSleeps(s) THEN "wsleep" ELSE "wgot")
    /\ UNCHANGED <<st, par, got, panic>>

(* An event interrupts the sleep; the system call ends (longjmp).           *)
WaitIntr(p, t) ==
    /\ Events /\ At(p, t, "wsleep")
    /\ grp' = [grp EXCEPT ![p].sema = DqSema(@, t)]
    /\ Step(p, t, "idle")
    /\ UNCHANGED <<st, par, got, panic>>

(* Woken: there is a status now. *)
WaitWoken(p, t) ==
    /\ At(p, t, "wgot")
    /\ IF grp[p].stat = <<>> THEN Panic("wait_exitgrp: stat out of synch")
       ELSE /\ grp' = [grp EXCEPT ![p].stat = Tail(@)]
            /\ got' = [got EXCEPT ![Head(grp[p].stat)] = @ + 1]
            /\ Step(p, t, "idle")
            /\ UNCHANGED <<st, par, panic>>

(* Mutant: the count is left as it is. *)
WaitSkipsCount(p, t) ==
    /\ At(p, t, "wp")
    /\ Step(p, t, "idle")
    /\ UNCHANGED <<st, par, grp, got, panic>>

(* A status was taken without sleeping: keep the count of e_sema right.     *)
WaitCount(p, t) ==
    LET s == grp[p].sema IN
    /\ At(p, t, "wp")
    /\ grp' = [grp EXCEPT ![p].sema = PSema(s, t)]
    /\ Step(p, t, IF PSleeps(s) THEN "wpsleep" ELSE "idle")
    /\ UNCHANGED <<st, par, got, panic>>

-----------------------------------------------------------------------------
ExitStep(p) == Noparent(p) \/ NoparentDeref(p) \/ PostLook(p) \/ Post(p)
               \/ DerefParent(p)
ThreadStep(p, t) == (\E c \in Proc : ForkRun(p, t, c)) \/ WaitWoken(p, t)
                    \/ WaitCount(p, t)
Syscall(p, t) ==
    \/ \E c \in Proc : ForkRef(p, t, c)
    \/ \E u \in Thread : ForkThread(p, t, u)
    \/ Exit(p, t) \/ WaitTake(p, t) \/ WaitBlock(p, t)

Next ==
    \E p \in Proc :
        \/ ExitStep(p)
        \/ \E t \in Thread : ThreadStep(p, t) \/ Syscall(p, t) \/ WaitIntr(p, t)

Spec == Init /\ [][Next]_vars

(* A runnable thread gets the CPU. *)
LiveSpec == /\ Spec
            /\ \A p \in Proc :
                  /\ WF_vars(ExitStep(p))
                  /\ \A t \in Thread : WF_vars(ThreadStep(p, t))

-----------------------------------------------------------------------------
GrpType ==
    [mem : {"none", "alloc", "free"}, parent : BOOLEAN, stat : Seq(Proc),
     refs : Nat, sema : [cnt : Int, q : Seq(Thread)]]

TypeOK ==
    /\ st \in [Proc -> Life] /\ par \in [Proc -> Proc \cup {NoProc}]
    /\ grp \in [Proc -> GrpType]
    /\ pc \in [Proc -> [Thread -> ThreadPC]]
    /\ got \in [Proc -> Nat]

(* The processes with a reference to the group of p: p until it dropped it, *)
(* and every child from fork() until it dropped its own.                    *)
Attending(p) == st[p] \in {"live", "np", "npd"}
Children(p) == {c \in Proc : par[c] = p
                  /\ st[c] \in {"born", "live", "np", "npd", "post", "postl", "drf"}}

(* e_refs counts exactly them, and the group is there as long as one is.    *)
RefsCount ==
    \A p \in Proc :
        /\ grp[p].refs = (IF Attending(p) THEN 1 ELSE 0) + Cardinality(Children(p))
        /\ grp[p].mem = "alloc" <=> grp[p].refs > 0

(* No assertion of exit groups fails. *)
NoPanic == panic = "none"

(* How often status c is on the list of its parent. *)
Listed(c) == Cardinality({i \in DOMAIN grp[par[c]].stat : grp[par[c]].stat[i] = c})

(* A child that exited while its parent stayed is reported exactly once: it *)
(* is on the parent's list, or waits() returned it; one that did not exit   *)
(* yet is not reported at all.                                              *)
ReportedOnce ==
    \A c \in Proc :
        par[c] # NoProc /\ grp[par[c]].parent =>
            Listed(c) + got[c] = IF st[c] \in {"drf", "dead"} THEN 1 ELSE 0

(* "There are no children" (wait_exitgrp()) is true when it is said: every  *)
(* child is gone and waits() returned the status of each.                   *)
NoChildTrue ==
    \A p \in Proc :
        st[p] = "live" /\ NoChild(p) =>
            \A c \in Proc : par[c] = p => st[c] = "dead" /\ got[c] = 1

(* e_sema has a unit for every status on the list, but for those whose      *)
(* taker is still on its way: a woken thread, or one about to take its unit.*)
Units(s) == IF Blocked(s) THEN 0 ELSE s.cnt
InWait(p, where) == Cardinality({t \in Thread : pc[p][t] = where})
UnitsCountStat ==
    \A p \in Proc :
        st[p] = "live" =>
            Units(grp[p].sema) + InWait(p, "wgot")
                = Len(grp[p].stat) + InWait(p, "wp") + InWait(p, "wpsleep")

(* A parent does not sleep without a child to wait for: "There are no       *)
(* children; return NULL without sleeping" (exitgrp.c:197).                 *)
SleeperHasChild ==
    \A p \in Proc : \A t \in Thread :
        pc[p][t] = "wsleep" => \E c \in Proc : par[c] = p /\ st[c] # "dead"

(* The exit of a child wakes the parent that waits for it.                  *)
ExitWakes ==
    \A c \in Proc : \A p \in Proc :
        (st[c] = "np" /\ par[c] = p /\ \E t \in Thread : pc[p][t] = "wsleep")
            ~> (\A t \in Thread : pc[p][t] # "wsleep")
=============================================================================
