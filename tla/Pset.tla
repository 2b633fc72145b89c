-------------------------------- MODULE Pset --------------------------------
(***************************************************************************)
(* Page sets under faults, copy on write, fork, exit and page stealing:    *)
(* src/src/os/kern/vm_fault.c, pset.c, pset_cow.c, pset_fod.c, pset_zfo.c, *)
(* atl.c, vm_steal.c, vm_page.c, pview.c, vas.c, src/src/os/mach/hat.c.    *)
(*                                                                         *)
(* A page set is a mapped file, a copy-on-write set over it, or anonymous. *)
(* One page of each is modelled; its slot (struct perpage) has a lock that *)
(* is held across sleeps.  The threads of a process share a view of one    *)
(* set.  A step is one section of a spinlock, or the code under a slot     *)
(* lock up to the next call that can sleep.  Two runs of code that do not  *)
(* sleep are one step, as in the kernel as it is built (no preemption      *)
(* inside it, trap.c:656): alloc_page() with the set_core() after it, and  *)
(* do_hand() up to its slot lock.  The page lock, held within them, has no *)
(* other use and is left out.                                              *)
(***************************************************************************)
EXTENDS SemaOps, FiniteSets

CONSTANTS
    Thread,    \* threads that fault
    File,      \* the mapped file's page set, master of the sets of Cow
    Cow,       \* copy-on-write sets
    Anon,      \* anonymous (zero-filled) sets
    Frame,     \* page frames
    None,      \* no set, no frame
    MaxStores, \* stores looked at for one set (a bound)
    Envs       \* the settings to look at, see Env

Set == {File} \cup Cow \cup Anon

(* A page holds the number of stores to it, 0 when fresh from the file or   *)
(* zeroed, Junk when nobody has filled it.                                  *)
Junk == -1
Val  == Junk..MaxStores

(* What happens, fixed from the start:                                      *)
(*    map     the page set each thread's process has a view of              *)
(*    child   for a thread that forks, the set its copy gets; else None     *)
(*    frames  the page frames there are                                     *)
(*    steal   does the page daemon run?                                     *)
(*    swap    is there a swap device?                                       *)
(*    exit    do processes exit?                                            *)
(*    tables  have the processes yet to allocate their page tables?         *)
(*    rderr   may reading a page fail?                                      *)
Env == [map : [Thread -> Set \cup {None}], child : [Thread -> Set \cup {None}],
        frames : SUBSET Frame, steal : BOOLEAN, swap : BOOLEAN, exit : BOOLEAN,
        tables : BOOLEAN, rderr : BOOLEAN]

ASSUME EnvAssumption == Envs \subseteq Env /\ MaxStores \in Nat
ASSUME SetAssumption == /\ File \notin Cow \cup Anon /\ Cow \cap Anon = {}
                        /\ None \notin Set \cup Frame
ASSUME FiniteAssumption == IsFiniteSet(Cow) /\ IsFiniteSet(Frame)

VARIABLES
    env,     \* the setting
    slot,    \* the perpage of each set: pp_flags, pp_refs, pp_pfn
    lk,      \* its lock: PP_LOCK, PP_WANT, p_locks, p_lockwait
    refs,    \* p_refs of each set
    cowsets, \* the sets on p_cowsets of the file's set
    atl,     \* entries of pp_atl (all of the one view of the set)
    pt,      \* the translation of that view: frame, writable, modified
    tab,     \* the page table page of the set's process
    core,    \* C_ALLOC and c_pset of each frame
    free,    \* the free list
    memw,    \* mem_sema
    data,    \* what is in a frame
    swap,    \* what is in the set's swap block
    io,      \* sets whose page is on its way to swap
    th,      \* the threads
    dm,      \* the page daemon
    panic    \* which assertion failed, "none" while the kernel runs

pool == <<core, free, memw>>
sets == <<refs, cowsets>>
maps == <<atl, pt, tab>>
vars == <<env, slot, lk, sets, maps, pool, data, swap, io, th, dm, panic>>

EmptySlot == [v |-> FALSE, cow |-> FALSE, sw |-> FALSE, m |-> FALSE, refs |-> 0,
              f |-> None]
Unlocked  == [held |-> FALSE, want |-> FALSE, n |-> 0, sema |-> NewSema(0)]
NoTrans   == [f |-> None, w |-> FALSE, m |-> FALSE]

(* w: a fault for writing; ls, to: the set whose slot lock is waited for,   *)
(* and where to go on then; f, why: the frame in hand and what it is for;   *)
(* d: the set being dismantled.                                             *)
User == [pc |-> "user", w |-> FALSE, ls |-> None, to |-> "none", f |-> None,
         why |-> "none", d |-> None]
Idle == [pc |-> "idle", s |-> None, todo |-> {}, hard |-> FALSE]

Viewed(e) == {e.map[t] : t \in Thread}
             \ ({e.child[t] : t \in Thread} \cup {None})

Init ==
    /\ env \in Envs
    /\ slot = [s \in Set |-> EmptySlot]
    /\ lk = [s \in Set |-> Unlocked]
    /\ cowsets = Viewed(env) \cap Cow
    /\ refs = [s \in Set |-> (IF s \in Viewed(env) THEN 1 ELSE 0)
                             + (IF s = File THEN Cardinality(cowsets) ELSE 0)]
    /\ atl = [s \in Set |-> 0]
    /\ pt = [s \in Set |-> NoTrans]
    /\ tab = [s \in Set |-> None]
    /\ core = [f \in Frame |-> [alloc |-> FALSE, s |-> None]]
    /\ free = SetToSeq(env.frames)
    /\ memw = NewSema(0)
    /\ data = [f \in Frame |-> Junk]
    /\ swap = [s \in Set |-> Junk]
    /\ io = {}
    /\ th = [t \in Thread |-> IF env.map[t] \in Viewed(env) THEN User
                              ELSE [User EXCEPT !.pc = "none"]]
    /\ dm = Idle
    /\ panic = "none"

Run == panic = "none"
At(t, where) == Run /\ th[t].pc = where
Go(t, where) == [th EXCEPT ![t].pc = where]
Own(t) == env.map[t]
Die(why) == panic' = why
Stops(why) == /\ Die(why)
              /\ UNCHANGED <<env, slot, lk, sets, maps, pool, data, swap, io, th, dm>>

(* Sleepers woken by v_sema() or vall_sema() look again at what they wait for. *)
Woken(r) == [r EXCEPT !.pc = IF r.pc = "lkw" THEN "lk" ELSE "alloc"]
Wake(g, ts) == [t \in Thread |-> IF t \in ts THEN Woken(g[t]) ELSE g[t]]

-----------------------------------------------------------------------------
(* lock_slot() and unlock_slot()                                            *)

(* A look at the slot's lock, under p_lock: PP_LOCK, or PP_WANT and asleep. *)
Ask(l, t) == IF l.held THEN [l EXCEPT !.want = TRUE, !.sema = PSema(l.sema, t)]
             ELSE [l EXCEPT !.held = TRUE]

(* The first look, counted in p_locks; on to next once the lock is held.    *)
Lock(g, t, s, next) ==
    /\ lk' = [lk EXCEPT ![s] = Ask([lk[s] EXCEPT !.n = lk[s].n + 1], t)]
    /\ th' = IF lk[s].held
             THEN [g EXCEPT ![t].pc = "lkw", ![t].ls = s, ![t].to = next]
             ELSE [g EXCEPT ![t].pc = next]

(* Mutant: PP_WANT is set the first time only. *)
RelockUnwanted(t) ==
    LET s == th[t].ls IN
    /\ At(t, "lk")
    /\ lk' = [lk EXCEPT ![s] = [Ask(lk[s], t) EXCEPT !.want = lk[s].want]]
    /\ th' = Go(t, IF lk[s].held THEN "lkw" ELSE th[t].to)
    /\ UNCHANGED <<env, slot, sets, maps, pool, data, swap, io, dm, panic>>

(* Woken: look again. *)
Relock(t) ==
    LET s == th[t].ls IN
    /\ At(t, "lk")
    /\ lk' = [lk EXCEPT ![s] = Ask(lk[s], t)]
    /\ th' = Go(t, IF lk[s].held THEN "lkw" ELSE th[t].to)
    /\ UNCHANGED <<env, slot, sets, maps, pool, data, swap, io, dm, panic>>

(* unlock_slot(): the waiters of all the set's slots are woken. *)
Loosen(l) == [l EXCEPT !.held = FALSE, !.want = FALSE, !.n = l.n - 1,
                       !.sema = IF l.want THEN NewSema(0) ELSE l.sema]
Unlock(l, s) == [l EXCEPT ![s] = Loosen(l[s])]
Waiters(s) == IF lk[s].want THEN Sleepers(lk[s].sema) ELSE {}

-----------------------------------------------------------------------------
(* alloc_page(), set_core(), free_page()                                    *)

(* The set a frame is allocated for; a page table page gets no set_core(). *)
For(t) == CASE th[t].why = "master" -> File
            [] th[t].why = "copy" -> env.child[t]
            [] OTHER -> Own(t)

AllocPage(t) ==
    LET f == Head(free) IN
    /\ At(t, "alloc") /\ free # <<>>
    /\ free' = Tail(free)
    /\ core' = [core EXCEPT ![f] = [alloc |-> TRUE, s |-> IF th[t].why = "tab"
                                                        THEN core[f].s ELSE For(t)]]
    /\ th' = [th EXCEPT ![t].pc = "got", ![t].f = f]
    /\ UNCHANGED <<env, slot, lk, sets, maps, memw, data, swap, io, dm, panic>>

NoPage(t) ==
    /\ At(t, "alloc") /\ free = <<>>
    /\ memw' = PSema(memw, t)
    /\ th' = Go(t, "memw")
    /\ UNCHANGED <<env, slot, lk, sets, maps, core, free, data, swap, io, dm, panic>>

(* free_page(), and whom it wakes *)
FreePage(g, f) ==
    IF f \in Range(free)
    THEN Die("free_page: already free") /\ th' = g /\ UNCHANGED pool
    ELSE /\ free' = <<f>> \o free
         /\ core' = [core EXCEPT ![f].alloc = FALSE]
         /\ memw' = IF Blocked(memw) THEN VSema(memw) ELSE memw
         /\ th' = IF Blocked(memw) THEN Wake(g, VWakes(memw)) ELSE g
         /\ UNCHANGED panic

-----------------------------------------------------------------------------
(* Memory accesses and vas_fault()                                          *)

(* A store through the translation; the MMU notes it. *)
Store(t) ==
    LET s == Own(t) IN
    /\ At(t, "user") /\ pt[s].w /\ data[pt[s].f] < MaxStores
    /\ data' = [data EXCEPT ![pt[s].f] = @ + 1]
    /\ pt' = [pt EXCEPT ![s].m = TRUE]
    /\ UNCHANGED <<env, slot, lk, sets, atl, tab, pool, swap, io, th, dm, panic>>

(* A load or store the translation does not allow.  Views of the file       *)
(* itself are read-only.                                                    *)
Fault(t, w) ==
    LET s == Own(t) IN
    /\ At(t, "user")
    /\ IF w THEN s # File /\ ~ pt[s].w ELSE pt[s].f = None
    /\ Lock([th EXCEPT ![t].w = w], t, s, "slot")
    /\ UNCHANGED <<env, slot, sets, maps, pool, data, swap, io, dm, panic>>

(* A valid slot: a reference; a write to a shared page copies it.           *)
Valid(t) ==
    LET s == Own(t)
        breaks == slot[s].cow /\ th[t].w
        found == IF breaks /\ atl[s] > 0 THEN 1 ELSE 0       \* delete_atl()
    IN
    /\ At(t, "slot") /\ slot[s].v
    /\ slot' = [slot EXCEPT ![s].refs = @ + 1 - found]
    /\ atl' = [atl EXCEPT ![s] = @ - found]
    /\ th' = IF breaks THEN [th EXCEPT ![t].pc = "alloc", ![t].why = "write"]
             ELSE Go(t, "map")
    /\ UNCHANGED <<env, lk, sets, pt, tab, pool, data, swap, io, dm, panic>>

(* psop_fillslot: a page of its own... *)
Invalid(t) ==
    /\ At(t, "slot") /\ ~ slot[Own(t)].v
    /\ Own(t) \notin Cow \/ slot[Own(t)].sw
    /\ th' = [th EXCEPT ![t].pc = "alloc", ![t].why = "fill"]
    /\ UNCHANGED <<env, slot, lk, sets, maps, pool, data, swap, io, dm, panic>>

(* ... or the file's; its slot is locked with the own slot held. *)
LockMaster(t) ==
    /\ At(t, "slot") /\ Own(t) \in Cow /\ ~ slot[Own(t)].v /\ ~ slot[Own(t)].sw
    /\ Lock(th, t, File, "master")
    /\ UNCHANGED <<env, slot, sets, maps, pool, data, swap, io, dm, panic>>

(* Mutant: the master's slot is shared without a reference to it. *)
MasterUnreferenced(t) ==
    /\ At(t, "master")
    /\ IF slot[File].v THEN th' = Go(t, "share")
       ELSE th' = [th EXCEPT ![t].pc = "alloc", ![t].why = "master"]
    /\ UNCHANGED <<env, slot, lk, sets, maps, pool, data, swap, io, dm, panic>>

(* The master's slot: another reference, or its page is read first. *)
Master(t) ==
    /\ At(t, "master")
    /\ IF slot[File].v
       THEN slot' = [slot EXCEPT ![File].refs = @ + 1] /\ th' = Go(t, "share")
       ELSE /\ th' = [th EXCEPT ![t].pc = "alloc", ![t].why = "master"]
            /\ UNCHANGED slot
    /\ UNCHANGED <<env, lk, sets, maps, pool, data, swap, io, dm, panic>>

(* The slot is valid, with one reference. *)
Filled(p, f) == [p EXCEPT !.v = TRUE, !.m = FALSE, !.refs = 1, !.f = f]

(* The page was read, or zeroed. *)
Fill(t) ==
    LET s == For(t) f == th[t].f IN
    /\ At(t, "got") /\ th[t].why \in {"fill", "master"} /\ s \notin Cow
    /\ data' = [data EXCEPT ![f] = IF slot[s].sw THEN swap[s] ELSE 0]
    /\ slot' = [slot EXCEPT ![s] = Filled(slot[s], f)]
    /\ th' = [th EXCEPT ![t].pc = IF th[t].why = "fill" THEN "map" ELSE "share",
                        ![t].f = None]
    /\ UNCHANGED <<env, lk, sets, maps, pool, swap, io, dm, panic>>

(* pageio() failed.  For a page of a copy-on-write set it is taken to do so *)
(* always: cow_fillslot() passes a block number for the offset in bytes,    *)
(* which the server refuses (src/src/srv/swap/rw.c:31) unless it happens to *)
(* be a multiple of the page size; then another block would be read.        *)
FillFails(t) ==
    LET held == IF th[t].why = "master" THEN {Own(t), File} ELSE {Own(t)} IN
    /\ At(t, "got") /\ th[t].why \in {"fill", "master"}
    /\ For(t) \in Cow \/ (env.rderr /\ (For(t) = File \/ slot[For(t)].sw))
    /\ lk' = [s \in Set |-> IF s \in held THEN Loosen(lk[s]) ELSE lk[s]]
    /\ FreePage([Wake(th, UNION {Waiters(s) : s \in held}) EXCEPT ![t] = User],
                th[t].f)
    /\ UNCHANGED <<env, slot, sets, maps, data, swap, io, dm>>

(* The slot shares the master's page. *)
Share(t) ==
    LET s == Own(t) IN
    /\ At(t, "share")
    /\ slot' = [slot EXCEPT ![s] = [Filled(slot[s], slot[File].f) EXCEPT !.cow = TRUE]]
    /\ lk' = Unlock(lk, File)
    /\ th' = [Wake(th, Waiters(File)) EXCEPT
                 ![t].pc = IF th[t].w THEN "alloc" ELSE "map",
                 ![t].why = IF th[t].w THEN "write" ELSE "none"]
    /\ UNCHANGED <<env, sets, maps, pool, data, swap, io, dm, panic>>

(* cow_write(): the master's slot is not locked. *)
CowWritten(t) ==
    LET s == Own(t) f == th[t].f IN
    /\ data' = [data EXCEPT ![f] = data[slot[File].f]]
    /\ slot' = [slot EXCEPT ![File].refs = @ - 1, ![s].f = f, ![s].cow = FALSE]
    /\ th' = [th EXCEPT ![t].pc = "map", ![t].f = None]
    /\ UNCHANGED <<env, lk, sets, maps, pool, swap, io, dm, panic>>

CowWrite(t) ==
    /\ At(t, "got") /\ th[t].why = "write"
    /\ IF ~ slot[File].v THEN Stops("cow_write: !v")
       ELSE IF slot[File].refs = 0 THEN Stops("deref_slot: zero")
       ELSE CowWritten(t)

(* hat_addtrans() writes the entry anew; the fault is done. *)
Translate(t) ==
    LET s == Own(t) IN
    /\ pt' = [pt EXCEPT ![s] = [f |-> slot[s].f, m |-> FALSE,
                                w |-> s # File /\ ~ slot[s].cow]]
    /\ lk' = Unlock(lk, s)
    /\ th' = [Wake(th, Waiters(s)) EXCEPT ![t] = User]

(* add_atl() and hat_addtrans(); a page table page may be needed first. *)
Map(t) ==
    LET s == Own(t) IN
    /\ At(t, "map")
    /\ atl' = [atl EXCEPT ![s] = @ + 1]
    /\ IF env.tables /\ tab[s] = None
       THEN /\ th' = [th EXCEPT ![t].pc = "alloc", ![t].why = "tab"]
            /\ UNCHANGED <<pt, lk>>
       ELSE Translate(t)
    /\ UNCHANGED <<env, slot, sets, tab, pool, data, swap, io, dm, panic>>

MapTable(t) ==
    /\ At(t, "got") /\ th[t].why = "tab"
    /\ tab' = [tab EXCEPT ![Own(t)] = th[t].f]
    /\ Translate(t)
    /\ UNCHANGED <<env, slot, sets, atl, pool, data, swap, io, dm, panic>>

-----------------------------------------------------------------------------
(* pageout(): do_hand() and steal_master()                                  *)

(* Mutant: what the translations modified is forgotten. *)
UnvirtUnmodified(sl, s, to) == [sl EXCEPT ![s].refs = @ - atl[s]]

(* unvirt(): every translation of the slot goes, what it modified is kept. *)
Unvirt(sl, s, to) ==
    [sl EXCEPT ![to].m = @ \/ pt[s].m, ![s].refs = @ - atl[s]]

IsMaster(s) == s = File /\ cowsets # {}

(* A hand comes to a page whose set is in use and whose slot is not busy;   *)
(* hard: is memory so short that the page is to go?                         *)
Hand(f, hard) ==
    LET s == core[f].s IN
    /\ Run /\ env.steal /\ dm.pc = "idle"
    /\ core[f].alloc /\ s # None /\ refs[s] > 0 /\ ~ lk[s].held
    /\ lk' = [lk EXCEPT ![s].held = TRUE, ![s].n = @ + 1]
    /\ IF slot[s].cow
       THEN Die("do_hand: cow in set_core") /\ UNCHANGED <<slot, atl, pt, dm>>
       ELSE /\ slot' = Unvirt(slot, s, s)
            /\ atl' = [atl EXCEPT ![s] = 0]
            /\ pt' = [pt EXCEPT ![s] = NoTrans]
            /\ dm' = [pc |-> IF IsMaster(s) THEN "walk" ELSE "judge", s |-> s,
                      todo |-> IF IsMaster(s) THEN cowsets ELSE {}, hard |-> hard]
            /\ UNCHANGED panic
    /\ UNCHANGED <<env, sets, tab, pool, data, swap, io, th>>

(* steal_master() tries the sets over the file's one after the other: it    *)
(* skips one that is busy (cp_lock(), clock_slot()) ...                     *)
SkipCow(c) ==
    /\ Run /\ dm.pc = "walk" /\ c \in dm.todo /\ slot[File].refs > 0
    /\ dm' = [dm EXCEPT !.todo = @ \ {c}]
    /\ UNCHANGED <<env, slot, lk, sets, maps, pool, data, swap, io, th, panic>>

(* Mutant: the slot keeps the page it no longer refers to. *)
TakeCowValid(c) ==
    LET sl == Unvirt(slot, c, File) IN
    /\ Run /\ dm.pc = "walk" /\ c \in dm.todo /\ slot[File].refs > 0
    /\ ~ lk[c].held /\ slot[c].cow
    /\ slot' = IF sl[c].refs = 0 THEN [sl EXCEPT ![File].refs = @ - 1] ELSE sl
    /\ atl' = [atl EXCEPT ![c] = 0]
    /\ pt' = [pt EXCEPT ![c] = NoTrans]
    /\ dm' = [dm EXCEPT !.todo = @ \ {c}]
    /\ UNCHANGED <<env, lk, sets, tab, pool, data, swap, io, th, panic>>

(* ... and takes the shared page from another. *)
TakeCow(c) ==
    LET sl == Unvirt(slot, c, File) IN
    /\ Run /\ dm.pc = "walk" /\ c \in dm.todo /\ slot[File].refs > 0
    /\ ~ lk[c].held /\ slot[c].cow
    /\ slot' = IF sl[c].refs = 0
               THEN [sl EXCEPT ![c].cow = FALSE, ![c].v = FALSE, ![File].refs = @ - 1]
               ELSE sl
    /\ atl' = [atl EXCEPT ![c] = 0]
    /\ pt' = [pt EXCEPT ![c] = NoTrans]
    /\ dm' = [dm EXCEPT !.todo = @ \ {c}]
    /\ UNCHANGED <<env, lk, sets, tab, pool, data, swap, io, th, panic>>

Judged == \/ dm.pc = "judge"
          \/ dm.pc = "walk" /\ (dm.todo = {} \/ slot[File].refs = 0)

(* Clean, unreferenced and wanted: take the page away. *)
Steal ==
    LET s == dm.s IN
    /\ Run /\ Judged /\ slot[s].refs = 0 /\ ~ slot[s].m /\ dm.hard
    /\ slot' = [slot EXCEPT ![s].v = FALSE]
    /\ lk' = Unlock(lk, s)
    /\ FreePage(Wake(th, Waiters(s)), slot[s].f)
    /\ dm' = Idle
    /\ UNCHANGED <<env, sets, maps, data, swap, io>>

(* Dirty and wanted: clean it; the slot stays locked until that is done. *)
Push ==
    LET s == dm.s IN
    /\ Run /\ dm.pc = "judge" /\ slot[s].refs = 0 /\ slot[s].m /\ dm.hard /\ env.swap
    /\ slot' = [slot EXCEPT ![s].m = FALSE, ![s].sw = TRUE]
    /\ io' = io \cup {s}
    /\ dm' = Idle
    /\ UNCHANGED <<env, lk, sets, maps, pool, data, swap, th, panic>>

Spare ==
    LET s == dm.s IN
    /\ Run /\ Judged
    /\ \/ slot[s].refs > 0
       \/ ~ dm.hard
       \/ slot[s].m /\ ~ env.swap
    /\ lk' = Unlock(lk, s)
    /\ th' = Wake(th, Waiters(s))
    /\ dm' = Idle
    /\ UNCHANGED <<env, slot, sets, maps, pool, data, swap, io, panic>>

(* The page is on swap: iodone_unlock(). *)
IoDone(s) ==
    /\ Run /\ s \in io
    /\ swap' = [swap EXCEPT ![s] = data[slot[s].f]]
    /\ slot' = [slot EXCEPT ![s].m = FALSE]
    /\ lk' = Unlock(lk, s)
    /\ th' = Wake(th, Waiters(s))
    /\ io' = io \ {s}
    /\ UNCHANGED <<env, sets, maps, pool, data, dm, panic>>

-----------------------------------------------------------------------------
(* fork_vas(): copy_pset() and dup_slots()                                  *)

Fork(t) ==
    LET s == Own(t) c == env.child[t] IN
    /\ At(t, "user") /\ c # None /\ refs[c] = 0 /\ s # File
    /\ \A u \in Thread : env.map[u] = c => th[u].pc = "none"
    /\ refs' = [refs EXCEPT ![s] = @ + 1,
                            ![File] = IF c \in Cow THEN @ + 1 ELSE @]
    /\ cowsets' = IF c \in Cow THEN cowsets \cup {c} ELSE cowsets
    /\ th' = Go(t, "dup")
    /\ UNCHANGED <<env, slot, lk, maps, pool, data, swap, io, dm, panic>>

Dup(t) ==
    LET s == Own(t) IN
    /\ At(t, "dup")
    /\ IF slot[s].v \/ slot[s].sw THEN Lock(th, t, s, "dupd")
       ELSE th' = Go(t, "forked") /\ UNCHANGED lk
    /\ UNCHANGED <<env, slot, sets, maps, pool, data, swap, io, dm, panic>>

(* A shared page is left to the copy's own faults, with the slot locked. *)
Dupd(t) ==
    LET s == Own(t) IN
    /\ At(t, "dupd")
    /\ th' = IF slot[s].v /\ slot[s].cow THEN Go(t, "forked")
             ELSE [th EXCEPT ![t].pc = "alloc", ![t].why = "copy"]
    /\ UNCHANGED <<env, slot, lk, sets, maps, pool, data, swap, io, dm, panic>>

(* copy_page(): a page that is out is written, not read (FS_ABSWRITE). *)
Copied(t) ==
    LET s == Own(t) f == th[t].f IN
    /\ IF slot[s].v THEN data' = [data EXCEPT ![f] = data[slot[s].f]] /\ UNCHANGED swap
       ELSE swap' = [swap EXCEPT ![s] = data[f]] /\ UNCHANGED data
    /\ slot' = [slot EXCEPT ![env.child[t]].v = TRUE, ![env.child[t]].f = f]
    /\ lk' = Unlock(lk, s)
    /\ th' = [Wake(th, Waiters(s)) EXCEPT ![t].pc = "forked", ![t].f = None]
    /\ UNCHANGED <<env, sets, maps, pool, io, dm, panic>>

CopyPage(t) ==
    /\ At(t, "got") /\ th[t].why = "copy"
    /\ IF ~ slot[Own(t)].v /\ ~ slot[Own(t)].sw THEN Stops("copy_page: !v !swap")
       ELSE Copied(t)

(* The copy gets its view, the parent's set loses the extra reference, and  *)
(* the child runs.                                                          *)
Forked(t) ==
    LET s == Own(t) c == env.child[t] IN
    /\ At(t, "forked")
    /\ refs' = [refs EXCEPT ![c] = 1, ![s] = @ - 1]
    /\ th' = [u \in Thread |-> IF u = t \/ env.map[u] = c THEN User ELSE th[u]]
    /\ UNCHANGED <<env, slot, lk, cowsets, maps, pool, data, swap, io, dm, panic>>

-----------------------------------------------------------------------------
(* exit: free_vas(), detach_pview(), deref_pset(), free_pset()              *)

Detach(t) ==
    LET s == Own(t) IN
    /\ At(t, "user") /\ env.exit
    /\ IF slot[s].v THEN Lock([th EXCEPT ![t].d = s], t, s, "det")
       ELSE th' = [th EXCEPT ![t].pc = "deref", ![t].d = s] /\ UNCHANGED lk
    /\ UNCHANGED <<env, slot, sets, maps, pool, data, swap, io, dm, panic>>

(* Mutant: the slot keeps the reference of the view. *)
DroppedReferenced(t) ==
    LET s == Own(t) IN
    /\ slot' = IF atl[s] = 0 THEN slot ELSE [slot EXCEPT ![s].m = @ \/ pt[s].m]
    /\ atl' = IF atl[s] = 0 THEN atl ELSE [atl EXCEPT ![s] = @ - 1]
    /\ pt' = IF atl[s] = 0 THEN pt ELSE [pt EXCEPT ![s] = NoTrans]
    /\ lk' = Unlock(lk, s)
    /\ th' = [Wake(th, Waiters(s)) EXCEPT ![t].pc = "deref"]
    /\ UNCHANGED <<env, sets, tab, pool, data, swap, io, dm, panic>>

(* The view's translation goes, and its reference to the slot. *)
Dropped(t) ==
    LET s == Own(t) IN
    /\ slot' = IF atl[s] = 0 THEN slot
               ELSE [slot EXCEPT ![s].m = @ \/ pt[s].m, ![s].refs = @ - 1]
    /\ atl' = IF atl[s] = 0 THEN atl ELSE [atl EXCEPT ![s] = @ - 1]
    /\ pt' = IF atl[s] = 0 THEN pt ELSE [pt EXCEPT ![s] = NoTrans]
    /\ lk' = Unlock(lk, s)
    /\ th' = [Wake(th, Waiters(s)) EXCEPT ![t].pc = "deref"]
    /\ UNCHANGED <<env, sets, tab, pool, data, swap, io, dm, panic>>

Detached(t) ==
    /\ At(t, "det")
    /\ IF atl[Own(t)] > 0 /\ slot[Own(t)].refs = 0 THEN Stops("deref_slot: zero")
       ELSE Dropped(t)

(* deref_pset(), and fod_deinit()'s test and those at the head of           *)
(* free_pset() when it was the last reference.                              *)
Deref(t) ==
    LET s == th[t].d
        bad == CASE refs[s] = 0 -> "deref_pset: 0 ref"
                 [] refs[s] = 1 /\ s = File /\ slot[s].m -> "fod_deinit: dirty"
                 [] refs[s] = 1 /\ lk[s].n > 0 -> "free_pset: locks > 0"
                 [] refs[s] = 1 /\ slot[s].refs > 0 -> "free_pset: still refs"
                 [] OTHER -> "none"
    IN
    /\ At(t, "deref")
    /\ refs' = [refs EXCEPT ![s] = @ - 1]
    /\ panic' = bad
    /\ th' = Go(t, IF refs[s] = 1 THEN "free" ELSE "vas")
    /\ UNCHANGED <<env, slot, lk, cowsets, maps, pool, data, swap, io, dm>>

(* Mutant: a shared page is freed like any other. *)
FreeSlotShared(t) ==
    LET s == th[t].d IN
    /\ At(t, "free")
    /\ IF slot[s].v THEN FreePage(Go(t, "fpset"), slot[s].f)
       ELSE th' = Go(t, "fpset") /\ UNCHANGED <<pool, panic>>
    /\ slot' = [slot EXCEPT ![s] = EmptySlot]
    /\ UNCHANGED <<env, lk, sets, maps, data, swap, io, dm>>

(* free_pset(): the page goes, or the reference to the file's slot. *)
FreeSlot(t) ==
    LET s == th[t].d IN
    /\ At(t, "free")
    /\ IF slot[s].v /\ slot[s].cow
       THEN Lock(th, t, File, "unshare") /\ UNCHANGED <<slot, pool, panic>>
       ELSE /\ IF slot[s].v THEN FreePage(Go(t, "fpset"), slot[s].f)
               ELSE th' = Go(t, "fpset") /\ UNCHANGED <<pool, panic>>
            /\ slot' = [slot EXCEPT ![s] = EmptySlot]
            /\ UNCHANGED lk
    /\ UNCHANGED <<env, sets, maps, data, swap, io, dm>>

(* The reference to the file's slot goes. *)
Unshared(t) ==
    /\ slot' = [slot EXCEPT ![File].refs = @ - 1, ![th[t].d] = EmptySlot]
    /\ lk' = Unlock(lk, File)
    /\ th' = [Wake(th, Waiters(File)) EXCEPT ![t].pc = "fpset"]
    /\ UNCHANGED <<env, sets, maps, pool, data, swap, io, dm, panic>>

Unshare(t) ==
    /\ At(t, "unshare")
    /\ IF slot[File].refs = 0 THEN Stops("deref_slot: zero") ELSE Unshared(t)

(* A copy-on-write set leaves the file's set. *)
LeftMaster(t) ==
    LET s == th[t].d IN
    /\ cowsets' = cowsets \ {s}
    /\ th' = [th EXCEPT ![t].pc = IF s \in Cow THEN "deref" ELSE "vas",
                        ![t].d = IF s \in Cow THEN File ELSE None]
    /\ UNCHANGED <<env, slot, lk, refs, maps, pool, data, swap, io, dm, panic>>

FreePset(t) ==
    /\ At(t, "fpset")
    /\ IF th[t].d \in Cow \ cowsets THEN Stops("free_pset: lost cow") ELSE LeftMaster(t)

(* hat_freevas(): the page tables. *)
FreeVas(t) ==
    LET s == Own(t) gone == [User EXCEPT !.pc = "gone"] IN
    /\ At(t, "vas")
    /\ IF tab[s] # None THEN FreePage([th EXCEPT ![t] = gone], tab[s])
       ELSE th' = [th EXCEPT ![t] = gone] /\ UNCHANGED <<pool, panic>>
    /\ tab' = [tab EXCEPT ![s] = None]
    /\ UNCHANGED <<env, slot, lk, sets, atl, pt, data, swap, io, dm>>

-----------------------------------------------------------------------------
Kernel(t) ==
    \/ Relock(t) \/ AllocPage(t) \/ NoPage(t)
    \/ Valid(t) \/ Invalid(t) \/ LockMaster(t) \/ Master(t) \/ Fill(t) \/ FillFails(t)
    \/ Share(t) \/ CowWrite(t) \/ Map(t) \/ MapTable(t)
    \/ Dup(t) \/ Dupd(t) \/ CopyPage(t) \/ Forked(t)
    \/ Detached(t) \/ Deref(t) \/ FreeSlot(t) \/ Unshare(t) \/ FreePset(t) \/ FreeVas(t)

Daemon ==
    \/ Steal \/ Push \/ Spare
    \/ \E c \in Cow : SkipCow(c) \/ TakeCow(c)

Next ==
    \/ \E t \in Thread : \/ Store(t) \/ Fork(t) \/ Detach(t) \/ Kernel(t)
                         \/ \E w \in BOOLEAN : Fault(t, w)
    \/ \E f \in Frame, hard \in BOOLEAN : Hand(f, hard)
    \/ Daemon
    \/ \E s \in Set : IoDone(s)

Spec == Init /\ [][Next]_vars

-----------------------------------------------------------------------------
(* Properties                                                               *)

Slot == [v : BOOLEAN, cow : BOOLEAN, sw : BOOLEAN, m : BOOLEAN, refs : Int,
         f : Frame \cup {None}]

(* What the variables hold; the semaphores count their sleepers.            *)
TypeOK ==
    /\ env \in Env
    /\ slot \in [Set -> Slot]
    /\ refs \in [Set -> Nat] /\ cowsets \subseteq Cow /\ atl \in [Set -> Nat]
    /\ \A s \in Set : /\ SemaType(lk[s].sema, Thread) /\ CountsSleepers(lk[s].sema)
                      /\ lk[s].n \in Nat
    /\ pt \in [Set -> [f : Frame \cup {None}, w : BOOLEAN, m : BOOLEAN]]
    /\ tab \in [Set -> Frame \cup {None}]
    /\ core \in [Frame -> [alloc : BOOLEAN, s : Set \cup {None}]]
    /\ free \in Seq(Frame) /\ SemaType(memw, Thread) /\ CountsSleepers(memw)
    /\ data \in [Frame -> Val] /\ swap \in [Set -> Val] /\ io \subseteq Set

(* What is asserted of the state between steps, by whoever looks next.      *)
Asserted ==
    /\ \A s \in Set : lk[s].held => lk[s].n > 0      \* lock_slot: stray lock
    /\ ~ slot[File].m      \* fod_writeslot: dirty file, and of steal_master()
    /\ \A t \in Thread : th[t].pc = "map" => slot[Own(t)].v      \* vm_fault: lost the page
    /\ dm.pc = "judge" => slot[dm.s].v      \* nof_writeslot: invalid

(* No assertion fails: the master's page is there when a write copies it    *)
(* (pset_cow.c:133), a slot that fork() copies has a page somewhere         *)
(* (pset.c:430), no reference is dropped that is not there (pset.c:600,     *)
(* :307), no page is freed twice (vm_page.c:98), a set is freed without     *)
(* locks, references or writes to a file, and leaves its master's list      *)
(* (pset.c:42, :54, :111, pset_fod.c:45), no page of core is another's      *)
(* (vm_steal.c:245); and Asserted.                                          *)
NoPanic == panic = "none" /\ Asserted

Owners(f) == Cardinality({s \in Set : slot[s].v /\ ~ slot[s].cow /\ slot[s].f = f})
             + Cardinality({t \in Thread : th[t].f = f})
             + Cardinality({s \in Set : tab[s] = f})

(* A page frame is on the free list once, or belongs to exactly one slot,   *)
(* page table or thread that has just allocated it (vm_page.c:73, :104):    *)
(* none is lost, and none is used twice.                                    *)
FramesOwned ==
    /\ Len(free) = Cardinality(Range(free))
    /\ \A f \in env.frames : Owners(f) = IF f \in Range(free) THEN 0 ELSE 1

(* A translation leads to the frame of its slot, a slot that shares to the  *)
(* master's frame: nobody reaches a page that was stolen or copied          *)
(* (pset_cow.c:135, vm_steal.c:152).  A locked slot may be on its way.      *)
MapsCurrent ==
    /\ \A s \in Set : pt[s].f # None /\ ~ lk[s].held =>
           slot[s].v /\ pt[s].f = slot[s].f /\ (pt[s].w => ~ slot[s].cow)
    /\ \A c \in Cow : slot[c].v /\ slot[c].cow =>
           slot[File].v /\ slot[c].f = slot[File].f

(* The references of a slot are its translations and the slots that share   *)
(* its page (vm_fault.c:23-34), whoever faults, steals and exits.           *)
RefsCount ==
    \A s \in Set : ~ lk[s].held =>
        slot[s].refs = atl[s] + IF s # File THEN 0
            ELSE Cardinality({c \in Cow : slot[c].v /\ slot[c].cow})

(* The core entry of a page in use points back to the slot it is in         *)
(* (atl.c:7-9); a locked slot may be on its way.                            *)
CorePointsBack ==
    \A f \in Frame : LET s == core[f].s IN
        core[f].alloc /\ s # None /\ ~ lk[s].held /\ (\A t \in Thread : th[t].f # f)
        => slot[s].v /\ slot[s].f = f

(* What a set holds: in memory, on swap, or as it was in the file; a set    *)
(* nobody refers to yet, or any more, is gone.                              *)
Value(s) == IF refs[s] = 0 THEN None
            ELSE IF slot[s].v THEN data[slot[s].f]
            ELSE IF slot[s].sw THEN swap[s] ELSE 0

Mem == INSTANCE Memory WITH Gone <- None, mem <- [s \in Set |-> Value(s)]

(* Faults, copies on write, stealing and page I/O do not change what a set  *)
(* holds: only stores do, and fork() copies it (pset.c:519).                *)
MemoryKept == Mem!Spec

(* Nobody sleeps where no wakeup comes.  The waiters of all slots of a set  *)
(* share a semaphore and are woken together: while any is asleep the lock   *)
(* is held, and whoever holds it finds PP_WANT (pset.c:192, :236).  Who     *)
(* waits for memory was overtaken by as many threads that are awake and     *)
(* about to look as there are free pages (vm_page.c:63, :108).              *)
SleepersWanted ==
    /\ \A s \in Set : Sleepers(lk[s].sema) # {} => lk[s].held /\ lk[s].want
    /\ Blocked(memw) => Len(free) <= Cardinality({t \in Thread : th[t].pc = "alloc"})
=============================================================================
