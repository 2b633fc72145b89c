# VSTa: specifications and proofs

VSTa is a microkernel for PCs (386 and up) and the servers that make a system of
it. The kernel gives threads, address spaces, semaphores and messages; files,
pipes, names, swap space and devices are user processes reached by messages.
This directory holds TLA+ modules for the parts of the kernel whose
correctness rests on what happens between two steps of one thread, the TLC
configurations that check them on small instances, and TLAPS proofs of what
matters most for every instance. Source paths are relative to the repository;
line numbers are those of the files here.

1. [The system](#1-the-system)
2. [The modules and how they follow the code](#2-the-modules-and-how-they-follow-the-code)
3. [The runs](#3-the-runs)
4. [Disagreements found](#4-disagreements-found)
5. [The proofs](#5-the-proofs)
6. [What is not modelled](#6-what-is-not-modelled)
7. [Plan](#7-plan)

## 1. The system

### How it runs

Sleeping is done on counting semaphores (`sema_t`), with one of three
priorities: `PRIHI` ignores events, `PRICATCH` returns 1 to its caller, `PRILO`
leaves the system call by `longjmp`. Interrupt handlers run at any time that
interrupts are on, and may release semaphores.

Whether a thread can lose the CPU in the kernel without sleeping is answered in
two ways by the repository, and the modules use both:

* The *contract* the kernel is written to is a multiprocessor or preemptive one:
  threads interleave everywhere except inside a spinlock (`lock_t`;
  `src/vsta_intro.txt:92-104`, `:154-156`). `Sema`, `Msg`, `ExitGrp` and
  `Event` take *one spinlock section of the code* as the atomic step, with the
  thread-local code around it. What they show holds on more than one CPU.
* The kernel *as it is built* has one CPU, and `trap()` preempts only on the way
  back to user level (`src/src/os/mach/trap.c:656-670`). Page stealing, swap and the
  scheduler rely on it: `do_hand()` reads the core entry unlocked,
  `alloc_swap()` gives up the server and then sleeps, `mutex.c` has no spinlock at
  all on one CPU. For `Pset`, `Sched` and `Swap` a step is what runs up to
  the next point where the thread may sleep (for `Sched`: up to the next point
  where interrupts are on).

The kernel is built with `-DDEBUG` (`src/src/os/make/makefile:6`), so
`ASSERT_DEBUG` is compiled in. A failed assertion stops the machine: modules
record it in a variable `panic` and take no step afterwards.

### Components

| component | state | operations | hard part | what makes it correct |
|---|---|---|---|---|
| semaphores `os/mach/mutex.c` | count, FIFO of sleepers; per thread `t_wchan`, `t_intr`, `t_nointr` | `p_sema`, `cp_sema`, `v_sema`, `vall_sema`, `cunsleep`, `p_sema_v_lock` | an event and a release reach the same sleeper | units are neither lost nor made; count and queue agree; a mutex is exclusive, fair, and ends |
| messages `os/kern/msg.c`, `msgcon.c`, `port.c`, `msgkern.c` | ports with queue, connections (portrefs) with state and three semaphores, handles known to the server | `msg_port`, `msg_connect`, `msg_accept`, `msg_send`, `msg_receive`, `msg_reply`, `msg_err`, `msg_disconnect`, `clone`, abort | interruption against reply, disconnect against use, port closing against everything | no message is used after it is freed; a reply reaches its own request; every call ends; no assertion fails |
| processes, exit groups `os/kern/proc.c`, `exitgrp.c` | life of a process, group with reference count, status list, `e_sema` | `fork`, `fork_thread`, `do_exit`, `waits` | parent and children exit in any order; two locks per exit | a group lives as long as a reference; an exit is reported once; `waits` wakes |
| events `os/kern/event.c` | pending event per thread and kind, `t_evq`, process groups | `notify`, delivery, `join_pgrp`, `leave_pgrp` | sender waits with `p_sema` held | an event is delivered or overwritten by a system one, the sender never deadlocks, a group is freed once |
| pids, permissions `os/kern/proc.c`, `misc.c` | range of free ids | `allocpid`, `pfind`, `perm_calc` | refilling the range | an id is used by one process or thread |
| scheduler `os/kern/sched.c` | tree of nodes, `s_nrun`, queues, real-time and background queues | `setrun`, `swtch`, `pick_run`, node create and free | counts on the way to the root | `s_nrun` counts runnable leaves; a runnable thread is queued once |
| clock `os/kern/xclock.c` | ordered list of alarms | `time_sleep`, `alarm_wakeup`, `time_get` | alarm against event | no sleeper is forgotten, an entry is freed once, off the list |
| queued I/O `os/kern/qio.c` | pool, work queue, gate | `alloc_qio`, `qio`, `run_qio` | the pool runs dry in the page daemon | elements are conserved; an error reaches the page |
| page sets `os/kern/pset*.c`, `vm_fault.c`, `atl.c` | slots with flags, references and locks; frames; copy-on-write links | fill, fault, unmap, `dup_slots`, `copy_page` | slot locks held across I/O; master and copy | a frame belongs to one slot, is freed when unreferenced, a slot lock is released |
| page stealing `os/kern/vm_steal.c` | two clock hands | `do_hand`, `steal_master` | locks taken backwards | a page in use is not stolen, a dirty one is written first, no deadlock |
| page pool `os/kern/vm_page.c` | free list, page locks, virtual map | `alloc_page`, `free_page`, `alloc_vmap` | sleepers for memory | frames are conserved, a sleeper is woken when memory comes back |
| swap `os/kern/vm_swap.c`, `srv/swap` | map of blocks, `swap_wait` | `alloc_swap`, `free_swap`, `pageio` | check, then sleep | no block has two owners, a waiter is woken |
| address spaces `os/kern/vas.c`, `pview.c`, `mmap.c`, `os/mach/hat.c` | views, translations | map, unmap, fork, exec | translations against slots | a translation exists only for a valid slot that knows it |
| segments `os/kern/seg.c` | buffers attached to a message or a server | make, attach, detach | failure after dequeue | a segment is detached once |
| interrupts `os/mach/isr.c` | handler per line, its message | `enable_isr`, `deliver_isr` | interrupt against receive | every interrupt is counted in one message |
| kernel memory `os/kern/malloc.c` | buckets, pages | `malloc`, `free` | | chunks do not overlap |
| debugging `os/kern/ptrace.c` | `pd_*` semaphores | attach, handshake | | both sides go on |
| C library containers `libc/rmap.c`, `hash.c`, `llist.c`, `malloc.c` | sequential data | | boundaries | agreement with a set or map |
| servers `srv/pipe`, `namer`, `env`, `tmpfs`, `vstafs`, `dos`, `bfs`, `cdfs`, `proc` | tree of nodes or blocks, open files, queued requests | one message each | abort of queued requests, references | nodes live as long as references; every request is answered once |
| device servers `srv/mach/*` | device registers, queues | | interrupts | |
| traps, system calls, boot, debugger, commands | | | | |

### How components interact

* Everything that sleeps uses **semaphores**; a sleeping thread is taken off by
  `v_sema()` or, by an event, by `cunsleep()`.
* **Messages** carry every system service that is not in the kernel. The
  kernel is itself a client: page and swap I/O, clone and connection
  management use `kernmsg_send()` and hand-built messages of the same states.
* **Exit** closes ports and connections (`close_ports`, `close_portrefs`), leaves the
  process group, frees the address space, and then passes its status through the
  **exit group** of its parent.
* The **page daemon** writes pages through **queued I/O**, that is, by messages
  to a server, which may itself need memory.
* **Events** interrupt sleeps in all of the above; each caller of `p_sema` with
  `PRICATCH` must put things right. `msg_send()` is the hardest of them: the
  server may be working on the message, so the kernel sends `M_ABORT` and waits.

`PROJECT.json` lists every component with its status, and the hazards of the
code, each at the line where it bites.

## 2. The modules and how they follow the code

| module | models | uses |
|---|---|---|
| `SemaOps` | the operations on one semaphore as functions of its value | |
| `Sema` | threads that use one semaphore, as a mutex or as an event counter | `SemaOps` |
| `Msg` | one port, its server threads, its clients and their connections | `SemaOps` |
| `ExitGrp` | processes, their threads, exit groups | `SemaOps` |
| `Event` | senders and targets of events, the pid hash, a process group, exit | `SemaOps` |
| `Sched` | the run queues, one CPU, its clock and its idle loop | |
| `Memory` | abstract: each page set holds what was stored last | |
| `Pset` | page slots, copy on write, fork, exit, the page daemon; implements `Memory` | `SemaOps`, `Memory` |
| `Rmap` | resource maps: operators on a sequence of runs of blocks | |
| `Swap` | the kernel's and the server's side of swap space | `SemaOps`, `Rmap` |
| `MC...` | instances for TLC, one per module with runs | |
| `SemaOpsProofs` | lemmas on the operators of `SemaOps`, for the other proofs | `SemaOps`, `TLAPS` |
| `SemaProofs`, `MsgProofs`, `ExitProofs`, `EventProofs`, `SchedProofs`, `PsetProofs`, `SwapProofs` | theorems | the above, `TLAPS` |

`SemaOps` is the interface the other modules compose through: a semaphore in
`Msg`, `ExitGrp`, `Event`, `Pset` or `Swap` is a `SemaOps` value, so the queue order,
hand-off and counting `Sema` checks and `SemaProofs` proves about are the ones they
run on. A thread that is asleep has a `pc` that says on what; the function `WakeTo`
says where it goes on when `v_sema()` gives it what it waits for.

*Settings.* What a run varies besides its constants (who may send, fork or exit, how
many frames there are, whether there is a swap device) is a record `env` that never
changes, chosen at the start from the constant `Envs`; each MC module names its
settings. One run then covers several small systems instead of one large one.

**Semaphores.** `[cnt, q]` is `s_count` and the ring at `s_sleepq`, head first.
`PSema`, `VSema` and `DqSema` are the sections under `s_lock`; `VWakes` names
whom `v_sema()` lets go. In `Sema`, `pc`, `pri` and `intr` are the thread's state,
`t_nointr` and `t_intr`. `vall_sema()` is two actions because its loop tests the
count unlocked. `cunsleep()` of a thread asleep with a priority below `PRIHI` is
`Unsleep`; its retry on a busy spinlock changes nothing. `p_sema_v_lock()` is
`P`: it differs in the spinlock it gives up, which is inside the step.
`holders` and `out` are history: who was granted a unit, and how many are out;
`anyone` says which of the two disciplines the semaphore is used with.

**Messages.** The variables are the structures: `ref` (portref: `p_state`, whether
`p_port` is set, whether a descriptor names it, `p_sema`, `p_iowait`, `p_svwait`,
and whose reply is in `p_msg`), `port` (state, name, `p_sema`, `p_wait`, queue, ring of
connections), `prefs` (`p_prefs` of the server process, the hash of handles), and
one record per client and server thread. Each call is a chain of actions linked by
the thread's `pc`:

| code | actions |
|---|---|
| `msg_send` with `find_portref` | `Lookup`, `LookupIntr`, `LookupGone`, `Send`, `SendIntr`, `Abort`, `AbortLate`, `Aborted`, `Done`, `Release` |
| `clone`, `kernmsg_send` | `Clone`, `CloneSend`, `CloneDone` |
| `msg_connect` | `Connect`, `Connected` |
| `msg_disconnect`, `shut_client` | `Disconnect`, `ShutClient`, `Disconnected` |
| `msg_receive` | `Receive`, `ReceiveIntr`, `AwaitMsg`, `AwaitIntr`, `Dequeue` with `NewClient`, `DelClient`, `AckDisconnect`, `CopyOut`, `ReleasePort`, `Received` |
| `msg_reply` | `ReplyDone`, `ReplyDup` with `DupWake` and `DupHash`, `ReplyAbort`, `ReplyRefused` |
| `msg_err`, `msg_accept` | `ErrReply`, `Reject`, `ErrRefused`, `Accept` |
| `delete_port`, `shut_server` | `ClosePort`, `Unname`, `CloseClient`, `TakeMsgs`, `BounceMsg`, `Bounced`, `Unhash`, `FreePort` |

A message is its operation, the portref, and the call it belongs to; `bit`
alternates from call to call, which is enough to tell a call from the one before
on the same thread. The argument of a finished call is one of "own" (what the
caller passed), "reply", "err" and "stale" (an answer to another call). The contents
of segments are left out, but not the last look `msg_receive()` takes at the
message to find them.

The server is user code. It is modelled by its duty under `msg_receive`(2): it
answers each message it received once, in any order, and on `M_ABORT` forgets the
aborted request and confirms. `env.holds` says whether it may receive while it owes
an answer.

**Exit groups.** `grp[p]` is the group `p` made for its children, `par` the parent,
`st` how far `do_exit()` of a process has come, `pc` its threads. `PostLook` is the
unlocked look of `post_exitgrp()` and `Post` the locked one; `Noparent` and
`NoparentDeref` are the two lock sections of `noparent_exitgrp()`; `WaitTake`,
`WaitBlock`, `WaitWoken` and `WaitCount` those of `wait_exitgrp()`. `waits()` without
blocking is `WaitTake` or nothing. `got` counts how often a status was returned.

**Events.** `pid` is `pid_sema` with `hashed`, the processes `pfind()` finds; `ps` and
`links` are `p_sema` and `p_threads` of each process; `evq`, `evp` and `evs` are
`t_evq` and whether `t_evproc` and `t_evsys` hold something; `pg` is one process group with
its members. A sender takes `pid_sema`, then `p_sema` of the target (`Notify`,
`Pfind`, `PfindDone`), walks its threads (`Begin`, `Walk`, `Post`, `WalkDone`), asleep on the
thread's `t_evq` where the thread has an event it did not take yet; `notifypg()` lists the
group and calls it for each member (`ListGroup`, `Member`). A thread on its way to user
level takes what it has (`CheckSys`, `CheckProc`, `Delivered`); `do_exit()` is
`Exit`, `Unlink`, `ThreadGone`, and for the last thread `FreeProc`, `Unhash`,
`LeaveGroup`, `Free`; `fork_thread()` is `ForkThread`, `LinkThread`, `StartThread`.

**Scheduler.** `q` holds the pointers as the code has them: `s_down` of the heads
(`sched_rt`, `sched_cheated`, `sched_bg`, the root, and the node of each process),
`s_hd` and `s_tl` of every node on a ring, and `s_nrun`. `Ring(r, N, first)` is
what the pointers lead to from `first`, whatever they are. `Wake` is `lsetrun()`,
`Sleep`, `Timeslice` and `Exit` the ways into `swtch()`, `Pick` and `GoIdle` the ways out of
it, `LeaveIdle` the loop of `idle` in `locore.s`. The ways into `swtch()` clear `do_preempt`; `RunIt`
sets `pc_pri` and the thread's ticks. `Tick` is the clock's part. `SetPrio` is `sched_prichg()`, which
writes the class through a pointer it never sets: into the caller, any other thread that
exists, or memory that is no thread's, which is taken to do no harm.

**Page sets.** One page of each set: a mapped file, copy-on-write sets over it, and
anonymous sets. `slot`, `lk` and `refs` are the perpage, its lock with `p_locks` and `p_lockwait`, and
`p_refs`; `atl`, `pt` and `tab` the attach list, the translation and the page table page of
the one view of the set; `core`, `free` and `memw` the page pool; `data` and `swap` what is in a
frame and in a swap block, as the number of stores made. A thread's fault goes
`Fault`, `Valid` or `Invalid`, with `Master`, `Fill`, `Share`, `CowWrite` as its set asks
for, `Translate`, `Map`; fork goes `Fork`, `Dup`, `Dupd`, `CopyPage`, `Forked`; exit goes
`Detach`, `Detached`, `Deref`, `FreeSlot`, `Unshare`, `FreePset`, `FreeVas`. The page daemon
puts a hand on any frame (`Hand`), walks to the copies of a master (`SkipCow`, `TakeCow`),
and then takes the page, has it written, or spares it (`Steal`, `Push`, `Spare`); `IoDone`
is the end of the write. `Lock`, `Relock` and `Unlock` are `lock_slot()` and `unlock_slot()`;
waiting for memory is `NoPage`. Where an action asserts something first, what it does otherwise has a name of its
own: `CowWritten`, `Copied`, `Dropped`, `Unshared`, `LeftMaster`; `Stops` is the failed assertion.

Of the assertions in these files, the model has those that depend on what other threads do: `cow_write: !v`, `copy_page: !v !swap`,
`deref_slot: zero`, `deref_pset: 0 ref`, `free_pset: locks > 0`, `still refs` and `lost cow`, `free_page: already free`,
`do_hand: cow in set_core`, `fod_deinit: dirty` in the actions that make them, and `lock_slot: stray lock`, `fod_writeslot: dirty file` (and that of `steal_master()`),
`vm_fault: lost the page` and `nof_writeslot: invalid` as `Asserted`, of the state between steps. Left out are those about what the
caller passes or what no step here can change: whether an unlocked slot is unlocked, the overflow of `pp_refs`, filling a
valid slot, a copy of a copy, `C_BAD`, views and pages that are not found (`find_pp`, "lost a pview"); `unvirt: underflow`
is what `RefsCount` says of the slot before the hand came.

`Memory` says what all this is for: a page set holds what was stored last, `fork()`
copies it, nothing else changes it. `Pset` instantiates it with
`mem[s] = Value(s)`: what is in the frame of a valid slot, else in the swap block, else
what the file had; a set with no references is gone. `MemoryKept` is `Mem!Spec`.

**Swap.** In the kernel, `pend` and `leaked` are the blocks used, and freed, before there is
a server, `psema` and `waitq` the portref's semaphore and `swap_wait`; in the
server, `devs`, `spend` and `map` are `swapmap`, its own count and the resource map.
`Alloc`, `AllocAccounted` and `Allocated` are `alloc_swap()` around its two messages (the
first accounts for the blocks used before), `AllocRefused` and `AllocAgain` its loop;
`Free` and `Freed` are `free_swap()`; `ServeAlloc` and `ServeFree` are one request each. `FreeFile` is
`free_swap()` as `free_pset()` calls it for the page set of a mapped file, from block 0 on, and `ServeFile`
what comes of it: the assertion in `rmap_free()` (section 4).
`Rmap` has `rmap_alloc()` as `RmapIndex` (what it returns) and `RmapTake` (what it leaves), and
`rmap_free()` as `RmapFree`.

## 3. The runs

| run | instance | distinct states | question |
|---|---|---|---|
| `sema` | 3 threads, one unit, released by its holder or by anyone, events, `vall_sema()` | 91 thousand | is a semaphore a fair mutex and a right event counter, whatever is interrupted? |
| `msg` | 2 clients, up to 2 server threads, 2 portrefs, in five settings | 308 thousand | do interruption, abort, reply, connection and port closing cross safely, and does every call end? |
| `exit_family` | 3 processes, 2 threads each of which 1 waits, events | 5 thousand | is each exit reported once, and does the parent wake? |
| `event` | 3 threads in 2 or 3 processes, in five settings | 119 thousand | is no event overwritten, no gone thread signalled, and does a sender get through? |
| `sched` | 3 threads in 2 processes, time slice 3, in three settings | 183 thousand | is no ready thread lost, and is each served? |
| `pset` | 3 threads, 5 sets, up to 3 frames, 2 stores, in seven settings | 213 thousand | is no page lost, used twice or stale, and does memory keep what was stored, and is nobody left asleep? |
| `swap` | 3 threads, up to 5 blocks, in three settings | 264 thousand | has no block two owners, and does nobody sleep beside free space? |
| `msg_conn_lost`, `exit_asleep`, `event_exit`, `pset_fork`, `swap_file` | the smallest that shows it | | see section 4 |

*Why these bounds.* A semaphore distinguishes its head, its other sleepers
and the caller: three threads. A message protocol needs a client in a call, a
second that waits for or destroys the same connection, and a server; the races
with the server's own side need two of its threads. Two portrefs let one be
freed and reused while the other lives. Three processes make a grandparent,
parent and child, so that a group can outlive its owner and a child can be a
parent; also two children of one parent, so that two statuses wait at once. Two
senders and a target make one sender wait for the other's event. The scheduler's
rings differ in how many nodes they have, none, one or more, and three threads make
a ring lose its first, its last and its middle node; `RunTicks = 3` has ticks above and
not above the half, `MaxOink = 1` threads that may and may not come back early. Page sets
need a master, two copies, and two processes; with one or two frames the pool is empty
again and again; two stores tell the last from the one before. Swap needs a sleeper, one
who frees, and one who comes in between; a map of four blocks has
every way two runs can abut, a map of 2 slots is full with two runs.
`CountCap` bounds the units of an event counter. `SvCap` stops the count of
`p_svwait`, which the code lets grow with every reply and clears before it is
waited for. `MaxStores` bounds the stores, `chunks` the chunks of swap
space a thread has. Processes are not reused: pids do not recur within a run.

*Settings.* `msg`: requests on a shared portref with events at every sleep, answered by
one server thread or two; requests held by the server; connections that come and go;
a server that closes its port. `event`: two senders at a third process; threads that
signal each other, one thread or their group, and exit; a group of one's own; two that signal
each other and themselves; a thread that is being created. `sched`: threads that fork and
exit; threads that fork and share the CPU; priorities. `pset`: copies of a file
under the page daemon (`Stealing`); anonymous memory and swap (`Swapping`); the file's own
reader beside a copy, with swap (`Pushing`); `fork()`; exits in any order; two threads of a
process; exits with page tables (`Leaving`). `swap`: two devices and one or two pages at
a time; single pages with the map full; the page set of a mapped file that is freed while others swap.

*Properties*, beside one `TypeOK` per module. Semaphores: `UnitsConserved`,
`WokenHolds`, `MutualExclusion`, `NoOvertaking`, `SleepEnds`. Messages: `NoPanic` (none of the
`ASSERT`s fails), `MessagesAllocated` (a message queued, or being read by `msg_receive()`, is
not freed), `Answerable` (what the server owes can be answered), `ReplyIsMine`,
`PortAlive`, `WaitCountsQueue`, `CallEnds`. `MessagesAllocated` looks at messages received in turn: with
two server threads, an abort can overtake its request, and then the request's
sysmsg is read after its sender went on (see section 4). Exit
groups: `RefsCount`, `NoPanic`, `ReportedOnce`, `NoChildTrue` ("no children" is
said only when it is so), `UnitsCountStat`, `ExitWakes`. Events: `EvqHandedOn` (a
`t_evq` is held for one event at a time until that is delivered, and passes to the next sender),
`TargetsLinked` (who is about to be signalled is on its process's list), `NotifyEnds`.
Scheduler: `RunnableQueued`, `Counts`, `PreemptPending`, `Served`. Page sets: `NoPanic`,
`SleepersWanted` (whoever sleeps for a slot lock or a page is going to be woken), `FramesOwned`,
`MapsCurrent` (no translation leads to a page that was stolen or copied), `RefsCount`, `MemoryKept`. Swap: `BlocksOwned`, `SleeperNoRoom`.

*Fairness.* Only what the scheduler, the devices and the documented duty of processes give.

* A runnable thread gets the CPU: weak fairness of a thread's steps inside the
  kernel (`Return` in `Sema`, `ClientStep` and `ServerStep` in `Msg`, `ExitStep` and
  `ThreadStep` in `ExitGrp`, `Step` in `Event`). That it does is what `Served`
  shows for `Sched`.
* A holder of a mutex releases it (every `p_sema` on a mutex in the
  kernel has its `v_sema`): weak fairness of `V` by a holder. A server goes
  on receiving and answers what it received: weak fairness of `Receive` and
  `ServerAnswer`.
* In `Sched`: a preempted thread returns to user level, an exit ends, the idle loop
  and `swtch()` go on (weak). The clock ticks again and again (strong: its
  interrupt stays pending while interrupts are off, so it is taken whenever they come on).
  `random()` does not pass over the same thread for ever (strong fairness of `Pick(t)`).
* Nothing of `Pset`, which has no liveness property. That each fault ends is not something the code gives: a thread that
  waits for a page is woken and looks at the free list again (`vm_page.c:63`), and a newcomer may have
  taken the page each time, although the comment above (`:57-62`) speaks of a FIFO queue. What the code does give is
  `SleepersWanted`: nobody stays asleep while a page is free, unless as many others are awake and about to
  look, nor while a slot is unlocked, nor while its holder would not wake them.
* Nothing is assumed of calls that user code may make or leave
  (`msg_send`, `clone`, `fork`, `waits`, `notify`, closing a port, sleeping, exit, faults), nor of events.
  `Swap` has no liveness property: that swap space is freed is up to processes.

*Deadlock* is not checked, because in each run some setting may really stop: an
event counter everyone waits for until somebody outside releases; clients that are all
disconnected; a closed port; processes that all exited; a machine out of memory or
swap space. That no one is stuck who should not be is what `SleepEnds`,
`CallEnds`, `ExitWakes`, `NotifyEnds`, `Served`, `SleepersWanted` and `SleeperNoRoom` say.

Each property of each passing run has a mutant in the module: an action changed
as a plausible mistake in the code would change it, under which the property fails.

## 4. Disagreements found

Five runs end in a counterexample to what the repository says of itself.

* `exit_asleep` / `SleeperHasChild`. A child posts its status (`proc.c:616`) before
  it drops its reference (`:617`). A parent that takes the status and calls
  `waits()` again in between finds two references and no status, and sleeps
  with no child left; "There are no children; return NULL without
  sleeping" (`exitgrp.c:197`).
* `msg_conn_lost` / `CallEnds`. Queued messages are bounced only while there is
  a connection (`msgcon.c:594`); a queued `M_CONNECT` alone is dropped with the port and its
  sender sleeps for ever.
* `event_exit` / `WaitersLetThrough`. `do_exit()` means to "Let through anybody waiting to
  signal" (`proc.c:592`), but first asks for `p_sema` (`:571`), which a sender asleep on
  this thread's `t_evq` holds (`event.c:53`). Neither goes on, nor does anybody who looks the process up.
* `pset_fork` / `MemoryKept`. `copy_page()` makes the child's copy of a page valid and not
  modified (`pset.c:442`), with nothing behind it. The page daemon takes it for clean and
  frees it (`vm_steal.c:276-282`); the child then reads zeroes.
* `swap_file` / `FreesNotZero`. `free_pset()` gives back the swap space of every set that is not `PT_MEM` (`pset.c:90`),
  that of a mapped file included, which has none: its `p_swapblk` is 0 as `alloc_pset()` cleared it (`alloc_pset_fod()`,
  `pset.c:392-405`, does not set it). So the server is told to free the blocks from 0 on, and `rmap_free()` asserts that a block is not 0
  ("you can't store index 0", `rmap.c:33`; "rmap_free: zero off", `:85`). The C library is built with `-DDEBUG`
  (`src/src/libc/makefile:6`): the server aborts, and the kernel's "free_swap: send failed" (`vm_swap.c:319`) with it. Without
  `-DDEBUG` the blocks 0 to `p_len - 1` would become free while others use them. It takes a file's last
  reference to go while there is a swap server: `mmap.c:255`, `:368`, `:451`. `copy_pset()` leaves `p_swapblk` of a file's
  copy unset (`pset.c:533-582`), but nobody copies one: `fork_vas()` copies writable private views
  only, and those of a file set are read-only.

One disagreement with a comment is not a run of its own. `event.c:12-15` says that a sender sleeps "until the target process has
accepted a current event and (if he has a handler registered) returned from the handler"; `check_events()`
releases `t_evq` as soon as `sendev()` has built the handler's frame (`event.c:288-289`, `trap.c:587-611`), so the next event may interrupt
the handler. `Event` models what the code does (`CheckProc`, `Delivered`), and `EvqHandedOn` claims no
more than that: the slot is free again while the handler runs.

Others were met and are stated as properties of the modules, or as settings of the MC
modules, that no run uses. All can be seen by putting them in a cfg.

| where | what | stated as |
|---|---|---|
| `msgcon.c:598` | `shut_server()` takes the head of the ring out of the hash on every round, and a round may bounce other clients' messages only: "pr not hashed" | `ShutHashed` |
| `msgcon.c:449` | a client that waits for its abort to be confirmed is let go by the closing port as if it had been | `AbortConfirmed` |
| `doc/man/2/msg_disc.2:29` | a request received and not answered when the port closes returns its own argument as a success | `ErrorOnShut` |
| `mutex.c:246` | `vall_sema()` leaves a unit when the queue empties after its look; its comment knows | `VallLeavesNoUnit` |
| `proc.c:541` | a process found by `pfind()` is freed while the finder is on its way to `p_sema` (`event.c:21`) | `ProcKept` |
| `event.c:348` | a group is freed with a thread asleep on its `pg_sema` | `GroupKept` |
| `proc.c:361` | an event for a thread that is linked and not yet started: "zero wchan" (`mutex.c:363`) | `NoPanic` of `Event` |
| `exitgrp.c:212` | two waiting threads: one takes the status the other was woken for | `NoPanic` of `ExitGrp`, 2 in `Waiter` |
| `hat.c:155` | a page table page comes without a `c_pset` of its own: the page daemon finds that of the frame's last use | `CorePointsBack`, `EnvsTables` |
| `swap.c:73` | a device is added while threads sleep for swap space: nobody is told | `SleeperNoRoom`, `EnvsLate` |
| `vm_swap.c:317` | blocks freed before the first allocation after boot go into the map before the device they are on: it is no longer in order (`rmap.c:9`), and free space is not put together | `TypeOK`, `EnvsBoot` |
| `port.c:288` | the port closes while an `M_DUP` waits: `close_client()` wakes `kernmsg_send()` with `m_arg` as it was, `clone()` succeeds and the copy points to the freed port | `PortAlive`, a setting with `clone` and `shut` |
| `pset.c:42` | the last reference to a set goes while its page is on its way to swap: "locks > 0" | `NoPanic` of `Pset`, exits with swap |
| `pset.c:66` | `free_pset()` sees that a slot shares the master's page, then waits for the master's lock; `steal_master()`, which has it, takes that share back meanwhile (`vm_steal.c:154`): it is dropped twice | `RefsCount`, `Stealing` with exits |
| `pset.c:472` | `dup_slots()` leaves the slot of a shared page locked: the parent's next fault waits for ever: it sleeps on a lock it holds itself | a setting of `Pset` with a copy on write that forks (`Dupd`, then `Fault`) |
| `proc.c:328` | threads that fork and exit in turn keep the CPU: the child has what is left of the parent's ticks, and so has the parent | `Served` with exits |

Read and not modelled as a choice: `msg.c:606` and `:637`, the sysmsg is read after its sender may have
gone on; `msg.c:723`, the client of an `M_DUP` is woken before the hash knows the copy;
`sched.c:97-105`, on more than one
CPU, a `continue` that does not advance; `pset.c:533`, `copy_pset()` leaves `p_cowsets`
unset (taken as zero); `vm_fault.c:157`, a second thread's translation clears the modified bit
of the first; `pset.c:335`, `iodone_unlock()` does not look at errors; `pset_cow.c:50`, an offset in
pages used as bytes: the server refuses it (`rw.c:31`), so `FillFails` is all that reading back a page of a copy-on-write set
does in the model, unless the offset happens to be a multiple of the page size, and then another block is read; `rmap.c:132`, a map is taken for full one entry too late; `swap.c:168`,
`SWAP_ADD` with a length adds no blocks (`swap.h:32` says how many).

The passing runs stay on instances without these triggers: no port that closes
under connects, one server thread where clones are made, one waiting
thread per process, events to threads that exit only when nobody waits for them, no exits where a set may
be on its way to swap, no page daemon in the settings with `fork()`, devices added
while nobody sleeps.

## 5. The proofs

TLAPS checks them for every value of the constants that meets the named
assumptions of the modules.

**Semaphores** (`SemaProofs`; any set of threads, any initial count and cap, both
disciplines): `TypeCorrect`, `CountCorrect`, `QueueCorrect`, `Conservation`,
`WokenOwns`, `Mutex`, and the action property `FirstComeFirstServed`. `CountOK` alone
is not inductive: that `dq_sema()` keeps it needs the thread to be *in* the queue,
which is `QueueOK`; that a thread put to sleep is not on the queue already needs
`QueueOK` too; mutual exclusion needs that a free mutex has no holder
(`FreeIffNoHolder`) and that nobody calls `vall_sema()` on a mutex. `IInv` is their
conjunction; each operation of `SemaOps` has a lemma on how it
changes count, queue and sleepers, and each action one that cites it.

*The lemmas on semaphores* (`SemaOpsProofs`) are stated for any semaphore, and the other proofs
cite them. They come in two layers. `SleptOn(s, T, L)`: the count is right and the threads asleep on `s` are
exactly `L`, each once; `SleptAsk`, `SleptGive` and `SleptLeave` say what `p_sema()`,
`v_sema()` and `dq_sema()` make of `L`. `HeldBy(s, T, L, I)`: besides, `s` is a mutex and `I`, empty
or one thread, has it; `HeldAsk`, `HeldGive` and `HeldLeave` are the same for it. A proof about a
model only shows that `L` and `I` are the threads at certain `pc`s.

**Exit groups** (`ExitProofs`; any finite set of processes, any threads):
`RefsCorrect` and `GroupAssertions`. `RefsCount` is not inductive, because a
dereference is safe only if the process that makes it still counts. The
invariant `RInv` adds `Shape` (the structure of the variables) and `Family` (a group has
its parent exactly until `noparent_exitgrp()`, has no statuses afterwards, and nobody is a
child of a process that has not started). The argument for a dereference: the process that makes it is in
`Attending` or `Children` of the group, so `refs > 0`; it leaves that set in the same
step, so the cardinality falls by one; `refs = 1` then means nobody is left, and
the owner, gone before, emptied the list and detached the group.

**Reports** (`ExitProofs`; as before, and any number of waiting threads):
`EveryExitReportedOnce` and `NoChildIsTrue`. `RepInv` says that the list of a group has
no repetitions and only children that posted, and that `waits()` returned exactly the
posted statuses that are not on the list. "No children" is then a consequence of the two
invariants together: one reference means, by `RInv`, that no child holds one, so each is
gone; an empty list means, by `RepInv`, that each was returned.

**waits()** (`ExitProofs`; assumption `OneWaiter`: at most one thread of
a process calls `waits()`): `NoAssertionFails`, `UnitsCorrect`, `ExitTypeCorrect`. `WaitInv`
adds, for each group that still has its owner, that list and `e_sema` are in
step but for the one thread inside `waits()`: nobody inside, the units are as many
as the statuses; taker before `p_sema`, one unit too many; asleep, no status and
one sleeper; woken, one status more than units. `OneWaiter` is needed: with two
waiting threads, one can take the status the other was woken for, and
`wait_exitgrp: stat out of synch` fails (TLC finds it).

**Messages** (`MsgProofs`; any clients, any server threads, any finite set of portrefs, any settings, those
of section 4 included; assumptions `RefAssumption`, `ThreadAssumption`, `EnvAssumption`, `FiniteAssumption`): `TypeCorrect`,
`WaitCounts` (`WaitCountsQueue`), `OneUserAtATime` and `Invariant`. `OneUserAtATime`, that `p_sema` of a portref
serializes every call on it, is what `msg_send()` relies on when it reads `p_state` and `p_msg`. It is not
inductive: a portref is freed by a disconnect and may be allocated again, with a new semaphore, so one also needs
that whoever frees it is its last user. `IInv` has a part for each of these:

* `Locked`: `HeldBy` of each `p_sema`, the clients that ask (`Askers`) and the one that has the portref (`Holders`).
* `Owned`: nobody uses a free portref; a new one is used by the client that connects or clones only; and a client that
  disconnects took the descriptor away before it queued for `p_sema`, so nobody queues behind it. That is why the last in the queue
  is the one that frees the portref (`LastStays`, `LastAfter`).
* `Waiting`: `SleptOn` of each `p_iowait`; `Replied`: at most one thread sleeps on `p_svwait`, no thread on two of them, and the
  client that will let it go has the portref or has a unit of `p_iowait` to find; `Stated`: how `p_state` and sleepers go together.
* `PortLocked`, `Closing`, `WaitCountsQueue`: the server's side; at most one thread is between the port's `p_sema` and the queue, so
  the cardinality in `WaitCountsQueue` is 0 or 1.

The steps fall into few kinds, each with one lemma: a client that has the portref (`HolderActs`), one that has a portref for itself
(`OwnKeeps`, `OwnTurnKeeps`), one that takes or gives `p_sema` (`LockKeeps`), one that begins a call (`BeginsKeeps`), and a server thread that
leaves the clients alone (`ServesKeeps`). An action's lemma says which kind it is. `IInv` says nothing about who answers what: with two server threads, or a port that
closes, several of those properties fail (section 4), while `IInv` goes on to hold.

With one server thread (`env.servers = {s}`), as long as the port is open or if the server never closes it, any number of clients, portrefs and events:
`NeverPanics` (`NoPanic`), `MessagesStay` (`MessagesAllocated`), `CanAnswer` (`Answerable`) and `AnswersMine` (`ReplyIsMine`). The theorems
say so inside the box, `Spec => [](OneServerOpen => ...)`, as the setting is a part of the state (`CanAnswer` with `OneServer`: the property speaks of open ports only). None of the four is inductive; `TurnInv`, on top of
`IInv`, is (`TurnHolds`). The messages not answered are those queued, the one in the server's hands, and those it owes (`Open`); the parts of `Turn` are:

* `Awaited`: who sent an open message waits for its answer, in the call and with the portref it is from. This is why the sysmsg is not freed.
* `Lined`: of one client at most one message is open, and behind a request its `M_ABORT`, in this order. This is what two
  server threads break: the abort is served before the request is known.
* `Agreed`: `p_state` and `p_msg` are those of the call the client is in; a unit of `p_iowait` is left only by an answer that came before the
  abort, and the interrupted client will take it. Without it, `p_sema(p_iowait)` of the next request would not sleep.
* `Placed`, `Joining`, `Hashed`: the port's ring and the server's hash have each connected portref, and of one that is being connected, cloned or
  disconnected what the message about it leaves them. From this follows that `deref_port()` finds what it unlinks, and `msg_reply()` the handle.

A client's step concerns its own portref (`ActorTurn`; `SenderTurn` if it sends, `GoesTurn` and `PostsTurn` for the one that has the portref), a server's
step the sender of one message (`LetsGoTurn`) or the ring and hash at one place (`HashMoves`); that the clients left alone keep `Agrees` needs `OneUserAtATime`.
Closing the port ends all this: a request that was received and not answered then returns its own argument (section 4), so the theorems stop where the port is closed.

**Events** (`EventProofs`; any finite sets of processes and threads, any settings; assumptions
`EnvAssumption`, `FiniteAssumption`: the kernel's lists are finite): `TypeCorrect`, `HandedOn`
(`EvqHandedOn`), `TargetsThere` (`TargetsLinked`), `NoLostThread` and `Invariant`. None of the properties is
inductive. That nobody signals a thread that is not on the list needs that the list changes only
under `p_sema`, that is, that `p_sema` is a mutex (`PsMutex`: `HeldBy` of each process, the
threads at the `pc`s `PsWait` and `PsHave` that name it), and that the list is exactly the living
threads of the process, each once (`Linked`). That `t_evq` is handed on (`EvOwned`) needs to know
who sleeps on it: the senders whose next target is that thread (`EvQueue`), and that a thread that
`fork_thread()` creates with a fresh `t_evq` has no sender aiming at it yet, which is `Linked` again.
`Forking` says that a thread links one new thread at a time. A step changes its own thread and wakes at
most one other per semaphore: `Passes` and `Rest` say how little that is, and the lemmas `...Kept`,
`...Stay` and `...Moves` derive from it, once for all actions, what remains true; an action's lemma then
only names the part of `IInv` it works on. `pg_sema` is not a mutex in the proof: `leave_pgrp()`
frees the group as it is, taken.

**Scheduler** (`SchedProofs`; any finite set of threads, any processes, any
time slice and settings; assumptions `NodeAssumption`, `TickAssumption`,
`EnvAssumption`): `TypeCorrect`, `ReadyIsQueued`, `CountsAgree`, `PreemptNeverLost`,
`PickRunFinds`. What a chain of pointers leads to is usually defined by recursion, which is out of
reach here. `Ring` is therefore the nodes that every set closed under `s_hd` with the first
node in it contains, and `RingFirst`, `RingLeast`, `RingIs` and `RingFrame` are all the proofs ask of it.
`RunnableQueued` is not inductive: that unlinking a node leaves exactly the others needs the
rings to be doubly linked (`Round`). On top of it, in three layers: what `queue()` and
`dequeue()` do to the list they are called on (`QueueOn`, `DequeueOff`, `Alone`) and that
they leave the other lists as they are (`QueueOther`, `DequeueOther`); what they do to the run queue as a
whole, lists, places and counts (`QueueOf`, with one lemma for joining and leaving each kind
of list); and the steps. `IInv` is `TypeOK`, `QueueOf` for the threads that are ready
and the processes that live, `num_run` as a cardinality, one thread `onproc` exactly when the CPU
runs it, and `PreemptPending`.

**Page sets** (`PsetProofs`; any threads, any finite sets of copies and frames, any anonymous sets and
number of stores; assumptions `EnvAssumption`, `SetAssumption`, `FiniteAssumption`, and `Sound` for every setting): `TypeCorrect`,
`NoFrameTwice` (`FramesOwned`: each page frame is on the free list once, or in one slot, one page
table or one hand) and `Invariant`. `Sound` says that a process exits with one thread left; that `fork()`
makes a copy of the same kind, by one thread, with a process in it; and that the page daemon
does not come to page table pages. All settings of `EnvsPass` and `EnvsFork` satisfy it; `EnvsTables` does not,
and there `hat.c:155` bites (section 4). `FramesOwned` is not inductive: that a slot gives back a frame
that is its own, once, needs to know who may be at the slot and what he found there. The parts of `IInv`:

* `Locked`, `Counted`, `Asleep`: whoever is at a slot has its lock and has it alone (`Has`, the page daemon, the output of the
  page), `p_locks` counts at least those that have it or wait, and the sleepers on each
  `p_lockwait` and on `mem_sema` are who they should be (`SleptOn`). "At least", because the lock that `dup_slots()` leaves (`pset.c:472`) counts for ever.
* `Placed`: what a thread's variables are at each `pc`.
* `Referred`, `Listed`: `p_refs` is the cardinality of `Referrers` (views, a `fork()` under way, the copies over the file), so a set
  that is dismantled has no user left, and a copy is on the file's list from its first view to `free_pset()`.
* `Slots`: what a thread found at its slot when it locked it still holds: the slot it fills is not valid, the one it copies is still shared.
* `Framed`: `EachOnce` of all owners, as one function, and the free list; `TakeOnce`, `PutOnce` and `MoveOnce` are the three
  ways a frame goes from one to another, and every action is one of them or leaves the owners alone.
* `Pointed`: the core entry of a frame leads to the slot the frame is in. The page daemon starts at a frame and frees that of the slot
  the entry leads to: without this it would free another one.

A step of a thread in the kernel does its work or fails an assertion and changes nothing else (`KernelIs`, `PanicOnly`).
An action's lemma cites one lemma for each thing it does: ask for a slot lock or give it up (`AskedStep`, `LoosedStep`), free a frame (`FreedStep`),
write its own slot (`StepSlot`), change references (`StepRefs`), be the daemon (`DaemonWakes`). `IInv` holds in settings where `NoPanic`, `RefsCount` and `MapsCurrent`
fail: exits under the page daemon drop a share of the master twice (section 4), and still lose no frame.

Where no process exits under the page daemon (`Apart`; that is what `pset.c:66` needs, and all settings of `EnvsPass` and `EnvsFork`
satisfy it), `RefsCounted` and `MapsRight` prove `RefsCount` and `MapsCurrent`. Both speak of slots that are not locked, and are not
inductive: what a slot's references and its translation are while somebody is at it is what `RInv` says.

* `Exact`, `Empty`: the references of any slot are its translations, the one that the thread at the slot is about to enter (`Flight`), and
  the copies that share its page (`Sharers`); a slot that is not valid has none.
* `Mapped`: a translation leads to the slot's frame, except while the thread at the slot is about to write it anew (`Remapped`).
* `Sharing`: a slot that shares is of a set that is on the file's list, and has the file's frame.
* `Ended`: a set that is dismantled has no translation left, and gives up its share once. This is the part that fails under `Stealing` with exits:
  the page daemon takes the share back between the look at `PSF_COW` and the lock.

Each action is either one that leaves the slots alone (`CalmStep`) or has a lemma (`FillRefs`, `ShareRefs`, `StealRefs`, ...) that says
what it does to references, translations and sharers.

**Resource maps** (`SwapProofs`; any map that is in order, of any length and any
size): `FreeAddsBlocks`, `TakeRemovesBlocks` and `RefusedMeansNoRun`: what `rmap_alloc()` and
`rmap_free()` do to the set of free blocks, that they keep the map in order with no two
entries that abut, and that a refusal means there is no run of free blocks long enough. There is no
induction over the map in it: the least index where the scans end exists because the
naturals are well-founded (`MinIs`), the rest is said entry by entry, with one lemma for each
way the array changes (`Removed`, `Changed`, `Inserted`, `Joined`). That a run of free blocks lies in one entry
(`Apart` and `InBlocks`) is what entries that do not abut are for.

**Swap** (`SwapProofs`; any threads, any devices and map size, any numbers of pages asked for;
assumption `Sound`, for every setting: the first request to a new server is not to free blocks, no
device is added while a thread sleeps for swap space, and the map has a slot): `TypeCorrect`,
`NoBlockTwice` (the part `BlocksApart` of the property `BlocksOwned`), `NobodySleepsBesideRoom` and
`BlocksStay` (`BlocksOwned`: also, no block is forgotten). The settings may have threads that free page sets of mapped files (`files`): the
system then stops at the assertion of `rmap_free()` before the map is touched (`FreeFileKept`, `StopKept`), so the theorems say
that no block is given away twice up to there, and not that the free is harmless (section 4). The first two parts of `Sound` are needed: `EnvsBoot` and `EnvsLate` (section 4) are what fails without them.
`BlocksApart` is not inductive. Until the first allocation with a server has been answered, the
blocks in use are not known to the server, and what keeps them apart from those it will hand out
is that it has handed out none: `Untouched(n)` says that the first `n` blocks hold all that is in
use, and that the server, with a device or without, would give just those (`FirstFit`: a run that
starts at the lowest block is the first fit). That holds of `pend` (`Boot`) and, when the kernel
has reset `pend` and the request is under way, of the thread that made it (`Accounting`), while
everybody else is kept out by `psema` (`HeldBy`, `OneInside`). After it, `Settled`: blocks in use
are apart from each other, from the free ones, and below the end of the last device, so that a new
device is apart from all. Steps of the kernel are one lemma (`KernelStep`) once it is known
that they leave the server alone, that blocks only change hands (`ClaimsKept`), and that other threads
move only from one queue on (`MayMove`). For the sleepers the argument is `RefusedMeansNoRun`
when one is refused, and the thread whose free is being answered when blocks come back: it is the
witness until it wakes all, and nobody can sleep in between, as it still has `psema`.

That no block is forgotten is said of sets: `GivenUp` is what the server has to account for
(`Managed`) and is neither free nor in use, and its size is `lost`, the count of what did not fit the
map. The invariant `Kept`, on top of `IInv`, adds that what is in use lies on a device once all is accounted
for; that the blocks from 1 to `pend`, or to what the first request asks for, are all in use
(`Started`), for the server hands out exactly these when it accounts for them; and that two devices
do not touch (`Spaced`). Steps of the kernel keep each block in use (`UseMoves`: what a thread has,
on hand or on the way, is what it had; the other threads keep theirs, `OthersKeep`), so they give up
none (`QuietStep`); an answer of the server moves blocks between free and in use
(`AnswerUse`, `KeptSame`), but where `rmap_free()` drops them, and these are counted (`MoreGivenUp`). A chunk
lies on one device (`OneDevice`) without induction: if it did not, it would hold the block
after the device it starts on, and that one is on no device.

**Only model-checked.** Of `Msg`: `PortAlive`, which fails with clones on a port that is closed, and `NoPanic`, `MessagesAllocated`, `Answerable`
and `ReplyIsMine` where the port is closed, or with two server threads; `NoPanic` and the refinement of `Memory` of `Pset`; `SleepersWanted`; liveness (`SleepEnds`, `CallEnds`, `ExitWakes`, `NotifyEnds`, `Served`:
liveness under fairness and `ENABLED` are beyond the prover);
and what fails. What a recursive definition computes cannot be proved
here either (induction over data), and a module that declares a `RECURSIVE` operator cannot
be proved about at all; none of the modules here has one.

## 6. What is not modelled

Within the modelled components: segments' contents and their mapping; `M_ISR`;
`fork_ports()` and the descriptor table `p_open[]` as a table (a slot is one
flag of the portref); several ports; names (`msg_portname`). In `ExitGrp`, `Msg` and `Sema`, events
appear as an interruption that can come at any sleep that allows it; how they are sent is
`Event`. In `Event`, the growth of a group's list of members. In `Sched`, registers and stacks, the
`s_refs` nothing reads, and more than one CPU. In `Pset`, sets over physical memory, more
than one page and view per set, page locks, mapping arithmetic, `PP_BAD`, the wait
for an I/O element, how fast the hands go round. In `Swap`, page I/O itself, parts of a
device, the server's connections and its statistics.

Other components: see the notes in `PROJECT.json`. Device servers and the on-disk
file systems depend on hardware or formats more than on interleavings; traps,
boot, the debugger and user commands have no concurrency of their own;
`src/src/**/rcs` are histories, `src/src/bin`, `lib` and parts of `libc` are built
or imported. By lines, most of the repository is of these kinds.

Smaller hazards met while reading (`PROJECT.json` lists the
larger ones): an event to one thread is delivered and still answered with `ESRCH`
(`event.c:184`); an event that arrives just before a thread sleeps is not seen (`mutex.c:162`);
a message is lost when mapping its segments fails (`msg.c:617`); `fork_ports()` takes
two semaphores in the order others do not (`port.c:318`) and looks into a reserved slot (`:314`);
`time_get()` can return 1000000 microseconds (`xclock.c:240`) and the
alarm races with events (`xclock.c:324`); interrupts against `msg_receive()` (`isr.c:222`);
a queued request to a port that is gone leaks its segment (`qio.c:72`), and the pool of
elements can run dry in the page daemon (`qio.c:198`); page locks (`vm_page.c:228`); the device is read
unlocked (`vm_swap.c:157`); frames freed while the page daemon
holds a stale `c_pset` (`pset.c:84`); the signed bound of `refill_pids()` (`proc.c:199`);
the swap server going on after it refused (`swap.c:245`), its statistic of free
blocks that does not know the pending ones; the pipe's
reader count after the last reader left (`pipe/open.c:247`) and its queued readers (`pipe/rw.c:36`); node
references of the name server (`namer/open.c:194`).

## 7. Plan

In this order.

1. *Proofs.* Of `Pset`, without exits under the page daemon: `NoPanic`, then its refinement of
   `Memory`: initial states and steps map. Of `Msg`, for one server
   thread: what of `TurnInv` remains while the port is closed.
2. *Abstract specifications.* `CallSpec`: a client calls and gets its answer, an
   error or an interruption, once; `Msg` implements it. `WaitSpec`: a parent gets
   each exit of a child once, or leaves; `ExitGrp` implements it.
3. `Qio`, under `Pset`: the pool of I/O elements, errors, the daemon that needs one.
   2 pages, 1 element.
4. `Sleep` (3 alarms, events racing with them), `Isr` with `Msg`'s queue, `Pids`,
   `fork_ports()` with a table of 2 slots, segments as a refinement of `Msg`.
5. `Kmalloc`; servers over an abstract message layer: `Pipe`, `Namer`, `Env`.
   Algorithms against reference definitions: `perm_calc`.

Later modules keep to the form of these: constants with named assumptions, one action
per locked section, settings instead of more runs, recursion only as recursive functions or folds where proofs follow.
