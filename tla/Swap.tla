-------------------------------- MODULE Swap --------------------------------
(***************************************************************************)
(* Swap space: alloc_swap(), free_swap() and set_swapdev() of the kernel   *)
(* (src/src/os/kern/vm_swap.c) and the swap server they call               *)
(* (src/src/srv/swap/swap.c) with its resource map.                        *)
(*                                                                         *)
(* Blocks used before there is a server are numbered from 1 and only       *)
(* counted; the first allocation after that accounts for them.  A step is  *)
(* what a thread does in the kernel until it sleeps (the kernel is not     *)
(* preempted, src/src/os/mach/trap.c:656), or one request the server works *)
(* on.                                                                     *)
(***************************************************************************)
EXTENDS SemaOps, FiniteSets, Rmap

CONSTANTS
    Thread,    \* the threads that make and free page sets
    Envs       \* the settings to look at, see Env

(* lens:   the sizes of the swap devices, in the order they are added       *)
(* asks:   the numbers of pages asked for                                   *)
(* chunks: bound on the chunks of swap space of one thread                  *)
(* slots:  the size of the resource map, its header included (NMAPELEM)     *)
(* free1st: may the first request to a new server be to free blocks?        *)
(* late:   may devices be added when threads sleep for swap space?          *)
(* files:  the sizes of the page sets of mapped files that are freed        *)
Env == [lens : Seq(Nat), asks : SUBSET Nat, chunks : Nat, slots : Nat,
        free1st : BOOLEAN, late : BOOLEAN, files : SUBSET Nat]

ASSUME EnvAssumption == /\ Envs \subseteq Env
                        /\ \A e \in Envs : 0 \notin e.asks \cup e.files

VARIABLES
    env,       \* the setting
    swapdev,   \* the kernel has the portref of the server
    pend,      \* swap_pending of the kernel
    leaked,    \* blocks freed while there was no server (swap_leaked)
    psema,     \* p_sema of swapdev
    waitq,     \* swap_wait
    th,        \* what each thread does
    own,       \* the chunks of swap space each thread has
    devs,      \* swapmap: the devices
    spend,     \* swap_pending of the server
    map,       \* smap, the free blocks
    lost,      \* lost_elems: space the map had no room for
    panic      \* the assertion that failed, "none" while none has

server == <<devs, spend, map, lost>>
vars   == <<env, swapdev, pend, leaked, psema, waitq, th, own, devs, spend, map,
            lost, panic>>

(* pc "lock": asleep on psema; "send": given it; "io": asleep until the      *)
(* server answers; "back": answered; "wait": asleep on swap_wait; "again":   *)
(* woken from there.  outer is the call of alloc_swap() that called itself   *)
(* for the blocks used so far; res is the answer.                            *)
Idle == [pc |-> "idle", op |-> "none", off |-> 0, n |-> 0, outer |-> 0, res |-> 0]

Init ==
    /\ env \in Envs
    /\ swapdev = FALSE /\ pend = 0 /\ leaked = {}
    /\ psema = NewSema(1) /\ waitq = NewSema(0)
    /\ th = [t \in Thread |-> Idle]
    /\ own = [t \in Thread |-> {}]
    /\ devs = <<>> /\ spend = 0 /\ map = <<>> /\ lost = 0
    /\ panic = "none"

At(t, where) == panic = "none" /\ th[t].pc = where
Chunk(off, n) == Entry(off, n)
NoDevice == devs = <<>>

(* The administrator's part: the first device holds what was used so far.   *)
RoomAtBoot(n) == pend + spend + n < Head(env.lens)

(* p_sema(&swapdev->p_sema) and, if it is free, kernmsg_send() up to its     *)
(* sleep on p_iowait.                                                        *)
Ask(f, s, t) ==
    /\ psema' = PSema(s, t)
    /\ th' = [f EXCEPT ![t].pc = IF PSleeps(s) THEN "lock" ELSE "io"]

(* v_sema() of psema: the next thread has it. *)
Granted(f) == [t \in Thread |-> IF t \in VWakes(psema) THEN [f[t] EXCEPT !.pc = "send"]
                                ELSE f[t]]

-----------------------------------------------------------------------------
(* The kernel                                                               *)

(* alloc_swap() while there is no server: count. *)
AllocPending(t, n) ==
    /\ At(t, "idle") /\ ~ swapdev /\ RoomAtBoot(n)
    /\ pend' = pend + n
    /\ own' = [own EXCEPT ![t] = @ \cup {Chunk(pend + 1, n)}]
    /\ UNCHANGED <<env, swapdev, leaked, psema, waitq, th, server, panic>>

(* Mutant: what was used before the server came up is not accounted for. *)
AllocUnaccounted(t, n) ==
    /\ At(t, "idle") /\ swapdev
    /\ NoDevice => RoomAtBoot(n)
    /\ Ask([th EXCEPT ![t] = [Idle EXCEPT !.op = "alloc", !.n = n]], psema, t)
    /\ UNCHANGED <<env, swapdev, pend, leaked, waitq, own, server, panic>>

(* alloc_swap() with a server: first for the pending blocks, if any. *)
Alloc(t, n) ==
    /\ At(t, "idle") /\ swapdev
    /\ NoDevice => RoomAtBoot(n)
    /\ Ask([th EXCEPT ![t] = [Idle EXCEPT !.op = "alloc",
                                          !.n = IF pend > 0 THEN pend ELSE n,
                                          !.outer = IF pend > 0 THEN n ELSE 0]],
           psema, t)
    /\ pend' = 0
    /\ UNCHANGED <<env, swapdev, leaked, waitq, own, server, panic>>

(* The thread that was given psema sends its message. *)
Send(t) ==
    /\ At(t, "send")
    /\ th' = [th EXCEPT ![t].pc = "io"]
    /\ UNCHANGED <<env, swapdev, pend, leaked, psema, waitq, own, server, panic>>

(* The blocks used so far were to be those from 1; then the allocation that  *)
(* was asked for.                                                            *)
AllocAccounted(t) ==
    /\ At(t, "back") /\ th[t].op = "alloc" /\ th[t].res > 0 /\ th[t].outer > 0
    /\ panic' = IF th[t].res = 1 THEN "none" ELSE "alloc_swap: pend != 1"
    /\ Ask([Granted(th) EXCEPT ![t] = [@ EXCEPT !.n = th[t].outer, !.outer = 0]],
           VSema(psema), t)
    /\ UNCHANGED <<env, swapdev, pend, leaked, waitq, own, server>>

Allocated(t) ==
    /\ At(t, "back") /\ th[t].op = "alloc" /\ th[t].res > 0 /\ th[t].outer = 0
    /\ own' = [own EXCEPT ![t] = @ \cup {Chunk(th[t].res, th[t].n)}]
    /\ psema' = VSema(psema)
    /\ th' = [Granted(th) EXCEPT ![t] = Idle]
    /\ UNCHANGED <<env, swapdev, pend, leaked, waitq, server, panic>>

(* No room: sleep on swap_wait.  Nothing is between the look and the sleep. *)
AllocRefused(t) ==
    /\ At(t, "back") /\ th[t].op = "alloc" /\ th[t].res = 0
    /\ psema' = VSema(psema)
    /\ waitq' = PSema(waitq, t)
    /\ th' = [Granted(th) EXCEPT ![t].pc = "wait"]
    /\ UNCHANGED <<env, swapdev, pend, leaked, own, server, panic>>

AllocAgain(t) ==
    /\ At(t, "again")
    /\ Ask(th, psema, t)
    /\ UNCHANGED <<env, swapdev, pend, leaked, waitq, own, server, panic>>

(* free_swap() while there is no server: leak. *)
FreeLeaks(t, c) ==
    /\ At(t, "idle") /\ ~ swapdev /\ c \in own[t]
    /\ own' = [own EXCEPT ![t] = @ \ {c}]
    /\ leaked' = leaked \cup {c}
    /\ UNCHANGED <<env, swapdev, pend, psema, waitq, th, server, panic>>

(* free_swap() does not look at the pending blocks. *)
Free(t, c) ==
    /\ At(t, "idle") /\ swapdev /\ c \in own[t]
    /\ env.free1st \/ pend = 0
    /\ own' = [own EXCEPT ![t] = @ \ {c}]
    /\ Ask([th EXCEPT ![t] = [Idle EXCEPT !.op = "free", !.off = c.off, !.n = c.size]],
           psema, t)
    /\ UNCHANGED <<env, swapdev, pend, leaked, waitq, server, panic>>

(* free_pset() of the page set of a mapped file, which never had swap space: *)
(* free_swap() of its length from block 0, where p_swapblk was left.  With   *)
(* no server that only adds to swap_leaked.                                  *)
FreeFile(t, n) ==
    /\ At(t, "idle") /\ swapdev
    /\ env.free1st \/ pend = 0
    /\ Ask([th EXCEPT ![t] = [Idle EXCEPT !.op = "file", !.n = n]], psema, t)
    /\ UNCHANGED <<env, swapdev, pend, leaked, waitq, own, server, panic>>

(* Mutant: one sleeper is woken, not all. *)
FreedWakesOne(t) ==
    /\ At(t, "back") /\ th[t].op = "free"
    /\ psema' = VSema(psema)
    /\ waitq' = IF Blocked(waitq) THEN VSema(waitq) ELSE waitq
    /\ th' = [u \in Thread |-> IF u = t THEN Idle
                               ELSE IF u \in VWakes(waitq)
                                    THEN [th[u] EXCEPT !.pc = "again"]
                                    ELSE Granted(th)[u]]
    /\ UNCHANGED <<env, swapdev, pend, leaked, own, server, panic>>

(* vall_sema() of swap_wait if anyone sleeps there. *)
Freed(t) ==
    /\ At(t, "back") /\ th[t].op = "free"
    /\ psema' = VSema(psema)
    /\ waitq' = IF Blocked(waitq) THEN NewSema(0) ELSE waitq
    /\ th' = [u \in Thread |-> IF u = t THEN Idle
                               ELSE IF u \in Sleepers(waitq)
                                    THEN [th[u] EXCEPT !.pc = "again"]
                                    ELSE Granted(th)[u]]
    /\ UNCHANGED <<env, swapdev, pend, leaked, own, server, panic>>

(* set_swapdev() takes the portref with its p_sema held, and releases it. *)
SetSwapdev ==
    /\ panic = "none" /\ ~ swapdev
    /\ swapdev' = TRUE
    /\ UNCHANGED <<env, pend, leaked, psema, waitq, th, own, server, panic>>

-----------------------------------------------------------------------------
(* The server                                                               *)

Refused(t) == th[t].pc = "wait" \/ (At(t, "back") /\ th[t].op = "alloc" /\ th[t].res = 0)

(* SWAP_ADD, from a user process: swapadd().  Nobody in the kernel is told. *)
SwapAdd ==
    LET len == env.lens[Len(devs) + 1]
        low == IF NoDevice THEN 1 ELSE Last(devs).block + Last(devs).len + 1
    IN
    /\ panic = "none" /\ Len(devs) < Len(env.lens) /\ spend < len
    /\ env.late \/ \A t \in Thread : ~ Refused(t)
    /\ devs' = Append(devs, [block |-> low, len |-> len])
    /\ map' = RmapFree(map, low + spend, len - spend, env.slots)
    /\ lost' = lost + IF RmapLoses(map, low + spend, len - spend, env.slots)
                      THEN len - spend ELSE 0
    /\ spend' = 0
    /\ UNCHANGED <<env, swapdev, pend, leaked, psema, waitq, th, own, panic>>

Answer(t, res) == th' = [th EXCEPT ![t].pc = "back", ![t].res = res]

(* SWAP_ALLOC before there is a device: count on. *)
ServeAllocPending(t) ==
    /\ At(t, "io") /\ th[t].op = "alloc" /\ NoDevice
    /\ Answer(t, spend + 1)
    /\ spend' = spend + th[t].n
    /\ UNCHANGED <<env, swapdev, pend, leaked, psema, waitq, own, devs, map, lost, panic>>

ServeAlloc(t) ==
    LET n == th[t].n IN
    /\ At(t, "io") /\ th[t].op = "alloc" /\ ~ NoDevice
    /\ Answer(t, RmapIndex(map, n))
    /\ map' = IF RmapIndex(map, n) = 0 THEN map ELSE RmapTake(map, n)
    /\ UNCHANGED <<env, swapdev, pend, leaked, psema, waitq, own, devs, spend, lost, panic>>

ServeFree(t) ==
    LET r == th[t] IN
    /\ At(t, "io") /\ r.op = "free"
    /\ Answer(t, 0)
    /\ map' = RmapFree(map, r.off, r.n, env.slots)
    /\ lost' = lost + IF RmapLoses(map, r.off, r.n, env.slots) THEN r.n ELSE 0
    /\ UNCHANGED <<env, swapdev, pend, leaked, psema, waitq, own, devs, spend, panic>>

(* rmap_free() asserts that a block is not 0: abort() ends the server (libc  *)
(* is built with -DDEBUG), the send fails, and so does free_swap()'s own     *)
(* assertion, "free_swap: send failed".  Nothing happens in between.         *)
ServeFile(t) ==
    /\ At(t, "io") /\ th[t].op = "file"
    /\ panic' = "rmap_free: zero off"
    /\ UNCHANGED <<env, swapdev, pend, leaked, psema, waitq, th, own, server>>

(* swapent(): the device of a block, {} if none. *)
SwapEnt(b) ==
    LET at == {i \in DOMAIN devs : b < devs[i].block + devs[i].len}
    IN  IF at = {} \/ b < devs[Min(at)].block THEN {} ELSE {Min(at)}

Next ==
    \/ SetSwapdev \/ SwapAdd
    \/ \E t \in Thread :
          \/ \E n \in env.asks : /\ Cardinality(own[t]) < env.chunks
                                 /\ AllocPending(t, n) \/ Alloc(t, n)
          \/ \E c \in own[t] : FreeLeaks(t, c) \/ Free(t, c)
          \/ \E n \in env.files : FreeFile(t, n)
          \/ Send(t) \/ AllocAccounted(t) \/ Allocated(t) \/ AllocRefused(t)
          \/ AllocAgain(t) \/ Freed(t)
          \/ ServeAllocPending(t) \/ ServeAlloc(t) \/ ServeFree(t)
          \/ ServeFile(t)

Spec == Init /\ [][Next]_vars

-----------------------------------------------------------------------------
(* Properties                                                               *)

(* Each variable has its type; the map is in ascending order, and none of    *)
(* its entries is empty (src/src/libc/rmap.c:9) or abuts the next.           *)
TypeOK ==
    /\ swapdev \in BOOLEAN /\ pend \in Nat /\ spend \in Nat /\ lost \in Nat
    /\ \A t \in Thread : \A c \in own[t] : c.off > 0 /\ c.size > 0
    /\ Ascending(map)
    /\ Len(map) <= env.slots
    /\ SemaType(psema, Thread) /\ CountsSleepers(psema)
    /\ SemaType(waitq, Thread) /\ CountsSleepers(waitq) /\ waitq.cnt <= 0
    /\ \A t \in Thread : (th[t].pc = "wait") <=> t \in Sleepers(waitq)
    /\ Cardinality({t \in Thread : th[t].pc \in {"send", "io", "back"}})
         = IF psema.cnt > 0 THEN 0 ELSE 1

(* Blocks in use: of a page set, leaked, on the way to or from the server.   *)
InFlight(t) ==
    \/ th[t].op = "free" /\ th[t].pc \in {"lock", "send", "io"}
    \/ th[t].op = "alloc" /\ th[t].pc = "back" /\ th[t].res > 0 /\ th[t].outer = 0

FlightChunk(t) == Chunk(IF th[t].op = "free" THEN th[t].off ELSE th[t].res, th[t].n)

Used == (UNION {{<<t, "owns", c>> : c \in own[t]} : t \in Thread})
        \cup {<<"nobody", "leaked", c>> : c \in leaked}
        \cup {<<t, "flight", FlightChunk(t)>> : t \in {u \in Thread : InFlight(u)}}

BlocksUsed(u) == BlocksOf(u[3])

(* The server knows of the blocks used before it came up. *)
Accounted == pend = 0 /\ \A t \in Thread : th[t].outer > 0 => th[t].pc = "back"

(* A block of swap space is in use for one page set, or free, and never two  *)
(* of these: not when it was used before there was a server, nor when two    *)
(* threads allocate and free at a time, nor when the map is full; and the    *)
(* blocks used first are those from 1 (alloc_swap()'s assertion).  A free of *)
(* block 0 stops the server before it touches the map, see FreesNotZero.     *)
BlocksApart ==
    /\ panic # "alloc_swap: pend != 1"
    /\ \A u, v \in Used : u # v => BlocksUsed(u) \cap BlocksUsed(v) = {}
    /\ Accounted => \A u \in Used : BlocksUsed(u) \cap FreeBlocks(map) = {}

(* The blocks of device d, the blocks the server has to account for, and of  *)
(* these the ones it gave up: neither free nor in use.                       *)
DeviceBlocks(d) == d.block .. d.block + d.len - 1
Managed == IF NoDevice THEN 1 .. spend ELSE UNION {DeviceBlocks(devs[i]) : i \in DOMAIN devs}
GivenUp == {b \in Managed \ FreeBlocks(map) : \A u \in Used : b \notin BlocksUsed(u)}

(* None is forgotten: blocks are in use, free or given up because the map    *)
(* was full, and those are counted (lost_elems, src/src/libc/rmap.c:136);    *)
(* and each chunk lies on one device (src/src/srv/swap/swap.c:9).            *)
BlocksKept ==
    /\ FreeBlocks(map) \subseteq Managed
    /\ Cardinality(GivenUp) = lost
    /\ Accounted /\ ~ NoDevice =>
          \A u \in Used : \E i \in DOMAIN devs : \A b \in BlocksUsed(u) : SwapEnt(b) = {i}

(* Each block has one owner and none gets lost, from the boot to a full map. *)
BlocksOwned == BlocksApart /\ BlocksKept

(* No call of rmap_free() is for block 0 ("you can't store index 0",         *)
(* src/src/libc/rmap.c:33, and the assertion "rmap_free: zero off", :85).    *)
FreesNotZero == panic # "rmap_free: zero off"

(* There are n free blocks in a row. *)
Room(n) == \E b \in FreeBlocks(map) : b .. b + n - 1 \subseteq FreeBlocks(map)

(* Whoever sleeps for swap space finds none: as soon as there are free       *)
(* blocks enough in a row, however they were freed and put together again,   *)
(* nobody is left asleep on swap_wait but until the free_swap() that just     *)
(* returned wakes all ("Loop until we get swap space", vm_swap.c:282).       *)
SleeperNoRoom ==
    \A t \in Thread : th[t].pc = "wait" /\ Room(th[t].n) =>
        \E u \in Thread : th[u].op = "free" /\ th[u].pc = "back"
=============================================================================
