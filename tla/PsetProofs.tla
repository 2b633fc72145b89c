----------------------------- MODULE PsetProofs -----------------------------
(***************************************************************************)
(* Page sets, proved for any number of threads, sets and frames: no page   *)
(* frame is lost or used twice, whoever faults, copies, forks, exits,      *)
(* steals pages and writes them out; and, where no process exits under the *)
(* page daemon, a slot counts its references and translations lead to its  *)
(* frame.                                                                  *)
(***************************************************************************)
EXTENDS Pset, SemaOpsProofs, FunctionTheorems

(* What the settings must be: a process that exits has one thread left; a   *)
(* copy is of the kind of its original, is made by one thread, and has a    *)
(* process; and the page daemon does not come to page table pages, which    *)
(* have no c_pset of their own (hat.c:155).                                 *)
Sound ==
    \A e \in Envs :
       /\ e.exit => \A t, u \in Thread : e.map[t] = e.map[u] /\ e.map[t] # None => t = u
       /\ e.steal => ~ e.tables
       /\ \A t \in Thread : e.child[t] # None =>
             /\ e.child[t] # File
             /\ e.child[t] \in Cow <=> e.map[t] \in Cow
             /\ \E u \in Thread : e.map[u] = e.child[t]
       /\ \A t, u \in Thread : e.child[t] = e.child[u] /\ e.child[t] # None => t = u

-----------------------------------------------------------------------------
(* A step of a thread in the kernel does its work, or an assertion fails    *)
(* and that is all.                                                         *)

Writes(t) == At(t, "got") /\ th[t].why = "write" /\ slot[File].v /\ CowWritten(t)
Copies(t) == At(t, "got") /\ th[t].why = "copy" /\ Copied(t)
Drops(t)  == At(t, "det") /\ Dropped(t)
Yields(t) == At(t, "unshare") /\ Unshared(t)
Leaves(t) == At(t, "fpset") /\ LeftMaster(t)

Works(t) ==
    \/ Relock(t) \/ AllocPage(t) \/ NoPage(t)
    \/ Valid(t) \/ Invalid(t) \/ LockMaster(t) \/ Master(t) \/ Fill(t) \/ FillFails(t)
    \/ Share(t) \/ Writes(t) \/ Map(t) \/ MapTable(t)
    \/ Dup(t) \/ Dupd(t) \/ Copies(t) \/ Forked(t)
    \/ Drops(t) \/ Deref(t) \/ FreeSlot(t) \/ Yields(t) \/ Leaves(t) \/ FreeVas(t)

Halts(t) == th[t].pc \in {"got", "det", "unshare", "fpset"} /\ \E y : y # "none" /\ Stops(y)

LEMMA KernelIs ==
    ASSUME NEW t \in Thread, Kernel(t)
    PROVE  Works(t) \/ Halts(t)
<1>1. CASE CowWrite(t)
  BY <1>1, Zenon DEF CowWrite, Works, Writes, Halts, At
<1>2. CASE CopyPage(t)
  BY <1>2, Zenon DEF CopyPage, Works, Copies, Halts, At
<1>3. CASE Detached(t)
  BY <1>3, Zenon DEF Detached, Works, Drops, Halts, At
<1>4. CASE Unshare(t)
  BY <1>4, Zenon DEF Unshare, Works, Yields, Halts, At
<1>5. CASE FreePset(t)
  BY <1>5, Zenon DEF FreePset, Works, Leaves, Halts, At
<1>6. QED BY <1>1, <1>2, <1>3, <1>4, <1>5 DEF Kernel, Works

-----------------------------------------------------------------------------
(* The shape of the state                                                   *)

SlotLock == [held : BOOLEAN, want : BOOLEAN, n : Nat,
             sema : [cnt : Int, q : Seq(Thread)]]

ThreadState ==
    [pc : {"user", "none", "gone", "lk", "lkw", "slot", "alloc", "memw", "got",
           "master", "share", "map", "dup", "dupd", "forked", "det", "deref",
           "free", "unshare", "fpset", "vas"},
     w : BOOLEAN, ls : Set \cup {None},
     to : {"none", "slot", "master", "dupd", "det", "unshare"},
     f : Frame \cup {None},
     why : {"none", "fill", "master", "write", "tab", "copy"},
     d : Set \cup {None}]

DaemonState == [pc : {"idle", "walk", "judge"}, s : Set \cup {None},
                todo : SUBSET Cow, hard : BOOLEAN]

Types ==
    /\ env \in Envs /\ slot \in [Set -> Slot] /\ lk \in [Set -> SlotLock]
    /\ refs \in [Set -> Nat] /\ cowsets \subseteq Cow /\ atl \in [Set -> Nat]
    /\ pt \in [Set -> [f : Frame \cup {None}, w : BOOLEAN, m : BOOLEAN]]
    /\ tab \in [Set -> Frame \cup {None}]
    /\ core \in [Frame -> [alloc : BOOLEAN, s : Set \cup {None}]]
    /\ free \in Seq(Frame) /\ data \in [Frame -> Val] /\ swap \in [Set -> Val]
    /\ io \subseteq Set /\ th \in [Thread -> ThreadState] /\ dm \in DaemonState

(* Where a thread is: waiting for a slot lock to go on at y, or allocating  *)
(* a page for y.                                                            *)
Asks(t, y)   == th[t].pc \in {"lk", "lkw"} /\ th[t].to = y
Allocs(t, y) == th[t].pc \in {"alloc", "memw", "got"} /\ th[t].why = y

(* Making a copy of its address space. *)
Forks(t) == th[t].pc \in {"dup", "dupd", "forked"} \/ Asks(t, "dupd") \/ Allocs(t, "copy")

(* Waiting for, or having, the slot of the file's set to give up its share. *)
Unshares(t) == th[t].pc = "unshare" \/ Asks(t, "unshare")

(* Dismantling set d. *)
Ends(t) == th[t].pc \in {"free", "fpset"} \/ Unshares(t)

(* About to give up the reference of a set over the file to the file's set. *)
Detaches(t) == th[t].pc = "deref" /\ th[t].d = File /\ Own(t) # File

(* Counted in the references of its set. *)
Views(t) == th[t].pc \notin {"none", "gone", "vas"} /\ ~ Ends(t) /\ ~ Detaches(t)

-----------------------------------------------------------------------------
(* Slot locks                                                               *)

(* The slots a thread has locked: its own set's, the file's. *)
HasOwn(t) == \/ th[t].pc \in {"slot", "map", "dupd", "det", "master", "share",
                              "alloc", "memw", "got"}
             \/ Asks(t, "master")
HasMaster(t) == th[t].pc \in {"master", "share", "unshare"} \/ Allocs(t, "master")
Has(t) == (IF HasOwn(t) THEN {Own(t)} ELSE {}) \cup (IF HasMaster(t) THEN {File} ELSE {})

(* ... and the one it waits for. *)
Seeks(t) == IF th[t].pc \in {"lk", "lkw"} THEN {th[t].ls} ELSE {}

Daemon1(s) == dm.pc # "idle" /\ dm.s = s

(* A lock is held, and by one thread, by the daemon, or for output. *)
Locked ==
    /\ \A t \in Thread, s \in Set : s \in Has(t) =>
          lk[s].held /\ ~ Daemon1(s) /\ s \notin io
    /\ \A t, u \in Thread, s \in Set : s \in Has(t) /\ s \in Has(u) => t = u
    /\ dm.pc # "idle" => dm.s \in Set /\ lk[dm.s].held /\ dm.s \notin io
    /\ \A s \in io : lk[s].held

(* p_locks counts at least those (a lock fork() leaves behind counts too). *)
LockUsers(s) == {t \in Thread : s \in Has(t) \cup Seeks(t)}
Counted ==
    \A s \in Set :
        /\ IsFiniteSet(LockUsers(s))
        /\ lk[s].n >= Cardinality(LockUsers(s)) + (IF Daemon1(s) THEN 1 ELSE 0)
                                                + (IF s \in io THEN 1 ELSE 0)

(* Asleep on a slot lock, on mem_sema. *)
Waiting(s) == {t \in Thread : th[t].pc = "lkw" /\ th[t].ls = s}
Starving   == {t \in Thread : th[t].pc = "memw"}

Asleep ==
    /\ \A s \in Set : SleptOn(lk[s].sema, Thread, Waiting(s)) /\ lk[s].sema.cnt <= 0
    /\ SleptOn(memw, Thread, Starving) /\ memw.cnt <= 0

(* What the variables of a thread say fits its place. *)
Placed(t) ==
    /\ th[t].pc # "none" => Own(t) \in Set
    /\ th[t].f # None <=> th[t].pc = "got"
    /\ th[t].pc \in {"lk", "lkw"} => th[t].to # "none"
    /\ Asks(t, "slot") \/ Asks(t, "dupd") \/ Asks(t, "det") => th[t].ls = Own(t)
    /\ Asks(t, "master") \/ Asks(t, "unshare") => th[t].ls = File
    /\ HasMaster(t) \/ Asks(t, "master") \/ Asks(t, "unshare") => Own(t) \in Cow
    /\ th[t].pc \in {"alloc", "memw", "got"} => th[t].why # "none"
    /\ Allocs(t, "tab") => env.tables /\ tab[Own(t)] = None
    /\ th[t].pc \in {"det", "deref", "vas", "gone"} \/ Asks(t, "det") \/ Ends(t)
          => env.exit
    /\ th[t].pc \in {"deref", "free", "fpset"} =>
          th[t].d = Own(t) \/ (th[t].d = File /\ Own(t) \in Cow)
    /\ th[t].pc = "det" \/ Asks(t, "det") \/ Unshares(t) => th[t].d = Own(t)
    /\ Forks(t) => Own(t) # File /\ env.child[t] # None

-----------------------------------------------------------------------------
(* References to sets                                                       *)

(* Nobody runs in the copy yet. *)
Unborn(c) == \A u \in Thread : Own(u) = c => th[u].pc = "none"

(* The sets over the file that count in its references. *)
Attached == cowsets \cup {c \in Cow : \E t \in Thread : Detaches(t) /\ Own(t) = c}

Referrers(s) ==
    {<<"view", v>> : v \in {x \in {s} : \E t \in Thread : Views(t) /\ Own(t) = x}}
    \cup {<<"fork", t>> : t \in {u \in Thread : Forks(u) /\ Own(u) = s}}
    \cup {<<"cow", c>> : c \in {x \in Attached : s = File}}

(* The page daemon and the output of pages have to do with sets in use; a   *)
(* set that goes under them is one of the assertions.                       *)
Live == panic = "none" => /\ dm.pc # "idle" => refs[dm.s] > 0
                          /\ \A s \in io : refs[s] > 0

Referred ==
    /\ \A s \in Set : /\ IsFiniteSet(Referrers(s))
                      /\ refs[s] = Cardinality(Referrers(s))
    /\ \A t \in Thread : Ends(t) => refs[th[t].d] = 0
    /\ Live

(* A set over the file is on its list from its first view to free_pset(). *)
Listed ==
    /\ \A t \in Thread :
          Own(t) \in Cow /\ (Views(t) \/ (Ends(t) /\ th[t].d = Own(t)))
          => Own(t) \in cowsets
    /\ \A t \in Thread : Detaches(t) => Own(t) \notin cowsets
    /\ \A t \in Thread : Forks(t) =>
          Unborn(env.child[t]) /\ (env.child[t] \in Cow => env.child[t] \in cowsets)
    /\ \A t \in Thread : env.child[t] # None /\ Unborn(env.child[t]) /\ ~ Forks(t) =>
          env.child[t] \notin cowsets

-----------------------------------------------------------------------------
(* Slots                                                                    *)

Shared(s) == slot[s].v /\ slot[s].cow

(* The slots that are locked, or not yet in use, are as their users left them. *)
SlotShape(s) == /\ slot[s].cow => slot[s].v /\ s \in Cow
                /\ slot[s].v => slot[s].f \in Frame

SlotsOf(t) ==
    /\ Allocs(t, "fill") \/ Asks(t, "master") \/ th[t].pc \in {"master", "share"}
          \/ Allocs(t, "master") => ~ slot[Own(t)].v
    /\ Allocs(t, "master") => ~ slot[File].v
    /\ th[t].pc = "share" => slot[File].v
    /\ Allocs(t, "write") => slot[Own(t)].cow
    /\ Unshares(t) => ~ (slot[Own(t)].v /\ ~ slot[Own(t)].cow)
    /\ env.child[t] # None /\ Unborn(env.child[t]) /\ th[t].pc # "forked" =>
          ~ slot[env.child[t]].v

Slots ==
    /\ \A s \in Set : SlotShape(s)
    /\ \A t \in Thread : SlotsOf(t)
    /\ dm.pc # "idle" => slot[dm.s].v /\ ~ slot[dm.s].cow
    /\ \A s \in io : slot[s].v /\ ~ slot[s].cow

-----------------------------------------------------------------------------
(* Page frames                                                              *)

(* Whoever may have a frame: a slot, a page table, a thread. *)
Owner == ({"slot", "tab"} \X Set) \cup ({"hand"} \X Thread)

SlotFrame(s) == IF slot[s].v /\ ~ slot[s].cow THEN slot[s].f ELSE None

FrameOf(o) == CASE o[1] = "slot" -> SlotFrame(o[2])
                [] o[1] = "tab"  -> tab[o[2]]
                [] o[1] = "hand" -> th[o[2]].f

Frames == [o \in Owner |-> FrameOf(o)]

(* The frames of E are on the free list q, once, or belong to one owner. *)
EachOnce(F, q, E) ==
    /\ \A i, j \in DOMAIN q : q[i] = q[j] => i = j
    /\ Range(q) \subseteq E
    /\ \A o \in DOMAIN F : F[o] \in (E \ Range(q)) \cup {None}
    /\ \A o, p \in DOMAIN F : F[o] = F[p] /\ F[o] # None => o = p
    /\ \A f \in E \ Range(q) : \E o \in DOMAIN F : F[o] = f

Framed == /\ EachOnce(Frames, free, env.frames)
          /\ \A f \in Frame : core[f].alloc <=> f \in env.frames \ Range(free)

(* The core entry of a frame leads to the slot it is in, or is to be in. *)
Pointed ==
    env.steal =>
        /\ \A t \in Thread : th[t].pc = "got" => core[th[t].f].s = For(t)
        /\ \A f \in Frame : core[f].alloc =>
              \/ \E t \in Thread : th[t].f = f
              \/ core[f].s \in Set /\ SlotFrame(core[f].s) = f

IInv == /\ Types /\ Locked /\ Counted /\ Asleep /\ (\A t \in Thread : Placed(t))
        /\ Referred /\ Listed /\ Slots /\ Framed /\ Pointed

-----------------------------------------------------------------------------
(* The free list and the owners of frames                                   *)

(* The head of the free list goes to an owner that had no frame. *)
LEMMA TakeOnce ==
    ASSUME NEW F, NEW G, NEW q, NEW E, EachOnce(F, q, E), q \in Seq(E), q # <<>>,
           None \notin E, NEW o \in DOMAIN F, F[o] = None,
           DOMAIN G = DOMAIN F, G[o] = Head(q),
           \A p \in DOMAIN F \ {o} : G[p] = F[p]
    PROVE  /\ EachOnce(G, Tail(q), E)
           /\ Range(Tail(q)) = Range(q) \ {Head(q)} /\ Head(q) \in Range(q)
<1> DEFINE r == Tail(q)
<1>1. /\ r \in Seq(E) /\ Len(q) \in Nat \ {0} /\ Len(r) = Len(q) - 1
      /\ \A i \in 1 .. Len(q) - 1 : r[i] = q[i + 1]
  BY TailShape
<1>2. DOMAIN q = 1 .. Len(q) /\ DOMAIN r = 1 .. Len(q) - 1 /\ Head(q) = q[1]
  BY <1>1
<1> HIDE DEF r
<1>3. \A i, j \in DOMAIN r : r[i] = r[j] => i = j
  <2>1. ASSUME NEW i \in DOMAIN r, NEW j \in DOMAIN r, r[i] = r[j] PROVE i = j
    <3>1. i + 1 \in DOMAIN q /\ j + 1 \in DOMAIN q /\ i \in Int /\ j \in Int
      BY <1>1, <1>2
    <3>2. i + 1 = j + 1
      BY <1>1, <1>2, <2>1, <3>1 DEF EachOnce
    <3>3. QED BY <3>1, <3>2
  <2>2. QED BY <2>1
<1>4. Range(r) = Range(q) \ {q[1]} /\ q[1] \in Range(q)
  <2>1. ASSUME NEW i \in DOMAIN r PROVE r[i] \in Range(q) \ {q[1]}
    <3>1. i + 1 \in DOMAIN q /\ i + 1 # 1 /\ 1 \in DOMAIN q
      BY <1>1, <1>2
    <3>2. QED BY <1>1, <1>2, <3>1 DEF EachOnce, Range
  <2>2. ASSUME NEW i \in DOMAIN q, q[i] # q[1] PROVE q[i] \in Range(r)
    <3>1. i - 1 \in DOMAIN r /\ r[i - 1] = q[i]
      BY <1>1, <1>2, <2>2
    <3>2. QED BY <3>1 DEF Range
  <2>3. 1 \in DOMAIN q
    BY <1>1, <1>2
  <2>4. QED BY <2>1, <2>2, <2>3 DEF Range
<1>5. /\ Range(q) \subseteq E
      /\ \A p \in DOMAIN F : F[p] \in (E \ Range(q)) \cup {None}
      /\ \A x, p \in DOMAIN F : F[x] = F[p] /\ F[x] # None => x = p
      /\ \A f \in E \ Range(q) : \E x \in DOMAIN F : F[x] = f
  BY DEF EachOnce
<1>6. q[1] \in E /\ q[1] # None /\ G[o] = q[1]
  BY <1>2, <1>4, <1>5
<1>7. \A p \in DOMAIN G : G[p] \in (E \ Range(r)) \cup {None}
  BY <1>4, <1>5, <1>6
<1>8. \A x, p \in DOMAIN G : G[x] = G[p] /\ G[x] # None => x = p
  BY <1>4, <1>5, <1>6
<1>9. ASSUME NEW f \in E \ Range(r) PROVE \E x \in DOMAIN G : G[x] = f
  <2>1. CASE f = q[1]
    BY <1>6, <2>1
  <2>2. CASE f # q[1]
    <3>1. f \in E \ Range(q)
      BY <1>4, <2>2
    <3>2. PICK x \in DOMAIN F : F[x] = f
      BY <1>5, <3>1
    <3>3. x # o
      BY <3>1, <3>2
    <3>4. QED BY <3>2, <3>3
  <2>3. QED BY <2>1, <2>2
<1>10. EachOnce(G, r, E)
  BY <1>3, <1>4, <1>5, <1>7, <1>8, <1>9 DEF EachOnce
<1>11. QED BY <1>2, <1>4, <1>10 DEF r

(* An owner's frame goes back to the head of the free list. *)
LEMMA PutOnce ==
    ASSUME NEW F, NEW G, NEW q, NEW E, EachOnce(F, q, E), q \in Seq(E),
           None \notin E, NEW o \in DOMAIN F, F[o] # None,
           DOMAIN G = DOMAIN F, G[o] = None,
           \A p \in DOMAIN F \ {o} : G[p] = F[p]
    PROVE  /\ EachOnce(G, <<F[o]>> \o q, E) /\ <<F[o]>> \o q \in Seq(E)
           /\ Range(<<F[o]>> \o q) = Range(q) \cup {F[o]} /\ F[o] \in E \ Range(q)
<1> DEFINE r == <<F[o]>> \o q
           f == F[o]
<1>1. /\ Range(q) \subseteq E
      /\ \A p \in DOMAIN F : F[p] \in (E \ Range(q)) \cup {None}
      /\ \A x, p \in DOMAIN F : F[x] = F[p] /\ F[x] # None => x = p
      /\ \A x \in E \ Range(q) : \E p \in DOMAIN F : F[p] = x
      /\ \A i, j \in DOMAIN q : q[i] = q[j] => i = j
  BY DEF EachOnce
<1>2. f \in E \ Range(q)
  BY <1>1
<1>3. /\ r \in Seq(E) /\ Len(q) \in Nat /\ Len(r) = Len(q) + 1 /\ r[1] = f
      /\ \A i \in 2 .. Len(q) + 1 : r[i] = q[i - 1]
  BY <1>2
<1>4. DOMAIN q = 1 .. Len(q) /\ DOMAIN r = 1 .. Len(q) + 1
  BY <1>3
<1> HIDE DEF r, f
<1>5. \A i \in DOMAIN r : i = 1 \/ (i - 1 \in DOMAIN q /\ r[i] = q[i - 1])
  BY <1>3, <1>4
<1>6. \A i \in DOMAIN q : q[i] # f
  BY <1>2 DEF Range
<1>7. \A i, j \in DOMAIN r : r[i] = r[j] => i = j
  <2>1. ASSUME NEW i \in DOMAIN r, NEW j \in DOMAIN r, r[i] = r[j] PROVE i = j
    <3>1. CASE i = 1 \/ j = 1
      BY <1>3, <1>5, <1>6, <2>1, <3>1
    <3>2. CASE i # 1 /\ j # 1
      <4>1. i - 1 = j - 1
        BY <1>1, <1>5, <2>1, <3>2
      <4>2. i \in Int /\ j \in Int
        BY <1>4
      <4>3. QED BY <4>1, <4>2
    <3>3. QED BY <3>1, <3>2
  <2>2. QED BY <2>1
<1>8. Range(r) = Range(q) \cup {f}
  <2>1. ASSUME NEW i \in DOMAIN r PROVE r[i] \in Range(q) \cup {f}
    BY <1>3, <1>5 DEF Range
  <2>2. ASSUME NEW i \in DOMAIN q PROVE q[i] \in Range(r)
    <3>1. i + 1 \in DOMAIN r /\ r[i + 1] = q[i]
      BY <1>3, <1>4
    <3>2. QED BY <3>1 DEF Range
  <2>3. f \in Range(r)
    <3>1. 1 \in DOMAIN r
      BY <1>3, <1>4
    <3>2. QED BY <1>3, <3>1 DEF Range
  <2>4. QED BY <2>1, <2>2, <2>3 DEF Range
<1>9. \A p \in DOMAIN G : G[p] \in (E \ Range(r)) \cup {None}
  BY <1>1, <1>8 DEF f
<1>10. \A x, p \in DOMAIN G : G[x] = G[p] /\ G[x] # None => x = p
  BY <1>1
<1>11. ASSUME NEW x \in E \ Range(r) PROVE \E p \in DOMAIN G : G[p] = x
  <2>1. x \in E \ Range(q) /\ x # F[o]
    BY <1>8 DEF f
  <2>2. PICK p \in DOMAIN F : F[p] = x
    BY <1>1, <2>1
  <2>3. QED BY <2>1, <2>2
<1>12. EachOnce(G, r, E)
  BY <1>1, <1>2, <1>7, <1>8, <1>9, <1>10, <1>11 DEF EachOnce
<1>13. QED BY <1>2, <1>3, <1>8, <1>12 DEF r, f

(* A frame passes from one owner to another that had none. *)
LEMMA MoveOnce ==
    ASSUME NEW F, NEW G, NEW q, NEW E, EachOnce(F, q, E),
           NEW o \in DOMAIN F, NEW w \in DOMAIN F, w # o, F[w] = None,
           DOMAIN G = DOMAIN F, G[o] = None, G[w] = F[o],
           \A p \in DOMAIN F \ {o, w} : G[p] = F[p]
    PROVE  EachOnce(G, q, E)
<1>1. /\ Range(q) \subseteq E
      /\ \A p \in DOMAIN F : F[p] \in (E \ Range(q)) \cup {None}
      /\ \A x, p \in DOMAIN F : F[x] = F[p] /\ F[x] # None => x = p
      /\ \A x \in E \ Range(q) : \E p \in DOMAIN F : F[p] = x
      /\ \A i, j \in DOMAIN q : q[i] = q[j] => i = j
  BY DEF EachOnce
<1>2. \A p \in DOMAIN G : G[p] \in (E \ Range(q)) \cup {None}
  BY <1>1
<1>3. ASSUME NEW x \in DOMAIN G, NEW p \in DOMAIN G, G[x] = G[p], G[x] # None
      PROVE x = p
  <2>1. x # o /\ p # o
    BY <1>3
  <2>2. CASE x = w \/ p = w
    BY <1>1, <1>3, <2>1, <2>2
  <2>3. CASE x # w /\ p # w
    BY <1>1, <1>3, <2>1, <2>3
  <2>4. QED BY <2>2, <2>3
<1>4. ASSUME NEW x \in E \ Range(q) PROVE \E p \in DOMAIN G : G[p] = x
  <2>1. PICK p \in DOMAIN F : F[p] = x
    BY <1>1
  <2>2. CASE p = o \/ p = w
    BY <2>1, <2>2
  <2>3. CASE p # o /\ p # w
    BY <2>1, <2>3
  <2>4. QED BY <2>2, <2>3
<1>5. QED BY <1>1, <1>2, <1>3, <1>4 DEF EachOnce

-----------------------------------------------------------------------------
(* Who has which frame                                                      *)

LEMMA FramesAre ==
    /\ DOMAIN Frames = Owner /\ DOMAIN Frames' = Owner
    /\ \A s \in Set : /\ <<"slot", s>> \in Owner /\ <<"tab", s>> \in Owner
                      /\ Frames[<<"slot", s>>] = SlotFrame(s)
                      /\ Frames'[<<"slot", s>>] = SlotFrame(s)'
                      /\ Frames[<<"tab", s>>] = tab[s]
                      /\ Frames'[<<"tab", s>>] = tab'[s]
    /\ \A t \in Thread : /\ <<"hand", t>> \in Owner
                         /\ Frames[<<"hand", t>>] = th[t].f
                         /\ Frames'[<<"hand", t>>] = th'[t].f
    /\ \A o \in Owner : \/ \E s \in Set : o = <<"slot", s>> \/ o = <<"tab", s>>
                        \/ \E t \in Thread : o = <<"hand", t>>
<1>1. ASSUME NEW s \in Set
      PROVE  /\ <<"slot", s>> \in Owner /\ <<"tab", s>> \in Owner
             /\ FrameOf(<<"slot", s>>) = SlotFrame(s) /\ FrameOf(<<"tab", s>>) = tab[s]
  BY DEF Owner, FrameOf
<1>2. ASSUME NEW s \in Set
      PROVE  /\ FrameOf(<<"slot", s>>)' = SlotFrame(s)' /\ FrameOf(<<"tab", s>>)' = tab'[s]
  BY DEF FrameOf
<1>3. ASSUME NEW t \in Thread
      PROVE  /\ <<"hand", t>> \in Owner
             /\ FrameOf(<<"hand", t>>) = th[t].f /\ FrameOf(<<"hand", t>>)' = th'[t].f
  BY DEF Owner, FrameOf
<1>4. ASSUME NEW o \in Owner
      PROVE  \/ \E s \in Set : o = <<"slot", s>> \/ o = <<"tab", s>>
             \/ \E t \in Thread : o = <<"hand", t>>
  BY DEF Owner
<1>5. /\ DOMAIN Frames = Owner /\ DOMAIN Frames' = Owner
      /\ \A o \in Owner : Frames[o] = FrameOf(o) /\ Frames'[o] = FrameOf(o)'
  BY DEF Frames
<1>6. QED BY <1>1, <1>2, <1>3, <1>4, <1>5

(* Owners outside O keep what they have. *)
Elsewhere(O) ==
    /\ \A s \in Set : <<"slot", s>> \notin O => SlotFrame(s)' = SlotFrame(s)
    /\ \A s \in Set : <<"tab", s>> \notin O => tab'[s] = tab[s]
    /\ \A t \in Thread : <<"hand", t>> \notin O => th'[t].f = th[t].f

LEMMA OthersKeep ==
    ASSUME NEW O, Elsewhere(O)
    PROVE  \A o \in Owner \ O : Frames'[o] = Frames[o]
<1>1. ASSUME NEW o \in Owner, o \notin O PROVE Frames'[o] = Frames[o]
  <2>1. CASE \E s \in Set : o = <<"slot", s>>
    <3>1. PICK s \in Set : o = <<"slot", s>>
      BY <2>1
    <3>2. SlotFrame(s)' = SlotFrame(s)
      BY <1>1, <3>1 DEF Elsewhere
    <3>3. Frames[<<"slot", s>>] = SlotFrame(s) /\ Frames'[<<"slot", s>>] = SlotFrame(s)'
      BY FramesAre
    <3>4. QED BY <3>1, <3>2, <3>3
  <2>2. CASE \E s \in Set : o = <<"tab", s>>
    <3>1. PICK s \in Set : o = <<"tab", s>>
      BY <2>2
    <3>2. tab'[s] = tab[s]
      BY <1>1, <3>1 DEF Elsewhere
    <3>3. Frames[<<"tab", s>>] = tab[s] /\ Frames'[<<"tab", s>>] = tab'[s]
      BY FramesAre
    <3>4. QED BY <3>1, <3>2, <3>3
  <2>3. CASE \E t \in Thread : o = <<"hand", t>>
    <3>1. PICK t \in Thread : o = <<"hand", t>>
      BY <2>3
    <3>2. th'[t].f = th[t].f
      BY <1>1, <3>1 DEF Elsewhere
    <3>3. Frames[<<"hand", t>>] = th[t].f /\ Frames'[<<"hand", t>>] = th'[t].f
      BY FramesAre
    <3>4. QED BY <3>1, <3>2, <3>3
  <2>4. QED BY <2>1, <2>2, <2>3, FramesAre
<1>2. QED BY <1>1

(* The frames of the setting. *)
LEMMA FrameSet ==
    ASSUME env \in Envs
    PROVE  env.frames \subseteq Frame /\ None \notin env.frames /\ None \notin Frame
BY EnvAssumption, SetAssumption DEF Env

LEMMA FreeSeq ==
    ASSUME Framed, free \in Seq(Frame)
    PROVE  free \in Seq(env.frames)
<1>1. Range(free) \subseteq env.frames
  BY DEF Framed, EachOnce
<1>2. \A i \in 1 .. Len(free) : free[i] \in env.frames
  BY <1>1 DEF Range
<1>3. QED BY <1>2

LEMMA FramedSame ==
    ASSUME Framed, Elsewhere({}), env' = env, free' = free,
           \A f \in Frame : core'[f].alloc = core[f].alloc
    PROVE  Framed'
<1>1. Frames' = Frames
  <2>1. \A o \in Owner : Frames'[o] = Frames[o]
    BY OthersKeep
  <2>2. QED BY <2>1 DEF Frames
<1>2. QED BY <1>1 DEF Framed

LEMMA FramedMove ==
    ASSUME Framed, env' = env, free' = free,
           \A f \in Frame : core'[f].alloc = core[f].alloc,
           NEW o \in Owner, NEW w \in Owner, w # o, Elsewhere({o, w}),
           Frames[w] = None, Frames'[o] = None, Frames'[w] = Frames[o]
    PROVE  Framed'
<1>1. \A p \in Owner \ {o, w} : Frames'[p] = Frames[p]
  BY OthersKeep
<1>2. EachOnce(Frames, free, env.frames)
  BY DEF Framed
<1> DEFINE G == Frames'
           F == Frames
<1>3. DOMAIN F = Owner /\ DOMAIN G = Owner
  BY FramesAre
<1>a. EachOnce(F, free, env.frames)
  BY <1>2
<1>b. F[w] = None /\ G[o] = None /\ G[w] = F[o]
      /\ \A p \in DOMAIN F \ {o, w} : G[p] = F[p]
  BY <1>1, <1>3
<1> HIDE DEF F, G
<1>4. EachOnce(G, free, env.frames)
  BY <1>3, <1>a, <1>b, MoveOnce
<1>5. EachOnce(Frames, free, env.frames)'
  BY <1>4 DEF G
<1>6. \A f \in Frame : (core[f].alloc <=> f \in env.frames \ Range(free))'
  BY DEF Framed
<1>7. QED BY <1>5, <1>6 DEF Framed

LEMMA FramedTake ==
    ASSUME Framed, env \in Envs, free \in Seq(Frame), env' = env, free # <<>>,
           free' = Tail(free),
           \A f \in Frame : core'[f].alloc <=> core[f].alloc \/ f = Head(free),
           NEW o \in Owner, Elsewhere({o}), Frames[o] = None, Frames'[o] = Head(free)
    PROVE  Framed' /\ Head(free) \in env.frames /\ free' \in Seq(Frame)
<1>1. \A p \in Owner \ {o} : Frames'[p] = Frames[p]
  BY OthersKeep
<1> DEFINE G == Frames'
           F == Frames
<1>3. DOMAIN F = Owner /\ DOMAIN G = Owner
  BY FramesAre
<1>a. EachOnce(F, free, env.frames) /\ free \in Seq(env.frames) /\ None \notin env.frames
  BY FreeSeq, FrameSet DEF Framed
<1>b. F[o] = None /\ G[o] = Head(free)
      /\ \A p \in DOMAIN F \ {o} : G[p] = F[p]
  BY <1>1, <1>3
<1> HIDE DEF F, G
<1>4. /\ EachOnce(G, Tail(free), env.frames)
      /\ Range(Tail(free)) = Range(free) \ {Head(free)} /\ Head(free) \in Range(free)
  BY <1>3, <1>a, <1>b, TakeOnce
<1>5. EachOnce(Frames, free, env.frames)'
  BY <1>4 DEF G
<1>6. Head(free) \in env.frames /\ free' \in Seq(Frame)
  BY <1>a
<1>7. \A f \in Frame : (core[f].alloc <=> f \in env.frames \ Range(free))'
  <2>1. \A f \in Frame : core[f].alloc <=> f \in env.frames \ Range(free)
    BY DEF Framed
  <2>2. QED BY <1>4, <1>6, <2>1
<1>8. QED BY <1>5, <1>6, <1>7 DEF Framed

(* free_page() of a frame somebody has: it is not on the free list yet. *)
LEMMA FramedPut ==
    ASSUME Framed, env \in Envs, free \in Seq(Frame), env' = env,
           core \in [Frame -> [alloc : BOOLEAN, s : Set \cup {None}]],
           NEW g, NEW o \in Owner, Frames[o] # None, FreePage(g, Frames[o]),
           Elsewhere({o}), Frames'[o] = None
    PROVE  /\ Framed' /\ free' \in Seq(Frame)
           /\ core' = [core EXCEPT ![Frames[o]].alloc = FALSE]
           /\ Frames[o] \in Frame \ Range(free)
           /\ memw' = IF Blocked(memw) THEN VSema(memw) ELSE memw
           /\ th' = IF Blocked(memw) THEN Wake(g, VWakes(memw)) ELSE g
           /\ panic' = panic
<1>1. \A p \in Owner \ {o} : Frames'[p] = Frames[p]
  BY OthersKeep
<1> DEFINE G == Frames'
           F == Frames
<1>3. DOMAIN F = Owner /\ DOMAIN G = Owner
  BY FramesAre
<1>a. EachOnce(F, free, env.frames) /\ free \in Seq(env.frames) /\ None \notin env.frames
      /\ env.frames \subseteq Frame
  BY FreeSeq, FrameSet DEF Framed
<1>b. F[o] # None /\ G[o] = None /\ \A p \in DOMAIN F \ {o} : G[p] = F[p]
  BY <1>1, <1>3
<1> HIDE DEF F, G
<1>4. /\ EachOnce(G, <<F[o]>> \o free, env.frames)
      /\ <<F[o]>> \o free \in Seq(env.frames)
      /\ Range(<<F[o]>> \o free) = Range(free) \cup {F[o]}
      /\ F[o] \in env.frames \ Range(free)
  <2>1. o \in DOMAIN F /\ DOMAIN G = DOMAIN F
    BY <1>3
  <2>2. QED BY ONLY <2>1, <1>a, <1>b, PutOnce
<1>5. FreePage(g, F[o])
  BY DEF F
<1>6. /\ free' = <<F[o]>> \o free
      /\ core' = [core EXCEPT ![F[o]].alloc = FALSE]
      /\ memw' = IF Blocked(memw) THEN VSema(memw) ELSE memw
      /\ th' = IF Blocked(memw) THEN Wake(g, VWakes(memw)) ELSE g
      /\ panic' = panic
  BY <1>4, <1>5 DEF FreePage
<1>7. EachOnce(Frames, free, env.frames)'
  BY <1>4, <1>6 DEF G
<1>8. free' \in Seq(Frame)
  BY <1>4, <1>6, <1>a
<1>9. \A f \in Frame : (core[f].alloc <=> f \in env.frames \ Range(free))'
  <2>1. \A f \in Frame : core[f].alloc <=> f \in env.frames \ Range(free)
    BY DEF Framed
  <2>2. \A f \in Frame : core'[f].alloc = (core[f].alloc /\ f # F[o])
    BY <1>6
  <2>3. QED BY <1>4, <1>6, <2>1, <2>2
<1>10. Framed'
  BY <1>7, <1>9 DEF Framed
<1>11. QED BY <1>4, <1>6, <1>8, <1>10, <1>a DEF F

-----------------------------------------------------------------------------
(* Threads a step does not concern                                          *)

(* It leaves them as they are, or wakes them. *)
Aside(u) == \/ th'[u] = th[u]
            \/ th[u].pc \in {"lkw", "memw"} /\ th'[u] = Woken(th[u])

(* What the invariant says of such a thread does not change. *)
Same(u) ==
    /\ th'[u].ls = th[u].ls /\ th'[u].to = th[u].to /\ th'[u].f = th[u].f
    /\ th'[u].why = th[u].why /\ th'[u].d = th[u].d
    /\ \A p \in {"user", "none", "gone", "slot", "got", "master", "share", "map", "dup",
                 "dupd", "forked", "det", "deref", "free", "unshare", "fpset", "vas"} :
          th'[u].pc = p <=> th[u].pc = p
    /\ th'[u].pc \in {"alloc", "memw", "got"} <=> th[u].pc \in {"alloc", "memw", "got"}
    /\ th'[u].pc \in {"lk", "lkw"} <=> th[u].pc \in {"lk", "lkw"}
    /\ Own(u)' = Own(u) /\ Has(u)' = Has(u) /\ Seeks(u)' = Seeks(u)
    /\ \A y : Asks(u, y)' <=> Asks(u, y)
    /\ \A y : Allocs(u, y)' <=> Allocs(u, y)
    /\ HasMaster(u)' <=> HasMaster(u)
    /\ Forks(u)' <=> Forks(u)
    /\ Unshares(u)' <=> Unshares(u)
    /\ Ends(u)' <=> Ends(u)
    /\ Detaches(u)' <=> Detaches(u)
    /\ Views(u)' <=> Views(u)

LEMMA AsideIs ==
    ASSUME th \in [Thread -> ThreadState], NEW u \in Thread, Aside(u), env' = env
    PROVE  Same(u)
<1>1. th[u] \in ThreadState
  OBVIOUS
<1>2. /\ th'[u].ls = th[u].ls /\ th'[u].to = th[u].to /\ th'[u].f = th[u].f
      /\ th'[u].why = th[u].why /\ th'[u].d = th[u].d
      /\ \/ th'[u].pc = th[u].pc
         \/ th[u].pc = "lkw" /\ th'[u].pc = "lk"
         \/ th[u].pc = "memw" /\ th'[u].pc = "alloc"
  BY <1>1 DEF Aside, Woken, ThreadState
<1>3. \A p \in {"user", "none", "gone", "slot", "got", "master", "share", "map", "dup",
                "dupd", "forked", "det", "deref", "free", "unshare", "fpset", "vas"} :
          th'[u].pc = p <=> th[u].pc = p
  BY <1>2
<1>4. /\ th'[u].pc \in {"alloc", "memw", "got"} <=> th[u].pc \in {"alloc", "memw", "got"}
      /\ th'[u].pc \in {"lk", "lkw"} <=> th[u].pc \in {"lk", "lkw"}
  BY <1>2
<1>5. /\ \A y : Asks(u, y)' <=> Asks(u, y)
      /\ \A y : Allocs(u, y)' <=> Allocs(u, y)
      /\ Own(u)' = Own(u)
  BY <1>2, <1>4 DEF Asks, Allocs, Own
<1>6. /\ HasMaster(u)' <=> HasMaster(u)
      /\ HasOwn(u)' <=> HasOwn(u)
      /\ Forks(u)' <=> Forks(u)
      /\ Unshares(u)' <=> Unshares(u)
      /\ Detaches(u)' <=> Detaches(u)
  BY <1>2, <1>3, <1>4, <1>5 DEF HasMaster, HasOwn, Forks, Unshares, Detaches
<1>7. Ends(u)' <=> Ends(u)
  BY <1>3, <1>6 DEF Ends
<1>8. Views(u)' <=> Views(u)
  BY <1>3, <1>6, <1>7 DEF Views
<1>9. Has(u)' = Has(u) /\ Seeks(u)' = Seeks(u)
  BY <1>2, <1>4, <1>5, <1>6 DEF Has, Seeks
<1>10. QED BY <1>2, <1>3, <1>4, <1>5, <1>6, <1>7, <1>8, <1>9 DEF Same

-----------------------------------------------------------------------------
(* Slot locks: who has and seeks them                                       *)

(* The other threads' locks stay with them. *)
SameLocks(t) == \A u \in Thread \ {t} : Has(u)' = Has(u) /\ Seeks(u)' = Seeks(u)

LEMMA UsersStep ==
    ASSUME NEW t \in Thread, NEW s \in Set, IsFiniteSet(LockUsers(s)), SameLocks(t)
    PROVE  /\ IsFiniteSet(LockUsers(s)')
           /\ Cardinality(LockUsers(s)) \in Nat
           /\ Cardinality(LockUsers(s)') =
                Cardinality(LockUsers(s)) - (IF s \in Has(t) \cup Seeks(t) THEN 1 ELSE 0)
                                          + (IF s \in (Has(t) \cup Seeks(t))' THEN 1 ELSE 0)
<1> DEFINE U == LockUsers(s)
           V == LockUsers(s)'
<1>1. /\ \A u \in Thread \ {t} : u \in V <=> u \in U
      /\ t \in U <=> s \in Has(t) \cup Seeks(t)
      /\ t \in V <=> s \in (Has(t) \cup Seeks(t))'
      /\ U \subseteq Thread /\ V \subseteq Thread
  BY DEF LockUsers, SameLocks
<1>2. IsFiniteSet(U)
  OBVIOUS
<1> HIDE DEF U, V
<1>3. Cardinality(U) \in Nat
  BY <1>2, FS_CardinalityType
<1>4. CASE (t \in U) <=> (t \in V)
  <2>1. U = V
    BY <1>1, <1>4
  <2>2. QED BY <1>1, <1>2, <1>3, <1>4, <2>1 DEF U, V
<1>5. CASE t \in U /\ t \notin V
  <2>1. V = U \ {t}
    BY <1>1, <1>5
  <2>2. IsFiniteSet(V) /\ Cardinality(V) = Cardinality(U) - 1
    BY <1>2, <1>5, <2>1, FS_RemoveElement
  <2>3. QED BY <1>1, <1>2, <1>3, <1>5, <2>2 DEF U, V
<1>6. CASE t \notin U /\ t \in V
  <2>1. V = U \cup {t}
    BY <1>1, <1>6
  <2>2. IsFiniteSet(V) /\ Cardinality(V) = Cardinality(U) + 1
    BY <1>2, <1>6, <2>1, FS_AddElement
  <2>3. QED BY <1>1, <1>2, <1>3, <1>6, <2>2 DEF U, V
<1>7. QED BY <1>4, <1>5, <1>6

LEMMA LoosenIs ==
    ASSUME NEW l \in SlotLock
    PROVE  /\ Loosen(l).held = FALSE /\ Loosen(l).n = l.n - 1
           /\ Loosen(l).sema = (IF l.want THEN NewSema(0) ELSE l.sema)
           /\ l.n >= 1 => Loosen(l) \in SlotLock
<1> DEFINE x == IF l.want THEN NewSema(0) ELSE l.sema
           n == l.n - 1
<1>0. Loosen(l) = [l EXCEPT !.held = FALSE, !.want = FALSE, !.n = n, !.sema = x]
  BY DEF Loosen
<1> HIDE DEF x, n
<1>1. Loosen(l) = [held |-> FALSE, want |-> FALSE, n |-> n, sema |-> x]
  BY <1>0 DEF SlotLock
<1> USE DEF n
<1>2. l.n \in Nat /\ l.sema \in [cnt : Int, q : Seq(Thread)]
  BY DEF SlotLock
<1>3. NewSema(0) \in [cnt : Int, q : Seq(Thread)]
  BY DEF NewSema
<1>4. x \in [cnt : Int, q : Seq(Thread)]
  BY <1>2, <1>3 DEF x
<1>5. l.n >= 1 => [held |-> FALSE, want |-> FALSE, n |-> l.n - 1, sema |-> x] \in SlotLock
  BY <1>2, <1>4 DEF SlotLock
<1>6. QED BY <1>1, <1>5 DEF x

(* A thread gives up the locks of R, perhaps none, and seeks no other. *)
LEMMA LocksLoosed ==
    ASSUME lk \in [Set -> SlotLock], io \subseteq Set, Locked, Counted,
           NEW t \in Thread, NEW R, R \subseteq Has(t), Has(t)' \subseteq Has(t) \ R,
           Seeks(t)' = {}, SameLocks(t), dm' = dm, io' = io,
           lk' = [s \in Set |-> IF s \in R THEN Loosen(lk[s]) ELSE lk[s]]
    PROVE  Locked' /\ Counted' /\ lk' \in [Set -> SlotLock]
<1>1. ASSUME NEW s \in Set
      PROVE  /\ lk'[s] \in SlotLock
             /\ lk'[s].held = (lk[s].held /\ s \notin R)
             /\ IsFiniteSet(LockUsers(s))'
             /\ (lk[s].n >= Cardinality(LockUsers(s)) + (IF Daemon1(s) THEN 1 ELSE 0)
                                                      + (IF s \in io THEN 1 ELSE 0))'
  <2>1. /\ IsFiniteSet(LockUsers(s)')
        /\ Cardinality(LockUsers(s)) \in Nat
        /\ Cardinality(LockUsers(s)') =
             Cardinality(LockUsers(s)) - (IF s \in Has(t) \cup Seeks(t) THEN 1 ELSE 0)
                                       + (IF s \in (Has(t) \cup Seeks(t))' THEN 1 ELSE 0)
    BY UsersStep DEF Counted
  <2>2. Daemon1(s)' <=> Daemon1(s)
    BY DEF Daemon1
  <2>3. lk[s].n >= Cardinality(LockUsers(s)) + (IF Daemon1(s) THEN 1 ELSE 0)
                                             + (IF s \in io THEN 1 ELSE 0)
    BY DEF Counted
  <2>a. lk[s] \in SlotLock
    OBVIOUS
  <2>4. CASE s \in R
    <3>1. s \in Has(t) /\ s \notin Has(t)' /\ s \notin Seeks(t)'
      BY <2>4
    <3>2. Cardinality(LockUsers(s)') = Cardinality(LockUsers(s)) - 1
      BY <2>1, <3>1
    <3>5. t \in LockUsers(s)
      BY <3>1 DEF LockUsers
    <3>6. Cardinality(LockUsers(s)) # 0
      BY <3>5, FS_EmptySet DEF Counted
    <3>3. lk'[s] = Loosen(lk[s])
      BY <2>4
    <3>7. lk[s].n \in Nat /\ lk[s].n >= 1
      BY <2>1, <2>3, <2>a, <3>6 DEF SlotLock
    <3>4. lk'[s].n = lk[s].n - 1 /\ lk'[s].held = FALSE /\ lk'[s] \in SlotLock
      BY <2>a, <3>3, <3>7, LoosenIs
    <3>8. lk'[s].n >= Cardinality(LockUsers(s)') + (IF Daemon1(s) THEN 1 ELSE 0)
                                                 + (IF s \in io THEN 1 ELSE 0)
      BY <2>1, <2>3, <3>2, <3>4, <3>7
    <3>9. QED BY <2>1, <2>2, <2>4, <3>4, <3>8
  <2>5. CASE s \notin R
    <3>1. lk'[s] = lk[s] /\ lk[s].n \in Nat /\ lk[s].held \in BOOLEAN
      BY <2>a, <2>5 DEF SlotLock
    <3>2. Cardinality(LockUsers(s)') <= Cardinality(LockUsers(s))
      BY <2>1
    <3>3. Cardinality(LockUsers(s)') \in Nat
      BY <2>1, FS_CardinalityType
    <3>4. lk'[s].n >= Cardinality(LockUsers(s)') + (IF Daemon1(s) THEN 1 ELSE 0)
                                                 + (IF s \in io THEN 1 ELSE 0)
      BY <2>1, <2>3, <3>1, <3>2, <3>3
    <3>5. QED BY <2>1, <2>2, <2>5, <2>a, <3>1, <3>4
  <2>6. QED BY <2>4, <2>5
<1>2. Counted'
  BY <1>1 DEF Counted
<1>3. lk' \in [Set -> SlotLock]
  BY <1>1
<1>4. ASSUME NEW u \in Thread PROVE Has(u)' \subseteq Has(u)
  BY DEF SameLocks
<1>5. ASSUME NEW u \in Thread, NEW s \in Set, s \in Has(u)' PROVE s \notin R
  BY <1>4, <1>5 DEF Locked
<1>6. ASSUME NEW u \in Thread, NEW s \in Set, s \in Has(u)'
      PROVE  (lk[s].held /\ ~ Daemon1(s) /\ s \notin io)'
  <2>1. lk[s].held /\ ~ Daemon1(s) /\ s \notin io /\ s \notin R
    BY <1>4, <1>5, <1>6 DEF Locked
  <2>2. QED BY <1>1, <2>1 DEF Daemon1
<1>7. ASSUME NEW x \in Thread, NEW u \in Thread, NEW s \in Set, s \in Has(x)', s \in Has(u)'
      PROVE  x = u
  BY <1>4, <1>7 DEF Locked
<1>8. dm.pc # "idle" => dm.s \in Set /\ lk'[dm.s].held /\ dm.s \notin io
  <2>1. HAVE dm.pc # "idle"
  <2>2. dm.s \in Set /\ lk[dm.s].held /\ dm.s \notin io
    BY <2>1 DEF Locked
  <2>3. dm.s \notin R
    BY <2>1, <2>2 DEF Locked, Daemon1
  <2>4. QED BY <1>1, <2>2, <2>3
<1>9. \A s \in io : lk'[s].held
  <2>1. TAKE s \in io
  <2>2. s \in Set => lk[s].held /\ s \notin R
    BY DEF Locked
  <2>3. s \in Set
    OBVIOUS
  <2>4. QED BY <1>1, <2>2, <2>3
<1>10. QED BY <1>2, <1>3, <1>6, <1>7, <1>8, <1>9 DEF Locked

(* A look at a lock, the first one (k = 1) or another. *)
Looked(l, k, t) == Ask([l EXCEPT !.n = l.n + k], t)

LEMMA AskIs ==
    ASSUME NEW l \in SlotLock, NEW t \in Thread, NEW k \in {0, 1}
    PROVE  /\ Looked(l, k, t) \in SlotLock /\ Looked(l, k, t).held = TRUE
           /\ Looked(l, k, t).n = l.n + k
           /\ l.held => Looked(l, k, t).sema = PSema(l.sema, t)
           /\ ~ l.held => Looked(l, k, t).sema = l.sema
<1> DEFINE m == l.n + k
           x == PSema(l.sema, t)
           r == [held |-> l.held, want |-> l.want, n |-> m, sema |-> l.sema]
<1>1. [l EXCEPT !.n = m] = r
  BY DEF SlotLock
<1>2. l.sema \in [cnt : Int, q : Seq(Thread)] /\ l.n \in Nat /\ l.held \in BOOLEAN
      /\ l.want \in BOOLEAN
  BY DEF SlotLock
<1>3. x \in [cnt : Int, q : Seq(Thread)]
  <2> DEFINE c == l.sema.cnt - 1
             y == IF PSleeps(l.sema) THEN Append(l.sema.q, t) ELSE l.sema.q
  <2>1. c \in Int /\ y \in Seq(Thread)
    BY <1>2
  <2>2. x = [cnt |-> c, q |-> y]
    BY DEF PSema
  <2> HIDE DEF c, y, x
  <2>3. QED BY <2>1, <2>2
<1>a. m \in Nat
  BY <1>2
<1>b. Looked(l, k, t) = Ask(r, t)
  BY <1>1 DEF Looked
<1> HIDE DEF m
<1>4. CASE l.held
  <2>1. Ask(r, t) = [held |-> TRUE, want |-> TRUE, n |-> m, sema |-> x]
    BY <1>2, <1>4 DEF Ask
  <2> HIDE DEF x, r
  <2>2. Looked(l, k, t) = [held |-> TRUE, want |-> TRUE, n |-> m, sema |-> x]
    BY <2>1, <1>b
  <2>3. QED BY <1>2, <1>3, <1>4, <1>a, <2>2 DEF SlotLock, m, x
<1>5. CASE ~ l.held
  <2>1. Ask(r, t) = [held |-> TRUE, want |-> l.want, n |-> m, sema |-> l.sema]
    BY <1>2, <1>5 DEF Ask
  <2> HIDE DEF x, r
  <2>2. Looked(l, k, t) = [held |-> TRUE, want |-> l.want, n |-> m, sema |-> l.sema]
    BY <2>1, <1>b
  <2>3. QED BY <1>2, <1>3, <1>5, <1>a, <2>2 DEF SlotLock, m
<1>6. QED BY <1>4, <1>5

(* A thread looks at the lock of s: it is counted, and has the lock if      *)
(* nobody had it.                                                           *)
LEMMA LocksAsked ==
    ASSUME lk \in [Set -> SlotLock], io \subseteq Set, Locked, Counted,
           NEW t \in Thread, NEW s \in Set, NEW k \in {0, 1},
           k = 1 => s \notin Has(t) /\ Seeks(t) = {},
           k = 0 => Seeks(t) = {s},
           Has(t)' = Has(t) \cup (IF lk[s].held THEN {} ELSE {s}),
           Seeks(t)' = (IF lk[s].held THEN {s} ELSE {}),
           SameLocks(t), dm' = dm, io' = io,
           lk' = [lk EXCEPT ![s] = Looked(lk[s], k, t)]
    PROVE  Locked' /\ Counted' /\ lk' \in [Set -> SlotLock]
<1>1. /\ lk'[s] \in SlotLock /\ lk'[s].held = TRUE /\ lk'[s].n = lk[s].n + k
      /\ \A x \in Set \ {s} : lk'[x] = lk[x]
      /\ lk' \in [Set -> SlotLock]
  <2>1. lk[s] \in SlotLock
    OBVIOUS
  <2>2. lk'[s] = Looked(lk[s], k, t)
    OBVIOUS
  <2> DEFINE l == lk[s]
  <2>a. l \in SlotLock /\ lk'[s] = Looked(l, k, t)
    BY <2>1, <2>2
  <2> HIDE DEF l
  <2>b. /\ Looked(l, k, t) \in SlotLock /\ Looked(l, k, t).held = TRUE
        /\ Looked(l, k, t).n = l.n + k
        /\ l.held => Looked(l, k, t).sema = PSema(l.sema, t)
        /\ ~ l.held => Looked(l, k, t).sema = l.sema
    BY <2>a, AskIs
  <2>3. lk'[s] \in SlotLock /\ lk'[s].held = TRUE /\ lk'[s].n = lk[s].n + k
    BY <2>a, <2>b DEF l
  <2>4. QED BY <2>2, <2>3
<1>2. \A u \in Thread, x \in Set :
          x \in Has(u)' => x \in Has(u) \/ (u = t /\ x = s /\ ~ lk[s].held)
  BY DEF SameLocks
<1>3. ASSUME NEW x \in Set
      PROVE  /\ IsFiniteSet(LockUsers(x)')
             /\ lk'[x].n >= Cardinality(LockUsers(x)') + (IF Daemon1(x) THEN 1 ELSE 0)
                                                       + (IF x \in io THEN 1 ELSE 0)
  <2>1. /\ IsFiniteSet(LockUsers(x)')
        /\ Cardinality(LockUsers(x)) \in Nat
        /\ Cardinality(LockUsers(x)') =
             Cardinality(LockUsers(x)) - (IF x \in Has(t) \cup Seeks(t) THEN 1 ELSE 0)
                                       + (IF x \in (Has(t) \cup Seeks(t))' THEN 1 ELSE 0)
    BY UsersStep DEF Counted
  <2>2. lk[x].n >= Cardinality(LockUsers(x)) + (IF Daemon1(x) THEN 1 ELSE 0)
                                             + (IF x \in io THEN 1 ELSE 0)
    BY DEF Counted
  <2>3. lk[x].n \in Nat
    BY DEF SlotLock
  <2>4. CASE x = s
    <3>1. (IF x \in Has(t) \cup Seeks(t) THEN 1 ELSE 0) = 1 - k
      BY <2>4
    <3>2. (IF x \in (Has(t) \cup Seeks(t))' THEN 1 ELSE 0) = 1
      BY <2>4
    <3>3. Cardinality(LockUsers(x)') = Cardinality(LockUsers(x)) + k
      BY <2>1, <3>1, <3>2
    <3>4. QED BY <1>1, <2>1, <2>2, <2>3, <2>4, <3>3
  <2>5. CASE x # s
    <3>1. x \in (Has(t) \cup Seeks(t))' => x \in Has(t) \cup Seeks(t)
      BY <2>5
    <3>2. Cardinality(LockUsers(x)') <= Cardinality(LockUsers(x))
          /\ Cardinality(LockUsers(x)') \in Nat
      BY <2>1, <3>1, FS_CardinalityType
    <3>3. lk'[x] = lk[x]
      BY <1>1, <2>5
    <3>4. QED BY <2>1, <2>2, <2>3, <3>2, <3>3
  <2>6. QED BY <2>4, <2>5
<1>4. \A x \in Set : Daemon1(x)' <=> Daemon1(x)
  BY DEF Daemon1
<1>5. Counted'
  <2>1. ASSUME NEW x \in Set
        PROVE  (/\ IsFiniteSet(LockUsers(x))
                /\ lk[x].n >= Cardinality(LockUsers(x)) + (IF Daemon1(x) THEN 1 ELSE 0)
                                                        + (IF x \in io THEN 1 ELSE 0))'
    BY <1>3, <1>4
  <2>2. QED BY <2>1 DEF Counted
<1>6. ASSUME NEW u \in Thread, NEW x \in Set, x \in Has(u)'
      PROVE  (lk[x].held /\ ~ Daemon1(x) /\ x \notin io)'
  <2>1. CASE x \in Has(u)
    <3>1. lk[x].held /\ ~ Daemon1(x) /\ x \notin io
      BY <2>1 DEF Locked
    <3>2. QED BY <1>1, <1>4, <3>1
  <2>2. CASE x = s /\ ~ lk[s].held
    <3>1. ~ Daemon1(x) /\ x \notin io
      BY <2>2 DEF Locked, Daemon1
    <3>2. QED BY <1>1, <1>4, <2>2, <3>1
  <2>3. QED BY <1>2, <1>6, <2>1, <2>2
<1>7. ASSUME NEW w \in Thread, NEW u \in Thread, NEW x \in Set, x \in Has(w)', x \in Has(u)'
      PROVE  w = u
  <2>1. CASE x \in Has(w) /\ x \in Has(u)
    BY <2>1 DEF Locked
  <2>2. CASE x = s /\ ~ lk[s].held
    <3>1. x \notin Has(w) /\ x \notin Has(u)
      BY <2>2 DEF Locked
    <3>2. QED BY <1>2, <1>7, <3>1
  <2>3. QED BY <1>2, <1>7, <2>1, <2>2
<1>8. dm.pc # "idle" => dm.s \in Set /\ lk'[dm.s].held /\ dm.s \notin io
  BY <1>1 DEF Locked
<1>9. \A x \in io : lk'[x].held
  BY <1>1 DEF Locked
<1>10. QED BY <1>1, <1>5, <1>6, <1>7, <1>8, <1>9 DEF Locked

-----------------------------------------------------------------------------
(* Sleepers                                                                 *)

(* The threads of A neither slept nor sleep; the locks of R are given up    *)
(* and a page is freed, or neither; those that are woken sleep no more.     *)
LEMMA AsleepLoosed ==
    ASSUME Asleep, lk \in [Set -> SlotLock], NEW R, NEW A, NEW M,
           \A u \in A \cap Thread : /\ th[u].pc \notin {"lkw", "memw"}
                                    /\ th'[u].pc \notin {"lkw", "memw"},
           \A u \in Thread \ A :
               th'[u] = IF u \in M \cup UNION {Waiters(s) : s \in R}
                        THEN Woken(th[u]) ELSE th[u],
           R \subseteq Set, th \in [Thread -> ThreadState],
           lk' = [s \in Set |-> IF s \in R THEN Loosen(lk[s]) ELSE lk[s]],
           \/ M = {} /\ memw' = memw
           \/ M = VWakes(memw) /\ Blocked(memw) /\ memw' = VSema(memw)
    PROVE  Asleep' /\ \A u \in Thread \ A : Aside(u)
<1>1. /\ \A s \in Set : SleptOn(lk[s].sema, Thread, Waiting(s)) /\ lk[s].sema.cnt <= 0
      /\ SleptOn(memw, Thread, Starving) /\ memw.cnt <= 0
  BY DEF Asleep
<1>2. M \subseteq Starving
  <2>1. VWakes(memw) \subseteq Starving
    BY <1>1, SleptGive, Zenon
  <2>2. QED BY <2>1
<1>3. \A s \in Set : Waiters(s) = IF lk[s].want THEN Waiting(s) ELSE {}
  BY <1>1 DEF Waiters, SleptOn
<1>4. ASSUME NEW u \in Thread \ A
      PROVE  /\ u \in Starving' <=> u \in Starving \ M
             /\ \A s \in Set : u \in Waiting(s)' <=> u \in Waiting(s) \ UNION {Waiters(x) : x \in R}
             /\ Aside(u)
  <2>1. th[u] \in ThreadState
    OBVIOUS
  <2>2. u \in UNION {Waiters(x) : x \in R} => th[u].pc = "lkw"
    BY <1>3 DEF Waiting
  <2>3. u \in M => th[u].pc = "memw"
    BY <1>2 DEF Starving
  <2>4. CASE u \in UNION {Waiters(x) : x \in R}
    <3>1. th'[u].pc = "lk" /\ th'[u] = Woken(th[u])
      BY <2>1, <2>2, <2>4 DEF Woken, ThreadState
    <3>2. QED BY <2>2, <2>3, <2>4, <3>1 DEF Waiting, Starving, Aside
  <2>5. CASE u \in M
    <3>1. th'[u].pc = "alloc" /\ th'[u] = Woken(th[u])
      BY <2>1, <2>3, <2>5 DEF Woken, ThreadState
    <3>2. QED BY <2>2, <2>3, <2>5, <3>1 DEF Waiting, Starving, Aside
  <2>6. CASE u \notin M \cup UNION {Waiters(x) : x \in R}
    <3>1. th'[u] = th[u]
      BY <2>6
    <3>2. QED BY <2>6, <3>1 DEF Waiting, Starving, Aside
  <2>7. QED BY <2>4, <2>5, <2>6
<1>5. Starving' = Starving \ M
  <2>1. \A u \in A : u \notin Starving /\ u \notin Starving'
    BY DEF Starving
  <2>2. Starving \subseteq Thread /\ Starving' \subseteq Thread
    BY DEF Starving
  <2>3. QED BY <1>4, <2>1, <2>2
<1>6. ASSUME NEW s \in Set
      PROVE  Waiting(s)' = IF s \in R /\ lk[s].want THEN {} ELSE Waiting(s)
  <2>1. \A u \in A : u \notin Waiting(s) /\ u \notin Waiting(s)'
    BY DEF Waiting
  <2>2. Waiting(s) \subseteq Thread /\ Waiting(s)' \subseteq Thread
    BY DEF Waiting
  <2>3. Waiting(s)' = Waiting(s) \ UNION {Waiters(x) : x \in R}
    BY <1>4, <2>1, <2>2
  <2>4. \A x \in Set \ {s} : Waiting(s) \cap Waiting(x) = {}
    BY DEF Waiting
  <2>5. Waiting(s) \cap UNION {Waiters(x) : x \in R} =
          IF s \in R /\ lk[s].want THEN Waiting(s) ELSE {}
    BY <1>3, <2>4
  <2>6. QED BY <2>3, <2>5
<1>7. ASSUME NEW s \in Set
      PROVE  (SleptOn(lk[s].sema, Thread, Waiting(s)) /\ lk[s].sema.cnt <= 0)'
  <2>1. lk'[s].sema = IF s \in R /\ lk[s].want THEN NewSema(0) ELSE lk[s].sema
    BY LoosenIs
  <2>2. SleptOn(NewSema(0), Thread, {}) /\ NewSema(0).cnt = 0
    BY NewSlept
  <2>3. SleptOn(lk[s].sema, Thread, Waiting(s)) /\ lk[s].sema.cnt <= 0
    BY <1>1
  <2>4. CASE s \in R /\ lk[s].want
    <3>1. lk'[s].sema = NewSema(0) /\ Waiting(s)' = {}
      BY <1>6, <2>1, <2>4
    <3>2. SleptOn(lk'[s].sema, Thread, Waiting(s)') /\ lk'[s].sema.cnt <= 0
      BY <2>2, <3>1
    <3>3. QED BY <3>2
  <2>5. CASE ~ (s \in R /\ lk[s].want)
    <3>1. lk'[s].sema = lk[s].sema /\ Waiting(s)' = Waiting(s)
      BY <1>6, <2>1, <2>5
    <3>2. QED BY <2>3, <3>1
  <2>6. QED BY <2>4, <2>5
<1>8. SleptOn(memw', Thread, Starving') /\ memw'.cnt <= 0
  <2>1. CASE M = {} /\ memw' = memw
    BY <1>1, <1>5, <2>1
  <2>2. CASE M = VWakes(memw) /\ Blocked(memw) /\ memw' = VSema(memw)
    <3>1. /\ VSema(memw).cnt = memw.cnt + 1 /\ memw.cnt \in Int
          /\ SleptOn(VSema(memw), Thread, Starving \ VWakes(memw))
      BY <1>1, SleptGive
    <3>2. memw.cnt < 0
      BY <2>2 DEF Blocked
    <3>3. QED BY <1>5, <2>2, <3>1, <3>2
  <2>3. QED BY <2>1, <2>2
<1>9. Asleep'
  BY <1>7, <1>8 DEF Asleep
<1>10. QED BY <1>4, <1>9

(* A thread looks at the lock of s and sleeps if somebody has it. *)
LEMMA AsleepAsked ==
    ASSUME Asleep, lk \in [Set -> SlotLock], NEW t \in Thread, NEW s \in Set,
           NEW k \in {0, 1}, th[t].pc \notin {"lkw", "memw"}, th'[t].pc # "memw",
           IF lk[s].held THEN th'[t].pc = "lkw" /\ th'[t].ls = s ELSE th'[t].pc # "lkw",
           \A u \in Thread \ {t} : th'[u] = th[u],
           lk' = [lk EXCEPT ![s] = Looked(lk[s], k, t)], memw' = memw
    PROVE  Asleep' /\ \A u \in Thread \ {t} : Aside(u)
<1>1. /\ \A x \in Set : SleptOn(lk[x].sema, Thread, Waiting(x)) /\ lk[x].sema.cnt <= 0
      /\ SleptOn(memw, Thread, Starving) /\ memw.cnt <= 0
  BY DEF Asleep
<1>2. Starving' = Starving
  BY DEF Starving
<1>3. \A x \in Set : Waiting(x)' = IF x = s /\ lk[s].held THEN Waiting(x) \cup {t}
                                    ELSE Waiting(x)
  BY DEF Waiting
<1>4. \A x \in Set : t \notin Waiting(x)
  BY DEF Waiting
<1>5. lk[s] \in SlotLock
  OBVIOUS
<1>6. /\ lk'[s].sema = IF lk[s].held THEN PSema(lk[s].sema, t) ELSE lk[s].sema
      /\ \A x \in Set \ {s} : lk'[x] = lk[x]
  <2> DEFINE l == lk[s]
  <2>1. l \in SlotLock /\ lk'[s] = Looked(l, k, t)
    BY <1>5
  <2> HIDE DEF l
  <2>2. /\ Looked(l, k, t) \in SlotLock /\ Looked(l, k, t).held = TRUE
        /\ Looked(l, k, t).n = l.n + k
        /\ l.held => Looked(l, k, t).sema = PSema(l.sema, t)
        /\ ~ l.held => Looked(l, k, t).sema = l.sema
    BY <2>1, AskIs
  <2>3. QED BY <2>1, <2>2 DEF l
<1>7. ASSUME NEW x \in Set
      PROVE  SleptOn(lk'[x].sema, Thread, Waiting(x)') /\ lk'[x].sema.cnt <= 0
  <2>1. CASE x = s /\ lk[s].held
    <3>1. SleptOn(lk[s].sema, Thread, Waiting(s)) /\ t \notin Waiting(s)
      BY <1>1, <1>4
    <3> DEFINE y == lk[s].sema
               W == Waiting(s)
    <3>a. SleptOn(y, Thread, W) /\ t \notin W /\ y.cnt <= 0
      BY <1>1, <3>1
    <3> HIDE DEF y, W
    <3>2. /\ PSema(y, t).cnt = y.cnt - 1 /\ y.cnt \in Int
          /\ PSleeps(y) => y.cnt <= 0 /\ SleptOn(PSema(y, t), Thread, W \cup {t})
          /\ ~ PSleeps(y) => y.cnt > 0 /\ W = {} /\ SleptOn(PSema(y, t), Thread, {})
      BY <3>a, SleptAsk
    <3>3. SleptOn(PSema(y, t), Thread, W \cup {t}) /\ PSema(y, t).cnt <= 0
      BY <3>a, <3>2 DEF PSleeps
    <3>4. lk'[x].sema = PSema(y, t) /\ Waiting(x)' = W \cup {t}
      BY <1>3, <1>6, <2>1 DEF y, W
    <3>5. QED BY <3>3, <3>4
  <2>2. CASE ~ (x = s /\ lk[s].held)
    <3>1. lk'[x].sema = lk[x].sema /\ Waiting(x)' = Waiting(x)
      BY <1>3, <1>6, <2>2
    <3>2. QED BY <1>1, <3>1
  <2>3. QED BY <2>1, <2>2
<1>8. QED BY <1>1, <1>2, <1>7 DEF Asleep, Aside

-----------------------------------------------------------------------------
(* What the invariant says of who uses a set                                *)

LEMMA ReferrersAre ==
    ASSUME NEW s
    PROVE  /\ \A x : x \in Referrers(s) <=>
                 \/ x = <<"view", s>> /\ \E t \in Thread : Views(t) /\ Own(t) = s
                 \/ \E t \in Thread : x = <<"fork", t>> /\ Forks(t) /\ Own(t) = s
                 \/ \E c \in Attached : x = <<"cow", c>> /\ s = File
           /\ \A x : x \in Referrers(s)' <=>
                 \/ x = <<"view", s>> /\ \E t \in Thread : Views(t)' /\ Own(t)' = s
                 \/ \E t \in Thread : x = <<"fork", t>> /\ Forks(t)' /\ Own(t)' = s
                 \/ \E c \in Attached' : x = <<"cow", c>> /\ s = File
BY DEF Referrers

(* Whoever has or seeks a slot is counted in the references of its set. *)
LEMMA InUse ==
    ASSUME Referred, NEW s \in Set, NEW x \in Referrers(s)
    PROVE  refs[s] > 0
<1>1. IsFiniteSet(Referrers(s)) /\ refs[s] = Cardinality(Referrers(s))
  BY DEF Referred
<1>2. Cardinality(Referrers(s)) \in Nat /\ Cardinality(Referrers(s)) # 0
  BY <1>1, FS_CardinalityType, FS_EmptySet
<1>3. QED BY <1>1, <1>2

LEMMA LocksInUse ==
    ASSUME Referred, Listed, NEW t \in Thread, Placed(t), th[t] \in ThreadState,
           NEW s \in Has(t) \cup Seeks(t)
    PROVE  s \in Set /\ refs[s] > 0
<1>1. /\ s = Own(t) \/ s = File
      /\ HasOwn(t) \/ th[t].pc \in {"lk", "lkw"} \/ th[t].pc = "unshare"
      /\ s = Own(t) => HasOwn(t) \/ Asks(t, "slot") \/ Asks(t, "dupd") \/ Asks(t, "det")
                       \/ Own(t) = File
      /\ s = File => HasMaster(t) \/ Asks(t, "master") \/ Asks(t, "unshare") \/ Own(t) = File
      /\ Own(t) \in Set
  <2>1. th[t].pc \in {"lk", "lkw"} =>
           th[t].to \in {"slot", "master", "dupd", "det", "unshare"}
    BY DEF Placed, ThreadState
  <2>2. \A y : Asks(t, y) <=> th[t].pc \in {"lk", "lkw"} /\ th[t].to = y
    BY DEF Asks
  <2>3. /\ Asks(t, "slot") \/ Asks(t, "dupd") \/ Asks(t, "det") => th[t].ls = Own(t)
        /\ Asks(t, "master") \/ Asks(t, "unshare") => th[t].ls = File
        /\ HasMaster(t) \/ Asks(t, "master") \/ Asks(t, "unshare") => Own(t) \in Cow
        /\ th[t].pc # "none" => Own(t) \in Set
    BY DEF Placed
  <2>4. HasMaster(t) => HasOwn(t) \/ th[t].pc = "unshare"
    BY DEF HasMaster, HasOwn, Allocs
  <2>5. Own(t) \in Cow => Own(t) # File
    BY SetAssumption
  <2>6. HasOwn(t) \/ HasMaster(t) => th[t].pc # "none"
    BY <2>2 DEF HasMaster, HasOwn, Allocs
  <2>7. \/ s = Own(t) /\ HasOwn(t)
        \/ s = File /\ HasMaster(t)
        \/ s = th[t].ls /\ th[t].pc \in {"lk", "lkw"}
    BY DEF Has, Seeks
  <2>8. QED BY <2>1, <2>2, <2>3, <2>4, <2>5, <2>6, <2>7
<1>2. CASE s = Own(t) /\ Own(t) # File
  <2>1. Views(t)
    BY <1>1, <1>2 DEF Views, HasOwn, Ends, Unshares, Detaches, Asks
  <2>2. <<"view", s>> \in Referrers(s)
    BY <1>2, <2>1, ReferrersAre
  <2>3. QED BY <1>1, <1>2, <2>2, InUse
<1>3. CASE Own(t) = File
  <2>1. s = File
    BY <1>1, <1>3
  <2>2. ~ Unshares(t) /\ th[t].pc # "unshare"
    BY <1>3, SetAssumption DEF Placed, HasMaster, Unshares
  <2>3. Views(t)
    BY <1>1, <1>3, <2>2 DEF Views, HasOwn, Ends, Detaches, Asks
  <2>4. <<"view", s>> \in Referrers(s)
    BY <1>3, <2>1, <2>3, ReferrersAre
  <2>5. QED BY <1>1, <1>3, <2>1, <2>4, InUse
<1>4. CASE s = File /\ Own(t) # File
  <2>1. HasMaster(t) \/ Asks(t, "master") \/ Asks(t, "unshare")
    BY <1>1, <1>4
  <2>2. Own(t) \in Cow
    BY <2>1 DEF Placed
  <2>3. Views(t) \/ (Ends(t) /\ th[t].d = Own(t))
    <3>1. CASE Unshares(t)
      BY <3>1 DEF Ends, Placed
    <3>2. CASE ~ Unshares(t)
      <4>1. th[t].pc \in {"master", "share", "alloc", "memw", "got"} \/ Asks(t, "master")
        BY <2>1, <3>2 DEF HasMaster, Unshares, Allocs
      <4>2. QED BY <3>2, <4>1 DEF Views, Ends, Detaches, Asks
    <3>3. QED BY <3>1, <3>2
  <2>4. Own(t) \in cowsets
    BY <2>2, <2>3 DEF Listed
  <2>5. <<"cow", Own(t)>> \in Referrers(s)
    BY <1>4, <2>4, ReferrersAre DEF Attached
  <2>6. File \in Set
    BY DEF Set
  <2>7. QED BY <1>4, <2>5, <2>6, InUse
<1>5. QED BY <1>1, <1>2, <1>3, <1>4

(* The thread is as much a user of its set as it was. *)
Keeps(u) ==
    /\ Views(u)' <=> Views(u)
    /\ Forks(u)' <=> Forks(u)
    /\ Detaches(u)' <=> Detaches(u)
    /\ Own(u)' = Own(u)
    /\ th'[u].pc = "none" <=> th[u].pc = "none"
    /\ Ends(u)' => Ends(u) /\ th'[u].d = th[u].d

LEMMA SameKeeps ==
    ASSUME NEW u, Same(u)
    PROVE  Keeps(u)
BY DEF Same, Keeps

LEMMA RefsKept ==
    ASSUME Referred, Listed, \A u \in Thread : Keeps(u), env' = env, refs' = refs,
           cowsets' = cowsets, Live'
    PROVE  Referred' /\ Listed'
<1>1. Attached' = Attached
  BY DEF Attached, Keeps
<1>2. ASSUME NEW s \in Set PROVE Referrers(s)' = Referrers(s)
  <2>1. \A x : x \in Referrers(s)' <=> x \in Referrers(s)
    BY <1>1, ReferrersAre DEF Keeps
  <2>2. QED BY <2>1
<1>3. Referred'
  <2>1. \A s \in Set : (IsFiniteSet(Referrers(s)) /\ refs[s] = Cardinality(Referrers(s)))'
    BY <1>2 DEF Referred
  <2>2. \A t \in Thread : (Ends(t) => refs[th[t].d] = 0)'
    BY DEF Referred, Keeps
  <2>3. QED BY <2>1, <2>2 DEF Referred
<1>4. ASSUME NEW c PROVE Unborn(c)' <=> Unborn(c)
  BY DEF Unborn, Keeps
<1>5. \A t \in Thread :
          (Own(t) \in Cow /\ (Views(t) \/ (Ends(t) /\ th[t].d = Own(t)))
              => Own(t) \in cowsets)'
  BY DEF Listed, Keeps
<1>6. \A t \in Thread : (Detaches(t) => Own(t) \notin cowsets)'
  BY DEF Listed, Keeps
<1>7. ASSUME NEW t \in Thread
      PROVE  /\ Forks(t)' => /\ Unborn(env.child[t])'
                             /\ env.child[t] \in Cow => env.child[t] \in cowsets'
             /\ env.child[t] # None /\ Unborn(env.child[t])' /\ ~ Forks(t)' =>
                    env.child[t] \notin cowsets'
  <2>1. PICK c : c = env.child[t]
    OBVIOUS
  <2>2. Unborn(c)' <=> Unborn(c)
    BY <1>4
  <2>3. Unborn(env.child[t])' <=> Unborn(c)'
    BY <2>1 DEF Unborn
  <2>4. QED BY <2>1, <2>2, <2>3 DEF Listed, Keeps
<1>8. Listed'
  BY <1>5, <1>6, <1>7 DEF Listed
<1>9. QED BY <1>3, <1>8

-----------------------------------------------------------------------------
(* What a step leaves as it is for the threads it does not concern          *)

LEMMA PlacedAside ==
    ASSUME NEW u \in Thread, Placed(u), Same(u), env' = env,
           Allocs(u, "tab") => tab'[Own(u)] = None
    PROVE  Placed(u)'
<1>1. /\ th'[u].ls = th[u].ls /\ th'[u].to = th[u].to /\ th'[u].f = th[u].f
      /\ th'[u].why = th[u].why /\ th'[u].d = th[u].d
      /\ \A p \in {"user", "none", "gone", "slot", "got", "master", "share", "map", "dup",
                   "dupd", "forked", "det", "deref", "free", "unshare", "fpset", "vas"} :
            th'[u].pc = p <=> th[u].pc = p
      /\ th'[u].pc \in {"alloc", "memw", "got"} <=> th[u].pc \in {"alloc", "memw", "got"}
      /\ th'[u].pc \in {"lk", "lkw"} <=> th[u].pc \in {"lk", "lkw"}
      /\ Own(u)' = Own(u)
      /\ \A y : Asks(u, y)' <=> Asks(u, y)
      /\ \A y : Allocs(u, y)' <=> Allocs(u, y)
      /\ HasMaster(u)' <=> HasMaster(u)
      /\ Forks(u)' <=> Forks(u)
      /\ Unshares(u)' <=> Unshares(u)
      /\ Ends(u)' <=> Ends(u)
  BY DEF Same
<1>2. /\ Asks(u, "slot")' <=> Asks(u, "slot")
      /\ Asks(u, "dupd")' <=> Asks(u, "dupd")
      /\ Asks(u, "det")' <=> Asks(u, "det")
      /\ Asks(u, "master")' <=> Asks(u, "master")
      /\ Asks(u, "unshare")' <=> Asks(u, "unshare")
      /\ Allocs(u, "tab")' <=> Allocs(u, "tab")
  BY <1>1
<1>3. QED BY <1>1, <1>2 DEF Placed

(* No thread but those of A relies on what the slot x holds, or a valid     *)
(* slot does not matter to it.                                              *)
Quiet(x, A) ==
    \A u \in Thread \ A :
        /\ x \notin Has(u)
        /\ slot'[x].v => /\ ~ (Unshares(u) /\ Own(u) = x)
                         /\ ~ (/\ env.child[u] = x /\ x # None /\ Unborn(x)
                               /\ th[u].pc # "forked")

LEMMA SlotsStep ==
    ASSUME \A u \in Thread : SlotsOf(u), NEW x \in Set, NEW A, env' = env, Quiet(x, A),
           \A s \in Set \ {x} : slot'[s].v = slot[s].v /\ slot'[s].cow = slot[s].cow,
           \A u \in Thread \ A : Same(u), \A u \in Thread : Placed(u),
           \A c \in Set : Unborn(c)' => Unborn(c), env \in Envs
    PROVE  \A u \in Thread \ A : SlotsOf(u)'
<1>1. SUFFICES ASSUME NEW u \in Thread \ A PROVE SlotsOf(u)'
  OBVIOUS
<1>2. /\ \A p \in {"user", "none", "gone", "slot", "got", "master", "share", "map", "dup",
                   "dupd", "forked", "det", "deref", "free", "unshare", "fpset", "vas"} :
            th'[u].pc = p <=> th[u].pc = p
      /\ Own(u)' = Own(u)
      /\ Asks(u, "master")' <=> Asks(u, "master")
      /\ Allocs(u, "fill")' <=> Allocs(u, "fill")
      /\ Allocs(u, "master")' <=> Allocs(u, "master")
      /\ Allocs(u, "write")' <=> Allocs(u, "write")
      /\ Unshares(u)' <=> Unshares(u)
  BY DEF Same
<1>3. SlotsOf(u) /\ Placed(u)
  OBVIOUS
<1>4. \/ Allocs(u, "fill") \/ Asks(u, "master") \/ Allocs(u, "master") \/ Allocs(u, "write")
      \/ th[u].pc \in {"master", "share"}
      => Own(u) \in Has(u) /\ th[u].pc # "none"
  BY DEF Has, HasOwn, Allocs, Asks
<1>5. th[u].pc = "share" \/ Allocs(u, "master") => File \in Has(u)
  BY DEF Has, HasMaster
<1>6. x \notin Has(u)
  BY DEF Quiet
<1>7. th[u].pc # "none" => Own(u) \in Set
  BY <1>3 DEF Placed
<1>8. File \in Set
  BY DEF Set
<1>9. Own(u) \in Has(u) /\ th[u].pc # "none" =>
          slot'[Own(u)].v = slot[Own(u)].v /\ slot'[Own(u)].cow = slot[Own(u)].cow
  BY <1>6, <1>7
<1>10. File \in Has(u) => slot'[File].v = slot[File].v
  BY <1>6, <1>8
<1>11. Unshares(u) => ~ (slot'[Own(u)].v /\ ~ slot'[Own(u)].cow)
  <2>1. Unshares(u) => Own(u) \in Set
    BY <1>7 DEF Unshares, Asks
  <2>2. Unshares(u) /\ Own(u) = x => ~ slot'[x].v
    BY DEF Quiet
  <2>3. Unshares(u) /\ Own(u) # x =>
            slot'[Own(u)].v = slot[Own(u)].v /\ slot'[Own(u)].cow = slot[Own(u)].cow
    BY <2>1
  <2>4. Unshares(u) => ~ (slot[Own(u)].v /\ ~ slot[Own(u)].cow)
    BY <1>3 DEF SlotsOf
  <2>5. QED BY <2>2, <2>3, <2>4
<1>12. env.child[u] # None /\ Unborn(env.child[u])' /\ th[u].pc # "forked" =>
            ~ slot'[env.child[u]].v
  <2>1. HAVE env.child[u] # None /\ Unborn(env.child[u])' /\ th[u].pc # "forked"
  <2>2. PICK c : c = env.child[u]
    OBVIOUS
  <2>3. c \in Set
    BY <2>1, <2>2, EnvAssumption DEF Env
  <2>4. Unborn(c)
    <3>1. Unborn(c)'
      BY <2>1, <2>2 DEF Unborn
    <3>2. QED BY <2>3, <3>1
  <2>5. ~ slot[c].v
    <3>1. env.child[u] # None /\ Unborn(env.child[u]) /\ th[u].pc # "forked"
      BY <2>1, <2>2, <2>4
    <3>2. QED BY <1>3, <2>2, <3>1 DEF SlotsOf
  <2>6. CASE c = x
    BY <2>1, <2>2, <2>4, <2>6 DEF Quiet
  <2>7. CASE c # x
    BY <2>2, <2>3, <2>5, <2>7
  <2>8. QED BY <2>2, <2>6, <2>7
<1>13. /\ Allocs(u, "fill") \/ Asks(u, "master") \/ th[u].pc \in {"master", "share"}
              \/ Allocs(u, "master") => ~ slot[Own(u)].v
       /\ Allocs(u, "master") => ~ slot[File].v
       /\ th[u].pc = "share" => slot[File].v
       /\ Allocs(u, "write") => slot[Own(u)].cow
  BY <1>3 DEF SlotsOf
<1>14. (/\ Allocs(u, "fill") \/ Asks(u, "master") \/ th[u].pc \in {"master", "share"}
              \/ Allocs(u, "master") => ~ slot[Own(u)].v
        /\ Allocs(u, "master") => ~ slot[File].v
        /\ th[u].pc = "share" => slot[File].v
        /\ Allocs(u, "write") => slot[Own(u)].cow)'
  BY <1>2, <1>4, <1>5, <1>9, <1>10, <1>13
<1>15. (env.child[u] # None /\ Unborn(env.child[u]) /\ th[u].pc # "forked" =>
            ~ slot[env.child[u]].v)'
  BY <1>2, <1>12
<1>16. (Unshares(u) => ~ (slot[Own(u)].v /\ ~ slot[Own(u)].cow))'
  BY <1>2, <1>11
<1>17. QED BY <1>14, <1>15, <1>16 DEF SlotsOf

(* No slot's page comes or goes. *)
SlotsFixed == \A s \in Set : /\ slot'[s].v = slot[s].v /\ slot'[s].cow = slot[s].cow
                             /\ slot'[s].f = slot[s].f

LEMMA SlotsSame ==
    ASSUME \A u \in Thread : SlotsOf(u), \A u \in Thread : Placed(u), NEW A, env' = env,
           env \in Envs, SlotsFixed, \A u \in Thread \ A : Same(u),
           \A c \in Set : Unborn(c)' => Unborn(c)
    PROVE  \A u \in Thread \ A : SlotsOf(u)'
<1>1. SUFFICES ASSUME NEW u \in Thread \ A PROVE SlotsOf(u)'
  OBVIOUS
<1>2. /\ \A p \in {"user", "none", "gone", "slot", "got", "master", "share", "map", "dup",
                   "dupd", "forked", "det", "deref", "free", "unshare", "fpset", "vas"} :
            th'[u].pc = p <=> th[u].pc = p
      /\ Own(u)' = Own(u)
      /\ Asks(u, "master")' <=> Asks(u, "master")
      /\ Allocs(u, "fill")' <=> Allocs(u, "fill")
      /\ Allocs(u, "master")' <=> Allocs(u, "master")
      /\ Allocs(u, "write")' <=> Allocs(u, "write")
      /\ Unshares(u)' <=> Unshares(u)
  BY DEF Same
<1>3. SlotsOf(u) /\ Placed(u)
  OBVIOUS
<1>4. \/ Allocs(u, "fill") \/ Asks(u, "master") \/ Allocs(u, "master") \/ Allocs(u, "write")
      \/ th[u].pc \in {"master", "share"} \/ Unshares(u)
      => Own(u) \in Set
  BY <1>3 DEF Placed, Allocs, Asks, Unshares
<1>5. File \in Set
  BY DEF Set
<1>6. /\ Own(u) \in Set => slot'[Own(u)].v = slot[Own(u)].v /\ slot'[Own(u)].cow = slot[Own(u)].cow
      /\ slot'[File].v = slot[File].v
  BY <1>5 DEF SlotsFixed
<1>7. /\ Allocs(u, "fill") \/ Asks(u, "master") \/ th[u].pc \in {"master", "share"}
              \/ Allocs(u, "master") => ~ slot[Own(u)].v
      /\ Allocs(u, "master") => ~ slot[File].v
      /\ th[u].pc = "share" => slot[File].v
      /\ Allocs(u, "write") => slot[Own(u)].cow
      /\ Unshares(u) => ~ (slot[Own(u)].v /\ ~ slot[Own(u)].cow)
  BY <1>3 DEF SlotsOf
<1>8. (/\ Allocs(u, "fill") \/ Asks(u, "master") \/ th[u].pc \in {"master", "share"}
              \/ Allocs(u, "master") => ~ slot[Own(u)].v
       /\ Allocs(u, "master") => ~ slot[File].v
       /\ th[u].pc = "share" => slot[File].v
       /\ Allocs(u, "write") => slot[Own(u)].cow
       /\ Unshares(u) => ~ (slot[Own(u)].v /\ ~ slot[Own(u)].cow))'
  BY <1>2, <1>4, <1>6, <1>7
<1>9. env.child[u] # None /\ Unborn(env.child[u])' /\ th[u].pc # "forked" =>
            ~ slot'[env.child[u]].v
  <2>1. HAVE env.child[u] # None /\ Unborn(env.child[u])' /\ th[u].pc # "forked"
  <2>2. PICK c : c = env.child[u]
    OBVIOUS
  <2>3. c \in Set
    BY <2>1, <2>2, EnvAssumption DEF Env
  <2>4. Unborn(c)
    <3>1. Unborn(c)'
      BY <2>1, <2>2 DEF Unborn
    <3>2. QED BY <2>3, <3>1
  <2>5. env.child[u] # None /\ Unborn(env.child[u]) /\ th[u].pc # "forked"
    BY <2>1, <2>2, <2>4
  <2>6. ~ slot[c].v
    BY <1>3, <2>2, <2>5 DEF SlotsOf
  <2>7. QED BY <2>2, <2>3, <2>6 DEF SlotsFixed
<1>10. (env.child[u] # None /\ Unborn(env.child[u]) /\ th[u].pc # "forked" =>
            ~ slot[env.child[u]].v)'
  BY <1>2, <1>9
<1>11. QED BY <1>8, <1>10 DEF SlotsOf

(* A slot that a thread has locked is nobody else's business. *)
LEMMA HasQuiet ==
    ASSUME Sound, env \in Envs, Locked, \A u \in Thread : Placed(u),
           NEW t \in Thread, NEW x \in Set, x \in Has(t)
    PROVE  Quiet(x, {t}) /\ ~ Daemon1(x) /\ x \notin io
<1>1. ~ Daemon1(x) /\ x \notin io
  BY DEF Locked
<1>2. x = Own(t) \/ x = File
  BY DEF Has
<1>3. th[t].pc # "none" /\ Own(t) # None
  <2>1. th[t].pc # "none"
    BY DEF Has, HasOwn, HasMaster, Asks, Allocs
  <2>2. QED BY <2>1, SetAssumption DEF Placed
<1>4. ASSUME NEW u \in Thread \ {t}
      PROVE  /\ x \notin Has(u)
             /\ ~ (Unshares(u) /\ Own(u) = x)
             /\ ~ (env.child[u] = x /\ x # None /\ Unborn(x))
  <2>1. x \notin Has(u)
    BY DEF Locked
  <2>2. ASSUME Unshares(u), Own(u) = x PROVE FALSE
    <3>1. env.exit /\ Own(u) \in Cow
      BY <2>2 DEF Placed, Ends, Unshares, HasMaster
    <3>2. Own(u) = Own(t)
      BY <1>2, <2>2, <3>1, SetAssumption
    <3>3. QED BY <1>3, <3>1, <3>2 DEF Sound, Own
  <2>3. ASSUME env.child[u] = x, x # None, Unborn(x) PROVE FALSE
    <3>1. x # File
      BY <2>3 DEF Sound
    <3>2. QED BY <1>2, <1>3, <2>3, <3>1 DEF Unborn
  <2>4. QED BY <2>1, <2>2, <2>3
<1>5. QED BY <1>1, <1>4 DEF Quiet

(* Nor is the slot of a set that is going. *)
LEMMA EndsQuiet ==
    ASSUME Sound, env \in Envs, Referred, Listed, \A u \in Thread : Placed(u),
           th \in [Thread -> ThreadState], panic = "none", Locked,
           NEW t \in Thread, Ends(t)
    PROVE  /\ Quiet(th[t].d, {t}) /\ ~ Daemon1(th[t].d) /\ th[t].d \notin io
           /\ th[t].d \in Set /\ refs[th[t].d] = 0
<1> DEFINE x == th[t].d
<1>1. refs[x] = 0
  BY DEF Referred
<1>2. /\ env.exit /\ Own(t) \in Set
      /\ x = Own(t) \/ (x = File /\ Own(t) \in Cow)
  BY DEF Placed, Ends, Unshares, Asks
<1>3. x \in Set /\ Own(t) # None
  BY <1>2, SetAssumption DEF Set
<1>4. ~ Daemon1(x) /\ x \notin io
  BY <1>1 DEF Referred, Live, Daemon1
<1>5. ASSUME NEW u \in Thread \ {t}
      PROVE  /\ x \notin Has(u)
             /\ ~ (Unshares(u) /\ Own(u) = x)
             /\ ~ (env.child[u] = x /\ x # None /\ Unborn(x))
  <2>1. x \notin Has(u)
    BY <1>1, LocksInUse
  <2>2. ASSUME Unshares(u), Own(u) = x PROVE FALSE
    <3>1. Own(u) \in Cow
      BY <2>2 DEF Placed, Unshares, HasMaster
    <3>2. Own(u) = Own(t)
      BY <1>2, <2>2, <3>1, SetAssumption
    <3>3. QED BY <1>2, <1>3, <3>2 DEF Sound, Own
  <2>3. ASSUME env.child[u] = x, x # None, Unborn(x) PROVE FALSE
    <3>1. x # File
      BY <2>3 DEF Sound
    <3>2. th[t].pc # "none"
      BY DEF Ends, Unshares, Asks
    <3>3. QED BY <1>2, <2>3, <3>1, <3>2 DEF Unborn
  <2>4. QED BY <2>1, <2>2, <2>3
<1>6. QED BY <1>1, <1>3, <1>4, <1>5 DEF Quiet

-----------------------------------------------------------------------------
(* The steps of a thread                                                    *)

(* Thread t goes on as r, having given up the slot locks of R; those who    *)
(* waited for them, and M, who waited for a page that is freed, are woken.  *)
Loosed(t, r, R, M) ==
    /\ th' = [u \in Thread |-> IF u = t THEN r
                               ELSE IF u \in M \cup UNION {Waiters(s) : s \in R}
                               THEN Woken(th[u]) ELSE th[u]]
    /\ lk' = [s \in Set |-> IF s \in R THEN Loosen(lk[s]) ELSE lk[s]]
    /\ \/ M = {} /\ memw' = memw
       \/ M = VWakes(memw) /\ Blocked(memw) /\ memw' = VSema(memw)

LEMMA ThreadsTyped ==
    ASSUME th \in [Thread -> ThreadState], NEW A, th' = [u \in Thread |-> th'[u]],
           \A u \in Thread \ A : Aside(u), \A u \in Thread \cap A : th'[u] \in ThreadState
    PROVE  th' \in [Thread -> ThreadState]
<1>1. ASSUME NEW u \in Thread \ A PROVE th'[u] \in ThreadState
  <2>1. th[u] \in ThreadState /\ Aside(u)
    OBVIOUS
  <2>2. CASE th'[u] = th[u]
    BY <2>1, <2>2
  <2>3. CASE th'[u] = Woken(th[u])
    BY <2>1, <2>3 DEF Woken, ThreadState
  <2>4. QED BY <2>1, <2>2, <2>3 DEF Aside
<1>2. QED BY <1>1

LEMMA LoosedStep ==
    ASSUME IInv, NEW t \in Thread, NEW r \in ThreadState, NEW R, NEW M, Loosed(t, r, R, M),
           R \subseteq Has(t), env' = env, dm' = dm, io' = io,
           th[t].pc \notin {"lkw", "memw"}, r.pc \notin {"lk", "lkw", "memw"},
           Has(t)' \subseteq Has(t) \ R,
           \A u \in Thread \ {t} : Allocs(u, "tab") => tab'[Own(u)] = None
    PROVE  /\ Locked' /\ Counted' /\ Asleep' /\ lk' \in [Set -> SlotLock]
           /\ th' \in [Thread -> ThreadState] /\ th'[t] = r
           /\ \A u \in Thread \ {t} : Same(u) /\ Keeps(u) /\ Placed(u)'
<1>1. /\ th \in [Thread -> ThreadState] /\ lk \in [Set -> SlotLock] /\ io \subseteq Set
      /\ Locked /\ Counted /\ Asleep /\ \A u \in Thread : Placed(u)
  BY DEF IInv, Types
<1>2. /\ th' = [u \in Thread |-> th'[u]] /\ th'[t] = r
      /\ \A u \in Thread \ {t} :
             th'[u] = IF u \in M \cup UNION {Waiters(s) : s \in R}
                      THEN Woken(th[u]) ELSE th[u]
      /\ lk' = [s \in Set |-> IF s \in R THEN Loosen(lk[s]) ELSE lk[s]]
      /\ \/ M = {} /\ memw' = memw
         \/ M = VWakes(memw) /\ Blocked(memw) /\ memw' = VSema(memw)
  BY DEF Loosed
<1>3. R \subseteq Set
  <2>1. th[t].pc # "none" \/ Has(t) = {}
    BY DEF Has, HasOwn, HasMaster, Asks, Allocs
  <2>2. Has(t) \subseteq {Own(t), File} /\ File \in Set
    BY DEF Has, Set
  <2>3. QED BY <1>1, <2>1, <2>2 DEF Placed
<1>4. Asleep' /\ \A u \in Thread \ {t} : Aside(u)
  <2>1. \A u \in {t} \cap Thread : /\ th[u].pc \notin {"lkw", "memw"}
                                   /\ th'[u].pc \notin {"lkw", "memw"}
    BY <1>2
  <2>2. QED BY ONLY <1>1, <1>2, <1>3, <2>1, AsleepLoosed
<1>5. th' \in [Thread -> ThreadState]
  <2>1. \A u \in Thread \cap {t} : th'[u] \in ThreadState
    BY <1>2
  <2>2. /\ th \in [Thread -> ThreadState] /\ th' = [u \in Thread |-> th'[u]]
        /\ \A u \in Thread \ {t} : Aside(u)
    BY <1>1, <1>2, <1>4
  <2>3. QED BY ONLY <2>1, <2>2, ThreadsTyped
<1>6. \A u \in Thread \ {t} : Same(u)
  BY <1>1, <1>4, AsideIs
<1>7. SameLocks(t) /\ Seeks(t)' = {}
  <2>1. SameLocks(t)
    BY <1>6 DEF SameLocks, Same
  <2>2. Seeks(t)' = {}
    BY <1>2 DEF Seeks
  <2>3. QED BY <2>1, <2>2
<1>8. Locked' /\ Counted' /\ lk' \in [Set -> SlotLock]
  BY <1>1, <1>2, <1>7, LocksLoosed
<1>9. ASSUME NEW u \in Thread \ {t} PROVE Keeps(u) /\ Placed(u)'
  BY <1>1, <1>6, SameKeeps, PlacedAside
<1>10. QED BY <1>2, <1>4, <1>5, <1>6, <1>8, <1>9

LEMMA PlainIs ==
    ASSUME lk \in [Set -> SlotLock], th \in [Thread -> ThreadState], NEW t \in Thread,
           lk' = lk, memw' = memw, \A u \in Thread \ {t} : th'[u] = th[u],
           th' = [u \in Thread |-> th'[u]]
    PROVE  Loosed(t, th'[t], {}, {})
<1>1. th' = [u \in Thread |-> IF u = t THEN th'[t]
                              ELSE IF u \in {} \cup UNION {Waiters(s) : s \in {}}
                              THEN Woken(th[u]) ELSE th[u]]
  OBVIOUS
<1>2. QED BY <1>1 DEF Loosed

LEMMA UnlockIs ==
    ASSUME lk \in [Set -> SlotLock], NEW s \in Set
    PROVE  /\ Unlock(lk, s) = [x \in Set |-> IF x \in {s} THEN Loosen(lk[x]) ELSE lk[x]]
           /\ UNION {Waiters(x) : x \in {s}} = Waiters(s)
BY DEF Unlock

(* unlock_slot() of the one slot s. *)
LEMMA UnlockedIs ==
    ASSUME lk \in [Set -> SlotLock], th \in [Thread -> ThreadState], NEW t \in Thread,
           NEW s \in Set, lk' = Unlock(lk, s), memw' = memw,
           \A u \in Thread \ {t} : th'[u] = Wake(th, Waiters(s))[u],
           th' = [u \in Thread |-> th'[u]]
    PROVE  Loosed(t, th'[t], {s}, {})
<1>1. lk' = [x \in Set |-> IF x \in {s} THEN Loosen(lk[x]) ELSE lk[x]]
      /\ {} \cup UNION {Waiters(x) : x \in {s}} = Waiters(s)
  BY UnlockIs
<1>2. \A u \in Thread \ {t} : th'[u] = IF u \in Waiters(s) THEN Woken(th[u]) ELSE th[u]
  BY DEF Wake
<1>3. th' = [u \in Thread |-> IF u = t THEN th'[t]
                              ELSE IF u \in {} \cup UNION {Waiters(x) : x \in {s}}
                              THEN Woken(th[u]) ELSE th[u]]
  BY <1>1, <1>2
<1>4. QED BY <1>1, <1>3 DEF Loosed

(* Thread t looks at the lock of s and goes on as r. *)
Asked(t, r, s, k) ==
    /\ th' = [th EXCEPT ![t] = r]
    /\ lk' = [lk EXCEPT ![s] = Looked(lk[s], k, t)]
    /\ memw' = memw
    /\ IF lk[s].held THEN r.pc = "lkw" /\ r.ls = s ELSE r.pc \notin {"lk", "lkw", "memw"}

LEMMA AskedStep ==
    ASSUME IInv, NEW t \in Thread, NEW r \in ThreadState, NEW s \in Set, NEW k \in {0, 1},
           Asked(t, r, s, k), env' = env, dm' = dm, io' = io, tab' = tab,
           th[t].pc \notin {"lkw", "memw"},
           k = 1 => s \notin Has(t) /\ Seeks(t) = {}, k = 0 => Seeks(t) = {s},
           Has(t)' = Has(t) \cup (IF lk[s].held THEN {} ELSE {s})
    PROVE  /\ Locked' /\ Counted' /\ Asleep' /\ lk' \in [Set -> SlotLock]
           /\ th' \in [Thread -> ThreadState] /\ th'[t] = r
           /\ \A u \in Thread \ {t} : Same(u) /\ Keeps(u) /\ Placed(u)'
<1>1. /\ th \in [Thread -> ThreadState] /\ lk \in [Set -> SlotLock] /\ io \subseteq Set
      /\ Locked /\ Counted /\ Asleep /\ \A u \in Thread : Placed(u)
  BY DEF IInv, Types
<1>2. /\ th' \in [Thread -> ThreadState] /\ th'[t] = r
      /\ \A u \in Thread \ {t} : th'[u] = th[u]
      /\ lk' = [lk EXCEPT ![s] = Looked(lk[s], k, t)] /\ memw' = memw
      /\ IF lk[s].held THEN r.pc = "lkw" /\ r.ls = s ELSE r.pc \notin {"lk", "lkw", "memw"}
  BY <1>1 DEF Asked
<1>4. Asleep' /\ \A u \in Thread \ {t} : Aside(u)
  <2>1. /\ th[t].pc \notin {"lkw", "memw"} /\ th'[t].pc # "memw"
        /\ IF lk[s].held THEN th'[t].pc = "lkw" /\ th'[t].ls = s ELSE th'[t].pc # "lkw"
    BY <1>2
  <2>2. QED BY <1>1, <1>2, <2>1, AsleepAsked
<1>6. \A u \in Thread \ {t} : Same(u)
  BY <1>1, <1>4, AsideIs
<1>7. SameLocks(t) /\ Seeks(t)' = (IF lk[s].held THEN {s} ELSE {})
  <2>1. SameLocks(t)
    BY <1>6 DEF SameLocks, Same
  <2>2. Seeks(t)' = (IF lk[s].held THEN {s} ELSE {})
    BY <1>2 DEF Seeks
  <2>3. QED BY <2>1, <2>2
<1>8. Locked' /\ Counted' /\ lk' \in [Set -> SlotLock]
  BY <1>1, <1>2, <1>7, LocksAsked
<1>9. ASSUME NEW u \in Thread \ {t} PROVE Keeps(u) /\ Placed(u)'
  <2>1. Same(u) /\ Placed(u) /\ tab' = tab
    BY <1>1, <1>6
  <2>2. Allocs(u, "tab") => tab'[Own(u)] = None
    BY <2>1 DEF Placed
  <2>3. QED BY <2>1, <2>2, SameKeeps, PlacedAside
<1>10. QED BY <1>2, <1>4, <1>6, <1>8, <1>9

-----------------------------------------------------------------------------
(* Steps that move no page                                                  *)

LEMMA ForSame ==
    ASSUME NEW u, Same(u), env' = env
    PROVE  For(u)' = For(u)
BY DEF Same, For, Own

LEMMA PointedSame ==
    ASSUME Pointed, env' = env, core' = core, \A s \in Set : SlotFrame(s)' = SlotFrame(s),
           \A u \in Thread : th'[u].f = th[u].f,
           \A u \in Thread : th'[u].pc = "got" => th[u].pc = "got" /\ For(u)' = For(u)
    PROVE  Pointed'
<1>1. ASSUME env.steal
      PROVE  /\ \A u \in Thread : th'[u].pc = "got" => core'[th'[u].f].s = For(u)'
             /\ \A f \in Frame : core'[f].alloc =>
                   \/ \E u \in Thread : th'[u].f = f
                   \/ core'[f].s \in Set /\ SlotFrame(core[f].s)' = f
  BY <1>1 DEF Pointed
<1>2. ASSUME env.steal, NEW f \in Frame, core'[f].alloc
      PROVE  (\E u \in Thread : th[u].f = f)' \/ (core[f].s \in Set /\ SlotFrame(core[f].s) = f)'
  <2>1. PICK s : s = core[f].s
    OBVIOUS
  <2>2. core'[f].s = s
    BY <2>1
  <2>3. (SlotFrame(core[f].s) = f)' <=> (SlotFrame(s) = f)'
    BY <2>2 DEF SlotFrame
  <2>4. \/ \E u \in Thread : th[u].f = f
        \/ s \in Set /\ SlotFrame(s) = f
    BY <1>2, <2>1 DEF Pointed
  <2>5. QED BY <2>2, <2>3, <2>4
<1>3. QED BY <1>1, <1>2 DEF Pointed

(* A step of t that changes no reference to a set, nor what a slot holds. *)
LEMMA StepSlots ==
    ASSUME IInv, NEW t \in Thread, env' = env, refs' = refs, cowsets' = cowsets,
           dm' = dm, io' = io, panic' = panic, SlotsFixed,
           \A u \in Thread \ {t} : Same(u) /\ Keeps(u), Keeps(t), SlotsOf(t)'
    PROVE  Referred' /\ Listed' /\ Slots' /\ \A s \in Set : SlotFrame(s)' = SlotFrame(s)
<1>1. /\ env \in Envs /\ Referred /\ Listed /\ Slots
      /\ io \subseteq Set /\ Locked /\ \A u \in Thread : Placed(u)
  BY DEF IInv, Types
<1>2. Live'
  BY <1>1 DEF Referred, Live
<1>3. Referred' /\ Listed'
  BY <1>1, <1>2, RefsKept
<1>4. \A c \in Set : Unborn(c)' => Unborn(c)
  BY DEF Unborn, Keeps
<1>5. \A u \in Thread : SlotsOf(u)'
  <2>1. \A u \in Thread : SlotsOf(u)
    BY <1>1 DEF Slots
  <2>2. \A u \in Thread \ {t} : SlotsOf(u)'
    BY <1>1, <1>4, <2>1, SlotsSame
  <2>3. QED BY <2>2
<1>6. \A s \in Set : SlotShape(s)'
  BY <1>1 DEF Slots, SlotShape, SlotsFixed
<1>7. (dm.pc # "idle" => slot[dm.s].v /\ ~ slot[dm.s].cow)'
  BY <1>1 DEF Slots, SlotsFixed, Locked
<1>8. (\A s \in io : slot[s].v /\ ~ slot[s].cow)'
  BY <1>1 DEF Slots, SlotsFixed
<1>9. \A s \in Set : SlotFrame(s)' = SlotFrame(s)
  BY DEF SlotsFixed, SlotFrame
<1>10. QED BY <1>3, <1>5, <1>6, <1>7, <1>8, <1>9 DEF Slots

(* ... and moves no page. *)
LEMMA StepFixed ==
    ASSUME IInv, NEW t \in Thread, env' = env, refs' = refs, cowsets' = cowsets, tab' = tab,
           free' = free, core' = core, dm' = dm, io' = io, panic' = panic, SlotsFixed,
           \A u \in Thread \ {t} : Same(u) /\ Keeps(u), Keeps(t), SlotsOf(t)',
           th'[t].f = th[t].f, th'[t].pc # "got"
    PROVE  Referred' /\ Listed' /\ Slots' /\ Framed' /\ Pointed'
<1>1. Framed /\ Pointed
  BY DEF IInv
<1>2. Referred' /\ Listed' /\ Slots' /\ \A s \in Set : SlotFrame(s)' = SlotFrame(s)
  BY StepSlots
<1>3. \A u \in Thread : th'[u].f = th[u].f
  BY DEF Same
<1>4. Framed'
  BY <1>1, <1>2, <1>3, FramedSame DEF Elsewhere
<1>5. \A u \in Thread : th'[u].pc = "got" => th[u].pc = "got" /\ For(u)' = For(u)
  BY ForSame DEF Same
<1>6. Pointed'
  BY <1>1, <1>2, <1>3, <1>5, PointedSame
<1>7. QED BY <1>2, <1>4, <1>6

(* The frames slots, page tables and threads have are in use, and one       *)
(* frame is had once.                                                       *)
LEMMA HadOnce ==
    ASSUME Framed
    PROVE  /\ \A s \in Set : /\ SlotFrame(s) \in (env.frames \ Range(free)) \cup {None}
                             /\ tab[s] \in (env.frames \ Range(free)) \cup {None}
           /\ \A u \in Thread : th[u].f \in (env.frames \ Range(free)) \cup {None}
           /\ \A u, v \in Thread : th[u].f = th[v].f /\ th[u].f # None => u = v
           /\ \A r, s \in Set : SlotFrame(r) = SlotFrame(s) /\ SlotFrame(r) # None => r = s
           /\ \A s \in Set, u \in Thread : SlotFrame(s) = th[u].f => th[u].f = None
           /\ \A s, r \in Set : SlotFrame(s) = tab[r] => tab[r] = None
           /\ \A s \in Set, u \in Thread : tab[s] = th[u].f => th[u].f = None
<1> DEFINE F == Frames
           X == (env.frames \ Range(free)) \cup {None}
<1>1. /\ \A o \in DOMAIN F : F[o] \in X
      /\ \A o, p \in DOMAIN F : F[o] = F[p] /\ F[o] # None => o = p
  BY DEF Framed, EachOnce
<1>2. /\ DOMAIN F = Owner
      /\ \A s \in Set : /\ <<"slot", s>> \in Owner /\ <<"tab", s>> \in Owner
                        /\ F[<<"slot", s>>] = SlotFrame(s) /\ F[<<"tab", s>>] = tab[s]
      /\ \A t \in Thread : <<"hand", t>> \in Owner /\ F[<<"hand", t>>] = th[t].f
  BY FramesAre
<1> HIDE DEF F, X
<1>3. /\ \A s \in Set : SlotFrame(s) \in X /\ tab[s] \in X
      /\ \A u \in Thread : th[u].f \in X
  BY <1>1, <1>2
<1>4. ASSUME NEW u \in Thread, NEW v \in Thread, th[u].f = th[v].f, th[u].f # None
      PROVE  u = v
  <2>1. <<"hand", u>> = <<"hand", v>>
    BY <1>1, <1>2, <1>4
  <2>2. QED BY <2>1
<1>5. ASSUME NEW r \in Set, NEW s \in Set, SlotFrame(r) = SlotFrame(s), SlotFrame(r) # None
      PROVE  r = s
  <2> DEFINE o == <<"slot", r>>
             p == <<"slot", s>>
  <2>a. /\ o \in Owner /\ p \in Owner
        /\ F[o] = SlotFrame(r) /\ F[p] = SlotFrame(s)
    BY <1>2
  <2> HIDE DEF o, p
  <2>b. o = p
    BY <1>1, <1>2, <1>5, <2>a
  <2>1. <<"slot", r>> = <<"slot", s>>
    BY <2>b DEF o, p
  <2>2. QED BY <2>1
<1>6. ASSUME NEW s \in Set, NEW u \in Thread, SlotFrame(s) = th[u].f PROVE th[u].f = None
  <2>1. <<"slot", s>> # <<"hand", u>>
    OBVIOUS
  <2>2. QED BY <1>1, <1>2, <1>6, <2>1
<1>7. ASSUME NEW s \in Set, NEW r \in Set, SlotFrame(s) = tab[r] PROVE tab[r] = None
  <2>1. <<"slot", s>> # <<"tab", r>>
    OBVIOUS
  <2>2. QED BY <1>1, <1>2, <1>7, <2>1
<1>8. ASSUME NEW s \in Set, NEW u \in Thread, tab[s] = th[u].f PROVE th[u].f = None
  <2>1. <<"tab", s>> # <<"hand", u>>
    OBVIOUS
  <2>2. QED BY <1>1, <1>2, <1>8, <2>1
<1>9. QED BY <1>3, <1>4, <1>5, <1>6, <1>7, <1>8 DEF X

-----------------------------------------------------------------------------
(* Faults                                                                   *)

(* lock_slot() by a thread that is otherwise in state q. *)
LockedAs(q, s, next) ==
    IF lk[s].held THEN [q EXCEPT !.pc = "lkw", !.ls = s, !.to = next]
    ELSE [q EXCEPT !.pc = next]

LEMMA LockIs ==
    ASSUME th \in [Thread -> ThreadState], NEW t \in Thread, NEW s \in Set,
           NEW q \in ThreadState, NEW g, g = [th EXCEPT ![t] = q], memw' = memw,
           NEW next \in {"slot", "master", "dupd", "det", "unshare"}, Lock(g, t, s, next)
    PROVE  LET r == LockedAs(q, s, next) IN
           /\ r \in ThreadState /\ Asked(t, r, s, 1)
           /\ r.w = q.w /\ r.f = q.f /\ r.why = q.why /\ r.d = q.d
           /\ IF lk[s].held THEN r.pc = "lkw" /\ r.ls = s /\ r.to = next
              ELSE r.pc = next /\ r.ls = q.ls /\ r.to = q.to
<1> DEFINE r == LockedAs(q, s, next)
<1>1. /\ r \in ThreadState
      /\ r.w = q.w /\ r.f = q.f /\ r.why = q.why /\ r.d = q.d
      /\ IF lk[s].held THEN r.pc = "lkw" /\ r.ls = s /\ r.to = next
         ELSE r.pc = next /\ r.ls = q.ls /\ r.to = q.to
  BY DEF LockedAs, ThreadState
<1>2. th' = [th EXCEPT ![t] = r]
  BY DEF Lock, LockedAs
<1>3. lk' = [lk EXCEPT ![s] = Looked(lk[s], 1, t)]
  BY DEF Lock, Looked
<1>4. r.pc \notin {"lk", "lkw", "memw"} \/ lk[s].held
  BY <1>1
<1> HIDE DEF r
<1>5. Asked(t, r, s, 1)
  BY <1>1, <1>2, <1>3, <1>4 DEF Asked
<1>6. QED BY <1>1, <1>5 DEF r

(* The setting, for any thread. *)
LEMMA EnvIs ==
    ASSUME env \in Envs, NEW t \in Thread
    PROVE  /\ env.map[t] \in Set \cup {None} /\ env.child[t] \in Set \cup {None}
           /\ Own(t) = env.map[t] /\ env.frames \subseteq Frame
           /\ env.steal \in BOOLEAN /\ env.exit \in BOOLEAN /\ env.tables \in BOOLEAN
BY EnvAssumption DEF Env, Own

LEMMA StepFault ==
    ASSUME Sound, IInv, NEW t \in Thread, NEW w \in BOOLEAN, Fault(t, w)
    PROVE  IInv'
<1> DEFINE s == Own(t)
           q == [th[t] EXCEPT !.w = w]
           r == LockedAs(q, s, "slot")
<1>1. /\ Types /\ Placed(t) /\ SlotsOf(t) /\ th[t] \in ThreadState
      /\ th \in [Thread -> ThreadState]
  BY DEF IInv, Types, Slots
<1>2. /\ th[t].pc = "user" /\ Lock([th EXCEPT ![t].w = w], t, s, "slot")
      /\ env' = env /\ slot' = slot /\ refs' = refs /\ cowsets' = cowsets /\ atl' = atl
      /\ pt' = pt /\ tab' = tab /\ core' = core /\ free' = free /\ memw' = memw
      /\ data' = data /\ swap' = swap /\ io' = io /\ dm' = dm /\ panic' = panic
  BY DEF Fault, At, sets, maps, pool
<1>3. s \in Set /\ q \in ThreadState
      /\ q.f = th[t].f /\ q.why = th[t].why /\ q.d = th[t].d /\ q.ls = th[t].ls
      /\ q.to = th[t].to
  BY <1>1, <1>2 DEF Placed, ThreadState
<1>4. [th EXCEPT ![t].w = w] = [th EXCEPT ![t] = q]
  BY <1>1
<1> HIDE DEF q
<1>5. /\ r \in ThreadState /\ Asked(t, r, s, 1)
      /\ r.w = q.w /\ r.f = q.f /\ r.why = q.why /\ r.d = q.d
      /\ IF lk[s].held THEN r.pc = "lkw" /\ r.ls = s /\ r.to = "slot"
         ELSE r.pc = "slot" /\ r.ls = q.ls /\ r.to = q.to
  <2>1. PICK g, x : g = [th EXCEPT ![t].w = w] /\ x = s
    OBVIOUS
  <2>2. Lock(g, t, x, "slot") /\ g = [th EXCEPT ![t] = q] /\ x \in Set /\ q \in ThreadState
    BY <1>2, <1>3, <1>4, <2>1
  <2>3. th \in [Thread -> ThreadState] /\ memw' = memw
    BY <1>1, <1>2
  <2> DEFINE l == LockedAs(q, x, "slot")
  <2>4. /\ l \in ThreadState /\ Asked(t, l, x, 1)
        /\ l.w = q.w /\ l.f = q.f /\ l.why = q.why /\ l.d = q.d
        /\ IF lk[x].held THEN l.pc = "lkw" /\ l.ls = x /\ l.to = "slot"
           ELSE l.pc = "slot" /\ l.ls = q.ls /\ l.to = q.to
    BY ONLY <2>2, <2>3, LockIs
  <2>5. l = r
    BY <2>1
  <2> HIDE DEF l, r
  <2>6. QED BY <2>1, <2>4, <2>5
<1> HIDE DEF r
<1>6. th'[t] = r
  BY <1>1, <1>5 DEF Asked
<1>7. /\ Has(t) = {} /\ Seeks(t) = {}
      /\ Has(t)' = Has(t) \cup (IF lk[s].held THEN {} ELSE {s})
  BY <1>2, <1>5, <1>6 DEF Has, Seeks, HasOwn, HasMaster, Asks, Allocs, Own
<1>8. /\ Locked' /\ Counted' /\ Asleep' /\ lk' \in [Set -> SlotLock]
      /\ th' \in [Thread -> ThreadState] /\ th'[t] = r
      /\ \A u \in Thread \ {t} : Same(u) /\ Keeps(u) /\ Placed(u)'
  BY <1>2, <1>3, <1>5, <1>7, AskedStep
<1>9. Keeps(t)
  BY <1>2, <1>5, <1>6 DEF Keeps, Views, Forks, Detaches, Ends, Unshares, Asks, Allocs, Own
<1>10. Placed(t)'
  BY <1>1, <1>2, <1>3, <1>5, <1>6
     DEF Placed, Asks, Allocs, Ends, Forks, Unshares, HasMaster, Own
<1>11. SlotsOf(t)'
  <2>1. env.child[t] # None /\ Unborn(env.child[t])' => ~ slot[env.child[t]].v
    <3>1. PICK c : c = env.child[t]
      OBVIOUS
    <3>2. Unborn(c)' => Unborn(c)
      BY <1>8, <1>9 DEF Unborn, Keeps
    <3>3. Unborn(env.child[t])' => Unborn(c)'
      BY <1>2, <3>1 DEF Unborn
    <3>4. QED BY <1>1, <1>2, <3>1, <3>2, <3>3 DEF SlotsOf
  <2>2. QED BY <1>2, <1>5, <1>6, <2>1 DEF SlotsOf, Asks, Allocs, Unshares
<1>12. Referred' /\ Listed' /\ Slots' /\ Framed' /\ Pointed'
  BY <1>2, <1>3, <1>5, <1>6, <1>8, <1>9, <1>11, StepFixed DEF SlotsFixed
<1>13. Types'
  BY <1>1, <1>2, <1>8 DEF Types
<1>14. QED BY <1>8, <1>10, <1>12, <1>13 DEF IInv

(* The slot of a copy nobody runs in yet stays empty. *)
LEMMA CopyEmpty ==
    ASSUME env \in Envs, NEW t \in Thread, SlotsOf(t), env' = env, SlotsFixed,
           \A u \in Thread : Keeps(u), th[t].pc = "forked" => th'[t].pc = "forked"
    PROVE  (env.child[t] # None /\ Unborn(env.child[t]) /\ th[t].pc # "forked" =>
                ~ slot[env.child[t]].v)'
<1>1. PICK c : c = env.child[t]
  OBVIOUS
<1>2. Unborn(c)' => Unborn(c)
  BY DEF Unborn, Keeps
<1>3. Unborn(env.child[t])' => Unborn(c)'
  BY <1>1 DEF Unborn
<1>4. c # None => c \in Set
  BY <1>1, EnvIs
<1>5. c # None /\ Unborn(c) /\ th[t].pc # "forked" => ~ slot[c].v
  BY <1>1 DEF SlotsOf
<1>6. QED BY <1>1, <1>2, <1>3, <1>4, <1>5 DEF SlotsFixed

LEMMA PlainStep ==
    ASSUME IInv, NEW t \in Thread, NEW r \in ThreadState, th' = [th EXCEPT ![t] = r],
           lk' = lk, memw' = memw, env' = env, dm' = dm, io' = io, tab' = tab,
           th[t].pc \notin {"lkw", "memw"}, r.pc \notin {"lk", "lkw", "memw"},
           Has(t)' \subseteq Has(t)
    PROVE  /\ Locked' /\ Counted' /\ Asleep' /\ lk' \in [Set -> SlotLock]
           /\ th' \in [Thread -> ThreadState] /\ th'[t] = r
           /\ \A u \in Thread \ {t} : Same(u) /\ Keeps(u) /\ Placed(u)'
<1>1. /\ lk \in [Set -> SlotLock] /\ th \in [Thread -> ThreadState]
      /\ \A u \in Thread : Placed(u)
  BY DEF IInv, Types
<1>2. Loosed(t, r, {}, {})
  <2>1. th'[t] = r /\ th' = [u \in Thread |-> th'[u]] /\ \A u \in Thread \ {t} : th'[u] = th[u]
    BY <1>1
  <2>2. Loosed(t, th'[t], {}, {})
    BY <1>1, <2>1, PlainIs
  <2>3. QED BY <2>1, <2>2
<1>3. \A u \in Thread \ {t} : Allocs(u, "tab") => tab'[Own(u)] = None
  BY <1>1 DEF Placed
<1>4. QED BY <1>2, <1>3, LoosedStep

LEMMA StepRelock ==
    ASSUME Sound, IInv, NEW t \in Thread, Relock(t)
    PROVE  IInv'
<1> DEFINE s == th[t].ls
           r == [th[t] EXCEPT !.pc = IF lk[s].held THEN "lkw" ELSE th[t].to]
<1>1. /\ Types /\ Placed(t) /\ SlotsOf(t) /\ th[t] \in ThreadState
      /\ th \in [Thread -> ThreadState] /\ env \in Envs
  BY DEF IInv, Types, Slots
<1>2. /\ th[t].pc = "lk" /\ lk' = [lk EXCEPT ![s] = Ask(lk[s], t)]
      /\ th' = [th EXCEPT ![t].pc = IF lk[s].held THEN "lkw" ELSE th[t].to]
      /\ env' = env /\ slot' = slot /\ refs' = refs /\ cowsets' = cowsets /\ atl' = atl
      /\ pt' = pt /\ tab' = tab /\ core' = core /\ free' = free /\ memw' = memw
      /\ data' = data /\ swap' = swap /\ io' = io /\ dm' = dm /\ panic' = panic
  BY DEF Relock, At, Go, sets, maps, pool
<1>3. /\ s = Own(t) \/ s = File
      /\ th[t].to \in {"slot", "master", "dupd", "det", "unshare"}
      /\ Own(t) \in Set /\ s \in Set /\ File \in Set
      /\ th[t].to \in {"slot", "dupd", "det"} => s = Own(t)
      /\ th[t].to \in {"master", "unshare"} => s = File /\ Own(t) \in Cow
      /\ th[t].f = None
  BY <1>1, <1>2 DEF Placed, Asks, ThreadState, Set
<1>4. /\ r \in ThreadState /\ r.f = None
      /\ r.ls = s /\ r.to = th[t].to /\ r.why = th[t].why /\ r.d = th[t].d
      /\ r.pc = IF lk[s].held THEN "lkw" ELSE th[t].to
  BY <1>1, <1>3 DEF ThreadState
<1>5. th' = [th EXCEPT ![t] = r]
  BY <1>1, <1>2
<1>6. lk' = [lk EXCEPT ![s] = Looked(lk[s], 0, t)]
  <2>1. lk[s] \in SlotLock
    BY <1>1, <1>3 DEF Types
  <2>2. [lk[s] EXCEPT !.n = lk[s].n + 0] = lk[s]
    <3> DEFINE l == lk[s]
    <3>1. l \in SlotLock
      BY <2>1
    <3> HIDE DEF l
    <3>2. l.n + 0 = l.n
      BY <3>1 DEF SlotLock
    <3>3. [l EXCEPT !.n = l.n] = l
      BY <3>1 DEF SlotLock
    <3>4. QED BY <3>2, <3>3 DEF l
  <2>3. QED BY <1>2, <2>2 DEF Looked
<1> HIDE DEF r
<1>7. Asked(t, r, s, 0)
  BY <1>2, <1>3, <1>4, <1>5, <1>6 DEF Asked
<1>8. th'[t] = r
  BY <1>1, <1>5
<1>9. /\ Seeks(t) = {s}
      /\ Has(t)' = Has(t) \cup (IF lk[s].held THEN {} ELSE {s})
  BY <1>2, <1>3, <1>4, <1>8 DEF Has, Seeks, HasOwn, HasMaster, Asks, Allocs, Own
<1>10. /\ Locked' /\ Counted' /\ Asleep' /\ lk' \in [Set -> SlotLock]
       /\ th' \in [Thread -> ThreadState] /\ th'[t] = r
       /\ \A u \in Thread \ {t} : Same(u) /\ Keeps(u) /\ Placed(u)'
  BY <1>2, <1>3, <1>4, <1>7, <1>9, AskedStep
<1>11. Keeps(t)
  BY <1>2, <1>3, <1>4, <1>8
     DEF Keeps, Views, Forks, Detaches, Ends, Unshares, Asks, Allocs, Own
<1>12. Placed(t)'
  BY <1>1, <1>2, <1>3, <1>4, <1>8
     DEF Placed, Asks, Allocs, Ends, Forks, Unshares, HasMaster, Own
<1>13. SlotsOf(t)'
  <2>1. SlotsFixed /\ \A u \in Thread : Keeps(u)
    BY <1>2, <1>10, <1>11 DEF SlotsFixed
  <2>2. (env.child[t] # None /\ Unborn(env.child[t]) /\ th[t].pc # "forked" =>
             ~ slot[env.child[t]].v)'
    BY <1>1, <1>2, <2>1, CopyEmpty
  <2>3. QED BY <1>1, <1>2, <1>3, <1>4, <1>8, <2>2 DEF SlotsOf, Asks, Allocs, Unshares, Own
<1>14. Referred' /\ Listed' /\ Slots' /\ Framed' /\ Pointed'
  <2>1. th'[t].f = th[t].f /\ th'[t].pc # "got"
    BY <1>3, <1>4, <1>8
  <2>2. QED BY <1>2, <1>10, <1>11, <1>13, <2>1, StepFixed DEF SlotsFixed
<1>15. Types'
  BY <1>1, <1>2, <1>10 DEF Types
<1>16. QED BY <1>10, <1>12, <1>14, <1>15 DEF IInv

LEMMA StepLockMaster ==
    ASSUME Sound, IInv, NEW t \in Thread, LockMaster(t)
    PROVE  IInv'
<1> DEFINE q == th[t]
           r == LockedAs(q, File, "master")
<1>1. /\ Types /\ Placed(t) /\ SlotsOf(t) /\ th[t] \in ThreadState
      /\ th \in [Thread -> ThreadState] /\ env \in Envs
  BY DEF IInv, Types, Slots
<1>2. /\ th[t].pc = "slot" /\ Lock(th, t, File, "master")
      /\ Own(t) \in Cow /\ ~ slot[Own(t)].v
      /\ env' = env /\ slot' = slot /\ refs' = refs /\ cowsets' = cowsets /\ atl' = atl
      /\ pt' = pt /\ tab' = tab /\ core' = core /\ free' = free /\ memw' = memw
      /\ data' = data /\ swap' = swap /\ io' = io /\ dm' = dm /\ panic' = panic
  BY DEF LockMaster, At, sets, maps, pool
<1>3. File \in Set /\ Own(t) # File /\ Own(t) \in Set /\ th[t].f = None
  BY <1>1, <1>2, SetAssumption DEF Placed, Set
<1>4. th = [th EXCEPT ![t] = q]
  BY <1>1
<1>5. /\ r \in ThreadState /\ Asked(t, r, File, 1)
      /\ r.w = q.w /\ r.f = q.f /\ r.why = q.why /\ r.d = q.d
      /\ IF lk[File].held THEN r.pc = "lkw" /\ r.ls = File /\ r.to = "master"
         ELSE r.pc = "master" /\ r.ls = q.ls /\ r.to = q.to
  BY <1>1, <1>2, <1>3, <1>4, LockIs
<1> HIDE DEF r
<1>6. th'[t] = r
  BY <1>1, <1>5 DEF Asked
<1>7. /\ Has(t) = {Own(t)} /\ Seeks(t) = {}
      /\ Has(t)' = Has(t) \cup (IF lk[File].held THEN {} ELSE {File})
  BY <1>2, <1>5, <1>6 DEF Has, Seeks, HasOwn, HasMaster, Asks, Allocs, Own
<1>8. /\ Locked' /\ Counted' /\ Asleep' /\ lk' \in [Set -> SlotLock]
      /\ th' \in [Thread -> ThreadState] /\ th'[t] = r
      /\ \A u \in Thread \ {t} : Same(u) /\ Keeps(u) /\ Placed(u)'
  BY <1>2, <1>3, <1>5, <1>7, AskedStep
<1>9. Keeps(t)
  BY <1>2, <1>5, <1>6 DEF Keeps, Views, Forks, Detaches, Ends, Unshares, Asks, Allocs, Own
<1>10. Placed(t)'
  BY <1>1, <1>2, <1>3, <1>5, <1>6
     DEF Placed, Asks, Allocs, Ends, Forks, Unshares, HasMaster, Own
<1>11. SlotsOf(t)'
  <2>1. SlotsFixed /\ \A u \in Thread : Keeps(u)
    BY <1>2, <1>8, <1>9 DEF SlotsFixed
  <2>2. (env.child[t] # None /\ Unborn(env.child[t]) /\ th[t].pc # "forked" =>
             ~ slot[env.child[t]].v)'
    BY <1>1, <1>2, <2>1, CopyEmpty
  <2>3. QED BY <1>2, <1>5, <1>6, <2>2 DEF SlotsOf, Asks, Allocs, Unshares, Own
<1>12. Referred' /\ Listed' /\ Slots' /\ Framed' /\ Pointed'
  BY <1>2, <1>3, <1>5, <1>6, <1>8, <1>9, <1>11, StepFixed DEF SlotsFixed
<1>13. Types'
  BY <1>1, <1>2, <1>8 DEF Types
<1>14. QED BY <1>8, <1>10, <1>12, <1>13 DEF IInv

LEMMA StepInvalid ==
    ASSUME Sound, IInv, NEW t \in Thread, Invalid(t)
    PROVE  IInv'
<1> DEFINE r == [th[t] EXCEPT !.pc = "alloc", !.why = "fill"]
<1>1. /\ Types /\ Placed(t) /\ SlotsOf(t) /\ th[t] \in ThreadState
      /\ th \in [Thread -> ThreadState] /\ env \in Envs
  BY DEF IInv, Types, Slots
<1>2. /\ th[t].pc = "slot" /\ ~ slot[Own(t)].v
      /\ th' = [th EXCEPT ![t].pc = "alloc", ![t].why = "fill"]
      /\ env' = env /\ slot' = slot /\ refs' = refs /\ cowsets' = cowsets /\ atl' = atl
      /\ pt' = pt /\ tab' = tab /\ core' = core /\ free' = free /\ memw' = memw /\ lk' = lk
      /\ data' = data /\ swap' = swap /\ io' = io /\ dm' = dm /\ panic' = panic
  BY DEF Invalid, At, sets, maps, pool
<1>3. /\ r \in ThreadState /\ r.pc = "alloc" /\ r.why = "fill" /\ r.f = None
      /\ r.d = th[t].d /\ r.ls = th[t].ls /\ r.to = th[t].to /\ th[t].f = None
      /\ th' = [th EXCEPT ![t] = r]
  BY <1>1, <1>2 DEF ThreadState, Placed
<1> HIDE DEF r
<1>6. th'[t] = r
  BY <1>1, <1>3
<1>7. Has(t)' \subseteq Has(t)
  BY <1>2, <1>3, <1>6 DEF Has, HasOwn, HasMaster, Asks, Allocs, Own
<1>8. /\ Locked' /\ Counted' /\ Asleep' /\ lk' \in [Set -> SlotLock]
      /\ th' \in [Thread -> ThreadState] /\ th'[t] = r
      /\ \A u \in Thread \ {t} : Same(u) /\ Keeps(u) /\ Placed(u)'
  BY <1>2, <1>3, <1>7, PlainStep
<1>9. Keeps(t)
  BY <1>2, <1>3, <1>6 DEF Keeps, Views, Forks, Detaches, Ends, Unshares, Asks, Allocs, Own
<1>10. Placed(t)'
  BY <1>1, <1>2, <1>3, <1>6
     DEF Placed, Asks, Allocs, Ends, Forks, Unshares, HasMaster, Own
<1>11. SlotsOf(t)'
  <2>1. SlotsFixed /\ \A u \in Thread : Keeps(u)
    BY <1>2, <1>8, <1>9 DEF SlotsFixed
  <2>2. (env.child[t] # None /\ Unborn(env.child[t]) /\ th[t].pc # "forked" =>
             ~ slot[env.child[t]].v)'
    BY <1>1, <1>2, <2>1, CopyEmpty
  <2>3. QED BY <1>2, <1>3, <1>6, <2>2 DEF SlotsOf, Asks, Allocs, Unshares, Own
<1>12. Referred' /\ Listed' /\ Slots' /\ Framed' /\ Pointed'
  BY <1>2, <1>3, <1>6, <1>8, <1>9, <1>11, StepFixed DEF SlotsFixed
<1>13. Types'
  BY <1>1, <1>2, <1>8 DEF Types
<1>14. QED BY <1>8, <1>10, <1>12, <1>13 DEF IInv

(* A reference more or less does not change what a slot holds. *)
LEMMA RefsOnly ==
    ASSUME slot \in [Set -> Slot], NEW s \in Set, NEW i \in Int,
           slot' = [slot EXCEPT ![s].refs = i]
    PROVE  SlotsFixed /\ slot' \in [Set -> Slot]
<1>1. slot[s] \in Slot
  OBVIOUS
<1>2. /\ [slot[s] EXCEPT !.refs = i] \in Slot
      /\ [slot[s] EXCEPT !.refs = i].v = slot[s].v
      /\ [slot[s] EXCEPT !.refs = i].cow = slot[s].cow
      /\ [slot[s] EXCEPT !.refs = i].f = slot[s].f
  BY <1>1 DEF Slot
<1>3. \A x \in Set : slot'[x] = IF x = s THEN [slot[s] EXCEPT !.refs = i] ELSE slot[x]
  OBVIOUS
<1>4. QED BY <1>2, <1>3 DEF SlotsFixed

LEMMA StepValid ==
    ASSUME Sound, IInv, NEW t \in Thread, Valid(t)
    PROVE  IInv'
<1> DEFINE s == Own(t)
           breaks == slot[s].cow /\ th[t].w
           found == IF breaks /\ atl[s] > 0 THEN 1 ELSE 0
           r == IF breaks THEN [th[t] EXCEPT !.pc = "alloc", !.why = "write"]
                ELSE [th[t] EXCEPT !.pc = "map"]
           i == slot[s].refs + 1 - found
<1>1. /\ Types /\ Placed(t) /\ SlotsOf(t) /\ th[t] \in ThreadState
      /\ th \in [Thread -> ThreadState] /\ env \in Envs /\ slot \in [Set -> Slot]
  BY DEF IInv, Types, Slots
<1>2. /\ th[t].pc = "slot" /\ slot[s].v
      /\ slot' = [slot EXCEPT ![s].refs = i] /\ atl' = [atl EXCEPT ![s] = atl[s] - found]
      /\ th' = IF breaks THEN [th EXCEPT ![t].pc = "alloc", ![t].why = "write"]
               ELSE [th EXCEPT ![t].pc = "map"]
      /\ env' = env /\ refs' = refs /\ cowsets' = cowsets
      /\ pt' = pt /\ tab' = tab /\ core' = core /\ free' = free /\ memw' = memw /\ lk' = lk
      /\ data' = data /\ swap' = swap /\ io' = io /\ dm' = dm /\ panic' = panic
  BY DEF Valid, At, Go, sets, maps, pool
<1>3. /\ r \in ThreadState /\ r.f = None
      /\ IF breaks THEN r.pc = "alloc" /\ r.why = "write" ELSE r.pc = "map"
      /\ r.d = th[t].d /\ r.ls = th[t].ls /\ r.to = th[t].to /\ th[t].f = None
      /\ th' = [th EXCEPT ![t] = r] /\ s \in Set
  BY <1>1, <1>2 DEF ThreadState, Placed
<1>4. i \in Int /\ atl[s] - found \in Nat
  BY <1>1, <1>3 DEF Types, Slot
<1>5. SlotsFixed /\ slot' \in [Set -> Slot]
  <2> HIDE DEF i
  <2>1. QED BY <1>1, <1>2, <1>3, <1>4, RefsOnly
<1> HIDE DEF r, found, i
<1>6. th'[t] = r
  BY <1>1, <1>3
<1>7. Has(t)' \subseteq Has(t)
  BY <1>2, <1>3, <1>6 DEF Has, HasOwn, HasMaster, Asks, Allocs, Own
<1>8. /\ Locked' /\ Counted' /\ Asleep' /\ lk' \in [Set -> SlotLock]
      /\ th' \in [Thread -> ThreadState] /\ th'[t] = r
      /\ \A u \in Thread \ {t} : Same(u) /\ Keeps(u) /\ Placed(u)'
  BY <1>2, <1>3, <1>7, PlainStep
<1>9. Keeps(t)
  BY <1>2, <1>3, <1>6 DEF Keeps, Views, Forks, Detaches, Ends, Unshares, Asks, Allocs, Own
<1>10. Placed(t)'
  BY <1>1, <1>2, <1>3, <1>6
     DEF Placed, Asks, Allocs, Ends, Forks, Unshares, HasMaster, Own
<1>11. SlotsOf(t)'
  <2>1. \A u \in Thread : Keeps(u)
    BY <1>8, <1>9
  <2>2. (env.child[t] # None /\ Unborn(env.child[t]) /\ th[t].pc # "forked" =>
             ~ slot[env.child[t]].v)'
    BY <1>1, <1>2, <1>5, <2>1, CopyEmpty
  <2>3. slot'[s].cow = slot[s].cow
    BY <1>3, <1>5 DEF SlotsFixed
  <2>4. QED BY <1>2, <1>3, <1>6, <2>2, <2>3 DEF SlotsOf, Asks, Allocs, Unshares, Own
<1>12. Referred' /\ Listed' /\ Slots' /\ Framed' /\ Pointed'
  BY <1>2, <1>3, <1>5, <1>6, <1>8, <1>9, <1>11, StepFixed
<1>13. Types'
  BY <1>1, <1>2, <1>3, <1>4, <1>5, <1>8 DEF Types
<1>14. QED BY <1>8, <1>10, <1>12, <1>13 DEF IInv

LEMMA StepMaster ==
    ASSUME Sound, IInv, NEW t \in Thread, Master(t)
    PROVE  IInv'
<1> DEFINE i == slot[File].refs + 1
           r == IF slot[File].v THEN [th[t] EXCEPT !.pc = "share"]
                ELSE [th[t] EXCEPT !.pc = "alloc", !.why = "master"]
<1>1. /\ Types /\ Placed(t) /\ SlotsOf(t) /\ th[t] \in ThreadState
      /\ th \in [Thread -> ThreadState] /\ env \in Envs /\ slot \in [Set -> Slot]
  BY DEF IInv, Types, Slots
<1>2. /\ th[t].pc = "master"
      /\ IF slot[File].v
         THEN slot' = [slot EXCEPT ![File].refs = i] /\ th' = [th EXCEPT ![t].pc = "share"]
         ELSE slot' = slot /\ th' = [th EXCEPT ![t].pc = "alloc", ![t].why = "master"]
      /\ env' = env /\ refs' = refs /\ cowsets' = cowsets /\ atl' = atl
      /\ pt' = pt /\ tab' = tab /\ core' = core /\ free' = free /\ memw' = memw /\ lk' = lk
      /\ data' = data /\ swap' = swap /\ io' = io /\ dm' = dm /\ panic' = panic
  BY DEF Master, At, Go, sets, maps, pool
<1>3. /\ r \in ThreadState /\ r.f = None
      /\ IF slot[File].v THEN r.pc = "share" ELSE r.pc = "alloc" /\ r.why = "master"
      /\ r.d = th[t].d /\ r.ls = th[t].ls /\ r.to = th[t].to /\ th[t].f = None
      /\ th' = [th EXCEPT ![t] = r] /\ Own(t) \in Cow /\ File \in Set /\ Own(t) \in Set
  BY <1>1, <1>2 DEF ThreadState, Placed, HasMaster, Set
<1>5. SlotsFixed /\ slot' \in [Set -> Slot]
  <2>1. i \in Int
    BY <1>1, <1>3 DEF Slot
  <2> HIDE DEF i
  <2>2. CASE slot[File].v
    BY <1>1, <1>2, <1>3, <2>1, <2>2, RefsOnly
  <2>3. CASE ~ slot[File].v
    BY <1>1, <1>2, <2>3 DEF SlotsFixed
  <2>4. QED BY <2>2, <2>3
<1> HIDE DEF r, i
<1>6. th'[t] = r
  BY <1>1, <1>3
<1>7. Has(t)' \subseteq Has(t)
  BY <1>2, <1>3, <1>6 DEF Has, HasOwn, HasMaster, Asks, Allocs, Own
<1>8. /\ Locked' /\ Counted' /\ Asleep' /\ lk' \in [Set -> SlotLock]
      /\ th' \in [Thread -> ThreadState] /\ th'[t] = r
      /\ \A u \in Thread \ {t} : Same(u) /\ Keeps(u) /\ Placed(u)'
  BY <1>2, <1>3, <1>7, PlainStep
<1>9. Keeps(t)
  BY <1>2, <1>3, <1>6 DEF Keeps, Views, Forks, Detaches, Ends, Unshares, Asks, Allocs, Own
<1>10. Placed(t)'
  BY <1>1, <1>2, <1>3, <1>6
     DEF Placed, Asks, Allocs, Ends, Forks, Unshares, HasMaster, Own
<1>11. SlotsOf(t)'
  <2>1. \A u \in Thread : Keeps(u)
    BY <1>8, <1>9
  <2>2. (env.child[t] # None /\ Unborn(env.child[t]) /\ th[t].pc # "forked" =>
             ~ slot[env.child[t]].v)'
    BY <1>1, <1>2, <1>5, <2>1, CopyEmpty
  <2>3. slot'[Own(t)].v = slot[Own(t)].v /\ slot'[File].v = slot[File].v
    BY <1>3, <1>5 DEF SlotsFixed
  <2>4. ~ slot[Own(t)].v
    BY <1>1, <1>2 DEF SlotsOf
  <2>5. QED BY <1>2, <1>3, <1>6, <2>2, <2>3, <2>4 DEF SlotsOf, Asks, Allocs, Unshares, Own
<1>12. Referred' /\ Listed' /\ Slots' /\ Framed' /\ Pointed'
  BY <1>2, <1>3, <1>5, <1>6, <1>8, <1>9, <1>11, StepFixed
<1>13. Types'
  BY <1>1, <1>2, <1>5, <1>8 DEF Types
<1>14. QED BY <1>8, <1>10, <1>12, <1>13 DEF IInv

LEMMA StepStore ==
    ASSUME Sound, IInv, NEW t \in Thread, Store(t)
    PROVE  IInv'
<1> DEFINE s == Own(t)
           f == pt[s].f
           n == data[f] + 1
           r == th[t]
<1>1. /\ Types /\ Placed(t) /\ SlotsOf(t) /\ th[t] \in ThreadState
      /\ th \in [Thread -> ThreadState] /\ env \in Envs
      /\ data \in [Frame -> Val]
      /\ pt \in [Set -> [f : Frame \cup {None}, w : BOOLEAN, m : BOOLEAN]]
  BY DEF IInv, Types, Slots
<1>2. /\ th[t].pc = "user" /\ data[f] < MaxStores /\ data' = [data EXCEPT ![f] = n]
      /\ pt' = [pt EXCEPT ![s].m = TRUE]
      /\ env' = env /\ slot' = slot /\ refs' = refs /\ cowsets' = cowsets /\ atl' = atl
      /\ tab' = tab /\ core' = core /\ free' = free /\ memw' = memw /\ lk' = lk
      /\ th' = th /\ swap' = swap /\ io' = io /\ dm' = dm /\ panic' = panic
  BY DEF Store, At, sets, pool
<1>3. /\ r \in ThreadState /\ th[t].f = None /\ th' = [th EXCEPT ![t] = r] /\ s \in Set
  BY <1>1, <1>2 DEF Placed
<1>4. /\ data' \in [Frame -> Val]
      /\ pt' \in [Set -> [f : Frame \cup {None}, w : BOOLEAN, m : BOOLEAN]]
  <2>1. f \in Frame => n \in Val
    <3>1. HAVE f \in Frame
    <3>2. data[f] \in Val
      BY <1>1, <3>1
    <3>3. QED BY <1>2, <3>2, EnvAssumption DEF Val, Junk
  <2>2. [pt[s] EXCEPT !.m = TRUE] \in [f : Frame \cup {None}, w : BOOLEAN, m : BOOLEAN]
    BY <1>1, <1>3
  <2> HIDE DEF n, f
  <2>3. data' \in [Frame -> Val]
    BY <1>1, <1>2, <2>1
  <2>4. pt' = [pt EXCEPT ![s] = [pt[s] EXCEPT !.m = TRUE]]
    BY <1>2
  <2>5. pt' \in [Set -> [f : Frame \cup {None}, w : BOOLEAN, m : BOOLEAN]]
    BY <1>1, <1>3, <2>2, <2>4
  <2>6. QED BY <2>3, <2>5
<1>7. Has(t)' \subseteq Has(t)
  BY <1>2 DEF Has, HasOwn, HasMaster, Asks, Allocs, Own
<1>8. /\ Locked' /\ Counted' /\ Asleep' /\ lk' \in [Set -> SlotLock]
      /\ th' \in [Thread -> ThreadState] /\ th'[t] = r
      /\ \A u \in Thread \ {t} : Same(u) /\ Keeps(u) /\ Placed(u)'
  BY <1>2, <1>3, <1>7, PlainStep
<1>9. Keeps(t)
  BY <1>2, <1>3 DEF Keeps, Views, Forks, Detaches, Ends, Unshares, Asks, Allocs, Own
<1>10. Placed(t)'
  BY <1>1, <1>2, <1>3 DEF Placed, Asks, Allocs, Ends, Forks, Unshares, HasMaster, Own
<1>11. SlotsOf(t)'
  <2>1. SlotsFixed /\ \A u \in Thread : Keeps(u)
    BY <1>2, <1>8, <1>9 DEF SlotsFixed
  <2>2. (env.child[t] # None /\ Unborn(env.child[t]) /\ th[t].pc # "forked" =>
             ~ slot[env.child[t]].v)'
    BY <1>1, <1>2, <2>1, CopyEmpty
  <2>3. QED BY <1>2, <1>3, <2>2 DEF SlotsOf, Asks, Allocs, Unshares, Own
<1>12. Referred' /\ Listed' /\ Slots' /\ Framed' /\ Pointed'
  BY <1>2, <1>3, <1>8, <1>9, <1>11, StepFixed DEF SlotsFixed
<1>13. Types'
  BY <1>1, <1>2, <1>4, <1>8 DEF Types
<1>14. QED BY <1>8, <1>10, <1>12, <1>13 DEF IInv

LEMMA StepNoPage ==
    ASSUME Sound, IInv, NEW t \in Thread, NoPage(t)
    PROVE  IInv'
<1> DEFINE r == [th[t] EXCEPT !.pc = "memw"]
<1>1. /\ Types /\ Placed(t) /\ SlotsOf(t) /\ th[t] \in ThreadState
      /\ th \in [Thread -> ThreadState] /\ env \in Envs /\ lk \in [Set -> SlotLock]
      /\ Locked /\ Counted /\ Asleep /\ io \subseteq Set /\ \A u \in Thread : Placed(u)
  BY DEF IInv, Types, Slots
<1>2. /\ th[t].pc = "alloc" /\ memw' = PSema(memw, t) /\ th' = [th EXCEPT ![t].pc = "memw"]
      /\ env' = env /\ slot' = slot /\ refs' = refs /\ cowsets' = cowsets /\ atl' = atl
      /\ pt' = pt /\ tab' = tab /\ core' = core /\ free' = free /\ lk' = lk
      /\ data' = data /\ swap' = swap /\ io' = io /\ dm' = dm /\ panic' = panic
  BY DEF NoPage, At, Go, sets, maps
<1>3. /\ r \in ThreadState /\ r.pc = "memw" /\ r.why = th[t].why /\ r.f = None
      /\ r.d = th[t].d /\ r.ls = th[t].ls /\ r.to = th[t].to /\ th[t].f = None
      /\ th' = [th EXCEPT ![t] = r]
  BY <1>1, <1>2 DEF ThreadState, Placed
<1> HIDE DEF r
<1>6. /\ th'[t] = r /\ \A u \in Thread \ {t} : th'[u] = th[u]
      /\ th' \in [Thread -> ThreadState]
  BY <1>1, <1>3
<1>7. \A u \in Thread \ {t} : Same(u) /\ Keeps(u) /\ Placed(u)'
  <2>1. ASSUME NEW u \in Thread \ {t} PROVE Same(u) /\ Keeps(u)
    <3>1. Aside(u)
      BY <1>6 DEF Aside
    <3>2. QED BY <1>1, <1>2, <3>1, AsideIs, SameKeeps
  <2>2. ASSUME NEW u \in Thread \ {t} PROVE Placed(u)'
    <3>1. Allocs(u, "tab") => tab'[Own(u)] = None
      BY <1>1, <1>2 DEF Placed
    <3>2. QED BY <1>1, <1>2, <2>1, <3>1, PlacedAside
  <2>3. QED BY <2>1, <2>2
<1>8. Locked' /\ Counted' /\ lk' \in [Set -> SlotLock]
  <2>1. /\ {} \subseteq Has(t) /\ Has(t)' \subseteq Has(t) \ {} /\ Seeks(t)' = {}
    BY <1>2, <1>3, <1>6 DEF Has, HasOwn, HasMaster, Asks, Allocs, Own, Seeks
  <2>2. SameLocks(t)
    BY <1>7 DEF SameLocks, Same
  <2>3. lk' = [s \in Set |-> IF s \in {} THEN Loosen(lk[s]) ELSE lk[s]]
    BY <1>1, <1>2
  <2>4. QED BY <1>1, <1>2, <2>1, <2>2, <2>3, LocksLoosed
<1>a. Asleep'
  <2>1. Starving' = Starving \cup {t} /\ t \notin Starving
    BY <1>2, <1>3, <1>6 DEF Starving
  <2>2. \A s \in Set : Waiting(s)' = Waiting(s)
    BY <1>2, <1>3, <1>6 DEF Waiting
  <2>3. SleptOn(memw, Thread, Starving) /\ memw.cnt <= 0
    BY <1>1 DEF Asleep
  <2>4. /\ PSema(memw, t).cnt = memw.cnt - 1 /\ memw.cnt \in Int
        /\ PSleeps(memw) => memw.cnt <= 0 /\ SleptOn(PSema(memw, t), Thread, Starving \cup {t})
        /\ ~ PSleeps(memw) => memw.cnt > 0 /\ Starving = {} /\ SleptOn(PSema(memw, t), Thread, {})
    BY <2>1, <2>3, SleptAsk
  <2>5. SleptOn(memw', Thread, Starving') /\ memw'.cnt <= 0
    BY <1>2, <2>1, <2>3, <2>4 DEF PSleeps
  <2>6. \A s \in Set : (SleptOn(lk[s].sema, Thread, Waiting(s)) /\ lk[s].sema.cnt <= 0)'
    BY <1>1, <1>2, <2>2 DEF Asleep
  <2>7. QED BY <2>5, <2>6 DEF Asleep
<1>9. Keeps(t)
  BY <1>2, <1>3, <1>6 DEF Keeps, Views, Forks, Detaches, Ends, Unshares, Asks, Allocs, Own
<1>10. Placed(t)'
  BY <1>1, <1>2, <1>3, <1>6
     DEF Placed, Asks, Allocs, Ends, Forks, Unshares, HasMaster, Own
<1>11. SlotsOf(t)'
  <2>1. SlotsFixed /\ \A u \in Thread : Keeps(u)
    BY <1>2, <1>7, <1>9 DEF SlotsFixed
  <2>2. (env.child[t] # None /\ Unborn(env.child[t]) /\ th[t].pc # "forked" =>
             ~ slot[env.child[t]].v)'
    BY <1>1, <1>2, <2>1, CopyEmpty
  <2>3. QED BY <1>1, <1>2, <1>3, <1>6, <2>2 DEF SlotsOf, Asks, Allocs, Unshares, Own
<1>12. Referred' /\ Listed' /\ Slots' /\ Framed' /\ Pointed'
  BY <1>2, <1>3, <1>6, <1>7, <1>9, <1>11, StepFixed DEF SlotsFixed
<1>13. Types'
  BY <1>1, <1>2, <1>6, <1>8 DEF Types
<1>14. QED BY <1>a, <1>6, <1>7, <1>8, <1>10, <1>12, <1>13 DEF IInv

LEMMA StepAllocPage ==
    ASSUME Sound, IInv, NEW t \in Thread, AllocPage(t)
    PROVE  IInv'
<1> DEFINE f == Head(free)
           r == [th[t] EXCEPT !.pc = "got", !.f = f]
<1>1. /\ Types /\ Placed(t) /\ SlotsOf(t) /\ th[t] \in ThreadState
      /\ th \in [Thread -> ThreadState] /\ env \in Envs
      /\ free \in Seq(Frame) /\ Framed /\ Pointed
      /\ core \in [Frame -> [alloc : BOOLEAN, s : Set \cup {None}]]
  BY DEF IInv, Types, Slots
<1>2. /\ th[t].pc = "alloc" /\ free # <<>> /\ free' = Tail(free)
      /\ core' = [core EXCEPT ![f] = [alloc |-> TRUE, s |-> IF th[t].why = "tab"
                                                          THEN core[f].s ELSE For(t)]]
      /\ th' = [th EXCEPT ![t].pc = "got", ![t].f = f]
      /\ env' = env /\ slot' = slot /\ refs' = refs /\ cowsets' = cowsets /\ atl' = atl
      /\ pt' = pt /\ tab' = tab /\ memw' = memw /\ lk' = lk
      /\ data' = data /\ swap' = swap /\ io' = io /\ dm' = dm /\ panic' = panic
  BY DEF AllocPage, At, sets, maps
<1>f. f \in Frame
  BY <1>1, <1>2
<1>3. /\ r \in ThreadState /\ r.pc = "got" /\ r.why = th[t].why /\ r.f = f
      /\ r.d = th[t].d /\ r.ls = th[t].ls /\ r.to = th[t].to /\ th[t].f = None
      /\ th' = [th EXCEPT ![t] = r]
  BY <1>1, <1>2, <1>f DEF ThreadState, Placed
<1> HIDE DEF r
<1>6. th'[t] = r
  BY <1>1, <1>3
<1>7. Has(t)' \subseteq Has(t)
  BY <1>2, <1>3, <1>6 DEF Has, HasOwn, HasMaster, Asks, Allocs, Own
<1>8. /\ Locked' /\ Counted' /\ Asleep' /\ lk' \in [Set -> SlotLock]
      /\ th' \in [Thread -> ThreadState] /\ th'[t] = r
      /\ \A u \in Thread \ {t} : Same(u) /\ Keeps(u) /\ Placed(u)'
  BY <1>2, <1>3, <1>7, PlainStep
<1>9. Keeps(t)
  BY <1>2, <1>3, <1>6 DEF Keeps, Views, Forks, Detaches, Ends, Unshares, Asks, Allocs, Own
<1>10. Placed(t)'
  BY <1>1, <1>2, <1>3, <1>6, <1>f, SetAssumption
     DEF Placed, Asks, Allocs, Ends, Forks, Unshares, HasMaster, Own
<1>11. SlotsOf(t)'
  <2>1. SlotsFixed /\ \A u \in Thread : Keeps(u)
    BY <1>2, <1>8, <1>9 DEF SlotsFixed
  <2>2. (env.child[t] # None /\ Unborn(env.child[t]) /\ th[t].pc # "forked" =>
             ~ slot[env.child[t]].v)'
    BY <1>1, <1>2, <2>1, CopyEmpty
  <2>3. QED BY <1>1, <1>2, <1>3, <1>6, <2>2 DEF SlotsOf, Asks, Allocs, Unshares, Own
<1>12. Referred' /\ Listed' /\ Slots' /\ \A s \in Set : SlotFrame(s)' = SlotFrame(s)
  BY <1>2, <1>3, <1>6, <1>8, <1>9, <1>11, StepSlots DEF SlotsFixed
<1>c. /\ core' \in [Frame -> [alloc : BOOLEAN, s : Set \cup {None}]]
      /\ core'[f].alloc = TRUE
      /\ th[t].why # "tab" => core'[f].s = For(t)
      /\ \A x \in Frame \ {f} : core'[x] = core[x]
  <2>1. For(t) \in Set \cup {None}
    BY <1>1, EnvIs DEF For, Set
  <2>2. core[f].s \in Set \cup {None}
    BY <1>1, <1>f
  <2> DEFINE a == IF th[t].why = "tab" THEN core[f].s ELSE For(t)
  <2>3. a \in Set \cup {None}
    BY <2>1, <2>2
  <2>4. core' = [core EXCEPT ![f] = [alloc |-> TRUE, s |-> a]]
    BY <1>2
  <2>5. th[t].why # "tab" => a = For(t)
    OBVIOUS
  <2> HIDE DEF a, f
  <2>6. QED BY <1>1, <1>f, <2>3, <2>4, <2>5
<1>13. Framed' /\ f \in env.frames /\ free' \in Seq(Frame)
  <2> DEFINE o == <<"hand", t>>
  <2>1. o \in Owner /\ Frames[o] = None /\ Frames'[o] = f
    BY <1>3, <1>6, FramesAre
  <2>2. Elsewhere({o})
    <3>1. \A u \in Thread : <<"hand", u>> \notin {o} => u # t
      OBVIOUS
    <3>2. QED BY <1>2, <1>8, <1>12, <3>1 DEF Elsewhere, Same
  <2>3. \A x \in Frame : core'[x].alloc <=> core[x].alloc \/ x = f
    BY <1>c
  <2> HIDE DEF o
  <2>4. QED BY <1>1, <1>2, <2>1, <2>2, <2>3, FramedTake
<1>14. Pointed'
  <2>1. CASE env.steal
    <3>1. ~ env.tables /\ th[t].why # "tab"
      BY <1>1, <1>2, <2>1 DEF Sound, Placed, Allocs
    <3>2. ASSUME NEW u \in Thread, th'[u].pc = "got" PROVE core'[th'[u].f].s = For(u)'
      <4>1. CASE u = t
        BY <1>2, <1>3, <1>6, <1>c, <3>1, <4>1 DEF For, Own
      <4>2. CASE u # t
        <5>1. th[u].pc = "got" /\ th'[u].f = th[u].f /\ Same(u)
          BY <1>8, <3>2, <4>2 DEF Same
        <5>2. th[u].f # None /\ th[u].f # f /\ th[u].f \in Frame
          <6>1. th[u].f # None
            BY <5>1 DEF IInv, Placed
          <6>2. th[u].f \in env.frames \ Range(free)
            BY <1>1, <6>1, HadOnce
          <6>3. f \in Range(free)
            <7>1. 1 \in DOMAIN free /\ f = free[1]
              BY <1>1, <1>2
            <7>2. QED BY <7>1 DEF Range
          <6>4. QED BY <1>1, <6>1, <6>2, <6>3, FrameSet
        <5>3. core[th[u].f].s = For(u)
          BY <1>1, <2>1, <5>1 DEF Pointed
        <5>4. QED BY <1>2, <1>c, <5>1, <5>2, <5>3, ForSame
      <4>3. QED BY <4>1, <4>2
    <3>3. ASSUME NEW x \in Frame, core'[x].alloc
          PROVE  (\E u \in Thread : th[u].f = x)' \/ (core[x].s \in Set /\ SlotFrame(core[x].s) = x)'
      <4>1. CASE x = f
        BY <1>3, <1>6, <4>1
      <4>2. CASE x # f
        <5>0. core[x].alloc /\ core'[x].s = core[x].s
          BY <1>c, <3>3, <4>2
        <5>1. CASE \E u \in Thread : th[u].f = x
          <6>1. PICK u \in Thread : th[u].f = x
            BY <5>1
          <6>2. CASE u = t
            <7>1. x = None
              BY <1>3, <6>1, <6>2
            <7>2. QED BY <7>1, <1>1, FrameSet
          <6>3. CASE u # t
            BY <1>8, <6>1, <6>3 DEF Same
          <6>4. QED BY <6>2, <6>3
        <5>2. CASE core[x].s \in Set /\ SlotFrame(core[x].s) = x
          <6>1. PICK s : s = core[x].s
            OBVIOUS
          <6>2. (SlotFrame(core[x].s) = x)' <=> (SlotFrame(s) = x)'
            BY <5>0, <6>1 DEF SlotFrame
          <6>3. QED BY <1>12, <5>0, <5>2, <6>1, <6>2
        <5>3. QED BY <1>1, <2>1, <5>0, <5>1, <5>2 DEF Pointed
      <4>3. QED BY <4>1, <4>2
    <3>4. QED BY <3>2, <3>3 DEF Pointed
  <2>2. CASE ~ env.steal
    BY <1>2, <2>2 DEF Pointed
  <2>3. QED BY <2>1, <2>2
<1>15. Types'
  BY <1>1, <1>2, <1>8, <1>c, <1>13 DEF Types
<1>16. QED BY <1>8, <1>10, <1>12, <1>13, <1>14, <1>15 DEF IInv

LEMMA StepDupd ==
    ASSUME Sound, IInv, NEW t \in Thread, Dupd(t)
    PROVE  IInv'
<1> DEFINE r == IF Shared(Own(t)) THEN [th[t] EXCEPT !.pc = "forked"]
                ELSE [th[t] EXCEPT !.pc = "alloc", !.why = "copy"]
<1>1. /\ Types /\ Placed(t) /\ SlotsOf(t) /\ th[t] \in ThreadState
      /\ th \in [Thread -> ThreadState] /\ env \in Envs
  BY DEF IInv, Types, Slots
<1>2. /\ th[t].pc = "dupd"
      /\ th' = IF Shared(Own(t)) THEN [th EXCEPT ![t].pc = "forked"]
               ELSE [th EXCEPT ![t].pc = "alloc", ![t].why = "copy"]
      /\ env' = env /\ slot' = slot /\ refs' = refs /\ cowsets' = cowsets /\ atl' = atl
      /\ pt' = pt /\ tab' = tab /\ core' = core /\ free' = free /\ memw' = memw /\ lk' = lk
      /\ data' = data /\ swap' = swap /\ io' = io /\ dm' = dm /\ panic' = panic
  BY DEF Dupd, At, Go, Shared, sets, maps, pool
<1>3. /\ r \in ThreadState /\ r.f = None
      /\ IF Shared(Own(t)) THEN r.pc = "forked" ELSE r.pc = "alloc" /\ r.why = "copy"
      /\ r.d = th[t].d /\ r.ls = th[t].ls /\ r.to = th[t].to /\ th[t].f = None
      /\ th' = [th EXCEPT ![t] = r]
  BY <1>1, <1>2 DEF ThreadState, Placed
<1> HIDE DEF r
<1>6. th'[t] = r
  BY <1>1, <1>3
<1>7. Has(t)' \subseteq Has(t)
  BY <1>2, <1>3, <1>6 DEF Has, HasOwn, HasMaster, Asks, Allocs, Own
<1>8. /\ Locked' /\ Counted' /\ Asleep' /\ lk' \in [Set -> SlotLock]
      /\ th' \in [Thread -> ThreadState] /\ th'[t] = r
      /\ \A u \in Thread \ {t} : Same(u) /\ Keeps(u) /\ Placed(u)'
  BY <1>2, <1>3, <1>7, PlainStep
<1>9. Keeps(t)
  BY <1>2, <1>3, <1>6 DEF Keeps, Views, Forks, Detaches, Ends, Unshares, Asks, Allocs, Own
<1>10. Placed(t)'
  BY <1>1, <1>2, <1>3, <1>6
     DEF Placed, Asks, Allocs, Ends, Forks, Unshares, HasMaster, Own
<1>11. SlotsOf(t)'
  <2>1. SlotsFixed /\ \A u \in Thread : Keeps(u)
    BY <1>2, <1>8, <1>9 DEF SlotsFixed
  <2>2. (env.child[t] # None /\ Unborn(env.child[t]) /\ th[t].pc # "forked" =>
             ~ slot[env.child[t]].v)'
    BY <1>1, <1>2, <2>1, CopyEmpty
  <2>3. QED BY <1>2, <1>3, <1>6, <2>2 DEF SlotsOf, Asks, Allocs, Unshares, Own
<1>12. Referred' /\ Listed' /\ Slots' /\ Framed' /\ Pointed'
  BY <1>2, <1>3, <1>6, <1>8, <1>9, <1>11, StepFixed DEF SlotsFixed
<1>13. Types'
  BY <1>1, <1>2, <1>8 DEF Types
<1>14. QED BY <1>8, <1>10, <1>12, <1>13 DEF IInv

LEMMA StepDup ==
    ASSUME Sound, IInv, NEW t \in Thread, Dup(t)
    PROVE  IInv'
<1> DEFINE s == Own(t)
           q == th[t]
           look == slot[s].v \/ slot[s].sw
           r == IF look THEN LockedAs(q, s, "dupd") ELSE [th[t] EXCEPT !.pc = "forked"]
<1>1. /\ Types /\ Placed(t) /\ SlotsOf(t) /\ th[t] \in ThreadState
      /\ th \in [Thread -> ThreadState] /\ env \in Envs
  BY DEF IInv, Types, Slots
<1>2. /\ th[t].pc = "dup"
      /\ IF look THEN Lock(th, t, s, "dupd")
         ELSE th' = [th EXCEPT ![t].pc = "forked"] /\ lk' = lk
      /\ env' = env /\ slot' = slot /\ refs' = refs /\ cowsets' = cowsets /\ atl' = atl
      /\ pt' = pt /\ tab' = tab /\ core' = core /\ free' = free /\ memw' = memw
      /\ data' = data /\ swap' = swap /\ io' = io /\ dm' = dm /\ panic' = panic
  BY DEF Dup, At, Go, sets, maps, pool
<1>3. s \in Set /\ th[t].f = None /\ th = [th EXCEPT ![t] = q]
  BY <1>1, <1>2 DEF Placed
<1>4. look => /\ r \in ThreadState /\ Asked(t, r, s, 1)
              /\ r.f = q.f /\ r.why = q.why /\ r.d = q.d
              /\ IF lk[s].held THEN r.pc = "lkw" /\ r.ls = s /\ r.to = "dupd"
                 ELSE r.pc = "dupd" /\ r.ls = q.ls /\ r.to = q.to
  BY <1>1, <1>2, <1>3, LockIs
<1>5. ~ look => /\ r \in ThreadState /\ th' = [th EXCEPT ![t] = r] /\ lk' = lk
                /\ r.f = q.f /\ r.why = q.why /\ r.d = q.d
                /\ r.pc = "forked" /\ r.ls = q.ls /\ r.to = q.to
  BY <1>1, <1>2 DEF ThreadState
<1> HIDE DEF r, look
<1>6. th'[t] = r
  BY <1>1, <1>4, <1>5 DEF Asked
<1>8. /\ Locked' /\ Counted' /\ Asleep' /\ lk' \in [Set -> SlotLock]
      /\ th' \in [Thread -> ThreadState] /\ th'[t] = r
      /\ \A u \in Thread \ {t} : Same(u) /\ Keeps(u) /\ Placed(u)'
  <2>1. Has(t) = {} /\ Seeks(t) = {}
    BY <1>2 DEF Has, Seeks, HasOwn, HasMaster, Asks, Allocs
  <2>2. CASE look
    <3>1. Has(t)' = Has(t) \cup (IF lk[s].held THEN {} ELSE {s})
      BY <1>2, <1>4, <1>6, <2>1, <2>2 DEF Has, HasOwn, HasMaster, Asks, Allocs, Own
    <3>2. QED BY <1>2, <1>3, <1>4, <2>1, <2>2, <3>1, AskedStep
  <2>3. CASE ~ look
    <3>1. Has(t)' \subseteq Has(t)
      BY <1>5, <1>6, <2>3 DEF Has, HasOwn, HasMaster, Asks, Allocs, Own
    <3>2. QED BY <1>2, <1>3, <1>5, <2>3, <3>1, PlainStep
  <2>4. QED BY <2>2, <2>3
<1>9. Keeps(t)
  BY <1>2, <1>4, <1>5, <1>6
     DEF Keeps, Views, Forks, Detaches, Ends, Unshares, Asks, Allocs, Own
<1>10. Placed(t)'
  BY <1>1, <1>2, <1>3, <1>4, <1>5, <1>6
     DEF Placed, Asks, Allocs, Ends, Forks, Unshares, HasMaster, Own
<1>11. SlotsOf(t)'
  <2>1. SlotsFixed /\ \A u \in Thread : Keeps(u)
    BY <1>2, <1>8, <1>9 DEF SlotsFixed
  <2>2. (env.child[t] # None /\ Unborn(env.child[t]) /\ th[t].pc # "forked" =>
             ~ slot[env.child[t]].v)'
    BY <1>1, <1>2, <2>1, CopyEmpty
  <2>3. QED BY <1>2, <1>4, <1>5, <1>6, <2>2 DEF SlotsOf, Asks, Allocs, Unshares
<1>12. Referred' /\ Listed' /\ Slots' /\ Framed' /\ Pointed'
  BY <1>2, <1>3, <1>4, <1>5, <1>6, <1>8, <1>9, <1>11, StepFixed DEF SlotsFixed
<1>13. Types'
  BY <1>1, <1>2, <1>8 DEF Types
<1>14. QED BY <1>8, <1>10, <1>12, <1>13 DEF IInv

LEMMA StepDetach ==
    ASSUME Sound, IInv, NEW t \in Thread, Detach(t)
    PROVE  IInv'
<1> DEFINE s == Own(t)
           q == [th[t] EXCEPT !.d = s]
           look == slot[s].v
           r == IF look THEN LockedAs(q, s, "det")
                ELSE [th[t] EXCEPT !.pc = "deref", !.d = s]
<1>1. /\ Types /\ Placed(t) /\ SlotsOf(t) /\ th[t] \in ThreadState
      /\ th \in [Thread -> ThreadState] /\ env \in Envs
  BY DEF IInv, Types, Slots
<1>2. /\ th[t].pc = "user" /\ env.exit
      /\ IF look THEN Lock([th EXCEPT ![t].d = s], t, s, "det")
         ELSE th' = [th EXCEPT ![t].pc = "deref", ![t].d = s] /\ lk' = lk
      /\ env' = env /\ slot' = slot /\ refs' = refs /\ cowsets' = cowsets /\ atl' = atl
      /\ pt' = pt /\ tab' = tab /\ core' = core /\ free' = free /\ memw' = memw
      /\ data' = data /\ swap' = swap /\ io' = io /\ dm' = dm /\ panic' = panic
  BY DEF Detach, At, sets, maps, pool
<1>3. /\ s \in Set /\ th[t].f = None /\ [th EXCEPT ![t].d = s] = [th EXCEPT ![t] = q]
      /\ q \in ThreadState
      /\ q.f = th[t].f /\ q.why = th[t].why /\ q.d = s /\ q.ls = th[t].ls /\ q.to = th[t].to
  BY <1>1, <1>2 DEF Placed, ThreadState
<1> HIDE DEF q
<1>4. look => /\ r \in ThreadState /\ Asked(t, r, s, 1)
              /\ r.f = q.f /\ r.why = q.why /\ r.d = q.d
              /\ IF lk[s].held THEN r.pc = "lkw" /\ r.ls = s /\ r.to = "det"
                 ELSE r.pc = "det" /\ r.ls = q.ls /\ r.to = q.to
  <2>1. HAVE look
  <2> DEFINE g == [th EXCEPT ![t].d = s]
  <2>2. Lock(g, t, s, "det") /\ g = [th EXCEPT ![t] = q] /\ r = LockedAs(q, s, "det")
    BY <1>2, <1>3, <2>1
  <2> HIDE DEF g, look, r
  <2> DEFINE l == LockedAs(q, s, "det")
  <2>3. memw' = memw
    BY <1>2
  <2>4. /\ l \in ThreadState /\ Asked(t, l, s, 1)
        /\ l.w = q.w /\ l.f = q.f /\ l.why = q.why /\ l.d = q.d
        /\ IF lk[s].held THEN l.pc = "lkw" /\ l.ls = s /\ l.to = "det"
           ELSE l.pc = "det" /\ l.ls = q.ls /\ l.to = q.to
    <3>1. PICK x : x = s
      OBVIOUS
    <3>2. /\ x \in Set /\ q \in ThreadState /\ th \in [Thread -> ThreadState]
          /\ Lock(g, t, x, "det") /\ g = [th EXCEPT ![t] = q]
      BY <1>1, <1>3, <2>2, <3>1
    <3> DEFINE k == LockedAs(q, x, "det")
    <3>3. /\ k \in ThreadState /\ Asked(t, k, x, 1)
          /\ k.w = q.w /\ k.f = q.f /\ k.why = q.why /\ k.d = q.d
          /\ IF lk[x].held THEN k.pc = "lkw" /\ k.ls = x /\ k.to = "det"
             ELSE k.pc = "det" /\ k.ls = q.ls /\ k.to = q.to
      BY ONLY <2>3, <3>2, LockIs
    <3>4. k = l
      BY <3>1
    <3> HIDE DEF k, l
    <3>5. QED BY <3>1, <3>3, <3>4
  <2>5. r = l
    BY <2>2
  <2> HIDE DEF l
  <2>6. QED BY <2>4, <2>5
<1>5. ~ look => /\ r \in ThreadState /\ th' = [th EXCEPT ![t] = r] /\ lk' = lk
                /\ r.f = q.f /\ r.why = q.why /\ r.d = q.d
                /\ r.pc = "deref" /\ r.ls = q.ls /\ r.to = q.to
  <2>1. HAVE ~ look
  <2>2. PICK x, k : x = s /\ k = [th[t] EXCEPT !.pc = "deref", !.d = x]
    OBVIOUS
  <2>3. th[t] \in ThreadState /\ x \in Set
    BY <1>1, <1>3, <2>2
  <2>4. /\ k \in ThreadState /\ k.f = th[t].f /\ k.why = th[t].why /\ k.d = x
        /\ k.pc = "deref" /\ k.ls = th[t].ls /\ k.to = th[t].to
    BY ONLY <2>2, <2>3 DEF ThreadState
  <2>5. r = k
    BY <2>1, <2>2
  <2>6. th' = [th EXCEPT ![t] = r] /\ lk' = lk
    BY <1>1, <1>2, <2>1
  <2> HIDE DEF r
  <2>7. QED BY <1>3, <2>2, <2>4, <2>5, <2>6
<1> HIDE DEF r, look
<1>6. th'[t] = r
  BY <1>1, <1>4, <1>5 DEF Asked
<1>8. /\ Locked' /\ Counted' /\ Asleep' /\ lk' \in [Set -> SlotLock]
      /\ th' \in [Thread -> ThreadState] /\ th'[t] = r
      /\ \A u \in Thread \ {t} : Same(u) /\ Keeps(u) /\ Placed(u)'
  <2>1. Has(t) = {} /\ Seeks(t) = {}
    BY <1>2 DEF Has, Seeks, HasOwn, HasMaster, Asks, Allocs
  <2>2. CASE look
    <3>1. Has(t)' = Has(t) \cup (IF lk[s].held THEN {} ELSE {s})
      BY <1>2, <1>4, <1>6, <2>1, <2>2 DEF Has, HasOwn, HasMaster, Asks, Allocs, Own
    <3>2. QED BY <1>2, <1>3, <1>4, <2>1, <2>2, <3>1, AskedStep
  <2>3. CASE ~ look
    <3>1. Has(t)' \subseteq Has(t)
      BY <1>5, <1>6, <2>3 DEF Has, HasOwn, HasMaster, Asks, Allocs, Own
    <3>2. QED BY <1>2, <1>3, <1>5, <2>3, <3>1, PlainStep
  <2>4. QED BY <2>2, <2>3
<1>9. Keeps(t)
  BY <1>2, <1>3, <1>4, <1>5, <1>6
     DEF Keeps, Views, Forks, Detaches, Ends, Unshares, Asks, Allocs, Own
<1>10. Placed(t)'
  BY <1>1, <1>2, <1>3, <1>4, <1>5, <1>6
     DEF Placed, Asks, Allocs, Ends, Forks, Unshares, HasMaster, Own
<1>11. SlotsOf(t)'
  <2>1. SlotsFixed /\ \A u \in Thread : Keeps(u)
    BY <1>2, <1>8, <1>9 DEF SlotsFixed
  <2>2. (env.child[t] # None /\ Unborn(env.child[t]) /\ th[t].pc # "forked" =>
             ~ slot[env.child[t]].v)'
    BY <1>1, <1>2, <2>1, CopyEmpty
  <2>3. QED BY <1>2, <1>4, <1>5, <1>6, <2>2 DEF SlotsOf, Asks, Allocs, Unshares
<1>12. Referred' /\ Listed' /\ Slots' /\ Framed' /\ Pointed'
  BY <1>2, <1>3, <1>4, <1>5, <1>6, <1>8, <1>9, <1>11, StepFixed DEF SlotsFixed
<1>13. Types'
  BY <1>1, <1>2, <1>8 DEF Types
<1>14. QED BY <1>8, <1>10, <1>12, <1>13 DEF IInv

(* A step of t that changes what the slot of x holds, which is t's own. *)
LEMMA StepSlot ==
    ASSUME IInv, NEW t \in Thread, NEW x \in Set, Quiet(x, {t}), ~ Daemon1(x), x \notin io,
           env' = env, refs' = refs, cowsets' = cowsets, dm' = dm, io' = io, panic' = panic,
           \A s \in Set \ {x} : /\ slot'[s].v = slot[s].v /\ slot'[s].cow = slot[s].cow
                                /\ slot'[s].f = slot[s].f,
           SlotShape(x)', \A u \in Thread \ {t} : Same(u) /\ Keeps(u), Keeps(t), SlotsOf(t)'
    PROVE  Referred' /\ Listed' /\ Slots' /\ \A s \in Set \ {x} : SlotFrame(s)' = SlotFrame(s)
<1>1. /\ env \in Envs /\ Referred /\ Listed /\ Slots
      /\ io \subseteq Set /\ Locked /\ \A u \in Thread : Placed(u)
  BY DEF IInv, Types
<1>2. Live'
  BY <1>1 DEF Referred, Live
<1>3. Referred' /\ Listed'
  BY <1>1, <1>2, RefsKept
<1>4. \A c \in Set : Unborn(c)' => Unborn(c)
  BY DEF Unborn, Keeps
<1>5. \A u \in Thread : SlotsOf(u)'
  <2>1. \A u \in Thread : SlotsOf(u)
    BY <1>1 DEF Slots
  <2>2. \A u \in Thread \ {t} : SlotsOf(u)'
    BY <1>1, <1>4, <2>1, SlotsStep
  <2>3. QED BY <2>2
<1>6. \A s \in Set : SlotShape(s)'
  <2>1. ASSUME NEW s \in Set, s # x PROVE SlotShape(s)'
    BY <1>1, <2>1 DEF Slots, SlotShape
  <2>2. QED BY <2>1
<1>7. (dm.pc # "idle" => slot[dm.s].v /\ ~ slot[dm.s].cow)'
  BY <1>1 DEF Slots, Locked, Daemon1
<1>8. (\A s \in io : slot[s].v /\ ~ slot[s].cow)'
  BY <1>1 DEF Slots
<1>9. \A s \in Set \ {x} : SlotFrame(s)' = SlotFrame(s)
  BY DEF SlotFrame
<1>10. QED BY <1>3, <1>5, <1>6, <1>7, <1>8, <1>9 DEF Slots

(* The slot of the copy, when another slot changes or the copy is made. *)
LEMMA CopyStays ==
    ASSUME env \in Envs, NEW t \in Thread, SlotsOf(t), env' = env, NEW x \in Set,
           \A s \in Set \ {x} : slot'[s].v = slot[s].v, \A u \in Thread : Keeps(u),
           env.child[t] = x /\ slot'[x].v => th'[t].pc = "forked" \/ Own(t) = x,
           Own(t) = x => th'[t].pc # "none",
           th[t].pc = "forked" => th'[t].pc = "forked"
    PROVE  (env.child[t] # None /\ Unborn(env.child[t]) /\ th[t].pc # "forked" =>
                ~ slot[env.child[t]].v)'
<1>1. PICK c : c = env.child[t]
  OBVIOUS
<1>2. Unborn(c)' => Unborn(c)
  BY DEF Unborn, Keeps
<1>3. Unborn(env.child[t])' => Unborn(c)'
  BY <1>1 DEF Unborn
<1>4. c # None => c \in Set
  BY <1>1, EnvIs
<1>5. c # None /\ Unborn(c) /\ th[t].pc # "forked" => ~ slot[c].v
  BY <1>1 DEF SlotsOf
<1>6. Own(t)' = Own(t)
  BY DEF Keeps
<1>7. ASSUME c = x, slot'[x].v, Unborn(c)', th'[t].pc # "forked" PROVE FALSE
  <2>1. Own(t) = x
    BY <1>1, <1>7
  <2>2. th'[t].pc = "none"
    BY <1>6, <1>7, <2>1 DEF Unborn
  <2>3. QED BY <2>1, <2>2
<1>8. QED BY <1>1, <1>2, <1>3, <1>4, <1>5, <1>7

(* Nobody wakes a thread that is not asleep. *)
LEMMA AwakeIs ==
    ASSUME IInv, NEW t \in Thread, th[t].pc \notin {"lkw", "memw"}
    PROVE  /\ \A s \in Set : t \notin Waiters(s) /\ Wake(th, Waiters(s))[t] = th[t]
           /\ t \notin VWakes(memw)
<1>1. /\ \A s \in Set : SleptOn(lk[s].sema, Thread, Waiting(s))
      /\ SleptOn(memw, Thread, Starving)
  BY DEF IInv, Asleep
<1>2. \A s \in Set : t \notin Waiters(s)
  BY <1>1 DEF Waiting, Waiters, SleptOn
<1>3. t \notin VWakes(memw)
  <2>1. VWakes(memw) \subseteq Starving
    BY <1>1, SleptGive, Zenon
  <2>2. QED BY <2>1 DEF Starving
<1>4. QED BY <1>2, <1>3 DEF Wake

LEMMA FilledIs ==
    ASSUME NEW p \in Slot, NEW f \in Frame
    PROVE  /\ Filled(p, f) \in Slot /\ Filled(p, f).v = TRUE /\ Filled(p, f).f = f
           /\ Filled(p, f).cow = p.cow
<1> DEFINE a == [p EXCEPT !.v = TRUE]
           b == [a EXCEPT !.m = FALSE]
           c == [b EXCEPT !.refs = 1]
           d == [c EXCEPT !.f = f]
<1>1. a \in Slot /\ a.v = TRUE /\ a.cow = p.cow
  BY DEF Slot
<1> HIDE DEF a
<1>2. b \in Slot /\ b.v = TRUE /\ b.cow = p.cow
  BY <1>1 DEF Slot
<1> HIDE DEF b
<1>3. c \in Slot /\ c.v = TRUE /\ c.cow = p.cow
  BY <1>2 DEF Slot
<1> HIDE DEF c
<1>4. d \in Slot /\ d.v = TRUE /\ d.cow = p.cow /\ d.f = f
  BY <1>3 DEF Slot
<1>5. Filled(p, f) = d
  BY DEF Filled, a, b, c
<1>6. QED BY <1>4, <1>5

LEMMA StepShare ==
    ASSUME Sound, IInv, NEW t \in Thread, Share(t)
    PROVE  IInv'
<1>p. PICK s : s = Own(t)
  OBVIOUS
<1> DEFINE r == IF th[t].w THEN [th[t] EXCEPT !.pc = "alloc", !.why = "write"]
                ELSE [th[t] EXCEPT !.pc = "map", !.why = "none"]
           e == [Filled(slot[s], slot[File].f) EXCEPT !.cow = TRUE]
<1>1. /\ Types /\ Placed(t) /\ SlotsOf(t) /\ th[t] \in ThreadState
      /\ th \in [Thread -> ThreadState] /\ env \in Envs /\ slot \in [Set -> Slot]
      /\ lk \in [Set -> SlotLock] /\ Locked /\ Framed /\ Pointed
      /\ \A u \in Thread : Placed(u)
  BY DEF IInv, Types, Slots
<1>2. /\ th[t].pc = "share" /\ slot' = [slot EXCEPT ![s] = e] /\ lk' = Unlock(lk, File)
      /\ th' = [Wake(th, Waiters(File)) EXCEPT
                   ![t].pc = IF th[t].w THEN "alloc" ELSE "map",
                   ![t].why = IF th[t].w THEN "write" ELSE "none"]
      /\ env' = env /\ refs' = refs /\ cowsets' = cowsets /\ atl' = atl
      /\ pt' = pt /\ tab' = tab /\ core' = core /\ free' = free /\ memw' = memw
      /\ data' = data /\ swap' = swap /\ io' = io /\ dm' = dm /\ panic' = panic
  BY <1>p DEF Share, At, sets, maps, pool
<1>3. /\ r \in ThreadState /\ r.f = None
      /\ IF th[t].w THEN r.pc = "alloc" /\ r.why = "write" ELSE r.pc = "map"
      /\ r.d = th[t].d /\ r.ls = th[t].ls /\ r.to = th[t].to /\ th[t].f = None
      /\ s \in Cow /\ File \in Set /\ s \in Set /\ s # File
  <2>1. th[t] \in ThreadState
    BY <1>1
  <2>2. /\ r \in ThreadState /\ r.f = th[t].f
        /\ IF th[t].w THEN r.pc = "alloc" /\ r.why = "write" ELSE r.pc = "map"
        /\ r.d = th[t].d /\ r.ls = th[t].ls /\ r.to = th[t].to
    BY ONLY <2>1 DEF ThreadState
  <2>3. th[t].f = None /\ s \in Cow
    BY <1>p, <1>1, <1>2 DEF Placed, HasMaster
  <2>4. File \in Set /\ s \in Set /\ s # File
    BY <2>3, SetAssumption DEF Set
  <2>5. QED BY <2>2, <2>3, <2>4
<1>4. /\ th' = [u \in Thread |-> th'[u]] /\ th'[t] = r
      /\ \A u \in Thread \ {t} : th'[u] = Wake(th, Waiters(File))[u]
  <2>1. PICK g : g = Wake(th, Waiters(File))
    OBVIOUS
  <2>2. g[t] = th[t] /\ DOMAIN g = Thread
    BY <1>2, <1>3, <2>1, AwakeIs DEF Wake
  <2>3. th' = [g EXCEPT ![t] = r]
    <3>1. th' = [g EXCEPT ![t].pc = IF th[t].w THEN "alloc" ELSE "map",
                          ![t].why = IF th[t].w THEN "write" ELSE "none"]
      BY <1>2, <2>1
    <3>2. QED BY <2>2, <3>1
  <2> HIDE DEF r
  <2>4. QED BY <2>1, <2>2, <2>3
<1> HIDE DEF r
<1>5. Loosed(t, r, {File}, {})
  BY <1>1, <1>2, <1>3, <1>4, UnlockedIs
<1>6. /\ Has(t) = {s, File} /\ Has(t)' = {s}
  BY <1>p, <1>2, <1>3, <1>4 DEF Has, HasOwn, HasMaster, Asks, Allocs, Own
<1>7. /\ Locked' /\ Counted' /\ Asleep' /\ lk' \in [Set -> SlotLock]
      /\ th' \in [Thread -> ThreadState] /\ th'[t] = r
      /\ \A u \in Thread \ {t} : Same(u) /\ Keeps(u) /\ Placed(u)'
  <2>1. \A u \in Thread \ {t} : Allocs(u, "tab") => tab'[Own(u)] = None
    BY <1>1, <1>2 DEF Placed
  <2>2. {File} \subseteq Has(t) /\ Has(t)' \subseteq Has(t) \ {File}
    BY <1>3, <1>6
  <2>3. r.pc \notin {"lk", "lkw", "memw"}
    BY <1>3
  <2>4. QED BY <1>2, <1>3, <1>5, <2>1, <2>2, <2>3, LoosedStep
<1>8. Quiet(s, {t}) /\ ~ Daemon1(s) /\ s \notin io
  BY <1>1, <1>3, <1>6, HasQuiet
<1>9. Keeps(t)
  BY <1>2, <1>3, <1>4 DEF Keeps, Views, Forks, Detaches, Ends, Unshares, Asks, Allocs, Own
<1>10. Placed(t)'
  BY <1>1, <1>2, <1>3, <1>4
     DEF Placed, Asks, Allocs, Ends, Forks, Unshares, HasMaster, Own
<1>11. /\ e \in Slot /\ e.v /\ e.cow /\ e.f \in Frame
       /\ slot' \in [Set -> Slot] /\ slot'[s] = e
       /\ \A x \in Set \ {s} : slot'[x] = slot[x]
  <2>1. slot[File].f \in Frame /\ slot[File].v
    BY <1>1, <1>2, <1>3 DEF SlotsOf, IInv, Slots, SlotShape
  <2>2. e \in Slot /\ e.v /\ e.cow /\ e.f \in Frame
    <3> DEFINE p == Filled(slot[s], slot[File].f)
    <3>1. p \in Slot /\ p.v /\ p.f \in Frame
      BY <1>1, <1>3, <2>1, FilledIs
    <3> HIDE DEF p
    <3>2. [p EXCEPT !.cow = TRUE] \in Slot
      BY <3>1 DEF Slot
    <3>3. QED BY <3>1, <3>2 DEF Slot, p
  <2> HIDE DEF e
  <2>3. QED BY <1>1, <1>2, <1>3, <2>2
<1> HIDE DEF e
<1>12. SlotShape(s)'
  BY <1>3, <1>11 DEF SlotShape
<1>13. SlotsOf(t)'
  <2>1. \A u \in Thread : Keeps(u)
    BY <1>7, <1>9
  <2>2. (env.child[t] # None /\ Unborn(env.child[t]) /\ th[t].pc # "forked" =>
             ~ slot[env.child[t]].v)'
    BY <1>p, <1>1, <1>2, <1>3, <1>4, <1>11, <2>1, CopyStays
  <2>3. QED BY <1>p, <1>2, <1>3, <1>4, <1>11, <2>2 DEF SlotsOf, Asks, Allocs, Unshares, Own
<1>14. Referred' /\ Listed' /\ Slots' /\ \A x \in Set \ {s} : SlotFrame(x)' = SlotFrame(x)
  BY <1>2, <1>3, <1>7, <1>8, <1>9, <1>11, <1>12, <1>13, StepSlot
<1>15. \A x \in Set : SlotFrame(x)' = SlotFrame(x)
  <2>1. ~ slot[s].v
    BY <1>p, <1>1, <1>2 DEF SlotsOf
  <2>2. SlotFrame(s)' = SlotFrame(s)
    BY <1>3, <1>11, <2>1 DEF SlotFrame
  <2>3. QED BY <1>14, <2>2
<1>16. \A u \in Thread : th'[u].f = th[u].f
  BY <1>3, <1>4, <1>7 DEF Same
<1>17. Framed'
  BY <1>1, <1>2, <1>15, <1>16, FramedSame DEF Elsewhere
<1>18. Pointed'
  <2>1. \A u \in Thread : th'[u].pc = "got" => th[u].pc = "got" /\ For(u)' = For(u)
    <3>1. th'[t].pc # "got"
      BY <1>3, <1>4
    <3>2. ASSUME NEW u \in Thread \ {t}
          PROVE  (th'[u].pc = "got" <=> th[u].pc = "got") /\ For(u)' = For(u)
      <4>1. Same(u) /\ env' = env
        BY <1>2, <1>7
      <4>2. For(u)' = For(u)
        BY ONLY <4>1, ForSame
      <4>3. QED BY <4>1, <4>2 DEF Same
    <3>3. QED BY <3>1, <3>2
  <2>2. QED BY <1>1, <1>2, <1>15, <1>16, <2>1, PointedSame
<1>19. Types'
  BY <1>1, <1>2, <1>7, <1>11 DEF Types
<1>20. QED BY <1>7, <1>10, <1>14, <1>17, <1>18, <1>19 DEF IInv

(* The fault is done: thread t has its own slot no more, and no other. *)
LEMMA TranslateIs ==
    ASSUME IInv, NEW t \in Thread, NEW s \in Set, s = Own(t), s \in Has(t),
           th[t].pc \notin {"lkw", "memw"}, Translate(t), memw' = memw, env' = env,
           dm' = dm, io' = io, \A u \in Thread \ {t} : Allocs(u, "tab") => tab'[Own(u)] = None
    PROVE  /\ Locked' /\ Counted' /\ Asleep' /\ lk' \in [Set -> SlotLock]
           /\ th' \in [Thread -> ThreadState] /\ th'[t] = User
           /\ \A u \in Thread \ {t} : Same(u) /\ Keeps(u) /\ Placed(u)'
           /\ pt' \in [Set -> [f : Frame \cup {None}, w : BOOLEAN, m : BOOLEAN]]
<1>1. /\ th \in [Thread -> ThreadState] /\ lk \in [Set -> SlotLock] /\ slot \in [Set -> Slot]
      /\ pt \in [Set -> [f : Frame \cup {None}, w : BOOLEAN, m : BOOLEAN]]
  BY DEF IInv, Types
<1>2. /\ lk' = Unlock(lk, s) /\ th' = [Wake(th, Waiters(s)) EXCEPT ![t] = User]
      /\ pt' = [pt EXCEPT ![s] = [f |-> slot[s].f, m |-> FALSE,
                                  w |-> s # File /\ ~ slot[s].cow]]
  BY DEF Translate
<1>3. User \in ThreadState /\ User.pc = "user"
  BY DEF ThreadState, User
<1>4. /\ th' = [u \in Thread |-> th'[u]] /\ th'[t] = User
      /\ \A u \in Thread \ {t} : th'[u] = Wake(th, Waiters(s))[u]
  <2>1. PICK g : g = Wake(th, Waiters(s))
    OBVIOUS
  <2>2. DOMAIN g = Thread /\ th' = [g EXCEPT ![t] = User]
    BY <1>2, <2>1 DEF Wake
  <2>3. QED BY <2>1, <2>2
<1>5. Loosed(t, User, {s}, {})
  BY <1>1, <1>2, <1>4, UnlockedIs
<1>6. {s} \subseteq Has(t) /\ Has(t)' \subseteq Has(t) \ {s}
  <2>1. Has(t)' = {}
    BY <1>3, <1>4 DEF Has, HasOwn, HasMaster, Asks, Allocs
  <2>2. QED BY <2>1
<1>7. /\ Locked' /\ Counted' /\ Asleep' /\ lk' \in [Set -> SlotLock]
      /\ th' \in [Thread -> ThreadState] /\ th'[t] = User
      /\ \A u \in Thread \ {t} : Same(u) /\ Keeps(u) /\ Placed(u)'
  <2>1. User.pc \notin {"lk", "lkw", "memw"}
    BY <1>3
  <2>2. QED BY <1>3, <1>5, <1>6, <2>1, LoosedStep
<1>8. pt' \in [Set -> [f : Frame \cup {None}, w : BOOLEAN, m : BOOLEAN]]
  <2>1. slot[s].f \in Frame \cup {None} /\ slot[s].cow \in BOOLEAN
    BY <1>1 DEF Slot
  <2>2. QED BY <1>1, <1>2, <2>1
<1>9. QED BY <1>7, <1>8

LEMMA StepMap ==
    ASSUME Sound, IInv, NEW t \in Thread, Map(t)
    PROVE  IInv'
<1>p. PICK s : s = Own(t)
  OBVIOUS
<1> DEFINE table == env.tables /\ tab[s] = None
           r == IF table THEN [th[t] EXCEPT !.pc = "alloc", !.why = "tab"] ELSE User
<1>1. /\ Types /\ Placed(t) /\ SlotsOf(t) /\ th[t] \in ThreadState
      /\ th \in [Thread -> ThreadState] /\ env \in Envs
      /\ \A u \in Thread : Placed(u)
  BY DEF IInv, Types, Slots
<1>2. /\ th[t].pc = "map" /\ atl' = [atl EXCEPT ![s] = atl[s] + 1]
      /\ IF table
         THEN /\ th' = [th EXCEPT ![t].pc = "alloc", ![t].why = "tab"]
              /\ pt' = pt /\ lk' = lk
         ELSE Translate(t)
      /\ env' = env /\ slot' = slot /\ refs' = refs /\ cowsets' = cowsets
      /\ tab' = tab /\ core' = core /\ free' = free /\ memw' = memw
      /\ data' = data /\ swap' = swap /\ io' = io /\ dm' = dm /\ panic' = panic
  BY <1>p DEF Map, At, sets, pool
<1>3. /\ s \in Set /\ th[t].f = None /\ Has(t) = {s} /\ Seeks(t) = {}
      /\ \A u \in Thread \ {t} : Allocs(u, "tab") => tab'[Own(u)] = None
  BY <1>p, <1>1, <1>2 DEF Placed, Has, HasOwn, HasMaster, Asks, Allocs, Seeks
<1>4. table => /\ r \in ThreadState /\ r.pc = "alloc" /\ r.why = "tab" /\ r.f = None
               /\ r.d = th[t].d /\ r.ls = th[t].ls /\ r.to = th[t].to
               /\ th' = [th EXCEPT ![t] = r]
  <2>1. HAVE table
  <2>2. PICK k : k = [th[t] EXCEPT !.pc = "alloc", !.why = "tab"]
    OBVIOUS
  <2>3. /\ k \in ThreadState /\ k.pc = "alloc" /\ k.why = "tab" /\ k.f = th[t].f
        /\ k.d = th[t].d /\ k.ls = th[t].ls /\ k.to = th[t].to
    <3>1. th[t] \in ThreadState
      BY <1>1
    <3>2. QED BY ONLY <2>2, <3>1 DEF ThreadState
  <2>4. r = k
    BY <2>1, <2>2
  <2>5. th' = [th EXCEPT ![t] = k]
    BY <1>1, <1>2, <2>1, <2>2
  <2> HIDE DEF r
  <2>6. QED BY <1>3, <2>3, <2>4, <2>5
<1>5. ~ table => r = User
  OBVIOUS
<1>6. r.f = None /\ r.pc \in {"alloc", "user"}
  BY <1>4, <1>5 DEF User
<1> HIDE DEF r, table
<1>8. /\ Locked' /\ Counted' /\ Asleep' /\ lk' \in [Set -> SlotLock]
      /\ th' \in [Thread -> ThreadState] /\ th'[t] = r
      /\ \A u \in Thread \ {t} : Same(u) /\ Keeps(u) /\ Placed(u)'
      /\ pt' \in [Set -> [f : Frame \cup {None}, w : BOOLEAN, m : BOOLEAN]]
  <2>1. CASE table
    <3>1. th'[t] = r
      BY <1>1, <1>4, <2>1
    <3>2. Has(t)' \subseteq Has(t)
      BY <1>p, <1>2, <1>3, <1>4, <2>1, <3>1 DEF Has, HasOwn, HasMaster, Asks, Allocs, Own
    <3>3. /\ Locked' /\ Counted' /\ Asleep' /\ lk' \in [Set -> SlotLock]
          /\ th' \in [Thread -> ThreadState] /\ th'[t] = r
          /\ \A u \in Thread \ {t} : Same(u) /\ Keeps(u) /\ Placed(u)'
      BY <1>2, <1>4, <2>1, <3>2, PlainStep
    <3>4. pt' \in [Set -> [f : Frame \cup {None}, w : BOOLEAN, m : BOOLEAN]]
      BY <1>1, <1>2, <2>1 DEF Types
    <3>5. QED BY <3>3, <3>4
  <2>2. CASE ~ table
    <3>1. /\ Locked' /\ Counted' /\ Asleep' /\ lk' \in [Set -> SlotLock]
          /\ th' \in [Thread -> ThreadState] /\ th'[t] = User
          /\ \A u \in Thread \ {t} : Same(u) /\ Keeps(u) /\ Placed(u)'
          /\ pt' \in [Set -> [f : Frame \cup {None}, w : BOOLEAN, m : BOOLEAN]]
      BY <1>p, <1>2, <1>3, <2>2, TranslateIs
    <3>2. QED BY <1>5, <2>2, <3>1
  <2>3. QED BY <2>1, <2>2
<1>9. Keeps(t)
  BY <1>2, <1>4, <1>5, <1>8
     DEF Keeps, Views, Forks, Detaches, Ends, Unshares, Asks, Allocs, Own, User
<1>10. Placed(t)'
  BY <1>p, <1>1, <1>2, <1>3, <1>4, <1>5, <1>8
     DEF Placed, Asks, Allocs, Ends, Forks, Unshares, HasMaster, Own, User, table
<1>11. SlotsOf(t)'
  <2>1. SlotsFixed /\ \A u \in Thread : Keeps(u)
    BY <1>2, <1>8, <1>9 DEF SlotsFixed
  <2>2. (env.child[t] # None /\ Unborn(env.child[t]) /\ th[t].pc # "forked" =>
             ~ slot[env.child[t]].v)'
    BY <1>1, <1>2, <2>1, CopyEmpty
  <2>3. QED BY <1>2, <1>4, <1>5, <1>8, <2>2 DEF SlotsOf, Asks, Allocs, Unshares, User
<1>12. Referred' /\ Listed' /\ Slots' /\ Framed' /\ Pointed'
  BY <1>2, <1>3, <1>6, <1>8, <1>9, <1>11, StepFixed DEF SlotsFixed
<1>13. Types'
  <2>1. atl \in [Set -> Nat]
    BY <1>1 DEF Types
  <2>2. atl' \in [Set -> Nat]
    BY <1>2, <1>3, <2>1
  <2>3. QED BY <1>1, <1>2, <1>8, <2>2 DEF Types
<1>14. QED BY <1>8, <1>10, <1>12, <1>13 DEF IInv

LEMMA StepDetached ==
    ASSUME Sound, IInv, NEW t \in Thread, Drops(t)
    PROVE  IInv'
<1>p. PICK s : s = Own(t)
  OBVIOUS
<1> DEFINE r == [th[t] EXCEPT !.pc = "deref"]
           p == [slot[s] EXCEPT !.m = slot[s].m \/ pt[s].m, !.refs = slot[s].refs - 1]
<1>1. /\ Types /\ Placed(t) /\ SlotsOf(t) /\ th[t] \in ThreadState
      /\ th \in [Thread -> ThreadState] /\ env \in Envs /\ slot \in [Set -> Slot]
      /\ lk \in [Set -> SlotLock] /\ atl \in [Set -> Nat]
      /\ pt \in [Set -> [f : Frame \cup {None}, w : BOOLEAN, m : BOOLEAN]]
      /\ \A u \in Thread : Placed(u)
  BY DEF IInv, Types, Slots
<1>2. /\ th[t].pc = "det" /\ lk' = Unlock(lk, s)
      /\ slot' = IF atl[s] = 0 THEN slot ELSE [slot EXCEPT ![s] = p]
      /\ atl' = IF atl[s] = 0 THEN atl ELSE [atl EXCEPT ![s] = atl[s] - 1]
      /\ pt' = IF atl[s] = 0 THEN pt ELSE [pt EXCEPT ![s] = NoTrans]
      /\ th' = [Wake(th, Waiters(s)) EXCEPT ![t].pc = "deref"]
      /\ env' = env /\ refs' = refs /\ cowsets' = cowsets
      /\ tab' = tab /\ core' = core /\ free' = free /\ memw' = memw
      /\ data' = data /\ swap' = swap /\ io' = io /\ dm' = dm /\ panic' = panic
  BY <1>p DEF Drops, Dropped, At, sets, pool
<1>3. /\ s \in Set /\ th[t].f = None /\ Has(t) = {s} /\ Seeks(t) = {} /\ th[t].d = s
      /\ r \in ThreadState /\ r.pc = "deref" /\ r.f = None
      /\ r.d = th[t].d /\ r.ls = th[t].ls /\ r.to = th[t].to /\ r.why = th[t].why
      /\ \A u \in Thread \ {t} : Allocs(u, "tab") => tab'[Own(u)] = None
  BY <1>p, <1>1, <1>2
     DEF Placed, Has, HasOwn, HasMaster, Asks, Allocs, Seeks, ThreadState
<1>4. /\ th' = [u \in Thread |-> th'[u]] /\ th'[t] = r
      /\ \A u \in Thread \ {t} : th'[u] = Wake(th, Waiters(s))[u]
  <2>1. PICK g : g = Wake(th, Waiters(s))
    OBVIOUS
  <2>2. g[t] = th[t] /\ DOMAIN g = Thread
    BY <1>2, <1>3, <2>1, AwakeIs DEF Wake
  <2>3. th' = [g EXCEPT ![t] = r]
    BY <1>2, <2>1, <2>2
  <2> HIDE DEF r
  <2>4. QED BY <2>1, <2>2, <2>3
<1> HIDE DEF r
<1>5. Loosed(t, r, {s}, {})
  BY <1>1, <1>2, <1>3, <1>4, UnlockedIs
<1>8. /\ Locked' /\ Counted' /\ Asleep' /\ lk' \in [Set -> SlotLock]
      /\ th' \in [Thread -> ThreadState] /\ th'[t] = r
      /\ \A u \in Thread \ {t} : Same(u) /\ Keeps(u) /\ Placed(u)'
  <2>1. Has(t)' = {}
    BY <1>3, <1>4 DEF Has, HasOwn, HasMaster, Asks, Allocs
  <2>2. {s} \subseteq Has(t) /\ Has(t)' \subseteq Has(t) \ {s}
    BY <1>3, <2>1
  <2>3. r.pc \notin {"lk", "lkw", "memw"}
    BY <1>3
  <2>4. QED BY <1>2, <1>3, <1>5, <2>2, <2>3, LoosedStep
<1>9. Keeps(t)
  <2>1. th[t].pc = "det" /\ th'[t].pc = "deref" /\ th'[t].d = s /\ Own(t) = s /\ env' = env
    BY <1>p, <1>2, <1>3, <1>8
  <2>2. QED BY ONLY <2>1 DEF Keeps, Views, Forks, Detaches, Ends, Unshares, Asks, Allocs, Own
<1>10. Placed(t)'
  BY <1>p, <1>1, <1>2, <1>3, <1>8
     DEF Placed, Asks, Allocs, Ends, Forks, Unshares, HasMaster, Own
<1>a. SlotsFixed /\ slot' \in [Set -> Slot]
  <2>1. p \in Slot /\ p.v = slot[s].v /\ p.cow = slot[s].cow /\ p.f = slot[s].f
    <3>1. PICK q : q = slot[s]
      OBVIOUS
    <3>2. PICK x : x = pt[s].m
      OBVIOUS
    <3>3. q \in Slot /\ x \in BOOLEAN
      BY <1>1, <1>3, <3>1, <3>2
    <3>4. (q.m \/ x) \in BOOLEAN /\ q.refs - 1 \in Int
      BY <3>3 DEF Slot
    <3>5. QED BY <3>1, <3>2, <3>3, <3>4 DEF Slot
  <2> HIDE DEF p
  <2>2. CASE atl[s] = 0
    BY <1>1, <1>2, <2>2 DEF SlotsFixed
  <2>3. CASE atl[s] # 0
    BY <1>1, <1>2, <1>3, <2>1, <2>3 DEF SlotsFixed
  <2>4. QED BY <2>2, <2>3
<1>b. /\ pt' \in [Set -> [f : Frame \cup {None}, w : BOOLEAN, m : BOOLEAN]]
      /\ atl' \in [Set -> Nat]
  <2>1. NoTrans \in [f : Frame \cup {None}, w : BOOLEAN, m : BOOLEAN]
    BY DEF NoTrans
  <2>2. CASE atl[s] = 0
    BY <1>1, <1>2, <2>2
  <2>3. CASE atl[s] # 0
    <3>1. atl[s] - 1 \in Nat
      BY <1>1, <1>3, <2>3
    <3>2. QED BY <1>1, <1>2, <1>3, <2>1, <2>3, <3>1
  <2>4. QED BY <2>2, <2>3
<1>11. SlotsOf(t)'
  <2>1. \A u \in Thread : Keeps(u)
    BY <1>8, <1>9
  <2>2. (env.child[t] # None /\ Unborn(env.child[t]) /\ th[t].pc # "forked" =>
             ~ slot[env.child[t]].v)'
    BY <1>1, <1>2, <1>a, <2>1, CopyEmpty
  <2>3. QED BY <1>2, <1>3, <1>8, <2>2 DEF SlotsOf, Asks, Allocs, Unshares
<1>12. Referred' /\ Listed' /\ Slots' /\ Framed' /\ Pointed'
  BY <1>2, <1>3, <1>a, <1>8, <1>9, <1>11, StepFixed
<1>13. Types'
  BY <1>1, <1>2, <1>a, <1>b, <1>8 DEF Types
<1>14. QED BY <1>8, <1>10, <1>12, <1>13 DEF IInv

(* The page that thread t got goes into the slot it was got for. *)
LEMMA HandMoved ==
    ASSUME IInv, NEW t \in Thread, NEW x \in Set, th[t].pc = "got", For(t) = x,
           env' = env, free' = free, core' = core, tab' = tab,
           \A u \in Thread \ {t} : Same(u), th'[t].f = None, th'[t].pc # "got",
           \A s \in Set \ {x} : SlotFrame(s)' = SlotFrame(s),
           SlotFrame(x) = None, SlotFrame(x)' = th[t].f
    PROVE  Framed' /\ Pointed'
<1>1. /\ Framed /\ Pointed /\ th[t].f # None /\ env \in Envs
      /\ \A u \in Thread \ {t} : th'[u].f = th[u].f
  BY DEF IInv, Types, Placed, Same
<1>2. Framed'
  <2> DEFINE o == <<"hand", t>>
             w == <<"slot", x>>
  <2>1. /\ o \in Owner /\ w \in Owner /\ w # o /\ Frames[w] = None
        /\ Frames'[o] = None /\ Frames'[w] = Frames[o]
    BY FramesAre
  <2>2. Elsewhere({o, w})
    <3>1. \A u \in Thread : <<"hand", u>> \notin {o, w} => u # t
      OBVIOUS
    <3>2. \A s \in Set : <<"slot", s>> \notin {o, w} => s # x
      OBVIOUS
    <3>3. QED BY <1>1, <3>1, <3>2 DEF Elsewhere
  <2> HIDE DEF o, w
  <2>3. QED BY <1>1, <2>1, <2>2, FramedMove
<1>3. ASSUME env.steal, NEW u \in Thread, th'[u].pc = "got"
      PROVE  core'[th'[u].f].s = For(u)'
  <2>1. u # t /\ th[u].pc = "got" /\ th'[u].f = th[u].f /\ Same(u)
    BY <1>1, <1>3 DEF Same
  <2>2. core[th[u].f].s = For(u)
    BY <1>1, <1>3, <2>1 DEF Pointed
  <2>3. QED BY <2>1, <2>2, ForSame
<1>4. ASSUME env.steal, NEW f \in Frame, core'[f].alloc
      PROVE  (\E u \in Thread : th[u].f = f)' \/ (core[f].s \in Set /\ SlotFrame(core[f].s) = f)'
  <2>1. PICK s : s = core[f].s
    OBVIOUS
  <2>2. core'[f].s = s
    BY <2>1
  <2>3. (SlotFrame(core[f].s) = f)' <=> (SlotFrame(s) = f)'
    BY <2>2 DEF SlotFrame
  <2>4. \/ \E u \in Thread : th[u].f = f
        \/ s \in Set /\ SlotFrame(s) = f
    BY <1>1, <1>4, <2>1 DEF Pointed
  <2>5. CASE f = th[t].f
    <3>1. s = x
      BY <1>1, <1>4, <2>1, <2>5 DEF Pointed
    <3>2. QED BY <2>2, <2>3, <2>5, <3>1
  <2>6. CASE f # th[t].f
    <3>1. CASE \E u \in Thread : th[u].f = f
      BY <1>1, <2>6, <3>1
    <3>2. CASE s \in Set /\ SlotFrame(s) = f
      <4>1. f # None
        BY <1>1, FrameSet
      <4>2. s # x
        BY <3>2, <4>1
      <4>3. QED BY <2>2, <2>3, <3>2, <4>2
    <3>3. QED BY <2>4, <3>1, <3>2
  <2>7. QED BY <2>5, <2>6
<1>5. QED BY <1>2, <1>3, <1>4 DEF Pointed

LEMMA StepMapTable ==
    ASSUME Sound, IInv, NEW t \in Thread, MapTable(t)
    PROVE  IInv'
<1>p. PICK s : s = Own(t)
  OBVIOUS
<1>1. /\ Types /\ Placed(t) /\ SlotsOf(t) /\ th[t] \in ThreadState
      /\ th \in [Thread -> ThreadState] /\ env \in Envs /\ Framed /\ Locked
      /\ tab \in [Set -> Frame \cup {None}] /\ \A u \in Thread : Placed(u)
  BY DEF IInv, Types, Slots
<1>2. /\ th[t].pc = "got" /\ th[t].why = "tab" /\ tab' = [tab EXCEPT ![s] = th[t].f]
      /\ Translate(t)
      /\ env' = env /\ slot' = slot /\ refs' = refs /\ cowsets' = cowsets /\ atl' = atl
      /\ core' = core /\ free' = free /\ memw' = memw
      /\ data' = data /\ swap' = swap /\ io' = io /\ dm' = dm /\ panic' = panic
  BY <1>p DEF MapTable, At, sets, pool
<1>3. /\ s \in Set /\ th[t].f # None /\ Has(t) = {s} /\ tab[s] = None /\ env.tables
      /\ th[t].f \in Frame
  BY <1>p, <1>1, <1>2 DEF Placed, Has, HasOwn, HasMaster, Asks, Allocs, ThreadState
<1>4. \A u \in Thread \ {t} : Allocs(u, "tab") => tab'[Own(u)] = None
  <2>1. ASSUME NEW u \in Thread \ {t}, Allocs(u, "tab") PROVE Own(u) \in Set /\ Own(u) # s
    <3>1. Own(u) \in Has(u) /\ Own(u) \in Set
      BY <1>1, <2>1 DEF Has, HasOwn, Allocs, Placed
    <3>2. QED BY <1>1, <1>3, <3>1 DEF Locked
  <2>2. QED BY <1>1, <1>2, <2>1 DEF Placed
<1>8. /\ Locked' /\ Counted' /\ Asleep' /\ lk' \in [Set -> SlotLock]
      /\ th' \in [Thread -> ThreadState] /\ th'[t] = User
      /\ \A u \in Thread \ {t} : Same(u) /\ Keeps(u) /\ Placed(u)'
      /\ pt' \in [Set -> [f : Frame \cup {None}, w : BOOLEAN, m : BOOLEAN]]
  <2>1. s \in Has(t) /\ th[t].pc \notin {"lkw", "memw"}
    BY <1>2, <1>3
  <2>2. QED BY <1>p, <1>2, <1>3, <1>4, <2>1, TranslateIs
<1>9. Keeps(t)
  BY <1>2, <1>8 DEF Keeps, Views, Forks, Detaches, Ends, Unshares, Asks, Allocs, Own, User
<1>10. Placed(t)'
  BY <1>p, <1>1, <1>2, <1>3, <1>8
     DEF Placed, Asks, Allocs, Ends, Forks, Unshares, HasMaster, Own, User
<1>11. SlotsOf(t)'
  <2>1. SlotsFixed /\ \A u \in Thread : Keeps(u)
    BY <1>2, <1>8, <1>9 DEF SlotsFixed
  <2>2. (env.child[t] # None /\ Unborn(env.child[t]) /\ th[t].pc # "forked" =>
             ~ slot[env.child[t]].v)'
    BY <1>1, <1>2, <2>1, CopyEmpty
  <2>3. QED BY <1>2, <1>8, <2>2 DEF SlotsOf, Asks, Allocs, Unshares, User
<1>12. Referred' /\ Listed' /\ Slots' /\ \A x \in Set : SlotFrame(x)' = SlotFrame(x)
  BY <1>2, <1>8, <1>9, <1>11, StepSlots DEF SlotsFixed
<1>13. Framed'
  <2> DEFINE o == <<"hand", t>>
             w == <<"tab", s>>
  <2>0. th'[t].f = None /\ tab'[s] = th[t].f
    BY <1>1, <1>2, <1>3, <1>8 DEF User
  <2>1. /\ o \in Owner /\ w \in Owner /\ w # o /\ Frames[w] = None
        /\ Frames'[o] = None /\ Frames'[w] = Frames[o]
    BY <1>3, <2>0, FramesAre
  <2>2. Elsewhere({o, w})
    <3>1. \A u \in Thread : <<"hand", u>> \notin {o, w} => u # t
      OBVIOUS
    <3>2. \A x \in Set : <<"tab", x>> \notin {o, w} => x # s
      OBVIOUS
    <3>3. QED BY <1>1, <1>2, <1>8, <1>12, <3>1, <3>2 DEF Elsewhere, Same
  <2> HIDE DEF o, w
  <2>3. QED BY <1>1, <1>2, <2>1, <2>2, FramedMove
<1>14. Pointed'
  <2>1. ~ env.steal
    BY <1>1, <1>3 DEF Sound
  <2>2. QED BY <1>2, <2>1 DEF Pointed
<1>15. Types'
  BY <1>1, <1>2, <1>3, <1>8 DEF Types
<1>16. QED BY <1>8, <1>10, <1>12, <1>13, <1>14, <1>15 DEF IInv

LEMMA StepFill ==
    ASSUME Sound, IInv, NEW t \in Thread, Fill(t)
    PROVE  IInv'
<1>p. PICK s : s = For(t)
  OBVIOUS
<1> DEFINE r == [th[t] EXCEPT !.pc = IF th[t].why = "fill" THEN "map" ELSE "share",
                              !.f = None]
           f == th[t].f
           e == Filled(slot[s], f)
<1>1. /\ Types /\ Placed(t) /\ SlotsOf(t) /\ th[t] \in ThreadState
      /\ th \in [Thread -> ThreadState] /\ env \in Envs /\ slot \in [Set -> Slot]
      /\ Locked /\ Slots /\ data \in [Frame -> Val] /\ swap \in [Set -> Val]
      /\ \A u \in Thread : Placed(u)
  BY DEF IInv, Types, Slots
<1>2. /\ th[t].pc = "got" /\ th[t].why \in {"fill", "master"} /\ s \notin Cow
      /\ data' = [data EXCEPT ![f] = IF slot[s].sw THEN swap[s] ELSE 0]
      /\ slot' = [slot EXCEPT ![s] = e]
      /\ th' = [th EXCEPT ![t].pc = IF th[t].why = "fill" THEN "map" ELSE "share",
                          ![t].f = None]
      /\ env' = env /\ lk' = lk /\ refs' = refs /\ cowsets' = cowsets /\ atl' = atl
      /\ pt' = pt /\ tab' = tab /\ core' = core /\ free' = free /\ memw' = memw
      /\ swap' = swap /\ io' = io /\ dm' = dm /\ panic' = panic
  BY <1>p DEF Fill, At, sets, maps, pool
<1>3. /\ s \in Set /\ s \in Has(t) /\ f \in Frame /\ ~ slot[s].v
      /\ th[t].why = "fill" => s = Own(t)
      /\ th[t].why = "master" => s = File /\ Own(t) \in Cow /\ ~ slot[Own(t)].v
  BY <1>p, <1>1, <1>2
     DEF Placed, Has, HasOwn, HasMaster, Asks, Allocs, ThreadState, For, Set, SlotsOf
<1>4. /\ r \in ThreadState /\ r.f = None /\ r.why = th[t].why
      /\ r.pc = IF th[t].why = "fill" THEN "map" ELSE "share"
      /\ r.d = th[t].d /\ r.ls = th[t].ls /\ r.to = th[t].to
      /\ th' = [th EXCEPT ![t] = r]
  BY <1>1, <1>2 DEF ThreadState
<1> HIDE DEF r
<1>6. th'[t] = r
  BY <1>1, <1>4
<1>7. Has(t)' \subseteq Has(t)
  BY <1>2, <1>4, <1>6 DEF Has, HasOwn, HasMaster, Asks, Allocs, Own
<1>8. /\ Locked' /\ Counted' /\ Asleep' /\ lk' \in [Set -> SlotLock]
      /\ th' \in [Thread -> ThreadState] /\ th'[t] = r
      /\ \A u \in Thread \ {t} : Same(u) /\ Keeps(u) /\ Placed(u)'
  <2>1. th[t].pc \notin {"lkw", "memw"} /\ r.pc \notin {"lk", "lkw", "memw"}
    BY <1>2, <1>4
  <2>2. QED BY <1>2, <1>4, <1>7, <2>1, PlainStep
<1>9. Keeps(t)
  BY <1>2, <1>4, <1>6 DEF Keeps, Views, Forks, Detaches, Ends, Unshares, Asks, Allocs, Own
<1>10. Placed(t)'
  BY <1>1, <1>2, <1>3, <1>4, <1>6
     DEF Placed, Asks, Allocs, Ends, Forks, Unshares, HasMaster, Own
<1>a. /\ slot' \in [Set -> Slot] /\ slot'[s].v /\ ~ slot'[s].cow /\ slot'[s].f = f
      /\ \A x \in Set \ {s} : slot'[x] = slot[x]
  <2>1. e \in Slot /\ e.v = TRUE /\ e.f = f /\ e.cow = slot[s].cow
    BY <1>1, <1>3, FilledIs
  <2>2. ~ slot[s].cow
    BY <1>1, <1>2, <1>3 DEF Slots, SlotShape
  <2> HIDE DEF e
  <2>3. QED BY <1>1, <1>2, <1>3, <2>1, <2>2
<1>b. Quiet(s, {t}) /\ ~ Daemon1(s) /\ s \notin io
  BY <1>1, <1>3, HasQuiet
<1>c. SlotShape(s)'
  BY <1>3, <1>a DEF SlotShape
<1>11. SlotsOf(t)'
  <2>1. \A u \in Thread : Keeps(u)
    BY <1>8, <1>9
  <2>2. env.child[t] = s => Own(t) = s
    <3>1. env.child[t] # None => env.child[t] # File
      BY <1>1 DEF Sound
    <3>2. s # None
      BY <1>3, SetAssumption
    <3>3. QED BY <1>2, <1>3, <3>1, <3>2
  <2>3. (env.child[t] # None /\ Unborn(env.child[t]) /\ th[t].pc # "forked" =>
             ~ slot[env.child[t]].v)'
    BY <1>1, <1>2, <1>3, <1>4, <1>6, <1>a, <2>1, <2>2, CopyStays
  <2>4. th[t].why = "master" => ~ slot'[Own(t)].v /\ slot'[File].v
    <3>1. HAVE th[t].why = "master"
    <3>2. Own(t) \in Set /\ Own(t) # s
      BY <1>3, <3>1, SetAssumption DEF Set
    <3>3. QED BY <1>3, <1>a, <3>1, <3>2
  <2>5. QED BY <1>2, <1>4, <1>6, <2>3, <2>4 DEF SlotsOf, Asks, Allocs, Unshares, Own
<1>12. Referred' /\ Listed' /\ Slots' /\ \A x \in Set \ {s} : SlotFrame(x)' = SlotFrame(x)
  BY <1>2, <1>3, <1>8, <1>9, <1>a, <1>b, <1>c, <1>11, StepSlot
<1>13. Framed' /\ Pointed'
  <2>1. SlotFrame(s) = None /\ SlotFrame(s)' = f
    BY <1>3, <1>a DEF SlotFrame
  <2>2. th'[t].f = None /\ th'[t].pc # "got" /\ For(t) = s
    BY <1>p, <1>4, <1>6
  <2>3. QED BY <1>2, <1>3, <1>8, <1>12, <2>1, <2>2, HandMoved
<1>15. Types'
  <2>1. data' \in [Frame -> Val]
    <3>1. (IF slot[s].sw THEN swap[s] ELSE 0) \in Val
      BY <1>1, <1>3, EnvAssumption DEF Val, Junk
    <3>2. QED BY <1>1, <1>2, <3>1
  <2>2. QED BY <1>1, <1>2, <1>8, <1>a, <2>1 DEF Types
<1>16. QED BY <1>8, <1>10, <1>12, <1>13, <1>15 DEF IInv

LEMMA RefsGiven ==
    ASSUME slot \in [Set -> Slot], NEW x \in Set, NEW i \in Int, NEW a,
           a = [slot EXCEPT ![x].refs = i]
    PROVE  /\ a \in [Set -> Slot]
           /\ \A s \in Set : /\ a[s].v = slot[s].v /\ a[s].cow = slot[s].cow
                             /\ a[s].f = slot[s].f
<1>1. slot[x] \in Slot
  OBVIOUS
<1>2. /\ [slot[x] EXCEPT !.refs = i] \in Slot
      /\ [slot[x] EXCEPT !.refs = i].v = slot[x].v
      /\ [slot[x] EXCEPT !.refs = i].cow = slot[x].cow
      /\ [slot[x] EXCEPT !.refs = i].f = slot[x].f
  BY <1>1 DEF Slot
<1>3. \A s \in Set : a[s] = IF s = x THEN [slot[x] EXCEPT !.refs = i] ELSE slot[s]
  OBVIOUS
<1>4. a \in [Set -> Slot]
  BY <1>2
<1>5. QED BY <1>2, <1>3, <1>4

(* Nothing changes but panic. *)
LEMMA PanicOnly ==
    ASSUME IInv, NEW t \in Thread, Halts(t)
    PROVE  IInv'
<1>0. /\ th[t].pc \notin {"lk", "lkw", "memw"} /\ panic' # "none"
      /\ env' = env /\ slot' = slot /\ lk' = lk /\ refs' = refs /\ cowsets' = cowsets
      /\ atl' = atl /\ pt' = pt /\ tab' = tab /\ core' = core /\ free' = free
      /\ memw' = memw /\ data' = data /\ swap' = swap /\ io' = io /\ th' = th /\ dm' = dm
  BY DEF Halts, Stops, Die, sets, maps, pool
<1>1. /\ Types /\ th[t] \in ThreadState /\ Placed(t) /\ Slots /\ Framed /\ Pointed
      /\ th \in [Thread -> ThreadState] /\ th' = [th EXCEPT ![t] = th[t]]
      /\ Referred /\ Listed /\ env \in Envs /\ \A u \in Thread : Placed(u)
  BY <1>0 DEF IInv, Types
<1>2. \A u \in Thread : Same(u) /\ Keeps(u)
  <2>1. ASSUME NEW u \in Thread PROVE Same(u) /\ Keeps(u)
    <3>1. Aside(u)
      BY <1>0 DEF Aside
    <3>2. QED BY <1>0, <1>1, <3>1, AsideIs, SameKeeps
  <2>2. QED BY <1>0, <2>1
<1>3. Has(t)' \subseteq Has(t)
  BY <1>0, <1>2 DEF Same
<1>4. /\ Locked' /\ Counted' /\ Asleep' /\ lk' \in [Set -> SlotLock]
      /\ th' \in [Thread -> ThreadState] /\ th'[t] = th[t]
      /\ \A u \in Thread \ {t} : Same(u) /\ Keeps(u) /\ Placed(u)'
  BY <1>0, <1>1, <1>3, PlainStep
<1>5. \A u \in Thread : Placed(u)'
  <2>1. Allocs(t, "tab") => tab'[Own(t)] = None
    BY <1>0, <1>1 DEF Placed
  <2>2. Placed(t)'
    BY <1>0, <1>1, <1>2, <2>1, PlacedAside
  <2>3. QED BY <1>0, <1>4, <2>2
<1>6. Live'
  BY <1>0 DEF Live
<1>7. Referred' /\ Listed'
  BY <1>0, <1>1, <1>2, <1>6, RefsKept
<1>8. SlotsFixed
  BY <1>0 DEF SlotsFixed
<1>9. \A u \in Thread : SlotsOf(u)'
  <2>1. \A c \in Set : Unborn(c)' => Unborn(c)
    BY <1>0, <1>2 DEF Unborn, Keeps
  <2>2. \A u \in Thread : SlotsOf(u)
    BY <1>0, <1>1 DEF Slots
  <2>3. \A u \in Thread \ {} : SlotsOf(u)'
    BY <1>0, <1>1, <1>2, <1>8, <2>1, <2>2, SlotsSame
  <2>4. QED BY <1>0, <2>3
<1>10. Slots'
  BY <1>0, <1>1, <1>9 DEF Slots, SlotShape
<1>11. \A s \in Set : SlotFrame(s)' = SlotFrame(s)
  BY <1>0 DEF SlotFrame
<1>12. Framed'
  BY <1>0, <1>1, <1>11, FramedSame DEF Elsewhere
<1>13. Pointed'
  BY <1>0, <1>1, <1>2, <1>11, PointedSame, ForSame
<1>14. Types'
  BY <1>0, <1>1 DEF Types
<1>15. QED BY <1>0, <1>4, <1>5, <1>7, <1>10, <1>12, <1>13, <1>14 DEF IInv

LEMMA StepCowWrite ==
    ASSUME Sound, IInv, NEW t \in Thread, Writes(t)
    PROVE  IInv'
<1>p. PICK s : s = Own(t)
  OBVIOUS
<1> DEFINE r == [th[t] EXCEPT !.pc = "map", !.f = None]
           f == th[t].f
<1>1. /\ Types /\ Placed(t) /\ SlotsOf(t) /\ th[t] \in ThreadState
      /\ th \in [Thread -> ThreadState] /\ env \in Envs /\ slot \in [Set -> Slot]
      /\ Locked /\ Slots /\ data \in [Frame -> Val] /\ \A u \in Thread : Placed(u)
  BY DEF IInv, Types, Slots
<1>2. /\ th[t].pc = "got" /\ th[t].why = "write"
      /\ env' = env /\ lk' = lk /\ refs' = refs /\ cowsets' = cowsets /\ atl' = atl
      /\ pt' = pt /\ tab' = tab /\ core' = core /\ free' = free /\ memw' = memw
      /\ swap' = swap /\ io' = io /\ dm' = dm
  BY DEF Writes, CowWritten, At, sets, maps, pool
<1>3. slot[File].v
  BY DEF Writes
<1>4. QED
  <2>1. /\ data' = [data EXCEPT ![f] = data[slot[File].f]] /\ panic' = panic
        /\ slot' = [slot EXCEPT ![File].refs = slot[File].refs - 1, ![s].f = f,
                                ![s].cow = FALSE]
        /\ th' = [th EXCEPT ![t].pc = "map", ![t].f = None]
    BY <1>p, <1>3 DEF Writes, CowWritten
  <2>2. /\ s \in Set /\ s \in Has(t) /\ f \in Frame /\ s # File /\ File \in Set
        /\ slot[s].cow /\ slot[s].v
    <3>1. s \in Set /\ s \in Has(t) /\ f \in Frame /\ slot[s].cow
      BY <1>p, <1>1, <1>2
         DEF Placed, Has, HasOwn, HasMaster, Asks, Allocs, ThreadState, SlotsOf
    <3>2. s \in Cow /\ slot[s].v
      BY <1>1, <3>1 DEF Slots, SlotShape
    <3>3. QED BY <3>1, <3>2, SetAssumption DEF Set
  <2>3. /\ r \in ThreadState /\ r.f = None /\ r.why = th[t].why /\ r.pc = "map"
        /\ r.d = th[t].d /\ r.ls = th[t].ls /\ r.to = th[t].to
        /\ th' = [th EXCEPT ![t] = r]
    BY <1>1, <1>2, <2>1 DEF ThreadState
  <2> HIDE DEF r
  <2>6. th'[t] = r
    BY <1>1, <2>3
  <2>7. Has(t)' \subseteq Has(t)
    BY <1>2, <2>3, <2>6 DEF Has, HasOwn, HasMaster, Asks, Allocs, Own
  <2>8. /\ Locked' /\ Counted' /\ Asleep' /\ lk' \in [Set -> SlotLock]
        /\ th' \in [Thread -> ThreadState] /\ th'[t] = r
        /\ \A u \in Thread \ {t} : Same(u) /\ Keeps(u) /\ Placed(u)'
    BY <1>2, <2>3, <2>7, PlainStep
  <2>9. Keeps(t)
    BY <1>2, <2>3, <2>6 DEF Keeps, Views, Forks, Detaches, Ends, Unshares, Asks, Allocs, Own
  <2>10. Placed(t)'
    BY <1>1, <1>2, <2>2, <2>3, <2>6
       DEF Placed, Asks, Allocs, Ends, Forks, Unshares, HasMaster, Own
  <2>a. /\ slot' \in [Set -> Slot] /\ slot'[s].v /\ ~ slot'[s].cow /\ slot'[s].f = f
        /\ \A x \in Set \ {s} : /\ slot'[x].v = slot[x].v /\ slot'[x].cow = slot[x].cow
                                /\ slot'[x].f = slot[x].f
    <3>1. PICK a : a = [slot EXCEPT ![File].refs = slot[File].refs - 1]
      OBVIOUS
    <3>2. /\ a \in [Set -> Slot]
          /\ \A x \in Set : /\ a[x].v = slot[x].v /\ a[x].cow = slot[x].cow
                            /\ a[x].f = slot[x].f
      <4>1. PICK i : i = slot[File].refs - 1
        OBVIOUS
      <4>2. i \in Int /\ a = [slot EXCEPT ![File].refs = i]
        BY <1>1, <2>2, <3>1, <4>1 DEF Slot
      <4>3. QED BY <1>1, <2>2, <4>2, RefsGiven
    <3>3. slot' = [a EXCEPT ![s].f = f, ![s].cow = FALSE]
      BY <2>1, <3>1
    <3>4. PICK b : b = [a[s] EXCEPT !.f = f, !.cow = FALSE]
      OBVIOUS
    <3>5. b \in Slot /\ b.v = a[s].v /\ b.cow = FALSE /\ b.f = f
      <4>1. a[s] \in Slot
        BY <2>2, <3>2
      <4>2. QED BY <2>2, <3>4, <4>1 DEF Slot
    <3>6. slot' = [a EXCEPT ![s] = b]
      BY <2>2, <3>2, <3>3, <3>4
    <3>7. QED BY <2>2, <3>2, <3>5, <3>6
  <2>b. Quiet(s, {t}) /\ ~ Daemon1(s) /\ s \notin io
    BY <1>1, <2>2, HasQuiet
  <2>c. SlotShape(s)'
    BY <2>2, <2>a DEF SlotShape
  <2>11. SlotsOf(t)'
    <3>1. \A u \in Thread : Keeps(u)
      BY <2>8, <2>9
    <3>2. (env.child[t] # None /\ Unborn(env.child[t]) /\ th[t].pc # "forked" =>
               ~ slot[env.child[t]].v)'
      BY <1>p, <1>1, <1>2, <2>2, <2>3, <2>6, <2>a, <3>1, CopyStays
    <3>3. QED BY <1>2, <2>3, <2>6, <3>2 DEF SlotsOf, Asks, Allocs, Unshares, Own
  <2>12. /\ Referred' /\ Listed' /\ Slots'
         /\ \A x \in Set \ {s} : SlotFrame(x)' = SlotFrame(x)
    BY <1>2, <2>1, <2>2, <2>8, <2>9, <2>a, <2>b, <2>c, <2>11, StepSlot
  <2>13. Framed' /\ Pointed'
    <3>1. SlotFrame(s) = None /\ SlotFrame(s)' = f
      BY <2>2, <2>a DEF SlotFrame
    <3>2. th'[t].f = None /\ th'[t].pc # "got" /\ For(t) = s
      BY <1>p, <1>2, <2>3, <2>6 DEF For
    <3>3. QED BY <1>2, <2>2, <2>8, <2>12, <3>1, <3>2, HandMoved
  <2>15. Types'
    <3>1. data' \in [Frame -> Val]
      <4>1. slot[File].f \in Frame
        BY <1>1, <1>3, <2>2 DEF Slots, SlotShape
      <4>2. QED BY <1>1, <2>1, <4>1
    <3>2. QED BY <1>1, <1>2, <2>8, <2>a, <3>1 DEF Types
  <2>16. QED BY <2>8, <2>10, <2>12, <2>13, <2>15 DEF IInv

LEMMA StepCopyPage ==
    ASSUME Sound, IInv, NEW t \in Thread, Copies(t)
    PROVE  IInv'
<1>p. PICK s : s = Own(t)
  OBVIOUS
<1>c. PICK c : c = env.child[t]
  OBVIOUS
<1> DEFINE r == [th[t] EXCEPT !.pc = "forked", !.f = None]
           f == th[t].f
<1>1. /\ Types /\ Placed(t) /\ SlotsOf(t) /\ th[t] \in ThreadState
      /\ th \in [Thread -> ThreadState] /\ env \in Envs /\ slot \in [Set -> Slot]
      /\ lk \in [Set -> SlotLock] /\ Locked /\ Slots /\ Listed
      /\ data \in [Frame -> Val] /\ swap \in [Set -> Val] /\ \A u \in Thread : Placed(u)
  BY DEF IInv, Types, Slots
<1>2. /\ th[t].pc = "got" /\ th[t].why = "copy" /\ lk' = Unlock(lk, s)
      /\ IF slot[s].v THEN data' = [data EXCEPT ![f] = data[slot[s].f]] /\ swap' = swap
         ELSE swap' = [swap EXCEPT ![s] = data[f]] /\ data' = data
      /\ slot' = [slot EXCEPT ![c].v = TRUE, ![c].f = f]
      /\ th' = [Wake(th, Waiters(s)) EXCEPT ![t].pc = "forked", ![t].f = None]
      /\ env' = env /\ refs' = refs /\ cowsets' = cowsets /\ atl' = atl
      /\ pt' = pt /\ tab' = tab /\ core' = core /\ free' = free /\ memw' = memw
      /\ io' = io /\ dm' = dm /\ panic' = panic
  BY <1>p, <1>c DEF Copies, Copied, At, sets, maps, pool
<1>3. /\ s \in Set /\ Has(t) = {s} /\ Seeks(t) = {} /\ f \in Frame /\ Forks(t)
      /\ \A u \in Thread \ {t} : Allocs(u, "tab") => tab'[Own(u)] = None
      /\ r \in ThreadState /\ r.pc = "forked" /\ r.f = None
      /\ r.d = th[t].d /\ r.ls = th[t].ls /\ r.to = th[t].to /\ r.why = th[t].why
  BY <1>p, <1>1, <1>2
     DEF Placed, Has, HasOwn, HasMaster, Asks, Allocs, Seeks, ThreadState, Forks
<1>4. /\ c \in Set /\ c # File /\ Unborn(c) /\ ~ slot[c].v /\ ~ slot[c].cow /\ For(t) = c
      /\ \A u \in Thread \ {t} : env.child[u] # c
  <2>1. c \in Set /\ Unborn(c) /\ For(t) = c /\ env.child[t] # None
    <3>1. env.child[t] # None /\ Unborn(env.child[t])
      BY <1>1, <1>3 DEF Listed, Placed
    <3>2. Unborn(c)
      BY <1>c, <3>1
    <3>3. QED BY <1>1, <1>2, <1>c, <3>1, <3>2, EnvIs DEF For
  <2>2. c # File
    BY <1>1, <1>c, <2>1 DEF Sound
  <2>3. \A u \in Thread \ {t} : env.child[u] # c
    BY <1>1, <1>c, <2>1 DEF Sound
  <2>4. ~ slot[c].v
    <3>1. Unborn(env.child[t])
      BY <1>c, <2>1
    <3>2. QED BY <1>1, <1>2, <1>c, <2>1, <3>1 DEF SlotsOf
  <2>5. ~ slot[c].cow
    BY <1>1, <2>1, <2>4 DEF Slots, SlotShape
  <2>6. QED BY <2>1, <2>2, <2>3, <2>4, <2>5
<1>5. /\ th' = [u \in Thread |-> th'[u]] /\ th'[t] = r
      /\ \A u \in Thread \ {t} : th'[u] = Wake(th, Waiters(s))[u]
  <2>1. PICK g : g = Wake(th, Waiters(s))
    OBVIOUS
  <2>2. g[t] = th[t] /\ DOMAIN g = Thread
    BY <1>2, <1>3, <2>1, AwakeIs DEF Wake
  <2>3. th' = [g EXCEPT ![t] = r]
    <3>1. th' = [g EXCEPT ![t].pc = "forked", ![t].f = None]
      BY <1>2, <2>1
    <3>2. QED BY <2>2, <3>1
  <2> HIDE DEF r
  <2>4. QED BY <2>1, <2>2, <2>3
<1> HIDE DEF r
<1>6. Loosed(t, r, {s}, {})
  <2>1. Loosed(t, th'[t], {s}, {})
    BY <1>1, <1>2, <1>3, <1>5, UnlockedIs
  <2>2. QED BY <1>5, <2>1
<1>8. /\ Locked' /\ Counted' /\ Asleep' /\ lk' \in [Set -> SlotLock]
      /\ th' \in [Thread -> ThreadState] /\ th'[t] = r
      /\ \A u \in Thread \ {t} : Same(u) /\ Keeps(u) /\ Placed(u)'
  <2>1. Has(t)' = {}
    BY <1>3, <1>5 DEF Has, HasOwn, HasMaster, Asks, Allocs
  <2>2. {s} \subseteq Has(t) /\ Has(t)' \subseteq Has(t) \ {s}
    BY <1>3, <2>1
  <2>3. r.pc \notin {"lk", "lkw", "memw"} /\ th[t].pc \notin {"lkw", "memw"}
    BY <1>2, <1>3
  <2>4. QED BY <1>2, <1>3, <1>6, <2>2, <2>3, LoosedStep
<1>9. Keeps(t)
  <2>1. /\ th[t].pc = "got" /\ th[t].why = "copy" /\ th'[t].pc = "forked" /\ env' = env
        /\ th'[t].d = th[t].d
    BY <1>2, <1>3, <1>8
  <2>2. QED BY ONLY <2>1 DEF Keeps, Views, Forks, Detaches, Ends, Unshares, Asks, Allocs, Own
<1>10. Placed(t)'
  BY <1>p, <1>1, <1>2, <1>3, <1>8
     DEF Placed, Asks, Allocs, Ends, Forks, Unshares, HasMaster, Own
<1>a. /\ slot' \in [Set -> Slot] /\ slot'[c].v /\ ~ slot'[c].cow /\ slot'[c].f = f
      /\ \A x \in Set \ {c} : slot'[x] = slot[x]
  <2>1. PICK b : b = [slot[c] EXCEPT !.v = TRUE, !.f = f]
    OBVIOUS
  <2>2. b \in Slot /\ b.v = TRUE /\ b.cow = slot[c].cow /\ b.f = f
    <3>1. slot[c] \in Slot
      BY <1>1, <1>4
    <3>2. QED BY <1>3, <2>1, <3>1 DEF Slot
  <2>3. slot' = [slot EXCEPT ![c] = b]
    BY <1>2, <2>1
  <2>4. QED BY <1>1, <1>4, <2>2, <2>3
<1>b. Quiet(c, {t}) /\ ~ Daemon1(c) /\ c \notin io
  <2>1. \A u \in Thread : c \notin Has(u) /\ ~ (Unshares(u) /\ Own(u) = c)
    BY <1>4 DEF Unborn, Has, HasOwn, HasMaster, Unshares, Asks, Allocs
  <2>2. QED BY <1>1, <1>4, <2>1 DEF Quiet, Slots, Daemon1
<1>d. SlotShape(c)'
  BY <1>3, <1>a DEF SlotShape
<1>11. SlotsOf(t)'
  BY <1>3, <1>8 DEF SlotsOf, Asks, Allocs, Unshares
<1>12. Referred' /\ Listed' /\ Slots' /\ \A x \in Set \ {c} : SlotFrame(x)' = SlotFrame(x)
  BY <1>2, <1>4, <1>8, <1>9, <1>a, <1>b, <1>d, <1>11, StepSlot
<1>13. Framed' /\ Pointed'
  <2>1. SlotFrame(c) = None /\ SlotFrame(c)' = f
    BY <1>4, <1>a DEF SlotFrame
  <2>2. th'[t].f = None /\ th'[t].pc # "got"
    BY <1>3, <1>5
  <2>3. QED BY <1>2, <1>4, <1>8, <1>12, <2>1, <2>2, HandMoved
<1>15. Types'
  <2>1. data' \in [Frame -> Val] /\ swap' \in [Set -> Val]
    <3>1. slot[s].v => slot[s].f \in Frame
      BY <1>1, <1>3 DEF Slots, SlotShape
    <3>2. QED BY <1>1, <1>2, <1>3, <3>1
  <2>2. QED BY <1>1, <1>2, <1>8, <1>a, <2>1 DEF Types
<1>16. QED BY <1>8, <1>10, <1>12, <1>13, <1>15 DEF IInv

-----------------------------------------------------------------------------
(* Steps that free a page                                                   *)

LEMMA WokenIs ==
    ASSUME NEW r \in ThreadState
    PROVE  /\ Woken(r) \in ThreadState /\ Woken(r).f = r.f
           /\ Woken(r).pc \in {"lk", "alloc"}
BY DEF Woken, ThreadState

(* What the threads are as a page is about to be freed: those of A go on as *)
(* r, the waiters for the locks of R are awake.                             *)
Roused(A, r, R) ==
    [u \in Thread |-> IF u \in A THEN r
                      ELSE IF u \in UNION {Waiters(s) : s \in R} THEN Woken(th[u])
                      ELSE th[u]]

(* ... and what they are then; M: who waited for a page. *)
Risen(A, r, R, M) ==
    [u \in Thread |-> IF u \in A THEN r
                      ELSE IF u \in M \cup UNION {Waiters(s) : s \in R}
                      THEN Woken(th[u]) ELSE th[u]]

(* Who is woken because a page is freed. *)
Fed(M) == \/ M = {} /\ memw' = memw
          \/ M = VWakes(memw) /\ Blocked(memw) /\ memw' = VSema(memw)

(* The threads of A, which were awake, go on as r; owner o frees its page.  *)
Freeing(A, r, R, o) ==
    /\ r \in ThreadState /\ R \subseteq Set /\ o \in Owner /\ Frames[o] # None
    /\ FreePage(Roused(A, r, R), Frames[o]) /\ env' = env
    /\ \A u \in Thread : u \in A => th[u].pc \notin {"lkw", "memw"}
    /\ \A s \in Set : SlotFrame(s)' = IF <<"slot", s>> = o THEN None ELSE SlotFrame(s)
    /\ \A s \in Set : tab'[s] = IF <<"tab", s>> = o THEN None ELSE tab[s]
    /\ \A u \in Thread : u \in A => r.f = IF <<"hand", u>> = o THEN None ELSE th[u].f
    /\ \A u \in Thread : u \notin A => <<"hand", u>> # o

LEMMA FreedIs ==
    ASSUME IInv, NEW A, NEW r, NEW R, NEW o, Freeing(A, r, R, o)
    PROVE  /\ Framed' /\ free' \in Seq(Frame) /\ panic' = panic
           /\ core' = [core EXCEPT ![Frames[o]].alloc = FALSE] /\ Frames[o] \in Frame
           /\ \E M : Fed(M) /\ th' = Risen(A, r, R, M)
<1> DEFINE g == Roused(A, r, R)
           W == UNION {Waiters(s) : s \in R}
<1>1. /\ th \in [Thread -> ThreadState] /\ Framed /\ env \in Envs /\ free \in Seq(Frame)
      /\ core \in [Frame -> [alloc : BOOLEAN, s : Set \cup {None}]]
      /\ \A s \in Set : SleptOn(lk[s].sema, Thread, Waiting(s))
      /\ SleptOn(memw, Thread, Starving)
  BY DEF IInv, Types, Asleep
<1>h. /\ r \in ThreadState /\ R \subseteq Set /\ o \in Owner /\ Frames[o] # None
      /\ FreePage(g, Frames[o]) /\ env' = env
      /\ \A u \in Thread : u \in A => th[u].pc \notin {"lkw", "memw"}
      /\ \A s \in Set : SlotFrame(s)' = IF <<"slot", s>> = o THEN None ELSE SlotFrame(s)
      /\ \A s \in Set : tab'[s] = IF <<"tab", s>> = o THEN None ELSE tab[s]
      /\ \A u \in Thread : u \in A => r.f = IF <<"hand", u>> = o THEN None ELSE th[u].f
      /\ \A u \in Thread : u \notin A => <<"hand", u>> # o
  BY DEF Freeing
<1>2. \A u \in Thread : g[u] = IF u \in A THEN r ELSE IF u \in W THEN Woken(th[u]) ELSE th[u]
  BY DEF Roused
<1>3. DOMAIN g = Thread
  BY DEF Roused
<1> HIDE DEF g, W
<1>4. \A u \in Thread : g[u] \in ThreadState /\ (u \notin A => g[u].f = th[u].f)
  BY <1>h, <1>1, <1>2, WokenIs
<1>5. FreePage(g, Frames[o])
  BY <1>h
<1>6. \A u \in Thread : th'[u].f = g[u].f
  <2>1. th' = g \/ th' = Wake(g, VWakes(memw))
    BY <1>5 DEF FreePage
  <2>2. CASE th' = g
    BY <2>2
  <2>3. CASE th' = Wake(g, VWakes(memw))
    <3>1. \A u \in Thread : th'[u] = IF u \in VWakes(memw) THEN Woken(g[u]) ELSE g[u]
      BY <2>3 DEF Wake
    <3>2. QED BY <1>4, <3>1, WokenIs
  <2>4. QED BY <2>1, <2>2, <2>3
<1>7. Elsewhere({o}) /\ Frames'[o] = None
  <2>1. \A u \in Thread : th'[u].f = IF <<"hand", u>> = o THEN None ELSE th[u].f
    BY <1>h, <1>2, <1>4, <1>6
  <2>2. Elsewhere({o})
    BY <1>h, <2>1 DEF Elsewhere
  <2>3. Frames'[o] = None
    <3>1. CASE \E s \in Set : o = <<"slot", s>>
      <4>1. PICK s \in Set : o = <<"slot", s>>
        BY <3>1
      <4>2. Frames'[<<"slot", s>>] = SlotFrame(s)'
        BY FramesAre
      <4>3. QED BY <1>h, <4>1, <4>2
    <3>2. CASE \E s \in Set : o = <<"tab", s>>
      <4>1. PICK s \in Set : o = <<"tab", s>>
        BY <3>2
      <4>2. Frames'[<<"tab", s>>] = tab'[s]
        BY FramesAre
      <4>3. QED BY <1>h, <4>1, <4>2
    <3>3. CASE \E u \in Thread : o = <<"hand", u>>
      <4>1. PICK u \in Thread : o = <<"hand", u>>
        BY <3>3
      <4>2. Frames'[<<"hand", u>>] = th'[u].f
        BY FramesAre
      <4>3. QED BY <2>1, <4>1, <4>2
    <3>4. QED BY <1>h, <3>1, <3>2, <3>3, FramesAre
  <2>4. QED BY <2>2, <2>3
<1>8. /\ Framed' /\ free' \in Seq(Frame)
      /\ core' = [core EXCEPT ![Frames[o]].alloc = FALSE]
      /\ Frames[o] \in Frame \ Range(free)
      /\ memw' = IF Blocked(memw) THEN VSema(memw) ELSE memw
      /\ th' = IF Blocked(memw) THEN Wake(g, VWakes(memw)) ELSE g
      /\ panic' = panic
  BY <1>h, <1>1, <1>5, <1>7, FramedPut
<1>9. \E M : /\ Fed(M)
             /\ th' = [u \in Thread |-> IF u \in A THEN r
                                        ELSE IF u \in M \cup W THEN Woken(th[u]) ELSE th[u]]
  <2>1. CASE Blocked(memw)
    <3>1. PICK M : M = VWakes(memw)
      OBVIOUS
    <3>2. Fed(M) /\ th' = Wake(g, M)
      BY <1>8, <2>1, <3>1 DEF Fed
    <3>3. VWakes(memw) \subseteq Starving
      BY <1>1, SleptGive, Zenon
    <3>4. \A u \in Thread : u \in M => th[u].pc = "memw"
      BY <3>1, <3>3 DEF Starving
    <3>5. \A u \in Thread : u \in W => th[u].pc = "lkw"
      BY <1>h, <1>1 DEF W, Waiters, SleptOn, Waiting
    <3>6. ASSUME NEW u \in Thread
          PROVE  th'[u] = IF u \in A THEN r ELSE IF u \in M \cup W THEN Woken(th[u]) ELSE th[u]
      <4>1. th'[u] = IF u \in M THEN Woken(g[u]) ELSE g[u]
        BY <3>2 DEF Wake
      <4>2. u \in M => u \notin W /\ u \notin A
        BY <1>h, <3>4, <3>5
      <4>3. CASE u \in M
        BY <1>2, <4>1, <4>2, <4>3
      <4>4. CASE u \notin M
        BY <1>2, <4>1, <4>4
      <4>5. QED BY <4>3, <4>4
    <3>7. th' = [u \in Thread |-> th'[u]]
      BY <3>2 DEF Wake
    <3>8. th' = [u \in Thread |-> IF u \in A THEN r
                                  ELSE IF u \in M \cup W THEN Woken(th[u]) ELSE th[u]]
      BY <3>6, <3>7
    <3>9. QED BY <3>2, <3>8
  <2>2. CASE ~ Blocked(memw)
    <3>1. Fed({}) /\ th' = g
      BY <1>8, <2>2 DEF Fed
    <3>2. th' = [u \in Thread |-> IF u \in A THEN r
                                  ELSE IF u \in {} \cup W THEN Woken(th[u]) ELSE th[u]]
      BY <3>1 DEF g, Roused, W
    <3>3. QED BY <3>1, <3>2
  <2>3. QED BY <2>1, <2>2
<1>10. \E M : Fed(M) /\ th' = Risen(A, r, R, M)
  <2>1. PICK M : /\ Fed(M)
                 /\ th' = [u \in Thread |->
                              IF u \in A THEN r
                              ELSE IF u \in M \cup W THEN Woken(th[u]) ELSE th[u]]
    BY <1>9
  <2>2. th' = Risen(A, r, R, M)
    BY <2>1 DEF Risen, W
  <2>3. QED BY <2>1, <2>2
<1>11. QED BY <1>8, <1>10

LEMMA PointedFreed ==
    ASSUME IInv, env' = env, NEW f \in Frame, core' = [core EXCEPT ![f].alloc = FALSE],
           \A u \in Thread : th'[u].pc = "got" =>
               th[u].pc = "got" /\ For(u)' = For(u) /\ th'[u].f = th[u].f,
           \A u \in Thread : th[u].f # f => th'[u].f = th[u].f,
           \A s \in Set : SlotFrame(s) # f => SlotFrame(s)' = SlotFrame(s)
    PROVE  Pointed' /\ core' \in [Frame -> [alloc : BOOLEAN, s : Set \cup {None}]]
<1>1. Pointed /\ core \in [Frame -> [alloc : BOOLEAN, s : Set \cup {None}]]
  BY DEF IInv, Types
<1>2. /\ core'[f].alloc = FALSE /\ \A x \in Frame : core'[x].s = core[x].s
      /\ \A x \in Frame \ {f} : core'[x].alloc = core[x].alloc
      /\ core' \in [Frame -> [alloc : BOOLEAN, s : Set \cup {None}]]
  <2>1. PICK e : e = [core[f] EXCEPT !.alloc = FALSE]
    OBVIOUS
  <2>2. e \in [alloc : BOOLEAN, s : Set \cup {None}] /\ e.alloc = FALSE /\ e.s = core[f].s
    BY <1>1, <2>1
  <2>3. core' = [core EXCEPT ![f] = e]
    BY <2>1
  <2>4. QED BY <1>1, <2>2, <2>3
<1>3. ASSUME env.steal, NEW u \in Thread, th'[u].pc = "got"
      PROVE  core'[th'[u].f].s = For(u)'
  <2>1. th[u].pc = "got" /\ th'[u].f = th[u].f /\ For(u)' = For(u)
    BY <1>3
  <2>2. core[th[u].f].s = For(u)
    BY <1>1, <1>3, <2>1 DEF Pointed
  <2>3. th[u].f \in Frame
    BY <2>1 DEF IInv, Types, Placed, ThreadState
  <2>4. QED BY <1>2, <2>1, <2>2, <2>3
<1>4. ASSUME env.steal, NEW x \in Frame, core'[x].alloc
      PROVE  (\E u \in Thread : th[u].f = x)' \/ (core[x].s \in Set /\ SlotFrame(core[x].s) = x)'
  <2>1. PICK s : s = core[x].s
    OBVIOUS
  <2>2. core'[x].s = s /\ core[x].alloc /\ x # f
    BY <1>2, <1>4, <2>1
  <2>3. (SlotFrame(core[x].s) = x)' <=> (SlotFrame(s) = x)'
    BY <2>2 DEF SlotFrame
  <2>4. \/ \E u \in Thread : th[u].f = x
        \/ s \in Set /\ SlotFrame(s) = x
    BY <1>1, <1>4, <2>1, <2>2 DEF Pointed
  <2>5. QED BY <2>2, <2>3, <2>4
<1>5. QED BY <1>2, <1>3, <1>4 DEF Pointed

(* A step of t that frees a page and gives up the locks of R. *)
LEMMA FreedStep ==
    ASSUME IInv, NEW t \in Thread, NEW r \in ThreadState, NEW R, R \subseteq Has(t),
           R \subseteq Set, NEW o \in Owner, Frames[o] # None,
           FreePage(Roused({t}, r, R), Frames[o]),
           lk' = [s \in Set |-> IF s \in R THEN Loosen(lk[s]) ELSE lk[s]],
           env' = env, dm' = dm, io' = io,
           \A s \in Set : SlotFrame(s)' = IF <<"slot", s>> = o THEN None ELSE SlotFrame(s),
           \A s \in Set : tab'[s] = IF <<"tab", s>> = o THEN None ELSE tab[s],
           r.f = IF <<"hand", t>> = o THEN None ELSE th[t].f,
           \A u \in Thread \ {t} : <<"hand", u>> # o,
           th[t].pc \notin {"lkw", "memw"}, r.pc \notin {"lk", "lkw", "memw", "got"},
           th'[t] = r => Has(t)' \subseteq Has(t) \ R
    PROVE  /\ Locked' /\ Counted' /\ Asleep' /\ lk' \in [Set -> SlotLock]
           /\ th' \in [Thread -> ThreadState] /\ th'[t] = r
           /\ \A u \in Thread \ {t} : Same(u) /\ Keeps(u) /\ Placed(u)'
           /\ Framed' /\ Pointed' /\ free' \in Seq(Frame) /\ panic' = panic
           /\ core' \in [Frame -> [alloc : BOOLEAN, s : Set \cup {None}]]
<1>1. /\ Framed' /\ free' \in Seq(Frame) /\ panic' = panic
      /\ core' = [core EXCEPT ![Frames[o]].alloc = FALSE] /\ Frames[o] \in Frame
      /\ \E M : Fed(M) /\ th' = Risen({t}, r, R, M)
  <2>1. PICK A : A = {t}
    OBVIOUS
  <2>2. Freeing(A, r, R, o)
    BY <2>1 DEF Freeing
  <2>3. /\ Framed' /\ free' \in Seq(Frame) /\ panic' = panic
        /\ core' = [core EXCEPT ![Frames[o]].alloc = FALSE] /\ Frames[o] \in Frame
        /\ \E M : Fed(M) /\ th' = Risen(A, r, R, M)
    BY <2>2, FreedIs
  <2>4. QED BY <2>1, <2>3
<1>2. PICK M : Loosed(t, r, R, M)
  <2>1. PICK M : Fed(M) /\ th' = Risen({t}, r, R, M)
    BY <1>1
  <2>2. th' = [u \in Thread |-> IF u = t THEN r
                                ELSE IF u \in M \cup UNION {Waiters(s) : s \in R}
                                THEN Woken(th[u]) ELSE th[u]]
    <3> DEFINE W == M \cup UNION {Waiters(s) : s \in R}
    <3> HIDE DEF W
    <3>1. th' = [u \in Thread |-> IF u \in {t} THEN r
                                  ELSE IF u \in W THEN Woken(th[u]) ELSE th[u]]
      BY <2>1 DEF W, Risen
    <3>2. th' = [u \in Thread |-> IF u = t THEN r
                                  ELSE IF u \in W THEN Woken(th[u]) ELSE th[u]]
      BY <3>1
    <3>3. QED BY <3>2 DEF W
  <2>3. Loosed(t, r, R, M)
    BY <2>1, <2>2 DEF Loosed, Fed
  <2>4. QED BY <2>3
<1>3. th'[t] = r
  BY <1>2 DEF Loosed
<1>4. \A u \in Thread \ {t} : Allocs(u, "tab") => tab'[Own(u)] = None
  <2>1. ASSUME NEW u \in Thread \ {t}, Allocs(u, "tab") PROVE tab'[Own(u)] = None
    <3>1. tab[Own(u)] = None /\ Own(u) \in Set
      BY <2>1 DEF IInv, Placed, Allocs
    <3>2. QED BY <3>1
  <2>2. QED BY <2>1
<1>5. /\ Locked' /\ Counted' /\ Asleep' /\ lk' \in [Set -> SlotLock]
      /\ th' \in [Thread -> ThreadState] /\ th'[t] = r
      /\ \A u \in Thread \ {t} : Same(u) /\ Keeps(u) /\ Placed(u)'
  BY <1>2, <1>3, <1>4, LoosedStep
<1>6. Pointed' /\ core' \in [Frame -> [alloc : BOOLEAN, s : Set \cup {None}]]
  <2>1. \A u \in Thread : th'[u].pc = "got" =>
            th[u].pc = "got" /\ For(u)' = For(u) /\ th'[u].f = th[u].f
    BY <1>5, ForSame DEF Same
  <2>2. \A u \in Thread : th[u].f # Frames[o] => th'[u].f = th[u].f
    <3>1. o = <<"hand", t>> => th[t].f = Frames[o]
      BY FramesAre
    <3>2. QED BY <1>5, <3>1 DEF Same
  <2>3. \A s \in Set : SlotFrame(s) # Frames[o] => SlotFrame(s)' = SlotFrame(s)
    <3>1. \A s \in Set : o = <<"slot", s>> => SlotFrame(s) = Frames[o]
      BY FramesAre
    <3>2. QED BY <3>1
  <2>4. PICK f : f = Frames[o]
    OBVIOUS
  <2>5. f \in Frame /\ core' = [core EXCEPT ![f].alloc = FALSE]
    BY <1>1, <2>4
  <2>6. QED BY <2>1, <2>2, <2>3, <2>4, <2>5, PointedFreed
<1>7. QED BY <1>1, <1>5, <1>6

LEMMA StepFillFails ==
    ASSUME Sound, IInv, NEW t \in Thread, FillFails(t)
    PROVE  IInv'
<1> DEFINE R == IF th[t].why = "master" THEN {Own(t), File} ELSE {Own(t)}
           f == th[t].f
           g == [Wake(th, UNION {Waiters(s) : s \in R}) EXCEPT ![t] = User]
           o == <<"hand", t>>
<1>1. /\ Types /\ Placed(t) /\ SlotsOf(t) /\ th[t] \in ThreadState
      /\ th \in [Thread -> ThreadState] /\ env \in Envs
  BY DEF IInv, Types, Slots
<1>2. /\ th[t].pc = "got" /\ th[t].why \in {"fill", "master"}
      /\ lk' = [s \in Set |-> IF s \in R THEN Loosen(lk[s]) ELSE lk[s]]
      /\ FreePage(g, f)
      /\ env' = env /\ slot' = slot /\ refs' = refs /\ cowsets' = cowsets /\ atl' = atl
      /\ pt' = pt /\ tab' = tab /\ data' = data /\ swap' = swap /\ io' = io /\ dm' = dm
  BY DEF FillFails, At, sets, maps
<1>3. R = Has(t) /\ R \subseteq Set /\ f # None
  BY <1>1, <1>2 DEF Placed, Has, HasOwn, HasMaster, Asks, Allocs, Set
<1> HIDE DEF R
<1>4. g = Roused({t}, User, R)
  BY DEF Roused, Wake
<1>5. User \in ThreadState /\ User.pc = "user" /\ User.f = None
  BY DEF ThreadState, User
<1>6. o \in Owner /\ Frames[o] = f /\ \A u \in Thread \ {t} : <<"hand", u>> # o
  BY FramesAre
<1>8. /\ Locked' /\ Counted' /\ Asleep' /\ lk' \in [Set -> SlotLock]
      /\ th' \in [Thread -> ThreadState] /\ th'[t] = User
      /\ \A u \in Thread \ {t} : Same(u) /\ Keeps(u) /\ Placed(u)'
      /\ Framed' /\ Pointed' /\ free' \in Seq(Frame) /\ panic' = panic
      /\ core' \in [Frame -> [alloc : BOOLEAN, s : Set \cup {None}]]
  <2>1. FreePage(Roused({t}, User, R), Frames[o]) /\ Frames[o] # None
    BY <1>2, <1>3, <1>4, <1>6
  <2>2. \A s \in Set : SlotFrame(s)' = IF <<"slot", s>> = o THEN None ELSE SlotFrame(s)
    BY <1>2 DEF SlotFrame
  <2>3. \A s \in Set : tab'[s] = IF <<"tab", s>> = o THEN None ELSE tab[s]
    BY <1>2
  <2>4. User.f = IF <<"hand", t>> = o THEN None ELSE th[t].f
    BY <1>5
  <2>5. th'[t] = User => Has(t)' \subseteq Has(t) \ R
    BY <1>5 DEF Has, HasOwn, HasMaster, Asks, Allocs
  <2>6. th[t].pc \notin {"lkw", "memw"} /\ User.pc \notin {"lk", "lkw", "memw", "got"}
    BY <1>2, <1>5
  <2>7. /\ R \subseteq Has(t) /\ R \subseteq Set /\ User \in ThreadState
        /\ lk' = [s \in Set |-> IF s \in R THEN Loosen(lk[s]) ELSE lk[s]]
        /\ env' = env /\ dm' = dm /\ io' = io /\ o \in Owner
        /\ \A u \in Thread \ {t} : <<"hand", u>> # o
    BY <1>2, <1>3, <1>5, <1>6
  <2> HIDE DEF o
  <2>8. QED BY <2>1, <2>2, <2>3, <2>4, <2>5, <2>6, <2>7, FreedStep
<1>9. Keeps(t)
  BY <1>2, <1>8 DEF Keeps, Views, Forks, Detaches, Ends, Unshares, Asks, Allocs, Own, User
<1>10. Placed(t)'
  BY <1>1, <1>2, <1>8
     DEF Placed, Asks, Allocs, Ends, Forks, Unshares, HasMaster, Own, User
<1>11. SlotsOf(t)'
  <2>1. SlotsFixed /\ \A u \in Thread : Keeps(u)
    BY <1>2, <1>8, <1>9 DEF SlotsFixed
  <2>2. (env.child[t] # None /\ Unborn(env.child[t]) /\ th[t].pc # "forked" =>
             ~ slot[env.child[t]].v)'
    BY <1>1, <1>2, <2>1, CopyEmpty
  <2>3. QED BY <1>2, <1>8, <2>2 DEF SlotsOf, Asks, Allocs, Unshares, User
<1>12. Referred' /\ Listed' /\ Slots'
  BY <1>2, <1>8, <1>9, <1>11, StepSlots DEF SlotsFixed
<1>13. Types'
  BY <1>1, <1>2, <1>8 DEF Types
<1>14. QED BY <1>8, <1>10, <1>12, <1>13 DEF IInv

LEMMA StepFreeVas ==
    ASSUME Sound, IInv, NEW t \in Thread, FreeVas(t)
    PROVE  IInv'
<1>p. PICK s : s = Own(t)
  OBVIOUS
<1> DEFINE r == [User EXCEPT !.pc = "gone"]
           o == <<"tab", s>>
<1>1. /\ Types /\ Placed(t) /\ SlotsOf(t) /\ th[t] \in ThreadState
      /\ th \in [Thread -> ThreadState] /\ env \in Envs
      /\ tab \in [Set -> Frame \cup {None}] /\ Framed /\ Pointed
      /\ \A u \in Thread : Placed(u)
      /\ core \in [Frame -> [alloc : BOOLEAN, s : Set \cup {None}]] /\ free \in Seq(Frame)
  BY DEF IInv, Types, Slots
<1>2. /\ th[t].pc = "vas" /\ tab' = [tab EXCEPT ![s] = None]
      /\ IF tab[s] # None THEN FreePage([th EXCEPT ![t] = r], tab[s])
         ELSE /\ th' = [th EXCEPT ![t] = r] /\ core' = core /\ free' = free
              /\ memw' = memw /\ panic' = panic
      /\ env' = env /\ slot' = slot /\ lk' = lk /\ refs' = refs /\ cowsets' = cowsets
      /\ atl' = atl /\ pt' = pt /\ data' = data /\ swap' = swap /\ io' = io /\ dm' = dm
  BY <1>p DEF FreeVas, At, sets, pool
<1>3. /\ s \in Set /\ th[t].f = None /\ Has(t) = {} /\ Seeks(t) = {} /\ env.exit
      /\ tab'[s] = None /\ \A x \in Set \ {s} : tab'[x] = tab[x]
      /\ tab' \in [Set -> Frame \cup {None}]
  BY <1>p, <1>1, <1>2 DEF Placed, Has, HasOwn, HasMaster, Asks, Allocs, Seeks
<1>4. r \in ThreadState /\ r.pc = "gone" /\ r.f = None
  BY DEF ThreadState, User
<1> HIDE DEF r
<1>5. th'[t] = r => Has(t)' = {}
  BY <1>4 DEF Has, HasOwn, HasMaster, Asks, Allocs
<1>6. \A x \in Set : SlotFrame(x)' = SlotFrame(x)
  BY <1>2 DEF SlotFrame
<1>8. /\ Locked' /\ Counted' /\ Asleep' /\ lk' \in [Set -> SlotLock]
      /\ th' \in [Thread -> ThreadState] /\ th'[t] = r
      /\ \A u \in Thread \ {t} : Same(u) /\ Keeps(u) /\ Placed(u)'
      /\ Framed' /\ Pointed' /\ free' \in Seq(Frame) /\ panic' = panic
      /\ core' \in [Frame -> [alloc : BOOLEAN, s : Set \cup {None}]]
  <2>1. CASE tab[s] # None
    <3>1. o \in Owner /\ Frames[o] = tab[s]
      BY <1>3, FramesAre
    <3>2. PICK R : R = {}
      OBVIOUS
    <3>3. Roused({t}, r, R) = [th EXCEPT ![t] = r]
      BY <1>1, <3>2 DEF Roused
    <3>4. FreePage(Roused({t}, r, R), Frames[o]) /\ Frames[o] # None
      BY <1>2, <2>1, <3>1, <3>3
    <3>5. /\ \A x \in Set : SlotFrame(x)' = IF <<"slot", x>> = o THEN None ELSE SlotFrame(x)
          /\ \A x \in Set : tab'[x] = IF <<"tab", x>> = o THEN None ELSE tab[x]
          /\ r.f = IF <<"hand", t>> = o THEN None ELSE th[t].f
          /\ \A u \in Thread \ {t} : <<"hand", u>> # o
      BY <1>3, <1>4, <1>6
    <3>6. lk' = [x \in Set |-> IF x \in R THEN Loosen(lk[x]) ELSE lk[x]]
      BY <1>1, <1>2, <3>2 DEF Types
    <3>7. th'[t] = r => Has(t)' \subseteq Has(t) \ R
      BY <1>5
    <3>8. th[t].pc \notin {"lkw", "memw"} /\ r.pc \notin {"lk", "lkw", "memw", "got"}
          /\ R \subseteq Has(t) /\ R \subseteq Set
      BY <1>2, <1>4, <3>2
    <3>9. r \in ThreadState /\ env' = env /\ dm' = dm /\ io' = io /\ o \in Owner
      BY <1>2, <1>4, <3>1
    <3> HIDE DEF o
    <3>10. QED BY <3>4, <3>5, <3>6, <3>7, <3>8, <3>9, FreedStep
  <2>2. CASE tab[s] = None
    <3>1. tab' = tab /\ th' = [th EXCEPT ![t] = r] /\ th'[t] = r
      BY <1>1, <1>2, <2>2
    <3>2. Has(t)' \subseteq Has(t)
      BY <1>5, <3>1
    <3>3. /\ Locked' /\ Counted' /\ Asleep' /\ lk' \in [Set -> SlotLock]
          /\ th' \in [Thread -> ThreadState] /\ th'[t] = r
          /\ \A u \in Thread \ {t} : Same(u) /\ Keeps(u) /\ Placed(u)'
      <4>1. th[t].pc \notin {"lkw", "memw"} /\ r.pc \notin {"lk", "lkw", "memw"}
        BY <1>2, <1>4
      <4>2. QED BY <1>2, <1>4, <2>2, <3>1, <3>2, <4>1, PlainStep
    <3>4. \A u \in Thread : th'[u].f = th[u].f
      BY <1>3, <1>4, <3>3 DEF Same
    <3>5. Framed'
      BY <1>1, <1>2, <1>6, <2>2, <3>1, <3>4, FramedSame DEF Elsewhere
    <3>6. \A u \in Thread : th'[u].pc = "got" => th[u].pc = "got" /\ For(u)' = For(u)
      BY <1>4, <3>3, <1>2, ForSame DEF Same
    <3>7. Pointed'
      BY <1>1, <1>2, <1>6, <2>2, <3>4, <3>6, PointedSame
    <3>8. QED BY <1>1, <1>2, <2>2, <3>3, <3>5, <3>7
  <2>3. QED BY <2>1, <2>2
<1>9. Keeps(t)
  BY <1>2, <1>4, <1>8 DEF Keeps, Views, Forks, Detaches, Ends, Unshares, Asks, Allocs, Own
<1>10. Placed(t)'
  BY <1>1, <1>2, <1>3, <1>4, <1>8
     DEF Placed, Asks, Allocs, Ends, Forks, Unshares, HasMaster, Own
<1>11. SlotsOf(t)'
  <2>1. SlotsFixed /\ \A u \in Thread : Keeps(u)
    BY <1>2, <1>8, <1>9 DEF SlotsFixed
  <2>2. (env.child[t] # None /\ Unborn(env.child[t]) /\ th[t].pc # "forked" =>
             ~ slot[env.child[t]].v)'
    BY <1>1, <1>2, <2>1, CopyEmpty
  <2>3. QED BY <1>2, <1>4, <1>8, <2>2 DEF SlotsOf, Asks, Allocs, Unshares
<1>12. Referred' /\ Listed' /\ Slots'
  BY <1>2, <1>8, <1>9, <1>11, StepSlots DEF SlotsFixed
<1>13. Types'
  BY <1>1, <1>2, <1>3, <1>8 DEF Types
<1>14. QED BY <1>8, <1>10, <1>12, <1>13 DEF IInv

LEMMA StepUnshare ==
    ASSUME Sound, IInv, NEW t \in Thread, Yields(t)
    PROVE  IInv'
<1>p. PICK s : s = th[t].d
  OBVIOUS
<1> DEFINE r == [th[t] EXCEPT !.pc = "fpset"]
<1>1. /\ Types /\ Placed(t) /\ SlotsOf(t) /\ th[t] \in ThreadState
      /\ th \in [Thread -> ThreadState] /\ env \in Envs /\ slot \in [Set -> Slot]
      /\ lk \in [Set -> SlotLock] /\ Locked /\ Slots /\ Referred /\ Listed
      /\ Framed /\ Pointed /\ \A u \in Thread : Placed(u)
  BY DEF IInv, Types, Slots
<1>2. /\ th[t].pc = "unshare" /\ lk' = Unlock(lk, File) /\ panic = "none"
      /\ slot' = [slot EXCEPT ![File].refs = slot[File].refs - 1, ![s] = EmptySlot]
      /\ th' = [Wake(th, Waiters(File)) EXCEPT ![t].pc = "fpset"]
      /\ env' = env /\ refs' = refs /\ cowsets' = cowsets /\ atl' = atl
      /\ pt' = pt /\ tab' = tab /\ core' = core /\ free' = free /\ memw' = memw
      /\ data' = data /\ swap' = swap /\ io' = io /\ dm' = dm /\ panic' = panic
  BY <1>p DEF Yields, Unshared, At, Run, sets, maps, pool
<1>3. /\ s = Own(t) /\ s \in Cow /\ s \in Set /\ File \in Set /\ s # File
      /\ Has(t) = {File} /\ Seeks(t) = {} /\ Ends(t) /\ Unshares(t) /\ th[t].f = None
      /\ \A u \in Thread \ {t} : Allocs(u, "tab") => tab'[Own(u)] = None
      /\ r \in ThreadState /\ r.pc = "fpset" /\ r.f = None
      /\ r.d = th[t].d /\ r.ls = th[t].ls /\ r.to = th[t].to /\ r.why = th[t].why
  BY <1>p, <1>1, <1>2, SetAssumption
     DEF Placed, Has, HasOwn, HasMaster, Asks, Allocs, Seeks, ThreadState, Ends, Unshares, Set
<1>4. /\ th' = [u \in Thread |-> th'[u]] /\ th'[t] = r
      /\ \A u \in Thread \ {t} : th'[u] = Wake(th, Waiters(File))[u]
  <2>1. PICK g : g = Wake(th, Waiters(File))
    OBVIOUS
  <2>2. g[t] = th[t] /\ DOMAIN g = Thread
    BY <1>2, <1>3, <2>1, AwakeIs DEF Wake
  <2>3. th' = [g EXCEPT ![t] = r]
    BY <1>2, <2>1, <2>2
  <2> HIDE DEF r
  <2>4. QED BY <2>1, <2>2, <2>3
<1> HIDE DEF r
<1>5. Loosed(t, r, {File}, {})
  <2>1. Loosed(t, th'[t], {File}, {})
    BY <1>1, <1>2, <1>3, <1>4, UnlockedIs
  <2>2. QED BY <1>4, <2>1
<1>8. /\ Locked' /\ Counted' /\ Asleep' /\ lk' \in [Set -> SlotLock]
      /\ th' \in [Thread -> ThreadState] /\ th'[t] = r
      /\ \A u \in Thread \ {t} : Same(u) /\ Keeps(u) /\ Placed(u)'
  <2>1. Has(t)' = {}
    BY <1>3, <1>4 DEF Has, HasOwn, HasMaster, Asks, Allocs
  <2>2. {File} \subseteq Has(t) /\ Has(t)' \subseteq Has(t) \ {File}
    BY <1>3, <2>1
  <2>3. r.pc \notin {"lk", "lkw", "memw"} /\ th[t].pc \notin {"lkw", "memw"}
    BY <1>2, <1>3
  <2>4. QED BY <1>2, <1>3, <1>5, <2>2, <2>3, LoosedStep
<1>9. Keeps(t)
  BY <1>2, <1>3, <1>8 DEF Keeps, Views, Forks, Detaches, Ends, Unshares, Asks, Allocs, Own
<1>10. Placed(t)'
  BY <1>p, <1>1, <1>2, <1>3, <1>8
     DEF Placed, Asks, Allocs, Ends, Forks, Unshares, HasMaster, Own
<1>a. /\ slot' \in [Set -> Slot] /\ slot'[s] = EmptySlot
      /\ \A x \in Set \ {s} : /\ slot'[x].v = slot[x].v /\ slot'[x].cow = slot[x].cow
                              /\ slot'[x].f = slot[x].f
  <2>1. PICK a : a = [slot EXCEPT ![File].refs = slot[File].refs - 1]
    OBVIOUS
  <2>2. /\ a \in [Set -> Slot]
        /\ \A x \in Set : /\ a[x].v = slot[x].v /\ a[x].cow = slot[x].cow
                          /\ a[x].f = slot[x].f
    <3>1. PICK i : i = slot[File].refs - 1
      OBVIOUS
    <3>2. i \in Int /\ a = [slot EXCEPT ![File].refs = i]
      BY <1>1, <1>3, <2>1, <3>1 DEF Slot
    <3>3. QED BY <1>1, <1>3, <3>2, RefsGiven
  <2>3. slot' = [a EXCEPT ![s] = EmptySlot] /\ EmptySlot \in Slot
    BY <1>2, <2>1 DEF EmptySlot, Slot
  <2>4. QED BY <1>3, <2>2, <2>3
<1>b. Quiet(s, {t}) /\ ~ Daemon1(s) /\ s \notin io
  <2>1. /\ Quiet(th[t].d, {t}) /\ ~ Daemon1(th[t].d) /\ th[t].d \notin io
        /\ th[t].d \in Set /\ refs[th[t].d] = 0
    BY <1>1, <1>2, <1>3, EndsQuiet
  <2>2. Quiet(s, {t})
    BY <1>p, <2>1 DEF Quiet
  <2>3. QED BY <1>p, <2>1, <2>2 DEF Daemon1
<1>c. SlotShape(s)'
  BY <1>3, <1>a DEF SlotShape, EmptySlot
<1>11. SlotsOf(t)'
  <2>1. \A u \in Thread : Keeps(u)
    BY <1>8, <1>9
  <2>2. ~ slot'[s].v
    BY <1>a DEF EmptySlot
  <2>3. (env.child[t] # None /\ Unborn(env.child[t]) /\ th[t].pc # "forked" =>
             ~ slot[env.child[t]].v)'
    BY <1>1, <1>2, <1>3, <1>8, <1>a, <2>1, <2>2, CopyStays
  <2>4. QED BY <1>2, <1>3, <1>8, <2>3 DEF SlotsOf, Asks, Allocs, Unshares
<1>12. /\ Referred' /\ Listed' /\ Slots'
       /\ \A x \in Set \ {s} : SlotFrame(x)' = SlotFrame(x)
  BY <1>2, <1>3, <1>8, <1>9, <1>a, <1>b, <1>c, <1>11, StepSlot
<1>13. Framed' /\ Pointed'
  <2>1. SlotFrame(s) = None /\ SlotFrame(s)' = None
    <3>1. ~ (slot[s].v /\ ~ slot[s].cow)
      BY <1>1, <1>3 DEF SlotsOf
    <3>2. QED BY <1>a, <3>1 DEF SlotFrame, EmptySlot
  <2>2. \A x \in Set : SlotFrame(x)' = SlotFrame(x)
    BY <1>12, <2>1
  <2>3. \A u \in Thread : th'[u].f = th[u].f
    BY <1>3, <1>8 DEF Same
  <2>4. Framed'
    BY <1>1, <1>2, <2>2, <2>3, FramedSame DEF Elsewhere
  <2>5. \A u \in Thread : th'[u].pc = "got" => th[u].pc = "got" /\ For(u)' = For(u)
    BY <1>2, <1>3, <1>8, ForSame DEF Same
  <2>6. Pointed'
    BY <1>1, <1>2, <2>2, <2>3, <2>5, PointedSame
  <2>7. QED BY <2>4, <2>6
<1>15. Types'
  BY <1>1, <1>2, <1>8, <1>a DEF Types
<1>16. QED BY <1>8, <1>10, <1>12, <1>13, <1>15 DEF IInv

LEMMA StepFreeSlot ==
    ASSUME Sound, IInv, NEW t \in Thread, FreeSlot(t)
    PROVE  IInv'
<1>p. PICK s : s = th[t].d
  OBVIOUS
<1> DEFINE r == [th[t] EXCEPT !.pc = "fpset"]
           o == <<"slot", s>>
<1>1. /\ Types /\ Placed(t) /\ SlotsOf(t) /\ th[t] \in ThreadState
      /\ th \in [Thread -> ThreadState] /\ env \in Envs /\ slot \in [Set -> Slot]
      /\ lk \in [Set -> SlotLock] /\ Locked /\ Slots /\ Referred /\ Listed
      /\ Framed /\ Pointed /\ \A u \in Thread : Placed(u) /\ free \in Seq(Frame)
      /\ core \in [Frame -> [alloc : BOOLEAN, s : Set \cup {None}]]
  BY DEF IInv, Types, Slots
<1>2. /\ th[t].pc = "free" /\ panic = "none"
      /\ env' = env /\ refs' = refs /\ cowsets' = cowsets /\ atl' = atl
      /\ pt' = pt /\ tab' = tab /\ data' = data /\ swap' = swap /\ io' = io /\ dm' = dm
  BY DEF FreeSlot, At, Run, sets, maps
<1>3. /\ Ends(t) /\ Has(t) = {} /\ Seeks(t) = {} /\ th[t].f = None /\ env.exit
      /\ s = Own(t) \/ (s = File /\ Own(t) \in Cow)
      /\ Own(t) \in Set
  BY <1>p, <1>1, <1>2 DEF Ends, Placed, Has, HasOwn, HasMaster, Asks, Allocs, Seeks
<1>b. Quiet(s, {t}) /\ ~ Daemon1(s) /\ s \notin io /\ s \in Set
  <2>1. /\ Quiet(th[t].d, {t}) /\ ~ Daemon1(th[t].d) /\ th[t].d \notin io
        /\ th[t].d \in Set /\ refs[th[t].d] = 0
    BY <1>1, <1>2, <1>3, EndsQuiet
  <2>2. Quiet(s, {t})
    BY <1>p, <2>1 DEF Quiet
  <2>3. QED BY <1>p, <2>1, <2>2 DEF Daemon1
<1>4. CASE Shared(s)
  <2> DEFINE q == LockedAs(th[t], File, "unshare")
  <2>1. /\ Lock(th, t, File, "unshare") /\ slot' = slot /\ core' = core /\ free' = free
        /\ memw' = memw /\ panic' = panic
    BY <1>p, <1>4 DEF FreeSlot, Shared, pool
  <2>2. s \in Cow /\ s = Own(t) /\ File \in Set /\ th = [th EXCEPT ![t] = th[t]]
    BY <1>1, <1>3, <1>4, <1>b, SetAssumption DEF Shared, Slots, SlotShape, Set
  <2>3. /\ q \in ThreadState /\ Asked(t, q, File, 1)
        /\ q.w = th[t].w /\ q.f = th[t].f /\ q.why = th[t].why /\ q.d = th[t].d
        /\ IF lk[File].held THEN q.pc = "lkw" /\ q.ls = File /\ q.to = "unshare"
           ELSE q.pc = "unshare" /\ q.ls = th[t].ls /\ q.to = th[t].to
    BY <1>1, <2>1, <2>2, LockIs
  <2> HIDE DEF q
  <2>4. th'[t] = q
    BY <1>1, <2>3 DEF Asked
  <2>5. Has(t)' = Has(t) \cup (IF lk[File].held THEN {} ELSE {File})
    BY <1>2, <1>3, <2>3, <2>4 DEF Has, HasOwn, HasMaster, Asks, Allocs, Own
  <2>8. /\ Locked' /\ Counted' /\ Asleep' /\ lk' \in [Set -> SlotLock]
        /\ th' \in [Thread -> ThreadState] /\ th'[t] = q
        /\ \A u \in Thread \ {t} : Same(u) /\ Keeps(u) /\ Placed(u)'
    BY <1>2, <1>3, <2>2, <2>3, <2>5, AskedStep
  <2>9. Keeps(t)
    BY <1>2, <1>3, <2>3, <2>8 DEF Keeps, Views, Forks, Detaches, Ends, Unshares, Asks, Allocs, Own
  <2>10. Placed(t)'
    BY <1>p, <1>1, <1>2, <1>3, <2>2, <2>3, <2>8
       DEF Placed, Asks, Allocs, Ends, Forks, Unshares, HasMaster, Own
  <2>11. SlotsOf(t)'
    <3>1. SlotsFixed /\ \A u \in Thread : Keeps(u)
      BY <2>1, <2>8, <2>9 DEF SlotsFixed
    <3>2. (env.child[t] # None /\ Unborn(env.child[t]) /\ th[t].pc # "forked" =>
               ~ slot[env.child[t]].v)'
      BY <1>1, <1>2, <3>1, CopyEmpty
    <3>3. slot'[Own(t)].cow
      BY <1>4, <2>1, <2>2 DEF Shared
    <3>4. QED BY <1>2, <2>3, <2>8, <3>2, <3>3 DEF SlotsOf, Asks, Allocs, Unshares, Own
  <2>12. Referred' /\ Listed' /\ Slots' /\ Framed' /\ Pointed'
    BY <1>2, <1>3, <2>1, <2>3, <2>8, <2>9, <2>11, StepFixed DEF SlotsFixed
  <2>13. Types'
    BY <1>1, <1>2, <2>1, <2>8 DEF Types
  <2>14. QED BY <2>8, <2>10, <2>12, <2>13 DEF IInv
<1>5. CASE ~ Shared(s)
  <2>1. /\ IF slot[s].v THEN FreePage([th EXCEPT ![t].pc = "fpset"], slot[s].f)
           ELSE /\ th' = [th EXCEPT ![t].pc = "fpset"] /\ core' = core /\ free' = free
                /\ memw' = memw /\ panic' = panic
        /\ slot' = [slot EXCEPT ![s] = EmptySlot] /\ lk' = lk
    BY <1>p, <1>5 DEF FreeSlot, Shared, Go, pool
  <2>2. /\ r \in ThreadState /\ r.pc = "fpset" /\ r.f = None
        /\ r.d = th[t].d /\ r.ls = th[t].ls /\ r.to = th[t].to /\ r.why = th[t].why
        /\ [th EXCEPT ![t].pc = "fpset"] = [th EXCEPT ![t] = r]
    BY <1>1, <1>3 DEF ThreadState
  <2> HIDE DEF r
  <2>3. th'[t] = r => Has(t)' = {}
    BY <2>2 DEF Has, HasOwn, HasMaster, Asks, Allocs
  <2>4. /\ slot' \in [Set -> Slot] /\ slot'[s] = EmptySlot
        /\ \A x \in Set \ {s} : slot'[x] = slot[x]
    <3>1. EmptySlot \in Slot
      BY DEF EmptySlot, Slot
    <3>2. QED BY <1>1, <1>b, <2>1, <3>1
  <2>5. /\ SlotFrame(s)' = None /\ \A x \in Set \ {s} : SlotFrame(x)' = SlotFrame(x)
        /\ SlotFrame(s) = IF slot[s].v THEN slot[s].f ELSE None
    BY <1>5, <1>b, <2>4 DEF SlotFrame, EmptySlot, Shared
  <2>8. /\ Locked' /\ Counted' /\ Asleep' /\ lk' \in [Set -> SlotLock]
        /\ th' \in [Thread -> ThreadState] /\ th'[t] = r
        /\ \A u \in Thread \ {t} : Same(u) /\ Keeps(u) /\ Placed(u)'
        /\ Framed' /\ Pointed' /\ free' \in Seq(Frame) /\ panic' = panic
        /\ core' \in [Frame -> [alloc : BOOLEAN, s : Set \cup {None}]]
    <3>1. CASE slot[s].v
      <4>0. slot[s].f \in Frame /\ slot[s].f # None
        BY <1>1, <1>b, <3>1, FrameSet DEF Slots, SlotShape
      <4>1. o \in Owner /\ Frames[o] = slot[s].f
        BY <1>b, <2>5, <3>1, FramesAre
      <4>2. PICK R : R = {}
        OBVIOUS
      <4>3. Roused({t}, r, R) = [th EXCEPT ![t] = r]
        BY <1>1, <4>2 DEF Roused
      <4>4. FreePage(Roused({t}, r, R), Frames[o]) /\ Frames[o] # None
        BY <2>1, <2>2, <3>1, <4>0, <4>1, <4>3
      <4>5. /\ \A x \in Set : SlotFrame(x)' = IF <<"slot", x>> = o THEN None ELSE SlotFrame(x)
            /\ \A x \in Set : tab'[x] = IF <<"tab", x>> = o THEN None ELSE tab[x]
            /\ r.f = IF <<"hand", t>> = o THEN None ELSE th[t].f
            /\ \A u \in Thread \ {t} : <<"hand", u>> # o
        <5>1. \A x \in Set : <<"slot", x>> = o <=> x = s
          OBVIOUS
        <5>2. QED BY <1>2, <1>3, <2>2, <2>5, <5>1
      <4>6. lk' = [x \in Set |-> IF x \in R THEN Loosen(lk[x]) ELSE lk[x]]
        BY <1>1, <2>1, <4>2
      <4>7. th'[t] = r => Has(t)' \subseteq Has(t) \ R
        BY <2>3
      <4>8. th[t].pc \notin {"lkw", "memw"} /\ r.pc \notin {"lk", "lkw", "memw", "got"}
            /\ R \subseteq Has(t) /\ R \subseteq Set
        BY <1>2, <2>2, <4>2
      <4>9. r \in ThreadState /\ env' = env /\ dm' = dm /\ io' = io /\ o \in Owner
        BY <1>2, <2>2, <4>1
      <4> HIDE DEF o
      <4>10. QED BY <4>4, <4>5, <4>6, <4>7, <4>8, <4>9, FreedStep
    <3>2. CASE ~ slot[s].v
      <4>1. th' = [th EXCEPT ![t] = r] /\ th'[t] = r
        BY <1>1, <2>1, <2>2, <3>2
      <4>2. Has(t)' \subseteq Has(t)
        BY <2>3, <4>1
      <4>3. /\ Locked' /\ Counted' /\ Asleep' /\ lk' \in [Set -> SlotLock]
            /\ th' \in [Thread -> ThreadState] /\ th'[t] = r
            /\ \A u \in Thread \ {t} : Same(u) /\ Keeps(u) /\ Placed(u)'
        <5>1. th[t].pc \notin {"lkw", "memw"} /\ r.pc \notin {"lk", "lkw", "memw"}
          BY <1>2, <2>2
        <5>2. QED BY <1>2, <2>1, <2>2, <3>2, <4>1, <4>2, <5>1, PlainStep
      <4>4. \A u \in Thread : th'[u].f = th[u].f
        BY <1>3, <2>2, <4>3 DEF Same
      <4>5. \A x \in Set : SlotFrame(x)' = SlotFrame(x)
        BY <2>5, <3>2
      <4>6. Framed'
        BY <1>1, <1>2, <2>1, <3>2, <4>4, <4>5, FramedSame DEF Elsewhere
      <4>7. \A u \in Thread : th'[u].pc = "got" => th[u].pc = "got" /\ For(u)' = For(u)
        BY <1>2, <2>2, <4>3, ForSame DEF Same
      <4>8. Pointed'
        BY <1>1, <1>2, <2>1, <3>2, <4>4, <4>5, <4>7, PointedSame
      <4>9. QED BY <1>1, <1>2, <2>1, <3>2, <4>3, <4>6, <4>8
    <3>3. QED BY <3>1, <3>2
  <2>9. Keeps(t)
    BY <1>2, <2>2, <2>8 DEF Keeps, Views, Forks, Detaches, Ends, Unshares, Asks, Allocs, Own
  <2>10. Placed(t)'
    BY <1>p, <1>1, <1>2, <1>3, <2>2, <2>8
       DEF Placed, Asks, Allocs, Ends, Forks, Unshares, HasMaster, Own
  <2>c. SlotShape(s)'
    BY <1>b, <2>4 DEF SlotShape, EmptySlot
  <2>11. SlotsOf(t)'
    <3>1. \A u \in Thread : Keeps(u)
      BY <2>8, <2>9
    <3>2. ~ slot'[s].v
      BY <2>4 DEF EmptySlot
    <3>3. (env.child[t] # None /\ Unborn(env.child[t]) /\ th[t].pc # "forked" =>
               ~ slot[env.child[t]].v)'
      BY <1>1, <1>2, <1>b, <2>2, <2>4, <2>8, <3>1, <3>2, CopyStays
    <3>4. QED BY <1>2, <2>2, <2>8, <3>3 DEF SlotsOf, Asks, Allocs, Unshares
  <2>12. Referred' /\ Listed' /\ Slots'
    BY <1>2, <1>b, <2>4, <2>8, <2>9, <2>c, <2>11, StepSlot
  <2>13. Types'
    BY <1>1, <1>2, <2>1, <2>4, <2>8 DEF Types
  <2>14. QED BY <2>8, <2>10, <2>12, <2>13 DEF IInv
<1>6. QED BY <1>4, <1>5

-----------------------------------------------------------------------------
(* The steps of the page daemon, and of page output                         *)

(* They leave all threads aside. *)
LEMMA AllAside ==
    ASSUME IInv, env' = env, tab' = tab, th' = [u \in Thread |-> th'[u]],
           \A u \in Thread : Aside(u)
    PROVE  /\ th' \in [Thread -> ThreadState]
           /\ \A u \in Thread : Same(u) /\ Keeps(u) /\ Placed(u)'
<1>1. th \in [Thread -> ThreadState] /\ \A u \in Thread : Placed(u)
  BY DEF IInv, Types
<1>2. th' \in [Thread -> ThreadState]
  <2>1. PICK A : A = {}
    OBVIOUS
  <2>2. /\ \A u \in Thread \ A : Aside(u)
        /\ \A u \in Thread \cap A : th'[u] \in ThreadState
    BY <2>1
  <2>3. QED BY <1>1, <2>2, ThreadsTyped
<1>3. ASSUME NEW u \in Thread PROVE Same(u) /\ Keeps(u) /\ Placed(u)'
  <2>1. Same(u)
    BY <1>1, AsideIs
  <2>2. Allocs(u, "tab") => tab'[Own(u)] = None
    BY <1>1 DEF Placed
  <2>3. QED BY <1>1, <2>1, <2>2, SameKeeps, PlacedAside
<1>4. QED BY <1>2, <1>3

(* The slot of s, locked by the daemon or for output, is unlocked. *)
LEMMA DaemonUnlocks ==
    ASSUME IInv, NEW s \in Set, lk' = Unlock(lk, s), \A u \in Thread : Same(u),
           \/ Daemon1(s) /\ dm' = Idle /\ io' = io
           \/ s \in io /\ dm' = dm /\ io' = io \ {s}
    PROVE  Locked' /\ Counted' /\ lk' \in [Set -> SlotLock]
<1>1. /\ lk \in [Set -> SlotLock] /\ io \subseteq Set /\ Locked /\ Counted
      /\ \A u \in Thread : Has(u)' = Has(u) /\ Seeks(u)' = Seeks(u)
  BY DEF IInv, Types, Same
<1>2. \A x \in Set : LockUsers(x)' = LockUsers(x)
  BY <1>1 DEF LockUsers
<1>3. /\ \A u \in Thread : s \notin Has(u)
      /\ \/ Daemon1(s) /\ s \notin io
         \/ ~ Daemon1(s) /\ s \in io
      /\ \A x \in Set \ {s} : (Daemon1(x)' <=> Daemon1(x)) /\ (x \in io' <=> x \in io)
      /\ ~ Daemon1(s)' /\ s \notin io'
  BY <1>1 DEF Locked, Daemon1, Idle
<1>4. lk' = [x \in Set |-> IF x = s THEN Loosen(lk[x]) ELSE lk[x]]
  BY <1>1 DEF Unlock
<1>5. lk[s].n >= Cardinality(LockUsers(s)) + 1 /\ Cardinality(LockUsers(s)) \in Nat
  BY <1>1, <1>3, FS_CardinalityType DEF Counted
<1>6. lk[s] \in SlotLock /\ lk[s].n \in Nat /\ lk[s].n >= 1
  BY <1>1, <1>5 DEF SlotLock
<1>7. Loosen(lk[s]) \in SlotLock /\ Loosen(lk[s]).n = lk[s].n - 1
  BY <1>6, LoosenIs
<1>8. lk' \in [Set -> SlotLock]
  BY <1>1, <1>4, <1>7
<1>9. Counted'
  <2>1. ASSUME NEW x \in Set
        PROVE  /\ IsFiniteSet(LockUsers(x)')
               /\ lk'[x].n >= Cardinality(LockUsers(x)') + (IF Daemon1(x)' THEN 1 ELSE 0)
                                                        + (IF x \in io' THEN 1 ELSE 0)
    <3>1. CASE x = s
      BY <1>1, <1>2, <1>3, <1>4, <1>5, <1>6, <1>7, <3>1 DEF Counted
    <3>2. CASE x # s
      BY <1>1, <1>2, <1>3, <1>4, <3>2 DEF Counted
    <3>3. QED BY <3>1, <3>2
  <2>2. QED BY <2>1 DEF Counted
<1>10. Locked'
  <2>1. \A x \in Set \ {s} : lk'[x].held = lk[x].held
    BY <1>4
  <2>2. /\ \A u \in Thread, x \in Set : x \in Has(u) => lk[x].held /\ ~ Daemon1(x) /\ x \notin io
        /\ \A u, v \in Thread, x \in Set : x \in Has(u) /\ x \in Has(v) => u = v
        /\ dm.pc # "idle" => dm.s \in Set /\ lk[dm.s].held /\ dm.s \notin io
        /\ \A x \in io : lk[x].held
    BY <1>1 DEF Locked
  <2>3. \A u \in Thread, x \in Set :
            x \in Has(u)' => lk'[x].held /\ ~ Daemon1(x)' /\ x \notin io'
    BY <1>1, <1>3, <2>1, <2>2
  <2>4. dm'.pc # "idle" => dm'.s \in Set /\ lk'[dm'.s].held /\ dm'.s \notin io'
    BY <1>1, <1>3, <2>1, <2>2 DEF Daemon1, Idle
  <2>5. \A x \in io' : lk'[x].held
    BY <1>1, <1>3, <2>1, <2>2
  <2>6. \A u, v \in Thread, x \in Set : x \in Has(u)' /\ x \in Has(v)' => u = v
    BY <1>1, <2>2
  <2>7. QED BY <2>3, <2>4, <2>5, <2>6 DEF Locked
<1>11. QED BY <1>8, <1>9, <1>10

(* No slot's page comes or goes. *)
LEMMA DaemonFixed ==
    ASSUME IInv, env' = env, refs' = refs, cowsets' = cowsets, tab' = tab,
           free' = free, core' = core, SlotsFixed, Live',
           \A u \in Thread : Same(u) /\ Keeps(u),
           dm'.pc # "idle" => dm'.s \in Set /\ slot[dm'.s].v /\ ~ slot[dm'.s].cow,
           \A s \in io' : s \in Set /\ slot[s].v /\ ~ slot[s].cow
    PROVE  Referred' /\ Listed' /\ Slots' /\ Framed' /\ Pointed'
<1>1. /\ Referred /\ Listed /\ Slots /\ Framed /\ Pointed /\ env \in Envs
      /\ \A u \in Thread : Placed(u) /\ SlotsOf(u)
  BY DEF IInv, Types, Slots
<1>2. Referred' /\ Listed'
  BY <1>1, RefsKept
<1>3. \A u \in Thread : SlotsOf(u)'
  <2>1. PICK A : A = {}
    OBVIOUS
  <2>2. \A c \in Set : Unborn(c)' => Unborn(c)
    BY DEF Unborn, Keeps
  <2>3. \A u \in Thread \ A : Same(u)
    OBVIOUS
  <2>4. \A u \in Thread \ A : SlotsOf(u)'
    BY <1>1, <2>2, <2>3, SlotsSame
  <2>5. QED BY <2>1, <2>4
<1>4. \A s \in Set : SlotShape(s)' /\ SlotFrame(s)' = SlotFrame(s)
  BY <1>1 DEF Slots, SlotShape, SlotFrame, SlotsFixed
<1>5. Slots'
  <2>1. dm'.pc # "idle" => slot'[dm'.s].v /\ ~ slot'[dm'.s].cow
    BY DEF SlotsFixed
  <2>2. \A s \in io' : slot'[s].v /\ ~ slot'[s].cow
    BY DEF SlotsFixed
  <2>3. QED BY <1>3, <1>4, <2>1, <2>2 DEF Slots
<1>6. \A u \in Thread : th'[u].f = th[u].f
  BY DEF Same
<1>7. Framed'
  BY <1>1, <1>4, <1>6, FramedSame DEF Elsewhere
<1>8. \A u \in Thread : th'[u].pc = "got" => th[u].pc = "got" /\ For(u)' = For(u)
  BY ForSame DEF Same
<1>9. Pointed'
  BY <1>1, <1>4, <1>6, <1>8, PointedSame
<1>10. QED BY <1>2, <1>5, <1>7, <1>9

(* Those who wait for the lock of s are woken. *)
LEMMA DaemonWakes ==
    ASSUME IInv, NEW s \in Set, lk' = Unlock(lk, s), th' = Wake(th, Waiters(s)),
           memw' = memw, env' = env, tab' = tab
    PROVE  /\ Asleep' /\ th' \in [Thread -> ThreadState]
           /\ \A u \in Thread : Same(u) /\ Keeps(u) /\ Placed(u)'
<1>1. /\ th \in [Thread -> ThreadState] /\ lk \in [Set -> SlotLock] /\ Asleep
  BY DEF IInv, Types
<1>2. PICK R : R = {s}
  OBVIOUS
<1>3. PICK A : A = {}
  OBVIOUS
<1>4. PICK M : M = {}
  OBVIOUS
<1>5. /\ lk' = [x \in Set |-> IF x \in R THEN Loosen(lk[x]) ELSE lk[x]]
      /\ UNION {Waiters(x) : x \in R} = Waiters(s)
  BY <1>1, <1>2, UnlockIs
<1>6. \A u \in Thread : th'[u] = IF u \in Waiters(s) THEN Woken(th[u]) ELSE th[u]
  BY DEF Wake
<1>7. \A u \in Thread \ A :
          th'[u] = IF u \in M \cup UNION {Waiters(x) : x \in R} THEN Woken(th[u]) ELSE th[u]
  BY <1>4, <1>5, <1>6
<1>8. Asleep' /\ \A u \in Thread \ A : Aside(u)
  <2>1. \A u \in A \cap Thread : /\ th[u].pc \notin {"lkw", "memw"}
                                 /\ th'[u].pc \notin {"lkw", "memw"}
    BY <1>3
  <2>2. R \subseteq Set
    BY <1>2
  <2>4. \/ M = {} /\ memw' = memw
        \/ M = VWakes(memw) /\ Blocked(memw) /\ memw' = VSema(memw)
    BY <1>4
  <2>3. QED BY ONLY <1>1, <1>5, <1>7, <2>1, <2>2, <2>4, AsleepLoosed
<1>9. th' = [u \in Thread |-> th'[u]] /\ \A u \in Thread : Aside(u)
  BY <1>3, <1>8 DEF Wake
<1>10. QED BY <1>8, <1>9, AllAside

LEMMA StepSpare ==
    ASSUME IInv, Spare
    PROVE  IInv'
<1>p. PICK s : s = dm.s
  OBVIOUS
<1>1. /\ Types /\ Locked /\ Slots /\ Referred
  BY DEF IInv
<1>2. /\ panic = "none" /\ dm.pc # "idle" /\ lk' = Unlock(lk, s)
      /\ th' = Wake(th, Waiters(s)) /\ dm' = Idle
      /\ env' = env /\ slot' = slot /\ refs' = refs /\ cowsets' = cowsets /\ atl' = atl
      /\ pt' = pt /\ tab' = tab /\ core' = core /\ free' = free /\ memw' = memw
      /\ data' = data /\ swap' = swap /\ io' = io /\ panic' = panic
  BY <1>p DEF Spare, Run, Judged, sets, maps, pool
<1>3. s \in Set /\ Daemon1(s) /\ dm'.pc = "idle"
  BY <1>p, <1>1, <1>2 DEF Locked, Daemon1, Idle
<1>4. /\ Asleep' /\ th' \in [Thread -> ThreadState]
      /\ \A u \in Thread : Same(u) /\ Keeps(u) /\ Placed(u)'
  BY <1>2, <1>3, DaemonWakes
<1>5. Locked' /\ Counted' /\ lk' \in [Set -> SlotLock]
  BY <1>2, <1>3, <1>4, DaemonUnlocks
<1>6. Live'
  BY <1>1, <1>2, <1>3 DEF Referred, Live
<1>7. Referred' /\ Listed' /\ Slots' /\ Framed' /\ Pointed'
  <2>1. SlotsFixed
    BY <1>2 DEF SlotsFixed
  <2>2. \A x \in io' : x \in Set /\ slot[x].v /\ ~ slot[x].cow
    BY <1>1, <1>2 DEF Types, Slots
  <2>3. QED BY <1>2, <1>3, <1>4, <1>6, <2>1, <2>2, DaemonFixed
<1>8. Types'
  <2>1. Idle \in DaemonState
    BY DEF Idle, DaemonState
  <2>2. QED BY <1>1, <1>2, <1>4, <1>5, <2>1 DEF Types
<1>9. QED BY <1>4, <1>5, <1>7, <1>8 DEF IInv

LEMMA StepIoDone ==
    ASSUME IInv, NEW s \in Set, IoDone(s)
    PROVE  IInv'
<1>1. /\ Types /\ Locked /\ Slots /\ Referred /\ slot \in [Set -> Slot]
  BY DEF IInv, Types
<1>2. /\ panic = "none" /\ s \in io /\ lk' = Unlock(lk, s)
      /\ th' = Wake(th, Waiters(s)) /\ dm' = dm /\ io' = io \ {s}
      /\ slot' = [slot EXCEPT ![s].m = FALSE]
      /\ swap' = [swap EXCEPT ![s] = data[slot[s].f]]
      /\ env' = env /\ refs' = refs /\ cowsets' = cowsets /\ atl' = atl
      /\ pt' = pt /\ tab' = tab /\ core' = core /\ free' = free /\ memw' = memw
      /\ data' = data /\ panic' = panic
  BY DEF IoDone, Run, sets, maps, pool
<1>3. slot[s].v /\ slot[s].f \in Frame
  BY <1>1, <1>2 DEF Slots, SlotShape
<1>4. /\ Asleep' /\ th' \in [Thread -> ThreadState]
      /\ \A u \in Thread : Same(u) /\ Keeps(u) /\ Placed(u)'
  BY <1>2, DaemonWakes
<1>5. Locked' /\ Counted' /\ lk' \in [Set -> SlotLock]
  BY <1>2, <1>4, DaemonUnlocks
<1>6. Live'
  BY <1>1, <1>2 DEF Referred, Live
<1>a. SlotsFixed /\ slot' \in [Set -> Slot]
  <2>1. PICK e : e = [slot[s] EXCEPT !.m = FALSE]
    OBVIOUS
  <2>2. e \in Slot /\ e.v = slot[s].v /\ e.cow = slot[s].cow /\ e.f = slot[s].f
    BY <1>1, <2>1 DEF Slot
  <2>3. slot' = [slot EXCEPT ![s] = e]
    BY <1>2, <2>1
  <2>4. QED BY <1>1, <2>2, <2>3 DEF SlotsFixed
<1>7. Referred' /\ Listed' /\ Slots' /\ Framed' /\ Pointed'
  <2>2. \A x \in io' : x \in Set /\ slot[x].v /\ ~ slot[x].cow
    BY <1>1, <1>2 DEF Types, Slots
  <2>3. dm'.pc # "idle" => dm'.s \in Set /\ slot[dm'.s].v /\ ~ slot[dm'.s].cow
    BY <1>1, <1>2 DEF Locked, Slots
  <2>4. QED BY <1>2, <1>4, <1>6, <1>a, <2>2, <2>3, DaemonFixed
<1>8. Types'
  <2>1. swap' \in [Set -> Val] /\ io' \subseteq Set
    BY <1>1, <1>2, <1>3 DEF Types
  <2>2. QED BY <1>1, <1>2, <1>4, <1>5, <1>a, <2>1 DEF Types
<1>9. QED BY <1>4, <1>5, <1>7, <1>8 DEF IInv

(* A step that concerns no thread and gives up no lock. *)
LEMMA DaemonAlone ==
    ASSUME IInv, th' = th, env' = env, tab' = tab
    PROVE  /\ th' \in [Thread -> ThreadState]
           /\ \A u \in Thread : Same(u) /\ Keeps(u) /\ Placed(u)'
<1>1. th' = [u \in Thread |-> th'[u]] /\ \A u \in Thread : Aside(u)
  BY DEF IInv, Types, Aside
<1>2. QED BY <1>1, AllAside

LEMMA AsleepAlone ==
    ASSUME IInv, th' = th, memw' = memw, \A s \in Set : lk'[s].sema = lk[s].sema
    PROVE  Asleep'
<1>1. Starving' = Starving /\ \A s \in Set : Waiting(s)' = Waiting(s)
  BY DEF Starving, Waiting
<1>2. QED BY <1>1 DEF IInv, Asleep

LEMMA StepSkipCow ==
    ASSUME IInv, NEW c \in Cow, SkipCow(c)
    PROVE  IInv'
<1>1. /\ Types /\ Locked /\ Counted /\ Slots /\ Referred
  BY DEF IInv
<1>2. /\ panic = "none" /\ dm.pc = "walk" /\ dm' = [dm EXCEPT !.todo = dm.todo \ {c}]
      /\ lk' = lk /\ th' = th /\ io' = io
      /\ env' = env /\ slot' = slot /\ refs' = refs /\ cowsets' = cowsets /\ atl' = atl
      /\ pt' = pt /\ tab' = tab /\ core' = core /\ free' = free /\ memw' = memw
      /\ data' = data /\ swap' = swap /\ panic' = panic
  BY DEF SkipCow, Run, sets, maps, pool
<1>3. dm' \in DaemonState /\ dm'.pc = dm.pc /\ dm'.s = dm.s
  BY <1>1, <1>2 DEF Types, DaemonState
<1>4. /\ th' \in [Thread -> ThreadState]
      /\ \A u \in Thread : Same(u) /\ Keeps(u) /\ Placed(u)'
  BY <1>2, DaemonAlone
<1>5. Asleep'
  BY <1>2, AsleepAlone
<1>6. /\ \A s \in Set : (Daemon1(s)' <=> Daemon1(s)) /\ LockUsers(s)' = LockUsers(s)
      /\ \A u \in Thread : Has(u)' = Has(u)
  BY <1>3, <1>4 DEF Daemon1, LockUsers, Same
<1>7. Locked' /\ Counted'
  BY <1>1, <1>2, <1>3, <1>6 DEF Locked, Counted
<1>8. Live'
  BY <1>1, <1>2, <1>3 DEF Referred, Live
<1>9. Referred' /\ Listed' /\ Slots' /\ Framed' /\ Pointed'
  <2>1. SlotsFixed
    BY <1>2 DEF SlotsFixed
  <2>2. \A x \in io' : x \in Set /\ slot[x].v /\ ~ slot[x].cow
    BY <1>1, <1>2 DEF Types, Slots
  <2>3. dm'.pc # "idle" => dm'.s \in Set /\ slot[dm'.s].v /\ ~ slot[dm'.s].cow
    BY <1>1, <1>3 DEF Locked, Slots
  <2>4. QED BY <1>2, <1>4, <1>8, <2>1, <2>2, <2>3, DaemonFixed
<1>10. Types'
  BY <1>1, <1>2, <1>3, <1>4 DEF Types
<1>11. QED BY <1>4, <1>5, <1>7, <1>9, <1>10 DEF IInv

(* The daemon's lock stays, for the output of the page. *)
LEMMA StepPush ==
    ASSUME IInv, Push
    PROVE  IInv'
<1>p. PICK s : s = dm.s
  OBVIOUS
<1>1. /\ Types /\ Locked /\ Counted /\ Slots /\ Referred /\ slot \in [Set -> Slot]
      /\ lk \in [Set -> SlotLock] /\ io \subseteq Set
  BY DEF IInv, Types
<1>2. /\ panic = "none" /\ dm.pc = "judge" /\ dm' = Idle /\ lk' = lk /\ th' = th
      /\ io' = io \cup {s} /\ slot' = [slot EXCEPT ![s].m = FALSE, ![s].sw = TRUE]
      /\ env' = env /\ refs' = refs /\ cowsets' = cowsets /\ atl' = atl
      /\ pt' = pt /\ tab' = tab /\ core' = core /\ free' = free /\ memw' = memw
      /\ data' = data /\ swap' = swap /\ panic' = panic
  BY <1>p DEF Push, Run, sets, maps, pool
<1>3. /\ s \in Set /\ Daemon1(s) /\ s \notin io /\ lk[s].held /\ dm'.pc = "idle"
      /\ refs[s] > 0 /\ slot[s].v /\ ~ slot[s].cow /\ \A u \in Thread : s \notin Has(u)
  BY <1>p, <1>1, <1>2 DEF Locked, Daemon1, Idle, Referred, Live, Slots
<1>4. /\ th' \in [Thread -> ThreadState]
      /\ \A u \in Thread : Same(u) /\ Keeps(u) /\ Placed(u)'
  BY <1>2, DaemonAlone
<1>5. Asleep'
  BY <1>2, AsleepAlone
<1>6. /\ \A x \in Set : LockUsers(x)' = LockUsers(x) /\ ~ Daemon1(x)'
      /\ \A x \in Set \ {s} : ~ Daemon1(x)
      /\ \A u \in Thread : Has(u)' = Has(u)
  BY <1>p, <1>3, <1>4 DEF Daemon1, LockUsers, Same
<1>7. Counted'
  <2>1. ASSUME NEW x \in Set
        PROVE  (IF Daemon1(x)' THEN 1 ELSE 0) + (IF x \in io' THEN 1 ELSE 0)
               = (IF Daemon1(x) THEN 1 ELSE 0) + (IF x \in io THEN 1 ELSE 0)
    BY <1>2, <1>3, <1>6
  <2>2. ASSUME NEW x \in Set
        PROVE  /\ IsFiniteSet(LockUsers(x)')
               /\ lk'[x].n >= Cardinality(LockUsers(x)') + (IF Daemon1(x)' THEN 1 ELSE 0)
                                                        + (IF x \in io' THEN 1 ELSE 0)
    <3>1. /\ IsFiniteSet(LockUsers(x))
          /\ lk[x].n >= Cardinality(LockUsers(x)) + (IF Daemon1(x) THEN 1 ELSE 0)
                                                  + (IF x \in io THEN 1 ELSE 0)
      BY <1>1 DEF Counted
    <3>2. Cardinality(LockUsers(x)) \in Nat /\ lk[x].n \in Nat
      BY <1>1, <3>1, FS_CardinalityType DEF SlotLock
    <3>3. QED BY <1>2, <1>6, <2>1, <3>1, <3>2
  <2>3. QED BY <2>2 DEF Counted
<1>a. Locked'
  BY <1>1, <1>2, <1>3, <1>6 DEF Locked
<1>8. Live'
  BY <1>1, <1>2, <1>3 DEF Referred, Live
<1>b. SlotsFixed /\ slot' \in [Set -> Slot]
  <2>1. PICK e : e = [slot[s] EXCEPT !.m = FALSE, !.sw = TRUE]
    OBVIOUS
  <2>2. e \in Slot /\ e.v = slot[s].v /\ e.cow = slot[s].cow /\ e.f = slot[s].f
    BY <1>1, <1>3, <2>1 DEF Slot
  <2>3. slot' = [slot EXCEPT ![s] = e]
    BY <1>2, <2>1
  <2>4. QED BY <1>1, <2>2, <2>3 DEF SlotsFixed
<1>9. Referred' /\ Listed' /\ Slots' /\ Framed' /\ Pointed'
  <2>2. \A x \in io' : x \in Set /\ slot[x].v /\ ~ slot[x].cow
    BY <1>1, <1>2, <1>3 DEF Types, Slots
  <2>4. QED BY <1>2, <1>3, <1>4, <1>8, <1>b, <2>2, DaemonFixed
<1>10. Types'
  <2>1. Idle \in DaemonState
    BY DEF Idle, DaemonState
  <2>2. QED BY <1>1, <1>2, <1>3, <1>4, <1>b, <2>1 DEF Types
<1>11. QED BY <1>4, <1>5, <1>7, <1>a, <1>9, <1>10 DEF IInv

(* A hand finds the page of a slot of a set in use that is not locked: no   *)
(* thread has just allocated the page, and nobody shares it.                *)
LEMMA HandFinds ==
    ASSUME Sound, IInv, NEW f \in Frame, NEW hard \in BOOLEAN, Hand(f, hard), NEW s,
           s = core[f].s
    PROVE  s \in Set /\ slot[s].v /\ ~ slot[s].cow
<1>1. /\ Pointed /\ env \in Envs /\ \A u \in Thread : Placed(u)
      /\ Referred /\ Listed /\ Locked /\ th \in [Thread -> ThreadState]
      /\ core \in [Frame -> [alloc : BOOLEAN, s : Set \cup {None}]]
  BY DEF IInv, Types
<1>2. env.steal /\ core[f].alloc /\ s # None /\ s \in Set /\ refs[s] > 0 /\ ~ lk[s].held
  BY <1>1 DEF Hand
<1>3. ASSUME NEW t \in Thread, th[t].f = f PROVE FALSE
  <2>1. f # None
    BY SetAssumption
  <2>2. th[t].pc = "got" /\ s = For(t) /\ th[t].why # "none" /\ Own(t) \in Set
    BY <1>1, <1>2, <1>3, <2>1 DEF Placed, Pointed
  <2>3. Own(t) \in Has(t)
    BY <2>2 DEF Has, HasOwn
  <2>4. s # Own(t)
    BY <1>1, <1>2, <2>3 DEF Locked
  <2>5. CASE th[t].why = "master"
    <3>1. s = File /\ s \in Has(t)
      BY <2>2, <2>5 DEF For, Has, HasMaster, Allocs
    <3>2. QED BY <1>1, <1>2, <3>1 DEF Locked
  <2>6. CASE th[t].why = "copy"
    <3>1. s = env.child[t] /\ Forks(t)
      BY <2>2, <2>6 DEF For, Forks, Allocs
    <3>2. Unborn(s) /\ s # None
      BY <1>1, <1>2, <3>1 DEF Listed, Unborn
    <3>3. s # File
      BY <1>1, <1>2, <3>1 DEF Sound
    <3>4. \A u \in Thread : Own(u) = s => th[u].pc = "none"
      BY <3>2 DEF Unborn
    <3>5. \A x : x \notin Referrers(s)
      BY <3>3, <3>4, ReferrersAre DEF Views, Forks, Asks, Allocs
    <3>6. Referrers(s) = {}
      BY <3>5
    <3>7. refs[s] = 0
      BY <1>1, <1>2, <3>6, FS_EmptySet DEF Referred
    <3>8. QED BY <1>2, <3>7
  <2>7. CASE th[t].why \notin {"master", "copy"}
    BY <2>2, <2>4, <2>7 DEF For
  <2>8. QED BY <2>5, <2>6, <2>7
<1>4. SlotFrame(s) = f
  BY <1>1, <1>2, <1>3 DEF Pointed
<1>5. QED BY <1>2, <1>4, SetAssumption DEF SlotFrame

(* unvirt() does not change what a slot holds. *)
LEMMA UnvirtIs ==
    ASSUME IInv, NEW s \in Set, NEW to \in Set
    PROVE  /\ Unvirt(slot, s, to) \in [Set -> Slot]
           /\ \A x \in Set : /\ Unvirt(slot, s, to)[x].v = slot[x].v
                             /\ Unvirt(slot, s, to)[x].cow = slot[x].cow
                             /\ Unvirt(slot, s, to)[x].f = slot[x].f
<1>1. slot \in [Set -> Slot] /\ pt[to].m \in BOOLEAN /\ pt[s].m \in BOOLEAN /\ atl[s] \in Nat
  BY DEF IInv, Types
<1>2. PICK e : e = [slot[to] EXCEPT !.m = slot[to].m \/ pt[s].m]
  OBVIOUS
<1>3. e \in Slot /\ e.v = slot[to].v /\ e.cow = slot[to].cow /\ e.f = slot[to].f
  BY <1>1, <1>2 DEF Slot
<1>4. PICK a : a = [slot EXCEPT ![to] = e]
  OBVIOUS
<1>5. /\ a \in [Set -> Slot]
      /\ \A x \in Set : a[x].v = slot[x].v /\ a[x].cow = slot[x].cow /\ a[x].f = slot[x].f
  BY <1>1, <1>3, <1>4
<1>6. PICK d : d = [a[s] EXCEPT !.refs = a[s].refs - atl[s]]
  OBVIOUS
<1>7. d \in Slot /\ d.v = slot[s].v /\ d.cow = slot[s].cow /\ d.f = slot[s].f
  BY <1>1, <1>5, <1>6 DEF Slot
<1>8. PICK b : b = [a EXCEPT ![s] = d]
  OBVIOUS
<1>9. Unvirt(slot, s, to) = b
  BY <1>2, <1>4, <1>6, <1>8 DEF Unvirt
<1>10. /\ b \in [Set -> Slot]
       /\ \A x \in Set : b[x].v = slot[x].v /\ b[x].cow = slot[x].cow /\ b[x].f = slot[x].f
  BY <1>5, <1>7, <1>8
<1>11. QED BY <1>9, <1>10

LEMMA StepHand ==
    ASSUME Sound, IInv, NEW f \in Frame, NEW hard \in BOOLEAN, Hand(f, hard)
    PROVE  IInv'
<1>p. PICK s : s = core[f].s
  OBVIOUS
<1>1. /\ Types /\ Locked /\ Counted /\ Slots /\ Referred /\ slot \in [Set -> Slot]
      /\ lk \in [Set -> SlotLock] /\ io \subseteq Set
  BY DEF IInv, Types
<1>3. s \in Set /\ slot[s].v /\ ~ slot[s].cow
  BY <1>p, HandFinds
<1>2. /\ panic = "none" /\ dm.pc = "idle" /\ refs[s] > 0 /\ ~ lk[s].held
      /\ lk' = [lk EXCEPT ![s].held = TRUE, ![s].n = lk[s].n + 1]
      /\ slot' = Unvirt(slot, s, s) /\ atl' = [atl EXCEPT ![s] = 0]
      /\ pt' = [pt EXCEPT ![s] = NoTrans]
      /\ dm' = [pc |-> IF IsMaster(s) THEN "walk" ELSE "judge", s |-> s,
                todo |-> IF IsMaster(s) THEN cowsets ELSE {}, hard |-> hard]
      /\ env' = env /\ refs' = refs /\ cowsets' = cowsets /\ tab' = tab /\ core' = core
      /\ free' = free /\ memw' = memw /\ data' = data /\ swap' = swap /\ io' = io
      /\ th' = th /\ panic' = panic
  BY <1>p, <1>3 DEF Hand, Run, sets, pool
<1>4. /\ th' \in [Thread -> ThreadState]
      /\ \A u \in Thread : Same(u) /\ Keeps(u) /\ Placed(u)'
  BY <1>2, DaemonAlone
<1>5. /\ lk' \in [Set -> SlotLock] /\ lk'[s].held = TRUE /\ lk'[s].n = lk[s].n + 1
      /\ lk'[s].sema = lk[s].sema /\ \A x \in Set \ {s} : lk'[x] = lk[x]
  <2>1. PICK e : e = [lk[s] EXCEPT !.held = TRUE, !.n = lk[s].n + 1]
    OBVIOUS
  <2>2. e \in SlotLock /\ e.held = TRUE /\ e.n = lk[s].n + 1 /\ e.sema = lk[s].sema
    <3>1. lk[s] \in SlotLock
      BY <1>1, <1>3
    <3>2. lk[s].n + 1 \in Nat
      BY <3>1 DEF SlotLock
    <3>3. QED BY <2>1, <3>1, <3>2 DEF SlotLock
  <2>3. lk' = [lk EXCEPT ![s] = e]
    BY <1>2, <2>1
  <2>4. QED BY <1>1, <1>3, <2>2, <2>3
<1>6. Asleep'
  <2>1. \A x \in Set : lk'[x].sema = lk[x].sema
    BY <1>5
  <2>2. QED BY <1>2, <2>1, AsleepAlone
<1>7. /\ dm' \in DaemonState /\ dm'.pc # "idle" /\ dm'.s = s
  <2>1. cowsets \subseteq Cow
    BY <1>1 DEF Types
  <2>2. dm'.pc \in {"walk", "judge"} /\ dm'.s = s /\ dm'.todo \in SUBSET Cow
    BY <1>2, <2>1
  <2>3. QED BY <1>2, <1>3, <2>2 DEF DaemonState
<1>8. /\ \A x \in Set : LockUsers(x)' = LockUsers(x) /\ (Daemon1(x)' <=> x = s)
      /\ \A x \in Set : ~ Daemon1(x)
      /\ \A u \in Thread : Has(u)' = Has(u) /\ s \notin Has(u)
      /\ s \notin io
  BY <1>1, <1>2, <1>3, <1>4, <1>7 DEF Daemon1, LockUsers, Same, Locked
<1>9. Counted'
  <2>1. ASSUME NEW x \in Set
        PROVE  /\ IsFiniteSet(LockUsers(x)')
               /\ lk'[x].n >= Cardinality(LockUsers(x)') + (IF Daemon1(x)' THEN 1 ELSE 0)
                                                        + (IF x \in io' THEN 1 ELSE 0)
    <3>1. /\ IsFiniteSet(LockUsers(x))
          /\ lk[x].n >= Cardinality(LockUsers(x)) + (IF Daemon1(x) THEN 1 ELSE 0)
                                                  + (IF x \in io THEN 1 ELSE 0)
      BY <1>1 DEF Counted
    <3>2. Cardinality(LockUsers(x)) \in Nat /\ lk[x].n \in Nat
      BY <1>1, <3>1, FS_CardinalityType DEF SlotLock
    <3>3. QED BY <1>2, <1>5, <1>8, <3>1, <3>2
  <2>2. QED BY <2>1 DEF Counted
<1>10. Locked'
  <2>1. \A u \in Thread, x \in Set : x \in Has(u)' => lk'[x].held /\ ~ Daemon1(x)' /\ x \notin io'
    BY <1>1, <1>2, <1>5, <1>8 DEF Locked
  <2>2. \A u, v \in Thread, x \in Set : x \in Has(u)' /\ x \in Has(v)' => u = v
    BY <1>1, <1>8 DEF Locked
  <2>3. dm'.s \in Set /\ lk'[dm'.s].held /\ dm'.s \notin io'
    BY <1>2, <1>3, <1>5, <1>7, <1>8
  <2>4. \A x \in io' : lk'[x].held
    BY <1>1, <1>2, <1>5, <1>8 DEF Locked
  <2>5. QED BY <2>1, <2>2, <2>3, <2>4 DEF Locked
<1>11. Live'
  BY <1>1, <1>2, <1>7 DEF Referred, Live
<1>12. SlotsFixed /\ slot' \in [Set -> Slot]
  <2>1. /\ Unvirt(slot, s, s) \in [Set -> Slot]
        /\ \A x \in Set : /\ Unvirt(slot, s, s)[x].v = slot[x].v
                          /\ Unvirt(slot, s, s)[x].cow = slot[x].cow
                          /\ Unvirt(slot, s, s)[x].f = slot[x].f
    BY <1>3, UnvirtIs
  <2>2. QED BY <1>2, <2>1 DEF SlotsFixed
<1>13. Referred' /\ Listed' /\ Slots' /\ Framed' /\ Pointed'
  <2>1. \A x \in io' : x \in Set /\ slot[x].v /\ ~ slot[x].cow
    BY <1>1, <1>2 DEF Types, Slots
  <2>2. QED BY <1>2, <1>3, <1>4, <1>7, <1>11, <1>12, <2>1, DaemonFixed
<1>14. Types'
  <2>1. /\ atl' \in [Set -> Nat]
        /\ pt' \in [Set -> [f : Frame \cup {None}, w : BOOLEAN, m : BOOLEAN]]
    BY <1>1, <1>2 DEF Types, NoTrans
  <2>2. QED BY <1>1, <1>2, <1>4, <1>5, <1>7, <1>12, <2>1 DEF Types
<1>15. QED BY <1>4, <1>6, <1>9, <1>10, <1>13, <1>14 DEF IInv

(* The slot of a set over the file that shares its page is not valid any    *)
(* more, or loses its translation only.                                     *)
LEMMA StepTakeCow ==
    ASSUME IInv, NEW c \in Cow, TakeCow(c)
    PROVE  IInv'
<1>p. PICK sl : sl = Unvirt(slot, c, File)
  OBVIOUS
<1>1. /\ Types /\ Locked /\ Counted /\ Slots /\ Referred /\ Listed /\ slot \in [Set -> Slot]
      /\ Framed /\ Pointed /\ env \in Envs /\ c \in Set /\ File \in Set /\ c # File
      /\ \A u \in Thread : Placed(u) /\ SlotsOf(u)
  BY SetAssumption DEF IInv, Types, Slots, Set
<1>2. /\ panic = "none" /\ dm.pc = "walk" /\ dm' = [dm EXCEPT !.todo = dm.todo \ {c}]
      /\ ~ lk[c].held /\ slot[c].cow
      /\ slot' = IF sl[c].refs = 0
                 THEN [sl EXCEPT ![c].cow = FALSE, ![c].v = FALSE,
                                 ![File].refs = sl[File].refs - 1]
                 ELSE sl
      /\ atl' = [atl EXCEPT ![c] = 0] /\ pt' = [pt EXCEPT ![c] = NoTrans]
      /\ lk' = lk /\ th' = th /\ io' = io
      /\ env' = env /\ refs' = refs /\ cowsets' = cowsets
      /\ tab' = tab /\ core' = core /\ free' = free /\ memw' = memw
      /\ data' = data /\ swap' = swap /\ panic' = panic
  <2>1. [sl EXCEPT ![c].cow = FALSE, ![c].v = FALSE, ![File].refs = @ - 1]
        = [sl EXCEPT ![c].cow = FALSE, ![c].v = FALSE, ![File].refs = sl[File].refs - 1]
    BY <1>1
  <2>2. QED BY <1>p, <2>1 DEF TakeCow, Run, sets, pool
<1>3. dm' \in DaemonState /\ dm'.pc = dm.pc /\ dm'.s = dm.s
  BY <1>1, <1>2 DEF Types, DaemonState
<1>4. /\ th' \in [Thread -> ThreadState]
      /\ \A u \in Thread : Same(u) /\ Keeps(u) /\ Placed(u)'
  BY <1>2, DaemonAlone
<1>5. Asleep'
  BY <1>2, AsleepAlone
<1>6. /\ \A s \in Set : (Daemon1(s)' <=> Daemon1(s)) /\ LockUsers(s)' = LockUsers(s)
      /\ \A u \in Thread : Has(u)' = Has(u)
  BY <1>3, <1>4 DEF Daemon1, LockUsers, Same
<1>7. Locked' /\ Counted'
  BY <1>1, <1>2, <1>3, <1>6 DEF Locked, Counted
<1>8. Live'
  BY <1>1, <1>2, <1>3 DEF Referred, Live
<1>9. /\ sl \in [Set -> Slot]
      /\ \A x \in Set : sl[x].v = slot[x].v /\ sl[x].cow = slot[x].cow /\ sl[x].f = slot[x].f
  BY <1>p, <1>1, UnvirtIs
<1>10. /\ slot' \in [Set -> Slot]
       /\ \A x \in Set \ {c} : /\ slot'[x].v = slot[x].v /\ slot'[x].cow = slot[x].cow
                               /\ slot'[x].f = slot[x].f
       /\ \/ slot'[c].v = FALSE /\ slot'[c].cow = FALSE
          \/ slot'[c].v = slot[c].v /\ slot'[c].cow = slot[c].cow /\ slot'[c].f = slot[c].f
  <2>1. CASE sl[c].refs # 0
    <3>1. slot' = sl
      BY <1>2, <2>1
    <3>2. c \in Set
      BY <1>1
    <3>3. QED BY ONLY <1>9, <3>1, <3>2
  <2>2. CASE sl[c].refs = 0
    <3>1. PICK e : e = [sl[c] EXCEPT !.cow = FALSE, !.v = FALSE]
      OBVIOUS
    <3>2. e \in Slot /\ e.v = FALSE /\ e.cow = FALSE
      BY <1>1, <1>9, <3>1 DEF Slot
    <3>3. PICK d : d = [sl[File] EXCEPT !.refs = sl[File].refs - 1]
      OBVIOUS
    <3>4. d \in Slot /\ d.v = slot[File].v /\ d.cow = slot[File].cow /\ d.f = slot[File].f
      BY <1>1, <1>9, <3>3 DEF Slot
    <3>5. slot' = [sl EXCEPT ![c] = e, ![File] = d]
      BY <1>1, <1>2, <2>2, <3>1, <3>3
    <3>6. /\ slot' \in [Set -> Slot] /\ slot'[c] = e
          /\ \A x \in Set \ {c} : /\ slot'[x].v = slot[x].v /\ slot'[x].cow = slot[x].cow
                                  /\ slot'[x].f = slot[x].f
      BY <1>1, <1>9, <3>2, <3>4, <3>5
    <3>7. QED BY <3>2, <3>6
  <2>3. QED BY <2>1, <2>2
<1>11. Referred' /\ Listed'
  BY <1>1, <1>2, <1>4, <1>8, RefsKept
<1>12. ASSUME NEW s \in Set PROVE SlotShape(s)' /\ SlotFrame(s)' = SlotFrame(s)
  <2>1. SlotShape(s) /\ SlotShape(c)
    BY <1>1 DEF Slots
  <2>2. CASE s = c
    BY <1>2, <1>10, <2>1, <2>2 DEF SlotShape, SlotFrame
  <2>3. CASE s # c
    BY <1>10, <2>1, <2>3 DEF SlotShape, SlotFrame
  <2>4. QED BY <2>2, <2>3
<1>13. \A u \in Thread : SlotsOf(u)'
  <2>1. PICK A : A = {}
    OBVIOUS
  <2>2. \A x \in Set : Unborn(x)' => Unborn(x)
    BY <1>4 DEF Unborn, Keeps
  <2>3. \A u \in Thread \ A : Same(u)
    BY <1>4
  <2>4. CASE slot'[c].v = FALSE
    <3>1. Quiet(c, A)
      BY <1>1, <1>2, <2>4 DEF Quiet, Locked
    <3>2. \A u \in Thread \ A : SlotsOf(u)'
      BY <1>1, <1>2, <1>10, <2>2, <2>3, <3>1, SlotsStep
    <3>3. QED BY <2>1, <3>2
  <2>5. CASE slot'[c].v # FALSE
    <3>1. SlotsFixed
      BY <1>10, <2>5 DEF SlotsFixed
    <3>2. \A u \in Thread \ A : SlotsOf(u)'
      BY <1>1, <1>2, <2>2, <2>3, <3>1, SlotsSame
    <3>3. QED BY <2>1, <3>2
  <2>6. QED BY <2>4, <2>5
<1>14. Slots'
  <2>1. dm'.pc # "idle" => slot'[dm'.s].v /\ ~ slot'[dm'.s].cow
    <3>1. HAVE dm'.pc # "idle"
    <3>2. dm.s \in Set /\ slot[dm.s].v /\ ~ slot[dm.s].cow
      BY <1>1, <1>3, <3>1 DEF Slots, Locked
    <3>3. dm.s # c
      BY <1>2, <3>2
    <3>4. QED BY <1>3, <1>10, <3>2, <3>3
  <2>2. \A s \in io' : slot'[s].v /\ ~ slot'[s].cow
    <3>1. ASSUME NEW s \in io PROVE slot'[s].v /\ ~ slot'[s].cow
      <4>1. s \in Set /\ slot[s].v /\ ~ slot[s].cow
        BY <1>1 DEF Slots, Types
      <4>2. s # c
        BY <1>2, <4>1
      <4>3. QED BY <1>10, <4>1, <4>2
    <3>2. QED BY <1>2, <3>1
  <2>3. QED BY <1>12, <1>13, <2>1, <2>2 DEF Slots
<1>15. Framed' /\ Pointed'
  <2>1. \A u \in Thread : th'[u].f = th[u].f
    BY <1>2
  <2>2. Framed'
    BY <1>1, <1>2, <1>12, <2>1, FramedSame DEF Elsewhere
  <2>3. \A u \in Thread : th'[u].pc = "got" => th[u].pc = "got" /\ For(u)' = For(u)
    BY <1>2, <1>4, ForSame
  <2>4. Pointed'
    BY <1>1, <1>2, <1>12, <2>1, <2>3, PointedSame
  <2>5. QED BY <2>2, <2>4
<1>16. Types'
  <2>1. /\ atl' \in [Set -> Nat]
        /\ pt' \in [Set -> [f : Frame \cup {None}, w : BOOLEAN, m : BOOLEAN]]
    BY <1>1, <1>2 DEF Types, NoTrans
  <2>2. QED BY <1>1, <1>2, <1>3, <1>4, <1>10, <2>1 DEF Types
<1>17. QED BY <1>4, <1>5, <1>7, <1>11, <1>14, <1>15, <1>16 DEF IInv

LEMMA StepSteal ==
    ASSUME IInv, Steal
    PROVE  IInv'
<1>p. PICK s : s = dm.s
  OBVIOUS
<1>A. PICK A : A = {}
  OBVIOUS
<1>R. PICK R : R = {s}
  OBVIOUS
<1> DEFINE o == <<"slot", s>>
<1>1. /\ Types /\ Locked /\ Slots /\ Referred /\ Listed /\ slot \in [Set -> Slot]
      /\ Framed /\ Pointed /\ env \in Envs /\ lk \in [Set -> SlotLock] /\ Asleep
      /\ th \in [Thread -> ThreadState] /\ \A u \in Thread : Placed(u) /\ SlotsOf(u)
  BY DEF IInv, Types, Slots
<1>2. /\ panic = "none" /\ dm.pc # "idle" /\ lk' = Unlock(lk, s) /\ dm' = Idle
      /\ slot' = [slot EXCEPT ![s].v = FALSE]
      /\ FreePage(Wake(th, Waiters(s)), slot[s].f)
      /\ env' = env /\ refs' = refs /\ cowsets' = cowsets /\ atl' = atl
      /\ pt' = pt /\ tab' = tab /\ data' = data /\ swap' = swap /\ io' = io
  BY <1>p DEF Steal, Run, Judged, sets, maps
<1>3. /\ s \in Set /\ Daemon1(s) /\ dm'.pc = "idle" /\ slot[s].v /\ ~ slot[s].cow
      /\ slot[s].f \in Frame /\ slot[s].f # None /\ \A u \in Thread : s \notin Has(u)
      /\ s \notin io
  BY <1>p, <1>1, <1>2, SetAssumption DEF Locked, Daemon1, Idle, Slots, SlotShape
<1>4. /\ slot' \in [Set -> Slot] /\ slot'[s].v = FALSE /\ slot'[s].cow = slot[s].cow
      /\ \A x \in Set \ {s} : slot'[x] = slot[x]
  <2>1. PICK e : e = [slot[s] EXCEPT !.v = FALSE]
    OBVIOUS
  <2>2. e \in Slot /\ e.v = FALSE /\ e.cow = slot[s].cow
    BY <1>1, <1>3, <2>1 DEF Slot
  <2>3. slot' = [slot EXCEPT ![s] = e]
    BY <1>2, <2>1
  <2>4. QED BY <1>1, <1>3, <2>2, <2>3
<1>5. o \in Owner /\ Frames[o] = slot[s].f
  BY <1>3, FramesAre DEF SlotFrame
<1>6. /\ \A x \in Set : SlotFrame(x)' = IF x = s THEN None ELSE SlotFrame(x)
      /\ \A x \in Set : <<"slot", x>> = o <=> x = s
  BY <1>3, <1>4 DEF SlotFrame
<1>7. Freeing(A, User, R, o)
  <2>1. User \in ThreadState
    BY SetAssumption DEF User, ThreadState, Set
  <2>2. Roused(A, User, R) = Wake(th, Waiters(s))
    BY <1>A, <1>R DEF Roused, Wake
  <2>3. FreePage(Roused(A, User, R), Frames[o])
    BY <1>2, <1>5, <2>2
  <2>4. \A x \in Set : SlotFrame(x)' = IF <<"slot", x>> = o THEN None ELSE SlotFrame(x)
    BY <1>6
  <2>5. \A x \in Set : tab'[x] = IF <<"tab", x>> = o THEN None ELSE tab[x]
    BY <1>2
  <2>6. R \subseteq Set
    BY <1>3, <1>R
  <2>7. \A u \in Thread : <<"hand", u>> # o
    OBVIOUS
  <2>8. /\ \A u \in Thread : u \in A => th[u].pc \notin {"lkw", "memw"}
        /\ \A u \in Thread : u \in A => User.f = IF <<"hand", u>> = o THEN None ELSE th[u].f
        /\ \A u \in Thread : u \notin A => <<"hand", u>> # o
    BY <1>A, <2>7
  <2>9. Frames[o] # None /\ o \in Owner /\ env' = env
    BY <1>2, <1>3, <1>5
  <2> HIDE DEF o
  <2>10. QED BY ONLY <2>1, <2>3, <2>4, <2>5, <2>6, <2>8, <2>9 DEF Freeing
<1> HIDE DEF o
<1>8. /\ Framed' /\ free' \in Seq(Frame) /\ panic' = panic
      /\ core' = [core EXCEPT ![Frames[o]].alloc = FALSE] /\ Frames[o] \in Frame
      /\ \E M : Fed(M) /\ th' = Risen(A, User, R, M)
  BY <1>7, FreedIs
<1>9. PICK M : Fed(M) /\ th' = Risen(A, User, R, M)
  BY <1>8
<1>10. /\ th' = [u \in Thread |-> th'[u]]
       /\ \A u \in Thread \ A :
              th'[u] = IF u \in M \cup UNION {Waiters(x) : x \in R}
                       THEN Woken(th[u]) ELSE th[u]
  BY <1>9 DEF Risen
<1>11. lk' = [x \in Set |-> IF x \in R THEN Loosen(lk[x]) ELSE lk[x]]
  BY <1>1, <1>2, <1>3, <1>R, UnlockIs
<1>12. Asleep' /\ \A u \in Thread \ A : Aside(u)
  <2>1. \A u \in A \cap Thread : /\ th[u].pc \notin {"lkw", "memw"}
                                 /\ th'[u].pc \notin {"lkw", "memw"}
    BY <1>A
  <2>2. R \subseteq Set
    BY <1>3, <1>R
  <2>3. \/ M = {} /\ memw' = memw
        \/ M = VWakes(memw) /\ Blocked(memw) /\ memw' = VSema(memw)
    BY <1>9 DEF Fed
  <2>4. Asleep /\ lk \in [Set -> SlotLock] /\ th \in [Thread -> ThreadState]
    BY <1>1
  <2>5. \A u \in Thread \ A :
            th'[u] = IF u \in M \cup UNION {Waiters(x) : x \in R}
                     THEN Woken(th[u]) ELSE th[u]
    BY <1>10
  <2>6. QED BY ONLY <1>11, <2>1, <2>2, <2>3, <2>4, <2>5, AsleepLoosed
<1>13. /\ th' \in [Thread -> ThreadState]
       /\ \A u \in Thread : Same(u) /\ Keeps(u) /\ Placed(u)'
  <2>1. \A u \in Thread : Aside(u)
    BY <1>A, <1>12
  <2>2. QED BY <1>2, <1>10, <2>1, AllAside
<1>14. Locked' /\ Counted' /\ lk' \in [Set -> SlotLock]
  BY <1>2, <1>3, <1>13, DaemonUnlocks
<1>15. Live'
  BY <1>1, <1>2, <1>3, <1>8 DEF Referred, Live
<1>16. Referred' /\ Listed'
  BY <1>1, <1>2, <1>13, <1>15, RefsKept
<1>17. \A u \in Thread : SlotsOf(u)'
  <2>1. Quiet(s, A)
    BY <1>3, <1>4 DEF Quiet
  <2>2. \A x \in Set : Unborn(x)' => Unborn(x)
    BY <1>13 DEF Unborn, Keeps
  <2>3. /\ \A u \in Thread \ A : Same(u)
        /\ \A x \in Set \ {s} : slot'[x].v = slot[x].v /\ slot'[x].cow = slot[x].cow
    BY <1>4, <1>13
  <2>4. \A u \in Thread \ A : SlotsOf(u)'
    BY <1>1, <1>2, <1>3, <2>1, <2>2, <2>3, SlotsStep
  <2>5. QED BY <1>A, <2>4
<1>18. Slots'
  <2>1. ASSUME NEW x \in Set PROVE SlotShape(x)'
    <3>1. SlotShape(x)
      BY <1>1 DEF Slots
    <3>2. CASE x = s
      BY <1>3, <1>4, <3>2 DEF SlotShape
    <3>3. CASE x # s
      BY <1>4, <3>1, <3>3 DEF SlotShape
    <3>4. QED BY <3>2, <3>3
  <2>2. ASSUME NEW x \in io' PROVE slot'[x].v /\ ~ slot'[x].cow
    <3>1. x \in io /\ x \in Set /\ slot[x].v /\ ~ slot[x].cow
      BY <1>1, <1>2 DEF Slots, Types
    <3>2. QED BY <1>3, <1>4, <3>1
  <2>3. QED BY <1>3, <1>17, <2>1, <2>2 DEF Slots
<1>19. Pointed' /\ core' \in [Frame -> [alloc : BOOLEAN, s : Set \cup {None}]]
  <2>1. \A u \in Thread : th'[u].pc = "got" =>
            th[u].pc = "got" /\ For(u)' = For(u) /\ th'[u].f = th[u].f
    BY <1>2, <1>13, ForSame DEF Same
  <2>2. \A u \in Thread : th'[u].f = th[u].f
    BY <1>13 DEF Same
  <2>3. PICK f : f = Frames[o]
    OBVIOUS
  <2>4. \A x \in Set : SlotFrame(x) # f => SlotFrame(x)' = SlotFrame(x)
    BY <1>3, <1>5, <1>6, <2>3 DEF SlotFrame
  <2>5. f \in Frame /\ core' = [core EXCEPT ![f].alloc = FALSE]
    BY <1>8, <2>3
  <2>6. QED BY <1>2, <2>1, <2>2, <2>4, <2>5, PointedFreed
<1>20. Types'
  <2>1. Idle \in DaemonState
    BY DEF Idle, DaemonState
  <2>2. QED BY <1>1, <1>2, <1>4, <1>8, <1>13, <1>14, <1>19, <2>1 DEF Types
<1>21. QED BY <1>8, <1>12, <1>13, <1>14, <1>16, <1>18, <1>19, <1>20 DEF IInv

-----------------------------------------------------------------------------
(* Steps that change the references to sets                                 *)

LEMMA RefAdded ==
    ASSUME Referred, refs \in [Set -> Nat], NEW x \in Set, NEW r, r \notin Referrers(x),
           Referrers(x)' = Referrers(x) \cup {r}, refs'[x] = refs[x] + 1
    PROVE  IsFiniteSet(Referrers(x)') /\ refs'[x] = Cardinality(Referrers(x)')
<1>1. IsFiniteSet(Referrers(x)) /\ refs[x] = Cardinality(Referrers(x))
  BY DEF Referred
<1>2. /\ IsFiniteSet(Referrers(x) \cup {r})
      /\ Cardinality(Referrers(x) \cup {r}) = Cardinality(Referrers(x)) + 1
  BY <1>1, FS_AddElement
<1>3. QED BY <1>1, <1>2

LEMMA RefDropped ==
    ASSUME Referred, refs \in [Set -> Nat], NEW x \in Set, NEW r \in Referrers(x),
           Referrers(x)' = Referrers(x) \ {r}, refs'[x] = refs[x] - 1
    PROVE  IsFiniteSet(Referrers(x)') /\ refs'[x] = Cardinality(Referrers(x)')
<1>1. IsFiniteSet(Referrers(x)) /\ refs[x] = Cardinality(Referrers(x))
  BY DEF Referred
<1>2. /\ IsFiniteSet(Referrers(x) \ {r})
      /\ Cardinality(Referrers(x) \ {r}) = Cardinality(Referrers(x)) - 1
  BY <1>1, FS_RemoveElement
<1>3. QED BY <1>1, <1>2

(* The threads of A change places, none of them has a page, and no page     *)
(* moves.                                                                   *)
LEMMA StepRefs ==
    ASSUME IInv, NEW A, env' = env, slot' = slot, tab' = tab, core' = core, free' = free,
           dm' = dm, io' = io, \A u \in Thread \ A : Same(u),
           \A u \in Thread : th'[u].f = th[u].f,
           \A u \in Thread \cap A : SlotsOf(u)' /\ th'[u].pc # "got",
           \A c \in Set : Unborn(c)' => Unborn(c)
    PROVE  Slots' /\ Framed' /\ Pointed'
<1>1. /\ Slots /\ Framed /\ Pointed /\ env \in Envs
      /\ \A u \in Thread : Placed(u) /\ SlotsOf(u)
  BY DEF IInv, Types, Slots
<1>2. SlotsFixed /\ \A s \in Set : SlotShape(s)' /\ SlotFrame(s)' = SlotFrame(s)
  BY <1>1 DEF SlotsFixed, Slots, SlotShape, SlotFrame
<1>3. \A u \in Thread \ A : SlotsOf(u)'
  BY <1>1, <1>2, SlotsSame
<1>4. Slots'
  <2>1. \A u \in Thread : SlotsOf(u)'
    BY <1>3
  <2>2. QED BY <1>1, <1>2, <2>1 DEF Slots
<1>5. Framed'
  BY <1>1, <1>2, FramedSame DEF Elsewhere
<1>6. Pointed'
  <2>1. \A u \in Thread : th'[u].pc = "got" => th[u].pc = "got" /\ For(u)' = For(u)
    BY ForSame DEF Same
  <2>2. QED BY <1>1, <1>2, <2>1, PointedSame
<1>7. QED BY <1>4, <1>5, <1>6

(* Nobody starts to run in a copy, and nobody stops. *)
LEMMA UnbornSame ==
    ASSUME env' = env, \A u \in Thread : th'[u].pc = "none" <=> th[u].pc = "none"
    PROVE  \A c : Unborn(c)' <=> Unborn(c)
BY DEF Unborn, Own

LEMMA UnbornChild ==
    ASSUME env' = env, \A u \in Thread : th'[u].pc = "none" <=> th[u].pc = "none",
           NEW t, NEW c, c = env.child[t]
    PROVE  Unborn(env.child[t])' <=> Unborn(c)
<1>1. Unborn(env.child[t])' <=> Unborn(c)'
  BY DEF Unborn
<1>2. QED BY <1>1, UnbornSame

(* free_pset() of a set over the file takes it off the list of the file's.  *)
LEMMA StepFreePset ==
    ASSUME Sound, IInv, NEW t \in Thread, Leaves(t)
    PROVE  IInv'
<1>p. PICK s : s = th[t].d
  OBVIOUS
<1>r. PICK r : r = [th[t] EXCEPT !.pc = IF s \in Cow THEN "deref" ELSE "vas",
                                 !.d = IF s \in Cow THEN File ELSE None]
  OBVIOUS
<1>1. /\ Types /\ Placed(t) /\ SlotsOf(t) /\ th[t] \in ThreadState
      /\ th \in [Thread -> ThreadState] /\ env \in Envs /\ cowsets \subseteq Cow
      /\ Locked /\ Slots /\ Referred /\ Listed /\ \A u \in Thread : Placed(u)
  BY DEF IInv, Types, Slots
<1>2. /\ th[t].pc = "fpset" /\ panic = "none" /\ cowsets' = cowsets \ {s}
      /\ th' = [th EXCEPT ![t].pc = IF s \in Cow THEN "deref" ELSE "vas",
                          ![t].d = IF s \in Cow THEN File ELSE None]
      /\ env' = env /\ slot' = slot /\ lk' = lk /\ refs' = refs /\ atl' = atl
      /\ pt' = pt /\ tab' = tab /\ core' = core /\ free' = free /\ memw' = memw
      /\ data' = data /\ swap' = swap /\ io' = io /\ dm' = dm /\ panic' = panic
  BY <1>p DEF Leaves, LeftMaster, At, Run, maps, pool
<1>3. /\ Ends(t) /\ Has(t) = {} /\ Seeks(t) = {} /\ th[t].f = None /\ env.exit
      /\ s = Own(t) \/ (s = File /\ Own(t) \in Cow)
      /\ Own(t) \in Set /\ Own(t) # None /\ File \notin Cow /\ File # None
      /\ ~ Views(t) /\ ~ Detaches(t) /\ ~ Forks(t)
  BY <1>p, <1>1, <1>2, SetAssumption
     DEF Ends, Placed, Has, HasOwn, HasMaster, Asks, Allocs, Seeks, Views, Detaches, Forks, Set
<1>4. /\ r \in ThreadState /\ r.f = None /\ th' = [th EXCEPT ![t] = r] /\ th'[t] = r
      /\ r.pc = (IF s \in Cow THEN "deref" ELSE "vas")
      /\ r.d = (IF s \in Cow THEN File ELSE None)
      /\ r.ls = th[t].ls /\ r.to = th[t].to /\ r.why = th[t].why
  <2>1. File \in Set \cup {None} /\ None \in Set \cup {None}
    BY DEF Set
  <2>2. th[t] \in ThreadState
    BY <1>1
  <2>3. PICK x, d : x = (IF s \in Cow THEN "deref" ELSE "vas")
                    /\ d = (IF s \in Cow THEN File ELSE None)
    OBVIOUS
  <2>4. x \in {"deref", "vas"} /\ d \in Set \cup {None} /\ r = [th[t] EXCEPT !.pc = x, !.d = d]
    BY <1>r, <2>1, <2>3
  <2>5. /\ r \in ThreadState /\ r.f = th[t].f /\ r.pc = x /\ r.d = d
        /\ r.ls = th[t].ls /\ r.to = th[t].to /\ r.why = th[t].why
    BY ONLY <2>2, <2>4 DEF ThreadState
  <2>6. th' = [th EXCEPT ![t] = r]
    BY <1>r, <1>1, <1>2
  <2>7. QED BY <1>1, <1>3, <2>3, <2>5, <2>6
<1>5. Own(t)' = Own(t) /\ \A u \in Thread : Own(u)' = Own(u)
  BY <1>2 DEF Own
<1>6. /\ Has(t)' = {} /\ ~ Views(t)' /\ ~ Forks(t)' /\ ~ Ends(t)'
      /\ Detaches(t)' <=> s \in Cow
  <2>1. r.pc \in {"deref", "vas"}
    BY <1>4
  <2>2. Has(t)' = {} /\ ~ Forks(t)' /\ ~ Ends(t)' /\ ~ Unshares(t)'
    BY <1>4, <2>1 DEF Has, HasOwn, HasMaster, Asks, Allocs, Forks, Ends, Unshares
  <2>3. Detaches(t)' <=> s \in Cow
    BY <1>3, <1>4, <1>5 DEF Detaches
  <2>4. ~ Views(t)'
    BY <1>4, <2>1, <2>3 DEF Views
  <2>5. QED BY <2>2, <2>3, <2>4
<1>7. /\ Locked' /\ Counted' /\ Asleep' /\ lk' \in [Set -> SlotLock]
      /\ th' \in [Thread -> ThreadState] /\ th'[t] = r
      /\ \A u \in Thread \ {t} : Same(u) /\ Keeps(u) /\ Placed(u)'
  <2>1. th[t].pc \notin {"lkw", "memw"} /\ r.pc \notin {"lk", "lkw", "memw"}
    BY <1>2, <1>4
  <2>2. QED BY <1>2, <1>4, <1>6, <2>1, PlainStep
<1>8. Placed(t)'
  BY <1>3, <1>4, <1>5, <1>2, <1>6
     DEF Placed, Asks, Allocs, Ends, Forks, Unshares, HasMaster
<1>9. \A u \in Thread : th'[u].pc = "none" <=> th[u].pc = "none"
  BY <1>2, <1>4, <1>7 DEF Keeps
<1>10. \A c : Unborn(c)' <=> Unborn(c)
  BY <1>2, <1>9, UnbornSame
<1>11. ASSUME NEW u \in Thread, Own(u) = Own(t) PROVE u = t
  BY <1>1, <1>3, <1>11 DEF Sound, Own
<1>12. s \in Cow => s = Own(t) /\ s \in cowsets
  BY <1>p, <1>1, <1>3 DEF Listed
<1>13. Attached' = Attached
  <2>1. \A c \in Cow : (\E u \in Thread : Detaches(u)' /\ Own(u)' = c)
            <=> (\E u \in Thread : Detaches(u) /\ Own(u) = c) \/ c = s
    BY <1>3, <1>5, <1>6, <1>7, <1>12 DEF Keeps
  <2>2. QED BY <1>1, <1>2, <1>12, <2>1 DEF Attached
<1>14. \A x \in Set : Referrers(x)' = Referrers(x)
  <2>1. ASSUME NEW x \in Set PROVE \A y : y \in Referrers(x)' <=> y \in Referrers(x)
    BY <1>3, <1>5, <1>6, <1>7, <1>13, ReferrersAre DEF Keeps
  <2>2. QED BY <2>1
<1>15. Referred'
  <2>1. \A x \in Set : (IsFiniteSet(Referrers(x)) /\ refs[x] = Cardinality(Referrers(x)))'
    BY <1>1, <1>2, <1>14 DEF Referred
  <2>2. \A u \in Thread : (Ends(u) => refs[th[u].d] = 0)'
    BY <1>1, <1>2, <1>6, <1>7 DEF Referred, Keeps
  <2>3. Live'
    BY <1>1, <1>2 DEF Referred, Live
  <2>4. QED BY <2>1, <2>2, <2>3 DEF Referred
<1>16. Listed'
  <2>1. ASSUME NEW u \in Thread
        PROVE  (Own(u) \in Cow /\ (Views(u) \/ (Ends(u) /\ th[u].d = Own(u)))
                  => Own(u) \in cowsets)'
    <3>1. CASE u = t
      BY <1>6, <3>1
    <3>2. CASE u # t
      <4>1. HAVE Own(u)' \in Cow /\ (Views(u)' \/ (Ends(u)' /\ th'[u].d = Own(u)'))
      <4>2. Own(u) \in Cow /\ (Views(u) \/ (Ends(u) /\ th[u].d = Own(u)))
        BY <1>5, <1>7, <3>2, <4>1 DEF Keeps
      <4>3. Own(u) \in cowsets
        BY <1>1, <4>2 DEF Listed
      <4>4. Own(u) # s
        BY <1>11, <1>12, <3>2, <4>2
      <4>5. QED BY <1>2, <1>5, <4>3, <4>4
    <3>3. QED BY <3>1, <3>2
  <2>2. ASSUME NEW u \in Thread PROVE (Detaches(u) => Own(u) \notin cowsets)'
    <3>1. CASE u = t
      BY <1>2, <1>5, <1>6, <1>12, <3>1
    <3>2. CASE u # t
      BY <1>1, <1>2, <1>5, <1>7, <3>2 DEF Listed, Keeps
    <3>3. QED BY <3>1, <3>2
  <2>3. ASSUME NEW u \in Thread
        PROVE  /\ Forks(u)' => /\ Unborn(env.child[u])'
                               /\ env.child[u] \in Cow => env.child[u] \in cowsets'
               /\ env.child[u] # None /\ Unborn(env.child[u])' /\ ~ Forks(u)' =>
                      env.child[u] \notin cowsets'
    <3>1. PICK c : c = env.child[u]
      OBVIOUS
    <3>2. Unborn(env.child[u])' <=> Unborn(c)
      BY <1>2, <1>9, <3>1, UnbornChild
    <3>3. Forks(u)' <=> Forks(u)
      BY <1>3, <1>6, <1>7 DEF Keeps
    <3>4. Forks(u) => Unborn(c) /\ (c \in Cow => c \in cowsets)
      BY <1>1, <3>1 DEF Listed
    <3>5. Unborn(c) /\ c \in Cow => c # s
      BY <1>2, <1>12 DEF Unborn
    <3>6. c # None /\ Unborn(c) /\ ~ Forks(u) => c \notin cowsets
      BY <1>1, <3>1 DEF Listed
    <3>7. QED BY <1>2, <3>1, <3>2, <3>3, <3>4, <3>5, <3>6
  <2>4. QED BY <1>2, <2>1, <2>2, <2>3 DEF Listed
<1>17. SlotsOf(t)'
  <2>1. PICK c : c = env.child[t]
    OBVIOUS
  <2>2. c # None /\ Unborn(c) => ~ slot[c].v
    BY <1>1, <1>2, <2>1 DEF SlotsOf
  <2>3. Unborn(env.child[t])' <=> Unborn(c)
    BY <1>2, <1>9, <2>1, UnbornChild
  <2>4. (env.child[t] # None /\ Unborn(env.child[t]) /\ th[t].pc # "forked" =>
             ~ slot[env.child[t]].v)'
    BY <1>2, <2>1, <2>2, <2>3
  <2>5. QED BY <1>4, <2>4 DEF SlotsOf, Asks, Allocs, Unshares
<1>18. Slots' /\ Framed' /\ Pointed'
  <2>1. PICK A : A = {t}
    OBVIOUS
  <2>2. \A u \in Thread : th'[u].f = th[u].f
    BY <1>3, <1>4, <1>7 DEF Same
  <2>3. /\ \A u \in Thread \ A : Same(u)
        /\ \A u \in Thread \cap A : SlotsOf(u)' /\ th'[u].pc # "got"
        /\ \A c \in Set : Unborn(c)' => Unborn(c)
    BY <1>4, <1>7, <1>10, <1>17, <2>1
  <2>4. QED BY <1>2, <2>2, <2>3, StepRefs
<1>19. Types'
  BY <1>1, <1>2, <1>7 DEF Types
<1>20. QED BY <1>7, <1>8, <1>15, <1>16, <1>18, <1>19 DEF IInv

(* deref_pset(): the last reference goes only when no lock is counted, so   *)
(* not under the page daemon or the output of the page.                     *)
LEMMA StepDeref ==
    ASSUME Sound, IInv, NEW t \in Thread, Deref(t)
    PROVE  IInv'
<1>p. PICK s : s = th[t].d
  OBVIOUS
<1>r. PICK r : r = [th[t] EXCEPT !.pc = IF refs[s] = 1 THEN "free" ELSE "vas"]
  OBVIOUS
<1>1. /\ Types /\ Placed(t) /\ SlotsOf(t) /\ th[t] \in ThreadState
      /\ th \in [Thread -> ThreadState] /\ env \in Envs /\ cowsets \subseteq Cow
      /\ Locked /\ Counted /\ Slots /\ Referred /\ Listed /\ \A u \in Thread : Placed(u)
      /\ refs \in [Set -> Nat] /\ lk \in [Set -> SlotLock] /\ io \subseteq Set
  BY DEF IInv, Types, Slots
<1>2. /\ th[t].pc = "deref" /\ panic = "none" /\ refs' = [refs EXCEPT ![s] = refs[s] - 1]
      /\ panic' = (CASE refs[s] = 0 -> "deref_pset: 0 ref"
                     [] refs[s] = 1 /\ s = File /\ slot[s].m -> "fod_deinit: dirty"
                     [] refs[s] = 1 /\ lk[s].n > 0 -> "free_pset: locks > 0"
                     [] refs[s] = 1 /\ slot[s].refs > 0 -> "free_pset: still refs"
                     [] OTHER -> "none")
      /\ th' = [th EXCEPT ![t].pc = IF refs[s] = 1 THEN "free" ELSE "vas"]
      /\ env' = env /\ slot' = slot /\ lk' = lk /\ cowsets' = cowsets /\ atl' = atl
      /\ pt' = pt /\ tab' = tab /\ core' = core /\ free' = free /\ memw' = memw
      /\ data' = data /\ swap' = swap /\ io' = io /\ dm' = dm
  BY <1>p DEF Deref, At, Run, Go, maps, pool
<1>3. /\ Has(t) = {} /\ Seeks(t) = {} /\ th[t].f = None /\ env.exit
      /\ s = Own(t) \/ (s = File /\ Own(t) \in Cow)
      /\ Own(t) \in Set /\ Own(t) # None /\ File \notin Cow /\ File # None /\ s \in Set
      /\ ~ Ends(t) /\ ~ Forks(t)
      /\ Detaches(t) <=> s # Own(t)
      /\ Views(t) <=> s = Own(t)
  <2>1. /\ Own(t) \in Set /\ Own(t) # None /\ File \notin Cow /\ File # None
        /\ s = Own(t) \/ (s = File /\ Own(t) \in Cow)
        /\ th[t].f = None /\ env.exit /\ File \in Set
    BY <1>p, <1>1, <1>2, SetAssumption DEF Placed, Set
  <2>2. Has(t) = {} /\ Seeks(t) = {} /\ ~ Ends(t) /\ ~ Forks(t)
    BY <1>2 DEF Ends, Has, HasOwn, HasMaster, Asks, Allocs, Seeks, Forks, Unshares
  <2>3. Detaches(t) <=> s # Own(t)
    BY <1>p, <1>2, <2>1 DEF Detaches
  <2>4. Views(t) <=> s = Own(t)
    BY <1>2, <2>2, <2>3 DEF Views
  <2>5. QED BY <2>1, <2>2, <2>3, <2>4
<1>4. /\ r \in ThreadState /\ r.f = None /\ th' = [th EXCEPT ![t] = r] /\ th'[t] = r
      /\ r.pc = (IF refs[s] = 1 THEN "free" ELSE "vas") /\ r.d = s
      /\ r.ls = th[t].ls /\ r.to = th[t].to /\ r.why = th[t].why
  <2>1. PICK x : x = IF refs[s] = 1 THEN "free" ELSE "vas"
    OBVIOUS
  <2>2. x \in {"free", "vas"} /\ r = [th[t] EXCEPT !.pc = x] /\ th[t] \in ThreadState
    BY <1>r, <1>1, <2>1
  <2>3. /\ r \in ThreadState /\ r.f = th[t].f /\ r.pc = x /\ r.d = th[t].d
        /\ r.ls = th[t].ls /\ r.to = th[t].to /\ r.why = th[t].why
    BY ONLY <2>2 DEF ThreadState
  <2>4. th' = [th EXCEPT ![t] = r]
    BY <1>r, <1>1, <1>2
  <2>5. QED BY <1>p, <1>1, <1>3, <2>1, <2>3, <2>4
<1>5. \A u \in Thread : Own(u)' = Own(u)
  BY <1>2 DEF Own
<1>6. /\ Has(t)' = {} /\ ~ Views(t)' /\ ~ Forks(t)' /\ ~ Detaches(t)'
      /\ Ends(t)' <=> refs[s] = 1
  <2>1. r.pc \in {"free", "vas"} /\ (r.pc = "free" <=> refs[s] = 1)
    BY <1>4
  <2>2. /\ Has(t)' = {} /\ ~ Forks(t)' /\ ~ Detaches(t)'
        /\ Ends(t)' <=> refs[s] = 1
    BY <1>4, <2>1 DEF Has, HasOwn, HasMaster, Asks, Allocs, Forks, Ends, Unshares, Detaches
  <2>3. ~ Views(t)'
    BY <1>4, <2>1, <2>2 DEF Views
  <2>4. QED BY <2>2, <2>3
<1>7. /\ Locked' /\ Counted' /\ Asleep' /\ lk' \in [Set -> SlotLock]
      /\ th' \in [Thread -> ThreadState] /\ th'[t] = r
      /\ \A u \in Thread \ {t} : Same(u) /\ Keeps(u) /\ Placed(u)'
  <2>1. th[t].pc \notin {"lkw", "memw"} /\ r.pc \notin {"lk", "lkw", "memw"}
    BY <1>2, <1>4
  <2>2. QED BY <1>2, <1>4, <1>6, <2>1, PlainStep
<1>8. Placed(t)'
  BY <1>3, <1>4, <1>5, <1>2, <1>6
     DEF Placed, Asks, Allocs, Ends, Forks, Unshares, HasMaster
<1>9. \A u \in Thread : th'[u].pc = "none" <=> th[u].pc = "none"
  BY <1>2, <1>4, <1>7 DEF Keeps
<1>10. \A c : Unborn(c)' <=> Unborn(c)
  BY <1>2, <1>9, UnbornSame
<1>11. ASSUME NEW u \in Thread, Own(u) = Own(t) PROVE u = t
  BY <1>1, <1>3, <1>11 DEF Sound, Own
<1>12. PICK x : x = IF s = Own(t) THEN <<"view", s>> ELSE <<"cow", Own(t)>>
  OBVIOUS
<1>13. x \in Referrers(s)
  <2>1. CASE s = Own(t)
    BY <1>3, <1>12, <2>1, ReferrersAre
  <2>2. CASE s # Own(t)
    <3>1. Own(t) \in Attached /\ s = File
      BY <1>3, <2>2 DEF Attached
    <3>2. QED BY <1>12, <2>2, <3>1, ReferrersAre
  <2>3. QED BY <2>1, <2>2
<1>14. refs[s] > 0 /\ refs[s] \in Nat
  BY <1>1, <1>3, <1>13, InUse
<1>15. Attached' = IF s = Own(t) THEN Attached ELSE Attached \ {Own(t)}
  <2>1. \A c \in Cow : (\E u \in Thread : Detaches(u)' /\ Own(u)' = c)
            <=> (\E u \in Thread : Detaches(u) /\ Own(u) = c) /\ (s = Own(t) \/ c # Own(t))
    BY <1>3, <1>5, <1>6, <1>7, <1>11 DEF Keeps
  <2>2. s # Own(t) => Own(t) \notin cowsets
    BY <1>1, <1>3 DEF Listed
  <2>3. QED BY <1>1, <1>2, <2>1, <2>2 DEF Attached
<1>16. ASSUME NEW z \in Set
       PROVE  Referrers(z)' = IF z = s THEN Referrers(z) \ {x} ELSE Referrers(z)
  <2>1. /\ \A y : y \in Referrers(z) <=>
               \/ y = <<"view", z>> /\ \E u \in Thread : Views(u) /\ Own(u) = z
               \/ \E u \in Thread : y = <<"fork", u>> /\ Forks(u) /\ Own(u) = z
               \/ \E c \in Attached : y = <<"cow", c>> /\ z = File
        /\ \A y : y \in Referrers(z)' <=>
               \/ y = <<"view", z>> /\ \E u \in Thread : Views(u)' /\ Own(u)' = z
               \/ \E u \in Thread : y = <<"fork", u>> /\ Forks(u)' /\ Own(u)' = z
               \/ \E c \in Attached' : y = <<"cow", c>> /\ z = File
    BY ReferrersAre
  <2>2. \A u \in Thread : Forks(u)' <=> Forks(u)
    BY <1>3, <1>6, <1>7 DEF Keeps
  <2>3. (\E u \in Thread : Views(u)' /\ Own(u)' = z)
           <=> (\E u \in Thread : Views(u) /\ Own(u) = z) /\ ~ (s = Own(t) /\ z = s)
    BY <1>3, <1>5, <1>6, <1>7, <1>11 DEF Keeps
  <2>4. CASE s = Own(t)
    <3>1. Attached' = Attached /\ x = <<"view", s>>
      BY <1>12, <1>15, <2>4
    <3>2. \A y : y \in Referrers(z)' <=> y \in Referrers(z) /\ ~ (z = s /\ y = x)
      BY <1>5, <2>1, <2>2, <2>3, <2>4, <3>1
    <3>3. QED BY <3>2
  <2>5. CASE s # Own(t)
    <3>1. Attached' = Attached \ {Own(t)} /\ x = <<"cow", Own(t)>> /\ s = File
      BY <1>3, <1>12, <1>15, <2>5
    <3>2. \A y : y \in Referrers(z)' <=> y \in Referrers(z) /\ ~ (z = s /\ y = x)
      BY <1>5, <2>1, <2>2, <2>3, <2>5, <3>1
    <3>3. QED BY <3>2
  <2>6. QED BY <2>4, <2>5
<1>17. /\ refs' \in [Set -> Nat] /\ refs'[s] = refs[s] - 1
       /\ \A z \in Set \ {s} : refs'[z] = refs[z]
  <2>1. PICK i : i = refs[s] - 1
    OBVIOUS
  <2>2. i \in Nat /\ refs' = [refs EXCEPT ![s] = i]
    <3>1. i \in Nat
      BY ONLY <1>14, <2>1
    <3>2. refs' = [refs EXCEPT ![s] = refs[s] - 1]
      BY <1>2
    <3>3. QED BY ONLY <2>1, <3>1, <3>2
  <2>3. QED BY <1>1, <1>3, <2>1, <2>2
<1>18. Referred'
  <2>1. ASSUME NEW z \in Set
        PROVE  IsFiniteSet(Referrers(z)') /\ refs'[z] = Cardinality(Referrers(z)')
    <3>1. CASE z = s
      <4>1. Referrers(z)' = Referrers(z) \ {x} /\ x \in Referrers(z) /\ refs'[z] = refs[z] - 1
        BY <1>13, <1>16, <1>17, <3>1
      <4>2. QED BY <1>1, <4>1, RefDropped
    <3>2. CASE z # s
      BY <1>1, <1>16, <1>17, <3>2 DEF Referred
    <3>3. QED BY <3>1, <3>2
  <2>2. ASSUME NEW u \in Thread, Ends(u)' PROVE refs'[th'[u].d] = 0
    <3>1. CASE u = t
      BY <1>4, <1>6, <1>17, <2>2, <3>1
    <3>2. CASE u # t
      <4>1. refs[th[u].d] = 0 /\ th'[u].d = th[u].d
        BY <1>1, <1>7, <2>2, <3>2 DEF Referred, Keeps
      <4>2. th[u].d # s
        BY <1>14, <4>1
      <4>3. Ends(u)
        BY <1>7, <2>2, <3>2 DEF Keeps
      <4>4. th[u].d \in Set
        BY <1>1, <4>3 DEF Ends, Unshares, Placed, Asks, Set
      <4>5. QED BY <1>17, <4>1, <4>2, <4>4
    <3>3. QED BY <3>1, <3>2
  <2>3. Live'
    <3>1. ASSUME panic' = "none", refs[s] = 1 PROVE ~ Daemon1(s) /\ s \notin io
      <4>1. ~ (lk[s].n > 0)
        BY <1>2, <3>1
      <4>2. /\ IsFiniteSet(LockUsers(s))
            /\ lk[s].n >= Cardinality(LockUsers(s)) + (IF Daemon1(s) THEN 1 ELSE 0)
                                                    + (IF s \in io THEN 1 ELSE 0)
        BY <1>1, <1>3 DEF Counted
      <4>3. Cardinality(LockUsers(s)) \in Nat
        BY <4>2, FS_CardinalityType
      <4>4. lk[s].n \in Nat
        BY <1>1, <1>3 DEF SlotLock
      <4>5. QED BY <4>1, <4>2, <4>3, <4>4
    <3>2. ASSUME panic' = "none", NEW z \in Set, Daemon1(z) \/ z \in io PROVE refs'[z] > 0
      <4>1. refs[z] > 0 /\ refs[z] \in Nat
        BY <1>1, <1>2, <3>2 DEF Referred, Live, Daemon1
      <4>2. CASE z = s
        BY <1>17, <3>1, <3>2, <4>1, <4>2
      <4>3. CASE z # s
        BY <1>17, <4>1, <4>3
      <4>4. QED BY <4>2, <4>3
    <3>3. dm.pc # "idle" => dm.s \in Set /\ Daemon1(dm.s)
      BY <1>1 DEF Locked, Daemon1
    <3>4. panic' = "none" => (dm'.pc # "idle" => refs'[dm'.s] > 0)
      BY <1>2, <3>2, <3>3
    <3>5. panic' = "none" => \A z \in io' : refs'[z] > 0
      BY <1>1, <1>2, <3>2
    <3>6. QED BY <3>4, <3>5 DEF Live
  <2>4. QED BY <2>1, <2>2, <2>3 DEF Referred
<1>19. Listed'
  <2>1. ASSUME NEW u \in Thread
        PROVE  (Own(u) \in Cow /\ (Views(u) \/ (Ends(u) /\ th[u].d = Own(u)))
                  => Own(u) \in cowsets)'
    <3>1. CASE u = t
      <4>1. HAVE Own(u)' \in Cow /\ (Views(u)' \/ (Ends(u)' /\ th'[u].d = Own(u)'))
      <4>2. Own(t) \in Cow /\ Views(t)
        BY <1>3, <1>4, <1>5, <1>6, <3>1, <4>1
      <4>3. QED BY <1>1, <1>2, <1>5, <3>1, <4>2 DEF Listed
    <3>2. CASE u # t
      <4>1. HAVE Own(u)' \in Cow /\ (Views(u)' \/ (Ends(u)' /\ th'[u].d = Own(u)'))
      <4>2. Own(u) \in Cow /\ (Views(u) \/ (Ends(u) /\ th[u].d = Own(u)))
        BY <1>5, <1>7, <3>2, <4>1 DEF Keeps
      <4>3. Own(u) \in cowsets
        BY <1>1, <4>2 DEF Listed
      <4>4. QED BY <1>2, <1>5, <4>3
    <3>3. QED BY <3>1, <3>2
  <2>2. ASSUME NEW u \in Thread PROVE (Detaches(u) => Own(u) \notin cowsets)'
    BY <1>1, <1>2, <1>5, <1>6, <1>7 DEF Listed, Keeps
  <2>3. ASSUME NEW u \in Thread
        PROVE  /\ Forks(u)' => /\ Unborn(env.child[u])'
                               /\ env.child[u] \in Cow => env.child[u] \in cowsets'
               /\ env.child[u] # None /\ Unborn(env.child[u])' /\ ~ Forks(u)' =>
                      env.child[u] \notin cowsets'
    <3>1. PICK c : c = env.child[u]
      OBVIOUS
    <3>2. Unborn(env.child[u])' <=> Unborn(c)
      BY <1>2, <1>9, <3>1, UnbornChild
    <3>3. Forks(u)' <=> Forks(u)
      BY <1>3, <1>6, <1>7 DEF Keeps
    <3>4. Forks(u) => Unborn(c) /\ (c \in Cow => c \in cowsets)
      BY <1>1, <3>1 DEF Listed
    <3>5. c # None /\ Unborn(c) /\ ~ Forks(u) => c \notin cowsets
      BY <1>1, <3>1 DEF Listed
    <3>6. QED BY <1>2, <3>1, <3>2, <3>3, <3>4, <3>5
  <2>4. QED BY <1>2, <2>1, <2>2, <2>3 DEF Listed
<1>20. SlotsOf(t)'
  <2>1. PICK c : c = env.child[t]
    OBVIOUS
  <2>2. c # None /\ Unborn(c) => ~ slot[c].v
    BY <1>1, <1>2, <2>1 DEF SlotsOf
  <2>3. Unborn(env.child[t])' <=> Unborn(c)
    BY <1>2, <1>9, <2>1, UnbornChild
  <2>4. (env.child[t] # None /\ Unborn(env.child[t]) /\ th[t].pc # "forked" =>
             ~ slot[env.child[t]].v)'
    BY <1>2, <2>1, <2>2, <2>3
  <2>5. QED BY <1>4, <2>4 DEF SlotsOf, Asks, Allocs, Unshares
<1>21. Slots' /\ Framed' /\ Pointed'
  <2>1. PICK A : A = {t}
    OBVIOUS
  <2>2. \A u \in Thread : th'[u].f = th[u].f
    BY <1>3, <1>4, <1>7 DEF Same
  <2>3. /\ \A u \in Thread \ A : Same(u)
        /\ \A u \in Thread \cap A : SlotsOf(u)' /\ th'[u].pc # "got"
        /\ \A c \in Set : Unborn(c)' => Unborn(c)
    BY <1>4, <1>7, <1>10, <1>20, <2>1
  <2>4. QED BY <1>2, <2>2, <2>3, StepRefs
<1>22. Types'
  BY <1>1, <1>2, <1>7, <1>17 DEF Types
<1>23. QED BY <1>7, <1>8, <1>18, <1>19, <1>21, <1>22 DEF IInv

(* copy_pset() at the start of fork(): a reference to the set to be copied, *)
(* and one to the file's set for the copy.                                  *)
LEMMA StepFork ==
    ASSUME Sound, IInv, NEW t \in Thread, Fork(t)
    PROVE  IInv'
<1>p. PICK s, c : s = Own(t) /\ c = env.child[t]
  OBVIOUS
<1>r. PICK r : r = [th[t] EXCEPT !.pc = "dup"]
  OBVIOUS
<1>1. /\ Types /\ Placed(t) /\ SlotsOf(t) /\ th[t] \in ThreadState
      /\ th \in [Thread -> ThreadState] /\ env \in Envs /\ cowsets \subseteq Cow
      /\ Locked /\ Slots /\ Referred /\ Listed /\ \A u \in Thread : Placed(u)
      /\ refs \in [Set -> Nat]
  BY DEF IInv, Types, Slots
<1>2. /\ th[t].pc = "user" /\ c # None /\ refs[c] = 0 /\ s # File /\ panic' = panic
      /\ \A u \in Thread : env.map[u] = c => th[u].pc = "none"
      /\ refs' = [refs EXCEPT ![s] = @ + 1, ![File] = IF c \in Cow THEN @ + 1 ELSE @]
      /\ cowsets' = IF c \in Cow THEN cowsets \cup {c} ELSE cowsets
      /\ th' = [th EXCEPT ![t].pc = "dup"] /\ panic = "none"
      /\ env' = env /\ slot' = slot /\ lk' = lk /\ atl' = atl
      /\ pt' = pt /\ tab' = tab /\ core' = core /\ free' = free /\ memw' = memw
      /\ data' = data /\ swap' = swap /\ io' = io /\ dm' = dm
  BY <1>p DEF Fork, At, Run, Go, maps, pool
<1>3. /\ Has(t) = {} /\ Seeks(t) = {} /\ th[t].f = None
      /\ s \in Set /\ s # None /\ File \notin Cow /\ File # None /\ File \in Set
      /\ c \in Set /\ c # File /\ (c \in Cow <=> s \in Cow) /\ Unborn(c)
      /\ ~ Ends(t) /\ ~ Forks(t) /\ ~ Detaches(t) /\ Views(t) /\ s = Own(t)
  <2>1. /\ s \in Set /\ s # None /\ File \notin Cow /\ File # None /\ File \in Set
        /\ th[t].f = None
    BY <1>p, <1>1, <1>2, SetAssumption DEF Placed, Set
  <2>2. /\ Has(t) = {} /\ Seeks(t) = {} /\ ~ Ends(t) /\ ~ Forks(t) /\ ~ Detaches(t)
    BY <1>2 DEF Ends, Has, HasOwn, HasMaster, Asks, Allocs, Seeks, Forks, Unshares, Detaches
  <2>3. Views(t)
    BY <1>2, <2>2 DEF Views
  <2>4. c \in Set /\ c # File /\ (c \in Cow <=> s \in Cow)
    BY <1>p, <1>1, <1>2, EnvIs DEF Sound, Own
  <2>5. Unborn(c)
    BY <1>2 DEF Unborn, Own
  <2>6. QED BY <1>p, <2>1, <2>2, <2>3, <2>4, <2>5
<1>4. /\ r \in ThreadState /\ r.f = None /\ th' = [th EXCEPT ![t] = r] /\ th'[t] = r
      /\ r.pc = "dup" /\ r.d = th[t].d
      /\ r.ls = th[t].ls /\ r.to = th[t].to /\ r.why = th[t].why
  BY <1>r, <1>1, <1>2, <1>3 DEF ThreadState
<1>5. \A u \in Thread : Own(u)' = Own(u)
  BY <1>2 DEF Own
<1>6. Has(t)' = {} /\ Views(t)' /\ Forks(t)' /\ ~ Detaches(t)' /\ ~ Ends(t)'
  <2>1. Has(t)' = {} /\ Forks(t)' /\ ~ Detaches(t)' /\ ~ Ends(t)'
    BY <1>4 DEF Has, HasOwn, HasMaster, Asks, Allocs, Forks, Ends, Unshares, Detaches
  <2>2. QED BY <1>4, <2>1 DEF Views
<1>7. /\ Locked' /\ Counted' /\ Asleep' /\ lk' \in [Set -> SlotLock]
      /\ th' \in [Thread -> ThreadState] /\ th'[t] = r
      /\ \A u \in Thread \ {t} : Same(u) /\ Keeps(u) /\ Placed(u)'
  <2>1. th[t].pc \notin {"lkw", "memw"} /\ r.pc \notin {"lk", "lkw", "memw"}
    BY <1>2, <1>4
  <2>2. QED BY <1>2, <1>3, <1>4, <1>6, <2>1, PlainStep
<1>8. Placed(t)'
  <2>1. /\ Own(t)' = s /\ env'.child[t] # None /\ s \in Set
    BY <1>p, <1>2, <1>3, <1>5
  <2>2. QED BY <1>2, <1>3, <1>4, <1>6, <2>1
     DEF Placed, Asks, Allocs, Ends, Unshares, HasMaster
<1>9. \A u \in Thread : th'[u].pc = "none" <=> th[u].pc = "none"
  BY <1>2, <1>4, <1>7 DEF Keeps
<1>10. \A x : Unborn(x)' <=> Unborn(x)
  BY <1>2, <1>9, UnbornSame
<1>11. \A u \in Thread : Own(u) = c => /\ ~ Views(u) /\ ~ Forks(u) /\ ~ Detaches(u)
                                       /\ ~ Ends(u)
  <2>1. ASSUME NEW u \in Thread, Own(u) = c
        PROVE  ~ Views(u) /\ ~ Forks(u) /\ ~ Detaches(u) /\ ~ Ends(u)
    <3>1. th[u].pc = "none"
      BY <1>3, <2>1 DEF Unborn
    <3>2. QED BY <3>1 DEF Views, Forks, Detaches, Ends, Unshares, Asks, Allocs
  <2>2. QED BY <2>1
<1>12. c \notin Attached
  BY <1>p, <1>1, <1>2, <1>3, <1>11 DEF Attached, Listed
<1>13. Attached' = IF c \in Cow THEN Attached \cup {c} ELSE Attached
  <2>1. \A x \in Cow : (\E u \in Thread : Detaches(u)' /\ Own(u)' = x)
            <=> (\E u \in Thread : Detaches(u) /\ Own(u) = x)
    BY <1>3, <1>5, <1>6, <1>7 DEF Keeps
  <2>2. QED BY <1>2, <2>1 DEF Attached
<1>14. /\ refs' \in [Set -> Nat] /\ refs'[s] = refs[s] + 1
       /\ refs'[File] = IF c \in Cow THEN refs[File] + 1 ELSE refs[File]
       /\ \A x \in Set \ {s, File} : refs'[x] = refs[x]
  BY <1>1, <1>2, <1>3
<1>15. ASSUME NEW z \in Set
       PROVE  Referrers(z)' = IF z = s THEN Referrers(z) \cup {<<"fork", t>>}
                              ELSE IF z = File /\ c \in Cow
                              THEN Referrers(z) \cup {<<"cow", c>>}
                              ELSE Referrers(z)
  <2>1. /\ \A y : y \in Referrers(z) <=>
               \/ y = <<"view", z>> /\ \E u \in Thread : Views(u) /\ Own(u) = z
               \/ \E u \in Thread : y = <<"fork", u>> /\ Forks(u) /\ Own(u) = z
               \/ \E x \in Attached : y = <<"cow", x>> /\ z = File
        /\ \A y : y \in Referrers(z)' <=>
               \/ y = <<"view", z>> /\ \E u \in Thread : Views(u)' /\ Own(u)' = z
               \/ \E u \in Thread : y = <<"fork", u>> /\ Forks(u)' /\ Own(u)' = z
               \/ \E x \in Attached' : y = <<"cow", x>> /\ z = File
    BY ReferrersAre
  <2>2. \A u \in Thread : Forks(u)' <=> Forks(u) \/ u = t
    BY <1>3, <1>6, <1>7 DEF Keeps
  <2>3. \A u \in Thread : Views(u)' <=> Views(u)
    BY <1>3, <1>6, <1>7 DEF Keeps
  <2>4. \A y : (\E u \in Thread : y = <<"fork", u>> /\ Forks(u)' /\ Own(u)' = z)
           <=> \/ \E u \in Thread : y = <<"fork", u>> /\ Forks(u) /\ Own(u) = z
               \/ y = <<"fork", t>> /\ z = s
    BY <1>3, <1>5, <2>2
  <2>5. \A y : (\E x \in Attached' : y = <<"cow", x>> /\ z = File)
           <=> \/ \E x \in Attached : y = <<"cow", x>> /\ z = File
               \/ y = <<"cow", c>> /\ z = File /\ c \in Cow
    BY <1>13
  <2>6. \A y : y \in Referrers(z)' <=> \/ y \in Referrers(z)
                                       \/ y = <<"fork", t>> /\ z = s
                                       \/ y = <<"cow", c>> /\ z = File /\ c \in Cow
    BY <1>5, <2>1, <2>3, <2>4, <2>5
  <2>7. CASE z = s
    BY <1>2, <2>6, <2>7
  <2>8. CASE z # s
    BY <2>6, <2>8
  <2>9. QED BY <2>7, <2>8
<1>16. <<"fork", t>> \notin Referrers(s) /\ <<"cow", c>> \notin Referrers(File)
  <2>1. <<"fork", t>> \notin Referrers(s)
    BY <1>3, ReferrersAre
  <2>2. <<"cow", c>> \notin Referrers(File)
    BY <1>12, ReferrersAre
  <2>3. QED BY <2>1, <2>2
<1>17. refs[s] > 0 /\ (c \in Cow => refs[File] > 0)
  <2>1. <<"view", s>> \in Referrers(s)
    BY <1>3, ReferrersAre
  <2>2. refs[s] > 0
    BY <1>1, <1>3, <2>1, InUse
  <2>3. ASSUME c \in Cow PROVE refs[File] > 0
    <3>1. s \in cowsets
      BY <1>1, <1>3, <2>3 DEF Listed
    <3>2. <<"cow", s>> \in Referrers(File)
      BY <3>1, ReferrersAre DEF Attached
    <3>3. QED BY <1>1, <1>3, <3>2, InUse
  <2>4. QED BY <2>2, <2>3
<1>18. Referred'
  <2>1. ASSUME NEW z \in Set
        PROVE  IsFiniteSet(Referrers(z)') /\ refs'[z] = Cardinality(Referrers(z)')
    <3>1. CASE z = s
      BY <1>1, <1>14, <1>15, <1>16, <3>1, RefAdded
    <3>2. CASE z = File /\ c \in Cow
      BY <1>1, <1>2, <1>14, <1>15, <1>16, <3>2, RefAdded
    <3>3. CASE z # s /\ ~ (z = File /\ c \in Cow)
      <4>1. Referrers(z)' = Referrers(z) /\ refs'[z] = refs[z]
        BY <1>14, <1>15, <3>3
      <4>2. QED BY <1>1, <4>1 DEF Referred
    <3>4. QED BY <3>1, <3>2, <3>3
  <2>2. ASSUME NEW u \in Thread, Ends(u)' PROVE refs'[th'[u].d] = 0
    <3>1. u # t
      BY <1>6, <2>2
    <3>2. Ends(u) /\ refs[th[u].d] = 0 /\ th'[u].d = th[u].d
      BY <1>1, <1>7, <2>2, <3>1 DEF Referred, Keeps
    <3>3. th[u].d \in Set
      BY <1>1, <3>2 DEF Ends, Unshares, Placed, Asks, Set
    <3>4. th[u].d # s /\ (th[u].d = File => c \notin Cow)
      BY <1>17, <3>2
    <3>5. QED BY <1>14, <3>2, <3>3, <3>4
  <2>3. Live'
    <3>1. \A z \in Set : refs[z] > 0 => refs'[z] > 0
      BY <1>1, <1>14
    <3>2. dm.pc # "idle" => dm.s \in Set
      BY <1>1 DEF Locked
    <3>3. io \subseteq Set
      BY <1>1 DEF Types
    <3>4. QED BY <1>1, <1>2, <3>1, <3>2, <3>3 DEF Referred, Live
  <2>4. QED BY <2>1, <2>2, <2>3 DEF Referred
<1>19. Listed'
  <2>1. ASSUME NEW u \in Thread
        PROVE  (Own(u) \in Cow /\ (Views(u) \/ (Ends(u) /\ th[u].d = Own(u)))
                  => Own(u) \in cowsets)'
    <3>1. HAVE Own(u)' \in Cow /\ (Views(u)' \/ (Ends(u)' /\ th'[u].d = Own(u)'))
    <3>2. Own(u) \in Cow /\ (Views(u) \/ (Ends(u) /\ th[u].d = Own(u)))
      BY <1>3, <1>5, <1>6, <1>7, <3>1 DEF Keeps
    <3>3. Own(u) \in cowsets
      BY <1>1, <3>2 DEF Listed
    <3>4. QED BY <1>2, <1>5, <3>3
  <2>2. ASSUME NEW u \in Thread PROVE (Detaches(u) => Own(u) \notin cowsets)'
    <3>1. HAVE Detaches(u)'
    <3>2. Detaches(u)
      BY <1>6, <1>7, <3>1 DEF Keeps
    <3>3. Own(u) \notin cowsets /\ Own(u) # c
      BY <1>1, <1>11, <3>2 DEF Listed
    <3>4. QED BY <1>2, <1>5, <3>3
  <2>3. ASSUME NEW u \in Thread
        PROVE  /\ Forks(u)' => /\ Unborn(env.child[u])'
                               /\ env.child[u] \in Cow => env.child[u] \in cowsets'
               /\ env.child[u] # None /\ Unborn(env.child[u])' /\ ~ Forks(u)' =>
                      env.child[u] \notin cowsets'
    <3>1. PICK k : k = env.child[u]
      OBVIOUS
    <3>2. Unborn(env.child[u])' <=> Unborn(k)
      BY <1>2, <1>9, <3>1, UnbornChild
    <3>3. CASE u = t
      BY <1>p, <1>2, <1>3, <1>6, <3>1, <3>2, <3>3
    <3>4. CASE u # t
      <4>1. Forks(u)' <=> Forks(u)
        BY <1>7, <3>4 DEF Keeps
      <4>2. Forks(u) => Unborn(k) /\ (k \in Cow => k \in cowsets)
        BY <1>1, <3>1 DEF Listed
      <4>3. k # None /\ Unborn(k) /\ ~ Forks(u) => k \notin cowsets
        BY <1>1, <3>1 DEF Listed
      <4>4. k # c
        BY <1>p, <1>1, <1>2, <3>1, <3>4 DEF Sound
      <4>5. QED BY <1>2, <3>1, <3>2, <4>1, <4>2, <4>3, <4>4
    <3>5. QED BY <3>3, <3>4
  <2>4. QED BY <1>2, <2>1, <2>2, <2>3 DEF Listed
<1>20. SlotsOf(t)'
  <2>1. ~ slot[c].v
    BY <1>p, <1>1, <1>2, <1>3 DEF SlotsOf
  <2>2. (env.child[t] # None /\ Unborn(env.child[t]) /\ th[t].pc # "forked" =>
             ~ slot[env.child[t]].v)'
    BY <1>p, <1>2, <2>1
  <2>3. QED BY <1>4, <2>2 DEF SlotsOf, Asks, Allocs, Unshares
<1>21. Slots' /\ Framed' /\ Pointed'
  <2>1. PICK A : A = {t}
    OBVIOUS
  <2>2. \A u \in Thread : th'[u].f = th[u].f
    BY <1>3, <1>4, <1>7 DEF Same
  <2>3. /\ \A u \in Thread \ A : Same(u)
        /\ \A u \in Thread \cap A : SlotsOf(u)' /\ th'[u].pc # "got"
        /\ \A x \in Set : Unborn(x)' => Unborn(x)
    BY <1>4, <1>7, <1>10, <1>20, <2>1
  <2>4. QED BY <1>2, <2>2, <2>3, StepRefs
<1>22. Types'
  <2>1. cowsets' \subseteq Cow
    BY <1>1, <1>2
  <2>2. QED BY <1>1, <1>2, <1>7, <1>14, <2>1 DEF Types
<1>23. QED BY <1>7, <1>8, <1>18, <1>19, <1>21, <1>22 DEF IInv

(* The copy's process starts to run. *)
LEMMA StepForked ==
    ASSUME Sound, IInv, NEW t \in Thread, Forked(t)
    PROVE  IInv'
<1>p. PICK s, c : s = Own(t) /\ c = env.child[t]
  OBVIOUS
<1>A. PICK A : A = {u \in Thread : u = t \/ Own(u) = c}
  OBVIOUS
<1>1. /\ Types /\ Placed(t) /\ SlotsOf(t)
      /\ th \in [Thread -> ThreadState] /\ env \in Envs /\ cowsets \subseteq Cow
      /\ Locked /\ Counted /\ Asleep /\ Slots /\ Referred /\ Listed
      /\ \A u \in Thread : Placed(u) /\ SlotsOf(u)
      /\ refs \in [Set -> Nat] /\ lk \in [Set -> SlotLock]
  BY DEF IInv, Types, Slots
<1>2. /\ th[t].pc = "forked" /\ panic' = panic
      /\ refs' = [refs EXCEPT ![c] = 1, ![s] = @ - 1]
      /\ th' = [u \in Thread |-> IF u \in A THEN User ELSE th[u]]
      /\ env' = env /\ slot' = slot /\ lk' = lk /\ cowsets' = cowsets /\ atl' = atl
      /\ pt' = pt /\ tab' = tab /\ core' = core /\ free' = free /\ memw' = memw
      /\ data' = data /\ swap' = swap /\ io' = io /\ dm' = dm
  BY <1>p, <1>A DEF Forked, At, Own, maps, pool
<1>3. /\ s \in Set /\ s # File /\ c \in Set /\ c # None /\ c # File /\ Unborn(c) /\ Forks(t)
      /\ c # s /\ File \in Set /\ File \notin Cow
      /\ \E u \in Thread : Own(u) = c
      /\ c \in Cow => c \in cowsets
  <2>1. Forks(t) /\ s \in Set /\ s # File /\ c # None /\ File \in Set /\ File \notin Cow
    BY <1>p, <1>1, <1>2, SetAssumption DEF Placed, Forks, Set
  <2>2. c \in Set /\ c # File /\ \E u \in Thread : Own(u) = c
    BY <1>p, <1>1, <2>1, EnvIs DEF Sound, Own
  <2>3. Unborn(c) /\ (c \in Cow => c \in cowsets)
    BY <1>p, <1>1, <2>1 DEF Listed, Unborn
  <2>4. c # s
    BY <1>p, <1>2, <2>3 DEF Unborn
  <2>5. QED BY <2>1, <2>2, <2>3, <2>4
<1>4. \A u \in A : th[u].pc \in {"forked", "none"} /\ (u # t => Own(u) = c /\ th[u].pc = "none")
  BY <1>2, <1>3, <1>A DEF Unborn
<1>5. \A u \in Thread : Own(u)' = Own(u)
  BY <1>2 DEF Own
<1>6. ASSUME NEW u \in A
      PROVE  /\ u \in Thread /\ th'[u] = User /\ th[u].f = None
             /\ Has(u) = {} /\ Seeks(u) = {} /\ Has(u)' = {} /\ Seeks(u)' = {}
             /\ ~ Detaches(u) /\ ~ Ends(u) /\ (u # t => ~ Views(u) /\ ~ Forks(u))
             /\ Views(u)' /\ ~ Forks(u)' /\ ~ Detaches(u)' /\ ~ Ends(u)'
  <2>1. u \in Thread /\ th'[u] = User
    BY <1>2, <1>A
  <2>2. th[u].pc \in {"forked", "none"} /\ (u # t => th[u].pc = "none")
    BY <1>4
  <2>3. th[u].f = None
    BY <1>1, <2>1, <2>2 DEF Placed
  <2>4. /\ Has(u) = {} /\ Seeks(u) = {} /\ ~ Detaches(u) /\ ~ Ends(u)
        /\ u # t => ~ Views(u) /\ ~ Forks(u)
    BY <2>2 DEF Has, HasOwn, HasMaster, Asks, Allocs, Seeks, Detaches, Ends, Unshares,
                Views, Forks
  <2>5. Has(u)' = {} /\ Seeks(u)' = {} /\ ~ Forks(u)' /\ ~ Detaches(u)' /\ ~ Ends(u)'
    BY <2>1 DEF Has, HasOwn, HasMaster, Asks, Allocs, Seeks, Detaches, Ends, Unshares,
                Forks, User
  <2>6. Views(u)'
    BY <2>1, <2>5 DEF Views, User
  <2>7. QED BY <2>1, <2>2, <2>3, <2>4, <2>5, <2>6
<1>7. \A u \in Thread \ A : th'[u] = th[u] /\ Aside(u)
  BY <1>2 DEF Aside
<1>8. th' \in [Thread -> ThreadState]
  <2>1. User \in ThreadState
    BY SetAssumption DEF User, ThreadState, Set
  <2>2. QED BY <1>1, <1>2, <2>1
<1>9. ASSUME NEW u \in Thread \ A PROVE Same(u) /\ Keeps(u) /\ Placed(u)'
  <2>1. Same(u)
    BY <1>1, <1>2, <1>7, AsideIs
  <2>2. Allocs(u, "tab") => tab'[Own(u)] = None
    BY <1>1, <1>2 DEF Placed
  <2>3. QED BY <1>1, <1>2, <2>1, <2>2, SameKeeps, PlacedAside
<1>10. Asleep'
  <2>1. ASSUME NEW u \in Thread
        PROVE  /\ th'[u].pc = "lkw" <=> th[u].pc = "lkw"
               /\ th'[u].pc = "memw" <=> th[u].pc = "memw"
               /\ th[u].pc = "lkw" => th'[u].ls = th[u].ls
    <3>1. CASE u \in A
      BY <1>4, <1>6, <3>1 DEF User
    <3>2. CASE u \notin A
      BY <1>7, <3>2
    <3>3. QED BY <3>1, <3>2
  <2>2. Starving' = Starving /\ \A x \in Set : Waiting(x)' = Waiting(x)
    BY <2>1 DEF Starving, Waiting
  <2>3. QED BY <1>1, <1>2, <2>2 DEF Asleep
<1>11. Locked' /\ Counted'
  <2>1. \A u \in Thread : Has(u)' = Has(u) /\ Seeks(u)' = Seeks(u)
    BY <1>6, <1>9 DEF Same
  <2>2. \A x \in Set : LockUsers(x)' = LockUsers(x) /\ (Daemon1(x)' <=> Daemon1(x))
    BY <1>2, <2>1 DEF LockUsers, Daemon1
  <2>3. QED BY <1>1, <1>2, <2>1, <2>2 DEF Locked, Counted
<1>12. \A u \in Thread : Placed(u)'
  <2>1. ASSUME NEW u \in A PROVE Placed(u)'
    <3>1. Own(u)' \in Set
      BY <1>3, <1>5, <1>6, <1>p, <1>A
    <3>2. QED BY <1>6, <3>1
       DEF Placed, Asks, Allocs, Unshares, HasMaster, User
  <2>2. QED BY <1>9, <2>1
<1>13. ASSUME NEW u \in Thread, Own(u) # c
       PROVE  th'[u].pc = "none" <=> th[u].pc = "none"
  BY <1>2, <1>6, <1>7, <1>13, <1>A DEF User
<1>14. /\ ~ Unborn(c)' /\ \A x : x # c => (Unborn(x)' <=> Unborn(x))
       /\ \A x : Unborn(x)' => Unborn(x)
  <2>1. ~ Unborn(c)'
    <3>1. PICK u \in Thread : Own(u) = c
      BY <1>3
    <3>2. u \in A /\ th'[u].pc = "user"
      BY <1>6, <1>A, <3>1 DEF User
    <3>3. QED BY <1>5, <3>1, <3>2 DEF Unborn
  <2>2. \A x : x # c => (Unborn(x)' <=> Unborn(x))
    BY <1>5, <1>13 DEF Unborn
  <2>3. QED BY <2>1, <2>2
<1>15. Attached' = Attached
  <2>1. \A u \in Thread : Detaches(u)' <=> Detaches(u)
    BY <1>6, <1>9 DEF Keeps
  <2>2. QED BY <1>2, <1>5, <2>1 DEF Attached
<1>16. ASSUME NEW z \in Set
       PROVE  Referrers(z)' = IF z = s THEN Referrers(z) \ {<<"fork", t>>}
                              ELSE IF z = c THEN {<<"view", c>>}
                              ELSE Referrers(z)
  <2>1. /\ \A y : y \in Referrers(z) <=>
               \/ y = <<"view", z>> /\ \E u \in Thread : Views(u) /\ Own(u) = z
               \/ \E u \in Thread : y = <<"fork", u>> /\ Forks(u) /\ Own(u) = z
               \/ \E x \in Attached : y = <<"cow", x>> /\ z = File
        /\ \A y : y \in Referrers(z)' <=>
               \/ y = <<"view", z>> /\ \E u \in Thread : Views(u)' /\ Own(u)' = z
               \/ \E u \in Thread : y = <<"fork", u>> /\ Forks(u)' /\ Own(u)' = z
               \/ \E x \in Attached' : y = <<"cow", x>> /\ z = File
    BY ReferrersAre
  <2>2. \A u \in Thread : Forks(u)' <=> Forks(u) /\ u # t
    BY <1>6, <1>9, <1>A DEF Keeps
  <2>3. \A u \in Thread : Own(u) # c => (Views(u)' <=> Views(u))
    <3>1. Views(t) /\ Views(t)'
      BY <1>2, <1>6, <1>A DEF Views, Ends, Unshares, Asks, Detaches
    <3>2. QED BY <1>6, <1>9, <1>A, <3>1 DEF Keeps
  <2>4. \A y : (\E u \in Thread : y = <<"fork", u>> /\ Forks(u)' /\ Own(u)' = z)
           <=> (\E u \in Thread : y = <<"fork", u>> /\ Forks(u) /\ Own(u) = z)
               /\ y # <<"fork", t>>
    BY <1>5, <2>2
  <2>5. CASE z = c
    <3>1. \E u \in Thread : Views(u)' /\ Own(u)' = z
      BY <1>3, <1>5, <1>6, <1>A, <2>5
    <3>2. \A u \in Thread : Own(u) = z => ~ Forks(u)'
      BY <1>6, <1>A, <2>5
    <3>3. z # File
      BY <1>3, <2>5
    <3>4. \A y : y \in Referrers(z)' <=> y = <<"view", z>>
      BY <1>5, <2>1, <3>1, <3>2, <3>3
    <3>5. Referrers(z)' = {<<"view", z>>}
      BY <3>4
    <3>6. QED BY <1>3, <2>5, <3>5
  <2>6. CASE z # c
    <3>1. (\E u \in Thread : Views(u)' /\ Own(u)' = z)
             <=> (\E u \in Thread : Views(u) /\ Own(u) = z)
      BY <1>5, <2>3, <2>6
    <3>2. \A y : y \in Referrers(z)' <=> y \in Referrers(z) /\ y # <<"fork", t>>
      BY <1>15, <2>1, <2>4, <3>1
    <3>3. z # s => <<"fork", t>> \notin Referrers(z)
      BY <1>p, <2>1
    <3>4. QED BY <2>6, <3>2, <3>3
  <2>7. QED BY <2>5, <2>6
<1>17. <<"fork", t>> \in Referrers(s) /\ <<"view", s>> \in Referrers(s)
  <2>1. Views(t)
    BY <1>2 DEF Views, Ends, Unshares, Asks, Detaches
  <2>2. QED BY <1>p, <1>3, <2>1, ReferrersAre
<1>18. refs[s] > 0 /\ refs[s] \in Nat
  BY <1>1, <1>3, <1>17, InUse
<1>19. /\ refs' \in [Set -> Nat] /\ refs'[s] = refs[s] - 1 /\ refs'[c] = 1
       /\ \A x \in Set \ {s, c} : refs'[x] = refs[x]
  <2>1. PICK i : i = refs[s] - 1
    OBVIOUS
  <2>2. i \in Nat
    BY ONLY <1>18, <2>1
  <2>3. refs' = [refs EXCEPT ![c] = 1, ![s] = i]
    BY <1>2, <1>3, <2>1
  <2>4. QED BY <1>1, <1>3, <2>1, <2>2, <2>3
<1>20. ASSUME NEW z \in Set
       PROVE  IsFiniteSet(Referrers(z)') /\ refs'[z] = Cardinality(Referrers(z)')
  <2>1. CASE z = s
    BY <1>1, <1>16, <1>17, <1>19, <2>1, RefDropped
  <2>2. CASE z = c
    BY <1>3, <1>16, <1>19, <2>2, FS_Singleton
  <2>3. CASE z # s /\ z # c
    <3>1. Referrers(z)' = Referrers(z) /\ refs'[z] = refs[z]
      BY <1>16, <1>19, <2>3
    <3>2. QED BY <1>1, <3>1 DEF Referred
  <2>4. QED BY <2>1, <2>2, <2>3
<1>21. Referred'
  <2>1. ASSUME NEW u \in Thread, Ends(u)' PROVE refs'[th'[u].d] = 0
    <3>1. u \notin A
      BY <1>6, <2>1
    <3>2. Ends(u) /\ th'[u].d = th[u].d /\ refs[th[u].d] = 0
      BY <1>1, <1>9, <2>1, <3>1 DEF Referred, Keeps
    <3>3. th[u].d = Own(u) \/ th[u].d = File
      BY <1>1, <3>2 DEF Ends, Unshares, Placed, Asks
    <3>4. th[u].d \in Set /\ th[u].d # c /\ th[u].d # s
      BY <1>1, <1>3, <1>18, <1>A, <3>1, <3>2, <3>3 DEF Placed, Ends, Unshares, Asks
    <3>5. QED BY <1>19, <3>2, <3>4
  <2>2. Live'
    <3>1. refs'[s] # 0
      <4>1. <<"view", s>> \in Referrers(s)'
        BY <1>3, <1>16, <1>17
      <4>2. Cardinality(Referrers(s)') # 0
        BY <1>3, <1>20, <4>1, FS_EmptySet
      <4>3. QED BY <1>3, <1>20, <4>2
    <3>2. \A z \in Set : refs[z] > 0 => refs'[z] > 0
      BY <1>1, <1>3, <1>19, <3>1
    <3>3. dm.pc # "idle" => dm.s \in Set
      BY <1>1 DEF Locked
    <3>4. io \subseteq Set
      BY <1>1 DEF Types
    <3>5. QED BY <1>1, <1>2, <3>2, <3>3, <3>4 DEF Referred, Live
  <2>3. QED BY <1>20, <2>1, <2>2 DEF Referred
<1>22. Listed'
  <2>1. ASSUME NEW u \in Thread
        PROVE  (Own(u) \in Cow /\ (Views(u) \/ (Ends(u) /\ th[u].d = Own(u)))
                  => Own(u) \in cowsets)'
    <3>1. CASE u \in A /\ u # t
      BY <1>2, <1>3, <1>4, <1>5, <3>1
    <3>2. CASE u = t
      <4>1. Views(t)
        BY <1>2 DEF Views, Ends, Unshares, Asks, Detaches
      <4>2. QED BY <1>1, <1>2, <1>5, <3>2, <4>1 DEF Listed
    <3>3. CASE u \notin A
      <4>1. HAVE Own(u)' \in Cow /\ (Views(u)' \/ (Ends(u)' /\ th'[u].d = Own(u)'))
      <4>2. Own(u) \in Cow /\ (Views(u) \/ (Ends(u) /\ th[u].d = Own(u)))
        BY <1>5, <1>9, <3>3, <4>1 DEF Keeps
      <4>3. Own(u) \in cowsets
        BY <1>1, <4>2 DEF Listed
      <4>4. QED BY <1>2, <1>5, <4>3
    <3>4. QED BY <3>1, <3>2, <3>3
  <2>2. ASSUME NEW u \in Thread PROVE (Detaches(u) => Own(u) \notin cowsets)'
    <3>1. HAVE Detaches(u)'
    <3>2. Detaches(u)
      BY <1>6, <1>9, <3>1 DEF Keeps
    <3>3. QED BY <1>1, <1>2, <1>5, <3>2 DEF Listed
  <2>3. ASSUME NEW u \in Thread
        PROVE  /\ Forks(u)' => /\ Unborn(env.child[u])'
                               /\ env.child[u] \in Cow => env.child[u] \in cowsets'
               /\ env.child[u] # None /\ Unborn(env.child[u])' /\ ~ Forks(u)' =>
                      env.child[u] \notin cowsets'
    <3>1. PICK k : k = env.child[u]
      OBVIOUS
    <3>2. Unborn(env.child[u])' <=> Unborn(k)'
      BY <1>2, <3>1 DEF Unborn
    <3>3. CASE u = t
      <4>1. ~ Unborn(env.child[u])' /\ ~ Forks(u)'
        BY <1>p, <1>6, <1>14, <1>A, <3>1, <3>2, <3>3
      <4>2. QED BY <4>1
    <3>4. CASE u # t
      <4>1. Forks(u)' <=> Forks(u)
        BY <1>6, <1>9, <3>4 DEF Keeps
      <4>2. Forks(u) => Unborn(k) /\ (k \in Cow => k \in cowsets)
        BY <1>1, <3>1 DEF Listed
      <4>3. k # None /\ Unborn(k) /\ ~ Forks(u) => k \notin cowsets
        BY <1>1, <3>1 DEF Listed
      <4>4. k # c
        BY <1>p, <1>1, <1>3, <3>1, <3>4 DEF Sound
      <4>5. Unborn(k)' <=> Unborn(k)
        BY <1>14, <4>4
      <4>6. QED BY <1>2, <3>1, <3>2, <4>1, <4>2, <4>3, <4>5
    <3>5. QED BY <3>3, <3>4
  <2>4. QED BY <1>2, <2>1, <2>2, <2>3 DEF Listed
<1>23. ASSUME NEW u \in Thread \cap A PROVE SlotsOf(u)' /\ th'[u].pc # "got"
  <2>1. PICK k : k = env.child[u]
    OBVIOUS
  <2>2. Unborn(env.child[u])' <=> Unborn(k)'
    BY <1>2, <2>1 DEF Unborn
  <2>3. k # None /\ Unborn(k)' => ~ slot[k].v
    <3>1. CASE u = t
      BY <1>p, <1>14, <2>1, <3>1
    <3>2. CASE u # t
      <4>1. th[u].pc = "none"
        BY <1>4, <3>2
      <4>2. SlotsOf(u)
        BY <1>1
      <4>3. k # None /\ Unborn(k) => ~ slot[k].v
        BY <2>1, <4>1, <4>2 DEF SlotsOf
      <4>4. QED BY <1>14, <4>3
    <3>3. QED BY <3>1, <3>2
  <2>4. (env.child[u] # None /\ Unborn(env.child[u]) /\ th[u].pc # "forked" =>
             ~ slot[env.child[u]].v)'
    BY <1>2, <2>1, <2>2, <2>3
  <2>5. QED BY <1>6, <2>4 DEF SlotsOf, Asks, Allocs, Unshares, User
<1>24. Slots' /\ Framed' /\ Pointed'
  <2>1. \A u \in Thread : th'[u].f = th[u].f
    BY <1>6, <1>7 DEF User
  <2>2. /\ \A u \in Thread \ A : Same(u)
        /\ \A x \in Set : Unborn(x)' => Unborn(x)
    BY <1>9, <1>14
  <2>3. QED BY <1>2, <1>23, <2>1, <2>2, StepRefs
<1>25. Types'
  BY <1>1, <1>2, <1>8, <1>19 DEF Types
<1>26. QED BY <1>10, <1>11, <1>12, <1>21, <1>22, <1>24, <1>25 DEF IInv

-----------------------------------------------------------------------------
(* The theorems                                                             *)

(* Marking the elements of a set does not change how many there are.        *)
LEMMA CowCount ==
    ASSUME NEW S, IsFiniteSet(S), NEW R, \A x : x \in R <=> \E c \in S : x = <<"cow", c>>
    PROVE  IsFiniteSet(R) /\ Cardinality(R) = Cardinality(S)
<1> DEFINE f == [c \in S |-> <<"cow", c>>]
<1>1. f \in [S -> R] /\ \A c \in S : f[c] = <<"cow", c>>
  OBVIOUS
<1>2. ASSUME NEW a \in S, NEW b \in S, f[a] = f[b] PROVE a = b
  BY <1>1, <1>2
<1>3. \A x \in R : \E c \in S : f[c] = x
  BY <1>1
<1> HIDE DEF f
<1>4. f \in Bijection(S, R)
  BY <1>1, <1>2, <1>3, Fun_IsBij
<1>5. ExistsBijection(S, R)
  BY <1>4 DEF ExistsBijection
<1>6. QED BY <1>5, FS_Bijection

LEMMA InitKeeps ==
    ASSUME Sound, Init
    PROVE  IInv
<1>V. PICK V : V = Viewed(env)
  OBVIOUS
<1>1. /\ env \in Envs /\ slot = [s \in Set |-> EmptySlot] /\ lk = [s \in Set |-> Unlocked]
      /\ cowsets = V \cap Cow
      /\ refs = [s \in Set |-> (IF s \in V THEN 1 ELSE 0)
                               + (IF s = File THEN Cardinality(cowsets) ELSE 0)]
      /\ atl = [s \in Set |-> 0] /\ pt = [s \in Set |-> NoTrans]
      /\ tab = [s \in Set |-> None]
      /\ core = [f \in Frame |-> [alloc |-> FALSE, s |-> None]]
      /\ free = SetToSeq(env.frames) /\ memw = NewSema(0)
      /\ data = [f \in Frame |-> Junk] /\ swap = [s \in Set |-> Junk] /\ io = {}
      /\ th = [t \in Thread |-> IF env.map[t] \in V THEN User
                                ELSE [User EXCEPT !.pc = "none"]]
      /\ dm = Idle /\ panic = "none"
  BY <1>V DEF Init
<1>2. \A t \in Thread :
         /\ th[t] \in ThreadState /\ th[t].pc \in {"user", "none"}
         /\ th[t].pc = "user" <=> Own(t) \in V
         /\ th[t].f = None /\ th[t].to = "none" /\ th[t].why = "none"
  <2>1. User \in ThreadState /\ [User EXCEPT !.pc = "none"] \in ThreadState
    BY DEF User, ThreadState
  <2>2. QED BY <1>1, <2>1 DEF User, Own
<1>3. /\ \A v : v \in V <=> /\ \E t \in Thread : v = env.map[t]
                            /\ v # None /\ \A t \in Thread : v # env.child[t]
      /\ V \subseteq Set
  <2>1. \A t \in Thread : env.map[t] \in Set \cup {None}
    BY <1>1, EnvIs
  <2>2. QED BY <1>V, <2>1 DEF Viewed
<1>4. /\ IsFiniteSet(cowsets) /\ cowsets \subseteq Cow /\ Cardinality(cowsets) \in Nat
      /\ IsFiniteSet(env.frames) /\ env.frames \subseteq Frame
      /\ None \notin env.frames /\ None \notin Frame
  <2>1. cowsets \in SUBSET Cow /\ env.frames \in SUBSET Frame
    BY <1>1, FrameSet
  <2>2. IsFiniteSet(cowsets) /\ IsFiniteSet(env.frames)
    BY <2>1, FiniteAssumption, FS_Subset
  <2>3. QED BY <1>1, <2>1, <2>2, FS_CardinalityType, FrameSet
<1>5. \A s \in Set : /\ slot[s] = EmptySlot /\ lk[s] = Unlocked /\ tab[s] = None
                     /\ ~ slot[s].v /\ ~ slot[s].cow /\ SlotFrame(s) = None
  BY <1>1 DEF EmptySlot, SlotFrame
<1>6. \A t \in Thread : /\ ~ Forks(t) /\ ~ Ends(t) /\ ~ Detaches(t) /\ ~ Unshares(t)
                        /\ ~ HasOwn(t) /\ ~ HasMaster(t)
                        /\ Has(t) = {} /\ Seeks(t) = {}
                        /\ \A y : ~ Asks(t, y) /\ ~ Allocs(t, y)
                        /\ Views(t) <=> Own(t) \in V
  BY <1>2 DEF Forks, Ends, Detaches, Unshares, HasOwn, HasMaster, Has, Seeks, Asks,
              Allocs, Views
<1>7. SleptOn(NewSema(0), Thread, {}) /\ NewSema(0).cnt = 0
      /\ NewSema(0) \in [cnt : Int, q : Seq(Thread)]
  BY NewSlept DEF SleptOn, SemaType
<1>8. /\ free \in Seq(env.frames) /\ Range(free) = env.frames
      /\ \A i, j \in DOMAIN free : free[i] = free[j] => i = j
  BY <1>1, <1>4, ListOf DEF ToSet, Range
<1>9. Types
  <2>1. EmptySlot \in Slot /\ Unlocked \in SlotLock
    BY <1>7 DEF EmptySlot, Unlocked, Slot, SlotLock
  <2>2. NoTrans \in [f : Frame \cup {None}, w : BOOLEAN, m : BOOLEAN]
    BY DEF NoTrans
  <2>3. Junk \in Val
    BY EnvAssumption DEF Junk, Val
  <2>4. refs \in [Set -> Nat]
    BY <1>1, <1>4
  <2>5. free \in Seq(Frame)
    BY <1>4, <1>8
  <2>6. dm \in DaemonState
    BY <1>1 DEF Idle, DaemonState
  <2>7. th \in [Thread -> ThreadState]
    BY <1>1, <1>2
  <2>8. QED BY <1>1, <1>4, <2>1, <2>2, <2>3, <2>4, <2>5, <2>6, <2>7 DEF Types
<1>10. Locked
  BY <1>1, <1>6 DEF Locked, Idle
<1>11. Counted
  <2>1. \A s : LockUsers(s) = {} /\ ~ Daemon1(s)
    BY <1>1, <1>6 DEF LockUsers, Daemon1, Idle
  <2>2. IsFiniteSet({}) /\ Cardinality({}) = 0
    BY FS_EmptySet
  <2>3. \A s \in Set : lk[s].n = 0
    BY <1>5 DEF Unlocked
  <2>4. ASSUME NEW s \in Set
        PROVE  /\ IsFiniteSet(LockUsers(s)) /\ Cardinality(LockUsers(s)) = 0
               /\ ~ Daemon1(s) /\ s \notin io /\ lk[s].n = 0
    BY <1>1, <2>1, <2>2, <2>3
  <2>5. QED BY <2>4 DEF Counted
<1>12. Asleep
  <2>1. Starving = {} /\ \A s : Waiting(s) = {}
    BY <1>2 DEF Starving, Waiting
  <2>2. \A s \in Set : lk[s].sema = NewSema(0)
    BY <1>5 DEF Unlocked
  <2>3. ASSUME NEW s \in Set
        PROVE  SleptOn(lk[s].sema, Thread, Waiting(s)) /\ lk[s].sema.cnt <= 0
    <3>1. Waiting(s) = {}
      BY <2>1
    <3>2. lk[s].sema = NewSema(0)
      BY <2>2
    <3>3. QED BY <1>7, <3>1, <3>2
  <2>4. SleptOn(memw, Thread, Starving) /\ memw.cnt <= 0
    BY <1>1, <1>7, <2>1
  <2>5. QED BY <2>3, <2>4 DEF Asleep
<1>13. ASSUME NEW t \in Thread PROVE Placed(t)
  BY <1>2, <1>3, <1>6 DEF Placed
<1>14. Referred
  <2>1. Attached = cowsets
    BY <1>6 DEF Attached
  <2>2. ASSUME NEW s \in Set
        PROVE  IsFiniteSet(Referrers(s)) /\ refs[s] = Cardinality(Referrers(s))
    <3>1. PICK R : R = {<<"cow", c>> : c \in {x \in cowsets : s = File}}
      OBVIOUS
    <3>2. IsFiniteSet(R) /\ Cardinality(R) = IF s = File THEN Cardinality(cowsets) ELSE 0
      <4>1. CASE s = File
        BY <1>4, <3>1, <4>1, CowCount
      <4>2. CASE s # File
        BY <3>1, <4>2, FS_EmptySet
      <4>3. QED BY <4>1, <4>2
    <3>3. s \in V <=> \E t \in Thread : Views(t) /\ Own(t) = s
      BY <1>3, <1>6 DEF Own
    <3>4. \A x : x \in Referrers(s) <=> (x = <<"view", s>> /\ s \in V) \/ x \in R
      BY <1>6, <2>1, <3>1, <3>3, ReferrersAre
    <3>5. <<"view", s>> \notin R
      BY <3>1
    <3>6. refs[s] = (IF s \in V THEN 1 ELSE 0) + Cardinality(R)
      BY <1>1, <3>2
    <3>7. CASE s \in V
      <4>1. Referrers(s) = R \cup {<<"view", s>>}
        BY <3>4, <3>7
      <4>2. /\ IsFiniteSet(R \cup {<<"view", s>>})
            /\ Cardinality(R \cup {<<"view", s>>}) = Cardinality(R) + 1
        BY <3>2, <3>5, FS_AddElement
      <4>3. Cardinality(R) \in Nat
        BY <3>2, FS_CardinalityType
      <4>4. QED BY <3>6, <3>7, <4>1, <4>2, <4>3
    <3>8. CASE s \notin V
      <4>1. Referrers(s) = R
        BY <3>4, <3>8
      <4>2. Cardinality(R) \in Nat
        BY <3>2, FS_CardinalityType
      <4>3. QED BY <3>2, <3>6, <3>8, <4>1, <4>2
    <3>9. QED BY <3>7, <3>8
  <2>3. Live
    BY <1>1 DEF Live, Idle
  <2>4. QED BY <1>6, <2>2, <2>3 DEF Referred
<1>15. Listed
  <2>1. ASSUME NEW t \in Thread PROVE env.child[t] \notin cowsets
    BY <1>1, <1>3
  <2>2. ASSUME NEW t \in Thread, Own(t) \in Cow, Views(t) PROVE Own(t) \in cowsets
    BY <1>1, <1>6, <2>2
  <2>3. QED BY <1>6, <2>1, <2>2 DEF Listed
<1>16. Slots
  <2>1. \A s \in Set : SlotShape(s)
    BY <1>5 DEF SlotShape
  <2>2. ASSUME NEW t \in Thread PROVE SlotsOf(t)
    <3>1. env.child[t] # None => ~ slot[env.child[t]].v
      BY <1>1, <1>5, EnvIs
    <3>2. QED BY <1>2, <1>6, <3>1 DEF SlotsOf
  <2>3. QED BY <1>1, <2>1, <2>2 DEF Slots, Idle
<1>17. Framed
  <2>1. ASSUME NEW o \in Owner PROVE Frames[o] = None
    <3>1. CASE \E s \in Set : o = <<"slot", s>>
      BY <1>5, <3>1, FramesAre
    <3>2. CASE \E s \in Set : o = <<"tab", s>>
      BY <1>5, <3>2, FramesAre
    <3>3. CASE \E t \in Thread : o = <<"hand", t>>
      BY <1>2, <3>3, FramesAre
    <3>4. QED BY <3>1, <3>2, <3>3, FramesAre
  <2>2. DOMAIN Frames = Owner
    BY FramesAre
  <2>3. EachOnce(Frames, free, env.frames)
    BY <1>8, <2>1, <2>2 DEF EachOnce
  <2>4. \A f \in Frame : ~ core[f].alloc
    BY <1>1
  <2>5. QED BY <1>8, <2>3, <2>4 DEF Framed
<1>18. Pointed
  BY <1>1, <1>2 DEF Pointed
<1>19. QED BY <1>9, <1>10, <1>11, <1>12, <1>13, <1>14, <1>15, <1>16, <1>17, <1>18 DEF IInv
LEMMA StutterKeeps ==
    ASSUME IInv, UNCHANGED vars
    PROVE  IInv'
<1>1. /\ env' = env /\ slot' = slot /\ lk' = lk /\ refs' = refs /\ cowsets' = cowsets
      /\ atl' = atl /\ pt' = pt /\ tab' = tab /\ core' = core /\ free' = free
      /\ memw' = memw /\ data' = data /\ swap' = swap /\ io' = io /\ th' = th
      /\ dm' = dm /\ panic' = panic
  BY DEF vars, sets, maps, pool
<1>2. Types' /\ Live'
  BY <1>1 DEF IInv, Types, Referred, Live
<1>3. Locked' /\ Counted' /\ Asleep'
  BY <1>1 DEF IInv, Locked, Counted, Asleep, Has, HasOwn, HasMaster, Asks, Allocs,
              Seeks, LockUsers, Daemon1, Waiting, Starving, Own
<1>4. ASSUME NEW t \in Thread PROVE Keeps(t) /\ Placed(t)' /\ SlotsOf(t)'
  <2>1. /\ Views(t)' <=> Views(t)
        /\ Forks(t)' <=> Forks(t)
        /\ Detaches(t)' <=> Detaches(t)
        /\ Ends(t)' <=> Ends(t)
        /\ Unshares(t)' <=> Unshares(t)
    BY <1>1 DEF Views, Forks, Detaches, Ends, Unshares, Asks, Allocs, Own
  <2>2. Keeps(t)
    BY <1>1, <2>1 DEF Keeps, Own
  <2>3. Placed(t)
    BY DEF IInv
  <2>4. SlotsOf(t)
    BY DEF IInv, Slots
  <2>5. Placed(t)'
    BY <1>1, <2>1, <2>3 DEF Placed, Asks, Allocs, HasMaster, Own
  <2>6. SlotsOf(t)'
    BY <1>1, <2>1, <2>4 DEF SlotsOf, Asks, Allocs, Own, Unborn
  <2>7. QED BY <2>2, <2>5, <2>6
<1>5. Referred' /\ Listed'
  BY <1>1, <1>2, <1>4, RefsKept DEF IInv
<1>6. Slots'
  BY <1>1, <1>4 DEF IInv, Slots, SlotShape
<1>7. Framed' /\ Pointed'
  <2>1. \A s \in Set : SlotFrame(s)' = SlotFrame(s)
    BY <1>1 DEF SlotFrame
  <2>2. Framed'
    BY <1>1, <2>1, FramedSame DEF IInv, Elsewhere
  <2>3. \A t \in Thread : For(t)' = For(t)
    BY <1>1 DEF For, Own
  <2>4. QED BY <1>1, <2>1, <2>2, <2>3 DEF IInv, Pointed
<1>8. QED BY <1>2, <1>3, <1>4, <1>5, <1>6, <1>7 DEF IInv

LEMMA KernelKeeps ==
    ASSUME Sound, IInv, NEW t \in Thread, Works(t)
    PROVE  IInv'
<1>1. CASE Relock(t) \/ AllocPage(t) \/ NoPage(t)
  BY <1>1, StepRelock, StepAllocPage, StepNoPage
<1>2. CASE Valid(t) \/ Invalid(t) \/ LockMaster(t) \/ Master(t)
  BY <1>2, StepValid, StepInvalid, StepLockMaster, StepMaster
<1>3. CASE Fill(t) \/ FillFails(t) \/ Share(t) \/ Writes(t)
  BY <1>3, StepFill, StepFillFails, StepShare, StepCowWrite
<1>4. CASE Map(t) \/ MapTable(t)
  BY <1>4, StepMap, StepMapTable
<1>5. CASE Dup(t) \/ Dupd(t) \/ Copies(t) \/ Forked(t)
  BY <1>5, StepDup, StepDupd, StepCopyPage, StepForked
<1>6. CASE Drops(t) \/ Deref(t) \/ FreeSlot(t)
  BY <1>6, StepDetached, StepDeref, StepFreeSlot
<1>7. CASE Yields(t) \/ Leaves(t) \/ FreeVas(t)
  BY <1>7, StepUnshare, StepFreePset, StepFreeVas
<1>8. QED BY <1>1, <1>2, <1>3, <1>4, <1>5, <1>6, <1>7 DEF Works

LEMMA NextKeeps ==
    ASSUME Sound, IInv, [Next]_vars
    PROVE  IInv'
<1>1. ASSUME NEW t \in Thread, Store(t) \/ Fork(t) \/ Detach(t) \/ Kernel(t) PROVE IInv'
  BY <1>1, StepStore, StepFork, StepDetach, KernelIs, KernelKeeps, PanicOnly
<1>2. ASSUME NEW t \in Thread, NEW w \in BOOLEAN, Fault(t, w) PROVE IInv'
  BY <1>2, StepFault
<1>3. ASSUME NEW f \in Frame, NEW hard \in BOOLEAN, Hand(f, hard) PROVE IInv'
  BY <1>3, StepHand
<1>4. CASE Steal \/ Push \/ Spare
  BY <1>4, StepSteal, StepPush, StepSpare
<1>5. ASSUME NEW c \in Cow, SkipCow(c) \/ TakeCow(c) PROVE IInv'
  BY <1>5, StepSkipCow, StepTakeCow
<1>6. ASSUME NEW s \in Set, IoDone(s) PROVE IInv'
  BY <1>6, StepIoDone
<1>7. CASE UNCHANGED vars
  BY <1>7, StutterKeeps
<1>8. QED BY <1>1, <1>2, <1>3, <1>4, <1>5, <1>6, <1>7 DEF Next, Daemon

(* The inductive invariant, in every setting of Sound.                      *)
THEOREM Invariant ==
    ASSUME Sound
    PROVE  Spec => []IInv
<1>1. Init => IInv
  BY InitKeeps
<1>2. IInv /\ [Next]_vars => IInv'
  BY NextKeeps
<1>3. QED BY <1>1, <1>2, PTL DEF Spec

(* The three sets Owners(f) counts. *)
InSlots(f)  == {s \in Set : slot[s].v /\ ~ slot[s].cow /\ slot[s].f = f}
InHands(f)  == {t \in Thread : th[t].f = f}
InTables(f) == {s \in Set : tab[s] = f}

LEMMA OwnersCount ==
    ASSUME IInv, NEW f \in env.frames
    PROVE  Owners(f) = IF f \in Range(free) THEN 0 ELSE 1
<1>1. Framed /\ env \in Envs /\ f # None
  BY FrameSet DEF IInv, Types
<1>2. IsFiniteSet({}) /\ Cardinality({}) = 0 /\ \A x : Cardinality({x}) = 1
  BY FS_EmptySet, FS_Singleton
<1>3. /\ \A s \in Set : s \in InSlots(f) <=> SlotFrame(s) = f
      /\ \A t \in Thread : t \in InHands(f) <=> th[t].f = f
      /\ \A s \in Set : s \in InTables(f) <=> tab[s] = f
      /\ InSlots(f) \subseteq Set /\ InHands(f) \subseteq Thread /\ InTables(f) \subseteq Set
  BY <1>1 DEF InSlots, InHands, InTables, SlotFrame
<1>4. /\ \A r, s \in InSlots(f) : r = s
      /\ \A t, u \in InHands(f) : t = u
      /\ InSlots(f) # {} => InHands(f) = {} /\ InTables(f) = {}
      /\ InTables(f) # {} => InHands(f) = {}
  BY <1>1, <1>3, HadOnce
<1>5. \A r, s \in InTables(f) : r = s
  <2>1. ASSUME NEW r \in Set, NEW s \in Set, tab[r] = f, tab[s] = f PROVE r = s
    <3>1. <<"tab", r>> = <<"tab", s>>
      <4> DEFINE o == <<"tab", r>>
                 p == <<"tab", s>>
      <4>1. o \in Owner /\ p \in Owner /\ Frames[o] = f /\ Frames[p] = f
            /\ DOMAIN Frames = Owner
        BY <2>1, FramesAre
      <4> HIDE DEF o, p
      <4>2. o = p
        BY <1>1, <4>1 DEF Framed, EachOnce
      <4>3. QED BY <4>2 DEF o, p
    <3>2. QED BY <3>1
  <2>2. QED BY <1>3, <2>1
<1>6. f \in Range(free) => InSlots(f) = {} /\ InHands(f) = {} /\ InTables(f) = {}
  BY <1>1, <1>3, HadOnce
<1>7. f \notin Range(free) => InSlots(f) # {} \/ InHands(f) # {} \/ InTables(f) # {}
  <2>1. ASSUME f \notin Range(free)
        PROVE  InSlots(f) # {} \/ InHands(f) # {} \/ InTables(f) # {}
    <3>1. PICK o \in Owner : Frames[o] = f
      BY <1>1, <2>1, FramesAre DEF Framed, EachOnce
    <3>2. \/ \E s \in Set : SlotFrame(s) = f \/ tab[s] = f
          \/ \E t \in Thread : th[t].f = f
      <4>1. CASE \E s \in Set : o = <<"slot", s>> \/ o = <<"tab", s>>
        <5>1. PICK s \in Set : o = <<"slot", s>> \/ o = <<"tab", s>>
          BY <4>1
        <5>2. Frames[<<"slot", s>>] = SlotFrame(s) /\ Frames[<<"tab", s>>] = tab[s]
          BY FramesAre
        <5>3. QED BY <3>1, <5>1, <5>2
      <4>2. CASE \E t \in Thread : o = <<"hand", t>>
        <5>1. PICK t \in Thread : o = <<"hand", t>>
          BY <4>2
        <5>2. Frames[<<"hand", t>>] = th[t].f
          BY FramesAre
        <5>3. QED BY <3>1, <5>1, <5>2
      <4>3. QED BY <4>1, <4>2, FramesAre
    <3>3. QED BY <1>3, <3>2
  <2>2. QED BY <2>1
<1>8. \A S : S # {} /\ (\A x, y \in S : x = y) => Cardinality(S) = 1
  <2>1. ASSUME NEW S, NEW x \in S, \A y, z \in S : y = z PROVE Cardinality(S) = 1
    <3>1. S = {x}
      BY <2>1
    <3>2. QED BY <1>2, <3>1
  <2>2. QED BY <2>1
<1>9. Owners(f) = Cardinality(InSlots(f)) + Cardinality(InHands(f)) + Cardinality(InTables(f))
  BY DEF Owners, InSlots, InHands, InTables
<1>10. /\ Cardinality(InSlots(f)) = IF InSlots(f) = {} THEN 0 ELSE 1
       /\ Cardinality(InHands(f)) = IF InHands(f) = {} THEN 0 ELSE 1
       /\ Cardinality(InTables(f)) = IF InTables(f) = {} THEN 0 ELSE 1
  BY <1>2, <1>4, <1>5, <1>8
<1>11. QED BY ONLY <1>4, <1>6, <1>7, <1>9, <1>10

(* The length of a list without duplicates. *)
LEMMA ListCount ==
    ASSUME NEW S, NEW q \in Seq(S), \A i, j \in DOMAIN q : q[i] = q[j] => i = j
    PROVE  Len(q) = Cardinality(Range(q))
<1>1. Len(q) \in Nat /\ DOMAIN q = 1 .. Len(q)
  OBVIOUS
<1>2. q \in [1 .. Len(q) -> Range(q)] /\ \A x \in Range(q) : \E i \in 1 .. Len(q) : q[i] = x
  BY <1>1 DEF Range
<1>3. q \in Bijection(1 .. Len(q), Range(q))
  BY <1>1, <1>2, Fun_IsBij
<1>4. ExistsBijection(1 .. Len(q), Range(q))
  BY <1>3 DEF ExistsBijection
<1>5. QED BY <1>1, <1>4, FS_CountingElements

(* No page frame is lost and none is used twice: it is on the free list     *)
(* once, or belongs to one slot, page table or thread that has just         *)
(* allocated it (vm_page.c:73, :104), for any number of threads, sets and   *)
(* frames, whoever faults, forks, exits, steals pages and writes them out.  *)
THEOREM NoFrameTwice ==
    ASSUME Sound
    PROVE  Spec => []FramesOwned
<1>1. IInv => FramesOwned
  <2>1. ASSUME IInv PROVE FramesOwned
    <3>1. Len(free) = Cardinality(Range(free))
      BY <2>1, ListCount DEF IInv, Types, Framed, EachOnce
    <3>2. \A f \in env.frames : Owners(f) = IF f \in Range(free) THEN 0 ELSE 1
      BY <2>1, OwnersCount
    <3>3. QED BY <3>1, <3>2 DEF FramesOwned
  <2>2. QED BY <2>1
<1>2. Spec => []IInv
  BY Invariant
<1>3. QED BY <1>1, <1>2, PTL

(* Every variable keeps its type, and the semaphores of the slots and of    *)
(* the free list count who sleeps on them.                                  *)
THEOREM TypeCorrect ==
    ASSUME Sound
    PROVE  Spec => []TypeOK
<1>1. IInv => TypeOK
  <2>1. ASSUME IInv PROVE TypeOK
    <3>1. Types /\ Asleep
      BY <2>1 DEF IInv
    <3>2. env \in Env
      BY <3>1, EnvAssumption DEF Types
    <3>3. \A s \in Set : /\ SemaType(lk[s].sema, Thread) /\ CountsSleepers(lk[s].sema)
                         /\ lk[s].n \in Nat
      BY <3>1 DEF Types, Asleep, SleptOn, SlotLock
    <3>4. SemaType(memw, Thread) /\ CountsSleepers(memw)
      BY <3>1 DEF Asleep, SleptOn
    <3>5. QED BY <3>1, <3>2, <3>3, <3>4 DEF Types, TypeOK
  <2>2. QED BY <2>1
<1>2. Spec => []IInv
  BY Invariant
<1>3. QED BY <1>1, <1>2, PTL

-----------------------------------------------------------------------------
(* References of slots                                                      *)

(* Processes do not exit under the page daemon: see pset.c:66.              *)
Apart == \A e \in Envs : ~ (e.exit /\ e.steal)

(* Thread t has a reference to slot s that no translation has yet.          *)
Flies(t, s) == \/ Own(t) = s /\ (th[t].pc = "map" \/ Allocs(t, "write"))
               \/ s = File /\ th[t].pc = "share"
Fly(t, s) == IF t \in Thread /\ Flies(t, s) THEN 1 ELSE 0
Flight(s) == IF \E t \in Thread : Flies(t, s) THEN 1 ELSE 0

(* The slots that share the file's page. *)
Sharers == {c \in Cow : Shared(c)}
Shares(s) == IF s = File THEN Cardinality(Sharers) ELSE 0

Exact == \A s \in Set : slot[s].refs = atl[s] + Flight(s) + Shares(s)
Empty == \A s \in Set : ~ slot[s].v => slot[s].refs = 0

(* Thread t is about to write the translation of its set anew. *)
Remaps(t) == th[t].pc = "map" \/ Allocs(t, "write") \/ Allocs(t, "tab")
Remapped(s) == \E t \in Thread : Own(t) = s /\ Remaps(t)

Mapped ==
    /\ \A s \in Set : pt[s].f # None /\ ~ Remapped(s) =>
          atl[s] > 0 /\ pt[s].f = slot[s].f /\ (pt[s].w => ~ slot[s].cow)
    /\ \A t \in Thread : Allocs(t, "tab") => atl[Own(t)] > 0

Sharing == \A c \in Sharers : c \in cowsets /\ slot[c].f = slot[File].f

(* A set that goes has no references to its slot; it shares the file's page *)
(* until that reference is given up, and not afterwards.                    *)
EndsWell(t) ==
    /\ Ends(t) => slot[th[t].d].refs = 0
    /\ Unshares(t) => Shared(Own(t))
    /\ th[t].pc = "fpset" => ~ Shared(th[t].d)
Ended == panic = "none" => \A t \in Thread : EndsWell(t)

RInv == Exact /\ Empty /\ Mapped /\ Sharing /\ Ended

-----------------------------------------------------------------------------
(* The other threads in a step of t                                         *)

(* Wakeups change nothing that matters. *)
LEMMA OtherIs ==
    ASSUME IInv, env' = env, NEW u \in Thread, NEW x,
           x = th[u] \/ (x = Woken(th[u]) /\ \E s \in Set : u \in Waiters(s)),
           th'[u] = x \/ (th'[u] = Woken(x) /\ u \in VWakes(memw))
    PROVE  Same(u) /\ th'[u].w = th[u].w
<1>1. /\ th \in [Thread -> ThreadState] /\ th[u] \in ThreadState
      /\ \A s \in Set : SleptOn(lk[s].sema, Thread, Waiting(s))
      /\ SleptOn(memw, Thread, Starving)
  BY DEF IInv, Types, Asleep
<1>2. (\E s \in Set : u \in Waiters(s)) => th[u].pc = "lkw"
  BY <1>1 DEF Waiting, Waiters, SleptOn
<1>3. u \in VWakes(memw) => th[u].pc = "memw"
  <2>1. VWakes(memw) \subseteq Starving
    BY <1>1, SleptGive, Zenon
  <2>2. QED BY <2>1 DEF Starving
<1>4. Aside(u) /\ th'[u].w = th[u].w
  <2>1. Woken(th[u]).w = th[u].w
    BY <1>1 DEF Woken, ThreadState
  <2>2. QED BY <1>2, <1>3, <2>1 DEF Aside
<1>5. QED BY <1>1, <1>4, AsideIs

Others(A) == \A u \in Thread \ A : Same(u) /\ th'[u].w = th[u].w

LEMMA WakeOthers ==
    ASSUME IInv, env' = env, NEW t, NEW g, NEW W,
           \A u \in W : \E s \in Set : u \in Waiters(s),
           \A u \in Thread \ {t} : g[u] = th[u] \/ (u \in W /\ g[u] = Woken(th[u])),
           \/ \A u \in Thread \ {t} : th'[u] = g[u]
           \/ \E f : FreePage(g, f)
    PROVE  Others({t})
<1>1. ASSUME NEW u \in Thread \ {t} PROVE Same(u) /\ th'[u].w = th[u].w
  <2>1. g[u] = th[u] \/ (g[u] = Woken(th[u]) /\ \E s \in Set : u \in Waiters(s))
    OBVIOUS
  <2>2. th'[u] = g[u] \/ (th'[u] = Woken(g[u]) /\ u \in VWakes(memw))
    BY DEF FreePage, Wake
  <2>3. QED BY <2>1, <2>2, OtherIs
<1>2. QED BY <1>1 DEF Others

(* Locking and waiting wake nobody. *)
LEMMA QuietOthers ==
    ASSUME IInv, env' = env, NEW t, \A u \in Thread \ {t} : th'[u] = th[u]
    PROVE  Others({t})
<1>1. \A u \in {} : \E s \in Set : u \in Waiters(s)
  OBVIOUS
<1>2. QED BY <1>1, WakeOthers

LEMMA StepOthers ==
    ASSUME IInv, NEW t \in Thread,
           \/ Store(t) \/ Fork(t) \/ Detach(t) \/ (Works(t) /\ ~ Forked(t))
           \/ \E w \in BOOLEAN : Fault(t, w)
    PROVE  Others({t}) /\ env' = env
<1>0. /\ th \in [Thread -> ThreadState] /\ (th[t].pc # "none" => Own(t) \in Set)
      /\ File \in Set
  <2>1. Placed(t) /\ th \in [Thread -> ThreadState]
    BY DEF IInv, Types
  <2>2. QED BY <2>1 DEF Placed, Set
<1>e. env' = env
  BY DEF Store, Fork, Detach, Fault, Works, Relock, AllocPage, NoPage, Valid, Invalid, LockMaster, Master,
         Fill, FillFails, Share, Writes, CowWritten, Map, MapTable, Dup, Dupd, Copies, Copied, Forked, Drops, Dropped, Deref,
         FreeSlot, Yields, Unshared, Leaves, LeftMaster, FreeVas
<1>1. CASE \A u \in Thread \ {t} : th'[u] = th[u]
  BY <1>1, <1>e, QuietOthers
<1>2. CASE \/ Store(t) \/ Fork(t) \/ Relock(t) \/ AllocPage(t) \/ NoPage(t) \/ Valid(t) \/ Invalid(t)
           \/ Master(t) \/ Fill(t) \/ Writes(t) \/ Dupd(t) \/ Deref(t) \/ Leaves(t)
  <2>1. \A u \in Thread \ {t} : th'[u] = th[u]
    BY <1>0, <1>2 DEF Store, Fork, Relock, AllocPage, NoPage, Valid, Invalid, Master, Fill, Writes, CowWritten, Dupd, Deref,
         Leaves, LeftMaster, Go
  <2>2. QED BY <1>1, <2>1
<1>3. CASE Detach(t) \/ (\E w \in BOOLEAN : Fault(t, w)) \/ LockMaster(t) \/ Dup(t)
  <2>1. \A u \in Thread \ {t} : th'[u] = th[u]
    BY <1>0, <1>3 DEF Detach, Fault, LockMaster, Dup, Go, Lock
  <2>2. QED BY <1>1, <2>1
<1>4. CASE Share(t) \/ Yields(t)
  <2>1. /\ \A u \in Waiters(File) : \E s \in Set : u \in Waiters(s)
        /\ \A u \in Thread \ {t} : th'[u] = Wake(th, Waiters(File))[u]
    BY <1>0, <1>4 DEF Share, Yields, Unshared, Wake
  <2>2. QED BY <1>e, <2>1, WakeOthers DEF Wake
<1>5. CASE MapTable(t) \/ Map(t) \/ Copies(t) \/ Drops(t)
  <2>1. Own(t) \in Set
    BY <1>0, <1>5 DEF MapTable, Map, Copies, Copied, Drops, Dropped, At
  <2>2. CASE \A u \in Thread \ {t} : th'[u] = th[u]
    BY <1>1, <2>2
  <2>3. CASE \A u \in Thread \ {t} : th'[u] = Wake(th, Waiters(Own(t)))[u]
    BY <1>e, <2>1, <2>3, WakeOthers DEF Wake
  <2>4. CASE MapTable(t) \/ Map(t)
    BY <1>0, <2>2, <2>3, <2>4 DEF MapTable, Map, Translate, Wake
  <2>5. CASE Copies(t) \/ Drops(t)
    BY <1>0, <2>2, <2>3, <2>5 DEF Copies, Copied, Drops, Dropped, Wake
  <2>6. QED BY <1>5, <2>4, <2>5
<1>6. CASE FillFails(t)
  <2>1. PICK H : H \subseteq Set /\ FreePage([Wake(th, UNION {Waiters(s) : s \in H}) EXCEPT ![t] = User], th[t].f)
    <3>1. Own(t) \in Set
      BY <1>0, <1>6 DEF FillFails, At
    <3>2. QED BY <1>0, <1>6, <3>1 DEF FillFails
  <2>2. PICK g : g = [Wake(th, UNION {Waiters(s) : s \in H}) EXCEPT ![t] = User]
    OBVIOUS
  <2>3. \A u \in Thread \ {t} :
            g[u] = th[u] \/ (u \in UNION {Waiters(s) : s \in H} /\ g[u] = Woken(th[u]))
    BY <2>2 DEF Wake
  <2>4. \A u \in UNION {Waiters(s) : s \in H} : \E s \in Set : u \in Waiters(s)
    BY <2>1
  <2>5. \E f : FreePage(g, f)
    BY <2>1, <2>2
  <2>6. QED BY <1>e, <2>3, <2>4, <2>5, WakeOthers
<1>7. CASE FreeSlot(t)
  <2>1. CASE Lock(th, t, File, "unshare")
    BY <1>0, <1>1, <2>1 DEF Lock
  <2>2. CASE \E f : FreePage(Go(t, "fpset"), f)
    <3>1. \A u \in Thread \ {t} : Go(t, "fpset")[u] = th[u]
      BY <1>0 DEF Go
    <3>2. \A u \in {} : \E s \in Set : u \in Waiters(s)
      OBVIOUS
    <3>3. QED BY <1>e, <2>2, <3>1, <3>2, WakeOthers
  <2>3. CASE th' = Go(t, "fpset")
    BY <1>0, <1>1, <2>3 DEF Go
  <2>4. QED BY <1>7, <2>1, <2>2, <2>3 DEF FreeSlot
<1>8. CASE FreeVas(t)
  <2>1. PICK r : r = [User EXCEPT !.pc = "gone"]
    OBVIOUS
  <2>2. CASE \E f : FreePage([th EXCEPT ![t] = r], f)
    <3>1. \A u \in Thread \ {t} : [th EXCEPT ![t] = r][u] = th[u]
      BY <1>0
    <3>2. \A u \in {} : \E s \in Set : u \in Waiters(s)
      OBVIOUS
    <3>3. QED BY <1>e, <2>2, <3>1, <3>2, WakeOthers
  <2>3. CASE th' = [th EXCEPT ![t] = r]
    BY <1>0, <1>1, <2>3
  <2>4. QED BY <1>8, <2>1, <2>2, <2>3 DEF FreeVas
<1>9. QED BY <1>e, <1>2, <1>3, <1>4, <1>5, <1>6, <1>7, <1>8 DEF Works

-----------------------------------------------------------------------------
(* How the parts of RInv are kept                                           *)

(* A reference in flight is that of the thread that has the slot. *)
LEMMA FliesHas ==
    ASSUME NEW t, NEW s
    PROVE  (Flies(t, s) => s \in Has(t)) /\ (Flies(t, s)' => s \in Has(t)')
BY DEF Flies, Has, HasOwn, HasMaster, Allocs

LEMMA RemapsHas ==
    ASSUME NEW t
    PROVE  Remaps(t) => Own(t) \in Has(t)
BY DEF Remaps, Has, HasOwn, Allocs

(* What RInv says of thread u is what it was. *)
Alike(u) ==
    /\ \A s : Flies(u, s)' <=> Flies(u, s)
    /\ Remaps(u)' <=> Remaps(u)
    /\ Allocs(u, "tab")' <=> Allocs(u, "tab")
    /\ Own(u)' = Own(u)
    /\ Ends(u)' <=> Ends(u)
    /\ Unshares(u)' <=> Unshares(u)
    /\ th'[u].pc = "fpset" <=> th[u].pc = "fpset"
    /\ Ends(u) => th'[u].d = th[u].d

LEMMA SameAlike ==
    ASSUME NEW u, Same(u)
    PROVE  Alike(u)
<1>1. /\ Own(u)' = Own(u)
      /\ th'[u].pc = "map" <=> th[u].pc = "map"
      /\ th'[u].pc = "share" <=> th[u].pc = "share"
      /\ th'[u].pc = "fpset" <=> th[u].pc = "fpset"
      /\ Allocs(u, "tab")' <=> Allocs(u, "tab")
      /\ Allocs(u, "write")' <=> Allocs(u, "write")
      /\ Ends(u)' <=> Ends(u)
      /\ Unshares(u)' <=> Unshares(u)
      /\ th'[u].d = th[u].d
  BY DEF Same
<1>2. QED BY <1>1 DEF Alike, Flies, Remaps

(* A step of t, or of nobody when t is no thread. *)
Rest(t) == \A u \in Thread \ {t} : Alike(u)

LEMMA OthersRest ==
    ASSUME NEW t, Others({t})
    PROVE  Rest(t)
BY SameAlike DEF Others, Rest

LEMMA Nobody == \E t : t \notin Thread
<1>1. {x \in Thread : x \notin x} \notin Thread
  OBVIOUS
<1>2. QED BY <1>1

LEMMA FlightStep ==
    ASSUME IInv, IInv', NEW t, Rest(t), NEW s \in Set
    PROVE  Flight(s)' = Flight(s) + Fly(t, s)' - Fly(t, s)
<1>1. \A u \in Thread \ {t} : Flies(u, s)' <=> Flies(u, s)
  BY Zenon DEF Rest, Alike
<1>2. ASSUME NEW u \in Thread \ {t}, t \in Thread PROVE ~ (Flies(u, s) /\ Flies(t, s))
  <2>1. s \in Has(t) /\ s \in Has(u) => t = u
    BY <1>2 DEF IInv, Locked
  <2>2. QED BY <1>2, <2>1, FliesHas
<1>3. ASSUME NEW u \in Thread \ {t}, t \in Thread PROVE ~ (Flies(u, s)' /\ Flies(t, s)')
  <2>1. s \in Has(t)' /\ s \in Has(u)' => t = u
    BY <1>3 DEF IInv, Locked
  <2>2. QED BY <1>3, <2>1, FliesHas
<1>4. QED BY <1>1, <1>2, <1>3 DEF Flight, Fly

(* 1 if c shares the file's page. *)
Sh(c) == IF c \in Cow /\ Shared(c) THEN 1 ELSE 0

LEMMA SharersStep ==
    ASSUME NEW c, \A x \in Cow \ {c} : Shared(x)' <=> Shared(x)
    PROVE  /\ Cardinality(Sharers)' = Cardinality(Sharers) + Sh(c)' - Sh(c)
           /\ Cardinality(Sharers) \in Nat /\ IsFiniteSet(Sharers)
<1> DEFINE S == Sharers
           T == Sharers'
<1>1. /\ \A x : x # c => (x \in T <=> x \in S)
      /\ c \in S <=> Sh(c) = 1
      /\ c \in T <=> Sh(c)' = 1
      /\ Sh(c) \in {0, 1} /\ Sh(c)' \in {0, 1}
  BY DEF Sharers, Sh
<1>2. IsFiniteSet(S) /\ Cardinality(S) \in Nat
  BY FiniteAssumption, FS_Subset, FS_CardinalityType DEF Sharers
<1> HIDE DEF S, T
<1>3. CASE c \in S <=> c \in T
  <2>1. S = T
    BY <1>1, <1>3
  <2>2. QED BY <1>1, <1>2, <1>3, <2>1 DEF S, T
<1>4. CASE c \in S /\ c \notin T
  <2>1. T = S \ {c}
    BY <1>1, <1>4
  <2>2. Cardinality(T) = Cardinality(S) - 1
    BY <1>2, <1>4, <2>1, FS_RemoveElement
  <2>3. QED BY <1>1, <1>2, <1>4, <2>2 DEF S, T
<1>5. CASE c \notin S /\ c \in T
  <2>1. T = S \cup {c}
    BY <1>1, <1>5
  <2>2. Cardinality(T) = Cardinality(S) + 1
    BY <1>2, <1>5, <2>1, FS_AddElement
  <2>3. QED BY <1>1, <1>2, <1>5, <2>2 DEF S, T
<1>6. QED BY <1>3, <1>4, <1>5

(* What RInv says of a slot without references. *)
LEMMA NoRefs ==
    ASSUME IInv, Exact, NEW s \in Set
    PROVE  /\ slot[s].refs >= 0
           /\ slot[s].refs = 0 => /\ atl[s] = 0 /\ \A t \in Thread : ~ Flies(t, s)
                                  /\ s = File => \A c \in Cow : ~ Shared(c)
<1>1. atl[s] \in Nat /\ Flight(s) \in {0, 1}
  BY DEF IInv, Types, Flight
<1>2. IsFiniteSet(Sharers) /\ Cardinality(Sharers) \in Nat
  BY FiniteAssumption, FS_Subset, FS_CardinalityType DEF Sharers
<1>3. Shares(s) \in Nat /\ (Shares(s) = 0 /\ s = File => Sharers = {})
  BY <1>2, FS_EmptySet DEF Shares
<1>4. slot[s].refs = atl[s] + Flight(s) + Shares(s)
  BY DEF Exact
<1>5. slot[s].refs >= 0 /\ (slot[s].refs = 0 => atl[s] = 0 /\ Flight(s) = 0 /\ Shares(s) = 0)
  BY <1>1, <1>3, <1>4
<1>6. QED BY <1>3, <1>5 DEF Flight, Sharers

LEMMA ExactStep ==
    ASSUME IInv, IInv', Exact, NEW t, Rest(t), NEW c,
           \A x \in Cow \ {c} : Shared(x)' <=> Shared(x),
           \A s \in Set : slot'[s].refs = slot[s].refs + (atl'[s] - atl[s])
                              + (Fly(t, s)' - Fly(t, s))
                              + (IF s = File THEN Sh(c)' - Sh(c) ELSE 0)
    PROVE  Exact'
<1>1. SUFFICES ASSUME NEW s \in Set
               PROVE  slot'[s].refs = atl'[s] + Flight(s)' + Shares(s)'
  BY DEF Exact
<1>2. /\ atl[s] \in Nat /\ atl'[s] \in Nat /\ Flight(s) \in Int
      /\ Fly(t, s) \in Int /\ Fly(t, s)' \in Int /\ Sh(c) \in Int /\ Sh(c)' \in Int
  BY DEF IInv, Types, Flight, Fly, Sh
<1>3. Flight(s)' = Flight(s) + Fly(t, s)' - Fly(t, s)
  BY FlightStep
<1>4. /\ Shares(s)' = Shares(s) + (IF s = File THEN Sh(c)' - Sh(c) ELSE 0)
      /\ Shares(s) \in Int
  BY <1>2, SharersStep DEF Shares
<1>5. slot[s].refs = atl[s] + Flight(s) + Shares(s)
  BY DEF Exact
<1>6. slot'[s].refs = slot[s].refs + (atl'[s] - atl[s]) + (Fly(t, s)' - Fly(t, s))
                              + (IF s = File THEN Sh(c)' - Sh(c) ELSE 0)
  OBVIOUS
<1>7. QED BY <1>2, <1>3, <1>4, <1>5, <1>6

(* The translation of s is gone, about to be written, as it was, or right.  *)
Kept(t, s) ==
    \/ pt'[s].f = None
    \/ t \in Thread /\ Own(t) = s /\ Remaps(t)'
    \/ /\ pt'[s].f = pt[s].f /\ pt'[s].w = pt[s].w /\ atl'[s] >= atl[s]
       /\ slot'[s].f = slot[s].f /\ slot'[s].cow = slot[s].cow
       /\ t \in Thread /\ Own(t) = s /\ Remaps(t) => Remaps(t)'
    \/ atl'[s] > 0 /\ pt'[s].f = slot'[s].f /\ (pt'[s].w => ~ slot'[s].cow)

LEMMA MappedStep ==
    ASSUME IInv, IInv', Mapped, NEW t, Rest(t), env' = env,
           \A s \in Set : Kept(t, s), \A s \in Set : \/ atl'[s] >= atl[s] \/ (t \in Thread /\ s \in Has(t))
                         \/ \A u \in Thread : s \notin Has(u),
           t \in Thread /\ Allocs(t, "tab")' => atl'[Own(t)] > 0
    PROVE  Mapped'
<1>1. \A u \in Thread \ {t} : /\ Remaps(u)' <=> Remaps(u)
                              /\ Allocs(u, "tab")' <=> Allocs(u, "tab")
  BY Zenon DEF Rest, Alike
<1>2. \A u : Own(u)' = Own(u)
  BY DEF Own
<1>3. \A s \in Set : atl[s] \in Nat /\ atl'[s] \in Nat
  BY DEF IInv, Types
<1>4. ASSUME NEW s \in Set, pt'[s].f # None, ~ Remapped(s)'
      PROVE  atl'[s] > 0 /\ pt'[s].f = slot'[s].f /\ (pt'[s].w => ~ slot'[s].cow)
  <2>1. \A u \in Thread : Own(u) = s => ~ Remaps(u)'
    BY <1>2, <1>4 DEF Remapped
  <2>2. Kept(t, s)
    OBVIOUS
  <2>3. CASE /\ pt'[s].f = pt[s].f /\ pt'[s].w = pt[s].w /\ atl'[s] >= atl[s]
             /\ slot'[s].f = slot[s].f /\ slot'[s].cow = slot[s].cow
             /\ t \in Thread /\ Own(t) = s /\ Remaps(t) => Remaps(t)'
    <3>1. ~ Remapped(s)
      BY <1>1, <2>1, <2>3 DEF Remapped
    <3>2. atl[s] > 0 /\ pt[s].f = slot[s].f /\ (pt[s].w => ~ slot[s].cow)
      BY <1>4, <2>3, <3>1 DEF Mapped
    <3>3. QED BY <1>3, <2>3, <3>2
  <2>4. QED BY <1>4, <2>1, <2>2, <2>3 DEF Kept
<1>5. ASSUME NEW u \in Thread, Allocs(u, "tab")' PROVE atl'[Own(u)] > 0
  <2>1. CASE u = t
    BY <1>5, <2>1
  <2>2. CASE u # t
    <3>1. Allocs(u, "tab")
      BY <1>1, <1>5, <2>2
    <3>2. Own(u) \in Set /\ Own(u) \in Has(u)
      BY <3>1 DEF IInv, Placed, Allocs, Has, HasOwn
    <3>3. ~ (t \in Thread /\ Own(u) \in Has(t))
      BY <2>2, <3>2 DEF IInv, Locked
    <3>4. atl[Own(u)] > 0 /\ atl'[Own(u)] >= atl[Own(u)]
      BY <3>1, <3>2, <3>3 DEF Mapped
    <3>5. QED BY <1>3, <3>2, <3>4
  <2>3. QED BY <2>1, <2>2
<1>6. QED BY <1>2, <1>4, <1>5 DEF Mapped

(* The slots of sets that go are left alone, but by who makes them go. *)
LeftAlone(t, x) ==
    \/ refs[x] > 0
    \/ slot'[x].refs = slot[x].refs /\ slot'[x].v = slot[x].v /\ slot'[x].cow = slot[x].cow
    \/ /\ slot'[x].refs = 0 /\ ~ slot'[x].v
       /\ \A u \in Thread \ {t} : Unshares(u) => Own(u) # x
    \/ \A u \in Thread \ {t} : Ends(u) => th[u].d # x

LEMMA EndedStep ==
    ASSUME IInv, Ended, NEW t, Rest(t), panic = "none", env' = env,
           \A x \in Set : LeftAlone(t, x), t \in Thread /\ panic' = "none" => EndsWell(t)'
    PROVE  Ended'
<1>1. SUFFICES ASSUME panic' = "none", NEW u \in Thread \ {t} PROVE EndsWell(u)'
  BY DEF Ended
<1>2. /\ Ends(u)' <=> Ends(u)
      /\ Unshares(u)' <=> Unshares(u)
      /\ th'[u].pc = "fpset" <=> th[u].pc = "fpset"
      /\ Ends(u) => th'[u].d = th[u].d
      /\ Own(u)' = Own(u)
  BY DEF Rest, Alike
<1>3. EndsWell(u) /\ Placed(u) /\ Referred /\ refs \in [Set -> Nat]
  BY DEF Ended, IInv, Types
<1>4. CASE Ends(u)
  <2>1. th[u].d \in Set /\ refs[th[u].d] = 0
    BY <1>3, <1>4 DEF Placed, Ends, Unshares, Asks, Set, Referred
  <2>2. Unshares(u) => th[u].d = Own(u)
    BY <1>3 DEF Placed
  <2>3. LeftAlone(t, th[u].d) /\ ~ (refs[th[u].d] > 0)
    BY <2>1
  <2>4. PICK d : d = th[u].d
    OBVIOUS
  <2>5. th'[u].d = d /\ d \in Set /\ LeftAlone(t, d) /\ ~ (refs[d] > 0)
    BY <1>2, <1>4, <2>1, <2>3, <2>4
  <2>6. /\ slot[d].refs = 0 /\ (Unshares(u) => Shared(d) /\ d = Own(u))
        /\ th[u].pc = "fpset" => ~ Shared(d)
    BY <1>3, <1>4, <2>2, <2>4 DEF EndsWell
  <2>7. CASE slot'[d].refs = slot[d].refs /\ slot'[d].v = slot[d].v /\ slot'[d].cow = slot[d].cow
    BY <1>2, <2>5, <2>6, <2>7 DEF EndsWell, Shared
  <2>8. CASE slot'[d].refs = 0 /\ ~ slot'[d].v /\ ~ Unshares(u)
    BY <1>2, <2>5, <2>6, <2>8 DEF EndsWell, Shared
  <2>9. ~ (\A x \in Thread \ {t} : Ends(x) => th[x].d # d)
    BY <1>4, <2>4
  <2>10. QED BY <2>5, <2>6, <2>7, <2>8, <2>9 DEF LeftAlone
<1>5. CASE ~ Ends(u)
  BY <1>2, <1>5 DEF EndsWell, Ends
<1>6. QED BY <1>4, <1>5

LEMMA ActStep ==
    ASSUME IInv, IInv', RInv, NEW t, Rest(t), panic = "none", env' = env, NEW c,
           \A x \in Cow \ {c} : Shared(x)' <=> Shared(x),
           \A s \in Set : slot'[s].refs = slot[s].refs + (atl'[s] - atl[s])
                              + (Fly(t, s)' - Fly(t, s))
                              + (IF s = File THEN Sh(c)' - Sh(c) ELSE 0),
           \A s \in Set : ~ slot'[s].v => slot'[s].refs = 0,
           \A s \in Set : Kept(t, s),
           \A s \in Set : \/ atl'[s] >= atl[s] \/ (t \in Thread /\ s \in Has(t))
                         \/ \A u \in Thread : s \notin Has(u),
           t \in Thread /\ Allocs(t, "tab")' => atl'[Own(t)] > 0,
           \A x \in Cow : Shared(x)' => x \in cowsets' /\ slot'[x].f = slot'[File].f,
           \A x \in Set : LeftAlone(t, x),
           t \in Thread /\ panic' = "none" => EndsWell(t)'
    PROVE  RInv'
<1>1. Exact /\ Mapped /\ Ended
  BY DEF RInv
<1>2. Exact'
  BY <1>1, ExactStep
<1>3. Mapped'
  BY <1>1, MappedStep
<1>4. Ended'
  BY <1>1, EndedStep
<1>5. Empty' /\ Sharing'
  BY DEF Empty, Sharing, Sharers
<1>6. QED BY <1>2, <1>3, <1>4, <1>5 DEF RInv

(* A slot without references has no translation. *)
LEMMA NotMapped ==
    ASSUME IInv, RInv, NEW s \in Set, slot[s].refs = 0
    PROVE  pt[s].f = None /\ atl[s] = 0 /\ \A t \in Thread : Own(t) = s => ~ Remaps(t)
<1>1. atl[s] = 0 /\ \A t \in Thread : ~ Flies(t, s)
  BY NoRefs DEF RInv
<1>2. \A t \in Thread : Own(t) = s => ~ Remaps(t)
  <2>1. \A t \in Thread : Allocs(t, "tab") => atl[Own(t)] > 0
    BY DEF RInv, Mapped
  <2>2. QED BY <1>1, <2>1 DEF Remaps, Flies
<1>3. pt[s].f = None
  BY <1>1, <1>2 DEF RInv, Mapped, Remapped
<1>4. QED BY <1>1, <1>2, <1>3

(* Such a slot is not one that a thread has locked. *)
LEMMA HasAlone ==
    ASSUME IInv, NEW t \in Thread, NEW x \in Has(t)
    PROVE  x \in Set /\ refs[x] > 0
<1>1. Referred /\ Listed /\ Placed(t) /\ th[t] \in ThreadState
  BY DEF IInv, Types
<1>2. QED BY <1>1, LocksInUse

(* A step of t that changes no slot and no translation. *)
LEMMA NoSlot ==
    ASSUME IInv, IInv', RInv, NEW t, Rest(t), panic = "none", env' = env,
           \A s \in Set : /\ slot'[s].v = slot[s].v /\ slot'[s].cow = slot[s].cow
                          /\ slot'[s].f = slot[s].f /\ slot'[s].refs = slot[s].refs
                          /\ pt'[s].f = pt[s].f /\ pt'[s].w = pt[s].w,
           atl' = atl, \A c \in Cow : Shared(c) => c \in cowsets',
           t \in Thread => /\ \A s \in Set : Flies(t, s)' <=> Flies(t, s)
                           /\ Remaps(t)' <=> Remaps(t)
                           /\ Allocs(t, "tab")' => Allocs(t, "tab"), t \in Thread /\ panic' = "none" => EndsWell(t)'
    PROVE  RInv'
<1>1. /\ \A s \in Set : atl[s] \in Nat /\ slot[s].refs \in Int /\ File \in Set
      /\ \A c \in Cow : c \in Set
  BY DEF IInv, Types, Slot, Set
<1>2. \A c \in Cow : Shared(c)' <=> Shared(c)
  BY <1>1 DEF Shared
<1>3. Exact'
  <2>1. \A s \in Set : Fly(t, s)' = Fly(t, s) /\ Fly(t, s) \in Int
    BY DEF Fly
  <2>2. Sh(None)' = Sh(None) /\ Sh(None) \in Int
    BY <1>2 DEF Sh
  <2>3. \A s \in Set : slot'[s].refs = slot[s].refs + (atl'[s] - atl[s])
                              + (Fly(t, s)' - Fly(t, s))
                              + (IF s = File THEN Sh(None)' - Sh(None) ELSE 0)
    BY <1>1, <2>1, <2>2
  <2>4. QED BY <1>2, <2>3, ExactStep DEF RInv
<1>4. Mapped'
  <2>1. \A s \in Set : Kept(t, s) /\ atl'[s] >= atl[s]
    BY <1>1 DEF Kept
  <2>2. t \in Thread /\ Allocs(t, "tab")' => atl'[Own(t)] > 0
    BY DEF RInv, Mapped
  <2>3. QED BY <2>1, <2>2, MappedStep DEF RInv
<1>5. Sharing'
  BY <1>1, <1>2 DEF RInv, Sharing, Sharers
<1>6. Ended'
  BY EndedStep DEF RInv, LeftAlone
<1>7. Empty'
  BY DEF RInv, Empty
<1>8. QED BY <1>3, <1>4, <1>5, <1>6, <1>7 DEF RInv

-----------------------------------------------------------------------------
(* Steps that touch no reference                                            *)

(* Nothing of thread t is in flight. *)
Calm(t) == /\ th[t].pc \notin {"map", "share"}
           /\ ~ Allocs(t, "write") /\ ~ Allocs(t, "tab")

LEMMA CalmIs ==
    ASSUME NEW t
    PROVE  /\ Calm(t) => (\A s : ~ Flies(t, s)) /\ ~ Remaps(t) /\ ~ Allocs(t, "tab")
           /\ Calm(t)' => (\A s : ~ Flies(t, s)') /\ ~ Remaps(t)' /\ ~ Allocs(t, "tab")'
           /\ ~ Ends(t)' => EndsWell(t)'
BY DEF Calm, Flies, Remaps, EndsWell, Ends

LEMMA CalmStep ==
    ASSUME IInv, IInv', RInv, NEW t \in Thread, Others({t}), panic = "none", env' = env,
           slot' = slot, atl' = atl, Calm(t), Calm(t)',
           \A s \in Set : pt'[s].f = pt[s].f /\ pt'[s].w = pt[s].w,
           \A c \in Cow : Shared(c) => c \in cowsets',
           ~ Ends(t)' \/ (panic' = "none" => EndsWell(t)')
    PROVE  RInv'
BY OthersRest, CalmIs, NoSlot

(* cowsets loses no set that shares. *)
LEMMA ListKept ==
    ASSUME RInv, cowsets \subseteq cowsets'
    PROVE  \A c \in Cow : Shared(c) => c \in cowsets'
BY DEF RInv, Sharing, Sharers

LEMMA QuietRefs ==
    ASSUME IInv, IInv', RInv, NEW t \in Thread,
           \/ Store(t) \/ Fork(t) \/ Invalid(t) \/ Dupd(t) \/ FillFails(t) \/ FreeVas(t)
    PROVE  RInv'
<1>1. /\ th \in [Thread -> ThreadState] /\ th[t] \in ThreadState
      /\ pt \in [Set -> [f : Frame \cup {None}, w : BOOLEAN, m : BOOLEAN]]
      /\ Placed(t) /\ th' \in [Thread -> ThreadState]
  BY DEF IInv, Types
<1>2. Others({t}) /\ env' = env
  <2>1. FreeVas(t) => ~ Forked(t)
    BY DEF FreeVas, Forked, At
  <2>2. Invalid(t) \/ Dupd(t) \/ FillFails(t) => ~ Forked(t)
    BY DEF Invalid, Dupd, FillFails, Forked, At
  <2>3. QED BY <2>1, <2>2, StepOthers DEF Works
<1>3. /\ panic = "none" /\ slot' = slot /\ atl' = atl /\ cowsets \subseteq cowsets'
      /\ \A s \in Set : pt'[s].f = pt[s].f /\ pt'[s].w = pt[s].w
  <2>1. CASE Store(t)
    BY <1>1, <2>1 DEF Store, At, Run, sets
  <2>2. CASE Fork(t)
    BY <2>2 DEF Fork, At, Run, maps
  <2>3. CASE Invalid(t) \/ Dupd(t) \/ FillFails(t)
    BY <2>3 DEF Invalid, Dupd, FillFails, At, Run, sets, maps
  <2>4. CASE FreeVas(t)
    BY <2>4 DEF FreeVas, At, Run, sets
  <2>5. QED BY <2>1, <2>2, <2>3, <2>4
<1>4. Calm(t)
  BY DEF Calm, Allocs, Store, Fork, Invalid, Dupd, FillFails, FreeVas, At
<1>5. Calm(t)' /\ ~ Ends(t)'
  <2>1. CASE Store(t) \/ Fork(t) \/ Invalid(t) \/ Dupd(t)
    <3>1. th'[t].pc \in {"user", "dup", "forked"}
          \/ (th'[t].pc = "alloc" /\ th'[t].why \in {"fill", "copy"})
      <4>0. CASE Store(t)
        BY <4>0 DEF Store, At
      <4>1. CASE Fork(t)
        <5>1. th' = [th EXCEPT ![t].pc = "dup"]
          BY <4>1 DEF Fork, Go
        <5>2. QED BY <1>1, <5>1
      <4>2. CASE Invalid(t)
        BY <1>1, <4>2 DEF Invalid, At
      <4>3. CASE Dupd(t)
        BY <1>1, <4>3 DEF Dupd, Go, At
      <4>4. QED BY <2>1, <4>0, <4>1, <4>2, <4>3
    <3>2. QED BY <3>1 DEF Calm, Allocs, Ends, Unshares, Asks
  <2>2. CASE FillFails(t) \/ FreeVas(t)
    <3>1. th'[t].pc \in {"user", "gone"}
      <4>1. t \notin VWakes(memw)
        BY <2>2, AwakeIs DEF FillFails, FreeVas, At
      <4>2. \A g, f : FreePage(g, f) => th'[t] = g[t]
        BY <4>1 DEF FreePage, Wake
      <4>3. CASE FillFails(t)
        <5>1. PICK g, f : FreePage(g, f) /\ g[t] = User
          <6>1. PICK W : FreePage([Wake(th, W) EXCEPT ![t] = User], th[t].f)
            BY <4>3 DEF FillFails
          <6>2. [Wake(th, W) EXCEPT ![t] = User][t] = User
            BY DEF Wake
          <6>3. QED BY <6>1, <6>2
        <5>2. QED BY <4>2, <5>1 DEF User
      <4>4. CASE FreeVas(t)
        <5>1. [th EXCEPT ![t] = [User EXCEPT !.pc = "gone"]][t].pc = "gone"
          BY <1>1 DEF User
        <5>2. PICK g : g = [th EXCEPT ![t] = [User EXCEPT !.pc = "gone"]]
          OBVIOUS
        <5>3. th' = g \/ \E f : FreePage(g, f)
          BY <4>4, <5>2 DEF FreeVas
        <5>4. QED BY <4>2, <5>1, <5>2, <5>3
      <4>5. QED BY <2>2, <4>3, <4>4
    <3>2. QED BY <3>1 DEF Calm, Allocs, Ends, Unshares, Asks
  <2>3. QED BY <2>1, <2>2
<1>6. QED BY <1>2, <1>3, <1>4, <1>5, CalmStep, ListKept

(* A first look at a slot lock. *)
LEMMA LookIs ==
    ASSUME NEW t \in Thread, NEW g, DOMAIN g = Thread, NEW s, NEW next, Lock(g, t, s, next),
           DOMAIN g[t] = {"pc", "w", "ls", "to", "f", "why", "d"}
    PROVE  /\ (th'[t].pc = "lkw" /\ th'[t].to = next) \/ th'[t].pc = next
           /\ th'[t].d = g[t].d /\ th'[t].why = g[t].why /\ th'[t].w = g[t].w
BY DEF Lock

LEMMA LookRefs ==
    ASSUME IInv, IInv', RInv, NEW t \in Thread,
           \/ Detach(t) \/ LockMaster(t) \/ Dup(t)
           \/ \E w \in BOOLEAN : Fault(t, w)
    PROVE  RInv'
<1>1. /\ th \in [Thread -> ThreadState] /\ th[t] \in ThreadState
      /\ DOMAIN th[t] = {"pc", "w", "ls", "to", "f", "why", "d"}
  BY DEF IInv, Types, ThreadState
<1>2. Others({t}) /\ env' = env
  <2>1. LockMaster(t) \/ Dup(t) => ~ Forked(t)
    BY DEF LockMaster, Dup, Forked, At
  <2>2. QED BY <2>1, StepOthers DEF Works
<1>3. /\ panic = "none" /\ slot' = slot /\ atl' = atl /\ cowsets' = cowsets /\ pt' = pt
      /\ th[t].pc \in {"user", "slot", "dup"}
  BY DEF Detach, LockMaster, Dup, Fault, At, Run, sets, maps
<1>4. Calm(t)
  BY <1>3 DEF Calm, Allocs
<1>5. th'[t].pc \in {"slot", "master", "det", "dupd", "forked", "deref"}
      \/ (th'[t].pc = "lkw" /\ th'[t].to \in {"slot", "master", "det", "dupd"})
  <2>1. ASSUME NEW w \in BOOLEAN, Fault(t, w) 
        PROVE  th'[t].pc = "slot" \/ (th'[t].pc = "lkw" /\ th'[t].to = "slot")
    <3>1. PICK g : g = [th EXCEPT ![t].w = w]
      OBVIOUS
    <3>2. DOMAIN g = Thread /\ DOMAIN g[t] = {"pc", "w", "ls", "to", "f", "why", "d"}
      BY <1>1, <3>1
    <3>3. Lock(g, t, Own(t), "slot")
      BY <2>1, <3>1 DEF Fault
    <3>4. QED BY <3>2, <3>3, LookIs
  <2>2. CASE Detach(t)
    <3>1. PICK g : g = [th EXCEPT ![t].d = Own(t)]
      OBVIOUS
    <3>2. DOMAIN g = Thread /\ DOMAIN g[t] = {"pc", "w", "ls", "to", "f", "why", "d"}
      BY <1>1, <3>1
    <3>3. \/ Lock(g, t, Own(t), "det")
          \/ th' = [th EXCEPT ![t].pc = "deref", ![t].d = Own(t)]
      BY <2>2, <3>1 DEF Detach
    <3>4. QED BY <1>1, <3>2, <3>3, LookIs
  <2>3. CASE LockMaster(t)
    BY <1>1, <2>3, LookIs DEF LockMaster
  <2>4. CASE Dup(t)
    <3>1. Lock(th, t, Own(t), "dupd") \/ th' = Go(t, "forked")
      BY <2>4 DEF Dup
    <3>2. QED BY <1>1, <3>1, LookIs DEF Go
  <2>5. QED BY <2>1, <2>2, <2>3, <2>4
<1>6. Calm(t)' /\ ~ Ends(t)'
  BY <1>5 DEF Calm, Allocs, Ends, Unshares, Asks
<1>7. QED BY <1>2, <1>3, <1>4, <1>6, CalmStep, ListKept

LEMMA RelockRefs ==
    ASSUME IInv, IInv', RInv, NEW t \in Thread, Relock(t)
    PROVE  RInv'
<1>1. /\ th \in [Thread -> ThreadState] /\ th[t] \in ThreadState /\ Placed(t) /\ EndsWell(t)
  BY DEF IInv, Types, RInv, Ended, Relock, At, Run
<1>2. Others({t}) /\ env' = env
  <2>1. ~ Forked(t)
    BY DEF Relock, Forked, At
  <2>2. QED BY <2>1, StepOthers DEF Works
<1>3. /\ panic = "none" /\ slot' = slot /\ atl' = atl /\ cowsets' = cowsets /\ pt' = pt
      /\ th[t].pc = "lk" /\ th' = Go(t, IF lk[th[t].ls].held THEN "lkw" ELSE th[t].to)
  BY DEF Relock, At, Run, sets, maps
<1>4. /\ th'[t].d = th[t].d /\ th'[t].to = th[t].to
      /\ th'[t].pc = "lkw" \/ th'[t].pc = th[t].to
      /\ th[t].to \in {"slot", "master", "dupd", "det", "unshare"}
  BY <1>1, <1>3 DEF Go, Placed, ThreadState
<1>5. Calm(t) /\ Calm(t)'
  BY <1>3, <1>4 DEF Calm, Allocs
<1>6. EndsWell(t)'
  <2>1. Unshares(t)' => Unshares(t)
    BY <1>3, <1>4 DEF Unshares, Asks
  <2>2. Ends(t)' => Unshares(t) /\ Ends(t)
    BY <1>4, <2>1 DEF Ends
  <2>3. QED BY <1>1, <1>2, <1>3, <1>4, <2>1, <2>2 DEF EndsWell, Shared, Own
<1>7. QED BY <1>2, <1>3, <1>5, <1>6, CalmStep, ListKept

LEMMA PageRefs ==
    ASSUME IInv, IInv', RInv, NEW t \in Thread, AllocPage(t) \/ NoPage(t)
    PROVE  RInv'
<1>1. /\ th \in [Thread -> ThreadState] /\ th[t] \in ThreadState
  BY DEF IInv, Types
<1>2. Others({t}) /\ env' = env
  <2>1. ~ Forked(t)
    BY DEF AllocPage, NoPage, Forked, At
  <2>2. QED BY <2>1, StepOthers DEF Works
<1>3. /\ panic = "none" /\ slot' = slot /\ atl' = atl /\ cowsets' = cowsets /\ pt' = pt
      /\ th[t].pc = "alloc"
  BY DEF AllocPage, NoPage, At, Run, sets, maps
<1>4. th'[t].pc \in {"got", "memw"} /\ th'[t].why = th[t].why
  <2>1. CASE AllocPage(t)
    <3>1. PICK f : th' = [th EXCEPT ![t].pc = "got", ![t].f = f]
      BY <2>1 DEF AllocPage
    <3>2. QED BY <1>1, <3>1 DEF ThreadState
  <2>2. CASE NoPage(t)
    <3>1. th' = [th EXCEPT ![t].pc = "memw"]
      BY <2>2 DEF NoPage, Go
    <3>2. QED BY <1>1, <3>1 DEF ThreadState
  <2>3. QED BY <2>1, <2>2
<1>5. /\ \A s : Flies(t, s)' <=> Flies(t, s)
      /\ Remaps(t)' <=> Remaps(t)
      /\ Allocs(t, "tab")' <=> Allocs(t, "tab")
  BY <1>2, <1>3, <1>4 DEF Flies, Remaps, Allocs, Own
<1>6. ~ Ends(t)'
  BY <1>4 DEF Ends, Unshares, Asks
<1>7. QED BY <1>2, <1>3, <1>5, <1>6, NoSlot, OthersRest, ListKept, CalmIs

LEMMA FreePsetRefs ==
    ASSUME IInv, IInv', RInv, NEW t \in Thread, Leaves(t)
    PROVE  RInv'
<1>1. /\ th \in [Thread -> ThreadState] /\ th[t] \in ThreadState /\ Placed(t) /\ EndsWell(t)
  BY DEF IInv, Types, RInv, Ended, Leaves, LeftMaster, At, Run
<1>2. Others({t}) /\ env' = env
  <2>1. ~ Forked(t)
    BY DEF Leaves, LeftMaster, Forked, At
  <2>2. QED BY <2>1, StepOthers DEF Works
<1>3. /\ panic = "none" /\ slot' = slot /\ atl' = atl /\ pt' = pt
      /\ th[t].pc = "fpset" /\ cowsets' = cowsets \ {th[t].d}
      /\ th'[t].pc \in {"deref", "vas"}
  BY <1>1 DEF Leaves, LeftMaster, At, Run, maps
<1>4. Calm(t) /\ Calm(t)' /\ ~ Ends(t)'
  BY <1>3 DEF Calm, Allocs, Ends, Unshares, Asks
<1>5. ASSUME NEW c \in Cow, Shared(c) PROVE c \in cowsets'
  <2>1. c # th[t].d
    BY <1>1, <1>3, <1>5 DEF EndsWell
  <2>2. QED BY <1>3, <1>5, <2>1 DEF RInv, Sharing, Sharers
<1>6. QED BY <1>2, <1>3, <1>4, <1>5, CalmStep

LEMMA DerefRefs ==
    ASSUME IInv, IInv', RInv, NEW t \in Thread, Deref(t)
    PROVE  RInv'
<1>p. PICK s : s = th[t].d
  OBVIOUS
<1>1. /\ th \in [Thread -> ThreadState] /\ th[t] \in ThreadState /\ Placed(t)
      /\ slot \in [Set -> Slot]
  BY DEF IInv, Types
<1>2. Others({t}) /\ env' = env
  <2>1. ~ Forked(t)
    BY DEF Deref, Forked, At
  <2>2. QED BY <2>1, StepOthers DEF Works
<1>3. /\ panic = "none" /\ slot' = slot /\ atl' = atl /\ pt' = pt /\ cowsets' = cowsets
      /\ th[t].pc = "deref" /\ th' = Go(t, IF refs[s] = 1 THEN "free" ELSE "vas")
      /\ panic' = "none" => ~ (refs[s] = 1 /\ slot[s].refs > 0)
  BY <1>p DEF Deref, At, Run, maps
<1>4. th'[t].d = s /\ th'[t].pc = (IF refs[s] = 1 THEN "free" ELSE "vas") /\ s \in Set
  BY <1>p, <1>1, <1>3 DEF Go, Placed, Set
<1>5. Calm(t) /\ Calm(t)'
  BY <1>3, <1>4 DEF Calm, Allocs
<1>6. ASSUME panic' = "none" PROVE EndsWell(t)'
  <2>1. slot[s].refs >= 0 /\ slot[s].refs \in Int
    BY <1>1, <1>4, NoRefs DEF RInv, Slot
  <2>2. Ends(t)' => slot[s].refs = 0
    BY <1>3, <1>4, <1>6, <2>1 DEF Ends, Unshares, Asks
  <2>3. ~ Unshares(t)' /\ th'[t].pc # "fpset"
    BY <1>4 DEF Unshares, Asks
  <2>4. QED BY <1>3, <1>4, <2>2, <2>3 DEF EndsWell
<1>7. QED BY <1>2, <1>3, <1>5, <1>6, CalmStep, ListKept

(* Steps of the page daemon and of output that touch no reference; the      *)
(* parent and the child go on.                                              *)
LEMMA AloneRest ==
    ASSUME IInv, env' = env, th' = th \/ \E s \in Set : th' = Wake(th, Waiters(s))
    PROVE  Others({})
<1>1. ASSUME NEW u \in Thread PROVE Same(u) /\ th'[u].w = th[u].w
  <2>1. th'[u] = th[u] \/ (th'[u] = Woken(th[u]) /\ \E s \in Set : u \in Waiters(s))
    BY DEF Wake
  <2>2. QED BY <2>1, OtherIs
<1>2. QED BY <1>1 DEF Others

LEMMA DaemonQuiet ==
    ASSUME IInv, IInv', RInv,
           \/ Push \/ Spare
           \/ (\E c \in Cow : SkipCow(c))
           \/ (\E s \in Set : IoDone(s))
    PROVE  RInv'
<1>1. /\ slot \in [Set -> Slot] /\ Locked /\ io \subseteq Set
  BY DEF IInv, Types
<1>2. /\ env' = env /\ panic = "none" /\ atl' = atl /\ pt' = pt /\ cowsets' = cowsets /\ panic' = panic
      /\ \A s \in Set : /\ slot'[s].v = slot[s].v /\ slot'[s].cow = slot[s].cow
                        /\ slot'[s].f = slot[s].f /\ slot'[s].refs = slot[s].refs
  <2>1. CASE Spare \/ \E c \in Cow : SkipCow(c)
    BY <2>1 DEF Spare, SkipCow, Run, sets, maps
  <2>2. CASE Push \/ \E s \in Set : IoDone(s)
    BY <1>1, <2>2 DEF Push, IoDone, Run, sets, maps, Slot
  <2>3. QED BY <2>1, <2>2
<1>3. \E s \in Set : th' = th \/ th' = Wake(th, Waiters(s))
  <2>1. File \in Set
    BY DEF Set
  <2>2. Spare => dm.s \in Set
    BY <1>1 DEF Spare, Locked, Judged
  <2>3. QED BY <2>1, <2>2 DEF Push, Spare, SkipCow, IoDone
<1>4. Others({})
  BY <1>2, <1>3, AloneRest
<1>5. PICK t : t \notin Thread
  BY Nobody
<1>6. Rest(t)
  BY <1>4, SameAlike DEF Others, Rest
<1>7. QED BY <1>2, <1>5, <1>6, NoSlot, ListKept

LEMMA ForkedRefs ==
    ASSUME IInv, IInv', RInv, NEW t \in Thread, Forked(t)
    PROVE  RInv'
<1>p. PICK c : c = env.child[t]
  OBVIOUS
<1>1. /\ th \in [Thread -> ThreadState] /\ Listed
  BY DEF IInv, Types
<1>2. /\ env' = env /\ panic = "none" /\ slot' = slot /\ atl' = atl /\ pt' = pt
      /\ cowsets' = cowsets /\ panic' = panic /\ th[t].pc = "forked"
      /\ th' = [u \in Thread |-> IF u = t \/ env.map[u] = c THEN User ELSE th[u]]
  BY <1>p DEF Forked, At, Run, maps
<1>3. ASSUME NEW u \in Thread PROVE Alike(u)
  <2>1. CASE u = t \/ env.map[u] = c
    <3>1. th[u].pc \in {"forked", "none"}
      <4>1. Unborn(c)
        BY <1>p, <1>1, <1>2 DEF Listed, Forks
      <4>2. QED BY <1>2, <2>1, <4>1 DEF Unborn, Own
    <3>2. th'[u].pc = "user"
      BY <1>2, <2>1 DEF User
    <3>3. QED BY <1>2, <3>1, <3>2 DEF Alike, Flies, Remaps, Allocs, Own, Ends, Unshares, Asks
  <2>2. CASE ~ (u = t \/ env.map[u] = c)
    <3>1. th'[u] = th[u]
      BY <1>2, <2>2
    <3>2. QED BY <1>2, <3>1 DEF Alike, Flies, Remaps, Allocs, Own, Ends, Unshares, Asks
  <2>3. QED BY <2>1, <2>2
<1>4. PICK x : x \notin Thread
  BY Nobody
<1>5. Rest(x)
  BY <1>3 DEF Rest
<1>6. QED BY <1>2, <1>4, <1>5, NoSlot, ListKept

-----------------------------------------------------------------------------
(* Steps that make, move or drop references                                 *)

LEMMA ValidRefs ==
    ASSUME IInv, IInv', RInv, NEW t \in Thread, Valid(t)
    PROVE  RInv'
<1>p. PICK s : s = Own(t)
  OBVIOUS
<1>q. PICK found : found = IF slot[s].cow /\ th[t].w /\ atl[s] > 0 THEN 1 ELSE 0
  OBVIOUS
<1>1. /\ th \in [Thread -> ThreadState] /\ th[t] \in ThreadState /\ Placed(t)
      /\ slot \in [Set -> Slot] /\ atl \in [Set -> Nat]
  BY DEF IInv, Types
<1>2. Rest(t) /\ env' = env
  <2>1. ~ Forked(t)
    BY DEF Valid, Forked, At
  <2>2. QED BY <2>1, StepOthers, OthersRest DEF Works
<1>3. /\ panic = "none" /\ th[t].pc = "slot" /\ slot[s].v
      /\ slot' = [slot EXCEPT ![s].refs = slot[s].refs + 1 - found]
      /\ atl' = [atl EXCEPT ![s] = atl[s] - found] /\ pt' = pt /\ cowsets' = cowsets
      /\ \/ th' = [th EXCEPT ![t].pc = "alloc", ![t].why = "write"]
         \/ th' = [th EXCEPT ![t].pc = "map"]
  BY <1>p, <1>q DEF Valid, At, Run, sets, Go
<1>4. /\ s \in Set /\ s \in Has(t) /\ found \in {0, 1}
      /\ slot[s].refs \in Int /\ slot[s] \in Slot /\ atl[s] \in Nat
  BY <1>p, <1>q, <1>1, <1>3 DEF Placed, Has, HasOwn, Slot
<1>5. /\ slot'[s].v = slot[s].v /\ slot'[s].cow = slot[s].cow /\ slot'[s].f = slot[s].f
      /\ slot'[s].refs = slot[s].refs + 1 - found /\ \A x \in Set \ {s} : slot'[x] = slot[x]
      /\ atl'[s] = atl[s] - found /\ \A x \in Set \ {s} : atl'[x] = atl[x]
  BY <1>1, <1>3, <1>4 DEF Slot
<1>6. th'[t].pc = "map" \/ (th'[t].pc = "alloc" /\ th'[t].why = "write")
  BY <1>1, <1>3 DEF ThreadState
<1>7. Calm(t) /\ ~ Ends(t)' /\ Remaps(t)' /\ ~ Allocs(t, "tab")'
      /\ \A x : Flies(t, x)' <=> x = s
  BY <1>p, <1>2, <1>3, <1>6 DEF Calm, Flies, Remaps, Allocs, Ends, Unshares, Asks, Own
<1>8. /\ None \notin Cow /\ Cow \subseteq Set /\ Sh(None) = 0 /\ Sh(None)' = 0
      /\ \A x \in Cow \ {None} : Shared(x)' <=> Shared(x)
  BY <1>4, <1>5, SetAssumption DEF Sh, Set, Shared
<1>9. \A x \in Set : Fly(t, x) = 0 /\ Fly(t, x)' = IF x = s THEN 1 ELSE 0
  BY <1>7, CalmIs DEF Fly
<1>10. \A x \in Set : slot'[x].refs = slot[x].refs + (atl'[x] - atl[x])
                              + (Fly(t, x)' - Fly(t, x))
                              + (IF x = File THEN Sh(None)' - Sh(None) ELSE 0)
  <2>1. \A x \in Set : slot[x].refs \in Int /\ atl[x] \in Int
    BY <1>1 DEF Slot
  <2>2. QED BY <1>4, <1>5, <1>8, <1>9, <2>1
<1>11. \A x \in Set : ~ slot'[x].v => slot'[x].refs = 0
  BY <1>3, <1>5 DEF RInv, Empty
<1>12. \A x \in Set : Kept(t, x)
  <2>1. \A x \in Set \ {s} : atl'[x] >= atl[x] /\ slot'[x] = slot[x] /\ Own(t) # x
    BY <1>p, <1>1, <1>5
  <2>2. QED BY <1>p, <1>3, <1>7, <2>1 DEF Kept
<1>13. \A x \in Set : atl'[x] >= atl[x] \/ (t \in Thread /\ x \in Has(t))
  BY <1>1, <1>4, <1>5
<1>14. \A x \in Cow : Shared(x)' => x \in cowsets' /\ slot'[x].f = slot'[File].f
  <2>1. \A x \in Set : slot'[x].f = slot[x].f
    BY <1>5
  <2>2. File \in Set
    BY DEF Set
  <2>3. QED BY <1>3, <1>8, <2>1, <2>2 DEF RInv, Sharing, Sharers
<1>15. \A x \in Set : LeftAlone(t, x)
  BY <1>4, <1>5, HasAlone DEF LeftAlone
<1>16. EndsWell(t)'
  BY <1>7, CalmIs
<1>17. QED BY <1>2, <1>3, <1>7, <1>8, <1>10, <1>11, <1>12, <1>13, <1>14, <1>15, <1>16, ActStep

LEMMA MasterRefs ==
    ASSUME IInv, IInv', RInv, NEW t \in Thread, Master(t)
    PROVE  RInv'
<1>1. /\ th \in [Thread -> ThreadState] /\ th[t] \in ThreadState /\ Placed(t)
      /\ slot \in [Set -> Slot] /\ atl \in [Set -> Nat]
  BY DEF IInv, Types
<1>2. Others({t}) /\ Rest(t) /\ env' = env
  <2>1. ~ Forked(t)
    BY DEF Master, Forked, At
  <2>2. QED BY <2>1, StepOthers, OthersRest DEF Works
<1>3. /\ panic = "none" /\ th[t].pc = "master" /\ atl' = atl /\ pt' = pt /\ cowsets' = cowsets
      /\ IF slot[File].v
         THEN /\ slot' = [slot EXCEPT ![File].refs = slot[File].refs + 1]
              /\ th' = [th EXCEPT ![t].pc = "share"]
         ELSE th' = [th EXCEPT ![t].pc = "alloc", ![t].why = "master"] /\ slot' = slot
  BY DEF Master, At, Run, sets, maps, Go
<1>4. CASE ~ slot[File].v
  <2>1. th'[t].pc = "alloc" /\ th'[t].why = "master"
    BY <1>1, <1>3, <1>4 DEF ThreadState
  <2>2. Calm(t) /\ Calm(t)' /\ ~ Ends(t)'
    BY <1>3, <2>1 DEF Calm, Allocs, Ends, Unshares, Asks
  <2>3. QED BY <1>2, <1>3, <1>4, <2>2, CalmStep, ListKept
<1>5. CASE slot[File].v
  <2>1. th'[t].pc = "share"
    BY <1>1, <1>3, <1>5 DEF ThreadState
  <2>2. /\ Calm(t) /\ ~ Ends(t)' /\ ~ Remaps(t)' /\ ~ Allocs(t, "tab")'
        /\ \A x : Flies(t, x)' <=> x = File
    BY <1>3, <2>1 DEF Calm, Flies, Remaps, Allocs, Ends, Unshares, Asks
  <2>3. /\ File \in Set /\ File \in Has(t) /\ slot[File].refs \in Int /\ slot[File] \in Slot
    BY <1>1, <1>3 DEF Has, HasMaster, Set, Slot
  <2>4. /\ slot'[File].v = slot[File].v /\ slot'[File].cow = slot[File].cow
        /\ slot'[File].f = slot[File].f
        /\ slot'[File].refs = slot[File].refs + 1 /\ \A x \in Set \ {File} : slot'[x] = slot[x]
    <3>1. slot' = [slot EXCEPT ![File].refs = slot[File].refs + 1]
      BY <1>3, <1>5
    <3>2. slot \in [Set -> Slot] /\ File \in Set /\ slot[File] \in Slot
      BY <1>1, <2>3
    <3>3. QED BY ONLY <3>1, <3>2 DEF Slot
  <2>5. /\ None \notin Cow /\ Cow \subseteq Set /\ Sh(None) = 0 /\ Sh(None)' = 0
        /\ \A x \in Cow \ {None} : Shared(x)' <=> Shared(x)
    BY <2>3, <2>4, SetAssumption DEF Sh, Set, Shared
  <2>6. \A x \in Set : Fly(t, x) = 0 /\ Fly(t, x)' = IF x = File THEN 1 ELSE 0
    BY <2>2, CalmIs DEF Fly
  <2>7. \A x \in Set : slot'[x].refs = slot[x].refs + (atl'[x] - atl[x])
                              + (Fly(t, x)' - Fly(t, x))
                              + (IF x = File THEN Sh(None)' - Sh(None) ELSE 0)
    <3>1. \A x \in Set : slot[x].refs \in Int /\ atl[x] \in Int /\ atl'[x] = atl[x]
      BY <1>1, <1>3 DEF Slot
    <3>2. QED BY <2>3, <2>4, <2>5, <2>6, <3>1
  <2>8. \A x \in Set : ~ slot'[x].v => slot'[x].refs = 0
    BY <1>5, <2>4 DEF RInv, Empty
  <2>9. \A x \in Set : Kept(t, x) /\ atl'[x] >= atl[x]
    <3>1. \A x \in Set : slot'[x].f = slot[x].f /\ slot'[x].cow = slot[x].cow
      BY <2>4
    <3>2. \A x \in Set : atl'[x] >= atl[x]
      BY <1>1, <1>3
    <3>3. ~ Remaps(t)
      BY <2>2, CalmIs
    <3>4. QED BY <1>3, <3>1, <3>2, <3>3 DEF Kept
  <2>10. \A x \in Cow : Shared(x)' => x \in cowsets' /\ slot'[x].f = slot'[File].f
    <3>1. \A x \in Set : slot'[x].f = slot[x].f
      BY <2>4
    <3>2. QED BY <1>3, <2>3, <2>5, <3>1 DEF RInv, Sharing, Sharers
  <2>11. \A x \in Set : LeftAlone(t, x)
    BY <2>3, <2>4, HasAlone DEF LeftAlone
  <2>12. EndsWell(t)'
    BY <2>2, CalmIs
  <2>13. QED BY <1>2, <1>3, <2>2, <2>5, <2>7, <2>8, <2>9, <2>10, <2>11, <2>12, ActStep
<1>6. QED BY <1>4, <1>5

LEMMA FillRefs ==
    ASSUME IInv, IInv', RInv, NEW t \in Thread, Fill(t)
    PROVE  RInv'
<1>p. PICK s : s = For(t)
  OBVIOUS
<1>q. PICK f : f = th[t].f
  OBVIOUS
<1>1. /\ th \in [Thread -> ThreadState] /\ th[t] \in ThreadState /\ Placed(t) /\ SlotsOf(t)
      /\ slot \in [Set -> Slot] /\ atl \in [Set -> Nat]
  BY DEF IInv, Types, Slots
<1>2. Rest(t) /\ env' = env
  <2>1. ~ Forked(t)
    BY DEF Fill, Forked, At
  <2>2. QED BY <2>1, StepOthers, OthersRest DEF Works
<1>3. /\ panic = "none" /\ th[t].pc = "got" /\ th[t].why \in {"fill", "master"} /\ s \notin Cow
      /\ slot' = [slot EXCEPT ![s] = Filled(slot[s], f)]
      /\ atl' = atl /\ pt' = pt /\ cowsets' = cowsets
      /\ th' = [th EXCEPT ![t].pc = IF th[t].why = "fill" THEN "map" ELSE "share", ![t].f = None]
  BY <1>p, <1>q DEF Fill, At, Run, sets, maps
<1>4. /\ th[t].why = "fill" => s = Own(t)
      /\ th[t].why = "master" => s = File
      /\ s \in Set /\ s \in Has(t) /\ slot[s] \in Slot /\ ~ slot[s].v /\ f \in Frame
  <2>1. /\ th[t].why = "fill" => s = Own(t) /\ Allocs(t, "fill")
        /\ th[t].why = "master" => s = File /\ Allocs(t, "master")
    BY <1>p, <1>3 DEF For, Allocs
  <2>2. s \in Set /\ s \in Has(t) /\ ~ slot[s].v
    BY <1>1, <1>3, <2>1 DEF Placed, SlotsOf, Has, HasOwn, HasMaster, Set
  <2>3. f \in Frame
    BY <1>q, <1>1, <1>3 DEF Placed, ThreadState
  <2>4. QED BY <1>1, <2>1, <2>2, <2>3
<1>5. /\ slot'[s].v /\ slot'[s].cow = slot[s].cow /\ slot'[s].refs = 1
      /\ \A x \in Set \ {s} : slot'[x] = slot[x]
  <2>1. slot[s] \in Slot => Filled(slot[s], f).refs = 1
    BY DEF Filled, Slot
  <2>2. /\ Filled(slot[s], f).v = TRUE /\ Filled(slot[s], f).cow = slot[s].cow
        /\ Filled(slot[s], f).refs = 1
    BY <1>4, <2>1, FilledIs
  <2>3. QED BY <1>1, <1>3, <1>4, <2>2
<1>6. slot[s].refs = 0 /\ pt[s].f = None /\ atl[s] = 0
  <2>1. slot[s].refs = 0
    BY <1>4 DEF RInv, Empty
  <2>2. QED BY <1>4, <2>1, NotMapped
<1>7. th'[t].pc = IF th[t].why = "fill" THEN "map" ELSE "share"
  BY <1>1, <1>3 DEF ThreadState
<1>8. /\ Calm(t) /\ ~ Ends(t)' /\ ~ Allocs(t, "tab")'
      /\ \A x : Flies(t, x)' <=> x = s
  <2>1. Calm(t)
    BY <1>3 DEF Calm, Allocs
  <2>2. \/ th'[t].pc = "map" /\ s = Own(t)
        \/ th'[t].pc = "share" /\ s = File
    BY <1>3, <1>4, <1>7
  <2>3. Own(t)' = Own(t)
    BY <1>2 DEF Own
  <2>4. QED BY <2>1, <2>2, <2>3 DEF Flies, Allocs, Ends, Unshares, Asks
<1>9. /\ None \notin Cow /\ Cow \subseteq Set /\ Sh(None) = 0 /\ Sh(None)' = 0 /\ File \in Set
      /\ \A x \in Cow \ {None} : Shared(x)' <=> Shared(x)
  BY <1>3, <1>5, SetAssumption DEF Sh, Set, Shared
<1>10. \A x \in Set : Fly(t, x) = 0 /\ Fly(t, x)' = IF x = s THEN 1 ELSE 0
  BY <1>8, CalmIs DEF Fly
<1>11. \A x \in Set : slot'[x].refs = slot[x].refs + (atl'[x] - atl[x])
                              + (Fly(t, x)' - Fly(t, x))
                              + (IF x = File THEN Sh(None)' - Sh(None) ELSE 0)
  <2>1. \A x \in Set : slot[x].refs \in Int /\ atl[x] \in Int /\ atl'[x] = atl[x]
    BY <1>1, <1>3 DEF Slot
  <2>2. QED BY <1>5, <1>6, <1>9, <1>10, <2>1
<1>12. \A x \in Set : ~ slot'[x].v => slot'[x].refs = 0
  BY <1>5 DEF RInv, Empty
<1>13. \A x \in Set : Kept(t, x) /\ atl'[x] >= atl[x]
  <2>1. \A x \in Set : atl'[x] >= atl[x]
    BY <1>1, <1>3
  <2>2. ~ Remaps(t)
    BY <1>8, CalmIs
  <2>3. QED BY <1>3, <1>5, <1>6, <2>1, <2>2 DEF Kept
<1>14. \A x \in Cow : Shared(x)' => x \in cowsets' /\ slot'[x].f = slot'[File].f
  <2>1. s = File => \A x \in Cow : ~ Shared(x)
    BY <1>4, <1>6, NoRefs DEF RInv
  <2>2. QED BY <1>3, <1>5, <1>9, <2>1 DEF RInv, Sharing, Sharers
<1>15. \A x \in Set : LeftAlone(t, x)
  BY <1>4, <1>5, HasAlone DEF LeftAlone
<1>16. EndsWell(t)'
  BY <1>8, CalmIs
<1>17. QED BY <1>2, <1>3, <1>8, <1>9, <1>11, <1>12, <1>13, <1>14, <1>15, <1>16, ActStep

LEMMA ShareRefs ==
    ASSUME IInv, IInv', RInv, NEW t \in Thread, Share(t)
    PROVE  RInv'
<1>p. PICK s : s = Own(t)
  OBVIOUS
<1>q. PICK e : e = [Filled(slot[s], slot[File].f) EXCEPT !.cow = TRUE]
  OBVIOUS
<1>1. /\ th \in [Thread -> ThreadState] /\ th[t] \in ThreadState /\ Placed(t) /\ SlotsOf(t)
      /\ slot \in [Set -> Slot] /\ atl \in [Set -> Nat] /\ Listed /\ Slots
  BY DEF IInv, Types, Slots
<1>2. Rest(t) /\ env' = env
  <2>1. ~ Forked(t)
    BY DEF Share, Forked, At
  <2>2. QED BY <2>1, StepOthers, OthersRest DEF Works
<1>3. /\ panic = "none" /\ th[t].pc = "share" /\ slot' = [slot EXCEPT ![s] = e]
      /\ atl' = atl /\ pt' = pt /\ cowsets' = cowsets
      /\ th' = [Wake(th, Waiters(File)) EXCEPT
                   ![t].pc = IF th[t].w THEN "alloc" ELSE "map",
                   ![t].why = IF th[t].w THEN "write" ELSE "none"]
  BY <1>p, <1>q DEF Share, At, Run, sets, maps
<1>4. /\ s \in Cow /\ s \in Set /\ s # File /\ File \in Set /\ s \in Has(t) /\ s \in cowsets
      /\ slot[s] \in Slot /\ slot[File].f \in Frame /\ ~ slot[s].v
  <2>1. s \in Cow
    BY <1>p, <1>1, <1>3 DEF Placed, HasMaster
  <2>2. s \in Set /\ s # File /\ File \in Set
    BY <2>1, SetAssumption DEF Set
  <2>3. s \in Has(t)
    BY <1>p, <1>3 DEF Has, HasOwn
  <2>4. Views(t)
    BY <1>3 DEF Views, Ends, Unshares, Detaches, Asks
  <2>5. s \in cowsets
    BY <1>p, <1>1, <2>1, <2>4 DEF Listed
  <2>6. ~ slot[s].v /\ slot[File].f \in Frame
    BY <1>p, <1>1, <1>3, <2>2 DEF SlotsOf, Slots, SlotShape
  <2>7. QED BY <1>1, <2>1, <2>2, <2>3, <2>5, <2>6
<1>5. e.v /\ e.cow /\ e.refs = 1 /\ e.f = slot[File].f
  <2>1. PICK p : p = Filled(slot[s], slot[File].f)
    OBVIOUS
  <2>2. slot[s] \in Slot => Filled(slot[s], slot[File].f).refs = 1
    BY DEF Filled, Slot
  <2>3. p \in Slot /\ p.v = TRUE /\ p.refs = 1 /\ p.f = slot[File].f
    BY <1>4, <2>1, <2>2, FilledIs
  <2>4. e = [p EXCEPT !.cow = TRUE]
    BY <1>q, <2>1
  <2>5. QED BY ONLY <2>3, <2>4 DEF Slot
<1>6. slot'[s] = e /\ \A x \in Set \ {s} : slot'[x] = slot[x]
  BY <1>1, <1>3, <1>4
<1>7. slot[s].refs = 0 /\ pt[s].f = None /\ atl[s] = 0
  <2>1. slot[s].refs = 0
    BY <1>4 DEF RInv, Empty
  <2>2. QED BY <1>4, <2>1, NotMapped
<1>8. th'[t].pc = "map" \/ (th'[t].pc = "alloc" /\ th'[t].why = "write")
  <2>1. PICK g : g = Wake(th, Waiters(File))
    OBVIOUS
  <2>2. g[t] = th[t] /\ DOMAIN g = Thread
    BY <1>3, <1>4, <2>1, AwakeIs DEF Wake
  <2>3. th' = [g EXCEPT ![t].pc = IF th[t].w THEN "alloc" ELSE "map",
                        ![t].why = IF th[t].w THEN "write" ELSE "none"]
    BY <1>3, <2>1
  <2>4. th[t].w \in BOOLEAN
    BY <1>1 DEF ThreadState
  <2>5. QED BY <1>1, <2>2, <2>3, <2>4 DEF ThreadState
<1>9. /\ ~ Remaps(t) /\ Remaps(t)' /\ ~ Ends(t)' /\ ~ Allocs(t, "tab")'
      /\ \A x : (Flies(t, x)' <=> x = s) /\ (Flies(t, x) <=> x = File)
  BY <1>p, <1>2, <1>3, <1>8 DEF Remaps, Flies, Allocs, Ends, Unshares, Asks, Own
<1>10. /\ \A x \in Set : (Fly(t, x) = IF x = File THEN 1 ELSE 0)
                         /\ Fly(t, x)' = IF x = s THEN 1 ELSE 0
       /\ Sh(s) = 0 /\ Sh(s)' = 1
  BY <1>4, <1>5, <1>6, <1>9 DEF Fly, Sh, Shared
<1>11. Cow \subseteq Set /\ \A x \in Cow \ {s} : Shared(x)' <=> Shared(x)
  BY <1>6 DEF Set, Shared
<1>12. \A x \in Set : slot'[x].refs = slot[x].refs + (atl'[x] - atl[x])
                              + (Fly(t, x)' - Fly(t, x))
                              + (IF x = File THEN Sh(s)' - Sh(s) ELSE 0)
  <2>1. \A x \in Set : slot[x].refs \in Int /\ atl[x] \in Int /\ atl'[x] = atl[x]
    BY <1>1, <1>3 DEF Slot
  <2>2. QED BY <1>4, <1>5, <1>6, <1>7, <1>10, <2>1
<1>13. \A x \in Set : ~ slot'[x].v => slot'[x].refs = 0
  BY <1>5, <1>6 DEF RInv, Empty
<1>14. \A x \in Set : Kept(t, x) /\ atl'[x] >= atl[x]
  <2>1. \A x \in Set : atl'[x] >= atl[x]
    BY <1>1, <1>3
  <2>2. QED BY <1>3, <1>6, <1>7, <1>9, <2>1 DEF Kept
<1>15. \A x \in Cow : Shared(x)' => x \in cowsets' /\ slot'[x].f = slot'[File].f
  <2>1. \A x \in Cow \ {s} : Shared(x) => x \in cowsets /\ slot[x].f = slot[File].f
    BY DEF RInv, Sharing, Sharers
  <2>2. QED BY <1>3, <1>4, <1>5, <1>6, <1>11, <2>1
<1>16. \A x \in Set : LeftAlone(t, x)
  BY <1>4, <1>6, HasAlone DEF LeftAlone
<1>17. EndsWell(t)'
  BY <1>9, CalmIs
<1>18. QED BY <1>2, <1>3, <1>9, <1>11, <1>12, <1>13, <1>14, <1>15, <1>16, <1>17, ActStep

(* The file's set is in use as long as a set over it is on its list. *)
LEMMA FileUsed ==
    ASSUME IInv, NEW c \in cowsets
    PROVE  refs[File] > 0
<1>1. <<"cow", c>> \in Referrers(File) /\ File \in Set
  BY ReferrersAre DEF Attached, Set
<1>2. QED BY <1>1, InUse DEF IInv

LEMMA CowWriteRefs ==
    ASSUME IInv, IInv', RInv, NEW t \in Thread, Writes(t)
    PROVE  RInv'
<1>p. PICK s : s = Own(t)
  OBVIOUS
<1>q. PICK f : f = th[t].f
  OBVIOUS
<1>1. /\ th \in [Thread -> ThreadState] /\ th[t] \in ThreadState /\ Placed(t) /\ SlotsOf(t)
      /\ slot \in [Set -> Slot] /\ atl \in [Set -> Nat] /\ Slots
  BY DEF IInv, Types, Slots
<1>2. Rest(t) /\ env' = env
  <2>1. ~ Forked(t)
    BY DEF Writes, CowWritten, Forked, At
  <2>2. QED BY <2>1, StepOthers, OthersRest DEF Works
<1>3. /\ panic = "none" /\ th[t].pc = "got" /\ th[t].why = "write"
      /\ atl' = atl /\ pt' = pt /\ cowsets' = cowsets
  BY DEF Writes, CowWritten, At, Run, sets, maps
<1>4. slot[File].v
  BY DEF Writes
<1>5. QED
  <2>1. /\ slot' = [slot EXCEPT ![File].refs = slot[File].refs - 1, ![s].f = f,
                                ![s].cow = FALSE]
        /\ th' = [th EXCEPT ![t].pc = "map", ![t].f = None]
    BY <1>p, <1>q, <1>4 DEF Writes, CowWritten
  <2>2. /\ s \in Cow /\ s \in Set /\ s # File /\ File \in Set /\ s \in Has(t) /\ Shared(s)
        /\ slot[s] \in Slot /\ slot[File] \in Slot /\ slot[File].refs \in Int
    <3>1. s \in Set /\ s \in Has(t) /\ slot[s].cow
      BY <1>p, <1>1, <1>3 DEF Placed, Has, HasOwn, SlotsOf, Allocs
    <3>2. s \in Cow /\ slot[s].v
      BY <1>1, <3>1 DEF Slots, SlotShape
    <3>3. s # File /\ File \in Set
      BY <3>2, SetAssumption DEF Set
    <3>4. QED BY <1>1, <3>1, <3>2, <3>3 DEF Shared, Slot
  <2>3. /\ slot'[s].v = slot[s].v /\ slot'[s].cow = FALSE /\ slot'[s].refs = slot[s].refs
        /\ slot'[File].v = slot[File].v /\ slot'[File].cow = slot[File].cow
        /\ slot'[File].f = slot[File].f /\ slot'[File].refs = slot[File].refs - 1
        /\ \A x \in Set \ {s, File} : slot'[x] = slot[x]
    BY <1>1, <2>1, <2>2 DEF Slot
  <2>4. th'[t].pc = "map"
    BY <1>1, <2>1 DEF ThreadState
  <2>5. /\ Remaps(t)' /\ ~ Ends(t)' /\ ~ Allocs(t, "tab")'
        /\ \A x : (Flies(t, x)' <=> x = s) /\ (Flies(t, x) <=> x = s)
    BY <1>p, <1>2, <1>3, <2>4 DEF Remaps, Flies, Allocs, Ends, Unshares, Asks, Own
  <2>6. /\ \A x \in Set : Fly(t, x)' = Fly(t, x) /\ Fly(t, x) \in Int
        /\ Sh(s) = 1 /\ Sh(s)' = 0
    BY <2>2, <2>3, <2>5 DEF Fly, Sh, Shared
  <2>7. Cow \subseteq Set /\ File \notin Cow /\ \A x \in Cow \ {s} : Shared(x)' <=> Shared(x)
    BY <2>3, SetAssumption DEF Set, Shared
  <2>8. \A x \in Set : slot'[x].refs = slot[x].refs + (atl'[x] - atl[x])
                              + (Fly(t, x)' - Fly(t, x))
                              + (IF x = File THEN Sh(s)' - Sh(s) ELSE 0)
    <3>1. \A x \in Set : slot[x].refs \in Int /\ atl[x] \in Int /\ atl'[x] = atl[x]
      BY <1>1, <1>3 DEF Slot
    <3>2. QED BY <2>2, <2>3, <2>6, <3>1
  <2>9. \A x \in Set : ~ slot'[x].v => slot'[x].refs = 0
    BY <1>4, <2>2, <2>3 DEF RInv, Empty, Shared
  <2>10. \A x \in Set : Kept(t, x) /\ atl'[x] >= atl[x]
    <3>1. \A x \in Set : atl'[x] >= atl[x]
      BY <1>1, <1>3
    <3>2. \A x \in Set \ {s} : slot'[x].f = slot[x].f /\ slot'[x].cow = slot[x].cow
      BY <2>3
    <3>3. QED BY <1>p, <1>3, <2>5, <3>1, <3>2 DEF Kept
  <2>11. \A x \in Cow : Shared(x)' => x \in cowsets' /\ slot'[x].f = slot'[File].f
    <3>1. ~ Shared(s)'
      BY <2>3 DEF Shared
    <3>2. QED BY <1>3, <2>3, <2>7, <3>1 DEF RInv, Sharing, Sharers
  <2>12. \A x \in Set : LeftAlone(t, x)
    <3>1. s \in cowsets
      BY <2>2 DEF RInv, Sharing, Sharers
    <3>2. refs[File] > 0 /\ refs[s] > 0
      BY <2>2, <3>1, FileUsed, HasAlone
    <3>3. QED BY <2>3, <3>2 DEF LeftAlone
  <2>13. EndsWell(t)'
    BY <2>5, CalmIs
  <2>14. QED BY <1>2, <1>3, <2>5, <2>7, <2>8, <2>9, <2>10, <2>11, <2>12, <2>13, ActStep

LEMMA MapRefs ==
    ASSUME IInv, IInv', RInv, NEW t \in Thread, Map(t) \/ MapTable(t)
    PROVE  RInv'
<1>p. PICK s : s = Own(t)
  OBVIOUS
<1>1. /\ th \in [Thread -> ThreadState] /\ th[t] \in ThreadState /\ Placed(t)
      /\ slot \in [Set -> Slot] /\ atl \in [Set -> Nat] /\ pt \in [Set -> [f : Frame \cup {None}, w : BOOLEAN, m : BOOLEAN]]
  BY DEF IInv, Types
<1>2. Rest(t) /\ env' = env
  <2>1. ~ Forked(t)
    BY DEF Map, MapTable, Forked, At
  <2>2. QED BY <2>1, StepOthers, OthersRest DEF Works
<1>3. /\ panic = "none" /\ slot' = slot /\ cowsets' = cowsets
      /\ s \in Set /\ s \in Has(t) /\ atl[s] \in Nat /\ slot[s].cow \in BOOLEAN
  <2>1. s \in Set /\ s \in Has(t)
    BY <1>p, <1>1 DEF Map, MapTable, At, Placed, Has, HasOwn
  <2>2. QED BY <1>1, <2>1 DEF Map, MapTable, At, Run, sets, Slot
<1>4. /\ None \notin Cow /\ Cow \subseteq Set /\ Sh(None) = 0 /\ Sh(None)' = 0
      /\ \A x \in Cow \ {None} : Shared(x)' <=> Shared(x)
  BY <1>3, SetAssumption DEF Sh, Set, Shared
<1>5. \A x \in Set : ~ slot'[x].v => slot'[x].refs = 0
  BY <1>3 DEF RInv, Empty
<1>6. \A x \in Cow : Shared(x)' => x \in cowsets' /\ slot'[x].f = slot'[File].f
  BY <1>3, <1>4, SetAssumption DEF RInv, Sharing, Sharers
<1>7. \A x \in Set : LeftAlone(t, x)
  BY <1>3 DEF LeftAlone
<1>8. /\ \A x \in Set \ {s} : atl'[x] = atl[x] /\ pt'[x] = pt[x] /\ ~ Flies(t, x) /\ ~ Flies(t, x)'
      /\ atl'[s] \in Nat /\ atl'[s] > 0 /\ ~ Ends(t)'
      /\ slot'[s].refs = slot[s].refs + (atl'[s] - atl[s]) + (Fly(t, s)' - Fly(t, s))
      /\ \/ Allocs(t, "tab")'
         \/ ~ Allocs(t, "tab")' /\ pt'[s].f = slot[s].f /\ (pt'[s].w => ~ slot[s].cow)
  <2>1. CASE Map(t)
    <3>1. /\ th[t].pc = "map" /\ atl' = [atl EXCEPT ![s] = atl[s] + 1]
          /\ \/ th' = [th EXCEPT ![t].pc = "alloc", ![t].why = "tab"] /\ pt' = pt
             \/ Translate(t)
      BY <1>p, <2>1 DEF Map, At
    <3>2. Fly(t, s) = 1 /\ \A x \in Set \ {s} : ~ Flies(t, x)
      BY <1>p, <3>1 DEF Fly, Flies, Allocs
    <3>3. slot[s].refs \in Int /\ atl'[s] = atl[s] + 1 /\ \A x \in Set \ {s} : atl'[x] = atl[x]
      BY <1>1, <1>3, <3>1 DEF Slot
    <3>4. CASE th' = [th EXCEPT ![t].pc = "alloc", ![t].why = "tab"] /\ pt' = pt
      <4>1. th'[t].pc = "alloc" /\ th'[t].why = "tab"
        BY <1>1, <3>4 DEF ThreadState
      <4>2. Allocs(t, "tab")' /\ ~ Ends(t)' /\ \A x : ~ Flies(t, x)'
        BY <4>1 DEF Allocs, Ends, Unshares, Asks, Flies
      <4>3. Fly(t, s)' = 0
        BY <4>2 DEF Fly
      <4>4. QED BY <1>3, <3>2, <3>3, <3>4, <4>2, <4>3
    <3>5. CASE Translate(t)
      <4>1. /\ th' = [Wake(th, Waiters(s)) EXCEPT ![t] = User]
            /\ pt' = [pt EXCEPT ![s] = [f |-> slot[s].f, m |-> FALSE,
                                        w |-> s # File /\ ~ slot[s].cow]]
        BY <1>p, <3>5 DEF Translate
      <4>2. th'[t].pc = "user"
        BY <4>1 DEF Wake, User
      <4>3. ~ Allocs(t, "tab")' /\ ~ Ends(t)' /\ \A x : ~ Flies(t, x)'
        BY <4>2 DEF Allocs, Ends, Unshares, Asks, Flies
      <4>4. Fly(t, s)' = 0
        BY <4>3 DEF Fly
      <4>5. /\ pt'[s].f = slot[s].f /\ (pt'[s].w => ~ slot[s].cow)
            /\ \A x \in Set \ {s} : pt'[x] = pt[x]
        BY <1>1, <1>3, <4>1
      <4>6. QED BY <1>3, <3>2, <3>3, <4>3, <4>4, <4>5
    <3>6. QED BY <3>1, <3>4, <3>5
  <2>2. CASE MapTable(t)
    <3>1. th[t].pc = "got" /\ th[t].why = "tab" /\ atl' = atl /\ Translate(t)
      BY <2>2 DEF MapTable, At
    <3>2. /\ th' = [Wake(th, Waiters(s)) EXCEPT ![t] = User]
          /\ pt' = [pt EXCEPT ![s] = [f |-> slot[s].f, m |-> FALSE,
                                      w |-> s # File /\ ~ slot[s].cow]]
      BY <1>p, <3>1 DEF Translate
    <3>3. th'[t].pc = "user"
      BY <3>2 DEF Wake, User
    <3>4. ~ Allocs(t, "tab")' /\ ~ Ends(t)' /\ \A x : ~ Flies(t, x)' /\ ~ Flies(t, x)
      BY <3>1, <3>3 DEF Allocs, Ends, Unshares, Asks, Flies
    <3>5. Fly(t, s)' = 0 /\ Fly(t, s) = 0
      BY <3>4 DEF Fly
    <3>6. /\ pt'[s].f = slot[s].f /\ (pt'[s].w => ~ slot[s].cow)
          /\ \A x \in Set \ {s} : pt'[x] = pt[x]
      BY <1>1, <1>3, <3>2
    <3>7. Allocs(t, "tab")
      BY <3>1 DEF Allocs
    <3>8. atl[s] > 0
      BY <1>p, <3>7 DEF RInv, Mapped
    <3>9. slot[s].refs \in Int
      BY <1>1, <1>3 DEF Slot
    <3>10. QED BY <1>3, <3>1, <3>4, <3>5, <3>6, <3>8, <3>9
  <2>3. QED BY <2>1, <2>2
<1>9. \A x \in Set : slot'[x].refs = slot[x].refs + (atl'[x] - atl[x])
                              + (Fly(t, x)' - Fly(t, x))
                              + (IF x = File THEN Sh(None)' - Sh(None) ELSE 0)
  <2>1. \A x \in Set : slot[x].refs \in Int /\ atl[x] \in Int
    BY <1>1 DEF Slot
  <2>2. Fly(t, s) \in Int /\ Fly(t, s)' \in Int
    BY DEF Fly
  <2>3. \A x \in Set \ {s} : Fly(t, x) = 0 /\ Fly(t, x)' = 0
    BY <1>8 DEF Fly
  <2>4. QED BY <1>3, <1>4, <1>8, <2>1, <2>2, <2>3
<1>10. \A x \in Set : Kept(t, x)
  <2>1. \A x \in Set \ {s} : atl'[x] >= atl[x]
    BY <1>1, <1>8
  <2>2. Allocs(t, "tab")' => Remaps(t)'
    BY DEF Remaps
  <2>3. QED BY <1>p, <1>3, <1>8, <2>1, <2>2 DEF Kept
<1>11. \A x \in Set : atl'[x] >= atl[x] \/ (t \in Thread /\ x \in Has(t))
  BY <1>1, <1>3, <1>8
<1>12. EndsWell(t)' /\ atl'[Own(t)] > 0
  BY <1>p, <1>8, CalmIs
<1>13. QED BY <1>2, <1>3, <1>4, <1>5, <1>6, <1>7, <1>9, <1>10, <1>11, <1>12, ActStep

LEMMA DetachedRefs ==
    ASSUME IInv, IInv', RInv, NEW t \in Thread, Drops(t)
    PROVE  RInv'
<1>p. PICK s : s = Own(t)
  OBVIOUS
<1>1. /\ th \in [Thread -> ThreadState] /\ th[t] \in ThreadState /\ Placed(t)
      /\ slot \in [Set -> Slot] /\ atl \in [Set -> Nat] /\ pt \in [Set -> [f : Frame \cup {None}, w : BOOLEAN, m : BOOLEAN]]
  BY DEF IInv, Types
<1>2. Others({t}) /\ Rest(t) /\ env' = env
  <2>1. ~ Forked(t)
    BY DEF Drops, Dropped, Forked, At
  <2>2. QED BY <2>1, StepOthers, OthersRest DEF Works
<1>3. /\ panic = "none" /\ th[t].pc = "det" /\ cowsets' = cowsets
      /\ slot' = IF atl[s] = 0 THEN slot
                 ELSE [slot EXCEPT ![s].m = slot[s].m \/ pt[s].m, ![s].refs = slot[s].refs - 1]
      /\ atl' = IF atl[s] = 0 THEN atl ELSE [atl EXCEPT ![s] = atl[s] - 1]
      /\ pt' = IF atl[s] = 0 THEN pt ELSE [pt EXCEPT ![s] = NoTrans]
      /\ th' = [Wake(th, Waiters(s)) EXCEPT ![t].pc = "deref"]
  BY <1>p DEF Drops, Dropped, At, Run, sets
<1>4. s \in Set /\ s \in Has(t) /\ atl[s] \in Nat /\ slot[s] \in Slot
  BY <1>p, <1>1, <1>3 DEF Placed, Has, HasOwn
<1>5. th'[t].pc = "deref"
  <2>1. PICK g : g = Wake(th, Waiters(s))
    OBVIOUS
  <2>2. g[t] = th[t] /\ DOMAIN g = Thread
    BY <1>3, <1>4, <2>1, AwakeIs DEF Wake
  <2>3. th' = [g EXCEPT ![t].pc = "deref"]
    BY <1>3, <2>1
  <2>4. QED BY <1>1, <2>2, <2>3 DEF ThreadState
<1>6. Calm(t) /\ Calm(t)' /\ ~ Ends(t)'
  BY <1>3, <1>5 DEF Calm, Allocs, Ends, Unshares, Asks
<1>7. CASE atl[s] = 0
  BY <1>2, <1>3, <1>6, <1>7, CalmStep, ListKept
<1>8. CASE atl[s] # 0
  <2>1. /\ slot'[s].v = slot[s].v /\ slot'[s].cow = slot[s].cow /\ slot'[s].f = slot[s].f
        /\ slot'[s].refs = slot[s].refs - 1 /\ \A x \in Set \ {s} : slot'[x] = slot[x]
        /\ atl'[s] = atl[s] - 1 /\ \A x \in Set \ {s} : atl'[x] = atl[x]
        /\ pt'[s].f = None /\ \A x \in Set \ {s} : pt'[x] = pt[x]
    <3>1. /\ slot' = [slot EXCEPT ![s].m = slot[s].m \/ pt[s].m, ![s].refs = slot[s].refs - 1]
          /\ atl' = [atl EXCEPT ![s] = atl[s] - 1] /\ pt' = [pt EXCEPT ![s] = NoTrans]
      BY <1>3, <1>8
    <3>2. /\ slot'[s].v = slot[s].v /\ slot'[s].cow = slot[s].cow /\ slot'[s].f = slot[s].f
          /\ slot'[s].refs = slot[s].refs - 1 /\ \A x \in Set \ {s} : slot'[x] = slot[x]
      BY ONLY <1>1, <1>4, <3>1 DEF Slot
    <3>3. QED BY <1>1, <1>4, <3>1, <3>2 DEF NoTrans
  <2>2. /\ None \notin Cow /\ Cow \subseteq Set /\ Sh(None) = 0 /\ Sh(None)' = 0
        /\ \A x \in Cow \ {None} : Shared(x)' <=> Shared(x)
    BY <2>1, SetAssumption DEF Sh, Set, Shared
  <2>3. /\ \A x \in Set : Fly(t, x) = 0 /\ Fly(t, x)' = 0
        /\ ~ Remaps(t) /\ ~ Allocs(t, "tab")'
    BY <1>6, CalmIs DEF Fly
  <2>4. \A x \in Set : slot[x].refs \in Int /\ atl[x] \in Int
    BY <1>1 DEF Slot
  <2>5. \A x \in Set : slot'[x].refs = slot[x].refs + (atl'[x] - atl[x])
                              + (Fly(t, x)' - Fly(t, x))
                              + (IF x = File THEN Sh(None)' - Sh(None) ELSE 0)
    BY <1>4, <2>1, <2>2, <2>3, <2>4
  <2>6. \A x \in Set : ~ slot'[x].v => slot'[x].refs = 0
    <3>1. slot[s].refs = 0 => atl[s] = 0
      BY <1>4, NoRefs DEF RInv
    <3>2. QED BY <1>8, <2>1, <3>1 DEF RInv, Empty
  <2>7. \A x \in Set : Kept(t, x) /\ (atl'[x] >= atl[x] \/ (t \in Thread /\ x \in Has(t)))
    BY <1>4, <2>1, <2>3, <2>4 DEF Kept
  <2>8. \A x \in Cow : Shared(x)' => x \in cowsets' /\ slot'[x].f = slot'[File].f
    <3>1. File \in Set /\ \A x \in Set : slot'[x].f = slot[x].f
      BY <2>1 DEF Set
    <3>2. QED BY <1>3, <2>2, <3>1 DEF RInv, Sharing, Sharers
  <2>9. \A x \in Set : LeftAlone(t, x)
    BY <1>4, <2>1, HasAlone DEF LeftAlone
  <2>10. EndsWell(t)'
    BY <1>6, CalmIs
  <2>11. QED BY <1>2, <1>3, <2>2, <2>3, <2>5, <2>6, <2>7, <2>8, <2>9, <2>10, ActStep
<1>9. QED BY <1>7, <1>8

LEMMA CopyPageRefs ==
    ASSUME Sound, IInv, IInv', RInv, NEW t \in Thread, Copies(t)
    PROVE  RInv'
<1>p. PICK s : s = Own(t)
  OBVIOUS
<1>c. PICK c : c = env.child[t]
  OBVIOUS
<1>q. PICK f : f = th[t].f
  OBVIOUS
<1>1. /\ th \in [Thread -> ThreadState] /\ th[t] \in ThreadState /\ Placed(t) /\ SlotsOf(t)
      /\ slot \in [Set -> Slot] /\ atl \in [Set -> Nat] /\ Listed /\ Slots /\ env \in Envs
      /\ \A u \in Thread : Placed(u)
  BY DEF IInv, Types, Slots
<1>2. Rest(t) /\ env' = env
  <2>1. ~ Forked(t)
    BY DEF Copies, Copied, Forked, At
  <2>2. QED BY <2>1, StepOthers, OthersRest DEF Works
<1>3. /\ panic = "none" /\ th[t].pc = "got" /\ th[t].why = "copy"
      /\ slot' = [slot EXCEPT ![c].v = TRUE, ![c].f = f]
      /\ th' = [Wake(th, Waiters(s)) EXCEPT ![t].pc = "forked", ![t].f = None]
      /\ atl' = atl /\ pt' = pt /\ cowsets' = cowsets
  BY <1>p, <1>c, <1>q DEF Copies, Copied, At, Run, sets, maps
<1>4. /\ c \in Set /\ c # File /\ ~ slot[c].v /\ ~ slot[c].cow /\ Unborn(c) /\ s \in Set
  <2>1. Forks(t)
    BY <1>3 DEF Forks, Allocs
  <2>2. c # None /\ Unborn(c)
    BY <1>c, <1>1, <2>1 DEF Placed, Listed
  <2>3. c \in Set /\ c # File
    BY <1>c, <1>1, <2>2, EnvIs DEF Sound
  <2>4. ~ slot[c].v
    BY <1>c, <1>1, <1>3, <2>2 DEF SlotsOf
  <2>5. ~ slot[c].cow
    BY <1>1, <2>3, <2>4 DEF Slots, SlotShape
  <2>6. s \in Set
    BY <1>p, <1>1, <1>3 DEF Placed
  <2>7. QED BY <2>2, <2>3, <2>4, <2>5, <2>6
<1>5. /\ slot'[c].v = TRUE /\ slot'[c].cow = FALSE /\ slot'[c].refs = slot[c].refs
      /\ \A x \in Set \ {c} : slot'[x] = slot[x]
  BY <1>1, <1>3, <1>4 DEF Slot
<1>6. slot[c].refs = 0 /\ pt[c].f = None
  <2>1. slot[c].refs = 0
    BY <1>4 DEF RInv, Empty
  <2>2. QED BY <1>4, <2>1, NotMapped
<1>7. th'[t].pc = "forked"
  <2>1. PICK g : g = Wake(th, Waiters(s))
    OBVIOUS
  <2>2. g[t] = th[t] /\ DOMAIN g = Thread
    BY <1>3, <1>4, <2>1, AwakeIs DEF Wake
  <2>3. th' = [g EXCEPT ![t].pc = "forked", ![t].f = None]
    BY <1>3, <2>1
  <2>4. QED BY <1>1, <2>2, <2>3 DEF ThreadState
<1>8. Calm(t) /\ Calm(t)' /\ ~ Ends(t)'
  BY <1>3, <1>7 DEF Calm, Allocs, Ends, Unshares, Asks
<1>9. /\ None \notin Cow /\ Cow \subseteq Set /\ Sh(None) = 0 /\ Sh(None)' = 0
      /\ \A x \in Cow \ {None} : Shared(x)' <=> Shared(x)
  BY <1>4, <1>5, SetAssumption DEF Sh, Set, Shared
<1>10. /\ \A x \in Set : Fly(t, x) = 0 /\ Fly(t, x)' = 0
       /\ ~ Remaps(t) /\ ~ Allocs(t, "tab")'
  BY <1>8, CalmIs DEF Fly
<1>11. \A x \in Set : slot'[x].refs = slot[x].refs + (atl'[x] - atl[x])
                              + (Fly(t, x)' - Fly(t, x))
                              + (IF x = File THEN Sh(None)' - Sh(None) ELSE 0)
  <2>1. \A x \in Set : slot[x].refs \in Int /\ atl[x] \in Int /\ atl'[x] = atl[x]
    BY <1>1, <1>3 DEF Slot
  <2>2. QED BY <1>5, <1>9, <1>10, <2>1
<1>12. \A x \in Set : ~ slot'[x].v => slot'[x].refs = 0
  BY <1>5 DEF RInv, Empty
<1>13. \A x \in Set : Kept(t, x) /\ atl'[x] >= atl[x]
  <2>1. \A x \in Set : atl'[x] >= atl[x]
    BY <1>1, <1>3
  <2>2. QED BY <1>3, <1>5, <1>6, <1>10, <2>1 DEF Kept
<1>14. \A x \in Cow : Shared(x)' => x \in cowsets' /\ slot'[x].f = slot'[File].f
  <2>1. ~ Shared(c)' /\ File \in Set
    BY <1>5 DEF Shared, Set
  <2>2. \A x \in Cow : Shared(x) => x \in cowsets /\ slot[x].f = slot[File].f
    BY DEF RInv, Sharing, Sharers
  <2>3. \A x \in Cow : Shared(x)' => x # c /\ Shared(x)
    BY <1>9, <2>1
  <2>4. slot'[File] = slot[File] /\ \A x \in Cow \ {c} : slot'[x] = slot[x]
    BY <1>4, <1>5, <1>9, <2>1
  <2>5. QED BY <1>3, <2>2, <2>3, <2>4
<1>15. \A x \in Set : LeftAlone(t, x)
  <2>1. ASSUME NEW u \in Thread \ {t}, Ends(u) PROVE th[u].d # c
    <3>1. th[u].d = Own(u) \/ th[u].d = File
      BY <1>1, <2>1 DEF Placed, Ends
    <3>2. th[u].pc # "none"
      BY <2>1 DEF Ends, Unshares, Asks
    <3>3. QED BY <1>4, <3>1, <3>2 DEF Unborn
  <2>2. QED BY <1>5, <2>1 DEF LeftAlone
<1>16. EndsWell(t)'
  BY <1>8, CalmIs
<1>17. QED BY <1>2, <1>3, <1>9, <1>10, <1>11, <1>12, <1>13, <1>14, <1>15, <1>16, ActStep

(* Who frees a set is alone in its address space. *)
LEMMA FreesAlone ==
    ASSUME Sound, IInv, NEW t \in Thread, Ends(t), NEW u \in Thread \ {t}, Unshares(u)
    PROVE  Own(u) # th[t].d
<1>1. Placed(t) /\ Placed(u) /\ env \in Envs
  BY DEF IInv, Types
<1>2. /\ env.exit /\ Own(u) \in Cow
  BY <1>1 DEF Placed, HasMaster, Unshares
<1>3. th[t].d = Own(t) \/ th[t].d = File
  BY <1>1 DEF Placed, Ends
<1>4. Own(u) # File /\ Own(u) # None
  BY <1>2, SetAssumption DEF Set
<1>5. Own(u) # Own(t)
  BY <1>1, <1>2, <1>4 DEF Sound, Own
<1>6. QED BY <1>3, <1>4, <1>5

LEMMA FreeSlotRefs ==
    ASSUME Sound, IInv, IInv', RInv, NEW t \in Thread, FreeSlot(t)
    PROVE  RInv'
<1>p. PICK s : s = th[t].d
  OBVIOUS
<1>1. /\ th \in [Thread -> ThreadState] /\ th[t] \in ThreadState /\ Placed(t)
      /\ slot \in [Set -> Slot] /\ atl \in [Set -> Nat] /\ Slots
      /\ DOMAIN th[t] = {"pc", "w", "ls", "to", "f", "why", "d"}
  BY DEF IInv, Types, ThreadState
<1>2. Others({t}) /\ Rest(t) /\ env' = env
  <2>1. ~ Forked(t)
    BY DEF FreeSlot, Forked, At
  <2>2. QED BY <2>1, StepOthers, OthersRest DEF Works
<1>3. /\ panic = "none" /\ th[t].pc = "free" /\ atl' = atl /\ pt' = pt /\ cowsets' = cowsets
      /\ \/ /\ slot[s].v /\ slot[s].cow /\ Lock(th, t, File, "unshare")
            /\ slot' = slot /\ panic' = panic
         \/ /\ ~ (slot[s].v /\ slot[s].cow) /\ slot' = [slot EXCEPT ![s] = EmptySlot]
            /\ FreePage(Go(t, "fpset"), slot[s].f) \/ th' = Go(t, "fpset")
  BY <1>p DEF FreeSlot, At, Run, sets, maps
<1>4. /\ s \in Set /\ (s = Own(t) \/ s = File) /\ slot[s].refs = 0 /\ Ends(t)
      /\ slot[s] \in Slot /\ File \in Set
  <2>1. File \in Set /\ (s = Own(t) \/ s = File) /\ s \in Set /\ Ends(t)
    BY <1>p, <1>1, <1>3 DEF Placed, Set, Ends
  <2>2. slot[s].refs = 0
    BY <1>p, <1>3, <2>1 DEF RInv, Ended, EndsWell
  <2>3. QED BY <1>1, <2>1, <2>2
<1>5. Calm(t)
  BY <1>3 DEF Calm, Allocs
<1>6. CASE slot[s].v /\ slot[s].cow /\ Lock(th, t, File, "unshare") /\ slot' = slot /\ panic' = panic
  <2>1. /\ (th'[t].pc = "lkw" /\ th'[t].to = "unshare") \/ th'[t].pc = "unshare"
        /\ th'[t].d = s
    BY <1>p, <1>1, <1>6, LookIs
  <2>2. Calm(t)'
    BY <2>1 DEF Calm, Allocs
  <2>3. s = Own(t)
    <3>1. s \in Cow
      BY <1>1, <1>4, <1>6 DEF Slots, SlotShape
    <3>2. QED BY <1>4, <3>1, SetAssumption
  <2>4. EndsWell(t)'
    BY <1>2, <1>4, <1>6, <2>1, <2>3 DEF EndsWell, Shared, Own
  <2>5. QED BY <1>2, <1>3, <1>5, <1>6, <2>2, <2>4, CalmStep, ListKept
<1>7. CASE /\ ~ (slot[s].v /\ slot[s].cow) /\ slot' = [slot EXCEPT ![s] = EmptySlot]
           /\ FreePage(Go(t, "fpset"), slot[s].f) \/ th' = Go(t, "fpset")
  <2>1. th'[t].pc = "fpset" /\ th'[t].d = s
    <3>1. PICK g : g = Go(t, "fpset")
      OBVIOUS
    <3>2. g[t].pc = "fpset" /\ g[t].d = s
      BY <1>p, <1>1, <3>1 DEF Go, ThreadState
    <3>3. t \notin VWakes(memw)
      BY <1>3, AwakeIs
    <3>4. \A x : FreePage(g, x) => th'[t] = g[t]
      BY <3>3 DEF FreePage, Wake
    <3>5. QED BY <1>7, <3>1, <3>2, <3>4
  <2>2. /\ ~ slot'[s].v /\ ~ slot'[s].cow /\ slot'[s].refs = 0
        /\ \A x \in Set \ {s} : slot'[x] = slot[x]
    BY <1>1, <1>4, <1>7 DEF EmptySlot
  <2>3. Calm(t)' /\ EndsWell(t)'
    BY <2>1, <2>2 DEF Calm, Allocs, EndsWell, Shared, Unshares, Asks
  <2>4. /\ None \notin Cow /\ Cow \subseteq Set /\ Sh(None) = 0 /\ Sh(None)' = 0
        /\ \A x \in Cow \ {None} : Shared(x)' <=> Shared(x)
    BY <1>4, <1>7, <2>2, SetAssumption DEF Sh, Set, Shared
  <2>5. pt[s].f = None
    BY <1>4, NotMapped
  <2>6. /\ \A x \in Set : Fly(t, x) = 0 /\ Fly(t, x)' = 0
        /\ ~ Remaps(t) /\ ~ Allocs(t, "tab")'
    BY <1>5, <2>3, CalmIs DEF Fly
  <2>7. \A x \in Set : slot'[x].refs = slot[x].refs + (atl'[x] - atl[x])
                              + (Fly(t, x)' - Fly(t, x))
                              + (IF x = File THEN Sh(None)' - Sh(None) ELSE 0)
    <3>1. \A x \in Set : slot[x].refs \in Int /\ atl[x] \in Int /\ atl'[x] = atl[x]
      BY <1>1, <1>3 DEF Slot
    <3>2. \A x \in Set : slot'[x].refs = slot[x].refs
      BY <1>4, <2>2
    <3>3. QED BY <2>4, <2>6, <3>1, <3>2
  <2>8. \A x \in Set : ~ slot'[x].v => slot'[x].refs = 0
    BY <2>2 DEF RInv, Empty
  <2>9. \A x \in Set : Kept(t, x) /\ atl'[x] >= atl[x]
    <3>1. \A x \in Set : atl'[x] >= atl[x]
      BY <1>1, <1>3
    <3>2. QED BY <1>3, <2>2, <2>5, <2>6, <3>1 DEF Kept
  <2>10. \A x \in Cow : Shared(x)' => x \in cowsets' /\ slot'[x].f = slot'[File].f
    <3>1. s = File => \A x \in Cow : ~ Shared(x)
      BY <1>4, NoRefs DEF RInv
    <3>2. \A x \in Cow : Shared(x)' => Shared(x) /\ x # s
      BY <2>2, <2>4 DEF Shared
    <3>3. \A x \in Cow : Shared(x) => x \in cowsets /\ slot[x].f = slot[File].f
      BY DEF RInv, Sharing, Sharers
    <3>4. ASSUME NEW x \in Cow, Shared(x)' PROVE slot'[x] = slot[x] /\ slot'[File] = slot[File]
      BY <1>4, <2>2, <2>4, <3>1, <3>2, <3>4
    <3>5. QED BY <1>3, <3>2, <3>3, <3>4
  <2>11. \A x \in Set : LeftAlone(t, x)
    <3>1. \A u \in Thread \ {t} : Unshares(u) => Own(u) # s
      BY <1>p, <1>4, FreesAlone
    <3>2. QED BY <2>2, <3>1 DEF LeftAlone
  <2>12. QED BY <1>2, <1>3, <2>3, <2>4, <2>6, <2>7, <2>8, <2>9, <2>10, <2>11, ActStep
<1>8. QED BY <1>3, <1>6, <1>7

LEMMA UnshareRefs ==
    ASSUME Sound, IInv, IInv', RInv, NEW t \in Thread, Yields(t)
    PROVE  RInv'
<1>p. PICK s : s = th[t].d
  OBVIOUS
<1>1. /\ th \in [Thread -> ThreadState] /\ th[t] \in ThreadState /\ Placed(t)
      /\ slot \in [Set -> Slot] /\ atl \in [Set -> Nat] /\ Slots
  BY DEF IInv, Types
<1>2. Rest(t) /\ env' = env
  <2>1. ~ Forked(t)
    BY DEF Yields, Unshared, Forked, At
  <2>2. QED BY <2>1, StepOthers, OthersRest DEF Works
<1>3. /\ panic = "none" /\ th[t].pc = "unshare" /\ atl' = atl /\ pt' = pt /\ cowsets' = cowsets
      /\ slot' = [slot EXCEPT ![File].refs = slot[File].refs - 1, ![s] = EmptySlot]
      /\ th' = [Wake(th, Waiters(File)) EXCEPT ![t].pc = "fpset"]
  BY <1>p DEF Yields, Unshared, At, Run, sets, maps
<1>4. /\ s = Own(t) /\ s \in Cow /\ s \in Set /\ s # File /\ File \in Set
      /\ slot[s].refs = 0 /\ Shared(s) /\ s \in cowsets /\ Ends(t)
      /\ slot[File] \in Slot
  <2>1. s = Own(t) /\ s \in Cow /\ Ends(t) /\ Unshares(t)
    BY <1>p, <1>1, <1>3 DEF Placed, HasMaster, Ends, Unshares
  <2>2. slot[s].refs = 0 /\ Shared(s)
    BY <1>p, <1>3, <2>1 DEF RInv, Ended, EndsWell
  <2>3. s \in cowsets
    BY <2>1, <2>2 DEF RInv, Sharing, Sharers
  <2>4. s \in Set /\ s # File /\ File \in Set
    BY <2>1, SetAssumption DEF Set
  <2>5. QED BY <1>1, <2>1, <2>2, <2>3, <2>4
<1>5. /\ ~ slot'[s].v /\ ~ slot'[s].cow /\ slot'[s].refs = 0
      /\ slot'[File].v = slot[File].v /\ slot'[File].cow = slot[File].cow
      /\ slot'[File].f = slot[File].f /\ slot'[File].refs = slot[File].refs - 1
      /\ \A x \in Set \ {s, File} : slot'[x] = slot[x]
  BY <1>1, <1>3, <1>4 DEF Slot, EmptySlot
<1>6. th'[t].pc = "fpset" /\ th'[t].d = s
  <2>1. PICK g : g = Wake(th, Waiters(File))
    OBVIOUS
  <2>2. g[t] = th[t] /\ DOMAIN g = Thread
    BY <1>3, <1>4, <2>1, AwakeIs DEF Wake
  <2>3. th' = [g EXCEPT ![t].pc = "fpset"]
    BY <1>3, <2>1
  <2>4. QED BY <1>p, <1>1, <2>2, <2>3 DEF ThreadState
<1>7. Calm(t) /\ Calm(t)' /\ EndsWell(t)'
  BY <1>3, <1>5, <1>6 DEF Calm, Allocs, EndsWell, Shared, Unshares, Asks
<1>8. /\ \A x \in Set : Fly(t, x) = 0 /\ Fly(t, x)' = 0
      /\ ~ Remaps(t) /\ ~ Allocs(t, "tab")' /\ Sh(s) = 1 /\ Sh(s)' = 0
  BY <1>4, <1>5, <1>7, CalmIs DEF Fly, Sh, Shared
<1>9. Cow \subseteq Set /\ File \notin Cow /\ \A x \in Cow \ {s} : Shared(x)' <=> Shared(x)
  BY <1>5, SetAssumption DEF Set, Shared
<1>10. \A x \in Set : slot'[x].refs = slot[x].refs + (atl'[x] - atl[x])
                              + (Fly(t, x)' - Fly(t, x))
                              + (IF x = File THEN Sh(s)' - Sh(s) ELSE 0)
  <2>1. \A x \in Set : slot[x].refs \in Int /\ atl[x] \in Int /\ atl'[x] = atl[x]
    BY <1>1, <1>3 DEF Slot
  <2>2. \A x \in Set : slot'[x].refs = IF x = File THEN slot[x].refs - 1 ELSE slot[x].refs
    <3>1. slot'[File].refs = slot[File].refs - 1 /\ slot'[s].refs = slot[s].refs
      BY <1>4, <1>5
    <3>2. \A x \in Set \ {s, File} : slot'[x].refs = slot[x].refs
      BY <1>5
    <3>3. QED BY <1>4, <3>1, <3>2
  <2>3. QED BY <1>8, <2>1, <2>2
<1>11. \A x \in Set : ~ slot'[x].v => slot'[x].refs = 0
  <2>1. slot[File].v
    BY <1>4, NoRefs DEF RInv, Empty
  <2>2. QED BY <1>5, <2>1 DEF RInv, Empty
<1>12. \A x \in Set : Kept(t, x) /\ atl'[x] >= atl[x]
  <2>1. \A x \in Set : atl'[x] >= atl[x]
    BY <1>1, <1>3
  <2>2. pt[s].f = None
    BY <1>4, NotMapped
  <2>3. \A x \in Set \ {s} : slot'[x].f = slot[x].f /\ slot'[x].cow = slot[x].cow
    BY <1>5
  <2>4. QED BY <1>3, <1>8, <2>1, <2>2, <2>3 DEF Kept
<1>13. \A x \in Cow : Shared(x)' => x \in cowsets' /\ slot'[x].f = slot'[File].f
  <2>1. ~ Shared(s)'
    BY <1>5 DEF Shared
  <2>2. QED BY <1>3, <1>5, <1>9, <2>1 DEF RInv, Sharing, Sharers
<1>14. \A x \in Set : LeftAlone(t, x)
  <2>1. \A u \in Thread \ {t} : Unshares(u) => Own(u) # s
    BY <1>p, <1>4, FreesAlone
  <2>2. refs[File] > 0
    BY <1>4, FileUsed
  <2>3. QED BY <1>5, <2>1, <2>2 DEF LeftAlone
<1>15. QED BY <1>2, <1>3, <1>7, <1>8, <1>9, <1>10, <1>11, <1>12, <1>13, <1>14, ActStep

-----------------------------------------------------------------------------
(* The page daemon                                                          *)

(* The daemon is at work in the settings that have one. *)
Daemoned == dm.pc # "idle" => env.steal

LEMMA NobodyEnds ==
    ASSUME Apart, IInv, env.steal
    PROVE  \A u \in Thread : ~ Ends(u)
<1>1. env \in Envs /\ \A u \in Thread : Placed(u)
  BY DEF IInv, Types
<1>2. ~ env.exit
  BY <1>1 DEF Apart
<1>3. QED BY <1>1, <1>2 DEF Placed

LEMMA UnvirtRefs ==
    ASSUME IInv, NEW s \in Set, NEW to \in Set
    PROVE  /\ Unvirt(slot, s, to)[s].refs = slot[s].refs - atl[s]
           /\ \A x \in Set \ {s} : Unvirt(slot, s, to)[x].refs = slot[x].refs
<1>1. slot \in [Set -> Slot]
  BY DEF IInv, Types
<1>2. PICK a : a = [slot EXCEPT ![to].m = slot[to].m \/ pt[s].m]
  OBVIOUS
<1>3. a \in [Set -> [v : BOOLEAN, cow : BOOLEAN, sw : BOOLEAN, m : BOOLEAN, refs : Int,
                     f : Frame \cup {None}]] /\ \A x \in Set : a[x].refs = slot[x].refs
  <2>1. PICK e : e = [slot[to] EXCEPT !.m = slot[to].m \/ pt[s].m]
    OBVIOUS
  <2>2. pt[to].m \in BOOLEAN /\ pt[s].m \in BOOLEAN
    BY DEF IInv, Types
  <2>3. e \in Slot /\ e.refs = slot[to].refs
    BY <1>1, <2>1, <2>2 DEF Slot
  <2>4. a = [slot EXCEPT ![to] = e]
    BY <1>2, <2>1
  <2>5. a \in [Set -> Slot] /\ \A x \in Set : a[x].refs = slot[x].refs
    BY <1>1, <2>3, <2>4
  <2>6. QED BY <2>5 DEF Slot
<1>4. Unvirt(slot, s, to) = [a EXCEPT ![s].refs = a[s].refs - atl[s]]
  BY <1>2 DEF Unvirt
<1>5. QED BY <1>3, <1>4

(* Nobody has a reference in flight to a slot that is not locked. *)
LEMMA NoFlight ==
    ASSUME IInv, RInv, NEW s \in Set, ~ lk[s].held
    PROVE  /\ \A u \in Thread : s \notin Has(u) /\ ~ Flies(u, s) /\ (Own(u) = s => ~ Remaps(u))
           /\ slot[s].refs = atl[s] + Shares(s)
<1>1. \A u \in Thread : s \notin Has(u)
  BY DEF IInv, Locked
<1>2. \A u \in Thread : ~ Flies(u, s) /\ (Own(u) = s => ~ Remaps(u))
  BY <1>1, FliesHas, RemapsHas
<1>3. Flight(s) = 0 /\ atl[s] \in Nat
  BY <1>2 DEF Flight, IInv, Types
<1>4. slot[s].refs = atl[s] + Flight(s) + Shares(s)
  BY DEF RInv, Exact
<1>5. Shares(s) \in Int
  BY FiniteAssumption, FS_Subset, FS_CardinalityType DEF Shares, Sharers
<1>6. QED BY <1>1, <1>2, <1>3, <1>4, <1>5

LEMMA HandRefs ==
    ASSUME Sound, Apart, IInv, IInv', RInv, NEW f \in Frame, NEW hard \in BOOLEAN, Hand(f, hard)
    PROVE  RInv'
<1>p. PICK s : s = core[f].s
  OBVIOUS
<1>1. /\ slot \in [Set -> Slot] /\ atl \in [Set -> Nat]
      /\ pt \in [Set -> [f : Frame \cup {None}, w : BOOLEAN, m : BOOLEAN]]
  BY DEF IInv, Types
<1>2. s \in Set /\ slot[s].v /\ ~ slot[s].cow
  BY <1>p, HandFinds
<1>3. /\ panic = "none" /\ env.steal /\ ~ lk[s].held
      /\ slot' = Unvirt(slot, s, s) /\ atl' = [atl EXCEPT ![s] = 0]
      /\ pt' = [pt EXCEPT ![s] = NoTrans]
      /\ env' = env /\ cowsets' = cowsets /\ th' = th
  BY <1>p, <1>2 DEF Hand, Run, sets
<1>4. PICK t : t \notin Thread
  BY Nobody
<1>5. Rest(t)
  BY <1>3, AloneRest, SameAlike DEF Others, Rest
<1>6. /\ \A x \in Set : /\ slot'[x].v = slot[x].v /\ slot'[x].cow = slot[x].cow
                        /\ slot'[x].f = slot[x].f
      /\ slot'[s].refs = slot[s].refs - atl[s]
      /\ \A x \in Set \ {s} : slot'[x].refs = slot[x].refs
      /\ atl'[s] = 0 /\ \A x \in Set \ {s} : atl'[x] = atl[x]
      /\ pt'[s].f = None /\ \A x \in Set \ {s} : pt'[x] = pt[x]
  BY <1>1, <1>2, <1>3, UnvirtIs, UnvirtRefs DEF NoTrans
<1>7. /\ None \notin Cow /\ Cow \subseteq Set /\ Sh(None) = 0 /\ Sh(None)' = 0 /\ File \in Set
      /\ \A x \in Cow \ {None} : Shared(x)' <=> Shared(x)
  BY <1>6, SetAssumption DEF Sh, Set, Shared
<1>8. \A x \in Set : Fly(t, x) = 0 /\ Fly(t, x)' = 0
  BY <1>4 DEF Fly
<1>9. \A x \in Set : slot[x].refs \in Int /\ atl[x] \in Nat
  BY <1>1 DEF Slot
<1>10. \A x \in Set : slot'[x].refs = slot[x].refs + (atl'[x] - atl[x])
                              + (Fly(t, x)' - Fly(t, x))
                              + (IF x = File THEN Sh(None)' - Sh(None) ELSE 0)
  BY <1>2, <1>6, <1>7, <1>8, <1>9
<1>11. \A x \in Set : ~ slot'[x].v => slot'[x].refs = 0
  BY <1>2, <1>6 DEF RInv, Empty
<1>12. \A x \in Set : Kept(t, x)
  <2>1. \A x \in Set \ {s} : atl'[x] >= atl[x]
    BY <1>6, <1>9
  <2>2. QED BY <1>4, <1>6, <2>1 DEF Kept
<1>13. \A x \in Set : atl'[x] >= atl[x] \/ \A u \in Thread : x \notin Has(u)
  BY <1>2, <1>3, <1>6, <1>9, NoFlight
<1>14. \A x \in Cow : Shared(x)' => x \in cowsets' /\ slot'[x].f = slot'[File].f
  BY <1>3, <1>6, <1>7 DEF RInv, Sharing, Sharers
<1>15. \A x \in Set : LeftAlone(t, x)
  BY <1>3, NobodyEnds DEF LeftAlone
<1>16. QED BY <1>3, <1>4, <1>5, <1>7, <1>10, <1>11, <1>12, <1>13, <1>14, <1>15, ActStep

LEMMA TakeCowRefs ==
    ASSUME Sound, Apart, IInv, IInv', RInv, Daemoned, NEW c \in Cow, TakeCow(c)
    PROVE  RInv'
<1>p. PICK sl : sl = Unvirt(slot, c, File)
  OBVIOUS
<1>1. /\ slot \in [Set -> Slot] /\ atl \in [Set -> Nat] /\ Slots
      /\ pt \in [Set -> [f : Frame \cup {None}, w : BOOLEAN, m : BOOLEAN]]
      /\ c \in Set /\ File \in Set /\ c # File
  BY SetAssumption DEF IInv, Types, Set
<1>2. /\ panic = "none" /\ env.steal /\ ~ lk[c].held /\ slot[c].cow /\ slot[File].refs > 0
      /\ slot' = IF sl[c].refs = 0
                 THEN [sl EXCEPT ![c].cow = FALSE, ![c].v = FALSE,
                                 ![File].refs = sl[File].refs - 1]
                 ELSE sl
      /\ atl' = [atl EXCEPT ![c] = 0] /\ pt' = [pt EXCEPT ![c] = NoTrans]
      /\ env' = env /\ cowsets' = cowsets /\ th' = th
  <2>1. [sl EXCEPT ![c].cow = FALSE, ![c].v = FALSE, ![File].refs = @ - 1]
        = [sl EXCEPT ![c].cow = FALSE, ![c].v = FALSE, ![File].refs = sl[File].refs - 1]
    BY <1>1
  <2>2. QED BY <1>p, <2>1 DEF TakeCow, Run, sets, Daemoned
<1>3. Shared(c) /\ slot[c].refs = atl[c]
  <2>1. slot[c].refs = atl[c] + Shares(c) /\ Shares(c) = 0 /\ atl[c] \in Nat
    BY <1>1, <1>2, NoFlight DEF Shares
  <2>2. QED BY <1>1, <1>2, <2>1 DEF Shared, Slots, SlotShape
<1>4. PICK t : t \notin Thread
  BY Nobody
<1>5. Rest(t)
  BY <1>2, AloneRest, SameAlike DEF Others, Rest
<1>6. /\ sl \in [Set -> Slot] /\ sl[c].refs = 0 /\ atl[c] \in Nat
      /\ \A x \in Set : sl[x].v = slot[x].v /\ sl[x].cow = slot[x].cow /\ sl[x].f = slot[x].f
      /\ \A x \in Set \ {c} : sl[x].refs = slot[x].refs
  <2>1. atl[c] \in Nat /\ atl[c] - atl[c] = 0
    BY <1>1
  <2>2. QED BY <1>p, <1>1, <1>3, <2>1, UnvirtIs, UnvirtRefs
<1>7. /\ ~ slot'[c].v /\ ~ slot'[c].cow /\ slot'[c].refs = 0
      /\ slot'[File].v = slot[File].v /\ slot'[File].cow = slot[File].cow
      /\ slot'[File].f = slot[File].f /\ slot'[File].refs = slot[File].refs - 1
      /\ \A x \in Set \ {c, File} : slot'[x] = sl[x]
  <2>1. slot' = [sl EXCEPT ![c].cow = FALSE, ![c].v = FALSE, ![File].refs = sl[File].refs - 1]
    BY <1>2, <1>6
  <2>2. sl[File].refs = slot[File].refs
    BY <1>1, <1>6
  <2>3. /\ ~ slot'[c].v /\ ~ slot'[c].cow /\ slot'[c].refs = sl[c].refs
        /\ slot'[File].v = sl[File].v /\ slot'[File].cow = sl[File].cow
        /\ slot'[File].f = sl[File].f /\ slot'[File].refs = sl[File].refs - 1
        /\ \A x \in Set \ {c, File} : slot'[x] = sl[x]
    <3>1. sl \in [Set -> Slot] /\ c \in Set /\ File \in Set /\ c # File
      BY <1>1, <1>6
    <3>2. QED BY ONLY <2>1, <3>1 DEF Slot
  <2>4. QED BY <1>1, <1>6, <2>2, <2>3
<1>8. /\ atl'[c] = 0 /\ \A x \in Set \ {c} : atl'[x] = atl[x]
      /\ pt'[c].f = None /\ \A x \in Set \ {c} : pt'[x] = pt[x]
  BY <1>1, <1>2 DEF NoTrans
<1>9. /\ Cow \subseteq Set /\ File \notin Cow /\ Sh(c) = 1 /\ Sh(c)' = 0
      /\ \A x \in Cow \ {c} : Shared(x)' <=> Shared(x)
  BY <1>3, <1>6, <1>7, SetAssumption DEF Set, Shared, Sh
<1>10. \A x \in Set : Fly(t, x) = 0 /\ Fly(t, x)' = 0
  BY <1>4 DEF Fly
<1>11. \A x \in Set : slot[x].refs \in Int /\ atl[x] \in Nat
  BY <1>1 DEF Slot
<1>12. \A x \in Set : slot'[x].refs = slot[x].refs + (atl'[x] - atl[x])
                              + (Fly(t, x)' - Fly(t, x))
                              + (IF x = File THEN Sh(c)' - Sh(c) ELSE 0)
  <2>1. slot'[c].refs = slot[c].refs + (atl'[c] - atl[c])
    BY <1>1, <1>3, <1>7, <1>8, <1>11
  <2>2. slot'[File].refs = slot[File].refs - 1 /\ atl'[File] = atl[File]
    BY <1>1, <1>7, <1>8
  <2>3. \A x \in Set \ {c, File} : slot'[x].refs = slot[x].refs /\ atl'[x] = atl[x]
    BY <1>6, <1>7, <1>8
  <2>4. QED BY <1>1, <1>8, <1>9, <1>10, <1>11, <2>1, <2>2, <2>3
<1>13. \A x \in Set : ~ slot'[x].v => slot'[x].refs = 0
  <2>1. slot[File].v
    BY <1>1, <1>2 DEF RInv, Empty
  <2>2. QED BY <1>6, <1>7, <2>1 DEF RInv, Empty
<1>14. \A x \in Set : Kept(t, x)
  <2>1. \A x \in Set \ {c} : atl'[x] >= atl[x] /\ slot'[x].f = slot[x].f /\ slot'[x].cow = slot[x].cow
    BY <1>6, <1>7, <1>8, <1>11
  <2>2. QED BY <1>4, <1>8, <2>1 DEF Kept
<1>15. \A x \in Set : atl'[x] >= atl[x] \/ \A u \in Thread : x \notin Has(u)
  BY <1>1, <1>2, <1>8, <1>11, NoFlight
<1>16. \A x \in Cow : Shared(x)' => x \in cowsets' /\ slot'[x].f = slot'[File].f
  <2>1. ~ Shared(c)'
    BY <1>7 DEF Shared
  <2>2. \A x \in Cow : Shared(x) => x \in cowsets /\ slot[x].f = slot[File].f
    BY DEF RInv, Sharing, Sharers
  <2>3. \A x \in Cow \ {c} : slot'[x].f = slot[x].f
    BY <1>6, <1>7, <1>9
  <2>4. QED BY <1>2, <1>7, <1>9, <2>1, <2>2, <2>3
<1>17. \A x \in Set : LeftAlone(t, x)
  BY <1>2, NobodyEnds DEF LeftAlone
<1>18. QED BY <1>2, <1>4, <1>5, <1>9, <1>12, <1>13, <1>14, <1>15, <1>16, <1>17, ActStep

LEMMA StealRefs ==
    ASSUME Sound, Apart, IInv, IInv', RInv, Daemoned, Steal
    PROVE  RInv'
<1>p. PICK s : s = dm.s
  OBVIOUS
<1>1. /\ slot \in [Set -> Slot] /\ atl \in [Set -> Nat] /\ Slots /\ Locked
  BY DEF IInv, Types
<1>2. /\ panic = "none" /\ env.steal /\ dm.pc # "idle" /\ slot[s].refs = 0
      /\ slot' = [slot EXCEPT ![s].v = FALSE] /\ atl' = atl /\ pt' = pt
      /\ FreePage(Wake(th, Waiters(s)), slot[s].f)
      /\ env' = env /\ cowsets' = cowsets
  BY <1>p DEF Steal, Judged, Run, sets, maps, Daemoned
<1>3. s \in Set /\ slot[s].v /\ ~ slot[s].cow /\ slot[s] \in Slot
  BY <1>p, <1>1, <1>2 DEF Locked, Slots
<1>4. PICK t : t \notin Thread
  BY Nobody
<1>5. Rest(t)
  <2>1. \A u \in Waiters(s) : \E x \in Set : u \in Waiters(x)
    BY <1>3
  <2>2. PICK g : g = Wake(th, Waiters(s))
    OBVIOUS
  <2>3. \A u \in Thread \ {t} : g[u] = th[u] \/ (u \in Waiters(s) /\ g[u] = Woken(th[u]))
    BY <2>2 DEF Wake
  <2>4. \E f : FreePage(g, f)
    BY <1>2, <2>2
  <2>5. Others({t})
    BY <1>2, <2>1, <2>3, <2>4, WakeOthers
  <2>6. QED BY <2>5, OthersRest
<1>6. /\ ~ slot'[s].v /\ slot'[s].cow = slot[s].cow /\ slot'[s].f = slot[s].f
      /\ slot'[s].refs = slot[s].refs /\ \A x \in Set \ {s} : slot'[x] = slot[x]
  BY <1>1, <1>2, <1>3 DEF Slot
<1>7. /\ None \notin Cow /\ Cow \subseteq Set /\ Sh(None) = 0 /\ Sh(None)' = 0 /\ File \in Set
      /\ \A x \in Cow \ {None} : Shared(x)' <=> Shared(x)
  BY <1>3, <1>6, SetAssumption DEF Sh, Set, Shared
<1>8. \A x \in Set : Fly(t, x) = 0 /\ Fly(t, x)' = 0
  BY <1>4 DEF Fly
<1>9. \A x \in Set : slot[x].refs \in Int /\ atl[x] \in Nat /\ slot'[x].refs = slot[x].refs
  BY <1>1, <1>6 DEF Slot
<1>10. \A x \in Set : slot'[x].refs = slot[x].refs + (atl'[x] - atl[x])
                              + (Fly(t, x)' - Fly(t, x))
                              + (IF x = File THEN Sh(None)' - Sh(None) ELSE 0)
  BY <1>2, <1>7, <1>8, <1>9
<1>11. \A x \in Set : ~ slot'[x].v => slot'[x].refs = 0
  BY <1>2, <1>6 DEF RInv, Empty
<1>12. \A x \in Set : Kept(t, x) /\ atl'[x] >= atl[x]
  <2>1. \A x \in Set : slot'[x].f = slot[x].f /\ slot'[x].cow = slot[x].cow
    BY <1>6
  <2>2. QED BY <1>2, <1>4, <1>9, <2>1 DEF Kept
<1>14. \A x \in Cow : Shared(x)' => x \in cowsets' /\ slot'[x].f = slot'[File].f
  <2>1. \A x \in Set : slot'[x].f = slot[x].f
    BY <1>6
  <2>2. QED BY <1>2, <1>7, <2>1 DEF RInv, Sharing, Sharers
<1>15. \A x \in Set : LeftAlone(t, x)
  BY <1>2, NobodyEnds DEF LeftAlone
<1>16. QED BY <1>2, <1>4, <1>5, <1>7, <1>10, <1>11, <1>12, <1>14, <1>15, ActStep

-----------------------------------------------------------------------------
(* Every step                                                               *)

JInv == RInv /\ Daemoned

LEMMA InitRefs ==
    ASSUME Sound, Init
    PROVE  JInv
<1>1. /\ slot = [s \in Set |-> EmptySlot] /\ atl = [s \in Set |-> 0]
      /\ pt = [s \in Set |-> NoTrans] /\ dm = Idle
  BY DEF Init
<1>2. \A t \in Thread : th[t].pc \in {"user", "none"}
  BY DEF Init, User
<1>3. \A t \in Thread : Calm(t) /\ ~ Ends(t)
  BY <1>2 DEF Calm, Allocs, Ends, Unshares, Asks
<1>4. \A s \in Set : /\ ~ slot[s].v /\ slot[s].refs = 0 /\ atl[s] = 0 /\ pt[s].f = None
  BY <1>1 DEF EmptySlot, NoTrans
<1>5. Sharers = {}
  BY <1>4 DEF Sharers, Shared, Set
<1>6. \A s \in Set : Flight(s) = 0 /\ Shares(s) = 0
  BY <1>3, <1>5, CalmIs, FS_EmptySet DEF Flight, Shares
<1>7. Exact /\ Empty
  BY <1>4, <1>6 DEF Exact, Empty
<1>8. Mapped /\ Sharing
  BY <1>3, <1>4, <1>5, CalmIs DEF Mapped, Sharing
<1>9. Ended
  BY <1>3 DEF Ended, EndsWell, Ends
<1>10. Daemoned
  BY <1>1 DEF Daemoned, Idle
<1>11. QED BY <1>7, <1>8, <1>9, <1>10 DEF JInv, RInv

LEMMA RefsStay ==
    ASSUME RInv, env' = env, slot' = slot, cowsets' = cowsets, atl' = atl, pt' = pt,
           th' = th, panic' = "none" => panic = "none"
    PROVE  RInv'
<1>1. /\ \A t, s : Flies(t, s)' <=> Flies(t, s)
      /\ \A t : Remaps(t)' <=> Remaps(t)
      /\ \A t : Allocs(t, "tab")' <=> Allocs(t, "tab")
      /\ \A t : Own(t)' = Own(t)
      /\ \A s : Shared(s)' <=> Shared(s)
  BY DEF Flies, Remaps, Allocs, Own, Shared
<1>2. /\ \A t : Ends(t)' <=> Ends(t)
      /\ \A t : Unshares(t)' <=> Unshares(t)
  BY DEF Ends, Unshares, Asks
<1>3. Sharers' = Sharers
  BY <1>1 DEF Sharers
<1>4. \A s : Flight(s)' = Flight(s) /\ Shares(s)' = Shares(s)
  BY <1>1, <1>3 DEF Flight, Shares
<1>5. Exact' /\ Empty' /\ Sharing'
  BY <1>3, <1>4 DEF RInv, Exact, Empty, Sharing
<1>6. Mapped'
  BY <1>1 DEF RInv, Mapped, Remapped
<1>7. Ended'
  <2>1. \A t \in Thread : EndsWell(t) => EndsWell(t)'
    BY <1>1, <1>2 DEF EndsWell, Shared
  <2>2. QED BY <2>1 DEF RInv, Ended
<1>8. QED BY <1>5, <1>6, <1>7 DEF RInv

LEMMA HaltRefs ==
    ASSUME RInv, NEW t \in Thread, Halts(t)
    PROVE  RInv'
BY RefsStay DEF Halts, Stops, Die, sets, maps

LEMMA KernelRefs ==
    ASSUME Sound, IInv, IInv', RInv, NEW t \in Thread, Works(t)
    PROVE  RInv'
<1>1. CASE Relock(t) \/ AllocPage(t) \/ NoPage(t)
  BY <1>1, RelockRefs, PageRefs
<1>2. CASE Valid(t) \/ Invalid(t) \/ LockMaster(t) \/ Master(t)
  BY <1>2, ValidRefs, QuietRefs, LookRefs, MasterRefs
<1>3. CASE Fill(t) \/ FillFails(t) \/ Share(t) \/ Writes(t)
  BY <1>3, FillRefs, QuietRefs, ShareRefs, CowWriteRefs
<1>4. CASE Map(t) \/ MapTable(t)
  BY <1>4, MapRefs
<1>5. CASE Dup(t) \/ Dupd(t) \/ Copies(t) \/ Forked(t)
  BY <1>5, LookRefs, QuietRefs, CopyPageRefs, ForkedRefs
<1>6. CASE Drops(t) \/ Deref(t) \/ FreeSlot(t)
  BY <1>6, DetachedRefs, DerefRefs, FreeSlotRefs
<1>7. CASE Yields(t) \/ Leaves(t) \/ FreeVas(t)
  BY <1>7, UnshareRefs, FreePsetRefs, QuietRefs
<1>8. QED BY <1>1, <1>2, <1>3, <1>4, <1>5, <1>6, <1>7 DEF Works

LEMMA NextRefs ==
    ASSUME Sound, Apart, IInv, IInv', JInv, [Next]_vars
    PROVE  RInv'
<1>0. RInv /\ Daemoned
  BY DEF JInv
<1>1. ASSUME NEW t \in Thread, Store(t) \/ Fork(t) \/ Detach(t) \/ Kernel(t) PROVE RInv'
  BY <1>0, <1>1, QuietRefs, LookRefs, KernelIs, KernelRefs, HaltRefs
<1>2. ASSUME NEW t \in Thread, NEW w \in BOOLEAN, Fault(t, w) PROVE RInv'
  BY <1>0, <1>2, LookRefs
<1>3. ASSUME NEW f \in Frame, NEW hard \in BOOLEAN, Hand(f, hard) PROVE RInv'
  BY <1>0, <1>3, HandRefs
<1>4. CASE Steal \/ Push \/ Spare
  BY <1>0, <1>4, StealRefs, DaemonQuiet
<1>5. ASSUME NEW c \in Cow, SkipCow(c) \/ TakeCow(c) PROVE RInv'
  BY <1>0, <1>5, DaemonQuiet, TakeCowRefs
<1>6. ASSUME NEW s \in Set, IoDone(s) PROVE RInv'
  BY <1>0, <1>6, DaemonQuiet
<1>7. CASE UNCHANGED vars
  BY <1>0, <1>7, RefsStay DEF vars, sets, maps
<1>8. QED BY <1>1, <1>2, <1>3, <1>4, <1>5, <1>6, <1>7 DEF Next, Daemon

LEMMA NextDaemoned ==
    ASSUME Daemoned, [Next]_vars
    PROVE  Daemoned'
<1>1. ASSUME NEW t \in Thread,
             \/ Store(t) \/ Fork(t) \/ Detach(t) \/ Kernel(t)
             \/ \E w \in BOOLEAN : Fault(t, w)
      PROVE  dm' = dm /\ env' = env
  BY <1>1, KernelIs DEF Halts, Stops, Store, Fork, Detach, Fault, Works, Relock, AllocPage, NoPage, Valid, Invalid, LockMaster, Master,
         Fill, FillFails, Share, Writes, CowWritten, Map, MapTable, Dup, Dupd, Copies, Copied, Forked, Drops, Dropped, Deref,
         FreeSlot, Yields, Unshared, Leaves, LeftMaster, FreeVas
<1>2. ASSUME NEW f \in Frame, NEW hard \in BOOLEAN, Hand(f, hard) PROVE env' = env /\ env.steal
  BY <1>2 DEF Hand
<1>3. CASE Steal \/ Push \/ Spare
  BY <1>3 DEF Steal, Push, Spare, Idle, Daemoned
<1>4. ASSUME NEW c \in Cow, SkipCow(c) \/ TakeCow(c) PROVE env' = env /\ dm.pc = "walk"
  BY <1>4 DEF SkipCow, TakeCow
<1>5. ASSUME NEW s \in Set, IoDone(s) PROVE dm' = dm /\ env' = env
  BY <1>5 DEF IoDone
<1>6. CASE UNCHANGED vars
  BY <1>6 DEF vars, Daemoned
<1>7. QED BY <1>1, <1>2, <1>3, <1>4, <1>5, <1>6 DEF Next, Daemon, Daemoned

(* The references of slots, in the settings where processes do not exit     *)
(* under the page daemon.                                                   *)
THEOREM References ==
    ASSUME Sound, Apart
    PROVE  Spec => [](IInv /\ JInv)
<1>1. Init => IInv /\ JInv
  BY InitKeeps, InitRefs
<1>2. IInv /\ JInv /\ [Next]_vars => IInv' /\ JInv'
  <2>1. SUFFICES ASSUME IInv, JInv, [Next]_vars PROVE IInv' /\ JInv'
    OBVIOUS
  <2>2. IInv'
    BY <2>1, NextKeeps
  <2>3. RInv' /\ Daemoned'
    BY <2>1, <2>2, NextRefs, NextDaemoned DEF JInv
  <2>4. QED BY <2>2, <2>3 DEF JInv
<1>3. QED BY <1>1, <1>2, PTL DEF Spec

(* The references of a slot that is not locked are its translations and the *)
(* slots that share its page (vm_fault.c:23-34), whoever faults, forks,     *)
(* steals and exits.                                                        *)
THEOREM RefsCounted ==
    ASSUME Sound, Apart
    PROVE  Spec => []RefsCount
<1>1. IInv /\ JInv => RefsCount
  <2>1. SUFFICES ASSUME IInv, JInv, NEW s \in Set, ~ lk[s].held
                 PROVE  slot[s].refs = atl[s] + IF s # File THEN 0
                            ELSE Cardinality({c \in Cow : slot[c].v /\ slot[c].cow})
    BY DEF RefsCount
  <2>2. slot[s].refs = atl[s] + Shares(s)
    BY <2>1, NoFlight DEF JInv
  <2>3. Sharers = {c \in Cow : slot[c].v /\ slot[c].cow}
    BY DEF Sharers, Shared
  <2>4. QED BY <2>2, <2>3 DEF Shares
<1>2. QED BY <1>1, References, PTL

(* A translation leads to the frame of its slot, a slot that shares to the  *)
(* master's: no thread reaches a page that was stolen, copied or freed      *)
(* (pset_cow.c:135, vm_steal.c:152).                                        *)
THEOREM MapsRight ==
    ASSUME Sound, Apart
    PROVE  Spec => []MapsCurrent
<1>1. IInv /\ JInv => MapsCurrent
  <2>0. SUFFICES ASSUME IInv, JInv PROVE MapsCurrent
    OBVIOUS
  <2>1. ASSUME NEW s \in Set, pt[s].f # None, ~ lk[s].held
        PROVE  slot[s].v /\ pt[s].f = slot[s].f /\ (pt[s].w => ~ slot[s].cow)
    <3>1. ~ Remapped(s)
      BY <2>0, <2>1, NoFlight DEF JInv, Remapped
    <3>2. atl[s] > 0 /\ pt[s].f = slot[s].f /\ (pt[s].w => ~ slot[s].cow)
      BY <2>0, <2>1, <3>1 DEF JInv, RInv, Mapped
    <3>3. slot[s].refs # 0
      BY <2>0, <3>2, NoRefs DEF JInv, RInv
    <3>4. QED BY <2>0, <3>2, <3>3 DEF JInv, RInv, Empty
  <2>2. ASSUME NEW c \in Cow, slot[c].v, slot[c].cow
        PROVE  slot[File].v /\ slot[c].f = slot[File].f
    <3>1. c \in Sharers /\ Shared(c) /\ File \in Set
      BY <2>2 DEF Sharers, Shared, Set
    <3>2. slot[File].refs # 0
      BY <2>0, <3>1, NoRefs DEF JInv, RInv
    <3>3. QED BY <2>0, <3>1, <3>2 DEF JInv, RInv, Empty, Sharing
  <2>3. QED BY <2>1, <2>2 DEF MapsCurrent
<1>2. QED BY <1>1, References, PTL
=============================================================================
