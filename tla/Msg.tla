-------------------------------- MODULE Msg --------------------------------
(***************************************************************************)
(* Message passing between the clients of one server port and the threads  *)
(* of the server: src/src/os/kern/msg.c, msgcon.c, port.c, msgkern.c.      *)
(*                                                                         *)
(* A connection is a portref.  The client's half of an operation and the   *)
(* server's half meet in its state p_state, its semaphores p_sema (one     *)
(* thread does I/O at a time), p_iowait (the client waits for the server)  *)
(* and p_svwait (the server waits until the client took the reply), and in *)
(* the port's message queue.  The code is written for several processors   *)
(* and for preemption anywhere but under a spinlock                        *)
(* (src/src/vsta_intro.txt:92, :154), so each action is one spinlock       *)
(* section of it, or the                                                   *)
(* thread-local code up to one.  A thread put to sleep is named by its pc; *)
(* the v_sema() that wakes it moves the pc on (WakeTo).                    *)
(*                                                                         *)
(* An ASSERT that fails stops the kernel: it is recorded in "panic" and    *)
(* nothing moves afterwards.  The kernel is built with DEBUG               *)
(* (src/src/os/make/makefile:6), which turns ASSERT_DEBUG on.              *)
(*                                                                         *)
(* The server is user code.  It is modelled by its duty: it answers what   *)
(* it received and has not answered ("todo"), once, in any order, and on   *)
(* M_ABORT forgets the aborted request and confirms                        *)
(* (src/src/doc/man/2/msg_rece.2).                                         *)
(***************************************************************************)
EXTENDS SemaOps, FiniteSets

CONSTANTS
    Client,      \* threads of the client process
    Server,      \* threads of the server process
    Ref,         \* portrefs that can be allocated
    NoRef,       \* no portref
    Envs,        \* the settings to look at, see Env
    SvCap        \* bound: p_svwait stops counting here (see Let)

(* What the client and the server do, fixed from the start:                 *)
(*    open     the portrefs connected at first                              *)
(*    ops      the client's calls: send, connect, disconnect, clone         *)
(*    events   may events interrupt the threads?                            *)
(*    shut     may the server close its port?                               *)
(*    holds    may the server receive while it owes answers?                *)
(*    servers  the server threads in use                                    *)
Env == [open : SUBSET Ref,
        ops : SUBSET {"send", "connect", "disconnect", "clone"},
        events : BOOLEAN, shut : BOOLEAN, holds : BOOLEAN,
        servers : SUBSET Server]

ASSUME RefAssumption == NoRef \notin Ref
ASSUME SvCapAssumption == SvCap \in Nat
ASSUME ThreadAssumption == Client \cap Server = {}
ASSUME EnvAssumption == Envs \subseteq Env
ASSUME FiniteAssumption == IsFiniteSet(Ref)

Bit == {0, 1}      \* tells a client's call from the one before it

(* A sysmsg: operation, sending portref, the thread and call it is from, and *)
(* for M_DUP the new portref passed in m_arg.                                *)
MsgOp == {"req", "dup", "abort", "connect", "disconnect"}
Message == [op : MsgOp, r : Ref, by : Client, bit : Bit, n : Ref \cup {NoRef}]

VARIABLES
    env,      \* the setting
    ref,      \* the portrefs (struct portref, with its slot in p_open[])
    port,     \* the server's port (struct port)
    prefs,    \* p_prefs of the server process: the handles it may use
    cl,       \* the client threads
    sv,       \* the server threads
    todo,     \* messages the server received and still has to answer
    panic     \* which assertion failed, "none" while the kernel runs

vars == <<env, ref, port, prefs, cl, sv, todo, panic>>

FreeRef == [st |-> "FREE", port |-> FALSE, fd |-> FALSE, sema |-> NewSema(1),
            iowait |-> NewSema(0), svwait |-> NewSema(0), msg |-> {}]

(* alloc_portref() *)
NewRef == [FreeRef EXCEPT !.st = "OPENING"]

OpenRef == [FreeRef EXCEPT !.st = "IODONE", !.port = TRUE, !.fd = TRUE]

IdleCl(b) == [pc |-> "idle", op |-> "none", r |-> NoRef, n |-> NoRef,
              bit |-> b, arg |-> "own"]
IdleSv == [pc |-> "idle", ms |-> <<>>, r |-> NoRef]

Init ==
    /\ env \in Envs
    /\ ref = [r \in Ref |-> IF r \in env.open THEN OpenRef ELSE FreeRef]
    /\ port = [st |-> "open", name |-> TRUE, sema |-> NewSema(1),
               wait |-> NewSema(0), q |-> <<>>, refs |-> SetToSeq(env.open)]
    /\ prefs = env.open
    /\ cl = [c \in Client |-> IdleCl(0)]
    /\ sv = [s \in Server |-> IdleSv]
    /\ todo = {}
    /\ panic = "none"

-----------------------------------------------------------------------------
(* Where a sleeping thread goes on when it is given what it waits for.      *)

WakeTo == [psema |-> "have", iow |-> "done", abw |-> "abdone", dupw |-> "dupd",
           cw |-> "cd", dpsema |-> "dhave", dw |-> "dd",
           rpsema |-> "rhave", rwait |-> "got", svw |-> "idle",
           xpsema |-> "xhave"]

(* The threads of T that v_sema(s) wakes move on in state f. *)
Wake(f, s) ==
    [t \in DOMAIN f |->
        IF t \in VWakes(s) THEN [f[t] EXCEPT !.pc = WakeTo[@]] ELSE f[t]]

(* v_sema(p_svwait).  The client does it after every operation but only a   *)
(* reply waits for it, and clears the count first: units pile up that       *)
(* nobody reads.  They are counted up to SvCap.                             *)
Let(s) == IF s.cnt >= SvCap THEN s ELSE VSema(s)

Run == panic = "none"
Panic(why) == panic' = why /\ UNCHANGED <<ref, port, prefs, cl, sv, todo>>

(* Mutant: wake a receiver only for the first message. *)
QueueWakesFirst(m) ==
    [port EXCEPT !.q = Append(@, m),
                 !.wait = IF port.q = <<>> THEN VSema(@) ELSE @]

(* lqueue_msg(): append to the queue and release one receiver. *)
Queue(m) == [port EXCEPT !.q = Append(@, m), !.wait = VSema(@)]

MsgOf(c, op) == [op |-> op, r |-> cl[c].r, by |-> c, bit |-> cl[c].bit,
                 n |-> IF op = "dup" THEN cl[c].n ELSE NoRef]

(* ref_port(): the new portref goes behind the head of the ring. *)
RefPort(refs, r) == IF refs = <<>> THEN <<r>> ELSE <<Head(refs), r>> \o Tail(refs)

(* The ring with the portref r unlinked. *)
Without(refs, r) == RemoveAt(refs, CHOOSE i \in DOMAIN refs : refs[i] = r)

(* deref_port() on port p: the ring without r, and which of its DEBUG checks *)
(* stops the kernel, if one does.                                            *)
Unref(p, r) == [p EXCEPT !.refs = Without(@, r)]
DerefFails(p, r) ==
    IF p.refs = <<>> THEN "deref_port: no ref"
    ELSE IF r \notin ToSet(p.refs) THEN "deref_port: ref not found"
    ELSE IF Len(p.refs) = 1 /\ Blocked(p.wait) THEN "deref_port: waiters"
    ELSE IF Len(p.refs) = 1 /\ \E m \in ToSet(p.q) : m.op # "connect"
         THEN "deref_port: messages"
    ELSE "none"

At(c, where) == Run /\ cl[c].pc = where
Sat(s, where) == Run /\ s \in env.servers /\ sv[s].pc = where

-----------------------------------------------------------------------------
(* msg_send() and clone(): the client's side of an operation.               *)

(* alloc_open(): clone() and msg_connect() fail at once unless a slot is     *)
(* left for the new portref; clone() reserves it before it waits.           *)
SlotFree ==
    Cardinality({r \in Ref : ref[r].st = "FREE"})
        > Cardinality({c \in Client : cl[c].op = "clone"
                                       /\ cl[c].pc \in {"psema", "have"}})

(* find_portref(): look the portref up and ask for its p_sema.  With the    *)
(* server gone the call fails at once.                                      *)
Lookup(c, r, op) ==
    /\ At(c, "idle") /\ op \in env.ops \cap {"send", "clone"}
    /\ op = "clone" => SlotFree
    /\ ref[r].fd /\ ref[r].port
    /\ ref' = [ref EXCEPT ![r].sema = PSema(@, c)]
    /\ cl' = [cl EXCEPT
                 ![c].pc = IF PSleeps(ref[r].sema) THEN "psema" ELSE "have",
                 ![c].op = op, ![c].r = r, ![c].bit = 1 - @, ![c].arg = "own"]
    /\ UNCHANGED <<port, prefs, sv, todo, panic>>

(* An event interrupts the wait for p_sema: EINTR, nothing held. *)
LookupIntr(c) ==
    /\ env.events /\ At(c, "psema")
    /\ ref' = [ref EXCEPT ![cl[c].r].sema = DqSema(@, c)]
    /\ cl' = [cl EXCEPT ![c] = IdleCl(@.bit)]
    /\ UNCHANGED <<port, prefs, sv, todo, panic>>

(* find_portref(): the server went away while we waited. *)
LookupGone(c) ==
    /\ At(c, "have") /\ ~ ref[cl[c].r].port
    /\ cl' = [cl EXCEPT ![c].pc = "rel", ![c].arg = "err"]
    /\ UNCHANGED <<ref, port, prefs, sv, todo, panic>>

(* Post message op on portref r and wait for p_iowait at pc "where". *)
Post(c, op, where) ==
    LET r == cl[c].r IN
    IF ref[r].iowait.cnt # 0 THEN Panic("msg_send: p_iowait")
    ELSE /\ ref' = [ref EXCEPT ![r].st = "IOWAIT", ![r].msg = {c},
                               ![r].iowait = PSema(@, c)]
         /\ port' = Queue(MsgOf(c, op))
         /\ cl' = [cl EXCEPT ![c].pc = where]
         /\ sv' = Wake(sv, port.wait)
         /\ UNCHANGED <<prefs, todo, panic>>

(* msg_send(): state PS_IOWAIT, message queued, asleep on p_iowait. *)
Send(c) ==
    /\ At(c, "have") /\ cl[c].op = "send" /\ ref[cl[c].r].port
    /\ Post(c, "req", "iow")

(* An event interrupts the wait for the reply. *)
SendIntr(c) ==
    /\ env.events /\ At(c, "iow")
    /\ ref' = [ref EXCEPT ![cl[c].r].iowait = DqSema(@, c)]
    /\ cl' = [cl EXCEPT ![c].pc = "intr"]
    /\ UNCHANGED <<port, prefs, sv, todo, panic>>

(* Mutant: an interrupted operation is left without an abort. *)
AbortSkipped(c) ==
    /\ At(c, "intr") /\ ref[cl[c].r].st = "IOWAIT"
    /\ cl' = [cl EXCEPT ![c].pc = "done", ![c].arg = "err"]
    /\ UNCHANGED <<ref, port, prefs, sv, todo, panic>>

(* The interrupted client finds the operation still in progress: it queues  *)
(* M_ABORT and waits, uninterruptibly now, for the server's confirmation.   *)
Abort(c) ==
    LET r == cl[c].r IN
    /\ At(c, "intr") /\ ref[r].st = "IOWAIT"
    /\ IF ref[r].port
         THEN /\ ref' = [ref EXCEPT ![r].st = "ABWAIT", ![r].iowait = PSema(@, c)]
              /\ port' = Queue(MsgOf(c, "abort"))
              /\ cl' = [cl EXCEPT ![c].pc = IF PSleeps(ref[r].iowait)
                                            THEN "abw" ELSE "abdone"]
              /\ sv' = Wake(sv, port.wait)
              /\ UNCHANGED <<prefs, todo, panic>>
         ELSE Panic("msg_send: queue_msg to no port")

(* Mutant: the unit in p_iowait stays. *)
AbortLateKeepsUnit(c) ==
    /\ At(c, "intr") /\ ref[cl[c].r].st = "IODONE"
    /\ cl' = [cl EXCEPT ![c].pc = "done", ![c].arg = "err"]
    /\ UNCHANGED <<ref, port, prefs, sv, todo, panic>>

(* The interrupted client finds the server was faster: the reply stands but *)
(* the call still fails; the unit the server left in p_iowait is cleared.   *)
AbortLate(c) ==
    LET r == cl[c].r IN
    /\ At(c, "intr") /\ ref[r].st # "IOWAIT"
    /\ IF ref[r].st = "IODONE"
         THEN /\ ref' = [ref EXCEPT ![r].iowait = SetSema(@, 0)]
              /\ cl' = [cl EXCEPT ![c].pc = "done", ![c].arg = "err"]
              /\ UNCHANGED <<port, prefs, sv, todo, panic>>
         ELSE Panic("msg_send: illegal PS state")

(* The abort was confirmed. *)
Aborted(c) ==
    /\ At(c, "abdone")
    /\ IF ref[cl[c].r].st = "ABDONE"
         THEN /\ cl' = [cl EXCEPT ![c].pc = "done", ![c].arg = "err"]
              /\ UNCHANGED <<ref, port, prefs, sv, todo, panic>>
         ELSE Panic("msg_send: bad abdone")

(* Mutant: the client forgets p_svwait. *)
DoneForgets(c) ==
    /\ At(c, "done")
    /\ cl' = [cl EXCEPT ![c].pc = "rel"]
    /\ UNCHANGED <<ref, port, prefs, sv, todo, panic>>

(* The reply was used: let the server thread go on (p_svwait) ...           *)
Done(c) ==
    /\ At(c, "done")
    /\ ref' = [ref EXCEPT ![cl[c].r].svwait = Let(@)]
    /\ sv' = Wake(sv, ref[cl[c].r].svwait)
    /\ cl' = [cl EXCEPT ![c].pc = "rel"]
    /\ UNCHANGED <<port, prefs, todo, panic>>

(* ... and the next thread have the portref (p_sema); the sysmsg is freed.  *)
Release(c) ==
    LET s == ref[cl[c].r].sema IN
    /\ At(c, "rel")
    /\ ref' = [ref EXCEPT ![cl[c].r].sema = VSema(s)]
    /\ cl' = Wake([cl EXCEPT ![c] = IdleCl(@.bit)], s)
    /\ UNCHANGED <<port, prefs, sv, todo, panic>>

(* clone() -> dup_port() -> kernmsg_send(): a new portref, and M_DUP to     *)
(* have the server open it.                                                 *)
Clone(c, n) ==
    LET r == cl[c].r IN
    /\ At(c, "have") /\ cl[c].op = "clone" /\ ref[r].port
    /\ ref[n].st = "FREE"
    /\ ref' = [ref EXCEPT ![n] = [NewRef EXCEPT !.st = "IODONE", !.port = TRUE]]
    /\ cl' = [cl EXCEPT ![c].pc = "dup", ![c].n = n]
    /\ UNCHANGED <<port, prefs, sv, todo, panic>>

CloneSend(c) ==
    /\ At(c, "dup")
    /\ IF ref[cl[c].r].port
         THEN Post(c, "dup", "dupw")
         ELSE /\ ref' = [ref EXCEPT ![cl[c].n] = FreeRef]
              /\ cl' = [cl EXCEPT ![c].pc = "rel", ![c].n = NoRef]
              /\ UNCHANGED <<port, prefs, sv, todo, panic>>

(* kernmsg_send() after the reply: release the server, keep or free the     *)
(* new portref.                                                             *)
CloneDone(c) ==
    /\ At(c, "dupd")
    /\ LET ok == cl[c].arg # "err" IN
       /\ ref' = [ref EXCEPT
                    ![cl[c].r].svwait = Let(@),
                    ![cl[c].n] = IF ok THEN [@ EXCEPT !.fd = TRUE] ELSE FreeRef]
       /\ sv' = Wake(sv, ref[cl[c].r].svwait)
       /\ cl' = [cl EXCEPT ![c].pc = "rel", ![c].n = NoRef]
       /\ UNCHANGED <<port, prefs, todo, panic>>

-----------------------------------------------------------------------------
(* msg_connect() and msg_disconnect() of a client.                          *)

(* msg_connect(): a new portref, M_CONNECT queued, asleep uninterruptibly.  *)
Connect(c, r) ==
    /\ At(c, "idle") /\ "connect" \in env.ops
    /\ ref[r].st = "FREE" /\ SlotFree /\ port.name
    /\ ref' = [ref EXCEPT ![r] = [NewRef EXCEPT !.port = TRUE, !.msg = {c},
                                                !.iowait = PSema(NewSema(0), c)]]
    /\ port' = Queue([op |-> "connect", r |-> r, by |-> c,
                      bit |-> 1 - cl[c].bit, n |-> NoRef])
    /\ cl' = [cl EXCEPT ![c].pc = "cw", ![c].op = "connect", ![c].r = r,
                        ![c].bit = 1 - @, ![c].arg = "own"]
    /\ sv' = Wake(sv, port.wait)
    /\ UNCHANGED <<prefs, todo, panic>>

(* msg_connect() woken: the port vanished, or p_state says yes or no.       *)
Connected(c) ==
    LET r == cl[c].r
        ok == ref[r].port /\ ref[r].st = "IODONE"
    IN
    /\ At(c, "cd")
    /\ ref' = [ref EXCEPT ![r] = IF ok THEN [@ EXCEPT !.fd = TRUE] ELSE FreeRef]
    /\ cl' = [cl EXCEPT ![c] = IdleCl(@.bit)]
    /\ UNCHANGED <<port, prefs, sv, todo, panic>>

(* delete_portref(): out of p_open[] first, then wait for the I/O of the    *)
(* other threads to finish.                                                 *)
Disconnect(c, r) ==
    /\ At(c, "idle") /\ "disconnect" \in env.ops
    /\ ref[r].fd
    /\ ref' = [ref EXCEPT ![r].fd = FALSE, ![r].sema = PSema(@, c)]
    /\ cl' = [cl EXCEPT
                 ![c].pc = IF PSleeps(ref[r].sema) THEN "dpsema" ELSE "dhave",
                 ![c].op = "disconnect", ![c].r = r, ![c].bit = 1 - @,
                 ![c].arg = "own"]
    /\ UNCHANGED <<port, prefs, sv, todo, panic>>

(* shut_client(): tell the server, or just free the portref if it is gone.  *)
ShutClient(c) ==
    LET r == cl[c].r IN
    /\ At(c, "dhave")
    /\ IF ref[r].port
         THEN /\ ref' = [ref EXCEPT ![r].st = "CLOSING", ![r].iowait = PSema(@, c)]
              /\ port' = Queue(MsgOf(c, "disconnect"))
              /\ cl' = [cl EXCEPT ![c].pc = IF PSleeps(ref[r].iowait)
                                            THEN "dw" ELSE "dd"]
              /\ sv' = Wake(sv, port.wait)
              /\ UNCHANGED <<prefs, todo, panic>>
         ELSE /\ ref' = [ref EXCEPT ![r] = FreeRef]
              /\ cl' = [cl EXCEPT ![c] = IdleCl(@.bit)]
              /\ UNCHANGED <<port, prefs, sv, todo, panic>>

(* shut_client() acknowledged: portref and sysmsg are freed. *)
Disconnected(c) ==
    /\ At(c, "dd")
    /\ ref' = [ref EXCEPT ![cl[c].r] = FreeRef]
    /\ cl' = [cl EXCEPT ![c] = IdleCl(@.bit)]
    /\ UNCHANGED <<port, prefs, sv, todo, panic>>

-----------------------------------------------------------------------------
(* msg_receive()                                                            *)

(* find_port(): one thread at a time receives. *)
Receive(s) ==
    /\ Sat(s, "idle") /\ port.st = "open"
    /\ env.holds \/ todo = {}
    /\ port' = [port EXCEPT !.sema = PSema(@, s)]
    /\ sv' = [sv EXCEPT ![s].pc = IF PSleeps(port.sema) THEN "rpsema" ELSE "rhave"]
    /\ UNCHANGED <<ref, prefs, cl, todo, panic>>

ReceiveIntr(s) ==
    /\ env.events /\ Sat(s, "rpsema")
    /\ port' = [port EXCEPT !.sema = DqSema(@, s)]
    /\ sv' = [sv EXCEPT ![s] = IdleSv]
    /\ UNCHANGED <<ref, prefs, cl, todo, panic>>

(* Wait for a message on p_wait. *)
AwaitMsg(s) ==
    /\ Sat(s, "rhave")
    /\ port' = [port EXCEPT !.wait = PSema(@, s)]
    /\ sv' = [sv EXCEPT ![s].pc = IF PSleeps(port.wait) THEN "rwait" ELSE "got"]
    /\ UNCHANGED <<ref, prefs, cl, todo, panic>>

AwaitIntr(s) ==
    /\ env.events /\ Sat(s, "rwait")
    /\ port' = [port EXCEPT !.wait = DqSema(@, s)]
    /\ sv' = [sv EXCEPT ![s].pc = "rrel"]
    /\ UNCHANGED <<ref, prefs, cl, todo, panic>>

(* Take the message off the queue; M_CONNECT enters the portref in the      *)
(* port's ring, M_DISCONNECT takes it out.                                  *)
DequeueFails ==
    LET m == Head(port.q) IN
    IF port.q = <<>> THEN "msg_receive: p_wait/p_hd disagree"
    ELSE IF m.op # "disconnect" THEN "none"
    ELSE IF ref[m.r].st # "CLOSING" THEN "msg_receive: DISC but not CLOSING"
    ELSE IF ~ ref[m.r].port THEN "msg_receive: DISC pr mismatch"
    ELSE DerefFails([port EXCEPT !.q = Tail(@)], m.r)

Dequeue(s) ==
    LET m  == Head(port.q)
        p1 == [port EXCEPT !.q = Tail(@)]
    IN
    /\ Sat(s, "got")
    /\ IF DequeueFails # "none" THEN Panic(DequeueFails)
       ELSE /\ port' = CASE m.op = "connect" -> [p1 EXCEPT !.refs = RefPort(@, m.r)]
                        [] m.op = "disconnect" -> Unref(p1, m.r)
                        [] OTHER -> p1
            /\ sv' = [sv EXCEPT ![s].ms = <<m>>,
                        ![s].pc = CASE m.op = "connect" -> "newc"
                                    [] m.op = "disconnect" -> "delc"
                                    [] OTHER -> "copy"]
            /\ UNCHANGED <<ref, prefs, cl, todo, panic>>

(* Mutant: the handle is not entered. *)
NewClientUnhashed(s) ==
    /\ Sat(s, "newc")
    /\ sv' = [sv EXCEPT ![s].pc = "copy"]
    /\ UNCHANGED <<ref, port, prefs, cl, todo, panic>>

(* new_client() of a connecting portref. *)
NewClient(s) ==
    LET r == sv[s].ms[1].r IN
    /\ Sat(s, "newc")
    /\ IF r \in prefs THEN Panic("new_client: already hashed")
       ELSE /\ prefs' = prefs \cup {r}
            /\ sv' = [sv EXCEPT ![s].pc = "copy"]
            /\ UNCHANGED <<ref, port, cl, todo, panic>>

(* del_client() of a disconnecting portref ...                              *)
DelClient(s) ==
    LET r == sv[s].ms[1].r IN
    /\ Sat(s, "delc")
    /\ IF r \notin prefs THEN Panic("del_client: can't find")
       ELSE /\ prefs' = prefs \ {r}
            /\ sv' = [sv EXCEPT ![s].pc = "dack"]
            /\ UNCHANGED <<ref, port, cl, todo, panic>>

(* ... and let the client finish: it frees the portref and the message.     *)
AckDisconnect(s) ==
    LET r == sv[s].ms[1].r
        io == ref[r].iowait
    IN
    /\ Sat(s, "dack")
    /\ ref' = [ref EXCEPT ![r].iowait = VSema(io)]
    /\ cl' = Wake(cl, io)
    /\ sv' = [sv EXCEPT ![s].pc = "copy"]
    /\ UNCHANGED <<port, prefs, todo, panic>>

(* The sysmsg is read and copied out to the server, and the next thread may *)
(* receive ...                                                              *)
CopyOut(s) ==
    /\ Sat(s, "copy")
    /\ sv' = [sv EXCEPT ![s].pc = "rrel"]
    /\ UNCHANGED <<ref, port, prefs, cl, todo, panic>>

ReleasePort(s) ==
    /\ Sat(s, "rrel")
    /\ port' = [port EXCEPT !.sema = VSema(@)]
    /\ sv' = Wake([sv EXCEPT ![s] = IF @.ms = <<>> THEN IdleSv
                                    ELSE [@ EXCEPT !.pc = "rpost"]], port.sema)
    /\ UNCHANGED <<ref, prefs, cl, todo, panic>>

(* ... the sysmsg is looked at once more for segments to free, and the      *)
(* server has the message.  An M_ABORT makes it forget the request.         *)
Received(s) ==
    LET m == sv[s].ms[1] IN
    /\ Sat(s, "rpost")
    /\ todo' = CASE m.op = "disconnect" -> todo
                 [] m.op = "abort" -> {x \in todo : x.r # m.r} \cup {m}
                 [] OTHER -> todo \cup {m}
    /\ sv' = [sv EXCEPT ![s] = IdleSv]
    /\ UNCHANGED <<ref, port, prefs, cl, panic>>

-----------------------------------------------------------------------------
(* msg_reply(), msg_err(), msg_accept()                                     *)

(* The client thread that owns the sysmsg p_msg points to, told by the      *)
(* answer to m: "reply" if m is that very call, "stale" if it is another.   *)
Told(m, what) ==
    [c \in Client |->
        IF c \notin ref[m.r].msg THEN cl[c]
        ELSE [cl[c] EXCEPT !.arg =
                 IF m.by = c /\ m.bit = cl[c].bit THEN what ELSE "stale"]]

(* Is p_msg of portref r an M_DUP, of a call that is still in progress? *)
IsDup(r) == \E c \in ref[r].msg : cl[c].pc \in {"dupw", "dupd"}

(* The server answers message m, whatever comes of it. *)
Answers0(s, m) ==
    /\ Sat(s, "idle") /\ m \in todo
    /\ todo' = todo \ {m}
    /\ UNCHANGED panic

Answers(s, m) == Answers0(s, m) /\ UNCHANGED prefs

(* The usual reply, or -1: copied into the client's sysmsg, PS_IODONE, the  *)
(* client woken, and the server thread waits on p_svwait until it is used.  *)
ReplyDone(s, m) ==
    LET r == m.r IN
    /\ Answers(s, m) /\ m.op \in {"req", "dup", "abort"} /\ r \in prefs
    /\ ref[r].st = "IOWAIT"
    /\ ref' = [ref EXCEPT ![r].st = "IODONE",
                          ![r].svwait = PSema(SetSema(@, 0), s),
                          ![r].iowait = VSema(@)]
    /\ \E what \in IF IsDup(r) THEN {"err"} ELSE {"reply", "err"} :
          cl' = Wake(Told(m, what), ref[r].iowait)
    /\ sv' = [sv EXCEPT ![s].pc = "svw"]
    /\ UNCHANGED port

(* The reply to M_DUP enters the new portref in the port's ring ...         *)
ReplyDup(s, m) ==
    LET r == m.r
        n == CHOOSE x \in {cl[c].n : c \in ref[r].msg} : TRUE
    IN
    /\ Sat(s, "idle") /\ m \in todo
    /\ m.op \in {"req", "dup", "abort"} /\ r \in prefs
    /\ ref[r].st = "IOWAIT" /\ IsDup(r)
    /\ IF ~ ref[n].port THEN Panic("msg_reply: newpr != port")
       ELSE /\ todo' = todo \ {m}
            /\ port' = [port EXCEPT !.refs = RefPort(@, n)]
            /\ sv' = [sv EXCEPT ![s] = [pc |-> "dupv", ms |-> <<m>>, r |-> n]]
            /\ UNCHANGED <<ref, prefs, cl, panic>>


(* ... wakes the client ...                                                 *)
DupWake(s) ==
    LET r == sv[s].ms[1].r
        io == ref[r].iowait
    IN
    /\ Sat(s, "dupv")
    /\ ref' = [ref EXCEPT ![r].iowait = VSema(io)]
    /\ cl' = Wake(cl, io)
    /\ sv' = [sv EXCEPT ![s].pc = "duph"]
    /\ UNCHANGED <<port, prefs, todo, panic>>

(* ... and then makes the new handle known (new_client()).                  *)
DupHash(s) ==
    /\ Sat(s, "duph")
    /\ IF sv[s].r \in prefs THEN Panic("new_client: already hashed")
       ELSE /\ prefs' = prefs \cup {sv[s].r}
            /\ sv' = [sv EXCEPT ![s] = IdleSv]
            /\ UNCHANGED <<ref, port, cl, todo, panic>>

(* The client asked for an abort: a reply with M_ABORT confirms it ...      *)
ReplyAbort(s, m) ==
    LET r == m.r IN
    /\ Answers(s, m) /\ m.op = "abort" /\ r \in prefs
    /\ ref[r].st = "ABWAIT"
    /\ ref' = [ref EXCEPT ![r].st = "ABDONE", ![r].iowait = VSema(@)]
    /\ cl' = Wake(cl, ref[r].iowait)
    /\ UNCHANGED <<port, sv>>

(* ... and any other reply, or one to a handle that is not waiting, is      *)
(* refused with EIO or EINVAL and changes nothing.                          *)
ReplyRefused(s, m) ==
    /\ Answers(s, m) /\ m.op \in {"req", "dup", "abort"}
    /\ \/ m.r \notin prefs
       \/ ref[m.r].st = "ABWAIT" /\ m.op # "abort"
       \/ ref[m.r].st \notin {"IOWAIT", "ABWAIT"}
    /\ UNCHANGED <<ref, port, cl, sv>>

(* msg_err() on a request: the client's sysmsg says -1. *)
ErrReply(s, m) ==
    LET r == m.r IN
    /\ Answers(s, m) /\ m.op \in {"req", "dup"} /\ r \in prefs
    /\ ref[r].port /\ ref[r].st = "IOWAIT"
    /\ ref' = [ref EXCEPT ![r].st = "IODONE", ![r].iowait = VSema(@)]
    /\ cl' = Wake(Told(m, "err"), ref[r].iowait)
    /\ UNCHANGED <<port, sv>>

(* msg_err() on a connection request: handle and ring forget the portref.   *)
Reject(s, m) ==
    LET r == m.r
        why == DerefFails(port, r)
    IN
    /\ Sat(s, "idle") /\ m \in todo
    /\ m.op = "connect" /\ r \in prefs
    /\ ref[r].port /\ ref[r].st = "OPENING"
    /\ IF why # "none" THEN Panic(why)
       ELSE /\ todo' = todo \ {m}
            /\ prefs' = prefs \ {r}
            /\ port' = Unref(port, r)
            /\ ref' = [ref EXCEPT ![r].st = "ABDONE", ![r].iowait = VSema(@)]
            /\ cl' = Wake(cl, ref[r].iowait)
            /\ UNCHANGED <<sv, panic>>

(* msg_err() finds nobody waiting, or the server port going away.  The      *)
(* handle of a connection request is forgotten all the same.                *)
ErrRefused(s, m) ==
    /\ Answers0(s, m) /\ m.op # "abort"
    /\ m.r \notin prefs \/ ~ ref[m.r].port \/ ref[m.r].st \notin {"IOWAIT", "OPENING"}
    /\ prefs' = IF ref[m.r].st = "OPENING" THEN prefs \ {m.r} ELSE prefs
    /\ UNCHANGED <<ref, port, cl, sv>>

(* Mutant: the client is not woken. *)
AcceptSilent(s, m) ==
    /\ Answers(s, m) /\ m.op = "connect" /\ m.r \in prefs
    /\ ref[m.r].st = "OPENING"
    /\ ref' = [ref EXCEPT ![m.r].st = "IODONE"]
    /\ UNCHANGED <<port, cl, sv>>

(* msg_accept() *)
Accept(s, m) ==
    LET r == m.r IN
    /\ Answers(s, m) /\ m.op = "connect" /\ r \in prefs
    /\ ref[r].st = "OPENING"
    /\ ref' = [ref EXCEPT ![r].st = "IODONE", ![r].iowait = VSema(@)]
    /\ cl' = Wake(cl, ref[r].iowait)
    /\ UNCHANGED <<port, sv>>

-----------------------------------------------------------------------------
(* msg_disconnect() of the server: delete_port() and shut_server().         *)

ClosePort(s) ==
    /\ env.shut /\ Sat(s, "idle") /\ port.st = "open"
    /\ port' = [port EXCEPT !.st = "closing", !.sema = PSema(@, s)]
    /\ sv' = [sv EXCEPT ![s].pc = IF PSleeps(port.sema) THEN "xpsema" ELSE "xhave"]
    /\ UNCHANGED <<ref, prefs, cl, todo, panic>>

Unname(s) ==
    /\ Sat(s, "xhave")
    /\ port' = [port EXCEPT !.name = FALSE]
    /\ sv' = [sv EXCEPT ![s].pc = "xloop"]
    /\ UNCHANGED <<ref, prefs, cl, todo, panic>>


(* close_client() of the first portref in the ring, if no message waits.    *)
CloseClient(s) ==
    LET r == Head(port.refs)
        io == ref[r].iowait
        why == DerefFails(port, r)
    IN
    /\ Sat(s, "xloop") /\ port.refs # <<>> /\ port.q = <<>>
    /\ IF why # "none" THEN Panic(why)
       ELSE /\ ref' = [ref EXCEPT ![r].port = FALSE,
                                  ![r].iowait = IF Blocked(io) THEN VSema(io) ELSE io]
            /\ cl' = IF Blocked(io) THEN Wake(cl, io) ELSE cl
            /\ port' = Unref(port, r)
            /\ sv' = [sv EXCEPT ![s].pc = "xh", ![s].r = r]
            /\ UNCHANGED <<prefs, todo, panic>>

(* close_client() gives up on a portref because messages wait;              *)
(* bounce_msgs() takes all of them off the port.                            *)
TakeMsgs(s) ==
    /\ Sat(s, "xloop") /\ port.refs # <<>> /\ port.q # <<>>
    /\ port' = [port EXCEPT !.q = <<>>]
    /\ sv' = [sv EXCEPT ![s] = [pc |-> "xb", ms |-> port.q, r |-> Head(port.refs)]]
    /\ UNCHANGED <<ref, prefs, cl, todo, panic>>

(* bounce_msgs(): one message fails with an I/O error and its sender is cut *)
(* off; of an aborting client only the M_ABORT counts.                      *)
BounceMsg(s) ==
    LET m == Head(sv[s].ms)
        r == m.r
        io == ref[r].iowait
        why == IF ~ ref[r].port THEN "bounce_msgs: msg in queue not for port"
               ELSE IF ref[r].st = "ABWAIT" /\ m.op # "abort" THEN "none"
               ELSE DerefFails(port, r)
    IN
    /\ Sat(s, "xb") /\ sv[s].ms # <<>>
    /\ IF why # "none" THEN Panic(why)
       ELSE /\ sv' = [sv EXCEPT ![s].ms = Tail(@)]
            /\ UNCHANGED <<prefs, todo, panic>>
            /\ IF ref[r].st = "ABWAIT" /\ m.op # "abort"
                 THEN UNCHANGED <<ref, port, cl>>
                 ELSE /\ ref' = [ref EXCEPT ![r].port = FALSE, ![r].iowait = VSema(io)]
                      /\ port' = Unref(port, r)
                      /\ cl' = Wake([cl EXCEPT ![m.by].arg = "err"], io)

Bounced(s) ==
    /\ Sat(s, "xb") /\ sv[s].ms = <<>>
    /\ sv' = [sv EXCEPT ![s].pc = "xh"]
    /\ UNCHANGED <<ref, port, prefs, cl, todo, panic>>

(* shut_server(): the portref this round was for leaves the hash.           *)
Unhash(s) ==
    /\ Sat(s, "xh")
    /\ IF sv[s].r \notin prefs THEN Panic("shut_server: pr not hashed")
       ELSE /\ prefs' = prefs \ {sv[s].r}
            /\ sv' = [sv EXCEPT ![s] = [IdleSv EXCEPT !.pc = "xloop"]]
            /\ UNCHANGED <<ref, port, cl, todo, panic>>

(* Mutant: the port is freed under the clients that still have a portref.   *)
FreePortEarly(s) ==
    /\ Sat(s, "xloop")
    /\ port' = [port EXCEPT !.st = "freed"]
    /\ sv' = [sv EXCEPT ![s] = IdleSv]
    /\ UNCHANGED <<ref, prefs, cl, todo, panic>>

(* shut_server(): no client left, the port is freed as it is.               *)
FreePort(s) ==
    /\ Sat(s, "xloop") /\ port.refs = <<>>
    /\ port' = [port EXCEPT !.st = "freed"]
    /\ sv' = [sv EXCEPT ![s] = IdleSv]
    /\ UNCHANGED <<ref, prefs, cl, todo, panic>>

-----------------------------------------------------------------------------
ClientCall(c) ==
    \E r \in Ref :
        \/ \E op \in {"send", "clone"} : Lookup(c, r, op)
        \/ Connect(c, r)
        \/ Disconnect(c, r)

ClientStep(c) ==
    \/ LookupGone(c) \/ Send(c) \/ Abort(c) \/ AbortLate(c) \/ Aborted(c)
    \/ Done(c) \/ Release(c)
    \/ (\E n \in Ref : Clone(c, n)) \/ CloneSend(c) \/ CloneDone(c)
    \/ Connected(c) \/ ShutClient(c) \/ Disconnected(c)

ServerStep(s) ==
    \/ AwaitMsg(s) \/ Dequeue(s) \/ NewClient(s) \/ DelClient(s)
    \/ AckDisconnect(s) \/ CopyOut(s) \/ ReleasePort(s) \/ Received(s)
    \/ DupWake(s) \/ DupHash(s)
    \/ Unname(s) \/ CloseClient(s) \/ TakeMsgs(s) \/ BounceMsg(s)
    \/ Bounced(s) \/ Unhash(s) \/ FreePort(s)

ServerAnswer(s) ==
    \E m \in todo :
        \/ ReplyDone(s, m) \/ ReplyDup(s, m) \/ ReplyAbort(s, m)
        \/ ReplyRefused(s, m) \/ ErrReply(s, m) \/ ErrRefused(s, m)
        \/ Reject(s, m) \/ Accept(s, m)

Event ==
    \/ \E c \in Client : LookupIntr(c) \/ SendIntr(c)
    \/ \E s \in Server : ReceiveIntr(s) \/ AwaitIntr(s)

Next ==
    /\ UNCHANGED env
    /\ \/ \E c \in Client : ClientCall(c) \/ ClientStep(c)
       \/ \E s \in Server :
             Receive(s) \/ ServerStep(s) \/ ServerAnswer(s) \/ ClosePort(s)
       \/ Event

Spec == Init /\ [][Next]_vars

(* A runnable thread gets the CPU; the server keeps receiving, and answers  *)
(* what it received: with an error or not is its choice.                    *)
Fairness ==
    /\ \A c \in Client : WF_vars(ClientStep(c) /\ UNCHANGED env)
    /\ \A s \in Server :
          /\ WF_vars(ServerStep(s) /\ UNCHANGED env)
          /\ WF_vars(Receive(s) /\ UNCHANGED env)
          /\ WF_vars(ServerAnswer(s) /\ UNCHANGED env)

LiveSpec == Spec /\ Fairness

-----------------------------------------------------------------------------
SemaOK(s, T) == SemaType(s, T) /\ CountsSleepers(s)

TypeOK ==
    /\ \A r \in Ref :
          /\ ref[r].st \in {"FREE", "OPENING", "IOWAIT", "IODONE", "ABWAIT",
                            "ABDONE", "CLOSING"}
          /\ ref[r].port \in BOOLEAN /\ ref[r].fd \in BOOLEAN
          /\ SemaOK(ref[r].sema, Client)
          /\ SemaOK(ref[r].iowait, Client)
          /\ SemaOK(ref[r].svwait, Server)
          /\ ref[r].msg \subseteq Client
    /\ port.st \in {"open", "closing", "freed"} /\ port.name \in BOOLEAN
    /\ SemaOK(port.sema, Server) /\ SemaOK(port.wait, Server)
    /\ port.q \in Seq(Message) /\ port.refs \in Seq(Ref)
    /\ prefs \subseteq Ref
    /\ \A c \in Client :
          /\ cl[c].r \in Ref \cup {NoRef} /\ cl[c].n \in Ref \cup {NoRef}
          /\ cl[c].bit \in Bit /\ cl[c].arg \in {"own", "reply", "err", "stale"}
    /\ \A s \in Server : sv[s].ms \in Seq(Message)
    /\ todo \subseteq Message

(* None of the assertions of the message code fails.                        *)
NoPanic == panic = "none"

(* shut_server() finds every portref of the ring in the hash (its ASSERT).  *)
ShutHashed == panic # "shut_server: pr not hashed"

(* msg_send() returns from its abort only when it was confirmed (its ASSERT).*)
AbortConfirmed == panic # "msg_send: bad abdone"

(* The sysmsg m is allocated: its owner is still in the call it belongs to. *)
Allocated(m) ==
    LET c == cl[m.by] IN
    /\ c.r = m.r /\ c.bit = m.bit
    /\ c.pc \in CASE m.op = "req" -> {"iow", "intr", "abw", "abdone", "done", "rel"}
                  [] m.op = "dup" -> {"dupw", "dupd"}
                  [] m.op = "abort" -> {"abw", "abdone"}
                  [] m.op = "connect" -> {"cw", "cd"}
                  [] m.op = "disconnect" -> {"dw", "dd"}

(* With two server threads the abort of a request may be served before the  *)
(* thread that received the request gets to know of it: that thread's late  *)
(* answer is then one to whatever the client asks next through the portref, *)
(* and its last look at the sysmsg (msg.c:637, after the port's p_sema was  *)
(* released) reads freed memory.  The three invariants that say otherwise   *)
(* are for one server thread, or no aborts.                                 *)
InTurn == Cardinality(env.servers) = 1 \/ ~ env.events

(* No client frees a message (or its portref) that the server has yet to    *)
(* dequeue, or that msg_receive() is still reading.  The sender of an       *)
(* M_DISCONNECT is released before the last look (msg.c:606).               *)
MessagesAllocated ==
    InTurn =>
        /\ \A m \in ToSet(port.q) : Allocated(m)
        /\ \A s \in Server :
              sv[s].pc \in {"copy", "rpost"} /\ sv[s].ms[1].op # "disconnect"
                  => Allocated(sv[s].ms[1])

(* While the port is open, what the server still has to answer can be       *)
(* answered: the handle is known and the client waits, or has asked for an  *)
(* abort and waits for that.                                                *)
Answerable ==
    port.st = "open" /\ InTurn => \A m \in todo :
        /\ m.r \in prefs
        /\ ref[m.r].st \in CASE m.op \in {"req", "dup"} -> {"IOWAIT", "ABWAIT"}
                            [] m.op = "abort" -> {"ABWAIT"}
                            [] m.op = "connect" -> {"OPENING"}

(* A finished msg_send() returns the answer to the very request it sent, an *)
(* error, or an interruption: never the answer to another request, and, as  *)
(* long as the server stays, never its own argument as if it were a result. *)
ReplyIsMine ==
    \A c \in Client :
        /\ InTurn => cl[c].arg # "stale"
        /\ cl[c].pc = "done" /\ ~ env.shut => cl[c].arg # "own"

(* The same of a server that goes away: a client with an I/O outstanding is *)
(* told an error ("completed in error immediately", msg_disc.2:29).         *)
ErrorOnShut == \A c \in Client : cl[c].pc = "done" => cl[c].arg # "own"

(* p_wait counts the queued messages nobody has been woken for, so a        *)
(* receiver neither misses a message nor wakes to an empty queue.           *)
WaitCountsQueue ==
    port.st = "open" =>
        Len(port.q) = (IF Blocked(port.wait) THEN 0 ELSE port.wait.cnt)
                        + Cardinality({s \in Server : sv[s].pc = "got"})

(* Every call ends: a client is not left waiting for a server that works,   *)
(* interrupted or not.  (A server that receives with answers owed may wait  *)
(* for the next message for ever.)                                          *)
(* A server thread that replied is let go by the client.                    *)
CallEnds ==
    /\ \A c \in Client : ~ env.holds /\ cl[c].pc # "idle" ~> cl[c].pc = "idle"
    /\ \A s \in Server : sv[s].pc = "svw" ~> sv[s].pc # "svw"

(* A portref a client can name leads to a port that still exists, or to     *)
(* none: the server's port is not freed under a connection.                 *)
PortAlive == \A r \in Ref : ref[r].fd /\ ref[r].port => port.st # "freed"
=============================================================================
