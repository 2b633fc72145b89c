----------------------------- MODULE MsgProofs -----------------------------
(***************************************************************************)
(* Message passing, proved for any number of clients, server threads and   *)
(* portrefs and for every setting: every semaphore counts its sleepers, a  *)
(* portref is used by one client at a time and is not freed under another, *)
(* and the count of p_wait agrees with the queue (IInv).  For one server   *)
(* thread, as long as it does not close the port, also what they tell each *)
(* other (TurnInv): answers go where they belong, and nothing fails.       *)
(***************************************************************************)
EXTENDS Msg, SemaOpsProofs

-----------------------------------------------------------------------------
(* The shape of the state                                                   *)

Sema(T) == [cnt : Int, q : Seq(T)]

RefState == {"FREE", "OPENING", "IOWAIT", "IODONE", "ABWAIT", "ABDONE", "CLOSING"}

Portref == [st : RefState, port : BOOLEAN, fd : BOOLEAN, sema : Sema(Client),
            iowait : Sema(Client), svwait : Sema(Server), msg : SUBSET Client]

Port == [st : {"open", "closing", "freed"}, name : BOOLEAN, sema : Sema(Server),
         wait : Sema(Server), q : Seq(Message), refs : Seq(Ref)]

(* Where a client is: asking for a portref's p_sema, having it, connecting, *)
(* cloning, disconnecting, asleep on p_iowait.                              *)
Asks   == {"psema", "dpsema"}
Has    == {"have", "iow", "intr", "abw", "abdone", "done", "rel",
           "dup", "dupw", "dupd", "dhave", "dw", "dd"}
Joins  == {"cw", "cd"}
Clones == {"dup", "dupw", "dupd"}
Quits  == {"dpsema", "dhave", "dw", "dd"}
IoPcs  == {"iow", "abw", "dupw", "cw", "dw"}

ClientThread == [pc : {"idle"} \cup Asks \cup Has \cup Joins,
                 op : {"none", "send", "connect", "disconnect", "clone"},
                 r : Ref \cup {NoRef}, n : Ref \cup {NoRef}, bit : Bit,
                 arg : {"own", "reply", "err", "stale"}]

(* Where a server thread is: asking for the port's p_sema, having it; with  *)
(* a message in hand, which it must have (Carries) or may have.             *)
PortAsks == {"rpsema", "xpsema"}
PortHas  == {"rhave", "rwait", "got", "newc", "delc", "dack", "copy", "rrel",
             "xhave", "xloop", "xb", "xh"}
Carries  == {"newc", "delc", "dack", "copy", "rpost", "dupv", "duph"}

ServerThread == [pc : {"idle", "svw"} \cup PortAsks \cup PortHas \cup Carries,
                 ms : Seq(Message), r : Ref \cup {NoRef}]

Types ==
    /\ ref \in [Ref -> Portref] /\ port \in Port /\ prefs \subseteq Ref
    /\ cl \in [Client -> ClientThread] /\ sv \in [Server -> ServerThread]
    /\ todo \subseteq Message

(* A thread has a portref in a call, a second one while it clones; a server *)
(* thread has messages in hand, and the new portref of an M_DUP.            *)
ClientShape(c) == /\ cl[c].pc = "idle" <=> cl[c].r = NoRef
                  /\ cl[c].pc \in Clones <=> cl[c].n # NoRef
ServerShape(s) ==
    /\ sv[s].pc \in Carries => sv[s].ms # <<>>
    /\ sv[s].pc \notin Carries \cup {"rrel", "xb"} => sv[s].ms = <<>>
    /\ sv[s].pc \in {"dupv", "duph"} => sv[s].r \in Ref

Shapes == (\A c \in Client : ClientShape(c)) /\ (\A s \in Server : ServerShape(s))

-----------------------------------------------------------------------------
(* Who uses a portref                                                       *)

Askers(r)  == {c \in Client : cl[c].r = r /\ cl[c].pc \in Asks}
Holders(r) == {c \in Client : cl[c].r = r /\ cl[c].pc \in Has}
Waiters(r) == {c \in Client : cl[c].r = r /\ cl[c].pc \in IoPcs}

(* p_sema: one thread at a time does I/O. *)
Locked == \A r \in Ref : HeldBy(ref[r].sema, Client, Askers(r), Holders(r))

(* p_iowait. *)
Waiting == \A r \in Ref : SleptOn(ref[r].iowait, Client, Waiters(r))

Stranger(d, r) == cl[d].r # r /\ cl[d].n # r

(* Nobody uses a free portref; who connects or clones has the new one for   *)
(* himself; who disconnects is the last to ask for it, so that he has it    *)
(* for himself when he frees it.                                            *)
Owned ==
    /\ \A r \in Ref : ref[r].st = "FREE" =>
          ~ ref[r].fd /\ \A c \in Client : Stranger(c, r)
    /\ \A c \in Client : cl[c].pc \in Joins =>
          /\ ~ ref[cl[c].r].fd
          /\ \A d \in Client \ {c} : Stranger(d, cl[c].r)
    /\ \A c \in Client : cl[c].pc \in Clones =>
          /\ ~ ref[cl[c].n].fd /\ cl[c].r # cl[c].n
          /\ \A d \in Client \ {c} : Stranger(d, cl[c].n)
    /\ \A c \in Client : cl[c].pc \in Quits => ~ ref[cl[c].r].fd
    /\ \A c, d \in Client :
          cl[c].pc \in Quits /\ cl[d].pc \in Quits /\ cl[c].r = cl[d].r => c = d
    /\ \A c \in Client : cl[c].pc \in Quits \ {"dpsema"} => Askers(cl[c].r) = {}
    /\ \A c \in Client : cl[c].pc = "dpsema" =>
          LET q == ref[cl[c].r].sema.q IN q[Len(q)] = c

(* The state of a portref while somebody waits for its server. *)
Stated ==
    /\ \A c \in Client : cl[c].pc \in Joins =>
          ref[cl[c].r].st \in {"OPENING", "IODONE", "ABDONE"}
    /\ \A r \in Ref : ref[r].st = "IOWAIT" =>
          \A c \in Waiters(r) : cl[c].pc \in {"iow", "dupw"}
    /\ \A r \in Ref : \A c, d \in ref[r].msg : c = d

(* p_svwait: at most the thread that replied last, and the client that will *)
(* let it go has the portref, or has a unit of p_iowait to come upon.       *)
Replied ==
    /\ \A r \in Ref :
          LET s == ref[r].svwait IN
          /\ CountsSleepers(s) /\ Len(s.q) <= 1
          /\ \A i \in DOMAIN s.q : sv[s.q[i]].pc = "svw"
          /\ s.q # <<>> =>
                /\ ref[r].st # "IOWAIT"
                /\ \/ ref[r].iowait.cnt > 0
                   \/ \E c \in Holders(r) : cl[c].pc \in {"done", "dupd", "dw", "dd"}
    /\ \A r1, r2 \in Ref :
          ref[r1].svwait.q # <<>> /\ ref[r2].svwait.q # <<>>
              /\ ref[r1].svwait.q[1] = ref[r2].svwait.q[1] => r1 = r2

-----------------------------------------------------------------------------
(* The port                                                                 *)

PortAskers == {s \in Server : sv[s].pc \in PortAsks}
PortHolders == {s \in Server : sv[s].pc \in PortHas}

(* p_sema of the port, which is not released before the port is freed, and  *)
(* p_wait.                                                                  *)
PortLocked ==
    /\ port.st # "freed" => HeldBy(port.sema, Server, PortAskers, PortHolders)
    /\ port.st = "freed" => /\ SleptOn(port.sema, Server, PortAskers)
                            /\ PortHolders = {}
    /\ SleptOn(port.wait, Server, {s \in Server : sv[s].pc = "rwait"})

(* Whoever closes the port has stopped the others from receiving. *)
Closers == {"xpsema", "xhave", "xloop", "xb", "xh"}
Closing == \A s \in Server : sv[s].pc \in Closers => port.st # "open"

IInv == /\ Types /\ Shapes /\ Locked /\ Waiting /\ Owned /\ Stated /\ Replied
        /\ PortLocked /\ Closing /\ WaitCountsQueue

-----------------------------------------------------------------------------
(* What a step does to the clients                                          *)

(* Client c goes on as it was, but for the answer it is told, or is woken   *)
(* in its sleep on a p_iowait.                                              *)
Follows(c) ==
    /\ cl'[c].r = cl[c].r /\ cl'[c].n = cl[c].n
    /\ cl'[c].bit = cl[c].bit /\ cl'[c].op = cl[c].op
    /\ \/ cl'[c].pc = cl[c].pc
       \/ cl[c].pc \in IoPcs /\ cl'[c].pc = WakeTo[cl[c].pc]

(* Where v_sema() lets each sleeper go on.                                  *)
LEMMA WokenTo ==
    /\ WakeTo["iow"] = "done" /\ WakeTo["abw"] = "abdone" /\ WakeTo["dupw"] = "dupd"
    /\ WakeTo["cw"] = "cd" /\ WakeTo["dw"] = "dd"
    /\ WakeTo["psema"] = "have" /\ WakeTo["dpsema"] = "dhave"
    /\ WakeTo["rpsema"] = "rhave" /\ WakeTo["xpsema"] = "xhave"
    /\ WakeTo["rwait"] = "got" /\ WakeTo["svw"] = "idle"
BY DEF WakeTo

(* Who follows stays among those who ask, have, join, clone or quit.        *)
LEMMA FollowsIs ==
    ASSUME NEW c \in Client, Follows(c)
    PROVE  /\ cl'[c].pc \in Asks <=> cl[c].pc \in Asks
           /\ cl'[c].pc \in Has <=> cl[c].pc \in Has
           /\ cl'[c].pc \in Joins <=> cl[c].pc \in Joins
           /\ cl'[c].pc \in Clones <=> cl[c].pc \in Clones
           /\ cl'[c].pc \in Quits <=> cl[c].pc \in Quits
           /\ cl'[c].pc = "dpsema" <=> cl[c].pc = "dpsema"
           /\ cl'[c].pc = "idle" <=> cl[c].pc = "idle"
           /\ cl'[c].pc \in IoPcs => cl'[c].pc = cl[c].pc
BY WokenTo DEF Follows, Asks, Has, Joins, Clones, Quits, IoPcs

(* Waking clients that sleep on p_iowait, in a state g that differs from cl *)
(* in what they were told only.                                             *)
LEMMA WakeClients ==
    ASSUME Types, NEW s, NEW L, SleptOn(s, Client, L),
           \A c \in L : c \in Client /\ cl[c].pc \in IoPcs,
           NEW g \in [Client -> ClientThread],
           \A c \in Client : /\ g[c].pc = cl[c].pc /\ g[c].r = cl[c].r
                             /\ g[c].n = cl[c].n /\ g[c].bit = cl[c].bit
                             /\ g[c].op = cl[c].op,
           cl' = Wake(g, s)
    PROVE  /\ cl' \in [Client -> ClientThread]
           /\ \A c \in Client :
                 /\ Follows(c) /\ cl'[c].arg = g[c].arg
                 /\ cl'[c].pc = IF c \in VWakes(s) THEN WakeTo[cl[c].pc]
                                ELSE cl[c].pc
<1>1. VWakes(s) \subseteq L
  BY SleptGive
<1>2. ASSUME NEW c \in Client
      PROVE  /\ cl'[c] \in ClientThread
             /\ Follows(c) /\ cl'[c].arg = g[c].arg
             /\ cl'[c].pc = IF c \in VWakes(s) THEN WakeTo[cl[c].pc] ELSE cl[c].pc
  <2>1. cl'[c] = IF c \in VWakes(s) THEN [g[c] EXCEPT !.pc = WakeTo[@]] ELSE g[c]
    BY DEF Wake
  <2>2. g[c] \in ClientThread
    OBVIOUS
  <2>3. CASE c \in VWakes(s)
    <3>1. cl[c].pc \in IoPcs /\ g[c].pc = cl[c].pc
      BY <1>1, <2>3
    <3>2. cl'[c] = [g[c] EXCEPT !.pc = WakeTo[cl[c].pc]]
      BY <2>1, <2>3, <3>1
    <3>3. WakeTo[cl[c].pc] \in Has \cup Joins
      BY <3>1, WokenTo DEF IoPcs, Has, Joins
    <3>4. cl'[c] \in ClientThread
      BY <2>2, <3>2, <3>3 DEF ClientThread
    <3>5. /\ cl'[c].pc = WakeTo[cl[c].pc] /\ cl'[c].r = g[c].r /\ cl'[c].n = g[c].n
          /\ cl'[c].bit = g[c].bit /\ cl'[c].op = g[c].op /\ cl'[c].arg = g[c].arg
      BY <2>2, <3>2 DEF ClientThread
    <3>6. QED BY <2>3, <3>1, <3>4, <3>5 DEF Follows
  <2>4. CASE c \notin VWakes(s)
    BY <2>1, <2>2, <2>4 DEF Follows
  <2>5. QED BY <2>3, <2>4
<1>3. cl' = [c \in Client |-> cl'[c]]
  BY DEF Wake
<1>4. QED BY <1>2, <1>3

(* A client in a call has a portref, one that clones two.                   *)
LEMMA InCall ==
    ASSUME Types, Shapes, NEW c \in Client
    PROVE  /\ cl[c] \in ClientThread
           /\ cl[c].pc # "idle" => cl[c].r \in Ref
           /\ cl[c].pc \in Asks \cup Has \cup Joins => cl[c].r \in Ref
           /\ cl[c].pc \in Clones => cl[c].n \in Ref
<1>1. cl[c] \in ClientThread
  BY DEF Types
<1>2. cl[c].r \in Ref \cup {NoRef} /\ cl[c].n \in Ref \cup {NoRef}
  BY <1>1 DEF ClientThread
<1>3. QED BY <1>1, <1>2 DEF Shapes, ClientShape, Asks, Has, Joins

(* Client c stays in the same part of its call.                             *)
StaysIn(c) ==
    /\ cl'[c].r = cl[c].r /\ cl'[c].n = cl[c].n
    /\ cl'[c].pc = "idle" <=> cl[c].pc = "idle"
    /\ cl'[c].pc \in Asks <=> cl[c].pc \in Asks
    /\ cl'[c].pc \in Has <=> cl[c].pc \in Has
    /\ cl'[c].pc \in Joins <=> cl[c].pc \in Joins
    /\ cl'[c].pc \in Clones <=> cl[c].pc \in Clones
    /\ cl'[c].pc \in Quits <=> cl[c].pc \in Quits
    /\ cl'[c].pc = "dpsema" <=> cl[c].pc = "dpsema"

(* Where every client stays in the same part of its call, and p_sema and    *)
(* the handles are left alone, a portref has the users it had.              *)
LEMMA UsersStay ==
    ASSUME Types, Shapes, Locked, Owned,
           \A c \in Client : StaysIn(c),
           \A r \in Ref : /\ ref'[r].sema = ref[r].sema /\ ref'[r].fd = ref[r].fd
                          /\ ref'[r].st = "FREE" <=> ref[r].st = "FREE"
    PROVE  Locked' /\ Owned'
<1>1. \A c \in Client : /\ cl'[c].r = cl[c].r /\ cl'[c].n = cl[c].n
                        /\ cl'[c].pc \in Asks <=> cl[c].pc \in Asks
                        /\ cl'[c].pc \in Has <=> cl[c].pc \in Has
                        /\ cl'[c].pc \in Joins <=> cl[c].pc \in Joins
                        /\ cl'[c].pc \in Clones <=> cl[c].pc \in Clones
                        /\ cl'[c].pc \in Quits <=> cl[c].pc \in Quits
                        /\ cl'[c].pc = "dpsema" <=> cl[c].pc = "dpsema"
  BY DEF StaysIn
<1>2. \A r : Askers(r)' = Askers(r) /\ Holders(r)' = Holders(r)
  BY <1>1 DEF Askers, Holders
<1>3. \A c \in Client : \A r : Stranger(c, r)' <=> Stranger(c, r)
  BY <1>1 DEF Stranger
<1>4. Locked'
  BY <1>2 DEF Locked
<1>5. \A c \in Client : /\ cl[c].pc \in Joins \cup Quits => cl[c].r \in Ref
                        /\ cl[c].pc \in Clones => cl[c].n \in Ref
  BY InCall DEF Joins, Quits, Asks, Has
<1>6. Owned'
  <2>1. \A r \in Ref : ref'[r].st = "FREE" =>
            ~ ref'[r].fd /\ \A c \in Client : Stranger(c, r)'
    BY <1>3 DEF Owned
  <2>2. \A c \in Client : cl'[c].pc \in Joins =>
            /\ ~ ref'[cl'[c].r].fd
            /\ \A d \in Client \ {c} : Stranger(d, cl[c].r)'
    BY <1>1, <1>3, <1>5 DEF Owned
  <2>3. \A c \in Client : cl'[c].pc \in Clones =>
            /\ ~ ref'[cl'[c].n].fd /\ cl'[c].r # cl'[c].n
            /\ \A d \in Client \ {c} : Stranger(d, cl[c].n)'
    BY <1>1, <1>3, <1>5 DEF Owned
  <2>4. \A c \in Client : cl'[c].pc \in Quits => ~ ref'[cl'[c].r].fd
    BY <1>1, <1>5 DEF Owned
  <2>5. \A c, d \in Client :
            cl'[c].pc \in Quits /\ cl'[d].pc \in Quits /\ cl'[c].r = cl'[d].r => c = d
    BY <1>1 DEF Owned
  <2>6. \A c \in Client : cl'[c].pc \in Quits \ {"dpsema"} => Askers(cl[c].r)' = {}
    <3> SUFFICES ASSUME NEW c \in Client, cl'[c].pc \in Quits \ {"dpsema"}
                 PROVE  Askers(cl[c].r)' = {}
      OBVIOUS
    <3>1. Askers(cl[c].r) = {}
      BY <1>1 DEF Owned
    <3>2. QED BY <1>1, <3>1 DEF Askers
  <2>7. \A c \in Client : cl'[c].pc = "dpsema" =>
            ref'[cl'[c].r].sema.q[Len(ref'[cl'[c].r].sema.q)] = c
    BY <1>1, <1>5 DEF Owned, Quits
  <2>8. QED BY <2>1, <2>2, <2>3, <2>4, <2>5, <2>6, <2>7 DEF Owned
<1>7. QED BY <1>4, <1>6

(* Clients that only follow leave the use of every portref as it was.       *)
LEMMA UsersKept ==
    ASSUME Types, Shapes, Locked, Owned,
           \A c \in Client : Follows(c),
           \A r \in Ref : /\ ref'[r].sema = ref[r].sema /\ ref'[r].fd = ref[r].fd
                          /\ ref'[r].st = "FREE" <=> ref[r].st = "FREE"
    PROVE  Locked' /\ Owned'
<1>1. \A c \in Client : StaysIn(c)
  BY FollowsIs DEF Follows, StaysIn
<1>2. QED BY <1>1, UsersStay

-----------------------------------------------------------------------------
(* What a step does to p_iowait and p_svwait                                *)

(* The sleepers of every portref but r0 stay as they are.                   *)
LEMMA WaitingStep ==
    ASSUME Waiting, NEW r0 \in Ref,
           \A r \in Ref \ {r0} : ref'[r].iowait = ref[r].iowait,
           \A r \in Ref \ {r0} : Waiters(r)' = Waiters(r),
           SleptOn(ref'[r0].iowait, Client, Waiters(r0)')
    PROVE  Waiting'
BY DEF Waiting

(* Nothing happens to any p_iowait.                                         *)
LEMMA WaitingKept ==
    ASSUME Waiting,
           \A r \in Ref : ref'[r].iowait = ref[r].iowait,
           \A r \in Ref : Waiters(r)' = Waiters(r)
    PROVE  Waiting'
BY DEF Waiting

(* v_sema(p_iowait) by the server.                                          *)
LEMMA GiveIo ==
    ASSUME Types, Waiting, NEW r \in Ref,
           NEW g \in [Client -> ClientThread],
           \A c \in Client : /\ g[c].pc = cl[c].pc /\ g[c].r = cl[c].r
                             /\ g[c].n = cl[c].n /\ g[c].bit = cl[c].bit
                             /\ g[c].op = cl[c].op,
           cl' = Wake(g, ref[r].iowait),
           ref'[r].iowait = VSema(ref[r].iowait),
           \A x \in Ref \ {r} : ref'[x].iowait = ref[x].iowait
    PROVE  /\ cl' \in [Client -> ClientThread]
           /\ \A c \in Client :
                 /\ Follows(c) /\ cl'[c].arg = g[c].arg
                 /\ cl'[c].pc # cl[c].pc => c \in Waiters(r)
           /\ Waiting'
           /\ ref[r].iowait.cnt \in Int
           /\ ref'[r].iowait.cnt = ref[r].iowait.cnt + 1
           /\ \/ ref[r].iowait.cnt >= 0 /\ Waiters(r) = {}
              \/ /\ ref[r].iowait.cnt < 0
                 /\ \E c \in Waiters(r) :
                       /\ VWakes(ref[r].iowait) = {c}
                       /\ cl'[c].pc = WakeTo[cl[c].pc]
<1> DEFINE s == ref[r].iowait
           L == Waiters(r)
<1>1. SleptOn(s, Client, L)
  BY DEF Waiting
<1>2. \A c \in L : c \in Client /\ cl[c].pc \in IoPcs
  BY DEF Waiters
<1>3. /\ cl' \in [Client -> ClientThread]
      /\ \A c \in Client :
            /\ Follows(c) /\ cl'[c].arg = g[c].arg
            /\ cl'[c].pc = IF c \in VWakes(s) THEN WakeTo[cl[c].pc] ELSE cl[c].pc
  <2> HIDE DEF s, L
  <2>1. cl' = Wake(g, s)
    BY DEF s
  <2>2. QED BY <1>1, <1>2, <2>1, WakeClients
<1>4. /\ VSema(s).cnt = s.cnt + 1 /\ s.cnt \in Int
      /\ VWakes(s) \subseteq L
      /\ SleptOn(VSema(s), Client, L \ VWakes(s))
      /\ VWakes(s) = {} => L = {} /\ s.cnt >= 0
      /\ VWakes(s) # {} => s.cnt < 0 /\ \E t \in L : VWakes(s) = {t}
  BY <1>1, SleptGive
<1>5. \A c \in Client : c \in VWakes(s) => cl'[c].pc \notin IoPcs
  BY <1>2, <1>3, <1>4, WokenTo DEF IoPcs
<1>6. \A c \in Client : c \notin VWakes(s) => cl'[c].pc = cl[c].pc
  BY <1>3
<1>7. \A c \in Client : cl'[c].r = cl[c].r
  BY <1>3 DEF Follows
<1>8. Waiters(r)' = L \ VWakes(s)
  BY <1>5, <1>6, <1>7 DEF Waiters
<1>9. \A x \in Ref \ {r} : Waiters(x)' = Waiters(x)
  BY <1>4, <1>6, <1>7 DEF Waiters
<1>10. Waiting'
  BY <1>4, <1>8, <1>9, WaitingStep
<1>11. \A c \in Client : cl'[c].pc # cl[c].pc => c \in Waiters(r)
  BY <1>4, <1>6
<1>12. ASSUME VWakes(s) # {}
       PROVE  \E c \in Waiters(r) : VWakes(s) = {c} /\ cl'[c].pc = WakeTo[cl[c].pc]
  BY <1>2, <1>3, <1>4, <1>12
<1>13. QED BY <1>3, <1>4, <1>10, <1>11, <1>12

(* The client that lets the thread asleep on p_svwait of r go: it is on the *)
(* way there, or will find a unit in p_iowait.                              *)
Loosed(r) ==
    \/ ref[r].iowait.cnt > 0
    \/ \E c \in Holders(r) : cl[c].pc \in {"done", "dupd", "dw", "dd"}

(* Nothing happens to any p_svwait, and its sleeper will be let go.         *)
LEMMA RepliedKept ==
    ASSUME Types, Replied,
           \A s \in Server : sv[s].pc = "svw" => sv'[s].pc = "svw",
           \A r \in Ref : ref'[r].svwait = ref[r].svwait,
           \A r \in Ref : ref[r].svwait.q # <<>> =>
               ref'[r].st # "IOWAIT" /\ Loosed(r)'
    PROVE  Replied'
<1>1. \A r \in Ref : \A i \in DOMAIN ref[r].svwait.q : ref[r].svwait.q[i] \in Server
  BY DEF Types, Portref, Sema
<1>2. \A r \in Ref : /\ CountsSleepers(ref'[r].svwait) /\ Len(ref'[r].svwait.q) <= 1
                     /\ \A i \in DOMAIN ref'[r].svwait.q :
                           sv'[ref'[r].svwait.q[i]].pc = "svw"
  BY <1>1 DEF Replied
<1>3. \A r1, r2 \in Ref :
          ref'[r1].svwait.q # <<>> /\ ref'[r2].svwait.q # <<>>
              /\ ref'[r1].svwait.q[1] = ref'[r2].svwait.q[1] => r1 = r2
  <2> SUFFICES ASSUME NEW r1 \in Ref, NEW r2 \in Ref,
                      ref'[r1].svwait.q # <<>>, ref'[r2].svwait.q # <<>>,
                      ref'[r1].svwait.q[1] = ref'[r2].svwait.q[1]
               PROVE  r1 = r2
    OBVIOUS
  <2>1. ref'[r1].svwait = ref[r1].svwait /\ ref'[r2].svwait = ref[r2].svwait
    OBVIOUS
  <2>2. QED BY <2>1 DEF Replied
<1>4. QED BY <1>2, <1>3 DEF Replied, Loosed

(* A step that changes neither portrefs nor clients. *)
LEMMA ClientSideKept ==
    ASSUME Types, Locked, Waiting, Owned, Stated, Replied, UNCHANGED <<ref, cl>>,
           \A s \in Server : sv[s].pc = "svw" => sv'[s].pc = "svw"
    PROVE  Locked' /\ Waiting' /\ Owned' /\ Stated' /\ Replied'
<1>1. \A r : Askers(r)' = Askers(r) /\ Holders(r)' = Holders(r) /\ Waiters(r)' = Waiters(r)
  BY DEF Askers, Holders, Waiters
<1>2. Locked' /\ Waiting' /\ Stated'
  BY <1>1 DEF Locked, Waiting, Stated
<1>3. Owned'
  BY <1>1 DEF Owned, Stranger
<1>4. \A r \in Ref : ref[r].svwait.q # <<>> => ref'[r].st # "IOWAIT" /\ Loosed(r)'
  BY <1>1 DEF Replied, Loosed
<1>5. QED BY <1>2, <1>3, <1>4, RepliedKept

-----------------------------------------------------------------------------
(* The port                                                                 *)

(* The port's semaphores and who is at them stay as they are.               *)
LEMMA PortKept ==
    ASSUME PortLocked, port'.st = port.st, port'.sema = port.sema, port'.wait = port.wait,
           \A s \in Server : /\ sv'[s].pc \in PortAsks <=> sv[s].pc \in PortAsks
                             /\ sv'[s].pc \in PortHas <=> sv[s].pc \in PortHas
                             /\ sv'[s].pc = "rwait" <=> sv[s].pc = "rwait"
    PROVE  PortLocked'
<1>1. PortAskers' = PortAskers /\ PortHolders' = PortHolders
  BY DEF PortAskers, PortHolders
<1>2. {s \in Server : sv'[s].pc = "rwait"} = {s \in Server : sv[s].pc = "rwait"}
  OBVIOUS
<1>3. QED BY <1>1, <1>2 DEF PortLocked

(* p_wait, the queue and the thread that was told stay as they are.         *)
LEMMA CountKept ==
    ASSUME WaitCountsQueue, port'.st = port.st, port'.wait = port.wait, port'.q = port.q,
           \A s \in Server : sv'[s].pc = "got" <=> sv[s].pc = "got"
    PROVE  WaitCountsQueue'
<1>1. {s \in Server : sv'[s].pc = "got"} = {s \in Server : sv[s].pc = "got"}
  OBVIOUS
<1>2. QED BY <1>1 DEF WaitCountsQueue

Got == {s \in Server : sv[s].pc = "got"}
Sleeping == {s \in Server : sv[s].pc = "rwait"}

(* At most one thread waits for messages or has been told of one.           *)
LEMMA OneReceiver ==
    ASSUME PortLocked
    PROVE  \A s, t \in Server : sv[s].pc \in PortHas /\ sv[t].pc \in PortHas => s = t
<1>1. CASE port.st = "freed"
  BY <1>1 DEF PortLocked, PortHolders
<1>2. CASE port.st # "freed"
  BY <1>2 DEF PortLocked, PortHolders, HeldBy
<1>3. QED BY <1>1, <1>2

(* At most one thread has been told of a message and not taken it.          *)
LEMMA CountOne ==
    ASSUME PortLocked
    PROVE  /\ Got = {} => Cardinality(Got) = 0
           /\ Got # {} => Cardinality(Got) = 1
<1>1. \A s, t \in Got : s = t
  BY OneReceiver DEF Got, PortHas
<1>2. CASE Got = {}
  BY <1>2, FS_EmptySet
<1>3. CASE Got # {}
  <2>1. PICK s : s \in Got
    BY <1>3
  <2>2. Got = {s}
    BY <1>1, <2>1
  <2>3. QED BY <1>3, <2>2, FS_Singleton
<1>4. QED BY <1>2, <1>3

(* WaitCountsQueue without a cardinality.                                   *)
Counted ==
    port.st = "open" =>
        Len(port.q) = (IF port.wait.cnt < 0 THEN 0 ELSE port.wait.cnt)
                        + (IF Got = {} THEN 0 ELSE 1)

(* The count of threads that were told is 0 or 1.                           *)
LEMMA CountedIs ==
    ASSUME PortLocked
    PROVE  WaitCountsQueue <=> Counted
BY CountOne DEF WaitCountsQueue, Counted, Blocked, Got

(* A message is queued, and a thread that waits for one is woken.           *)
LEMMA QueueStep ==
    ASSUME Types, Shapes, PortLocked, WaitCountsQueue, NEW m \in Message,
           port' = Queue(m), sv' = Wake(sv, port.wait)
    PROVE  /\ port' \in Port /\ sv' \in [Server -> ServerThread]
           /\ port'.q = Append(port.q, m) /\ port'.refs = port.refs /\ port'.st = port.st
           /\ \A s \in Server :
                 \/ sv'[s] = sv[s]
                 \/ sv[s].pc = "rwait" /\ sv'[s] = [sv[s] EXCEPT !.pc = "got"]
           /\ PortLocked' /\ (Closing => Closing') /\ WaitCountsQueue'
<1> DEFINE w == port.wait
<1>1. SleptOn(w, Server, Sleeping) /\ port \in Port
  BY DEF PortLocked, Sleeping, Types
<1>2. /\ VSema(w).cnt = w.cnt + 1 /\ w.cnt \in Int
      /\ VWakes(w) \subseteq Sleeping
      /\ SleptOn(VSema(w), Server, Sleeping \ VWakes(w))
      /\ VWakes(w) = {} => Sleeping = {} /\ w.cnt >= 0
      /\ VWakes(w) # {} => w.cnt < 0 /\ \E t \in Sleeping : VWakes(w) = {t}
  BY <1>1, SleptGive
<1>3. VSema(w) \in Sema(Server)
  BY <1>2 DEF SleptOn, SemaType, Sema
<1>4. port' = [port EXCEPT !.q = Append(port.q, m), !.wait = VSema(w)]
  BY DEF Queue
<1>5. /\ port' \in Port /\ port'.wait = VSema(w) /\ port'.sema = port.sema
      /\ port'.q = Append(port.q, m) /\ port'.refs = port.refs /\ port'.st = port.st
  <2>1. Append(port.q, m) \in Seq(Message)
    BY <1>1 DEF Port
  <2> HIDE DEF w
  <2>2. QED BY <1>1, <1>3, <1>4, <2>1 DEF Port
<1>6. /\ sv' = [s \in Server |-> sv'[s]]
      /\ \A s \in Server :
            sv'[s] = IF s \in VWakes(w) THEN [sv[s] EXCEPT !.pc = WakeTo[@]] ELSE sv[s]
  BY DEF Wake, Types
<1>7. \A s \in Server :
          sv'[s] = IF s \in VWakes(w) THEN [sv[s] EXCEPT !.pc = "got"] ELSE sv[s]
  <2> SUFFICES ASSUME NEW s \in Server
      PROVE sv'[s] = IF s \in VWakes(w) THEN [sv[s] EXCEPT !.pc = "got"] ELSE sv[s]
    OBVIOUS
  <2>1. CASE s \in VWakes(w)
    <3>1. sv[s].pc = "rwait"
      BY <1>2, <2>1 DEF Sleeping
    <3>2. [sv[s] EXCEPT !.pc = WakeTo[@]] = [sv[s] EXCEPT !.pc = "got"]
      BY <3>1, WokenTo
    <3>3. QED BY <1>6, <2>1, <3>2
  <2>2. CASE s \notin VWakes(w)
    BY <1>6, <2>2
  <2>3. QED BY <2>1, <2>2
<1>8. \A s \in Server : sv[s] \in ServerThread
  BY DEF Types
<1>9. \A s \in Server :
          /\ sv'[s] \in ServerThread
          /\ sv'[s].pc = IF s \in VWakes(w) THEN "got" ELSE sv[s].pc
          /\ s \in VWakes(w) => sv[s].pc = "rwait"
  <2> SUFFICES ASSUME NEW s \in Server
      PROVE  /\ sv'[s] \in ServerThread
             /\ sv'[s].pc = IF s \in VWakes(w) THEN "got" ELSE sv[s].pc
             /\ s \in VWakes(w) => sv[s].pc = "rwait"
    OBVIOUS
  <2>1. CASE s \in VWakes(w)
    BY <1>2, <1>7, <1>8, <2>1 DEF ServerThread, Sleeping, PortHas
  <2>2. CASE s \notin VWakes(w)
    BY <1>7, <1>8, <2>2
  <2>3. QED BY <2>1, <2>2
<1>10. PortAskers' = PortAskers /\ PortHolders' = PortHolders
  BY <1>9 DEF PortAskers, PortHolders, PortAsks, PortHas
<1>11. Sleeping' = Sleeping \ VWakes(w)
  BY <1>9 DEF Sleeping
<1>12. PortLocked'
  BY <1>2, <1>5, <1>10, <1>11 DEF PortLocked, Sleeping
<1>13. Counted'
  <2> SUFFICES ASSUME port.st = "open" PROVE Counted'
    BY <1>5 DEF Counted
  <2>1. Len(port.q) = (IF w.cnt < 0 THEN 0 ELSE w.cnt) + (IF Got = {} THEN 0 ELSE 1)
    BY CountedIs DEF Counted
  <2>2. Len(port'.q) = Len(port.q) + 1
    BY <1>1, <1>5 DEF Port
  <2>3. port'.wait.cnt = w.cnt + 1
    BY <1>2, <1>5
  <2>4. CASE VWakes(w) = {}
    <3>1. Got' = Got
      BY <1>9, <2>4 DEF Got
    <3>2. QED BY <1>2, <2>1, <2>2, <2>3, <2>4, <3>1 DEF Counted
  <2>5. CASE VWakes(w) # {}
    <3>1. PICK t \in Sleeping : VWakes(w) = {t}
      BY <1>2, <2>5
    <3>2. Got = {}
      BY <3>1, OneReceiver DEF Got, Sleeping, PortHas
    <3>3. Got' # {}
      BY <1>9, <3>1 DEF Got, Sleeping
    <3>4. QED BY <1>2, <2>1, <2>2, <2>3, <2>5, <3>2, <3>3 DEF Counted
  <2>6. QED BY <2>4, <2>5
<1>14. WaitCountsQueue'
  BY <1>12, <1>13, CountedIs, PTL
<1>15. Closing => Closing'
  BY <1>5, <1>9 DEF Closing, Closers
<1>16. QED BY <1>5, <1>6, <1>7, <1>9, <1>12, <1>14, <1>15

-----------------------------------------------------------------------------
(* Steps of the server that leave portrefs and clients alone                *)

(* An assertion that fails changes nothing else.                            *)
LEMMA PanicKeeps ==
    ASSUME IInv, NEW why, Panic(why)
    PROVE  IInv'
<1>1. UNCHANGED <<ref, port, prefs, cl, sv, todo>>
  BY DEF Panic
<1>2. Types' /\ Shapes'
  BY <1>1 DEF IInv, Types, Shapes, ClientShape, ServerShape
<1>3. Locked' /\ Waiting' /\ Owned' /\ Stated' /\ Replied'
  BY <1>1, ClientSideKept DEF IInv
<1>4. PortLocked' /\ Closing'
  BY <1>1, PortKept DEF IInv, Closing
<1>5. WaitCountsQueue'
  BY <1>1, CountKept DEF IInv
<1>6. QED BY <1>2, <1>3, <1>4, <1>5 DEF IInv

(* Server thread s moves alone, and leaves portrefs and clients alone. *)
Serves(s) == UNCHANGED <<ref, cl>> /\ \A t \in Server \ {s} : sv'[t] = sv[t]

(* What only server thread s does leaves the clients' half as it was.       *)
LEMMA ServesKeeps ==
    ASSUME IInv, NEW s \in Server, Serves(s),
           sv[s].pc # "svw",
           sv' \in [Server -> ServerThread], port' \in Port, prefs' \subseteq Ref,
           todo' \subseteq Message, ServerShape(s)',
           port'.st = "open" => port.st = "open" /\ sv'[s].pc \notin Closers
    PROVE  Types' /\ Shapes' /\ Locked' /\ Waiting' /\ Owned' /\ Stated' /\ Replied'
           /\ Closing'
<1>1. UNCHANGED <<ref, cl>> /\ \A t \in Server \ {s} : sv'[t] = sv[t]
  BY DEF Serves
<1>2. Types'
  BY <1>1 DEF IInv, Types
<1>3. \A t \in Server : ServerShape(t)'
  BY <1>1 DEF IInv, Shapes, ServerShape
<1>4. Shapes'
  BY <1>1, <1>3 DEF IInv, Shapes, ClientShape
<1>5. Locked' /\ Waiting' /\ Owned' /\ Stated' /\ Replied'
  BY <1>1, ClientSideKept DEF IInv
<1>6. Closing'
  BY <1>1 DEF IInv, Closing
<1>7. QED BY <1>2, <1>4, <1>5, <1>6

(* The types of a server thread and of what it reads.                       *)
LEMMA SvIs ==
    ASSUME IInv, NEW s \in Server
    PROVE  /\ sv[s] \in ServerThread /\ sv = [t \in Server |-> sv[t]]
           /\ port \in Port /\ prefs \subseteq Ref /\ todo \subseteq Message
           /\ ServerShape(s)
BY DEF IInv, Types, Shapes


(* Asking for the port's p_sema, to receive or to close the port.           *)
LEMMA AskPortKeeps ==
    ASSUME IInv, NEW s \in Server, NEW x \in {"open", "closing"},
           NEW p \in {"rpsema", "rhave", "xpsema", "xhave"},
           p \in (IF PSleeps(port.sema) THEN PortAsks ELSE PortHas),
           p \in Closers => x = "closing",
           sv[s].pc = "idle", port.st = "open",
           port' = [port EXCEPT !.st = x, !.sema = PSema(@, s)],
           sv' = [sv EXCEPT ![s].pc = p],
           UNCHANGED <<ref, prefs, cl, todo>>
    PROVE  IInv'
<1>1. sv[s] \in ServerThread /\ port \in Port /\ ServerShape(s)
  BY SvIs
<1>2. p \notin {"rwait", "got"} \cup Carries
  BY DEF Carries
<1>3. HeldBy(port.sema, Server, PortAskers, PortHolders) /\ s \notin PortAskers
  BY DEF IInv, PortLocked, PortAskers, PortAsks
<1>4. IF PSleeps(port.sema)
      THEN HeldBy(PSema(port.sema, s), Server, PortAskers \cup {s}, PortHolders)
      ELSE /\ PortHolders = {} /\ PortAskers = {}
           /\ HeldBy(PSema(port.sema, s), Server, {}, {s})
  BY <1>3, HeldAsk
<1>5. PSema(port.sema, s) \in Sema(Server)
  BY <1>4 DEF HeldBy, SleptOn, SemaType, Sema
<1>6. port' \in Port /\ port'.wait = port.wait /\ port'.st = x /\ port'.q = port.q
      /\ port'.sema = PSema(port.sema, s)
  BY <1>1, <1>5 DEF Port
<1>7. /\ sv'[s] \in ServerThread /\ sv'[s].pc = p /\ sv'[s].ms = <<>>
      /\ \A t \in Server \ {s} : sv'[t] = sv[t]
      /\ sv' \in [Server -> ServerThread]
  <2>1. sv'[s] = [sv[s] EXCEPT !.pc = p]
    BY SvIs
  <2>2. sv[s].ms = <<>>
    BY <1>1 DEF ServerShape, Carries
  <2>3. sv'[s] \in ServerThread /\ sv'[s].pc = p /\ sv'[s].ms = <<>>
    BY <1>1, <2>1, <2>2 DEF ServerThread, PortAsks, PortHas
  <2>4. QED BY <2>3 DEF IInv, Types
<1>8. Types' /\ Shapes' /\ Locked' /\ Waiting' /\ Owned' /\ Stated' /\ Replied'
      /\ Closing'
  <2>1. ServerShape(s)'
    BY <1>2, <1>7 DEF ServerShape, Carries
  <2>2. QED BY <1>6, <1>7, <2>1, ServesKeeps, SvIs DEF Serves, Closers
<1>9. {t \in Server : sv[t].pc = "rwait"}' = {t \in Server : sv[t].pc = "rwait"}
  BY <1>7
<1>10. PortLocked'
  <2>1. CASE PSleeps(port.sema)
    <3>1. PortAskers' = PortAskers \cup {s} /\ PortHolders' = PortHolders
      BY <1>7, <2>1 DEF PortAskers, PortHolders, PortAsks, PortHas
    <3>2. QED BY <1>4, <1>6, <1>9, <2>1, <3>1 DEF IInv, PortLocked
  <2>2. CASE ~ PSleeps(port.sema)
    <3>1. PortAskers' = {} /\ PortHolders' = {s}
      BY <1>4, <1>7, <2>2 DEF PortAskers, PortHolders, PortAsks, PortHas
    <3>2. QED BY <1>4, <1>6, <1>9, <2>2, <3>1 DEF IInv, PortLocked
  <2>3. QED BY <2>1, <2>2
<1>11. WaitCountsQueue'
  <2>1. CASE x = "closing"
    BY <1>6, <2>1 DEF WaitCountsQueue
  <2>2. CASE x = "open"
    BY <1>2, <1>6, <1>7, <2>2, CountKept DEF IInv
  <2>3. QED BY <2>1, <2>2
<1>12. QED BY <1>8, <1>10, <1>11 DEF IInv

(* msg_receive() asks for the port.                                         *)
LEMMA ReceiveKeeps ==
    ASSUME IInv, NEW s \in Server, Receive(s)
    PROVE  IInv'
<1> DEFINE p == IF PSleeps(port.sema) THEN "rpsema" ELSE "rhave"
<1>1. port' = [port EXCEPT !.st = "open", !.sema = PSema(@, s)]
  <2>1. port.st = "open" /\ port' = [port EXCEPT !.sema = PSema(@, s)]
    BY DEF Receive, Sat
  <2>2. QED BY <2>1, SvIs DEF Port
<1>2. p \in (IF PSleeps(port.sema) THEN PortAsks ELSE PortHas)
  BY DEF PortAsks, PortHas, Closers
<1>3. /\ sv' = [sv EXCEPT ![s].pc = p] /\ p \in {"rpsema", "rhave"}
      /\ sv[s].pc = "idle" /\ port.st = "open" /\ UNCHANGED <<ref, prefs, cl, todo>>
  BY DEF Receive, Sat
<1> HIDE DEF p
<1>4. QED BY <1>1, <1>2, <1>3, AskPortKeeps DEF Closers

(* delete_port() asks for the port.                                         *)
LEMMA ClosePortKeeps ==
    ASSUME IInv, NEW s \in Server, ClosePort(s)
    PROVE  IInv'
<1> DEFINE p == IF PSleeps(port.sema) THEN "xpsema" ELSE "xhave"
<1>1. port' = [port EXCEPT !.st = "closing", !.sema = PSema(@, s)]
  BY DEF ClosePort, Sat
<1>2. p \in (IF PSleeps(port.sema) THEN PortAsks ELSE PortHas)
  BY DEF PortAsks, PortHas, Closers
<1>3. /\ sv' = [sv EXCEPT ![s].pc = p] /\ p \in {"rpsema", "rhave", "xpsema", "xhave"}
      /\ sv[s].pc = "idle" /\ port.st = "open" /\ UNCHANGED <<ref, prefs, cl, todo>>
  BY DEF ClosePort, Sat
<1> HIDE DEF p
<1>4. QED BY <1>1, <1>2, <1>3, AskPortKeeps DEF Closers

(* An event while it sleeps on p_sema of the port.                          *)
LEMMA ReceiveIntrKeeps ==
    ASSUME IInv, NEW s \in Server, ReceiveIntr(s)
    PROVE  IInv'
<1>1. /\ sv[s].pc = "rpsema"
      /\ port' = [port EXCEPT !.sema = DqSema(port.sema, s)]
      /\ sv' = [sv EXCEPT ![s] = IdleSv]
      /\ UNCHANGED <<ref, prefs, cl, todo>>
  BY DEF ReceiveIntr, Sat
<1>2. port \in Port /\ s \in PortAskers
  BY <1>1, SvIs DEF PortAskers, PortAsks
<1>3. SleptOn(port.sema, Server, PortAskers)
  BY DEF IInv, PortLocked, HeldBy
<1>4. SleptOn(DqSema(port.sema, s), Server, PortAskers \ {s})
  BY <1>2, <1>3, SleptLeave
<1>5. port.st # "freed" =>
         HeldBy(DqSema(port.sema, s), Server, PortAskers \ {s}, PortHolders)
  BY <1>2, HeldLeave DEF IInv, PortLocked
<1>6. DqSema(port.sema, s) \in Sema(Server)
  BY <1>4 DEF SleptOn, SemaType, Sema
<1>7. port' \in Port /\ port'.wait = port.wait /\ port'.st = port.st /\ port'.q = port.q
      /\ port'.sema = DqSema(port.sema, s)
  BY <1>1, <1>2, <1>6 DEF Port
<1>8. /\ sv'[s] = IdleSv /\ IdleSv \in ServerThread
      /\ \A t \in Server \ {s} : sv'[t] = sv[t]
      /\ sv' \in [Server -> ServerThread]
  BY <1>1 DEF IdleSv, ServerThread, IInv, Types
<1>9. Types' /\ Shapes' /\ Locked' /\ Waiting' /\ Owned' /\ Stated' /\ Replied'
      /\ Closing'
  <2>1. ServerShape(s)'
    BY <1>8 DEF ServerShape, Carries, IdleSv
  <2>2. QED BY <1>1, <1>7, <1>8, <2>1, ServesKeeps, SvIs DEF Serves, Closers, IdleSv
<1>10. PortAskers' = PortAskers \ {s} /\ PortHolders' = PortHolders
  BY <1>1, <1>8 DEF PortAskers, PortHolders, PortAsks, PortHas, IdleSv
<1>11. {t \in Server : sv[t].pc = "rwait"}' = {t \in Server : sv[t].pc = "rwait"}
  BY <1>1, <1>8 DEF IdleSv
<1>12. PortLocked'
  BY <1>4, <1>5, <1>7, <1>10, <1>11 DEF IInv, PortLocked
<1>13. WaitCountsQueue'
  BY <1>1, <1>7, <1>8, CountKept DEF IInv, IdleSv
<1>14. QED BY <1>9, <1>12, <1>13 DEF IInv

(* It sleeps on p_wait, or takes a unit of it.                              *)
LEMMA AwaitMsgKeeps ==
    ASSUME IInv, NEW s \in Server, AwaitMsg(s)
    PROVE  IInv'
<1> DEFINE w == port.wait
           p == IF PSleeps(w) THEN "rwait" ELSE "got"
<1>1. /\ sv[s].pc = "rhave"
      /\ port' = [port EXCEPT !.wait = PSema(w, s)]
      /\ sv' = [sv EXCEPT ![s].pc = p]
      /\ UNCHANGED <<ref, prefs, cl, todo>>
  BY DEF AwaitMsg, Sat
<1>2. sv[s] \in ServerThread /\ port \in Port /\ ServerShape(s)
  BY SvIs
<1>3. SleptOn(w, Server, Sleeping) /\ s \notin Sleeping
  BY <1>1 DEF IInv, PortLocked, Sleeping
<1>4. /\ PSema(w, s).cnt = w.cnt - 1 /\ w.cnt \in Int
      /\ PSleeps(w) => w.cnt <= 0 /\ SleptOn(PSema(w, s), Server, Sleeping \cup {s})
      /\ ~ PSleeps(w) => w.cnt > 0 /\ Sleeping = {} /\ SleptOn(PSema(w, s), Server, {})
  BY <1>3, SleptAsk
<1>5. PSema(w, s) \in Sema(Server)
  BY <1>4 DEF SleptOn, SemaType, Sema
<1>6. port' \in Port /\ port'.wait = PSema(w, s) /\ port'.st = port.st /\ port'.q = port.q
      /\ port'.sema = port.sema
  <2> HIDE DEF w
  <2>1. QED BY <1>1, <1>2, <1>5 DEF Port
<1>7. /\ sv'[s] \in ServerThread /\ sv'[s].pc = p /\ sv'[s].ms = <<>>
      /\ \A t \in Server \ {s} : sv'[t] = sv[t]
      /\ sv' \in [Server -> ServerThread]
  <2>1. sv'[s] = [sv[s] EXCEPT !.pc = p]
    BY <1>1, SvIs
  <2>2. sv[s].ms = <<>>
    BY <1>1, <1>2 DEF ServerShape, Carries
  <2>3. sv'[s] \in ServerThread /\ sv'[s].pc = p /\ sv'[s].ms = <<>>
    BY <1>2, <2>1, <2>2 DEF ServerThread, PortHas
  <2>4. QED BY <1>1, <2>3 DEF IInv, Types
<1>8. p \in {"rwait", "got"}
  OBVIOUS
<1>9. Types' /\ Shapes' /\ Locked' /\ Waiting' /\ Owned' /\ Stated' /\ Replied'
      /\ Closing'
  <2>1. ServerShape(s)'
    BY <1>7, <1>8 DEF ServerShape, Carries
  <2>2. QED BY <1>1, <1>6, <1>7, <2>1, ServesKeeps, SvIs DEF Serves, Closers
<1>10. PortAskers' = PortAskers /\ PortHolders' = PortHolders
  BY <1>1, <1>7, <1>8 DEF PortAskers, PortHolders, PortAsks, PortHas
<1>11. Sleeping' = IF PSleeps(w) THEN Sleeping \cup {s} ELSE Sleeping
  BY <1>1, <1>7 DEF Sleeping
<1>12. PortLocked'
  BY <1>4, <1>6, <1>10, <1>11 DEF IInv, PortLocked, Sleeping
<1>13. Counted'
  <2>1. Counted
    BY CountedIs DEF IInv
  <2>2. Got = {}
    BY <1>1, OneReceiver DEF IInv, Got, PortHas
  <2>3. IF PSleeps(w) THEN Got' = {} ELSE Got' # {}
    BY <1>1, <1>7, <2>2 DEF Got
  <2>4. QED BY <1>4, <1>6, <2>1, <2>2, <2>3 DEF Counted
<1>14. WaitCountsQueue'
  BY <1>12, <1>13, CountedIs, PTL
<1>15. QED BY <1>9, <1>12, <1>14 DEF IInv

(* An event while it waits for a message.                                   *)
LEMMA AwaitIntrKeeps ==
    ASSUME IInv, NEW s \in Server, AwaitIntr(s)
    PROVE  IInv'
<1> DEFINE w == port.wait
<1>1. /\ sv[s].pc = "rwait"
      /\ port' = [port EXCEPT !.wait = DqSema(w, s)]
      /\ sv' = [sv EXCEPT ![s].pc = "rrel"]
      /\ UNCHANGED <<ref, prefs, cl, todo>>
  BY DEF AwaitIntr, Sat
<1>2. sv[s] \in ServerThread /\ port \in Port /\ ServerShape(s)
  BY SvIs
<1>3. SleptOn(w, Server, Sleeping) /\ s \in Sleeping
  BY <1>1 DEF IInv, PortLocked, Sleeping
<1>4. /\ SleptOn(DqSema(w, s), Server, Sleeping \ {s})
      /\ DqSema(w, s).cnt = w.cnt + 1 /\ w.cnt < 0 /\ w.cnt \in Int
  BY <1>3, SleptLeave
<1>5. DqSema(w, s) \in Sema(Server)
  BY <1>4 DEF SleptOn, SemaType, Sema
<1>6. port' \in Port /\ port'.wait = DqSema(w, s) /\ port'.st = port.st /\ port'.q = port.q
      /\ port'.sema = port.sema
  <2> HIDE DEF w
  <2>1. QED BY <1>1, <1>2, <1>5 DEF Port
<1>7. /\ sv'[s] \in ServerThread /\ sv'[s].pc = "rrel"
      /\ \A t \in Server \ {s} : sv'[t] = sv[t]
      /\ sv' \in [Server -> ServerThread]
  <2>1. sv'[s] = [sv[s] EXCEPT !.pc = "rrel"]
    BY <1>1, SvIs
  <2>2. sv'[s] \in ServerThread /\ sv'[s].pc = "rrel"
    BY <1>2, <2>1 DEF ServerThread, PortHas
  <2>3. QED BY <1>1, <2>2 DEF IInv, Types
<1>8. Types' /\ Shapes' /\ Locked' /\ Waiting' /\ Owned' /\ Stated' /\ Replied'
      /\ Closing'
  <2>1. ServerShape(s)'
    BY <1>7 DEF ServerShape, Carries
  <2>2. QED BY <1>1, <1>6, <1>7, <2>1, ServesKeeps, SvIs DEF Serves, Closers
<1>9. PortAskers' = PortAskers /\ PortHolders' = PortHolders
  BY <1>1, <1>7 DEF PortAskers, PortHolders, PortAsks, PortHas
<1>10. Sleeping' = Sleeping \ {s}
  BY <1>1, <1>7 DEF Sleeping
<1>11. PortLocked'
  BY <1>4, <1>6, <1>9, <1>10 DEF IInv, PortLocked, Sleeping
<1>12. Counted'
  <2>1. Counted
    BY CountedIs DEF IInv
  <2>2. Got' = Got
    BY <1>1, <1>7 DEF Got
  <2>3. QED BY <1>4, <1>6, <2>1, <2>2 DEF Counted
<1>13. WaitCountsQueue'
  BY <1>11, <1>12, CountedIs, PTL
<1>14. QED BY <1>8, <1>11, <1>13 DEF IInv

(* A step of a thread that has the port's p_sema, or does not want it, and  *)
(* keeps it that way.                                                       *)
LEMMA MoveKeeps ==
    ASSUME IInv, NEW s \in Server, Serves(s), sv' = [t \in Server |-> sv'[t]],
           sv'[s] \in ServerThread, ServerShape(s)',
           sv[s].pc \notin {"svw", "rwait"} \cup PortAsks,
           sv'[s].pc \notin {"rwait", "got"} \cup PortAsks,
           sv'[s].pc \in PortHas <=> sv[s].pc \in PortHas,
           port' \in Port, port'.st = port.st, port'.sema = port.sema,
           port'.wait = port.wait, prefs' \subseteq Ref, todo' \subseteq Message,
           port.st = "open" =>
              /\ sv'[s].pc \notin Closers
              /\ Len(port'.q) = IF sv[s].pc = "got" THEN Len(port.q) - 1 ELSE Len(port.q)
    PROVE  IInv'
<1>1. \A t \in Server \ {s} : sv'[t] = sv[t]
  BY DEF Serves
<1>2. sv' \in [Server -> ServerThread]
  BY <1>1 DEF IInv, Types
<1>3. Types' /\ Shapes' /\ Locked' /\ Waiting' /\ Owned' /\ Stated' /\ Replied'
      /\ Closing'
  BY <1>2, ServesKeeps
<1>4. PortLocked'
  <2>1. \A t \in Server : /\ sv'[t].pc \in PortAsks <=> sv[t].pc \in PortAsks
                          /\ sv'[t].pc \in PortHas <=> sv[t].pc \in PortHas
                          /\ sv'[t].pc = "rwait" <=> sv[t].pc = "rwait"
    BY <1>1
  <2>2. QED BY <2>1, PortKept DEF IInv
<1>5. Counted'
  <2> SUFFICES ASSUME port.st = "open" PROVE Counted'
    BY DEF Counted
  <2>1. Counted
    BY CountedIs DEF IInv
  <2>2. CASE sv[s].pc = "got"
    <3>1. Got' = {} /\ Got # {}
      BY <1>1, <2>2, OneReceiver DEF IInv, Got, PortHas
    <3>2. port.wait.cnt \in Int /\ Len(port.q) \in Nat
      BY SvIs DEF Port, Sema
    <3>3. QED BY <2>1, <2>2, <3>1, <3>2 DEF Counted
  <2>3. CASE sv[s].pc # "got"
    <3>1. Got' = Got
      BY <1>1, <2>3 DEF Got
    <3>2. QED BY <2>1, <2>3, <3>1 DEF Counted
  <2>4. QED BY <2>2, <2>3
<1>6. WaitCountsQueue'
  BY <1>4, <1>5, CountedIs, PTL
<1>7. QED BY <1>3, <1>4, <1>6 DEF IInv

(* The ring of portrefs: taking one out, ...                                *)
LEMMA WithoutIs ==
    ASSUME NEW refs \in Seq(Ref), NEW r \in ToSet(refs)
    PROVE  /\ Without(refs, r) \in Seq(Ref)
           /\ (\A i, j \in DOMAIN refs : refs[i] = refs[j] => i = j) =>
                 /\ ToSet(Without(refs, r)) = ToSet(refs) \ {r}
                 /\ \A i, j \in DOMAIN Without(refs, r) :
                       Without(refs, r)[i] = Without(refs, r)[j] => i = j
<1> DEFINE k == CHOOSE i \in DOMAIN refs : refs[i] = r
           w == RemoveAt(refs, k)
<1>1. k \in DOMAIN refs /\ refs[k] = r
  BY DEF ToSet
<1> HIDE DEF k
<1>2. w \in Seq(Ref)
  BY <1>1, RemoveAtShape
<1>3. Without(refs, r) = w
  BY DEF Without, k
<1>4. ASSUME \A i, j \in DOMAIN refs : refs[i] = refs[j] => i = j
      PROVE  /\ ToSet(w) = ToSet(refs) \ {r}
             /\ \A i, j \in DOMAIN w : w[i] = w[j] => i = j
  <2>1. /\ {w[j] : j \in DOMAIN w} = {refs[j] : j \in DOMAIN refs} \ {refs[k]}
        /\ \A i, j \in DOMAIN w : w[i] = w[j] => i = j
    BY <1>1, <1>4, RemoveOne
  <2> HIDE DEF w
  <2>2. QED BY <1>1, <2>1 DEF ToSet
<1> HIDE DEF w
<1>5. QED BY <1>2, <1>3, <1>4

(* ... and entering one behind the head.                                    *)
LEMMA Joined ==
    ASSUME NEW T, NEW a \in Seq(T), NEW b \in Seq(T)
    PROVE  /\ a \o b \in Seq(T) /\ Len(a \o b) = Len(a) + Len(b)
           /\ Len(a) \in Nat /\ Len(b) \in Nat
OBVIOUS

(* ref_port() adds a portref to the ring, and loses none.                   *)
LEMMA RefPortIs ==
    ASSUME NEW refs \in Seq(Ref), NEW r \in Ref
    PROVE  RefPort(refs, r) \in Seq(Ref) /\ ToSet(RefPort(refs, r)) = ToSet(refs) \cup {r}
<1>1. CASE refs = <<>>
  BY <1>1 DEF RefPort, ToSet
<1>2. CASE refs # <<>>
  <2>1. /\ Head(refs) \in Ref /\ Tail(refs) \in Seq(Ref)
        /\ Len(refs) \in Nat \ {0} /\ Len(Tail(refs)) = Len(refs) - 1
        /\ \A i \in 1 .. Len(refs) - 1 : Tail(refs)[i] = refs[i + 1]
    BY <1>2
  <2> DEFINE a == <<Head(refs), r>>
             b == Tail(refs)
  <2>2. a \in Seq(Ref) /\ Len(a) = 2 /\ a[1] = refs[1] /\ a[2] = r
    BY <1>2, <2>1
  <2> HIDE DEF a, b
  <2>3. RefPort(refs, r) = a \o b
    BY <1>2 DEF RefPort, a, b
  <2>4. b \in Seq(Ref)
    BY <2>1 DEF b
  <2>5. /\ a \o b \in Seq(Ref) /\ Len(a \o b) = 2 + Len(b)
        /\ \A i \in 1 .. 2 + Len(b) : (a \o b)[i] = IF i <= 2 THEN a[i] ELSE b[i - 2]
    <3>1. a \o b \in Seq(Ref) /\ Len(a \o b) = 2 + Len(b) /\ Len(b) \in Nat
      BY <2>2, <2>4, Joined
    <3>2. ASSUME NEW i \in 1 .. 2 + Len(b)
          PROVE  (a \o b)[i] = IF i <= 2 THEN a[i] ELSE b[i - 2]
      <4>1. CASE i <= 2
        BY <2>2, <2>4, <3>1, <4>1
      <4>2. CASE ~ (i <= 2)
        BY <2>2, <2>4, <3>1, <4>2
      <4>3. QED BY <4>1, <4>2
    <3>3. QED BY <3>1, <3>2
  <2>6. Len(b) = Len(refs) - 1 /\ \A i \in 1 .. Len(b) : b[i] = refs[i + 1]
    BY <2>1 DEF b
  <2>7. ToSet(a \o b) = {(a \o b)[i] : i \in 1 .. 2 + Len(b)}
    BY <2>5 DEF ToSet
  <2>8. ToSet(refs) = {refs[i] : i \in 1 .. Len(refs)}
    BY DEF ToSet
  <2>9. ASSUME NEW x \in ToSet(a \o b) PROVE x \in ToSet(refs) \cup {r}
    <3>1. PICK i \in 1 .. 2 + Len(b) : x = (a \o b)[i]
      BY <2>7
    <3>2. CASE i = 1
      <4>1. x = refs[1] /\ 1 \in 1 .. Len(refs)
        BY <2>1, <2>2, <2>5, <2>6, <3>1, <3>2
      <4>2. QED BY <2>8, <4>1
    <3>3. CASE i = 2
      BY <2>2, <2>5, <2>6, <2>1, <3>1, <3>3
    <3>4. CASE i > 2
      <4>1. i - 2 \in 1 .. Len(b) /\ x = b[i - 2]
        BY <2>1, <2>5, <2>6, <3>1, <3>4
      <4>2. x = refs[i - 1] /\ i - 1 \in 1 .. Len(refs)
        BY <2>1, <2>6, <4>1
      <4>3. QED BY <2>8, <4>2
    <3>5. i = 1 \/ i = 2 \/ i > 2
      BY <2>1, <2>6, <3>1
    <3>6. QED BY <3>2, <3>3, <3>4, <3>5
  <2>10. ASSUME NEW x \in ToSet(refs) \cup {r} PROVE x \in ToSet(a \o b)
    <3>1. CASE x = r
      <4>1. x = (a \o b)[2] /\ 2 \in 1 .. 2 + Len(b)
        BY <2>1, <2>2, <2>5, <2>6, <3>1
      <4>2. QED BY <2>7, <4>1
    <3>2. CASE x # r
      <4>1. PICK i \in 1 .. Len(refs) : x = refs[i]
        BY <2>8, <3>2
      <4>2. CASE i = 1
        <5>1. x = (a \o b)[1] /\ 1 \in 1 .. 2 + Len(b)
          BY <2>1, <2>2, <2>5, <2>6, <4>1, <4>2
        <5>2. QED BY <2>7, <5>1
      <4>3. CASE i > 1
        <5>1. i - 1 \in 1 .. Len(b) /\ x = b[i - 1]
          BY <2>1, <2>6, <4>1, <4>3
        <5>2. i + 1 \in 1 .. 2 + Len(b) /\ ~ (i + 1 <= 2) /\ (i + 1) - 2 = i - 1
          BY <4>1, <4>3, <5>1, <2>1, <2>6
        <5>3. x = (a \o b)[i + 1]
          BY <2>5, <5>1, <5>2
        <5>4. QED BY <2>7, <5>2, <5>3
      <4>4. QED BY <2>1, <4>1, <4>2, <4>3
    <3>3. QED BY <3>1, <3>2
  <2>11. QED BY <2>3, <2>5, <2>9, <2>10
<1>3. QED BY <1>1, <1>2

(* deref_port() takes the portref out of the ring and leaves the rest of    *)
(* the port alone.                                                          *)
LEMMA UnrefIs ==
    ASSUME NEW p \in Port, NEW r, DerefFails(p, r) = "none"
    PROVE  /\ r \in ToSet(p.refs) /\ p.refs # <<>>
           /\ Unref(p, r) \in Port /\ Unref(p, r).refs = Without(p.refs, r)
           /\ Unref(p, r).st = p.st /\ Unref(p, r).sema = p.sema
           /\ Unref(p, r).wait = p.wait /\ Unref(p, r).q = p.q
<1>1. r \in ToSet(p.refs) /\ p.refs # <<>>
  BY DEF DerefFails
<1>2. Without(p.refs, r) \in Seq(Ref)
  BY <1>1, WithoutIs DEF Port
<1>3. Unref(p, r) = [p EXCEPT !.refs = Without(p.refs, r)]
  BY DEF Unref
<1>4. QED BY <1>1, <1>2, <1>3 DEF Port

(* The steps of a thread that leave everything but its own place, the       *)
(* handles and what it owes alone.                                          *)
LEMMA PlaceKeeps ==
    ASSUME IInv, NEW s \in Server, NEW x \in ServerThread,
           sv' = [sv EXCEPT ![s] = x], UNCHANGED <<ref, port, cl>>,
           prefs' \subseteq Ref, todo' \subseteq Message,
           x.pc \in Carries => x.ms # <<>>,
           x.pc \notin Carries \cup {"rrel", "xb"} => x.ms = <<>>,
           x.pc \in {"dupv", "duph"} => x.r \in Ref,
           sv[s].pc \notin {"svw", "rwait", "got"} \cup PortAsks,
           x.pc \notin {"rwait", "got"} \cup PortAsks,
           x.pc \in PortHas <=> sv[s].pc \in PortHas,
           x.pc \in Closers => sv[s].pc \in Closers
    PROVE  IInv'
<1>1. sv'[s] = x /\ \A t \in Server \ {s} : sv'[t] = sv[t]
  BY SvIs
<1>2. sv' = [t \in Server |-> sv'[t]]
  BY SvIs
<1>3. ServerShape(s)'
  BY <1>1 DEF ServerShape
<1>4. port.st = "open" => x.pc \notin Closers
  BY DEF IInv, Closing
<1>5. port' \in Port
  BY SvIs
<1>6. QED BY <1>1, <1>2, <1>3, <1>4, <1>5, MoveKeeps DEF Serves

(* A message a thread has in hand. *)
LEMMA CarriedIs ==
    ASSUME IInv, NEW s \in Server, sv[s].ms # <<>>
    PROVE  LET m == sv[s].ms[1] IN
           /\ m \in Message /\ m.r \in Ref /\ m.by \in Client
           /\ sv[s].ms \in Seq(Message)
<1>1. sv[s].ms \in Seq(Message)
  BY SvIs DEF ServerThread
<1>2. sv[s].ms[1] \in Message
  BY <1>1
<1>3. QED BY <1>1, <1>2 DEF Message

(* An M_CONNECT enters the ring and the hash.                               *)
LEMMA NewClientKeeps ==
    ASSUME IInv, NEW s \in Server, NewClient(s)
    PROVE  IInv'
<1> DEFINE r == sv[s].ms[1].r
           x == [sv[s] EXCEPT !.pc = "copy"]
<1>1. CASE r \in prefs
  BY <1>1, PanicKeeps DEF NewClient
<1>2. CASE r \notin prefs
  <2>1. /\ sv[s].pc = "newc" /\ prefs' = prefs \cup {r} /\ sv' = [sv EXCEPT ![s] = x]
        /\ UNCHANGED <<ref, port, cl, todo>>
    BY <1>2 DEF NewClient, Sat
  <2>2. sv[s] \in ServerThread /\ sv[s].ms # <<>>
    BY <2>1, SvIs DEF ServerShape, Carries
  <2>3. r \in Ref
    BY <2>2, CarriedIs
  <2>4. x \in ServerThread /\ x.pc = "copy" /\ x.ms = sv[s].ms
    BY <2>2 DEF ServerThread, PortHas
  <2> HIDE DEF x, r
  <2>5. prefs' \subseteq Ref /\ todo' \subseteq Message
    BY <2>1, <2>3, SvIs
  <2>6. QED BY <2>1, <2>2, <2>4, <2>5, PlaceKeeps DEF Carries, PortHas, PortAsks, Closers
<1>3. QED BY <1>1, <1>2

(* An M_DISCONNECT leaves the hash.                                         *)
LEMMA DelClientKeeps ==
    ASSUME IInv, NEW s \in Server, DelClient(s)
    PROVE  IInv'
<1> DEFINE r == sv[s].ms[1].r
           x == [sv[s] EXCEPT !.pc = "dack"]
<1>1. CASE r \notin prefs
  BY <1>1, PanicKeeps DEF DelClient
<1>2. CASE r \in prefs
  <2>1. /\ sv[s].pc = "delc" /\ prefs' = prefs \ {r} /\ sv' = [sv EXCEPT ![s] = x]
        /\ UNCHANGED <<ref, port, cl, todo>>
    BY <1>2 DEF DelClient, Sat
  <2>2. sv[s] \in ServerThread /\ sv[s].ms # <<>>
    BY <2>1, SvIs DEF ServerShape, Carries
  <2>4. x \in ServerThread /\ x.pc = "dack" /\ x.ms = sv[s].ms
    BY <2>2 DEF ServerThread, PortHas
  <2> HIDE DEF x, r
  <2>5. prefs' \subseteq Ref /\ todo' \subseteq Message
    BY <2>1, SvIs
  <2>6. QED BY <2>1, <2>2, <2>4, <2>5, PlaceKeeps DEF Carries, PortHas, PortAsks, Closers
<1>3. QED BY <1>1, <1>2

(* A message of a client is handed on.                                      *)
LEMMA CopyOutKeeps ==
    ASSUME IInv, NEW s \in Server, CopyOut(s)
    PROVE  IInv'
<1> DEFINE x == [sv[s] EXCEPT !.pc = "rrel"]
<1>1. /\ sv[s].pc = "copy" /\ sv' = [sv EXCEPT ![s] = x]
      /\ UNCHANGED <<ref, port, prefs, cl, todo>>
  BY DEF CopyOut, Sat
<1>2. x \in ServerThread /\ x.pc = "rrel"
  BY SvIs DEF ServerThread, PortHas
<1> HIDE DEF x
<1>3. prefs' \subseteq Ref /\ todo' \subseteq Message
  BY <1>1, SvIs
<1>4. QED BY <1>1, <1>2, <1>3, PlaceKeeps DEF Carries, PortHas, PortAsks, Closers

(* msg_receive() returns.                                                   *)
LEMMA ReceivedKeeps ==
    ASSUME IInv, NEW s \in Server, Received(s)
    PROVE  IInv'
<1>1. /\ sv[s].pc = "rpost" /\ sv' = [sv EXCEPT ![s] = IdleSv]
      /\ UNCHANGED <<ref, port, prefs, cl>>
  BY DEF Received, Sat
<1>2. sv[s] \in ServerThread /\ sv[s].ms # <<>>
  BY <1>1, SvIs DEF ServerShape, Carries
<1>3. sv[s].ms[1] \in Message
  BY <1>2 DEF ServerThread
<1>4. todo' \subseteq todo \cup {sv[s].ms[1]}
  BY DEF Received
<1>5. IdleSv \in ServerThread /\ IdleSv.pc = "idle" /\ IdleSv.ms = <<>>
  BY DEF IdleSv, ServerThread
<1>6. prefs' \subseteq Ref /\ todo' \subseteq Message
  BY <1>1, <1>3, <1>4, SvIs
<1>7. QED BY <1>1, <1>5, <1>6, PlaceKeeps DEF Carries, PortHas, PortAsks, Closers

(* The copy enters the hash.                                                *)
LEMMA DupHashKeeps ==
    ASSUME IInv, NEW s \in Server, DupHash(s)
    PROVE  IInv'
<1>1. CASE sv[s].r \in prefs
  BY <1>1, PanicKeeps DEF DupHash
<1>2. CASE sv[s].r \notin prefs
  <2>1. /\ sv[s].pc = "duph" /\ sv' = [sv EXCEPT ![s] = IdleSv]
        /\ prefs' = prefs \cup {sv[s].r} /\ UNCHANGED <<ref, port, cl, todo>>
    BY <1>2 DEF DupHash, Sat
  <2>2. sv[s].r \in Ref
    BY <2>1, SvIs DEF ServerShape
  <2>3. IdleSv \in ServerThread /\ IdleSv.pc = "idle" /\ IdleSv.ms = <<>>
    BY DEF IdleSv, ServerThread
  <2>4. prefs' \subseteq Ref /\ todo' \subseteq Message
    BY <2>1, <2>2, SvIs
  <2>5. QED BY <2>1, <2>3, <2>4, PlaceKeeps DEF Carries, PortHas, PortAsks, Closers
<1>3. QED BY <1>1, <1>2

(* bounce_msgs() is done with a message.                                    *)
LEMMA BouncedKeeps ==
    ASSUME IInv, NEW s \in Server, Bounced(s)
    PROVE  IInv'
<1> DEFINE x == [sv[s] EXCEPT !.pc = "xh"]
<1>1. /\ sv[s].pc = "xb" /\ sv[s].ms = <<>> /\ sv' = [sv EXCEPT ![s] = x]
      /\ UNCHANGED <<ref, port, prefs, cl, todo>>
  BY DEF Bounced, Sat
<1>2. x \in ServerThread /\ x.pc = "xh" /\ x.ms = <<>>
  BY <1>1, SvIs DEF ServerThread, PortHas
<1> HIDE DEF x
<1>3. prefs' \subseteq Ref /\ todo' \subseteq Message
  BY <1>1, SvIs
<1>4. QED BY <1>1, <1>2, <1>3, PlaceKeeps DEF Carries, PortHas, PortAsks, Closers

(* shut_server() takes a handle out of the hash.                            *)
LEMMA UnhashKeeps ==
    ASSUME IInv, NEW s \in Server, Unhash(s)
    PROVE  IInv'
<1> DEFINE x == [IdleSv EXCEPT !.pc = "xloop"]
<1>1. CASE sv[s].r \notin prefs
  BY <1>1, PanicKeeps DEF Unhash
<1>2. CASE sv[s].r \in prefs
  <2>1. /\ sv[s].pc = "xh" /\ sv' = [sv EXCEPT ![s] = x]
        /\ prefs' = prefs \ {sv[s].r} /\ UNCHANGED <<ref, port, cl, todo>>
    BY <1>2 DEF Unhash, Sat
  <2>2. x \in ServerThread /\ x.pc = "xloop" /\ x.ms = <<>>
    <3>1. x = [pc |-> "xloop", ms |-> <<>>, r |-> NoRef]
      BY DEF IdleSv
    <3> HIDE DEF x
    <3>2. QED BY <3>1 DEF ServerThread, PortHas
  <2> HIDE DEF x
  <2>3. prefs' \subseteq Ref /\ todo' \subseteq Message
    BY <2>1, SvIs
  <2>4. QED BY <2>1, <2>2, <2>3, PlaceKeeps DEF Carries, PortHas, PortAsks, Closers
<1>3. QED BY <1>1, <1>2

(* shut_server() takes the name back.                                       *)
LEMMA UnnameKeeps ==
    ASSUME IInv, NEW s \in Server, Unname(s)
    PROVE  IInv'
<1> DEFINE x == [sv[s] EXCEPT !.pc = "xloop"]
<1>1. /\ sv[s].pc = "xhave" /\ sv' = [sv EXCEPT ![s] = x]
      /\ port' = [port EXCEPT !.name = FALSE]
      /\ UNCHANGED <<ref, prefs, cl, todo>>
  BY DEF Unname, Sat
<1>2. x \in ServerThread /\ x.pc = "xloop" /\ x.ms = <<>>
  BY <1>1, SvIs DEF ServerThread, PortHas, ServerShape, Carries
<1> HIDE DEF x
<1>3. port.st # "open" /\ port \in Port
  BY <1>1, SvIs DEF IInv, Closing, Closers
<1>4. port' \in Port /\ port'.st = port.st /\ port'.sema = port.sema /\ port'.wait = port.wait
  BY <1>1, <1>3 DEF Port
<1>5. /\ sv'[s] = x /\ (\A t \in Server \ {s} : sv'[t] = sv[t])
      /\ sv' = [t \in Server |-> sv'[t]]
  BY <1>1, SvIs
<1>6. ServerShape(s)'
  BY <1>2, <1>5 DEF ServerShape, Carries
<1>7. prefs' \subseteq Ref /\ todo' \subseteq Message
  BY <1>1, SvIs
<1>8. Serves(s)
  BY <1>1, <1>5 DEF Serves
<1>9. QED BY <1>1, <1>2, <1>3, <1>4, <1>5, <1>6, <1>7, <1>8, MoveKeeps DEF PortAsks, PortHas

(* bounce_msgs() takes the queue.                                           *)
LEMMA TakeMsgsKeeps ==
    ASSUME IInv, NEW s \in Server, TakeMsgs(s)
    PROVE  IInv'
<1> DEFINE x == [pc |-> "xb", ms |-> port.q, r |-> Head(port.refs)]
<1>1. /\ sv[s].pc = "xloop" /\ sv' = [sv EXCEPT ![s] = x] /\ port.refs # <<>>
      /\ port' = [port EXCEPT !.q = <<>>]
      /\ UNCHANGED <<ref, prefs, cl, todo>>
  BY DEF TakeMsgs, Sat
<1>2. port.st # "open" /\ port \in Port
  BY <1>1, SvIs DEF IInv, Closing, Closers
<1>3. x \in ServerThread /\ x.pc = "xb"
  <2>1. port.q \in Seq(Message) /\ Head(port.refs) \in Ref
    BY <1>1, <1>2 DEF Port
  <2>2. QED BY <2>1 DEF ServerThread, PortHas
<1> HIDE DEF x
<1>4. port' \in Port /\ port'.st = port.st /\ port'.sema = port.sema /\ port'.wait = port.wait
  <2>1. <<>> \in Seq(Message)
    OBVIOUS
  <2>2. QED BY <1>1, <1>2, <2>1 DEF Port
<1>5. /\ sv'[s] = x /\ (\A t \in Server \ {s} : sv'[t] = sv[t])
      /\ sv' = [t \in Server |-> sv'[t]]
  BY <1>1, SvIs
<1>6. ServerShape(s)'
  BY <1>3, <1>5 DEF ServerShape, Carries
<1>7. prefs' \subseteq Ref /\ todo' \subseteq Message
  BY <1>1, SvIs
<1>8. Serves(s)
  BY <1>1, <1>5 DEF Serves
<1>9. QED BY <1>1, <1>2, <1>3, <1>4, <1>5, <1>6, <1>7, <1>8, MoveKeeps DEF PortAsks, PortHas

(* The head of the queue, with a unit of p_wait taken before.               *)
LEMMA DequeueKeeps ==
    ASSUME IInv, NEW s \in Server, Dequeue(s)
    PROVE  IInv'
<1> DEFINE m == Head(port.q)
           p1 == [port EXCEPT !.q = Tail(@)]
           p == CASE m.op = "connect" -> "newc" [] m.op = "disconnect" -> "delc"
                  [] OTHER -> "copy"
           x == [sv[s] EXCEPT !.ms = <<m>>, !.pc = p]
<1>1. CASE DequeueFails # "none"
  BY <1>1, PanicKeeps DEF Dequeue
<1>2. CASE DequeueFails = "none"
  <2>1. sv[s].pc = "got" /\ sv' = [sv EXCEPT ![s] = x] /\ UNCHANGED <<ref, prefs, cl, todo>>
    BY <1>2 DEF Dequeue, Sat
  <2>2. port \in Port /\ port.q # <<>>
    BY <1>2, SvIs DEF DequeueFails
  <2>3. /\ m \in Message /\ Tail(port.q) \in Seq(Message)
        /\ Len(Tail(port.q)) = Len(port.q) - 1
    BY <2>2 DEF Port
  <2>4. /\ p1 \in Port /\ p1.st = port.st /\ p1.sema = port.sema /\ p1.wait = port.wait
        /\ p1.q = Tail(port.q) /\ p1.refs = port.refs
    BY <2>2, <2>3 DEF Port
  <2>5. m.op = "disconnect" => DerefFails(p1, m.r) = "none"
    BY <1>2 DEF DequeueFails
  <2>6. port' = CASE m.op = "connect" -> [p1 EXCEPT !.refs = RefPort(@, m.r)]
                  [] m.op = "disconnect" -> Unref(p1, m.r)
                  [] OTHER -> p1
    BY <1>2 DEF Dequeue
  <2>8. p \in {"newc", "delc", "copy"}
    OBVIOUS
  <2> HIDE DEF m, p1, p
  <2>7. x \in ServerThread /\ x.ms = <<m>> /\ x.pc = p
    <3>1. <<m>> \in Seq(Message)
      BY <2>3
    <3>2. QED BY <2>8, <3>1, SvIs DEF ServerThread, PortHas
  <2> HIDE DEF x
  <2>9. /\ port' \in Port /\ port'.st = port.st /\ port'.sema = port.sema
        /\ port'.wait = port.wait /\ port'.q = Tail(port.q)
    <3>1. CASE m.op = "connect"
      <4>1. RefPort(p1.refs, m.r) \in Seq(Ref)
        BY <2>3, <2>4, RefPortIs DEF Port, Message
      <4>2. port' = [p1 EXCEPT !.refs = RefPort(p1.refs, m.r)]
        BY <2>6, <3>1
      <4>3. QED BY <2>4, <4>1, <4>2 DEF Port
    <3>2. CASE m.op = "disconnect"
      BY <2>4, <2>5, <2>6, <3>2, UnrefIs
    <3>3. CASE m.op \notin {"connect", "disconnect"}
      BY <2>4, <2>6, <3>3
    <3>4. QED BY <3>1, <3>2, <3>3
  <2>10. /\ sv'[s] = x /\ (\A t \in Server \ {s} : sv'[t] = sv[t])
         /\ sv' = [t \in Server |-> sv'[t]]
    BY <2>1, SvIs
  <2>11. ServerShape(s)'
    BY <2>7, <2>8, <2>10 DEF ServerShape, Carries
  <2>12. prefs' \subseteq Ref /\ todo' \subseteq Message
    BY <2>1, SvIs
  <2>13. Serves(s)
    BY <2>1, <2>10 DEF Serves
  <2>14. sv'[s].pc \notin Closers
    BY <2>7, <2>8, <2>10 DEF Closers
  <2>15. QED
    BY <2>1, <2>3, <2>7, <2>8, <2>9, <2>10, <2>11, <2>12, <2>13, <2>14, MoveKeeps
    DEF PortAsks, PortHas
<1>3. QED BY <1>1, <1>2

(* msg_reply() to an M_DUP enters the copy in the ring.                     *)
LEMMA ReplyDupKeeps ==
    ASSUME IInv, NEW s \in Server, NEW m \in Message, ReplyDup(s, m)
    PROVE  IInv'
<1> DEFINE r == m.r
           n == CHOOSE x \in {cl[c].n : c \in ref[r].msg} : TRUE
           x == [pc |-> "dupv", ms |-> <<m>>, r |-> n]
<1>1. CASE ~ ref[n].port
  BY <1>1, PanicKeeps DEF ReplyDup
<1>2. CASE ref[n].port
  <2>1. /\ sv[s].pc = "idle" /\ sv' = [sv EXCEPT ![s] = x] /\ UNCHANGED <<ref, prefs, cl>>
        /\ todo' = todo \ {m} /\ IsDup(r)
        /\ port' = [port EXCEPT !.refs = RefPort(@, n)]
    BY <1>2 DEF ReplyDup, Sat
  <2>2. r \in Ref
    BY DEF Message
  <2>3. PICK c \in ref[r].msg : cl[c].pc \in {"dupw", "dupd"}
    BY <2>1 DEF IsDup
  <2>4. c \in Client /\ \A d \in ref[r].msg : d = c
    BY <2>2, <2>3 DEF IInv, Stated, Types, Portref
  <2>5. n = cl[c].n
    BY <2>3, <2>4
  <2> HIDE DEF n
  <2>6. n \in Ref
    BY <2>3, <2>4, <2>5, InCall DEF IInv, Clones
  <2>7. x \in ServerThread /\ x.pc = "dupv" /\ x.ms = <<m>> /\ x.r = n
    BY <2>6 DEF ServerThread, Carries
  <2> HIDE DEF x
  <2>8. /\ port' \in Port /\ port'.st = port.st /\ port'.sema = port.sema
        /\ port'.wait = port.wait /\ port'.q = port.q
    <3>1. RefPort(port.refs, n) \in Seq(Ref)
      BY <2>6, RefPortIs, SvIs DEF Port
    <3>2. QED BY <2>1, <3>1, SvIs DEF Port
  <2>9. /\ sv'[s] = x /\ (\A t \in Server \ {s} : sv'[t] = sv[t])
        /\ sv' = [t \in Server |-> sv'[t]]
    BY <2>1, SvIs
  <2>10. ServerShape(s)'
    BY <2>6, <2>7, <2>9 DEF ServerShape, Carries
  <2>11. prefs' \subseteq Ref /\ todo' \subseteq Message
    BY <2>1, SvIs
  <2>12. Serves(s)
    BY <2>1, <2>9 DEF Serves
  <2>13. sv'[s].pc = "dupv" /\ sv'[s].pc \notin Closers
    BY <2>7, <2>9 DEF Closers
  <2>14. /\ sv[s].pc \notin {"svw", "rwait", "got"} \cup PortAsks \cup PortHas
         /\ sv'[s].pc \notin {"rwait", "got"} \cup PortAsks \cup PortHas
         /\ sv'[s] \in ServerThread
    BY <2>1, <2>7, <2>9, <2>13 DEF PortAsks, PortHas
  <2>15. QED BY <2>8, <2>9, <2>10, <2>11, <2>12, <2>13, <2>14, MoveKeeps
<1>3. QED BY <1>1, <1>2

(* v_sema(p_sema) of the port: the next thread has it. *)
LEMMA ReleasePortKeeps ==
    ASSUME IInv, NEW s \in Server, ReleasePort(s)
    PROVE  IInv'
<1> DEFINE w == port.sema
           x == IF sv[s].ms = <<>> THEN IdleSv ELSE [sv[s] EXCEPT !.pc = "rpost"]
           g == [sv EXCEPT ![s] = x]
<1>1. /\ sv[s].pc = "rrel" /\ sv' = Wake(g, w)
      /\ port' = [port EXCEPT !.sema = VSema(w)]
      /\ UNCHANGED <<ref, prefs, cl, todo>>
  BY DEF ReleasePort, Sat
<1>2. s \in PortHolders /\ port \in Port
  BY <1>1, SvIs DEF PortHolders, PortHas
<1>3. port.st # "freed" /\ HeldBy(w, Server, PortAskers, PortHolders)
  BY <1>2 DEF IInv, PortLocked
<1>4. /\ VWakes(w) \subseteq PortAskers /\ PortHolders = {s}
      /\ HeldBy(VSema(w), Server, PortAskers \ VWakes(w), VWakes(w))
  BY <1>2, <1>3, HeldGive
<1>5. x \in ServerThread /\ x.pc \in {"idle", "rpost"}
      /\ (x.pc = "rpost" => x.ms # <<>>) /\ (x.pc = "idle" => x.ms = <<>>)
  <2>1. CASE sv[s].ms = <<>>
    BY <2>1 DEF IdleSv, ServerThread
  <2>2. CASE sv[s].ms # <<>>
    BY <2>2, SvIs DEF ServerThread, Carries
  <2>3. QED BY <2>1, <2>2
<1>6. DOMAIN g = Server /\ g[s] = x /\ \A t \in Server \ {s} : g[t] = sv[t]
  BY SvIs DEF IInv, Types
<1> HIDE DEF w, x, g
<1>7. \A t \in Server : sv'[t] = IF t \in VWakes(w) THEN [g[t] EXCEPT !.pc = WakeTo[@]] ELSE g[t]
  BY <1>1, <1>6 DEF Wake
<1>8. sv' = [t \in Server |-> sv'[t]]
  BY <1>1, <1>6 DEF Wake
<1>9. s \notin VWakes(w)
  BY <1>1, <1>4 DEF PortAskers, PortAsks
<1>10. sv'[s] = x
  BY <1>6, <1>7, <1>9
<1>11. \A t \in Server \ {s} : t \notin VWakes(w) => sv'[t] = sv[t]
  BY <1>6, <1>7
<1>12. ASSUME NEW t \in VWakes(w)
       PROVE  /\ t \in Server /\ sv[t].pc \in PortAsks /\ sv'[t] \in ServerThread
              /\ sv'[t].ms = sv[t].ms
              /\ \/ sv[t].pc = "rpsema" /\ sv'[t].pc = "rhave"
                 \/ sv[t].pc = "xpsema" /\ sv'[t].pc = "xhave"
  <2>1. t \in Server /\ sv[t].pc \in PortAsks /\ t # s
    BY <1>4, <1>9, <1>12 DEF PortAskers
  <2>2. sv'[t] = [sv[t] EXCEPT !.pc = WakeTo[sv[t].pc]]
    BY <1>6, <1>7, <1>12, <2>1
  <2>3. sv[t] \in ServerThread
    BY <2>1, SvIs
  <2>4. CASE sv[t].pc = "rpsema"
    BY <2>1, <2>2, <2>3, <2>4, WokenTo DEF ServerThread, PortHas
  <2>5. CASE sv[t].pc = "xpsema"
    BY <2>1, <2>2, <2>3, <2>5, WokenTo DEF ServerThread, PortHas
  <2>6. QED BY <2>1, <2>4, <2>5 DEF PortAsks
<1>13. ASSUME NEW t \in Server
       PROVE  /\ sv'[t] \in ServerThread /\ ServerShape(t)'
              /\ sv[t].pc = "svw" => sv'[t].pc = "svw"
              /\ sv'[t].pc \in Closers => sv[t].pc \in Closers
              /\ sv'[t].pc = "rwait" <=> sv[t].pc = "rwait"
              /\ sv'[t].pc = "got" <=> sv[t].pc = "got"
              /\ t \in PortAskers' <=> t \in PortAskers \ VWakes(w)
              /\ t \in PortHolders' <=> t \in VWakes(w)
  <2>1. CASE t = s
    BY <1>1, <1>5, <1>9, <1>10, <2>1
    DEF ServerShape, Carries, Closers, PortAskers, PortHolders, PortAsks, PortHas
  <2>2. CASE t \in VWakes(w)
    <3>1. ServerShape(t) /\ t # s
      BY <1>9, <2>2, SvIs
    <3>2. QED
      BY <1>12, <2>2, <3>1
      DEF ServerShape, Carries, Closers, PortAskers, PortHolders, PortAsks, PortHas
  <2>3. CASE t \notin VWakes(w) \cup {s}
    <3>1. sv'[t] = sv[t] /\ t \notin PortHolders /\ ServerShape(t) /\ sv[t] \in ServerThread
      BY <1>4, <1>11, <2>3, SvIs
    <3>2. QED BY <2>3, <3>1 DEF ServerShape, PortAskers, PortHolders
  <2>4. QED BY <2>1, <2>2, <2>3
<1>14. /\ port' \in Port /\ port'.st = port.st /\ port'.wait = port.wait
       /\ port'.q = port.q /\ port'.sema = VSema(w)
  <2>1. VSema(w) \in Sema(Server)
    BY <1>4 DEF HeldBy, SleptOn, SemaType, Sema
  <2>2. QED BY <1>1, <1>2, <2>1 DEF Port
<1>15. Types'
  BY <1>1, <1>8, <1>13, <1>14 DEF IInv, Types
<1>16. Shapes'
  BY <1>1, <1>13 DEF IInv, Shapes, ClientShape
<1>17. Locked' /\ Waiting' /\ Owned' /\ Stated' /\ Replied'
  BY <1>1, <1>13, ClientSideKept DEF IInv
<1>18. Closing'
  BY <1>13, <1>14 DEF IInv, Closing
<1>19. PortAskers' = PortAskers \ VWakes(w) /\ PortHolders' = VWakes(w)
  <2>1. PortAskers' \subseteq Server /\ PortHolders' \subseteq Server
        /\ PortAskers \subseteq Server
    BY DEF PortAskers, PortHolders
  <2>2. QED BY <1>4, <1>13, <2>1
<1>20. {t \in Server : sv'[t].pc = "rwait"} = {t \in Server : sv[t].pc = "rwait"}
  BY <1>13
<1>21. PortLocked'
  BY <1>3, <1>4, <1>14, <1>19, <1>20 DEF IInv, PortLocked
<1>22. WaitCountsQueue'
  BY <1>13, <1>14, CountKept DEF IInv
<1>23. QED BY <1>15, <1>16, <1>17, <1>18, <1>21, <1>22 DEF IInv

(* shut_server() frees the port with its p_sema held. *)
LEMMA FreePortKeeps ==
    ASSUME IInv, NEW s \in Server, FreePort(s)
    PROVE  IInv'
<1>1. /\ sv[s].pc = "xloop" /\ sv' = [sv EXCEPT ![s] = IdleSv]
      /\ port' = [port EXCEPT !.st = "freed"]
      /\ UNCHANGED <<ref, prefs, cl, todo>>
  BY DEF FreePort, Sat
<1>2. port \in Port /\ s \in PortHolders
  BY <1>1, SvIs DEF PortHolders, PortHas
<1>3. /\ port' \in Port /\ port'.st = "freed" /\ port'.sema = port.sema
      /\ port'.wait = port.wait
  BY <1>1, <1>2 DEF Port
<1>4. /\ sv'[s] = IdleSv /\ IdleSv \in ServerThread /\ IdleSv.pc = "idle" /\ IdleSv.ms = <<>>
      /\ (\A t \in Server \ {s} : sv'[t] = sv[t])
      /\ sv' = [t \in Server |-> sv'[t]]
  <2>1. IdleSv \in ServerThread /\ IdleSv.pc = "idle" /\ IdleSv.ms = <<>>
    BY DEF IdleSv, ServerThread
  <2>2. QED BY <1>1, <2>1, SvIs
<1>5. sv' \in [Server -> ServerThread]
  BY <1>4, SvIs
<1>6. Types' /\ Shapes' /\ Locked' /\ Waiting' /\ Owned' /\ Stated' /\ Replied' /\ Closing'
  <2>1. ServerShape(s)'
    BY <1>4 DEF ServerShape, Carries
  <2>2. QED BY <1>1, <1>3, <1>4, <1>5, <2>1, ServesKeeps, SvIs DEF Serves
<1>7. HeldBy(port.sema, Server, PortAskers, PortHolders)
      /\ SleptOn(port.wait, Server, Sleeping)
  BY <1>2 DEF IInv, PortLocked, Sleeping
<1>8. \A t \in PortHolders : t = s
  BY <1>2, <1>7 DEF HeldBy
<1>9. PortAskers' = PortAskers /\ PortHolders' = {} /\ Sleeping' = Sleeping
  BY <1>1, <1>4, <1>8 DEF PortAskers, PortHolders, Sleeping, PortAsks, PortHas
<1>10. PortLocked'
  BY <1>3, <1>7, <1>9 DEF PortLocked, Sleeping, HeldBy
<1>11. WaitCountsQueue'
  BY <1>3 DEF WaitCountsQueue
<1>12. QED BY <1>6, <1>10, <1>11 DEF IInv

-----------------------------------------------------------------------------
(* Answers                                                                  *)

(* The server's half of a step that leaves the port's semaphores and queue  *)
(* alone.                                                                   *)
LEMMA PortSideKept ==
    ASSUME IInv, NEW s \in Server, \A t \in Server \ {s} : sv'[t] = sv[t],
           sv' = [t \in Server |-> sv'[t]], sv'[s] \in ServerThread, ServerShape(s)',
           \/ sv'[s].pc = sv[s].pc
           \/ /\ sv[s].pc \notin {"rwait", "got"} \cup PortAsks
              /\ sv'[s].pc \notin {"rwait", "got"} \cup PortAsks
              /\ sv'[s].pc \in PortHas <=> sv[s].pc \in PortHas
              /\ sv'[s].pc \in Closers => sv[s].pc \in Closers,
           port'.st = port.st, port'.sema = port.sema, port'.wait = port.wait,
           port'.q = port.q
    PROVE  /\ sv' \in [Server -> ServerThread] /\ \A t \in Server : ServerShape(t)'
           /\ PortLocked' /\ Closing' /\ WaitCountsQueue'
<1>1. \A t \in Server : /\ sv'[t].pc \in PortAsks <=> sv[t].pc \in PortAsks
                        /\ sv'[t].pc \in PortHas <=> sv[t].pc \in PortHas
                        /\ sv'[t].pc = "rwait" <=> sv[t].pc = "rwait"
                        /\ sv'[t].pc = "got" <=> sv[t].pc = "got"
                        /\ sv'[t].pc \in Closers => sv[t].pc \in Closers
  OBVIOUS
<1>2. sv' \in [Server -> ServerThread]
  BY SvIs
<1>3. \A t \in Server : ServerShape(t)'
  BY SvIs DEF ServerShape
<1>4. PortLocked'
  BY <1>1, PortKept DEF IInv
<1>5. Closing'
  BY <1>1 DEF IInv, Closing
<1>6. WaitCountsQueue'
  BY <1>1, CountKept DEF IInv
<1>7. QED BY <1>2, <1>3, <1>4, <1>5, <1>6

(* The client of portref r is told, and let go on with its I/O.             *)
LEMMA AnswerKept ==
    ASSUME IInv, NEW r \in Ref, NEW g \in [Client -> ClientThread],
           \A c \in Client : /\ g[c].pc = cl[c].pc /\ g[c].r = cl[c].r
                             /\ g[c].n = cl[c].n /\ g[c].bit = cl[c].bit
                             /\ g[c].op = cl[c].op,
           cl' = Wake(g, ref[r].iowait),
           ref'[r].iowait = VSema(ref[r].iowait),
           \A x \in Ref \ {r} : ref'[x].iowait = ref[x].iowait /\ ref'[x].st = ref[x].st,
           \A x \in Ref : /\ ref'[x].sema = ref[x].sema /\ ref'[x].fd = ref[x].fd
                          /\ ref'[x].msg = ref[x].msg,
           \/ ref'[r].st = ref[r].st
           \/ ref'[r].st \in {"IODONE", "ABDONE"} /\ ref[r].st # "FREE"
    PROVE  /\ cl' \in [Client -> ClientThread] /\ \A c \in Client : ClientShape(c)'
           /\ Locked' /\ Waiting' /\ Owned' /\ Stated'
           /\ \A x \in Ref : ref[x].svwait.q # <<>> => ref'[x].st # "IOWAIT" /\ Loosed(x)'
<1>1. /\ cl' \in [Client -> ClientThread]
      /\ \A c \in Client : Follows(c) /\ (cl'[c].pc # cl[c].pc => c \in Waiters(r))
      /\ Waiting' /\ ref[r].iowait.cnt \in Int
      /\ ref'[r].iowait.cnt = ref[r].iowait.cnt + 1
      /\ \/ ref[r].iowait.cnt >= 0 /\ Waiters(r) = {}
         \/ /\ ref[r].iowait.cnt < 0
            /\ \E c \in Waiters(r) :
                  /\ VWakes(ref[r].iowait) = {c}
                  /\ cl'[c].pc = WakeTo[cl[c].pc]
  BY GiveIo DEF IInv
<1>2. \A c \in Client : ClientShape(c)'
  BY <1>1, FollowsIs, SMTT(30) DEF IInv, Shapes, ClientShape, Follows
<1>3. Locked' /\ Owned'
  BY <1>1, UsersKept DEF IInv
<1>4. \A c \in Client : cl'[c].r = cl[c].r
  BY <1>1 DEF Follows
<1>5. \A x : Holders(x)' = Holders(x) /\ Waiters(x)' \subseteq Waiters(x)
  BY <1>1, <1>4, FollowsIs, SMTT(30) DEF Holders, Waiters
<1>6. Stated'
  <2>1. \A c \in Client : cl'[c].pc \in Joins =>
            ref'[cl'[c].r].st \in {"OPENING", "IODONE", "ABDONE"}
    <3> SUFFICES ASSUME NEW c \in Client, cl'[c].pc \in Joins
                 PROVE  ref'[cl'[c].r].st \in {"OPENING", "IODONE", "ABDONE"}
      OBVIOUS
    <3>1. cl[c].pc \in Joins /\ cl'[c].r = cl[c].r
      BY <1>1, <1>4, FollowsIs
    <3>2. cl[c].r \in Ref /\ ref[cl[c].r].st \in {"OPENING", "IODONE", "ABDONE"}
      BY <3>1, InCall DEF IInv, Stated
    <3>3. QED BY <3>1, <3>2
  <2>2. \A x \in Ref : ref'[x].st = "IOWAIT" =>
            \A c \in Waiters(x)' : cl'[c].pc \in {"iow", "dupw"}
    <3> SUFFICES ASSUME NEW x \in Ref, ref'[x].st = "IOWAIT", NEW c \in Waiters(x)'
                 PROVE  cl'[c].pc \in {"iow", "dupw"}
      OBVIOUS
    <3>1. ref[x].st = "IOWAIT" /\ c \in Waiters(x)
      BY <1>5
    <3>2. c \in Client /\ cl[c].pc \in {"iow", "dupw"} /\ cl'[c].pc \in IoPcs
      BY <3>1 DEF IInv, Stated, Waiters
    <3>3. QED BY <1>1, <3>2, FollowsIs
  <2>3. QED BY <2>1, <2>2 DEF IInv, Stated
<1>7. ASSUME NEW x \in Ref, ref[x].svwait.q # <<>>
      PROVE  ref'[x].st # "IOWAIT" /\ Loosed(x)'
  <2>1. ref[x].st # "IOWAIT" /\ Loosed(x)
    BY <1>7 DEF IInv, Replied, Loosed
  <2>2. ref'[x].st # "IOWAIT"
    BY <2>1
  <2>3. CASE x # r
    <3>1. ref'[x].iowait = ref[x].iowait
      BY <2>3
    <3>2. \A c \in Holders(x) : cl'[c].pc = cl[c].pc
      BY <1>1, <2>3 DEF Holders, Waiters
    <3>3. QED BY <1>5, <2>1, <2>2, <3>1, <3>2 DEF Loosed
  <2>4. CASE x = r /\ ref[r].iowait.cnt >= 0
    BY <1>1, <2>2, <2>4 DEF Loosed
  <2>5. CASE x = r /\ ref[r].iowait.cnt < 0
    <3>1. PICK h \in Holders(r) : cl[h].pc \in {"done", "dupd", "dw", "dd"}
      BY <1>1, <2>1, <2>5 DEF Loosed
    <3>2. h \in Client /\ h \in Holders(r)'
      BY <1>5, <3>1, SMTT(30) DEF Holders
    <3>3. cl'[h].pc = cl[h].pc \/ (cl[h].pc = "dw" /\ cl'[h].pc = "dd")
      BY <1>1, <3>1, <3>2, WokenTo DEF Follows, IoPcs
    <3>4. cl'[h].pc \in {"done", "dupd", "dw", "dd"}
      BY <3>1, <3>3
    <3>5. QED BY <2>2, <2>5, <3>2, <3>4 DEF Loosed
  <2>6. QED BY <1>1, <2>3, <2>4, <2>5
<1>8. QED BY <1>1, <1>2, <1>3, <1>6, <1>7

(* What the client is told changes nothing else of it. *)
LEMMA ToldIs ==
    ASSUME Types, NEW m \in Message, NEW what \in {"reply", "err"}
    PROVE  /\ Told(m, what) \in [Client -> ClientThread]
           /\ \A c \in Client :
                 /\ Told(m, what)[c].pc = cl[c].pc /\ Told(m, what)[c].r = cl[c].r
                 /\ Told(m, what)[c].n = cl[c].n /\ Told(m, what)[c].bit = cl[c].bit
                 /\ Told(m, what)[c].op = cl[c].op
<1>1. ASSUME NEW c \in Client
      PROVE  /\ Told(m, what)[c] \in ClientThread
             /\ Told(m, what)[c].pc = cl[c].pc /\ Told(m, what)[c].r = cl[c].r
             /\ Told(m, what)[c].n = cl[c].n /\ Told(m, what)[c].bit = cl[c].bit
             /\ Told(m, what)[c].op = cl[c].op
  <2>1. cl[c] \in ClientThread
    BY DEF Types
  <2>2. PICK x \in {"reply", "err", "stale"} :
            Told(m, what)[c] = cl[c] \/ Told(m, what)[c] = [cl[c] EXCEPT !.arg = x]
    BY DEF Told
  <2>3. QED BY <2>1, <2>2 DEF ClientThread
<1>2. Told(m, what) = [c \in Client |-> Told(m, what)[c]]
  BY DEF Told
<1>3. QED BY <1>1, <1>2

(* A portref in state st, with one more unit of p_iowait.                   *)
LEMMA GivenRef ==
    ASSUME Types, Waiting, NEW r \in Ref, NEW st \in RefState,
           ref' = [ref EXCEPT ![r].st = st, ![r].iowait = VSema(@)]
    PROVE  /\ ref' \in [Ref -> Portref]
           /\ ref'[r].iowait = VSema(ref[r].iowait) /\ ref'[r].st = st
           /\ \A x \in Ref \ {r} : ref'[x] = ref[x]
           /\ \A x \in Ref : /\ ref'[x].sema = ref[x].sema /\ ref'[x].fd = ref[x].fd
                             /\ ref'[x].msg = ref[x].msg
                             /\ ref'[x].svwait = ref[x].svwait
<1> DEFINE w == VSema(ref[r].iowait)
<1>1. w \in Sema(Client)
  <2>1. SleptOn(ref[r].iowait, Client, Waiters(r))
    BY DEF Waiting
  <2>2. SleptOn(w, Client, Waiters(r) \ VWakes(ref[r].iowait))
    BY <2>1, SleptGive
  <2>3. QED BY <2>2 DEF SleptOn, SemaType, Sema
<1>2. ref[r] \in Portref /\ ref = [x \in Ref |-> ref[x]]
  BY DEF Types
<1>3. ref' = [ref EXCEPT ![r] = [ref[r] EXCEPT !.st = st, !.iowait = w]]
  BY <1>2
<1> HIDE DEF w
<1>4. [ref[r] EXCEPT !.st = st, !.iowait = w] \in Portref
  BY <1>1, <1>2 DEF Portref
<1>5. ref' \in [Ref -> Portref]
  BY <1>3, <1>4 DEF Types
<1>6. ref'[r] = [ref[r] EXCEPT !.st = st, !.iowait = w]
  BY <1>2, <1>3
<1>7. \A x \in Ref \ {r} : ref'[x] = ref[x]
  BY <1>2, <1>3
<1>8. /\ ref'[r].iowait = w /\ ref'[r].st = st
      /\ ref'[r].sema = ref[r].sema /\ ref'[r].fd = ref[r].fd
      /\ ref'[r].msg = ref[r].msg /\ ref'[r].svwait = ref[r].svwait
  BY <1>2, <1>6 DEF Portref
<1>9. QED BY <1>5, <1>7, <1>8 DEF w

(* An answer that leaves p_svwait alone.                                    *)
LEMMA AnswerKeeps ==
    ASSUME IInv, NEW s \in Server, NEW r \in Ref, NEW g \in [Client -> ClientThread],
           \A c \in Client : /\ g[c].pc = cl[c].pc /\ g[c].r = cl[c].r
                             /\ g[c].n = cl[c].n /\ g[c].bit = cl[c].bit
                             /\ g[c].op = cl[c].op,
           cl' = Wake(g, ref[r].iowait),
           ref' \in [Ref -> Portref],
           ref'[r].iowait = VSema(ref[r].iowait),
           \A x \in Ref \ {r} : ref'[x].iowait = ref[x].iowait /\ ref'[x].st = ref[x].st,
           \A x \in Ref : /\ ref'[x].sema = ref[x].sema /\ ref'[x].fd = ref[x].fd
                          /\ ref'[x].msg = ref[x].msg
                          /\ ref'[x].svwait = ref[x].svwait,
           \/ ref'[r].st = ref[r].st
           \/ ref'[r].st \in {"IODONE", "ABDONE"} /\ ref[r].st # "FREE",
           \A t \in Server \ {s} : sv'[t] = sv[t],
           sv' = [t \in Server |-> sv'[t]], sv'[s] \in ServerThread, ServerShape(s)',
           \/ sv'[s].pc = sv[s].pc
           \/ /\ sv[s].pc \notin {"svw", "rwait", "got"} \cup PortAsks
              /\ sv'[s].pc \notin {"rwait", "got"} \cup PortAsks
              /\ sv'[s].pc \in PortHas <=> sv[s].pc \in PortHas
              /\ sv'[s].pc \in Closers => sv[s].pc \in Closers,
           port' \in Port, port'.st = port.st, port'.sema = port.sema,
           port'.wait = port.wait, port'.q = port.q,
           prefs' \subseteq Ref, todo' \subseteq Message
    PROVE  IInv'
<1>1. /\ sv' \in [Server -> ServerThread] /\ \A t \in Server : ServerShape(t)'
      /\ PortLocked' /\ Closing' /\ WaitCountsQueue'
  BY PortSideKept
<1>2. /\ cl' \in [Client -> ClientThread] /\ \A c \in Client : ClientShape(c)'
      /\ Locked' /\ Waiting' /\ Owned' /\ Stated'
      /\ \A x \in Ref : ref[x].svwait.q # <<>> => ref'[x].st # "IOWAIT" /\ Loosed(x)'
  BY AnswerKept
<1>3. \A t \in Server : sv[t].pc = "svw" => sv'[t].pc = "svw"
  OBVIOUS
<1>4. Replied'
  BY <1>2, <1>3, RepliedKept DEF IInv
<1>5. Types' /\ Shapes'
  BY <1>1, <1>2 DEF Types, Shapes
<1>6. QED BY <1>1, <1>2, <1>4, <1>5 DEF IInv

(* The clients as they are, to be woken. *)
LEMMA ClIs ==
    ASSUME IInv
    PROVE  cl \in [Client -> ClientThread] /\ Types /\ Waiting
BY DEF IInv, Types

(* An M_DISCONNECT is answered.                                             *)
LEMMA AckDisconnectKeeps ==
    ASSUME IInv, NEW s \in Server, AckDisconnect(s)
    PROVE  IInv'
<1> DEFINE r == sv[s].ms[1].r
           x == [sv[s] EXCEPT !.pc = "copy"]
<1>1. /\ sv[s].pc = "dack" /\ sv' = [sv EXCEPT ![s] = x] /\ cl' = Wake(cl, ref[r].iowait)
      /\ ref' = [ref EXCEPT ![r].iowait = VSema(ref[r].iowait)]
      /\ UNCHANGED <<port, prefs, todo>>
  BY DEF AckDisconnect, Sat
<1>2. sv[s].ms # <<>> /\ sv[s] \in ServerThread
  BY <1>1, SvIs DEF ServerShape, Carries
<1>3. r \in Ref
  BY <1>2, CarriedIs
<1>4. x \in ServerThread /\ x.pc = "copy" /\ x.ms = sv[s].ms
  BY <1>2 DEF ServerThread, PortHas
<1> HIDE DEF r, x
<1>5. ref' = [ref EXCEPT ![r].st = ref[r].st, ![r].iowait = VSema(@)] /\ ref[r].st \in RefState
  <2>1. ref[r] \in Portref
    BY <1>3 DEF IInv, Types
  <2>2. QED BY <1>1, <1>3, <2>1, ClIs DEF Portref
<1>6. /\ ref' \in [Ref -> Portref]
      /\ ref'[r].iowait = VSema(ref[r].iowait) /\ ref'[r].st = ref[r].st
      /\ \A y \in Ref \ {r} : ref'[y] = ref[y]
      /\ \A y \in Ref : /\ ref'[y].sema = ref[y].sema /\ ref'[y].fd = ref[y].fd
                        /\ ref'[y].msg = ref[y].msg
                        /\ ref'[y].svwait = ref[y].svwait
  BY <1>3, <1>5, ClIs, GivenRef
<1>7. /\ sv'[s] = x /\ (\A t \in Server \ {s} : sv'[t] = sv[t])
      /\ sv' = [t \in Server |-> sv'[t]]
  BY <1>1, SvIs
<1>8. ServerShape(s)'
  BY <1>2, <1>4, <1>7 DEF ServerShape, Carries
<1>9. sv[s].pc \notin {"svw", "rwait", "got"} \cup PortAsks
      /\ sv'[s].pc \notin {"rwait", "got"} \cup PortAsks \cup Closers
      /\ sv'[s].pc \in PortHas /\ sv[s].pc \in PortHas
  BY <1>1, <1>4, <1>7 DEF PortAsks, PortHas, Closers
<1>10. port' \in Port /\ prefs' \subseteq Ref /\ todo' \subseteq Message
  BY <1>1, SvIs
<1>11. QED BY <1>1, <1>3, <1>4, <1>6, <1>7, <1>8, <1>9, <1>10, ClIs, AnswerKeeps

(* The client that clones is let go.                                        *)
LEMMA DupWakeKeeps ==
    ASSUME IInv, NEW s \in Server, DupWake(s)
    PROVE  IInv'
<1> DEFINE r == sv[s].ms[1].r
           x == [sv[s] EXCEPT !.pc = "duph"]
<1>1. /\ sv[s].pc = "dupv" /\ sv' = [sv EXCEPT ![s] = x] /\ cl' = Wake(cl, ref[r].iowait)
      /\ ref' = [ref EXCEPT ![r].iowait = VSema(ref[r].iowait)]
      /\ UNCHANGED <<port, prefs, todo>>
  BY DEF DupWake, Sat
<1>2. sv[s].ms # <<>> /\ sv[s] \in ServerThread /\ sv[s].r \in Ref
  BY <1>1, SvIs DEF ServerShape, Carries
<1>3. r \in Ref
  BY <1>2, CarriedIs
<1>4. x \in ServerThread /\ x.pc = "duph" /\ x.ms = sv[s].ms /\ x.r = sv[s].r
  BY <1>2 DEF ServerThread, Carries
<1> HIDE DEF r, x
<1>5. ref' = [ref EXCEPT ![r].st = ref[r].st, ![r].iowait = VSema(@)] /\ ref[r].st \in RefState
  <2>1. ref[r] \in Portref
    BY <1>3 DEF IInv, Types
  <2>2. QED BY <1>1, <1>3, <2>1, ClIs DEF Portref
<1>6. /\ ref' \in [Ref -> Portref]
      /\ ref'[r].iowait = VSema(ref[r].iowait) /\ ref'[r].st = ref[r].st
      /\ \A y \in Ref \ {r} : ref'[y] = ref[y]
      /\ \A y \in Ref : /\ ref'[y].sema = ref[y].sema /\ ref'[y].fd = ref[y].fd
                        /\ ref'[y].msg = ref[y].msg
                        /\ ref'[y].svwait = ref[y].svwait
  BY <1>3, <1>5, ClIs, GivenRef
<1>7. /\ sv'[s] = x /\ (\A t \in Server \ {s} : sv'[t] = sv[t])
      /\ sv' = [t \in Server |-> sv'[t]]
  BY <1>1, SvIs
<1>8. ServerShape(s)'
  BY <1>2, <1>4, <1>7 DEF ServerShape, Carries
<1>9. sv[s].pc \notin {"svw", "rwait", "got"} \cup PortAsks \cup PortHas
      /\ sv'[s].pc \notin {"rwait", "got"} \cup PortAsks \cup Closers \cup PortHas
  BY <1>1, <1>4, <1>7 DEF PortAsks, PortHas, Closers
<1>10. port' \in Port /\ prefs' \subseteq Ref /\ todo' \subseteq Message
  BY <1>1, SvIs
<1>11. QED BY <1>1, <1>3, <1>4, <1>6, <1>7, <1>8, <1>9, <1>10, ClIs, AnswerKeeps

(* An answer that makes the thread wait for nobody. *)
LEMMA PlainAnswer ==
    ASSUME IInv, NEW s \in Server, NEW r \in Ref, NEW st \in {"IODONE", "ABDONE"},
           NEW g \in [Client -> ClientThread],
           \A c \in Client : /\ g[c].pc = cl[c].pc /\ g[c].r = cl[c].r
                             /\ g[c].n = cl[c].n /\ g[c].bit = cl[c].bit
                             /\ g[c].op = cl[c].op,
           cl' = Wake(g, ref[r].iowait), ref[r].st # "FREE", sv' = sv,
           ref' = [ref EXCEPT ![r].st = st, ![r].iowait = VSema(@)],
           port' \in Port, port'.st = port.st, port'.sema = port.sema,
           port'.wait = port.wait, port'.q = port.q,
           prefs' \subseteq Ref, todo' \subseteq Message
    PROVE  IInv'
<1>1. st \in RefState
  BY DEF RefState
<1>2. /\ ref' \in [Ref -> Portref]
      /\ ref'[r].iowait = VSema(ref[r].iowait) /\ ref'[r].st = st
      /\ \A x \in Ref \ {r} : ref'[x] = ref[x]
      /\ \A x \in Ref : /\ ref'[x].sema = ref[x].sema /\ ref'[x].fd = ref[x].fd
                        /\ ref'[x].msg = ref[x].msg
                        /\ ref'[x].svwait = ref[x].svwait
  BY <1>1, ClIs, GivenRef
<1>3. sv'[s] \in ServerThread /\ ServerShape(s)' /\ sv' = [t \in Server |-> sv'[t]]
  BY SvIs DEF ServerShape
<1>4. QED BY <1>2, <1>3, AnswerKeeps

(* An M_ABORT is confirmed.                                                 *)
LEMMA ReplyAbortKeeps ==
    ASSUME IInv, NEW s \in Server, NEW m \in Message, ReplyAbort(s, m)
    PROVE  IInv'
<1>1. /\ todo' = todo \ {m} /\ UNCHANGED <<prefs, port, sv>>
      /\ ref[m.r].st = "ABWAIT" /\ cl' = Wake(cl, ref[m.r].iowait)
      /\ ref' = [ref EXCEPT ![m.r].st = "ABDONE", ![m.r].iowait = VSema(@)]
  BY DEF ReplyAbort, Answers, Answers0
<1>2. m.r \in Ref
  BY DEF Message
<1>3. QED BY <1>1, <1>2, SvIs, ClIs, PlainAnswer

(* msg_accept().                                                            *)
LEMMA AcceptKeeps ==
    ASSUME IInv, NEW s \in Server, NEW m \in Message, Accept(s, m)
    PROVE  IInv'
<1>1. /\ todo' = todo \ {m} /\ UNCHANGED <<prefs, port, sv>>
      /\ ref[m.r].st = "OPENING" /\ cl' = Wake(cl, ref[m.r].iowait)
      /\ ref' = [ref EXCEPT ![m.r].st = "IODONE", ![m.r].iowait = VSema(@)]
  BY DEF Accept, Answers, Answers0
<1>2. m.r \in Ref
  BY DEF Message
<1>3. QED BY <1>1, <1>2, SvIs, ClIs, PlainAnswer

(* msg_err() to a request.                                                  *)
LEMMA ErrReplyKeeps ==
    ASSUME IInv, NEW s \in Server, NEW m \in Message, ErrReply(s, m)
    PROVE  IInv'
<1>1. /\ todo' = todo \ {m} /\ UNCHANGED <<prefs, port, sv>>
      /\ ref[m.r].st = "IOWAIT" /\ cl' = Wake(Told(m, "err"), ref[m.r].iowait)
      /\ ref' = [ref EXCEPT ![m.r].st = "IODONE", ![m.r].iowait = VSema(@)]
  BY DEF ErrReply, Answers, Answers0
<1>2. m.r \in Ref
  BY DEF Message
<1>3. /\ Told(m, "err") \in [Client -> ClientThread]
      /\ \A c \in Client :
            /\ Told(m, "err")[c].pc = cl[c].pc /\ Told(m, "err")[c].r = cl[c].r
            /\ Told(m, "err")[c].n = cl[c].n /\ Told(m, "err")[c].bit = cl[c].bit
            /\ Told(m, "err")[c].op = cl[c].op
  BY ToldIs, ClIs
<1>4. QED BY <1>1, <1>2, <1>3, SvIs, PlainAnswer

(* msg_err() to a connection.                                               *)
LEMMA RejectKeeps ==
    ASSUME IInv, NEW s \in Server, NEW m \in Message, Reject(s, m)
    PROVE  IInv'
<1>1. CASE DerefFails(port, m.r) # "none"
  BY <1>1, PanicKeeps DEF Reject
<1>2. CASE DerefFails(port, m.r) = "none"
  <2>1. /\ todo' = todo \ {m} /\ prefs' = prefs \ {m.r} /\ sv' = sv
        /\ port' = Unref(port, m.r)
        /\ ref[m.r].st = "OPENING" /\ cl' = Wake(cl, ref[m.r].iowait)
        /\ ref' = [ref EXCEPT ![m.r].st = "ABDONE", ![m.r].iowait = VSema(@)]
    BY <1>2 DEF Reject
  <2>2. m.r \in Ref
    BY DEF Message
  <2>3. /\ port' \in Port /\ port'.st = port.st /\ port'.sema = port.sema
        /\ port'.wait = port.wait /\ port'.q = port.q
    BY <1>2, <2>1, SvIs, UnrefIs
  <2>4. QED BY <2>1, <2>2, <2>3, SvIs, ClIs, PlainAnswer
<1>3. QED BY <1>1, <1>2

(* Replies that nobody waits for.                                           *)
LEMMA RefusedKeeps ==
    ASSUME IInv, NEW s \in Server, NEW m \in Message,
           ReplyRefused(s, m) \/ ErrRefused(s, m)
    PROVE  IInv'
<1>1. todo' \subseteq todo /\ prefs' \subseteq prefs /\ UNCHANGED <<ref, port, cl, sv>>
      /\ sv[s].pc = "idle"
  BY DEF ReplyRefused, ErrRefused, Answers, Answers0, Sat
<1>2. sv[s] \in ServerThread /\ sv[s].ms = <<>>
  BY <1>1, SvIs DEF ServerShape, Carries
<1>3. sv' = [sv EXCEPT ![s] = sv[s]]
  BY <1>1, SvIs
<1>4. prefs' \subseteq Ref /\ todo' \subseteq Message
  BY <1>1, SvIs
<1>5. QED BY <1>1, <1>2, <1>3, <1>4, PlaceKeeps DEF Carries, PortAsks, PortHas, Closers

(* The count of a semaphore where nobody sleeps is cleared, and then t      *)
(* sleeps.                                                                  *)
LEMMA FirstSleeper ==
    ASSUME NEW T, NEW w \in Sema(T), w.q = <<>>, NEW t \in T
    PROVE  LET v == PSema(SetSema(w, 0), t) IN
           /\ v \in Sema(T) /\ v.q = <<t>> /\ CountsSleepers(v)
           /\ Len(v.q) = 1 /\ DOMAIN v.q = {1} /\ v.q[1] = t
<1> DEFINE z == SetSema(w, 0)
           v == PSema(z, t)
<1>1. z.cnt = 0 /\ z.q = <<>>
  BY DEF SetSema, Sema
<1> HIDE DEF z
<1>2. v = [cnt |-> z.cnt - 1, q |-> Append(z.q, t)]
  BY <1>1 DEF PSema, PSleeps
<1>3. Append(z.q, t) = <<t>> /\ <<t>> \in Seq(T)
  BY <1>1
<1> HIDE DEF v
<1>4. v \in Sema(T) /\ v.cnt = 0 - 1 /\ v.q = <<t>>
  BY <1>1, <1>2, <1>3 DEF Sema
<1>5. Len(<<t>>) = 1 /\ DOMAIN <<t>> = {1} /\ <<t>>[1] = t
  OBVIOUS
<1>6. CountsSleepers(v)
  <2>1. SemaType(z, T) /\ CountsSleepers(z)
    BY <1>1 DEF SemaType, CountsSleepers, SetSema, Sema, z
  <2>2. QED BY <2>1, PSemaKeeps DEF v
<1>7. QED BY <1>4, <1>5, <1>6 DEF v, z

(* A reply to a request: the thread that replied sleeps on p_svwait, where  *)
(* nobody slept while the client waited.                                    *)
LEMMA ReplyDoneKeeps ==
    ASSUME IInv, NEW s \in Server, NEW m \in Message, ReplyDone(s, m)
    PROVE  IInv'
<1> DEFINE r == m.r
           x == [sv[s] EXCEPT !.pc = "svw"]
           v == PSema(SetSema(ref[r].svwait, 0), s)
           w == VSema(ref[r].iowait)
           e == [ref[r] EXCEPT !.st = "IODONE", !.svwait = v, !.iowait = w]
<1>1. /\ sv[s].pc = "idle" /\ todo' = todo \ {m} /\ UNCHANGED <<prefs, port>>
      /\ ref[r].st = "IOWAIT" /\ sv' = [sv EXCEPT ![s] = x]
      /\ ref' = [ref EXCEPT ![r].st = "IODONE",
                            ![r].svwait = PSema(SetSema(@, 0), s),
                            ![r].iowait = VSema(@)]
  BY DEF ReplyDone, Answers, Answers0, Sat
<1>2. PICK what \in {"reply", "err"} : cl' = Wake(Told(m, what), ref[r].iowait)
  BY DEF ReplyDone
<1>3. r \in Ref /\ ref[r] \in Portref /\ ref = [y \in Ref |-> ref[y]]
  BY DEF Message, IInv, Types
<1>4. ref[r].svwait \in Sema(Server) /\ ref[r].svwait.q = <<>>
  BY <1>1, <1>3 DEF IInv, Replied, Portref
<1>5. /\ v \in Sema(Server) /\ v.q = <<s>> /\ CountsSleepers(v)
      /\ Len(v.q) = 1 /\ DOMAIN v.q = {1} /\ v.q[1] = s
  BY <1>4, FirstSleeper
<1>6. w \in Sema(Client)
  <2>1. SleptOn(w, Client, Waiters(r) \ VWakes(ref[r].iowait))
    BY <1>3, SleptGive DEF IInv, Waiting
  <2>2. QED BY <2>1 DEF SleptOn, SemaType, Sema
<1>7. ref' = [ref EXCEPT ![r] = e]
  BY <1>1, <1>3
<1>8. x \in ServerThread /\ x.pc = "svw" /\ x.ms = <<>>
  BY <1>1, SvIs DEF ServerThread, ServerShape, Carries
<1> HIDE DEF r, x, v, w
<1>9. /\ e \in Portref /\ e.iowait = w /\ e.svwait = v /\ e.st = "IODONE"
      /\ e.sema = ref[r].sema /\ e.fd = ref[r].fd /\ e.msg = ref[r].msg
  BY <1>3, <1>5, <1>6 DEF Portref, RefState
<1> HIDE DEF e
<1>10. /\ ref'[r] = e /\ \A y \in Ref \ {r} : ref'[y] = ref[y]
       /\ ref' \in [Ref -> Portref]
  BY <1>3, <1>7, <1>9 DEF IInv, Types
<1>11. /\ sv'[s] = x /\ (\A t \in Server \ {s} : sv'[t] = sv[t])
       /\ sv' = [t \in Server |-> sv'[t]]
  BY <1>1, SvIs
<1>12. /\ sv' \in [Server -> ServerThread] /\ \A t \in Server : ServerShape(t)'
       /\ PortLocked' /\ Closing' /\ WaitCountsQueue'
  <2>1. ServerShape(s)'
    BY <1>8, <1>11 DEF ServerShape, Carries
  <2>2. /\ sv[s].pc \notin {"rwait", "got"} \cup PortAsks \cup PortHas
        /\ sv'[s].pc \notin {"rwait", "got"} \cup PortAsks \cup PortHas \cup Closers
    BY <1>1, <1>8, <1>11 DEF PortAsks, PortHas, Closers
  <2>3. QED BY <1>1, <1>8, <1>11, <2>1, <2>2, PortSideKept
<1>13. /\ Told(m, what) \in [Client -> ClientThread]
       /\ \A c \in Client :
             /\ Told(m, what)[c].pc = cl[c].pc /\ Told(m, what)[c].r = cl[c].r
             /\ Told(m, what)[c].n = cl[c].n /\ Told(m, what)[c].bit = cl[c].bit
             /\ Told(m, what)[c].op = cl[c].op
  BY ToldIs, ClIs
<1>14. /\ ref'[r].iowait = VSema(ref[r].iowait)
       /\ \A y \in Ref \ {r} : ref'[y].iowait = ref[y].iowait /\ ref'[y].st = ref[y].st
       /\ \A y \in Ref : /\ ref'[y].sema = ref[y].sema /\ ref'[y].fd = ref[y].fd
                         /\ ref'[y].msg = ref[y].msg
       /\ ref'[r].st = "IODONE" /\ ref[r].st # "FREE"
  BY <1>1, <1>9, <1>10 DEF w, r
<1>15. /\ cl' \in [Client -> ClientThread] /\ \A c \in Client : ClientShape(c)'
       /\ Locked' /\ Waiting' /\ Owned' /\ Stated'
       /\ \A y \in Ref : ref[y].svwait.q # <<>> => ref'[y].st # "IOWAIT" /\ Loosed(y)'
  BY <1>2, <1>3, <1>13, <1>14, AnswerKept
<1>16. Loosed(r)'
  <2>1. /\ ref[r].iowait.cnt \in Int /\ ref'[r].iowait.cnt = ref[r].iowait.cnt + 1
        /\ \A c \in Client : Follows(c)
        /\ \/ ref[r].iowait.cnt >= 0 /\ Waiters(r) = {}
           \/ \E c \in Waiters(r) : cl'[c].pc = WakeTo[cl[c].pc]
    BY <1>2, <1>3, <1>13, <1>14, ClIs, GiveIo
  <2>2. CASE ref[r].iowait.cnt >= 0
    BY <2>1, <2>2 DEF Loosed
  <2>3. CASE \E c \in Waiters(r) : cl'[c].pc = WakeTo[cl[c].pc]
    <3>1. PICK c \in Waiters(r) : cl'[c].pc = WakeTo[cl[c].pc]
      BY <2>3
    <3>2. c \in Client /\ cl[c].pc \in {"iow", "dupw"} /\ cl[c].r = r
      BY <1>1, <1>3, <3>1 DEF IInv, Stated, Waiters
    <3>3. cl'[c].pc \in {"done", "dupd"} /\ cl'[c].r = r
      BY <2>1, <3>1, <3>2, WokenTo DEF Follows
    <3>4. c \in Holders(r)'
      BY <3>2, <3>3 DEF Holders, Has
    <3>5. QED BY <3>3, <3>4 DEF Loosed
  <2>4. QED BY <2>1, <2>2, <2>3
<1>17. Replied'
  <2>1. \A y \in Ref \ {r} : ref'[y].svwait = ref[y].svwait
    BY <1>10
  <2>2. \A y \in Ref : \A i \in DOMAIN ref[y].svwait.q :
            /\ ref[y].svwait.q[i] \in Server \ {s}
            /\ sv[ref[y].svwait.q[i]].pc = "svw"
    <3>1. \A y \in Ref : \A i \in DOMAIN ref[y].svwait.q : ref[y].svwait.q[i] \in Server
      BY DEF IInv, Types, Portref, Sema
    <3>2. QED BY <1>1, <3>1 DEF IInv, Replied
  <2>3. /\ ref'[r].svwait.q = <<s>> /\ CountsSleepers(ref'[r].svwait)
        /\ Len(ref'[r].svwait.q) = 1 /\ DOMAIN ref'[r].svwait.q = {1}
        /\ ref'[r].svwait.q[1] = s
    BY <1>5, <1>9, <1>10
  <2>4. ASSUME NEW y \in Ref
        PROVE  LET q == ref'[y].svwait.q IN
               /\ CountsSleepers(ref'[y].svwait) /\ Len(q) <= 1
               /\ \A i \in DOMAIN q : sv'[q[i]].pc = "svw"
               /\ q # <<>> => ref'[y].st # "IOWAIT" /\ Loosed(y)'
    <3>1. CASE y = r
      <4>1. sv'[s].pc = "svw"
        BY <1>8, <1>11
      <4>2. \A i \in DOMAIN ref'[r].svwait.q : sv'[ref'[r].svwait.q[i]].pc = "svw"
        BY <2>3, <4>1
      <4>3. Loosed(y)'
        BY <1>16, <3>1 DEF Loosed, Holders
      <4>4. CountsSleepers(ref'[y].svwait) /\ Len(ref'[y].svwait.q) <= 1
        <5>1. CountsSleepers(ref'[r].svwait) /\ Len(ref'[r].svwait.q) = 1
          BY <2>3
        <5>2. Len(ref'[r].svwait.q) <= 1
          BY <5>1
        <5>3. QED BY <3>1, <5>1, <5>2
      <4>5. \A i \in DOMAIN ref'[y].svwait.q : sv'[ref'[y].svwait.q[i]].pc = "svw"
        BY <3>1, <4>2
      <4>6. ref'[y].st # "IOWAIT"
        BY <1>14, <3>1
      <4>7. QED BY <4>3, <4>4, <4>5, <4>6
    <3>2. CASE y # r
      <4>1. ref'[y].svwait = ref[y].svwait
        BY <2>1, <3>2
      <4>2. /\ CountsSleepers(ref[y].svwait) /\ Len(ref[y].svwait.q) <= 1
            /\ \A i \in DOMAIN ref[y].svwait.q : sv'[ref[y].svwait.q[i]].pc = "svw"
        BY <1>11, <2>2 DEF IInv, Replied
      <4>3. QED BY <1>15, <4>1, <4>2
    <3>3. QED BY <3>1, <3>2
  <2>5. \A y \in Ref : ref[y].svwait.q \in Seq(Server)
    BY DEF IInv, Types, Portref, Sema
  <2>6. ASSUME NEW y \in Ref, ref[y].svwait.q # <<>> PROVE ref[y].svwait.q[1] # s
    <3>1. 1 \in DOMAIN ref[y].svwait.q
      BY <2>5, <2>6
    <3>2. QED BY <2>2, <3>1
  <2>7. ASSUME NEW r1 \in Ref, NEW r2 \in Ref,
               ref'[r1].svwait.q # <<>>, ref'[r2].svwait.q # <<>>,
               ref'[r1].svwait.q[1] = ref'[r2].svwait.q[1]
        PROVE  r1 = r2
    <3>1. CASE r1 # r /\ r2 # r
      BY <2>1, <2>7, <3>1, ZenonT(60) DEF IInv, Replied
    <3>2. CASE r1 = r /\ r2 # r
      BY <2>1, <2>3, <2>6, <2>7, <3>2
    <3>3. CASE r1 # r /\ r2 = r
      BY <2>1, <2>3, <2>6, <2>7, <3>3
    <3>4. QED BY <3>1, <3>2, <3>3
  <2>8. QED BY <2>4, <2>7 DEF Replied, Loosed
<1>18. Types' /\ Shapes'
  <2>1. port' \in Port /\ prefs' \subseteq Ref /\ todo' \subseteq Message
    BY <1>1, SvIs
  <2>2. QED BY <1>10, <1>12, <1>15, <2>1 DEF Types, Shapes
<1>19. QED BY <1>12, <1>15, <1>17, <1>18 DEF IInv

-----------------------------------------------------------------------------
(* The port is closed                                                       *)

(* A portref cut off from the port, its semaphore p_iowait in state w.      *)
LEMMA CutRef ==
    ASSUME Types, NEW r \in Ref, NEW w \in Sema(Client),
           ref' = [ref EXCEPT ![r].port = FALSE, ![r].iowait = w]
    PROVE  /\ ref' \in [Ref -> Portref] /\ ref'[r].iowait = w
           /\ \A x \in Ref \ {r} : ref'[x] = ref[x]
           /\ \A x \in Ref : /\ ref'[x].sema = ref[x].sema /\ ref'[x].fd = ref[x].fd
                             /\ ref'[x].msg = ref[x].msg /\ ref'[x].st = ref[x].st
                             /\ ref'[x].svwait = ref[x].svwait
<1>1. ref[r] \in Portref /\ ref = [x \in Ref |-> ref[x]]
  BY DEF Types
<1>2. ref' = [ref EXCEPT ![r] = [ref[r] EXCEPT !.port = FALSE, !.iowait = w]]
  BY <1>1
<1>3. [ref[r] EXCEPT !.port = FALSE, !.iowait = w] \in Portref
  BY <1>1 DEF Portref
<1>4. ref' \in [Ref -> Portref]
  BY <1>2, <1>3 DEF Types
<1>5. ref'[r] = [ref[r] EXCEPT !.port = FALSE, !.iowait = w]
  BY <1>1, <1>2
<1>6. \A x \in Ref \ {r} : ref'[x] = ref[x]
  BY <1>1, <1>2
<1>7. /\ ref'[r].iowait = w /\ ref'[r].st = ref[r].st
      /\ ref'[r].sema = ref[r].sema /\ ref'[r].fd = ref[r].fd
      /\ ref'[r].msg = ref[r].msg /\ ref'[r].svwait = ref[r].svwait
  BY <1>1, <1>5 DEF Portref
<1>8. QED BY <1>4, <1>6, <1>7

(* The clients go on as they were. *)
LEMMA ClientsRest ==
    ASSUME IInv, cl' = cl, ref' \in [Ref -> Portref],
           \A x \in Ref : /\ ref'[x].sema = ref[x].sema /\ ref'[x].fd = ref[x].fd
                          /\ ref'[x].msg = ref[x].msg /\ ref'[x].st = ref[x].st
                          /\ ref'[x].svwait = ref[x].svwait
                          /\ ref'[x].iowait = ref[x].iowait
    PROVE  /\ Locked' /\ Owned' /\ Waiting' /\ Stated'
           /\ \A x \in Ref : ref[x].svwait.q # <<>> => ref'[x].st # "IOWAIT" /\ Loosed(x)'
<1>1. \A x : Holders(x)' = Holders(x) /\ Waiters(x)' = Waiters(x)
  BY DEF Holders, Waiters
<1>2. \A c \in Client : Follows(c)
  BY DEF Follows
<1>3. Locked' /\ Owned'
  BY <1>2, UsersKept DEF IInv
<1>4. Waiting'
  BY <1>1, WaitingKept DEF IInv
<1>5. Stated'
  <2>1. \A c \in Client : cl[c].pc \in Joins => cl[c].r \in Ref
    BY InCall DEF IInv
  <2>2. QED BY <1>1, <2>1 DEF IInv, Stated
<1>6. ASSUME NEW x \in Ref, ref[x].svwait.q # <<>>
      PROVE  ref'[x].st # "IOWAIT" /\ Loosed(x)'
  BY <1>1, <1>6 DEF IInv, Replied, Loosed
<1>7. QED BY <1>3, <1>4, <1>5, <1>6

(* close_client() wakes a client of the port that closes.                   *)
LEMMA CloseClientKeeps ==
    ASSUME IInv, NEW s \in Server, CloseClient(s)
    PROVE  IInv'
<1> DEFINE r == Head(port.refs)
           io == ref[r].iowait
           w == IF Blocked(io) THEN VSema(io) ELSE io
           x == [sv[s] EXCEPT !.pc = "xh", !.r = r]
<1>1. CASE DerefFails(port, r) # "none"
  BY <1>1, PanicKeeps DEF CloseClient
<1>2. CASE DerefFails(port, r) = "none"
  <2>1. /\ sv[s].pc = "xloop" /\ port.refs # <<>>
        /\ ref' = [ref EXCEPT ![r].port = FALSE, ![r].iowait = w]
        /\ cl' = IF Blocked(io) THEN Wake(cl, io) ELSE cl
        /\ port' = Unref(port, r) /\ UNCHANGED <<prefs, todo>>
        /\ sv' = [sv EXCEPT ![s] = x]
    BY <1>2 DEF CloseClient, Sat
  <2>2. r \in Ref /\ ref[r] \in Portref /\ sv[s] \in ServerThread /\ sv[s].ms = <<>>
    <3>1. r \in Ref
      BY <2>1, SvIs DEF Port
    <3>2. QED BY <2>1, <3>1, SvIs DEF IInv, Types, ServerShape, Carries
  <2>3. x \in ServerThread /\ x.pc = "xh" /\ x.ms = <<>>
    BY <2>2 DEF ServerThread, PortHas
  <2>4. /\ port' \in Port /\ port'.st = port.st /\ port'.sema = port.sema
        /\ port'.wait = port.wait /\ port'.q = port.q
    BY <1>2, <2>1, SvIs, UnrefIs
  <2>5. w \in Sema(Client)
    <3>1. SleptOn(VSema(io), Client, Waiters(r) \ VWakes(io))
      BY <2>2, SleptGive DEF IInv, Waiting
    <3>2. VSema(io) \in Sema(Client) /\ io \in Sema(Client)
      BY <2>2, <3>1 DEF SleptOn, SemaType, Sema, Portref
    <3>3. QED BY <3>2
  <2> HIDE DEF r, w, x
  <2>6. /\ ref' \in [Ref -> Portref] /\ ref'[r].iowait = w
        /\ \A y \in Ref \ {r} : ref'[y] = ref[y]
        /\ \A y \in Ref : /\ ref'[y].sema = ref[y].sema /\ ref'[y].fd = ref[y].fd
                          /\ ref'[y].msg = ref[y].msg /\ ref'[y].st = ref[y].st
                          /\ ref'[y].svwait = ref[y].svwait
    BY <2>1, <2>2, <2>5, ClIs, CutRef
  <2>7. /\ sv'[s] = x /\ (\A t \in Server \ {s} : sv'[t] = sv[t])
        /\ sv' = [t \in Server |-> sv'[t]]
    BY <2>1, SvIs
  <2>8. ServerShape(s)'
    BY <2>3, <2>7 DEF ServerShape, Carries
  <2>9. /\ sv[s].pc \notin {"svw", "rwait", "got"} \cup PortAsks
        /\ sv'[s].pc \notin {"rwait", "got"} \cup PortAsks
        /\ sv[s].pc \in PortHas \cap Closers /\ sv'[s].pc \in PortHas
    BY <2>1, <2>3, <2>7 DEF PortAsks, PortHas, Closers
  <2>10. prefs' \subseteq Ref /\ todo' \subseteq Message
    BY <2>1, SvIs
  <2>11. CASE Blocked(ref[r].iowait)
    <3>1. cl' = Wake(cl, ref[r].iowait) /\ ref'[r].iowait = VSema(ref[r].iowait)
      BY <2>1, <2>6, <2>11 DEF w
    <3>2. QED
      BY <2>2, <2>3, <2>4, <2>6, <2>7, <2>8, <2>9, <2>10, <3>1, ClIs, AnswerKeeps
  <2>12. CASE ~ Blocked(ref[r].iowait)
    <3>1. cl' = cl /\ ref'[r].iowait = ref[r].iowait
      BY <2>1, <2>6, <2>12 DEF w
    <3>2. /\ Locked' /\ Owned' /\ Waiting' /\ Stated'
          /\ \A y \in Ref : ref[y].svwait.q # <<>> => ref'[y].st # "IOWAIT" /\ Loosed(y)'
      BY <2>6, <3>1, ClientsRest
    <3>3. /\ sv' \in [Server -> ServerThread] /\ \A t \in Server : ServerShape(t)'
          /\ PortLocked' /\ Closing' /\ WaitCountsQueue'
      BY <2>3, <2>4, <2>7, <2>8, <2>9, PortSideKept
    <3>4. Replied'
      BY <2>6, <2>7, <2>9, <3>2, ClIs, RepliedKept DEF IInv
    <3>5. Types' /\ Shapes'
      BY <2>4, <2>6, <2>10, <3>1, <3>3 DEF IInv, Types, Shapes, ClientShape
    <3>6. QED BY <3>2, <3>3, <3>4, <3>5 DEF IInv
  <2>13. QED BY <2>11, <2>12
<1>3. QED BY <1>1, <1>2

(* bounce_msgs() answers a message.                                         *)
LEMMA BounceMsgKeeps ==
    ASSUME IInv, NEW s \in Server, BounceMsg(s)
    PROVE  IInv'
<1> DEFINE m == Head(sv[s].ms)
           r == m.r
           io == ref[r].iowait
           x == [sv[s] EXCEPT !.ms = Tail(@)]
           g == [cl EXCEPT ![m.by].arg = "err"]
           why == IF ~ ref[r].port THEN "bounce_msgs: msg in queue not for port"
                  ELSE IF ref[r].st = "ABWAIT" /\ m.op # "abort" THEN "none"
                  ELSE DerefFails(port, r)
<1>1. CASE why # "none"
  BY <1>1, PanicKeeps DEF BounceMsg
<1>2. CASE why = "none"
  <2>1. /\ sv[s].pc = "xb" /\ sv[s].ms # <<>> /\ sv' = [sv EXCEPT ![s] = x]
        /\ UNCHANGED <<prefs, todo>>
    BY <1>2 DEF BounceMsg, Sat
  <2>2. m = sv[s].ms[1] /\ m \in Message /\ r \in Ref /\ m.by \in Client
        /\ sv[s].ms \in Seq(Message) /\ sv[s] \in ServerThread
    BY <2>1, CarriedIs, SvIs
  <2>3. x \in ServerThread /\ x.pc = "xb"
    <3>1. Tail(sv[s].ms) \in Seq(Message)
      BY <2>1, <2>2
    <3>2. QED BY <2>1, <2>2, <3>1 DEF ServerThread
  <2>4. prefs' \subseteq Ref /\ todo' \subseteq Message
    BY <2>1, SvIs
  <2>5. CASE ref[r].st = "ABWAIT" /\ m.op # "abort"
    <3>1. UNCHANGED <<ref, port, cl>>
      BY <1>2, <2>5 DEF BounceMsg
    <3> HIDE DEF x
    <3>2. QED
      BY <2>1, <2>3, <2>4, <3>1, PlaceKeeps DEF Carries, PortAsks, PortHas, Closers
  <2>6. CASE ~ (ref[r].st = "ABWAIT" /\ m.op # "abort")
    <3>1. /\ ref' = [ref EXCEPT ![r].port = FALSE, ![r].iowait = VSema(io)]
          /\ port' = Unref(port, r) /\ cl' = Wake(g, io)
          /\ DerefFails(port, r) = "none"
      BY <1>2, <2>6 DEF BounceMsg
    <3>2. /\ port' \in Port /\ port'.st = port.st /\ port'.sema = port.sema
          /\ port'.wait = port.wait /\ port'.q = port.q
      BY <3>1, SvIs, UnrefIs
    <3>3. VSema(io) \in Sema(Client)
      <4>1. SleptOn(VSema(io), Client, Waiters(r) \ VWakes(io))
        BY <2>2, SleptGive DEF IInv, Waiting
      <4>2. QED BY <4>1 DEF SleptOn, SemaType, Sema
    <3>4. /\ g \in [Client -> ClientThread]
          /\ \A c \in Client : /\ g[c].pc = cl[c].pc /\ g[c].r = cl[c].r
                               /\ g[c].n = cl[c].n /\ g[c].bit = cl[c].bit
                               /\ g[c].op = cl[c].op
      <4> DEFINE b == m.by
      <4>1. cl[b] \in ClientThread /\ b \in Client
        BY <2>2, ClIs
      <4> HIDE DEF b
      <4>2. g = [cl EXCEPT ![b] = [cl[b] EXCEPT !.arg = "err"]]
        BY ClIs DEF b
      <4>3. [cl[b] EXCEPT !.arg = "err"] \in ClientThread
        BY <4>1 DEF ClientThread
      <4>4. g[b] = [cl[b] EXCEPT !.arg = "err"] /\ \A c \in Client \ {b} : g[c] = cl[c]
        BY <4>1, <4>2, ClIs
      <4>5. g \in [Client -> ClientThread]
        BY <4>2, <4>3, ClIs
      <4>6. QED BY <4>1, <4>4, <4>5 DEF ClientThread
    <3> HIDE DEF x, g, m, r
    <3>5. /\ ref' \in [Ref -> Portref] /\ ref'[r].iowait = VSema(ref[r].iowait)
          /\ \A y \in Ref \ {r} : ref'[y] = ref[y]
          /\ \A y \in Ref : /\ ref'[y].sema = ref[y].sema /\ ref'[y].fd = ref[y].fd
                            /\ ref'[y].msg = ref[y].msg /\ ref'[y].st = ref[y].st
                            /\ ref'[y].svwait = ref[y].svwait
      BY <2>2, <3>1, <3>3, ClIs, CutRef
    <3>6. /\ sv'[s] = x /\ (\A t \in Server \ {s} : sv'[t] = sv[t])
          /\ sv' = [t \in Server |-> sv'[t]]
      BY <2>1, SvIs
    <3>7. ServerShape(s)'
      BY <2>3, <3>6 DEF ServerShape, Carries
    <3>8. sv'[s] \in ServerThread /\ sv'[s].pc = sv[s].pc
      BY <2>1, <2>3, <3>6
    <3>9. r \in Ref /\ cl' = Wake(g, ref[r].iowait)
      BY <2>2, <3>1
    <3>10. \A y \in Ref \ {r} : ref'[y].iowait = ref[y].iowait /\ ref'[y].st = ref[y].st
      BY <3>5
    <3>11. ref'[r].st = ref[r].st
      BY <3>5, <3>9
    <3>12. QED
      BY <2>4, <3>2, <3>4, <3>5, <3>6, <3>7, <3>8, <3>9, <3>10, <3>11, AnswerKeeps
  <2>7. QED BY <2>5, <2>6
<1>3. QED BY <1>1, <1>2

-----------------------------------------------------------------------------
(* What the clients do                                                      *)

(* Who has a portref is its only user, but for those that ask for it.       *)
LEMMA OneUser ==
    ASSUME IInv, NEW c \in Client, cl[c].pc \in Has
    PROVE  LET r == cl[c].r IN
           /\ r \in Ref /\ ref[r].st # "FREE" /\ ref[r] \in Portref
           /\ Holders(r) = {c} /\ Waiters(r) \subseteq {c}
           /\ \A d \in Client \ {c} : cl[d].r = r => cl[d].pc \in Asks
           /\ \A d \in Client : cl[d].pc \in Clones => cl[d].n # r
<1> DEFINE r == cl[c].r
<1>1. r \in Ref /\ ref[r] \in Portref
  BY InCall DEF IInv, Types
<1>2. c \in Holders(r) /\ HeldBy(ref[r].sema, Client, Askers(r), Holders(r))
  BY <1>1 DEF IInv, Locked, Holders
<1>3. Holders(r) = {c}
  BY <1>2 DEF HeldBy
<1>4. \A d \in Client \ {c} : cl[d].pc \in Joins => cl[d].r # r
  BY DEF IInv, Owned, Stranger
<1>5. \A d \in Client \ {c} : cl[d].r = r => cl[d].pc \in Asks
  <2> SUFFICES ASSUME NEW d \in Client \ {c}, cl[d].r = r PROVE cl[d].pc \in Asks
    OBVIOUS
  <2>1. cl[d].pc \in {"idle"} \cup Asks \cup Has \cup Joins
    BY ClIs DEF ClientThread
  <2>2. cl[d].pc # "idle"
    BY <1>1, RefAssumption DEF IInv, Shapes, ClientShape
  <2>3. d \notin Holders(r)
    BY <1>3
  <2>4. QED BY <1>4, <2>1, <2>2, <2>3 DEF Holders
<1>6. Waiters(r) \subseteq {c}
  BY <1>5 DEF Waiters, Asks, IoPcs
<1>7. ref[r].st # "FREE"
  BY <1>1 DEF IInv, Owned, Stranger
<1>8. \A d \in Client : cl[d].pc \in Clones => cl[d].n # r
  BY DEF IInv, Owned, Stranger
<1>9. QED BY <1>1, <1>3, <1>5, <1>6, <1>7, <1>8

(* Who joins is the only user. *)
LEMMA OnlyUser ==
    ASSUME IInv, NEW c \in Client, cl[c].pc \in Joins
    PROVE  LET r == cl[c].r IN
           /\ r \in Ref /\ ref[r].st # "FREE" /\ ref[r] \in Portref /\ ~ ref[r].fd
           /\ Askers(r) = {} /\ Holders(r) = {} /\ Waiters(r) \subseteq {c}
           /\ \A d \in Client \ {c} : Stranger(d, r)
<1> DEFINE r == cl[c].r
<1>1. r \in Ref /\ ref[r] \in Portref
  BY InCall DEF IInv, Types
<1>2. ~ ref[r].fd /\ \A d \in Client \ {c} : cl[d].r # r /\ cl[d].n # r
  BY DEF IInv, Owned, Stranger
<1>3. Askers(r) = {} /\ Holders(r) = {} /\ Waiters(r) \subseteq {c}
  BY <1>2 DEF Askers, Holders, Waiters, Asks, Has, Joins
<1>4. ref[r].st # "FREE"
  BY <1>1 DEF IInv, Owned, Stranger
<1>5. QED BY <1>1, <1>2, <1>3, <1>4 DEF Stranger

(* A step of a client leaves the server's half in order. *)
ServerHalf ==
    /\ port' \in Port /\ sv' \in [Server -> ServerThread]
    /\ \A s \in Server : ServerShape(s)' /\ (sv[s].pc = "svw" => sv'[s].pc = "svw")
    /\ PortLocked' /\ Closing' /\ WaitCountsQueue'

(* The server's half where it does not move. *)
LEMMA ServerRests ==
    ASSUME IInv, UNCHANGED <<port, sv>>
    PROVE  ServerHalf
<1>1. \A s \in Server : ServerShape(s)'
  BY SvIs DEF ServerShape
<1>2. PortLocked' /\ WaitCountsQueue' /\ Closing'
  BY PortKept, CountKept DEF IInv, Closing
<1>3. QED BY <1>1, <1>2 DEF IInv, Types, ServerHalf

(* The server's half where a message is queued. *)
LEMMA ServerQueued ==
    ASSUME IInv, NEW m \in Message, port' = Queue(m), sv' = Wake(sv, port.wait)
    PROVE  ServerHalf
<1>1. /\ port' \in Port /\ sv' \in [Server -> ServerThread]
      /\ \A s \in Server :
            \/ sv'[s] = sv[s]
            \/ sv[s].pc = "rwait" /\ sv'[s] = [sv[s] EXCEPT !.pc = "got"]
      /\ PortLocked' /\ Closing' /\ WaitCountsQueue'
  BY QueueStep DEF IInv
<1>2. ASSUME NEW s \in Server
      PROVE  ServerShape(s)' /\ (sv[s].pc = "svw" => sv'[s].pc = "svw")
  <2>1. sv[s] \in ServerThread /\ ServerShape(s)
    BY SvIs
  <2>2. CASE sv'[s] = sv[s]
    BY <2>1, <2>2 DEF ServerShape
  <2>3. CASE sv[s].pc = "rwait" /\ sv'[s] = [sv[s] EXCEPT !.pc = "got"]
    <3>1. sv'[s].pc = "got" /\ sv'[s].ms = sv[s].ms /\ sv[s].pc = "rwait"
      BY <2>1, <2>3 DEF ServerThread
    <3>2. QED BY <2>1, <3>1 DEF ServerShape, Carries
  <2>4. QED BY <1>1, <2>2, <2>3
<1>3. QED BY <1>1, <1>2 DEF ServerHalf

(* Client c, who has portref r, goes on in its call with r changed.         *)
LEMMA HolderMoves ==
    ASSUME IInv, NEW c \in Client, cl[c].pc \in Has, NEW r, r = cl[c].r,
           NEW k \in ClientThread, NEW e \in Portref,
           cl' = [cl EXCEPT ![c] = k], ref' = [ref EXCEPT ![r] = e],
           StaysIn(c),
           e.sema = ref[r].sema, e.fd = ref[r].fd, e.st # "FREE",
           \A a, b \in e.msg : a = b,
           SleptOn(e.iowait, Client, IF k.pc \in IoPcs THEN {c} ELSE {}),
           e.st = "IOWAIT" /\ k.pc \in IoPcs => k.pc \in {"iow", "dupw"}
    PROVE  /\ cl' \in [Client -> ClientThread] /\ \A d \in Client : ClientShape(d)'
           /\ ref' \in [Ref -> Portref] /\ Locked' /\ Waiting' /\ Owned' /\ Stated'
           /\ cl'[c] = k /\ c \in Holders(r)' /\ Holders(r) = {c} /\ ref'[r] = e
           /\ r \in Ref /\ \A x \in Ref \ {r} : ref'[x] = ref[x]
           /\ \A x \in Ref \ {r} :
                 ref[x].svwait.q # <<>> => ref'[x].st # "IOWAIT" /\ Loosed(x)'
<1>1. /\ r \in Ref /\ ref[r].st # "FREE" /\ Holders(r) = {c} /\ Waiters(r) \subseteq {c}
      /\ \A d \in Client \ {c} : cl[d].r = r => cl[d].pc \in Asks
  BY OneUser
<1>2. /\ cl' \in [Client -> ClientThread] /\ cl'[c] = k
      /\ \A d \in Client \ {c} : cl'[d] = cl[d]
  BY ClIs
<1>3. /\ ref' \in [Ref -> Portref] /\ ref'[r] = e
      /\ \A x \in Ref \ {r} : ref'[x] = ref[x]
  BY <1>1 DEF IInv, Types
<1>4. \A d \in Client : StaysIn(d)
  BY <1>2 DEF StaysIn
<1>5. Locked' /\ Owned'
  BY <1>1, <1>3, <1>4, UsersStay DEF IInv
<1>6. \A d \in Client : ClientShape(d)'
  BY <1>4 DEF IInv, Shapes, ClientShape, StaysIn
<1>7. \A x : Holders(x)' = Holders(x)
  BY <1>4 DEF Holders, StaysIn
<1>8. \A x \in Ref \ {r} : Waiters(x)' = Waiters(x)
  BY <1>2, <1>4 DEF Waiters, StaysIn
<1>9. Waiters(r)' = IF k.pc \in IoPcs THEN {c} ELSE {}
  <2>1. \A d \in Client \ {c} : cl'[d].r = r => cl'[d].pc \notin IoPcs
    BY <1>1, <1>2 DEF Asks, IoPcs
  <2>2. cl'[c].pc = k.pc /\ cl'[c].r = r
    BY <1>2, <1>4 DEF StaysIn
  <2>3. QED BY <2>1, <2>2 DEF Waiters
<1>10. Waiting'
  BY <1>1, <1>3, <1>8, <1>9, WaitingStep DEF IInv
<1>11. Stated'
  <2>1. \A d \in Client : cl'[d].pc \in Joins =>
            ref'[cl'[d].r].st \in {"OPENING", "IODONE", "ABDONE"}
    <3> SUFFICES ASSUME NEW d \in Client, cl'[d].pc \in Joins
                 PROVE  ref'[cl'[d].r].st \in {"OPENING", "IODONE", "ABDONE"}
      OBVIOUS
    <3>1. cl[d].pc \in Joins /\ cl'[d].r = cl[d].r
      BY <1>4 DEF StaysIn
    <3>2. cl[d].r \in Ref /\ cl[d].r # r
      BY <1>1, <3>1, InCall DEF IInv, Joins, Asks, Has
    <3>3. QED BY <1>3, <3>1, <3>2 DEF IInv, Stated
  <2>2. ASSUME NEW x \in Ref, ref'[x].st = "IOWAIT", NEW d \in Waiters(x)'
        PROVE  cl'[d].pc \in {"iow", "dupw"}
    <3>1. CASE x = r
      <4>1. d \in Waiters(r)'
        BY <2>2, <3>1 DEF Waiters
      <4>2. QED BY <1>2, <1>3, <1>9, <2>2, <3>1, <4>1
    <3>2. CASE x # r
      <4>1. d \in Waiters(x) /\ ref[x].st = "IOWAIT" /\ d \in Client \ {c}
        BY <1>3, <1>4, <1>8, <2>2, <3>2 DEF Waiters, StaysIn
      <4>2. QED BY <1>2, <4>1 DEF IInv, Stated
    <3>3. QED BY <3>1, <3>2
  <2>3. \A x \in Ref : \A a, b \in ref'[x].msg : a = b
    BY <1>3 DEF IInv, Stated
  <2>4. QED BY <2>1, <2>2, <2>3 DEF Stated
<1>12. ASSUME NEW x \in Ref \ {r}, ref[x].svwait.q # <<>>
       PROVE  ref'[x].st # "IOWAIT" /\ Loosed(x)'
  <2>1. ref[x].st # "IOWAIT" /\ Loosed(x)
    BY <1>12 DEF IInv, Replied, Loosed
  <2>2. \A d \in Holders(x) : cl'[d].pc = cl[d].pc
    BY <1>2 DEF Holders
  <2>3. QED BY <1>3, <1>7, <2>1, <2>2 DEF Loosed
<1>13. QED BY <1>1, <1>2, <1>3, <1>5, <1>6, <1>7, <1>10, <1>11, <1>12

(* ... and, with a message to the server or without, keeps the invariant.   *)
LEMMA HolderKeeps ==
    ASSUME IInv, NEW c \in Client, cl[c].pc \in Has, NEW r, r = cl[c].r,
           NEW k \in ClientThread, NEW e \in Portref,
           cl' = [cl EXCEPT ![c] = k], ref' = [ref EXCEPT ![r] = e],
           StaysIn(c),
           e.sema = ref[r].sema, e.fd = ref[r].fd, e.st # "FREE",
           e.svwait = ref[r].svwait,
           \A a, b \in e.msg : a = b,
           SleptOn(e.iowait, Client, IF k.pc \in IoPcs THEN {c} ELSE {}),
           e.st = "IOWAIT" /\ k.pc \in IoPcs => k.pc \in {"iow", "dupw"},
           ref[r].svwait.q # <<>> =>
              e.st # "IOWAIT" /\ (e.iowait.cnt > 0 \/ k.pc \in {"done", "dupd", "dw", "dd"}),
           ServerHalf, UNCHANGED <<prefs, todo>>
    PROVE  IInv'
<1>1. /\ cl' \in [Client -> ClientThread] /\ \A d \in Client : ClientShape(d)'
      /\ ref' \in [Ref -> Portref] /\ Locked' /\ Waiting' /\ Owned' /\ Stated'
      /\ cl'[c] = k /\ c \in Holders(r)' /\ Holders(r) = {c} /\ ref'[r] = e
      /\ r \in Ref /\ \A x \in Ref \ {r} : ref'[x] = ref[x]
      /\ \A x \in Ref \ {r} :
            ref[x].svwait.q # <<>> => ref'[x].st # "IOWAIT" /\ Loosed(x)'
  BY HolderMoves
<1>2. /\ port' \in Port /\ sv' \in [Server -> ServerThread]
      /\ \A s \in Server : ServerShape(s)' /\ (sv[s].pc = "svw" => sv'[s].pc = "svw")
      /\ PortLocked' /\ Closing' /\ WaitCountsQueue'
  BY DEF ServerHalf
<1>3. \A x \in Ref : ref[x].svwait.q # <<>> => ref'[x].st # "IOWAIT" /\ Loosed(x)'
  <2> SUFFICES ASSUME NEW x \in Ref, ref[x].svwait.q # <<>>
               PROVE  ref'[x].st # "IOWAIT" /\ Loosed(x)'
    OBVIOUS
  <2>1. CASE x = r
    BY <1>1, <2>1 DEF Loosed, Holders
  <2>2. CASE x # r
    BY <1>1, <2>2
  <2>3. QED BY <2>1, <2>2
<1>4. \A x \in Ref : ref'[x].svwait = ref[x].svwait
  BY <1>1
<1>5. Replied'
  BY <1>2, <1>3, <1>4, ClIs, RepliedKept DEF IInv
<1>6. Types' /\ Shapes'
  BY <1>1, <1>2 DEF IInv, Types, Shapes
<1>7. QED BY <1>1, <1>2, <1>5, <1>6 DEF IInv

(* A client that changes its pc alone.                                      *)
LEMMA PcIs ==
    ASSUME IInv, NEW c \in Client, NEW k,
           k.pc \in {"idle"} \cup Asks \cup Has \cup Joins, k \in ClientThread,
           k.r = cl[c].r, k.n = cl[c].n, cl' = [cl EXCEPT ![c] = k],
           k.pc = "idle" <=> cl[c].pc = "idle",
           k.pc \in Asks <=> cl[c].pc \in Asks,
           k.pc \in Has <=> cl[c].pc \in Has,
           k.pc \in Joins <=> cl[c].pc \in Joins,
           k.pc \in Clones <=> cl[c].pc \in Clones,
           k.pc \in Quits <=> cl[c].pc \in Quits,
           k.pc = "dpsema" <=> cl[c].pc = "dpsema"
    PROVE  StaysIn(c)
<1>1. cl'[c] = k
  BY ClIs
<1>2. QED BY <1>1 DEF StaysIn

(* Nobody sleeps on p_svwait of the portref a client has in operation,      *)
(* unless a unit of p_iowait is there.                                      *)
LEMMA NobodyLeft ==
    ASSUME IInv, NEW c \in Client, cl[c].pc \in Has,
           cl[c].pc \notin {"done", "dupd", "dw", "dd"},
           ref[cl[c].r].svwait.q # <<>>
    PROVE  ref[cl[c].r].st # "IOWAIT" /\ ref[cl[c].r].iowait.cnt > 0
<1>1. cl[c].r \in Ref /\ Holders(cl[c].r) = {c}
  BY OneUser
<1>2. QED BY <1>1 DEF IInv, Replied

(* The holder's p_iowait, where it does not sleep.                          *)
LEMMA AwakeHolder ==
    ASSUME IInv, NEW c \in Client, cl[c].pc \in Has \ IoPcs
    PROVE  SleptOn(ref[cl[c].r].iowait, Client, {})
<1>1. cl[c].r \in Ref /\ Waiters(cl[c].r) \subseteq {c}
  BY OneUser
<1>2. Waiters(cl[c].r) = {}
  BY <1>1 DEF Waiters
<1>3. QED BY <1>1, <1>2 DEF IInv, Waiting

(* A semaphore nobody sleeps on, and its count cleared. *)
LEMMA NoSleeper ==
    ASSUME NEW T, NEW w, SleptOn(w, T, {})
    PROVE  /\ w.q = <<>> /\ w.cnt \in Nat
           /\ SleptOn(SetSema(w, 0), T, {}) /\ SetSema(w, 0).cnt = 0
<1>1. w.cnt \in Int /\ VWakes(w) = {} /\ w.cnt >= 0
  BY SleptGive
<1>2. w.q = <<>> /\ w \in [cnt : Int, q : Seq(T)]
  BY <1>1 DEF SleptOn, CountsSleepers, SemaType
<1> DEFINE z == SetSema(w, 0)
<1>3. z.cnt = 0 /\ z.q = <<>> /\ z \in [cnt : Int, q : Seq(T)]
  BY <1>2 DEF SetSema
<1> HIDE DEF z
<1>4. SleptOn(z, T, {})
  BY <1>3 DEF SleptOn, SemaType, CountsSleepers, Sleepers
<1>5. QED BY <1>1, <1>2, <1>3, <1>4 DEF z

(* The server went away while it slept on p_sema.                           *)
LEMMA LookupGoneKeeps ==
    ASSUME IInv, NEW c \in Client, LookupGone(c)
    PROVE  IInv'
<1> DEFINE r == cl[c].r
           k == [cl[c] EXCEPT !.pc = "rel", !.arg = "err"]
<1>1. /\ cl[c].pc = "have" /\ cl' = [cl EXCEPT ![c] = k]
      /\ UNCHANGED <<ref, port, prefs, sv, todo>>
  BY DEF LookupGone, At
<1>2. cl[c].pc \in Has \ IoPcs /\ cl[c] \in ClientThread
  BY <1>1, ClIs DEF Has, IoPcs
<1>3. k \in ClientThread /\ k.pc = "rel" /\ k.r = cl[c].r /\ k.n = cl[c].n
  BY <1>2 DEF ClientThread, Has
<1> HIDE DEF k, r
<1>4. r \in Ref /\ ref[r].st # "FREE" /\ ref[r] \in Portref
  BY <1>2, OneUser DEF r
<1>5. SleptOn(ref[r].iowait, Client, {})
  BY <1>2, AwakeHolder DEF r
<1>6. StaysIn(c)
  BY <1>1, <1>3, PcIs DEF Has, Asks, Joins, Clones, Quits
<1>7. ref' = [ref EXCEPT ![r] = ref[r]]
  BY <1>1, <1>4 DEF IInv, Types
<1>8. k.pc \notin IoPcs
  BY <1>3 DEF IoPcs
<1>9. ref[r].svwait.q # <<>> => ref[r].st # "IOWAIT" /\ ref[r].iowait.cnt > 0
  BY <1>1, <1>2, NobodyLeft DEF r
<1>10. \A a, b \in ref[r].msg : a = b
  BY <1>4 DEF IInv, Stated
<1>11. r = cl[c].r
  BY DEF r
<1>12. QED
  BY <1>1, <1>2, <1>3, <1>4, <1>5, <1>6, <1>7, <1>8, <1>9, <1>10, <1>11, HolderKeeps,
     ServerRests

(* An aborted call ends with the abort.                                     *)
LEMMA AbortedKeeps ==
    ASSUME IInv, NEW c \in Client, Aborted(c)
    PROVE  IInv'
<1> DEFINE r == cl[c].r
           k == [cl[c] EXCEPT !.pc = "done", !.arg = "err"]
<1>0. CASE ref[r].st # "ABDONE"
  BY <1>0, PanicKeeps DEF Aborted
<1>1. CASE ref[r].st = "ABDONE"
  <2>1. /\ cl[c].pc = "abdone" /\ cl' = [cl EXCEPT ![c] = k]
        /\ UNCHANGED <<ref, port, prefs, sv, todo>>
    BY <1>1 DEF Aborted, At
  <2>2. cl[c].pc \in Has \ IoPcs /\ cl[c] \in ClientThread
    BY <2>1, ClIs DEF Has, IoPcs
  <2>3. k \in ClientThread /\ k.pc = "done" /\ k.r = cl[c].r /\ k.n = cl[c].n
    BY <2>2 DEF ClientThread, Has
  <2> HIDE DEF k, r
  <2>4. r \in Ref /\ ref[r].st # "FREE" /\ ref[r] \in Portref
    BY <2>2, OneUser DEF r
  <2>5. SleptOn(ref[r].iowait, Client, {})
    BY <2>2, AwakeHolder DEF r
  <2>6. StaysIn(c)
    BY <2>1, <2>3, PcIs DEF Has, Asks, Joins, Clones, Quits
  <2>7. ref' = [ref EXCEPT ![r] = ref[r]]
    BY <2>1, <2>4 DEF IInv, Types
  <2>8. k.pc \notin IoPcs
    BY <2>3 DEF IoPcs
  <2>9. ref[r].st # "IOWAIT"
    BY <1>1
  <2>10. \A a, b \in ref[r].msg : a = b
    BY <2>4 DEF IInv, Stated
  <2>11. r = cl[c].r
    BY DEF r
  <2>12. QED
    BY <2>1, <2>2, <2>3, <2>4, <2>5, <2>6, <2>7, <2>8, <2>9, <2>10, <2>11, HolderKeeps,
       ServerRests
<1>2. QED BY <1>0, <1>1

(* A client that has a portref, not sleeping, or woken, acts on it: its own *)
(* place, and state, p_msg and p_iowait of the portref change.              *)
Acts(c, p, arg, st, w, msg) ==
    LET r == cl[c].r IN
    /\ cl[c].pc \in Has /\ p \in Has /\ arg \in {"own", "reply", "err", "stale"}
    /\ st \in RefState \ {"FREE"} /\ msg \in SUBSET Client
    /\ cl' = [cl EXCEPT ![c] = [cl[c] EXCEPT !.pc = p, !.arg = arg]]
    /\ ref' = [ref EXCEPT ![r].st = st, ![r].iowait = w, ![r].msg = msg]
    /\ p \in Clones <=> cl[c].pc \in Clones
    /\ p \in Quits <=> cl[c].pc \in Quits
    /\ \A a, b \in msg : a = b
    /\ SleptOn(w, Client, IF p \in IoPcs THEN {c} ELSE {})
    /\ st = "IOWAIT" /\ p \in IoPcs => p \in {"iow", "dupw"}
    /\ ref[r].svwait.q # <<>> =>
          st # "IOWAIT" /\ (w.cnt > 0 \/ p \in {"done", "dupd", "dw", "dd"})

(* A client that has p_sema does what Acts allows.                          *)
LEMMA HolderActs ==
    ASSUME IInv, NEW c \in Client, NEW p, NEW arg, NEW st, NEW w, NEW msg,
           Acts(c, p, arg, st, w, msg), ServerHalf, UNCHANGED <<prefs, todo>>
    PROVE  IInv'
<1> USE DEF Acts
<1> DEFINE r == cl[c].r
           k == [cl[c] EXCEPT !.pc = p, !.arg = arg]
           e == [ref[r] EXCEPT !.st = st, !.iowait = w, !.msg = msg]
<1>1. r \in Ref /\ ref[r].st # "FREE" /\ ref[r] \in Portref
  BY OneUser
<1>2. cl[c] \in ClientThread
  BY ClIs
<1>3. k \in ClientThread /\ k.pc = p /\ k.r = cl[c].r /\ k.n = cl[c].n
  BY <1>2 DEF ClientThread
<1>4. ref' = [ref EXCEPT ![r] = e]
  BY <1>1 DEF IInv, Types
<1>5. w \in Sema(Client)
  BY DEF SleptOn, SemaType, Sema
<1>6. /\ e \in Portref /\ e.sema = ref[r].sema /\ e.fd = ref[r].fd /\ e.st = st
      /\ e.svwait = ref[r].svwait /\ e.msg = msg /\ e.iowait = w
  BY <1>1, <1>5 DEF Portref
<1>7. cl' = [cl EXCEPT ![c] = k]
  OBVIOUS
<1> HIDE DEF k, e
<1>8. StaysIn(c)
  <2>1. /\ p # "idle" /\ p \notin Asks \cup Joins /\ p # "dpsema"
        /\ cl[c].pc # "idle" /\ cl[c].pc \notin Asks \cup Joins /\ cl[c].pc # "dpsema"
    BY DEF Has, Asks, Joins
  <2>2. QED BY <1>3, <1>7, <2>1, PcIs
<1>9. SleptOn(e.iowait, Client, IF k.pc \in IoPcs THEN {c} ELSE {})
  BY <1>3, <1>6
<1>10. e.st = "IOWAIT" /\ k.pc \in IoPcs => k.pc \in {"iow", "dupw"}
  BY <1>3, <1>6
<1>11. ref[r].svwait.q # <<>> =>
          e.st # "IOWAIT" /\ (e.iowait.cnt > 0 \/ k.pc \in {"done", "dupd", "dw", "dd"})
  BY <1>3, <1>6
<1>12. (\A a, b \in e.msg : a = b) /\ e.st # "FREE"
  BY <1>6
<1>13. /\ IInv /\ c \in Client /\ cl[c].pc \in Has /\ r = cl[c].r
       /\ ServerHalf /\ UNCHANGED <<prefs, todo>>
       /\ k \in ClientThread /\ e \in Portref
       /\ e.sema = ref[r].sema /\ e.fd = ref[r].fd /\ e.svwait = ref[r].svwait
  BY <1>3, <1>6
<1>14. QED
  BY ONLY <1>4, <1>7, <1>8, <1>9, <1>10, <1>11, <1>12, <1>13, HolderKeeps

(* A semaphore somebody sleeps on, as a value. *)
LEMMA IoIs ==
    ASSUME IInv, NEW c \in Client, cl[c].pc \in Has
    PROVE  LET r == cl[c].r IN
           /\ r \in Ref /\ ref = [x \in Ref |-> ref[x]] /\ ref[r] \in Portref
           /\ ref[r].st \in RefState \ {"FREE"}
           /\ ref[r].msg \in SUBSET Client /\ \A a, b \in ref[r].msg : a = b
           /\ cl[c] \in ClientThread /\ cl[c].arg \in {"own", "reply", "err", "stale"}
           /\ cl = [d \in Client |-> cl[d]]
<1> DEFINE r == cl[c].r
<1>1. r \in Ref /\ ref[r].st # "FREE" /\ ref[r] \in Portref
  BY OneUser
<1>2. ref[r].st \in RefState \ {"FREE"} /\ ref[r].msg \in SUBSET Client
  BY <1>1 DEF Portref
<1>3. \A a, b \in ref[r].msg : a = b
  BY <1>1 DEF IInv, Stated
<1>4. cl[c] \in ClientThread
  BY ClIs
<1>5. cl[c].arg \in {"own", "reply", "err", "stale"}
  BY <1>4 DEF ClientThread
<1>6. QED BY <1>1, <1>2, <1>3, <1>4, <1>5 DEF IInv, Types

(* An event while it sleeps on p_iowait.                                    *)
LEMMA SendIntrKeeps ==
    ASSUME IInv, NEW c \in Client, SendIntr(c)
    PROVE  IInv'
<1> DEFINE r == cl[c].r
           w == DqSema(ref[r].iowait, c)
<1>1. /\ cl[c].pc = "iow" /\ cl' = [cl EXCEPT ![c].pc = "intr"]
      /\ ref' = [ref EXCEPT ![r].iowait = w]
      /\ UNCHANGED <<port, prefs, sv, todo>>
  BY DEF SendIntr, At
<1>2. /\ cl[c].pc \in Has
      /\ cl[c].pc \notin Clones \cup Quits \cup {"done", "dupd", "dw", "dd"}
      /\ "intr" \in Has /\ "intr" \notin Clones \cup Quits \cup IoPcs
  BY <1>1 DEF Has, Clones, Quits, IoPcs
<1>3. /\ r \in Ref /\ ref = [x \in Ref |-> ref[x]] /\ ref[r] \in Portref
      /\ ref[r].st \in RefState \ {"FREE"}
      /\ ref[r].msg \in SUBSET Client /\ \A a, b \in ref[r].msg : a = b
      /\ cl[c] \in ClientThread /\ cl[c].arg \in {"own", "reply", "err", "stale"}
      /\ cl = [d \in Client |-> cl[d]]
  BY <1>2, IoIs
<1>4. Waiters(r) = {c}
  BY <1>1, <1>2, OneUser DEF Waiters, IoPcs
<1>5. SleptOn(w, Client, {}) /\ ref[r].iowait.cnt < 0 /\ ref[r].iowait.cnt \in Int
  <2>1. SleptOn(ref[r].iowait, Client, {c})
    BY <1>3, <1>4 DEF IInv, Waiting
  <2>2. QED BY <2>1, SleptLeave
<1>6. ref[r].svwait.q = <<>>
  BY <1>2, <1>5, NobodyLeft
<1> HIDE DEF r, w
<1>7. ref' = [ref EXCEPT ![r].st = ref[r].st, ![r].iowait = w, ![r].msg = ref[r].msg]
  BY <1>1, <1>3 DEF Portref
<1>8. cl' = [cl EXCEPT ![c] = [cl[c] EXCEPT !.pc = "intr", !.arg = cl[c].arg]]
  BY <1>1, <1>3 DEF ClientThread
<1>9. SleptOn(w, Client, IF "intr" \in IoPcs THEN {c} ELSE {})
  BY <1>2, <1>5
<1>10. Acts(c, "intr", cl[c].arg, ref[r].st, w, ref[r].msg)
  BY <1>2, <1>3, <1>6, <1>7, <1>8, <1>9 DEF Acts, r
<1>11. QED BY <1>1, <1>10, ServerRests, HolderActs

(* The answer came before the abort.                                        *)
LEMMA AbortLateKeeps ==
    ASSUME IInv, NEW c \in Client, AbortLate(c)
    PROVE  IInv'
<1> DEFINE r == cl[c].r
           w == SetSema(ref[r].iowait, 0)
<1>0. CASE ref[r].st # "IODONE"
  BY <1>0, PanicKeeps DEF AbortLate
<1>1. CASE ref[r].st = "IODONE"
  <2>1. /\ cl[c].pc = "intr" /\ cl' = [cl EXCEPT ![c].pc = "done", ![c].arg = "err"]
        /\ ref' = [ref EXCEPT ![r].iowait = w]
        /\ UNCHANGED <<port, prefs, sv, todo>>
    BY <1>1 DEF AbortLate, At
  <2>2. /\ cl[c].pc \in Has \ IoPcs /\ cl[c].pc \notin Clones \cup Quits
        /\ "done" \in Has /\ "done" \notin Clones \cup Quits \cup IoPcs
    BY <2>1 DEF Has, Clones, Quits, IoPcs
  <2>3. /\ r \in Ref /\ ref = [x \in Ref |-> ref[x]] /\ ref[r] \in Portref
        /\ ref[r].st \in RefState \ {"FREE"}
        /\ ref[r].msg \in SUBSET Client /\ \A a, b \in ref[r].msg : a = b
        /\ cl[c] \in ClientThread
        /\ cl = [d \in Client |-> cl[d]]
    BY <2>2, IoIs
  <2>4. SleptOn(w, Client, {})
    <3>1. SleptOn(ref[r].iowait, Client, {})
      BY <2>2, AwakeHolder
    <3>2. QED BY <3>1, NoSleeper
  <2> HIDE DEF r, w
  <2>5. ref' = [ref EXCEPT ![r].st = "IODONE", ![r].iowait = w, ![r].msg = ref[r].msg]
    BY <1>1, <2>1, <2>3 DEF Portref
  <2>6. cl' = [cl EXCEPT ![c] = [cl[c] EXCEPT !.pc = "done", !.arg = "err"]]
    BY <2>1, <2>3
  <2>7. "IODONE" \in RefState \ {"FREE"}
    BY DEF RefState
  <2>8. SleptOn(w, Client, IF "done" \in IoPcs THEN {c} ELSE {})
    BY <2>2, <2>4
  <2>9. Acts(c, "done", "err", "IODONE", w, ref[r].msg)
    BY <2>2, <2>3, <2>5, <2>6, <2>7, <2>8 DEF Acts, r
  <2>10. QED BY <2>1, <2>9, ServerRests, HolderActs
<1>2. QED BY <1>0, <1>1

(* What a client that has a portref sends is a message.                     *)
LEMMA MsgOfIs ==
    ASSUME IInv, NEW c \in Client, cl[c].pc \in Has, NEW op \in MsgOp
    PROVE  MsgOf(c, op) \in Message
<1>1. cl[c].r \in Ref /\ cl[c] \in ClientThread
  BY IoIs
<1>2. cl[c].bit \in Bit /\ cl[c].n \in Ref \cup {NoRef}
  BY <1>1 DEF ClientThread
<1>3. QED BY <1>1, <1>2 DEF MsgOf, Message

(* A message is queued and the client waits on p_iowait, if it must.        *)
Sends(c, op, p, st, msg) ==
    LET r == cl[c].r
        io == ref[r].iowait
    IN
    /\ cl[c].pc \in Has \ IoPcs /\ cl[c].pc \notin {"done", "dupd", "dw", "dd"}
    /\ op \in MsgOp /\ p \in Has /\ st \in RefState \ {"FREE"}
    /\ msg = {c} \/ msg = ref[r].msg
    /\ ref' = [ref EXCEPT ![r].st = st, ![r].iowait = PSema(io, c), ![r].msg = msg]
    /\ cl' = [cl EXCEPT ![c].pc = p]
    /\ port' = Queue(MsgOf(c, op)) /\ sv' = Wake(sv, port.wait)
    /\ p \in Clones <=> cl[c].pc \in Clones
    /\ p \in Quits <=> cl[c].pc \in Quits
    /\ p \in IoPcs <=> PSleeps(io)
    /\ st = "IOWAIT" /\ p \in IoPcs => p \in {"iow", "dupw"}
    /\ \/ ref[r].st = "IOWAIT" \/ io.cnt = 0
       \/ st # "IOWAIT" /\ p \in {"dw", "dd"}

(* A client that has p_sema queues a message and sleeps.                    *)
LEMMA SendsKeeps ==
    ASSUME IInv, NEW c \in Client, NEW op, NEW p, NEW st, NEW msg,
           Sends(c, op, p, st, msg), UNCHANGED <<prefs, todo>>
    PROVE  IInv'
<1> USE DEF Sends
<1> DEFINE w == PSema(ref[cl[c].r].iowait, c)
<1> DEFINE r == cl[c].r
<1>1. /\ r \in Ref /\ ref = [x \in Ref |-> ref[x]] /\ ref[r] \in Portref
      /\ ref[r].st \in RefState \ {"FREE"}
      /\ ref[r].msg \in SUBSET Client /\ \A a, b \in ref[r].msg : a = b
      /\ cl[c] \in ClientThread /\ cl[c].arg \in {"own", "reply", "err", "stale"}
      /\ cl = [d \in Client |-> cl[d]]
  BY IoIs
<1>2. SleptOn(ref[r].iowait, Client, {})
  BY AwakeHolder
<1>3. /\ PSleeps(ref[r].iowait) => SleptOn(w, Client, {c})
      /\ ~ PSleeps(ref[r].iowait) => SleptOn(w, Client, {})
  <2> DEFINE io == ref[r].iowait
             L == {}
  <2>1. SleptOn(io, Client, L) /\ c \notin L /\ L \cup {c} = {c}
    BY <1>2
  <2> HIDE DEF io, L
  <2>2. /\ PSleeps(io) => SleptOn(PSema(io, c), Client, L \cup {c})
        /\ ~ PSleeps(io) => SleptOn(PSema(io, c), Client, {})
    BY <2>1, SleptAsk
  <2>3. QED BY <2>1, <2>2 DEF io
<1>4. SleptOn(w, Client, IF p \in IoPcs THEN {c} ELSE {})
  BY <1>3
<1>5. ref[r].svwait.q # <<>> =>
         st # "IOWAIT" /\ (w.cnt > 0 \/ p \in {"done", "dupd", "dw", "dd"})
  BY NobodyLeft
<1>6. cl' = [cl EXCEPT ![c] = [cl[c] EXCEPT !.pc = p, !.arg = cl[c].arg]]
  BY <1>1 DEF ClientThread
<1>7. msg \in SUBSET Client /\ \A a, b \in msg : a = b
  BY <1>1
<1>8. Acts(c, p, cl[c].arg, st, w, msg)
  BY <1>1, <1>4, <1>5, <1>6, <1>7 DEF Acts
<1>9. ServerHalf
  BY MsgOfIs, ServerQueued
<1>10. QED BY <1>8, <1>9, HolderActs

(* An M_ABORT is sent.                                                      *)
LEMMA AbortKeeps ==
    ASSUME IInv, NEW c \in Client, Abort(c)
    PROVE  IInv'
<1> DEFINE r == cl[c].r
           w == PSema(ref[r].iowait, c)
           p == IF PSleeps(ref[r].iowait) THEN "abw" ELSE "abdone"
<1>1. CASE ~ ref[r].port
  BY <1>1, PanicKeeps DEF Abort
<1>2. CASE ref[r].port
  <2>1. /\ cl[c].pc = "intr" /\ ref[r].st = "IOWAIT"
        /\ ref' = [ref EXCEPT ![r].st = "ABWAIT", ![r].iowait = w]
        /\ port' = Queue(MsgOf(c, "abort")) /\ cl' = [cl EXCEPT ![c].pc = p]
        /\ sv' = Wake(sv, port.wait) /\ UNCHANGED <<prefs, todo>>
    BY <1>2 DEF Abort, At
  <2>2. /\ cl[c].pc \in Has \ IoPcs
        /\ cl[c].pc \notin {"done", "dupd", "dw", "dd"} \cup Clones \cup Quits
        /\ p \in Has /\ p \notin Clones \cup Quits
        /\ p \in IoPcs <=> PSleeps(ref[r].iowait)
        /\ "ABWAIT" \in RefState \ {"FREE"} /\ "abort" \in MsgOp
    BY <2>1 DEF Has, IoPcs, Clones, Quits, RefState, MsgOp
  <2>3. r \in Ref /\ ref = [x \in Ref |-> ref[x]] /\ ref[r] \in Portref
    BY <2>2, IoIs
  <2> HIDE DEF w, p
  <2>4. ref' = [ref EXCEPT ![r].st = "ABWAIT", ![r].iowait = w, ![r].msg = ref[r].msg]
    BY <2>1, <2>3 DEF Portref
  <2>5. Sends(c, "abort", p, "ABWAIT", ref[r].msg)
    BY <2>1, <2>2, <2>4 DEF Sends, w
  <2>6. QED BY <2>1, <2>5, SendsKeeps
<1>3. QED BY <1>1, <1>2

(* The state becomes PS_IOWAIT, a message is queued, its client sleeps.    *)
LEMMA PostKeeps ==
    ASSUME IInv, NEW c \in Client, NEW op \in MsgOp, NEW p, Post(c, op, p),
           \/ cl[c].pc = "have" /\ p = "iow"
           \/ cl[c].pc = "dup" /\ p = "dupw"
    PROVE  IInv'
<1> DEFINE r == cl[c].r
           w == PSema(ref[r].iowait, c)
<1>1. CASE ref[r].iowait.cnt # 0
  BY <1>1, PanicKeeps DEF Post
<1>2. CASE ref[r].iowait.cnt = 0
  <2>1. /\ ref' = [ref EXCEPT ![r].st = "IOWAIT", ![r].iowait = w, ![r].msg = {c}]
        /\ port' = Queue(MsgOf(c, op)) /\ cl' = [cl EXCEPT ![c].pc = p]
        /\ sv' = Wake(sv, port.wait) /\ UNCHANGED <<prefs, todo>>
    <3>1. /\ ref' = [ref EXCEPT ![r].st = "IOWAIT", ![r].msg = {c}, ![r].iowait = w]
          /\ port' = Queue(MsgOf(c, op)) /\ cl' = [cl EXCEPT ![c].pc = p]
          /\ sv' = Wake(sv, port.wait) /\ UNCHANGED <<prefs, todo>>
      BY <1>2 DEF Post
    <3>2. cl[c].pc \in Has
      BY DEF Has
    <3>3. r \in Ref /\ ref = [x \in Ref |-> ref[x]] /\ ref[r] \in Portref
      BY <3>2, IoIs
    <3> HIDE DEF w, r
    <3>4. ref' = [ref EXCEPT ![r].st = "IOWAIT", ![r].iowait = w, ![r].msg = {c}]
      BY <3>1, <3>3 DEF Portref
    <3>5. QED BY <3>1, <3>4
  <2>2. /\ cl[c].pc \in Has \ IoPcs
        /\ cl[c].pc \notin {"done", "dupd", "dw", "dd"} \cup Quits
        /\ p \in Has \cap IoPcs /\ p \notin Quits /\ p \in {"iow", "dupw"}
        /\ p \in Clones <=> cl[c].pc \in Clones
        /\ "IOWAIT" \in RefState \ {"FREE"}
    BY DEF Has, IoPcs, Clones, Quits, RefState
  <2>3. PSleeps(ref[r].iowait)
    BY <1>2 DEF PSleeps
  <2> HIDE DEF w
  <2>4. Sends(c, op, p, "IOWAIT", {c})
    BY <1>2, <2>1, <2>2, <2>3 DEF Sends, w
  <2>5. QED BY <2>1, <2>4, SendsKeeps
<1>3. QED BY <1>1, <1>2

(* A request is sent.                                                       *)
LEMMA SendKeeps ==
    ASSUME IInv, NEW c \in Client, Send(c)
    PROVE  IInv'
BY PostKeeps DEF Send, At, MsgOp

-----------------------------------------------------------------------------
(* Portrefs come and go                                                     *)

(* The threads asleep on a p_svwait, once some of these have been let go.   *)
LEMMA RepliedAfter ==
    ASSUME IInv,
           \A x \in Ref : \/ ref'[x].svwait = ref[x].svwait
                          \/ ref'[x].svwait.q = <<>> /\ CountsSleepers(ref'[x].svwait),
           \A x \in Ref : ref'[x].svwait.q # <<>> =>
               /\ ref'[x].st # "IOWAIT" /\ Loosed(x)'
               /\ sv'[ref'[x].svwait.q[1]].pc = "svw"
    PROVE  Replied'
<1>1. ASSUME NEW x \in Ref
      PROVE  LET q == ref'[x].svwait.q IN
             /\ CountsSleepers(ref'[x].svwait) /\ Len(q) <= 1
             /\ \A i \in DOMAIN q : sv'[q[i]].pc = "svw"
             /\ q # <<>> => ref'[x].st # "IOWAIT" /\ Loosed(x)'
  <2>1. CASE ref'[x].svwait.q = <<>> /\ CountsSleepers(ref'[x].svwait)
    BY <2>1
  <2>2. CASE ref'[x].svwait = ref[x].svwait
    <3> DEFINE q == ref[x].svwait.q
    <3>1. q \in Seq(Server) /\ Len(q) <= 1 /\ CountsSleepers(ref[x].svwait)
      BY DEF IInv, Types, Replied, Portref, Sema
    <3>2. \A i \in DOMAIN q : i = 1 /\ q # <<>>
      BY <3>1
    <3>3. QED BY <2>2, <3>1, <3>2
  <2>3. QED BY <2>1, <2>2
<1>2. ASSUME NEW r1 \in Ref, NEW r2 \in Ref,
             ref'[r1].svwait.q # <<>>, ref'[r2].svwait.q # <<>>,
             ref'[r1].svwait.q[1] = ref'[r2].svwait.q[1]
      PROVE  r1 = r2
  <2>1. ref'[r1].svwait = ref[r1].svwait /\ ref'[r2].svwait = ref[r2].svwait
    BY <1>2
  <2>2. QED BY <1>2, <2>1 DEF IInv, Replied
<1>3. QED BY <1>1, <1>2 DEF Replied, Loosed

(* Client c and portref r0, which nobody else uses, change.  The client has *)
(* another portref r in its call before and after, or none but r0.          *)
OwnStep(c, r0) ==
    /\ \A d \in Client \ {c} : cl'[d] = cl[d] /\ Stranger(d, r0)
    /\ cl'[c].pc \notin Asks \cup Quits
    /\ cl'[c].n \in {NoRef, r0}
    /\ \/ /\ cl'[c].r = cl[c].r /\ cl[c].r # r0
          /\ cl[c].pc \in Has \ (IoPcs \cup Quits) /\ cl'[c].pc \in Has \ IoPcs
       \/ /\ cl[c].r \in {r0, NoRef} /\ cl'[c].r \in {r0, NoRef}
          /\ cl'[c].pc \notin Has
    /\ \A x \in Ref \ {r0} :
          /\ ref'[x].sema = ref[x].sema /\ ref'[x].iowait = ref[x].iowait
          /\ ref'[x].st = ref[x].st /\ ref'[x].fd = ref[x].fd /\ ref'[x].msg = ref[x].msg
    /\ ref'[r0].st = "FREE" => ~ ref'[r0].fd /\ Stranger(c, r0)'
    /\ cl'[c].pc \in Joins =>
          /\ cl'[c].r = r0 /\ ~ ref'[r0].fd
          /\ ref'[r0].st \in {"OPENING", "IODONE", "ABDONE"}
    /\ cl'[c].pc \in Clones => cl'[c].n = r0 /\ ~ ref'[r0].fd /\ cl'[c].r # r0
    /\ HeldBy(ref'[r0].sema, Client, {}, {})
    /\ SleptOn(ref'[r0].iowait, Client, IF cl'[c].pc \in IoPcs THEN {c} ELSE {})
    /\ ref'[r0].st = "IOWAIT" => cl'[c].pc \notin IoPcs
    /\ \A a, b \in ref'[r0].msg : a = b

(* A client's step on a portref that it has for itself.                     *)
LEMMA OwnStepIs ==
    ASSUME IInv, NEW c \in Client, NEW r0 \in Ref, OwnStep(c, r0)
    PROVE  /\ Locked' /\ Waiting' /\ Owned' /\ Stated'
           /\ \A x \in Ref : x # r0 /\ x # cl[c].r /\ ref[x].svwait.q # <<>> =>
                 ref'[x].st # "IOWAIT" /\ Loosed(x)'
<1> USE DEF OwnStep
<1>1. \A d \in Client \ {c} : /\ cl'[d] = cl[d] /\ cl[d].r # r0 /\ cl[d].n # r0
                              /\ cl'[d].r = cl[d].r /\ cl'[d].n = cl[d].n
  BY DEF Stranger
<1>2. \A x \in Ref \ {r0} : /\ Askers(x)' = Askers(x) /\ Holders(x)' = Holders(x)
                            /\ Waiters(x)' = Waiters(x)
  <2> SUFFICES ASSUME NEW x \in Ref \ {r0}
               PROVE  /\ Askers(x)' = Askers(x) /\ Holders(x)' = Holders(x)
                      /\ Waiters(x)' = Waiters(x)
    OBVIOUS
  <2>1. x # NoRef
    BY RefAssumption
  <2>2. \A d \in Client \ {c} : cl'[d].r = cl[d].r /\ cl'[d].pc = cl[d].pc
    BY <1>1
  <2>3. CASE cl'[c].r = cl[c].r /\ cl[c].pc \in Has \ IoPcs /\ cl'[c].pc \in Has \ IoPcs
    BY <2>2, <2>3 DEF Askers, Holders, Waiters, Asks, Has
  <2>4. CASE cl[c].r \in {r0, NoRef} /\ cl'[c].r \in {r0, NoRef}
    BY <2>1, <2>2, <2>4 DEF Askers, Holders, Waiters
  <2>5. QED BY <2>3, <2>4
<1>3. Askers(r0)' = {} /\ Holders(r0)' = {}
      /\ Waiters(r0)' = IF cl'[c].pc \in IoPcs THEN {c} ELSE {}
  <2>1. cl'[c].pc \in Has => cl'[c].r # r0
    OBVIOUS
  <2>2. Askers(r0)' = {} /\ Holders(r0)' = {}
    BY <1>1, <2>1 DEF Askers, Holders
  <2>3. cl'[c].pc \in IoPcs => cl'[c].pc \in Joins
    BY DEF IoPcs, Has, Joins
  <2>4. QED BY <1>1, <2>2, <2>3 DEF Waiters
<1>4. Locked'
  <2> SUFFICES ASSUME NEW x \in Ref
               PROVE  HeldBy(ref'[x].sema, Client, Askers(x)', Holders(x)')
    BY DEF Locked
  <2>1. CASE x = r0
    <3>1. Askers(x)' = {} /\ Holders(x)' = {}
      BY <1>3, <2>1 DEF Askers, Holders
    <3>2. QED BY <2>1, <3>1
  <2>2. CASE x # r0
    BY <1>2, <2>2 DEF IInv, Locked
  <2>3. QED BY <2>1, <2>2
<1>5. Waiting'
  BY <1>2, <1>3, WaitingStep DEF IInv
<1>6. \A d \in Client : cl[d].pc \in Joins \cup Quits => cl[d].r \in Ref
  BY InCall DEF IInv, Joins, Quits, Asks, Has
<1>7. \A d \in Client : cl[d].pc \in Clones => cl[d].n \in Ref
  BY InCall DEF IInv
<1>8. cl'[c].r \in {cl[c].r, r0, NoRef} /\ NoRef \notin Ref
  BY RefAssumption
<1>9. Owned'
  <2>1. ASSUME NEW x \in Ref, ref'[x].st = "FREE"
        PROVE  ~ ref'[x].fd /\ \A d \in Client : cl'[d].r # x /\ cl'[d].n # x
    <3>1. CASE x = r0
      BY <1>1, <2>1, <3>1 DEF Stranger
    <3>2. CASE x # r0
      <4>1. ~ ref'[x].fd /\ \A d \in Client : cl[d].r # x /\ cl[d].n # x
        BY <2>1, <3>2 DEF IInv, Owned, Stranger
      <4>2. cl'[c].r # x /\ cl'[c].n # x
        BY <1>8, <3>2, <4>1
      <4>3. QED BY <1>1, <4>1, <4>2
    <3>3. QED BY <3>1, <3>2
  <2>2. ASSUME NEW d \in Client, cl'[d].pc \in Joins
        PROVE  /\ ~ ref'[cl'[d].r].fd
               /\ \A b \in Client \ {d} : cl'[b].r # cl'[d].r /\ cl'[b].n # cl'[d].r
    <3>1. CASE d = c
      BY <1>1, <2>2, <3>1
    <3>2. CASE d # c
      <4>1. /\ cl[d].pc \in Joins /\ cl[d].r \in Ref \ {r0} /\ ~ ref[cl[d].r].fd
            /\ \A b \in Client \ {d} : cl[b].r # cl[d].r /\ cl[b].n # cl[d].r
        BY <1>1, <1>6, <2>2, <3>2 DEF IInv, Owned, Stranger
      <4>2. cl'[c].r # cl[d].r /\ cl'[c].n # cl[d].r
        BY <1>8, <3>2, <4>1
      <4>3. QED BY <1>1, <3>2, <4>1, <4>2
    <3>3. QED BY <3>1, <3>2
  <2>3. ASSUME NEW d \in Client, cl'[d].pc \in Clones
        PROVE  /\ ~ ref'[cl'[d].n].fd /\ cl'[d].r # cl'[d].n
               /\ \A b \in Client \ {d} : cl'[b].r # cl'[d].n /\ cl'[b].n # cl'[d].n
    <3>1. CASE d = c
      BY <1>1, <2>3, <3>1
    <3>2. CASE d # c
      <4>1. /\ cl[d].pc \in Clones /\ cl[d].n \in Ref \ {r0} /\ ~ ref[cl[d].n].fd
            /\ cl[d].r # cl[d].n
            /\ \A b \in Client \ {d} : cl[b].r # cl[d].n /\ cl[b].n # cl[d].n
        BY <1>1, <1>7, <2>3, <3>2 DEF IInv, Owned, Stranger
      <4>2. cl'[c].r # cl[d].n /\ cl'[c].n # cl[d].n
        BY <1>8, <3>2, <4>1
      <4>3. QED BY <1>1, <3>2, <4>1, <4>2
    <3>3. QED BY <3>1, <3>2
  <2>4. \A d \in Client : cl'[d].pc \in Quits =>
           d # c /\ cl'[d] = cl[d] /\ cl[d].r \in Ref \ {r0}
    BY <1>1, <1>6
  <2>5. \A d \in Client : cl'[d].pc \in Quits => ~ ref'[cl'[d].r].fd
    BY <2>4 DEF IInv, Owned
  <2>6. \A d, b \in Client :
           cl'[d].pc \in Quits /\ cl'[b].pc \in Quits /\ cl'[d].r = cl'[b].r => d = b
    BY <2>4 DEF IInv, Owned
  <2>7. ASSUME NEW d \in Client, cl'[d].pc \in Quits \ {"dpsema"}
        PROVE  {b \in Client : cl'[b].r = cl'[d].r /\ cl'[b].pc \in Asks} = {}
    <3>1. cl[d].pc \in Quits \ {"dpsema"} /\ cl'[d].r = cl[d].r /\ cl[d].r \in Ref \ {r0}
      BY <2>4, <2>7
    <3>2. Askers(cl[d].r) = {}
      BY <3>1 DEF IInv, Owned
    <3>3. \A b \in Client \ {c} : ~ (cl[b].r = cl[d].r /\ cl[b].pc \in Asks)
      BY <3>2 DEF Askers
    <3>4. QED BY <1>1, <3>1, <3>3
  <2>8. \A d \in Client : cl'[d].pc = "dpsema" =>
           ref'[cl'[d].r].sema.q[Len(ref'[cl'[d].r].sema.q)] = d
    BY <2>4 DEF IInv, Owned, Quits
  <2>9. QED
    BY <2>1, <2>2, <2>3, <2>5, <2>6, <2>7, <2>8 DEF Owned, Stranger, Askers
<1>10. Stated'
  <2>1. \A d \in Client : cl'[d].pc \in Joins =>
            ref'[cl'[d].r].st \in {"OPENING", "IODONE", "ABDONE"}
    <3> SUFFICES ASSUME NEW d \in Client, cl'[d].pc \in Joins
                 PROVE  ref'[cl'[d].r].st \in {"OPENING", "IODONE", "ABDONE"}
      OBVIOUS
    <3>1. CASE d = c
      BY <3>1
    <3>2. CASE d # c
      <4>1. cl[d].pc \in Joins /\ cl'[d].r = cl[d].r /\ cl[d].r \in Ref \ {r0}
        BY <1>1, <1>6, <3>2
      <4>2. QED BY <4>1 DEF IInv, Stated
    <3>3. QED BY <3>1, <3>2
  <2>2. ASSUME NEW x \in Ref, ref'[x].st = "IOWAIT", NEW d \in Waiters(x)'
        PROVE  cl'[d].pc \in {"iow", "dupw"}
    <3>1. CASE x = r0
      <4>1. d \in Waiters(r0)'
        BY <2>2, <3>1 DEF Waiters
      <4>2. QED BY <1>3, <2>2, <3>1, <4>1
    <3>2. CASE x # r0
      <4>1. d \in Waiters(x) /\ ref[x].st = "IOWAIT" /\ d \in Client
        BY <1>2, <2>2, <3>2 DEF Waiters
      <4>2. d # c
        <5> SUFFICES ASSUME d = c PROVE FALSE
          OBVIOUS
        <5>1. x # NoRef /\ cl[c].r = x /\ cl[c].pc \in IoPcs
          BY <1>8, <4>1 DEF Waiters
        <5>2. QED BY <3>2, <5>1
      <4>3. QED BY <1>1, <4>1, <4>2 DEF IInv, Stated
    <3>3. QED BY <3>1, <3>2
  <2>3. \A x \in Ref : \A a, b \in ref'[x].msg : a = b
    BY DEF IInv, Stated
  <2>4. QED BY <2>1, <2>2, <2>3 DEF Stated
<1>11. ASSUME NEW x \in Ref, x # r0, x # cl[c].r, ref[x].svwait.q # <<>>
       PROVE  ref'[x].st # "IOWAIT" /\ Loosed(x)'
  <2>1. ref[x].st # "IOWAIT" /\ Loosed(x)
    BY <1>11 DEF IInv, Replied, Loosed
  <2>2. Holders(x)' = Holders(x) /\ \A d \in Holders(x) : d # c /\ cl'[d] = cl[d]
    BY <1>1, <1>2, <1>11 DEF Holders
  <2>3. ref'[x].iowait = ref[x].iowait /\ ref'[x].st = ref[x].st
    BY <1>11
  <2>4. QED BY <2>1, <2>2, <2>3 DEF Loosed
<1>12. QED BY <1>4, <1>5, <1>9, <1>10, <1>11

(* What else such a step leaves as it should be. *)
OwnRest(c, r0) ==
    /\ cl' \in [Client -> ClientThread] /\ ClientShape(c)'
    /\ \A d \in Client \ {c} : cl'[d] = cl[d]
    /\ ref' \in [Ref -> Portref] /\ UNCHANGED <<prefs, todo>>
    /\ port' \in Port /\ sv' \in [Server -> ServerThread]
    /\ \A s \in Server : ServerShape(s)'
    /\ PortLocked' /\ Closing' /\ WaitCountsQueue'
    /\ \A x \in Ref : \/ ref'[x].svwait = ref[x].svwait
                      \/ ref'[x].svwait.q = <<>> /\ CountsSleepers(ref'[x].svwait)
    /\ \A x \in Ref : ref'[x].svwait.q # <<>> => sv'[ref'[x].svwait.q[1]].pc = "svw"
    /\ ref'[r0].svwait.q # <<>> =>
          ref'[r0].st # "IOWAIT" /\ ref'[r0].iowait.cnt > 0
    /\ LET r == cl[c].r IN
       r \in Ref \ {r0} /\ ref'[r].svwait.q # <<>> =>
          ref[r].st # "IOWAIT" /\ ref[r].iowait.cnt > 0

(* ... and what such a step does to the port and to p_svwait.               *)
LEMMA OwnKeeps ==
    ASSUME IInv, NEW c \in Client, NEW r0 \in Ref, OwnStep(c, r0), OwnRest(c, r0)
    PROVE  IInv'
<1> USE DEF OwnRest
<1>1. /\ Locked' /\ Waiting' /\ Owned' /\ Stated'
      /\ \A x \in Ref : x # r0 /\ x # cl[c].r /\ ref[x].svwait.q # <<>> =>
            ref'[x].st # "IOWAIT" /\ Loosed(x)'
  BY OwnStepIs
<1>2. ASSUME NEW x \in Ref, ref'[x].svwait.q # <<>>
      PROVE  ref'[x].st # "IOWAIT" /\ Loosed(x)'
  <2>1. CASE x = r0
    BY <1>2, <2>1 DEF Loosed
  <2>2. CASE x # r0 /\ x = cl[c].r
    <3>1. ref'[x].st = ref[x].st /\ ref'[x].iowait = ref[x].iowait
      BY <2>2 DEF OwnStep
    <3>2. QED BY <1>2, <2>2, <3>1 DEF Loosed
  <2>3. CASE x # r0 /\ x # cl[c].r
    <3>1. ref'[x].svwait = ref[x].svwait
      BY <1>2
    <3>2. QED BY <1>1, <1>2, <2>3, <3>1
  <2>4. QED BY <2>1, <2>2, <2>3
<1>3. Replied'
  BY <1>2, RepliedAfter
<1>4. Types' /\ Shapes'
  BY DEF IInv, Types, Shapes, ClientShape
<1>5. QED BY <1>1, <1>3, <1>4 DEF IInv

(* Where the server's half only queued a message, or did not move, and every *)
(* p_svwait is as it was, or a new one.                                     *)
LEMMA OwnServer ==
    ASSUME IInv, ServerHalf, NEW x \in Ref, ref[x].svwait.q # <<>>
    PROVE  sv'[ref[x].svwait.q[1]].pc = "svw"
<1>1. ref[x].svwait.q \in Seq(Server)
  BY DEF IInv, Types, Portref, Sema
<1>2. 1 \in DOMAIN ref[x].svwait.q /\ ref[x].svwait.q[1] \in Server
  BY <1>1
<1>3. sv[ref[x].svwait.q[1]].pc = "svw"
  BY <1>2 DEF IInv, Replied
<1>4. QED BY <1>2, <1>3 DEF ServerHalf

(* A new portref. *)
LEMMA FreshIs ==
    /\ FreeRef \in Portref /\ FreeRef.st = "FREE" /\ ~ FreeRef.fd /\ FreeRef.msg = {}
    /\ NewRef \in Portref /\ NewRef.st = "OPENING" /\ ~ NewRef.fd /\ NewRef.msg = {}
    /\ NewRef.sema = FreeRef.sema /\ NewRef.iowait = FreeRef.iowait
    /\ NewRef.svwait = FreeRef.svwait
    /\ HeldBy(FreeRef.sema, Client, {}, {}) /\ SleptOn(FreeRef.iowait, Client, {})
    /\ FreeRef.svwait.q = <<>> /\ CountsSleepers(FreeRef.svwait)
<1>1. SleptOn(NewSema(1), Client, {}) /\ NewSema(1).cnt = 1
  BY NewSlept
<1>2. SleptOn(NewSema(0), Client, {}) /\ NewSema(0).cnt = 0
  BY NewSlept
<1>3. SleptOn(NewSema(0), Server, {})
  BY NewSlept
<1>4. HeldBy(NewSema(1), Client, {}, {})
  BY <1>1 DEF HeldBy
<1>5. /\ NewSema(1) \in Sema(Client) /\ NewSema(0) \in Sema(Client)
      /\ NewSema(0) \in Sema(Server)
  BY <1>1, <1>2, <1>3 DEF SleptOn, SemaType, Sema
<1>6. NewSema(0).q = <<>> /\ CountsSleepers(NewSema(0))
  BY <1>3 DEF NewSema, SleptOn
<1>7. QED BY <1>1, <1>2, <1>4, <1>5, <1>6 DEF FreeRef, NewRef, Portref, RefState

(* Such a step of client c, to k, with portref r0 set to e.                 *)
OwnTurn(c, r0, k, e) ==
    /\ k \in ClientThread /\ e \in Portref /\ r0 \in Ref
    /\ cl' = [cl EXCEPT ![c] = k] /\ ref' = [ref EXCEPT ![r0] = e]
    /\ ServerHalf /\ UNCHANGED <<prefs, todo>>
    /\ \A d \in Client \ {c} : Stranger(d, r0)
    /\ k.pc \notin Asks \cup Quits /\ k.n \in {NoRef, r0}
    /\ k.pc = "idle" <=> k.r = NoRef
    /\ k.pc \in Clones <=> k.n # NoRef
    /\ \/ /\ k.r = cl[c].r /\ cl[c].r # r0
          /\ cl[c].pc \in Has \ (IoPcs \cup Quits \cup {"done", "dupd", "dw", "dd"})
          /\ k.pc \in Has \ IoPcs
       \/ /\ cl[c].r \in {r0, NoRef} /\ k.r \in {r0, NoRef} /\ k.pc \notin Has
    /\ e.st = "FREE" => ~ e.fd /\ k.r # r0 /\ k.n # r0
    /\ k.pc \in Joins =>
          k.r = r0 /\ ~ e.fd /\ e.st \in {"OPENING", "IODONE", "ABDONE"}
    /\ k.pc \in Clones => ~ e.fd
    /\ HeldBy(e.sema, Client, {}, {})
    /\ SleptOn(e.iowait, Client, IF k.pc \in IoPcs THEN {c} ELSE {})
    /\ e.st # "IOWAIT"
    /\ \A a, b \in e.msg : a = b
    /\ \/ e.svwait.q = <<>> /\ CountsSleepers(e.svwait)
       \/ e.svwait = ref[r0].svwait /\ (e.svwait.q # <<>> => e.iowait.cnt > 0)

(* A step on one's own portref that leaves the port alone.                  *)
LEMMA OwnTurnKeeps ==
    ASSUME IInv, NEW c \in Client, NEW r0, NEW k, NEW e, OwnTurn(c, r0, k, e)
    PROVE  IInv'
<1> USE DEF OwnTurn
<1>1. /\ cl' \in [Client -> ClientThread] /\ cl'[c] = k
      /\ \A d \in Client \ {c} : cl'[d] = cl[d]
  BY ClIs
<1>2. /\ ref' \in [Ref -> Portref] /\ ref'[r0] = e /\ r0 # NoRef
      /\ \A x \in Ref \ {r0} : ref'[x] = ref[x]
  BY RefAssumption DEF IInv, Types
<1>3. OwnStep(c, r0)
  <2>1. \A d \in Client \ {c} : cl'[d] = cl[d] /\ Stranger(d, r0)
    BY <1>1
  <2>2. /\ cl'[c].pc \notin Asks \cup Quits /\ cl'[c].n \in {NoRef, r0}
        /\ \/ /\ cl'[c].r = cl[c].r /\ cl[c].r # r0
              /\ cl[c].pc \in Has \ (IoPcs \cup Quits) /\ cl'[c].pc \in Has \ IoPcs
           \/ /\ cl[c].r \in {r0, NoRef} /\ cl'[c].r \in {r0, NoRef}
              /\ cl'[c].pc \notin Has
    BY <1>1
  <2>3. \A x \in Ref \ {r0} :
          /\ ref'[x].sema = ref[x].sema /\ ref'[x].iowait = ref[x].iowait
          /\ ref'[x].st = ref[x].st /\ ref'[x].fd = ref[x].fd /\ ref'[x].msg = ref[x].msg
    BY <1>2
  <2>4. ref'[r0].st = "FREE" => ~ ref'[r0].fd /\ Stranger(c, r0)'
    BY <1>1, <1>2 DEF Stranger
  <2>5. /\ cl'[c].pc \in Joins =>
             /\ cl'[c].r = r0 /\ ~ ref'[r0].fd
             /\ ref'[r0].st \in {"OPENING", "IODONE", "ABDONE"}
        /\ cl'[c].pc \in Clones => cl'[c].n = r0 /\ ~ ref'[r0].fd
        /\ cl'[c].pc \in Clones => cl'[c].r # r0
    <3>1. k.pc \in Clones => k.n = r0 /\ ~ e.fd /\ k.r # r0
      BY DEF Clones, Has
    <3>2. QED BY <1>1, <1>2, <3>1
  <2>6. /\ HeldBy(ref'[r0].sema, Client, {}, {})
        /\ SleptOn(ref'[r0].iowait, Client, IF cl'[c].pc \in IoPcs THEN {c} ELSE {})
        /\ ref'[r0].st # "IOWAIT"
        /\ \A a, b \in ref'[r0].msg : a = b
    BY <1>1, <1>2
  <2>7. QED BY ONLY <2>1, <2>2, <2>3, <2>4, <2>5, <2>6 DEF OwnStep
<1>4. \A x \in Ref : \/ ref'[x].svwait = ref[x].svwait
                     \/ ref'[x].svwait.q = <<>> /\ CountsSleepers(ref'[x].svwait)
  BY <1>2
<1>5. \A x \in Ref : ref'[x].svwait.q # <<>> => sv'[ref'[x].svwait.q[1]].pc = "svw"
  <2> SUFFICES ASSUME NEW x \in Ref, ref'[x].svwait.q # <<>>
               PROVE  sv'[ref'[x].svwait.q[1]].pc = "svw"
    OBVIOUS
  <2>1. ref'[x].svwait = ref[x].svwait
    BY <1>4
  <2>2. ref[x].svwait.q # <<>>
    BY <2>1
  <2>3. sv'[ref[x].svwait.q[1]].pc = "svw"
    BY <2>2, OwnServer
  <2>4. QED BY <2>1, <2>3
<1>6. ref'[r0].svwait.q # <<>> =>
          ref'[r0].st # "IOWAIT" /\ ref'[r0].iowait.cnt > 0
  BY <1>2
<1>7. LET r == cl[c].r IN
      r \in Ref \ {r0} /\ ref'[r].svwait.q # <<>> =>
         ref[r].st # "IOWAIT" /\ ref[r].iowait.cnt > 0
  <2> SUFFICES ASSUME cl[c].r \in Ref \ {r0}, ref'[cl[c].r].svwait.q # <<>>
               PROVE  ref[cl[c].r].st # "IOWAIT" /\ ref[cl[c].r].iowait.cnt > 0
    OBVIOUS
  <2>1. ref[cl[c].r].svwait.q # <<>>
    BY <1>2
  <2>2. cl[c].pc \in Has /\ cl[c].pc \notin {"done", "dupd", "dw", "dd"}
    BY RefAssumption
  <2>3. QED BY <2>1, <2>2, NobodyLeft
<1>8. ClientShape(c)'
  BY <1>1 DEF ClientShape
<1>9. OwnRest(c, r0)
  <2>1. /\ port' \in Port /\ sv' \in [Server -> ServerThread]
        /\ \A s \in Server : ServerShape(s)'
        /\ PortLocked' /\ Closing' /\ WaitCountsQueue' /\ UNCHANGED <<prefs, todo>>
    BY DEF ServerHalf
  <2>2. QED BY ONLY <1>1, <1>2, <1>4, <1>5, <1>6, <1>7, <1>8, <2>1 DEF OwnRest
<1>10. QED BY <1>2, <1>3, <1>9, OwnKeeps

(* clone() takes a new portref.                                             *)
LEMMA CloneKeeps ==
    ASSUME IInv, NEW c \in Client, NEW n \in Ref, Clone(c, n)
    PROVE  IInv'
<1> DEFINE k == [cl[c] EXCEPT !.pc = "dup", !.n = n]
           e == [NewRef EXCEPT !.st = "IODONE", !.port = TRUE]
<1>1. /\ cl[c].pc = "have" /\ ref[n].st = "FREE"
      /\ ref' = [ref EXCEPT ![n] = e] /\ cl' = [cl EXCEPT ![c].pc = "dup", ![c].n = n]
      /\ UNCHANGED <<port, prefs, sv, todo>>
  BY DEF Clone, At
<1>2. /\ cl[c].pc \in Has \ (IoPcs \cup Quits \cup {"done", "dupd", "dw", "dd"})
      /\ "dup" \in Has \ IoPcs /\ "dup" \notin Asks \cup Quits \cup Joins
      /\ "dup" \in Clones
  BY <1>1 DEF Has, IoPcs, Quits, Asks, Joins, Clones
<1>3. cl[c].r \in Ref /\ cl[c] \in ClientThread /\ cl = [d \in Client |-> cl[d]]
  BY <1>2, IoIs
<1>4. cl' = [cl EXCEPT ![c] = k]
  BY <1>1, <1>3
<1>5. /\ k \in ClientThread /\ k.pc = "dup" /\ k.n = n /\ k.r = cl[c].r
  BY <1>2, <1>3 DEF ClientThread
<1>6. /\ e \in Portref /\ e.st = "IODONE" /\ ~ e.fd /\ e.sema = FreeRef.sema
      /\ e.iowait = FreeRef.iowait /\ e.svwait = FreeRef.svwait /\ e.msg = {}
  BY FreshIs DEF Portref, RefState
<1> HIDE DEF k, e
<1>7. (\A d \in Client : Stranger(d, n)) /\ cl[c].r # n
  BY <1>1 DEF IInv, Owned, Stranger
<1>8. cl[c].r # NoRef /\ n # NoRef
  BY <1>3, RefAssumption
<1>9. ServerHalf
  BY <1>1, ServerRests
<1>10. OwnTurn(c, n, k, e)
  BY <1>1, <1>2, <1>3, <1>4, <1>5, <1>6, <1>7, <1>8, <1>9, FreshIs DEF OwnTurn
<1>11. QED BY <1>10, OwnTurnKeeps

(* Who has a portref that nobody else can ask for is its only user.         *)
LEMMA LastUser ==
    ASSUME IInv, NEW c \in Client, cl[c].pc \in {"dhave", "dd"}
    PROVE  /\ cl[c].r \in Ref /\ \A d \in Client \ {c} : Stranger(d, cl[c].r)
           /\ cl[c].n = NoRef /\ cl[c] \in ClientThread
<1>1. cl[c].pc \in Has /\ cl[c].pc \in Quits \ {"dpsema"} /\ cl[c].pc \notin Clones
  BY DEF Has, Quits, Clones
<1>2. /\ cl[c].r \in Ref
      /\ \A d \in Client \ {c} : cl[d].r = cl[c].r => cl[d].pc \in Asks
      /\ \A d \in Client : cl[d].pc \in Clones => cl[d].n # cl[c].r
  BY <1>1, OneUser
<1>3. Askers(cl[c].r) = {}
  BY <1>1 DEF IInv, Owned
<1>4. \A d \in Client \ {c} : cl[d].r # cl[c].r
  BY <1>2, <1>3 DEF Askers
<1>5. \A d \in Client : cl[d].n = NoRef \/ cl[d].pc \in Clones
  BY DEF IInv, Shapes, ClientShape
<1>6. \A d \in Client : cl[d].n # cl[c].r
  BY <1>2, <1>5, RefAssumption
<1>7. QED BY <1>1, <1>2, <1>4, <1>5, <1>6, ClIs DEF Stranger

(* A client's call ends, and the portref it had for itself is freed.        *)
Frees(c) ==
    /\ cl[c].pc \in {"dhave", "dd", "cd"}
    /\ ref' = [ref EXCEPT ![cl[c].r] = FreeRef]
    /\ cl' = [cl EXCEPT ![c] = IdleCl(@.bit)]
    /\ UNCHANGED <<port, prefs, sv, todo>>

(* A client between two calls.                                              *)
LEMMA IdleIs ==
    ASSUME IInv, NEW c \in Client
    PROVE  /\ IdleCl(cl[c].bit) \in ClientThread
           /\ IdleCl(cl[c].bit).pc = "idle" /\ IdleCl(cl[c].bit).r = NoRef
           /\ IdleCl(cl[c].bit).n = NoRef
           /\ "idle" \notin Asks \cup Has \cup Joins \cup Clones \cup Quits \cup IoPcs
<1>1. cl[c].bit \in Bit
  BY ClIs DEF ClientThread
<1>2. QED
  BY <1>1 DEF IdleCl, ClientThread, Asks, Has, Joins, Clones, Quits, IoPcs

(* Its call ends and the portref is freed.                                  *)
LEMMA FreesKeeps ==
    ASSUME IInv, NEW c \in Client, Frees(c)
    PROVE  IInv'
<1> USE DEF Frees
<1> DEFINE k == IdleCl(cl[c].bit)
           e == FreeRef
           r == cl[c].r
<1>1. r \in Ref /\ \A d \in Client \ {c} : Stranger(d, r)
  BY LastUser, OnlyUser DEF Joins
<1>2. cl' = [cl EXCEPT ![c] = k] /\ ref' = [ref EXCEPT ![r] = e]
  BY ClIs
<1>3. /\ k \in ClientThread /\ k.pc = "idle" /\ k.r = NoRef /\ k.n = NoRef
      /\ k.pc \notin Asks \cup Has \cup Joins \cup Clones \cup Quits \cup IoPcs
  BY IdleIs
<1>4. /\ e \in Portref /\ e.st = "FREE" /\ ~ e.fd /\ e.msg = {}
      /\ HeldBy(e.sema, Client, {}, {}) /\ SleptOn(e.iowait, Client, {})
      /\ e.svwait.q = <<>> /\ CountsSleepers(e.svwait)
  BY FreshIs
<1>5. ServerHalf
  BY ServerRests
<1>6. r # NoRef
  BY <1>1, RefAssumption
<1> HIDE DEF k, e, r
<1>7. cl[c].r = r
  BY DEF r
<1>8. OwnTurn(c, r, k, e)
  BY <1>1, <1>2, <1>3, <1>4, <1>5, <1>6, <1>7 DEF OwnTurn
<1>9. QED BY <1>8, OwnTurnKeeps

(* shut_client() is over.                                                   *)
LEMMA DisconnectedKeeps ==
    ASSUME IInv, NEW c \in Client, Disconnected(c)
    PROVE  IInv'
BY FreesKeeps DEF Disconnected, At, Frees

(* An M_DISCONNECT is sent.                                                 *)
LEMMA ShutClientKeeps ==
    ASSUME IInv, NEW c \in Client, ShutClient(c)
    PROVE  IInv'
<1> DEFINE r == cl[c].r
           w == PSema(ref[r].iowait, c)
           p == IF PSleeps(ref[r].iowait) THEN "dw" ELSE "dd"
<1>1. CASE ~ ref[r].port
  BY <1>1, FreesKeeps DEF ShutClient, At, Frees
<1>2. CASE ref[r].port
  <2>1. /\ cl[c].pc = "dhave"
        /\ ref' = [ref EXCEPT ![r].st = "CLOSING", ![r].iowait = w]
        /\ port' = Queue(MsgOf(c, "disconnect")) /\ cl' = [cl EXCEPT ![c].pc = p]
        /\ sv' = Wake(sv, port.wait) /\ UNCHANGED <<prefs, todo>>
    BY <1>2 DEF ShutClient, At
  <2>2. /\ cl[c].pc \in Has \ IoPcs /\ cl[c].pc \in Quits
        /\ cl[c].pc \notin {"done", "dupd", "dw", "dd"} \cup Clones
        /\ p \in Has /\ p \notin Clones /\ p \in Quits
        /\ p \in IoPcs <=> PSleeps(ref[r].iowait)
        /\ p \in {"dw", "dd"}
        /\ "CLOSING" \in RefState \ {"FREE"} /\ "disconnect" \in MsgOp
    BY <2>1 DEF Has, IoPcs, Clones, Quits, RefState, MsgOp
  <2>3. r \in Ref /\ ref = [x \in Ref |-> ref[x]] /\ ref[r] \in Portref
    BY <2>2, IoIs
  <2> HIDE DEF w, p
  <2>4. ref' = [ref EXCEPT ![r].st = "CLOSING", ![r].iowait = w, ![r].msg = ref[r].msg]
    BY <2>1, <2>3 DEF Portref
  <2>5. Sends(c, "disconnect", p, "CLOSING", ref[r].msg)
    BY <2>1, <2>2, <2>4 DEF Sends, w
  <2>6. QED BY <2>1, <2>5, SendsKeeps
<1>3. QED BY <1>1, <1>2

(* msg_connect() comes back.                                                *)
LEMMA ConnectedKeeps ==
    ASSUME IInv, NEW c \in Client, Connected(c)
    PROVE  IInv'
<1> DEFINE r == cl[c].r
           ok == ref[r].port /\ ref[r].st = "IODONE"
           k == IdleCl(cl[c].bit)
           e == [ref[r] EXCEPT !.fd = TRUE]
<1>1. CASE ~ ok
  <2>1. r \in Ref /\ ref = [x \in Ref |-> ref[x]]
    BY OnlyUser DEF Connected, At, Joins, IInv, Types
  <2>2. QED BY <1>1, <2>1, FreesKeeps DEF Connected, At, Frees
<1>2. CASE ok
  <2>1. /\ cl[c].pc = "cd" /\ ref' = [ref EXCEPT ![r].fd = TRUE]
        /\ cl' = [cl EXCEPT ![c] = k] /\ UNCHANGED <<port, prefs, sv, todo>>
    <3>1. cl = [d \in Client |-> cl[d]] /\ ref = [x \in Ref |-> ref[x]] /\ r \in Ref
      BY OnlyUser DEF Connected, At, Joins, IInv, Types
    <3>2. QED BY <1>2, <3>1 DEF Connected, At
  <2>2. cl[c].pc \in Joins /\ cl[c].pc \notin IoPcs
    BY <2>1 DEF Joins, IoPcs
  <2>3. /\ r \in Ref /\ ref[r].st # "FREE" /\ ref[r] \in Portref /\ ~ ref[r].fd
        /\ Askers(r) = {} /\ Holders(r) = {} /\ Waiters(r) \subseteq {c}
        /\ \A d \in Client \ {c} : Stranger(d, r)
    BY <2>2, OnlyUser
  <2>4. Waiters(r) = {}
    BY <2>2, <2>3 DEF Waiters
  <2>5. /\ k \in ClientThread /\ k.pc = "idle" /\ k.r = NoRef /\ k.n = NoRef
        /\ k.pc \notin Asks \cup Has \cup Joins \cup Clones \cup Quits \cup IoPcs
    BY IdleIs
  <2>6. ref' = [ref EXCEPT ![r] = e]
    BY <2>1, <2>3 DEF IInv, Types
  <2>7. /\ e \in Portref /\ e.sema = ref[r].sema /\ e.iowait = ref[r].iowait
        /\ e.svwait = ref[r].svwait /\ e.msg = ref[r].msg /\ e.st = "IODONE"
    BY <1>2, <2>3 DEF Portref
  <2>8. HeldBy(ref[r].sema, Client, {}, {}) /\ SleptOn(ref[r].iowait, Client, {})
    BY <2>3, <2>4 DEF IInv, Locked, Waiting
  <2>9. ref[r].svwait.q # <<>> => ref[r].iowait.cnt > 0
    BY <2>3 DEF IInv, Replied
  <2>10. \A a, b \in ref[r].msg : a = b
    BY <2>3 DEF IInv, Stated
  <2>11. ServerHalf
    BY <2>1, ServerRests
  <2>12. r # NoRef
    BY <2>3, RefAssumption
  <2>13. e.svwait.q # <<>> => e.iowait.cnt > 0
    BY <2>7, <2>9
  <2> HIDE DEF k, e, r
  <2>14. cl[c].r = r
    BY DEF r
  <2>15. OwnTurn(c, r, k, e)
    BY <2>1, <2>3, <2>5, <2>6, <2>7, <2>8, <2>10, <2>11, <2>12, <2>13, <2>14 DEF OwnTurn
  <2>16. QED BY <2>15, OwnTurnKeeps
<1>3. QED BY <1>1, <1>2

(* An M_CONNECT is sent.                                                    *)
LEMMA ConnectKeeps ==
    ASSUME IInv, NEW c \in Client, NEW r \in Ref, Connect(c, r)
    PROVE  IInv'
<1> DEFINE w == PSema(NewSema(0), c)
           k == [cl[c] EXCEPT !.pc = "cw", !.op = "connect", !.r = r,
                              !.bit = 1 - cl[c].bit, !.arg = "own"]
           e == [NewRef EXCEPT !.port = TRUE, !.msg = {c}, !.iowait = w]
           m == [op |-> "connect", r |-> r, by |-> c, bit |-> 1 - cl[c].bit, n |-> NoRef]
<1>1. /\ cl[c].pc = "idle" /\ ref[r].st = "FREE"
      /\ ref' = [ref EXCEPT ![r] = e] /\ port' = Queue(m) /\ sv' = Wake(sv, port.wait)
      /\ cl' = [cl EXCEPT ![c].pc = "cw", ![c].op = "connect", ![c].r = r,
                          ![c].bit = 1 - cl[c].bit, ![c].arg = "own"]
      /\ UNCHANGED <<prefs, todo>>
  <2>1. cl[c] \in ClientThread /\ cl = [d \in Client |-> cl[d]]
    BY ClIs
  <2>2. QED BY <2>1 DEF Connect, At
<1>2. cl[c] \in ClientThread /\ cl = [d \in Client |-> cl[d]] /\ 1 - cl[c].bit \in Bit
  <2>1. cl[c] \in ClientThread /\ cl = [d \in Client |-> cl[d]]
    BY ClIs
  <2>2. QED BY <2>1 DEF ClientThread, Bit
<1>3. cl' = [cl EXCEPT ![c] = k]
  BY <1>1, <1>2
<1>4. cl[c].r = NoRef /\ cl[c].n = NoRef
  BY <1>1 DEF IInv, Shapes, ClientShape, Clones
<1>5. /\ "cw" \in Joins \cap IoPcs /\ "cw" \notin Asks \cup Has \cup Clones \cup Quits
      /\ "cw" # "idle"
  BY DEF Joins, IoPcs, Asks, Has, Clones, Quits
<1>6. k \in ClientThread /\ k.pc = "cw" /\ k.r = r /\ k.n = NoRef
  BY <1>2, <1>4, <1>5 DEF ClientThread
<1>7. SleptOn(w, Client, {c})
  <2> DEFINE L == {}
             z == NewSema(0)
  <2>1. SleptOn(z, Client, L) /\ c \notin L /\ L \cup {c} = {c} /\ z.cnt = 0
    BY NewSlept
  <2> HIDE DEF L, z
  <2>2. PSleeps(z)
    BY <2>1 DEF PSleeps
  <2>3. SleptOn(PSema(z, c), Client, L \cup {c})
    BY <2>1, <2>2, SleptAsk
  <2>4. QED BY <2>1, <2>3 DEF z
<1> HIDE DEF w
<1>8. w \in Sema(Client)
  BY <1>7 DEF SleptOn, SemaType, Sema
<1>9. /\ e \in Portref /\ e.st = "OPENING" /\ ~ e.fd /\ e.sema = FreeRef.sema
      /\ e.iowait = w /\ e.svwait = FreeRef.svwait /\ e.msg = {c}
  BY <1>8, FreshIs DEF Portref, RefState
<1>10. m \in Message
  BY <1>2 DEF Message, MsgOp
<1> HIDE DEF k, e, m
<1>11. \A d \in Client : Stranger(d, r)
  BY <1>1 DEF IInv, Owned, Stranger
<1>12. r # NoRef
  BY RefAssumption
<1>13. ServerHalf
  BY <1>1, <1>10, ServerQueued
<1>14. OwnTurn(c, r, k, e)
  BY <1>1, <1>3, <1>4, <1>5, <1>6, <1>7, <1>9, <1>11, <1>12, <1>13, FreshIs DEF OwnTurn
<1>15. QED BY <1>14, OwnTurnKeeps

(* The holder of a portref that clones has the new one for himself.         *)
LEMMA CloneUser ==
    ASSUME IInv, NEW c \in Client, cl[c].pc \in Clones
    PROVE  /\ cl[c].n \in Ref /\ cl[c].r \in Ref /\ cl[c].r # cl[c].n
           /\ ref[cl[c].n].st # "FREE" /\ ref[cl[c].n] \in Portref
           /\ \A d \in Client \ {c} : Stranger(d, cl[c].n)
           /\ HeldBy(ref[cl[c].n].sema, Client, {}, {})
           /\ SleptOn(ref[cl[c].n].iowait, Client, {})
           /\ ref[cl[c].n].svwait.q # <<>> =>
                 ref[cl[c].n].st # "IOWAIT" /\ ref[cl[c].n].iowait.cnt > 0
<1> DEFINE n == cl[c].n
<1>1. n \in Ref /\ cl[c].r \in Ref
  BY InCall DEF IInv, Clones, Asks, Has
<1>2. cl[c].r # n /\ \A d \in Client \ {c} : cl[d].r # n /\ cl[d].n # n
  BY DEF IInv, Owned, Stranger
<1>3. Askers(n) = {} /\ Holders(n) = {} /\ Waiters(n) = {}
  BY <1>2 DEF Askers, Holders, Waiters
<1>4. ref[n].st # "FREE" /\ ref[n] \in Portref
  BY <1>1 DEF IInv, Types, Owned, Stranger
<1>5. HeldBy(ref[n].sema, Client, {}, {}) /\ SleptOn(ref[n].iowait, Client, {})
  BY <1>1, <1>3 DEF IInv, Locked, Waiting
<1>6. ref[n].svwait.q # <<>> => ref[n].st # "IOWAIT" /\ ref[n].iowait.cnt > 0
  BY <1>1, <1>3 DEF IInv, Replied
<1>7. QED BY <1>1, <1>2, <1>4, <1>5, <1>6 DEF Stranger

(* An M_DUP is sent.                                                        *)
LEMMA CloneSendKeeps ==
    ASSUME IInv, NEW c \in Client, CloneSend(c)
    PROVE  IInv'
<1>1. CASE ref[cl[c].r].port
  BY <1>1, PostKeeps DEF CloneSend, At, MsgOp
<1>2. CASE ~ ref[cl[c].r].port
  <2> DEFINE k == [cl[c] EXCEPT !.pc = "rel", !.n = NoRef]
             e == FreeRef
             n == cl[c].n
  <2>1. /\ cl[c].pc = "dup" /\ ref' = [ref EXCEPT ![n] = e]
        /\ cl' = [cl EXCEPT ![c].pc = "rel", ![c].n = NoRef]
        /\ UNCHANGED <<port, prefs, sv, todo>>
    BY <1>2 DEF CloneSend, At
  <2>2. /\ cl[c].pc \in Has \ (IoPcs \cup Quits \cup {"done", "dupd", "dw", "dd"})
        /\ cl[c].pc \in Clones
        /\ "rel" \in Has \ IoPcs /\ "rel" \notin Asks \cup Quits \cup Joins \cup Clones
        /\ "rel" # "idle"
    BY <2>1 DEF Has, IoPcs, Quits, Asks, Joins, Clones
  <2>3. /\ n \in Ref /\ cl[c].r \in Ref /\ cl[c].r # n
        /\ \A d \in Client \ {c} : Stranger(d, n)
    BY <2>2, CloneUser
  <2>4. cl[c] \in ClientThread /\ cl = [d \in Client |-> cl[d]]
    BY ClIs
  <2>5. cl' = [cl EXCEPT ![c] = k]
    BY <2>1, <2>4
  <2>6. k \in ClientThread /\ k.pc = "rel" /\ k.n = NoRef /\ k.r = cl[c].r
    BY <2>2, <2>4 DEF ClientThread
  <2>7. cl[c].r # NoRef /\ n # NoRef
    BY <2>3, RefAssumption
  <2>8. ServerHalf
    BY <2>1, ServerRests
  <2> HIDE DEF k, e, n
  <2>9. e = FreeRef
    BY DEF e
  <2>10. OwnTurn(c, n, k, e)
    BY <2>1, <2>2, <2>3, <2>5, <2>6, <2>7, <2>8, <2>9, FreshIs DEF OwnTurn
  <2>11. QED BY <2>10, OwnTurnKeeps
<1>3. QED BY <1>1, <1>2

(* Whoever slept on p_svwait of portref r is let go, nobody else.           *)
LEMMA LetGo ==
    ASSUME IInv, NEW r \in Ref, UNCHANGED port, sv' = Wake(sv, ref[r].svwait)
    PROVE  /\ LET w == Let(ref[r].svwait) IN
              w \in Sema(Server) /\ w.q = <<>> /\ CountsSleepers(w)
           /\ port' \in Port /\ sv' \in [Server -> ServerThread]
           /\ \A s \in Server : ServerShape(s)'
           /\ PortLocked' /\ Closing' /\ WaitCountsQueue'
           /\ \A x \in Ref \ {r} : ref[x].svwait.q # <<>> =>
                 sv'[ref[x].svwait.q[1]].pc = "svw"
<1> DEFINE io == ref[r].svwait
<1>1. /\ io \in Sema(Server) /\ CountsSleepers(io) /\ Len(io.q) <= 1
      /\ \A i \in DOMAIN io.q : sv[io.q[i]].pc = "svw"
  BY DEF IInv, Types, Portref, Replied
<1>2. LET w == Let(io) IN w \in Sema(Server) /\ w.q = <<>> /\ CountsSleepers(w)
  <2>1. CASE io.cnt >= SvCap
    <3>1. io.cnt >= 0 /\ io.q = <<>>
      BY <1>1, <2>1, SvCapAssumption DEF CountsSleepers, Sema
    <3>2. QED BY <1>1, <2>1, <3>1 DEF Let
  <2>2. CASE ~ io.cnt >= SvCap
    <3>1. SemaType(io, Server)
      BY <1>1 DEF SemaType, Sema
    <3>2. /\ SemaType(VSema(io), Server) /\ CountsSleepers(VSema(io))
          /\ io.q # <<>> => VSema(io).q = Tail(io.q)
          /\ io.q = <<>> => VSema(io).q = <<>>
      BY <1>1, <3>1, VSemaKeeps
    <3>3. io.q # <<>> => Tail(io.q) = <<>>
      <4>1. io.q \in Seq(Server)
        BY <1>1 DEF Sema
      <4>2. QED BY <1>1, <4>1
    <3>4. QED BY <2>2, <3>2, <3>3 DEF Let, SemaType, Sema
  <2>3. QED BY <2>1, <2>2
<1>3. VWakes(io) = IF io.q = <<>> THEN {} ELSE {io.q[1]}
  <2>1. io.q \in Seq(Server)
    BY <1>1 DEF Sema
  <2>2. QED BY <2>1 DEF VWakes
<1>4. \A s \in VWakes(io) : s \in Server /\ sv[s].pc = "svw"
  <2>1. io.q \in Seq(Server)
    BY <1>1 DEF Sema
  <2>2. io.q # <<>> => 1 \in DOMAIN io.q /\ io.q[1] \in Server
    BY <2>1
  <2>3. QED BY <1>1, <1>3, <2>2
<1>5. ASSUME NEW s \in Server
      PROVE  /\ sv'[s] \in ServerThread
             /\ s \notin VWakes(io) => sv'[s] = sv[s]
             /\ s \in VWakes(io) => /\ sv[s].pc = "svw" /\ sv'[s].pc = "idle"
                                    /\ sv'[s].ms = sv[s].ms
  <2>1. sv[s] \in ServerThread /\ sv = [t \in Server |-> sv[t]]
    BY SvIs
  <2>2. sv'[s] = IF s \in VWakes(io) THEN [sv[s] EXCEPT !.pc = WakeTo[@]] ELSE sv[s]
    BY <2>1 DEF Wake
  <2>3. CASE s \in VWakes(io)
    <3>1. sv[s].pc = "svw" /\ WakeTo["svw"] = "idle"
      BY <1>4, <2>3, WokenTo
    <3>2. sv'[s] = [sv[s] EXCEPT !.pc = "idle"]
      BY <2>2, <2>3, <3>1
    <3>3. QED BY <2>1, <2>3, <3>1, <3>2 DEF ServerThread
  <2>4. QED BY <2>1, <2>2, <2>3
<1>6. sv' \in [Server -> ServerThread]
  <2>1. sv' = [t \in Server |-> sv'[t]]
    <3>1. DOMAIN sv = Server
      BY DEF IInv, Types
    <3> HIDE DEF io
    <3>2. sv' = Wake(sv, io)
      BY DEF io
    <3>3. QED BY <3>1, <3>2 DEF Wake
  <2>2. QED BY <1>5, <2>1
<1>7. \A s \in Server : ServerShape(s)'
  <2> SUFFICES ASSUME NEW s \in Server PROVE ServerShape(s)'
    OBVIOUS
  <2>1. ServerShape(s)
    BY SvIs
  <2>2. CASE s \notin VWakes(io)
    BY <1>5, <2>1, <2>2 DEF ServerShape
  <2>3. CASE s \in VWakes(io)
    BY <1>5, <2>1, <2>3 DEF ServerShape, Carries
  <2>4. QED BY <2>2, <2>3
<1>8. \A s \in Server : /\ sv'[s].pc \in PortAsks <=> sv[s].pc \in PortAsks
                        /\ sv'[s].pc \in PortHas <=> sv[s].pc \in PortHas
                        /\ sv'[s].pc = "rwait" <=> sv[s].pc = "rwait"
                        /\ sv'[s].pc = "got" <=> sv[s].pc = "got"
                        /\ sv'[s].pc \in Closers <=> sv[s].pc \in Closers
  BY <1>5 DEF PortAsks, PortHas, Closers
<1>9. PortLocked' /\ WaitCountsQueue'
  BY <1>8, PortKept, CountKept DEF IInv
<1>10. Closing'
  BY <1>8 DEF IInv, Closing
<1>11. ASSUME NEW x \in Ref \ {r}, ref[x].svwait.q # <<>>
       PROVE  sv'[ref[x].svwait.q[1]].pc = "svw"
  <2>1. ref[x].svwait.q \in Seq(Server)
    BY DEF IInv, Types, Portref, Sema
  <2>2. 1 \in DOMAIN ref[x].svwait.q /\ ref[x].svwait.q[1] \in Server
    BY <1>11, <2>1
  <2>3. sv[ref[x].svwait.q[1]].pc = "svw"
    BY <2>2 DEF IInv, Replied
  <2>4. ref[x].svwait.q[1] \notin VWakes(io)
    BY <1>3, <1>11 DEF IInv, Replied
  <2>5. QED BY <1>5, <2>2, <2>3, <2>4
<1>12. port' \in Port
  BY DEF IInv, Types
<1>13. QED BY <1>2, <1>6, <1>7, <1>9, <1>10, <1>11, <1>12

(* A call is answered: p_svwait is released.                                *)
LEMMA DoneKeeps ==
    ASSUME IInv, NEW c \in Client, Done(c)
    PROVE  IInv'
<1> DEFINE r == cl[c].r
           w == Let(ref[r].svwait)
           k == [cl[c] EXCEPT !.pc = "rel"]
           e == [ref[r] EXCEPT !.svwait = w]
<1>1. /\ cl[c].pc = "done" /\ ref' = [ref EXCEPT ![r].svwait = w]
      /\ sv' = Wake(sv, ref[r].svwait) /\ cl' = [cl EXCEPT ![c].pc = "rel"]
      /\ UNCHANGED <<port, prefs, todo>>
  BY DEF Done, At
<1>2. /\ cl[c].pc \in Has \ IoPcs /\ cl[c].pc \notin Clones \cup Quits
      /\ "rel" \in Has \ IoPcs /\ "rel" \notin Clones \cup Quits
  BY <1>1 DEF Has, IoPcs, Clones, Quits
<1>3. /\ r \in Ref /\ ref = [x \in Ref |-> ref[x]] /\ ref[r] \in Portref
      /\ ref[r].st \in RefState \ {"FREE"}
      /\ \A a, b \in ref[r].msg : a = b
      /\ cl[c] \in ClientThread /\ cl = [d \in Client |-> cl[d]]
  BY <1>2, IoIs
<1>4. /\ w \in Sema(Server) /\ w.q = <<>> /\ CountsSleepers(w)
      /\ port' \in Port /\ sv' \in [Server -> ServerThread]
      /\ \A s \in Server : ServerShape(s)'
      /\ PortLocked' /\ Closing' /\ WaitCountsQueue'
      /\ \A x \in Ref \ {r} : ref[x].svwait.q # <<>> =>
            sv'[ref[x].svwait.q[1]].pc = "svw"
  BY <1>1, <1>3, LetGo
<1> HIDE DEF w
<1>5. k \in ClientThread /\ k.pc = "rel" /\ k.r = cl[c].r /\ k.n = cl[c].n
  BY <1>2, <1>3 DEF ClientThread
<1>6. /\ e \in Portref /\ e.sema = ref[r].sema /\ e.fd = ref[r].fd /\ e.st = ref[r].st
      /\ e.msg = ref[r].msg /\ e.iowait = ref[r].iowait /\ e.svwait = w
  BY <1>3, <1>4 DEF Portref
<1>7. cl' = [cl EXCEPT ![c] = k] /\ ref' = [ref EXCEPT ![r] = e]
  BY <1>1, <1>3
<1> HIDE DEF k, e
<1>8. StaysIn(c)
  BY <1>1, <1>5, <1>7, PcIs DEF Has, Asks, Joins, Clones, Quits
<1>9. SleptOn(ref[r].iowait, Client, {})
  BY <1>2, AwakeHolder
<1>10. /\ SleptOn(e.iowait, Client, IF k.pc \in IoPcs THEN {c} ELSE {})
       /\ ~ (e.st = "IOWAIT" /\ k.pc \in IoPcs)
       /\ e.st # "FREE" /\ \A a, b \in e.msg : a = b
  BY <1>2, <1>3, <1>5, <1>6, <1>9
<1>11. /\ cl' \in [Client -> ClientThread] /\ \A d \in Client : ClientShape(d)'
       /\ ref' \in [Ref -> Portref] /\ Locked' /\ Waiting' /\ Owned' /\ Stated'
       /\ ref'[r] = e /\ \A x \in Ref \ {r} : ref'[x] = ref[x]
       /\ \A x \in Ref \ {r} :
             ref[x].svwait.q # <<>> => ref'[x].st # "IOWAIT" /\ Loosed(x)'
  BY <1>2, <1>5, <1>6, <1>7, <1>8, <1>10, HolderMoves
<1>12. \A x \in Ref : \/ ref'[x].svwait = ref[x].svwait
                      \/ ref'[x].svwait.q = <<>> /\ CountsSleepers(ref'[x].svwait)
  BY <1>4, <1>6, <1>11
<1>13. \A x \in Ref : ref'[x].svwait.q # <<>> =>
           /\ ref'[x].st # "IOWAIT" /\ Loosed(x)'
           /\ sv'[ref'[x].svwait.q[1]].pc = "svw"
  <2> SUFFICES ASSUME NEW x \in Ref, ref'[x].svwait.q # <<>>
               PROVE  /\ ref'[x].st # "IOWAIT" /\ Loosed(x)'
                      /\ sv'[ref'[x].svwait.q[1]].pc = "svw"
    OBVIOUS
  <2>1. x # r /\ ref'[x] = ref[x]
    BY <1>4, <1>6, <1>11
  <2>2. QED BY <1>4, <1>11, <2>1
<1>14. Replied'
  BY <1>12, <1>13, RepliedAfter
<1>15. Types' /\ Shapes'
  BY <1>1, <1>4, <1>11 DEF IInv, Types, Shapes
<1>16. QED BY <1>4, <1>11, <1>14, <1>15 DEF IInv

(* clone() comes back.                                                      *)
LEMMA CloneDoneKeeps ==
    ASSUME IInv, NEW c \in Client, CloneDone(c)
    PROVE  IInv'
<1>0. PICK n \in Ref : n = cl[c].n
  <2>1. cl[c].pc \in Clones
    BY DEF CloneDone, At, Clones
  <2>2. QED BY <2>1, CloneUser
<1> DEFINE r == cl[c].r
           ok == cl[c].arg # "err"
           w == Let(ref[r].svwait)
           k == [cl[c] EXCEPT !.pc = "rel", !.n = NoRef]
           e == IF ok THEN [ref[n] EXCEPT !.fd = TRUE] ELSE FreeRef
<1>1. /\ cl[c].pc = "dupd" /\ sv' = Wake(sv, ref[r].svwait)
      /\ ref' = [ref EXCEPT ![r].svwait = Let(@),
                            ![n] = IF ok THEN [@ EXCEPT !.fd = TRUE] ELSE FreeRef]
      /\ cl' = [cl EXCEPT ![c].pc = "rel", ![c].n = NoRef]
      /\ UNCHANGED <<port, prefs, todo>>
  BY <1>0 DEF CloneDone, At
<1>2. /\ cl[c].pc \in Has \ (IoPcs \cup Quits) /\ cl[c].pc \in Clones
      /\ "rel" \in Has \ IoPcs /\ "rel" \notin Asks \cup Quits \cup Joins \cup Clones
      /\ "rel" # "idle"
  BY <1>1 DEF Has, IoPcs, Quits, Asks, Joins, Clones
<1>3. /\ n \in Ref /\ r \in Ref /\ r # n
      /\ ref[n].st # "FREE" /\ ref[n] \in Portref
      /\ \A d \in Client \ {c} : Stranger(d, n)
      /\ HeldBy(ref[n].sema, Client, {}, {})
      /\ SleptOn(ref[n].iowait, Client, {})
      /\ ref[n].svwait.q # <<>> => ref[n].st # "IOWAIT" /\ ref[n].iowait.cnt > 0
  BY <1>0, <1>2, CloneUser
<1>4. /\ cl[c] \in ClientThread /\ cl = [d \in Client |-> cl[d]] /\ n # NoRef /\ r # NoRef
      /\ ref = [x \in Ref |-> ref[x]] /\ ref[r] \in Portref
      /\ \A a, b \in ref[n].msg : a = b
  BY <1>3, ClIs, RefAssumption DEF IInv, Types, Stated
<1>5. /\ w \in Sema(Server) /\ w.q = <<>> /\ CountsSleepers(w)
      /\ port' \in Port /\ sv' \in [Server -> ServerThread]
      /\ \A s \in Server : ServerShape(s)'
      /\ PortLocked' /\ Closing' /\ WaitCountsQueue'
      /\ \A x \in Ref \ {r} : ref[x].svwait.q # <<>> =>
            sv'[ref[x].svwait.q[1]].pc = "svw"
  BY <1>1, <1>3, LetGo
<1>6. /\ cl' \in [Client -> ClientThread] /\ cl'[c] = k
      /\ \A d \in Client \ {c} : cl'[d] = cl[d]
      /\ k.pc = "rel" /\ k.n = NoRef /\ k.r = r
  <2>1. cl' = [cl EXCEPT ![c] = k]
    BY <1>1, <1>4
  <2>2. k \in ClientThread /\ k.pc = "rel" /\ k.n = NoRef /\ k.r = cl[c].r
    BY <1>2, <1>4 DEF ClientThread
  <2> HIDE DEF k
  <2>3. QED BY <2>1, <2>2, ClIs
<1>7. /\ e \in Portref /\ HeldBy(e.sema, Client, {}, {}) /\ SleptOn(e.iowait, Client, {})
      /\ e.svwait.q # <<>> => e.st # "IOWAIT" /\ e.iowait.cnt > 0
      /\ e.svwait = ref[n].svwait \/ (e.svwait.q = <<>> /\ CountsSleepers(e.svwait))
      /\ e.st = "FREE" => ~ e.fd
      /\ \A a, b \in e.msg : a = b
  <2>1. CASE ok
    <3>1. /\ e \in Portref /\ e.sema = ref[n].sema /\ e.iowait = ref[n].iowait
          /\ e.svwait = ref[n].svwait /\ e.st = ref[n].st /\ e.msg = ref[n].msg
      BY <1>3, <2>1 DEF Portref
    <3> HIDE DEF e
    <3>2. QED BY <1>3, <1>4, <3>1
  <2>2. CASE ~ ok
    <3>1. e = FreeRef
      BY <2>2
    <3> HIDE DEF e
    <3>2. QED BY <3>1, FreshIs
  <2>3. QED BY <2>1, <2>2
<1>8. /\ ref' \in [Ref -> Portref] /\ ref'[n] = e
      /\ \A x \in Ref \ {n, r} : ref'[x] = ref[x]
      /\ ref'[r].svwait = w
      /\ \A x \in Ref \ {n} :
          /\ ref'[x].sema = ref[x].sema /\ ref'[x].iowait = ref[x].iowait
          /\ ref'[x].st = ref[x].st /\ ref'[x].fd = ref[x].fd /\ ref'[x].msg = ref[x].msg
  <2> DEFINE y == [ref[r] EXCEPT !.svwait = w]
  <2>1. ref' = [ref EXCEPT ![r] = y, ![n] = e]
    BY <1>1, <1>3, <1>4
  <2>2. /\ y \in Portref /\ y.svwait = w /\ y.sema = ref[r].sema
        /\ y.iowait = ref[r].iowait /\ y.st = ref[r].st /\ y.fd = ref[r].fd
        /\ y.msg = ref[r].msg
    BY <1>4, <1>5 DEF Portref
  <2> HIDE DEF y, e, w, r
  <2>3. /\ ref' \in [Ref -> Portref] /\ ref'[n] = e /\ ref'[r] = y
        /\ \A x \in Ref \ {n, r} : ref'[x] = ref[x]
    <3>1. \A x \in Ref : ref[x] \in Portref
      BY DEF IInv, Types
    <3>2. QED BY <1>3, <1>4, <1>7, <2>1, <2>2, <3>1
  <2>4. QED BY <1>3, <2>2, <2>3
<1> HIDE DEF k, e, w
<1>9. OwnStep(c, n)
  <2>1. /\ \A d \in Client \ {c} : cl'[d] = cl[d] /\ Stranger(d, n)
        /\ cl'[c].pc \notin Asks \cup Quits /\ cl'[c].n \in {NoRef, n}
        /\ cl'[c].r = cl[c].r /\ cl[c].r # n
        /\ cl[c].pc \in Has \ (IoPcs \cup Quits) /\ cl'[c].pc \in Has \ IoPcs
        /\ cl'[c].pc \notin Joins \cup Clones
    BY <1>2, <1>3, <1>6
  <2>2. ref'[n].st = "FREE" => ~ ref'[n].fd /\ Stranger(c, n)'
    <3>1. cl'[c].r # n /\ cl'[c].n # n
      BY <1>3, <1>4, <1>6
    <3>2. Stranger(c, n)'
      BY <3>1 DEF Stranger
    <3>3. QED BY <1>7, <1>8, <3>2
  <2>3. /\ HeldBy(ref'[n].sema, Client, {}, {})
        /\ SleptOn(ref'[n].iowait, Client, IF cl'[c].pc \in IoPcs THEN {c} ELSE {})
        /\ \A a, b \in ref'[n].msg : a = b
    BY <1>7, <1>8, <2>1
  <2>4. ref'[n].st = "IOWAIT" => cl'[c].pc \notin IoPcs
    BY <2>1
  <2>5. QED BY ONLY <1>8, <2>1, <2>2, <2>3, <2>4 DEF OwnStep
<1>10. \A x \in Ref : \/ ref'[x].svwait = ref[x].svwait
                      \/ ref'[x].svwait.q = <<>> /\ CountsSleepers(ref'[x].svwait)
  BY <1>5, <1>7, <1>8
<1>11. \A x \in Ref : ref'[x].svwait.q # <<>> => sv'[ref'[x].svwait.q[1]].pc = "svw"
  <2> SUFFICES ASSUME NEW x \in Ref, ref'[x].svwait.q # <<>>
               PROVE  sv'[ref'[x].svwait.q[1]].pc = "svw"
    OBVIOUS
  <2>1. ref'[x].svwait = ref[x].svwait
    BY <1>10
  <2>2. x # r
    BY <1>5, <1>8
  <2>3. QED BY <1>5, <2>1, <2>2
<1>12. ClientShape(c)'
  BY <1>2, <1>4, <1>6 DEF ClientShape
<1>13. OwnRest(c, n)
  <2>1. ref'[n].svwait.q # <<>> => ref'[n].st # "IOWAIT" /\ ref'[n].iowait.cnt > 0
    BY <1>7, <1>8
  <2>2. LET x == cl[c].r IN
        x \in Ref \ {n} /\ ref'[x].svwait.q # <<>> =>
           ref[x].st # "IOWAIT" /\ ref[x].iowait.cnt > 0
    BY <1>5, <1>8
  <2>3. UNCHANGED <<prefs, todo>>
    BY <1>1
  <2>4. QED
    BY ONLY <1>5, <1>6, <1>8, <1>10, <1>11, <1>12, <2>1, <2>2, <2>3 DEF OwnRest
<1>14. QED BY <1>3, <1>9, <1>13, OwnKeeps

-----------------------------------------------------------------------------
(* Asking for a portref's p_sema and giving it up                           *)

(* What Owned says of those that disconnect portref r. *)
QuitsAt(r) ==
    /\ \A d \in Client : cl[d].r = r /\ cl[d].pc \in Quits => ~ ref[r].fd
    /\ \A d, b \in Client : cl[d].r = r /\ cl[d].pc \in Quits
                               /\ cl[b].r = r /\ cl[b].pc \in Quits => d = b
    /\ \A d \in Client : cl[d].r = r /\ cl[d].pc \in Quits \ {"dpsema"} =>
          \A b \in Client : cl[b].r = r => cl[b].pc \notin Asks
    /\ \A d \in Client : cl[d].r = r /\ cl[d].pc = "dpsema" =>
          ref[r].sema.q[Len(ref[r].sema.q)] = d

(* Owned, a client at a time. *)
OwnedForm ==
    /\ \A x \in Ref : ref[x].st = "FREE" =>
          ~ ref[x].fd /\ \A d \in Client : cl[d].r # x /\ cl[d].n # x
    /\ \A d \in Client : cl[d].pc \in Joins =>
          /\ ~ ref[cl[d].r].fd
          /\ \A b \in Client \ {d} : cl[b].r # cl[d].r /\ cl[b].n # cl[d].r
    /\ \A d \in Client : cl[d].pc \in Clones =>
          /\ ~ ref[cl[d].n].fd /\ cl[d].r # cl[d].n
          /\ \A b \in Client \ {d} : cl[b].r # cl[d].n /\ cl[b].n # cl[d].n
    /\ \A d \in Client : cl[d].pc \in Quits => QuitsAt(cl[d].r)

(* The two forms of Owned say the same.                                     *)
LEMMA OwnedIs == Owned <=> OwnedForm
<1>1. ASSUME Owned PROVE OwnedForm
  <2>1. ASSUME NEW d \in Client, cl[d].pc \in Quits, NEW x, x = cl[d].r
        PROVE  QuitsAt(x)
    <3>1. \A b \in Client : cl[b].r = x /\ cl[b].pc \in Quits => ~ ref[x].fd
      BY <1>1 DEF Owned
    <3>2. \A a, b \in Client : cl[a].r = x /\ cl[a].pc \in Quits
                                 /\ cl[b].r = x /\ cl[b].pc \in Quits => a = b
      BY <1>1 DEF Owned
    <3>3. \A b \in Client : cl[b].r = x /\ cl[b].pc \in Quits \ {"dpsema"} =>
             \A a \in Client : cl[a].r = x => cl[a].pc \notin Asks
      BY <1>1 DEF Owned, Askers
    <3>4. \A b \in Client : cl[b].r = x /\ cl[b].pc = "dpsema" =>
             ref[x].sema.q[Len(ref[x].sema.q)] = b
      BY <1>1 DEF Owned
    <3>5. QED BY ONLY <3>1, <3>2, <3>3, <3>4 DEF QuitsAt
  <2>2. QED BY <1>1, <2>1 DEF Owned, OwnedForm, Stranger
<1>2. ASSUME OwnedForm PROVE Owned
  <2>1. \A d \in Client : cl[d].pc \in Quits => ~ ref[cl[d].r].fd
    BY <1>2 DEF OwnedForm, QuitsAt
  <2>2. \A d, b \in Client :
           cl[d].pc \in Quits /\ cl[b].pc \in Quits /\ cl[d].r = cl[b].r => d = b
    BY <1>2 DEF OwnedForm, QuitsAt
  <2>3. \A d \in Client : cl[d].pc \in Quits \ {"dpsema"} => Askers(cl[d].r) = {}
    BY <1>2 DEF OwnedForm, QuitsAt, Askers
  <2>4. \A d \in Client : cl[d].pc = "dpsema" =>
           ref[cl[d].r].sema.q[Len(ref[cl[d].r].sema.q)] = d
    BY <1>2 DEF OwnedForm, QuitsAt, Quits
  <2>5. QED BY <1>2, <2>1, <2>2, <2>3, <2>4 DEF Owned, OwnedForm, Stranger
<1>3. QED BY <1>1, <1>2

(* The step: portref r has p_sema and handle of e; a client either stays as *)
(* it is or moves, in or out of a call on r.                                *)
Moves(d, r) ==
    \/ cl'[d] = cl[d]
    \/ /\ cl[d].pc \notin Joins \cup Clones \cup IoPcs \cup {"done", "dupd", "dw", "dd"}
       /\ cl'[d].pc \notin Joins \cup Clones \cup IoPcs
       /\ cl[d].n = NoRef /\ cl'[d].n = NoRef
       /\ cl[d].r \in {r, NoRef} /\ cl'[d].r \in {r, NoRef}

LockStep(r, e) ==
    /\ e \in Portref /\ ref' = [ref EXCEPT ![r] = e]
    /\ e.st = ref[r].st /\ e.iowait = ref[r].iowait /\ e.svwait = ref[r].svwait
    /\ e.msg = ref[r].msg /\ ref[r].st # "FREE" /\ (e.fd => ref[r].fd)
    /\ cl' \in [Client -> ClientThread] /\ UNCHANGED <<port, prefs, sv, todo>>
    /\ \A d \in Client : Moves(d, r) /\ ClientShape(d)'
    /\ ref[r].fd \/ \A d \in Client : cl'[d].r = r => cl[d].r = r
    /\ HeldBy(e.sema, Client, Askers(r)', Holders(r)')

(* A step that only takes or gives p_sema of r.                             *)
LEMMA LockKeeps ==
    ASSUME IInv, NEW r \in Ref, NEW e, LockStep(r, e), QuitsAt(r)'
    PROVE  IInv'
<1> USE DEF LockStep
<1>0. r # NoRef
  BY RefAssumption
<1>1. /\ ref' \in [Ref -> Portref] /\ ref'[r] = e
      /\ \A x \in Ref \ {r} : ref'[x] = ref[x]
  BY DEF IInv, Types
<1>2. \A x \in Ref : /\ ref'[x].st = ref[x].st /\ ref'[x].iowait = ref[x].iowait
                     /\ ref'[x].svwait = ref[x].svwait /\ ref'[x].msg = ref[x].msg
                     /\ ref'[x].fd => ref[x].fd
  BY <1>1
<1>3. \A d \in Client : /\ cl'[d].pc \in Joins \cup Clones \cup IoPcs => cl'[d] = cl[d]
                        /\ cl[d].pc \in Joins \cup Clones \cup IoPcs
                              \cup {"done", "dupd", "dw", "dd"} => cl'[d] = cl[d]
                        /\ cl'[d].n = cl[d].n
                        /\ \/ cl'[d] = cl[d]
                           \/ cl[d].r \in {r, NoRef} /\ cl'[d].r \in {r, NoRef}
  BY DEF Moves
<1>4. ASSUME NEW x \in Ref \ {r}, NEW d \in Client
      PROVE  (cl[d].r = x \/ cl'[d].r = x) => cl'[d] = cl[d]
  BY <1>3, RefAssumption
<1>5. \A x \in Ref \ {r} : Askers(x)' = Askers(x) /\ Holders(x)' = Holders(x)
  BY <1>4 DEF Askers, Holders
<1>6. \A x \in Ref : Waiters(x)' = Waiters(x)
  BY <1>3 DEF Waiters
<1>7. Locked'
  <2> SUFFICES ASSUME NEW x \in Ref
               PROVE  HeldBy(ref'[x].sema, Client, Askers(x)', Holders(x)')
    BY DEF Locked
  <2>1. CASE x = r
    <3>1. Askers(x)' = Askers(r)' /\ Holders(x)' = Holders(r)'
      BY <2>1 DEF Askers, Holders
    <3>2. QED BY <1>1, <2>1, <3>1
  <2>2. CASE x # r
    BY <1>1, <1>5, <2>2 DEF IInv, Locked
  <2>3. QED BY <2>1, <2>2
<1>8. Waiting'
  BY <1>2, <1>6 DEF IInv, Waiting
<1>9. Stated'
  <2>1. \A d \in Client : cl'[d].pc \in Joins =>
            ref'[cl'[d].r].st \in {"OPENING", "IODONE", "ABDONE"}
    <3> SUFFICES ASSUME NEW d \in Client, cl'[d].pc \in Joins
                 PROVE  ref'[cl'[d].r].st \in {"OPENING", "IODONE", "ABDONE"}
      OBVIOUS
    <3>1. cl'[d] = cl[d] /\ cl[d].r \in Ref
      BY <1>3, InCall DEF IInv
    <3>2. QED BY <1>2, <3>1 DEF IInv, Stated
  <2>2. ASSUME NEW x \in Ref, ref'[x].st = "IOWAIT", NEW d \in Waiters(x)'
        PROVE  cl'[d].pc \in {"iow", "dupw"}
    <3>1. d \in Waiters(x) /\ ref[x].st = "IOWAIT" /\ d \in Client
      BY <1>2, <1>6, <2>2 DEF Waiters
    <3>2. cl'[d] = cl[d]
      BY <1>3, <3>1 DEF Waiters
    <3>3. QED BY <3>1, <3>2 DEF IInv, Stated
  <2>3. \A x \in Ref : \A a, b \in ref'[x].msg : a = b
    BY <1>2 DEF IInv, Stated
  <2>4. QED BY <2>1, <2>2, <2>3 DEF Stated
<1>10. Owned'
  <2>0. \A d \in Client : /\ cl[d].pc \in Joins \cup Quits => cl[d].r \in Ref
                          /\ cl[d].pc \in Clones => cl[d].n \in Ref
    BY InCall DEF IInv, Joins, Quits, Asks, Has
  <2>a. \A x \in Ref : (\A d \in Client : cl[d].r # x) /\ x # r =>
                          \A d \in Client : cl'[d].r # x
    BY <1>4
  <2>1. ASSUME NEW x \in Ref, ref'[x].st = "FREE"
        PROVE  ~ ref'[x].fd /\ \A d \in Client : cl'[d].r # x /\ cl'[d].n # x
    <3>1. x # r /\ ~ ref[x].fd /\ \A d \in Client : cl[d].r # x /\ cl[d].n # x
      BY <1>2, <2>1, OwnedIs DEF IInv, OwnedForm
    <3>2. QED BY <1>2, <1>3, <1>4, <3>1
  <2>2. ASSUME NEW d \in Client, cl'[d].pc \in Joins
        PROVE  /\ ~ ref'[cl'[d].r].fd
               /\ \A b \in Client \ {d} : cl'[b].r # cl'[d].r /\ cl'[b].n # cl'[d].r
    <3>1. /\ cl'[d] = cl[d] /\ cl[d].r \in Ref /\ ~ ref[cl[d].r].fd
          /\ \A b \in Client \ {d} : cl[b].r # cl[d].r /\ cl[b].n # cl[d].r
      BY <1>3, <2>0, <2>2, OwnedIs DEF IInv, OwnedForm
    <3>2. \A b \in Client \ {d} : cl'[b].r # cl[d].r
      BY <1>4, <3>1
    <3>3. QED BY <1>2, <1>3, <3>1, <3>2
  <2>3. ASSUME NEW d \in Client, cl'[d].pc \in Clones
        PROVE  /\ ~ ref'[cl'[d].n].fd /\ cl'[d].r # cl'[d].n
               /\ \A b \in Client \ {d} : cl'[b].r # cl'[d].n /\ cl'[b].n # cl'[d].n
    <3>1. /\ cl'[d] = cl[d] /\ cl[d].n \in Ref /\ ~ ref[cl[d].n].fd
          /\ cl[d].r # cl[d].n
          /\ \A b \in Client \ {d} : cl[b].r # cl[d].n /\ cl[b].n # cl[d].n
      BY <1>3, <2>0, <2>3, OwnedIs DEF IInv, OwnedForm
    <3>2. \A b \in Client \ {d} : cl'[b].r # cl[d].n
      BY <1>4, <3>1
    <3>3. QED BY <1>2, <1>3, <3>1, <3>2
  <2>4. ASSUME NEW d \in Client, cl'[d].pc \in Quits, NEW x, x = cl'[d].r
        PROVE  QuitsAt(x)'
    <3>1. CASE x = r
      BY <3>1
    <3>2. CASE x # r
      <4>1. cl'[d].r \in Ref
        <5>1. cl'[d].pc # "idle" /\ cl'[d] \in ClientThread
          BY <2>4 DEF Quits
        <5>2. QED BY <5>1 DEF ClientShape, ClientThread
      <4>2. cl'[d] = cl[d] /\ x \in Ref
        BY <1>4, <2>4, <3>2, <4>1
      <4>3. QuitsAt(x)
        BY <2>4, <4>2, OwnedIs DEF IInv, OwnedForm
      <4>4. \A b \in Client : (cl[b].r = x \/ cl'[b].r = x) => cl'[b] = cl[b]
        BY <1>4, <3>2, <4>2
      <4>5. ref'[x] = ref[x]
        BY <1>1, <3>2, <4>2
      <4>6. QED BY <4>3, <4>4, <4>5 DEF QuitsAt
    <3>3. QED BY <3>1, <3>2
  <2>5. (\A d \in Client : cl[d].pc \in Quits => QuitsAt(cl[d].r))'
    BY <2>4
  <2>6. OwnedForm'
    BY <2>1, <2>2, <2>3, <2>5 DEF OwnedForm
  <2>7. QED BY <2>6, OwnedIs, PTL
<1>11. \A x \in Ref : ref[x].svwait.q # <<>> => ref'[x].st # "IOWAIT" /\ Loosed(x)'
  <2> SUFFICES ASSUME NEW x \in Ref, ref[x].svwait.q # <<>>
               PROVE  ref'[x].st # "IOWAIT" /\ Loosed(x)'
    OBVIOUS
  <2>1. ref[x].st # "IOWAIT" /\ Loosed(x)
    BY DEF IInv, Replied, Loosed
  <2>2. CASE ref[x].iowait.cnt > 0
    BY <1>2, <2>1, <2>2 DEF Loosed
  <2>3. CASE \E d \in Holders(x) : cl[d].pc \in {"done", "dupd", "dw", "dd"}
    <3>1. PICK d \in Holders(x) : cl[d].pc \in {"done", "dupd", "dw", "dd"}
      BY <2>3
    <3>2. cl'[d] = cl[d] /\ d \in Client
      BY <1>3, <3>1 DEF Holders
    <3>3. d \in Holders(x)'
      BY <3>1, <3>2 DEF Holders
    <3>4. QED BY <1>2, <2>1, <3>1, <3>2, <3>3 DEF Loosed
  <2>4. QED BY <2>1, <2>2, <2>3 DEF Loosed
<1>12. Replied'
  BY <1>2, <1>11, RepliedKept DEF IInv
<1>13. ServerHalf
  BY ServerRests
<1>14. Types' /\ Shapes'
  BY <1>1, <1>13 DEF IInv, Types, Shapes, ServerHalf
<1>15. QED BY <1>7, <1>8, <1>9, <1>10, <1>12, <1>13, <1>14 DEF IInv, ServerHalf

(* A client begins a call on portref r, which it can name, by asking for    *)
(* its p_sema; e is the portref after that.                                 *)
Begins(c, r, k, e) ==
    /\ r \in Ref /\ k \in ClientThread /\ cl[c].pc = "idle" /\ ref[r].fd
    /\ cl' = [cl EXCEPT ![c] = k] /\ ref' = [ref EXCEPT ![r] = e]
    /\ k.r = r /\ k.n = NoRef
    /\ IF PSleeps(ref[r].sema) THEN k.pc \in {"psema", "dpsema"}
                               ELSE k.pc \in {"have", "dhave"}
    /\ e = [ref[r] EXCEPT !.fd = e.fd, !.sema = PSema(ref[r].sema, c)]
    /\ e.fd = (k.pc \in {"psema", "have"})
    /\ UNCHANGED <<port, prefs, sv, todo>>

(* A call begins.                                                           *)
LEMMA BeginsKeeps ==
    ASSUME IInv, NEW c \in Client, NEW r \in Ref, NEW k, NEW e, Begins(c, r, k, e)
    PROVE  IInv'
<1> USE DEF Begins
<1> DEFINE q == ref[r].sema
           z == PSema(q, c)
<1>1. cl[c].r = NoRef /\ cl[c].n = NoRef /\ r # NoRef
  BY RefAssumption DEF IInv, Shapes, ClientShape, Clones
<1>2. /\ cl' \in [Client -> ClientThread] /\ cl'[c] = k
      /\ \A d \in Client \ {c} : cl'[d] = cl[d]
  BY ClIs
<1>3. /\ ref[r] \in Portref /\ ref[r].st # "FREE" /\ HeldBy(q, Client, Askers(r), Holders(r))
  BY DEF IInv, Types, Owned, Locked
<1>4. c \notin Askers(r) /\ c \notin Holders(r)
  BY <1>1 DEF Askers, Holders
<1>5. IF PSleeps(q) THEN HeldBy(z, Client, Askers(r) \cup {c}, Holders(r))
      ELSE Holders(r) = {} /\ Askers(r) = {} /\ HeldBy(z, Client, {}, {c})
  BY <1>3, <1>4, HeldAsk
<1>6. HeldBy(z, Client, Askers(r)', Holders(r)')
  <2>1. CASE PSleeps(q)
    <3>1. k.pc \in Asks /\ k.pc \notin Has
      BY <2>1 DEF Asks, Has
    <3>2. Askers(r)' = Askers(r) \cup {c} /\ Holders(r)' = Holders(r)
      BY <1>1, <1>2, <3>1 DEF Askers, Holders
    <3>3. QED BY <1>5, <2>1, <3>2
  <2>2. CASE ~ PSleeps(q)
    <3>1. k.pc \in Has /\ k.pc \notin Asks
      BY <2>2 DEF Asks, Has
    <3>2. Askers(r)' = Askers(r) /\ Holders(r)' = Holders(r) \cup {c}
      BY <1>1, <1>2, <3>1 DEF Askers, Holders
    <3>3. QED BY <1>5, <2>2, <3>2
  <2>3. QED BY <2>1, <2>2
<1>7. z \in Sema(Client) /\ (PSleeps(q) => z.q = Append(q.q, c)) /\ q.q \in Seq(Client)
  <2>1. SemaType(z, Client)
    BY <1>6 DEF HeldBy, SleptOn
  <2>2. QED BY <1>3, <2>1 DEF SemaType, Sema, PSema, Portref
<1> HIDE DEF z
<1>8. e = [ref[r] EXCEPT !.fd = e.fd, !.sema = z] /\ e.fd \in BOOLEAN
  BY DEF z
<1>9. /\ e \in Portref /\ e.sema = z /\ e.st = ref[r].st /\ e.iowait = ref[r].iowait
      /\ e.svwait = ref[r].svwait /\ e.msg = ref[r].msg
  <2> DEFINE f == e.fd
  <2>1. e = [ref[r] EXCEPT !.fd = f, !.sema = z] /\ f \in BOOLEAN
    BY <1>8
  <2> HIDE DEF f
  <2>2. QED BY <1>3, <1>7, <2>1 DEF Portref
<1>10. /\ k.pc \notin Joins \cup Clones \cup IoPcs \cup {"idle"}
       /\ cl[c].pc \notin Joins \cup Clones \cup IoPcs \cup {"done", "dupd", "dw", "dd"}
  BY DEF Joins, Clones, IoPcs
<1>11. \A d \in Client : Moves(d, r) /\ ClientShape(d)'
  <2>1. Moves(c, r)
    BY <1>1, <1>2, <1>10 DEF Moves
  <2>2. ClientShape(c)'
    BY <1>1, <1>2, <1>10 DEF ClientShape
  <2>3. \A d \in Client \ {c} : Moves(d, r) /\ ClientShape(d)'
    BY <1>2 DEF Moves, ClientShape, IInv, Shapes
  <2>4. QED BY <2>1, <2>2, <2>3
<1>12. LockStep(r, e)
  <2>1. HeldBy(e.sema, Client, Askers(r)', Holders(r)')
    BY <1>6, <1>9
  <2>2. /\ UNCHANGED <<port, prefs, sv, todo>> /\ ref' = [ref EXCEPT ![r] = e]
        /\ ref[r].fd
    OBVIOUS
  <2>3. QED BY ONLY <1>2, <1>3, <1>9, <1>11, <2>1, <2>2 DEF LockStep
<1>13. \A d \in Client : cl[d].r = r => cl[d].pc \notin Quits
  BY DEF IInv, Owned
<1>14. ref'[r] = e
  BY DEF IInv, Types
<1>15. \A d \in Client : cl'[d].r = r /\ cl'[d].pc \in Quits => d = c /\ cl'[d] = k
  BY <1>2, <1>13
<1>16. QuitsAt(r)'
  <2>1. CASE e.fd
    <3>1. \A d \in Client : cl'[d].r = r => cl'[d].pc \notin Quits
      BY <1>15, <2>1 DEF Quits
    <3>2. QED BY <3>1 DEF QuitsAt, Quits
  <2>2. CASE ~ e.fd
    <3>1. k.pc \in {"dhave", "dpsema"} /\ (k.pc = "dpsema" <=> PSleeps(q))
      BY <2>2
    <3>2. \A d \in Client : cl'[d].r = r /\ cl'[d].pc \in Quits => ~ ref'[r].fd
      BY <1>14, <2>2
    <3>3. \A d, b \in Client : cl'[d].r = r /\ cl'[d].pc \in Quits
                                 /\ cl'[b].r = r /\ cl'[b].pc \in Quits => d = b
      BY <1>15
    <3>4. ASSUME NEW d \in Client, cl'[d].r = r, cl'[d].pc \in Quits \ {"dpsema"}
          PROVE  \A b \in Client : cl'[b].r = r => cl'[b].pc \notin Asks
      <4>1. ~ PSleeps(q) /\ k.pc = "dhave"
        BY <1>15, <3>1, <3>4
      <4>2. \A b \in Client \ {c} : cl[b].r = r => cl[b].pc \notin Asks
        BY <1>5, <4>1 DEF Askers
      <4>3. QED BY <1>2, <4>1, <4>2 DEF Asks
    <3>5. ASSUME NEW d \in Client, cl'[d].r = r, cl'[d].pc = "dpsema"
          PROVE  ref'[r].sema.q[Len(ref'[r].sema.q)] = d
      <4>1. d = c /\ PSleeps(q)
        BY <1>15, <3>1, <3>5 DEF Quits
      <4>2. ref'[r].sema.q = Append(q.q, c)
        BY <1>7, <1>9, <1>14, <4>1
      <4>3. QED BY <1>7, <4>1, <4>2
    <3>6. QED BY <3>2, <3>3, <3>4, <3>5 DEF QuitsAt
  <2>3. QED BY <1>8, <2>1, <2>2
<1>17. QED BY <1>12, <1>16, LockKeeps

(* find_portref().                                                          *)
LEMMA LookupKeeps ==
    ASSUME IInv, NEW c \in Client, NEW r \in Ref, NEW op \in {"send", "clone"},
           Lookup(c, r, op)
    PROVE  IInv'
<1> DEFINE p == IF PSleeps(ref[r].sema) THEN "psema" ELSE "have"
           z == PSema(ref[r].sema, c)
           k == [cl[c] EXCEPT !.pc = p, !.op = op, !.r = r, !.bit = 1 - cl[c].bit,
                              !.arg = "own"]
           e == [ref[r] EXCEPT !.sema = z]
<1>1. /\ cl[c].pc = "idle" /\ ref[r].fd
      /\ ref' = [ref EXCEPT ![r].sema = z]
      /\ cl' = [cl EXCEPT ![c].pc = p, ![c].op = op, ![c].r = r,
                          ![c].bit = 1 - cl[c].bit, ![c].arg = "own"]
      /\ UNCHANGED <<port, prefs, sv, todo>>
  <2>1. cl = [d \in Client |-> cl[d]] /\ ref = [x \in Ref |-> ref[x]]
    BY ClIs DEF IInv, Types
  <2>2. QED BY <2>1 DEF Lookup, At
<1>2. /\ cl[c] \in ClientThread /\ cl = [d \in Client |-> cl[d]]
      /\ ref = [x \in Ref |-> ref[x]] /\ ref[r] \in Portref /\ 1 - cl[c].bit \in Bit
  <2>1. /\ cl[c] \in ClientThread /\ cl = [d \in Client |-> cl[d]]
        /\ ref = [x \in Ref |-> ref[x]] /\ ref[r] \in Portref
    BY ClIs DEF IInv, Types
  <2>2. QED BY <2>1 DEF ClientThread, Bit
<1>3. cl[c].n = NoRef
  BY <1>1 DEF IInv, Shapes, ClientShape, Clones
<1> HIDE DEF z
<1>4. cl' = [cl EXCEPT ![c] = k] /\ ref' = [ref EXCEPT ![r] = e]
  BY <1>1, <1>2
<1>5. k \in ClientThread /\ k.pc = p /\ k.r = r /\ k.n = NoRef
  BY <1>2, <1>3, ZenonT(60) DEF ClientThread, Asks, Has
<1>6. e.fd = TRUE /\ e = [ref[r] EXCEPT !.fd = e.fd, !.sema = z]
  <2>1. e = [ref[r] EXCEPT !.fd = TRUE, !.sema = z] /\ e.fd = TRUE
    BY <1>1, <1>2 DEF Portref
  <2> HIDE DEF e
  <2>2. QED BY <2>1
<1> HIDE DEF k, e
<1>7. (k.pc \in {"psema", "have"}) = TRUE
  BY <1>5
<1>8. e.fd = (k.pc \in {"psema", "have"})
  BY ONLY <1>6, <1>7
<1>9. Begins(c, r, k, e)
  <2>1. e = [ref[r] EXCEPT !.fd = e.fd, !.sema = PSema(ref[r].sema, c)]
    BY <1>6 DEF z
  <2>2. IF PSleeps(ref[r].sema) THEN k.pc \in {"psema", "dpsema"}
        ELSE k.pc \in {"have", "dhave"}
    BY <1>5
  <2>3. /\ r \in Ref /\ k \in ClientThread /\ cl[c].pc = "idle" /\ ref[r].fd
        /\ cl' = [cl EXCEPT ![c] = k] /\ ref' = [ref EXCEPT ![r] = e]
        /\ k.r = r /\ k.n = NoRef /\ UNCHANGED <<port, prefs, sv, todo>>
    BY <1>1, <1>4, <1>5
  <2>4. QED BY ONLY <1>8, <2>1, <2>2, <2>3 DEF Begins
<1>10. QED BY <1>9, BeginsKeeps

(* delete_portref().                                                        *)
LEMMA DisconnectKeeps ==
    ASSUME IInv, NEW c \in Client, NEW r \in Ref, Disconnect(c, r)
    PROVE  IInv'
<1> DEFINE p == IF PSleeps(ref[r].sema) THEN "dpsema" ELSE "dhave"
           z == PSema(ref[r].sema, c)
           k == [cl[c] EXCEPT !.pc = p, !.op = "disconnect", !.r = r,
                              !.bit = 1 - cl[c].bit, !.arg = "own"]
           e == [ref[r] EXCEPT !.fd = FALSE, !.sema = z]
<1>1. /\ cl[c].pc = "idle" /\ ref[r].fd
      /\ ref' = [ref EXCEPT ![r].fd = FALSE, ![r].sema = z]
      /\ cl' = [cl EXCEPT ![c].pc = p, ![c].op = "disconnect", ![c].r = r,
                          ![c].bit = 1 - cl[c].bit, ![c].arg = "own"]
      /\ UNCHANGED <<port, prefs, sv, todo>>
  <2>1. cl = [d \in Client |-> cl[d]] /\ ref = [x \in Ref |-> ref[x]]
        /\ ref[r] \in Portref
    BY ClIs DEF IInv, Types
  <2>2. QED BY <2>1 DEF Disconnect, At, Portref
<1>2. /\ cl[c] \in ClientThread /\ cl = [d \in Client |-> cl[d]]
      /\ ref = [x \in Ref |-> ref[x]] /\ ref[r] \in Portref /\ 1 - cl[c].bit \in Bit
  <2>1. /\ cl[c] \in ClientThread /\ cl = [d \in Client |-> cl[d]]
        /\ ref = [x \in Ref |-> ref[x]] /\ ref[r] \in Portref
    BY ClIs DEF IInv, Types
  <2>2. QED BY <2>1 DEF ClientThread, Bit
<1>3. cl[c].n = NoRef
  BY <1>1 DEF IInv, Shapes, ClientShape, Clones
<1> HIDE DEF z
<1>4. cl' = [cl EXCEPT ![c] = k] /\ ref' = [ref EXCEPT ![r] = e]
  BY <1>1, <1>2
<1>5. k \in ClientThread /\ k.pc = p /\ k.r = r /\ k.n = NoRef
  BY <1>2, <1>3 DEF ClientThread, Asks, Has
<1>6. e.fd = FALSE /\ e = [ref[r] EXCEPT !.fd = e.fd, !.sema = z]
  <2>1. e = [ref[r] EXCEPT !.fd = FALSE, !.sema = z] /\ e.fd = FALSE
    BY <1>2 DEF Portref
  <2> HIDE DEF e
  <2>2. QED BY <2>1
<1> HIDE DEF k, e
<1>7. Begins(c, r, k, e)
  <2>1. IF PSleeps(ref[r].sema) THEN k.pc \in {"psema", "dpsema"}
                                ELSE k.pc \in {"have", "dhave"}
    BY <1>5
  <2>2. /\ e = [ref[r] EXCEPT !.fd = e.fd, !.sema = PSema(ref[r].sema, c)]
        /\ e.fd = (k.pc \in {"psema", "have"})
    <3>1. e = [ref[r] EXCEPT !.fd = e.fd, !.sema = PSema(ref[r].sema, c)]
      BY <1>6 DEF z
    <3>2. (k.pc \in {"psema", "have"}) = FALSE
      BY <1>5
    <3>3. e.fd = (k.pc \in {"psema", "have"})
      BY ONLY <1>6, <3>2
    <3>4. QED BY ONLY <3>1, <3>3
  <2>3. /\ r \in Ref /\ k \in ClientThread /\ cl[c].pc = "idle" /\ ref[r].fd
        /\ cl' = [cl EXCEPT ![c] = k] /\ ref' = [ref EXCEPT ![r] = e]
        /\ k.r = r /\ k.n = NoRef /\ UNCHANGED <<port, prefs, sv, todo>>
    BY <1>1, <1>4, <1>5
  <2>4. QED BY ONLY <2>1, <2>2, <2>3 DEF Begins
<1>8. QED BY <1>7, BeginsKeeps

(* The last of a queue, after another left it. *)
LEMMA LastStays ==
    ASSUME NEW T, NEW s, NEW L, NEW I, HeldBy(s, T, L, I), NEW t \in L,
           s.q[Len(s.q)] # t
    PROVE  LET q == DqSema(s, t).q IN q[Len(q)] = s.q[Len(s.q)]
<1> DEFINE q == DqSema(s, t).q
<1>1. SemaType(s, T) /\ CountsSleepers(s) /\ t \in Sleepers(s) /\ t \in T
  <2>1. SemaType(s, T) /\ CountsSleepers(s) /\ t \in Sleepers(s)
    BY DEF HeldBy, SleptOn
  <2>2. QED BY <2>1 DEF Sleepers, SemaType
<1>2. PICK i \in DOMAIN s.q : s.q[i] = t /\ q = RemoveAt(s.q, i)
  BY <1>1, DqSemaKeeps
<1>3. s.q \in Seq(T) /\ i \in 1 .. Len(s.q) /\ Len(s.q) \in Nat
  BY <1>1, <1>2 DEF SemaType
<1>4. i # Len(s.q)
  BY <1>2
<1> HIDE DEF q
<1>5. /\ Len(q) = Len(s.q) - 1
      /\ \A j \in 1 .. Len(s.q) - 1 : q[j] = IF j < i THEN s.q[j] ELSE s.q[j + 1]
  BY <1>2, <1>3, RemoveAtShape
<1>6. Len(s.q) - 1 \in 1 .. Len(s.q) - 1 /\ ~ (Len(s.q) - 1 < i) /\ Len(s.q) - 1 + 1 = Len(s.q)
  BY <1>3, <1>4
<1>7. q[Len(s.q) - 1] = s.q[Len(s.q)]
  BY <1>5, <1>6
<1>8. QED BY <1>5, <1>7 DEF q

(* The last of a queue, after its head was woken.                           *)
LEMMA LastAfter ==
    ASSUME NEW T, NEW s, NEW L, NEW I, HeldBy(s, T, L, I), s.q # <<>>
    PROVE  LET h == Head(s.q)
               q == VSema(s).q
           IN  /\ VWakes(s) = {h} /\ h \in L
               /\ s.q[Len(s.q)] = h => L = {h}
               /\ s.q[Len(s.q)] # h => q[Len(q)] = s.q[Len(s.q)]
<1> DEFINE h == Head(s.q)
           q == VSema(s).q
<1>1. /\ s.q \in Seq(T) /\ L = {s.q[i] : i \in DOMAIN s.q}
      /\ \A i, j \in DOMAIN s.q : s.q[i] = s.q[j] => i = j
  BY DEF HeldBy, SleptOn, SemaType, Sleepers
<1>2. h = s.q[1] /\ DOMAIN s.q = 1 .. Len(s.q) /\ Len(s.q) \in Nat \ {0}
  BY <1>1
<1>3. VWakes(s) = {h} /\ h \in L
  BY <1>1, <1>2 DEF VWakes
<1>a. Len(s.q) \in DOMAIN s.q /\ 1 \in DOMAIN s.q
  BY <1>2
<1>4. q = Tail(s.q)
  BY DEF VSema
<1>5. /\ Len(Tail(s.q)) = Len(s.q) - 1
      /\ \A i \in 1 .. Len(s.q) - 1 : Tail(s.q)[i] = s.q[i + 1]
  BY <1>1, TailShape
<1> HIDE DEF h
<1>6. ASSUME s.q[Len(s.q)] = h PROVE L = {h}
  <2>1. Len(s.q) = 1
    BY <1>1, <1>2, <1>6, <1>a
  <2>2. QED BY <1>1, <1>2, <2>1
<1>7. ASSUME s.q[Len(s.q)] # h PROVE q[Len(q)] = s.q[Len(s.q)]
  <2>1. Len(s.q) # 1
    BY <1>2, <1>7
  <2>a. \A l \in Nat \ {0} : l # 1 => l - 1 \in 1 .. (l - 1) /\ (l - 1) + 1 = l
    OBVIOUS
  <2>2. Len(s.q) - 1 \in 1 .. (Len(s.q) - 1) /\ (Len(s.q) - 1) + 1 = Len(s.q)
    BY ONLY <1>2, <2>1, <2>a
  <2> HIDE DEF q
  <2>3. QED BY <1>4, <1>5, <2>2
<1>8. QED BY <1>3, <1>6, <1>7 DEF h

(* An event while it sleeps on p_sema.                                      *)
LEMMA LookupIntrKeeps ==
    ASSUME IInv, NEW c \in Client, LookupIntr(c)
    PROVE  IInv'
<1>0. cl[c].pc = "psema" /\ cl[c].pc \in Asks
  BY DEF LookupIntr, At, Asks
<1>1. PICK r \in Ref : r = cl[c].r
  BY <1>0, InCall DEF IInv
<1> DEFINE q == ref[r].sema
           z == DqSema(q, c)
           k == IdleCl(cl[c].bit)
           e == [ref[r] EXCEPT !.sema = z]
<1>2. /\ ref' = [ref EXCEPT ![r].sema = z] /\ cl' = [cl EXCEPT ![c] = k]
      /\ UNCHANGED <<port, prefs, sv, todo>>
  BY <1>1, ClIs DEF LookupIntr
<1>3. /\ ref[r] \in Portref /\ ref = [x \in Ref |-> ref[x]]
      /\ HeldBy(q, Client, Askers(r), Holders(r)) /\ c \in Askers(r)
  BY <1>0, <1>1 DEF IInv, Types, Locked, Askers
<1>4. HeldBy(z, Client, Askers(r) \ {c}, Holders(r))
  BY <1>3, HeldLeave
<1>5. /\ k \in ClientThread /\ k.pc = "idle" /\ k.r = NoRef /\ k.n = NoRef
      /\ "idle" \notin Asks \cup Has \cup Joins \cup Clones \cup Quits \cup IoPcs
  BY IdleIs
<1> HIDE DEF k
<1>6. /\ cl' \in [Client -> ClientThread] /\ cl'[c] = k
      /\ \A d \in Client \ {c} : cl'[d] = cl[d]
  BY <1>2, <1>5, ClIs
<1>7. Askers(r)' = Askers(r) \ {c} /\ Holders(r)' = Holders(r)
  BY <1>0, <1>5, <1>6 DEF Askers, Holders, Asks, Has
<1>8. ref[r].st # "FREE" /\ r # NoRef
  BY <1>1, RefAssumption DEF IInv, Owned, Stranger
<1>9. z \in Sema(Client)
  BY <1>4 DEF HeldBy, SleptOn, SemaType, Sema
<1> HIDE DEF z
<1>10. /\ e \in Portref /\ e.sema = z /\ e.st = ref[r].st /\ e.iowait = ref[r].iowait
       /\ e.svwait = ref[r].svwait /\ e.msg = ref[r].msg /\ e.fd = ref[r].fd
  BY <1>3, <1>9 DEF Portref
<1>11. ref' = [ref EXCEPT ![r] = e]
  BY <1>2, <1>3
<1> HIDE DEF e
<1>12. \A d \in Client : Moves(d, r) /\ ClientShape(d)'
  <2>1. cl[c].n = NoRef
    BY <1>0 DEF IInv, Shapes, ClientShape, Clones
  <2>2. cl[c].pc \notin Joins \cup Clones \cup IoPcs \cup {"done", "dupd", "dw", "dd"}
    BY <1>0 DEF Joins, Clones, IoPcs
  <2>3. Moves(c, r)
    BY <1>1, <1>5, <1>6, <2>1, <2>2 DEF Moves
  <2>4. ClientShape(c)'
    BY <1>5, <1>6 DEF ClientShape
  <2>5. \A d \in Client \ {c} : Moves(d, r) /\ ClientShape(d)'
    BY <1>6 DEF Moves, ClientShape, IInv, Shapes
  <2>6. QED BY <2>3, <2>4, <2>5
<1>13. \A d \in Client : cl'[d].r = r => cl[d].r = r /\ cl'[d] = cl[d] /\ d # c
  BY <1>5, <1>6, <1>8
<1>14. LockStep(r, e)
  <2>1. HeldBy(e.sema, Client, Askers(r)', Holders(r)')
    BY <1>4, <1>7, <1>10 DEF z
  <2>2. QED BY <1>2, <1>6, <1>8, <1>10, <1>11, <1>12, <1>13, <2>1 DEF LockStep
<1>15. ref'[r] = e
  BY <1>3, <1>11
<1>16. QuitsAt(r)
  <2>1. CASE \E d \in Client : cl[d].r = r /\ cl[d].pc \in Quits
    BY <2>1, OwnedIs DEF IInv, OwnedForm
  <2>2. CASE ~ \E d \in Client : cl[d].r = r /\ cl[d].pc \in Quits
    BY <2>2 DEF QuitsAt, Quits
  <2>3. QED BY <2>1, <2>2
<1>17. QuitsAt(r)'
  <2>1. \A d \in Client : cl'[d].r = r /\ cl'[d].pc \in Quits => ~ ref'[r].fd
    BY <1>10, <1>13, <1>15, <1>16 DEF QuitsAt
  <2>2. \A d, b \in Client : cl'[d].r = r /\ cl'[d].pc \in Quits
                               /\ cl'[b].r = r /\ cl'[b].pc \in Quits => d = b
    BY <1>13, <1>16 DEF QuitsAt
  <2>3. \A d \in Client : cl'[d].r = r /\ cl'[d].pc \in Quits \ {"dpsema"} =>
           \A b \in Client : cl'[b].r = r => cl'[b].pc \notin Asks
    BY <1>13, <1>16 DEF QuitsAt
  <2>4. ASSUME NEW d \in Client, cl'[d].r = r, cl'[d].pc = "dpsema"
        PROVE  ref'[r].sema.q[Len(ref'[r].sema.q)] = d
    <3>1. q.q[Len(q.q)] = d /\ d # c
      BY <1>13, <1>16, <2>4 DEF QuitsAt
    <3>2. z.q[Len(z.q)] = q.q[Len(q.q)]
      BY <1>3, <3>1, LastStays DEF z
    <3>3. QED BY <1>10, <1>15, <3>1, <3>2
  <2>5. QED BY <2>1, <2>2, <2>3, <2>4 DEF QuitsAt
<1>18. QED BY <1>14, <1>17, LockKeeps

(* p_sema is given up.                                                      *)
LEMMA ReleaseKeeps ==
    ASSUME IInv, NEW c \in Client, Release(c)
    PROVE  IInv'
<1>0. cl[c].pc = "rel" /\ cl[c].pc \in Has
  BY DEF Release, At, Has
<1>1. PICK r \in Ref : r = cl[c].r
  BY <1>0, InCall DEF IInv
<1> DEFINE q == ref[r].sema
           z == VSema(q)
           k == IdleCl(cl[c].bit)
           g == [cl EXCEPT ![c] = k]
           e == [ref[r] EXCEPT !.sema = z]
           W == VWakes(q)
<1>2. /\ ref' = [ref EXCEPT ![r].sema = z] /\ cl' = Wake(g, q)
      /\ UNCHANGED <<port, prefs, sv, todo>>
  BY <1>1, ClIs DEF Release
<1>3. /\ ref[r] \in Portref /\ ref = [x \in Ref |-> ref[x]]
      /\ HeldBy(q, Client, Askers(r), Holders(r)) /\ c \in Holders(r)
  BY <1>0, <1>1 DEF IInv, Types, Locked, Holders
<1>4. W \subseteq Askers(r) /\ Holders(r) = {c} /\ HeldBy(z, Client, Askers(r) \ W, W)
  BY <1>3, HeldGive
<1>5. /\ k \in ClientThread /\ k.pc = "idle" /\ k.r = NoRef /\ k.n = NoRef
      /\ "idle" \notin Asks \cup Has \cup Joins \cup Clones \cup Quits \cup IoPcs
  BY IdleIs
<1>6. c \notin W
  BY <1>0, <1>4 DEF Askers, Asks
<1>7. /\ g[c] = k /\ (\A d \in Client \ {c} : g[d] = cl[d]) /\ DOMAIN g = Client
  BY ClIs
<1> HIDE DEF k, g, W
<1>8. cl'[c] = k /\ \A d \in Client \ {c} : d \notin W => cl'[d] = cl[d]
  BY <1>2, <1>6, <1>7 DEF Wake, W
<1>9. ASSUME NEW d \in W
      PROVE  /\ d \in Client /\ d # c /\ cl[d].r = r
             /\ cl'[d] \in ClientThread /\ cl'[d].r = r /\ cl'[d].n = cl[d].n
             /\ \/ cl[d].pc = "psema" /\ cl'[d].pc = "have"
                \/ cl[d].pc = "dpsema" /\ cl'[d].pc = "dhave"
  <2>1. d \in Client /\ d # c /\ cl[d].r = r /\ cl[d].pc \in Asks /\ cl[d] \in ClientThread
    BY <1>4, <1>6, <1>9, ClIs DEF Askers
  <2>2. cl'[d] = [cl[d] EXCEPT !.pc = WakeTo[cl[d].pc]]
    BY <1>2, <1>7, <1>9, <2>1 DEF Wake, W
  <2>3. \/ cl[d].pc = "psema" /\ WakeTo[cl[d].pc] = "have"
        \/ cl[d].pc = "dpsema" /\ WakeTo[cl[d].pc] = "dhave"
    BY <2>1, WokenTo DEF Asks
  <2>4. WakeTo[cl[d].pc] \in Has
    BY <2>3 DEF Has
  <2>5. QED BY <2>1, <2>2, <2>3, <2>4 DEF ClientThread
<1>10. cl' \in [Client -> ClientThread]
  <2>1. cl' = [d \in Client |-> cl'[d]]
    BY <1>2, <1>7 DEF Wake
  <2>2. \A d \in Client : cl'[d] \in ClientThread
    BY <1>5, <1>8, <1>9, ClIs
  <2>3. QED BY <2>1, <2>2
<1>11. r # NoRef /\ ref[r].st # "FREE"
  BY <1>1, RefAssumption DEF IInv, Owned, Stranger
<1>12. \A d \in Client : cl'[d].r = r => /\ d # c /\ cl[d].r = r /\ cl[d].n = cl'[d].n
                                         /\ \/ cl'[d] = cl[d] /\ d \notin W
                                            \/ d \in W
  BY <1>5, <1>8, <1>9, <1>11
<1>13. Askers(r)' = Askers(r) \ W /\ Holders(r)' = W
  <2>1. ASSUME NEW d \in Client
        PROVE  /\ cl'[d].r = r /\ cl'[d].pc \in Asks
                     <=> cl[d].r = r /\ cl[d].pc \in Asks /\ d \notin W
               /\ cl'[d].r = r /\ cl'[d].pc \in Has <=> d \in W
    <3>1. CASE d \in W
      BY <1>9, <3>1 DEF Asks, Has
    <3>2. CASE d = c
      BY <1>0, <1>5, <1>6, <1>8, <1>11, <3>2 DEF Asks
    <3>3. CASE d \notin W /\ d # c
      <4>1. cl'[d] = cl[d] /\ d \notin Holders(r)
        BY <1>4, <1>8, <3>3
      <4>2. QED BY <3>3, <4>1 DEF Holders
    <3>4. QED BY <3>1, <3>2, <3>3
  <2>2. W \subseteq Client
    BY <1>9
  <2>3. QED BY <2>1, <2>2 DEF Askers, Holders
<1>14. z \in Sema(Client)
  BY <1>4 DEF HeldBy, SleptOn, SemaType, Sema
<1> HIDE DEF z
<1>15. /\ e \in Portref /\ e.sema = z /\ e.st = ref[r].st /\ e.iowait = ref[r].iowait
       /\ e.svwait = ref[r].svwait /\ e.msg = ref[r].msg /\ e.fd = ref[r].fd
  BY <1>3, <1>14 DEF Portref
<1>16. ref' = [ref EXCEPT ![r] = e]
  BY <1>2, <1>3
<1> HIDE DEF e
<1>17. \A d \in Client : Moves(d, r) /\ ClientShape(d)'
  <2>0. \A d \in Client : ClientShape(d)
    BY DEF IInv, Shapes
  <2>1. cl[c].n = NoRef
    BY <1>0, <2>0 DEF ClientShape, Clones
  <2>2. cl[c].pc \notin Joins \cup Clones \cup IoPcs \cup {"done", "dupd", "dw", "dd"}
    BY <1>0 DEF Joins, Clones, IoPcs
  <2>3. Moves(c, r) /\ ClientShape(c)'
    BY <1>1, <1>5, <1>8, <2>1, <2>2 DEF Moves, ClientShape
  <2>4. ASSUME NEW d \in Client, d \in W PROVE Moves(d, r) /\ ClientShape(d)'
    <3>1. cl[d].n = NoRef
      BY <1>9, <2>0, <2>4 DEF ClientShape, Clones
    <3>2. QED BY <1>9, <1>11, <2>4, <3>1 DEF Moves, ClientShape, Joins, Clones, IoPcs
  <2>5. ASSUME NEW d \in Client, d \notin W, d # c PROVE Moves(d, r) /\ ClientShape(d)'
    BY <1>8, <2>0, <2>5 DEF Moves, ClientShape
  <2>6. QED BY <2>3, <2>4, <2>5
<1>18. LockStep(r, e)
  <2>1. HeldBy(e.sema, Client, Askers(r)', Holders(r)')
    BY <1>4, <1>13, <1>15 DEF z
  <2>2. QED BY <1>2, <1>10, <1>11, <1>12, <1>15, <1>16, <1>17, <2>1 DEF LockStep
<1>19. ref'[r] = e
  BY <1>3, <1>16
<1>20. QuitsAt(r)
  <2>1. CASE \E d \in Client : cl[d].r = r /\ cl[d].pc \in Quits
    BY <2>1, OwnedIs DEF IInv, OwnedForm
  <2>2. CASE ~ \E d \in Client : cl[d].r = r /\ cl[d].pc \in Quits
    BY <2>2 DEF QuitsAt, Quits
  <2>3. QED BY <2>1, <2>2
<1>21. ASSUME NEW d \in Client, cl'[d].r = r, cl'[d].pc \in Quits
       PROVE  cl[d].r = r /\ cl[d].pc = "dpsema" /\ (cl'[d].pc = "dhave" <=> d \in W)
              /\ cl'[d].pc \in {"dhave", "dpsema"}
  <2>1. CASE d \in W
    BY <1>9, <1>21, <2>1 DEF Quits
  <2>2. CASE d \notin W
    <3>1. cl'[d] = cl[d] /\ cl[d].r = r /\ d # c
      BY <1>12, <1>21, <2>2
    <3>2. d \notin Holders(r)
      BY <1>4, <3>1
    <3>3. cl[d].pc \notin Has
      BY <3>1, <3>2 DEF Holders
    <3>4. QED BY <1>21, <2>2, <3>1, <3>3 DEF Quits, Has
  <2>3. QED BY <2>1, <2>2
<1>22. QuitsAt(r)'
  <2>1. \A d \in Client : cl'[d].r = r /\ cl'[d].pc \in Quits => ~ ref'[r].fd
    BY <1>15, <1>19, <1>20, <1>21 DEF QuitsAt, Quits
  <2>2. \A d, b \in Client : cl'[d].r = r /\ cl'[d].pc \in Quits
                               /\ cl'[b].r = r /\ cl'[b].pc \in Quits => d = b
    BY <1>20, <1>21 DEF QuitsAt, Quits
  <2>3. ASSUME NEW d \in Client, cl'[d].r = r, cl'[d].pc \in Quits \ {"dpsema"}
        PROVE  \A b \in Client : cl'[b].r = r => cl'[b].pc \notin Asks
    <3>1. d \in W /\ cl[d].pc = "dpsema" /\ cl[d].r = r
      BY <1>21, <2>3
    <3>2. q.q[Len(q.q)] = d
      BY <1>20, <3>1 DEF QuitsAt
    <3>3. q.q # <<>> /\ W = {Head(q.q)}
      BY <3>1 DEF W, VWakes
    <3>4. Askers(r) = {d}
      BY <1>3, <3>1, <3>2, <3>3, LastAfter
    <3>5. Askers(r)' = {}
      BY <1>13, <3>1, <3>4
    <3>6. QED BY <3>5 DEF Askers
  <2>4. ASSUME NEW d \in Client, cl'[d].r = r, cl'[d].pc = "dpsema"
        PROVE  ref'[r].sema.q[Len(ref'[r].sema.q)] = d
    <3>1. d \notin W /\ cl[d].pc = "dpsema" /\ cl[d].r = r
      BY <1>21, <2>4 DEF Quits
    <3>2. q.q[Len(q.q)] = d
      BY <1>20, <3>1 DEF QuitsAt
    <3>3. q.q # <<>>
      <4>1. d \in Sleepers(q)
        BY <1>3, <3>1 DEF HeldBy, SleptOn, Askers, Asks
      <4>2. QED BY <4>1 DEF Sleepers
    <3>4. z.q[Len(z.q)] = d
      BY <1>3, <3>1, <3>2, <3>3, LastAfter DEF z, W
    <3>5. QED BY <1>15, <1>19, <3>4
  <2>5. QED BY <2>1, <2>2, <2>3, <2>4 DEF QuitsAt
<1>23. QED BY <1>18, <1>22, LockKeeps

-----------------------------------------------------------------------------
(* The invariant                                                            *)

(* It holds at the start.                                                   *)
LEMMA InitIInv == Init => IInv
<1> SUFFICES ASSUME Init PROVE IInv
  OBVIOUS
<1> USE DEF Init
<1>1. env.open \subseteq Ref /\ IsFiniteSet(env.open)
  <2>1. env.open \subseteq Ref
    BY EnvAssumption DEF Env
  <2>2. QED BY <2>1, FiniteAssumption, FS_Subset
<1>2. SetToSeq(env.open) \in Seq(Ref)
  <2>1. SetToSeq(env.open) \in Seq(env.open)
    BY <1>1, ListOf
  <2>2. QED BY <1>1, <2>1
<1>3. /\ SleptOn(NewSema(0), Client, {}) /\ SleptOn(NewSema(0), Server, {})
      /\ SleptOn(NewSema(1), Server, {}) /\ NewSema(1).cnt = 1 /\ NewSema(0).cnt = 0
  BY NewSlept
<1>4. /\ NewSema(0) \in Sema(Server) /\ NewSema(1) \in Sema(Server)
      /\ HeldBy(NewSema(1), Server, {}, {})
  BY <1>3 DEF SleptOn, SemaType, Sema, HeldBy
<1>5. /\ OpenRef \in Portref /\ OpenRef.st = "IODONE" /\ OpenRef.msg = {}
      /\ OpenRef.sema = FreeRef.sema /\ OpenRef.iowait = FreeRef.iowait
      /\ OpenRef.svwait = FreeRef.svwait
  BY FreshIs DEF OpenRef, Portref, RefState
<1>6. \A r \in Ref : /\ ref[r] \in Portref /\ ref[r].msg = {} /\ ref[r].st # "IOWAIT"
                     /\ ref[r].sema = FreeRef.sema /\ ref[r].iowait = FreeRef.iowait
                     /\ ref[r].svwait = FreeRef.svwait
                     /\ ref[r].st = "FREE" => ~ ref[r].fd
  BY <1>5, FreshIs
<1>7. /\ IdleCl(0) \in ClientThread /\ IdleCl(0).pc = "idle"
      /\ IdleCl(0).r = NoRef /\ IdleCl(0).n = NoRef
      /\ "idle" \notin Asks \cup Has \cup Joins \cup Clones \cup Quits \cup IoPcs
  BY DEF IdleCl, ClientThread, Bit, Asks, Has, Joins, Clones, Quits, IoPcs
<1>8. /\ IdleSv \in ServerThread /\ IdleSv.pc = "idle" /\ IdleSv.ms = <<>>
      /\ "idle" \notin PortAsks \cup PortHas \cup Carries \cup Closers \cup {"rwait", "got"}
  <2>1. <<>> \in Seq(Message)
    OBVIOUS
  <2>2. QED BY <2>1 DEF IdleSv, ServerThread, PortAsks, PortHas, Carries, Closers
<1>9. Types
  <2>1. ref \in [Ref -> Portref] /\ prefs \subseteq Ref /\ todo \subseteq Message
        /\ cl \in [Client -> ClientThread] /\ sv \in [Server -> ServerThread]
    BY <1>1, <1>6, <1>7, <1>8
  <2>2. <<>> \in Seq(Message)
    OBVIOUS
  <2>3. port \in Port
    BY <1>2, <1>4, <2>2 DEF Port
  <2>4. QED BY <2>1, <2>3 DEF Types
<1>10. Shapes
  BY <1>7, <1>8 DEF Shapes, ClientShape, ServerShape, Carries
<1>11. \A c \in Client : cl[c].pc = "idle" /\ cl[c].r = NoRef /\ cl[c].n = NoRef
  BY <1>7
<1>12. \A r : Askers(r) = {} /\ Holders(r) = {} /\ Waiters(r) = {}
  BY <1>7, <1>11 DEF Askers, Holders, Waiters
<1>13. Locked /\ Waiting
  BY <1>6, <1>12, FreshIs DEF Locked, Waiting
<1>14. Owned /\ Stated
  BY <1>6, <1>7, <1>11, <1>12, RefAssumption DEF Owned, Stated, Stranger
<1>15. Replied
  BY <1>6, FreshIs DEF Replied
<1>16. PortAskers = {} /\ PortHolders = {} /\ {s \in Server : sv[s].pc = "rwait"} = {}
  BY <1>8 DEF PortAskers, PortHolders
<1>17. PortLocked /\ Closing
  BY <1>3, <1>4, <1>8, <1>16 DEF PortLocked, Closing
<1>18. WaitCountsQueue
  <2>1. {s \in Server : sv[s].pc = "got"} = {}
    BY <1>8
  <2>2. Cardinality({}) = 0
    BY FS_EmptySet
  <2>3. port.q = <<>> /\ port.wait.cnt = 0 /\ Len(<<>>) = 0
    BY <1>3
  <2>4. ~ Blocked(port.wait)
    BY <2>3 DEF Blocked
  <2>5. Cardinality({s \in Server : sv[s].pc = "got"}) = 0
    BY <2>1, <2>2
  <2> DEFINE n == Cardinality({s \in Server : sv[s].pc = "got"})
  <2>6. n = 0 /\ Len(port.q) = 0
    BY <2>3, <2>5
  <2> HIDE DEF n
  <2>7. Len(port.q) = (IF Blocked(port.wait) THEN 0 ELSE port.wait.cnt) + n
    BY ONLY <2>3, <2>4, <2>6
  <2>8. QED BY <2>7 DEF WaitCountsQueue, n
<1>19. QED BY <1>9, <1>10, <1>13, <1>14, <1>15, <1>17, <1>18 DEF IInv

(* Every step keeps it, whatever the setting.                               *)
LEMMA NextIInv == IInv /\ [Next]_vars => IInv'
<1> SUFFICES ASSUME IInv, [Next]_vars PROVE IInv'
  OBVIOUS
<1>1. ASSUME UNCHANGED vars PROVE IInv'
  <2> USE <1>1 DEF vars
  <2>1. Types' /\ Shapes'
    BY DEF IInv, Types, Shapes, ClientShape, ServerShape
  <2>2. Locked' /\ Waiting' /\ Owned' /\ Stated'
    BY DEF IInv, Locked, Waiting, Owned, Stated, Askers, Holders, Waiters, Stranger
  <2>3. Replied'
    BY DEF IInv, Replied, Holders
  <2>4. PortLocked' /\ Closing' /\ WaitCountsQueue'
    BY DEF IInv, PortLocked, PortAskers, PortHolders, Closing, WaitCountsQueue
  <2>5. QED BY <2>1, <2>2, <2>3, <2>4 DEF IInv
<1>2. ASSUME NEW c \in Client, ClientCall(c) PROVE IInv'
  BY <1>2, LookupKeeps, ConnectKeeps, DisconnectKeeps DEF ClientCall
<1>3. ASSUME NEW c \in Client, ClientStep(c) PROVE IInv'
  BY <1>3, LookupGoneKeeps, SendKeeps, AbortKeeps, AbortLateKeeps, AbortedKeeps,
     DoneKeeps, ReleaseKeeps, CloneKeeps, CloneSendKeeps, CloneDoneKeeps,
     ConnectedKeeps, ShutClientKeeps, DisconnectedKeeps DEF ClientStep
<1>4. ASSUME NEW s \in Server, ServerStep(s) PROVE IInv'
  BY <1>4, AwaitMsgKeeps, DequeueKeeps, NewClientKeeps, DelClientKeeps,
     AckDisconnectKeeps, CopyOutKeeps, ReleasePortKeeps, ReceivedKeeps, DupWakeKeeps,
     DupHashKeeps, UnnameKeeps, CloseClientKeeps, TakeMsgsKeeps, BounceMsgKeeps,
     BouncedKeeps, UnhashKeeps, FreePortKeeps DEF ServerStep
<1>5. ASSUME NEW s \in Server, NEW m \in todo,
             \/ ReplyDone(s, m) \/ ReplyDup(s, m) \/ ReplyAbort(s, m)
             \/ ReplyRefused(s, m) \/ ErrReply(s, m) \/ ErrRefused(s, m)
             \/ Reject(s, m) \/ Accept(s, m)
      PROVE  IInv'
  <2>1. m \in Message
    BY DEF IInv, Types
  <2>2. QED
    BY <1>5, <2>1, ReplyDoneKeeps, ReplyDupKeeps, ReplyAbortKeeps, RefusedKeeps,
       ErrReplyKeeps, RejectKeeps, AcceptKeeps
<1>6. CASE Next
  <2>1. ASSUME NEW s \in Server,
               \/ Receive(s) \/ ServerStep(s) \/ ServerAnswer(s) \/ ClosePort(s)
        PROVE  IInv'
    BY <1>4, <1>5, <2>1, ReceiveKeeps, ClosePortKeeps DEF ServerAnswer
  <2>2. ASSUME Event PROVE IInv'
    BY <2>2, LookupIntrKeeps, SendIntrKeeps, ReceiveIntrKeeps, AwaitIntrKeeps DEF Event
  <2>3. QED BY <1>2, <1>3, <1>6, <2>1, <2>2 DEF Next
<1>7. QED BY <1>1, <1>6

(* For any number of clients, server threads and portrefs, whatever they do *)
(* and whenever: a portref's p_sema is held by one client at a time, sleepers *)
(* are counted, a portref is freed by its last user only, and at most one   *)
(* server thread waits for a client to take its reply.                      *)
THEOREM Invariant == Spec => []IInv
<1>1. QED BY InitIInv, NextIInv, PTL DEF Spec

(* p_sema does what it is for: one client at a time does I/O on a portref,   *)
(* and nobody else is about to free it, has it new or connects it.          *)
Exclusive ==
    \A c, d \in Client :
       /\ cl[c].pc \in Has /\ cl[d].pc \in Has \cup Joins /\ cl[c].r = cl[d].r => c = d
       /\ cl[c].pc \in Has /\ cl[d].pc \in Clones => cl[d].n # cl[c].r

(* At no time do two clients have the same portref: msg_send() under p_sema.*)
THEOREM OneUserAtATime == Spec => []Exclusive
<1>1. IInv => Exclusive
  <2> SUFFICES ASSUME IInv, NEW c \in Client, NEW d \in Client, cl[c].pc \in Has
               PROVE  /\ cl[d].pc \in Has \cup Joins /\ cl[c].r = cl[d].r => c = d
                      /\ cl[d].pc \in Clones => cl[d].n # cl[c].r
    BY DEF Exclusive
  <2>1. /\ \A b \in Client \ {c} : cl[b].r = cl[c].r => cl[b].pc \in Asks
        /\ \A b \in Client : cl[b].pc \in Clones => cl[b].n # cl[c].r
    BY OneUser
  <2>2. cl[d].pc \in Has \cup Joins => cl[d].pc \notin Asks
    BY DEF Asks, Has, Joins
  <2>3. QED BY <2>1, <2>2
<1>2. QED BY <1>1, Invariant, PTL

(* Every variable keeps its type, and every semaphore counts its sleepers.  *)
THEOREM TypeCorrect == Spec => []TypeOK
<1>1. IInv => TypeOK
  <2> SUFFICES ASSUME IInv PROVE TypeOK
    OBVIOUS
  <2>1. \A r \in Ref : ref[r] \in Portref /\ ref[r].st \in RefState
    BY DEF IInv, Types, Portref
  <2>2. \A r \in Ref : /\ SemaOK(ref[r].sema, Client) /\ SemaOK(ref[r].iowait, Client)
                       /\ SemaOK(ref[r].svwait, Server)
    <3>1. \A r \in Ref : /\ SemaOK(ref[r].sema, Client) /\ SemaOK(ref[r].iowait, Client)
      BY DEF IInv, Locked, Waiting, HeldBy, SleptOn, SemaOK
    <3>2. \A r \in Ref : SemaOK(ref[r].svwait, Server)
      BY <2>1 DEF IInv, Replied, SemaOK, SemaType, Portref, Sema
    <3>3. QED BY <3>1, <3>2
  <2>3. \A r \in Ref : /\ ref[r].port \in BOOLEAN /\ ref[r].fd \in BOOLEAN
                       /\ ref[r].msg \subseteq Client
    BY <2>1 DEF Portref
  <2>4. SemaOK(port.sema, Server) /\ SemaOK(port.wait, Server)
    BY DEF IInv, PortLocked, HeldBy, SleptOn, SemaOK
  <2>5. /\ port.st \in {"open", "closing", "freed"} /\ port.name \in BOOLEAN
        /\ port.q \in Seq(Message) /\ port.refs \in Seq(Ref)
        /\ prefs \subseteq Ref /\ todo \subseteq Message
    BY DEF IInv, Types, Port
  <2>6. \A c \in Client :
          /\ cl[c].r \in Ref \cup {NoRef} /\ cl[c].n \in Ref \cup {NoRef}
          /\ cl[c].bit \in Bit /\ cl[c].arg \in {"own", "reply", "err", "stale"}
    BY DEF IInv, Types, ClientThread
  <2>7. \A s \in Server : sv[s].ms \in Seq(Message)
    BY DEF IInv, Types, ServerThread
  <2>8. QED BY <2>1, <2>2, <2>3, <2>4, <2>5, <2>6, <2>7 DEF TypeOK, RefState
<1>2. QED BY <1>1, Invariant, PTL

(* p_wait agrees with the queue: no message is left that nobody comes for,  *)
(* and no receiver wakes to an empty queue, however many threads receive,   *)
(* are interrupted, or close the port.                                      *)
THEOREM WaitCounts == Spec => []WaitCountsQueue
<1>1. IInv => WaitCountsQueue
  BY DEF IInv
<1>2. QED BY <1>1, Invariant, PTL

-----------------------------------------------------------------------------
(* One server thread, while the port is open (or if it is never closed)     *)

Alone(s) == env.servers = {s} /\ (port.st = "open" \/ ~ env.shut)

(* The message in the server's hands that its client waits for: an          *)
(* M_DISCONNECT is answered while it is received, an M_DUP before the new   *)
(* handle is known.                                                         *)
InHand(s) ==
    IF /\ sv[s].ms # <<>> /\ sv[s].pc # "duph"
       /\ sv[s].ms[1].op = "disconnect" => sv[s].pc \in {"delc", "dack"}
    THEN {sv[s].ms[1]} ELSE {}

(* The messages that are not answered: queued, in the server's hands,       *)
(* received.                                                                *)
Open(s) == ToSet(port.q) \cup InHand(s) \cup todo

(* The client waits for the answer to m. *)
Awaited(m) ==
    LET c == cl[m.by] IN
    /\ c.r = m.r /\ c.bit = m.bit
    /\ m.op = "req" => c.pc \in {"iow", "intr", "abw"}
    /\ m.op = "req" /\ c.pc = "intr" => ref[m.r].st = "IOWAIT"
    /\ m.op = "dup" => c.pc = "dupw" /\ c.n = m.n
    /\ m.op = "abort" => c.pc = "abw"
    /\ m.op = "connect" => c.pc = "cw"
    /\ m.op = "disconnect" => c.pc = "dw"

(* A client has one message on its way, and at most an M_ABORT behind it.   *)
Before(m, x) == m.by = x.by => m.op = "req" /\ x.op = "abort"

Lined(s) ==
    /\ \A i, j \in DOMAIN port.q : i < j => Before(port.q[i], port.q[j])
    /\ \A m \in InHand(s), x \in ToSet(port.q) : Before(m, x)
    /\ \A m \in todo, x \in ToSet(port.q) \cup InHand(s) : Before(m, x)
    /\ \A m, x \in todo : m.by = x.by => m = x

(* The state of a client's portref, and what it is told, fit what it waits  *)
(* for.                                                                     *)
Agrees(c) ==
    LET r == cl[c].r IN
    /\ cl[c].arg # "stale"
    /\ cl[c].pc \in {"iow", "dupw"} => ref[r].st = "IOWAIT"
    /\ cl[c].pc = "intr" => ref[r].st \in {"IOWAIT", "IODONE"}
    /\ cl[c].pc = "abw" => ref[r].st = "ABWAIT"
    /\ cl[c].pc = "abdone" => ref[r].st = "ABDONE"
    /\ cl[c].pc = "cw" => ref[r].st = "OPENING"
    /\ cl[c].pc = "cd" => ref[r].st \in {"IODONE", "ABDONE"}
    /\ cl[c].pc \in {"dw", "dd"} => ref[r].st = "CLOSING"
    /\ cl[c].pc \in {"iow", "intr", "abw", "dupw"} => ref[r].msg = {c}
    /\ cl[c].pc \in {"psema", "have", "dpsema", "dhave", "dup", "dupw"} =>
          cl[c].arg = "own"
    /\ cl[c].pc = "done" => cl[c].arg # "own"

(* A unit of p_iowait is left by an answer that came before the abort. *)
Unit(r) == \E c \in Client : cl[c].r = r /\ cl[c].pc = "intr" /\ ref[r].st = "IODONE"

Agreed ==
    /\ \A c \in Client : Agrees(c)
    /\ \A r \in Ref : ref[r].st # "FREE" => ref[r].port
    /\ \A r \in Ref : ref[r].iowait.cnt > 0 => Unit(r)

(* The port's ring and the hash of handles have a portref or have it not;   *)
(* the handle of a clone is the last to come.                               *)
InRing(r) == r \in ToSet(port.refs)
Known(s, r) == InRing(r) /\ (r \in prefs \/ (sv[s].pc = "duph" /\ sv[s].r = r))
Unknown(r) == ~ InRing(r) /\ r \notin prefs

(* A portref that nobody opens or closes. *)
Settled(r) ==
    /\ ref[r].st # "FREE"
    /\ \A c \in Client : /\ cl[c].n # r
                         /\ cl[c].r = r => cl[c].pc \notin {"cw", "cd", "dw", "dd"}

(* ... and what the ring and the hash have of one that somebody does.       *)
Joining(s, c) ==
    /\ cl[c].pc = "cd" => IF ref[cl[c].r].st = "IODONE" THEN Known(s, cl[c].r)
                          ELSE Unknown(cl[c].r)
    /\ cl[c].pc = "dd" => Unknown(cl[c].r)
    /\ cl[c].pc = "dup" => Unknown(cl[c].n)
    /\ cl[c].pc = "dupw" =>
          IF sv[s].pc = "dupv" /\ sv[s].r = cl[c].n
          THEN InRing(cl[c].n) /\ cl[c].n \notin prefs ELSE Unknown(cl[c].n)
    /\ cl[c].pc = "dupd" => IF cl[c].arg = "err" THEN Unknown(cl[c].n)
                            ELSE Known(s, cl[c].n)

Queued(s, m) == /\ m.op = "connect" => Unknown(m.r)
                /\ m.op = "disconnect" => Known(s, m.r)

Carried(s, m) ==
    /\ sv[s].pc = "newc" => m.op = "connect" /\ InRing(m.r) /\ m.r \notin prefs
    /\ sv[s].pc = "delc" => m.op = "disconnect" /\ ~ InRing(m.r) /\ m.r \in prefs
    /\ sv[s].pc = "dack" => m.op = "disconnect" /\ Unknown(m.r)
    /\ sv[s].pc = "dupv" => m.op = "dup" /\ m.n = sv[s].r
    /\ m.op = "connect" /\ sv[s].pc # "newc" => Known(s, m.r)

(* Ring and hash agree with the messages on their way ... *)
Placed(s) ==
    /\ \A i, j \in DOMAIN port.refs : port.refs[i] = port.refs[j] => i = j
    /\ \A m \in ToSet(port.q) : Queued(s, m)
    /\ \A m \in InHand(s) : Carried(s, m)
    /\ \A m \in todo : m.op # "disconnect" /\ InRing(m.r) /\ m.r \in prefs
    /\ sv[s].pc = "duph" => InRing(sv[s].r) /\ sv[s].r \notin prefs
    /\ sv[s].pc \in {"newc", "dupv"} => InHand(s) # {}

(* ... and with the clients. *)
Hashed(s) ==
    /\ \A r \in Ref : Settled(r) => Known(s, r)
    /\ \A r \in Ref : ref[r].st = "FREE" => Unknown(r)
    /\ \A c \in Client : Joining(s, c)
    /\ Placed(s)

Turn(s) ==
    /\ panic = "none" /\ port.st = "open"
    /\ \A x \in Server \ {s} : sv[x] = IdleSv
    /\ \A m \in Open(s) : Awaited(m)
    /\ Lined(s) /\ Agreed /\ Hashed(s)

TurnInv == \A s \in Server : Alone(s) => Turn(s)

(* What is open are messages. *)
LEMMA OpenIs ==
    ASSUME IInv, NEW s \in Server
    PROVE  /\ Open(s) \subseteq Message /\ InHand(s) \subseteq Message
           /\ ToSet(port.q) \subseteq Message /\ todo \subseteq Message
<1>1. port.q \in Seq(Message) /\ todo \subseteq Message
  BY DEF IInv, Types, Port
<1>2. ToSet(port.q) \subseteq Message
  BY <1>1 DEF ToSet
<1>3. InHand(s) \subseteq Message
  BY CarriedIs DEF InHand
<1>4. QED BY <1>1, <1>2, <1>3 DEF Open

(* The queue with a message more. *)
LEMMA QueueGrows ==
    ASSUME NEW T, NEW q \in Seq(T), NEW m \in T
    PROVE  /\ ToSet(Append(q, m)) = ToSet(q) \cup {m}
           /\ DOMAIN Append(q, m) = 1 .. Len(q) + 1 /\ Append(q, m)[Len(q) + 1] = m
           /\ \A i \in DOMAIN q : Append(q, m)[i] = q[i] /\ i \in 1 .. Len(q)
           /\ DOMAIN q = 1 .. Len(q) /\ Len(q) \in Nat
<1>1. /\ DOMAIN Append(q, m) = 1 .. Len(q) + 1 /\ Append(q, m)[Len(q) + 1] = m
      /\ \A i \in DOMAIN q : Append(q, m)[i] = q[i] /\ i \in 1 .. Len(q)
      /\ DOMAIN q = 1 .. Len(q) /\ Len(q) \in Nat
  OBVIOUS
<1>2. 1 .. Len(q) + 1 = (1 .. Len(q)) \cup {Len(q) + 1}
  BY <1>1
<1>3. ToSet(Append(q, m)) = ToSet(q) \cup {m}
  <2>1. ASSUME NEW x \in ToSet(Append(q, m)) PROVE x \in ToSet(q) \cup {m}
    BY <1>1, <1>2 DEF ToSet
  <2>2. ASSUME NEW x \in ToSet(q) PROVE x \in ToSet(Append(q, m))
    <3>1. PICK i \in DOMAIN q : x = q[i]
      BY DEF ToSet
    <3>2. i \in DOMAIN Append(q, m) /\ Append(q, m)[i] = x
      BY <1>1, <1>2, <3>1
    <3>3. QED BY <3>2 DEF ToSet
  <2>3. m \in ToSet(Append(q, m))
    BY <1>1, <1>2 DEF ToSet
  <2>4. QED BY <2>1, <2>2, <2>3
<1>4. QED BY <1>1, <1>3

-----------------------------------------------------------------------------
(* Steps of one client, or for one client                                   *)

(* The server thread goes on as it was, or is woken.                        *)
Marks == {"newc", "delc", "dack", "dupv", "duph"}
Stirs(s) == /\ \A x \in Server \ {s} : sv'[x] = sv[x]
            /\ sv'[s].ms = sv[s].ms
            /\ IF sv[s].pc \in Marks THEN sv'[s].pc = sv[s].pc /\ sv'[s].r = sv[s].r
               ELSE sv'[s].pc \notin Marks

LEMMA StirsIs ==
    ASSUME NEW s \in Server, Stirs(s), port'.refs = port.refs, prefs' = prefs
    PROVE  /\ InHand(s)' = InHand(s)
           /\ \A r : /\ Known(s, r)' <=> Known(s, r)
                     /\ Unknown(r)' <=> Unknown(r)
                     /\ InRing(r)' <=> InRing(r)
<1>1. InHand(s)' = InHand(s)
  BY DEF Stirs, Marks, InHand
<1>2. ASSUME NEW r PROVE /\ Known(s, r)' <=> Known(s, r)
                         /\ Unknown(r)' <=> Unknown(r)
                         /\ InRing(r)' <=> InRing(r)
  BY DEF Stirs, Marks, Known, Unknown, InRing
<1>3. QED BY <1>1, <1>2

(* Who waits for an answer, or got one. *)
Active(d) == cl[d].pc \in {"iow", "intr", "abw", "abdone", "dup", "dupw", "dupd", "done",
                           "cw", "cd", "dw", "dd"}

(* Client d goes on as it was, or gets p_sema. *)
Rest(d) ==
    /\ cl'[d].r = cl[d].r /\ cl'[d].n = cl[d].n /\ cl'[d].bit = cl[d].bit
    /\ cl'[d].arg = cl[d].arg
    /\ \/ cl'[d].pc = cl[d].pc
       \/ /\ cl[d].pc \in {"psema", "have", "dpsema", "dhave"}
          /\ cl'[d].pc \in {"psema", "have", "dpsema", "dhave"}

(* Client c moves, and the portrefs of M change, which no other client that *)
(* waits has to do with.                                                    *)
Actor(c, M) ==
    /\ \A d \in Client \ {c} : Rest(d) /\ (Active(d) => cl[d].r \notin M)
    /\ \A x \in Ref \ M : /\ ref'[x].st = ref[x].st /\ ref'[x].msg = ref[x].msg
                          /\ ref'[x].port = ref[x].port
                          /\ ref'[x].iowait.cnt = ref[x].iowait.cnt
    /\ cl[c].n \in M \cup {NoRef}
    /\ cl[c].r \in M \/ cl[c].pc \notin {"cw", "cd", "dw", "dd", "intr"}

LEMMA ActorAgreed ==
    ASSUME IInv, NEW s \in Server, Turn(s), NEW c \in Client, NEW M, Actor(c, M),
           \A x \in Ref \cap M : /\ ref'[x].st # "FREE" => ref'[x].port
                                 /\ ref'[x].iowait.cnt > 0 => Unit(x)',
           Agrees(c)'
    PROVE  Agreed' /\ \A m \in Open(s) : m.by # c => Awaited(m)'
<1>1. ASSUME NEW d \in Client \ {c} PROVE Agrees(d)'
  <2>1. Agrees(d) /\ Rest(d) /\ (Active(d) => cl[d].r \notin M /\ cl[d].r \in Ref)
    BY InCall DEF Turn, Agreed, Actor, IInv, Active, Has, Joins
  <2>2. CASE Active(d)
    <3>1. /\ ref'[cl[d].r].st = ref[cl[d].r].st /\ ref'[cl[d].r].msg = ref[cl[d].r].msg
          /\ cl'[d].pc = cl[d].pc /\ cl'[d].r = cl[d].r /\ cl'[d].arg = cl[d].arg
      BY <2>1, <2>2 DEF Actor, Rest, Active
    <3>2. QED BY <2>1, <3>1 DEF Agrees
  <2>3. CASE ~ Active(d)
    <3>1. /\ cl'[d].arg # "stale" /\ ~ Active(d)'
          /\ cl'[d].pc \in {"psema", "have", "dpsema", "dhave"} => cl'[d].arg = "own"
      BY <2>1, <2>3 DEF Rest, Active, Agrees
    <3>2. QED BY <3>1 DEF Agrees, Active
  <2>4. QED BY <2>2, <2>3
<1>2. ASSUME NEW x \in Ref \ M, ref'[x].iowait.cnt > 0 PROVE Unit(x)'
  <2>1. Unit(x) /\ ref'[x].st = ref[x].st
    BY <1>2 DEF Actor, Turn, Agreed
  <2>2. PICK d \in Client : cl[d].r = x /\ cl[d].pc = "intr" /\ ref[x].st = "IODONE"
    BY <2>1 DEF Unit
  <2>3. cl'[d].r = x /\ cl'[d].pc = "intr"
    BY <2>2 DEF Actor, Rest
  <2>4. QED BY <2>1, <2>2, <2>3 DEF Unit
<1>3. ASSUME NEW x \in Ref \ M, ref'[x].st # "FREE" PROVE ref'[x].port
  BY <1>3 DEF Actor, Turn, Agreed
<1>4. Agreed'
  <2>1. \A d \in Client : Agrees(d)'
    BY <1>1
  <2>2. \A x \in Ref : ref'[x].st # "FREE" => ref'[x].port
    BY <1>3
  <2>3. \A x \in Ref : ref'[x].iowait.cnt > 0 => Unit(x)'
    BY <1>2
  <2>4. QED BY <2>1, <2>2, <2>3 DEF Agreed
<1>5. ASSUME NEW m \in Open(s), m.by # c PROVE Awaited(m)'
  <2>1. Awaited(m) /\ m \in Message
    BY <1>5, OpenIs DEF Turn
  <2>2. m.by \in Client \ {c} /\ m.op \in MsgOp
    BY <1>5, <2>1 DEF Message
  <2>3. Active(m.by) /\ cl[m.by].r = m.r
    BY <2>1, <2>2 DEF Awaited, MsgOp, Active
  <2>4. m.r \in Ref \ M
    BY <2>2, <2>3, InCall DEF Actor, IInv, Active, Has, Joins
  <2>5. /\ ref'[m.r].st = ref[m.r].st /\ cl'[m.by].pc = cl[m.by].pc /\ cl'[m.by].r = cl[m.by].r
        /\ cl'[m.by].n = cl[m.by].n /\ cl'[m.by].bit = cl[m.by].bit
    BY <2>2, <2>3, <2>4 DEF Actor, Rest, Active
  <2>6. QED BY <2>1, <2>5 DEF Awaited
<1>6. QED BY <1>4, <1>5

(* The ring and the hash stay, messages may leave and one come. *)
LEMMA ActorHashed ==
    ASSUME IInv, NEW s \in Server, Turn(s), NEW c \in Client, NEW M, Actor(c, M),
           Stirs(s), port'.refs = port.refs, prefs' = prefs, todo' \subseteq todo,
           \A m \in ToSet(port'.q) : m \in ToSet(port.q) \/ Queued(s, m),
           \A x \in Ref \cap M : /\ Settled(x)' => Known(s, x)
                                 /\ ref'[x].st = "FREE" => Unknown(x),
           Joining(s, c)'
    PROVE  Hashed(s)'
<1>0. /\ InHand(s)' = InHand(s)
      /\ \A r : /\ Known(s, r)' <=> Known(s, r)
                /\ Unknown(r)' <=> Unknown(r)
                /\ InRing(r)' <=> InRing(r)
  BY StirsIs
<1>h. Hashed(s)
  BY DEF Turn
<1>1. ASSUME NEW x \in Ref, Settled(x)' PROVE Known(s, x)'
  <2>1. CASE x \in M
    BY <1>0, <1>1, <2>1
  <2>2. CASE x \notin M
    <3>1. Settled(x)
      <4>1. ref[x].st # "FREE"
        BY <1>1, <2>2 DEF Actor, Settled
      <4>2. ASSUME NEW d \in Client \ {c}
            PROVE  cl[d].n # x /\ (cl[d].r = x => cl[d].pc \notin {"cw", "cd", "dw", "dd"})
        BY <1>1 DEF Actor, Rest, Settled
      <4>3. x # NoRef
        BY RefAssumption
      <4>4. cl[c].n # x /\ (cl[c].r = x => cl[c].pc \notin {"cw", "cd", "dw", "dd"})
        BY <2>2, <4>3 DEF Actor
      <4>5. QED BY <4>1, <4>2, <4>4 DEF Settled
    <3>2. QED BY <1>0, <1>h, <3>1 DEF Hashed, Placed
  <2>3. QED BY <2>1, <2>2
<1>2. ASSUME NEW x \in Ref, ref'[x].st = "FREE" PROVE Unknown(x)'
  <2>1. CASE x \in M
    BY <1>0, <1>2, <2>1
  <2>2. CASE x \notin M
    BY <1>0, <1>2, <1>h, <2>2 DEF Hashed, Placed, Actor
  <2>3. QED BY <2>1, <2>2
<1>3. ASSUME NEW d \in Client \ {c} PROVE Joining(s, d)'
  <2>1. Joining(s, d) /\ Rest(d)
    BY <1>h DEF Hashed, Placed, Actor
  <2>2. CASE Active(d)
    <3>1. cl[d].r \in Ref \ M
      BY <2>2, InCall DEF Actor, IInv, Active, Has, Joins
    <3>2. ref'[cl[d].r].st = ref[cl[d].r].st /\ cl'[d].pc = cl[d].pc
      BY <2>1, <2>2, <3>1 DEF Actor, Rest, Active
    <3>3. /\ sv'[s].pc = "dupv" <=> sv[s].pc = "dupv"
          /\ sv[s].pc = "dupv" => sv'[s].r = sv[s].r
      BY DEF Stirs, Marks
    <3>4. QED BY <1>0, <2>1, <3>2, <3>3 DEF Joining, Rest
  <2>3. CASE ~ Active(d)
    <3>1. ~ Active(d)'
      BY <2>1, <2>3 DEF Rest, Active
    <3>2. QED BY <3>1 DEF Joining, Active
  <2>4. QED BY <2>2, <2>3
<1>4. ASSUME NEW m, Queued(s, m) PROVE Queued(s, m)'
  BY <1>0, <1>4 DEF Queued
<1>5. \A m \in ToSet(port'.q) : Queued(s, m)'
  BY <1>4, <1>h DEF Hashed, Placed
<1>6. \A m \in InHand(s)' : Carried(s, m)'
  <2>1. ASSUME NEW m \in InHand(s) PROVE Carried(s, m)'
    <3>1. Carried(s, m)
      BY <1>h, <2>1 DEF Hashed, Placed
    <3>2. \A p \in Marks : sv'[s].pc = p <=> sv[s].pc = p
      BY DEF Stirs, Marks
    <3>3. sv[s].pc \in Marks => sv'[s].r = sv[s].r
      BY DEF Stirs
    <3>4. QED BY <1>0, <3>1, <3>2, <3>3 DEF Carried, Marks
  <2>2. QED BY <1>0, <2>1
<1>7. (\A m \in todo : m.op # "disconnect" /\ InRing(m.r) /\ m.r \in prefs)'
  BY <1>0, <1>h DEF Hashed, Placed
<1>8. (sv[s].pc = "duph" => InRing(sv[s].r) /\ sv[s].r \notin prefs)'
  BY <1>h DEF Hashed, Placed, Stirs, Marks, InRing
<1>9. (\A i, j \in DOMAIN port.refs : port.refs[i] = port.refs[j] => i = j)'
  BY <1>h DEF Hashed, Placed
<1>10. \A d \in Client : Joining(s, d)'
  BY <1>3
<1>11. sv'[s].pc \in {"newc", "dupv"} => InHand(s)' # {}
  BY <1>0, <1>h DEF Hashed, Placed, Stirs, Marks
<1>12. QED BY <1>1, <1>2, <1>5, <1>6, <1>7, <1>8, <1>9, <1>10, <1>11 DEF Hashed, Placed

(* Nobody but those who wait has a message open. *)
LEMMA NoneOpen ==
    ASSUME IInv, NEW s \in Server, Turn(s), NEW c \in Client,
           cl[c].pc \notin {"iow", "intr", "abw", "dupw", "cw", "dw"}
    PROVE  \A m \in Open(s) : m.by # c
<1>1. ASSUME NEW m \in Open(s) PROVE m.by # c
  <2>1. Awaited(m) /\ m \in Message
    BY OpenIs DEF Turn
  <2>2. QED BY <2>1 DEF Awaited, Message, MsgOp
<1>2. QED BY <1>1

(* A client's step that sends nothing. *)
LEMMA ActorTurn ==
    ASSUME IInv, NEW s \in Server, Turn(s), NEW c \in Client, NEW M, Actor(c, M),
           Stirs(s), UNCHANGED <<prefs, todo, panic>>,
           port'.st = port.st, port'.refs = port.refs, port'.q = port.q,
           \A x \in Ref \cap M : /\ ref'[x].st # "FREE" => ref'[x].port
                                 /\ ref'[x].iowait.cnt > 0 => Unit(x)'
                                 /\ Settled(x)' => Known(s, x)
                                 /\ ref'[x].st = "FREE" => Unknown(x),
           Agrees(c)', Joining(s, c)',
           \A m \in Open(s) : m.by = c => Awaited(m)'
    PROVE  Turn(s)'
<1>1. Hashed(s)'
  BY ActorHashed
<1>2. Agreed' /\ \A m \in Open(s) : m.by # c => Awaited(m)'
  BY ActorAgreed
<1>3. InHand(s)' = InHand(s)
  BY StirsIs
<1>4. Open(s)' = Open(s)
  BY <1>3 DEF Open
<1>5. Lined(s)'
  BY <1>3 DEF Lined, Turn
<1>6. \A m \in Open(s)' : Awaited(m)'
  BY <1>2, <1>4
<1>7. QED BY <1>1, <1>2, <1>5, <1>6 DEF Turn, Stirs

(* A client's step that sends message m. *)
LEMMA SenderTurn ==
    ASSUME IInv, NEW s \in Server, Turn(s), NEW c \in Client, NEW M, Actor(c, M),
           NEW m \in Message, m.by = c,
           Stirs(s), UNCHANGED <<prefs, todo, panic>>,
           port'.st = port.st, port'.refs = port.refs, port'.q = Append(port.q, m),
           \A x \in Ref \cap M : /\ ref'[x].st # "FREE" => ref'[x].port
                                 /\ ref'[x].iowait.cnt > 0 => Unit(x)'
                                 /\ Settled(x)' => Known(s, x)
                                 /\ ref'[x].st = "FREE" => Unknown(x),
           Agrees(c)', Joining(s, c)', Awaited(m)', Queued(s, m),
           \A x \in Open(s) : x.by = c => Awaited(x)' /\ Before(x, m)
    PROVE  Turn(s)'
<1>0. port.q \in Seq(Message)
  BY DEF IInv, Types, Port
<1>1. /\ ToSet(port'.q) = ToSet(port.q) \cup {m}
      /\ DOMAIN port'.q = 1 .. Len(port.q) + 1 /\ port'.q[Len(port.q) + 1] = m
      /\ \A i \in DOMAIN port.q : port'.q[i] = port.q[i] /\ i \in 1 .. Len(port.q)
      /\ DOMAIN port.q = 1 .. Len(port.q) /\ Len(port.q) \in Nat
  BY <1>0, QueueGrows
<1>2. Hashed(s)'
  BY <1>1, ActorHashed
<1>3. Agreed' /\ \A x \in Open(s) : x.by # c => Awaited(x)'
  BY ActorAgreed
<1>4. InHand(s)' = InHand(s)
  BY StirsIs
<1>5. Open(s)' = Open(s) \cup {m}
  BY <1>1, <1>4 DEF Open
<1>6. \A x \in Open(s) : Before(x, m)
  BY DEF Before
<1>7. Lined(s)'
  <2>1. Lined(s)
    BY DEF Turn
  <2>2. ASSUME NEW i \in DOMAIN port'.q, NEW j \in DOMAIN port'.q, i < j
        PROVE  Before(port'.q[i], port'.q[j])
    <3>1. i \in DOMAIN port.q
      BY <1>1, <2>2
    <3>2. CASE j \in DOMAIN port.q
      BY <1>1, <2>1, <2>2, <3>1, <3>2 DEF Lined
    <3>3. CASE j \notin DOMAIN port.q
      <4>1. j = Len(port.q) + 1
        BY <1>1, <2>2, <3>3
      <4>2. port.q[i] \in Open(s)
        BY <3>1 DEF Open, ToSet
      <4>3. QED BY <1>1, <1>6, <3>1, <4>1, <4>2
    <3>4. QED BY <3>2, <3>3
  <2>3. \A h \in InHand(s)', x \in ToSet(port'.q) : Before(h, x)
    BY <1>1, <1>4, <1>6, <2>1 DEF Lined, Open
  <2>4. \A h \in todo', x \in ToSet(port'.q) \cup InHand(s)' : Before(h, x)
    BY <1>1, <1>4, <1>6, <2>1 DEF Lined, Open
  <2>5. \A h, x \in todo' : h.by = x.by => h = x
    BY <2>1 DEF Lined
  <2>6. QED BY <2>2, <2>3, <2>4, <2>5 DEF Lined
<1>8. \A x \in Open(s)' : Awaited(x)'
  BY <1>3, <1>5
<1>9. QED BY <1>2, <1>3, <1>7, <1>8 DEF Turn, Stirs

-----------------------------------------------------------------------------
(* Clients' calls                                                           *)
(* An action's lemma is named for it: SendTurn says that Send keeps Turn.   *)

(* Whoever has a portref has one that the server knows, and no unit of its  *)
(* p_iowait is left over.                                                   *)
LEMMA HolderIs ==
    ASSUME IInv, NEW s \in Server, Turn(s), NEW c \in Client, cl[c].pc \in Has
    PROVE  LET r == cl[c].r IN
           /\ r \in Ref /\ ref[r] \in Portref /\ ref[r].st # "FREE" /\ ref[r].port
           /\ cl[c].pc \notin {"dw", "dd"} => Settled(r) /\ Known(s, r)
           /\ ref[r].iowait.cnt \in Int
           /\ ref[r].iowait.cnt > 0 => cl[c].pc = "intr" /\ ref[r].st = "IODONE"
           /\ \A d \in Client \ {c} : Active(d) => cl[d].r # r
           /\ cl[c].pc \notin Clones => cl[c].n = NoRef
<1> DEFINE r == cl[c].r
<1>1. /\ r \in Ref /\ ref[r].st # "FREE" /\ ref[r] \in Portref
      /\ \A d \in Client \ {c} : cl[d].r = r => cl[d].pc \in Asks
      /\ \A d \in Client : cl[d].pc \in Clones => cl[d].n # r
  BY OneUser
<1>2. ref[r].port
  BY <1>1 DEF Turn, Agreed
<1>3. \A d \in Client : cl[d].pc \notin Clones => cl[d].n = NoRef
  BY DEF IInv, Shapes, ClientShape
<1>4. ASSUME cl[c].pc \notin {"dw", "dd"} PROVE Settled(r) /\ Known(s, r)
  <2>1. Settled(r)
    <3>1. ASSUME NEW d \in Client PROVE cl[d].n # r
      BY <1>1, <1>3, RefAssumption
    <3>2. ASSUME NEW d \in Client, cl[d].r = r
          PROVE  cl[d].pc \notin {"cw", "cd", "dw", "dd"}
      BY <1>1, <1>4, <3>2 DEF Asks, Has
    <3>3. QED BY <1>1, <3>1, <3>2 DEF Settled
  <2>2. QED BY <1>1, <2>1 DEF Turn, Hashed, Placed
<1>5. ref[r].iowait.cnt \in Int
  BY <1>1 DEF Portref, Sema
<1>6. ASSUME ref[r].iowait.cnt > 0 PROVE cl[c].pc = "intr" /\ ref[r].st = "IODONE"
  <2>1. PICK d \in Client : cl[d].r = r /\ cl[d].pc = "intr" /\ ref[r].st = "IODONE"
    BY <1>1, <1>6 DEF Turn, Agreed, Unit
  <2>2. d = c
    BY <1>1, <2>1 DEF Asks
  <2>3. QED BY <2>1, <2>2
<1>7. \A d \in Client \ {c} : Active(d) => cl[d].r # r
  BY <1>1 DEF Active, Asks
<1>8. QED BY <1>1, <1>2, <1>3, <1>4, <1>5, <1>6, <1>7

(* Nobody else is affected by a step of c with its portref. *)
LEMMA HolderActor ==
    ASSUME IInv, NEW s \in Server, Turn(s), NEW c \in Client,
           cl[c].pc \in Has \ Clones,
           \A d \in Client \ {c} : cl'[d] = cl[d],
           \A x \in Ref \ {cl[c].r} : ref'[x] = ref[x]
    PROVE  Actor(c, {cl[c].r})
<1>1. /\ \A d \in Client \ {c} : Active(d) => cl[d].r # cl[c].r
      /\ cl[c].n = NoRef
  BY HolderIs
<1>2. \A d \in Client \ {c} : Rest(d)
  BY DEF Rest
<1>3. QED BY <1>1, <1>2 DEF Actor

(* Where no state of a portref changes, and no client that waits moves. *)
LEMMA QuietTurn ==
    ASSUME IInv, NEW s \in Server, Turn(s), NEW c \in Client, Stirs(s),
           \A d \in Client \ {c} : Rest(d),
           ~ Active(c), ~ Active(c)', cl'[c].arg = "own",
           \A x \in Ref : /\ ref'[x].st = ref[x].st /\ ref'[x].msg = ref[x].msg
                          /\ ref'[x].port = ref[x].port
                          /\ ref'[x].iowait.cnt = ref[x].iowait.cnt,
           UNCHANGED <<port, prefs, todo, panic>>
    PROVE  Turn(s)'
<1>1. cl[c].n = NoRef
  BY DEF IInv, Shapes, ClientShape, Clones, Active
<1>2. Actor(c, {})
  BY <1>1 DEF Actor, Active
<1>3. Agrees(c)'
  BY DEF Agrees, Active
<1>4. Joining(s, c)'
  BY DEF Joining, Active
<1>5. \A m \in Open(s) : m.by # c
  BY NoneOpen DEF Active
<1>6. QED BY <1>2, <1>3, <1>4, <1>5, ActorTurn

LEMMA LookupTurn ==
    ASSUME IInv, NEW s \in Server, Turn(s), NEW c \in Client, NEW r \in Ref,
           NEW op, Lookup(c, r, op) \/ (Disconnect(c, r) /\ op = "disconnect")
    PROVE  Turn(s)'
<1> DEFINE p == cl'[c].pc
<1>1. /\ ref \in [Ref -> Portref] /\ cl \in [Client -> ClientThread]
      /\ UNCHANGED <<port, prefs, sv, todo, panic>> /\ cl[c].pc = "idle"
  BY DEF Lookup, Disconnect, IInv, Types, At
<1>2. \A x \in Ref : /\ ref'[x].st = ref[x].st /\ ref'[x].msg = ref[x].msg
                     /\ ref'[x].port = ref[x].port /\ ref'[x].iowait = ref[x].iowait
  BY <1>1 DEF Lookup, Disconnect, Portref
<1>3. \A d \in Client \ {c} : cl'[d] = cl[d]
  BY <1>1 DEF Lookup, Disconnect
<1>4. /\ cl'[c].arg = "own" /\ p \in {"psema", "have", "dpsema", "dhave"}
  BY <1>1 DEF Lookup, Disconnect, ClientThread
<1>5. \A d \in Client \ {c} : Rest(d)
  BY <1>3 DEF Rest
<1>6. Stirs(s)
  BY <1>1 DEF Stirs
<1>7. ~ Active(c) /\ ~ Active(c)'
  BY <1>1, <1>4 DEF Active
<1>8. QED BY <1>1, <1>2, <1>4, <1>5, <1>6, <1>7, QuietTurn

LEMMA LookupIntrTurn ==
    ASSUME IInv, NEW s \in Server, Turn(s), NEW c \in Client, LookupIntr(c)
    PROVE  Turn(s)'
<1>1. /\ ref \in [Ref -> Portref] /\ cl \in [Client -> ClientThread]
      /\ UNCHANGED <<port, prefs, sv, todo, panic>> /\ cl[c].pc = "psema"
  BY DEF LookupIntr, IInv, Types, At
<1>2. \A x \in Ref : /\ ref'[x].st = ref[x].st /\ ref'[x].msg = ref[x].msg
                     /\ ref'[x].port = ref[x].port /\ ref'[x].iowait = ref[x].iowait
  BY <1>1 DEF LookupIntr, Portref
<1>3. \A d \in Client \ {c} : cl'[d] = cl[d]
  BY <1>1 DEF LookupIntr
<1>4. cl'[c] = IdleCl(cl[c].bit)
  BY <1>1 DEF LookupIntr
<1>5. \A d \in Client \ {c} : Rest(d)
  BY <1>3 DEF Rest
<1>6. Stirs(s)
  BY <1>1 DEF Stirs
<1>7. ~ Active(c) /\ ~ Active(c)' /\ cl'[c].arg = "own"
  BY <1>1, <1>4 DEF Active, IdleCl
<1>8. QED BY <1>1, <1>2, <1>5, <1>6, <1>7, QuietTurn

LEMMA ReleaseTurn ==
    ASSUME IInv, NEW s \in Server, Turn(s), NEW c \in Client, Release(c)
    PROVE  Turn(s)'
<1> DEFINE r == cl[c].r
           g == [cl EXCEPT ![c] = IdleCl(@.bit)]
<1>1. /\ ref \in [Ref -> Portref] /\ cl \in [Client -> ClientThread]
      /\ UNCHANGED <<port, prefs, sv, todo, panic>> /\ cl[c].pc = "rel"
      /\ cl[c].pc \in Has
  BY DEF Release, IInv, Types, At, Has
<1>2. r \in Ref
  BY <1>1, OneUser
<1>3. \A x \in Ref : /\ ref'[x].st = ref[x].st /\ ref'[x].msg = ref[x].msg
                     /\ ref'[x].port = ref[x].port /\ ref'[x].iowait = ref[x].iowait
  BY <1>1 DEF Release, Portref
<1>4. VWakes(ref[r].sema) \subseteq Askers(r)
  <2>1. PICK q, A, H : q = ref[r].sema /\ A = Askers(r) /\ H = Holders(r)
    OBVIOUS
  <2>2. HeldBy(q, Client, A, H)
    BY <1>2, <2>1 DEF IInv, Locked
  <2>3. c \in H
    BY <1>1, <2>1 DEF Holders
  <2>4. VWakes(q) \subseteq A
    BY <2>2, <2>3, HeldGive
  <2>5. QED BY <2>1, <2>4
<1>5. cl' = Wake(g, ref[r].sema)
  BY DEF Release
<1>6. ASSUME NEW d \in Client \ {c} PROVE Rest(d)
  <2>1. g[d] = cl[d] /\ cl[d] \in ClientThread
    BY <1>1
  <2>2. cl'[d] = IF d \in VWakes(ref[r].sema) THEN [cl[d] EXCEPT !.pc = WakeTo[cl[d].pc]]
                 ELSE cl[d]
    BY <1>1, <1>5, <2>1 DEF Wake
  <2>3. CASE d \in VWakes(ref[r].sema)
    <3>1. cl[d].pc \in {"psema", "dpsema"}
      BY <1>4, <2>3 DEF Askers, Asks
    <3>2. WakeTo[cl[d].pc] \in {"have", "dhave"}
      BY <3>1, WokenTo
    <3>3. QED BY <2>1, <2>2, <2>3, <3>1, <3>2 DEF Rest, ClientThread
  <2>4. CASE d \notin VWakes(ref[r].sema)
    BY <2>2, <2>4 DEF Rest
  <2>5. QED BY <2>3, <2>4
<1>7. cl'[c] = IdleCl(cl[c].bit)
  <2>1. c \notin VWakes(ref[r].sema)
    BY <1>1, <1>4 DEF Askers, Asks
  <2>2. QED BY <1>1, <1>5, <2>1 DEF Wake
<1>8. Stirs(s)
  BY <1>1 DEF Stirs
<1>9. ~ Active(c) /\ ~ Active(c)' /\ cl'[c].arg = "own"
  BY <1>1, <1>7 DEF Active, IdleCl
<1>10. QED BY <1>1, <1>3, <1>6, <1>8, <1>9, QuietTurn

(* A client that has a portref goes on, and only it changes.                *)
Goes(s, c, r, k, e) ==
    /\ cl[c].pc \in Has \ Clones /\ cl[c].pc \notin {"dw", "dd"} /\ r = cl[c].r
    /\ k \in ClientThread /\ e \in Portref /\ k.r = r
    /\ cl' = [cl EXCEPT ![c] = k] /\ ref' = [ref EXCEPT ![r] = e]
    /\ k.pc \notin Clones \cup {"cw", "cd"}
    /\ e.st # "FREE" /\ e.port = ref[r].port
    /\ e.iowait.cnt > 0 => k.pc = "intr" /\ e.st = "IODONE"
    /\ Stirs(s) /\ UNCHANGED <<prefs, todo, panic>>

LEMMA GoesIs ==
    ASSUME IInv, NEW s \in Server, Turn(s), NEW c \in Client, NEW r, NEW k, NEW e,
           Goes(s, c, r, k, e)
    PROVE  /\ r \in Ref /\ ref'[r] = e /\ cl'[c] = k /\ Actor(c, {r})
           /\ \A x \in Ref \cap {r} : /\ ref'[x].st # "FREE" => ref'[x].port
                                      /\ ref'[x].iowait.cnt > 0 => Unit(x)'
                                      /\ Settled(x)' => Known(s, x)
                                      /\ ref'[x].st = "FREE" => Unknown(x)
           /\ Known(s, r) /\ (k.pc # "dd" => Joining(s, c)')
<1>1. /\ cl[c].pc \in Has \ Clones /\ cl[c].pc \notin {"dw", "dd"} /\ r = cl[c].r
      /\ cl' = [cl EXCEPT ![c] = k] /\ ref' = [ref EXCEPT ![r] = e]
      /\ k.pc \notin Clones \cup {"cw", "cd"} /\ k.r = r
      /\ e.st # "FREE" /\ e.port = ref[r].port
      /\ e.iowait.cnt > 0 => k.pc = "intr" /\ e.st = "IODONE"
  BY DEF Goes
<1>2. ref \in [Ref -> Portref] /\ cl \in [Client -> ClientThread]
  BY DEF IInv, Types
<1>3. r \in Ref /\ ref[r].port /\ Known(s, r)
  BY <1>1, HolderIs
<1>4. /\ ref'[r] = e /\ cl'[c] = k /\ \A d \in Client \ {c} : cl'[d] = cl[d]
      /\ \A x \in Ref \ {r} : ref'[x] = ref[x]
  BY <1>1, <1>2, <1>3
<1>5. Actor(c, {r})
  BY <1>1, <1>4, HolderActor
<1>6. e.iowait.cnt > 0 => Unit(r)'
  BY <1>1, <1>4 DEF Unit
<1>7. k.pc # "dd" => Joining(s, c)'
  BY <1>1, <1>4 DEF Joining, Clones
<1>8. QED BY <1>1, <1>3, <1>4, <1>5, <1>6, <1>7

LEMMA GoesTurn ==
    ASSUME IInv, NEW s \in Server, Turn(s), NEW c \in Client, NEW r, NEW k, NEW e,
           Goes(s, c, r, k, e), k.pc # "dd", UNCHANGED port,
           Agrees(c)', \A m \in Open(s) : m.by = c => Awaited(m)'
    PROVE  Turn(s)'
<1>1. /\ r \in Ref /\ ref'[r] = e /\ cl'[c] = k /\ Actor(c, {r})
      /\ \A x \in Ref \cap {r} : /\ ref'[x].st # "FREE" => ref'[x].port
                                 /\ ref'[x].iowait.cnt > 0 => Unit(x)'
                                 /\ Settled(x)' => Known(s, x)
                                 /\ ref'[x].st = "FREE" => Unknown(x)
      /\ Known(s, r) /\ (k.pc # "dd" => Joining(s, c)')
  BY GoesIs
<1>2. Stirs(s) /\ UNCHANGED <<prefs, todo, panic>>
  BY DEF Goes
<1>3. Joining(s, c)'
  BY <1>1
<1>4. QED BY ONLY <1>1, <1>2, <1>3, ActorTurn, IInv, Turn(s), s \in Server, c \in Client,
                  UNCHANGED port, Agrees(c)', \A m \in Open(s) : m.by = c => Awaited(m)'


LEMMA LookupGoneTurn ==
    ASSUME IInv, NEW s \in Server, Turn(s), NEW c \in Client, LookupGone(c)
    PROVE  Turn(s)'
<1>1. cl[c].pc \in Has /\ ~ ref[cl[c].r].port
  BY DEF LookupGone, At, Has
<1>2. QED BY <1>1, HolderIs

LEMMA SendIntrTurn ==
    ASSUME IInv, NEW s \in Server, Turn(s), NEW c \in Client, SendIntr(c)
    PROVE  Turn(s)'
<1>1. PICK r : r = cl[c].r
  OBVIOUS
<1> DEFINE w == DqSema(ref[r].iowait, c)
           k == [cl[c] EXCEPT !.pc = "intr"]
           e == [ref[r] EXCEPT !.iowait = w]
<1>2. /\ cl[c].pc = "iow" /\ cl[c].pc \in Has \ Clones
      /\ ref' = [ref EXCEPT ![r].iowait = w] /\ cl' = [cl EXCEPT ![c].pc = "intr"]
      /\ UNCHANGED <<port, prefs, sv, todo, panic>>
  BY <1>1 DEF SendIntr, At, Has, Clones
<1>3. /\ r \in Ref /\ ref = [x \in Ref |-> ref[x]] /\ ref[r] \in Portref
      /\ cl[c] \in ClientThread /\ cl = [d \in Client |-> cl[d]] /\ ref[r].st # "FREE"
  BY <1>1, <1>2, IoIs
<1>4. ref[r].st = "IOWAIT" /\ ref[r].msg = {c} /\ cl[c].arg # "stale"
  BY <1>1, <1>2 DEF Turn, Agreed, Agrees
<1>5. w \in Sema(Client) /\ ~ w.cnt > 0
  <2>1. PICK q, L : q = ref[r].iowait /\ L = Waiters(r)
    OBVIOUS
  <2>2. SleptOn(q, Client, L) /\ c \in L
    BY <1>1, <1>2, <1>3, <2>1 DEF IInv, Waiting, Waiters, IoPcs
  <2>3. /\ SleptOn(DqSema(q, c), Client, L \ {c})
        /\ DqSema(q, c).cnt = q.cnt + 1 /\ q.cnt < 0 /\ q.cnt \in Int
    BY <2>2, SleptLeave
  <2>4. DqSema(q, c) \in Sema(Client) /\ ~ DqSema(q, c).cnt > 0
    BY <2>3 DEF SleptOn, SemaType, Sema
  <2>5. QED BY <2>1, <2>4
<1> HIDE DEF w
<1>6. /\ k \in ClientThread /\ k.pc = "intr" /\ k.r = r /\ k.bit = cl[c].bit
      /\ k.n = cl[c].n /\ k.arg = cl[c].arg
      /\ e \in Portref /\ e.st = ref[r].st /\ e.msg = ref[r].msg /\ e.iowait = w
      /\ e.port = ref[r].port
  BY <1>1, <1>3, <1>5 DEF ClientThread, Portref, Has
<1>7. cl' = [cl EXCEPT ![c] = k] /\ ref' = [ref EXCEPT ![r] = e]
  BY <1>2, <1>3 DEF Portref, ClientThread
<1> HIDE DEF k, e
<1>8. Goes(s, c, r, k, e)
  BY <1>1, <1>2, <1>3, <1>5, <1>6, <1>7 DEF Goes, Stirs, Clones
<1>9. r \in Ref /\ ref'[r] = e /\ cl'[c] = k
  BY <1>8, GoesIs
<1>10. Agrees(c)'
  BY <1>4, <1>6, <1>9 DEF Agrees
<1>11. ASSUME NEW m \in Open(s), m.by = c PROVE Awaited(m)'
  <2>1. Awaited(m) /\ m \in Message
    BY OpenIs DEF Turn
  <2>2. m.op = "req" /\ m.r = r
    BY <1>1, <1>2, <1>11, <2>1 DEF Awaited, Message, MsgOp
  <2>3. QED BY <1>1, <1>4, <1>6, <1>9, <1>11, <2>1, <2>2 DEF Awaited
<1>12. QED BY <1>2, <1>6, <1>8, <1>10, <1>11, GoesTurn

LEMMA AbortLateTurn ==
    ASSUME IInv, NEW s \in Server, Turn(s), NEW c \in Client, AbortLate(c)
    PROVE  Turn(s)'
<1>1. PICK r : r = cl[c].r
  OBVIOUS
<1> DEFINE w == SetSema(ref[r].iowait, 0)
           k == [cl[c] EXCEPT !.pc = "done", !.arg = "err"]
           e == [ref[r] EXCEPT !.iowait = w]
<1>2. cl[c].pc = "intr" /\ cl[c].pc \in Has \ Clones /\ ref[r].st # "IOWAIT"
  BY <1>1 DEF AbortLate, At, Has, Clones
<1>3. /\ r \in Ref /\ ref = [x \in Ref |-> ref[x]] /\ ref[r] \in Portref
      /\ cl[c] \in ClientThread /\ cl = [d \in Client |-> cl[d]] /\ ref[r].st # "FREE"
  BY <1>1, <1>2, IoIs
<1>4. ref[r].st = "IODONE"
  BY <1>1, <1>2 DEF Turn, Agreed, Agrees
<1>5. /\ ref' = [ref EXCEPT ![r].iowait = w]
      /\ cl' = [cl EXCEPT ![c].pc = "done", ![c].arg = "err"]
      /\ UNCHANGED <<port, prefs, sv, todo, panic>>
  BY <1>1, <1>4 DEF AbortLate
<1>6. w \in Sema(Client) /\ ~ w.cnt > 0
  <2>1. PICK q \in Sema(Client) : q = ref[r].iowait
    BY <1>3 DEF Portref
  <2>2. SetSema(q, 0) \in Sema(Client) /\ SetSema(q, 0).cnt = 0
    BY DEF Sema, SetSema
  <2>3. QED BY <2>1, <2>2
<1> HIDE DEF w
<1>7. /\ k \in ClientThread /\ k.pc = "done" /\ k.r = r /\ k.arg = "err"
      /\ e \in Portref /\ e.st = ref[r].st /\ e.iowait = w /\ e.port = ref[r].port
  BY <1>1, <1>3, <1>6 DEF ClientThread, Portref, Has
<1>8. cl' = [cl EXCEPT ![c] = k] /\ ref' = [ref EXCEPT ![r] = e]
  BY <1>3, <1>5 DEF Portref, ClientThread
<1> HIDE DEF k, e
<1>9. Goes(s, c, r, k, e)
  BY <1>1, <1>2, <1>3, <1>5, <1>6, <1>7, <1>8 DEF Goes, Stirs, Clones
<1>10. r \in Ref /\ ref'[r] = e /\ cl'[c] = k
  BY <1>9, GoesIs
<1>11. Agrees(c)'
  BY <1>7, <1>10 DEF Agrees
<1>12. ASSUME NEW m \in Open(s), m.by = c PROVE FALSE
  <2>1. Awaited(m) /\ m \in Message
    BY OpenIs DEF Turn
  <2>2. QED BY <1>1, <1>2, <1>12, <2>1 DEF Awaited, Message, MsgOp
<1>13. QED BY <1>5, <1>7, <1>9, <1>11, <1>12, GoesTurn

LEMMA AbortedTurn ==
    ASSUME IInv, NEW s \in Server, Turn(s), NEW c \in Client, Aborted(c)
    PROVE  Turn(s)'
<1>1. PICK r : r = cl[c].r
  OBVIOUS
<1> DEFINE k == [cl[c] EXCEPT !.pc = "done", !.arg = "err"]
           e == ref[r]
<1>2. cl[c].pc = "abdone" /\ cl[c].pc \in Has \ Clones
  BY <1>1 DEF Aborted, At, Has, Clones
<1>3. /\ r \in Ref /\ ref = [x \in Ref |-> ref[x]] /\ ref[r] \in Portref
      /\ cl[c] \in ClientThread /\ cl = [d \in Client |-> cl[d]] /\ ref[r].st # "FREE"
  BY <1>1, <1>2, IoIs
<1>4. ref[r].st = "ABDONE"
  BY <1>1, <1>2 DEF Turn, Agreed, Agrees
<1>5. /\ cl' = [cl EXCEPT ![c].pc = "done", ![c].arg = "err"]
      /\ UNCHANGED <<ref, port, prefs, sv, todo, panic>>
  BY <1>1, <1>4 DEF Aborted
<1>6. ~ ref[r].iowait.cnt > 0
  BY <1>1, <1>2, HolderIs
<1>7. k \in ClientThread /\ k.pc = "done" /\ k.r = r /\ k.arg = "err"
  BY <1>1, <1>3 DEF ClientThread, Has
<1>8. cl' = [cl EXCEPT ![c] = k] /\ ref' = [ref EXCEPT ![r] = e]
  BY <1>3, <1>5 DEF ClientThread
<1> HIDE DEF k
<1>9. Goes(s, c, r, k, e)
  BY <1>1, <1>2, <1>3, <1>5, <1>6, <1>7, <1>8 DEF Goes, Stirs, Clones
<1>10. r \in Ref /\ ref'[r] = e /\ cl'[c] = k
  BY <1>9, GoesIs
<1>11. Agrees(c)'
  BY <1>7, <1>10 DEF Agrees
<1>12. \A m \in Open(s) : m.by # c
  BY <1>2, NoneOpen
<1>13. QED BY <1>5, <1>7, <1>9, <1>11, <1>12, GoesTurn

(* The client lets a server thread go that waits for it. *)
LEMMA LetGoStirs ==
    ASSUME IInv, NEW s \in Server, Turn(s), NEW r \in Ref,
           sv' = Wake(sv, ref[r].svwait)
    PROVE  Stirs(s) /\ Let(ref[r].svwait) \in Sema(Server)
<1>1. sv \in [Server -> ServerThread] /\ ref[r] \in Portref
  BY DEF IInv, Types
<1>2. PICK w : w = ref[r].svwait
  OBVIOUS
<1>3. /\ CountsSleepers(w) /\ w \in Sema(Server)
      /\ \A i \in DOMAIN w.q : sv[w.q[i]].pc = "svw"
  BY <1>1, <1>2 DEF IInv, Replied, Portref
<1>4. VWakes(w) \subseteq Server /\ \A x \in VWakes(w) : sv[x].pc = "svw"
  <2>1. CASE w.q = <<>>
    BY <2>1 DEF VWakes
  <2>2. CASE w.q # <<>>
    <3>1. 1 \in DOMAIN w.q /\ Head(w.q) = w.q[1] /\ w.q[1] \in Server
      BY <1>3, <2>2 DEF Sema
    <3>2. QED BY <1>3, <2>2, <3>1 DEF VWakes
  <2>3. QED BY <2>1, <2>2
<1>5. ASSUME NEW x \in Server
      PROVE  /\ x \notin VWakes(w) => sv'[x] = sv[x]
             /\ x \in VWakes(w) => sv'[x] = [sv[x] EXCEPT !.pc = "idle"] /\ sv[x].pc = "svw"
  BY <1>1, <1>2, <1>4, <1>5, WokenTo DEF Wake
<1>6. ASSUME NEW x \in Server \ {s} PROVE sv'[x] = sv[x]
  <2>1. sv[x].pc = "idle"
    BY DEF Turn, IdleSv
  <2>2. QED BY <1>5, <2>1
<1>7. /\ sv'[s].ms = sv[s].ms /\ sv'[s].r = sv[s].r
      /\ sv'[s].pc = sv[s].pc \/ (sv[s].pc \notin Marks /\ sv'[s].pc \notin Marks)
  <2>1. sv[s] \in ServerThread
    BY <1>1
  <2>2. CASE s \in VWakes(w)
    BY <1>5, <2>1, <2>2 DEF Marks, ServerThread
  <2>3. CASE s \notin VWakes(w)
    BY <1>5, <2>3
  <2>4. QED BY <2>2, <2>3
<1>8. Let(w) \in Sema(Server)
  <2>1. CASE w.cnt >= SvCap
    BY <1>3, <2>1 DEF Let
  <2>2. CASE ~ w.cnt >= SvCap
    <3>1. VSema(w) \in Sema(Server)
      BY <1>3, VSemaKeeps DEF SemaType, Sema
    <3>2. QED BY <2>2, <3>1 DEF Let
  <2>3. QED BY <2>1, <2>2
<1>9. QED BY <1>2, <1>6, <1>7, <1>8 DEF Stirs

LEMMA DoneTurn ==
    ASSUME IInv, NEW s \in Server, Turn(s), NEW c \in Client, Done(c)
    PROVE  Turn(s)'
<1>1. PICK r : r = cl[c].r
  OBVIOUS
<1> DEFINE w == Let(ref[r].svwait)
           k == [cl[c] EXCEPT !.pc = "rel"]
           e == [ref[r] EXCEPT !.svwait = w]
<1>2. /\ cl[c].pc = "done" /\ cl[c].pc \in Has \ Clones
      /\ ref' = [ref EXCEPT ![r].svwait = w] /\ cl' = [cl EXCEPT ![c].pc = "rel"]
      /\ sv' = Wake(sv, ref[r].svwait)
      /\ UNCHANGED <<port, prefs, todo, panic>>
  BY <1>1, ClIs DEF Done, At, Has, Clones
<1>3. /\ r \in Ref /\ ref = [x \in Ref |-> ref[x]] /\ ref[r] \in Portref
      /\ cl[c] \in ClientThread /\ cl = [d \in Client |-> cl[d]] /\ ref[r].st # "FREE"
  BY <1>1, <1>2, IoIs
<1>4. cl[c].arg # "stale"
  BY DEF Turn, Agreed, Agrees
<1>5. ~ ref[r].iowait.cnt > 0
  BY <1>1, <1>2, HolderIs
<1>6. Stirs(s) /\ w \in Sema(Server)
  BY <1>2, <1>3, LetGoStirs
<1> HIDE DEF w
<1>7. /\ k \in ClientThread /\ k.pc = "rel" /\ k.r = r /\ k.arg = cl[c].arg
      /\ e \in Portref /\ e.st = ref[r].st /\ e.iowait = ref[r].iowait
      /\ e.port = ref[r].port
  BY <1>1, <1>3, <1>6 DEF ClientThread, Portref, Has
<1>8. cl' = [cl EXCEPT ![c] = k] /\ ref' = [ref EXCEPT ![r] = e]
  BY <1>2, <1>3 DEF Portref, ClientThread
<1> HIDE DEF k, e
<1>9. Goes(s, c, r, k, e)
  BY <1>1, <1>2, <1>3, <1>5, <1>6, <1>7, <1>8 DEF Goes, Clones
<1>10. r \in Ref /\ ref'[r] = e /\ cl'[c] = k
  BY <1>9, GoesIs
<1>11. Agrees(c)'
  BY <1>4, <1>7, <1>10 DEF Agrees
<1>12. \A m \in Open(s) : m.by # c
  BY <1>2, NoneOpen
<1>13. QED BY <1>2, <1>7, <1>9, <1>11, <1>12, GoesTurn

(* A message queued may wake the receiver. *)
LEMMA QueueStirs ==
    ASSUME IInv, NEW s \in Server, Turn(s), NEW m \in Message,
           port' = Queue(m), sv' = Wake(sv, port.wait)
    PROVE  /\ Stirs(s) /\ port'.st = port.st /\ port'.refs = port.refs
           /\ port'.q = Append(port.q, m)
<1>1. /\ port'.q = Append(port.q, m) /\ port'.refs = port.refs /\ port'.st = port.st
      /\ \A x \in Server :
            \/ sv'[x] = sv[x]
            \/ sv[x].pc = "rwait" /\ sv'[x] = [sv[x] EXCEPT !.pc = "got"]
  BY QueueStep DEF IInv
<1>2. ASSUME NEW x \in Server \ {s} PROVE sv'[x] = sv[x]
  <2>1. sv[x].pc # "rwait"
    BY DEF Turn, IdleSv
  <2>2. QED BY <1>1, <2>1
<1>3. sv[s] \in ServerThread
  BY DEF IInv, Types
<1>4. /\ sv'[s].ms = sv[s].ms /\ sv'[s].r = sv[s].r
      /\ sv'[s].pc = sv[s].pc \/ (sv[s].pc \notin Marks /\ sv'[s].pc \notin Marks)
  BY <1>1, <1>3 DEF ServerThread, Marks
<1>5. QED BY <1>1, <1>2, <1>4 DEF Stirs

(* A client that has a portref sends a message and waits for the answer.    *)
Posts(s, c, r, k, e, op, m) ==
    /\ cl[c].pc \in Has \ (Clones \cup IoPcs) /\ cl[c].pc \notin {"dw", "dd"} /\ r = cl[c].r
    /\ op \in {"req", "abort", "disconnect"} /\ m = MsgOf(c, op)
    /\ k = [cl[c] EXCEPT !.pc = CASE op = "req" -> "iow"
                                  [] op = "abort" -> "abw"
                                  [] op = "disconnect" -> "dw"]
    /\ \E st \in {"IOWAIT", "ABWAIT", "CLOSING"}, msg \in {{c}, ref[r].msg} :
          e = [ref[r] EXCEPT !.st = st, !.iowait = PSema(@, c), !.msg = msg]
    /\ cl' = [cl EXCEPT ![c] = k] /\ ref' = [ref EXCEPT ![r] = e]
    /\ port' = Queue(m) /\ sv' = Wake(sv, port.wait)
    /\ UNCHANGED <<prefs, todo, panic>>

(* Where p_iowait has no unit, the client sleeps. *)
LEMMA MustSleep ==
    ASSUME IInv, NEW s \in Server, Turn(s), NEW c \in Client,
           cl[c].pc \in Has \ IoPcs, cl[c].pc # "intr" \/ ref[cl[c].r].st # "IODONE"
    PROVE  ref[cl[c].r].iowait.cnt = 0 /\ PSleeps(ref[cl[c].r].iowait)
<1>1. PICK q : q = ref[cl[c].r].iowait
  OBVIOUS
<1>2. q.cnt \in Int /\ ~ q.cnt > 0
  BY <1>1, HolderIs
<1>3. SleptOn(q, Client, {})
  BY <1>1, AwakeHolder
<1>4. q.cnt \in Nat
  BY <1>3, NoSleeper
<1>5. q.cnt = 0
  BY <1>2, <1>4
<1>6. QED BY <1>1, <1>5 DEF PSleeps

LEMMA PostsTurn ==
    ASSUME IInv, NEW s \in Server, Turn(s), NEW c \in Client, NEW r, NEW k, NEW e,
           NEW op, NEW m, Posts(s, c, r, k, e, op, m), ref[r].iowait.cnt = 0,
           e.st = CASE op = "req" -> "IOWAIT" [] op = "abort" -> "ABWAIT"
                    [] op = "disconnect" -> "CLOSING",
           op \in {"req", "abort"} => e.msg = {c},
           \A x \in Open(s) : x.by = c => op = "abort" /\ x.op = "req"
    PROVE  Turn(s)'
<1>1. /\ cl[c].pc \in Has \ (Clones \cup IoPcs) /\ cl[c].pc \notin {"dw", "dd"}
      /\ r = cl[c].r /\ op \in {"req", "abort", "disconnect"} /\ m = MsgOf(c, op)
      /\ k = [cl[c] EXCEPT !.pc = CASE op = "req" -> "iow"
                                  [] op = "abort" -> "abw"
                                  [] op = "disconnect" -> "dw"]
      /\ \E st \in {"IOWAIT", "ABWAIT", "CLOSING"}, msg \in {{c}, ref[r].msg} :
            e = [ref[r] EXCEPT !.st = st, !.iowait = PSema(@, c), !.msg = msg]
      /\ cl' = [cl EXCEPT ![c] = k] /\ ref' = [ref EXCEPT ![r] = e]
      /\ port' = Queue(m) /\ sv' = Wake(sv, port.wait)
      /\ UNCHANGED <<prefs, todo, panic>>
  BY DEF Posts
<1>2. PICK st \in {"IOWAIT", "ABWAIT", "CLOSING"}, msg \in {{c}, ref[r].msg} :
         e = [ref[r] EXCEPT !.st = st, !.iowait = PSema(@, c), !.msg = msg]
  BY <1>1
<1>3. /\ r \in Ref /\ ref = [x \in Ref |-> ref[x]] /\ ref[r] \in Portref
      /\ cl[c] \in ClientThread /\ cl = [d \in Client |-> cl[d]] /\ ref[r].st # "FREE"
      /\ ref[r].msg \in SUBSET Client
  BY <1>1, IoIs
<1>4. PICK w : w = PSema(ref[r].iowait, c)
  OBVIOUS
<1>5. w \in Sema(Client) /\ ~ w.cnt > 0
  <2>1. PICK q \in Sema(Client) : q = ref[r].iowait
    BY <1>3 DEF Portref
  <2>2. PSema(q, c) \in Sema(Client) /\ PSema(q, c).cnt = q.cnt - 1
    BY DEF PSema, PSleeps, Sema
  <2>3. ~ PSema(q, c).cnt > 0
    BY <2>1, <2>2
  <2>4. QED BY <1>4, <2>1, <2>2, <2>3
<1>6. /\ k \in ClientThread /\ k.r = r /\ k.bit = cl[c].bit /\ k.n = cl[c].n
      /\ k.arg = cl[c].arg
      /\ k.pc = CASE op = "req" -> "iow" [] op = "abort" -> "abw"
                  [] op = "disconnect" -> "dw"
  BY <1>1, <1>3 DEF ClientThread, Has
<1>7. e \in Portref /\ e.iowait = w /\ e.port = ref[r].port /\ e.st # "FREE"
  BY <1>2, <1>3, <1>4, <1>5 DEF Portref, RefState
<1>a. /\ k.pc \in {"iow", "abw", "dw"} 
      /\ op = "req" => k.pc = "iow" /\ e.st = "IOWAIT" /\ e.msg = {c}
      /\ op = "abort" => k.pc = "abw" /\ e.st = "ABWAIT" /\ e.msg = {c}
      /\ op = "disconnect" => k.pc = "dw" /\ e.st = "CLOSING"
      /\ op \in {"req", "abort", "disconnect"}
  BY <1>1, <1>6
<1>b. /\ cl[c].pc \in Has \ Clones /\ cl[c].pc \notin {"dw", "dd"} /\ r = cl[c].r
      /\ cl' = [cl EXCEPT ![c] = k] /\ ref' = [ref EXCEPT ![r] = e]
      /\ UNCHANGED <<prefs, todo, panic>>
  BY <1>1
<1>8. m \in Message /\ m.by = c /\ m.op = op /\ m.r = r /\ m.bit = cl[c].bit
  <2>1. op \in MsgOp /\ cl[c].pc \in Has
    BY <1>1 DEF MsgOp
  <2>2. m \in Message
    BY <1>1, <2>1, MsgOfIs
  <2>3. QED BY <1>1, <2>2 DEF MsgOf
<1>9. /\ Stirs(s) /\ port'.st = port.st /\ port'.refs = port.refs
      /\ port'.q = Append(port.q, m)
  BY <1>1, <1>8, QueueStirs
<1>10. Goes(s, c, r, k, e)
  BY ONLY <1>a, <1>b, <1>5, <1>6, <1>7, <1>9 DEF Goes, Clones
<1>11. /\ r \in Ref /\ ref'[r] = e /\ cl'[c] = k /\ Actor(c, {r})
       /\ \A x \in Ref \cap {r} : /\ ref'[x].st # "FREE" => ref'[x].port
                                  /\ ref'[x].iowait.cnt > 0 => Unit(x)'
                                  /\ Settled(x)' => Known(s, x)
                                  /\ ref'[x].st = "FREE" => Unknown(x)
       /\ Known(s, r) /\ (k.pc # "dd" => Joining(s, c)')
  BY ONLY <1>10, GoesIs, IInv, Turn(s), s \in Server, c \in Client
<1>12. Joining(s, c)'
  BY ONLY <1>a, <1>11
<1>13. Agrees(c)'
  <2>1. cl[c].arg # "stale"
    BY DEF Turn, Agreed, Agrees
  <2>2. QED BY ONLY <1>a, <1>6, <1>11, <2>1 DEF Agrees
<1>14. Awaited(m)'
  BY ONLY <1>a, <1>6, <1>8, <1>11 DEF Awaited
<1>15. Queued(s, m)
  BY ONLY <1>a, <1>8, <1>11 DEF Queued
<1>16. ASSUME NEW x \in Open(s), x.by = c PROVE Awaited(x)' /\ Before(x, m)
  <2>1. Awaited(x)
    BY DEF Turn
  <2>2. op = "abort" /\ x.op = "req"
    BY <1>16
  <2>3. QED BY ONLY <1>a, <1>b, <1>6, <1>8, <1>11, <1>16, <2>1, <2>2 DEF Awaited, Before
<1>17. \A x \in Open(s) : x.by = c => Awaited(x)' /\ Before(x, m)
  BY <1>16
<1>18. QED BY ONLY <1>1, <1>8, <1>9, <1>11, <1>12, <1>13, <1>14, <1>15, <1>17,
                   SenderTurn, IInv, Turn(s), s \in Server, c \in Client

LEMMA SendTurn ==
    ASSUME IInv, NEW s \in Server, Turn(s), NEW c \in Client, Send(c)
    PROVE  Turn(s)'
<1>1. PICK r : r = cl[c].r
  OBVIOUS
<1> DEFINE k == [cl[c] EXCEPT !.pc = "iow"]
           e == [ref[r] EXCEPT !.st = "IOWAIT", !.iowait = PSema(@, c), !.msg = {c}]
<1>2. cl[c].pc = "have" /\ cl[c].pc \in Has \ (Clones \cup IoPcs) /\ cl[c].pc \in Has \ IoPcs
  BY DEF Send, At, Has, Clones, IoPcs
<1>3. ref[r].iowait.cnt = 0
  BY <1>1, <1>2, MustSleep
<1>4. /\ ref' = [ref EXCEPT ![r].st = "IOWAIT", ![r].msg = {c}, ![r].iowait = PSema(@, c)]
      /\ port' = Queue(MsgOf(c, "req")) /\ cl' = [cl EXCEPT ![c].pc = "iow"]
      /\ sv' = Wake(sv, port.wait) /\ UNCHANGED <<prefs, todo, panic>>
  BY <1>1, <1>3 DEF Send, Post
<1>5. /\ r \in Ref /\ ref = [x \in Ref |-> ref[x]] /\ ref[r] \in Portref
      /\ cl[c] \in ClientThread /\ cl = [d \in Client |-> cl[d]]
  BY <1>1, <1>2, IoIs
<1>6. cl' = [cl EXCEPT ![c] = k] /\ ref' = [ref EXCEPT ![r] = e]
  BY <1>4, <1>5, ZenonT(60) DEF Portref, ClientThread
<1>7. e.st = "IOWAIT" /\ e.msg = {c}
  BY <1>5 DEF Portref
<1>8. \A x \in Open(s) : x.by # c
  BY <1>2, NoneOpen
<1>9. PICK m : m = MsgOf(c, "req")
  OBVIOUS
<1>10. \E st \in {"IOWAIT", "ABWAIT", "CLOSING"}, msg \in {{c}, ref[r].msg} :
          e = [ref[r] EXCEPT !.st = st, !.iowait = PSema(@, c), !.msg = msg]
  OBVIOUS
<1> HIDE DEF e
<1>11. Posts(s, c, r, k, e, "req", m)
  BY <1>1, <1>2, <1>4, <1>6, <1>9, <1>10 DEF Posts
<1> HIDE DEF k
<1>12. QED BY <1>3, <1>7, <1>8, <1>11, PostsTurn

LEMMA AbortTurn ==
    ASSUME IInv, NEW s \in Server, Turn(s), NEW c \in Client, Abort(c)
    PROVE  Turn(s)'
<1>1. PICK r : r = cl[c].r
  OBVIOUS
<1> DEFINE k == [cl[c] EXCEPT !.pc = "abw"]
           e == [ref[r] EXCEPT !.st = "ABWAIT", !.iowait = PSema(@, c), !.msg = ref[r].msg]
<1>2. /\ cl[c].pc = "intr" /\ cl[c].pc \in Has \ (Clones \cup IoPcs)
      /\ cl[c].pc \in Has \ IoPcs /\ ref[r].st = "IOWAIT"
  BY <1>1 DEF Abort, At, Has, Clones, IoPcs
<1>3. ref[r].iowait.cnt = 0 /\ PSleeps(ref[r].iowait)
  BY <1>1, <1>2, MustSleep
<1>4. ref[r].port
  BY <1>1, <1>2, HolderIs
<1>5. /\ ref' = [ref EXCEPT ![r].st = "ABWAIT", ![r].iowait = PSema(@, c)]
      /\ port' = Queue(MsgOf(c, "abort")) /\ cl' = [cl EXCEPT ![c].pc = "abw"]
      /\ sv' = Wake(sv, port.wait) /\ UNCHANGED <<prefs, todo, panic>>
  BY <1>1, <1>3, <1>4 DEF Abort
<1>6. /\ r \in Ref /\ ref = [x \in Ref |-> ref[x]] /\ ref[r] \in Portref
      /\ cl[c] \in ClientThread /\ cl = [d \in Client |-> cl[d]]
  BY <1>1, <1>2, IoIs
<1>7. cl' = [cl EXCEPT ![c] = k] /\ ref' = [ref EXCEPT ![r] = e]
  BY <1>5, <1>6, ZenonT(60) DEF Portref, ClientThread
<1>8. e.st = "ABWAIT" /\ e.msg = ref[r].msg
  BY <1>6 DEF Portref
<1>9. e.msg = {c}
  BY <1>1, <1>2, <1>8 DEF Turn, Agreed, Agrees
<1>10. ASSUME NEW x \in Open(s), x.by = c PROVE x.op = "req"
  <2>1. Awaited(x) /\ x \in Message
    BY OpenIs DEF Turn
  <2>2. QED BY <1>2, <1>10, <2>1 DEF Awaited, Message, MsgOp
<1>11. PICK m : m = MsgOf(c, "abort")
  OBVIOUS
<1>12. \E st \in {"IOWAIT", "ABWAIT", "CLOSING"}, msg \in {{c}, ref[r].msg} :
          e = [ref[r] EXCEPT !.st = st, !.iowait = PSema(@, c), !.msg = msg]
  OBVIOUS
<1> HIDE DEF e
<1>13. Posts(s, c, r, k, e, "abort", m)
  BY <1>1, <1>2, <1>5, <1>7, <1>11, <1>12 DEF Posts
<1> HIDE DEF k
<1>14. QED BY <1>3, <1>8, <1>9, <1>10, <1>13, PostsTurn

LEMMA ShutClientTurn ==
    ASSUME IInv, NEW s \in Server, Turn(s), NEW c \in Client, ShutClient(c)
    PROVE  Turn(s)'
<1>1. PICK r : r = cl[c].r
  OBVIOUS
<1> DEFINE k == [cl[c] EXCEPT !.pc = "dw"]
           e == [ref[r] EXCEPT !.st = "CLOSING", !.iowait = PSema(@, c), !.msg = ref[r].msg]
<1>2. /\ cl[c].pc = "dhave" /\ cl[c].pc \in Has \ (Clones \cup IoPcs)
      /\ cl[c].pc \in Has \ IoPcs
  BY <1>1 DEF ShutClient, At, Has, Clones, IoPcs
<1>3. ref[r].iowait.cnt = 0 /\ PSleeps(ref[r].iowait)
  BY <1>1, <1>2, MustSleep
<1>4. ref[r].port
  BY <1>1, <1>2, HolderIs
<1>5. /\ ref' = [ref EXCEPT ![r].st = "CLOSING", ![r].iowait = PSema(@, c)]
      /\ port' = Queue(MsgOf(c, "disconnect")) /\ cl' = [cl EXCEPT ![c].pc = "dw"]
      /\ sv' = Wake(sv, port.wait) /\ UNCHANGED <<prefs, todo, panic>>
  BY <1>1, <1>3, <1>4 DEF ShutClient
<1>6. /\ r \in Ref /\ ref = [x \in Ref |-> ref[x]] /\ ref[r] \in Portref
      /\ cl[c] \in ClientThread /\ cl = [d \in Client |-> cl[d]]
  BY <1>1, <1>2, IoIs
<1>7. cl' = [cl EXCEPT ![c] = k] /\ ref' = [ref EXCEPT ![r] = e]
  BY <1>5, <1>6, ZenonT(60) DEF Portref, ClientThread
<1>8. e.st = "CLOSING" /\ e.msg = ref[r].msg
  BY <1>6 DEF Portref
<1>9. \A x \in Open(s) : x.by # c
  BY <1>2, NoneOpen
<1>10. PICK m : m = MsgOf(c, "disconnect")
  OBVIOUS
<1>11. \E st \in {"IOWAIT", "ABWAIT", "CLOSING"}, msg \in {{c}, ref[r].msg} :
          e = [ref[r] EXCEPT !.st = st, !.iowait = PSema(@, c), !.msg = msg]
  OBVIOUS
<1> HIDE DEF e
<1>12. Posts(s, c, r, k, e, "disconnect", m)
  BY <1>1, <1>2, <1>5, <1>7, <1>10, <1>11 DEF Posts
<1> HIDE DEF k
<1>13. QED BY <1>3, <1>8, <1>9, <1>12, PostsTurn

(* A portref is freed, or given to its client, by the one who has it alone. *)
LEMMA AloneActor ==
    ASSUME NEW c \in Client, NEW r \in Ref, cl[c].r = r, cl[c].n = NoRef,
           \A d \in Client \ {c} : Stranger(d, r) /\ cl'[d] = cl[d],
           \A x \in Ref \ {r} : ref'[x] = ref[x]
    PROVE  Actor(c, {r})
<1>1. \A d \in Client \ {c} : Rest(d)
  BY DEF Rest
<1>2. QED BY <1>1 DEF Actor, Stranger

LEMMA ConnectedTurn ==
    ASSUME IInv, NEW s \in Server, Turn(s), NEW c \in Client, Connected(c)
    PROVE  Turn(s)'
<1>1. PICK r : r = cl[c].r
  OBVIOUS
<1>2. cl[c].pc = "cd" /\ cl[c].pc \in Joins /\ cl[c].pc \notin Clones
  BY DEF Connected, At, Joins, Clones
<1>3. /\ r \in Ref /\ ref[r].st # "FREE" /\ ref[r] \in Portref
      /\ \A d \in Client \ {c} : Stranger(d, r)
  BY <1>1, <1>2, OnlyUser
<1>4. /\ ref \in [Ref -> Portref] /\ cl \in [Client -> ClientThread] /\ cl[c].n = NoRef
  BY <1>2 DEF IInv, Types, Shapes, ClientShape
<1>5. /\ cl' = [cl EXCEPT ![c] = IdleCl(@.bit)]
      /\ ref' = [ref EXCEPT ![r] = IF ref[r].port /\ ref[r].st = "IODONE"
                                   THEN [@ EXCEPT !.fd = TRUE] ELSE FreeRef]
      /\ UNCHANGED <<port, prefs, sv, todo, panic>>
  BY <1>1 DEF Connected
<1>6. /\ cl'[c] = IdleCl(cl[c].bit) /\ \A d \in Client \ {c} : cl'[d] = cl[d]
  BY <1>4, <1>5
<1>7. /\ \A x \in Ref \ {r} : ref'[x] = ref[x]
      /\ ref'[r] = IF ref[r].port /\ ref[r].st = "IODONE"
                   THEN [ref[r] EXCEPT !.fd = TRUE] ELSE FreeRef
  BY <1>3, <1>4, <1>5
<1>8. /\ ref[r].port /\ ref[r].st \in {"IODONE", "ABDONE"} /\ Agrees(c)
      /\ ref[r].iowait.cnt > 0 => Unit(r)
  BY <1>1, <1>2, <1>3 DEF Turn, Agreed, Agrees
<1>9. ~ ref[r].iowait.cnt > 0
  BY <1>1, <1>2, <1>3, <1>8 DEF Unit, Stranger
<1>10. Actor(c, {r})
  BY <1>1, <1>3, <1>4, <1>6, <1>7, AloneActor
<1>11. IF ref[r].st = "IODONE" THEN Known(s, r) ELSE Unknown(r)
  BY <1>1, <1>2 DEF Turn, Hashed, Placed, Joining
<1>12. /\ ref'[r].st # "FREE" => ref'[r].port /\ Known(s, r)
       /\ ref'[r].st = "FREE" => Unknown(r)
       /\ ~ ref'[r].iowait.cnt > 0
  <2>1. CASE ref[r].st = "IODONE"
    BY <1>3, <1>7, <1>8, <1>9, <1>11, <2>1 DEF Portref
  <2>2. CASE ref[r].st # "IODONE"
    BY <1>7, <1>8, <1>11, <2>2 DEF FreeRef, NewSema
  <2>3. QED BY <2>1, <2>2
<1>13. cl'[c].pc = "idle" /\ cl'[c].arg = "own"
  BY <1>6 DEF IdleCl
<1>14. Agrees(c)' /\ Joining(s, c)'
  BY <1>13 DEF Agrees, Joining
<1>15. \A m \in Open(s) : m.by # c
  BY <1>2, NoneOpen
<1>16. \A x \in Ref \cap {r} : /\ ref'[x].st # "FREE" => ref'[x].port
                               /\ ref'[x].iowait.cnt > 0 => Unit(x)'
                               /\ Settled(x)' => Known(s, x)
                               /\ ref'[x].st = "FREE" => Unknown(x)
  BY <1>12 DEF Settled
<1>17. Stirs(s)
  BY <1>5 DEF Stirs
<1>18. QED BY ONLY <1>5, <1>10, <1>14, <1>15, <1>16, <1>17, ActorTurn,
                   IInv, Turn(s), s \in Server, c \in Client

LEMMA DisconnectedTurn ==
    ASSUME IInv, NEW s \in Server, Turn(s), NEW c \in Client, Disconnected(c)
    PROVE  Turn(s)'
<1>1. PICK r : r = cl[c].r
  OBVIOUS
<1>2. cl[c].pc = "dd"
  BY DEF Disconnected, At
<1>3. /\ r \in Ref /\ cl[c].n = NoRef /\ \A d \in Client \ {c} : Stranger(d, r)
  BY <1>1, <1>2, LastUser
<1>4. ref \in [Ref -> Portref] /\ cl \in [Client -> ClientThread]
  BY DEF IInv, Types
<1>5. /\ cl' = [cl EXCEPT ![c] = IdleCl(@.bit)] /\ ref' = [ref EXCEPT ![r] = FreeRef]
      /\ UNCHANGED <<port, prefs, sv, todo, panic>>
  BY <1>1 DEF Disconnected
<1>6. /\ cl'[c] = IdleCl(cl[c].bit) /\ \A d \in Client \ {c} : cl'[d] = cl[d]
  BY <1>4, <1>5
<1>7. ref'[r] = FreeRef /\ \A x \in Ref \ {r} : ref'[x] = ref[x]
  BY <1>3, <1>4, <1>5
<1>8. Actor(c, {r})
  BY <1>1, <1>3, <1>6, <1>7, AloneActor
<1>9. Unknown(r)
  BY <1>1, <1>2 DEF Turn, Hashed, Placed, Joining
<1>10. ref'[r].st = "FREE" /\ ~ ref'[r].iowait.cnt > 0
  BY <1>7 DEF FreeRef, NewSema
<1>11. cl'[c].pc = "idle" /\ cl'[c].arg = "own"
  BY <1>6 DEF IdleCl
<1>12. Agrees(c)' /\ Joining(s, c)'
  BY <1>11 DEF Agrees, Joining
<1>13. \A m \in Open(s) : m.by # c
  BY <1>2, NoneOpen
<1>14. \A x \in Ref \cap {r} : /\ ref'[x].st # "FREE" => ref'[x].port
                               /\ ref'[x].iowait.cnt > 0 => Unit(x)'
                               /\ Settled(x)' => Known(s, x)
                               /\ ref'[x].st = "FREE" => Unknown(x)
  BY <1>9, <1>10 DEF Settled
<1>15. Stirs(s)
  BY <1>5 DEF Stirs
<1>16. QED BY ONLY <1>5, <1>8, <1>12, <1>13, <1>14, <1>15, ActorTurn,
                   IInv, Turn(s), s \in Server, c \in Client

LEMMA ConnectTurn ==
    ASSUME IInv, NEW s \in Server, Turn(s), NEW c \in Client, NEW r \in Ref, Connect(c, r)
    PROVE  Turn(s)'
<1> DEFINE w == PSema(NewSema(0), c)
           e == [NewRef EXCEPT !.port = TRUE, !.msg = {c}, !.iowait = w]
           k == [cl[c] EXCEPT !.pc = "cw", !.op = "connect", !.r = r, !.bit = 1 - @,
                              !.arg = "own"]
<1>1. /\ cl[c].pc = "idle" /\ ref[r].st = "FREE"
      /\ ref' = [ref EXCEPT ![r] = e] /\ sv' = Wake(sv, port.wait)
      /\ port' = Queue([op |-> "connect", r |-> r, by |-> c, bit |-> 1 - cl[c].bit,
                        n |-> NoRef])
      /\ UNCHANGED <<prefs, todo, panic>>
  BY DEF Connect, At
<1>2. /\ ref \in [Ref -> Portref] /\ cl \in [Client -> ClientThread]
      /\ cl[c] \in ClientThread /\ cl = [d \in Client |-> cl[d]]
  BY DEF IInv, Types
<1>3. cl' = [cl EXCEPT ![c] = k]
  BY <1>2 DEF Connect, ClientThread
<1>4. /\ \A d \in Client : Stranger(d, r)
      /\ cl[c].n = NoRef /\ Unknown(r)
  <2>1. \A d \in Client : Stranger(d, r)
    BY <1>1 DEF IInv, Owned
  <2>2. cl[c].n = NoRef
    BY <1>1 DEF IInv, Shapes, ClientShape, Clones
  <2>3. Unknown(r)
    BY <1>1 DEF Turn, Hashed, Placed
  <2>4. QED BY <2>1, <2>2, <2>3
<1>5. w.cnt = 0 - 1
  BY DEF PSema, NewSema
<1> HIDE DEF w
<1>6. e.st = "OPENING" /\ e.port /\ ~ e.iowait.cnt > 0
  BY <1>5 DEF NewRef, FreeRef
<1>7. /\ k.pc = "cw" /\ k.r = r /\ k.bit = 1 - cl[c].bit /\ k.arg = "own"
  BY <1>2 DEF ClientThread
<1>8. PICK m : m = [op |-> "connect", r |-> r, by |-> c, bit |-> 1 - cl[c].bit, n |-> NoRef]
  OBVIOUS
<1>9. m \in Message /\ m.by = c /\ m.op = "connect" /\ m.r = r /\ m.bit = 1 - cl[c].bit
  BY <1>2, <1>8 DEF Message, MsgOp, ClientThread, Bit
<1> HIDE DEF e, k
<1>10. /\ ref'[r] = e /\ cl'[c] = k /\ \A d \in Client \ {c} : cl'[d] = cl[d]
       /\ \A x \in Ref \ {r} : ref'[x] = ref[x]
  BY <1>1, <1>2, <1>3
<1>11. Actor(c, {r})
  <2>1. \A d \in Client \ {c} : Rest(d)
    BY <1>10 DEF Rest
  <2>2. QED BY <1>1, <1>4, <1>10, <2>1 DEF Actor, Stranger
<1>12. /\ Stirs(s) /\ port'.st = port.st /\ port'.refs = port.refs
       /\ port'.q = Append(port.q, m)
  BY <1>1, <1>8, <1>9, QueueStirs
<1>13. \A x \in Ref \cap {r} : /\ ref'[x].st # "FREE" => ref'[x].port
                               /\ ref'[x].iowait.cnt > 0 => Unit(x)'
                               /\ Settled(x)' => Known(s, x)
                               /\ ref'[x].st = "FREE" => Unknown(x)
  BY <1>6, <1>7, <1>10 DEF Settled
<1>14. Agrees(c)' /\ Joining(s, c)' /\ Awaited(m)' /\ Queued(s, m)
  BY <1>4, <1>6, <1>7, <1>9, <1>10 DEF Agrees, Joining, Awaited, Queued
<1>15. \A x \in Open(s) : x.by # c
  BY <1>1, NoneOpen
<1>16. QED BY ONLY <1>1, <1>9, <1>11, <1>12, <1>13, <1>14, <1>15, SenderTurn,
                   IInv, Turn(s), s \in Server, c \in Client

LEMMA CloneTurn ==
    ASSUME IInv, NEW s \in Server, Turn(s), NEW c \in Client, NEW n \in Ref, Clone(c, n)
    PROVE  Turn(s)'
<1> DEFINE e == [NewRef EXCEPT !.st = "IODONE", !.port = TRUE]
<1>1. /\ cl[c].pc = "have" /\ ref[n].st = "FREE" /\ ref' = [ref EXCEPT ![n] = e]
      /\ cl' = [cl EXCEPT ![c].pc = "dup", ![c].n = n]
      /\ UNCHANGED <<port, prefs, sv, todo, panic>>
  BY DEF Clone, At
<1>2. /\ ref \in [Ref -> Portref] /\ cl \in [Client -> ClientThread]
      /\ cl[c] \in ClientThread
  BY DEF IInv, Types
<1>3. /\ \A d \in Client : Stranger(d, n)
      /\ cl[c].n = NoRef /\ Unknown(n)
  <2>1. \A d \in Client : Stranger(d, n)
    BY <1>1 DEF IInv, Owned
  <2>2. cl[c].n = NoRef
    BY <1>1 DEF IInv, Shapes, ClientShape, Clones
  <2>3. Unknown(n)
    BY <1>1 DEF Turn, Hashed, Placed
  <2>4. QED BY <2>1, <2>2, <2>3
<1>4. e.st = "IODONE" /\ e.port /\ ~ e.iowait.cnt > 0
  BY DEF NewRef, FreeRef, NewSema
<1> HIDE DEF e
<1>5. /\ ref'[n] = e /\ \A x \in Ref \ {n} : ref'[x] = ref[x]
      /\ cl'[c].pc = "dup" /\ cl'[c].n = n /\ cl'[c].arg = cl[c].arg /\ cl'[c].r = cl[c].r
      /\ \A d \in Client \ {c} : cl'[d] = cl[d]
  BY <1>1, <1>2 DEF ClientThread
<1>6. cl[c].arg = "own"
  BY <1>1 DEF Turn, Agreed, Agrees
<1>7. Actor(c, {n})
  <2>1. \A d \in Client \ {c} : Rest(d)
    BY <1>5 DEF Rest
  <2>2. QED BY <1>1, <1>3, <1>5, <2>1 DEF Actor, Stranger
<1>8. \A x \in Ref \cap {n} : /\ ref'[x].st # "FREE" => ref'[x].port
                              /\ ref'[x].iowait.cnt > 0 => Unit(x)'
                              /\ Settled(x)' => Known(s, x)
                              /\ ref'[x].st = "FREE" => Unknown(x)
  BY <1>4, <1>5 DEF Settled
<1>9. Unknown(n)'
  BY <1>1, <1>3 DEF Unknown, InRing
<1>10. Agrees(c)' /\ Joining(s, c)'
  <2>1. Agrees(c)'
    BY <1>5, <1>6 DEF Agrees
  <2>2. Joining(s, c)'
    BY <1>5, <1>9 DEF Joining
  <2>3. QED BY <2>1, <2>2
<1>11. \A x \in Open(s) : x.by # c
  BY <1>1, NoneOpen
<1>12. Stirs(s)
  BY <1>1 DEF Stirs
<1>13. QED BY ONLY <1>1, <1>7, <1>8, <1>10, <1>11, <1>12, ActorTurn,
                   IInv, Turn(s), s \in Server, c \in Client

(* A client that clones has both portrefs for itself. *)
LEMMA ClonerIs ==
    ASSUME IInv, NEW s \in Server, Turn(s), NEW c \in Client, cl[c].pc \in Clones,
           NEW r, NEW n, r = cl[c].r, n = cl[c].n,
           \A d \in Client \ {c} : cl'[d] = cl[d],
           \A x \in Ref \ {r, n} : ref'[x] = ref[x]
    PROVE  /\ r \in Ref /\ n \in Ref /\ r # n /\ Actor(c, {r, n})
           /\ ref[n].st # "FREE" /\ ref[n].port /\ ~ ref[n].iowait.cnt > 0
           /\ ref[r].st # "FREE" /\ ref[r].port /\ ~ ref[r].iowait.cnt > 0
           /\ Known(s, r)
           /\ \A d \in Client \ {c} : Stranger(d, n)
<1>1. /\ n \in Ref /\ r \in Ref /\ r # n /\ ref[n].st # "FREE"
      /\ \A d \in Client \ {c} : Stranger(d, n)
  BY CloneUser
<1>2. cl[c].pc \in Has /\ cl[c].pc \notin {"dw", "dd", "intr", "cw", "cd"}
  BY DEF Clones, Has
<1>3. /\ ref[r].st # "FREE" /\ ref[r].port /\ Known(s, r) /\ ~ ref[r].iowait.cnt > 0
      /\ \A d \in Client \ {c} : Active(d) => cl[d].r # r
  BY <1>2, HolderIs
<1>4. ref[n].port
  BY <1>1 DEF Turn, Agreed
<1>5. ASSUME ref[n].iowait.cnt > 0 PROVE FALSE
  <2>1. PICK d \in Client : cl[d].r = n
    BY <1>1, <1>5 DEF Turn, Agreed, Unit
  <2>2. QED BY <1>1, <2>1 DEF Stranger
<1>6. Actor(c, {r, n})
  <2>1. \A d \in Client \ {c} : Rest(d)
    BY DEF Rest
  <2>2. QED BY <1>1, <1>3, <2>1 DEF Actor, Stranger
<1>7. QED BY <1>1, <1>3, <1>4, <1>5, <1>6

LEMMA CloneSendTurn ==
    ASSUME IInv, NEW s \in Server, Turn(s), NEW c \in Client, CloneSend(c)
    PROVE  Turn(s)'
<1>1. PICK r, n : r = cl[c].r /\ n = cl[c].n
  OBVIOUS
<1> DEFINE w == PSema(ref[r].iowait, c)
<1>2. /\ cl[c].pc = "dup" /\ cl[c].pc \in Clones /\ cl[c].pc \in Has \ IoPcs
      /\ "dup" \in MsgOp
  BY DEF CloneSend, At, Clones, Has, IoPcs, MsgOp
<1>3. ref[r].iowait.cnt = 0
  BY <1>1, <1>2, MustSleep
<1>4. r \in Ref /\ ref[r].port
  BY <1>1, <1>2, HolderIs
<1>5. Post(c, "dup", "dupw")
  BY <1>1, <1>4 DEF CloneSend
<1>6. /\ ref' = [ref EXCEPT ![r].st = "IOWAIT", ![r].msg = {c}, ![r].iowait = w]
      /\ port' = Queue(MsgOf(c, "dup")) /\ cl' = [cl EXCEPT ![c].pc = "dupw"]
      /\ sv' = Wake(sv, port.wait) /\ UNCHANGED <<prefs, todo, panic>>
  BY <1>1, <1>3, <1>5 DEF Post
<1>7. /\ ref \in [Ref -> Portref] /\ cl \in [Client -> ClientThread]
      /\ ref[r] \in Portref /\ cl[c] \in ClientThread
  BY <1>4 DEF IInv, Types
<1>8. w.cnt = 0 - 1
  BY <1>3 DEF PSema
<1> HIDE DEF w
<1>9. /\ \A x \in Ref \ {r} : ref'[x] = ref[x]
      /\ ref'[r].st = "IOWAIT" /\ ref'[r].msg = {c} /\ ref'[r].port = ref[r].port
      /\ ref'[r].iowait = w
      /\ cl'[c].pc = "dupw" /\ cl'[c].r = r /\ cl'[c].n = n /\ cl'[c].arg = cl[c].arg
      /\ cl'[c].bit = cl[c].bit /\ \A d \in Client \ {c} : cl'[d] = cl[d]
  BY <1>1, <1>4, <1>6, <1>7 DEF Portref, ClientThread
<1>10. /\ r \in Ref /\ n \in Ref /\ r # n /\ Actor(c, {r, n})
       /\ ref[n].st # "FREE" /\ ref[n].port /\ ~ ref[n].iowait.cnt > 0
       /\ ref[r].st # "FREE" /\ ref[r].port /\ ~ ref[r].iowait.cnt > 0
       /\ Known(s, r)
       /\ \A d \in Client \ {c} : Stranger(d, n)
  BY <1>1, <1>2, <1>9, ClonerIs
<1>11. PICK m : m = MsgOf(c, "dup")
  OBVIOUS
<1>12. /\ m \in Message /\ m.by = c /\ m.op = "dup" /\ m.r = r /\ m.bit = cl[c].bit
       /\ m.n = n
  <2>1. m \in Message
    BY <1>2, <1>11, MsgOfIs
  <2>2. QED BY <1>1, <1>11, <2>1 DEF MsgOf
<1>13. /\ Stirs(s) /\ port'.st = port.st /\ port'.refs = port.refs
       /\ port'.q = Append(port.q, m)
  BY <1>6, <1>11, <1>12, QueueStirs
<1>14. Agrees(c)'
  <2>1. cl[c].arg = "own"
    BY <1>2 DEF Turn, Agreed, Agrees
  <2>2. QED BY <1>9, <2>1 DEF Agrees
<1>15. Joining(s, c)'
  <2>1. Unknown(n)
    BY <1>1, <1>2 DEF Turn, Hashed, Placed, Joining
  <2>2. ASSUME sv[s].pc = "dupv", sv[s].r = n PROVE FALSE
    <3>1. sv[s].ms # <<>>
      BY <2>2 DEF IInv, Shapes, ServerShape, Carries
    <3>2. PICK x : x = sv[s].ms[1] /\ x \in Message
      BY <3>1, CarriedIs
    <3>3. x \in InHand(s)
      BY <2>2, <3>1, <3>2 DEF InHand, Turn, Hashed, Placed
    <3>4. x.op = "dup" /\ x.n = n
      BY <2>2, <3>3 DEF Turn, Hashed, Placed, Carried
    <3>5. Awaited(x)
      BY <3>3 DEF Turn, Open
    <3>6. cl[x.by].pc = "dupw" /\ cl[x.by].n = n /\ x.by \in Client
      BY <3>2, <3>4, <3>5 DEF Awaited, Message
    <3>7. QED BY <1>2, <1>10, <3>6 DEF Stranger
  <2>3. ~ (sv'[s].pc = "dupv" /\ sv'[s].r = n)
    BY <1>13, <2>2 DEF Stirs, Marks
  <2>4. Unknown(n)'
    BY <1>6, <1>13, <2>1 DEF Unknown, InRing
  <2>5. QED BY <1>9, <2>3, <2>4 DEF Joining
<1>16. Awaited(m)' /\ Queued(s, m)
  BY <1>9, <1>12 DEF Awaited, Queued
<1>17. \A x \in Open(s) : x.by # c
  BY <1>2, NoneOpen
<1>18. /\ ref'[n] = ref[n] /\ ~ Settled(n)'
       /\ ref'[r].st = "IOWAIT" /\ ref'[r].port /\ ~ ref'[r].iowait.cnt > 0
  BY <1>8, <1>9, <1>10 DEF Settled
<1>19. \A x \in Ref \cap {r, n} : /\ ref'[x].st # "FREE" => ref'[x].port
                                  /\ ref'[x].iowait.cnt > 0 => Unit(x)'
                                  /\ Settled(x)' => Known(s, x)
                                  /\ ref'[x].st = "FREE" => Unknown(x)
  BY <1>10, <1>18
<1>20. QED BY ONLY <1>6, <1>10, <1>12, <1>13, <1>14, <1>15, <1>16, <1>17, <1>18, <1>19, SenderTurn,
                   IInv, Turn(s), s \in Server, c \in Client

LEMMA CloneDoneTurn ==
    ASSUME IInv, NEW s \in Server, Turn(s), NEW c \in Client, CloneDone(c)
    PROVE  Turn(s)'
<1>1. PICK r, n : r = cl[c].r /\ n = cl[c].n
  OBVIOUS
<1>2. cl[c].pc = "dupd" /\ cl[c].pc \in Clones
  BY DEF CloneDone, At, Clones
<1>3. /\ ref' = [ref EXCEPT ![r].svwait = Let(@),
                            ![n] = IF cl[c].arg # "err" THEN [@ EXCEPT !.fd = TRUE]
                                   ELSE FreeRef]
      /\ sv' = Wake(sv, ref[r].svwait)
      /\ cl' = [cl EXCEPT ![c].pc = "rel", ![c].n = NoRef]
      /\ UNCHANGED <<port, prefs, todo, panic>>
  BY <1>1 DEF CloneDone
<1>4. /\ ref \in [Ref -> Portref] /\ cl \in [Client -> ClientThread]
      /\ cl[c] \in ClientThread
  BY DEF IInv, Types
<1>5. r \in Ref /\ n \in Ref /\ r # n
  BY <1>1, <1>2, CloneUser
<1>6. ref[r] \in Portref /\ ref[n] \in Portref
  BY <1>4, <1>5
<1>7. /\ ref'[r] = [ref[r] EXCEPT !.svwait = Let(ref[r].svwait)]
      /\ ref'[n] = IF cl[c].arg # "err" THEN [ref[n] EXCEPT !.fd = TRUE] ELSE FreeRef
      /\ \A x \in Ref \ {r, n} : ref'[x] = ref[x]
  BY <1>3, <1>4, <1>5
<1>8. /\ cl'[c].pc = "rel" /\ cl'[c].r = r /\ cl'[c].n = NoRef /\ cl'[c].arg = cl[c].arg
      /\ \A d \in Client \ {c} : cl'[d] = cl[d]
  BY <1>1, <1>3, <1>4 DEF ClientThread
<1>9. /\ r \in Ref /\ n \in Ref /\ r # n /\ Actor(c, {r, n})
      /\ ref[n].st # "FREE" /\ ref[n].port /\ ~ ref[n].iowait.cnt > 0
      /\ ref[r].st # "FREE" /\ ref[r].port /\ ~ ref[r].iowait.cnt > 0
      /\ Known(s, r)
      /\ \A d \in Client \ {c} : Stranger(d, n)
  BY <1>1, <1>2, <1>7, <1>8, ClonerIs
<1>10. Stirs(s)
  BY <1>3, <1>5, LetGoStirs
<1>11. IF cl[c].arg = "err" THEN Unknown(n) ELSE Known(s, n)
  BY <1>1, <1>2 DEF Turn, Hashed, Placed, Joining
<1>12. Agrees(c)' /\ Joining(s, c)'
  <2>1. cl[c].arg # "stale"
    BY DEF Turn, Agreed, Agrees
  <2>2. QED BY <1>8, <2>1 DEF Agrees, Joining
<1>13. \A x \in Open(s) : x.by # c
  BY <1>2, NoneOpen
<1>14. /\ ref'[r].st = ref[r].st /\ ref'[r].port = ref[r].port
       /\ ref'[r].iowait = ref[r].iowait
  BY <1>6, <1>7 DEF Portref
<1>15. /\ ref'[n].st # "FREE" => ref'[n].port /\ Known(s, n)
       /\ ref'[n].st = "FREE" => Unknown(n)
       /\ ~ ref'[n].iowait.cnt > 0
  <2>1. CASE cl[c].arg = "err"
    BY <1>7, <1>11, <2>1 DEF FreeRef, NewSema
  <2>2. CASE cl[c].arg # "err"
    BY <1>6, <1>7, <1>9, <1>11, <2>2 DEF Portref
  <2>3. QED BY <2>1, <2>2
<1>16. \A x \in Ref \cap {r, n} : /\ ref'[x].st # "FREE" => ref'[x].port
                                  /\ ref'[x].iowait.cnt > 0 => Unit(x)'
                                  /\ Settled(x)' => Known(s, x)
                                  /\ ref'[x].st = "FREE" => Unknown(x)
  BY <1>9, <1>14, <1>15 DEF Settled
<1>17. QED BY ONLY <1>3, <1>9, <1>10, <1>12, <1>13, <1>16, ActorTurn,
                   IInv, Turn(s), s \in Server, c \in Client

-----------------------------------------------------------------------------
(* The server's steps                                                       *)

(* Clients C move and the portrefs of M change; ring and hash change for    *)
(* those of R.                                                              *)
LEMMA HashMoves ==
    ASSUME IInv, NEW s \in Server, Turn(s), NEW C, NEW M, NEW R,
           \A d \in Client \ C : Rest(d) /\ (Active(d) => cl[d].r \notin M),
           \A d \in Client \cap C :
               /\ cl[d].n \in M \cup {NoRef}
               /\ cl[d].r \in M \/ cl[d].pc \notin {"cw", "cd", "dw", "dd"}
               /\ Joining(s, d)',
           \A x \in Ref \ M : ref'[x].st = ref[x].st,
           \A x \in Ref \ R : /\ Known(s, x) => Known(s, x)'
                              /\ Unknown(x) => Unknown(x)',
           sv[s].pc = "dupv" => sv[s].r \in R, sv'[s].pc = "dupv" => sv'[s].r \in R,
           \A d \in Client \ C : Active(d) /\ (cl[d].r \in R \/ cl[d].n \in R)
               => Joining(s, d)',
           \A x \in Ref \cap (M \cup R) : /\ Settled(x)' => Known(s, x)'
                                          /\ ref'[x].st = "FREE" => Unknown(x)'
    PROVE  /\ \A x \in Ref : Settled(x)' => Known(s, x)'
           /\ \A x \in Ref : ref'[x].st = "FREE" => Unknown(x)'
           /\ \A d \in Client : Joining(s, d)'
<1>h. Hashed(s)
  BY DEF Turn
<1>1. ASSUME NEW x \in Ref, Settled(x)' PROVE Known(s, x)'
  <2>1. CASE x \in M \cup R
    BY <1>1, <2>1
  <2>2. CASE x \notin M \cup R
    <3>1. ref[x].st # "FREE" /\ x # NoRef
      BY <1>1, <2>2, RefAssumption DEF Settled
    <3>2. ASSUME NEW d \in Client
          PROVE  cl[d].n # x /\ (cl[d].r = x => cl[d].pc \notin {"cw", "cd", "dw", "dd"})
      <4>1. CASE d \in C
        BY <2>2, <3>1, <4>1
      <4>2. CASE d \notin C
        BY <1>1, <4>2 DEF Rest, Settled
      <4>3. QED BY <4>1, <4>2
    <3>3. Settled(x)
      BY <3>1, <3>2 DEF Settled
    <3>4. QED BY <1>h, <2>2, <3>3 DEF Hashed
  <2>3. QED BY <2>1, <2>2
<1>2. ASSUME NEW x \in Ref, ref'[x].st = "FREE" PROVE Unknown(x)'
  <2>1. CASE x \in M \cup R
    BY <1>2, <2>1
  <2>2. CASE x \notin M \cup R
    BY <1>2, <1>h, <2>2 DEF Hashed
  <2>3. QED BY <2>1, <2>2
<1>3. ASSUME NEW d \in Client PROVE Joining(s, d)'
  <2>1. CASE d \in C
    BY <2>1
  <2>2. CASE d \notin C /\ ~ Active(d)
    <3>1. ~ Active(d)'
      BY <2>2 DEF Rest, Active
    <3>2. QED BY <3>1 DEF Joining, Active
  <2>3. CASE d \notin C /\ Active(d) /\ (cl[d].r \in R \/ cl[d].n \in R)
    BY <2>3
  <2>4. CASE d \notin C /\ Active(d) /\ cl[d].r \notin R /\ cl[d].n \notin R
    <3>1. Joining(s, d) /\ Rest(d) /\ cl[d].r \in Ref \ M
      BY <1>h, <2>4, InCall DEF Hashed, IInv, Active, Has, Joins
    <3>2. /\ ref'[cl[d].r].st = ref[cl[d].r].st /\ cl'[d].pc = cl[d].pc
          /\ cl'[d].r = cl[d].r /\ cl'[d].n = cl[d].n /\ cl'[d].arg = cl[d].arg
      BY <2>4, <3>1 DEF Rest, Active
    <3>3. cl[d].pc \in Clones => cl[d].n \in Ref
      BY InCall DEF IInv
    <3>4. PICK a, b : a = cl[d].r /\ b = cl[d].n
      OBVIOUS
    <3>5. /\ (Known(s, a) => Known(s, a)') /\ (Unknown(a) => Unknown(a)')
          /\ cl[d].pc \in Clones =>
                (Known(s, b) => Known(s, b)') /\ (Unknown(b) => Unknown(b)')
      BY <2>4, <3>1, <3>3, <3>4
    <3>6. /\ ~ (sv[s].pc = "dupv" /\ sv[s].r = cl[d].n)
          /\ ~ (sv'[s].pc = "dupv" /\ sv'[s].r = cl'[d].n)
      BY <2>4, <3>2
    <3>7. QED BY <3>1, <3>2, <3>4, <3>5, <3>6 DEF Joining, Clones
  <2>5. QED BY <2>1, <2>2, <2>3, <2>4
<1>4. QED BY <1>1, <1>2, <1>3

(* A step of the server alone, which changes what ring and hash have of R.  *)
LEMMA ServesTurn ==
    ASSUME IInv, NEW s \in Server, Turn(s), NEW R, UNCHANGED <<ref, cl, panic>>,
           port'.st = port.st, \A x \in Server \ {s} : sv'[x] = sv[x],
           \A x \in Ref \ R : /\ Known(s, x) => Known(s, x)'
                              /\ Unknown(x) => Unknown(x)',
           sv[s].pc = "dupv" => sv[s].r \in R, sv'[s].pc = "dupv" => sv'[s].r \in R,
           \A d \in Client : Active(d) /\ (cl[d].r \in R \/ cl[d].n \in R)
               => Joining(s, d)',
           \A x \in Ref \cap R : /\ Settled(x) => Known(s, x)'
                                 /\ ref[x].st = "FREE" => Unknown(x)',
           Open(s)' \subseteq Open(s), Lined(s)', Placed(s)'
    PROVE  Turn(s)'
<1>1. \A d \in Client : Rest(d)
  BY DEF Rest
<1>2. \A x \in Ref : Settled(x)' <=> Settled(x)
  BY DEF Settled
<1>3. /\ \A x \in Ref : Settled(x)' => Known(s, x)'
      /\ \A x \in Ref : ref'[x].st = "FREE" => Unknown(x)'
      /\ \A d \in Client : Joining(s, d)'
  <2> DEFINE C == {}
             M == {}
  <2>1. /\ \A d \in Client \ C : Rest(d) /\ (Active(d) => cl[d].r \notin M)
        /\ Client \cap C = {} /\ \A x \in Ref \ M : ref'[x].st = ref[x].st
        /\ M \cup R = R
    BY <1>1
  <2>2. /\ \A x \in Ref \cap (M \cup R) : /\ Settled(x)' => Known(s, x)'
                                          /\ ref'[x].st = "FREE" => Unknown(x)'
        /\ \A d \in Client \ C : Active(d) /\ (cl[d].r \in R \/ cl[d].n \in R)
               => Joining(s, d)'
    BY <1>2, <2>1
  <2>3. \A d \in Client \cap C :
               /\ cl[d].n \in M \cup {NoRef}
               /\ cl[d].r \in M \/ cl[d].pc \notin {"cw", "cd", "dw", "dd"}
               /\ Joining(s, d)'
    BY <2>1
  <2> HIDE DEF C, M
  <2>4. QED BY <2>1, <2>2, <2>3, HashMoves
<1>4. Hashed(s)'
  BY <1>3 DEF Hashed
<1>5. Agreed'
  BY DEF Turn, Agreed, Agrees, Unit
<1>6. \A m \in Open(s)' : Awaited(m)'
  BY DEF Turn, Awaited
<1>7. QED BY <1>4, <1>5, <1>6 DEF Turn

(* The server thread moves and takes nothing with it. *)
LEMMA QuietServes ==
    ASSUME IInv, NEW s \in Server, Turn(s), Stirs(s), sv[s].pc \notin Marks,
           UNCHANGED <<ref, cl, panic, prefs>>, todo' \subseteq todo,
           port'.st = port.st, port'.refs = port.refs, port'.q = port.q
    PROVE  Turn(s)'
<1>1. /\ InHand(s)' = InHand(s)
      /\ \A r : /\ Known(s, r)' <=> Known(s, r)
                /\ Unknown(r)' <=> Unknown(r)
                /\ InRing(r)' <=> InRing(r)
  BY StirsIs
<1>2. Open(s)' \subseteq Open(s)
  BY <1>1 DEF Open
<1>3. Lined(s)'
  BY <1>1 DEF Lined, Turn
<1>4. Placed(s)'
  <2>0. Placed(s)
    BY DEF Turn, Hashed
  <2>1. sv'[s].pc \notin Marks
    BY DEF Stirs
  <2>2. ASSUME NEW m \in InHand(s) PROVE Carried(s, m)'
    <3>1. Carried(s, m)
      BY <2>0, <2>2 DEF Placed
    <3>2. QED BY <1>1, <2>1, <3>1 DEF Carried, Marks
  <2>3. ASSUME NEW m \in ToSet(port.q) PROVE Queued(s, m)'
    BY <1>1, <2>0, <2>3 DEF Placed, Queued
  <2>4. \A m \in todo' : m.op # "disconnect" /\ InRing(m.r)' /\ m.r \in prefs'
    BY <1>1, <2>0 DEF Placed
  <2>5. /\ (\A i, j \in DOMAIN port.refs : port.refs[i] = port.refs[j] => i = j)'
        /\ sv'[s].pc \notin {"duph", "newc", "dupv"}
    BY <2>0, <2>1 DEF Placed, Marks
  <2>6. QED BY <1>1, <2>2, <2>3, <2>4, <2>5 DEF Placed
<1>5. sv[s].pc # "dupv" /\ sv'[s].pc # "dupv"
  BY DEF Stirs, Marks
<1>6. \A x \in Server \ {s} : sv'[x] = sv[x]
  BY DEF Stirs
<1> DEFINE R == {}
<1>7. /\ \A x \in Ref \ R : /\ Known(s, x) => Known(s, x)'
                            /\ Unknown(x) => Unknown(x)'
      /\ \A d \in Client : Active(d) /\ (cl[d].r \in R \/ cl[d].n \in R)
               => Joining(s, d)'
      /\ \A x \in Ref \cap R : /\ Settled(x) => Known(s, x)'
                               /\ ref[x].st = "FREE" => Unknown(x)'
  BY <1>1
<1> HIDE DEF R
<1>8. QED BY <1>2, <1>3, <1>4, <1>5, <1>6, <1>7, ServesTurn

LEMMA ReceiveTurn ==
    ASSUME IInv, NEW s \in Server, Turn(s),
           Receive(s) \/ AwaitMsg(s) \/ AwaitIntr(s) \/ CopyOut(s)
    PROVE  Turn(s)'
<1>1. /\ port \in Port /\ sv \in [Server -> ServerThread] /\ sv[s] \in ServerThread
  BY DEF IInv, Types
<1>2. /\ sv[s].pc \in {"idle", "rhave", "rwait", "copy"}
      /\ UNCHANGED <<ref, prefs, cl, todo, panic>>
  BY DEF Receive, AwaitMsg, AwaitIntr, CopyOut, Sat
<1>3. \E p \in {"rpsema", "rhave", "rwait", "got", "rrel"} : sv' = [sv EXCEPT ![s].pc = p]
  BY DEF Receive, AwaitMsg, AwaitIntr, CopyOut
<1>4. port'.st = port.st /\ port'.refs = port.refs /\ port'.q = port.q
  BY <1>1 DEF Receive, AwaitMsg, AwaitIntr, CopyOut, Port
<1>5. Stirs(s) /\ sv[s].pc \notin Marks
  BY <1>1, <1>2, <1>3 DEF Stirs, Marks, ServerThread
<1>6. QED BY <1>2, <1>4, <1>5, QuietServes

LEMMA ReceiveIntrTurn ==
    ASSUME IInv, NEW s \in Server, Turn(s), ReceiveIntr(s)
    PROVE  Turn(s)'
<1>1. /\ port \in Port /\ sv \in [Server -> ServerThread] /\ sv[s] \in ServerThread
  BY DEF IInv, Types
<1>2. /\ sv[s].pc = "rpsema" /\ sv' = [sv EXCEPT ![s] = IdleSv]
      /\ UNCHANGED <<ref, prefs, cl, todo, panic>>
  BY DEF ReceiveIntr, Sat
<1>3. sv[s].ms = <<>>
  BY <1>2 DEF IInv, Shapes, ServerShape, Carries
<1>4. port'.st = port.st /\ port'.refs = port.refs /\ port'.q = port.q
  BY <1>1 DEF ReceiveIntr, Port
<1>5. Stirs(s) /\ sv[s].pc \notin Marks
  BY <1>1, <1>2, <1>3 DEF Stirs, Marks, IdleSv
<1>6. QED BY <1>2, <1>4, <1>5, QuietServes

LEMMA ReleasePortTurn ==
    ASSUME IInv, NEW s \in Server, Turn(s), ReleasePort(s)
    PROVE  Turn(s)'
<1>1. /\ port \in Port /\ sv \in [Server -> ServerThread] /\ sv[s] \in ServerThread
  BY DEF IInv, Types
<1> DEFINE x == IF sv[s].ms = <<>> THEN IdleSv ELSE [sv[s] EXCEPT !.pc = "rpost"]
           g == [sv EXCEPT ![s] = x]
<1>2. /\ sv[s].pc = "rrel" /\ sv' = Wake(g, port.sema)
      /\ port' = [port EXCEPT !.sema = VSema(@)]
      /\ UNCHANGED <<ref, prefs, cl, todo, panic>>
  BY <1>1 DEF ReleasePort, Sat
<1>3. x.ms = sv[s].ms /\ x.pc \in {"idle", "rpost"}
  BY <1>1 DEF IdleSv, ServerThread
<1>4. port'.st = port.st /\ port'.refs = port.refs /\ port'.q = port.q
  BY <1>1, <1>2 DEF Port
<1>5. VWakes(port.sema) = {}
  <2>1. PICK q, A, H : q = port.sema /\ A = PortAskers /\ H = PortHolders
    OBVIOUS
  <2>2. HeldBy(q, Server, A, H)
    BY <2>1 DEF IInv, PortLocked, Turn
  <2>3. s \in H
    BY <1>2, <2>1 DEF PortHolders, PortHas
  <2>4. VWakes(q) \subseteq A
    BY <2>2, <2>3, HeldGive
  <2>5. A = {}
    BY <1>2, <2>1 DEF PortAskers, PortAsks, Turn, IdleSv
  <2>6. QED BY <2>1, <2>4, <2>5
<1>6. sv'[s] = x /\ \A y \in Server \ {s} : sv'[y] = sv[y]
  BY <1>1, <1>2, <1>5 DEF Wake
<1>7. Stirs(s) /\ sv[s].pc \notin Marks
  BY <1>2, <1>3, <1>6 DEF Stirs, Marks
<1>8. QED BY <1>2, <1>4, <1>7, QuietServes

(* The message in the server's hands. *)
LEMMA HandIs ==
    ASSUME IInv, NEW s \in Server, Turn(s), sv[s].pc \in {"newc", "delc", "dack", "dupv"}
    PROVE  /\ sv[s].ms[1] \in Message /\ InHand(s) = {sv[s].ms[1]}
           /\ Carried(s, sv[s].ms[1]) /\ Awaited(sv[s].ms[1]) /\ sv[s].ms # <<>>
<1>1. sv[s].ms # <<>>
  BY DEF IInv, Shapes, ServerShape, Carries
<1>2. sv[s].ms[1] \in Message
  BY <1>1, CarriedIs
<1>3. InHand(s) = {sv[s].ms[1]}
  BY <1>1 DEF InHand, Turn, Hashed, Placed
<1>4. QED BY <1>1, <1>2, <1>3 DEF Turn, Hashed, Placed, Open

(* The hash of handles changes. *)
LEMMA HashTurn ==
    ASSUME IInv, NEW s \in Server, Turn(s), UNCHANGED <<ref, port, cl, todo, panic>>,
           \A x \in Server \ {s} : sv'[x] = sv[x],
           \A x : /\ Known(s, x) => Known(s, x)'
                  /\ Unknown(x) => Unknown(x)'
                  /\ InRing(x) /\ x \in prefs => x \in prefs',
           sv[s].pc # "dupv", sv'[s].pc \notin {"dupv", "newc", "duph"},
           InHand(s)' \subseteq InHand(s), \A m \in InHand(s)' : Carried(s, m)'
    PROVE  Turn(s)'
<1>1. \A x : InRing(x)' <=> InRing(x)
  BY DEF InRing
<1>2. Placed(s)'
  <2>0. Placed(s)
    BY DEF Turn, Hashed
  <2>1. ASSUME NEW m \in ToSet(port.q) PROVE Queued(s, m)'
    <3>1. Queued(s, m)
      BY <2>0, <2>1 DEF Placed
    <3>2. QED BY <3>1 DEF Queued
  <2>2. \A m \in todo' : m.op # "disconnect" /\ InRing(m.r)' /\ m.r \in prefs'
    BY <1>1, <2>0 DEF Placed
  <2>3. (\A i, j \in DOMAIN port.refs : port.refs[i] = port.refs[j] => i = j)'
    BY <2>0 DEF Placed
  <2>4. QED BY <2>1, <2>2, <2>3 DEF Placed
<1>3. Open(s)' \subseteq Open(s)
  BY DEF Open
<1>4. Lined(s)'
  BY DEF Lined, Turn
<1> DEFINE R == {}
<1>5. /\ \A x \in Ref \ R : /\ Known(s, x) => Known(s, x)'
                            /\ Unknown(x) => Unknown(x)'
      /\ \A d \in Client : Active(d) /\ (cl[d].r \in R \/ cl[d].n \in R)
               => Joining(s, d)'
      /\ \A x \in Ref \cap R : /\ Settled(x) => Known(s, x)'
                               /\ ref[x].st = "FREE" => Unknown(x)'
      /\ sv[s].pc # "dupv" /\ sv'[s].pc # "dupv" /\ port'.st = port.st
  OBVIOUS
<1> HIDE DEF R
<1>6. QED BY <1>2, <1>3, <1>4, <1>5, ServesTurn

LEMMA NewClientTurn ==
    ASSUME IInv, NEW s \in Server, Turn(s), NewClient(s)
    PROVE  Turn(s)'
<1>1. PICK m : m = sv[s].ms[1]
  OBVIOUS
<1>2. sv[s].pc = "newc" /\ sv \in [Server -> ServerThread] /\ sv[s] \in ServerThread
  BY DEF NewClient, Sat, IInv, Types
<1>3. InHand(s) = {m} /\ Carried(s, m) /\ sv[s].ms # <<>>
  BY <1>1, <1>2, HandIs
<1>4. m.op = "connect" /\ InRing(m.r) /\ m.r \notin prefs
  BY <1>2, <1>3 DEF Carried
<1>5. /\ prefs' = prefs \cup {m.r} /\ sv' = [sv EXCEPT ![s].pc = "copy"]
      /\ UNCHANGED <<ref, port, cl, todo, panic>>
  BY <1>1, <1>4 DEF NewClient
<1>6. /\ sv'[s].pc = "copy" /\ sv'[s].ms = sv[s].ms
      /\ \A x \in Server \ {s} : sv'[x] = sv[x]
  BY <1>2, <1>5 DEF ServerThread
<1>7. ASSUME NEW x PROVE /\ Known(s, x) => Known(s, x)'
                         /\ Unknown(x) => Unknown(x)'
                         /\ InRing(x) /\ x \in prefs => x \in prefs'
  BY <1>2, <1>4, <1>5, <1>6 DEF Known, Unknown, InRing
<1>8. InHand(s)' = {m}
  BY <1>1, <1>3, <1>4, <1>6 DEF InHand
<1>9. Known(s, m.r)'
  BY <1>4, <1>5 DEF Known, InRing
<1>10. Carried(s, m)'
  BY <1>6, <1>9 DEF Carried
<1>11. /\ sv[s].pc # "dupv" /\ sv'[s].pc \notin {"dupv", "newc", "duph"}
       /\ InHand(s)' \subseteq InHand(s)
  BY <1>2, <1>3, <1>6, <1>8
<1>12. \A x \in InHand(s)' : Carried(s, x)'
  BY <1>8, <1>10
<1>13. \A x : /\ Known(s, x) => Known(s, x)'
              /\ Unknown(x) => Unknown(x)'
              /\ InRing(x) /\ x \in prefs => x \in prefs'
  BY <1>7
<1>14. QED BY <1>5, <1>6, <1>11, <1>12, <1>13, HashTurn

LEMMA DelClientTurn ==
    ASSUME IInv, NEW s \in Server, Turn(s), DelClient(s)
    PROVE  Turn(s)'
<1>1. PICK m : m = sv[s].ms[1]
  OBVIOUS
<1>2. sv[s].pc = "delc" /\ sv \in [Server -> ServerThread] /\ sv[s] \in ServerThread
  BY DEF DelClient, Sat, IInv, Types
<1>3. InHand(s) = {m} /\ Carried(s, m) /\ sv[s].ms # <<>>
  BY <1>1, <1>2, HandIs
<1>4. m.op = "disconnect" /\ ~ InRing(m.r) /\ m.r \in prefs
  BY <1>2, <1>3 DEF Carried
<1>5. /\ prefs' = prefs \ {m.r} /\ sv' = [sv EXCEPT ![s].pc = "dack"]
      /\ UNCHANGED <<ref, port, cl, todo, panic>>
  BY <1>1, <1>4 DEF DelClient
<1>6. /\ sv'[s].pc = "dack" /\ sv'[s].ms = sv[s].ms
      /\ \A x \in Server \ {s} : sv'[x] = sv[x]
  BY <1>2, <1>5 DEF ServerThread
<1>7. ASSUME NEW x PROVE /\ Known(s, x) => Known(s, x)'
                         /\ Unknown(x) => Unknown(x)'
                         /\ InRing(x) /\ x \in prefs => x \in prefs'
  BY <1>2, <1>4, <1>5, <1>6 DEF Known, Unknown, InRing
<1>8. InHand(s)' = {m}
  BY <1>1, <1>3, <1>4, <1>6 DEF InHand
<1>9. Unknown(m.r)'
  BY <1>4, <1>5 DEF Unknown, InRing
<1>10. Carried(s, m)'
  BY <1>4, <1>6, <1>9 DEF Carried
<1>11. /\ sv[s].pc # "dupv" /\ sv'[s].pc \notin {"dupv", "newc", "duph"}
       /\ InHand(s)' \subseteq InHand(s)
  BY <1>2, <1>3, <1>6, <1>8
<1>12. \A x \in InHand(s)' : Carried(s, x)'
  BY <1>8, <1>10
<1>13. \A x : /\ Known(s, x) => Known(s, x)'
              /\ Unknown(x) => Unknown(x)'
              /\ InRing(x) /\ x \in prefs => x \in prefs'
  BY <1>7
<1>14. QED BY <1>5, <1>6, <1>11, <1>12, <1>13, HashTurn

LEMMA DupHashTurn ==
    ASSUME IInv, NEW s \in Server, Turn(s), DupHash(s)
    PROVE  Turn(s)'
<1>1. PICK r : r = sv[s].r
  OBVIOUS
<1>2. sv[s].pc = "duph" /\ sv \in [Server -> ServerThread]
  BY DEF DupHash, Sat, IInv, Types
<1>3. InRing(r) /\ r \notin prefs
  BY <1>1, <1>2 DEF Turn, Hashed, Placed
<1>4. /\ prefs' = prefs \cup {r} /\ sv' = [sv EXCEPT ![s] = IdleSv]
      /\ UNCHANGED <<ref, port, cl, todo, panic>>
  BY <1>1, <1>3 DEF DupHash
<1>5. sv'[s] = IdleSv /\ \A x \in Server \ {s} : sv'[x] = sv[x]
  BY <1>2, <1>4
<1>6. sv'[s].pc = "idle" /\ sv'[s].ms = <<>>
  BY <1>5 DEF IdleSv
<1>7. \A x : /\ Known(s, x) => Known(s, x)'
             /\ Unknown(x) => Unknown(x)'
             /\ InRing(x) /\ x \in prefs => x \in prefs'
  BY <1>1, <1>2, <1>3, <1>4, <1>6 DEF Known, Unknown, InRing
<1>8. InHand(s)' = {}
  BY <1>6 DEF InHand
<1>9. /\ sv[s].pc # "dupv" /\ sv'[s].pc \notin {"dupv", "newc", "duph"}
      /\ InHand(s)' \subseteq InHand(s) /\ \A x \in InHand(s)' : Carried(s, x)'
  BY <1>2, <1>6, <1>8
<1>10. QED BY <1>4, <1>5, <1>7, <1>9, HashTurn

LEMMA ReceivedTurn ==
    ASSUME IInv, NEW s \in Server, Turn(s), Received(s)
    PROVE  Turn(s)'
<1>1. PICK m : m = sv[s].ms[1]
  OBVIOUS
<1>2. /\ sv[s].pc = "rpost" /\ sv \in [Server -> ServerThread]
      /\ sv' = [sv EXCEPT ![s] = IdleSv]
      /\ todo' = CASE m.op = "disconnect" -> todo
                   [] m.op = "abort" -> {x \in todo : x.r # m.r} \cup {m}
                   [] OTHER -> todo \cup {m}
      /\ UNCHANGED <<ref, port, prefs, cl, panic>>
  BY <1>1 DEF Received, Sat, IInv, Types
<1>3. sv[s].ms # <<>>
  BY <1>2 DEF IInv, Shapes, ServerShape, Carries
<1>4. m \in Message
  BY <1>1, <1>3, CarriedIs
<1>5. m.op # "disconnect" => InHand(s) = {m} /\ m \in Open(s)
  BY <1>1, <1>2, <1>3 DEF InHand, Open
<1>6. sv'[s] = IdleSv /\ \A x \in Server \ {s} : sv'[x] = sv[x]
  BY <1>2
<1>7. sv'[s].pc = "idle" /\ sv'[s].ms = <<>>
  BY <1>6 DEF IdleSv
<1>8. InHand(s)' = {}
  BY <1>7 DEF InHand
<1>9. \A x \in todo' : x \in todo \/ (x = m /\ m.op # "disconnect")
  BY <1>2
<1>10. Open(s)' \subseteq Open(s)
  BY <1>2, <1>5, <1>8, <1>9 DEF Open
<1>11. \A x : /\ Known(s, x)' <=> Known(s, x)
              /\ Unknown(x)' <=> Unknown(x)
              /\ InRing(x)' <=> InRing(x)
  BY <1>2, <1>7 DEF Known, Unknown, InRing
<1>12. Lined(s)'
  <2>1. Lined(s)
    BY DEF Turn
  <2>2. ASSUME NEW h \in todo', NEW x \in ToSet(port.q) PROVE Before(h, x)
    BY <1>5, <1>9, <2>1 DEF Lined
  <2>3. ASSUME NEW h \in todo, m.op # "disconnect", h.by = m.by, h # m PROVE h \notin todo'
    <3>1. h.op = "req" /\ m.op = "abort"
      BY <1>5, <2>1, <2>3 DEF Lined, Before
    <3>2. Awaited(h) /\ Awaited(m)
      BY <1>5, <2>3 DEF Turn, Open
    <3>3. h.r = m.r
      BY <2>3, <3>2 DEF Awaited
    <3>4. QED BY <1>2, <2>3, <3>1, <3>3
  <2>4. ASSUME NEW h \in todo', NEW x \in todo', h.by = x.by PROVE h = x
    <3>1. CASE h \in todo /\ x \in todo
      BY <2>1, <2>4, <3>1 DEF Lined
    <3>2. CASE h = m /\ m.op # "disconnect" /\ x \in todo
      BY <2>3, <2>4, <3>2
    <3>3. CASE x = m /\ m.op # "disconnect" /\ h \in todo
      BY <2>3, <2>4, <3>3
    <3>4. QED BY <1>9, <2>4, <3>1, <3>2, <3>3
  <2>5. \A i, j \in DOMAIN port'.q : i < j => Before(port'.q[i], port'.q[j])
    BY <1>2, <2>1 DEF Lined
  <2>6. QED BY <1>2, <1>8, <2>2, <2>4, <2>5 DEF Lined
<1>13. ASSUME m.op # "disconnect" PROVE InRing(m.r) /\ m.r \in prefs
  <2>1. Awaited(m) /\ Carried(s, m)
    BY <1>5, <1>13 DEF Turn, Hashed, Placed
  <2>2. Known(s, m.r)
    <3>1. CASE m.op = "connect"
      BY <1>2, <2>1, <3>1 DEF Carried
    <3>2. CASE m.op # "connect"
      <4>1. /\ m.by \in Client /\ cl[m.by].r = m.r
            /\ cl[m.by].pc \in {"iow", "intr", "abw", "dupw"}
        BY <1>4, <1>13, <2>1, <3>2 DEF Awaited, Message, MsgOp
      <4>2. cl[m.by].pc \in Has /\ cl[m.by].pc \notin {"dw", "dd"}
        BY <4>1 DEF Has
      <4>3. QED BY <4>1, <4>2, HolderIs
    <3>3. QED BY <3>1, <3>2
  <2>3. QED BY <1>2, <2>2 DEF Known
<1>14. Placed(s)'
  <2>0. Placed(s)
    BY DEF Turn, Hashed
  <2>1. ASSUME NEW x \in ToSet(port.q) PROVE Queued(s, x)'
    <3>1. Queued(s, x)
      BY <2>0, <2>1 DEF Placed
    <3>2. QED BY <1>11, <3>1 DEF Queued
  <2>2. \A x \in todo' : x.op # "disconnect" /\ InRing(x.r)' /\ x.r \in prefs'
    BY <1>2, <1>9, <1>11, <1>13, <2>0 DEF Placed
  <2>3. (\A i, j \in DOMAIN port.refs : port.refs[i] = port.refs[j] => i = j)'
    BY <1>2, <2>0 DEF Placed
  <2>4. QED BY <1>2, <1>7, <1>8, <2>1, <2>2, <2>3 DEF Placed
<1> DEFINE R == {}
<1>15. /\ \A x \in Ref \ R : /\ Known(s, x) => Known(s, x)'
                             /\ Unknown(x) => Unknown(x)'
       /\ \A d \in Client : Active(d) /\ (cl[d].r \in R \/ cl[d].n \in R)
                => Joining(s, d)'
       /\ \A x \in Ref \cap R : /\ Settled(x) => Known(s, x)'
                                /\ ref[x].st = "FREE" => Unknown(x)'
       /\ sv[s].pc # "dupv" /\ sv'[s].pc # "dupv" /\ port'.st = port.st
  BY <1>2, <1>7, <1>11
<1> HIDE DEF R
<1>16. QED BY <1>2, <1>6, <1>10, <1>12, <1>14, <1>15, ServesTurn

(* Who sent a message. *)
LEMMA SenderIs ==
    ASSUME IInv, NEW s \in Server, Turn(s), NEW m \in Open(s)
    PROVE  /\ m \in Message /\ m.by \in Client /\ m.r \in Ref /\ cl[m.by].r = m.r
           /\ Awaited(m) /\ Active(m.by) /\ ref[m.r].st # "FREE" /\ ref[m.r].port
           /\ m.op = "connect" => cl[m.by].pc \in Joins
           /\ m.op # "connect" => cl[m.by].pc \in Has
           /\ m.op \notin {"connect", "disconnect"} => Known(s, m.r)
<1>1. m \in Message /\ Awaited(m)
  BY OpenIs DEF Turn
<1>2. m.by \in Client /\ m.r \in Ref /\ m.op \in MsgOp /\ cl[m.by].r = m.r
  BY <1>1 DEF Message, Awaited
<1>3. /\ Active(m.by)
      /\ m.op = "connect" => cl[m.by].pc \in Joins
      /\ m.op # "connect" => cl[m.by].pc \in Has
      /\ m.op \notin {"connect", "disconnect"} => cl[m.by].pc \notin {"dw", "dd"}
  BY <1>1, <1>2 DEF Awaited, MsgOp, Joins, Has, Active
<1>4. ref[m.r].st # "FREE"
  <2>1. CASE m.op = "connect"
    BY <1>2, <1>3, <2>1, OnlyUser
  <2>2. CASE m.op # "connect"
    BY <1>2, <1>3, <2>2, OneUser
  <2>3. QED BY <2>1, <2>2
<1>5. ref[m.r].port
  BY <1>2, <1>4 DEF Turn, Agreed
<1>6. m.op \notin {"connect", "disconnect"} => Known(s, m.r)
  BY <1>2, <1>3, HolderIs
<1>7. QED BY <1>1, <1>2, <1>3, <1>4, <1>5, <1>6

(* Nobody else waits with the portref of a message. *)
LEMMA SoleSender ==
    ASSUME IInv, NEW s \in Server, Turn(s), NEW m \in Open(s), NEW d \in Client,
           Active(d), cl[d].r = m.r \/ cl[d].n = m.r
    PROVE  d = m.by
<1>1. /\ m.by \in Client /\ m.r \in Ref /\ cl[m.by].r = m.r
      /\ m.op = "connect" => cl[m.by].pc \in Joins
      /\ m.op # "connect" => cl[m.by].pc \in Has
  BY SenderIs
<1>2. CASE m.op = "connect"
  BY <1>1, <1>2, OnlyUser DEF Stranger
<1>3. CASE m.op # "connect"
  <2>1. /\ \A x \in Client \ {m.by} : cl[x].r = m.r => cl[x].pc \in Asks
        /\ \A x \in Client : cl[x].pc \in Clones => cl[x].n # m.r
    BY <1>1, <1>3, OneUser
  <2>2. cl[d].n # m.r
    BY <1>1, <2>1, RefAssumption DEF IInv, Shapes, ClientShape
  <2>3. QED BY <2>1, <2>2 DEF Active, Asks
<1>4. QED BY <1>2, <1>3

(* Two messages of one portref are from one client. *)
LEMMA SameSender ==
    ASSUME IInv, NEW s \in Server, Turn(s), NEW m \in Open(s), NEW x \in Open(s),
           m.r = x.r
    PROVE  m.by = x.by
BY SenderIs, SoleSender

-----------------------------------------------------------------------------
(* The ring                                                                 *)

(* ref_port() keeps the portrefs of the ring distinct.                      *)
LEMMA RefPortOnce ==
    ASSUME NEW refs \in Seq(Ref), NEW r \in Ref, r \notin ToSet(refs),
           \A i, j \in DOMAIN refs : refs[i] = refs[j] => i = j
    PROVE  LET z == RefPort(refs, r) IN \A i, j \in DOMAIN z : z[i] = z[j] => i = j
<1> DEFINE z == RefPort(refs, r)
<1>1. CASE refs = <<>>
  BY <1>1 DEF RefPort
<1>2. CASE refs # <<>>
  <2>1. /\ Head(refs) = refs[1] /\ Tail(refs) \in Seq(Ref) /\ Head(refs) \in Ref
        /\ Len(refs) \in Nat \ {0} /\ Len(Tail(refs)) = Len(refs) - 1
        /\ \A i \in 1 .. Len(refs) - 1 : Tail(refs)[i] = refs[i + 1]
    BY <1>2
  <2> DEFINE a == <<Head(refs), r>>
             b == Tail(refs)
  <2>2. a \in Seq(Ref) /\ Len(a) = 2 /\ a[1] = refs[1] /\ a[2] = r
    BY <2>1
  <2>3. b \in Seq(Ref) /\ Len(b) = Len(refs) - 1 /\ \A i \in 1 .. Len(b) : b[i] = refs[i + 1]
    BY <2>1
  <2> HIDE DEF a, b
  <2>4. z = a \o b
    BY <1>2 DEF RefPort, a, b
  <2>5. a \o b \in Seq(Ref) /\ Len(a \o b) = Len(refs) + 1
    <3>1. /\ a \o b \in Seq(Ref) /\ Len(a \o b) = Len(a) + Len(b)
          /\ Len(a) \in Nat /\ Len(b) \in Nat
      BY ONLY <2>2, <2>3, Joined
    <3>2. QED BY <2>1, <2>2, <2>3, <3>1
  <2>6. DOMAIN z = 1 .. Len(refs) + 1
    BY <2>1, <2>4, <2>5
  <2>7. ASSUME NEW i \in 1 .. Len(refs) + 1
        PROVE  z[i] = IF i = 1 THEN refs[1] ELSE IF i = 2 THEN r ELSE refs[i - 1]
    <3>1. CASE i = 1
      BY <2>2, <2>3, <2>4, <2>5, <3>1
    <3>2. CASE i = 2
      BY <2>2, <2>3, <2>4, <2>5, <3>2
    <3>3. CASE i > 2
      <4>1. (a \o b)[i] = b[i - 2] /\ i - 2 \in 1 .. Len(b) /\ (i - 2) + 1 = i - 1
        BY <2>1, <2>2, <2>3, <2>5, <3>3
      <4>2. b[i - 2] = refs[i - 1]
        BY <2>3, <4>1
      <4>3. QED BY <2>4, <3>3, <4>1, <4>2
    <3>4. QED BY <2>1, <3>1, <3>2, <3>3
  <2>8. \A i \in 1 .. Len(refs) : refs[i] # r
    BY DEF ToSet
  <2>9. \A i, j \in 1 .. Len(refs) : refs[i] = refs[j] => i = j
    OBVIOUS
  <2> HIDE DEF z
  <2>10. ASSUME NEW i \in 1 .. Len(refs) + 1, NEW j \in 1 .. Len(refs) + 1, z[i] = z[j]
         PROVE  i = j
    <3> DEFINE f(k) == IF k = 1 THEN 1 ELSE k - 1
    <3>1. CASE i = 2
      <4>1. CASE j = 2
        BY <3>1, <4>1
      <4>2. CASE j # 2
        <5>1. f(j) \in 1 .. Len(refs) /\ z[j] = refs[f(j)]
          BY <2>1, <2>7, <4>2
        <5>2. z[i] = r
          BY <2>1, <2>7, <3>1
        <5>3. QED BY ONLY <2>8, <2>10, <5>1, <5>2
      <4>3. QED BY <4>1, <4>2
    <3>2. CASE i # 2
      <4>1. f(i) \in 1 .. Len(refs) /\ z[i] = refs[f(i)]
        BY <2>1, <2>7, <3>2
      <4>2. CASE j = 2
        <5>1. z[j] = r
          BY <2>1, <2>7, <4>2
        <5>2. QED BY ONLY <2>8, <2>10, <4>1, <5>1
      <4>3. CASE j # 2
        <5>1. f(j) \in 1 .. Len(refs) /\ z[j] = refs[f(j)]
          BY <2>1, <2>7, <4>3
        <5>2. f(i) = f(j)
          <6> HIDE DEF f
          <6>1. QED BY ONLY <2>9, <2>10, <4>1, <5>1
        <5>3. QED BY <2>1, <3>2, <4>3, <5>2
      <4>4. QED BY <4>2, <4>3
    <3>3. QED BY <3>1, <3>2
  <2>11. QED BY <2>6, <2>10 DEF z
<1>3. QED BY <1>1, <1>2

(* deref_port() finds its portref, and no message of another one if it is   *)
(* the last.                                                                *)
LEMMA DerefWorks ==
    ASSUME IInv, NEW s \in Server, Turn(s), sv[s].pc # "rwait", NEW p, NEW r,
           InRing(r), p.refs = port.refs, p.wait = port.wait,
           ToSet(p.q) \subseteq ToSet(port.q),
           \A x \in ToSet(p.q) : x.op # "connect" => x.r # r
    PROVE  DerefFails(p, r) = "none"
<1>1. port \in Port
  BY DEF IInv, Types
<1>2. ~ Blocked(p.wait)
  <2>1. \A x \in Server : sv[x].pc # "rwait"
    BY DEF Turn, IdleSv
  <2>2. SleptOn(port.wait, Server, {})
    <3>1. {x \in Server : sv[x].pc = "rwait"} = {}
      BY <2>1
    <3>2. QED BY <3>1 DEF IInv, PortLocked
  <2>3. port.wait.cnt \in Nat
    BY <2>2, NoSleeper
  <2>4. QED BY <2>3 DEF Blocked
<1>3. r \in ToSet(port.refs) /\ port.refs # <<>>
  BY DEF InRing, ToSet
<1>4. ASSUME NEW x \in ToSet(p.q), x.op # "connect" PROVE InRing(x.r)
  <2>1. x \in Open(s) /\ Queued(s, x)
    BY <1>4 DEF Open, Turn, Hashed, Placed
  <2>2. CASE x.op = "disconnect"
    BY <2>1, <2>2 DEF Queued, Known
  <2>3. CASE x.op # "disconnect"
    <3>1. Known(s, x.r)
      BY <1>4, <2>1, <2>3, SenderIs
    <3>2. QED BY <3>1 DEF Known
  <2>4. QED BY <2>2, <2>3
<1>5. ASSUME Len(port.refs) = 1, NEW x, InRing(x) PROVE x = r
  <2>1. DOMAIN port.refs = {1}
    BY <1>1, <1>5 DEF Port
  <2>2. QED BY <1>3, <1>5, <2>1 DEF InRing, ToSet
<1>6. ~ (Len(p.refs) = 1 /\ \E x \in ToSet(p.q) : x.op # "connect")
  BY <1>4, <1>5
<1>7. QED BY <1>2, <1>3, <1>6 DEF DerefFails

(* What p_wait lets a receiver take off the queue.                          *)
LEMMA HeadIs ==
    ASSUME IInv, NEW s \in Server, Turn(s), sv[s].pc = "got"
    PROVE  LET m == Head(port.q)
               t == Tail(port.q)
           IN
           /\ port.q # <<>> /\ m \in ToSet(port.q) /\ m \in Open(s) /\ InHand(s) = {}
           /\ t \in Seq(Message) /\ ToSet(t) \subseteq ToSet(port.q)
           /\ \A i, j \in DOMAIN t : i < j => Before(t[i], t[j])
           /\ \A x \in ToSet(t) : Before(m, x) /\ (m.op # "req" => x.r # m.r)
           /\ \A x \in todo : x.r = m.r => m.op = "abort"
<1> DEFINE m == Head(port.q)
           t == Tail(port.q)
<1>1. port.q # <<>>
  <2>1. Got # {}
    BY DEF Got
  <2>2. Cardinality(Got) = 1
    BY <2>1, CountOne DEF IInv
  <2>3. SleptOn(port.wait, Server, {})
    <3>1. {x \in Server : sv[x].pc = "rwait"} = {}
      BY DEF Turn, IdleSv
    <3>2. QED BY <3>1 DEF IInv, PortLocked
  <2>4. port.wait.cnt \in Nat
    BY <2>3, NoSleeper
  <2>5. Len(port.q) = (IF Blocked(port.wait) THEN 0 ELSE port.wait.cnt) + 1
    BY <2>2 DEF IInv, WaitCountsQueue, Turn, Got
  <2>6. QED BY <2>4, <2>5 DEF Blocked
<1>2. port.q \in Seq(Message)
  BY DEF IInv, Types, Port
<1>3. /\ t \in Seq(Message) /\ Len(port.q) \in Nat \ {0} /\ Len(t) = Len(port.q) - 1
      /\ \A i \in 1 .. Len(port.q) - 1 : t[i] = port.q[i + 1]
  BY <1>1, <1>2, TailShape
<1>4. m = port.q[1] /\ 1 \in DOMAIN port.q /\ m \in ToSet(port.q)
  BY <1>1, <1>2, <1>3 DEF ToSet
<1>5. DOMAIN t = 1 .. Len(port.q) - 1 /\ DOMAIN port.q = 1 .. Len(port.q)
  BY <1>2, <1>3
<1> HIDE DEF m, t
<1>6. ASSUME NEW x \in ToSet(t)
      PROVE  x \in ToSet(port.q) /\ Before(m, x)
  <2>1. PICK i \in DOMAIN t : x = t[i]
    BY DEF ToSet
  <2>2. i + 1 \in DOMAIN port.q /\ x = port.q[i + 1] /\ 1 < i + 1
    BY <1>3, <1>5, <2>1
  <2>3. Before(port.q[1], port.q[i + 1])
    BY <1>4, <2>2 DEF Turn, Lined
  <2>4. QED BY <1>4, <2>2, <2>3 DEF ToSet
<1>7. ASSUME NEW i \in DOMAIN t, NEW j \in DOMAIN t, i < j PROVE Before(t[i], t[j])
  <2>1. /\ i + 1 \in DOMAIN port.q /\ j + 1 \in DOMAIN port.q /\ i + 1 < j + 1
        /\ t[i] = port.q[i + 1] /\ t[j] = port.q[j + 1]
    BY <1>3, <1>5, <1>7
  <2>2. Before(port.q[i + 1], port.q[j + 1])
    BY <2>1 DEF Turn, Lined
  <2>3. QED BY <2>1, <2>2
<1>8. InHand(s) = {}
  BY DEF IInv, Shapes, ServerShape, Carries, InHand
<1>9. m \in Open(s) /\ \A x \in ToSet(t) : x \in Open(s)
  BY <1>4, <1>6 DEF Open
<1>10. ASSUME NEW x \in ToSet(t), x.r = m.r PROVE m.op = "req"
  <2>1. m.by = x.by
    BY <1>9, <1>10, SameSender
  <2>2. QED BY <1>6, <1>10, <2>1 DEF Before
<1>11. ASSUME NEW x \in todo, x.r = m.r PROVE m.op = "abort"
  <2>1. x \in Open(s)
    BY <1>11 DEF Open
  <2>2. x.by = m.by
    BY <1>9, <1>11, <2>1, SameSender
  <2>3. Before(x, m)
    BY <1>4, <1>11 DEF Turn, Lined
  <2>4. QED BY <2>2, <2>3 DEF Before
<1>12. /\ port.q # <<>> /\ m \in ToSet(port.q) /\ m \in Open(s) /\ InHand(s) = {}
       /\ t \in Seq(Message) /\ ToSet(t) \subseteq ToSet(port.q)
       /\ \A i, j \in DOMAIN t : i < j => Before(t[i], t[j])
       /\ \A x \in ToSet(t) : Before(m, x) /\ (m.op # "req" => x.r # m.r)
       /\ \A x \in todo : x.r = m.r => m.op = "abort"
  BY <1>1, <1>3, <1>4, <1>6, <1>7, <1>8, <1>9, <1>10, <1>11
<1>13. QED BY <1>12 DEF m, t

(* msg_receive() finds a message, and of an M_DISCONNECT the portref.       *)
LEMMA DequeueSure ==
    ASSUME IInv, NEW s \in Server, Turn(s), sv[s].pc = "got"
    PROVE  DequeueFails = "none"
<1>1. PICK m, t, p : m = Head(port.q) /\ t = Tail(port.q) /\ p = [port EXCEPT !.q = Tail(@)]
  OBVIOUS
<1>2. /\ port.q # <<>> /\ m \in ToSet(port.q) /\ m \in Open(s)
      /\ ToSet(t) \subseteq ToSet(port.q)
      /\ \A x \in ToSet(t) : m.op # "req" => x.r # m.r
  BY <1>1, HeadIs
<1>3. m.op # "disconnect" => DequeueFails = "none"
  BY <1>1, <1>2 DEF DequeueFails
<1>4. CASE m.op = "disconnect"
  <2>1. m.by \in Client /\ cl[m.by].r = m.r /\ ref[m.r].port /\ Awaited(m)
    BY <1>2, SenderIs
  <2>2. cl[m.by].pc = "dw"
    BY <1>4, <2>1 DEF Awaited
  <2>3. ref[m.r].st = "CLOSING"
    BY <2>1, <2>2 DEF Turn, Agreed, Agrees
  <2>4. InRing(m.r)
    BY <1>2, <1>4 DEF Turn, Hashed, Placed, Queued, Known
  <2>5. p.refs = port.refs /\ p.wait = port.wait /\ p.q = t
    BY <1>1 DEF IInv, Types, Port
  <2>6. \A x \in ToSet(p.q) : x.op # "connect" => x.r # m.r
    BY <1>2, <1>4, <2>5
  <2>7. ToSet(p.q) \subseteq ToSet(port.q)
    BY <1>2, <2>5
  <2>8. DerefFails(p, m.r) = "none"
    BY <2>4, <2>5, <2>6, <2>7, DerefWorks
  <2>9. QED BY <1>1, <1>2, <1>4, <2>1, <2>3, <2>8 DEF DequeueFails
<1>5. QED BY <1>3, <1>4

LEMMA DequeueTurn ==
    ASSUME IInv, NEW s \in Server, Turn(s), Dequeue(s)
    PROVE  Turn(s)'
<1> DEFINE p == CASE Head(port.q).op = "connect" -> "newc"
                  [] Head(port.q).op = "disconnect" -> "delc" [] OTHER -> "copy"
<1>0. PICK m, t, p1 : m = Head(port.q) /\ t = Tail(port.q) /\ p1 = [port EXCEPT !.q = Tail(@)]
  OBVIOUS
<1>1. sv[s].pc = "got" /\ sv \in [Server -> ServerThread] /\ sv[s] \in ServerThread
  BY DEF Dequeue, Sat, IInv, Types
<1>2. /\ port.q # <<>> /\ m \in ToSet(port.q) /\ m \in Open(s) /\ InHand(s) = {}
      /\ t \in Seq(Message) /\ ToSet(t) \subseteq ToSet(port.q)
      /\ \A i, j \in DOMAIN t : i < j => Before(t[i], t[j])
      /\ \A x \in ToSet(t) : Before(m, x) /\ (m.op # "req" => x.r # m.r)
      /\ \A x \in todo : x.r = m.r => m.op = "abort"
  BY <1>0, <1>1, HeadIs
<1>3. /\ m \in Message /\ m.by \in Client /\ m.r \in Ref /\ cl[m.by].r = m.r /\ Awaited(m)
      /\ Active(m.by) /\ ref[m.r].st # "FREE"
      /\ m.op \notin {"connect", "disconnect"} => Known(s, m.r)
  BY <1>2, SenderIs
<1>4. m.op \in MsgOp /\ Queued(s, m)
  BY <1>2, <1>3 DEF Message, Turn, Hashed, Placed
<1>5. DequeueFails = "none"
  BY <1>1, DequeueSure
<1>6. /\ port' = CASE m.op = "connect" -> [p1 EXCEPT !.refs = RefPort(@, m.r)]
                   [] m.op = "disconnect" -> Unref(p1, m.r)
                   [] OTHER -> p1
      /\ sv' = [sv EXCEPT ![s].ms = <<m>>, ![s].pc = p]
      /\ UNCHANGED <<ref, prefs, cl, todo, panic>>
  BY <1>0, <1>5 DEF Dequeue
<1>7. p = CASE m.op = "connect" -> "newc" [] m.op = "disconnect" -> "delc" [] OTHER -> "copy"
  BY <1>0
<1> HIDE DEF p
<1>8. /\ p1 \in Port /\ p1.st = port.st /\ p1.refs = port.refs /\ p1.q = t /\ port \in Port
  BY <1>0, <1>2 DEF IInv, Types, Port
<1>9. /\ port.refs \in Seq(Ref)
      /\ \A i, j \in DOMAIN port.refs : port.refs[i] = port.refs[j] => i = j
  BY <1>8 DEF Port, Turn, Hashed, Placed
<1>10. /\ port'.st = port.st /\ port'.q = t
       /\ \A i, j \in DOMAIN port'.refs : port'.refs[i] = port'.refs[j] => i = j
       /\ m.op = "connect" => ToSet(port'.refs) = ToSet(port.refs) \cup {m.r}
       /\ m.op = "disconnect" => ToSet(port'.refs) = ToSet(port.refs) \ {m.r}
       /\ m.op \notin {"connect", "disconnect"} => ToSet(port'.refs) = ToSet(port.refs)
  <2>1. CASE m.op = "connect"
    <3>1. PICK z : z = RefPort(port.refs, m.r)
      OBVIOUS
    <3>2. m.r \notin ToSet(port.refs)
      BY <1>4, <2>1 DEF Queued, Unknown, InRing
    <3>3. ToSet(z) = ToSet(port.refs) \cup {m.r}
      BY <1>3, <1>9, <3>1, RefPortIs
    <3>4. \A i, j \in DOMAIN z : z[i] = z[j] => i = j
      BY <1>3, <1>9, <3>1, <3>2, RefPortOnce
    <3>5. port'.refs = z /\ port'.st = port.st /\ port'.q = t
      BY <1>6, <1>8, <2>1, <3>1 DEF Port
    <3>6. QED BY <2>1, <3>3, <3>4, <3>5
  <2>2. CASE m.op = "disconnect"
    <3>1. m.r \in ToSet(port.refs)
      BY <1>4, <2>2 DEF Queued, Known, InRing
    <3>2. DerefFails(p1, m.r) = "none"
      BY <1>0, <1>2, <1>5, <2>2 DEF DequeueFails
    <3>3. PICK z : z = Without(port.refs, m.r)
      OBVIOUS
    <3>4. /\ ToSet(z) = ToSet(port.refs) \ {m.r}
          /\ \A i, j \in DOMAIN z : z[i] = z[j] => i = j
      BY <1>9, <3>1, <3>3, WithoutIs
    <3>5. port'.refs = z /\ port'.st = port.st /\ port'.q = t
      BY <1>6, <1>8, <2>2, <3>2, <3>3, UnrefIs
    <3>6. QED BY <2>2, <3>4, <3>5
  <2>3. CASE m.op \notin {"connect", "disconnect"}
    BY <1>6, <1>8, <1>9, <2>3
  <2>4. QED BY <2>1, <2>2, <2>3
<1>11. /\ sv'[s].ms = <<m>> /\ sv'[s].pc = p /\ p \in {"newc", "delc", "copy"}
       /\ \A x \in Server \ {s} : sv'[x] = sv[x]
  BY <1>1, <1>6, <1>7 DEF ServerThread
<1>12. InHand(s)' = {m}
  BY <1>7, <1>11 DEF InHand
<1>13. Open(s)' \subseteq Open(s)
  BY <1>2, <1>6, <1>10, <1>12 DEF Open
<1>14. Lined(s)'
  <2>1. Lined(s)
    BY DEF Turn
  <2>2. \A x \in todo, h \in ToSet(t) \cup {m} : Before(x, h)
    BY <1>2, <2>1 DEF Lined
  <2>3. \A x, h \in todo : x.by = h.by => x = h
    BY <2>1 DEF Lined
  <2>4. QED BY <1>2, <1>6, <1>10, <1>12, <2>2, <2>3 DEF Lined
<1>15. \A x : /\ Known(s, x) <=> InRing(x) /\ x \in prefs
              /\ Known(s, x)' <=> InRing(x)' /\ x \in prefs
              /\ Unknown(x)' <=> ~ InRing(x)' /\ x \notin prefs
  BY <1>1, <1>6, <1>11 DEF Known, Unknown
<1>16. \A x : InRing(x)' <=> CASE m.op = "connect" -> InRing(x) \/ x = m.r
                               [] m.op = "disconnect" -> InRing(x) /\ x # m.r
                               [] OTHER -> InRing(x)
  BY <1>10 DEF InRing
<1>17. /\ m.op = "connect" => InRing(m.r)' /\ m.r \notin prefs
       /\ m.op = "disconnect" => ~ InRing(m.r)' /\ m.r \in prefs
       /\ m.op \notin {"connect", "disconnect"} => InRing(m.r)' /\ m.r \in prefs
       /\ \A x : x # m.r \/ m.op \notin {"connect", "disconnect"} => (InRing(x)' <=> InRing(x))
  BY <1>3, <1>4, <1>15, <1>16 DEF Queued, Known, Unknown
<1>18. Placed(s)'
  <2>0. Placed(s)
    BY DEF Turn, Hashed
  <2>1. ASSUME NEW x \in ToSet(t) PROVE Queued(s, x)'
    <3>1. Queued(s, x) /\ (x.r # m.r \/ m.op \notin {"connect", "disconnect"})
      BY <1>2, <2>0, <2>1 DEF Placed
    <3>2. InRing(x.r)' <=> InRing(x.r)
      BY <1>17, <3>1
    <3>3. QED BY <1>15, <3>1, <3>2 DEF Queued, Unknown
  <2>2. Carried(s, m)'
    BY <1>6, <1>7, <1>11, <1>15, <1>17 DEF Carried
  <2>3. ASSUME NEW x \in todo
        PROVE  x.op # "disconnect" /\ InRing(x.r)' /\ x.r \in prefs
    <3>1. x.op # "disconnect" /\ InRing(x.r) /\ x.r \in prefs
      BY <2>0, <2>3 DEF Placed
    <3>2. x.r # m.r \/ m.op \notin {"connect", "disconnect"}
      BY <1>2, <2>3
    <3>3. QED BY <1>17, <3>1, <3>2
  <2>4. sv'[s].pc # "duph"
    BY <1>11
  <2>5. QED BY <1>6, <1>10, <1>12, <2>1, <2>2, <2>3, <2>4 DEF Placed
<1> DEFINE R == IF m.op \in {"connect", "disconnect"} THEN {m.r} ELSE {}
<1>19. m.op \in {"connect", "disconnect"} => cl[m.by].pc \in {"cw", "dw"}
  BY <1>3 DEF Awaited
<1>20. /\ \A x \in Ref \ R : /\ Known(s, x) => Known(s, x)'
                             /\ Unknown(x) => Unknown(x)'
  <2>1. ASSUME NEW x \in Ref \ R PROVE InRing(x)' <=> InRing(x)
    BY <1>17, <2>1
  <2>2. QED BY <1>15, <2>1 DEF Unknown
<1>21. ASSUME NEW d \in Client, Active(d), cl[d].r \in R \/ cl[d].n \in R
       PROVE  Joining(s, d)'
  <2>1. m.op \in {"connect", "disconnect"} /\ (cl[d].r = m.r \/ cl[d].n = m.r)
    BY <1>21
  <2>2. d = m.by
    BY <1>2, <1>21, <2>1, SoleSender
  <2>3. cl'[d].pc \in {"cw", "dw"}
    BY <1>6, <1>19, <2>1, <2>2
  <2>4. QED BY <2>3 DEF Joining
<1>22. \A x \in Ref \cap R : ~ Settled(x) /\ ref[x].st # "FREE"
  BY <1>3, <1>19 DEF Settled
<1>23. sv[s].pc # "dupv" /\ sv'[s].pc # "dupv"
  BY <1>1, <1>11
<1> HIDE DEF R
<1>24. QED BY <1>6, <1>10, <1>11, <1>13, <1>14, <1>18, <1>20, <1>21, <1>22, <1>23, ServesTurn

-----------------------------------------------------------------------------
(* The server answers                                                       *)

(* What the server still has to answer: the handle is known, the client     *)
(* waits, and of the client's other messages at most its M_ABORT is open.   *)
LEMMA OwedIs ==
    ASSUME IInv, NEW s \in Server, Turn(s), NEW m \in todo
    PROVE  /\ m \in Open(s) /\ m \in Message /\ m.by \in Client /\ m.r \in Ref
           /\ cl[m.by].r = m.r /\ ref[m.r].port /\ ref[m.r].st # "FREE"
           /\ InRing(m.r) /\ m.r \in prefs /\ m.op # "disconnect"
           /\ m.op = "req" => /\ cl[m.by].pc \in {"iow", "intr", "abw"}
                              /\ ref[m.r].st \in {"IOWAIT", "ABWAIT"}
                              /\ cl[m.by].pc = "abw" <=> ref[m.r].st = "ABWAIT"
           /\ m.op = "dup" => /\ cl[m.by].pc = "dupw" /\ ref[m.r].st = "IOWAIT"
                              /\ m.n = cl[m.by].n
           /\ m.op = "abort" => cl[m.by].pc = "abw" /\ ref[m.r].st = "ABWAIT"
           /\ m.op = "connect" => cl[m.by].pc = "cw" /\ ref[m.r].st = "OPENING"
           /\ m.op # "connect" => ref[m.r].msg = {m.by} /\ m.bit = cl[m.by].bit
           /\ m \notin ToSet(port.q) \cup InHand(s)
           /\ \A x \in Open(s) : x.by = m.by => x = m \/ (m.op = "req" /\ x.op = "abort")
<1>1. m \in Open(s)
  BY DEF Open
<1>2. /\ m \in Message /\ m.by \in Client /\ m.r \in Ref /\ cl[m.by].r = m.r /\ Awaited(m)
      /\ ref[m.r].st # "FREE" /\ ref[m.r].port
  BY <1>1, SenderIs
<1>3. InRing(m.r) /\ m.r \in prefs /\ m.op # "disconnect"
  BY DEF Turn, Hashed, Placed
<1>4. Agrees(m.by)
  BY <1>2 DEF Turn, Agreed
<1>5. m.op = "req" => /\ cl[m.by].pc \in {"iow", "intr", "abw"}
                      /\ ref[m.r].st \in {"IOWAIT", "ABWAIT"}
                      /\ cl[m.by].pc = "abw" <=> ref[m.r].st = "ABWAIT"
  BY <1>2, <1>4 DEF Awaited, Agrees
<1>6. /\ m.op = "dup" => /\ cl[m.by].pc = "dupw" /\ ref[m.r].st = "IOWAIT"
                         /\ m.n = cl[m.by].n
      /\ m.op = "abort" => cl[m.by].pc = "abw" /\ ref[m.r].st = "ABWAIT"
      /\ m.op = "connect" => cl[m.by].pc = "cw" /\ ref[m.r].st = "OPENING"
  BY <1>2, <1>4 DEF Awaited, Agrees
<1>7. m.op # "connect" => ref[m.r].msg = {m.by} /\ m.bit = cl[m.by].bit
  BY <1>2, <1>3, <1>4, <1>5, <1>6 DEF Awaited, Agrees, Message, MsgOp
<1>8. \A x \in ToSet(port.q) \cup InHand(s) : Before(m, x)
  BY DEF Turn, Lined
<1>9. m \notin ToSet(port.q) \cup InHand(s)
  BY <1>8 DEF Before
<1>10. \A x \in Open(s) : x.by = m.by => x = m \/ (m.op = "req" /\ x.op = "abort")
  BY <1>8 DEF Before, Open, Turn, Lined
<1>11. QED BY <1>1, <1>2, <1>3, <1>5, <1>6, <1>7, <1>9, <1>10

LEMMA RefusedTurn ==
    ASSUME IInv, NEW s \in Server, Turn(s), NEW m \in todo,
           ReplyRefused(s, m) \/ ErrRefused(s, m)
    PROVE  Turn(s)'
<1>1. m.r \in prefs /\ ref[m.r].port
  BY OwedIs
<1>2. /\ sv[s].pc = "idle" /\ todo' = todo \ {m} /\ UNCHANGED <<ref, port, cl, sv, panic>>
  BY DEF ReplyRefused, ErrRefused, Answers, Answers0, Sat
<1>3. prefs' = prefs
  BY <1>1 DEF ReplyRefused, ErrRefused, Answers
<1>4. Stirs(s) /\ sv[s].pc \notin Marks
  BY <1>2 DEF Stirs, Marks
<1>5. todo' \subseteq todo
  BY <1>2
<1>6. QED BY <1>2, <1>3, <1>4, <1>5, QuietServes

LEMMA ReplyDupTurn ==
    ASSUME IInv, NEW s \in Server, Turn(s), NEW m \in todo, ReplyDup(s, m)
    PROVE  Turn(s)'
<1>1. PICK c, r, n : c = m.by /\ r = m.r /\ n = cl[c].n
  OBVIOUS
<1>2. /\ sv[s].pc = "idle" /\ sv \in [Server -> ServerThread] /\ ref[r].st = "IOWAIT"
      /\ \E x \in ref[r].msg : cl[x].pc \in {"dupw", "dupd"}
  BY <1>1 DEF ReplyDup, Sat, IsDup, IInv, Types
<1>3. /\ m \in Open(s) /\ m \in Message /\ c \in Client /\ r \in Ref /\ cl[c].r = r
      /\ InRing(r) /\ r \in prefs /\ m.op # "disconnect"
      /\ m.op = "req" => cl[c].pc \in {"iow", "intr", "abw"}
      /\ m.op = "dup" => cl[c].pc = "dupw" /\ m.n = cl[c].n
      /\ m.op = "abort" => cl[c].pc = "abw"
      /\ m.op = "connect" => ref[r].st = "OPENING"
      /\ m.op # "connect" => ref[r].msg = {c}
      /\ \A x \in Open(s) : x.by = c => x = m \/ (m.op = "req" /\ x.op = "abort")
  BY <1>1, OwedIs
<1>4. m.op = "dup" /\ cl[c].pc = "dupw" /\ m.n = n /\ ref[r].msg = {c}
  BY <1>1, <1>2, <1>3 DEF Message, MsgOp
<1>5. UNCHANGED <<ref, prefs, cl>>
  BY DEF ReplyDup, Panic
<1>6. /\ n \in Ref /\ r # n /\ ref[n].st # "FREE" /\ ref[n].port
      /\ \A d \in Client \ {c} : Stranger(d, n)
  <2>1. cl[c].pc \in Clones
    BY <1>4 DEF Clones
  <2>2. (\A d \in Client \ {c} : cl'[d] = cl[d]) /\ \A x \in Ref \ {r, n} : ref'[x] = ref[x]
    BY <1>5
  <2>3. n = cl[c].n /\ r = cl[c].r
    BY <1>1, <1>3
  <2>4. c \in Client
    BY <1>3
  <2>5. /\ r \in Ref /\ n \in Ref /\ r # n /\ Actor(c, {r, n})
        /\ ref[n].st # "FREE" /\ ref[n].port /\ ~ ref[n].iowait.cnt > 0
        /\ ref[r].st # "FREE" /\ ref[r].port /\ ~ ref[r].iowait.cnt > 0
        /\ Known(s, r)
        /\ \A d \in Client \ {c} : Stranger(d, n)
    BY ONLY IInv, s \in Server, Turn(s), <2>1, <2>2, <2>3, <2>4, ClonerIs
  <2>6. QED BY <2>5
<1>7. n = CHOOSE x \in {cl[d].n : d \in ref[r].msg} : TRUE
  BY <1>1, <1>4
<1>8. /\ todo' = todo \ {m} /\ port' = [port EXCEPT !.refs = RefPort(@, n)]
      /\ sv' = [sv EXCEPT ![s] = [pc |-> "dupv", ms |-> <<m>>, r |-> n]]
      /\ panic' = panic
  BY <1>1, <1>6, <1>7 DEF ReplyDup
<1>9. Unknown(n)
  <2>1. Joining(s, c)
    BY <1>3 DEF Turn, Hashed
  <2>2. QED BY <1>1, <1>2, <1>4, <2>1 DEF Joining
<1>10. port \in Port /\ port.refs \in Seq(Ref)
  BY DEF IInv, Types, Port
<1>11. /\ port'.st = port.st /\ port'.q = port.q
       /\ ToSet(port'.refs) = ToSet(port.refs) \cup {n}
       /\ \A i, j \in DOMAIN port'.refs : port'.refs[i] = port'.refs[j] => i = j
  <2>1. PICK z : z = RefPort(port.refs, n)
    OBVIOUS
  <2>2. ToSet(z) = ToSet(port.refs) \cup {n}
    BY <1>6, <1>10, <2>1, RefPortIs
  <2>3. /\ n \notin ToSet(port.refs)
        /\ \A i, j \in DOMAIN port.refs : port.refs[i] = port.refs[j] => i = j
    BY <1>9 DEF Unknown, InRing, Turn, Hashed, Placed
  <2>4. \A i, j \in DOMAIN z : z[i] = z[j] => i = j
    BY <1>6, <1>10, <2>1, <2>3, RefPortOnce
  <2>5. port'.refs = z /\ port'.st = port.st /\ port'.q = port.q
    BY <1>8, <1>10, <2>1 DEF Port
  <2>6. QED BY <2>2, <2>4, <2>5
<1>12. /\ sv'[s].pc = "dupv" /\ sv'[s].ms = <<m>> /\ sv'[s].r = n
       /\ \A x \in Server \ {s} : sv'[x] = sv[x]
  BY <1>2, <1>8
<1>13. InHand(s)' = {m}
  BY <1>4, <1>12 DEF InHand
<1>14. Open(s)' \subseteq Open(s)
  BY <1>3, <1>8, <1>11, <1>13 DEF Open
<1>15. Lined(s)'
  <2>1. Lined(s)
    BY DEF Turn
  <2>2. /\ \A i, j \in DOMAIN port.q : i < j => Before(port.q[i], port.q[j])
        /\ \A x \in todo, h \in ToSet(port.q) : Before(x, h)
        /\ \A x, h \in todo : x.by = h.by => x = h
    BY <2>1 DEF Lined
  <2>3. \A x \in todo \ {m} : Before(x, m)
    BY <2>2 DEF Before
  <2>4. QED BY <1>8, <1>11, <1>13, <2>2, <2>3 DEF Lined
<1>16. /\ \A x : InRing(x)' <=> (InRing(x) \/ x = n)
       /\ \A x : /\ Known(s, x) <=> InRing(x) /\ x \in prefs
                 /\ Known(s, x)' <=> InRing(x)' /\ x \in prefs
                 /\ Unknown(x) <=> ~ InRing(x) /\ x \notin prefs
                 /\ Unknown(x)' <=> ~ InRing(x)' /\ x \notin prefs
  BY <1>2, <1>5, <1>11, <1>12 DEF InRing, Known, Unknown
<1>17. Placed(s)'
  <2>0. Placed(s)
    BY DEF Turn, Hashed
  <2>1. ASSUME NEW x \in ToSet(port.q) PROVE Queued(s, x)'
    <3>1. Queued(s, x) /\ x \in Open(s)
      BY <2>0, <2>1 DEF Placed, Open
    <3>2. x.by \in Client /\ cl[x.by].r = x.r
      BY <3>1, SenderIs
    <3>3. x.r # n
      BY <1>3, <1>6, <3>2 DEF Stranger
    <3>4. QED BY <1>16, <3>1, <3>3 DEF Queued
  <2>2. Carried(s, m)'
    BY <1>4, <1>12 DEF Carried
  <2>3. \A x \in todo : x.op # "disconnect" /\ InRing(x.r)' /\ x.r \in prefs
    BY <1>16, <2>0 DEF Placed
  <2>4. QED BY <1>5, <1>8, <1>11, <1>12, <1>13, <2>1, <2>2, <2>3 DEF Placed
<1> DEFINE R == {n}
<1>18. \A x \in Ref \ R : /\ Known(s, x) => Known(s, x)'
                          /\ Unknown(x) => Unknown(x)'
  BY <1>16
<1>19. ASSUME NEW d \in Client, Active(d), cl[d].r \in R \/ cl[d].n \in R
       PROVE  Joining(s, d)'
  <2>1. d = c
    BY <1>6, <1>19 DEF Stranger
  <2>2. cl'[c].pc = "dupw" /\ cl'[c].n = n /\ InRing(n)' /\ n \notin prefs'
    BY <1>1, <1>4, <1>5, <1>9, <1>16
  <2>3. QED BY <1>12, <2>1, <2>2 DEF Joining
<1>20. \A x \in Ref \cap R : ~ Settled(x) /\ ref[x].st # "FREE"
  BY <1>1, <1>3, <1>6 DEF Settled
<1>21. sv[s].pc # "dupv" /\ sv'[s].r \in R
  BY <1>2, <1>12
<1> HIDE DEF R
<1>22. QED BY <1>5, <1>8, <1>11, <1>12, <1>14, <1>15, <1>17, <1>18, <1>19, <1>20, <1>21, ServesTurn

(* The server answers m: the portref's state and what the client is told    *)
(* change, and the client is woken.                                         *)
Answering(s, m, g, st) ==
    LET r == m.r
        c == m.by
    IN
    /\ sv[s].pc = "idle" /\ Stirs(s)
    /\ UNCHANGED <<port, prefs, panic>> /\ todo' = todo \ {m}
    /\ g \in [Client -> ClientThread]
    /\ \A d \in Client : /\ g[d].pc = cl[d].pc /\ g[d].r = cl[d].r /\ g[d].n = cl[d].n
                         /\ g[d].bit = cl[d].bit /\ g[d].op = cl[d].op
    /\ \A d \in Client \ {c} : g[d].arg = cl[d].arg
    /\ cl' = Wake(g, ref[r].iowait)
    /\ ref'[r].st = st /\ ref'[r].port = ref[r].port /\ ref'[r].msg = ref[r].msg
    /\ ref'[r].iowait = VSema(ref[r].iowait)
    /\ \A x \in Ref \ {r} : ref'[x] = ref[x]
    /\ \/ /\ m.op \in {"req", "dup"} /\ ref[r].st = "IOWAIT" /\ st = "IODONE"
          /\ g[c].arg = "err" \/ (m.op = "req" /\ g[c].arg = "reply")
       \/ m.op = "abort" /\ st = "ABDONE" /\ g[c].arg = cl[c].arg
       \/ m.op = "connect" /\ st = "IODONE" /\ g[c].arg = cl[c].arg

(* Whom the answer wakes, and where it leaves the client.                   *)
LEMMA AnsweredIs ==
    ASSUME IInv, NEW s \in Server, Turn(s), NEW m \in todo, NEW g, NEW st,
           Answering(s, m, g, st)
    PROVE  LET c == m.by IN
           /\ \A d \in Client \ {c} : Rest(d)
           /\ cl'[c].r = cl[c].r /\ cl'[c].n = cl[c].n /\ cl'[c].bit = cl[c].bit
           /\ cl'[c].arg = g[c].arg
           /\ cl[c].pc \in {"iow", "intr", "abw", "dupw", "cw"}
           /\ cl'[c].pc = IF cl[c].pc = "intr" THEN "intr" ELSE WakeTo[cl[c].pc]
           /\ ref'[m.r].iowait.cnt > 0 => cl[c].pc = "intr"
<1>1. PICK c, r : c = m.by /\ r = m.r
  OBVIOUS
<1>2. /\ m \in Message /\ c \in Client /\ r \in Ref /\ cl[c].r = r /\ m.op # "disconnect"
      /\ m.op = "req" => cl[c].pc \in {"iow", "intr", "abw"}
      /\ m.op = "dup" => cl[c].pc = "dupw"
      /\ m.op = "abort" => cl[c].pc = "abw"
      /\ m.op = "connect" => cl[c].pc = "cw"
  BY <1>1, OwedIs
<1>3. /\ cl[c].pc \in {"iow", "intr", "abw", "dupw", "cw"}
      /\ cl[c].pc \in Has \/ cl[c].pc \in Joins
  BY <1>2 DEF Message, MsgOp, Has, Joins
<1>4. Waiters(r) \subseteq {c}
  BY <1>2, <1>3, OneUser, OnlyUser
<1>5. /\ g \in [Client -> ClientThread]
      /\ \A d \in Client : /\ g[d].pc = cl[d].pc /\ g[d].r = cl[d].r /\ g[d].n = cl[d].n
                           /\ g[d].bit = cl[d].bit /\ g[d].op = cl[d].op
      /\ \A d \in Client \ {c} : g[d].arg = cl[d].arg
      /\ cl' = Wake(g, ref[r].iowait)
      /\ ref'[r].iowait = VSema(ref[r].iowait)
      /\ \A x \in Ref \ {r} : ref'[x].iowait = ref[x].iowait
  BY <1>1 DEF Answering
<1>6. Types /\ Waiting
  BY DEF IInv
<1>7. /\ \A d \in Client :
            /\ Follows(d) /\ cl'[d].arg = g[d].arg
            /\ cl'[d].pc # cl[d].pc => d \in Waiters(r)
      /\ ref[r].iowait.cnt \in Int
      /\ ref'[r].iowait.cnt = ref[r].iowait.cnt + 1
      /\ \/ ref[r].iowait.cnt >= 0 /\ Waiters(r) = {}
         \/ /\ ref[r].iowait.cnt < 0
            /\ \E d \in Waiters(r) :
                  /\ VWakes(ref[r].iowait) = {d}
                  /\ cl'[d].pc = WakeTo[cl[d].pc]
  <2>1. r \in Ref /\ g \in [Client -> ClientThread]
    BY <1>2, <1>5
  <2>2. \A d \in Client : /\ g[d].pc = cl[d].pc /\ g[d].r = cl[d].r
                          /\ g[d].n = cl[d].n /\ g[d].bit = cl[d].bit
                          /\ g[d].op = cl[d].op
    BY <1>5
  <2>3. /\ cl' = Wake(g, ref[r].iowait) /\ ref'[r].iowait = VSema(ref[r].iowait)
        /\ \A x \in Ref \ {r} : ref'[x].iowait = ref[x].iowait
    BY <1>5
  <2>4. /\ cl' \in [Client -> ClientThread]
        /\ \A d \in Client :
              /\ Follows(d) /\ cl'[d].arg = g[d].arg
              /\ cl'[d].pc # cl[d].pc => d \in Waiters(r)
        /\ Waiting'
        /\ ref[r].iowait.cnt \in Int
        /\ ref'[r].iowait.cnt = ref[r].iowait.cnt + 1
        /\ \/ ref[r].iowait.cnt >= 0 /\ Waiters(r) = {}
           \/ /\ ref[r].iowait.cnt < 0
              /\ \E d \in Waiters(r) :
                    /\ VWakes(ref[r].iowait) = {d}
                    /\ cl'[d].pc = WakeTo[cl[d].pc]
    BY ONLY <1>6, <2>1, <2>2, <2>3, GiveIo
  <2>5. QED BY ONLY <2>4
<1>8. \A d \in Client \ {c} : Rest(d)
  BY <1>4, <1>5, <1>7 DEF Rest, Follows
<1>9. /\ cl'[c].r = cl[c].r /\ cl'[c].n = cl[c].n /\ cl'[c].bit = cl[c].bit
      /\ cl'[c].arg = g[c].arg
  BY <1>2, <1>7 DEF Follows
<1>10. c \in Waiters(r) <=> cl[c].pc # "intr"
  BY <1>2, <1>3 DEF Waiters, IoPcs
<1>11. CASE cl[c].pc = "intr"
  <2>1. cl'[c].pc = "intr"
    BY <1>2, <1>7, <1>10, <1>11
  <2>2. QED BY <1>1, <1>3, <1>8, <1>9, <1>11, <2>1
<1>12. CASE cl[c].pc # "intr"
  <2>1. ref[r].iowait.cnt < 0 /\ cl'[c].pc = WakeTo[cl[c].pc]
    BY <1>4, <1>7, <1>10, <1>12
  <2>2. ~ ref'[r].iowait.cnt > 0
    BY <1>7, <2>1
  <2>3. QED BY <1>1, <1>3, <1>8, <1>9, <1>12, <2>1, <2>2
<1>13. QED BY <1>11, <1>12

(* An answer to a request, an abort or a connection request. *)
LEMMA AnsweredTurn ==
    ASSUME IInv, NEW s \in Server, Turn(s), NEW m \in todo, NEW g, NEW st,
           Answering(s, m, g, st)
    PROVE  Turn(s)'
<1>1. PICK c, r, n : c = m.by /\ r = m.r /\ n = cl[c].n
  OBVIOUS
<1>2. /\ m \in Open(s) /\ m \in Message /\ c \in Client /\ r \in Ref /\ cl[c].r = r
      /\ ref[r].port /\ InRing(r) /\ r \in prefs /\ m.op # "disconnect"
      /\ m.op = "req" => /\ cl[c].pc \in {"iow", "intr", "abw"}
                         /\ cl[c].pc = "abw" <=> ref[r].st = "ABWAIT"
      /\ m.op = "dup" => cl[c].pc = "dupw"
      /\ m.op = "abort" => cl[c].pc = "abw"
      /\ m.op = "connect" => cl[c].pc = "cw"
      /\ m.op # "connect" => ref[r].msg = {c}
      /\ m \notin ToSet(port.q) \cup InHand(s)
      /\ \A x \in Open(s) : x.by = c => x = m \/ (m.op = "req" /\ x.op = "abort")
  BY <1>1, OwedIs
<1>3. /\ \A d \in Client \ {c} : Rest(d)
      /\ cl'[c].r = cl[c].r /\ cl'[c].n = cl[c].n /\ cl'[c].bit = cl[c].bit
      /\ cl'[c].arg = g[c].arg
      /\ cl[c].pc \in {"iow", "intr", "abw", "dupw", "cw"}
      /\ cl'[c].pc = IF cl[c].pc = "intr" THEN "intr" ELSE WakeTo[cl[c].pc]
      /\ ref'[r].iowait.cnt > 0 => cl[c].pc = "intr"
  BY <1>1, AnsweredIs
<1>4. /\ sv[s].pc = "idle" /\ Stirs(s)
      /\ UNCHANGED <<port, prefs, panic>> /\ todo' = todo \ {m}
      /\ ref'[r].st = st /\ ref'[r].port = ref[r].port /\ ref'[r].msg = ref[r].msg
      /\ \A x \in Ref \ {r} : ref'[x] = ref[x]
      /\ \/ /\ m.op \in {"req", "dup"} /\ ref[r].st = "IOWAIT" /\ st = "IODONE"
            /\ g[c].arg = "err" \/ (m.op = "req" /\ g[c].arg = "reply")
         \/ m.op = "abort" /\ st = "ABDONE" /\ g[c].arg = cl[c].arg
         \/ m.op = "connect" /\ st = "IODONE" /\ g[c].arg = cl[c].arg
  BY <1>1 DEF Answering
<1>5. /\ cl[c].pc = "iow" => /\ cl'[c].pc = "done" /\ st = "IODONE"
                             /\ cl'[c].arg \in {"reply", "err"}
      /\ cl[c].pc = "intr" => /\ cl'[c].pc = "intr" /\ st = "IODONE" /\ ref[r].msg = {c}
                              /\ cl'[c].arg \in {"reply", "err"}
      /\ cl[c].pc = "abw" => cl'[c].pc = "abdone" /\ st = "ABDONE" /\ cl'[c].arg = cl[c].arg
      /\ cl[c].pc = "dupw" => cl'[c].pc = "dupd" /\ st = "IODONE" /\ cl'[c].arg = "err"
      /\ cl[c].pc = "cw" => cl'[c].pc = "cd" /\ st = "IODONE" /\ cl'[c].arg = cl[c].arg
  BY <1>2, <1>3, <1>4, WokenTo
<1>6. /\ cl[c].pc \in Clones <=> n # NoRef
      /\ cl[c].pc \in Clones => n \in Ref /\ r # n /\ \A d \in Client \ {c} : Stranger(d, n)
      /\ n \in Ref => cl[c].pc \in Clones
  <2>1. cl[c].pc \in Clones <=> n # NoRef
    BY <1>1, <1>2 DEF IInv, Shapes, ClientShape
  <2>2. cl[c].pc \in Clones => n \in Ref /\ r # n /\ \A d \in Client \ {c} : Stranger(d, n)
    BY <1>1, <1>2, InCall DEF IInv, Owned
  <2>3. QED BY <2>1, <2>2, RefAssumption
<1>7. n \in Ref => cl[c].pc = "dupw" /\ ref[n].st # "FREE" /\ ref[n].port
                   /\ ~ ref[n].iowait.cnt > 0
  <2>1. SUFFICES ASSUME n \in Ref
                 PROVE  cl[c].pc = "dupw" /\ ref[n].st # "FREE" /\ ref[n].port
                        /\ ~ ref[n].iowait.cnt > 0
    OBVIOUS
  <2>2. cl[c].pc = "dupw"
    BY <1>3, <1>6, <2>1 DEF Clones
  <2>3. ref[n].st # "FREE"
    BY <1>1, <1>2, <2>1 DEF IInv, Owned, Stranger
  <2>4. ref[n].port
    BY <2>1, <2>3 DEF Turn, Agreed
  <2>5. ~ Unit(n)
    BY <1>1, <1>2, <1>6, <2>1, <2>2 DEF Unit, Stranger
  <2>6. ~ ref[n].iowait.cnt > 0
    BY <2>1, <2>5 DEF Turn, Agreed
  <2>7. QED BY <2>2, <2>3, <2>4, <2>6
<1> DEFINE M == {r, n}
<1>8. Actor(c, M)
  <2>1. ASSUME NEW d \in Client \ {c}, Active(d) PROVE cl[d].r \notin M
    <3>1. cl[d].r # r
      BY <1>1, <1>2, <2>1, SoleSender
    <3>2. cl[d].r \in Ref
      BY <2>1, InCall DEF IInv, Active, Has, Joins
    <3>3. cl[d].r # n
      BY <1>6, <2>1, <3>2, RefAssumption DEF Stranger
    <3>4. QED BY <3>1, <3>3
  <2>2. \A x \in Ref \ M : ref'[x] = ref[x]
    BY <1>4
  <2>3. cl[c].n \in M \cup {NoRef} /\ cl[c].r \in M
    BY <1>1, <1>2
  <2> HIDE DEF M
  <2>4. QED BY <1>3, <2>1, <2>2, <2>3 DEF Actor
<1>9. \A x \in Ref \cap M : x = r \/ (x = n /\ n \in Ref)
  OBVIOUS
<1>10. Unit(r)' \/ ~ ref'[r].iowait.cnt > 0
  BY <1>2, <1>3, <1>4, <1>5 DEF Unit
<1>11. Known(s, r) /\ st # "FREE"
  BY <1>2, <1>4 DEF Known
<1>12. n \in Ref => ref'[n] = ref[n] /\ cl'[c].n = n
  BY <1>1, <1>3, <1>4, <1>6
<1>13. \A x \in Ref \cap M : /\ ref'[x].st # "FREE" => ref'[x].port
                             /\ ref'[x].iowait.cnt > 0 => Unit(x)'
  BY <1>2, <1>4, <1>7, <1>9, <1>10, <1>12
<1>14. \A x \in Ref \cap M : /\ Settled(x)' => Known(s, x)
                             /\ ref'[x].st = "FREE" => Unknown(x)
  <2>1. n \in Ref => ~ Settled(n)'
    BY <1>2, <1>12 DEF Settled
  <2>2. QED BY <1>4, <1>7, <1>9, <1>11, <1>12, <2>1
<1>15. Agrees(c)'
  <2>1. Agrees(c)
    BY <1>2 DEF Turn, Agreed
  <2>2. cl'[c].arg # "stale"
    BY <1>3, <1>5, <2>1 DEF Agrees
  <2>3. cl'[c].r = r /\ ref'[r].st = st /\ ref'[r].msg = ref[r].msg
    BY <1>2, <1>3, <1>4
  <2>4. cl'[c].pc \in {"done", "intr", "abdone", "dupd", "cd"}
    BY <1>3, <1>5
  <2>5. /\ cl'[c].pc = "done" => cl'[c].arg # "own"
        /\ cl'[c].pc = "intr" => st = "IODONE" /\ ref[r].msg = {c}
        /\ cl'[c].pc = "abdone" => st = "ABDONE"
        /\ cl'[c].pc = "cd" => st = "IODONE"
    BY <1>3, <1>5
  <2>6. QED BY <2>2, <2>3, <2>4, <2>5 DEF Agrees
<1>16. port'.refs = port.refs /\ prefs' = prefs /\ port'.q = port.q /\ port'.st = port.st
  BY <1>4
<1>17. /\ InHand(s)' = InHand(s)
       /\ \A x : /\ Known(s, x)' <=> Known(s, x)
                 /\ Unknown(x)' <=> Unknown(x)
                 /\ InRing(x)' <=> InRing(x)
  BY <1>4, <1>16, StirsIs
<1>18. Joining(s, c)'
  <2>1. Joining(s, c)
    BY <1>2 DEF Turn, Hashed
  <2>2. cl'[c].pc \in {"done", "intr", "abdone", "dupd", "cd"}
    BY <1>3, <1>5
  <2>3. cl'[c].pc = "cd" => ref'[r].st = "IODONE" /\ Known(s, r)'
    BY <1>3, <1>4, <1>5, <1>11, <1>17
  <2>4. cl'[c].pc = "dupd" => cl'[c].arg = "err" /\ Unknown(n)'
    <3>1. cl'[c].pc = "dupd" => cl[c].pc = "dupw" /\ cl'[c].arg = "err"
      BY <1>3, <1>5
    <3>2. cl[c].pc = "dupw" => Unknown(n)
      BY <1>1, <1>4, <2>1 DEF Joining
    <3>3. QED BY <1>17, <3>1, <3>2
  <2>5. cl'[c].r = r /\ cl'[c].n = n
    BY <1>1, <1>2, <1>3
  <2>6. QED BY <2>2, <2>3, <2>4, <2>5 DEF Joining
<1>19. Open(s)' = Open(s) \ {m}
  BY <1>2, <1>4, <1>17 DEF Open
<1>20. \A x \in Open(s)' : x.by # c
  <2>1. ASSUME NEW x \in Open(s), x # m, x.by = c PROVE FALSE
    <3>1. m.op = "req" /\ x.op = "abort"
      BY <1>2, <2>1
    <3>2. Awaited(x)
      BY <2>1, SenderIs
    <3>3. cl[c].pc = "abw" /\ ref[r].st = "IOWAIT"
      BY <1>4, <2>1, <3>1, <3>2 DEF Awaited
    <3>4. QED BY <1>2, <3>1, <3>3
  <2>2. QED BY <1>19, <2>1
<1>21. todo' \subseteq todo /\ \A x \in ToSet(port'.q) : x \in ToSet(port.q) \/ Queued(s, x)
  BY <1>4
<1> HIDE DEF M
<1>22. Agreed' /\ \A x \in Open(s) : x.by # c => Awaited(x)'
  BY ONLY IInv, s \in Server, Turn(s), <1>2, <1>8, <1>13, <1>15, ActorAgreed
<1>23. Hashed(s)'
  BY ONLY IInv, s \in Server, Turn(s), <1>2, <1>4, <1>8, <1>14, <1>16, <1>18, <1>21, ActorHashed
<1>24. Lined(s)'
  BY <1>4, <1>17 DEF Lined, Turn
<1>25. \A x \in Open(s)' : Awaited(x)'
  BY <1>19, <1>20, <1>22
<1>26. \A x \in Server \ {s} : sv'[x] = IdleSv
  BY <1>4 DEF Stirs, Turn
<1>27. QED BY <1>4, <1>22, <1>23, <1>24, <1>25, <1>26 DEF Turn

(* msg_reply() and msg_err() tell the sender of m, and nobody else.         *)
LEMMA TellsSender ==
    ASSUME IInv, NEW s \in Server, Turn(s), NEW m \in todo, m.op # "connect",
           NEW what \in {"reply", "err"}
    PROVE  LET g == Told(m, what) IN
           /\ g \in [Client -> ClientThread]
           /\ \A d \in Client : /\ g[d].pc = cl[d].pc /\ g[d].r = cl[d].r /\ g[d].n = cl[d].n
                                /\ g[d].bit = cl[d].bit /\ g[d].op = cl[d].op
           /\ \A d \in Client \ {m.by} : g[d].arg = cl[d].arg
           /\ g[m.by].arg = what
<1>1. /\ m \in Message /\ m.by \in Client /\ ref[m.r].msg = {m.by} /\ m.bit = cl[m.by].bit
      /\ m.r \in Ref
  BY OwedIs
<1>2. PICK g : g = Told(m, what)
  OBVIOUS
<1>3. /\ g \in [Client -> ClientThread]
      /\ \A d \in Client : /\ g[d].pc = cl[d].pc /\ g[d].r = cl[d].r /\ g[d].n = cl[d].n
                           /\ g[d].bit = cl[d].bit /\ g[d].op = cl[d].op
  BY <1>1, <1>2, ToldIs DEF IInv
<1>4. \A d \in Client \ {m.by} : g[d] = cl[d]
  BY <1>1, <1>2 DEF Told
<1>5. g[m.by] = [cl[m.by] EXCEPT !.arg = what]
  BY <1>1, <1>2 DEF Told
<1>6. cl[m.by] \in ClientThread
  BY <1>1 DEF IInv, Types
<1>7. g[m.by].arg = what
  BY <1>5, <1>6 DEF ClientThread
<1>8. QED BY <1>2, <1>3, <1>4, <1>7

LEMMA ReplyDoneTurn ==
    ASSUME IInv, NEW s \in Server, Turn(s), NEW m \in todo, ReplyDone(s, m)
    PROVE  Turn(s)'
<1>1. PICK c, r : c = m.by /\ r = m.r
  OBVIOUS
<1>2. /\ r \in Ref /\ c \in Client /\ ref[r].msg = {c}
      /\ m.op \in {"req", "dup"} /\ ref[r].st = "IOWAIT"
      /\ m.op = "dup" => cl[c].pc = "dupw"
  <2>1. m.op \in {"req", "dup", "abort"} /\ ref[r].st = "IOWAIT"
    BY <1>1 DEF ReplyDone
  <2>2. QED BY <1>1, <2>1, OwedIs
<1>3. m.op = "dup" => IsDup(r)
  BY <1>2 DEF IsDup
<1>4. PICK what \in {"reply", "err"} : /\ cl' = Wake(Told(m, what), ref[r].iowait)
                                       /\ m.op = "dup" => what = "err"
  BY <1>1, <1>3 DEF ReplyDone
<1>5. PICK g : g = Told(m, what)
  OBVIOUS
<1>6. m.op # "connect"
  BY <1>2
<1>7. /\ g \in [Client -> ClientThread]
      /\ \A d \in Client : /\ g[d].pc = cl[d].pc /\ g[d].r = cl[d].r /\ g[d].n = cl[d].n
                           /\ g[d].bit = cl[d].bit /\ g[d].op = cl[d].op
      /\ \A d \in Client \ {m.by} : g[d].arg = cl[d].arg
      /\ g[m.by].arg = what
  BY <1>5, <1>6, TellsSender
<1>8. /\ sv[s].pc = "idle" /\ todo' = todo \ {m} /\ UNCHANGED <<port, prefs, panic>>
      /\ sv' = [sv EXCEPT ![s].pc = "svw"]
      /\ ref' = [ref EXCEPT ![r].st = "IODONE",
                            ![r].svwait = PSema(SetSema(@, 0), s),
                            ![r].iowait = VSema(@)]
  BY <1>1 DEF ReplyDone, Answers, Answers0, Sat
<1>9. /\ ref \in [Ref -> Portref] /\ ref[r] \in Portref
      /\ sv \in [Server -> ServerThread] /\ sv[s] \in ServerThread
  BY <1>2 DEF IInv, Types
<1>10. /\ ref'[r].st = "IODONE" /\ ref'[r].port = ref[r].port /\ ref'[r].msg = ref[r].msg
       /\ ref'[r].iowait = VSema(ref[r].iowait)
       /\ \A x \in Ref \ {r} : ref'[x] = ref[x]
  <2>1. PICK w, z : w = PSema(SetSema(ref[r].svwait, 0), s) /\ z = VSema(ref[r].iowait)
    OBVIOUS
  <2>2. ref' = [ref EXCEPT ![r].st = "IODONE", ![r].svwait = w, ![r].iowait = z]
    BY <1>2, <1>8, <1>9, <2>1
  <2>3. QED BY <1>2, <1>9, <2>1, <2>2 DEF Portref
<1>11. Stirs(s)
  BY <1>8, <1>9 DEF Stirs, Marks, ServerThread
<1>12. Answering(s, m, g, "IODONE")
  BY <1>1, <1>2, <1>4, <1>5, <1>7, <1>8, <1>10, <1>11 DEF Answering
<1>13. QED BY <1>12, AnsweredTurn

LEMMA ErrReplyTurn ==
    ASSUME IInv, NEW s \in Server, Turn(s), NEW m \in todo, ErrReply(s, m)
    PROVE  Turn(s)'
<1>1. PICK c, r : c = m.by /\ r = m.r
  OBVIOUS
<1>2. /\ sv[s].pc = "idle" /\ todo' = todo \ {m} /\ UNCHANGED <<port, prefs, panic, sv>>
      /\ ref' = [ref EXCEPT ![r].st = "IODONE", ![r].iowait = VSema(@)]
      /\ cl' = Wake(Told(m, "err"), ref[r].iowait)
      /\ m.op \in {"req", "dup"} /\ ref[r].st = "IOWAIT"
  BY <1>1 DEF ErrReply, Answers, Answers0, Sat
<1>3. r \in Ref
  BY <1>1, OwedIs
<1>4. PICK g : g = Told(m, "err")
  OBVIOUS
<1>5. m.op # "connect" /\ "err" \in {"reply", "err"}
  BY <1>2
<1>6. /\ g \in [Client -> ClientThread]
      /\ \A d \in Client : /\ g[d].pc = cl[d].pc /\ g[d].r = cl[d].r /\ g[d].n = cl[d].n
                           /\ g[d].bit = cl[d].bit /\ g[d].op = cl[d].op
      /\ \A d \in Client \ {m.by} : g[d].arg = cl[d].arg
      /\ g[m.by].arg = "err"
  BY <1>4, <1>5, TellsSender
<1>7. ref \in [Ref -> Portref] /\ ref[r] \in Portref
  BY <1>3 DEF IInv, Types
<1>8. /\ ref'[r].st = "IODONE" /\ ref'[r].port = ref[r].port /\ ref'[r].msg = ref[r].msg
      /\ ref'[r].iowait = VSema(ref[r].iowait)
      /\ \A x \in Ref \ {r} : ref'[x] = ref[x]
  BY <1>2, <1>3, <1>7 DEF Portref
<1>9. Stirs(s)
  BY <1>2 DEF Stirs, Marks
<1>10. Answering(s, m, g, "IODONE")
  BY <1>1, <1>2, <1>4, <1>6, <1>8, <1>9 DEF Answering
<1>11. QED BY <1>10, AnsweredTurn

LEMMA AcceptAbortTurn ==
    ASSUME IInv, NEW s \in Server, Turn(s), NEW m \in todo,
           ReplyAbort(s, m) \/ Accept(s, m)
    PROVE  Turn(s)'
<1>1. PICK c, r : c = m.by /\ r = m.r
  OBVIOUS
<1>2. PICK st : \/ st = "ABDONE" /\ m.op = "abort" /\ ReplyAbort(s, m)
                \/ st = "IODONE" /\ m.op = "connect" /\ Accept(s, m)
  BY DEF ReplyAbort, Accept
<1>3. /\ sv[s].pc = "idle" /\ todo' = todo \ {m} /\ UNCHANGED <<port, prefs, panic, sv>>
      /\ ref' = [ref EXCEPT ![r].st = st, ![r].iowait = VSema(@)]
      /\ cl' = Wake(cl, ref[r].iowait)
  BY <1>1, <1>2 DEF ReplyAbort, Accept, Answers, Answers0, Sat
<1>4. r \in Ref /\ cl \in [Client -> ClientThread]
  BY <1>1, OwedIs DEF IInv, Types
<1>5. ref \in [Ref -> Portref] /\ ref[r] \in Portref
  BY <1>4 DEF IInv, Types
<1>6. /\ ref'[r].st = st /\ ref'[r].port = ref[r].port /\ ref'[r].msg = ref[r].msg
      /\ ref'[r].iowait = VSema(ref[r].iowait)
      /\ \A x \in Ref \ {r} : ref'[x] = ref[x]
  BY <1>3, <1>4, <1>5 DEF Portref
<1>7. Stirs(s)
  BY <1>3 DEF Stirs, Marks
<1>8. Answering(s, m, cl, st)
  BY <1>1, <1>2, <1>3, <1>4, <1>6, <1>7 DEF Answering
<1>9. QED BY <1>8, AnsweredTurn

(* A step of the server that lets client c go on.                           *)
LEMMA LetsGoTurn ==
    ASSUME IInv, NEW s \in Server, Turn(s), NEW c \in Client, NEW M, NEW R, Actor(c, M),
           cl[c].r \in M, Agrees(c)', Joining(s, c)',
           \A x \in Ref \cap M : /\ ref'[x].st # "FREE" => ref'[x].port
                                 /\ ref'[x].iowait.cnt > 0 => Unit(x)',
           \A x \in Ref \ R : /\ Known(s, x) => Known(s, x)'
                              /\ Unknown(x) => Unknown(x)',
           sv[s].pc = "dupv" => sv[s].r \in R, sv'[s].pc # "dupv",
           \A d \in Client \ {c} : Active(d) => cl[d].r \notin R /\ cl[d].n \notin R,
           \A x \in Ref \cap (M \cup R) : /\ Settled(x)' => Known(s, x)'
                                          /\ ref'[x].st # "FREE",
           port'.st = port.st, panic' = panic, \A x \in Server \ {s} : sv'[x] = sv[x],
           Open(s)' \subseteq Open(s), \A m \in Open(s)' : m.by # c,
           Lined(s)', Placed(s)'
    PROVE  Turn(s)'
<1>1. Agreed' /\ \A m \in Open(s) : m.by # c => Awaited(m)'
  BY ActorAgreed
<1>2. /\ \A x \in Ref : Settled(x)' => Known(s, x)'
      /\ \A x \in Ref : ref'[x].st = "FREE" => Unknown(x)'
      /\ \A d \in Client : Joining(s, d)'
  <2>1. PICK C : C = {c}
    OBVIOUS
  <2>2. \A d \in Client \ C : Rest(d) /\ (Active(d) => cl[d].r \notin M)
    BY <2>1 DEF Actor
  <2>3. \A d \in Client \cap C :
               /\ cl[d].n \in M \cup {NoRef}
               /\ cl[d].r \in M \/ cl[d].pc \notin {"cw", "cd", "dw", "dd"}
               /\ Joining(s, d)'
    BY <2>1 DEF Actor
  <2>4. \A x \in Ref \ M : ref'[x].st = ref[x].st
    BY DEF Actor
  <2>5. \A d \in Client \ C : Active(d) /\ (cl[d].r \in R \/ cl[d].n \in R)
               => Joining(s, d)'
    BY <2>1
  <2>6. \A x \in Ref \cap (M \cup R) : /\ Settled(x)' => Known(s, x)'
                                       /\ ref'[x].st = "FREE" => Unknown(x)'
    OBVIOUS
  <2>7. QED BY <2>2, <2>3, <2>4, <2>5, <2>6, HashMoves
<1>3. Hashed(s)'
  BY <1>2 DEF Hashed
<1>4. \A m \in Open(s)' : Awaited(m)'
  BY <1>1
<1>5. \A x \in Server \ {s} : sv'[x] = IdleSv
  BY DEF Turn
<1>6. QED BY <1>1, <1>3, <1>4, <1>5 DEF Turn

(* v_sema(p_iowait) wakes the client that sleeps on it. *)
LEMMA WakesOne ==
    ASSUME IInv, NEW c \in Client, cl[c].pc \in {"cw", "dw", "dupw"}, NEW r, r = cl[c].r,
           cl' = Wake(cl, ref[r].iowait), ref'[r].iowait = VSema(ref[r].iowait),
           \A x \in Ref \ {r} : ref'[x] = ref[x]
    PROVE  /\ \A d \in Client \ {c} : cl'[d] = cl[d]
           /\ cl'[c].r = r /\ cl'[c].n = cl[c].n /\ cl'[c].bit = cl[c].bit
           /\ cl'[c].arg = cl[c].arg /\ cl'[c].pc = WakeTo[cl[c].pc]
           /\ ~ ref'[r].iowait.cnt > 0 /\ r \in Ref
<1>1. /\ cl \in [Client -> ClientThread] /\ Types /\ Waiting
      /\ \A x \in Ref \ {r} : ref'[x].iowait = ref[x].iowait
  BY ClIs
<1>2. cl[c].pc \in Has \/ cl[c].pc \in Joins
  BY DEF Has, Joins
<1>3. r \in Ref /\ Waiters(r) \subseteq {c}
  BY <1>2, OneUser, OnlyUser
<1>4. c \in Waiters(r)
  BY DEF Waiters, IoPcs
<1>5. PICK g : g = cl
  OBVIOUS
<1>6. /\ g \in [Client -> ClientThread] /\ cl' = Wake(g, ref[r].iowait)
      /\ \A d \in Client : /\ g[d].pc = cl[d].pc /\ g[d].r = cl[d].r
                           /\ g[d].n = cl[d].n /\ g[d].bit = cl[d].bit
                           /\ g[d].op = cl[d].op
  BY <1>1, <1>5
<1>7. /\ \A d \in Client :
            /\ Follows(d) /\ cl'[d].arg = g[d].arg
            /\ cl'[d].pc # cl[d].pc => d \in Waiters(r)
      /\ ref[r].iowait.cnt \in Int
      /\ ref'[r].iowait.cnt = ref[r].iowait.cnt + 1
      /\ \/ ref[r].iowait.cnt >= 0 /\ Waiters(r) = {}
         \/ /\ ref[r].iowait.cnt < 0
            /\ \E d \in Waiters(r) :
                  /\ VWakes(ref[r].iowait) = {d}
                  /\ cl'[d].pc = WakeTo[cl[d].pc]
  BY ONLY <1>1, <1>3, <1>6, ref'[r].iowait = VSema(ref[r].iowait), GiveIo
<1>8. /\ ref[r].iowait.cnt < 0 /\ VWakes(ref[r].iowait) = {c}
      /\ cl'[c].pc = WakeTo[cl[c].pc]
  BY <1>3, <1>4, <1>7
<1>9. \A d \in Client \ {c} : cl'[d] = cl[d]
  BY <1>1, <1>8 DEF Wake
<1>10. cl'[c].r = r /\ cl'[c].n = cl[c].n /\ cl'[c].bit = cl[c].bit /\ cl'[c].arg = cl[c].arg
  BY <1>5, <1>7 DEF Follows
<1>11. ~ ref'[r].iowait.cnt > 0
  <2>1. /\ ref[r].iowait.cnt \in Int /\ ref[r].iowait.cnt < 0
        /\ ref'[r].iowait.cnt = ref[r].iowait.cnt + 1
    BY ONLY <1>7, <1>8
  <2>2. QED BY ONLY <2>1
<1>12. QED BY <1>3, <1>8, <1>9, <1>10, <1>11

(* While the server acknowledges, the client has no other message. *)
LEMMA HandOnly ==
    ASSUME IInv, NEW s \in Server, Turn(s), sv[s].pc \in {"dack", "dupv"}
    PROVE  LET m == sv[s].ms[1] IN
           /\ m.op = IF sv[s].pc = "dack" THEN "disconnect" ELSE "dup"
           /\ \A x \in ToSet(port.q) \cup todo : x.by # m.by
           /\ m \in Open(s) /\ InHand(s) = {m}
<1>1. PICK m : m = sv[s].ms[1]
  OBVIOUS
<1>2. /\ m \in Message /\ InHand(s) = {m} /\ Carried(s, m)
  BY <1>1, HandIs
<1>3. m.op = IF sv[s].pc = "dack" THEN "disconnect" ELSE "dup"
  BY <1>2 DEF Carried
<1>4. /\ \A x \in ToSet(port.q) : Before(m, x)
      /\ \A x \in todo : Before(x, m)
  BY <1>2 DEF Turn, Lined
<1>5. \A x \in ToSet(port.q) \cup todo : x.by # m.by
  BY <1>3, <1>4 DEF Before
<1>6. QED BY <1>1, <1>2, <1>3, <1>5 DEF Open

LEMMA AckDisconnectTurn ==
    ASSUME IInv, NEW s \in Server, Turn(s), AckDisconnect(s)
    PROVE  Turn(s)'
<1>1. PICK m : m = sv[s].ms[1]
  OBVIOUS
<1>2. PICK c, r : c = m.by /\ r = m.r
  OBVIOUS
<1>3. /\ sv[s].pc = "dack" /\ ref' = [ref EXCEPT ![r].iowait = VSema(ref[r].iowait)]
      /\ cl' = Wake(cl, ref[r].iowait) /\ sv' = [sv EXCEPT ![s].pc = "copy"]
      /\ UNCHANGED <<port, prefs, todo, panic>>
  BY <1>1, <1>2 DEF AckDisconnect, Sat
<1>4. /\ sv[s].ms # <<>> /\ InHand(s) = {m} /\ Carried(s, m) /\ Awaited(m)
  BY <1>1, <1>3, HandIs
<1>5. /\ m.op = "disconnect" /\ m \in Open(s)
      /\ \A x \in ToSet(port.q) \cup todo : x.by # c
  <2>1. sv[s].pc \in {"dack", "dupv"}
    BY <1>3
  <2>2. QED BY <1>1, <1>2, <1>3, <2>1, HandOnly
<1>6. /\ c \in Client /\ r \in Ref /\ cl[c].r = r /\ cl[c].pc = "dw" /\ ref[r].st # "FREE"
      /\ ref[r].port
  BY <1>2, <1>4, <1>5, SenderIs DEF Awaited
<1>7. /\ ref \in [Ref -> Portref] /\ sv \in [Server -> ServerThread]
      /\ ref[r] \in Portref /\ sv[s] \in ServerThread
  BY <1>6 DEF IInv, Types
<1>8. /\ ref'[r].iowait = VSema(ref[r].iowait) /\ ref'[r].st = ref[r].st
      /\ ref'[r].port = ref[r].port /\ \A x \in Ref \ {r} : ref'[x] = ref[x]
  BY <1>3, <1>6, <1>7 DEF Portref
<1>9. /\ \A d \in Client \ {c} : cl'[d] = cl[d]
      /\ cl'[c].r = r /\ cl'[c].n = cl[c].n /\ cl'[c].bit = cl[c].bit
      /\ cl'[c].arg = cl[c].arg /\ cl'[c].pc = WakeTo[cl[c].pc]
      /\ ~ ref'[r].iowait.cnt > 0 /\ r \in Ref
  <2>1. cl[c].pc \in {"cw", "dw", "dupw"} /\ r = cl[c].r
    BY <1>6
  <2>2. QED BY <1>3, <1>6, <1>8, <2>1, WakesOne
<1>10. cl'[c].pc = "dd" /\ cl[c].n = NoRef
  BY <1>6, <1>9, WokenTo DEF IInv, Shapes, ClientShape, Clones
<1>11. /\ sv'[s].pc = "copy" /\ sv'[s].ms = sv[s].ms
       /\ \A x \in Server \ {s} : sv'[x] = sv[x]
  BY <1>3, <1>7 DEF ServerThread
<1>12. InHand(s)' = {}
  BY <1>1, <1>5, <1>11 DEF InHand
<1>13. Actor(c, {r})
  <2>1. \A d \in Client \ {c} : Active(d) => cl[d].r # r
    BY <1>2, <1>5, SoleSender
  <2>2. QED BY <1>6, <1>8, <1>9, <1>10, <2>1 DEF Actor, Rest
<1>14. \A x : /\ Known(s, x)' <=> Known(s, x)
              /\ Unknown(x)' <=> Unknown(x)
              /\ InRing(x)' <=> InRing(x)
  BY <1>3, <1>11 DEF Known, Unknown, InRing
<1>15. Agrees(c)'
  <2>1. Agrees(c)
    BY <1>6 DEF Turn, Agreed
  <2>2. QED BY <1>6, <1>8, <1>9, <1>10, <2>1 DEF Agrees
<1>16. Joining(s, c)'
  <2>1. Unknown(r)
    BY <1>2, <1>3, <1>4 DEF Carried
  <2>2. QED BY <1>9, <1>10, <1>14, <2>1 DEF Joining
<1>17. ~ Settled(r)'
  BY <1>6, <1>9, <1>10 DEF Settled
<1>18. /\ Open(s)' \subseteq Open(s)
       /\ \A x \in Open(s)' : x.by # c
  BY <1>3, <1>5, <1>12 DEF Open
<1>19. Lined(s)'
  BY <1>3, <1>12 DEF Lined, Turn
<1>20. Placed(s)'
  <2>0. Placed(s)
    BY DEF Turn, Hashed
  <2>1. ASSUME NEW x \in ToSet(port.q) PROVE Queued(s, x)'
    <3>1. Queued(s, x)
      BY <2>0, <2>1 DEF Placed
    <3>2. QED BY <1>14, <3>1 DEF Queued
  <2>2. \A x \in todo : x.op # "disconnect" /\ InRing(x.r)' /\ x.r \in prefs
    BY <1>14, <2>0 DEF Placed
  <2>3. (\A i, j \in DOMAIN port.refs : port.refs[i] = port.refs[j] => i = j)'
    BY <1>3, <2>0 DEF Placed
  <2>4. QED BY <1>3, <1>11, <1>12, <2>1, <2>2, <2>3 DEF Placed
<1>21. PICK M, R : M = {r} /\ R = {}
  OBVIOUS
<1>22. /\ Actor(c, M) /\ cl[c].r \in M
       /\ \A x \in Ref \cap M : /\ ref'[x].st # "FREE" => ref'[x].port
                                /\ ref'[x].iowait.cnt > 0 => Unit(x)'
       /\ \A x \in Ref \ R : /\ Known(s, x) => Known(s, x)'
                             /\ Unknown(x) => Unknown(x)'
       /\ \A d \in Client \ {c} : Active(d) => cl[d].r \notin R /\ cl[d].n \notin R
       /\ \A x \in Ref \cap (M \cup R) : /\ Settled(x)' => Known(s, x)'
                                         /\ ref'[x].st # "FREE"
  BY <1>6, <1>8, <1>9, <1>13, <1>14, <1>17, <1>21
<1>23. /\ sv[s].pc # "dupv" /\ sv'[s].pc # "dupv" /\ c \in Client
       /\ port'.st = port.st /\ panic' = panic
  BY <1>3, <1>6, <1>11
<1>24. QED BY ONLY IInv, s \in Server, Turn(s), <1>11, <1>15, <1>16, <1>18, <1>19, <1>20,
              <1>22, <1>23, LetsGoTurn

LEMMA DupWakeTurn ==
    ASSUME IInv, NEW s \in Server, Turn(s), DupWake(s)
    PROVE  Turn(s)'
<1>1. PICK m : m = sv[s].ms[1]
  OBVIOUS
<1>2. PICK c, r, n : c = m.by /\ r = m.r /\ n = cl[c].n
  OBVIOUS
<1>3. /\ sv[s].pc = "dupv" /\ ref' = [ref EXCEPT ![r].iowait = VSema(ref[r].iowait)]
      /\ cl' = Wake(cl, ref[r].iowait) /\ sv' = [sv EXCEPT ![s].pc = "duph"]
      /\ UNCHANGED <<port, prefs, todo, panic>>
  BY <1>1, <1>2 DEF DupWake, Sat
<1>4. /\ sv[s].ms # <<>> /\ InHand(s) = {m} /\ Carried(s, m) /\ Awaited(m)
  BY <1>1, <1>3, HandIs
<1>5. /\ m.op = "dup" /\ m \in Open(s)
      /\ \A x \in ToSet(port.q) \cup todo : x.by # c
  <2>1. sv[s].pc \in {"dack", "dupv"}
    BY <1>3
  <2>2. QED BY <1>1, <1>2, <1>3, <2>1, HandOnly
<1>6. /\ c \in Client /\ r \in Ref /\ cl[c].r = r /\ cl[c].pc = "dupw" /\ ref[r].st # "FREE"
      /\ ref[r].port
  BY <1>2, <1>4, <1>5, SenderIs DEF Awaited
<1>7. sv[s].r = n
  BY <1>2, <1>3, <1>4, <1>5 DEF Carried, Awaited
<1>8. /\ ref \in [Ref -> Portref] /\ sv \in [Server -> ServerThread]
      /\ ref[r] \in Portref /\ sv[s] \in ServerThread
  BY <1>6 DEF IInv, Types
<1>9. /\ ref'[r].iowait = VSema(ref[r].iowait) /\ ref'[r].st = ref[r].st
      /\ ref'[r].port = ref[r].port /\ \A x \in Ref \ {r} : ref'[x] = ref[x]
  BY <1>3, <1>6, <1>8 DEF Portref
<1>10. /\ \A d \in Client \ {c} : cl'[d] = cl[d]
       /\ cl'[c].r = r /\ cl'[c].n = cl[c].n /\ cl'[c].bit = cl[c].bit
       /\ cl'[c].arg = cl[c].arg /\ cl'[c].pc = WakeTo[cl[c].pc]
       /\ ~ ref'[r].iowait.cnt > 0 /\ r \in Ref
  <2>1. cl[c].pc \in {"cw", "dw", "dupw"} /\ r = cl[c].r
    BY <1>6
  <2>2. QED BY <1>3, <1>6, <1>9, <2>1, WakesOne
<1>11. cl'[c].pc = "dupd" /\ cl'[c].n = n
  BY <1>2, <1>6, <1>10, WokenTo
<1>12. /\ r \in Ref /\ n \in Ref /\ r # n /\ Actor(c, {r, n})
       /\ ref[n].st # "FREE" /\ ref[n].port /\ ~ ref[n].iowait.cnt > 0
       /\ ref[r].st # "FREE" /\ ref[r].port /\ ~ ref[r].iowait.cnt > 0
       /\ Known(s, r)
       /\ \A d \in Client \ {c} : Stranger(d, n)
  <2>1. cl[c].pc \in Clones /\ r = cl[c].r /\ \A x \in Ref \ {r, n} : ref'[x] = ref[x]
    BY <1>6, <1>9 DEF Clones
  <2>2. c \in Client /\ (\A d \in Client \ {c} : cl'[d] = cl[d]) /\ n = cl[c].n
    BY <1>2, <1>6, <1>10
  <2>3. QED BY ONLY IInv, s \in Server, Turn(s), <2>1, <2>2, ClonerIs
<1>13. /\ sv'[s].pc = "duph" /\ sv'[s].r = n
       /\ \A x \in Server \ {s} : sv'[x] = sv[x]
  BY <1>3, <1>7, <1>8 DEF ServerThread
<1>14. InHand(s)' = {}
  BY <1>13 DEF InHand
<1>15. Agrees(c) /\ Joining(s, c)
  BY <1>6 DEF Turn, Agreed, Hashed
<1>16. InRing(n) /\ n \notin prefs /\ cl[c].arg = "own"
  BY <1>2, <1>3, <1>6, <1>7, <1>15 DEF Agrees, Joining
<1>17. \A x : /\ Known(s, x)' <=> Known(s, x) \/ (InRing(x) /\ x = n)
              /\ Unknown(x)' <=> Unknown(x)
              /\ InRing(x)' <=> InRing(x)
  BY <1>3, <1>13 DEF Known, Unknown, InRing
<1>18. Agrees(c)'
  BY <1>10, <1>11, <1>15 DEF Agrees
<1>19. Joining(s, c)'
  BY <1>10, <1>11, <1>16, <1>17 DEF Joining
<1>20. ~ Settled(n)'
  BY <1>6, <1>11 DEF Settled
<1>21. /\ Open(s)' \subseteq Open(s)
       /\ \A x \in Open(s)' : x.by # c
  BY <1>3, <1>5, <1>14 DEF Open
<1>22. Lined(s)'
  BY <1>3, <1>14 DEF Lined, Turn
<1>23. Placed(s)'
  <2>0. Placed(s)
    BY DEF Turn, Hashed
  <2>1. ASSUME NEW x \in ToSet(port.q) PROVE Queued(s, x)'
    <3>1. Queued(s, x)
      BY <2>0, <2>1 DEF Placed
    <3>2. QED BY <1>17, <3>1 DEF Queued
  <2>2. \A x \in todo : x.op # "disconnect" /\ InRing(x.r)' /\ x.r \in prefs
    BY <1>17, <2>0 DEF Placed
  <2>3. (\A i, j \in DOMAIN port.refs : port.refs[i] = port.refs[j] => i = j)'
    BY <1>3, <2>0 DEF Placed
  <2>4. InRing(n)' /\ n \notin prefs'
    BY <1>3, <1>16, <1>17
  <2>5. QED BY <1>3, <1>13, <1>14, <2>1, <2>2, <2>3, <2>4 DEF Placed
<1>24. PICK M, R : M = {r, n} /\ R = {n}
  OBVIOUS
<1>25. \A d \in Client \ {c} : cl[d].r \notin R /\ cl[d].n \notin R
  BY <1>12, <1>24 DEF Stranger
<1>26. /\ Actor(c, M) /\ cl[c].r \in M
       /\ \A x \in Ref \cap M : /\ ref'[x].st # "FREE" => ref'[x].port
                                /\ ref'[x].iowait.cnt > 0 => Unit(x)'
  <2>1. ref'[n] = ref[n]
    BY <1>9, <1>12
  <2>2. /\ ref'[n].st # "FREE" => ref'[n].port
        /\ ref'[n].iowait.cnt > 0 => Unit(n)'
    BY <1>12, <2>1
  <2>3. /\ ref'[r].st # "FREE" => ref'[r].port
        /\ ref'[r].iowait.cnt > 0 => Unit(r)'
    BY <1>6, <1>9, <1>10
  <2>4. Actor(c, M) /\ cl[c].r \in M
    BY <1>6, <1>12, <1>24
  <2>5. QED BY <1>24, <2>2, <2>3, <2>4
<1>27. /\ \A x \in Ref \ R : /\ Known(s, x) => Known(s, x)'
                             /\ Unknown(x) => Unknown(x)'
       /\ \A x \in Ref \cap (M \cup R) : /\ Settled(x)' => Known(s, x)'
                                         /\ ref'[x].st # "FREE"
  BY <1>9, <1>12, <1>17, <1>20, <1>24
<1>28. /\ sv[s].r \in R /\ sv'[s].pc # "dupv" /\ c \in Client
       /\ port'.st = port.st /\ panic' = panic
  BY <1>3, <1>6, <1>7, <1>13, <1>24
<1>29. QED BY ONLY IInv, s \in Server, Turn(s), <1>13, <1>18, <1>19, <1>21, <1>22, <1>23,
              <1>25, <1>26, <1>27, <1>28, LetsGoTurn

LEMMA RejectTurn ==
    ASSUME IInv, NEW s \in Server, Turn(s), NEW m \in todo, Reject(s, m)
    PROVE  Turn(s)'
<1>1. PICK c, r : c = m.by /\ r = m.r
  OBVIOUS
<1>2. /\ m \in Open(s) /\ m \in Message /\ c \in Client /\ r \in Ref /\ cl[c].r = r
      /\ ref[r].port /\ ref[r].st = "OPENING" /\ InRing(r) /\ r \in prefs
      /\ m.op = "connect" /\ cl[c].pc = "cw"
      /\ m \notin ToSet(port.q) \cup InHand(s)
      /\ \A x \in Open(s) : x.by = c => x = m
  <2>1. m.op = "connect"
    BY DEF Reject
  <2>2. QED BY <1>1, <2>1, OwedIs
<1>3. sv[s].pc = "idle" /\ sv' = sv
  BY DEF Reject, Sat, Panic
<1>4. \A x \in Open(s) : x.r = r => x = m
  BY <1>1, <1>2, SameSender
<1>5. DerefFails(port, r) = "none"
  <2>1. sv[s].pc # "rwait" /\ InRing(r)
    BY <1>2, <1>3
  <2>2. \A x \in ToSet(port.q) : x.op # "connect" => x.r # r
    BY <1>2, <1>4 DEF Open
  <2>3. QED BY <2>1, <2>2, DerefWorks
<1>6. /\ todo' = todo \ {m} /\ prefs' = prefs \ {r} /\ port' = Unref(port, r)
      /\ ref' = [ref EXCEPT ![r].st = "ABDONE", ![r].iowait = VSema(ref[r].iowait)]
      /\ cl' = Wake(cl, ref[r].iowait) /\ panic' = panic
  BY <1>1, <1>5 DEF Reject
<1>7. /\ ref \in [Ref -> Portref] /\ ref[r] \in Portref /\ port \in Port
      /\ port.refs \in Seq(Ref)
      /\ \A i, j \in DOMAIN port.refs : port.refs[i] = port.refs[j] => i = j
  BY <1>2 DEF IInv, Types, Port, Turn, Hashed, Placed
<1>8. /\ port'.st = port.st /\ port'.q = port.q
      /\ ToSet(port'.refs) = ToSet(port.refs) \ {r}
      /\ \A i, j \in DOMAIN port'.refs : port'.refs[i] = port'.refs[j] => i = j
  <2>1. PICK z : z = Without(port.refs, r)
    OBVIOUS
  <2>2. r \in ToSet(port.refs)
    BY <1>2 DEF InRing
  <2>3. /\ ToSet(z) = ToSet(port.refs) \ {r}
        /\ \A i, j \in DOMAIN z : z[i] = z[j] => i = j
    BY <1>7, <2>1, <2>2, WithoutIs
  <2>4. port'.refs = z /\ port'.st = port.st /\ port'.q = port.q
    BY <1>5, <1>6, <1>7, <2>1, UnrefIs
  <2>5. QED BY <2>3, <2>4
<1>9. /\ ref'[r].iowait = VSema(ref[r].iowait) /\ ref'[r].st = "ABDONE"
      /\ ref'[r].port = ref[r].port /\ \A x \in Ref \ {r} : ref'[x] = ref[x]
  BY <1>2, <1>6, <1>7 DEF Portref
<1>10. /\ \A d \in Client \ {c} : cl'[d] = cl[d]
       /\ cl'[c].r = r /\ cl'[c].n = cl[c].n /\ cl'[c].bit = cl[c].bit
       /\ cl'[c].arg = cl[c].arg /\ cl'[c].pc = WakeTo[cl[c].pc]
       /\ ~ ref'[r].iowait.cnt > 0 /\ r \in Ref
  <2>1. cl[c].pc \in {"cw", "dw", "dupw"} /\ r = cl[c].r
    BY <1>2
  <2>2. QED BY <1>2, <1>6, <1>9, <2>1, WakesOne
<1>11. cl'[c].pc = "cd" /\ cl[c].n = NoRef
  BY <1>2, <1>10, WokenTo DEF IInv, Shapes, ClientShape, Clones
<1>12. \A d \in Client \ {c} : Stranger(d, r)
  BY <1>2, OnlyUser DEF Joins
<1>13. Actor(c, {r})
  BY <1>2, <1>9, <1>10, <1>11, <1>12 DEF Actor, Rest, Stranger
<1>14. /\ \A x : InRing(x)' <=> InRing(x) /\ x # r
       /\ \A x : x # r => (/\ Known(s, x)' <=> Known(s, x)
                           /\ Unknown(x)' <=> Unknown(x))
       /\ Unknown(r)'
  BY <1>3, <1>6, <1>8 DEF Known, Unknown, InRing
<1>15. Agrees(c)'
  <2>1. Agrees(c)
    BY <1>2 DEF Turn, Agreed
  <2>2. QED BY <1>2, <1>9, <1>10, <1>11, <2>1 DEF Agrees
<1>16. Joining(s, c)'
  BY <1>9, <1>10, <1>11, <1>14 DEF Joining
<1>17. ~ Settled(r)'
  BY <1>2, <1>10, <1>11 DEF Settled
<1>18. InHand(s)' = {} /\ InHand(s) = {}
  BY <1>3 DEF InHand, IInv, Shapes, ServerShape, Carries
<1>19. Open(s)' = Open(s) \ {m}
  BY <1>2, <1>6, <1>8, <1>18 DEF Open
<1>20. Lined(s)'
  BY <1>6, <1>8, <1>18 DEF Lined, Turn
<1>21. Placed(s)'
  <2>0. Placed(s)
    BY DEF Turn, Hashed
  <2>1. ASSUME NEW x \in ToSet(port.q) PROVE Queued(s, x)'
    <3>1. Queued(s, x) /\ x.r # r
      BY <1>2, <1>4, <2>0, <2>1 DEF Placed, Open
    <3>2. QED BY <1>14, <3>1 DEF Queued
  <2>2. ASSUME NEW x \in todo \ {m}
        PROVE  x.op # "disconnect" /\ InRing(x.r)' /\ x.r \in prefs \ {r}
    <3>1. x.r # r
      BY <1>4, <2>2 DEF Open
    <3>2. QED BY <1>14, <2>0, <2>2, <3>1 DEF Placed
  <2>3. QED BY <1>3, <1>6, <1>8, <1>18, <2>1, <2>2 DEF Placed
<1>22. PICK M, R : M = {r} /\ R = {r}
  OBVIOUS
<1>23. /\ Actor(c, M) /\ cl[c].r \in M
       /\ \A x \in Ref \cap M : /\ ref'[x].st # "FREE" => ref'[x].port
                                /\ ref'[x].iowait.cnt > 0 => Unit(x)'
       /\ \A x \in Ref \ R : /\ Known(s, x) => Known(s, x)'
                             /\ Unknown(x) => Unknown(x)'
       /\ \A d \in Client \ {c} : Active(d) => cl[d].r \notin R /\ cl[d].n \notin R
       /\ \A x \in Ref \cap (M \cup R) : /\ Settled(x)' => Known(s, x)'
                                         /\ ref'[x].st # "FREE"
  BY <1>2, <1>9, <1>10, <1>12, <1>13, <1>14, <1>17, <1>22 DEF Stranger
<1>24. /\ sv[s].pc # "dupv" /\ sv'[s].pc # "dupv" /\ c \in Client
       /\ port'.st = port.st /\ panic' = panic
       /\ \A x \in Server \ {s} : sv'[x] = sv[x]
  BY <1>2, <1>3, <1>6, <1>8
<1>25. Open(s)' \subseteq Open(s) /\ \A x \in Open(s)' : x.by # c
  BY <1>2, <1>19
<1>26. QED BY ONLY IInv, s \in Server, Turn(s), <1>15, <1>16, <1>20, <1>21, <1>23, <1>24,
              <1>25, LetsGoTurn

-----------------------------------------------------------------------------
(* All steps                                                                *)

(* A port that was closed is never opened again. *)
LEMMA StaysShut ==
    ASSUME IInv, [Next]_vars, port.st # "open"
    PROVE  port'.st # "open"
<1>1. port \in Port
  BY DEF IInv, Types
<1>2. ASSUME NEW m, port' = Queue(m) PROVE port'.st = port.st
  BY <1>1, <1>2 DEF Queue, Port
<1>3. ASSUME NEW p, NEW r, p.st = port.st, DOMAIN p = DOMAIN port PROVE Unref(p, r).st = port.st
  <2>1. PICK z : z = Without(p.refs, r)
    OBVIOUS
  <2>2. Unref(p, r) = [p EXCEPT !.refs = z]
    BY <2>1 DEF Unref
  <2>3. QED BY <1>3, <2>2
<1>4. ASSUME NEW c \in Client, NEW op, NEW where, Post(c, op, where) PROVE port'.st = port.st
  BY <1>2, <1>4 DEF Post, Panic
<1>5. ASSUME NEW c \in Client, ClientCall(c) PROVE port'.st = port.st
  BY <1>2, <1>5 DEF ClientCall, Lookup, Connect, Disconnect
<1>6. ASSUME NEW c \in Client, ClientStep(c) PROVE port'.st = port.st
  <2>1. CASE Abort(c) \/ ShutClient(c)
    BY <1>2, <2>1 DEF Abort, ShutClient, Panic
  <2>2. CASE Send(c) \/ CloneSend(c)
    BY <1>4, <2>2 DEF Send, CloneSend
  <2>3. CASE \/ LookupGone(c) \/ AbortLate(c) \/ Aborted(c) \/ Done(c) \/ Release(c)
             \/ (\E n \in Ref : Clone(c, n)) \/ CloneDone(c) \/ Connected(c) \/ Disconnected(c)
    BY <2>3 DEF LookupGone, AbortLate, Aborted, Done, Release, Clone, CloneDone, Connected,
                Disconnected, Panic
  <2>4. QED BY <1>6, <2>1, <2>2, <2>3 DEF ClientStep
<1>7. ASSUME NEW s \in Server, Dequeue(s) PROVE port'.st = port.st
  <2>1. PICK p, m : p = [port EXCEPT !.q = Tail(@)] /\ m = Head(port.q)
    OBVIOUS
  <2>2. p.st = port.st /\ DOMAIN p = DOMAIN port
    BY <1>1, <2>1 DEF Port
  <2>3. \/ port' = port
        \/ port' = [p EXCEPT !.refs = RefPort(@, m.r)]
        \/ port' = Unref(p, m.r)
        \/ port' = p
    BY <1>7, <2>1 DEF Dequeue, Panic
  <2>4. PICK z : z = RefPort(p.refs, m.r)
    OBVIOUS
  <2>5. [p EXCEPT !.refs = RefPort(@, m.r)].st = port.st
    BY <2>2, <2>4
  <2>6. QED BY <1>3, <2>2, <2>3, <2>5
<1>8. ASSUME NEW s \in Server, ServerStep(s) PROVE port'.st # "open"
  <2>1. CASE AwaitMsg(s) \/ ReleasePort(s) \/ Unname(s) \/ TakeMsgs(s) \/ FreePort(s)
    <3>1. \E z : \/ port' = [port EXCEPT !.wait = z] \/ port' = [port EXCEPT !.sema = z]
                \/ port' = [port EXCEPT !.name = z] \/ port' = [port EXCEPT !.q = z]
                \/ port' = [port EXCEPT !.st = "freed"]
      BY <2>1 DEF AwaitMsg, ReleasePort, Unname, TakeMsgs, FreePort
    <3>2. QED BY <1>1, <3>1 DEF Port
  <2>2. CASE CloseClient(s) \/ BounceMsg(s)
    <3>1. \E r : port' = port \/ port' = Unref(port, r)
      BY <2>2 DEF CloseClient, BounceMsg, Panic
    <3>2. QED BY <1>3, <3>1
  <2>3. CASE \/ NewClient(s) \/ DelClient(s) \/ AckDisconnect(s) \/ CopyOut(s) \/ Received(s)
             \/ DupWake(s) \/ DupHash(s) \/ Bounced(s) \/ Unhash(s)
    BY <2>3 DEF NewClient, DelClient, AckDisconnect, CopyOut, Received, DupWake, DupHash,
                Bounced, Unhash, Panic
  <2>4. QED BY <1>7, <1>8, <2>1, <2>2, <2>3 DEF ServerStep
<1>9. ASSUME NEW s \in Server, ServerAnswer(s) PROVE port'.st = port.st
  <2>1. PICK m \in todo :
           \/ ReplyDone(s, m) \/ ReplyDup(s, m) \/ ReplyAbort(s, m)
           \/ ReplyRefused(s, m) \/ ErrReply(s, m) \/ ErrRefused(s, m)
           \/ Reject(s, m) \/ Accept(s, m)
    BY <1>9 DEF ServerAnswer
  <2>2. CASE ReplyDup(s, m)
    <3>1. \E z : port' = port \/ port' = [port EXCEPT !.refs = z]
      BY <2>2 DEF ReplyDup, Panic
    <3>2. QED BY <1>1, <3>1 DEF Port
  <2>3. CASE Reject(s, m)
    BY <1>1, <1>3, <2>3 DEF Reject, Panic, Port
  <2>4. CASE \/ ReplyDone(s, m) \/ ReplyAbort(s, m) \/ ReplyRefused(s, m)
             \/ ErrReply(s, m) \/ ErrRefused(s, m) \/ Accept(s, m)
    BY <2>4 DEF ReplyDone, ReplyAbort, ReplyRefused, ErrReply, ErrRefused, Accept
  <2>5. QED BY <2>1, <2>2, <2>3, <2>4
<1>10. ASSUME NEW s \in Server, Receive(s) \/ ClosePort(s) PROVE port'.st # "open"
  BY <1>1, <1>10 DEF Receive, ClosePort, Port
<1>11. ASSUME Event PROVE port'.st = port.st
  BY <1>1, <1>11 DEF Event, LookupIntr, SendIntr, ReceiveIntr, AwaitIntr, Port
<1>12. QED BY <1>5, <1>6, <1>8, <1>9, <1>10, <1>11 DEF Next, vars

(* Every step of a client keeps it, ...                                     *)
LEMMA ClientCallTurn ==
    ASSUME IInv, NEW s \in Server, Turn(s), NEW c \in Client, ClientCall(c)
    PROVE  Turn(s)'
BY LookupTurn, ConnectTurn DEF ClientCall

LEMMA ClientStepTurn ==
    ASSUME IInv, NEW s \in Server, Turn(s), NEW c \in Client, ClientStep(c)
    PROVE  Turn(s)'
BY LookupGoneTurn, SendTurn, AbortTurn, AbortLateTurn, AbortedTurn, DoneTurn, ReleaseTurn,
   CloneTurn, CloneSendTurn, CloneDoneTurn, ConnectedTurn, ShutClientTurn, DisconnectedTurn
   DEF ClientStep

(* ... every step of the server thread, which does not close the port, ...   *)
LEMMA ServerStepTurn ==
    ASSUME IInv, NEW s \in Server, Turn(s), ServerStep(s)
    PROVE  Turn(s)'
<1>1. sv[s].pc \notin Closers
  BY DEF IInv, Closing, Turn
<1>2. ~ (Unname(s) \/ CloseClient(s) \/ TakeMsgs(s) \/ BounceMsg(s) \/ Bounced(s)
         \/ Unhash(s) \/ FreePort(s))
  BY <1>1 DEF Unname, CloseClient, TakeMsgs, BounceMsg, Bounced, Unhash, FreePort, Sat, Closers
<1>3. QED BY <1>2, ReceiveTurn, DequeueTurn, NewClientTurn, DelClientTurn, AckDisconnectTurn,
             ReleasePortTurn, ReceivedTurn, DupWakeTurn, DupHashTurn DEF ServerStep

(* ... and every answer.                                                    *)
LEMMA ServerAnswerTurn ==
    ASSUME IInv, NEW s \in Server, Turn(s), ServerAnswer(s)
    PROVE  Turn(s)'
BY ReplyDoneTurn, ReplyDupTurn, AcceptAbortTurn, RefusedTurn, ErrReplyTurn, RejectTurn
   DEF ServerAnswer

(* A server thread that acts is in use. *)
LEMMA OnlyServer ==
    ASSUME NEW s \in Server, env.servers = {s}, NEW x \in Server,
           \/ Receive(x) \/ ServerStep(x) \/ ServerAnswer(x) \/ ClosePort(x)
           \/ ReceiveIntr(x) \/ AwaitIntr(x)
    PROVE  x = s
<1>1. x \in env.servers
  <2>1. CASE Receive(x) \/ ClosePort(x) \/ ReceiveIntr(x) \/ AwaitIntr(x)
    BY <2>1 DEF Receive, ClosePort, ReceiveIntr, AwaitIntr, Sat
  <2>2. CASE ServerStep(x)
    BY <2>2 DEF ServerStep, AwaitMsg, Dequeue, NewClient, DelClient, AckDisconnect, CopyOut,
       ReleasePort, Received, DupWake, DupHash, Unname, CloseClient, TakeMsgs, BounceMsg,
       Bounced, Unhash, FreePort, Sat
  <2>3. CASE ServerAnswer(x)
    BY <2>3 DEF ServerAnswer, ReplyDone, ReplyDup, ReplyAbort, ReplyRefused, ErrReply,
       ErrRefused, Reject, Accept, Answers, Answers0, Sat
  <2>4. QED BY <2>1, <2>2, <2>3
<1>2. QED BY <1>1

(* Where nothing changes it stays.                                          *)
LEMMA IdleTurn ==
    ASSUME NEW s \in Server, Turn(s), UNCHANGED vars
    PROVE  Turn(s)'
<1>1. UNCHANGED <<env, ref, port, prefs, cl, sv, todo, panic>>
  BY DEF vars
<1>2. InHand(s)' = InHand(s) /\ Open(s)' = Open(s)
  BY <1>1 DEF InHand, Open
<1>3. Lined(s)' /\ Agreed' /\ \A m \in Open(s)' : Awaited(m)'
  BY <1>1, <1>2 DEF Turn, Lined, Agreed, Agrees, Unit, Awaited
<1>4. \A r : /\ Known(s, r)' <=> Known(s, r)
             /\ Unknown(r)' <=> Unknown(r)
             /\ InRing(r)' <=> InRing(r)
             /\ Settled(r)' <=> Settled(r)
  BY <1>1 DEF Known, Unknown, InRing, Settled
<1>5. Hashed(s)'
  BY <1>1, <1>2, <1>4 DEF Turn, Hashed, Joining, Placed, Queued, Carried
<1>6. QED BY <1>1, <1>3, <1>5 DEF Turn

(* It is inductive, on top of IInv.                                         *)
LEMMA NextTurn == IInv /\ TurnInv /\ [Next]_vars => TurnInv'
<1> SUFFICES ASSUME IInv, TurnInv, [Next]_vars, NEW s \in Server, Alone(s)'
             PROVE  Turn(s)'
  BY DEF TurnInv
<1>1. env' = env
  BY DEF Next, vars
<1>2. Alone(s)
  BY <1>1, StaysShut DEF Alone
<1>3. Turn(s) /\ env.servers = {s}
  BY <1>2 DEF TurnInv, Alone
<1>4. CASE UNCHANGED vars
  BY <1>3, <1>4, IdleTurn
<1>5. CASE Next
  <2>1. ASSUME NEW c \in Client, ClientCall(c) \/ ClientStep(c) PROVE Turn(s)'
    BY <1>3, <2>1, ClientCallTurn, ClientStepTurn
  <2>2. ASSUME NEW x \in Server,
               Receive(x) \/ ServerStep(x) \/ ServerAnswer(x) \/ ClosePort(x)
        PROVE  Turn(s)'
    <3>1. x = s
      BY <1>3, <2>2, OnlyServer
    <3>2. ~ ClosePort(s)
      <4>1. ASSUME ClosePort(s) PROVE FALSE
        <5>1. env.shut /\ port' = [port EXCEPT !.st = "closing", !.sema = PSema(@, s)]
          BY <4>1 DEF ClosePort
        <5>2. port'.st = "closing"
          BY <5>1 DEF IInv, Types, Port
        <5>3. QED BY <1>1, <5>1, <5>2 DEF Alone
      <4>2. QED BY <4>1
    <3>3. QED BY <1>3, <2>2, <3>1, <3>2, ReceiveTurn, ServerStepTurn, ServerAnswerTurn
  <2>3. ASSUME Event PROVE Turn(s)'
    <3>1. CASE \E c \in Client : LookupIntr(c) \/ SendIntr(c)
      BY <1>3, <3>1, LookupIntrTurn, SendIntrTurn
    <3>2. CASE \E x \in Server : ReceiveIntr(x) \/ AwaitIntr(x)
      <4>1. PICK x \in Server : ReceiveIntr(x) \/ AwaitIntr(x)
        BY <3>2
      <4>2. x = s
        BY <1>3, <4>1, OnlyServer
      <4>3. QED BY <1>3, <4>1, <4>2, ReceiveIntrTurn, ReceiveTurn
    <3>3. QED BY <2>3, <3>1, <3>2 DEF Event
  <2>4. QED BY <1>5, <2>1, <2>2, <2>3 DEF Next
<1>6. QED BY <1>4, <1>5

(* At first nothing is on its way, and the hash has what is connected.      *)
LEMMA InitTurn == Init => TurnInv
<1> SUFFICES ASSUME Init, NEW s \in Server PROVE Turn(s)
  BY DEF TurnInv
<1>1. env.open \subseteq Ref /\ IsFiniteSet(env.open)
  <2>1. env.open \subseteq Ref
    BY EnvAssumption DEF Init, Env
  <2>2. QED BY <2>1, FiniteAssumption, FS_Subset
<1>2. /\ ToSet(port.refs) = env.open /\ prefs = env.open /\ port.q = <<>> /\ todo = {}
      /\ port.st = "open" /\ panic = "none"
      /\ \A i, j \in DOMAIN port.refs : port.refs[i] = port.refs[j] => i = j
  <2>1. port.refs = SetToSeq(env.open)
    BY DEF Init
  <2>2. QED BY <1>1, <2>1, ListOf DEF Init
<1>3. \A x \in Server : sv[x] = IdleSv /\ sv[x].pc = "idle" /\ sv[x].ms = <<>>
  BY DEF Init, IdleSv
<1>4. \A c \in Client : cl[c].pc = "idle" /\ cl[c].arg = "own"
  BY DEF Init, IdleCl
<1>5. NewSema(0).cnt = 0
  BY NewSlept
<1>6. \A r \in Ref :
         /\ r \in env.open => ref[r].st = "IODONE" /\ ref[r].port
         /\ r \notin env.open => ref[r].st = "FREE"
         /\ ref[r].iowait.cnt = 0
  BY <1>5 DEF Init, OpenRef, FreeRef
<1>7. ToSet(port.q) = {} /\ DOMAIN port.q = {}
  BY <1>2 DEF ToSet
<1>8. InHand(s) = {}
  BY <1>3 DEF InHand
<1>9. Open(s) = {} /\ Lined(s)
  BY <1>2, <1>7, <1>8 DEF Open, Lined
<1>10. Agreed
  BY <1>4, <1>6 DEF Agreed, Agrees
<1>11. \A r : /\ r \in env.open => Known(s, r)
              /\ r \notin env.open => Unknown(r)
  BY <1>2 DEF Known, Unknown, InRing
<1>12. Hashed(s)
  <2>1. \A r \in Ref : /\ Settled(r) => Known(s, r)
                       /\ ref[r].st = "FREE" => Unknown(r)
    BY <1>6, <1>11 DEF Settled
  <2>2. \A c \in Client : Joining(s, c)
    BY <1>4 DEF Joining
  <2>3. Placed(s)
    BY <1>2, <1>3, <1>7, <1>8 DEF Placed
  <2>4. QED BY <2>1, <2>2, <2>3 DEF Hashed
<1>13. QED BY <1>2, <1>3, <1>9, <1>10, <1>12 DEF Turn

(* One server thread and its clients take turns: a client has one message   *)
(* on its way, and at most an M_ABORT behind it; its portref is in the state*)
(* it waits in; and the port's ring and the hash of handles know exactly the*)
(* portrefs that the messages on their way leave them.                      *)
THEOREM TurnHolds == Spec => []TurnInv
<1>1. Init => IInv /\ TurnInv
  BY InitIInv, InitTurn
<1>2. (IInv /\ TurnInv) /\ [Next]_vars => (IInv /\ TurnInv)'
  BY NextIInv, NextTurn
<1>3. QED BY <1>1, <1>2, PTL DEF Spec

-----------------------------------------------------------------------------
(* What that says of the code                                               *)

(* One server thread, and the port is open, or is never closed.             *)
OneServer == \E s \in Server : env.servers = {s}
OneServerOpen == \E s \in Server : Alone(s)

(* The kernel does not panic: no ASSERT of msg.c, msgcon.c and port.c fails,*)
(* so nobody finds a portref in a state that the other side did not leave.  *)
THEOREM NeverPanics == Spec => [](OneServerOpen => NoPanic)
<1>1. TurnInv => (OneServerOpen => NoPanic)
  BY DEF TurnInv, OneServerOpen, Turn, NoPanic
<1>2. QED BY <1>1, TurnHolds, PTL

(* No client frees a sysmsg that is queued, or that msg_receive() reads:    *)
(* msg_send() and the others that allocate one are not left before that.    *)
THEOREM MessagesStay == Spec => [](OneServerOpen => MessagesAllocated)
<1>1. IInv /\ TurnInv => (OneServerOpen => MessagesAllocated)
  <2> SUFFICES ASSUME IInv, NEW s \in Server, Turn(s) PROVE MessagesAllocated
    BY DEF TurnInv, OneServerOpen
  <2>1. ASSUME NEW m \in Message, Awaited(m) PROVE Allocated(m)
    BY <2>1 DEF Awaited, Allocated, Message, MsgOp
  <2>2. \A m \in ToSet(port.q) : m \in Message /\ Awaited(m)
    <3>1. port.q \in Seq(Message)
      BY DEF IInv, Types, Port
    <3>2. \A m \in ToSet(port.q) : m \in Message
      BY <3>1 DEF ToSet
    <3>3. QED BY <3>2 DEF Turn, Open
  <2>3. ASSUME NEW x \in Server, sv[x].pc \in {"copy", "rpost"}, sv[x].ms[1].op # "disconnect"
        PROVE  Allocated(sv[x].ms[1])
    <3>1. x = s
      BY <2>3 DEF Turn, IdleSv
    <3>2. sv[s].ms \in Seq(Message) /\ sv[s].ms # <<>>
      BY <2>3, <3>1 DEF IInv, Types, ServerThread, Shapes, ServerShape, Carries
    <3>3. PICK m : m = sv[s].ms[1]
      OBVIOUS
    <3>4. m \in Message
      BY <3>2, <3>3
    <3>5. m \in Open(s)
      BY <2>3, <3>1, <3>2, <3>3 DEF Open, InHand
    <3>6. Awaited(m)
      BY <3>5 DEF Turn
    <3>7. Allocated(m)
      BY <2>1, <3>4, <3>6
    <3>8. QED BY <3>1, <3>3, <3>7
  <2>4. QED BY <2>1, <2>2, <2>3 DEF MessagesAllocated
<1>2. QED BY <1>1, Invariant, TurnHolds, PTL

(* What the server has received and not answered can be answered: msg_reply()*)
(* finds the handle in its hash, and the client in the state it waits in.   *)
THEOREM CanAnswer == Spec => [](OneServer => Answerable)
<1>1. IInv /\ TurnInv => (OneServer => Answerable)
  <2> SUFFICES ASSUME IInv, TurnInv, NEW s \in Server, env.servers = {s},
                      port.st = "open", NEW m \in todo
               PROVE  /\ m.r \in prefs
                      /\ ref[m.r].st \in CASE m.op \in {"req", "dup"} -> {"IOWAIT", "ABWAIT"}
                                           [] m.op = "abort" -> {"ABWAIT"}
                                           [] m.op = "connect" -> {"OPENING"}
    BY DEF OneServer, Answerable
  <2>1. Turn(s)
    BY DEF TurnInv, Alone
  <2>2. /\ m.r \in prefs /\ m.op # "disconnect" /\ m \in Message
        /\ m.op = "req" => ref[m.r].st \in {"IOWAIT", "ABWAIT"}
        /\ m.op = "dup" => ref[m.r].st = "IOWAIT"
        /\ m.op = "abort" => ref[m.r].st = "ABWAIT"
        /\ m.op = "connect" => ref[m.r].st = "OPENING"
    BY <2>1, OwedIs
  <2>3. m.op \in MsgOp
    BY <2>2 DEF Message
  <2>4. QED BY <2>2, <2>3 DEF MsgOp
<1>2. QED BY <1>1, Invariant, TurnHolds, PTL

(* msg_send() returns the answer to the request that was sent, an error or  *)
(* an interruption: never the answer to another request, and never its own  *)
(* argument as if it were a result.                                         *)
THEOREM AnswersMine == Spec => [](OneServerOpen => ReplyIsMine)
<1>1. TurnInv => (OneServerOpen => ReplyIsMine)
  <2> SUFFICES ASSUME NEW s \in Server, Turn(s) PROVE ReplyIsMine
    BY DEF TurnInv, OneServerOpen
  <2>1. \A c \in Client : Agrees(c)
    BY DEF Turn, Agreed
  <2>2. \A c \in Client : cl[c].arg # "stale" /\ (cl[c].pc = "done" => cl[c].arg # "own")
    BY <2>1 DEF Agrees
  <2>3. QED BY <2>2 DEF ReplyIsMine
<1>2. QED BY <1>1, TurnHolds, PTL
=============================================================================
