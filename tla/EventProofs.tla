---------------------------- MODULE EventProofs ----------------------------
(***************************************************************************)
(* Proofs about events, for any finite sets of processes and threads and   *)
(* any settings: t_evq changes hands, and who is about to be signalled is  *)
(* on the list of its process, whoever exits, forks and signals.           *)
(***************************************************************************)
EXTENDS Event, SemaOpsProofs

-----------------------------------------------------------------------------
(* The inductive invariant                                                  *)

(* The threads asleep on pid_sema, pg_sema and a p_sema; those that have a  *)
(* p_sema; those that are on the list of no process.                        *)
PidWait == {"pidw", "fw"}
PgWait  == {"gw", "lw"}
PsWait  == {"pw", "slo", "xw", "kw"}
PsHave  == {"ph", "beg", "walk", "evw", "evh", "out", "gw", "gh", "xh", "kh"}
Gone    == {"none", "x", "xlast", "fw", "fh", "leave", "lw", "lh", "free"}
Others  == {"user", "chk", "exit", "mem", "pidh", "dlv", "kr", "new"}
Pcs     == PidWait \cup PgWait \cup PsWait \cup PsHave \cup Gone \cup Others

Threads == [pc : Pcs, op : {"none", "all", "one", "pg"}, p : Proc \cup {NoProc},
            left : Seq(Thread), rest : Seq(Proc)]

AtPc(P) == {t \in Thread : th[t].pc \in P}

(* The process whose p_sema thread t waits for or has. *)
PsOf(t) == IF th[t].pc \in {"xw", "xh", "kw", "kh"} THEN Own(t) ELSE th[t].p
AtPs(P, p) == {t \in Thread : th[t].pc \in P /\ PsOf(t) = p}

(* The senders at pc w whose next target is t. *)
Aiming(w, t) == {s \in Thread : th[s].pc = w /\ Head(th[s].left) = t}

Shapes ==
    /\ env \in Envs
    /\ hashed \subseteq Proc /\ freed \subseteq Proc
    /\ pg = [sema |-> pg.sema, members |-> pg.members, freed |-> pg.freed]
    /\ pg.members \subseteq Proc /\ pg.freed \in BOOLEAN
    /\ ps = [p \in Proc |-> ps[p]] /\ evq = [t \in Thread |-> evq[t]]
    /\ links \in [Proc -> Seq(Thread)]
    /\ evp \in [Thread -> BOOLEAN] /\ evs \in [Thread -> BOOLEAN]

Types == Shapes /\ th \in [Thread -> Threads]

(* Who sleeps on what. *)
PidQueue == SleptOn(pid, Thread, AtPc(PidWait))
PgQueue  == SleptOn(pg.sema, Thread, AtPc(PgWait))
EvSlept(t) == SleptOn(evq[t], Thread, Aiming("evw", t))
EvQueue  == \A t \in Thread : EvSlept(t)

(* p_sema is a mutex. *)
PsHeld(p) == HeldBy(ps[p], Thread, AtPs(PsWait, p), AtPs(PsHave, p))
PsMutex == \A p \in Proc : PsHeld(p)

(* t_evq of t belongs to one sender, or the event in t_evproc, or its       *)
(* delivery; it is not free then, and is free when there is none and no     *)
(* thread was killed with it.                                               *)
Owned1(t) ==
    /\ \A r, s \in Aiming("evh", t) : r = s
    /\ evp[t] \/ th[t].pc = "dlv" => Aiming("evh", t) = {}
    /\ ~ (evp[t] /\ th[t].pc = "dlv")
    /\ evq[t].cnt <= 1
    /\ IF Aiming("evh", t) # {} \/ evp[t] \/ th[t].pc = "dlv"
       THEN evq[t].cnt <= 0 ELSE ~ env.exit => evq[t].cnt = 1
EvOwned == \A t \in Thread : Owned1(t)

(* What a sender works on: a process, and threads that are on its list.     *)
Sends(t) == LET x == th[t] IN
    /\ x.pc \in {"mem", "pidw", "pidh", "pw", "slo"} \cup (PsHave \ {"xh", "kh"})
           => x.p \in Proc
    /\ x.pc \in {"evw", "evh"} => x.left # <<>>
    /\ x.pc \in {"walk", "evw", "evh"} => ToSet(x.left) \subseteq ToSet(links[x.p])
Sending == \A t \in Thread : Sends(t)

(* The list of a process is its threads that live, each once. *)
Linked == \A p \in Proc :
    /\ ToSet(links[p]) = {t \in Thread : Own(t) = p /\ th[t].pc \notin Gone}
    /\ \A i, j \in DOMAIN links[p] : links[p][i] = links[p][j] => i = j

(* A thread that forks has one new thread in hand, nobody else's. *)
Forking ==
    /\ \A t \in AtPc({"kr"}) :
           th[t].left # <<>> /\ th[Head(th[t].left)].pc = "new"
    /\ \A t, u \in AtPc({"kr"}) : Head(th[t].left) = Head(th[u].left) => t = u

IInv == /\ Types /\ PidQueue /\ PgQueue /\ EvQueue /\ PsMutex
        /\ EvOwned /\ Sending /\ Linked /\ Forking

-----------------------------------------------------------------------------
(* What a step does to the threads other than the one that makes it         *)

Waits == {"pidw", "fw", "gw", "lw", "pw", "slo", "xw", "kw", "evw"}

(* Thread u is as it was, or one of those at the pcs K that was woken. *)
Passes(u, K) ==
    \/ th'[u] = th[u]
    \/ th[u].pc \in K /\ th'[u] = [th[u] EXCEPT !.pc = WakeTo[@]]

(* All threads but those of X pass. *)
Rest(X, K) == \A u \in Thread \ X : Passes(u, K)

(* The threads of th' are those of g, but for the ones in W, woken.         *)
Awake(g, W, u) == th'[u] = IF u \in W THEN [g[u] EXCEPT !.pc = WakeTo[@]] ELSE g[u]

LEMMA WakeIs ==
    ASSUME NEW g, NEW s, th' = Wake(g, s)
    PROVE  (\A u \in Thread : Awake(g, VWakes(s), u)) /\ th' = [u \in Thread |-> th'[u]]
BY DEF Wake, Awake

(* What a thread that passes keeps. *)
LEMMA PassesIs ==
    ASSUME NEW u \in Thread, th[u] \in Threads, NEW K, K \subseteq Waits, Passes(u, K)
    PROVE  /\ th'[u] \in Threads
           /\ th'[u].p = th[u].p /\ th'[u].left = th[u].left
           /\ th'[u].rest = th[u].rest /\ th'[u].op = th[u].op
           /\ th'[u].pc \in Gone <=> th[u].pc \in Gone
           /\ th'[u].pc = "dlv" <=> th[u].pc = "dlv"
           /\ th'[u].pc = "kr" <=> th[u].pc = "kr"
           /\ th'[u].pc = "new" <=> th[u].pc = "new"
           /\ th'[u].pc = "evh" => th[u].pc \in {"evw", "evh"}
           /\ th'[u].pc \in Waits => th'[u] = th[u]
<1>1. CASE th'[u] = th[u]
  BY <1>1
<1>2. CASE th[u].pc \in K /\ th'[u] = [th[u] EXCEPT !.pc = WakeTo[@]]
  <2>1. th[u].pc \in Waits
    BY <1>2
  <2>2. /\ th'[u].p = th[u].p /\ th'[u].left = th[u].left
        /\ th'[u].rest = th[u].rest /\ th'[u].op = th[u].op
        /\ th'[u].pc = WakeTo[th[u].pc]
    BY <1>2 DEF Threads
  <2>3. WakeTo[th[u].pc] \in {"pidh", "fh", "gh", "lh", "ph", "beg", "xh", "kh", "evh"}
    BY <2>1 DEF WakeTo, Waits
  <2>4. th'[u] \in Threads
    BY <1>2, <2>3 DEF Threads, Pcs, Others, Gone, PsHave
  <2>5. th[u].pc \in Gone <=> WakeTo[th[u].pc] \in Gone
    BY <2>1 DEF WakeTo, Waits, Gone
  <2>6. WakeTo[th[u].pc] = "evh" => th[u].pc = "evw"
    BY <2>1 DEF WakeTo, Waits
  <2>7. QED BY <2>1, <2>2, <2>3, <2>4, <2>5, <2>6 DEF Waits
<1>3. QED BY <1>1, <1>2 DEF Passes

(* Thread u has and waits for no other p_sema than before.                  *)
LEMMA PassesPs ==
    ASSUME NEW u \in Thread, th[u] \in Threads, NEW K, K \subseteq Waits, Passes(u, K),
           env' = env
    PROVE  /\ PsOf(u)' = PsOf(u)
           /\ th'[u].pc \in PsWait => th[u] = th'[u]
           /\ th[u].pc \notin PsWait => (th'[u].pc \in PsHave <=> th[u].pc \in PsHave)
           /\ th[u].pc \in PsWait /\ th'[u] # th[u] => th'[u].pc \in PsHave
<1>1. CASE th'[u] = th[u]
  BY <1>1 DEF PsOf, Own
<1>2. CASE th[u].pc \in K /\ th'[u] = [th[u] EXCEPT !.pc = WakeTo[@]]
  <2>1. th[u].pc \in Waits
    BY <1>2
  <2>2. th'[u].p = th[u].p /\ th'[u].pc = WakeTo[th[u].pc]
    BY <1>2 DEF Threads
  <2>3. th[u].pc \in {"xw", "xh", "kw", "kh"} <=> th'[u].pc \in {"xw", "xh", "kw", "kh"}
    BY <2>1, <2>2 DEF WakeTo, Waits
  <2>4. th[u].pc \in PsWait => th'[u].pc \in PsHave
    BY <2>1, <2>2 DEF WakeTo, Waits, PsWait, PsHave
  <2>5. th'[u].pc \notin PsWait
    BY <2>1, <2>2 DEF WakeTo, Waits, PsWait
  <2>6. th[u].pc \notin PsWait => (th'[u].pc \in PsHave <=> th[u].pc \in PsHave)
    BY <2>1, <2>2 DEF WakeTo, Waits, PsWait, PsHave
  <2>7. PsOf(u)' = PsOf(u)
    BY <2>2, <2>3 DEF PsOf, Own
  <2>8. QED BY <2>4, <2>5, <2>6, <2>7
<1>3. QED BY <1>1, <1>2 DEF Passes

(* A sender that passes aims where it aimed. *)
LEMMA PassesSends ==
    ASSUME NEW u \in Thread, th[u] \in Threads, NEW K, K \subseteq Waits, Passes(u, K),
           Sends(u),
           th[u].pc \in {"walk", "evw", "evh"} =>
               ToSet(links[th[u].p]) \subseteq ToSet(links'[th[u].p])
    PROVE  Sends(u)'
<1>1. CASE th'[u] = th[u]
  BY <1>1 DEF Sends
<1>2. CASE th[u].pc \in K /\ th'[u] = [th[u] EXCEPT !.pc = WakeTo[@]]
  <2>1. th[u].pc \in Waits
    BY <1>2
  <2>2. th'[u].p = th[u].p /\ th'[u].pc = WakeTo[th[u].pc] /\ th'[u].left = th[u].left
    BY <1>2 DEF Threads
  <2>3. th'[u].pc \in {"mem", "pidw", "pidh", "pw", "slo"} \cup (PsHave \ {"xh", "kh"})
        => th[u].pc \in {"mem", "pidw", "pidh", "pw", "slo"} \cup (PsHave \ {"xh", "kh"})
    BY <2>1, <2>2 DEF WakeTo, Waits, PsHave
  <2>4. /\ th'[u].pc \in {"evw", "evh"} => th[u].pc = "evw"
        /\ th'[u].pc \in {"walk", "evw", "evh"} => th[u].pc = "evw"
    BY <2>1, <2>2 DEF WakeTo, Waits
  <2>5. QED BY <2>2, <2>3, <2>4 DEF Sends
<1>3. QED BY <1>1, <1>2 DEF Passes

-----------------------------------------------------------------------------
(* Who sleeps on a semaphore that the step leaves, takes or gives           *)

LEMMA SleepKept ==
    ASSUME Types, NEW P, P \subseteq Waits, NEW X, NEW K, K \subseteq Waits, Rest(X, K),
           K \cap P = {}, \A x \in X : th[x].pc \notin P /\ th'[x].pc \notin P
    PROVE  AtPc(P)' = AtPc(P)
<1>1. ASSUME NEW u \in Thread PROVE th'[u].pc \in P <=> th[u].pc \in P
  <2>1. CASE u \in X
    BY <2>1
  <2>2. CASE u \notin X
    <3>1. Passes(u, K) /\ th[u] \in Threads
      BY <2>2 DEF Rest, Types
    <3>2. th'[u].pc \in Waits => th'[u] = th[u]
      BY <3>1, PassesIs
    <3>3. th[u].pc \in P => th'[u] = th[u]
      BY <3>1 DEF Passes
    <3>4. QED BY <3>2, <3>3
  <2>3. QED BY <2>1, <2>2
<1>2. QED BY <1>1 DEF AtPc

(* p_sema() of thread t ...                                                 *)
LEMMA SleepAsk ==
    ASSUME Types, NEW P, NEW s, SleptOn(s, Thread, AtPc(P)),
           NEW t \in Thread, Rest({t}, {}),
           th[t].pc \notin P, th'[t].pc \in P <=> PSleeps(s)
    PROVE  SleptOn(PSema(s, t), Thread, AtPc(P)')
<1> DEFINE L == AtPc(P)
<1>1. t \notin L
  BY DEF AtPc
<1>2. /\ PSleeps(s) => SleptOn(PSema(s, t), Thread, L \cup {t})
      /\ ~ PSleeps(s) => L = {} /\ SleptOn(PSema(s, t), Thread, {})
  BY <1>1, SleptAsk
<1>3. \A u \in Thread \ {t} : th'[u] = th[u]
  BY DEF Rest, Passes
<1>4. L' = IF PSleeps(s) THEN L \cup {t} ELSE L
  BY <1>1, <1>3 DEF AtPc
<1> HIDE DEF L
<1>5. SleptOn(PSema(s, t), Thread, L')
  BY <1>2, <1>4
<1>6. QED BY <1>5 DEF L

(* ... and v_sema(), which wakes threads at the pcs P only.                 *)
LEMMA SleepGive ==
    ASSUME Types, NEW P, P \subseteq Waits, NEW s, SleptOn(s, Thread, AtPc(P)),
           NEW t \in Thread, NEW g, th' = Wake(g, s),
           \A u \in Thread \ {t} : g[u] = th[u], th[t].pc \notin P, g[t].pc \notin P
    PROVE  /\ SleptOn(VSema(s), Thread, AtPc(P)') /\ Rest({t}, P)
           /\ th'[t] = g[t] /\ th' = [u \in Thread |-> th'[u]]
<1> DEFINE L == AtPc(P)
           W == VWakes(s)
<1>1. SleptOn(s, Thread, L) /\ t \notin L
  BY DEF AtPc
<1>2. W \subseteq L /\ SleptOn(VSema(s), Thread, L \ W)
  BY <1>1, SleptGive
<1>3. /\ \A u \in Thread : th'[u] = IF u \in W THEN [g[u] EXCEPT !.pc = WakeTo[@]] ELSE g[u]
      /\ th' = [u \in Thread |-> th'[u]]
  BY WakeIs DEF Awake
<1>4. th'[t] = g[t]
  BY <1>1, <1>2, <1>3
<1>5. ASSUME NEW u \in Thread \ {t}
      PROVE  /\ u \in W => th[u].pc \in P /\ th'[u] = [th[u] EXCEPT !.pc = WakeTo[@]]
             /\ u \notin W => th'[u] = th[u]
  <2>1. g[u] = th[u]
    OBVIOUS
  <2>2. u \in W => th[u].pc \in P
    BY <1>2 DEF AtPc
  <2>3. QED BY <1>3, <2>1, <2>2
<1>6. ASSUME NEW u \in W PROVE th'[u].pc \notin P
  <2>1. u \in Thread \ {t} /\ th[u].pc \in Waits
    BY <1>1, <1>2 DEF AtPc
  <2>2. th'[u] = [th[u] EXCEPT !.pc = WakeTo[@]] /\ th[u] \in Threads
    BY <1>5, <2>1 DEF Types, Shapes
  <2>3. th'[u].pc = WakeTo[th[u].pc]
    BY <2>2 DEF Threads
  <2>4. th'[u].pc \notin Waits
    BY <2>1, <2>3 DEF Waits, WakeTo
  <2>5. QED BY <2>4
<1>7. AtPc(P)' = L \ W
  BY <1>1, <1>4, <1>5, <1>6 DEF AtPc
<1>8. Rest({t}, P)
  BY <1>5 DEF Rest, Passes
<1>9. SleptOn(VSema(s), Thread, AtPc(P)')
  <2> HIDE DEF L, W
  <2>1. QED BY <1>2, <1>7
<1>10. QED BY <1>3, <1>4, <1>8, <1>9

-----------------------------------------------------------------------------
(* p_sema of the processes: the step leaves, takes or gives that of p       *)

(* The p_sema of p becomes s. *)
PsSet(p, s) == ps' = [ps EXCEPT ![p] = s]

(* The threads of X neither get nor lose the p_sema of p. *)
StaysPs(x, p) ==
    /\ th'[x].pc \in PsWait /\ PsOf(x)' = p <=> th[x].pc \in PsWait /\ PsOf(x) = p
    /\ th'[x].pc \in PsHave /\ PsOf(x)' = p <=> th[x].pc \in PsHave /\ PsOf(x) = p

LEMMA PsKept ==
    ASSUME Types, NEW p \in Proc, PsHeld(p), ps'[p] = ps[p], env' = env,
           NEW X, NEW K, K \subseteq Waits, Rest(X, K), \A x \in X : StaysPs(x, p),
           \A u \in Thread \ X : th[u].pc \in K \cap PsWait => th'[u] = th[u] \/ PsOf(u) # p
    PROVE  PsHeld(p)'
<1>1. ASSUME NEW u \in Thread PROVE StaysPs(u, p)
  <2>1. CASE u \in X
    BY <2>1
  <2>2. CASE u \notin X
    <3>1. Passes(u, K) /\ th[u] \in Threads
      BY <2>2 DEF Rest, Types
    <3>2. /\ PsOf(u)' = PsOf(u)
          /\ th'[u].pc \in PsWait => th[u] = th'[u]
          /\ th[u].pc \notin PsWait => (th'[u].pc \in PsHave <=> th[u].pc \in PsHave)
      BY <3>1, PassesPs
    <3>3. th[u].pc \in PsWait => th'[u] = th[u] \/ PsOf(u) # p
      BY <2>2, <3>1 DEF Passes
    <3>4. th[u].pc \in PsWait => th[u].pc \notin PsHave
      BY DEF PsWait, PsHave
    <3>5. QED BY <3>2, <3>3, <3>4 DEF StaysPs
  <2>3. QED BY <2>1, <2>2
<1>2. AtPs(PsWait, p)' = AtPs(PsWait, p) /\ AtPs(PsHave, p)' = AtPs(PsHave, p)
  BY <1>1 DEF AtPs, StaysPs
<1>3. QED BY <1>2 DEF PsHeld

LEMMA PsStays ==
    ASSUME Types, PsMutex, ps' = ps, env' = env,
           NEW X, NEW K, K \subseteq Waits, K \cap PsWait = {}, Rest(X, K),
           \A x \in X, p \in Proc : StaysPs(x, p)
    PROVE  PsMutex'
<1>1. ASSUME NEW p \in Proc PROVE PsHeld(p)'
  BY PsKept DEF PsMutex
<1>2. QED BY <1>1 DEF PsMutex

LEMMA PsAsk ==
    ASSUME Types, PsMutex, NEW t \in Thread, NEW p \in Proc, Rest({t}, {}), env' = env,
           PsSet(p, PSema(ps[p], t)), PsOf(t)' = p,
           th[t].pc \notin PsWait \cup PsHave,
           th'[t].pc \in IF PSleeps(ps[p]) THEN PsWait ELSE PsHave
    PROVE  PsMutex'
<1>1. ps' = [q \in Proc |-> IF q = p THEN PSema(ps[p], t) ELSE ps[q]]
  BY DEF Types, Shapes, PsSet
<1>2. ASSUME NEW q \in Proc, q # p PROVE PsHeld(q)'
  <2>1. StaysPs(t, q)
    BY <1>2 DEF StaysPs
  <2>2. PsHeld(q) /\ ps'[q] = ps[q]
    BY <1>1, <1>2 DEF PsMutex
  <2>3. QED BY <2>1, <2>2, PsKept
<1>3. PsHeld(p)'
  <2> DEFINE L == AtPs(PsWait, p)
             I == AtPs(PsHave, p)
  <2>1. HeldBy(ps[p], Thread, L, I) /\ t \notin L
    BY DEF PsMutex, PsHeld, AtPs
  <2>2. IF PSleeps(ps[p]) THEN HeldBy(PSema(ps[p], t), Thread, L \cup {t}, I)
        ELSE I = {} /\ L = {} /\ HeldBy(PSema(ps[p], t), Thread, {}, {t})
    BY <2>1, HeldAsk
  <2>3. \A u \in Thread \ {t} : th'[u] = th[u] /\ PsOf(u)' = PsOf(u)
    BY DEF Rest, Passes, PsOf, Own
  <2>4. /\ AtPs(PsWait, p)' = IF PSleeps(ps[p]) THEN L \cup {t} ELSE L
        /\ AtPs(PsHave, p)' = IF PSleeps(ps[p]) THEN I ELSE I \cup {t}
    BY <2>3 DEF AtPs, PsWait, PsHave
  <2>5. ps'[p] = PSema(ps[p], t)
    BY <1>1
  <2> HIDE DEF L, I
  <2>6. QED BY <2>2, <2>4, <2>5 DEF PsHeld
<1>4. QED BY <1>2, <1>3 DEF PsMutex

(* Giving it wakes nobody but a thread that waits for it.  The step may     *)
(* also change threads that have nothing to do with a p_sema.               *)
LEMMA PsGive ==
    ASSUME Types, PsMutex, NEW t \in Thread, NEW p \in Proc, env' = env,
           PsSet(p, VSema(ps[p])),
           th[t].pc \in PsHave, PsOf(t) = p, NEW X, t \in X, X \subseteq Thread,
           \A x \in X \ {t} : th[x].pc \notin PsWait \cup PsHave,
           NEW g, th' = Wake(g, ps[p]), \A u \in Thread \ X : g[u] = th[u],
           \A x \in X : g[x].pc \notin PsWait \cup PsHave
    PROVE  /\ PsMutex' /\ Rest(X, PsWait) /\ AtPs(PsHave, p) = {t}
           /\ \A x \in X : th'[x] = g[x]
           /\ th' = [u \in Thread |-> th'[u]]
<1> DEFINE L == AtPs(PsWait, p)
           I == AtPs(PsHave, p)
           W == VWakes(ps[p])
<1>1. HeldBy(ps[p], Thread, L, I) /\ t \in I
  BY DEF PsMutex, PsHeld, AtPs
<1>2. W \subseteq L /\ I = {t} /\ HeldBy(VSema(ps[p]), Thread, L \ W, W)
  BY <1>1, HeldGive
<1>3. /\ \A u \in Thread : th'[u] = IF u \in W THEN [g[u] EXCEPT !.pc = WakeTo[@]] ELSE g[u]
      /\ th' = [u \in Thread |-> th'[u]]
  BY WakeIs DEF Awake
<1>4. \A x \in X : x \notin W
  BY <1>2 DEF AtPs, PsWait, PsHave
<1>5. \A x \in X : th'[x] = g[x]
  BY <1>3, <1>4
<1>6. ASSUME NEW u \in Thread \ X
      PROVE  /\ u \in W => /\ th[u].pc \in PsWait /\ PsOf(u) = p
                           /\ th'[u] = [th[u] EXCEPT !.pc = WakeTo[@]]
             /\ u \notin W => th'[u] = th[u]
  <2>1. g[u] = th[u]
    OBVIOUS
  <2>2. u \in W => th[u].pc \in PsWait /\ PsOf(u) = p
    BY <1>2 DEF AtPs
  <2>3. QED BY <1>3, <2>1, <2>2
<1>7. PsWait \subseteq Waits
  BY DEF PsWait, Waits
<1>8. Rest(X, PsWait)
  BY <1>6 DEF Rest, Passes
<1>9. ps' = [q \in Proc |-> IF q = p THEN VSema(ps[p]) ELSE ps[q]]
  BY DEF Types, Shapes, PsSet
<1>10. ASSUME NEW q \in Proc, q # p PROVE PsHeld(q)'
  <2>1. \A x \in X : StaysPs(x, q)
    BY <1>5, <1>10 DEF StaysPs
  <2>2. PsHeld(q) /\ ps'[q] = ps[q]
    BY <1>9, <1>10 DEF PsMutex
  <2>3. \A u \in Thread \ X : th[u].pc \in PsWait \cap PsWait => th'[u] = th[u] \/ PsOf(u) # q
    BY <1>6, <1>10
  <2>4. QED BY <1>7, <1>8, <2>1, <2>2, <2>3, PsKept
<1>11. ASSUME NEW u \in Thread
       PROVE  /\ u \in L' <=> u \in L \ W
              /\ u \in I' <=> u \in W
  <2>1. CASE u \in X
    <3>1. th'[u].pc \notin PsWait \cup PsHave
      BY <1>5, <2>1
    <3>2. u \notin L /\ u \notin W
      BY <1>2, <1>4, <2>1 DEF AtPs, PsWait, PsHave
    <3>3. QED BY <3>1, <3>2 DEF AtPs
  <2>2. CASE u \notin X
    <3>1. Passes(u, PsWait) /\ th[u] \in Threads
      BY <1>8, <2>2 DEF Rest, Types
    <3>2. /\ PsOf(u)' = PsOf(u)
          /\ th'[u].pc \in PsWait => th[u] = th'[u]
          /\ th[u].pc \notin PsWait => (th'[u].pc \in PsHave <=> th[u].pc \in PsHave)
          /\ th[u].pc \in PsWait /\ th'[u] # th[u] => th'[u].pc \in PsHave
      BY <3>1, <1>7, PassesPs
    <3>3. CASE u \in W
      <4>1. th[u].pc \in PsWait /\ PsOf(u) = p /\ th'[u].pc = WakeTo[th[u].pc]
        BY <1>6, <2>2, <3>1, <3>3 DEF Threads
      <4>2. th'[u].pc \notin PsWait /\ th'[u].pc \in PsHave
        BY <4>1 DEF PsWait, PsHave, WakeTo
      <4>3. QED BY <3>2, <3>3, <4>1, <4>2 DEF AtPs
    <3>4. CASE u \notin W
      <4>1. th'[u] = th[u]
        BY <1>6, <2>2, <3>4
      <4>2. u \notin I
        BY <1>2, <2>2
      <4>3. QED BY <3>2, <3>4, <4>1, <4>2 DEF AtPs
    <3>5. QED BY <3>3, <3>4
  <2>3. QED BY <2>1, <2>2
<1>12. W \subseteq Thread /\ L \subseteq Thread
  BY <1>2 DEF AtPs
<1>13. L' = L \ W /\ I' = W
  <2>1. L' \subseteq Thread /\ I' \subseteq Thread
    BY DEF AtPs
  <2> HIDE DEF L, I, W
  <2>2. QED BY <1>11, <1>12, <2>1
<1>14. HeldBy(VSema(ps[p]), Thread, L', I')
  <2> HIDE DEF L, I, W
  <2>1. QED BY <1>2, <1>13
<1>15. PsHeld(p)'
  BY <1>9, <1>14 DEF PsHeld
<1>16. QED BY <1>2, <1>3, <1>5, <1>8, <1>10, <1>15 DEF PsMutex

(* dq_sema() of a sleeping u, by a step of t that neither has nor waits for *)
(* the semaphore afterwards unless it did before.                           *)
LEMMA PsLeave ==
    ASSUME Types, PsMutex, NEW t \in Thread, NEW u \in Thread, u # t, NEW p \in Proc,
           env' = env, PsSet(p, DqSema(ps[p], u)),
           th[u].pc \in PsWait, PsOf(u) = p, th'[u].pc \notin PsWait \cup PsHave,
           Rest({t, u}, {}), \A q \in Proc : StaysPs(t, q)
    PROVE  PsMutex'
<1>1. ps' = [q \in Proc |-> IF q = p THEN DqSema(ps[p], u) ELSE ps[q]]
  BY DEF Types, Shapes, PsSet
<1>2. ASSUME NEW q \in Proc, q # p PROVE PsHeld(q)'
  <2>1. \A x \in {t, u} : StaysPs(x, q)
    BY <1>2 DEF StaysPs, PsWait, PsHave
  <2>2. PsHeld(q) /\ ps'[q] = ps[q]
    BY <1>1, <1>2 DEF PsMutex
  <2>3. QED BY <2>1, <2>2, PsKept
<1>3. PsHeld(p)'
  <2> DEFINE L == AtPs(PsWait, p)
             I == AtPs(PsHave, p)
  <2>1. HeldBy(ps[p], Thread, L, I) /\ u \in L
    BY DEF PsMutex, PsHeld, AtPs
  <2>2. HeldBy(DqSema(ps[p], u), Thread, L \ {u}, I)
    BY <2>1, HeldLeave
  <2>3. \A v \in Thread \ {t, u} : th'[v] = th[v] /\ PsOf(v)' = PsOf(v)
    BY DEF Rest, Passes, PsOf, Own
  <2>4. L' = L \ {u} /\ I' = I
    <3>1. ASSUME NEW v \in Thread PROVE (v \in L' <=> v \in L /\ v # u) /\ (v \in I' <=> v \in I)
      <4>1. CASE v = u
        BY <4>1 DEF AtPs, PsWait, PsHave
      <4>2. CASE v = t
        BY <4>2 DEF AtPs, StaysPs
      <4>3. CASE v \notin {t, u}
        BY <2>3, <4>3 DEF AtPs
      <4>4. QED BY <4>1, <4>2, <4>3
    <3>2. L' \subseteq Thread /\ I' \subseteq Thread /\ L \subseteq Thread /\ I \subseteq Thread
      BY DEF AtPs
    <3> HIDE DEF L, I
    <3>3. QED BY <3>1, <3>2
  <2>5. HeldBy(DqSema(ps[p], u), Thread, L', I')
    <3> HIDE DEF L, I
    <3>1. QED BY <2>2, <2>4
  <2>6. QED BY <1>1, <2>5 DEF PsHeld
<1>4. QED BY <1>2, <1>3 DEF PsMutex

-----------------------------------------------------------------------------
(* What a step leaves alone when its own threads X are no senders at work,  *)
(* deliver nothing and fork nothing                                         *)

LEMMA AimKept ==
    ASSUME Types, NEW X, NEW K, K \subseteq Waits, "evw" \notin K, Rest(X, K),
           \A x \in X : th[x].pc \notin {"evw", "evh"} /\ th'[x].pc \notin {"evw", "evh"}
    PROVE  \A t : /\ Aiming("evw", t)' = Aiming("evw", t)
                  /\ Aiming("evh", t)' = Aiming("evh", t)
<1>1. ASSUME NEW u \in Thread
      PROVE  /\ th'[u].pc = "evw" <=> th[u].pc = "evw"
             /\ th'[u].pc = "evh" <=> th[u].pc = "evh"
             /\ th[u].pc \in {"evw", "evh"} => th'[u].left = th[u].left
  <2>1. CASE u \in X
    BY <2>1
  <2>2. CASE u \notin X
    <3>1. Passes(u, K) /\ th[u] \in Threads
      BY <2>2 DEF Rest, Types
    <3>2. /\ th'[u].left = th[u].left
          /\ th'[u].pc = "evh" => th[u].pc \in {"evw", "evh"}
          /\ th'[u].pc \in Waits => th'[u] = th[u]
      BY <3>1, PassesIs
    <3>3. th[u].pc \in {"evw", "evh"} => th'[u] = th[u]
      BY <3>1 DEF Passes, Waits
    <3>4. QED BY <3>2, <3>3 DEF Waits
  <2>3. QED BY <2>1, <2>2
<1>2. QED BY <1>1 DEF Aiming

LEMMA EvStays ==
    ASSUME Types, EvQueue, EvOwned, NEW X, X \subseteq Thread,
           NEW K, K \subseteq Waits, "evw" \notin K, Rest(X, K),
           evq' = evq, evp' = evp, env' = env,
           \A x \in X : /\ th[x].pc \notin {"evw", "evh", "dlv"}
                        /\ th'[x].pc \notin {"evw", "evh", "dlv"}
    PROVE  EvQueue' /\ EvOwned'
<1>1. ASSUME NEW t \in Thread
      PROVE  /\ Aiming("evw", t)' = Aiming("evw", t)
             /\ Aiming("evh", t)' = Aiming("evh", t)
  BY AimKept
<1>2. ASSUME NEW t \in Thread PROVE th'[t].pc = "dlv" <=> th[t].pc = "dlv"
  <2>1. CASE t \in X
    BY <2>1
  <2>2. CASE t \notin X
    <3>1. Passes(t, K) /\ th[t] \in Threads
      BY <2>2 DEF Rest, Types
    <3>2. QED BY <3>1, PassesIs
  <2>3. QED BY <2>1, <2>2
<1>3. ASSUME NEW t \in Thread PROVE EvSlept(t)'
  BY <1>1 DEF EvQueue, EvSlept
<1>4. ASSUME NEW t \in Thread PROVE Owned1(t)'
  <2>1. Owned1(t) /\ (th'[t].pc = "dlv" <=> th[t].pc = "dlv")
    BY <1>2 DEF EvOwned
  <2>2. Aiming("evh", t)' = Aiming("evh", t)
    BY <1>1
  <2>3. QED BY <2>1, <2>2 DEF Owned1
<1>5. QED BY <1>3, <1>4 DEF EvQueue, EvOwned

LEMMA SendsStay ==
    ASSUME Types, Sending, NEW X, NEW K, K \subseteq Waits, Rest(X, K), links' = links,
           \A x \in X : Sends(x)'
    PROVE  Sending'
<1>1. ASSUME NEW u \in Thread PROVE Sends(u)'
  <2>1. CASE u \notin X
    <3>1. Passes(u, K) /\ th[u] \in Threads /\ Sends(u)
      BY <2>1 DEF Rest, Types, Sending
    <3>2. QED BY <3>1, PassesSends
  <2>2. QED BY <2>1
<1>2. QED BY <1>1 DEF Sending

LEMMA LinksStay ==
    ASSUME Types, Linked, NEW X, NEW K, K \subseteq Waits, Rest(X, K), links' = links,
           env' = env, \A x \in X : th'[x].pc \in Gone <=> th[x].pc \in Gone
    PROVE  Linked'
<1>1. ASSUME NEW u \in Thread PROVE th'[u].pc \in Gone <=> th[u].pc \in Gone
  <2>1. CASE u \notin X
    <3>1. Passes(u, K) /\ th[u] \in Threads
      BY <2>1 DEF Rest, Types
    <3>2. QED BY <3>1, PassesIs
  <2>2. QED BY <2>1
<1>2. QED BY <1>1 DEF Linked, Own

LEMMA ForksStay ==
    ASSUME Types, Forking, NEW X, NEW K, K \subseteq Waits, Rest(X, K),
           \A x \in X : th[x].pc \notin {"kr", "new"} /\ th'[x].pc \notin {"kr", "new"}
    PROVE  Forking'
<1>1. ASSUME NEW u \in Thread
      PROVE  /\ th'[u].pc = "kr" <=> th[u].pc = "kr"
             /\ th'[u].pc = "new" <=> th[u].pc = "new"
             /\ th[u].pc = "kr" => th'[u].left = th[u].left
  <2>1. CASE u \notin X
    <3>1. Passes(u, K) /\ th[u] \in Threads
      BY <2>1 DEF Rest, Types
    <3>2. QED BY <3>1, PassesIs
  <2>2. CASE u \in X
    BY <2>2
  <2>3. QED BY <2>1, <2>2
<1>2. ASSUME NEW u \in AtPc({"kr"})
      PROVE  /\ th[u].left # <<>> /\ th'[u].left = th[u].left
             /\ th'[Head(th[u].left)].pc = "new"
  <2>1. u \in Thread /\ th[u].left # <<>> /\ th[Head(th[u].left)].pc = "new"
    BY DEF Forking, AtPc
  <2>2. th[u].left \in Seq(Thread)
    BY <2>1 DEF Types, Threads
  <2>3. Head(th[u].left) \in Thread
    BY <2>1, <2>2
  <2>4. th[u].pc = "kr"
    BY DEF AtPc
  <2>5. QED BY <1>1, <2>1, <2>3, <2>4
<1>3. AtPc({"kr"})' = AtPc({"kr"})
  BY <1>1 DEF AtPc
<1>4. QED BY <1>2, <1>3 DEF Forking

(* The pcs at which a thread has to do with t_evq, its delivery, or a fork. *)
Busy == {"evw", "evh", "dlv", "kr", "new"}

(* A step of thread t away from these, that may wake others.                *)
LEMMA Local ==
    ASSUME IInv, NEW t \in Thread, NEW K, K \subseteq Waits, "evw" \notin K, Rest({t}, K),
           th' = [u \in Thread |-> th'[u]], th'[t] \in Threads, Shapes', Sends(t)',
           env' = env, evq' = evq, evp' = evp, links' = links,
           th'[t].pc \in Gone <=> th[t].pc \in Gone,
           th[t].pc \notin Busy, th'[t].pc \notin Busy
    PROVE  Types' /\ EvQueue' /\ EvOwned' /\ Sending' /\ Linked' /\ Forking'
<1>1. Types /\ EvQueue /\ EvOwned /\ Sending /\ Linked /\ Forking
  BY DEF IInv
<1>2. ASSUME NEW u \in Thread PROVE th'[u] \in Threads
  <2>1. CASE u # t
    <3>1. Passes(u, K) /\ th[u] \in Threads
      BY <1>1, <2>1 DEF Rest, Types
    <3>2. QED BY <3>1, PassesIs
  <2>2. QED BY <2>1
<1>3. Types'
  BY <1>2 DEF Types
<1>4. EvQueue' /\ EvOwned'
  BY <1>1, EvStays DEF Busy
<1>5. Sending'
  BY <1>1, SendsStay
<1>6. Linked'
  BY <1>1, LinksStay
<1>7. Forking'
  BY <1>1, ForksStay DEF Busy
<1>8. QED BY <1>3, <1>4, <1>5, <1>6, <1>7

(* Thread t is the only one to move. *)
Alone(t) == th' = [u \in Thread |-> th'[u]] /\ \A u \in Thread \ {t} : th'[u] = th[u]

LEMMA Goes ==
    ASSUME Types, NEW t \in Thread, NEW w \in Pcs, th' = Go(t, w)
    PROVE  /\ Alone(t) /\ th'[t] \in Threads
           /\ th'[t].pc = w /\ th'[t].p = th[t].p
           /\ th'[t].left = th[t].left /\ th'[t].rest = th[t].rest
<1>1. th[t] \in Threads /\ th \in [Thread -> Threads]
  BY DEF Types
<1>2. th' = [th EXCEPT ![t].pc = w]
  BY DEF Go
<1>3. th'[t] = [th[t] EXCEPT !.pc = w] /\ \A u \in Thread \ {t} : th'[u] = th[u]
  BY <1>1, <1>2
<1>4. th' = [u \in Thread |-> th'[u]]
  BY <1>1, <1>2
<1>5. QED BY <1>1, <1>3, <1>4 DEF Alone, Threads

(* A step of t alone that touches no semaphore.                             *)
LEMMA Quiet ==
    ASSUME IInv, NEW t \in Thread, Alone(t), th'[t] \in Threads, Shapes', Sends(t)',
           UNCHANGED <<env, pid, ps, evq, evp, links, pg>>,
           th'[t].pc \in Gone <=> th[t].pc \in Gone,
           th[t].pc \notin Busy \cup PidWait \cup PgWait,
           th'[t].pc \notin Busy \cup PidWait \cup PgWait,
           \A p \in Proc : StaysPs(t, p)
    PROVE  IInv'
<1>1. Types /\ PidQueue /\ PgQueue /\ PsMutex
  BY DEF IInv
<1>2. Rest({t}, {})
  BY DEF Alone, Rest, Passes
<1>3. Types' /\ EvQueue' /\ EvOwned' /\ Sending' /\ Linked' /\ Forking'
  BY <1>2, Local DEF Alone
<1>4. AtPc(PidWait)' = AtPc(PidWait) /\ AtPc(PgWait)' = AtPc(PgWait)
  BY <1>1, <1>2, SleepKept DEF PidWait, PgWait, Waits
<1>5. PidQueue' /\ PgQueue'
  BY <1>1, <1>4 DEF PidQueue, PgQueue
<1>6. PsMutex'
  BY <1>1, <1>2, PsStays
<1>7. QED BY <1>3, <1>5, <1>6 DEF IInv

(* A thread that keeps the p_sema it has, or has and waits for none. *)
LEMMA Keeps ==
    ASSUME NEW t \in Thread, env' = env,
           \/ /\ th[t].pc \notin PsWait \cup PsHave
              /\ th'[t].pc \notin PsWait \cup PsHave
           \/ /\ th[t].pc \in PsHave \ {"xh", "kh"} /\ th'[t].p = th[t].p
              /\ th'[t].pc \in PsHave \ {"xh", "kh"}
    PROVE  \A p \in Proc : StaysPs(t, p)
<1>1. CASE th[t].pc \notin PsWait \cup PsHave /\ th'[t].pc \notin PsWait \cup PsHave
  BY <1>1 DEF StaysPs
<1>2. CASE /\ th[t].pc \in PsHave \ {"xh", "kh"} /\ th'[t].p = th[t].p
           /\ th'[t].pc \in PsHave \ {"xh", "kh"}
  <2>1. PsOf(t) = th[t].p /\ PsOf(t)' = th[t].p
    BY <1>2 DEF PsOf, PsHave
  <2>2. th[t].pc \notin PsWait /\ th'[t].pc \notin PsWait
    BY <1>2 DEF PsWait, PsHave
  <2>3. QED BY <1>2, <2>1, <2>2 DEF StaysPs
<1>3. QED BY <1>1, <1>2

LEMMA DeniedStep ==
    ASSUME IInv, NEW t \in Thread, Denied(t)
    PROVE  IInv'
<1>1. Types /\ Sends(t)
  BY DEF IInv, Sending
<1>2. /\ th[t].pc = "beg" /\ th' = Go(t, "out") /\ "out" \in Pcs
      /\ UNCHANGED <<sys, pid, ps, evq, evp, evs>>
  BY DEF Denied, At, Pcs, PsHave
<1>3. /\ Alone(t) /\ th'[t] \in Threads /\ th'[t].pc = "out" /\ th'[t].p = th[t].p
  BY <1>1, <1>2, Goes
<1>4. Shapes' /\ Sends(t)'
  BY <1>1, <1>2, <1>3 DEF Types, Shapes, sys, Sends, PsHave
<1>5. \A p \in Proc : StaysPs(t, p)
  BY <1>2, <1>3, Keeps DEF sys, PsHave
<1>6. QED BY <1>2, <1>3, <1>4, <1>5, Quiet DEF sys, Gone, Busy, PidWait, PgWait

LEMMA WalkDoneStep ==
    ASSUME IInv, NEW t \in Thread, WalkDone(t)
    PROVE  IInv'
<1>1. Types /\ Sends(t)
  BY DEF IInv, Sending
<1>2. /\ th[t].pc = "walk" /\ th' = Go(t, "out") /\ "out" \in Pcs
      /\ UNCHANGED <<sys, pid, ps, evq, evp, evs>>
  BY DEF WalkDone, At, Pcs, PsHave
<1>3. /\ Alone(t) /\ th'[t] \in Threads /\ th'[t].pc = "out" /\ th'[t].p = th[t].p
  BY <1>1, <1>2, Goes
<1>4. Shapes' /\ Sends(t)'
  BY <1>1, <1>2, <1>3 DEF Types, Shapes, sys, Sends, PsHave
<1>5. \A p \in Proc : StaysPs(t, p)
  BY <1>2, <1>3, Keeps DEF sys, PsHave
<1>6. QED BY <1>2, <1>3, <1>4, <1>5, Quiet DEF sys, Gone, Busy, PidWait, PgWait

LEMMA BeginStep ==
    ASSUME IInv, NEW t \in Thread, Begin(t)
    PROVE  IInv'
<1>1. Types /\ Sends(t)
  BY DEF IInv, Sending
<1> DEFINE q == th[t].p
<1>2. PICK left \in IF th[t].op = "all" THEN {links[q]}
                    ELSE {<<>>} \cup {<<u>> : u \in ToSet(links[q])} :
          th' = [th EXCEPT ![t].pc = "walk", ![t].left = left]
  BY DEF Begin
<1>3. th[t].pc = "beg" /\ UNCHANGED <<sys, pid, ps, evq, evp, evs>>
  BY DEF Begin, At
<1>4. q \in Proc /\ links[q] \in Seq(Thread)
  BY <1>1, <1>3 DEF Sends, PsHave, Types, Shapes
<1>5. left \in Seq(Thread) /\ ToSet(left) \subseteq ToSet(links[q])
  <2>1. CASE left = links[q]
    BY <1>4, <2>1
  <2>2. CASE left = <<>>
    BY <2>2 DEF ToSet
  <2>3. ASSUME NEW u \in ToSet(links[q]), left = <<u>>
        PROVE  left \in Seq(Thread) /\ ToSet(left) = {u}
    BY <1>4, <2>3 DEF ToSet
  <2>4. QED BY <1>2, <2>1, <2>2, <2>3
<1>6. /\ Alone(t) /\ th'[t] = [th[t] EXCEPT !.pc = "walk", !.left = left]
  BY <1>1, <1>2 DEF Alone, Types
<1>7. "walk" \in Pcs /\ th[t] \in Threads
  BY <1>1 DEF Pcs, PsHave, Types
<1>8. th'[t] \in Threads /\ th'[t].pc = "walk" /\ th'[t].p = q /\ th'[t].left = left
  BY <1>5, <1>6, <1>7 DEF Threads
<1>9. Shapes' /\ Sends(t)'
  BY <1>1, <1>3, <1>4, <1>5, <1>8 DEF Types, Shapes, sys, Sends
<1>10. \A p \in Proc : StaysPs(t, p)
  BY <1>3, <1>8, Keeps DEF sys, PsHave
<1>11. QED BY <1>3, <1>6, <1>8, <1>9, <1>10, Quiet DEF sys, Gone, Busy, PidWait, PgWait

(* The steps of a thread on its way between user level, the check for       *)
(* events and exit.                                                         *)
LEMMA Idle ==
    ASSUME IInv, NEW t \in Thread, NEW w, th' = Go(t, w), Shapes',
           UNCHANGED <<env, pid, ps, evq, evp, links, pg>>,
           \/ th[t].pc \in {"user", "chk", "exit"} /\ w \in {"user", "chk", "exit"}
           \/ th[t].pc \in {"x", "leave", "free"} /\ w \in {"none", "free"}
    PROVE  IInv'
<1>1. Types /\ w \in Pcs
  BY DEF IInv, Pcs, Others, Gone
<1>2. Alone(t) /\ th'[t] \in Threads /\ th'[t].pc = w
  BY <1>1, Goes
<1>3. th'[t].pc \in Gone <=> th[t].pc \in Gone
  BY <1>2 DEF Gone
<1>4. /\ th[t].pc \notin Busy \cup PidWait \cup PgWait \cup PsWait \cup PsHave
      /\ th'[t].pc \notin Busy \cup PidWait \cup PgWait \cup PsWait \cup PsHave
  BY <1>2 DEF Busy, PidWait, PgWait, PsWait, PsHave
<1>5. \A p \in Proc : StaysPs(t, p)
  BY <1>4, Keeps
<1>6. Sends(t)'
  BY <1>2 DEF Sends, PsHave
<1>7. QED BY <1>2, <1>3, <1>4, <1>5, <1>6, Quiet

LEMMA IdleSteps ==
    ASSUME IInv, NEW t \in Thread,
           \/ SelfSig(t) \/ Interrupted(t) \/ CheckNone(t) \/ CheckSys(t) \/ ExitCall(t)
           \/ ThreadGone(t) \/ LeaveOwnGroup(t) \/ Free(t)
    PROVE  IInv'
<1>1. Types
  BY DEF IInv
<1>2. CASE SelfSig(t)
  <2>1. /\ th[t].pc = "user" /\ th' = Go(t, "chk") /\ evs' = [evs EXCEPT ![t] = TRUE]
        /\ UNCHANGED <<sys, pid, ps, evq, evp>>
    BY <1>2 DEF SelfSig, At
  <2>2. Shapes'
    BY <1>1, <2>1 DEF Types, Shapes, sys
  <2>3. QED BY <2>1, <2>2, Idle DEF sys
<1>3. CASE Interrupted(t)
  <2>1. /\ th[t].pc = "user" /\ th' = Go(t, "chk")
        /\ UNCHANGED <<sys, pid, ps, evq, evp, evs>>
    BY <1>3 DEF Interrupted, At
  <2>2. Shapes'
    BY <1>1, <2>1 DEF Types, Shapes, sys
  <2>3. QED BY <2>1, <2>2, Idle DEF sys
<1>4. CASE CheckNone(t)
  <2>1. /\ th[t].pc = "chk" /\ th' = Go(t, "user")
        /\ UNCHANGED <<sys, pid, ps, evq, evp, evs>>
    BY <1>4 DEF CheckNone, At
  <2>2. Shapes'
    BY <1>1, <2>1 DEF Types, Shapes, sys
  <2>3. QED BY <2>1, <2>2, Idle DEF sys
<1>5. CASE CheckSys(t)
  <2>1. /\ th[t].pc = "chk" /\ evs' = [evs EXCEPT ![t] = FALSE]
        /\ UNCHANGED <<sys, pid, ps, evq, evp>>
    BY <1>5 DEF CheckSys, At
  <2>2. PICK fate \in {"user", "exit"} : th' = Go(t, fate)
    BY <1>5 DEF CheckSys, Fates
  <2>3. Shapes'
    BY <1>1, <2>1 DEF Types, Shapes, sys
  <2>4. QED BY <2>1, <2>2, <2>3, Idle DEF sys
<1>6. CASE ExitCall(t)
  <2>1. /\ th[t].pc = "user" /\ th' = Go(t, "exit")
        /\ UNCHANGED <<sys, pid, ps, evq, evp, evs>>
    BY <1>6 DEF ExitCall, At
  <2>2. Shapes'
    BY <1>1, <2>1 DEF Types, Shapes, sys
  <2>3. QED BY <2>1, <2>2, Idle DEF sys
<1>7. CASE ThreadGone(t)
  <2>1. /\ th[t].pc = "x" /\ th' = Go(t, "none")
        /\ UNCHANGED <<sys, pid, ps, evq, evp, evs>>
    BY <1>7 DEF ThreadGone, At
  <2>2. Shapes'
    BY <1>1, <2>1 DEF Types, Shapes, sys
  <2>3. QED BY <2>1, <2>2, Idle DEF sys
<1>8. CASE LeaveOwnGroup(t)
  <2>1. /\ th[t].pc = "leave" /\ th' = Go(t, "free")
        /\ UNCHANGED <<sys, pid, ps, evq, evp, evs>>
    BY <1>8 DEF LeaveOwnGroup, At
  <2>2. Shapes'
    BY <1>1, <2>1 DEF Types, Shapes, sys
  <2>3. QED BY <2>1, <2>2, Idle DEF sys
<1>9. CASE Free(t)
  <2>1. /\ th[t].pc = "free" /\ th' = Go(t, "none") /\ freed' = freed \cup {Own(t)}
        /\ UNCHANGED <<env, hashed, links, pg, pid, ps, evq, evp, evs>>
    BY <1>9 DEF Free, At
  <2>2. Own(t) \in Proc
    BY <1>1, EnvAssumption DEF Types, Shapes, Own, Env
  <2>3. Shapes'
    BY <1>1, <2>1, <2>2 DEF Types, Shapes
  <2>4. QED BY <2>1, <2>3, Idle
<1>10. QED BY <1>2, <1>3, <1>4, <1>5, <1>6, <1>7, <1>8, <1>9

-----------------------------------------------------------------------------
(* The steps that take or give pid_sema                                     *)

LEMMA PidMoves ==
    ASSUME IInv, NEW t \in Thread, NEW K, K \subseteq PidWait, Rest({t}, K), PidQueue',
           th' = [u \in Thread |-> th'[u]], th'[t] \in Threads, Shapes', Sends(t)',
           UNCHANGED <<env, ps, evq, evp, links, pg>>,
           th'[t].pc \in Gone <=> th[t].pc \in Gone,
           th[t].pc \notin Busy \cup PgWait, th'[t].pc \notin Busy \cup PgWait,
           \A p \in Proc : StaysPs(t, p)
    PROVE  IInv'
<1>1. Types /\ PgQueue /\ PsMutex
  BY DEF IInv
<1>2. /\ K \subseteq Waits /\ "evw" \notin K /\ K \cap PgWait = {} /\ K \cap PsWait = {}
      /\ PgWait \subseteq Waits
  BY DEF PidWait, PgWait, PsWait, Waits
<1>3. Types' /\ EvQueue' /\ EvOwned' /\ Sending' /\ Linked' /\ Forking'
  BY <1>2, Local
<1>4. AtPc(PgWait)' = AtPc(PgWait)
  BY <1>1, <1>2, SleepKept
<1>5. PgQueue'
  BY <1>1, <1>4 DEF PgQueue
<1>6. PsMutex'
  BY <1>1, <1>2, PsStays
<1>7. QED BY <1>3, <1>5, <1>6 DEF IInv

LEMMA PidAsk ==
    ASSUME IInv, NEW t \in Thread, Alone(t), pid' = PSema(pid, t),
           th[t].pc \notin PidWait, th'[t].pc \in PidWait <=> PSleeps(pid)
    PROVE  PidQueue' /\ Rest({t}, {})
<1>1. Types /\ SleptOn(pid, Thread, AtPc(PidWait))
  BY DEF IInv, PidQueue
<1>2. Rest({t}, {})
  BY DEF Alone, Rest, Passes
<1>3. QED BY <1>1, <1>2, SleepAsk DEF PidQueue

LEMMA NotifyStep ==
    ASSUME IInv, NEW t \in Thread, NEW p \in Proc, NEW op \in {"all", "one", "pg"},
           Notify(t, p, op)
    PROVE  IInv'
<1>1. Types /\ th[t] \in Threads
  BY DEF IInv, Types
<1>2. /\ th[t].pc = "user" /\ pid' = PSema(pid, t)
      /\ UNCHANGED <<env, hashed, freed, links, pg, ps, evq, evp, evs>>
  BY DEF Notify, At, sys
<1> DEFINE w == IF PSleeps(pid) THEN "pidw" ELSE "pidh"
<1>3. Alone(t) /\ th'[t] = [th[t] EXCEPT !.pc = w, !.op = op, !.p = p]
  BY <1>1 DEF Notify, Take, Go, Alone, Types
<1>4. w \in Pcs /\ w \in {"pidw", "pidh"} /\ (w \in PidWait <=> PSleeps(pid))
  BY DEF Pcs, PidWait, Others
<1> HIDE DEF w
<1>5. th'[t] \in Threads /\ th'[t].pc = w /\ th'[t].p = p
  BY <1>1, <1>3, <1>4 DEF Threads
<1>6. PidQueue' /\ Rest({t}, {})
  BY <1>2, <1>3, <1>4, <1>5, PidAsk DEF PidWait
<1>7. /\ th[t].pc \notin PsWait \cup PsHave \cup Gone \cup Busy \cup PgWait
      /\ th'[t].pc \notin PsWait \cup PsHave \cup Gone \cup Busy \cup PgWait
  BY <1>2, <1>4, <1>5 DEF PsWait, PsHave, Gone, Busy, PgWait
<1>8. \A r \in Proc : StaysPs(t, r)
  BY <1>2, <1>7, Keeps
<1>9. Shapes' /\ Sends(t)'
  BY <1>1, <1>2, <1>4, <1>5 DEF Types, Shapes, Sends
<1>10. th' = [u \in Thread |-> th'[u]] /\ (th'[t].pc \in Gone <=> th[t].pc \in Gone)
  BY <1>3, <1>7 DEF Alone
<1>11. QED BY <1>2, <1>5, <1>6, <1>7, <1>8, <1>9, <1>10, PidMoves

LEMMA MemberStep ==
    ASSUME IInv, NEW t \in Thread, Member(t)
    PROVE  IInv'
<1>1. Types /\ th[t] \in Threads /\ Sends(t)
  BY DEF IInv, Types, Sending
<1>2. /\ th[t].pc = "mem" /\ pid' = PSema(pid, t)
      /\ UNCHANGED <<env, hashed, freed, links, pg, ps, evq, evp, evs>>
  BY DEF Member, At, sys
<1> DEFINE w == IF PSleeps(pid) THEN "pidw" ELSE "pidh"
<1>3. Alone(t) /\ th'[t] = [th[t] EXCEPT !.pc = w, !.op = "all"]
  BY <1>1 DEF Member, Take, Go, Alone, Types
<1>4. w \in Pcs /\ w \in {"pidw", "pidh"} /\ (w \in PidWait <=> PSleeps(pid))
  BY DEF Pcs, PidWait, Others
<1> HIDE DEF w
<1>5. th'[t] \in Threads /\ th'[t].pc = w /\ th'[t].p = th[t].p
  BY <1>1, <1>3, <1>4 DEF Threads
<1>6. PidQueue' /\ Rest({t}, {})
  BY <1>2, <1>3, <1>4, <1>5, PidAsk DEF PidWait
<1>7. /\ th[t].pc \notin PsWait \cup PsHave \cup Gone \cup Busy \cup PgWait
      /\ th'[t].pc \notin PsWait \cup PsHave \cup Gone \cup Busy \cup PgWait
  BY <1>2, <1>4, <1>5 DEF PsWait, PsHave, Gone, Busy, PgWait
<1>8. \A r \in Proc : StaysPs(t, r)
  BY <1>2, <1>7, Keeps
<1>9. Shapes' /\ Sends(t)'
  BY <1>1, <1>2, <1>4, <1>5 DEF Types, Shapes, Sends
<1>10. th' = [u \in Thread |-> th'[u]] /\ (th'[t].pc \in Gone <=> th[t].pc \in Gone)
  BY <1>3, <1>7 DEF Alone
<1>11. QED BY <1>2, <1>5, <1>6, <1>7, <1>8, <1>9, <1>10, PidMoves

LEMMA FreeProcStep ==
    ASSUME IInv, NEW t \in Thread, FreeProc(t)
    PROVE  IInv'
<1>1. Types /\ th[t] \in Threads
  BY DEF IInv, Types
<1> DEFINE w == IF PSleeps(pid) THEN "fw" ELSE "fh"
<1>2. /\ th[t].pc = "xlast" /\ pid' = PSema(pid, t) /\ th' = Go(t, w)
      /\ UNCHANGED <<env, hashed, freed, links, pg, ps, evq, evp, evs>>
  BY DEF FreeProc, At, sys, Take
<1>3. w \in Pcs /\ w \in {"fw", "fh"} /\ (w \in PidWait <=> PSleeps(pid))
  BY DEF Pcs, PidWait, Gone
<1> HIDE DEF w
<1>4. Alone(t) /\ th'[t] \in Threads /\ th'[t].pc = w
  BY <1>1, <1>2, <1>3, Goes
<1>5. PidQueue' /\ Rest({t}, {})
  BY <1>2, <1>3, <1>4, PidAsk DEF PidWait
<1>6. /\ th[t].pc \notin PsWait \cup PsHave \cup Busy \cup PgWait /\ th[t].pc \in Gone
      /\ th'[t].pc \notin PsWait \cup PsHave \cup Busy \cup PgWait /\ th'[t].pc \in Gone
  BY <1>2, <1>3, <1>4 DEF PsWait, PsHave, Gone, Busy, PgWait
<1>7. \A r \in Proc : StaysPs(t, r)
  BY <1>2, <1>6, Keeps
<1>8. Shapes' /\ Sends(t)'
  BY <1>1, <1>2, <1>3, <1>4 DEF Types, Shapes, Sends, PsHave
<1>9. QED BY <1>2, <1>4, <1>5, <1>6, <1>7, <1>8, PidMoves DEF Alone

LEMMA UserIs ==
    ASSUME NEW w \in Pcs
    PROVE  [User EXCEPT !.pc = w] \in Threads /\ [User EXCEPT !.pc = w].pc = w
<1> DEFINE y == [User EXCEPT !.pc = w]
<1>1. /\ y = [pc |-> w, op |-> "none", p |-> NoProc, left |-> <<>>, rest |-> <<>>]
      /\ y.pc = w
  BY DEF User
<1>2. <<>> \in Seq(Thread) /\ <<>> \in Seq(Proc)
  OBVIOUS
<1>3. y \in Threads
  BY <1>1, <1>2 DEF Threads
<1>4. QED BY <1>1, <1>3

(* Where notify() goes on when it is done with a process. *)
LEMMA NextIs ==
    ASSUME NEW t \in Thread, NEW f \in [Thread -> Threads]
    PROVE  LET g == NextMember(f, t) IN
           /\ \A u \in Thread \ {t} : g[u] = f[u]
           /\ g[t] \in Threads /\ g[t].pc \in {"chk", "mem"}
           /\ g[t].pc = "mem" => g[t].p \in Proc
<1>1. f[t] \in Threads /\ f[t].rest \in Seq(Proc)
  BY DEF Threads
<1>2. CASE f[t].rest = <<>>
  <2>1. NextMember(f, t) = [f EXCEPT ![t] = [User EXCEPT !.pc = "chk"]]
    BY <1>2 DEF NextMember
  <2>2. [User EXCEPT !.pc = "chk"] \in Threads /\ [User EXCEPT !.pc = "chk"].pc = "chk"
    BY UserIs DEF Pcs, Others
  <2>3. QED BY <2>1, <2>2
<1>3. CASE f[t].rest # <<>>
  <2> DEFINE g == NextMember(f, t)
             y == g[t]
  <2>1. /\ \A u \in Thread \ {t} : g[u] = f[u]
        /\ y = [f[t] EXCEPT !.pc = "mem", !.p = Head(f[t].rest), !.rest = Tail(@)]
    BY <1>3 DEF NextMember
  <2>2. Head(f[t].rest) \in Proc /\ Tail(f[t].rest) \in Seq(Proc) /\ "mem" \in Pcs
    BY <1>1, <1>3 DEF Pcs, Others
  <2>3. y \in Threads /\ y.pc = "mem" /\ y.p \in Proc
    BY <1>1, <2>1, <2>2 DEF Threads
  <2>4. QED BY <2>1, <2>3
<1>4. QED BY <1>2, <1>3

LEMMA PidGive ==
    ASSUME IInv, NEW t \in Thread, pid' = VSema(pid),
           NEW g, th' = Wake(g, pid), \A u \in Thread \ {t} : g[u] = th[u],
           th[t].pc \notin PidWait, g[t].pc \notin PidWait
    PROVE  /\ PidQueue' /\ Rest({t}, PidWait)
           /\ th'[t] = g[t] /\ th' = [u \in Thread |-> th'[u]]
<1>1. Types /\ SleptOn(pid, Thread, AtPc(PidWait)) /\ PidWait \subseteq Waits
  BY DEF IInv, PidQueue, PidWait, Waits
<1>2. /\ SleptOn(VSema(pid), Thread, AtPc(PidWait)') /\ Rest({t}, PidWait)
      /\ th'[t] = g[t] /\ th' = [u \in Thread |-> th'[u]]
  BY <1>1, SleepGive
<1>3. QED BY <1>2 DEF PidQueue

LEMMA PfindNoneStep ==
    ASSUME IInv, NEW t \in Thread, PfindNone(t)
    PROVE  IInv'
<1> DEFINE g == NextMember(th, t)
<1>1. Types
  BY DEF IInv
<1>2. /\ th[t].pc = "pidh" /\ pid' = VSema(pid) /\ th' = Wake(g, pid)
      /\ UNCHANGED <<env, hashed, freed, links, pg, ps, evq, evp, evs>>
  BY DEF PfindNone, At, sys
<1>3. /\ \A u \in Thread \ {t} : g[u] = th[u]
      /\ g[t] \in Threads /\ g[t].pc \in {"chk", "mem"}
      /\ g[t].pc = "mem" => g[t].p \in Proc
  BY <1>1, NextIs DEF Types
<1> HIDE DEF g
<1>4. /\ PidQueue' /\ Rest({t}, PidWait)
      /\ th'[t] = g[t] /\ th' = [u \in Thread |-> th'[u]]
  BY <1>2, <1>3, PidGive DEF PidWait
<1>5. /\ th[t].pc \notin PsWait \cup PsHave \cup Gone \cup Busy \cup PgWait
      /\ th'[t].pc \notin PsWait \cup PsHave \cup Gone \cup Busy \cup PgWait
  BY <1>2, <1>3, <1>4 DEF PsWait, PsHave, Gone, Busy, PgWait
<1>6. \A r \in Proc : StaysPs(t, r)
  BY <1>2, <1>5, Keeps
<1>7. Shapes' /\ Sends(t)'
  BY <1>1, <1>2, <1>3, <1>4 DEF Types, Shapes, Sends, PsHave
<1>8. QED BY <1>2, <1>3, <1>4, <1>5, <1>6, <1>7, PidMoves

LEMMA PfindDoneStep ==
    ASSUME IInv, NEW t \in Thread, PfindDone(t)
    PROVE  IInv'
<1> DEFINE g == Go(t, "beg")
<1>1. Types /\ th[t] \in Threads /\ Sends(t)
  BY DEF IInv, Types, Sending
<1>2. /\ th[t].pc = "ph" /\ pid' = VSema(pid) /\ th' = Wake(g, pid)
      /\ UNCHANGED <<env, hashed, freed, links, pg, ps, evq, evp, evs>>
  BY DEF PfindDone, At, sys
<1>3. /\ \A u \in Thread \ {t} : g[u] = th[u]
      /\ g[t] = [th[t] EXCEPT !.pc = "beg"] /\ "beg" \in Pcs
  BY <1>1 DEF Types, Go, Pcs, PsHave
<1>4. g[t] \in Threads /\ g[t].pc = "beg" /\ g[t].p = th[t].p
  BY <1>1, <1>3 DEF Threads
<1> HIDE DEF g
<1>5. /\ PidQueue' /\ Rest({t}, PidWait)
      /\ th'[t] = g[t] /\ th' = [u \in Thread |-> th'[u]]
  BY <1>2, <1>3, <1>4, PidGive DEF PidWait
<1>6. \A r \in Proc : StaysPs(t, r)
  BY <1>2, <1>4, <1>5, Keeps DEF PsHave
<1>7. Shapes' /\ Sends(t)'
  BY <1>1, <1>2, <1>4, <1>5 DEF Types, Shapes, Sends, PsHave
<1>8. /\ th[t].pc \notin Gone \cup Busy \cup PgWait
      /\ th'[t].pc \notin Gone \cup Busy \cup PgWait
  BY <1>2, <1>4, <1>5 DEF Gone, Busy, PgWait
<1>9. QED BY <1>2, <1>4, <1>5, <1>6, <1>7, <1>8, PidMoves

LEMMA UnhashStep ==
    ASSUME IInv, NEW t \in Thread, Unhash(t)
    PROVE  IInv'
<1> DEFINE g == Go(t, "leave")
<1>1. Types /\ th[t] \in Threads
  BY DEF IInv, Types
<1>2. /\ th[t].pc = "fh" /\ pid' = VSema(pid) /\ th' = Wake(g, pid)
      /\ hashed' = hashed \ {Own(t)}
      /\ UNCHANGED <<env, freed, links, pg, ps, evq, evp, evs>>
  BY DEF Unhash, At
<1>3. /\ \A u \in Thread \ {t} : g[u] = th[u]
      /\ g[t] = [th[t] EXCEPT !.pc = "leave"] /\ "leave" \in Pcs
  BY <1>1 DEF Types, Go, Pcs, Gone
<1>4. g[t] \in Threads /\ g[t].pc = "leave"
  BY <1>1, <1>3 DEF Threads
<1> HIDE DEF g
<1>5. /\ PidQueue' /\ Rest({t}, PidWait)
      /\ th'[t] = g[t] /\ th' = [u \in Thread |-> th'[u]]
  BY <1>2, <1>3, <1>4, PidGive DEF PidWait
<1>6. /\ th[t].pc \notin PsWait \cup PsHave \cup Busy \cup PgWait /\ th[t].pc \in Gone
      /\ th'[t].pc \notin PsWait \cup PsHave \cup Busy \cup PgWait /\ th'[t].pc \in Gone
  BY <1>2, <1>4, <1>5 DEF PsWait, PsHave, Gone, Busy, PgWait
<1>7. \A r \in Proc : StaysPs(t, r)
  BY <1>2, <1>6, Keeps
<1>8. Shapes' /\ Sends(t)'
  BY <1>1, <1>2, <1>4, <1>5 DEF Types, Shapes, Sends, PsHave
<1>9. QED BY <1>2, <1>4, <1>5, <1>6, <1>7, <1>8, PidMoves

-----------------------------------------------------------------------------
(* The steps that take or give a p_sema                                     *)

LEMMA PsMoves ==
    ASSUME IInv, NEW t \in Thread, NEW K, K \subseteq PsWait, Rest({t}, K), PsMutex',
           th' = [u \in Thread |-> th'[u]], th'[t] \in Threads, Shapes', Sends(t)',
           UNCHANGED <<env, pid, evq, evp, links, pg>>,
           th'[t].pc \in Gone <=> th[t].pc \in Gone,
           th[t].pc \notin Busy \cup PidWait \cup PgWait,
           th'[t].pc \notin Busy \cup PidWait \cup PgWait
    PROVE  IInv'
<1>1. Types /\ PidQueue /\ PgQueue
  BY DEF IInv
<1>2. /\ K \subseteq Waits /\ "evw" \notin K /\ K \cap PgWait = {} /\ K \cap PidWait = {}
      /\ PgWait \subseteq Waits /\ PidWait \subseteq Waits
  BY DEF PidWait, PgWait, PsWait, Waits
<1>3. Types' /\ EvQueue' /\ EvOwned' /\ Sending' /\ Linked' /\ Forking'
  BY <1>2, Local
<1>4. AtPc(PgWait)' = AtPc(PgWait) /\ AtPc(PidWait)' = AtPc(PidWait)
  BY <1>1, <1>2, SleepKept
<1>5. PgQueue' /\ PidQueue'
  BY <1>1, <1>4 DEF PgQueue, PidQueue
<1>6. QED BY <1>3, <1>5 DEF IInv

LEMMA NotifySelfStep ==
    ASSUME IInv, NEW t \in Thread, NotifySelf(t)
    PROVE  IInv'
<1> DEFINE p == Own(t)
           w == IF PSleeps(ps[p]) THEN "slo" ELSE "beg"
<1>1. Types /\ PsMutex /\ th[t] \in Threads /\ p \in Proc
  BY EnvAssumption DEF IInv, Types, Shapes, Env, Own
<1>2. /\ th[t].pc = "user" /\ PsSet(p, PSema(ps[p], t))
      /\ UNCHANGED <<env, hashed, freed, links, pg, pid, evq, evp, evs>>
  BY DEF NotifySelf, At, sys, PsSet
<1>3. Alone(t) /\ th'[t] = [th[t] EXCEPT !.pc = w, !.op = "all", !.p = p]
  BY <1>1 DEF NotifySelf, Take, Go, Alone, Types
<1>4. w \in Pcs /\ w \in {"slo", "beg"} /\ w = IF PSleeps(ps[p]) THEN "slo" ELSE "beg"
  BY DEF Pcs, PsWait, PsHave
<1> HIDE DEF w, p
<1>5. th'[t] \in Threads /\ th'[t].pc = w /\ th'[t].p = p
  BY <1>1, <1>3, <1>4 DEF Threads
<1>6. Rest({t}, {})
  BY <1>3 DEF Alone, Rest, Passes
<1>7. PsOf(t)' = p /\ th[t].pc \notin PsWait \cup PsHave
      /\ th'[t].pc \in IF PSleeps(ps[p]) THEN PsWait ELSE PsHave
  BY <1>2, <1>4, <1>5 DEF PsOf, PsWait, PsHave
<1>8. PsMutex'
  BY <1>1, <1>2, <1>6, <1>7, PsAsk
<1>9. Shapes' /\ Sends(t)'
  BY <1>1, <1>2, <1>4, <1>5 DEF PsSet, Types, Shapes, Sends
<1>10. /\ th' = [u \in Thread |-> th'[u]] /\ (th'[t].pc \in Gone <=> th[t].pc \in Gone)
       /\ th[t].pc \notin Busy \cup PidWait \cup PgWait
       /\ th'[t].pc \notin Busy \cup PidWait \cup PgWait
  BY <1>2, <1>3, <1>4, <1>5 DEF Alone, Gone, Busy, PidWait, PgWait
<1>11. QED BY <1>2, <1>5, <1>6, <1>8, <1>9, <1>10, PsMoves

LEMMA PfindStep ==
    ASSUME IInv, NEW t \in Thread, Pfind(t)
    PROVE  IInv'
<1> DEFINE p == th[t].p
           w == IF PSleeps(ps[p]) THEN "pw" ELSE "ph"
<1>1. Types /\ PsMutex /\ p \in Proc
  BY DEF IInv, Types, Shapes, Pfind
<1>2. /\ th[t].pc = "pidh" /\ PsSet(p, PSema(ps[p], t)) /\ th' = Go(t, w)
      /\ UNCHANGED <<env, hashed, freed, links, pg, pid, evq, evp, evs>>
  BY DEF Pfind, At, sys, Take, PsSet
<1>3. w \in Pcs /\ w \in {"pw", "ph"} /\ w = IF PSleeps(ps[p]) THEN "pw" ELSE "ph"
  BY DEF Pcs, PsWait, PsHave
<1> HIDE DEF w
<1>4. Alone(t) /\ th'[t] \in Threads /\ th'[t].pc = w /\ th'[t].p = p
  BY <1>1, <1>2, <1>3, Goes
<1> HIDE DEF p
<1>5. Rest({t}, {})
  BY <1>4 DEF Alone, Rest, Passes
<1>6. PsOf(t)' = p /\ th[t].pc \notin PsWait \cup PsHave
      /\ th'[t].pc \in IF PSleeps(ps[p]) THEN PsWait ELSE PsHave
  BY <1>2, <1>3, <1>4 DEF PsOf, PsWait, PsHave
<1>7. PsMutex'
  BY <1>1, <1>2, <1>5, <1>6, PsAsk
<1>8. Shapes' /\ Sends(t)'
  BY <1>1, <1>2, <1>3, <1>4 DEF PsSet, Types, Shapes, Sends
<1>9. /\ th' = [u \in Thread |-> th'[u]] /\ (th'[t].pc \in Gone <=> th[t].pc \in Gone)
      /\ th[t].pc \notin Busy \cup PidWait \cup PgWait
      /\ th'[t].pc \notin Busy \cup PidWait \cup PgWait
  BY <1>2, <1>3, <1>4 DEF Alone, Gone, Busy, PidWait, PgWait
<1>10. QED BY <1>2, <1>4, <1>5, <1>7, <1>8, <1>9, PsMoves

(* A thread that takes the p_sema of its own process, to leave it or to     *)
(* add to it.                                                               *)
LEMMA OwnAsk ==
    ASSUME IInv, NEW t \in Thread, NEW p \in Proc, p = Own(t), NEW a, NEW b,
           <<th[t].pc, a, b>> \in {<<"exit", "xw", "xh">>, <<"user", "kw", "kh">>},
           PsSet(p, PSema(ps[p], t)), th' = Take(ps[p], t, a, b),
           UNCHANGED <<env, hashed, freed, links, pg, pid, evq, evp, evs>>
    PROVE  IInv'
<1> DEFINE w == IF PSleeps(ps[p]) THEN a ELSE b
<1>1. Types /\ PsMutex
  BY DEF IInv
<1>2. th' = Go(t, w) /\ w = IF PSleeps(ps[p]) THEN a ELSE b
  BY DEF Take
<1>3. /\ \/ th[t].pc = "exit" /\ a = "xw" /\ b = "xh"
         \/ th[t].pc = "user" /\ a = "kw" /\ b = "kh"
      /\ w \in Pcs
  BY DEF Pcs, PsWait, PsHave
<1> HIDE DEF w
<1>4. Alone(t) /\ th'[t] \in Threads /\ th'[t].pc = w
  BY <1>1, <1>2, <1>3, Goes
<1>5. Rest({t}, {})
  BY <1>4 DEF Alone, Rest, Passes
<1>6. PsOf(t)' = p /\ th[t].pc \notin PsWait \cup PsHave
      /\ th'[t].pc \in IF PSleeps(ps[p]) THEN PsWait ELSE PsHave
  BY <1>2, <1>3, <1>4 DEF PsOf, PsWait, PsHave, Own
<1>7. PsMutex'
  BY <1>1, <1>5, <1>6, PsAsk
<1>8. Shapes'
  BY <1>1 DEF PsSet, Types, Shapes
<1>9. /\ th' = [u \in Thread |-> th'[u]] /\ (th'[t].pc \in Gone <=> th[t].pc \in Gone)
      /\ th[t].pc \notin Busy \cup PidWait \cup PgWait
      /\ th'[t].pc \notin Busy \cup PidWait \cup PgWait
  BY <1>2, <1>3, <1>4 DEF Alone, Gone, Busy, PidWait, PgWait
<1>10. Sends(t)'
  BY <1>2, <1>3, <1>4 DEF Sends, PsHave
<1>11. QED BY <1>4, <1>5, <1>7, <1>8, <1>9, <1>10, PsMoves

LEMMA ExitStep ==
    ASSUME IInv, NEW t \in Thread, Exit(t)
    PROVE  IInv'
<1> DEFINE p == Own(t)
<1>1. /\ <<th[t].pc, "xw", "xh">> \in {<<"exit", "xw", "xh">>, <<"user", "kw", "kh">>}
      /\ PsSet(p, PSema(ps[p], t)) /\ th' = Take(ps[p], t, "xw", "xh")
      /\ UNCHANGED <<env, hashed, freed, links, pg, pid, evq, evp, evs>>
  BY DEF Exit, At, sys, PsSet
<1>2. p \in Proc /\ p = Own(t)
  BY EnvAssumption DEF IInv, Types, Shapes, Env, Own
<1> HIDE DEF p
<1>3. QED BY <1>1, <1>2, OwnAsk

LEMMA ForkThreadStep ==
    ASSUME IInv, NEW t \in Thread, ForkThread(t)
    PROVE  IInv'
<1> DEFINE p == Own(t)
<1>1. /\ <<th[t].pc, "kw", "kh">> \in {<<"exit", "xw", "xh">>, <<"user", "kw", "kh">>}
      /\ PsSet(p, PSema(ps[p], t)) /\ th' = Take(ps[p], t, "kw", "kh")
      /\ UNCHANGED <<env, hashed, freed, links, pg, pid, evq, evp, evs>>
  BY DEF ForkThread, At, sys, PsSet
<1>2. p \in Proc /\ p = Own(t)
  BY EnvAssumption DEF IInv, Types, Shapes, Env, Own
<1> HIDE DEF p
<1>3. QED BY <1>1, <1>2, OwnAsk

LEMMA OutStep ==
    ASSUME IInv, NEW t \in Thread, Out(t)
    PROVE  IInv'
<1> DEFINE p == th[t].p
           f == [th EXCEPT ![t].left = <<>>]
           g == NextMember(f, t)
<1>1. Types /\ PsMutex /\ Sends(t)
  BY DEF IInv, Sending
<1>2. /\ th[t].pc = "out" /\ PsSet(p, VSema(ps[p])) /\ th' = Wake(g, ps[p])
      /\ UNCHANGED <<env, hashed, freed, links, pg, pid, evq, evp, evs>>
  BY DEF Out, At, sys, PsSet
<1>3. p \in Proc /\ PsOf(t) = p /\ th[t].pc \in PsHave
  BY <1>1, <1>2 DEF Sends, PsOf, PsHave
<1>4. f \in [Thread -> Threads] /\ \A u \in Thread \ {t} : f[u] = th[u]
  <2>1. th \in [Thread -> Threads] /\ th[t] \in Threads
    BY <1>1 DEF Types
  <2>2. <<>> \in Seq(Thread)
    OBVIOUS
  <2>3. [th[t] EXCEPT !.left = <<>>] \in Threads
    BY <2>1, <2>2 DEF Threads
  <2>4. QED BY <2>1, <2>3
<1> HIDE DEF f
<1>5. /\ \A u \in Thread \ {t} : g[u] = th[u]
      /\ g[t] \in Threads /\ g[t].pc \in {"chk", "mem"}
      /\ g[t].pc = "mem" => g[t].p \in Proc
  BY <1>4, NextIs
<1> HIDE DEF g, p
<1>6. /\ \A x \in {t} : g[x].pc \notin PsWait \cup PsHave
      /\ \A x \in {t} \ {t} : th[x].pc \notin PsWait \cup PsHave
      /\ t \in {t} /\ {t} \subseteq Thread
  BY <1>5 DEF PsWait, PsHave
<1>7. /\ PsMutex' /\ Rest({t}, PsWait) /\ th'[t] = g[t] /\ th' = [u \in Thread |-> th'[u]]
  <2>1. env' = env
    BY <1>2
  <2>2. QED BY <1>1, <1>2, <1>3, <1>5, <1>6, <2>1, PsGive
<1>8. Shapes' /\ Sends(t)'
  BY <1>1, <1>2, <1>5, <1>7 DEF PsSet, Types, Shapes, Sends, PsHave
<1>9. /\ th'[t].pc \in Gone <=> th[t].pc \in Gone
      /\ th[t].pc \notin Busy \cup PidWait \cup PgWait
      /\ th'[t].pc \notin Busy \cup PidWait \cup PgWait
  BY <1>2, <1>5, <1>7 DEF Gone, Busy, PidWait, PgWait
<1>10. QED BY <1>2, <1>5, <1>7, <1>8, <1>9, PsMoves

-----------------------------------------------------------------------------
(* The steps that take or give pg_sema                                      *)

LEMMA PgMoves ==
    ASSUME IInv, NEW t \in Thread, NEW K, K \subseteq PgWait, Rest({t}, K), PgQueue',
           th' = [u \in Thread |-> th'[u]], th'[t] \in Threads, Shapes', Sends(t)',
           UNCHANGED <<env, pid, ps, evq, evp, links>>,
           th'[t].pc \in Gone <=> th[t].pc \in Gone,
           th[t].pc \notin Busy \cup PidWait, th'[t].pc \notin Busy \cup PidWait,
           \A p \in Proc : StaysPs(t, p)
    PROVE  IInv'
<1>1. Types /\ PidQueue /\ PsMutex
  BY DEF IInv
<1>2. /\ K \subseteq Waits /\ "evw" \notin K /\ K \cap PidWait = {} /\ K \cap PsWait = {}
      /\ PidWait \subseteq Waits
  BY DEF PidWait, PgWait, PsWait, Waits
<1>3. Types' /\ EvQueue' /\ EvOwned' /\ Sending' /\ Linked' /\ Forking'
  BY <1>2, Local
<1>4. AtPc(PidWait)' = AtPc(PidWait)
  BY <1>1, <1>2, SleepKept
<1>5. PidQueue'
  BY <1>1, <1>4 DEF PidQueue
<1>6. PsMutex'
  BY <1>1, <1>2, PsStays
<1>7. QED BY <1>3, <1>5, <1>6 DEF IInv

(* notifypg() keeps the p_sema it has, leave_pgrp() has none. *)
LEMMA PgAsk ==
    ASSUME IInv, NEW t \in Thread, NEW a, NEW b,
           <<th[t].pc, a, b>> \in {<<"beg", "gw", "gh">>, <<"leave", "lw", "lh">>},
           pg' = [pg EXCEPT !.sema = PSema(@, t)], th' = Take(pg.sema, t, a, b),
           UNCHANGED <<env, hashed, freed, links, pid, ps, evq, evp, evs>>
    PROVE  IInv'
<1> DEFINE w == IF PSleeps(pg.sema) THEN a ELSE b
<1>1. Types /\ SleptOn(pg.sema, Thread, AtPc(PgWait)) /\ Sends(t)
  BY DEF IInv, PgQueue, Sending
<1>2. th' = Go(t, w) /\ w = IF PSleeps(pg.sema) THEN a ELSE b
  BY DEF Take
<1>3. /\ \/ th[t].pc = "beg" /\ a = "gw" /\ b = "gh"
         \/ th[t].pc = "leave" /\ a = "lw" /\ b = "lh"
      /\ w \in Pcs
  BY DEF Pcs, Gone, PsHave
<1> HIDE DEF w
<1>4. Alone(t) /\ th'[t] \in Threads /\ th'[t].pc = w /\ th'[t].p = th[t].p
  BY <1>1, <1>2, <1>3, Goes
<1>5. Rest({t}, {})
  BY <1>4 DEF Alone, Rest, Passes
<1>6. th[t].pc \notin PgWait /\ (th'[t].pc \in PgWait <=> PSleeps(pg.sema))
  BY <1>2, <1>3, <1>4 DEF PgWait
<1>7. pg'.sema = PSema(pg.sema, t) /\ Shapes'
  BY <1>1 DEF Types, Shapes
<1>8. PgQueue'
  BY <1>1, <1>5, <1>6, <1>7, SleepAsk DEF PgQueue
<1>9. \A p \in Proc : StaysPs(t, p)
  <2>1. \/ /\ th[t].pc \notin PsWait \cup PsHave
           /\ th'[t].pc \notin PsWait \cup PsHave
        \/ /\ th[t].pc \in PsHave \ {"xh", "kh"} /\ th'[t].p = th[t].p
           /\ th'[t].pc \in PsHave \ {"xh", "kh"}
    BY <1>2, <1>3, <1>4 DEF PsWait, PsHave
  <2>2. QED BY <2>1, Keeps
<1>10. /\ th' = [u \in Thread |-> th'[u]] /\ (th'[t].pc \in Gone <=> th[t].pc \in Gone)
       /\ th[t].pc \notin Busy \cup PidWait /\ th'[t].pc \notin Busy \cup PidWait
  BY <1>2, <1>3, <1>4 DEF Alone, Gone, Busy, PidWait
<1>11. Sends(t)'
  BY <1>1, <1>2, <1>3, <1>4 DEF Sends, PsHave
<1>12. QED BY <1>4, <1>5, <1>7, <1>8, <1>9, <1>10, <1>11, PgMoves

LEMMA BeginGroupStep ==
    ASSUME IInv, NEW t \in Thread, BeginGroup(t)
    PROVE  IInv'
<1>1. /\ <<th[t].pc, "gw", "gh">> \in {<<"beg", "gw", "gh">>, <<"leave", "lw", "lh">>}
      /\ pg' = [pg EXCEPT !.sema = PSema(@, t)] /\ th' = Take(pg.sema, t, "gw", "gh")
      /\ UNCHANGED <<env, hashed, freed, links, pid, ps, evq, evp, evs>>
  BY DEF BeginGroup, At
<1>2. QED BY <1>1, PgAsk

LEMMA LeaveGroupStep ==
    ASSUME IInv, NEW t \in Thread, LeaveGroup(t)
    PROVE  IInv'
<1>1. /\ <<th[t].pc, "lw", "lh">> \in {<<"beg", "gw", "gh">>, <<"leave", "lw", "lh">>}
      /\ pg' = [pg EXCEPT !.sema = PSema(@, t)] /\ th' = Take(pg.sema, t, "lw", "lh")
      /\ UNCHANGED <<env, hashed, freed, links, pid, ps, evq, evp, evs>>
  BY DEF LeaveGroup, At
<1>2. QED BY <1>1, PgAsk

LEMMA PgGive ==
    ASSUME IInv, NEW t \in Thread, pg'.sema = VSema(pg.sema),
           NEW g, th' = Wake(g, pg.sema), \A u \in Thread \ {t} : g[u] = th[u],
           th[t].pc \notin PgWait, g[t].pc \notin PgWait
    PROVE  /\ PgQueue' /\ Rest({t}, PgWait)
           /\ th'[t] = g[t] /\ th' = [u \in Thread |-> th'[u]]
<1>1. Types /\ SleptOn(pg.sema, Thread, AtPc(PgWait)) /\ PgWait \subseteq Waits
  BY DEF IInv, PgQueue, PgWait, Waits
<1>2. /\ SleptOn(VSema(pg.sema), Thread, AtPc(PgWait)') /\ Rest({t}, PgWait)
      /\ th'[t] = g[t] /\ th' = [u \in Thread |-> th'[u]]
  BY <1>1, SleepGive
<1>3. QED BY <1>2 DEF PgQueue

LEMMA ListGroupStep ==
    ASSUME IInv, NEW t \in Thread, ListGroup(t)
    PROVE  IInv'
<1> DEFINE m == SetToSeq(pg.members)
           g == [th EXCEPT ![t].pc = "out", ![t].rest = m]
<1>1. Types /\ Sends(t) /\ th[t] \in Threads
  BY DEF IInv, Sending, Types
<1>2. /\ th[t].pc = "gh" /\ pg' = [pg EXCEPT !.sema = VSema(@)] /\ th' = Wake(g, pg.sema)
      /\ UNCHANGED <<env, hashed, freed, links, pid, ps, evq, evp, evs>>
  BY DEF ListGroup, At
<1>3. m \in Seq(Proc)
  <2>1. pg.members \subseteq Proc /\ IsFiniteSet(pg.members)
    BY <1>1, FiniteAssumption, FS_Subset DEF Types, Shapes
  <2>2. m \in Seq(pg.members)
    BY <2>1, ListOf
  <2> HIDE DEF m
  <2>3. QED BY <2>1, <2>2
<1> HIDE DEF m
<1>4. /\ \A u \in Thread \ {t} : g[u] = th[u]
      /\ g[t] = [th[t] EXCEPT !.pc = "out", !.rest = m] /\ "out" \in Pcs
  BY <1>1 DEF Types, Pcs, PsHave
<1> HIDE DEF g
<1>5. g[t] \in Threads /\ g[t].pc = "out" /\ g[t].p = th[t].p
  BY <1>1, <1>3, <1>4 DEF Threads
<1>6. pg'.sema = VSema(pg.sema) /\ Shapes'
  BY <1>1, <1>2 DEF Types, Shapes
<1>7. /\ PgQueue' /\ Rest({t}, PgWait)
      /\ th'[t] = g[t] /\ th' = [u \in Thread |-> th'[u]]
  BY <1>2, <1>4, <1>5, <1>6, PgGive DEF PgWait
<1>8. \A r \in Proc : StaysPs(t, r)
  BY <1>2, <1>5, <1>7, Keeps DEF PsHave
<1>9. Sends(t)'
  BY <1>1, <1>2, <1>5, <1>7 DEF Sends, PsHave
<1>10. /\ th[t].pc \notin Gone \cup Busy \cup PidWait
       /\ th'[t].pc \notin Gone \cup Busy \cup PidWait
  BY <1>2, <1>5, <1>7 DEF Gone, Busy, PidWait
<1>11. QED BY <1>2, <1>5, <1>6, <1>7, <1>8, <1>9, <1>10, PgMoves

LEMMA LeftStep ==
    ASSUME IInv, NEW t \in Thread, Left(t)
    PROVE  IInv'
<1> DEFINE g == Go(t, "free")
<1>1. Types /\ th[t] \in Threads
  BY DEF IInv, Types
<1>2. th[t].pc = "lh" /\ UNCHANGED <<env, hashed, freed, links, pid, ps, evq, evp, evs>>
  BY DEF Left, At
<1>3. /\ \A u \in Thread \ {t} : g[u] = th[u]
      /\ g[t] = [th[t] EXCEPT !.pc = "free"] /\ "free" \in Pcs
      /\ g = [u \in Thread |-> g[u]]
  BY <1>1 DEF Types, Go, Pcs, Gone
<1>4. g[t] \in Threads /\ g[t].pc = "free"
  BY <1>1, <1>3 DEF Threads
<1> HIDE DEF g
<1>5. /\ PgQueue' /\ Rest({t}, PgWait) /\ Shapes'
      /\ th'[t] = g[t] /\ th' = [u \in Thread |-> th'[u]]
  <2>1. CASE pg.members = {Own(t)}
    <3>1. pg' = [pg EXCEPT !.members = {}, !.freed = TRUE] /\ th' = g
      BY <2>1 DEF Left, g
    <3>2. pg'.sema = pg.sema /\ Shapes'
      BY <1>1, <1>2, <3>1 DEF Types, Shapes
    <3>3. Rest({t}, {}) /\ Rest({t}, PgWait)
      BY <1>3, <3>1 DEF Rest, Passes
    <3>4. AtPc(PgWait)' = AtPc(PgWait)
      BY <1>1, <1>2, <1>4, <3>1, <3>3, SleepKept DEF PgWait, Waits
    <3>5. PgQueue'
      BY <3>2, <3>4 DEF IInv, PgQueue
    <3>6. QED BY <1>3, <3>1, <3>2, <3>3, <3>5
  <2>2. CASE pg.members # {Own(t)}
    <3>1. /\ pg' = [pg EXCEPT !.members = @ \ {Own(t)}, !.sema = VSema(@)]
          /\ th' = Wake(g, pg.sema)
      BY <2>2 DEF Left, g
    <3>2. pg'.sema = VSema(pg.sema) /\ Shapes'
      BY <1>1, <1>2, <3>1 DEF Types, Shapes
    <3>3. th[t].pc \notin PgWait /\ g[t].pc \notin PgWait
      BY <1>2, <1>4 DEF PgWait
    <3>4. QED BY <1>3, <3>1, <3>2, <3>3, PgGive
  <2>3. QED BY <2>1, <2>2
<1>6. /\ th[t].pc \notin PsWait \cup PsHave \cup Busy \cup PidWait /\ th[t].pc \in Gone
      /\ th'[t].pc \notin PsWait \cup PsHave \cup Busy \cup PidWait /\ th'[t].pc \in Gone
  BY <1>2, <1>4, <1>5 DEF PsWait, PsHave, Gone, Busy, PidWait
<1>7. \A r \in Proc : StaysPs(t, r)
  BY <1>2, <1>6, Keeps
<1>8. Sends(t)'
  BY <1>4, <1>5 DEF Sends, PsHave
<1>9. QED BY <1>2, <1>4, <1>5, <1>6, <1>7, <1>8, PgMoves

-----------------------------------------------------------------------------
(* The steps that change the list of a process                              *)

LEMMA TypesStay ==
    ASSUME Types, NEW X, NEW K, K \subseteq Waits, Rest(X, K), Shapes',
           th' = [u \in Thread |-> th'[u]], \A x \in X : th'[x] \in Threads
    PROVE  Types'
<1>1. ASSUME NEW u \in Thread PROVE th'[u] \in Threads
  <2>1. CASE u \notin X
    <3>1. Passes(u, K) /\ th[u] \in Threads
      BY <2>1 DEF Rest, Types
    <3>2. QED BY <3>1, PassesIs
  <2>2. QED BY <2>1
<1>2. QED BY <1>1 DEF Types

(* Taking a thread off a list leaves the others on it. *)
LEMMA WithoutIs ==
    ASSUME NEW q \in Seq(Thread), NEW t \in ToSet(q),
           \A i, j \in DOMAIN q : q[i] = q[j] => i = j
    PROVE  /\ Without(q, t) \in Seq(Thread) /\ ToSet(Without(q, t)) = ToSet(q) \ {t}
           /\ \A i, j \in DOMAIN Without(q, t) :
                 Without(q, t)[i] = Without(q, t)[j] => i = j
<1> DEFINE k == CHOOSE i \in DOMAIN q : q[i] = t
           r == RemoveAt(q, k)
<1>1. k \in DOMAIN q /\ q[k] = t
  BY DEF ToSet
<1> HIDE DEF k
<1>2. /\ r \in Seq(Thread)
      /\ {r[j] : j \in DOMAIN r} = {q[j] : j \in DOMAIN q} \ {q[k]}
      /\ \A i, j \in DOMAIN r : r[i] = r[j] => i = j
  BY <1>1, RemoveOne
<1>3. Without(q, t) = r
  BY DEF Without, k
<1> HIDE DEF r
<1>4. ToSet(r) = ToSet(q) \ {t}
  BY <1>1, <1>2 DEF ToSet
<1>5. QED BY <1>2, <1>3, <1>4

(* Pushing a thread that is not on it. *)
LEMMA PushIs ==
    ASSUME NEW q \in Seq(Thread), NEW u \in Thread, u \notin ToSet(q),
           \A i, j \in DOMAIN q : q[i] = q[j] => i = j
    PROVE  /\ <<u>> \o q \in Seq(Thread) /\ ToSet(<<u>> \o q) = ToSet(q) \cup {u}
           /\ \A i, j \in DOMAIN (<<u>> \o q) :
                 (<<u>> \o q)[i] = (<<u>> \o q)[j] => i = j
<1> DEFINE r == <<u>> \o q
<1>1. Len(q) \in Nat /\ DOMAIN q = 1 .. Len(q)
  OBVIOUS
<1>2. /\ r \in Seq(Thread) /\ DOMAIN r = 1 .. Len(q) + 1
      /\ \A i \in 1 .. Len(q) + 1 : r[i] = IF i = 1 THEN u ELSE q[i - 1]
  OBVIOUS
<1> HIDE DEF r
<1>3. ASSUME NEW i \in 1 .. Len(q) PROVE i + 1 \in DOMAIN r /\ r[i + 1] = q[i]
  BY <1>1, <1>2
<1>4. 1 \in DOMAIN r /\ r[1] = u
  BY <1>1, <1>2
<1>5. ASSUME NEW i \in DOMAIN r PROVE i = 1 \/ (i - 1 \in DOMAIN q /\ r[i] = q[i - 1])
  BY <1>1, <1>2
<1>6. ToSet(r) = ToSet(q) \cup {u}
  BY <1>1, <1>3, <1>4, <1>5 DEF ToSet
<1>7. ASSUME NEW i \in DOMAIN r, NEW j \in DOMAIN r, r[i] = r[j] PROVE i = j
  <2>1. CASE i = 1 \/ j = 1
    <3>1. r[i] = u /\ r[j] = u
      BY <1>4, <1>7, <2>1
    <3>2. \A k \in DOMAIN q : q[k] # u
      BY DEF ToSet
    <3>3. QED BY <1>5, <3>1, <3>2
  <2>2. CASE i # 1 /\ j # 1
    <3>1. i - 1 \in DOMAIN q /\ j - 1 \in DOMAIN q /\ q[i - 1] = q[j - 1]
      BY <1>5, <1>7, <2>2
    <3>2. i - 1 = j - 1
      BY <3>1
    <3>3. QED BY <1>2, <3>2
  <2>3. QED BY <2>1, <2>2
<1>8. QED BY <1>2, <1>6, <1>7 DEF r

LEMMA UnlinkStep ==
    ASSUME IInv, NEW t \in Thread, Unlink(t)
    PROVE  IInv'
<1> DEFINE p == Own(t)
           w == IF links[p] = <<t>> THEN "xlast" ELSE "x"
           g == Go(t, w)
<1>1. /\ Types /\ PidQueue /\ PgQueue /\ EvQueue /\ PsMutex /\ EvOwned /\ Sending
      /\ Linked /\ Forking /\ th[t] \in Threads /\ p \in Proc
  BY EnvAssumption DEF IInv, Types, Shapes, Env, Own
<1>2. /\ th[t].pc = "xh" /\ PsSet(p, VSema(ps[p])) /\ th' = Wake(g, ps[p])
      /\ links' = [links EXCEPT ![p] = Without(@, t)]
      /\ UNCHANGED <<env, hashed, freed, pg, pid, evq, evp, evs>>
  BY DEF Unlink, At, PsSet
<1>3. w \in {"x", "xlast"} /\ w \in Pcs
  BY DEF Pcs, Gone
<1>4. \A u \in Proc : u = Own(t) <=> u = p
  OBVIOUS
<1> HIDE DEF w
<1>5. /\ \A u \in Thread \ {t} : g[u] = th[u]
      /\ g[t] = [th[t] EXCEPT !.pc = w]
  BY <1>1 DEF Types, Go
<1>6. g[t] \in Threads /\ g[t].pc = w
  BY <1>1, <1>3, <1>5 DEF Threads
<1> HIDE DEF g
<1>7. PsOf(t) = p /\ th[t].pc \in PsHave
  BY <1>2 DEF PsOf, PsHave
<1> HIDE DEF p
<1>8. /\ \A x \in {t} : g[x].pc \notin PsWait \cup PsHave
      /\ \A x \in {t} \ {t} : th[x].pc \notin PsWait \cup PsHave
      /\ t \in {t} /\ {t} \subseteq Thread /\ env' = env
  BY <1>2, <1>3, <1>6 DEF PsWait, PsHave
<1>9. /\ PsMutex' /\ Rest({t}, PsWait) /\ AtPs(PsHave, p) = {t}
      /\ th'[t] = g[t] /\ th' = [u \in Thread |-> th'[u]]
  BY <1>1, <1>2, <1>5, <1>7, <1>8, PsGive
<1>10. /\ PsWait \subseteq Waits /\ "evw" \notin PsWait /\ PidWait \subseteq Waits
       /\ PgWait \subseteq Waits /\ PsWait \cap PidWait = {} /\ PsWait \cap PgWait = {}
  BY DEF PsWait, PidWait, PgWait, Waits
<1>11. /\ t \in ToSet(links[p]) /\ links[p] \in Seq(Thread)
       /\ \A i, j \in DOMAIN links[p] : links[p][i] = links[p][j] => i = j
       /\ ToSet(links[p]) = {u \in Thread : Own(u) = p /\ th[u].pc \notin Gone}
  <2>1. Own(t) = p /\ th[t].pc \notin Gone
    BY <1>2 DEF Gone, p
  <2>2. QED BY <1>1, <2>1 DEF Linked, Types, Shapes
<1>12. /\ Without(links[p], t) \in Seq(Thread)
       /\ ToSet(Without(links[p], t)) = ToSet(links[p]) \ {t}
       /\ \A i, j \in DOMAIN Without(links[p], t) :
             Without(links[p], t)[i] = Without(links[p], t)[j] => i = j
  BY <1>11, WithoutIs
<1>13. /\ \A q \in Proc : links'[q] = IF q = p THEN Without(links[p], t) ELSE links[q]
       /\ links' \in [Proc -> Seq(Thread)]
  BY <1>1, <1>2, <1>12 DEF Types, Shapes
<1>14. Shapes'
  BY <1>1, <1>2, <1>13 DEF Types, Shapes, PsSet
<1>15. Types'
  BY <1>1, <1>6, <1>9, <1>10, <1>14, TypesStay
<1>16. /\ th[t].pc \notin Busy \cup PidWait \cup PgWait /\ th[t].pc \notin Gone
       /\ th'[t].pc \notin Busy \cup PidWait \cup PgWait /\ th'[t].pc \in Gone
  BY <1>2, <1>3, <1>6, <1>9 DEF Busy, PidWait, PgWait, Gone
<1>17. EvQueue' /\ EvOwned'
  BY <1>1, <1>2, <1>8, <1>9, <1>10, <1>16, EvStays DEF Busy
<1>18. Forking'
  BY <1>1, <1>9, <1>10, <1>16, ForksStay DEF Busy
<1>19. AtPc(PidWait)' = AtPc(PidWait) /\ AtPc(PgWait)' = AtPc(PgWait)
  BY <1>1, <1>9, <1>10, <1>16, SleepKept
<1>20. PidQueue' /\ PgQueue'
  BY <1>1, <1>2, <1>19 DEF PidQueue, PgQueue
<1>21. Sending'
  <2>1. ASSUME NEW u \in Thread PROVE Sends(u)'
    <3>1. CASE u = t
      BY <1>3, <1>6, <1>9, <3>1 DEF Sends, PsHave
    <3>2. CASE u # t
      <4>1. Passes(u, PsWait) /\ th[u] \in Threads /\ Sends(u)
        BY <1>1, <1>9, <3>2 DEF Rest, Types, Sending
      <4>2. ASSUME th[u].pc \in {"walk", "evw", "evh"}
            PROVE  links'[th[u].p] = links[th[u].p]
        <5>1. th[u].p \in Proc /\ th[u].pc \in PsHave /\ PsOf(u) = th[u].p
          BY <4>1, <4>2 DEF Sends, PsHave, PsOf
        <5>2. th[u].p # p
          BY <1>9, <3>2, <5>1 DEF AtPs
        <5>3. QED BY <1>13, <5>1, <5>2
      <4>3. QED BY <1>10, <4>1, <4>2, PassesSends
    <3>3. QED BY <3>1, <3>2
  <2>2. QED BY <2>1 DEF Sending
<1>22. Linked'
  <2>1. ASSUME NEW u \in Thread
        PROVE  /\ Own(u)' = Own(u)
               /\ th'[u].pc \notin Gone <=> th[u].pc \notin Gone /\ u # t
    <3>1. CASE u = t
      BY <1>2, <1>16, <3>1 DEF Own
    <3>2. CASE u # t
      <4>1. Passes(u, PsWait) /\ th[u] \in Threads
        BY <1>1, <1>9, <3>2 DEF Rest, Types
      <4>2. QED BY <1>2, <1>10, <3>2, <4>1, PassesIs DEF Own
    <3>3. QED BY <3>1, <3>2
  <2>2. ASSUME NEW q \in Proc
        PROVE  /\ ToSet(links'[q]) = {u \in Thread : Own(u)' = q /\ th'[u].pc \notin Gone}
               /\ \A i, j \in DOMAIN links'[q] : links'[q][i] = links'[q][j] => i = j
    <3>1. CASE q = p
      BY <1>11, <1>12, <1>13, <2>1, <3>1
    <3>2. CASE q # p
      <4>1. links'[q] = links[q]
        BY <1>13, <3>2
      <4>2. Own(t) # q
        BY <3>2 DEF p
      <4>3. QED BY <1>1, <2>1, <4>1, <4>2 DEF Linked
    <3>3. QED BY <3>1, <3>2
  <2>3. QED BY <2>2 DEF Linked
<1>23. QED BY <1>9, <1>15, <1>17, <1>18, <1>20, <1>21, <1>22 DEF IInv

LEMMA LinkThreadStep ==
    ASSUME IInv, NEW t \in Thread, NEW u \in Thread, LinkThread(t, u)
    PROVE  IInv'
<1> DEFINE p == Own(t)
           y == [User EXCEPT !.pc = "new"]
           g == [th EXCEPT ![t].pc = "kr", ![t].left = <<u>>, ![u] = y]
           X == {t, u}
<1>1. /\ Types /\ PidQueue /\ PgQueue /\ EvQueue /\ PsMutex /\ EvOwned /\ Sending
      /\ Linked /\ Forking /\ th[t] \in Threads /\ th \in [Thread -> Threads] /\ p \in Proc
  BY EnvAssumption DEF IInv, Types, Shapes, Env, Own
<1>2. /\ th[t].pc = "kh" /\ th[u].pc = "none" /\ Own(u) = p
      /\ PsSet(p, VSema(ps[p])) /\ th' = Wake(g, ps[p])
      /\ links' = [links EXCEPT ![p] = <<u>> \o @]
      /\ evq' = [evq EXCEPT ![u] = NewSema(1)]
      /\ evp' = [evp EXCEPT ![u] = FALSE] /\ evs' = [evs EXCEPT ![u] = FALSE]
      /\ UNCHANGED <<env, hashed, freed, pg, pid>>
  BY DEF LinkThread, At, PsSet, Own
<1>3. y \in Threads /\ y.pc = "new" /\ "kr" \in Pcs
  BY UserIs DEF Pcs, Others
<1> HIDE DEF y
<1>4. t # u
  BY <1>2
<1>5. /\ \A v \in Thread \ X : g[v] = th[v]
      /\ g[t] = [th[t] EXCEPT !.pc = "kr", !.left = <<u>>] /\ g[u] = y
  BY <1>1, <1>4
<1>6. g[t] \in Threads /\ g[t].pc = "kr" /\ g[t].left = <<u>>
  <2>1. <<u>> \in Seq(Thread)
    OBVIOUS
  <2> HIDE DEF g
  <2>2. QED BY <1>1, <1>3, <1>5, <2>1 DEF Threads
<1> HIDE DEF g
<1>7. PsOf(t) = p /\ th[t].pc \in PsHave
  BY <1>2 DEF PsOf, PsHave
<1> HIDE DEF p
<1>8. /\ \A x \in X : g[x].pc \notin PsWait \cup PsHave
      /\ \A x \in X \ {t} : th[x].pc \notin PsWait \cup PsHave
      /\ t \in X /\ X \subseteq Thread /\ env' = env
  BY <1>2, <1>3, <1>5, <1>6 DEF PsWait, PsHave
<1>9. /\ PsMutex' /\ Rest(X, PsWait)
      /\ th'[t] = g[t] /\ th'[u] = y /\ th' = [v \in Thread |-> th'[v]]
  <2> HIDE DEF X
  <2>1. /\ PsMutex' /\ Rest(X, PsWait)
        /\ \A x \in X : th'[x] = g[x]
        /\ th' = [v \in Thread |-> th'[v]]
    BY <1>1, <1>2, <1>5, <1>7, <1>8, PsGive
  <2>2. QED BY <1>5, <1>8, <2>1 DEF X
<1>10. /\ PsWait \subseteq Waits /\ "evw" \notin PsWait /\ PidWait \subseteq Waits
       /\ PgWait \subseteq Waits /\ PsWait \cap PidWait = {} /\ PsWait \cap PgWait = {}
  BY DEF PsWait, PidWait, PgWait, Waits
<1>11. /\ u \notin ToSet(links[p]) /\ links[p] \in Seq(Thread)
       /\ \A i, j \in DOMAIN links[p] : links[p][i] = links[p][j] => i = j
       /\ ToSet(links[p]) = {v \in Thread : Own(v) = p /\ th[v].pc \notin Gone}
  <2>1. th[u].pc \in Gone
    BY <1>2 DEF Gone
  <2>2. QED BY <1>1, <2>1 DEF Linked, Types, Shapes
<1>12. /\ <<u>> \o links[p] \in Seq(Thread)
       /\ ToSet(<<u>> \o links[p]) = ToSet(links[p]) \cup {u}
       /\ \A i, j \in DOMAIN (<<u>> \o links[p]) :
             (<<u>> \o links[p])[i] = (<<u>> \o links[p])[j] => i = j
  BY <1>11, PushIs
<1>13. /\ \A q \in Proc : links'[q] = IF q = p THEN <<u>> \o links[p] ELSE links[q]
       /\ links' \in [Proc -> Seq(Thread)]
  BY <1>1, <1>2, <1>12 DEF Types, Shapes
<1>14. Shapes'
  BY <1>1, <1>2, <1>13 DEF Types, Shapes, PsSet
<1>15. Types'
  BY <1>1, <1>3, <1>6, <1>9, <1>10, <1>14, TypesStay
<1>16. \A x \in X : /\ th[x].pc \notin {"evw", "evh", "dlv"} \cup PidWait \cup PgWait
                    /\ th'[x].pc \notin {"evw", "evh", "dlv"} \cup PidWait \cup PgWait
  BY <1>2, <1>3, <1>6, <1>9 DEF PidWait, PgWait
<1>17. AtPc(PidWait)' = AtPc(PidWait) /\ AtPc(PgWait)' = AtPc(PgWait)
  BY <1>1, <1>9, <1>10, <1>16, SleepKept
<1>18. PidQueue' /\ PgQueue'
  BY <1>1, <1>2, <1>17 DEF PidQueue, PgQueue
<1>19. Sending'
  <2>1. ASSUME NEW v \in Thread PROVE Sends(v)'
    <3>1. CASE v \in X
      BY <1>3, <1>6, <1>9, <3>1 DEF Sends, PsHave
    <3>2. CASE v \notin X
      <4>1. Passes(v, PsWait) /\ th[v] \in Threads /\ Sends(v)
        BY <1>1, <1>9, <3>2 DEF Rest, Types, Sending
      <4>2. ASSUME th[v].pc \in {"walk", "evw", "evh"}
            PROVE  ToSet(links[th[v].p]) \subseteq ToSet(links'[th[v].p])
        <5>1. th[v].p \in Proc
          BY <4>1, <4>2 DEF Sends, PsHave
        <5>2. QED BY <1>12, <1>13, <5>1
      <4>3. QED BY <1>10, <4>1, <4>2, PassesSends
    <3>3. QED BY <3>1, <3>2
  <2>2. QED BY <2>1 DEF Sending
<1>20. Linked'
  <2>1. ASSUME NEW v \in Thread
        PROVE  /\ Own(v)' = Own(v)
               /\ th'[v].pc \notin Gone <=> th[v].pc \notin Gone \/ v = u
    <3>1. CASE v \in X
      BY <1>2, <1>3, <1>6, <1>9, <3>1 DEF Own, Gone
    <3>2. CASE v \notin X
      <4>1. Passes(v, PsWait) /\ th[v] \in Threads
        BY <1>1, <1>9, <3>2 DEF Rest, Types
      <4>2. QED BY <1>2, <1>10, <3>2, <4>1, PassesIs DEF Own
    <3>3. QED BY <3>1, <3>2
  <2>2. ASSUME NEW q \in Proc
        PROVE  /\ ToSet(links'[q]) = {v \in Thread : Own(v)' = q /\ th'[v].pc \notin Gone}
               /\ \A i, j \in DOMAIN links'[q] : links'[q][i] = links'[q][j] => i = j
    <3>1. CASE q = p
      BY <1>2, <1>11, <1>12, <1>13, <2>1, <3>1
    <3>2. CASE q # p
      <4>1. links'[q] = links[q]
        BY <1>13, <3>2
      <4>2. Own(u) # q
        BY <1>2, <3>2
      <4>3. QED BY <1>1, <2>1, <4>1, <4>2 DEF Linked
    <3>3. QED BY <3>1, <3>2
  <2>3. QED BY <2>2 DEF Linked
<1>21. Aiming("evw", u) = {} /\ Aiming("evh", u) = {}
  <2>1. ASSUME NEW s \in Thread, th[s].pc \in {"evw", "evh"}, Head(th[s].left) = u
        PROVE  FALSE
    <3>1. /\ th[s].p \in Proc /\ th[s].left # <<>> /\ th[s].left \in Seq(Thread)
          /\ ToSet(th[s].left) \subseteq ToSet(links[th[s].p])
      BY <1>1, <2>1 DEF Sending, Sends, PsHave, Types, Threads
    <3>2. Head(th[s].left) \in ToSet(th[s].left)
      BY <3>1 DEF ToSet
    <3>3. th[u].pc \notin Gone
      BY <1>1, <2>1, <3>1, <3>2 DEF Linked
    <3>4. QED BY <1>2, <3>3 DEF Gone
  <2>2. QED BY <2>1 DEF Aiming
<1>22. \A v : /\ Aiming("evw", v)' = Aiming("evw", v)
              /\ Aiming("evh", v)' = Aiming("evh", v)
  BY <1>1, <1>9, <1>10, <1>16, AimKept
<1>23. /\ \A v \in Thread \ {u} : evq'[v] = evq[v] /\ evp'[v] = evp[v]
       /\ evq'[u] = NewSema(1) /\ ~ evp'[u]
  BY <1>1, <1>2 DEF Types, Shapes
<1>24. ASSUME NEW v \in Thread PROVE EvSlept(v)' /\ Owned1(v)'
  <2>1. CASE v = u
    <3>1. SleptOn(NewSema(1), Thread, {}) /\ NewSema(1).cnt = 1
      BY NewSlept
    <3>2. th'[u].pc # "dlv"
      BY <1>16
    <3>3. EvSlept(v)'
      BY <1>21, <1>22, <1>23, <2>1, <3>1 DEF EvSlept
    <3>4. Owned1(v)'
      BY <1>21, <1>22, <1>23, <2>1, <3>1, <3>2 DEF Owned1
    <3>5. QED BY <3>3, <3>4
  <2>2. CASE v # u
    <3>1. EvSlept(v) /\ Owned1(v) /\ evq'[v] = evq[v] /\ evp'[v] = evp[v]
      BY <1>1, <1>23, <2>2 DEF EvQueue, EvOwned
    <3>2. th'[v].pc = "dlv" <=> th[v].pc = "dlv"
      <4>1. CASE v \in X
        BY <1>16, <4>1
      <4>2. CASE v \notin X
        <5>1. Passes(v, PsWait) /\ th[v] \in Threads
          BY <1>1, <1>9, <4>2 DEF Rest, Types
        <5>2. QED BY <1>10, <5>1, PassesIs
      <4>3. QED BY <4>1, <4>2
    <3>3. EvSlept(v)'
      BY <1>22, <3>1 DEF EvSlept
    <3>4. Owned1(v)'
      BY <1>2, <1>22, <3>1, <3>2 DEF Owned1
    <3>5. QED BY <3>3, <3>4
  <2>3. QED BY <2>1, <2>2
<1>25. EvQueue' /\ EvOwned'
  BY <1>24 DEF EvQueue, EvOwned
<1>26. Forking'
  <2>1. ASSUME NEW v \in Thread, v \notin X
        PROVE  /\ th'[v].pc = "kr" <=> th[v].pc = "kr"
               /\ th'[v].pc = "new" <=> th[v].pc = "new"
               /\ th'[v].left = th[v].left
    <3>1. Passes(v, PsWait) /\ th[v] \in Threads
      BY <1>1, <1>9, <2>1 DEF Rest, Types
    <3>2. QED BY <1>10, <3>1, PassesIs
  <2>2. th'[t].pc = "kr" /\ Head(th'[t].left) = u /\ th'[t].left # <<>> /\ th'[u].pc = "new"
    BY <1>3, <1>6, <1>9
  <2>3. ASSUME NEW v \in Thread, th'[v].pc = "kr", v # t
        PROVE  /\ v \in AtPc({"kr"}) /\ th'[v].left = th[v].left
               /\ th'[v].left # <<>> /\ Head(th'[v].left) # u
               /\ th'[Head(th'[v].left)].pc = "new"
    <3>1. v \notin X
      BY <2>2, <2>3
    <3>2. v \in AtPc({"kr"}) /\ th'[v].left = th[v].left
      BY <2>1, <2>3, <3>1 DEF AtPc
    <3>3. /\ th[v].left # <<>> /\ th[v].left \in Seq(Thread)
          /\ th[Head(th[v].left)].pc = "new"
      BY <1>1, <3>2 DEF Forking, Types, Threads
    <3>4. Head(th[v].left) \in Thread \ X
      BY <1>2, <3>3
    <3>5. QED BY <2>1, <3>2, <3>3, <3>4
  <2>4. \A v, x \in AtPc({"kr"}) : Head(th[v].left) = Head(th[x].left) => v = x
    BY <1>1 DEF Forking
  <2>5. \A v \in Thread : th'[v].pc = "kr" => th'[v].left # <<>> /\ th'[Head(th'[v].left)].pc = "new"
    BY <2>2, <2>3
  <2>6. ASSUME NEW v \in Thread, NEW x \in Thread, th'[v].pc = "kr", th'[x].pc = "kr",
               Head(th'[v].left) = Head(th'[x].left)
        PROVE  v = x
    BY <2>2, <2>3, <2>4, <2>6
  <2>7. QED BY <2>5, <2>6 DEF Forking, AtPc
<1>27. QED BY <1>9, <1>15, <1>18, <1>19, <1>20, <1>25, <1>26 DEF IInv

(* The new thread runs, and its creator has it in hand no more. *)
LEMMA StartThreadStep ==
    ASSUME IInv, NEW t \in Thread, StartThread(t)
    PROVE  IInv'
<1> DEFINE u == Head(th[t].left)
           y == [User EXCEPT !.pc = "chk"]
           X == {t, u}
<1>1. /\ Types /\ PidQueue /\ PgQueue /\ EvQueue /\ PsMutex /\ EvOwned /\ Sending
      /\ Linked /\ Forking /\ th[t] \in Threads /\ th \in [Thread -> Threads]
  BY DEF IInv, Types
<1>2. /\ th[t].pc = "kr" /\ UNCHANGED <<env, hashed, freed, links, pg, pid, ps, evq, evp, evs>>
  BY DEF StartThread, At, sys
<1>3. th' = [th EXCEPT ![t] = y, ![u].pc = "user"]
  BY DEF StartThread
<1>4. u \in Thread /\ th[u].pc = "new"
  <2>1. t \in AtPc({"kr"}) /\ th[t].left \in Seq(Thread)
    BY <1>1, <1>2 DEF AtPc, Threads
  <2>2. th[t].left # <<>> /\ th[u].pc = "new"
    BY <1>1, <2>1 DEF Forking
  <2>3. QED BY <2>1, <2>2
<1>5. y \in Threads /\ y.pc = "chk" /\ "user" \in Pcs
  BY UserIs DEF Pcs, Others
<1> HIDE DEF y
<1>6. t # u
  BY <1>2, <1>4
<1> HIDE DEF u
<1>7. /\ \A v \in Thread \ X : th'[v] = th[v]
      /\ th'[t] = y /\ th'[u] = [th[u] EXCEPT !.pc = "user"]
      /\ th' = [v \in Thread |-> th'[v]]
  BY <1>1, <1>3, <1>4, <1>6
<1>8. th'[u] \in Threads /\ th'[u].pc = "user" /\ th'[t].pc = "chk"
  BY <1>1, <1>4, <1>5, <1>7 DEF Threads
<1>9. Rest(X, {}) /\ X \subseteq Thread
  BY <1>4, <1>7 DEF Rest, Passes
<1>10. Shapes'
  BY <1>1, <1>2 DEF Types, Shapes
<1>11. Types'
  BY <1>1, <1>5, <1>7, <1>8, <1>9, <1>10, TypesStay
<1>12. \A x \in X :
         /\ th[x].pc \in {"kr", "new"} /\ th'[x].pc \in {"user", "chk"}
         /\ th[x].pc \notin PsWait \cup PsHave \cup PidWait \cup PgWait \cup Gone
         /\ th'[x].pc \notin PsWait \cup PsHave \cup PidWait \cup PgWait \cup Gone
  BY <1>2, <1>4, <1>8 DEF PsWait, PsHave, PidWait, PgWait, Gone
<1>13. AtPc(PidWait)' = AtPc(PidWait) /\ AtPc(PgWait)' = AtPc(PgWait)
  BY <1>1, <1>9, <1>12, SleepKept DEF PidWait, PgWait, Waits
<1>14. PidQueue' /\ PgQueue'
  BY <1>1, <1>2, <1>13 DEF PidQueue, PgQueue
<1>15. PsMutex'
  <2>1. \A x \in X, p \in Proc : StaysPs(x, p)
    BY <1>12 DEF StaysPs
  <2>2. QED BY <1>1, <1>2, <1>9, <2>1, PsStays
<1>16. EvQueue' /\ EvOwned'
  BY <1>1, <1>2, <1>9, <1>12, EvStays
<1>17. Sending'
  <2>1. \A x \in X : Sends(x)'
    BY <1>12 DEF Sends, PsHave
  <2>2. QED BY <1>1, <1>2, <1>9, <2>1, SendsStay
<1>18. Linked'
  BY <1>1, <1>2, <1>9, <1>12, LinksStay
<1>19. Forking'
  <2>1. ASSUME NEW v \in Thread, th'[v].pc = "kr"
        PROVE  /\ v \in AtPc({"kr"}) /\ th'[v] = th[v] /\ th[v].left # <<>>
               /\ th'[Head(th[v].left)].pc = "new"
    <3>1. v \notin X
      BY <1>12, <2>1
    <3>2. th'[v] = th[v] /\ v \in AtPc({"kr"}) /\ v # t
      BY <1>7, <2>1, <3>1 DEF AtPc
    <3>3. t \in AtPc({"kr"}) /\ Head(th[t].left) = u
      BY <1>2 DEF AtPc, u
    <3>4. /\ th[v].left # <<>> /\ th[v].left \in Seq(Thread)
          /\ th[Head(th[v].left)].pc = "new"
      BY <1>1, <3>2 DEF Forking, Types, Threads
    <3>5. Head(th[v].left) # u
      BY <1>1, <3>2, <3>3 DEF Forking
    <3>6. Head(th[v].left) \in Thread \ X
      BY <1>2, <3>4, <3>5
    <3>7. QED BY <1>7, <3>2, <3>4, <3>6
  <2>2. \A v, x \in AtPc({"kr"}) : Head(th[v].left) = Head(th[x].left) => v = x
    BY <1>1 DEF Forking
  <2>3. QED BY <2>1, <2>2 DEF Forking, AtPc
<1>20. QED BY <1>11, <1>14, <1>15, <1>16, <1>17, <1>18, <1>19 DEF IInv

-----------------------------------------------------------------------------
(* The steps that hand t_evq on                                             *)

(* What a step of t alone leaves, between pcs that have to do with t_evq.   *)
LEMMA Hands ==
    ASSUME IInv, NEW t \in Thread, NEW K, K \subseteq {"evw"}, Rest({t}, K),
           th' = [u \in Thread |-> th'[u]], th'[t] \in Threads, Shapes', Sends(t)',
           UNCHANGED <<env, pid, ps, links, pg>>,
           th[t].pc \notin {"kr", "new"} \cup PidWait \cup PgWait \cup Gone,
           th'[t].pc \notin {"kr", "new"} \cup PidWait \cup PgWait \cup Gone,
           \A p \in Proc : StaysPs(t, p), EvQueue', EvOwned'
    PROVE  IInv'
<1>1. Types /\ PidQueue /\ PgQueue /\ PsMutex /\ Sending /\ Linked /\ Forking
  BY DEF IInv
<1>2. /\ K \subseteq Waits /\ K \cap PidWait = {} /\ K \cap PgWait = {} /\ K \cap PsWait = {}
      /\ PidWait \subseteq Waits /\ PgWait \subseteq Waits
  BY DEF PidWait, PgWait, PsWait, Waits
<1>3. Types'
  BY <1>1, <1>2, TypesStay
<1>4. AtPc(PidWait)' = AtPc(PidWait) /\ AtPc(PgWait)' = AtPc(PgWait)
  BY <1>1, <1>2, SleepKept
<1>5. PidQueue' /\ PgQueue'
  BY <1>1, <1>4 DEF PidQueue, PgQueue
<1>6. PsMutex'
  BY <1>1, <1>2, PsStays
<1>7. Sending'
  BY <1>1, <1>2, SendsStay
<1>8. Linked'
  BY <1>1, <1>2, LinksStay
<1>9. Forking'
  BY <1>1, <1>2, ForksStay
<1>10. QED BY <1>3, <1>5, <1>6, <1>7, <1>8, <1>9 DEF IInv

(* The sender takes it, or waits for it. *)
LEMMA WalkStep ==
    ASSUME IInv, NEW t \in Thread, Walk(t)
    PROVE  IInv'
<1> DEFINE u == Head(th[t].left)
           w == IF PSleeps(evq[u]) THEN "evw" ELSE "evh"
<1>1. /\ Types /\ EvQueue /\ EvOwned /\ Sends(t) /\ th[t] \in Threads
      /\ th \in [Thread -> Threads]
  BY DEF IInv, Types, Sending
<1>2. /\ th[t].pc = "walk" /\ th[t].left # <<>> /\ th' = Go(t, w)
      /\ evq' = [evq EXCEPT ![u] = PSema(@, t)]
      /\ UNCHANGED <<env, hashed, freed, links, pg, pid, ps, evp, evs>>
  BY DEF Walk, At, sys, Take
<1>3. u \in Thread
  <2>1. th[t].left \in Seq(Thread)
    BY <1>1 DEF Threads
  <2>2. QED BY <1>2, <2>1
<1>4. w \in Pcs /\ w \in {"evw", "evh"} /\ w = IF PSleeps(evq[u]) THEN "evw" ELSE "evh"
  BY DEF Pcs, PsHave
<1> HIDE DEF w
<1>5. /\ Alone(t) /\ th'[t] \in Threads /\ th'[t].pc = w /\ th'[t].p = th[t].p
      /\ th'[t].left = th[t].left
  BY <1>1, <1>2, <1>4, Goes
<1>6. Head(th'[t].left) = u
  BY <1>5
<1> HIDE DEF u
<1>7. Rest({t}, {})
  BY <1>5 DEF Alone, Rest, Passes
<1>8. Shapes'
  BY <1>1, <1>2 DEF Types, Shapes
<1>9. Sends(t)'
  BY <1>1, <1>2, <1>4, <1>5 DEF Sends, PsHave
<1>10. \A p \in Proc : StaysPs(t, p)
  BY <1>2, <1>4, <1>5, Keeps DEF PsHave
<1>11. \A v \in Thread \ {t} : th'[v] = th[v]
  BY <1>5 DEF Alone
<1>12. ASSUME NEW v
       PROVE  /\ Aiming("evw", v)' = IF v = u /\ w = "evw" THEN Aiming("evw", v) \cup {t}
                                     ELSE Aiming("evw", v)
              /\ Aiming("evh", v)' = IF v = u /\ w = "evh" THEN Aiming("evh", v) \cup {t}
                                     ELSE Aiming("evh", v)
  <2>1. t \notin Aiming("evw", v) /\ t \notin Aiming("evh", v)
    BY <1>2 DEF Aiming
  <2>2. QED BY <1>5, <1>6, <1>11, <2>1 DEF Aiming
<1>13. \A v \in Thread : evq'[v] = IF v = u THEN PSema(evq[u], t) ELSE evq[v]
  BY <1>1, <1>2 DEF Types, Shapes
<1>14. /\ PSema(evq[u], t).cnt = evq[u].cnt - 1 /\ evq[u].cnt \in Int
       /\ PSleeps(evq[u]) => /\ evq[u].cnt <= 0
                             /\ SleptOn(PSema(evq[u], t), Thread, Aiming("evw", u) \cup {t})
       /\ ~ PSleeps(evq[u]) => /\ evq[u].cnt > 0 /\ Aiming("evw", u) = {}
                               /\ SleptOn(PSema(evq[u], t), Thread, {})
  <2>1. SleptOn(evq[u], Thread, Aiming("evw", u)) /\ t \notin Aiming("evw", u)
    BY <1>1, <1>2, <1>3 DEF EvQueue, EvSlept, Aiming
  <2>2. QED BY <2>1, SleptAsk
<1>15. ASSUME NEW v \in Thread PROVE EvSlept(v)'
  BY <1>1, <1>4, <1>12, <1>13, <1>14 DEF EvQueue, EvSlept
<1>16. ASSUME NEW v \in Thread PROVE Owned1(v)'
  <2>1. Owned1(v) /\ (th'[v].pc = "dlv" <=> th[v].pc = "dlv") /\ evp' = evp /\ env' = env
    BY <1>1, <1>2, <1>4, <1>5, <1>11 DEF EvOwned
  <2>2. CASE v # u
    BY <1>12, <1>13, <2>1, <2>2 DEF Owned1
  <2>3. CASE v = u /\ PSleeps(evq[u])
    <3>1. /\ Aiming("evh", v)' = Aiming("evh", v) /\ evq[v].cnt \in Int
          /\ evq[v].cnt <= 0 /\ evq'[v].cnt = evq[v].cnt - 1
      BY <1>4, <1>12, <1>13, <1>14, <2>3
    <3>2. evq'[v].cnt <= 0 /\ evq'[v].cnt <= 1 /\ evq[v].cnt # 1
      BY <3>1
    <3>3. QED BY <2>1, <3>1, <3>2 DEF Owned1
  <2>4. CASE v = u /\ ~ PSleeps(evq[u])
    <3>1. evq[v].cnt \in Int /\ evq[v].cnt > 0 /\ evq'[v].cnt = evq[v].cnt - 1
      BY <1>13, <1>14, <2>4
    <3>2. evq[v].cnt <= 1 /\ ~ (evq[v].cnt <= 0)
      BY <2>1, <3>1 DEF Owned1
    <3>3. Aiming("evh", v) = {} /\ ~ evp[v] /\ th[v].pc # "dlv"
      BY <2>1, <3>2 DEF Owned1
    <3>4. Aiming("evh", v)' = {t}
      BY <1>4, <1>12, <2>4, <3>3
    <3>5. evq'[v].cnt <= 0 /\ evq'[v].cnt <= 1
      BY <3>1, <3>2
    <3>6. QED BY <2>1, <3>3, <3>4, <3>5 DEF Owned1
  <2>5. QED BY <2>2, <2>3, <2>4
<1>17. /\ th[t].pc \notin {"kr", "new"} \cup PidWait \cup PgWait \cup Gone
       /\ th'[t].pc \notin {"kr", "new"} \cup PidWait \cup PgWait \cup Gone
  BY <1>2, <1>4, <1>5 DEF PidWait, PgWait, Gone
<1>18. EvQueue' /\ EvOwned' /\ th' = [v \in Thread |-> th'[v]]
  BY <1>5, <1>15, <1>16 DEF EvQueue, EvOwned, Alone
<1>19. QED BY <1>2, <1>5, <1>7, <1>8, <1>9, <1>10, <1>17, <1>18, Hands

(* The thread takes the event in t_evproc, to deliver it or to die of it. *)
LEMMA CheckProcStep ==
    ASSUME IInv, NEW t \in Thread, CheckProc(t)
    PROVE  IInv'
<1>1. /\ Types /\ EvQueue /\ EvOwned /\ Sends(t) /\ th[t] \in Threads
      /\ th \in [Thread -> Threads]
  BY DEF IInv, Types, Sending
<1>2. /\ th[t].pc = "chk" /\ evp[t] /\ evp' = [evp EXCEPT ![t] = FALSE]
      /\ UNCHANGED <<env, hashed, freed, links, pg, pid, ps, evq, evs>>
  BY DEF CheckProc, At, sys
<1>3. PICK w \in {"dlv", "exit"} : th' = Go(t, w) /\ (w = "exit" => env.exit)
  BY DEF CheckProc, Fates
<1>4. w \in Pcs
  BY DEF Pcs, Others
<1>5. Alone(t) /\ th'[t] \in Threads /\ th'[t].pc = w
  BY <1>1, <1>3, <1>4, Goes
<1>6. Rest({t}, {}) /\ th' = [v \in Thread |-> th'[v]]
  BY <1>5 DEF Alone, Rest, Passes
<1>7. Shapes' /\ Sends(t)'
  BY <1>1, <1>2, <1>5 DEF Types, Shapes, Sends, PsHave
<1>8. /\ th[t].pc \notin {"kr", "new"} \cup PidWait \cup PgWait \cup Gone \cup PsWait \cup PsHave
      /\ th'[t].pc \notin {"kr", "new"} \cup PidWait \cup PgWait \cup Gone \cup PsWait \cup PsHave
  BY <1>2, <1>5 DEF PidWait, PgWait, Gone, PsWait, PsHave
<1>9. \A p \in Proc : StaysPs(t, p)
  BY <1>2, <1>8, Keeps
<1>10. \A v : /\ Aiming("evw", v)' = Aiming("evw", v)
              /\ Aiming("evh", v)' = Aiming("evh", v)
  BY <1>1, <1>2, <1>5, <1>6, AimKept
<1>11. ASSUME NEW v \in Thread PROVE EvSlept(v)'
  BY <1>1, <1>2, <1>10 DEF EvQueue, EvSlept
<1>12. ASSUME NEW v \in Thread PROVE Owned1(v)'
  <2>1. /\ Owned1(v) /\ evq' = evq /\ env' = env
        /\ evp'[v] = IF v = t THEN FALSE ELSE evp[v]
    BY <1>1, <1>2 DEF EvOwned, Types, Shapes
  <2>2. CASE v # t
    <3>1. evp'[v] = evp[v] /\ th'[v] = th[v]
      BY <1>5, <2>1, <2>2 DEF Alone
    <3>2. QED BY <1>10, <2>1, <3>1 DEF Owned1
  <2>3. CASE v = t
    <3>1. Aiming("evh", v) = {} /\ evq[v].cnt <= 0 /\ evq[v].cnt <= 1 /\ ~ evp'[v]
      BY <1>2, <2>1, <2>3 DEF Owned1
    <3>2. Aiming("evh", v)' = {}
      BY <1>10, <3>1
    <3>3. QED BY <1>3, <1>5, <2>1, <2>3, <3>1, <3>2 DEF Owned1
  <2>4. QED BY <2>2, <2>3
<1>13. EvQueue' /\ EvOwned'
  BY <1>11, <1>12 DEF EvQueue, EvOwned
<1>14. QED BY <1>2, <1>5, <1>6, <1>7, <1>8, <1>9, <1>13, Hands

(* The handler returns: the next sender has it. *)
LEMMA DeliveredStep ==
    ASSUME IInv, NEW t \in Thread, Delivered(t)
    PROVE  IInv'
<1> DEFINE g == Go(t, "user")
           L == Aiming("evw", t)
           W == VWakes(evq[t])
<1>1. /\ Types /\ EvQueue /\ EvOwned /\ th[t] \in Threads /\ th \in [Thread -> Threads]
  BY DEF IInv, Types
<1>2. /\ th[t].pc = "dlv" /\ th' = Wake(g, evq[t]) /\ evq' = [evq EXCEPT ![t] = VSema(@)]
      /\ UNCHANGED <<env, hashed, freed, links, pg, pid, ps, evp, evs>>
  BY DEF Delivered, At, sys
<1>3. /\ \A u \in Thread \ {t} : g[u] = th[u]
      /\ g[t] = [th[t] EXCEPT !.pc = "user"] /\ "user" \in Pcs
  BY <1>1 DEF Go, Pcs, Others
<1>4. g[t] \in Threads /\ g[t].pc = "user"
  BY <1>1, <1>3 DEF Threads
<1> HIDE DEF g
<1>5. /\ VSema(evq[t]).cnt = evq[t].cnt + 1 /\ evq[t].cnt \in Int
      /\ W \subseteq L
      /\ SleptOn(VSema(evq[t]), Thread, L \ W)
      /\ W = {} => L = {} /\ evq[t].cnt >= 0
      /\ W # {} => evq[t].cnt < 0 /\ \E s \in L : W = {s}
  BY <1>1, SleptGive DEF EvQueue, EvSlept
<1>6. /\ \A u \in Thread : th'[u] = IF u \in W THEN [g[u] EXCEPT !.pc = WakeTo[@]] ELSE g[u]
      /\ th' = [u \in Thread |-> th'[u]]
  BY <1>2, WakeIs DEF Awake
<1>7. t \notin W
  BY <1>2, <1>5 DEF Aiming
<1>8. th'[t] = g[t]
  BY <1>6, <1>7
<1>9. ASSUME NEW s \in W
      PROVE  /\ s \in Thread \ {t} /\ th[s].pc = "evw" /\ Head(th[s].left) = t
             /\ th'[s] = [th[s] EXCEPT !.pc = WakeTo[@]]
             /\ th'[s].pc = "evh" /\ th'[s].left = th[s].left
  <2>1. s \in Thread \ {t} /\ th[s].pc = "evw" /\ Head(th[s].left) = t
    BY <1>5, <1>7 DEF Aiming
  <2>2. th'[s] = [th[s] EXCEPT !.pc = WakeTo[@]] /\ th[s] \in Threads
    BY <1>1, <1>3, <1>6, <2>1
  <2>3. th'[s].pc = WakeTo["evw"] /\ th'[s].left = th[s].left
    BY <2>1, <2>2 DEF Threads
  <2>4. QED BY <2>1, <2>2, <2>3 DEF WakeTo
<1>10. \A s \in Thread \ {t} : s \notin W => th'[s] = th[s]
  BY <1>3, <1>6
<1> HIDE DEF W
<1>11. Rest({t}, {"evw"})
  BY <1>9, <1>10 DEF Rest, Passes
<1>12. Shapes' /\ Sends(t)'
  BY <1>1, <1>2, <1>4, <1>8 DEF Types, Shapes, Sends, PsHave
<1>13. /\ th[t].pc \notin {"kr", "new"} \cup PidWait \cup PgWait \cup Gone \cup PsWait \cup PsHave
       /\ th'[t].pc \notin {"kr", "new"} \cup PidWait \cup PgWait \cup Gone \cup PsWait \cup PsHave
  BY <1>2, <1>4, <1>8 DEF PidWait, PgWait, Gone, PsWait, PsHave
<1>14. \A p \in Proc : StaysPs(t, p)
  BY <1>2, <1>13, Keeps
<1>15. ASSUME NEW v
       PROVE  /\ Aiming("evw", v)' = IF v = t THEN L \ W ELSE Aiming("evw", v)
              /\ Aiming("evh", v)' = IF v = t THEN Aiming("evh", t) \cup W
                                     ELSE Aiming("evh", v)
  <2>1. ASSUME NEW s \in Thread
        PROVE  /\ s \in Aiming("evw", v)' <=> s \in Aiming("evw", v) /\ s \notin W
               /\ s \in Aiming("evh", v)' <=> s \in Aiming("evh", v) \/ (s \in W /\ v = t)
    <3>1. CASE s = t
      BY <1>2, <1>4, <1>7, <1>8, <3>1 DEF Aiming
    <3>2. CASE s \in W
      BY <1>9, <3>2 DEF Aiming
    <3>3. CASE s # t /\ s \notin W
      BY <1>10, <3>3 DEF Aiming
    <3>4. QED BY <3>1, <3>2, <3>3
  <2>2. v # t => \A s \in Aiming("evw", v) : s \notin W
    BY <1>9 DEF Aiming
  <2>3. /\ Aiming("evw", v) \subseteq Thread /\ Aiming("evw", v)' \subseteq Thread
        /\ Aiming("evh", v) \subseteq Thread /\ Aiming("evh", v)' \subseteq Thread
        /\ W \subseteq Thread
    BY <1>9 DEF Aiming
  <2>4. Aiming("evw", v)' = IF v = t THEN L \ W ELSE Aiming("evw", v)
    BY <2>1, <2>2, <2>3
  <2>5. Aiming("evh", v)' = IF v = t THEN Aiming("evh", t) \cup W ELSE Aiming("evh", v)
    BY <2>1, <2>3
  <2>6. QED BY <2>4, <2>5
<1>16. \A v \in Thread : evq'[v] = IF v = t THEN VSema(evq[t]) ELSE evq[v]
  BY <1>1, <1>2 DEF Types, Shapes
<1>17. ASSUME NEW v \in Thread PROVE EvSlept(v)'
  BY <1>1, <1>5, <1>15, <1>16 DEF EvQueue, EvSlept
<1>18. ASSUME NEW v \in Thread PROVE Owned1(v)'
  <2>1. Owned1(v) /\ evp' = evp /\ env' = env
    BY <1>1, <1>2 DEF EvOwned
  <2>2. CASE v # t
    <3>1. /\ Aiming("evh", v)' = Aiming("evh", v) /\ evq'[v] = evq[v]
      BY <1>15, <1>16, <2>2
    <3>2. th'[v].pc = "dlv" <=> th[v].pc = "dlv"
      BY <1>9, <1>10, <2>2
    <3>3. QED BY <2>1, <3>1, <3>2 DEF Owned1
  <2>3. CASE v = t
    <3>1. Aiming("evh", v) = {} /\ ~ evp[v] /\ evq[v].cnt <= 0
      BY <1>2, <2>1, <2>3 DEF Owned1
    <3>2. Aiming("evh", v)' = W /\ evq'[v].cnt = evq[v].cnt + 1 /\ evq[v].cnt \in Int
      BY <1>5, <1>15, <1>16, <2>3, <3>1
    <3>3. th'[v].pc # "dlv"
      BY <1>4, <1>8, <2>3
    <3>4. CASE W = {}
      <4>1. evq'[v].cnt = 1
        BY <1>5, <2>3, <3>1, <3>2, <3>4
      <4>2. QED BY <2>1, <3>1, <3>2, <3>3, <3>4, <4>1 DEF Owned1
    <3>5. CASE W # {}
      <4>1. evq'[v].cnt <= 0 /\ evq'[v].cnt <= 1 /\ \A r, s \in W : r = s
        BY <1>5, <2>3, <3>2, <3>5
      <4>2. QED BY <2>1, <3>1, <3>2, <3>3, <3>5, <4>1 DEF Owned1
    <3>6. QED BY <3>4, <3>5
  <2>4. QED BY <2>2, <2>3
<1>19. EvQueue' /\ EvOwned'
  BY <1>17, <1>18 DEF EvQueue, EvOwned
<1>20. QED BY <1>2, <1>4, <1>6, <1>8, <1>11, <1>12, <1>13, <1>14, <1>19, Hands

(* The sender t hands the t_evq of u to the event.  It may wake u, then X   *)
(* is {t, u}, and one sleeper may give up on some t_evq.                    *)
LEMMA PostHands ==
    ASSUME IInv, NEW t \in Thread, NEW u \in Thread, th[t].pc = "evh", Head(th[t].left) = u,
           NEW X, t \in X, X \subseteq Thread, Rest(X, {}),
           th' = [v \in Thread |-> th'[v]],
           th'[t] = [th[t] EXCEPT !.pc = "walk", !.left = Tail(th[t].left)],
           \A x \in X \ {t} : /\ th[x].pc \in {"evw", "slo"} /\ th'[x].pc \in {"out", "chk"}
                              /\ th'[x] \in Threads /\ Sends(x)',
           UNCHANGED <<env, pid, links, pg>>, evp' = [evp EXCEPT ![u] = TRUE], Shapes',
           \A v \in Thread : \/ evq'[v].cnt = evq[v].cnt
                             \/ evq[v].cnt < 0 /\ evq'[v].cnt = evq[v].cnt + 1
    PROVE  /\ Types' /\ PidQueue' /\ PgQueue' /\ EvOwned' /\ Sending' /\ Linked' /\ Forking'
           /\ \A v : Aiming("evw", v)' = Aiming("evw", v) \ X
           /\ \A p \in Proc : StaysPs(t, p)
<1>1. /\ Types /\ PidQueue /\ PgQueue /\ EvQueue /\ EvOwned /\ Sending /\ Linked
      /\ Forking /\ th[t] \in Threads
  BY DEF IInv, Types
<1>2. /\ th[t].p \in Proc /\ th[t].left # <<>> /\ th[t].left \in Seq(Thread)
      /\ ToSet(th[t].left) \subseteq ToSet(links[th[t].p])
  BY <1>1 DEF Sending, Sends, PsHave, Threads
<1>3. Tail(th[t].left) \in Seq(Thread) /\ ToSet(Tail(th[t].left)) \subseteq ToSet(th[t].left)
  <2> DEFINE q == th[t].left
             n == Len(q)
  <2>1. /\ Tail(q) \in Seq(Thread) /\ n \in Nat \ {0} /\ Len(Tail(q)) = n - 1
        /\ \A i \in 1 .. n - 1 : Tail(q)[i] = q[i + 1]
    BY <1>2, TailShape
  <2>2. DOMAIN q = 1 .. n /\ DOMAIN Tail(q) = 1 .. n - 1
    BY <1>2, <2>1
  <2>3. \A i \in DOMAIN Tail(q) : i + 1 \in DOMAIN q /\ Tail(q)[i] = q[i + 1]
    BY <2>1, <2>2
  <2> HIDE DEF q, n
  <2>4. ToSet(Tail(q)) \subseteq ToSet(q)
    BY <2>3 DEF ToSet
  <2>5. QED BY <2>1, <2>4 DEF q
<1>4. /\ th'[t] \in Threads /\ th'[t].pc = "walk" /\ th'[t].p = th[t].p
      /\ th'[t].left = Tail(th[t].left)
  <2>1. "walk" \in Pcs
    BY DEF Pcs, PsHave
  <2>2. QED BY <1>1, <1>3, <2>1 DEF Threads
<1>5. Types'
  BY <1>1, <1>4, TypesStay
<1>6. \A x \in X :
        /\ th[x].pc \notin {"kr", "new"} \cup PidWait \cup PgWait \cup Gone
        /\ th'[x].pc \notin {"kr", "new"} \cup PidWait \cup PgWait \cup Gone
  BY <1>4 DEF PidWait, PgWait, Gone
<1>7. AtPc(PidWait)' = AtPc(PidWait) /\ AtPc(PgWait)' = AtPc(PgWait)
  BY <1>1, <1>6, SleepKept DEF PidWait, PgWait, Waits
<1>8. PidQueue' /\ PgQueue'
  BY <1>1, <1>7 DEF PidQueue, PgQueue
<1>9. Sending'
  <2>1. Sends(t)'
    BY <1>2, <1>3, <1>4 DEF Sends
  <2>2. \A x \in X : Sends(x)'
    BY <2>1
  <2>3. QED BY <1>1, <2>2, SendsStay
<1>10. Linked'
  BY <1>1, <1>6, LinksStay
<1>11. Forking'
  BY <1>1, <1>6, ForksStay
<1>12. \A p \in Proc : StaysPs(t, p)
  BY <1>4, Keeps DEF PsHave
<1>13. \A s \in Thread \ X : th'[s] = th[s]
  BY DEF Rest, Passes
<1>14. ASSUME NEW v
       PROVE  /\ Aiming("evw", v)' = Aiming("evw", v) \ X
              /\ Aiming("evh", v)' = Aiming("evh", v) \ {t}
  <2>1. ASSUME NEW s \in Thread
        PROVE  /\ s \in Aiming("evw", v)' <=> s \in Aiming("evw", v) /\ s \notin X
               /\ s \in Aiming("evh", v)' <=> s \in Aiming("evh", v) /\ s # t
    <3>1. CASE s = t
      BY <1>4, <3>1 DEF Aiming
    <3>2. CASE s \in X \ {t}
      BY <3>2 DEF Aiming
    <3>3. CASE s \notin X
      BY <1>13, <3>3 DEF Aiming
    <3>4. QED BY <3>1, <3>2, <3>3
  <2>2. /\ Aiming("evw", v) \subseteq Thread /\ Aiming("evw", v)' \subseteq Thread
        /\ Aiming("evh", v) \subseteq Thread /\ Aiming("evh", v)' \subseteq Thread
    BY DEF Aiming
  <2>3. QED BY <2>1, <2>2
<1>15. t \in Aiming("evh", u)
  BY DEF Aiming
<1>16. ASSUME NEW v \in Thread PROVE Owned1(v)'
  <2>1. /\ Owned1(v) /\ evp'[v] = IF v = u THEN TRUE ELSE evp[v]
        /\ env' = env
    BY <1>1 DEF EvOwned, Types, Shapes
  <2>2. th'[v].pc = "dlv" <=> th[v].pc = "dlv"
    BY <1>4, <1>13
  <2>3. evq[v].cnt \in Int
    BY <1>1 DEF EvQueue, EvSlept, SleptOn, SemaType
  <2>4. Owned1(v) /\ env' = env
    BY <2>1
  <2>5. CASE v = u
    <3>1. Aiming("evh", v) = {t} /\ th[v].pc # "dlv" /\ evq[v].cnt <= 0
      BY <1>15, <2>1, <2>5 DEF Owned1
    <3>2. Aiming("evh", v)' = {}
      BY <1>14, <3>1
    <3>3. evq'[v].cnt <= 0 /\ evq'[v].cnt <= 1
      BY <2>3, <3>1
    <3>4. QED BY <2>1, <2>2, <2>5, <3>1, <3>2, <3>3 DEF Owned1
  <2>6. CASE v # u
    <3>1. t \notin Aiming("evh", v)
      BY <2>6 DEF Aiming
    <3>2. Aiming("evh", v)' = Aiming("evh", v) /\ evp'[v] = evp[v]
      <4>1. Aiming("evh", v)' = Aiming("evh", v) \ {t}
        BY <1>14
      <4>2. Aiming("evh", v) \ {t} = Aiming("evh", v)
        BY <3>1
      <4>3. evp'[v] = evp[v]
        BY <2>1, <2>6
      <4>4. QED BY <4>1, <4>2, <4>3
    <3>3. CASE evq'[v].cnt = evq[v].cnt
      BY <2>4, <2>2, <3>2, <3>3 DEF Owned1
    <3>4. CASE evq[v].cnt < 0 /\ evq'[v].cnt = evq[v].cnt + 1
      <4>1. evq[v].cnt # 1 /\ evq'[v].cnt <= 0 /\ evq'[v].cnt <= 1
        BY <2>3, <3>4
      <4>2. ~ (Aiming("evh", v) # {} \/ evp[v] \/ th[v].pc = "dlv") => env.exit
        BY <2>4, <4>1 DEF Owned1
      <4>3. /\ \A r, s \in Aiming("evh", v) : r = s
            /\ evp[v] \/ th[v].pc = "dlv" => Aiming("evh", v) = {}
            /\ ~ (evp[v] /\ th[v].pc = "dlv")
        BY <2>4 DEF Owned1
      <4>4. /\ \A r, s \in Aiming("evh", v)' : r = s
            /\ evp'[v] \/ th'[v].pc = "dlv" => Aiming("evh", v)' = {}
            /\ ~ (evp'[v] /\ th'[v].pc = "dlv")
        BY <2>2, <3>2, <4>3
      <4>5. IF Aiming("evh", v)' # {} \/ evp'[v] \/ th'[v].pc = "dlv"
            THEN evq'[v].cnt <= 0 ELSE ~ env'.exit => evq'[v].cnt = 1
        BY <2>2, <2>4, <3>2, <4>1, <4>2
      <4>6. QED BY <4>1, <4>4, <4>5 DEF Owned1
    <3>5. QED BY <3>3, <3>4
  <2>7. QED BY <2>5, <2>6
<1>17. EvOwned'
  BY <1>16 DEF EvOwned
<1>18. QED BY <1>5, <1>8, <1>9, <1>10, <1>11, <1>12, <1>14, <1>17

(* A step that changes nothing but the assertion that failed.               *)
LEMMA Same ==
    ASSUME IInv, UNCHANGED <<env, pid, hashed, freed, ps, links, pg, evq, evp, evs, th>>
    PROVE  IInv'
<1>1. Types'
  BY DEF IInv, Types, Shapes
<1>2. PidQueue' /\ PgQueue'
  BY DEF IInv, PidQueue, PgQueue, AtPc
<1>3. EvQueue'
  BY DEF IInv, EvQueue, EvSlept, Aiming
<1>4. PsMutex'
  BY DEF IInv, PsMutex, PsHeld, AtPs, PsOf, Own
<1>5. EvOwned'
  BY DEF IInv, EvOwned, Owned1, Aiming
<1>6. Sending'
  BY DEF IInv, Sending, Sends
<1>7. Linked'
  BY DEF IInv, Linked, Own
<1>8. Forking'
  BY DEF IInv, Forking, AtPc
<1>9. QED BY <1>1, <1>2, <1>3, <1>4, <1>5, <1>6, <1>7, <1>8 DEF IInv

LEMMA PostTo ==
    ASSUME IInv, NEW t \in Thread, Post(t), NEW u \in Thread, u = Head(th[t].left)
    PROVE  IInv'
<1> DEFINE done == [th EXCEPT ![t].pc = "walk", ![t].left = Tail(@)]
           x == th[u]
<1>1. /\ Types /\ EvQueue /\ PsMutex /\ EvOwned /\ Sending /\ th[t] \in Threads
      /\ th \in [Thread -> Threads]
  BY DEF IInv, Types
<1>2. /\ th[t].pc = "evh" /\ evp' = [evp EXCEPT ![u] = th[u].pc # "new" \/ @]
      /\ UNCHANGED <<env, hashed, freed, links, pg, pid, evs>>
  BY DEF Post, At, sys
<1>3. u \in Thread
  OBVIOUS
<1>4. /\ \A v \in Thread \ {t} : done[v] = th[v]
      /\ done[t] = [th[t] EXCEPT !.pc = "walk", !.left = Tail(th[t].left)]
      /\ done = [v \in Thread |-> done[v]]
  BY <1>1
<1>5. x \in Threads /\ Sends(u)
  BY <1>1, <1>3 DEF Sending
<1>6. th[u].pc # "new" => evp' = [evp EXCEPT ![u] = TRUE]
  BY <1>2
<1>7. CASE x.pc = "evw"
  <2> DEFINE w == Head(x.left)
             X == {t, u}
  <2>1. /\ evq' = [evq EXCEPT ![w] = DqSema(@, u)] /\ th' = [done EXCEPT ![u].pc = "out"]
        /\ ps' = ps
    BY <1>7 DEF Post
  <2>2. w \in Thread /\ x.p \in Proc
    <3>1. x.left # <<>> /\ x.left \in Seq(Thread) /\ x.p \in Proc
      BY <1>5, <1>7 DEF Sends, Threads, PsHave
    <3>2. QED BY <3>1
  <2>3. u # t
    BY <1>2, <1>7
  <2> HIDE DEF done
  <2>4. /\ \A v \in Thread \ X : th'[v] = th[v]
        /\ th'[t] = [th[t] EXCEPT !.pc = "walk", !.left = Tail(th[t].left)]
        /\ th'[u] = [th[u] EXCEPT !.pc = "out"]
        /\ th' = [v \in Thread |-> th'[v]]
    BY <1>3, <1>4, <2>1, <2>3
  <2>5. "out" \in Pcs
    BY DEF Pcs, PsHave
  <2> HIDE DEF w
  <2>6. th'[u] \in Threads /\ th'[u].pc = "out" /\ th'[u].p = x.p
    BY <1>5, <2>4, <2>5 DEF Threads
  <2>7. Sends(u)'
    BY <2>2, <2>6 DEF Sends, PsHave
  <2>8. Shapes'
    BY <1>1, <1>2, <1>6, <1>7, <2>1 DEF Types, Shapes
  <2>9. \A v \in Thread : evq'[v] = IF v = w THEN DqSema(evq[w], u) ELSE evq[v]
    BY <1>1, <2>1 DEF Types, Shapes
  <2>10. u \in Aiming("evw", w) /\ SleptOn(evq[w], Thread, Aiming("evw", w))
    BY <1>1, <1>3, <1>7, <2>2 DEF Aiming, EvQueue, EvSlept, w
  <2>11. /\ SleptOn(DqSema(evq[w], u), Thread, Aiming("evw", w) \ {u})
         /\ DqSema(evq[w], u).cnt = evq[w].cnt + 1 /\ evq[w].cnt < 0 /\ evq[w].cnt \in Int
    BY <2>10, SleptLeave
  <2>12. \A v \in Thread : \/ evq'[v].cnt = evq[v].cnt
                           \/ evq[v].cnt < 0 /\ evq'[v].cnt = evq[v].cnt + 1
    BY <2>9, <2>11
  <2>13. /\ Rest(X, {}) /\ t \in X /\ X \subseteq Thread
         /\ \A y \in X \ {t} : /\ th[y].pc \in {"evw", "slo"} /\ th'[y].pc \in {"out", "chk"}
                               /\ th'[y] \in Threads /\ Sends(y)'
    BY <1>3, <1>7, <2>4, <2>6, <2>7 DEF Rest, Passes
  <2>14. /\ Types' /\ PidQueue' /\ PgQueue' /\ EvOwned' /\ Sending' /\ Linked' /\ Forking'
         /\ \A v : Aiming("evw", v)' = Aiming("evw", v) \ X
         /\ \A p \in Proc : StaysPs(t, p)
    <3>1. Head(th[t].left) = u /\ evp' = [evp EXCEPT ![u] = TRUE]
      BY <1>6, <1>7
    <3> HIDE DEF X
    <3>2. QED BY <1>2, <1>3, <2>4, <2>8, <2>12, <2>13, <3>1, PostHands
  <2>15. ASSUME NEW v \in Thread PROVE EvSlept(v)'
    <3>1. t \notin Aiming("evw", v)
      BY <1>2 DEF Aiming
    <3>2. CASE v = w
      <4>1. Aiming("evw", v)' = Aiming("evw", w) \ {u}
        BY <2>14, <3>1, <3>2
      <4>2. QED BY <2>9, <2>11, <3>2, <4>1 DEF EvSlept
    <3>3. CASE v # w
      <4>1. u \notin Aiming("evw", v)
        BY <3>3 DEF Aiming, w
      <4>2. Aiming("evw", v)' = Aiming("evw", v)
        BY <2>14, <3>1, <4>1
      <4>3. QED BY <1>1, <2>9, <3>3, <4>2 DEF EvSlept, EvQueue
    <3>4. QED BY <3>2, <3>3
  <2>16. EvQueue'
    BY <2>15 DEF EvQueue
  <2>17. PsMutex'
    <3>1. \A p \in Proc : StaysPs(u, p)
      BY <1>2, <1>3, <1>7, <2>6, Keeps DEF PsHave
    <3>2. \A y \in X, p \in Proc : StaysPs(y, p)
      BY <2>14, <3>1
    <3>3. QED BY <1>1, <1>2, <2>1, <2>13, <3>2, PsStays
  <2>18. QED BY <2>14, <2>16, <2>17 DEF IInv
<1>8. CASE x.pc = "slo"
  <2> DEFINE y == [User EXCEPT !.pc = "chk"]
             X == {t, u}
             p == x.p
  <2>1. /\ PsSet(p, DqSema(ps[p], u)) /\ th' = [done EXCEPT ![u] = y] /\ evq' = evq
    BY <1>8 DEF Post, PsSet
  <2>2. p \in Proc /\ PsOf(u) = p /\ th[u].pc \in PsWait
    BY <1>5, <1>8 DEF Sends, PsOf, PsWait
  <2>3. u # t
    BY <1>2, <1>8
  <2>4. y \in Threads /\ y.pc = "chk"
    BY UserIs DEF Pcs, Others
  <2> HIDE DEF done, y
  <2>5. /\ \A v \in Thread \ X : th'[v] = th[v]
        /\ th'[t] = [th[t] EXCEPT !.pc = "walk", !.left = Tail(th[t].left)]
        /\ th'[u] = y
        /\ th' = [v \in Thread |-> th'[v]]
    BY <1>3, <1>4, <2>1, <2>3
  <2> HIDE DEF p
  <2>6. Sends(u)'
    BY <2>4, <2>5 DEF Sends, PsHave
  <2>7. Shapes'
    BY <1>1, <1>2, <1>6, <1>8, <2>1 DEF Types, Shapes, PsSet
  <2>8. /\ Rest(X, {}) /\ t \in X /\ X \subseteq Thread
        /\ \A z \in X \ {t} : /\ th[z].pc \in {"evw", "slo"} /\ th'[z].pc \in {"out", "chk"}
                              /\ th'[z] \in Threads /\ Sends(z)'
    BY <1>3, <1>8, <2>4, <2>5, <2>6 DEF Rest, Passes
  <2>9. /\ Types' /\ PidQueue' /\ PgQueue' /\ EvOwned' /\ Sending' /\ Linked' /\ Forking'
        /\ \A v : Aiming("evw", v)' = Aiming("evw", v) \ X
        /\ \A q \in Proc : StaysPs(t, q)
    <3>1. Head(th[t].left) = u /\ evp' = [evp EXCEPT ![u] = TRUE]
      BY <1>6, <1>8
    <3>2. \A v \in Thread : \/ evq'[v].cnt = evq[v].cnt
                            \/ evq[v].cnt < 0 /\ evq'[v].cnt = evq[v].cnt + 1
      BY <2>1
    <3> HIDE DEF X
    <3>3. QED BY <1>2, <1>3, <2>5, <2>7, <2>8, <3>1, <3>2, PostHands
  <2>10. ASSUME NEW v PROVE Aiming("evw", v)' = Aiming("evw", v)
    BY <1>2, <1>8, <2>9 DEF Aiming
  <2>11. EvQueue'
    BY <1>1, <2>1, <2>10 DEF EvQueue, EvSlept
  <2>12. PsMutex'
    <3>1. th'[u].pc \notin PsWait \cup PsHave
      BY <2>4, <2>5 DEF PsWait, PsHave
    <3>2. QED BY <1>1, <1>2, <1>3, <2>1, <2>2, <2>3, <2>8, <2>9, <3>1, PsLeave
  <2>13. QED BY <2>9, <2>11, <2>12 DEF IInv
<1>9. CASE x.pc = "new"
  <2>1. UNCHANGED <<th, ps, evq>>
    BY <1>9 DEF Post
  <2>2. evp' = evp
    <3>1. evp \in [Thread -> BOOLEAN]
      BY <1>1 DEF Types, Shapes
    <3>2. (x.pc # "new" \/ evp[u]) = evp[u]
      BY <1>9, <3>1
    <3>3. evp' = [evp EXCEPT ![u] = evp[u]]
      BY <1>2, <3>2
    <3>4. QED BY <3>1, <3>3
  <2>3. QED BY <1>2, <2>1, <2>2, Same
<1>10. CASE x.pc \notin {"evw", "slo", "new"}
  <2> DEFINE X == {t}
  <2>1. th' = done /\ UNCHANGED <<ps, evq>>
    BY <1>10 DEF Post
  <2> HIDE DEF done
  <2>2. /\ \A v \in Thread \ X : th'[v] = th[v]
        /\ th'[t] = [th[t] EXCEPT !.pc = "walk", !.left = Tail(th[t].left)]
        /\ th' = [v \in Thread |-> th'[v]]
    BY <1>4, <2>1
  <2>3. Shapes'
    BY <1>1, <1>2, <1>6, <1>10, <2>1 DEF Types, Shapes
  <2>4. /\ Rest(X, {}) /\ t \in X /\ X \subseteq Thread
        /\ \A z \in X \ {t} : /\ th[z].pc \in {"evw", "slo"} /\ th'[z].pc \in {"out", "chk"}
                              /\ th'[z] \in Threads /\ Sends(z)'
    BY <2>2 DEF Rest, Passes
  <2>5. /\ Types' /\ PidQueue' /\ PgQueue' /\ EvOwned' /\ Sending' /\ Linked' /\ Forking'
        /\ \A v : Aiming("evw", v)' = Aiming("evw", v) \ X
        /\ \A q \in Proc : StaysPs(t, q)
    <3>1. Head(th[t].left) = u /\ evp' = [evp EXCEPT ![u] = TRUE]
      BY <1>6, <1>10
    <3>2. \A v \in Thread : \/ evq'[v].cnt = evq[v].cnt
                            \/ evq[v].cnt < 0 /\ evq'[v].cnt = evq[v].cnt + 1
      BY <2>1
    <3> HIDE DEF X
    <3>3. QED BY <1>2, <1>3, <2>2, <2>3, <2>4, <3>1, <3>2, PostHands
  <2>6. ASSUME NEW v PROVE Aiming("evw", v)' = Aiming("evw", v)
    BY <1>2, <2>5 DEF Aiming
  <2>7. EvQueue'
    BY <1>1, <2>1, <2>6 DEF EvQueue, EvSlept
  <2>8. PsMutex'
    BY <1>1, <1>2, <2>1, <2>4, <2>5, PsStays
  <2>9. QED BY <2>5, <2>7, <2>8 DEF IInv
<1>11. QED BY <1>7, <1>8, <1>9, <1>10

LEMMA PostStep ==
    ASSUME IInv, NEW t \in Thread, Post(t)
    PROVE  IInv'
<1>1. th[t].left # <<>> /\ th[t].left \in Seq(Thread)
  BY DEF IInv, Types, Threads, Sending, Sends, Post, At
<1>2. Head(th[t].left) \in Thread
  BY <1>1
<1>3. QED BY <1>2, PostTo

-----------------------------------------------------------------------------
(* IInv holds throughout                                                    *)

LEMMA StartHolds == Init => IInv
<1> SUFFICES ASSUME Init PROVE IInv
  OBVIOUS
<1>1. /\ env \in Env /\ pid = NewSema(1) /\ hashed \subseteq Proc /\ freed = {}
      /\ ps = [p \in Proc |-> NewSema(1)]
      /\ links = [p \in Proc |-> SetToSeq(Owned(env, p))]
      /\ pg = [sema |-> NewSema(1), members |-> env.group, freed |-> FALSE]
      /\ evq = [t \in Thread |-> NewSema(1)]
      /\ evp = [t \in Thread |-> FALSE] /\ evs = [t \in Thread |-> FALSE]
      /\ th = [t \in Thread |-> IF t \in env.unborn THEN [User EXCEPT !.pc = "none"]
                                ELSE User]
  BY EnvAssumption DEF Init
<1>2. env \in Envs
  BY DEF Init
<1>3. ASSUME NEW p \in Proc
      PROVE  /\ links[p] \in Seq(Thread) /\ ToSet(links[p]) = Owned(env, p)
             /\ \A i, j \in DOMAIN links[p] : links[p][i] = links[p][j] => i = j
  <2>1. Owned(env, p) \subseteq Thread /\ IsFiniteSet(Owned(env, p))
    BY FiniteAssumption, FS_Subset DEF Owned
  <2>2. /\ SetToSeq(Owned(env, p)) \in Seq(Owned(env, p))
        /\ ToSet(SetToSeq(Owned(env, p))) = Owned(env, p)
        /\ \A i, j \in DOMAIN SetToSeq(Owned(env, p)) :
              SetToSeq(Owned(env, p))[i] = SetToSeq(Owned(env, p))[j] => i = j
    BY <2>1, ListOf
  <2>3. links[p] = SetToSeq(Owned(env, p))
    BY <1>1
  <2>4. links[p] \in Seq(Thread)
    BY <2>1, <2>2, <2>3
  <2>5. QED BY <2>2, <2>3, <2>4
<1>4. /\ "user" \in Pcs /\ "none" \in Pcs /\ User = [User EXCEPT !.pc = "user"]
  BY DEF Pcs, Others, Gone, User
<1>5. ASSUME NEW t \in Thread
      PROVE  /\ th[t] \in Threads
             /\ th[t].pc = IF t \in env.unborn THEN "none" ELSE "user"
  BY <1>1, <1>4, UserIs
<1>6. /\ \A P : P \cap {"none", "user"} = {} => AtPc(P) = {}
      /\ \A w, t : w \notin {"none", "user"} => Aiming(w, t) = {}
      /\ \A P, p : P \cap {"none", "user"} = {} => AtPs(P, p) = {}
  BY <1>5 DEF AtPc, Aiming, AtPs
<1>7. Types
  <2>1. links \in [Proc -> Seq(Thread)]
    BY <1>1, <1>3
  <2>2. th \in [Thread -> Threads]
    BY <1>1, <1>5
  <2>3. /\ env.group \subseteq Proc
        /\ pg = [sema |-> pg.sema, members |-> pg.members, freed |-> pg.freed]
        /\ pg.members = env.group /\ pg.freed \in BOOLEAN
    BY <1>1 DEF Env
  <2>4. /\ ps = [p \in Proc |-> ps[p]] /\ evq = [t \in Thread |-> evq[t]]
        /\ evp \in [Thread -> BOOLEAN] /\ evs \in [Thread -> BOOLEAN]
    BY <1>1
  <2>5. QED BY <1>1, <1>2, <2>1, <2>2, <2>3, <2>4 DEF Types, Shapes
<1>8. SleptOn(NewSema(1), Thread, {}) /\ NewSema(1).cnt = 1
  BY NewSlept
<1>9. PidQueue /\ PgQueue
  <2>1. AtPc(PidWait) = {} /\ AtPc(PgWait) = {}
    BY <1>6 DEF PidWait, PgWait
  <2>2. pg.sema = NewSema(1)
    BY <1>1
  <2>3. QED BY <1>1, <1>8, <2>1, <2>2 DEF PidQueue, PgQueue
<1>10. EvQueue
  <2>1. \A t \in Thread : Aiming("evw", t) = {} /\ evq[t] = NewSema(1)
    BY <1>1, <1>6
  <2>2. QED BY <1>8, <2>1 DEF EvQueue, EvSlept
<1>11. PsMutex
  <2>1. ASSUME NEW p \in Proc PROVE PsHeld(p)
    <3>1. AtPs(PsWait, p) = {} /\ AtPs(PsHave, p) = {} /\ ps[p] = NewSema(1)
      BY <1>1, <1>6 DEF PsWait, PsHave
    <3>2. QED BY <1>8, <3>1 DEF PsHeld, HeldBy
  <2>2. QED BY <2>1 DEF PsMutex
<1>12. EvOwned
  <2>1. ASSUME NEW t \in Thread PROVE Owned1(t)
    <3>1. /\ Aiming("evh", t) = {} /\ ~ evp[t] /\ th[t].pc # "dlv"
          /\ evq[t].cnt = 1
      BY <1>1, <1>5, <1>6, <1>8
    <3>2. QED BY <3>1 DEF Owned1
  <2>2. QED BY <2>1 DEF EvOwned
<1>13. Sending
  BY <1>5 DEF Sending, Sends, PsHave
<1>14. Linked
  <2>1. \A t \in Thread : th[t].pc \notin Gone <=> t \notin env.unborn
    BY <1>5 DEF Gone
  <2>2. \A p \in Proc : ToSet(links[p]) = {t \in Thread : Own(t) = p /\ th[t].pc \notin Gone}
    BY <1>3, <2>1 DEF Owned, Own
  <2>3. QED BY <1>3, <2>2 DEF Linked
<1>15. Forking
  <2>1. AtPc({"kr"}) = {}
    BY <1>6
  <2>2. QED BY <2>1 DEF Forking
<1>16. QED BY <1>7, <1>9, <1>10, <1>11, <1>12, <1>13, <1>14, <1>15 DEF IInv

LEMMA NextHolds == IInv /\ [Next]_vars => IInv'
<1> SUFFICES ASSUME IInv, [Next]_vars PROVE IInv'
  OBVIOUS
<1>1. CASE UNCHANGED vars
  BY <1>1, Same DEF vars
<1>2. CASE Next
  <2>1. PICK t \in Thread : Syscall(t) \/ Step(t)
    BY <1>2 DEF Next
  <2>2. CASE Syscall(t)
    <3>1. CASE \E p \in Proc : \E op \in {"all", "one", "pg"} : Notify(t, p, op)
      BY <3>1, NotifyStep
    <3>2. CASE NotifySelf(t) \/ SelfSig(t) \/ ExitCall(t) \/ ForkThread(t)
      BY <3>2, NotifySelfStep, IdleSteps, ForkThreadStep
    <3>3. QED BY <2>2, <3>1, <3>2 DEF Syscall
  <2>3. CASE Step(t)
    <3>1. CASE Member(t) \/ PfindNone(t) \/ Pfind(t) \/ PfindDone(t)
      BY <3>1, MemberStep, PfindNoneStep, PfindStep, PfindDoneStep
    <3>2. CASE Denied(t) \/ Begin(t) \/ Walk(t) \/ WalkDone(t) \/ Post(t) \/ Out(t)
      BY <3>2, DeniedStep, BeginStep, WalkStep, WalkDoneStep, PostStep, OutStep
    <3>3. CASE BeginGroup(t) \/ ListGroup(t) \/ LeaveGroup(t) \/ Left(t)
      BY <3>3, BeginGroupStep, ListGroupStep, LeaveGroupStep, LeftStep
    <3>4. CASE \/ Interrupted(t) \/ CheckNone(t) \/ CheckSys(t)
               \/ ThreadGone(t) \/ LeaveOwnGroup(t) \/ Free(t)
      BY <3>4, IdleSteps
    <3>5. CASE CheckProc(t) \/ Delivered(t) \/ StartThread(t)
      BY <3>5, CheckProcStep, DeliveredStep, StartThreadStep
    <3>6. CASE Exit(t) \/ Unlink(t) \/ FreeProc(t) \/ Unhash(t)
      BY <3>6, ExitStep, UnlinkStep, FreeProcStep, UnhashStep
    <3>7. CASE \E u \in Thread : LinkThread(t, u)
      BY <3>7, LinkThreadStep
    <3>8. QED BY <2>3, <3>1, <3>2, <3>3, <3>4, <3>5, <3>6, <3>7 DEF Step
  <2>4. QED BY <2>1, <2>2, <2>3
<1>3. QED BY <1>1, <1>2

(* The inductive invariant holds in every state.                            *)
THEOREM Invariant == Spec => []IInv
<1>1. QED BY StartHolds, NextHolds, PTL DEF Spec

(* The counts of all semaphores are those of their sleepers, and every      *)
(* variable has its type (TypeOK).                                          *)
THEOREM TypeCorrect == Spec => []TypeOK
<1>1. IInv => TypeOK
  <2> SUFFICES ASSUME IInv PROVE TypeOK
    OBVIOUS
  <2>1. /\ SemaType(pid, Thread) /\ CountsSleepers(pid)
        /\ SemaType(pg.sema, Thread) /\ CountsSleepers(pg.sema)
    BY DEF IInv, PidQueue, PgQueue, SleptOn
  <2>2. \A p \in Proc : SemaType(ps[p], Thread) /\ CountsSleepers(ps[p])
    BY DEF IInv, PsMutex, PsHeld, HeldBy, SleptOn
  <2>3. \A t \in Thread : SemaType(evq[t], Thread) /\ CountsSleepers(evq[t])
    BY DEF IInv, EvQueue, EvSlept, SleptOn
  <2>4. \A t \in Thread : /\ th[t].p \in Proc \cup {NoProc}
                          /\ th[t].left \in Seq(Thread) /\ th[t].rest \in Seq(Proc)
    BY DEF IInv, Types, Threads
  <2>5. /\ env \in Envs /\ hashed \subseteq Proc /\ freed \subseteq Proc
        /\ pg.members \subseteq Proc /\ pg.freed \in BOOLEAN
        /\ evp \in [Thread -> BOOLEAN] /\ evs \in [Thread -> BOOLEAN]
        /\ \A p \in Proc : links[p] \in Seq(Thread)
    BY DEF IInv, Types, Shapes
  <2>6. QED BY <2>1, <2>2, <2>3, <2>4, <2>5 DEF TypeOK
<1>2. QED BY <1>1, Invariant, PTL

(* t_evq changes hands: of the sender that is about to post, the event in   *)
(* t_evproc and its delivery there is one at most; whoever has it, it is    *)
(* taken, and it is free when nobody has (EvqHandedOn).                     *)
THEOREM HandedOn == Spec => []EvqHandedOn
<1>1. IInv => EvqHandedOn
  <2> SUFFICES ASSUME IInv, NEW t \in Thread
               PROVE  LET owners == Cardinality(Signalling(t)) + (IF evp[t] THEN 1 ELSE 0)
                                      + (IF th[t].pc = "dlv" THEN 1 ELSE 0)
                      IN  /\ owners <= 1
                          /\ owners = 1 => evq[t].cnt <= 0
                          /\ ~ env.exit /\ owners = 0 => evq[t].cnt = 1
    BY DEF EvqHandedOn
  <2>1. Owned1(t) /\ Signalling(t) = Aiming("evh", t)
    BY DEF IInv, EvOwned, Signalling, Aiming
  <2>2. CASE Aiming("evh", t) = {}
    <3>1. Cardinality(Signalling(t)) = 0
      BY <2>1, <2>2, FS_EmptySet
    <3>2. evp[t] \in BOOLEAN
      BY DEF IInv, Types, Shapes
    <3>3. QED BY <2>1, <2>2, <3>1, <3>2 DEF Owned1
  <2>3. CASE Aiming("evh", t) # {}
    <3>1. PICK s \in Aiming("evh", t) : Aiming("evh", t) = {s}
      BY <2>1, <2>3 DEF Owned1
    <3>2. Cardinality(Signalling(t)) = 1
      BY <2>1, <3>1, FS_Singleton
    <3>3. ~ evp[t] /\ th[t].pc # "dlv" /\ evq[t].cnt <= 0
      BY <2>1, <2>3 DEF Owned1
    <3>4. QED BY <3>2, <3>3
  <2>4. QED BY <2>2, <2>3
<1>2. QED BY <1>1, Invariant, PTL

(* Whoever works its way through a process finds threads that are there,    *)
(* and nobody waits to signal a thread that has left it (TargetsLinked).    *)
THEOREM TargetsThere == Spec => []TargetsLinked
<1>1. IInv => TargetsLinked
  <2> SUFFICES ASSUME IInv PROVE TargetsLinked
    OBVIOUS
  <2>1. \A s \in Thread : th[s].pc \in {"walk", "evw", "evh"} =>
            ToSet(th[s].left) \subseteq ToSet(links[th[s].p])
    BY DEF IInv, Sending, Sends
  <2>2. ASSUME NEW t \in Thread, th[t].pc \in {"x", "xlast"} PROVE ~ Blocked(evq[t])
    <3>1. ASSUME NEW s \in Aiming("evw", t) PROVE FALSE
      <4>1. s \in Thread /\ th[s].pc = "evw" /\ Head(th[s].left) = t
        BY DEF Aiming
      <4>2. /\ th[s].p \in Proc /\ th[s].left # <<>> /\ th[s].left \in Seq(Thread)
            /\ ToSet(th[s].left) \subseteq ToSet(links[th[s].p])
        BY <4>1 DEF IInv, Sending, Sends, PsHave, Types, Threads
      <4>3. t \in ToSet(th[s].left)
        BY <4>1, <4>2 DEF ToSet
      <4>4. th[t].pc \notin Gone
        BY <4>2, <4>3 DEF IInv, Linked
      <4>5. QED BY <2>2, <4>4 DEF Gone
    <3>2. SleptOn(evq[t], Thread, {})
      <4>1. Aiming("evw", t) = {}
        BY <3>1
      <4>2. QED BY <4>1 DEF IInv, EvQueue, EvSlept
    <3>3. evq[t].q \in Seq(Thread) /\ evq[t].cnt \in Int /\ CountsSleepers(evq[t])
          /\ {evq[t].q[i] : i \in DOMAIN evq[t].q} = {}
      BY <3>2 DEF SleptOn, SemaType, Sleepers
    <3>4. Len(evq[t].q) = 0
      <4>1. Len(evq[t].q) \in Nat /\ DOMAIN evq[t].q = 1 .. Len(evq[t].q)
        BY <3>3
      <4>2. 1 \notin DOMAIN evq[t].q
        BY <3>3
      <4>3. QED BY <4>1, <4>2
    <3>5. QED BY <3>3, <3>4 DEF CountsSleepers, Blocked
  <2>3. QED BY <2>1, <2>2 DEF TargetsLinked
<1>2. QED BY <1>1, Invariant, PTL

(* The search of do_exit() finds the thread ("do_exit: lost thread",        *)
(* proc.c:580), and the thread unlinks nobody else.                         *)
ExitFindsItself ==
    \A t \in Thread : th[t].pc = "xh" =>
        \E i \in DOMAIN links[Own(t)] :
            /\ links[Own(t)][i] = t
            /\ \A j \in DOMAIN links[Own(t)] : links[Own(t)][j] = t => j = i

(* No thread is lost from the list of its process (proc.c:580).             *)
THEOREM NoLostThread == Spec => []ExitFindsItself
<1>1. IInv => ExitFindsItself
  <2> SUFFICES ASSUME IInv, NEW t \in Thread, th[t].pc = "xh"
               PROVE  \E i \in DOMAIN links[Own(t)] :
                         /\ links[Own(t)][i] = t
                         /\ \A j \in DOMAIN links[Own(t)] : links[Own(t)][j] = t => j = i
    BY DEF ExitFindsItself
  <2>1. Own(t) \in Proc /\ th[t].pc \notin Gone
    BY EnvAssumption DEF IInv, Types, Shapes, Env, Own, Gone
  <2>2. /\ t \in ToSet(links[Own(t)])
        /\ \A i, j \in DOMAIN links[Own(t)] : links[Own(t)][i] = links[Own(t)][j] => i = j
    BY <2>1 DEF IInv, Linked
  <2>3. QED BY <2>2 DEF ToSet
<1>2. QED BY <1>1, Invariant, PTL
=============================================================================
