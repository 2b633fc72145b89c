---------------------------- MODULE SchedProofs ----------------------------
(***************************************************************************)
(* Proofs about Sched: the lists of the scheduler are what their heads say *)
(* they are, whatever the threads, the processes and the settings.         *)
(*                                                                         *)
(* The first part is about queue() and dequeue() alone: what they do to    *)
(* the list they are called on, and that they leave the other lists as     *)
(* they are.  The second part is about the run queue as a whole, and the   *)
(* last about the steps of the specification.                              *)
(***************************************************************************)
EXTENDS Sched, FiniteSetTheorems, TLAPS

(* The pointers of the members of L make a doubly linked ring.             *)
Round(r, L) ==
    \A n \in L : /\ r.hd[n] \in L /\ r.tl[n] \in L
                 /\ r.hd[r.tl[n]] = n /\ r.tl[r.hd[n]] = n

(* L is the list below h, of nodes in N.                                   *)
IsList(r, N, h, L) ==
    /\ L \subseteq N /\ L = Ring(r, N, r.down[h]) /\ Round(r, L)
    /\ r.down[h] \in L \/ (r.down[h] = None /\ L = {})

Nodes == [down : [Head -> Node \cup {None}], hd : [Node -> Node \cup {None}],
          tl : [Node -> Node \cup {None}], nrun : [Node \cup {Root} -> Int]]

-----------------------------------------------------------------------------
(* What Ring() is: the least set with the first node and all successors     *)

(* The first node is on its ring. *)
LEMMA RingFirst ==
    ASSUME NEW r, NEW N, NEW first \in N, first # None
    PROVE  first \in Ring(r, N, first)
BY DEF Ring

(* The ring lies within every set with the first node and all successors. *)
LEMMA RingLeast ==
    ASSUME NEW r, NEW N, NEW first, NEW S \in SUBSET N,
           first # None, first \in S, \A m \in S : r.hd[m] \in S
    PROVE  Ring(r, N, first) \subseteq S
<1> SUFFICES ASSUME NEW n \in Ring(r, N, first), n \notin S PROVE FALSE
  OBVIOUS
<1>1. S \in SUBSET (N \ {n})
  OBVIOUS
<1>2. QED BY <1>1 DEF Ring

(* A set closed under successors that the first node is in, and that lies   *)
(* within every other such set, is the ring.                                *)
LEMMA RingIs ==
    ASSUME NEW r, NEW N, NEW first, NEW L \in SUBSET N,
           first # None, first \in L, \A m \in L : r.hd[m] \in L,
           \A S \in SUBSET N : (first \in S /\ \A m \in S : r.hd[m] \in S) => L \subseteq S
    PROVE  L = Ring(r, N, first)
<1>1. Ring(r, N, first) \subseteq L
  BY RingLeast
<1>2. ASSUME NEW n \in L PROVE n \in Ring(r, N, first)
  <2>1. n \in N
    OBVIOUS
  <2>2. ASSUME NEW S \in SUBSET (N \ {n}), first \in S
        PROVE  \E m \in S : r.hd[m] \notin S
    <3>1. S \in SUBSET N /\ n \notin S
      OBVIOUS
    <3>2. QED BY <3>1, <2>2
  <2>3. QED BY <2>1, <2>2 DEF Ring
<1>3. QED BY <1>1, <1>2

(* Pointers that change outside a list do not change it. *)
LEMMA RingFrame ==
    ASSUME NEW r, NEW x, NEW N, NEW h, NEW L, IsList(r, N, h, L),
           x.down[h] = r.down[h],
           \A n \in L : x.hd[n] = r.hd[n] /\ x.tl[n] = r.tl[n]
    PROVE  IsList(x, N, h, L)
<1>0. L \in SUBSET N /\ Round(r, L)
  BY DEF IsList
<1>1. Round(x, L)
  <2> SUFFICES ASSUME NEW n \in L
               PROVE  /\ x.hd[n] \in L /\ x.tl[n] \in L
                      /\ x.hd[x.tl[n]] = n /\ x.tl[x.hd[n]] = n
    BY DEF Round
  <2>1. /\ r.hd[n] \in L /\ r.tl[n] \in L
        /\ r.hd[r.tl[n]] = n /\ r.tl[r.hd[n]] = n
    BY <1>0 DEF Round
  <2>2. QED BY <2>1
<1>2. CASE r.down[h] = None
  BY <1>0, <1>1, <1>2 DEF IsList, Ring
<1>3. CASE r.down[h] # None
  <2> DEFINE first == r.down[h]
  <2>1. first \in L /\ \A m \in L : x.hd[m] \in L
    BY <1>0, <1>1, <1>3 DEF IsList, Round
  <2>2. ASSUME NEW S \in SUBSET N, first \in S, \A m \in S : x.hd[m] \in S
        PROVE  L \subseteq S
    <3>1. S \cap L \in SUBSET N /\ first \in S \cap L
      BY <2>1, <2>2
    <3>2. \A m \in S \cap L : r.hd[m] \in S \cap L
      BY <2>1, <2>2
    <3>3. Ring(r, N, first) \subseteq S \cap L
      BY <3>1, <3>2, <1>3, RingLeast
    <3>4. QED BY <3>3 DEF IsList
  <2>3. L = Ring(x, N, first)
    <3> HIDE DEF first
    <3>0. first # None
      BY <1>3 DEF first
    <3> QED BY <3>0, <1>0, <2>1, <2>2, RingIs
  <2>4. QED BY <1>0, <1>1, <2>1, <2>3 DEF IsList
<1>4. QED BY <1>2, <1>3

-----------------------------------------------------------------------------
(* queue()                                                                  *)

(* None and the heads of the class lists are no nodes with a place on one. *)
LEMMA NodeFacts ==
    /\ Thread \subseteq Node /\ Proc \subseteq Node /\ None \notin Node
    /\ Thread \cap Proc = {} /\ Lists \subseteq Head /\ Root \in Head /\ Root \notin Lists
    /\ Proc \subseteq Lists /\ Rt \in Lists /\ Cheated \in Lists /\ Bg \in Lists
    /\ \A t \in Thread : ProcOf[t] \in Proc
    /\ Root \notin Node
BY NodeAssumption DEF Node, Lists, Head

(* What queue() writes, on an empty list and on another.                   *)
LEMMA QueueWrites ==
    ASSUME NEW r \in Nodes, NEW h \in Head, NEW s \in Node,
           NEW x, x = queue(r, h, s), NEW first, first = r.down[h], NEW last, last = r.tl[first]
    PROVE  /\ first = None => /\ x.down = [r.down EXCEPT ![h] = s]
                              /\ x.hd = [r.hd EXCEPT ![s] = s]
                              /\ x.tl = [r.tl EXCEPT ![s] = s]
           /\ first # None => /\ x.down = r.down
                              /\ x.hd = [r.hd EXCEPT ![s] = first, ![last] = s]
                              /\ x.tl = [r.tl EXCEPT ![s] = last, ![first] = s]
           /\ x.nrun = r.nrun
           /\ x = [down |-> x.down, hd |-> x.hd, tl |-> x.tl, nrun |-> x.nrun]
<1>1. CASE first = None
  BY <1>1 DEF Nodes, queue
<1>2. CASE first # None
  BY <1>2 DEF Nodes, queue
<1>3. QED BY <1>1, <1>2

(* queue() puts the node at the end of the list.                           *)
LEMMA QueueOn ==
    ASSUME NEW r \in Nodes, NEW N \in SUBSET Node, NEW h \in Head, NEW L,
           IsList(r, N, h, L), NEW s \in N, s \notin L
    PROVE  /\ IsList(queue(r, h, s), N, h, L \cup {s})
           /\ queue(r, h, s) \in Nodes
<1> DEFINE x == queue(r, h, s) first == r.down[h] last == r.tl[first] M == L \cup {s}
<1> None \notin Node /\ s \in Node
  BY NodeFacts
<1>1. /\ first = None => /\ x.down = [r.down EXCEPT ![h] = s]
                         /\ x.hd = [r.hd EXCEPT ![s] = s]
                         /\ x.tl = [r.tl EXCEPT ![s] = s]
      /\ first # None => /\ x.down = r.down
                         /\ x.hd = [r.hd EXCEPT ![s] = first, ![last] = s]
                         /\ x.tl = [r.tl EXCEPT ![s] = last, ![first] = s]
      /\ x.nrun = r.nrun
      /\ x = [down |-> x.down, hd |-> x.hd, tl |-> x.tl, nrun |-> x.nrun]
  BY QueueWrites
<1>2. /\ L \subseteq N /\ L = Ring(r, N, first) /\ Round(r, L)
      /\ first \in L \/ (first = None /\ L = {})
  BY DEF IsList
<1>3. /\ r.down \in [Head -> Node \cup {None}] /\ r.nrun \in [Node \cup {Root} -> Int]
      /\ r.hd \in [Node -> Node \cup {None}] /\ r.tl \in [Node -> Node \cup {None}]
  BY DEF Nodes
<1> HIDE DEF x, first, last
<1>4. CASE first = None
  <2>1. x.down[h] = s /\ x.hd[s] = s /\ x.tl[s] = s /\ M = {s}
    BY <1>1, <1>2, <1>3, <1>4
  <2>2. Round(x, M)
    BY <2>1 DEF Round
  <2>3. M = Ring(x, N, s)
    <3>1. M \in SUBSET N /\ s # None /\ s \in M /\ \A m \in M : x.hd[m] \in M
      BY <2>1
    <3>2. \A S \in SUBSET N : s \in S => M \subseteq S
      BY <2>1
    <3> HIDE DEF M
    <3> QED BY <3>1, <3>2, RingIs
  <2>4. IsList(x, N, h, M)
    BY <2>1, <2>2, <2>3, <1>2 DEF IsList
  <2>5. x \in Nodes
    BY <1>1, <1>3, <1>4 DEF Nodes
  <2>6. QED BY <2>4, <2>5 DEF x
<1>5. CASE first # None
  <2>1. first \in L /\ last \in L /\ r.hd[last] = first
    BY <1>2, <1>5 DEF Round, last
  <2>2. \A n \in L : n \in Node /\ n # s
    BY <1>2
  <2>3. x.down[h] = first /\ x.hd[s] = first /\ x.hd[last] = s /\ x.tl[s] = last /\ x.tl[first] = s
    BY <1>1, <1>3, <1>5, <2>1, <2>2 DEF first
  <2>4. \A n \in L : /\ n # last => x.hd[n] = r.hd[n]
                     /\ n # first => x.tl[n] = r.tl[n]
    BY <1>1, <1>3, <1>5, <2>1, <2>2
  <2>5. Round(x, M)
    <3> SUFFICES ASSUME NEW n \in M
                 PROVE  /\ x.hd[n] \in M /\ x.tl[n] \in M
                        /\ x.hd[x.tl[n]] = n /\ x.tl[x.hd[n]] = n
      BY DEF Round
    <3>1. CASE n = s
      BY <3>1, <2>1, <2>3
    <3>2. CASE n # s
      <4>1. /\ n \in L /\ r.hd[n] \in L /\ r.tl[n] \in L
            /\ r.hd[r.tl[n]] = n /\ r.tl[r.hd[n]] = n
        BY <3>2, <1>2 DEF Round
      <4>2. x.hd[n] \in M /\ x.tl[x.hd[n]] = n
        <5>1. CASE n = last
          BY <5>1, <2>1, <2>3
        <5>2. CASE n # last
          <6>1. x.hd[n] = r.hd[n] /\ r.hd[n] # first
            BY <5>2, <4>1, <2>4, <2>1 DEF last
          <6>2. QED BY <6>1, <4>1, <2>4
        <5>3. QED BY <5>1, <5>2
      <4>3. x.tl[n] \in M /\ x.hd[x.tl[n]] = n
        <5>1. CASE n = first
          BY <5>1, <2>1, <2>3
        <5>2. CASE n # first
          <6>1. x.tl[n] = r.tl[n] /\ r.tl[n] # last
            BY <5>2, <4>1, <2>4, <2>1
          <6>2. QED BY <6>1, <4>1, <2>4
        <5>3. QED BY <5>1, <5>2
      <4>4. QED BY <4>2, <4>3
    <3>3. QED BY <3>1, <3>2
  <2>6. ASSUME NEW S \in SUBSET N, first \in S, \A m \in S : x.hd[m] \in S
        PROVE  M \subseteq S
    <3> DEFINE T == S \cap L
    <3>1. T \in SUBSET N /\ first \in T
      BY <2>1, <2>6
    <3>2. \A m \in T : r.hd[m] \in T
      <4> TAKE m \in T
      <4>1. CASE m = last
        BY <4>1, <2>1, <3>1
      <4>2. CASE m # last
        BY <4>2, <2>4, <2>6, <1>2 DEF Round
      <4>3. QED BY <4>1, <4>2
    <3>3. L \subseteq S
      <4> HIDE DEF T
      <4>1. Ring(r, N, first) \subseteq T
        BY <3>1, <3>2, <1>5, RingLeast
      <4>2. QED BY <4>1, <1>2 DEF T
    <3>4. s \in S
      BY <3>3, <2>1, <2>3, <2>6
    <3>5. QED BY <3>3, <3>4
  <2>7. M = Ring(x, N, first)
    <3>1. first \in M /\ M \in SUBSET N /\ \A m \in M : x.hd[m] \in M
      BY <2>1, <1>2, <2>5 DEF Round
    <3> HIDE DEF M
    <3> QED BY <3>1, <1>5, <2>6, RingIs
  <2>8. IsList(x, N, h, M)
    BY <2>1, <2>3, <2>5, <2>7, <1>2 DEF IsList
  <2>9. x \in Nodes
    BY <1>1, <1>2, <1>3, <1>5, <2>1 DEF Nodes
  <2>10. QED BY <2>8, <2>9 DEF x
<1>6. QED BY <1>4, <1>5

(* queue() leaves the other lists as they are.                             *)
LEMMA QueueFrame ==
    ASSUME NEW r \in Nodes, NEW h \in Head, NEW s \in Node, NEW L,
           r.down[h] # None => r.down[h] \in L /\ r.tl[r.down[h]] \in L
    PROVE  LET x == queue(r, h, s) IN
           /\ \A g \in Head \ {h} : x.down[g] = r.down[g]
           /\ \A n \in Node \ (L \cup {s}) : x.hd[n] = r.hd[n] /\ x.tl[n] = r.tl[n]
           /\ x.nrun = r.nrun
<1>1. CASE r.down[h] = None
  BY <1>1 DEF Nodes, queue
<1>2. CASE r.down[h] # None
  BY <1>2 DEF Nodes, queue
<1>3. QED BY <1>1, <1>2

LEMMA QueueOther ==
    ASSUME NEW r \in Nodes, NEW N \in SUBSET Node, NEW h \in Head, NEW L,
           IsList(r, N, h, L), NEW s \in N, s \notin L,
           NEW N2 \in SUBSET Node, NEW g \in Head, g # h, NEW K, IsList(r, N2, g, K),
           K \cap L = {}, s \notin K
    PROVE  IsList(queue(r, h, s), N2, g, K)
<1> DEFINE x == queue(r, h, s)
<1>1. r.down[h] # None => r.down[h] \in L /\ r.tl[r.down[h]] \in L
  BY DEF IsList, Round
<1>2. K \subseteq Node \ (L \cup {s})
  BY DEF IsList
<1>3. x.down[g] = r.down[g] /\ \A n \in K : x.hd[n] = r.hd[n] /\ x.tl[n] = r.tl[n]
  <2>1. r \in Nodes /\ h \in Head /\ s \in Node /\ g \in Head \ {h}
    OBVIOUS
  <2>2. QED BY <1>1, <1>2, <2>1, QueueFrame
<1> HIDE DEF x
<1>4. IsList(x, N2, g, K)
  BY <1>3, RingFrame
<1>5. QED BY <1>4 DEF x

-----------------------------------------------------------------------------
(* dequeue()                                                                *)

(* What dequeue() writes, for the last node of a list and for another.     *)
LEMMA DequeueWrites ==
    ASSUME NEW r \in Nodes, NEW h \in Head, NEW s \in Node,
           NEW x, x = dequeue(r, h, s), NEW next, next = r.hd[s], NEW prev, prev = r.tl[s]
    PROVE  /\ next = s => /\ x.down = [r.down EXCEPT ![h] = None]
                          /\ x.hd = [r.hd EXCEPT ![s] = None]
                          /\ x.tl = [r.tl EXCEPT ![s] = None]
           /\ next # s => /\ x.down = [r.down EXCEPT ![h] = IF r.down[h] = s THEN next ELSE r.down[h]]
                          /\ x.hd = [r.hd EXCEPT ![prev] = next, ![s] = None]
                          /\ x.tl = [r.tl EXCEPT ![next] = prev, ![s] = None]
           /\ x.nrun = r.nrun
           /\ x = [down |-> x.down, hd |-> x.hd, tl |-> x.tl, nrun |-> x.nrun]
<1>1. CASE next = s
  BY <1>1 DEF Nodes, dequeue
<1>2. CASE next # s
  BY <1>2 DEF Nodes, dequeue
<1>3. QED BY <1>1, <1>2

(* A node that is its own successor is alone on its list.                  *)
LEMMA Alone ==
    ASSUME NEW r, NEW N \in SUBSET Node, NEW h, NEW L,
           IsList(r, N, h, L), NEW s \in L, r.hd[s] = s
    PROVE  L = {s}
<1> DEFINE first == r.down[h]
<1>1. L \in SUBSET N /\ first \in L /\ first # None
  BY NodeFacts DEF IsList
<1>2. \A m \in L : r.hd[m] \in L /\ r.tl[r.hd[m]] = m
  BY DEF IsList, Round
<1>3. L = Ring(r, N, first)
  BY DEF IsList
<1> HIDE DEF first
<1>4. CASE first = s
  <2>1. {s} \in SUBSET N /\ first \in {s} /\ \A m \in {s} : r.hd[m] \in {s}
    BY <1>1, <1>4
  <2>2. Ring(r, N, first) \subseteq {s}
    BY <2>1, <1>1, RingLeast
  <2>3. QED BY <2>2, <1>3
<1>5. CASE first # s
  <2>1. L \ {s} \in SUBSET N /\ first \in L \ {s} /\ \A m \in L \ {s} : r.hd[m] \in L \ {s}
    BY <1>1, <1>2, <1>5
  <2>2. Ring(r, N, first) \subseteq L \ {s}
    BY <2>1, <1>1, RingLeast
  <2>3. QED BY <2>2, <1>3
<1>6. QED BY <1>4, <1>5

(* dequeue() takes the node off the list.                                  *)
LEMMA DequeueOff ==
    ASSUME NEW r \in Nodes, NEW N \in SUBSET Node, NEW h \in Head, NEW L,
           IsList(r, N, h, L), NEW s \in L
    PROVE  /\ IsList(dequeue(r, h, s), N, h, L \ {s})
           /\ dequeue(r, h, s) \in Nodes
<1> DEFINE x == dequeue(r, h, s) next == r.hd[s] prev == r.tl[s] A == L \ {s}
           first == r.down[h] newFirst == x.down[h]
<1> None \notin Node /\ s \in Node
  BY NodeFacts DEF IsList
<1>1. /\ next = s => /\ x.down = [r.down EXCEPT ![h] = None]
                     /\ x.hd = [r.hd EXCEPT ![s] = None]
                     /\ x.tl = [r.tl EXCEPT ![s] = None]
      /\ next # s => /\ x.down = [r.down EXCEPT ![h] = IF r.down[h] = s THEN next ELSE r.down[h]]
                     /\ x.hd = [r.hd EXCEPT ![prev] = next, ![s] = None]
                     /\ x.tl = [r.tl EXCEPT ![next] = prev, ![s] = None]
      /\ x.nrun = r.nrun
      /\ x = [down |-> x.down, hd |-> x.hd, tl |-> x.tl, nrun |-> x.nrun]
  BY DequeueWrites
<1>2. /\ L \subseteq N /\ L = Ring(r, N, first) /\ Round(r, L) /\ first \in L
  BY DEF IsList
<1>3. /\ r.down \in [Head -> Node \cup {None}] /\ r.nrun \in [Node \cup {Root} -> Int]
      /\ r.hd \in [Node -> Node \cup {None}] /\ r.tl \in [Node -> Node \cup {None}]
  BY DEF Nodes
<1>4. next \in L /\ prev \in L /\ r.tl[next] = s /\ r.hd[prev] = s
  BY <1>2 DEF Round
<1>5. CASE next = s
  <2>1. A = {}
    BY <1>5, Alone
  <2>2. x.down[h] = None
    BY <1>1, <1>3, <1>5
  <2>3. IsList(x, N, h, A)
    BY <2>1, <2>2 DEF IsList, Ring, Round
  <2>4. x \in Nodes
    <3> HIDE DEF x
    <3> QED BY <1>1, <1>3, <1>5 DEF Nodes
  <2>5. QED BY <2>3, <2>4
<1>6. CASE next # s
  <2> HIDE DEF x, next, prev, first
  <2>1. prev # s /\ next \in A /\ prev \in A
    BY <1>4, <1>6 DEF next, prev
  <2>2. \A n \in L : n \in Node
    BY <1>2
  <2>3. /\ x.hd[prev] = next /\ x.tl[next] = prev
        /\ newFirst = IF first = s THEN next ELSE first
    BY <1>1, <1>3, <1>6, <2>1, <2>2 DEF first
  <2>4. \A n \in A : /\ n # prev => x.hd[n] = r.hd[n]
                     /\ n # next => x.tl[n] = r.tl[n]
    BY <1>1, <1>3, <1>6, <2>1, <2>2
  <2>5. Round(x, A)
    <3> SUFFICES ASSUME NEW n \in A
                 PROVE  /\ x.hd[n] \in A /\ x.tl[n] \in A
                        /\ x.hd[x.tl[n]] = n /\ x.tl[x.hd[n]] = n
      BY DEF Round
    <3>1. /\ n \in L /\ r.hd[n] \in L /\ r.tl[n] \in L
          /\ r.hd[r.tl[n]] = n /\ r.tl[r.hd[n]] = n
      BY <1>2 DEF Round
    <3>2. x.hd[n] \in A /\ x.tl[x.hd[n]] = n
      <4>1. CASE n = prev
        BY <4>1, <2>1, <2>3
      <4>2. CASE n # prev
        <5>1. x.hd[n] = r.hd[n] /\ r.hd[n] # s /\ r.hd[n] # next
          BY <4>2, <3>1, <2>4, <1>4 DEF prev
        <5>2. QED BY <5>1, <3>1, <2>4
      <4>3. QED BY <4>1, <4>2
    <3>3. x.tl[n] \in A /\ x.hd[x.tl[n]] = n
      <4>1. CASE n = next
        BY <4>1, <2>1, <2>3
      <4>2. CASE n # next
        <5>1. x.tl[n] = r.tl[n] /\ r.tl[n] # s /\ r.tl[n] # prev
          BY <4>2, <3>1, <2>4, <1>4 DEF next
        <5>2. QED BY <5>1, <3>1, <2>4
      <4>3. QED BY <4>1, <4>2
    <3>4. QED BY <3>2, <3>3
  <2>6. newFirst \in A /\ newFirst # None
    BY <2>1, <2>2, <2>3, <1>2
  <2>7. ASSUME NEW S \in SUBSET N, newFirst \in S, \A m \in S : x.hd[m] \in S
        PROVE  A \subseteq S
    <3>1. CASE next \in S
      <4> DEFINE T == (S \cap A) \cup {s}
      <4>1. T \in SUBSET N /\ first \in T
        BY <2>3, <2>6, <2>7, <1>2
      <4>2. \A m \in T : r.hd[m] \in T
        <5> TAKE m \in T
        <5>1. CASE m = s
          BY <5>1, <3>1, <2>1 DEF next
        <5>2. CASE m = prev
          BY <5>2, <1>4
        <5>3. CASE m # s /\ m # prev
          <6>1. m \in S /\ m \in A
            BY <5>3
          <6>2. QED BY <6>1, <5>3, <2>4, <2>5, <2>7 DEF Round
        <5>4. QED BY <5>1, <5>2, <5>3
      <4>3. first # None
        BY <1>2, <2>2
      <4> HIDE DEF T
      <4>4. Ring(r, N, first) \subseteq T
        BY <4>1, <4>2, <4>3, RingLeast
      <4>5. QED BY <4>4, <1>2 DEF T
    <3>2. CASE next \notin S
      <4> DEFINE T == S \cap A
      <4>1. prev \notin S /\ first # s
        BY <3>2, <2>3, <2>7
      <4>2. T \in SUBSET N /\ first \in T /\ first # None
        BY <4>1, <2>3, <2>6, <2>7, <1>2
      <4>3. \A m \in T : r.hd[m] \in T
        <5> TAKE m \in T
        <5>1. m \in S /\ m \in A /\ m # prev
          BY <4>1
        <5>2. QED BY <5>1, <2>4, <2>5, <2>7 DEF Round
      <4> HIDE DEF T
      <4>4. Ring(r, N, first) \subseteq T
        BY <4>2, <4>3, RingLeast
      <4>5. QED BY <4>4, <1>2 DEF T
    <3>3. QED BY <3>1, <3>2
  <2>8. A = Ring(x, N, newFirst)
    <3>1. A \in SUBSET N /\ \A m \in A : x.hd[m] \in A
      BY <2>5, <1>2 DEF Round
    <3> HIDE DEF A, newFirst
    <3> QED BY <3>1, <2>6, <2>7, RingIs
  <2>9. IsList(x, N, h, A)
    BY <2>5, <2>6, <2>8, <1>2 DEF IsList
  <2>10. x \in Nodes
    BY <1>1, <1>2, <1>3, <1>6, <2>1, <2>2 DEF Nodes
  <2>11. QED BY <2>9, <2>10 DEF x
<1>7. QED BY <1>5, <1>6

(* dequeue() leaves the other lists as they are.                           *)
LEMMA DequeueFrame ==
    ASSUME NEW r \in Nodes, NEW h \in Head, NEW L \in SUBSET Node, NEW s \in L,
           r.hd[s] \in L /\ r.tl[s] \in L
    PROVE  LET x == dequeue(r, h, s) IN
           /\ \A g \in Head \ {h} : x.down[g] = r.down[g]
           /\ \A n \in Node \ L : x.hd[n] = r.hd[n] /\ x.tl[n] = r.tl[n]
           /\ x.nrun = r.nrun
<1>1. CASE r.hd[s] = s
  BY <1>1 DEF Nodes, dequeue
<1>2. CASE r.hd[s] # s
  BY <1>2 DEF Nodes, dequeue
<1>3. QED BY <1>1, <1>2

LEMMA DequeueOther ==
    ASSUME NEW r \in Nodes, NEW N \in SUBSET Node, NEW h \in Head, NEW L,
           IsList(r, N, h, L), NEW s \in L,
           NEW N2 \in SUBSET Node, NEW g \in Head, g # h, NEW K, IsList(r, N2, g, K),
           K \cap L = {}
    PROVE  IsList(dequeue(r, h, s), N2, g, K)
<1> DEFINE x == dequeue(r, h, s)
<1>1. r.hd[s] \in L /\ r.tl[s] \in L /\ L \subseteq Node
  BY DEF IsList, Round
<1>2. K \subseteq Node \ L
  BY DEF IsList
<1>3. x.down[g] = r.down[g] /\ \A n \in K : x.hd[n] = r.hd[n] /\ x.tl[n] = r.tl[n]
  BY <1>1, <1>2, DequeueFrame
<1> HIDE DEF x
<1>4. IsList(x, N2, g, K)
  BY <1>3, RingFrame
<1>5. QED BY <1>4 DEF x

-----------------------------------------------------------------------------
(* The run queue: all the lists, and what is counted                        *)

ListOf(r, h) == Ring(r, Thread, r.down[h])
ProcList(r)  == Ring(r, Proc, r.down[Root])
InTree(r, p) == {t \in Thread : ProcOf[t] = p /\ r.nrun[t] = 1}

Shape(r) ==
    /\ r \in Nodes
    /\ \A h \in Lists : IsList(r, Thread, h, ListOf(r, h))
    /\ IsList(r, Proc, Root, ProcList(r))

(* Each thread of R is on one list, and no other thread is on any.         *)
Placed(r, R) ==
    /\ \A t \in Thread :
           IF t \in R THEN \E h \in Lists : \A g \in Lists : t \in ListOf(r, g) <=> g = h
           ELSE \A h \in Lists : t \notin ListOf(r, h)
    /\ \A p \in Proc : \A t \in ListOf(r, p) : ProcOf[t] = p

Counted(r) ==
    /\ \A t \in Thread : r.nrun[t] = IF t \in ListOf(r, ProcOf[t]) THEN 1 ELSE 0
    /\ \A p \in Proc : r.nrun[p] = Cardinality(InTree(r, p))
    /\ r.nrun[Root] = Cardinality({t \in Thread : r.nrun[t] = 1})

(* The queue of the threads R, in the processes P.                         *)
QueueOf(r, R, P) == Shape(r) /\ Placed(r, R) /\ Counted(r) /\ ProcList(r) = P

(* Two lists have no thread in common.                                     *)
LEMMA Disjoint ==
    ASSUME NEW r, NEW R, Placed(r, R), NEW g \in Lists, NEW h \in Lists, g # h
    PROVE  ListOf(r, g) \cap ListOf(r, h) = {}
<1> SUFFICES ASSUME NEW t \in Thread, t \in ListOf(r, g), t \in ListOf(r, h) PROVE FALSE
  BY DEF ListOf, Ring
<1>1. QED BY DEF Placed

(* The lists after queue(): t is on one more.                              *)
LEMMA QueueLists ==
    ASSUME NEW r, NEW R, Shape(r), Placed(r, R), NEW t \in Thread, t \notin R,
           NEW h \in Lists
    PROVE  LET x == queue(r, h, t) IN
           /\ Shape(x) /\ ProcList(x) = ProcList(r)
           /\ \A g \in Lists : ListOf(x, g) = IF g = h THEN ListOf(r, h) \cup {t} ELSE ListOf(r, g)
           /\ x.nrun = r.nrun
<1> DEFINE x == queue(r, h, t)
<1> Thread \in SUBSET Node /\ Proc \in SUBSET Node /\ Lists \subseteq Head /\ Root \in Head
  BY NodeFacts
<1>1. r \in Nodes /\ h \in Head /\ h # Root /\ t \notin ListOf(r, h)
  BY NodeFacts DEF Shape, Placed
<1>2. IsList(r, Thread, h, ListOf(r, h)) /\ IsList(r, Proc, Root, ProcList(r))
  BY DEF Shape
<1>3. IsList(x, Thread, h, ListOf(r, h) \cup {t}) /\ x \in Nodes
  BY <1>1, <1>2, QueueOn
<1>4. ASSUME NEW g \in Lists, g # h
      PROVE  IsList(x, Thread, g, ListOf(r, g))
  <2>1. ListOf(r, g) \cap ListOf(r, h) = {} /\ t \notin ListOf(r, g)
    BY <1>4, Disjoint DEF Placed
  <2>2. IsList(r, Thread, g, ListOf(r, g)) /\ g \in Head
    BY DEF Shape
  <2>3. QED BY <1>1, <1>2, <1>4, <2>1, <2>2, QueueOther
<1>5. IsList(x, Proc, Root, ProcList(r))
  <2>1. ListOf(r, h) \subseteq Thread /\ ProcList(r) \subseteq Proc
    BY DEF ListOf, ProcList, Ring
  <2>2. ProcList(r) \cap ListOf(r, h) = {} /\ t \notin ProcList(r)
    BY <2>1, NodeFacts
  <2>3. QED BY <1>1, <1>2, <2>2, QueueOther
<1>6. x.nrun = r.nrun
  <2>1. r.down[h] # None => r.down[h] \in ListOf(r, h) /\ r.tl[r.down[h]] \in ListOf(r, h)
    BY <1>2 DEF IsList, Round
  <2>2. QED BY <1>1, <2>1, QueueFrame
<1> HIDE DEF x
<1>7. ProcList(x) = ProcList(r)
  BY <1>5 DEF IsList, ProcList
<1>8. \A g \in Lists : ListOf(x, g) = IF g = h THEN ListOf(r, h) \cup {t} ELSE ListOf(r, g)
  BY <1>3, <1>4 DEF IsList, ListOf
<1>9. Shape(x)
  BY <1>3, <1>4, <1>5, <1>7, <1>8 DEF Shape
<1>10. QED BY <1>6, <1>7, <1>8, <1>9 DEF x

(* The lists after dequeue(): t is on one less.                            *)
LEMMA DequeueLists ==
    ASSUME NEW r, NEW R, Shape(r), Placed(r, R), NEW h \in Lists, NEW t \in ListOf(r, h)
    PROVE  LET x == dequeue(r, h, t) IN
           /\ Shape(x) /\ ProcList(x) = ProcList(r)
           /\ \A g \in Lists : ListOf(x, g) = IF g = h THEN ListOf(r, h) \ {t} ELSE ListOf(r, g)
           /\ x.nrun = r.nrun
<1> DEFINE x == dequeue(r, h, t)
<1> Thread \in SUBSET Node /\ Proc \in SUBSET Node /\ Lists \subseteq Head /\ Root \in Head
  BY NodeFacts
<1>1. r \in Nodes /\ h \in Head /\ h # Root /\ t \in Node
  BY NodeFacts DEF Shape, ListOf, Ring
<1>2. IsList(r, Thread, h, ListOf(r, h)) /\ IsList(r, Proc, Root, ProcList(r))
  BY DEF Shape
<1>3. IsList(x, Thread, h, ListOf(r, h) \ {t}) /\ x \in Nodes
  BY <1>1, <1>2, DequeueOff
<1>4. ASSUME NEW g \in Lists, g # h
      PROVE  IsList(x, Thread, g, ListOf(r, g))
  <2>1. ListOf(r, g) \cap ListOf(r, h) = {}
    BY <1>4, Disjoint
  <2>2. IsList(r, Thread, g, ListOf(r, g)) /\ g \in Head
    BY DEF Shape
  <2>3. QED BY <1>1, <1>2, <1>4, <2>1, <2>2, DequeueOther
<1>5. IsList(x, Proc, Root, ProcList(r))
  <2>1. ListOf(r, h) \subseteq Thread /\ ProcList(r) \subseteq Proc
    BY DEF ListOf, ProcList, Ring
  <2>2. ProcList(r) \cap ListOf(r, h) = {}
    BY <2>1, NodeFacts
  <2>3. QED BY <1>1, <1>2, <2>2, DequeueOther
<1>6. x.nrun = r.nrun
  <2>1. r.hd[t] \in ListOf(r, h) /\ r.tl[t] \in ListOf(r, h) /\ ListOf(r, h) \in SUBSET Node
    BY <1>2 DEF IsList, Round
  <2>2. QED BY <1>1, <2>1, DequeueFrame
<1> HIDE DEF x
<1>7. ProcList(x) = ProcList(r)
  BY <1>5 DEF IsList, ProcList
<1>8. \A g \in Lists : ListOf(x, g) = IF g = h THEN ListOf(r, h) \ {t} ELSE ListOf(r, g)
  BY <1>3, <1>4 DEF IsList, ListOf
<1>9. Shape(x)
  BY <1>3, <1>4, <1>5, <1>7, <1>8 DEF Shape
<1>10. QED BY <1>6, <1>7, <1>8, <1>9 DEF x

(* Count() changes no list.                                                *)
LEMMA CountKeeps ==
    ASSUME NEW r, Shape(r), NEW t \in Thread, NEW by \in Int
    PROVE  LET x == Count(r, t, by) IN
           /\ Shape(x) /\ ProcList(x) = ProcList(r)
           /\ \A g : ListOf(x, g) = ListOf(r, g)
           /\ \A n \in Node \cup {Root} :
                  x.nrun[n] = IF n \in {t, ProcOf[t], Root} THEN r.nrun[n] + by ELSE r.nrun[n]
<1> DEFINE x == Count(r, t, by)
<1>1. r \in Nodes /\ t \in Node /\ ProcOf[t] \in Node
      /\ t # ProcOf[t] /\ t # Root /\ ProcOf[t] # Root
  BY NodeFacts DEF Shape
<1>2. /\ x.down = r.down /\ x.hd = r.hd /\ x.tl = r.tl /\ x \in Nodes
      /\ \A n \in Node \cup {Root} :
             x.nrun[n] = IF n \in {t, ProcOf[t], Root} THEN r.nrun[n] + by ELSE r.nrun[n]
  <2>1. r.nrun \in [Node \cup {Root} -> Int]
    BY <1>1 DEF Nodes
  <2> DEFINE nrun == [n \in Node \cup {Root} |->
                         r.nrun[n] + IF n \in {t, ProcOf[t], Root} THEN by ELSE 0]
  <2>2. /\ x.down = r.down /\ x.hd = r.hd /\ x.tl = r.tl /\ x.nrun = nrun
        /\ x = [down |-> x.down, hd |-> x.hd, tl |-> x.tl, nrun |-> x.nrun]
    <3>1. x = [r EXCEPT !.nrun = nrun]
      BY DEF Count
    <3> HIDE DEF x, nrun
    <3>2. QED BY <1>1, <3>1 DEF Nodes
  <2> HIDE DEF x
  <2>3. x.nrun \in [Node \cup {Root} -> Int]
    BY <1>1, <2>1, <2>2
  <2>4. x \in Nodes
    BY <1>1, <2>2, <2>3 DEF Nodes
  <2>5. QED BY <1>1, <2>1, <2>2, <2>4
<1> HIDE DEF x
<1>3. \A N, f : Ring(x, N, f) = Ring(r, N, f)
  BY <1>2 DEF Ring
<1>4. \A N, g, L : IsList(r, N, g, L) => IsList(x, N, g, L)
  BY <1>2, <1>3 DEF IsList, Round
<1>5. ProcList(x) = ProcList(r) /\ \A g : ListOf(x, g) = ListOf(r, g)
  BY <1>2, <1>3 DEF ProcList, ListOf
<1>6. Shape(x)
  BY <1>2, <1>4, <1>5 DEF Shape
<1>7. QED BY <1>2, <1>5, <1>6 DEF x

-----------------------------------------------------------------------------
(* A thread joins the run queue, and leaves it                              *)

LEMMA PlacedJoin ==
    ASSUME NEW r, NEW x, NEW R, Placed(r, R), NEW t \in Thread, t \notin R,
           NEW h \in Lists, h \in Proc => h = ProcOf[t],
           \A g \in Lists : ListOf(x, g) = IF g = h THEN ListOf(r, h) \cup {t} ELSE ListOf(r, g)
    PROVE  Placed(x, R \cup {t})
<1>1. ASSUME NEW u \in Thread
      PROVE  IF u \in R \cup {t}
             THEN \E k \in Lists : \A g \in Lists : u \in ListOf(x, g) <=> g = k
             ELSE \A g \in Lists : u \notin ListOf(x, g)
  <2>1. CASE u = t
    <3>1. \A g \in Lists : u \in ListOf(x, g) <=> g = h
      BY <2>1 DEF Placed
    <3>2. QED BY <2>1, <3>1
  <2>2. CASE u # t
    <3>1. \A g \in Lists : u \in ListOf(x, g) <=> u \in ListOf(r, g)
      BY <2>2
    <3>2. QED BY <2>2, <3>1 DEF Placed
  <2>3. QED BY <2>1, <2>2
<1>2. ASSUME NEW p \in Proc, NEW u \in ListOf(x, p)
      PROVE  ProcOf[u] = p
  BY NodeFacts DEF Placed
<1>3. QED BY <1>1, <1>2 DEF Placed

LEMMA PlacedLeave ==
    ASSUME NEW r, NEW x, NEW R, Placed(r, R), NEW h \in Lists, NEW t \in ListOf(r, h),
           \A g \in Lists : ListOf(x, g) = IF g = h THEN ListOf(r, h) \ {t} ELSE ListOf(r, g)
    PROVE  Placed(x, R \ {t})
<1>0. t \in Thread
  BY DEF ListOf, Ring
<1>1. ASSUME NEW u \in Thread
      PROVE  IF u \in R \ {t}
             THEN \E k \in Lists : \A g \in Lists : u \in ListOf(x, g) <=> g = k
             ELSE \A g \in Lists : u \notin ListOf(x, g)
  <2>1. CASE u = t
    <3>1. PICK k \in Lists : \A g \in Lists : u \in ListOf(r, g) <=> g = k
      BY <2>1, <1>0 DEF Placed
    <3>2. \A g \in Lists : u \notin ListOf(x, g)
      BY <3>1, <2>1
    <3>3. QED BY <2>1, <3>2
  <2>2. CASE u # t
    <3>1. \A g \in Lists : u \in ListOf(x, g) <=> u \in ListOf(r, g)
      BY <2>2
    <3>2. QED BY <2>2, <3>1 DEF Placed
  <2>3. QED BY <2>1, <2>2
<1>2. ASSUME NEW p \in Proc, NEW u \in ListOf(x, p)
      PROVE  ProcOf[u] = p
  BY NodeFacts DEF Placed
<1>3. QED BY <1>1, <1>2 DEF Placed

(* The threads that are counted below a node are finite in number.         *)
LEMMA CountedFinite ==
    ASSUME NEW S \in SUBSET Thread
    PROVE  IsFiniteSet(S) /\ Cardinality(S) \in Nat
BY NodeAssumption, FS_Subset, FS_CardinalityType

(* Which processes are there does not matter to the counts, nor does a     *)
(* thread on a list outside the tree.                                      *)
LEMMA CountedSame ==
    ASSUME NEW r, NEW x, Counted(r), x.nrun = r.nrun,
           \A p \in Proc : ListOf(x, p) = ListOf(r, p)
    PROVE  Counted(x)
BY NodeFacts DEF Counted, InTree

(* t goes to the end of a list outside the tree: sched.c:353-383.          *)
LEMMA JoinClass ==
    ASSUME NEW r, NEW R, NEW P, QueueOf(r, R, P), NEW t \in Thread, t \notin R,
           NEW h \in {Rt, Cheated, Bg}
    PROVE  QueueOf(queue(r, h, t), R \cup {t}, P)
<1> DEFINE x == queue(r, h, t)
<1>1. h \in Lists /\ h \notin Proc
  BY NodeAssumption DEF Lists
<1>2. /\ Shape(x) /\ ProcList(x) = ProcList(r) /\ x.nrun = r.nrun
      /\ \A g \in Lists : ListOf(x, g) = IF g = h THEN ListOf(r, h) \cup {t} ELSE ListOf(r, g)
  BY <1>1, QueueLists DEF QueueOf
<1> HIDE DEF x
<1>3. Placed(x, R \cup {t})
  BY <1>1, <1>2, PlacedJoin DEF QueueOf
<1>4. Counted(x)
  BY <1>1, <1>2, CountedSame, NodeFacts DEF QueueOf
<1>5. QueueOf(x, R \cup {t}, P)
  BY <1>2, <1>3, <1>4 DEF QueueOf
<1>6. QED BY <1>5 DEF x

(* t goes to the end of the list of its process.                           *)
LEMMA JoinTree ==
    ASSUME NEW r, NEW R, NEW P, QueueOf(r, R, P), NEW t \in Thread, t \notin R
    PROVE  QueueOf(Count(queue(r, ProcOf[t], t), t, 1), R \cup {t}, P)
<1> DEFINE h == ProcOf[t] y == queue(r, h, t) x == Count(y, t, 1)
<1>1. h \in Lists /\ h \in Proc /\ t \in Node /\ h \in Node /\ t # h /\ t # Root /\ h # Root
  BY NodeFacts
<1>2. /\ Shape(y) /\ ProcList(y) = ProcList(r) /\ y.nrun = r.nrun
      /\ \A g \in Lists : ListOf(y, g) = IF g = h THEN ListOf(r, h) \cup {t} ELSE ListOf(r, g)
  BY <1>1, QueueLists DEF QueueOf
<1> HIDE DEF y, h
<1>3. /\ Shape(x) /\ ProcList(x) = ProcList(y)
      /\ \A g : ListOf(x, g) = ListOf(y, g)
      /\ \A n \in Node \cup {Root} :
             x.nrun[n] = IF n \in {t, h, Root} THEN y.nrun[n] + 1 ELSE y.nrun[n]
  BY <1>2, CountKeeps DEF h
<1> HIDE DEF x
<1>4. Placed(x, R \cup {t})
  <2>1. \A g \in Lists : ListOf(x, g) = IF g = h THEN ListOf(r, h) \cup {t} ELSE ListOf(r, g)
    BY <1>2, <1>3
  <2>2. QED BY <1>1, <2>1, PlacedJoin DEF QueueOf, h
<1>5. t \notin ListOf(r, h) /\ r.nrun[t] = 0 /\ x.nrun[t] = 1
  BY <1>1, <1>2, <1>3 DEF QueueOf, Placed, Counted, h
<1>6. \A u \in Thread \ {t} : x.nrun[u] = r.nrun[u]
  BY <1>1, <1>2, <1>3, NodeFacts
<1>7. Counted(x)
  <2>1. ASSUME NEW u \in Thread
        PROVE  x.nrun[u] = IF u \in ListOf(x, ProcOf[u]) THEN 1 ELSE 0
    <3>1. CASE u = t
      BY <3>1, <1>1, <1>2, <1>3, <1>5 DEF h
    <3>2. CASE u # t
      <4>1. u \in ListOf(x, ProcOf[u]) <=> u \in ListOf(r, ProcOf[u])
        BY <3>2, <1>1, <1>2, <1>3, NodeFacts
      <4>2. QED BY <4>1, <3>2, <1>6 DEF QueueOf, Counted
    <3>3. QED BY <3>1, <3>2
  <2>2. ASSUME NEW p \in Proc
        PROVE  x.nrun[p] = Cardinality(InTree(x, p))
    <3>1. CASE p = h
      <4>1. InTree(x, p) = InTree(r, p) \cup {t} /\ t \notin InTree(r, p)
        BY <3>1, <1>5, <1>6 DEF InTree, h
      <4>2. Cardinality(InTree(x, p)) = Cardinality(InTree(r, p)) + 1
        BY <4>1, CountedFinite, FS_AddElement DEF InTree
      <4>3. x.nrun[p] = r.nrun[p] + 1
        BY <3>1, <1>1, <1>2, <1>3
      <4>4. QED BY <4>2, <4>3 DEF QueueOf, Counted
    <3>2. CASE p # h
      <4>1. InTree(x, p) = InTree(r, p)
        BY <3>2, <1>6 DEF InTree, h
      <4>2. x.nrun[p] = r.nrun[p]
        BY <3>2, <1>2, <1>3, NodeFacts
      <4>3. QED BY <4>1, <4>2 DEF QueueOf, Counted
    <3>3. QED BY <3>1, <3>2
  <2>3. x.nrun[Root] = Cardinality({u \in Thread : x.nrun[u] = 1})
    <3> DEFINE A == {u \in Thread : r.nrun[u] = 1} B == {u \in Thread : x.nrun[u] = 1}
    <3>1. B = A \cup {t} /\ t \notin A
      BY <1>5, <1>6
    <3>2. Cardinality(B) = Cardinality(A) + 1
      BY <3>1, CountedFinite, FS_AddElement
    <3>3. x.nrun[Root] = r.nrun[Root] + 1
      BY <1>1, <1>2, <1>3
    <3>4. QED BY <3>2, <3>3 DEF QueueOf, Counted
  <2>4. QED BY <2>1, <2>2, <2>3 DEF Counted
<1>8. QueueOf(x, R \cup {t}, P)
  BY <1>2, <1>3, <1>4, <1>7 DEF QueueOf
<1>9. QED BY <1>8 DEF x, y, h

(* t is taken off a list outside the tree: sched.c:219-236, :251-256.      *)
LEMMA LeaveClass ==
    ASSUME NEW r, NEW R, NEW P, QueueOf(r, R, P), NEW h \in {Rt, Cheated, Bg},
           NEW t \in ListOf(r, h)
    PROVE  t \in Thread /\ t \in R /\ QueueOf(dequeue(r, h, t), R \ {t}, P)
<1> DEFINE x == dequeue(r, h, t)
<1>1. h \in Lists /\ h \notin Proc
  BY NodeAssumption DEF Lists
<1>2. /\ Shape(x) /\ ProcList(x) = ProcList(r) /\ x.nrun = r.nrun
      /\ \A g \in Lists : ListOf(x, g) = IF g = h THEN ListOf(r, h) \ {t} ELSE ListOf(r, g)
  BY <1>1, DequeueLists DEF QueueOf
<1> HIDE DEF x
<1>3. Placed(x, R \ {t})
  BY <1>1, <1>2, PlacedLeave DEF QueueOf
<1>4. Counted(x)
  BY <1>1, <1>2, CountedSame, NodeFacts DEF QueueOf
<1>5. QueueOf(x, R \ {t}, P)
  BY <1>2, <1>3, <1>4 DEF QueueOf
<1>6. t \in Thread /\ t \in R
  BY <1>1 DEF QueueOf, Placed, ListOf, Ring
<1>7. QED BY <1>5, <1>6 DEF x

(* t is taken off the list of its process: sched.c:238-248.                *)
LEMMA LeaveTree ==
    ASSUME NEW r, NEW R, NEW P, QueueOf(r, R, P), NEW t \in Thread, t \in ListOf(r, ProcOf[t])
    PROVE  t \in R /\ QueueOf(Count(dequeue(r, ProcOf[t], t), t, -1), R \ {t}, P)
<1> DEFINE h == ProcOf[t] y == dequeue(r, h, t) x == Count(y, t, -1)
<1>1. h \in Lists /\ h \in Proc /\ t \in Node /\ h \in Node /\ t # h /\ t # Root /\ h # Root
  BY NodeFacts
<1>2. /\ Shape(y) /\ ProcList(y) = ProcList(r) /\ y.nrun = r.nrun
      /\ \A g \in Lists : ListOf(y, g) = IF g = h THEN ListOf(r, h) \ {t} ELSE ListOf(r, g)
  BY <1>1, DequeueLists DEF QueueOf
<1>t. t \in ListOf(r, h)
  OBVIOUS
<1> HIDE DEF y, h
<1>3. /\ Shape(x) /\ ProcList(x) = ProcList(y)
      /\ \A g : ListOf(x, g) = ListOf(y, g)
      /\ \A n \in Node \cup {Root} :
             x.nrun[n] = IF n \in {t, h, Root} THEN y.nrun[n] + (-1) ELSE y.nrun[n]
  BY <1>2, CountKeeps DEF h
<1> HIDE DEF x
<1>4. Placed(x, R \ {t})
  <2>1. \A g \in Lists : ListOf(x, g) = IF g = h THEN ListOf(r, h) \ {t} ELSE ListOf(r, g)
    BY <1>2, <1>3
  <2>2. QED BY <1>1, <1>t, <2>1, PlacedLeave DEF QueueOf
<1>5. r.nrun[t] = 1 /\ x.nrun[t] = 0 /\ t \in R
  BY <1>1, <1>2, <1>3, <1>t DEF QueueOf, Placed, Counted, h
<1>6. \A u \in Thread \ {t} : x.nrun[u] = r.nrun[u]
  BY <1>1, <1>2, <1>3, NodeFacts
<1>7. Counted(x)
  <2>1. ASSUME NEW u \in Thread
        PROVE  x.nrun[u] = IF u \in ListOf(x, ProcOf[u]) THEN 1 ELSE 0
    <3>1. CASE u = t
      BY <3>1, <1>1, <1>2, <1>3, <1>5 DEF h
    <3>2. CASE u # t
      <4>1. u \in ListOf(x, ProcOf[u]) <=> u \in ListOf(r, ProcOf[u])
        BY <3>2, <1>1, <1>2, <1>3, NodeFacts
      <4>2. QED BY <4>1, <3>2, <1>6 DEF QueueOf, Counted
    <3>3. QED BY <3>1, <3>2
  <2>2. ASSUME NEW p \in Proc
        PROVE  x.nrun[p] = Cardinality(InTree(x, p))
    <3>1. CASE p = h
      <4>1. InTree(x, p) = InTree(r, p) \ {t} /\ t \in InTree(r, p)
        BY <3>1, <1>5, <1>6 DEF InTree, h
      <4>2. Cardinality(InTree(x, p)) = Cardinality(InTree(r, p)) - 1
        BY <4>1, CountedFinite, FS_RemoveElement DEF InTree
      <4>3. x.nrun[p] = r.nrun[p] - 1
        BY <3>1, <1>1, <1>2, <1>3 DEF QueueOf, Shape, Nodes
      <4>4. QED BY <4>2, <4>3 DEF QueueOf, Counted
    <3>2. CASE p # h
      <4>1. InTree(x, p) = InTree(r, p)
        BY <3>2, <1>6 DEF InTree, h
      <4>2. x.nrun[p] = r.nrun[p]
        BY <3>2, <1>2, <1>3, NodeFacts
      <4>3. QED BY <4>1, <4>2 DEF QueueOf, Counted
    <3>3. QED BY <3>1, <3>2
  <2>3. x.nrun[Root] = Cardinality({u \in Thread : x.nrun[u] = 1})
    <3> DEFINE A == {u \in Thread : r.nrun[u] = 1} B == {u \in Thread : x.nrun[u] = 1}
    <3>1. B = A \ {t} /\ t \in A
      BY <1>5, <1>6
    <3>2. Cardinality(B) = Cardinality(A) - 1
      BY <3>1, CountedFinite, FS_RemoveElement
    <3>3. x.nrun[Root] = r.nrun[Root] - 1
      BY <1>1, <1>2, <1>3 DEF QueueOf, Shape, Nodes
    <3>4. QED BY <3>2, <3>3 DEF QueueOf, Counted
  <2>4. QED BY <2>1, <2>2, <2>3 DEF Counted
<1>8. QueueOf(x, R \ {t}, P)
  BY <1>2, <1>3, <1>4, <1>7 DEF QueueOf
<1>9. QED BY <1>5, <1>8 DEF x, y, h

-----------------------------------------------------------------------------
(* A process joins the tree, and leaves it                                  *)

(* The list of processes changes, and no list of threads.                  *)
LEMMA QueueProc ==
    ASSUME NEW r, NEW x, NEW R, NEW P, NEW Q, QueueOf(r, R, P),
           x \in Nodes, IsList(x, Proc, Root, Q), x.nrun = r.nrun,
           \A h \in Lists : IsList(x, Thread, h, ListOf(r, h))
    PROVE  QueueOf(x, R, Q)
<1>1. \A h \in Lists : ListOf(x, h) = ListOf(r, h)
  BY DEF IsList, ListOf
<1>2. ProcList(x) = Q
  BY DEF IsList, ProcList
<1>3. Shape(x)
  BY <1>1, <1>2 DEF Shape
<1>4. Placed(x, R)
  BY <1>1, NodeFacts DEF QueueOf, Placed
<1>5. Counted(x)
  BY <1>1, NodeFacts, CountedSame DEF QueueOf
<1>6. QED BY <1>2, <1>3, <1>4, <1>5 DEF QueueOf

LEMMA ProcApart ==
    ASSUME NEW r, NEW R, NEW P, QueueOf(r, R, P), NEW h \in Lists
    PROVE  /\ h \in Head /\ h # Root
           /\ IsList(r, Thread, h, ListOf(r, h)) /\ IsList(r, Proc, Root, P)
           /\ ListOf(r, h) \cap P = {} /\ ListOf(r, h) \cap Proc = {}
<1>1. ListOf(r, h) \subseteq Thread /\ ProcList(r) \subseteq Proc
  BY DEF ListOf, ProcList, Ring
<1>2. QED BY <1>1, NodeFacts DEF QueueOf, Shape

(* A new process: proc.c:432, :555.                                        *)
LEMMA JoinRoot ==
    ASSUME NEW r, NEW R, NEW P, QueueOf(r, R, P), NEW p \in Proc, p \notin P
    PROVE  QueueOf(queue(r, Root, p), R, P \cup {p})
<1> DEFINE x == queue(r, Root, p)
<1> Thread \in SUBSET Node /\ Proc \in SUBSET Node /\ Root \in Head /\ p \in Node
  BY NodeFacts
<1>1. r \in Nodes /\ IsList(r, Proc, Root, P)
  BY DEF QueueOf, Shape
<1>2. IsList(x, Proc, Root, P \cup {p}) /\ x \in Nodes
  BY <1>1, QueueOn
<1>3. ASSUME NEW h \in Lists
      PROVE  IsList(x, Thread, h, ListOf(r, h))
  BY <1>1, ProcApart, QueueOther
<1>4. x.nrun = r.nrun
  <2>1. r.down[Root] # None => r.down[Root] \in P /\ r.tl[r.down[Root]] \in P
    BY <1>1 DEF IsList, Round
  <2>2. QED BY <1>1, <2>1, QueueFrame
<1> HIDE DEF x
<1>5. QueueOf(x, R, P \cup {p})
  BY <1>2, <1>3, <1>4, QueueProc
<1>6. QED BY <1>5 DEF x

(* A process with no thread left: sched.c:454-475, from do_exit().         *)
LEMMA LeaveRoot ==
    ASSUME NEW r, NEW R, NEW P, QueueOf(r, R, P), NEW p \in P
    PROVE  QueueOf(dequeue(r, Root, p), R, P \ {p})
<1> DEFINE x == dequeue(r, Root, p)
<1>1. r \in Nodes /\ IsList(r, Proc, Root, P)
  BY DEF QueueOf, Shape
<1> Thread \in SUBSET Node /\ Proc \in SUBSET Node /\ Root \in Head /\ P \in SUBSET Node
  BY <1>1, NodeFacts DEF IsList
<1>2. IsList(x, Proc, Root, P \ {p}) /\ x \in Nodes
  BY <1>1, DequeueOff
<1>3. ASSUME NEW h \in Lists
      PROVE  IsList(x, Thread, h, ListOf(r, h))
  BY <1>1, ProcApart, DequeueOther
<1>4. x.nrun = r.nrun
  <2>1. r.hd[p] \in P /\ r.tl[p] \in P
    BY <1>1 DEF IsList, Round
  <2>2. QED BY <1>1, <2>1, DequeueFrame
<1> HIDE DEF x
<1>5. QueueOf(x, R, P \ {p})
  BY <1>2, <1>3, <1>4, QueueProc
<1>6. QED BY <1>5 DEF x

(* Where a list begins changes only when a node joins or leaves it.        *)
LEMMA QueueHeads ==
    ASSUME NEW r \in Nodes, NEW h \in Head, NEW s \in Node, NEW g \in Head, g # h
    PROVE  queue(r, h, s).down[g] = r.down[g]
<1> DEFINE L == {r.down[h], r.tl[r.down[h]]}
<1>1. r.down[h] # None => r.down[h] \in L /\ r.tl[r.down[h]] \in L
  OBVIOUS
<1> HIDE DEF L
<1>2. QED BY <1>1, QueueFrame

LEMMA DequeueHeads ==
    ASSUME NEW r \in Nodes, NEW N \in SUBSET Node, NEW h \in Head, NEW L,
           IsList(r, N, h, L), NEW s \in L, NEW g \in Head, g # h
    PROVE  dequeue(r, h, s).down[g] = r.down[g]
<1>1. r.hd[s] \in L /\ r.tl[s] \in L /\ L \in SUBSET Node
  BY DEF IsList, Round
<1>2. QED BY <1>1, DequeueFrame

-----------------------------------------------------------------------------
(* The inductive invariant                                                  *)

Runnable == {t \in Thread : state[t] = "run"}
Active == {t \in Thread : state[t] \in {"run", "onproc"}}
Procs == {p \in Proc : \E t \in Thread :
             ProcOf[t] = p /\ state[t] # "none" /\ ~ (cpu.pc = "exit" /\ cpu.cur = t)}

(* The run queue is that of the threads that are ready; the CPU has the    *)
(* thread that is on it, which is counted with them.                       *)
IInv ==
    /\ TypeOK
    /\ QueueOf(q, Runnable, Procs)
    /\ num_run = Cardinality(Active)
    /\ \A t \in Thread : state[t] = "onproc" <=> (cpu.pc \in {"run", "exit"} /\ cpu.cur = t)
    /\ cpu.pc \in {"run", "exit"} => cpu.cur \in Thread
    /\ PreemptPending

(* setrun(), with what it tells about preemption.                          *)
LEMMA ReadyJoins ==
    ASSUME TypeOK, NEW R, NEW P, QueueOf(q, R, P), NEW t \in Thread, t \notin R
    PROVE  /\ QueueOf(Ready(t), R \cup {t}, P)
           /\ Ready(t).down[Rt] # q.down[Rt] => Preempts(t)
           /\ Ready(t).down[Cheated] # q.down[Cheated] => Preempts(t) \/ cpu.pri >= 3
<1>1. q \in Nodes /\ cpu.pri \in Int
  BY DEF TypeOK, Nodes, Priority
<1>2. /\ Rt # Cheated /\ Rt # Bg /\ Cheated # Bg /\ t \in Node /\ ProcOf[t] \in Lists
      /\ ProcOf[t] # Rt /\ ProcOf[t] # Cheated
      /\ {Rt, Cheated, Bg, ProcOf[t]} \subseteq Head
  BY NodeFacts, NodeAssumption
<1>3. CASE cls[t] = "rt"
  <2>1. Ready(t) = queue(q, Rt, t) /\ Preempts(t)
    BY <1>3 DEF Ready, Preempts
  <2>2. QED BY <2>1, JoinClass
<1>4. CASE cls[t] = "bg"
  <2>1. Ready(t) = queue(q, Bg, t)
    BY <1>4 DEF Ready
  <2>2. QED BY <1>1, <1>2, <2>1, JoinClass, QueueHeads
<1>5. CASE cls[t] = "ts" /\ Cheats(t)
  <2>1. Ready(t) = queue(q, Cheated, t) /\ (Preempts(t) \/ cpu.pri >= 3)
    BY <1>1, <1>5 DEF Ready, Preempts
  <2>2. QED BY <1>1, <1>2, <2>1, JoinClass, QueueHeads
<1>6. CASE cls[t] = "ts" /\ ~ Cheats(t)
  <2>1. Ready(t) = Count(queue(q, ProcOf[t], t), t, 1)
    BY <1>6 DEF Ready
  <2>2. Ready(t).down = queue(q, ProcOf[t], t).down
    <3>1. ProcOf[t] \in Lists
      BY <1>2
    <3>2. queue(q, ProcOf[t], t) \in Nodes
      BY <3>1, QueueLists DEF QueueOf, Shape
    <3> HIDE DEF queue
    <3>3. QED BY <2>1, <3>2 DEF Count, Nodes
  <2>3. Ready(t).down[Rt] = q.down[Rt] /\ Ready(t).down[Cheated] = q.down[Cheated]
    BY <1>1, <1>2, <2>2, QueueHeads
  <2>4. QED BY <2>1, <2>3, JoinTree
<1>7. cls[t] \in {"ts", "rt", "bg"}
  BY DEF TypeOK
<1>8. QED BY <1>3, <1>4, <1>5, <1>6, <1>7

-----------------------------------------------------------------------------
(* The steps                                                                *)

(* One thread more, or one less, that runs or is ready.                    *)
LEMMA OneMore ==
    ASSUME NEW S \in SUBSET Thread, NEW t, t \notin S
    PROVE  Cardinality(S \cup {t}) = Cardinality(S) + 1
BY CountedFinite, FS_AddElement

LEMMA OneLess ==
    ASSUME NEW S \in SUBSET Thread, NEW t \in S
    PROVE  Cardinality(S \ {t}) = Cardinality(S) - 1
BY CountedFinite, FS_RemoveElement

LEMMA InitIInv == Init => IInv
<1> SUFFICES ASSUME Init PROVE IInv
  OBVIOUS
<1>1. TypeOK
  BY EnvAssumption, TickAssumption DEF Init, TypeOK, Priority
<1>2. Runnable = {} /\ Procs = {} /\ Active = {}
  BY DEF Init, Runnable, Procs, Active
<1>3. QueueOf(q, {}, {})
  <2>1. \A h \in Head : q.down[h] = None
    BY DEF Init
  <2>2. \A h \in Lists : ListOf(q, h) = {}
    BY <2>1, NodeFacts DEF ListOf, Ring
  <2>3. ProcList(q) = {}
    BY <2>1, NodeFacts DEF ProcList, Ring
  <2>4. Shape(q)
    <3>1. q \in Nodes
      BY <1>1 DEF TypeOK, Nodes
    <3>2. \A h \in Lists : IsList(q, Thread, h, {})
      BY <2>1, <2>2, NodeFacts DEF IsList, Round, ListOf
    <3>3. IsList(q, Proc, Root, {})
      BY <2>1, <2>3, NodeFacts DEF IsList, Round, ProcList
    <3>4. QED BY <2>2, <2>3, <3>1, <3>2, <3>3 DEF Shape
  <2>5. Placed(q, {})
    BY <2>2, NodeFacts DEF Placed
  <2>6. Counted(q)
    <3>1. \A n \in Node \cup {Root} : q.nrun[n] = 0
      BY DEF Init
    <3>2. \A p \in Proc : InTree(q, p) = {}
      BY <3>1, NodeFacts DEF InTree
    <3>3. {t \in Thread : q.nrun[t] = 1} = {}
      BY <3>1, NodeFacts
    <3>4. QED BY <2>2, <3>1, <3>2, <3>3, NodeFacts, FS_EmptySet DEF Counted
  <2>7. QED BY <2>3, <2>4, <2>5, <2>6 DEF QueueOf
<1>4. num_run = Cardinality(Active)
  BY <1>2, FS_EmptySet DEF Init
<1>5. QED BY <1>1, <1>2, <1>3, <1>4 DEF Init, IInv, PreemptPending

LEMMA WakeStep ==
    ASSUME IInv, NEW t \in Thread, Wake(t)
    PROVE  IInv'
<1>1. t \notin Runnable /\ Runnable' = Runnable \cup {t} /\ Procs' = Procs
  BY DEF IInv, TypeOK, Wake, Runnable, Procs
<1>2. /\ QueueOf(q', Runnable', Procs')
      /\ q'.down[Rt] # q.down[Rt] => Preempts(t)
      /\ q'.down[Cheated] # q.down[Cheated] => Preempts(t) \/ cpu.pri >= 3
  <2>1. q' = Ready(t) /\ TypeOK /\ QueueOf(q, Runnable, Procs)
    BY DEF IInv, Wake
  <2>2. QED BY <1>1, <2>1, ReadyJoins
<1>3. TypeOK'
  <2>1. q' \in Nodes
    BY <1>2 DEF QueueOf, Shape
  <2>2. Preempts(t) \in BOOLEAN
    BY DEF Preempts
  <2>3. QED BY <2>1, <2>2 DEF IInv, TypeOK, Wake, Nodes, attrs
<1>4. num_run' = Cardinality(Active')
  <2>1. Active' = Active \cup {t} /\ t \notin Active /\ Active \in SUBSET Thread
    BY DEF IInv, TypeOK, Wake, Active
  <2>2. QED BY <2>1, OneMore DEF IInv, Wake
<1>5. PreemptPending'
  <2>1. cpu.preempt => cpu'.preempt
    BY DEF IInv, TypeOK, Wake
  <2>2. Preempts(t) => cpu'.preempt
    BY DEF IInv, TypeOK, Wake
  <2>3. cpu'.pc = cpu.pc /\ cpu'.pri = cpu.pri /\ cpu.pri \in 0..4
    BY DEF IInv, TypeOK, Wake, Priority
  <2>4. PreemptPending
    BY DEF IInv
  <2>5. QED BY <1>2, <2>1, <2>2, <2>3, <2>4 DEF PreemptPending
<1>6. QED BY <1>1, <1>2, <1>3, <1>4, <1>5 DEF IInv, TypeOK, Wake

LEMMA SleepStep ==
    ASSUME IInv, Sleep
    PROVE  IInv'
<1> DEFINE t == cpu.cur
<1>1. t \in Thread /\ state[t] = "onproc" /\ cpu.pc = "run"
  BY DEF IInv, Sleep, Running
<1>2. Runnable' = Runnable /\ Procs' = Procs /\ q' = q
  BY <1>1 DEF IInv, TypeOK, Sleep, Switch, Runnable, Procs
<1>3. TypeOK'
  <2>1. oink' \in [Thread -> 0..MaxOink]
    BY <1>1, TickAssumption DEF IInv, TypeOK, Sleep
  <2>2. cpu' \in [pc : {"boot", "run", "swtch", "idle", "exit"}, cur : Thread \cup {None},
                  pri : Priority, preempt : BOOLEAN]
    BY DEF IInv, TypeOK, Sleep, Switch
  <2>3. state' \in [Thread -> {"none", "sleep", "run", "onproc"}]
    BY <1>1 DEF IInv, TypeOK, Sleep
  <2>5. num_run' \in Int
    BY DEF IInv, TypeOK, Sleep
  <2>4. QED BY <2>1, <2>2, <2>3, <2>5 DEF IInv, TypeOK, Sleep
<1>4. num_run' = Cardinality(Active')
  <2>1. Active' = Active \ {t} /\ t \in Active /\ Active \in SUBSET Thread
    BY <1>1 DEF IInv, TypeOK, Sleep, Active
  <2>2. QED BY <2>1, OneLess DEF IInv, Sleep
<1>5. QED BY <1>1, <1>2, <1>3, <1>4 DEF IInv, TypeOK, Sleep, Switch, PreemptPending

LEMMA TimesliceStep ==
    ASSUME IInv, Timeslice
    PROVE  IInv'
<1> DEFINE t == cpu.cur
<1>1. t \in Thread /\ state[t] = "onproc" /\ cpu.pc = "run"
  BY DEF IInv, Timeslice, Running
<1>2. t \notin Runnable /\ Runnable' = Runnable \cup {t} /\ Procs' = Procs
  BY <1>1 DEF IInv, TypeOK, Timeslice, Switch, Runnable, Procs
<1>3. QueueOf(q', Runnable', Procs')
  <2>1. q' = Ready(t) /\ TypeOK /\ QueueOf(q, Runnable, Procs)
    BY DEF IInv, Timeslice
  <2>2. QED BY <1>1, <1>2, <2>1, ReadyJoins
<1>4. TypeOK'
  <2>1. q' \in Nodes
    BY <1>3 DEF QueueOf, Shape
  <2>2. QED BY <2>1 DEF IInv, TypeOK, Timeslice, Switch, Nodes, attrs
<1>5. Active' = Active /\ num_run' = num_run
  BY <1>1 DEF IInv, TypeOK, Timeslice, Active
<1>6. QED BY <1>1, <1>2, <1>3, <1>4, <1>5 DEF IInv, TypeOK, Timeslice, Switch, PreemptPending

(* A step that leaves the queue and the states of the threads alone.       *)
LEMMA QuietStep ==
    ASSUME IInv, TypeOK', UNCHANGED <<q, state, num_run>>,
           cpu'.pc = "exit" <=> cpu.pc = "exit",
           cpu'.pc \in {"run", "exit"} <=> cpu.pc \in {"run", "exit"},
           cpu'.pc \in {"run", "exit"} => cpu'.cur = cpu.cur, PreemptPending'
    PROVE  IInv'
<1>1. Runnable' = Runnable /\ Active' = Active
  BY DEF Runnable, Active
<1>2. Procs' = Procs
  BY DEF Procs
<1>3. QED BY <1>1, <1>2 DEF IInv

LEMMA TickStep ==
    ASSUME IInv, Tick
    PROVE  IInv'
<1>1. TypeOK'
  <2>1. cpu.cur \in Thread
    BY DEF IInv, Tick
  <2>2. ticks' \in [Thread -> 0..RunTicks] /\ ticks'[cpu.cur] \in Int
    BY <2>1, TickAssumption DEF IInv, TypeOK, Tick
  <2>3. oink' \in [Thread -> 0..MaxOink]
    BY <2>1, TickAssumption DEF IInv, TypeOK, Tick
  <2>4. cpu' \in [pc : {"boot", "run", "swtch", "idle", "exit"}, cur : Thread \cup {None},
                  pri : Priority, preempt : BOOLEAN]
    <3>1. (cpu.preempt \/ ticks'[cpu.cur] = 0) \in BOOLEAN
      OBVIOUS
    <3>2. QED BY <3>1 DEF IInv, TypeOK, Tick
  <2>5. QED BY <2>2, <2>3, <2>4 DEF IInv, TypeOK, Tick
<1>2. PreemptPending'
  BY DEF IInv, TypeOK, PreemptPending, Tick
<1>3. QED BY <1>1, <1>2, QuietStep DEF IInv, TypeOK, Tick

LEMMA SetPrioStep ==
    ASSUME IInv, NEW pri \in 1..4, NEW u \in Thread \cup {None}, SetPrio(pri, u)
    PROVE  IInv'
<1>1. TypeOK'
  <2>1. cls' \in [Thread -> {"ts", "rt", "bg"}]
    BY DEF IInv, TypeOK, SetPrio
  <2>2. cpu' \in [pc : {"boot", "run", "swtch", "idle", "exit"}, cur : Thread \cup {None},
                  pri : Priority, preempt : BOOLEAN]
    <3>1. (cpu.preempt \/ cpu.pri > pri) \in BOOLEAN /\ pri \in Priority
      BY DEF Priority
    <3>2. QED BY <3>1 DEF IInv, TypeOK, SetPrio
  <2>3. QED BY <2>1, <2>2 DEF IInv, TypeOK, SetPrio
<1>3. cpu'.pc = cpu.pc /\ cpu'.cur = cpu.cur
  BY DEF IInv, TypeOK, SetPrio
<1>2. PreemptPending'
  <2>1. /\ cpu.preempt => cpu'.preempt
        /\ cpu.pri > pri => cpu'.preempt
        /\ cpu'.pri = pri /\ q' = q
    BY DEF IInv, TypeOK, SetPrio
  <2>2. cpu.pri \in Int /\ pri \in Int /\ PreemptPending
    BY DEF IInv, TypeOK, Priority
  <2>3. QED BY <1>3, <2>1, <2>2 DEF PreemptPending
<1>4. QED BY <1>1, <1>2, <1>3, QuietStep DEF SetPrio

LEMMA IdleStep ==
    ASSUME IInv, GoIdle \/ LeaveIdle \/ Start
    PROVE  IInv'
<1>1. /\ UNCHANGED <<q, state, num_run>>
      /\ cpu.pc \in {"swtch", "idle", "boot"} /\ cpu'.pc \in {"swtch", "idle"}
  BY DEF IInv, TypeOK, GoIdle, LeaveIdle, Start, Switch
<1>2. TypeOK'
  BY DEF IInv, TypeOK, GoIdle, LeaveIdle, Start, Switch, attrs
<1>3. PreemptPending'
  BY <1>1 DEF PreemptPending
<1>4. QED BY <1>1, <1>2, <1>3, QuietStep

(* What the steps that take a thread off the queue have in common.         *)
LEMMA RunItStep ==
    ASSUME IInv, cpu.pc = "swtch", NEW t \in Runnable, NEW r, NEW pri \in {1, 2, 3, 4},
           RunIt(t, r, pri), QueueOf(r, Runnable \ {t}, Procs),
           pri < 4 => r.down[Rt] = None, pri < 3 => r.down[Cheated] = None
    PROVE  IInv'
<1>1. t \in Thread /\ state[t] = "run"
  BY DEF Runnable
<1>2. Runnable' = Runnable \ {t} /\ Procs' = Procs /\ Active' = Active /\ num_run' = num_run
  <2>1. state' = [state EXCEPT ![t] = "onproc"] /\ state \in [Thread -> {"none", "sleep", "run", "onproc"}]
        /\ cpu'.pc = "run" /\ num_run' = num_run
    BY DEF IInv, TypeOK, RunIt
  <2>2. QED BY <1>1, <2>1 DEF Runnable, Procs, Active
<1>3. TypeOK'
  <2>1. q' \in Nodes
    BY DEF RunIt, QueueOf, Shape
  <2>2. ticks' \in [Thread -> 0..RunTicks]
    <3>1. ticks \in [Thread -> 0..RunTicks] /\ RunTicks \in 0..RunTicks
      BY TickAssumption DEF IInv, TypeOK
    <3>2. CASE pri = 3
      BY <1>1, <3>1, <3>2 DEF RunIt
    <3>3. CASE pri # 3
      BY <1>1, <3>1, <3>3 DEF RunIt
    <3>4. QED BY <3>2, <3>3
  <2>3. cpu' \in [pc : {"boot", "run", "swtch", "idle", "exit"}, cur : Thread \cup {None},
                  pri : Priority, preempt : BOOLEAN]
    <3>1. pri \in Priority
      BY DEF Priority
    <3>2. QED BY <1>1, <3>1 DEF IInv, TypeOK, RunIt
  <2>4. QED BY <1>1, <2>1, <2>2, <2>3 DEF IInv, TypeOK, RunIt, Nodes
<1>4. cpu'.pc = "run" /\ cpu'.cur = t /\ cpu'.pri = pri /\ q' = r
  BY DEF IInv, TypeOK, RunIt
<1>5. PreemptPending'
  BY <1>4 DEF PreemptPending
<1>6. \A u \in Thread : state'[u] = "onproc" <=> (cpu'.pc \in {"run", "exit"} /\ cpu'.cur = u)
  BY <1>1, <1>4 DEF IInv, TypeOK, RunIt
<1>7. QED BY <1>1, <1>2, <1>3, <1>4, <1>5, <1>6 DEF IInv

(* The first thread of a list that is not empty is on it.                  *)
LEMMA FirstOn ==
    ASSUME NEW r, NEW R, NEW P, QueueOf(r, R, P), NEW h \in {Rt, Cheated, Bg}, r.down[h] # None
    PROVE  r.down[h] \in ListOf(r, h) /\ h \in Lists
BY DEF QueueOf, Shape, IsList, Lists

(* A thread that leaves another list leaves those of higher classes empty. *)
LEMMA LeaveHeads ==
    ASSUME NEW r, NEW R, NEW P, QueueOf(r, R, P), NEW h \in Lists, NEW t \in ListOf(r, h),
           NEW g \in {Rt, Cheated}, g # h
    PROVE  dequeue(r, h, t).down[g] = r.down[g]
<1>1. r \in Nodes /\ Thread \in SUBSET Node /\ g \in Head
  BY NodeFacts DEF QueueOf, Shape
<1> DEFINE L == ListOf(r, h)
<1>2. IsList(r, Thread, h, L) /\ h \in Head /\ t \in L
  BY ProcApart
<1> HIDE DEF L
<1>3. r.hd[t] \in L /\ r.tl[t] \in L /\ L \in SUBSET Node /\ g \in Head \ {h}
  BY <1>1, <1>2 DEF IsList, Round
<1>4. QED BY <1>1, <1>2, <1>3, DequeueFrame

LEMMA PickStep ==
    ASSUME IInv, NEW t \in Thread, Pick(t)
    PROVE  IInv'
<1>1. cpu.pc = "swtch" /\ QueueOf(q, Runnable, Procs) /\ q \in Nodes
  BY DEF IInv, Pick, QueueOf, Shape
<1>2. /\ Rt # Cheated /\ Rt # Bg /\ Cheated # Bg /\ ProcOf[t] \in Lists
      /\ ProcOf[t] # Rt /\ ProcOf[t] # Cheated
  BY NodeFacts, NodeAssumption
<1>4. CASE q.down[Rt] # None
  <2>1. t = q.down[Rt] /\ RunIt(t, dequeue(q, Rt, t), 4)
    BY <1>4 DEF Pick
  <2>2. t \in Runnable /\ QueueOf(dequeue(q, Rt, t), Runnable \ {t}, Procs)
    BY <1>1, <1>4, <2>1, FirstOn, LeaveClass
  <2>3. QED BY <1>1, <2>1, <2>2, RunItStep
<1>5. CASE q.down[Rt] = None /\ q.down[Cheated] # None
  <2>1. t = q.down[Cheated] /\ RunIt(t, dequeue(q, Cheated, t), 3)
    BY <1>5 DEF Pick
  <2>2. t \in ListOf(q, Cheated) /\ Cheated \in Lists
    BY <1>1, <1>5, <2>1, FirstOn
  <2>3. t \in Runnable /\ QueueOf(dequeue(q, Cheated, t), Runnable \ {t}, Procs)
    BY <1>1, <2>2, LeaveClass
  <2>4. dequeue(q, Cheated, t).down[Rt] = None
    BY <1>1, <1>2, <1>5, <2>2, LeaveHeads
  <2>5. 3 \in {1, 2, 3, 4} /\ ~ (3 < 3)
    OBVIOUS
  <2>6. QED BY <1>1, <2>1, <2>3, <2>4, <2>5, RunItStep
<1>6. CASE q.down[Rt] = None /\ q.down[Cheated] = None /\ q.nrun[Root] > 0
  <2> DEFINE y == dequeue(q, ProcOf[t], t) x == Count(y, t, -1)
  <2>1. Candidate(t) /\ RunIt(t, x, 2)
    BY <1>6 DEF Pick
  <2>2. t \in ListOf(q, ProcOf[t])
    BY <2>1 DEF Candidate, ListOf
  <2>3. t \in Runnable /\ QueueOf(x, Runnable \ {t}, Procs)
    BY <1>1, <2>2, LeaveTree
  <2>4. y.down[Rt] = None /\ y.down[Cheated] = None
    BY <1>1, <1>2, <1>6, <2>2, LeaveHeads
  <2>5. x.down = y.down
    <3>1. y \in Nodes
      BY <1>1, <1>2, <2>2, DequeueLists DEF QueueOf, Shape
    <3> HIDE DEF y
    <3>2. QED BY <3>1 DEF Count, Nodes
  <2> HIDE DEF x, y
  <2>6. QED BY <1>1, <2>1, <2>3, <2>4, <2>5, RunItStep
<1>7. CASE q.down[Rt] = None /\ q.down[Cheated] = None /\ ~ (q.nrun[Root] > 0)
  <2>1. q.down[Bg] # None /\ t = q.down[Bg] /\ RunIt(t, dequeue(q, Bg, t), 1)
    BY <1>7 DEF Pick
  <2>2. t \in ListOf(q, Bg) /\ Bg \in Lists
    BY <1>1, <2>1, FirstOn
  <2>3. t \in Runnable /\ QueueOf(dequeue(q, Bg, t), Runnable \ {t}, Procs)
    BY <1>1, <2>2, LeaveClass
  <2>4. dequeue(q, Bg, t).down[Rt] = None /\ dequeue(q, Bg, t).down[Cheated] = None
    BY <1>1, <1>2, <1>7, <2>2, LeaveHeads
  <2>5. QED BY <1>1, <2>1, <2>3, <2>4, RunItStep
<1>8. QED BY <1>4, <1>5, <1>6, <1>7

LEMMA BootProcStep ==
    ASSUME IInv, NEW t \in Thread, BootProc(t)
    PROVE  IInv'
<1> DEFINE p == ProcOf[t] x == queue(q, Root, p)
<1>1. p \in Proc /\ p \in Lists /\ p \notin Procs /\ t \notin Runnable /\ state[t] = "none"
  BY NodeFacts DEF BootProc, Lives, Procs, Runnable
<1>2. Runnable' = Runnable \cup {t} /\ Procs' = Procs \cup {p}
  BY <1>1 DEF IInv, TypeOK, BootProc, Runnable, Procs
<1>3. QueueOf(x, Runnable, Procs \cup {p})
  BY <1>1, JoinRoot DEF IInv
<1>4. QueueOf(q', Runnable', Procs')
  <2>1. q' = Count(queue(x, ProcOf[t], t), t, 1)
    BY DEF BootProc
  <2> HIDE DEF x
  <2>2. QED BY <1>1, <1>2, <1>3, <2>1, JoinTree
<1>5. TypeOK'
  <2>1. q' \in Nodes
    BY <1>4 DEF QueueOf, Shape
  <2>2. QED BY <2>1 DEF IInv, TypeOK, BootProc, Nodes, attrs
<1>6. num_run' = Cardinality(Active')
  <2>1. Active' = Active \cup {t} /\ t \notin Active /\ Active \in SUBSET Thread
    BY <1>1 DEF IInv, TypeOK, BootProc, Active
  <2>2. QED BY <2>1, OneMore DEF IInv, BootProc
<1>7. QED BY <1>1, <1>4, <1>5, <1>6 DEF IInv, TypeOK, BootProc, PreemptPending

(* A thread that was not there sleeps: the queue of threads is the same.   *)
LEMMA BornStep ==
    ASSUME IInv, NEW t \in Thread, state[t] = "none", state' = [state EXCEPT ![t] = "sleep"],
           UNCHANGED <<cpu, num_run>>, TypeOK', QueueOf(q', Runnable, Procs'), PreemptPending'
    PROVE  IInv'
<1>1. Runnable' = Runnable /\ Active' = Active
  BY DEF IInv, TypeOK, Runnable, Active
<1>2. \A u \in Thread : state'[u] = "onproc" <=> state[u] = "onproc"
  BY DEF IInv, TypeOK
<1>3. QED BY <1>1, <1>2 DEF IInv

LEMMA ForkThreadStep ==
    ASSUME IInv, NEW t \in Thread, ForkThread(t)
    PROVE  IInv'
<1>1. cpu.cur \in Thread /\ cpu.pc = "run" /\ state[cpu.cur] = "onproc" /\ cpu' = cpu
  BY DEF IInv, ForkThread, Running
<1>2. Procs' = Procs
  BY <1>1 DEF IInv, TypeOK, ForkThread, Procs
<1>3. TypeOK'
  BY <1>1, TickAssumption DEF IInv, TypeOK, ForkThread
<1>4. PreemptPending'
  BY DEF IInv, PreemptPending, ForkThread
<1>5. QED BY <1>2, <1>3, <1>4, BornStep DEF IInv, ForkThread

LEMMA ForkProcStep ==
    ASSUME IInv, NEW t \in Thread, ForkProc(t)
    PROVE  IInv'
<1> DEFINE p == ProcOf[t]
<1>1. /\ cpu.cur \in Thread /\ cpu.pc = "run" /\ cpu' = cpu
      /\ p \in Proc /\ p \notin Procs /\ p \in Node /\ state[t] = "none"
  BY NodeFacts DEF IInv, ForkProc, Running, Lives, Procs
<1>2. Procs' = Procs \cup {p}
  BY <1>1 DEF IInv, TypeOK, ForkProc, Procs
<1>3. QueueOf(q', Runnable, Procs')
  BY <1>1, <1>2, JoinRoot DEF IInv, ForkProc
<1>4. TypeOK'
  <2>1. q' \in Nodes
    BY <1>3 DEF QueueOf, Shape
  <2>2. QED BY <1>1, <2>1, TickAssumption DEF IInv, TypeOK, ForkProc, Nodes
<1>5. PreemptPending'
  <2>1. q \in Nodes /\ Root \in Head /\ {Rt, Cheated} \subseteq Head /\ Rt # Root /\ Cheated # Root
    BY NodeAssumption, NodeFacts DEF IInv, TypeOK, Nodes
  <2>2. q'.down[Rt] = q.down[Rt] /\ q'.down[Cheated] = q.down[Cheated]
    BY <1>1, <2>1, QueueHeads DEF ForkProc
  <2>3. QED BY <1>1, <2>2 DEF IInv, PreemptPending
<1>6. QED BY <1>1, <1>3, <1>4, <1>5, BornStep DEF ForkProc

LEMMA ExitStep ==
    ASSUME IInv, Exit
    PROVE  IInv'
<1> DEFINE t == cpu.cur p == ProcOf[t]
           last == \A u \in Thread \ {t} : ProcOf[u] = p => state[u] = "none"
<1>1. t \in Thread /\ cpu.pc = "run" /\ state[t] = "onproc" /\ p \in Proc /\ p \in Procs
  BY NodeFacts DEF IInv, Exit, Running, Procs
<1>2. cpu'.pc = "exit" /\ cpu'.cur = t /\ state' = state /\ num_run' = num_run
  BY DEF IInv, TypeOK, Exit
<1>3. Runnable' = Runnable /\ Active' = Active
  BY <1>2 DEF Runnable, Active
<1>4. Procs' = IF last THEN Procs \ {p} ELSE Procs
  BY <1>1, <1>2 DEF Procs
<1>5. QueueOf(q', Runnable', Procs')
  <2>1. q' = IF last THEN dequeue(q, Root, p) ELSE q
    BY DEF Exit
  <2>2. QueueOf(q, Runnable, Procs)
    BY DEF IInv
  <2>3. QED BY <1>1, <1>3, <1>4, <2>1, <2>2, LeaveRoot
<1>6. TypeOK'
  <2>1. q' \in Nodes
    BY <1>5 DEF QueueOf, Shape
  <2>2. QED BY <2>1 DEF IInv, TypeOK, Exit, Nodes, attrs
<1>7. PreemptPending'
  BY <1>2 DEF PreemptPending
<1>8. QED BY <1>1, <1>2, <1>3, <1>5, <1>6, <1>7 DEF IInv

LEMMA ExitDoneStep ==
    ASSUME IInv, ExitDone
    PROVE  IInv'
<1> DEFINE t == cpu.cur
<1>1. t \in Thread /\ cpu.pc = "exit" /\ state[t] = "onproc" /\ q' = q
  BY DEF IInv, ExitDone
<1>2. /\ cpu'.pc = "swtch" /\ state' = [state EXCEPT ![t] = "none"]
      /\ state \in [Thread -> {"none", "sleep", "run", "onproc"}]
  BY DEF IInv, TypeOK, ExitDone, Switch
<1>3. Runnable' = Runnable
  BY <1>1, <1>2 DEF Runnable
<1>4. Procs' = Procs
  BY <1>1, <1>2 DEF Procs
<1>5. TypeOK'
  <2>1. ticks' \in [Thread -> 0..RunTicks] /\ oink' \in [Thread -> 0..MaxOink]
    BY <1>1, TickAssumption DEF IInv, TypeOK, ExitDone
  <2>2. state' \in [Thread -> {"none", "sleep", "run", "onproc"}]
    BY <1>2
  <2>3. cpu' \in [pc : {"boot", "run", "swtch", "idle", "exit"}, cur : Thread \cup {None},
                  pri : Priority, preempt : BOOLEAN]
    BY DEF IInv, TypeOK, ExitDone, Switch
  <2>4. cls' \in [Thread -> {"ts", "rt", "bg"}] /\ num_run' \in Int
    BY DEF IInv, TypeOK, ExitDone
  <2>5. QED BY <2>1, <2>2, <2>3, <2>4 DEF IInv, TypeOK, ExitDone
<1>6. num_run' = Cardinality(Active')
  <2>1. Active' = Active \ {t} /\ t \in Active /\ Active \in SUBSET Thread
    BY <1>1, <1>2 DEF Active
  <2>2. QED BY <2>1, OneLess DEF IInv, ExitDone
<1>7. \A u \in Thread : state'[u] # "onproc"
  BY <1>1, <1>2 DEF IInv
<1>8. QED BY <1>1, <1>2, <1>3, <1>4, <1>5, <1>6, <1>7 DEF IInv, PreemptPending

LEMMA NextIInv == IInv /\ [Next]_vars => IInv'
<1> SUFFICES ASSUME IInv, [Next]_vars PROVE IInv'
  OBVIOUS
<1>1. CASE UNCHANGED vars
  BY <1>1 DEF vars, attrs, IInv, TypeOK, Runnable, Procs, Active, PreemptPending
<1>2. CASE \E t \in Thread : Wake(t) \/ Pick(t) \/ BootProc(t) \/ ForkThread(t) \/ ForkProc(t)
  BY <1>2, WakeStep, PickStep, BootProcStep, ForkThreadStep, ForkProcStep
<1>3. CASE \E pri \in 1..4, u \in Thread \cup {None} : SetPrio(pri, u)
  BY <1>3, SetPrioStep
<1>4. CASE Preempt \/ Yield
  BY <1>4, TimesliceStep DEF Preempt, Yield
<1>5. CASE Sleep \/ Tick \/ Exit \/ ExitDone
  BY <1>5, SleepStep, TickStep, ExitStep, ExitDoneStep
<1>6. CASE GoIdle \/ LeaveIdle \/ Start
  BY <1>6, IdleStep
<1>7. QED BY <1>1, <1>2, <1>3, <1>4, <1>5, <1>6 DEF Next

THEOREM Invariant == Spec => []IInv
<1>1. QED BY InitIInv, NextIInv, PTL DEF Spec

-----------------------------------------------------------------------------
(* The properties                                                           *)

(* The variables hold what they should: s_nrun and num_run are numbers,    *)
(* ticks and overuse stay in their ranges (xclock.c:205-222).              *)
THEOREM TypeCorrect == Spec => []TypeOK
<1>1. IInv => TypeOK
  BY DEF IInv
<1>2. QED BY <1>1, Invariant, PTL

(* Whatever the order of sleeps, wakeups, forks and exits, a ready thread  *)
(* is on exactly one list, its own process's if it is in the tree, and no  *)
(* other thread is on any: queue() and dequeue() (sched.c:36-82) are never *)
(* called on a list the node is, or is not, on.                            *)
THEOREM ReadyIsQueued == Spec => []RunnableQueued
<1>1. IInv => RunnableQueued
  <2> SUFFICES ASSUME IInv PROVE RunnableQueued
    OBVIOUS
  <2>1. Placed(q, Runnable) /\ ProcList(q) = Procs
    BY DEF IInv, QueueOf
  <2>2. \A h : List(h) = ListOf(q, h)
    BY DEF List, ListOf
  <2>3. \A t \in Thread :
            IF state[t] = "run" THEN \E h \in Lists : \A g \in Lists : t \in List(g) <=> g = h
            ELSE \A h \in Lists : t \notin List(h)
    BY <2>1, <2>2 DEF Placed, Runnable
  <2>4. \A p \in Proc : \A t \in List(p) : ProcOf[t] = p
    BY <2>1, <2>2 DEF Placed
  <2>5. cpu.pc # "exit" => Procs = {p \in Proc : Lives(p)}
    BY DEF Procs, Lives
  <2>6. QED BY <2>1, <2>3, <2>4, <2>5 DEF RunnableQueued, ProcList
<1>2. QED BY <1>1, Invariant, PTL

(* s_nrun is the number of leaves on the lists below a node, num_run that  *)
(* of the threads that run or are ready.                                   *)
THEOREM CountsAgree == Spec => []Counts
<1>1. IInv => Counts
  <2> SUFFICES ASSUME IInv PROVE Counts
    OBVIOUS
  <2>1. Counted(q) /\ num_run = Cardinality(Active)
    BY DEF IInv, QueueOf
  <2>2. /\ \A h : List(h) = ListOf(q, h)
        /\ \A p : Queued(p) = InTree(q, p)
    BY DEF List, ListOf, Queued, InTree
  <2>3. QED BY <2>1, <2>2, NodeFacts DEF Counts, Counted, Active
<1>2. QED BY <1>1, Invariant, PTL

(* A ready thread of a higher class has had the one on the CPU told to go. *)
THEOREM PreemptNeverLost == Spec => []PreemptPending
<1>1. IInv => PreemptPending
  BY DEF IInv
<1>2. QED BY <1>1, Invariant, PTL

(* swtch() with a count at the root finds a thread in the tree: pick_run() *)
(* never finds a list of nodes with nothing to run below them, which is     *)
(* what it asserts (sched.c:146).                                           *)
THEOREM PickRunFinds ==
    Spec => [](cpu.pc = "swtch" /\ q.nrun[Root] > 0 => \E t \in Thread : Candidate(t))
<1>1. IInv => (cpu.pc = "swtch" /\ q.nrun[Root] > 0 => \E t \in Thread : Candidate(t))
  <2> SUFFICES ASSUME IInv, cpu.pc = "swtch", q.nrun[Root] > 0
               PROVE  \E t \in Thread : Candidate(t)
    OBVIOUS
  <2> DEFINE Leaves == {t \in Thread : q.nrun[t] = 1}
  <2>1. Counted(q) /\ Placed(q, Runnable) /\ ProcList(q) = Procs
    BY DEF IInv, QueueOf
  <2>2. Leaves # {}
    <3>1. q.nrun[Root] = Cardinality(Leaves)
      BY <2>1 DEF Counted
    <3>2. QED BY <3>1, FS_EmptySet
  <2>3. PICK t \in Thread : q.nrun[t] = 1
    BY <2>2
  <2> DEFINE p == ProcOf[t]
  <2>4. p \in Proc /\ t \in ListOf(q, p)
    BY <2>1, <2>3, NodeFacts DEF Counted
  <2>5. q.nrun[p] > 0
    <3>1. t \in InTree(q, p) /\ IsFiniteSet(InTree(q, p)) /\ Cardinality(InTree(q, p)) \in Nat
      BY <2>3, CountedFinite DEF InTree
    <3>2. Cardinality(InTree(q, p)) # 0
      BY <3>1, FS_EmptySet
    <3>3. q.nrun[p] = Cardinality(InTree(q, p))
      BY <2>1, <2>4 DEF Counted
    <3>4. QED BY <3>1, <3>2, <3>3
  <2>6. p \in ProcList(q)
    <3>1. t \in Runnable
      BY <2>1, <2>4, NodeFacts DEF Placed
    <3>2. QED BY <2>1, <2>4, <3>1 DEF Procs, Runnable
  <2>7. Candidate(t)
    BY <2>3, <2>4, <2>5, <2>6 DEF Candidate, ListOf, ProcList
  <2>8. QED BY <2>7
<1>2. QED BY <1>1, Invariant, PTL
=============================================================================
