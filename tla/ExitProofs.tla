----------------------------- MODULE ExitProofs -----------------------------
(***************************************************************************)
(* Proofs about exit groups, for any finite set of processes and any       *)
(* number of threads each.                                                 *)
(***************************************************************************)
EXTENDS ExitGrp, FiniteSetTheorems, TLAPS

(* The part of the type the reference counts need: neither threads nor      *)
(* semaphores.                                                              *)
IsGrp(g) ==
    g \in [mem : {"none", "alloc", "free"}, parent : BOOLEAN, stat : Seq(Proc),
           refs : Nat, sema : {g.sema}]

LEMMA GrpUpdates ==
    ASSUME NEW g, IsGrp(g)
    PROVE  /\ \A n \in Nat : IsGrp([g EXCEPT !.refs = n])
           /\ \A s \in Seq(Proc) : IsGrp([g EXCEPT !.stat = s])
           /\ \A b \in BOOLEAN : IsGrp([g EXCEPT !.parent = b])
           /\ \A m \in {"none", "alloc", "free"} : IsGrp([g EXCEPT !.mem = m])
           /\ \A x : IsGrp([g EXCEPT !.sema = x])
  <1> DEFINE R(x) == [mem : {"none", "alloc", "free"}, parent : BOOLEAN,
                      stat : Seq(Proc), refs : Nat, sema : {x}]
  <1>1. g \in R(g.sema)
    BY DEF IsGrp
  <1>2. ASSUME NEW x
        PROVE  IsGrp([g EXCEPT !.sema = x])
    <2>1. [g EXCEPT !.sema = x] \in R(x) /\ [g EXCEPT !.sema = x].sema = x
      BY <1>1
    <2> QED
      BY <2>1 DEF IsGrp
  <1>3. ASSUME NEW n \in Nat
        PROVE  IsGrp([g EXCEPT !.refs = n])
    <2>1. [g EXCEPT !.refs = n] \in R(g.sema) /\ [g EXCEPT !.refs = n].sema = g.sema
      BY <1>1
    <2> QED
      BY <2>1 DEF IsGrp
  <1>4. ASSUME NEW s \in Seq(Proc)
        PROVE  IsGrp([g EXCEPT !.stat = s])
    <2>1. [g EXCEPT !.stat = s] \in R(g.sema) /\ [g EXCEPT !.stat = s].sema = g.sema
      BY <1>1
    <2> QED
      BY <2>1 DEF IsGrp
  <1>5. ASSUME NEW b \in BOOLEAN
        PROVE  IsGrp([g EXCEPT !.parent = b])
    <2>1. [g EXCEPT !.parent = b] \in R(g.sema) /\ [g EXCEPT !.parent = b].sema = g.sema
      BY <1>1
    <2> QED
      BY <2>1 DEF IsGrp
  <1>6. ASSUME NEW m \in {"none", "alloc", "free"}
        PROVE  IsGrp([g EXCEPT !.mem = m])
    <2>1. [g EXCEPT !.mem = m] \in R(g.sema) /\ [g EXCEPT !.mem = m].sema = g.sema
      BY <1>1
    <2> QED
      BY <2>1 DEF IsGrp
  <1> QED
    BY <1>2, <1>3, <1>4, <1>5, <1>6

Shape ==
    /\ st \in [Proc -> Life] /\ par \in [Proc -> Proc \cup {NoProc}]
    /\ grp = [p \in Proc |-> grp[p]]
    /\ \A p \in Proc : IsGrp(grp[p])

(* How the lives of the processes and their groups hang together.           *)
Family ==
    /\ \A p \in Proc : grp[p].parent <=> st[p] \in {"live", "np"}
    /\ \A p \in Proc : ~ grp[p].parent => grp[p].stat = <<>>
    /\ \A p \in Proc : st[p] = "unused" => par[p] = NoProc
    /\ \A c \in Proc : \A p \in Proc : par[c] = p => st[p] \notin {"unused", "born"}

RInv == Shape /\ Family /\ RefsCount

-----------------------------------------------------------------------------
Held == {"born", "live", "np", "npd", "post", "postl", "drf"}
Att == {"live", "np", "npd"}

LEMMA ChildrenFinite ==
    ASSUME NEW p \in Proc
    PROVE  IsFiniteSet(Children(p)) /\ Cardinality(Children(p)) \in Nat
  <1>1. IsFiniteSet(Children(p))
    <2>1. Children(p) \subseteq Proc
      BY DEF Children
    <2> QED
      BY <2>1, FS_Subset, ProcAssumption
  <1> QED
    BY <1>1, FS_CardinalityType

(* A step that moves nobody in or out of a group and leaves the counts      *)
(* alone keeps them right.                                                  *)
LEMMA KeepRefs ==
    ASSUME RefsCount, par' = par,
           \A c \in Proc : st'[c] \in Held <=> st[c] \in Held,
           \A c \in Proc : st'[c] \in Att <=> st[c] \in Att,
           \A p \in Proc : grp'[p].refs = grp[p].refs /\ grp'[p].mem = grp[p].mem
    PROVE  RefsCount'
  <1> SUFFICES ASSUME NEW p \in Proc
               PROVE  /\ grp'[p].refs = (IF Attending(p)' THEN 1 ELSE 0)
                                          + Cardinality(Children(p)')
                      /\ grp'[p].mem = "alloc" <=> grp'[p].refs > 0
    BY DEF RefsCount
  <1>1. Children(p)' = Children(p)
    BY DEF Children, Held
  <1>2. Attending(p)' <=> Attending(p)
    BY DEF Attending, Att
  <1> QED
    BY <1>1, <1>2 DEF RefsCount

(* fork() takes the child's reference (exitgrp.c:52).                       *)
LEMMA ForkRefKeeps ==
    ASSUME RInv, NEW p \in Proc, NEW t \in Thread, NEW c \in Proc, ForkRef(p, t, c)
    PROVE  RInv'
  <1> USE DEF RInv
  <1>1. /\ st[p] = "live" /\ st[c] = "unused" /\ p # c
        /\ st' = [st EXCEPT ![c] = "born"] /\ par' = [par EXCEPT ![c] = p]
        /\ grp' = [grp EXCEPT ![p].refs = @ + 1]
    BY DEF ForkRef, At
  <1>2. /\ grp'[p] = [grp[p] EXCEPT !.refs = @ + 1]
        /\ \A q \in Proc \ {p} : grp'[q] = grp[q]
    BY <1>1 DEF Shape
  <1>3. Shape'
    <2>1. IsGrp(grp'[p])
      <3>1. IsGrp(grp[p]) /\ grp[p].refs + 1 \in Nat
        BY DEF Shape, IsGrp
      <3>2. IsGrp([grp[p] EXCEPT !.refs = grp[p].refs + 1])
        BY <3>1, GrpUpdates
      <3> QED
        BY <1>2, <3>2
    <2> QED
      BY <1>1, <1>2, <2>1 DEF Shape, Life
  <1>4. Family'
    BY <1>1, <1>2 DEF Shape, Family, IsGrp
  <1>5. Children(p)' = Children(p) \cup {c} /\ c \notin Children(p)
    BY <1>1 DEF Children, Shape
  <1>6. ASSUME NEW q \in Proc \ {p}
        PROVE  Children(q)' = Children(q)
    BY <1>1 DEF Children, Shape
  <1>7. \A q \in Proc : Attending(q)' <=> Attending(q)
    BY <1>1 DEF Attending, Shape
  <1>8. Cardinality(Children(p)') = Cardinality(Children(p)) + 1
    BY <1>5, ChildrenFinite, FS_AddElement
  <1>9. grp'[p].refs = grp[p].refs + 1 /\ grp'[p].mem = grp[p].mem
        /\ grp[p].mem = "alloc" /\ grp[p].refs \in Nat
    <2>1. Attending(p)
      BY <1>1 DEF Attending
    <2> QED
      BY <1>2, <2>1, ChildrenFinite DEF RefsCount, Shape, IsGrp
  <1>10. RefsCount'
    <2> SUFFICES ASSUME NEW q \in Proc
                 PROVE  /\ grp'[q].refs = (IF Attending(q)' THEN 1 ELSE 0)
                                            + Cardinality(Children(q)')
                        /\ grp'[q].mem = "alloc" <=> grp'[q].refs > 0
      BY DEF RefsCount
    <2>1. CASE q = p
      BY <2>1, <1>7, <1>8, <1>9, ChildrenFinite DEF RefsCount
    <2>2. CASE q # p
      BY <2>2, <1>2, <1>6, <1>7 DEF RefsCount
    <2> QED
      BY <2>1, <2>2
  <1> QED
    BY <1>3, <1>4, <1>10

(* A new process has a group with one reference and no child.               *)
LEMMA ForkRunKeeps ==
    ASSUME RInv, NEW p \in Proc, NEW t \in Thread, NEW c \in Proc, ForkRun(p, t, c)
    PROVE  RInv'
  <1> USE DEF RInv
  <1>1. /\ st[c] = "born" /\ par' = par
        /\ st' = [st EXCEPT ![c] = "live"] /\ grp' = [grp EXCEPT ![c] = NewGrp]
    BY DEF ForkRun
  <1>2. grp'[c] = NewGrp /\ \A q \in Proc \ {c} : grp'[q] = grp[q]
    BY <1>1 DEF Shape
  <1>3. Shape'
    <2>1. IsGrp(NewGrp)
      BY DEF IsGrp, NewGrp
    <2> QED
      BY <1>1, <1>2, <2>1 DEF Shape, Life
  <1>4. Family'
    BY <1>1, <1>2 DEF Shape, Family, NewGrp
  <1>5. \A q \in Proc : Children(q)' = Children(q)
    BY <1>1 DEF Children, Shape
  <1>6. Children(c) = {}
    BY <1>1 DEF Children, Family
  <1>7. Attending(c)' /\ \A q \in Proc \ {c} : Attending(q)' <=> Attending(q)
    BY <1>1 DEF Attending, Shape
  <1>8. RefsCount'
    <2> SUFFICES ASSUME NEW q \in Proc
                 PROVE  /\ grp'[q].refs = (IF Attending(q)' THEN 1 ELSE 0)
                                            + Cardinality(Children(q)')
                        /\ grp'[q].mem = "alloc" <=> grp'[q].refs > 0
      BY DEF RefsCount
    <2>1. CASE q = c
      <3>1. Cardinality(Children(c)') = 0
        BY <1>5, <1>6, FS_EmptySet
      <3>2. grp'[c].refs = 1 /\ grp'[c].mem = "alloc"
        BY <1>2 DEF NewGrp
      <3> QED
        BY <2>1, <1>7, <3>1, <3>2
    <2>2. CASE q # c
      BY <2>2, <1>2, <1>5, <1>7 DEF RefsCount
    <2> QED
      BY <2>1, <2>2
  <1> QED
    BY <1>3, <1>4, <1>8

-----------------------------------------------------------------------------
LEMMA DerefFields ==
    ASSUME NEW g, IsGrp(g), g.refs > 0
    PROVE  /\ Deref(g).refs = g.refs - 1
           /\ Deref(g).mem = IF g.refs = 1 THEN "free" ELSE g.mem
           /\ Deref(g).parent = g.parent /\ Deref(g).stat = g.stat
           /\ IsGrp(Deref(g))
  <1> DEFINE R == [mem : {"none", "alloc", "free"}, parent : BOOLEAN,
                   stat : Seq(Proc), refs : Nat, sema : {g.sema}]
             m == IF g.refs = 1 THEN "free" ELSE g.mem
  <1>1. g \in R
    BY DEF IsGrp
  <1>2. g.refs \in Nat /\ g.refs - 1 \in Nat /\ m \in {"none", "alloc", "free"}
    BY <1>1
  <1>3. Deref(g) = [g EXCEPT !.refs = g.refs - 1, !.mem = m]
    BY DEF Deref
  <1> HIDE DEF m
  <1>4. /\ [g EXCEPT !.refs = g.refs - 1, !.mem = m] \in R
        /\ [g EXCEPT !.refs = g.refs - 1, !.mem = m].refs = g.refs - 1
        /\ [g EXCEPT !.refs = g.refs - 1, !.mem = m].mem = m
        /\ [g EXCEPT !.refs = g.refs - 1, !.mem = m].parent = g.parent
        /\ [g EXCEPT !.refs = g.refs - 1, !.mem = m].stat = g.stat
        /\ [g EXCEPT !.refs = g.refs - 1, !.mem = m].sema = g.sema
    BY <1>1, <1>2
  <1> QED
    BY <1>3, <1>4 DEF IsGrp, m

(* deref_exitgrp() is only called on a group with a reference left, and the *)
(* last one goes after the parent and its statuses went (exitgrp.c:67-81).  *)
LEMMA OwnDerefSafe ==
    ASSUME RInv, NEW p \in Proc, st[p] = "npd"
    PROVE  /\ DerefFails(grp[p]) = "none"
           /\ grp[p].refs = 1 + Cardinality(Children(p))
  <1>1. grp[p].refs = 1 + Cardinality(Children(p))
    BY ChildrenFinite DEF RInv, RefsCount, Attending
  <1>2. grp[p].parent = FALSE /\ grp[p].stat = <<>>
    BY DEF RInv, Family, Shape, IsGrp
  <1> QED
    BY <1>1, <1>2, ChildrenFinite DEF DerefFails

LEMMA ParentDerefSafe ==
    ASSUME RInv, NEW p \in Proc, st[p] = "drf", par[p] # NoProc
    PROVE  /\ DerefFails(grp[par[p]]) = "none"
           /\ par[p] \in Proc /\ p \in Children(par[p])
           /\ Cardinality(Children(par[p]) \ {p}) = Cardinality(Children(par[p])) - 1
           /\ Cardinality(Children(par[p])) > 0
  <1> DEFINE g == par[p]
  <1>1. g \in Proc /\ p \in Children(g)
    BY DEF RInv, Shape, Children
  <1>2. Cardinality(Children(g) \ {p}) = Cardinality(Children(g)) - 1
        /\ Cardinality(Children(g) \ {p}) \in Nat /\ Cardinality(Children(g)) \in Nat
    <2>1. IsFiniteSet(Children(g)) /\ Cardinality(Children(g)) \in Nat
      BY <1>1, ChildrenFinite
    <2>2. Cardinality(Children(g) \ {p}) = Cardinality(Children(g)) - 1
      BY <1>1, <2>1, FS_RemoveElement
    <2>3. IsFiniteSet(Children(g) \ {p})
      BY <2>1, FS_Subset
    <2> QED
      BY <2>1, <2>2, <2>3, FS_CardinalityType
  <1>3. grp[g].refs = (IF Attending(g) THEN 1 ELSE 0) + Cardinality(Children(g))
    BY <1>1 DEF RInv, RefsCount
  <1>4. grp[g].parent => Attending(g)
    BY <1>1 DEF RInv, Family, Attending
  <1>5. ~ grp[g].parent => grp[g].stat = <<>>
    BY <1>1 DEF RInv, Family
  <1> QED
    BY <1>1, <1>2, <1>3, <1>4, <1>5 DEF DerefFails

(* The group p refers to as a member loses p's reference.                   *)
LEMMA NoparentDerefKeeps ==
    ASSUME RInv, NEW p \in Proc, NoparentDeref(p)
    PROVE  RInv' /\ UNCHANGED panic
  <1> USE DEF RInv
  <1>1. st[p] = "npd"
    BY DEF NoparentDeref, Exiting
  <1>2. /\ grp' = [grp EXCEPT ![p] = Deref(@)] /\ st' = [st EXCEPT ![p] = "post"]
        /\ par' = par /\ panic' = panic
    BY <1>1, OwnDerefSafe DEF NoparentDeref
  <1>3. grp'[p] = Deref(grp[p]) /\ \A q \in Proc \ {p} : grp'[q] = grp[q]
    BY <1>2 DEF Shape
  <1>4. /\ grp[p].refs = 1 + Cardinality(Children(p))
        /\ Cardinality(Children(p)) \in Nat /\ IsGrp(grp[p])
        /\ grp[p].mem = "alloc"
    BY <1>1, OwnDerefSafe, ChildrenFinite DEF Shape, RefsCount
  <1>5. /\ grp'[p].refs = Cardinality(Children(p))
        /\ grp'[p].mem = IF grp[p].refs = 1 THEN "free" ELSE "alloc"
        /\ grp'[p].parent = grp[p].parent /\ grp'[p].stat = grp[p].stat
        /\ IsGrp(grp'[p])
    <2>1. grp[p].refs > 0
      BY <1>4
    <2>2. grp[p].refs - 1 = Cardinality(Children(p))
      BY <1>4
    <2> QED
      BY <1>3, <1>4, <2>1, <2>2, DerefFields
  <1>6. Shape'
    BY <1>2, <1>3, <1>5 DEF Shape, Life
  <1>7. Family'
    BY <1>1, <1>2, <1>3, <1>5 DEF Shape, Family
  <1>8. \A q \in Proc : Children(q)' = Children(q)
    BY <1>1, <1>2 DEF Children, Shape
  <1>9. ~ Attending(p)' /\ \A q \in Proc \ {p} : Attending(q)' <=> Attending(q)
    BY <1>2 DEF Attending, Shape
  <1>10. RefsCount'
    <2> SUFFICES ASSUME NEW q \in Proc
                 PROVE  /\ grp'[q].refs = (IF Attending(q)' THEN 1 ELSE 0)
                                            + Cardinality(Children(q)')
                        /\ grp'[q].mem = "alloc" <=> grp'[q].refs > 0
      BY DEF RefsCount
    <2>1. CASE q = p
      BY <2>1, <1>4, <1>5, <1>8, <1>9
    <2>2. CASE q # p
      BY <2>2, <1>3, <1>8, <1>9 DEF RefsCount
    <2> QED
      BY <2>1, <2>2
  <1> QED
    BY <1>2, <1>6, <1>7, <1>10

LEMMA DerefParentKeeps ==
    ASSUME RInv, NEW p \in Proc, DerefParent(p)
    PROVE  RInv' /\ UNCHANGED panic
  <1> USE DEF RInv
  <1>0. PICK g : g = par[p]
    OBVIOUS
  <1>1. st[p] = "drf"
    BY DEF DerefParent, Exiting
  <1>2. /\ grp' = (IF g = NoProc THEN grp ELSE [grp EXCEPT ![g] = Deref(@)])
        /\ st' = [st EXCEPT ![p] = "dead"] /\ par' = par /\ panic' = panic
    BY <1>0, <1>1, ParentDerefSafe DEF DerefParent
  <1>3. \A q \in Proc : Attending(q)' <=> Attending(q)
    BY <1>1, <1>2 DEF Attending, Shape
  <1>4. \A q \in Proc : q # g => Children(q)' = Children(q) /\ grp'[q] = grp[q]
    BY <1>0, <1>1, <1>2 DEF Children, Shape
  <1>5. CASE g = NoProc
    <2>1. \A q \in Proc : q # g
      BY <1>5, ProcAssumption
    <2>2. RefsCount'
      BY <2>1, <1>3, <1>4 DEF RefsCount
    <2> QED
      BY <1>1, <1>2, <1>5, <2>2 DEF Shape, Family, Life
  <1>6. CASE g # NoProc
    <2>1. /\ g \in Proc /\ p \in Children(g)
          /\ Cardinality(Children(g) \ {p}) = Cardinality(Children(g)) - 1
          /\ Cardinality(Children(g)) > 0 /\ Cardinality(Children(g)) \in Nat
      BY <1>0, <1>1, <1>6, ParentDerefSafe, ChildrenFinite
    <2>2. Children(g)' = Children(g) \ {p}
      BY <1>0, <1>2, <2>1 DEF Children, Shape
    <2>3. grp'[g] = Deref(grp[g])
      BY <1>2, <1>6, <2>1 DEF Shape
    <2>4. /\ grp[g].refs = (IF Attending(g) THEN 1 ELSE 0) + Cardinality(Children(g))
          /\ grp[g].mem = "alloc" /\ IsGrp(grp[g])
      BY <2>1 DEF RefsCount, Shape
    <2>5. /\ grp'[g].refs = grp[g].refs - 1
          /\ grp'[g].mem = IF grp[g].refs = 1 THEN "free" ELSE "alloc"
          /\ grp'[g].parent = grp[g].parent /\ grp'[g].stat = grp[g].stat
          /\ IsGrp(grp'[g])
      <3>1. grp[g].refs > 0
        BY <2>1, <2>4
      <3> QED
        BY <2>3, <2>4, <3>1, DerefFields
    <2>6. Shape'
      BY <1>2, <1>4, <1>6, <2>1, <2>5 DEF Shape, Life
    <2>7. Family'
      <3>1. \A q \in Proc : grp'[q].parent = grp[q].parent /\ grp'[q].stat = grp[q].stat
        BY <1>4, <2>5
      <3> QED
        BY <1>1, <1>2, <3>1 DEF Shape, Family
    <2>8. RefsCount'
      <3> SUFFICES ASSUME NEW q \in Proc
                   PROVE  /\ grp'[q].refs = (IF Attending(q)' THEN 1 ELSE 0)
                                              + Cardinality(Children(q)')
                          /\ grp'[q].mem = "alloc" <=> grp'[q].refs > 0
        BY DEF RefsCount
      <3>1. CASE q = g
        <4>1. Cardinality(Children(g)') = Cardinality(Children(g)) - 1
          BY <2>1, <2>2
        <4>2. Attending(g)' <=> Attending(g)
          BY <1>3, <2>1
        <4> QED
          BY <3>1, <2>1, <2>4, <2>5, <4>1, <4>2
      <3>2. CASE q # g
        BY <3>2, <1>3, <1>4 DEF RefsCount
      <3> QED
        BY <3>1, <3>2
    <2> QED
      BY <1>2, <2>6, <2>7, <2>8
  <1> QED
    BY <1>5, <1>6

(* A step of process p that moves nobody in or out of a group, and changes  *)
(* at most the list or the semaphore of the group of q.                     *)
LEMMA MoveKeeps ==
    ASSUME RInv, NEW p \in Proc, NEW q \in Proc, NEW l \in Life, NEW h,
           par' = par, st' = [st EXCEPT ![p] = l], grp' = [grp EXCEPT ![q] = h],
           l \in Held <=> st[p] \in Held, l \in Att <=> st[p] \in Att,
           l \in {"unused", "born"} => l = st[p],
           IsGrp(h), h.refs = grp[q].refs, h.mem = grp[q].mem,
           ~ h.parent => h.stat = <<>>,
           h.parent <=> st'[q] \in {"live", "np"},
           p # q => (l \in {"live", "np"} <=> st[p] \in {"live", "np"})
    PROVE  RInv'
  <1> USE DEF RInv
  <1>1. \A x \in Proc : grp'[x] = IF x = q THEN h ELSE grp[x]
    BY DEF Shape
  <1>2. \A x \in Proc : st'[x] = IF x = p THEN l ELSE st[x]
    BY DEF Shape
  <1>3. Shape'
    BY <1>1, <1>2 DEF Shape
  <1>4. Family'
    BY <1>1, <1>2 DEF Family
  <1>5. RefsCount'
    BY <1>1, <1>2, KeepRefs
  <1> QED
    BY <1>3, <1>4, <1>5

(* Every other step.                                                        *)
LEMMA OtherStepsKeep ==
    ASSUME RInv, NEW p \in Proc, NEW t \in Thread,
           \/ \E u \in Thread : ForkThread(p, t, u)
           \/ Exit(p, t) \/ Noparent(p) \/ PostLook(p) \/ Post(p)
           \/ WaitTake(p, t) \/ WaitBlock(p, t) \/ WaitIntr(p, t)
           \/ WaitWoken(p, t) \/ WaitCount(p, t)
    PROVE  RInv'
  <1> USE DEF RInv
  <1>1. /\ st[p] \in Life /\ IsGrp(grp[p]) /\ st = [st EXCEPT ![p] = st[p]]
        /\ grp = [grp EXCEPT ![p] = grp[p]]
        /\ grp[p].parent <=> st[p] \in {"live", "np"}
        /\ ~ grp[p].parent => grp[p].stat = <<>>
    BY DEF Shape, Family
  <1>2. CASE st' = st /\ par' = par /\ grp' = grp
    <2>1. Shape'
      BY <1>2 DEF Shape
    <2>2. Family'
      BY <1>2 DEF Family
    <2>3. \A q \in Proc : Children(q)' = Children(q) /\ (Attending(q)' <=> Attending(q))
      BY <1>2 DEF Children, Attending
    <2>4. RefsCount'
      BY <1>2, <2>3 DEF RefsCount
    <2> QED
      BY <2>1, <2>2, <2>4
  <1>3. ASSUME st[p] = "live", st' = st, par' = par, NEW h,
               grp' = [grp EXCEPT ![p] = h], IsGrp(h), h.refs = grp[p].refs,
               h.mem = grp[p].mem, h.parent = grp[p].parent
        PROVE  RInv'
    <2>1. h.parent /\ st'[p] = "live"
      BY <1>1, <1>3
    <2> QED
      BY <1>1, <1>3, <2>1, MoveKeeps
  <1>4. CASE \E u \in Thread : ForkThread(p, t, u)
    BY <1>2, <1>4 DEF ForkThread
  <1>5. CASE Exit(p, t)
    <2>1. st[p] = "live" /\ par' = par /\ grp' = [grp EXCEPT ![p] = grp[p]]
      BY <1>1, <1>5 DEF Exit, At
    <2>2. PICK l \in {"live", "np"} : st' = [st EXCEPT ![p] = l]
      BY <1>5, <2>1 DEF Exit
    <2>3. st'[p] = l
      BY <2>2 DEF Shape
    <2> QED
      BY <1>1, <2>1, <2>2, <2>3, MoveKeeps DEF Life, Held, Att
  <1>6. CASE Noparent(p)
    <2>1. CASE ~ grp[p].parent
      BY <1>2, <1>6, <2>1 DEF Noparent, Panic
    <2>2. CASE grp[p].parent
      <3> DEFINE h1 == [grp[p] EXCEPT !.parent = FALSE]
                 h == [h1 EXCEPT !.stat = <<>>]
      <3>1. IsGrp(h1) /\ h1.refs = grp[p].refs /\ h1.mem = grp[p].mem /\ h1.parent = FALSE
        BY <1>1, GrpUpdates DEF IsGrp
      <3>2. IsGrp(h) /\ h.refs = grp[p].refs /\ h.mem = grp[p].mem /\ h.parent = FALSE
            /\ h.stat = <<>>
        <4> HIDE DEF h1
        <4>1. <<>> \in Seq(Proc)
          OBVIOUS
        <4> QED
          BY <3>1, <4>1, GrpUpdates DEF IsGrp
      <3>3. /\ st[p] = "np" /\ st' = [st EXCEPT ![p] = "npd"] /\ par' = par
            /\ grp' = [grp EXCEPT ![p] = h]
        BY <1>1, <1>6, <2>2 DEF Noparent, Exiting, Shape
      <3>4. st'[p] = "npd"
        BY <3>3 DEF Shape
      <3> HIDE DEF h
      <3> QED
        BY <3>2, <3>3, <3>4, MoveKeeps DEF Life, Held, Att
    <2> QED
      BY <2>1, <2>2
  <1>7. CASE PostLook(p)
    <2>1. st[p] = "post" /\ par' = par /\ grp' = [grp EXCEPT ![p] = grp[p]]
      BY <1>1, <1>7 DEF PostLook, Exiting
    <2>2. PICK l \in {"postl", "drf"} : st' = [st EXCEPT ![p] = l]
      BY <1>7, <2>1 DEF PostLook
    <2>3. st'[p] = l
      BY <2>2 DEF Shape
    <2> QED
      BY <1>1, <2>1, <2>2, <2>3, MoveKeeps DEF Life, Held, Att
  <1>8. CASE Post(p)
    <2>1. st[p] = "postl" /\ par' = par /\ st' = [st EXCEPT ![p] = "drf"]
          /\ st'[p] = "drf"
      BY <1>8 DEF Post, Exiting, Shape
    <2>2. CASE ~ Attached(p)
      <3>1. grp' = [grp EXCEPT ![p] = grp[p]]
        BY <1>1, <1>8, <2>2 DEF Post
      <3> QED
        BY <1>1, <2>1, <3>1, MoveKeeps DEF Life, Held, Att
    <2>3. CASE Attached(p)
      <3>0. PICK g \in Proc : g = par[p] /\ grp[g].parent
        BY <2>3 DEF Attached, Shape
      <3> DEFINE h1 == [grp[g] EXCEPT !.stat = <<p>> \o grp[g].stat]
                 h == [h1 EXCEPT !.sema = VSema(grp[g].sema)]
      <3>1. IsGrp(grp[g]) /\ grp[g].stat \in Seq(Proc) /\ <<p>> \o grp[g].stat \in Seq(Proc)
        BY DEF Shape, IsGrp
      <3>2. IsGrp(h1) /\ h1.refs = grp[g].refs /\ h1.mem = grp[g].mem
            /\ h1.parent = grp[g].parent
        BY <3>1, GrpUpdates DEF IsGrp
      <3>3. IsGrp(h) /\ h.refs = grp[g].refs /\ h.mem = grp[g].mem
            /\ h.parent = grp[g].parent
        <4> HIDE DEF h1
        <4> QED
          BY <3>2, GrpUpdates DEF IsGrp
      <3>4. grp' = [grp EXCEPT ![g] = h]
        BY <1>8, <2>3, <3>0, <3>1 DEF Post, IsGrp, Shape
      <3>5. st[g] \in {"live", "np"} /\ g # p /\ st'[g] = st[g]
        BY <2>1, <3>0 DEF Family, Shape
      <3> HIDE DEF h
      <3> QED
        BY <2>1, <3>0, <3>3, <3>4, <3>5, MoveKeeps DEF Life, Held, Att
    <2> QED
      BY <2>2, <2>3
  <1>9. ASSUME NEW s \in Seq(Proc), st[p] = "live", st' = st, par' = par,
               grp' = [grp EXCEPT ![p].stat = s]
        PROVE  RInv'
    <2> DEFINE h == [grp[p] EXCEPT !.stat = s]
    <2>1. IsGrp(h) /\ h.refs = grp[p].refs /\ h.mem = grp[p].mem
          /\ h.parent = grp[p].parent /\ grp' = [grp EXCEPT ![p] = h]
      BY <1>1, <1>9, GrpUpdates DEF IsGrp
    <2> HIDE DEF h
    <2> QED
      BY <1>3, <1>9, <2>1
  <1>10. ASSUME NEW s, st[p] = "live", st' = st, par' = par,
                grp' = [grp EXCEPT ![p].sema = s]
         PROVE  RInv'
    <2> DEFINE h == [grp[p] EXCEPT !.sema = s]
    <2>1. IsGrp(h) /\ h.refs = grp[p].refs /\ h.mem = grp[p].mem
          /\ h.parent = grp[p].parent /\ grp' = [grp EXCEPT ![p] = h]
      BY <1>1, <1>10, GrpUpdates DEF IsGrp
    <2> HIDE DEF h
    <2> QED
      BY <1>3, <1>10, <2>1
  <1>11. grp[p].stat # <<>> => Tail(grp[p].stat) \in Seq(Proc)
    BY <1>1 DEF IsGrp
  <1>12. CASE WaitTake(p, t)
    BY <1>9, <1>11, <1>12 DEF WaitTake, At
  <1>13. CASE WaitBlock(p, t)
    BY <1>10, <1>13 DEF WaitBlock, At
  <1>14. CASE WaitIntr(p, t)
    BY <1>10, <1>14 DEF WaitIntr, At
  <1>15. CASE WaitWoken(p, t)
    BY <1>2, <1>9, <1>11, <1>15 DEF WaitWoken, At, Panic
  <1>16. CASE WaitCount(p, t)
    BY <1>10, <1>16 DEF WaitCount, At
  <1> QED
    BY <1>4, <1>5, <1>6, <1>7, <1>8, <1>12, <1>13, <1>14, <1>15, <1>16

-----------------------------------------------------------------------------
(* The assertions of deref_exitgrp() and noparent_exitgrp() never fail; the *)
(* one of wait_exitgrp() is about who waits, see below.                     *)
GroupsSafe == panic \in {"none", "wait_exitgrp: stat out of synch"}

LEMMA InitRInv == Init => RInv /\ GroupsSafe
  <1> SUFFICES ASSUME Init
               PROVE  RInv /\ GroupsSafe
    OBVIOUS
  <1>1. <<>> \in Seq(Proc)
    OBVIOUS
  <1>2. IsGrp(NewGrp) /\ NewGrp.refs = 1 /\ NewGrp.mem = "alloc" /\ NewGrp.parent = TRUE
        /\ NewGrp.stat = <<>>
    BY <1>1 DEF NewGrp, IsGrp
  <1>4. IsGrp(NoGrp) /\ NoGrp.refs = 0 /\ NoGrp.mem = "none" /\ NoGrp.parent = FALSE
        /\ NoGrp.stat = <<>>
    BY <1>1 DEF NoGrp, IsGrp
  <1>5. \A p \in Proc : grp[p] = IF p = Root THEN NewGrp ELSE NoGrp
    BY DEF Init
  <1>6. \A p \in Proc : st[p] = (IF p = Root THEN "live" ELSE "unused") /\ par[p] = NoProc
    BY DEF Init
  <1>7. Shape
    BY <1>2, <1>4, <1>5, <1>6 DEF Init, Shape, Life
  <1>8. Family
    BY <1>2, <1>4, <1>5, <1>6, ProcAssumption DEF Family
  <1>9. RefsCount
    <2>1. \A p \in Proc : Children(p) = {}
      BY <1>6, ProcAssumption DEF Children
    <2>2. \A p \in Proc : Cardinality(Children(p)) = 0
      BY <2>1, FS_EmptySet
    <2> QED
      BY <1>2, <1>4, <1>5, <1>6, <2>2 DEF RefsCount, Attending
  <1> QED
    BY <1>7, <1>8, <1>9 DEF RInv, Init, GroupsSafe

LEMMA StepKeepsRInv == RInv /\ [Next]_vars => RInv'
  <1> SUFFICES ASSUME RInv, [Next]_vars
               PROVE  RInv'
    OBVIOUS
  <1>1. CASE UNCHANGED vars
    <2>1. st' = st /\ par' = par /\ grp' = grp
      BY <1>1 DEF vars
    <2>2. \A q \in Proc : Children(q)' = Children(q) /\ (Attending(q)' <=> Attending(q))
      BY <2>1 DEF Children, Attending
    <2>3. Shape'
      BY <2>1 DEF RInv, Shape
    <2>4. Family'
      BY <2>1 DEF RInv, Family
    <2>5. RefsCount'
      BY <2>1, <2>2 DEF RInv, RefsCount
    <2> QED
      BY <2>3, <2>4, <2>5 DEF RInv
  <1>2. ASSUME NEW p \in Proc, ExitStep(p)
        PROVE  RInv'
    <2>1. Main \in Thread
      BY ThreadAssumption
    <2> QED
      BY <1>2, <2>1, NoparentDerefKeeps, DerefParentKeeps, OtherStepsKeep DEF ExitStep
  <1>3. ASSUME NEW p \in Proc, NEW t \in Thread, ThreadStep(p, t)
        PROVE  RInv'
    BY <1>3, ForkRunKeeps, OtherStepsKeep DEF ThreadStep
  <1>4. ASSUME NEW p \in Proc, NEW t \in Thread, Syscall(p, t)
        PROVE  RInv'
    BY <1>4, ForkRefKeeps, OtherStepsKeep DEF Syscall
  <1>5. ASSUME NEW p \in Proc, NEW t \in Thread, WaitIntr(p, t)
        PROVE  RInv'
    BY <1>5, OtherStepsKeep
  <1> QED
    BY <1>1, <1>2, <1>3, <1>4, <1>5 DEF Next

LEMMA StepKeepsSafe == RInv /\ GroupsSafe /\ [Next]_vars => GroupsSafe'
  <1> SUFFICES ASSUME RInv, GroupsSafe, [Next]_vars
               PROVE  GroupsSafe'
    OBVIOUS
  <1>1. ASSUME NEW p \in Proc, Noparent(p)
        PROVE  UNCHANGED panic
    <2>1. grp[p].parent
      BY <1>1 DEF Noparent, Exiting, RInv, Family
    <2> QED
      BY <1>1, <2>1 DEF Noparent
  <1>2. ASSUME NEW p \in Proc, ExitStep(p)
        PROVE  UNCHANGED panic
    BY <1>1, <1>2, NoparentDerefKeeps, DerefParentKeeps DEF ExitStep, PostLook, Post
  <1>3. ASSUME NEW p \in Proc, NEW t \in Thread, ThreadStep(p, t)
        PROVE  GroupsSafe'
    BY <1>3 DEF ThreadStep, ForkRun, WaitWoken, WaitCount, Panic, GroupsSafe
  <1>4. ASSUME NEW p \in Proc, NEW t \in Thread, Syscall(p, t) \/ WaitIntr(p, t)
        PROVE  UNCHANGED panic
    BY <1>4 DEF Syscall, ForkRef, ForkThread, Exit, WaitTake, WaitBlock, WaitIntr
  <1> QED
    BY <1>2, <1>3, <1>4 DEF Next, vars, GroupsSafe

(* e_refs of every group counts the processes that refer to it, and the     *)
(* group is freed with the last of them: no leak, no use after free.        *)
THEOREM RefsCorrect == Spec => []RefsCount
  <1>1. RInv => RefsCount
    BY DEF RInv
  <1> QED
    BY <1>1, InitRInv, StepKeepsRInv, PTL DEF Spec

(* deref_exitgrp() never runs on a group without references, and the last   *)
(* reference goes after the parent and its statuses did; noparent_exitgrp() *)
(* finds a parent: whatever the order of exits, and however many threads    *)
(* wait.                                                                    *)
THEOREM GroupAssertions == Spec => []GroupsSafe
  <1> QED
    BY InitRInv, StepKeepsRInv, StepKeepsSafe, PTL DEF Spec
-----------------------------------------------------------------------------
(***************************************************************************)
(* Reports: every exit is reported once, and "there are no children" is    *)
(* true when waits() says so, for any number of threads in waits().        *)
(***************************************************************************)

(* The statuses of a group, as a list without repetitions. *)
On(s, c) == \E i \in DOMAIN s : s[i] = c
Distinct(s) == \A i, j \in DOMAIN s : s[i] = s[j] => i = j

Posted == {"drf", "dead"}

(* A status stands on the list of its parent from post_exitgrp() until      *)
(* waits() takes it, and nowhere else.                                      *)
RepInv ==
    /\ got \in [Proc -> Nat]
    /\ \A p \in Proc : Distinct(grp[p].stat)
    /\ \A p \in Proc : \A c \in Proc :
          On(grp[p].stat, c) => par[c] = p /\ st[c] \in Posted
    /\ \A c \in Proc : st[c] \notin Posted => got[c] = 0
    /\ \A c \in Proc :
          par[c] # NoProc /\ grp[par[c]].parent =>
              got[c] = IF st[c] \in Posted /\ ~ On(grp[par[c]].stat, c) THEN 1 ELSE 0

-----------------------------------------------------------------------------
(* post_exitgrp() puts a new status at the head (exitgrp.c:166). *)
LEMMA ListCons ==
    ASSUME NEW s \in Seq(Proc), NEW c \in Proc, ~ On(s, c), Distinct(s)
    PROVE  /\ <<c>> \o s \in Seq(Proc)
           /\ Distinct(<<c>> \o s)
           /\ \A d : On(<<c>> \o s, d) <=> d = c \/ On(s, d)
  <1> DEFINE l == <<c>> \o s
  <1>1. /\ l \in Seq(Proc) /\ Len(l) = Len(s) + 1 /\ Len(s) \in Nat
        /\ l[1] = c /\ \A i \in 2 .. Len(s) + 1 : l[i] = s[i - 1]
    OBVIOUS
  <1>2. DOMAIN l = 1 .. Len(s) + 1 /\ DOMAIN s = 1 .. Len(s)
    BY <1>1
  <1>3. \A i \in DOMAIN s : i + 1 \in 2 .. Len(s) + 1 /\ l[i + 1] = s[i]
    BY <1>1, <1>2
  <1>4. \A i \in DOMAIN l : i = 1 \/ (i - 1 \in DOMAIN s /\ l[i] = s[i - 1])
    BY <1>1, <1>2
  <1>7. 1 \in DOMAIN l /\ l[1] = c
    BY <1>1, <1>2
  <1>8. \A i \in DOMAIN s : i + 1 \in DOMAIN l
    BY <1>2
  <1>9. DOMAIN l \subseteq Nat
    BY <1>2
  <1> HIDE DEF l
  <1>5. ASSUME NEW i \in DOMAIN l, NEW j \in DOMAIN l, l[i] = l[j]
        PROVE  i = j
    <2>1. CASE i = 1 \/ j = 1
      BY <1>4, <1>5, <1>7, <2>1 DEF On
    <2>2. CASE i # 1 /\ j # 1
      <3>1. i - 1 \in DOMAIN s /\ j - 1 \in DOMAIN s /\ s[i - 1] = s[j - 1]
        BY <1>4, <1>5, <2>2
      <3>2. i - 1 = j - 1
        BY <3>1 DEF Distinct
      <3> QED
        BY <1>9, <3>2
    <2> QED
      BY <2>1, <2>2
  <1>6. ASSUME NEW d
        PROVE  On(l, d) <=> d = c \/ On(s, d)
    <2>1. ASSUME NEW i \in DOMAIN l, l[i] = d
          PROVE  d = c \/ On(s, d)
      BY <1>1, <1>4, <2>1 DEF On
    <2>2. CASE d = c
      BY <1>7, <2>2 DEF On
    <2>3. ASSUME NEW i \in DOMAIN s, s[i] = d
          PROVE  On(l, d)
      BY <1>3, <1>8, <2>3 DEF On
    <2> QED
      BY <2>1, <2>2, <2>3 DEF On
  <1> QED
    BY <1>1, <1>5, <1>6 DEF Distinct, l

(* waits() takes the head (exitgrp.c:193, exitgrp.c:213). *)
LEMMA ListTail ==
    ASSUME NEW s \in Seq(Proc), s # <<>>, Distinct(s)
    PROVE  /\ Head(s) \in Proc /\ On(s, Head(s))
           /\ Tail(s) \in Seq(Proc) /\ Distinct(Tail(s))
           /\ \A d : On(Tail(s), d) <=> On(s, d) /\ d # Head(s)
  <1> DEFINE l == Tail(s)
  <1>1. /\ l \in Seq(Proc) /\ Len(l) = Len(s) - 1 /\ Len(s) \in Nat \ {0}
        /\ Head(s) = s[1] /\ s[1] \in Proc
        /\ \A i \in 1 .. Len(s) - 1 : l[i] = s[i + 1]
    OBVIOUS
  <1>2. DOMAIN l = 1 .. Len(s) - 1 /\ DOMAIN s = 1 .. Len(s)
    BY <1>1
  <1>3. \A i \in DOMAIN l : i + 1 \in DOMAIN s /\ l[i] = s[i + 1]
    BY <1>1, <1>2
  <1>4. \A i \in DOMAIN s : i = 1 \/ (i - 1 \in DOMAIN l /\ s[i] = l[i - 1])
    BY <1>1, <1>2
  <1>5. 1 \in DOMAIN s /\ \A i \in DOMAIN l : i \in Nat /\ i + 1 # 1
    BY <1>1, <1>2
  <1> HIDE DEF l
  <1>6. ASSUME NEW i \in DOMAIN l, NEW j \in DOMAIN l, l[i] = l[j]
        PROVE  i = j
    <2>1. i + 1 \in DOMAIN s /\ j + 1 \in DOMAIN s /\ s[i + 1] = s[j + 1]
      BY <1>3, <1>6
    <2>2. i + 1 = j + 1
      BY <2>1 DEF Distinct
    <2> QED
      BY <1>5, <2>2
  <1>7. ASSUME NEW d
        PROVE  On(l, d) <=> On(s, d) /\ d # Head(s)
    <2>1. ASSUME NEW i \in DOMAIN l, l[i] = d
          PROVE  On(s, d) /\ d # Head(s)
      <3>1. i + 1 \in DOMAIN s /\ s[i + 1] = d /\ i + 1 # 1 /\ 1 \in DOMAIN s
        BY <1>3, <1>5, <2>1
      <3>2. s[1] # d
        BY <3>1 DEF Distinct
      <3> QED
        BY <1>1, <3>1, <3>2 DEF On
    <2>2. ASSUME NEW i \in DOMAIN s, s[i] = d, d # Head(s)
          PROVE  On(l, d)
      <3>1. i # 1
        BY <1>1, <2>2
      <3>2. i - 1 \in DOMAIN l /\ l[i - 1] = d
        BY <1>4, <2>2, <3>1
      <3> QED
        BY <3>2 DEF On
    <2> QED
      BY <2>1, <2>2 DEF On
  <1> QED
    BY <1>1, <1>5, <1>6, <1>7 DEF Distinct, On, l

LEMMA ListEmpty == Distinct(<<>>) /\ \A d : ~ On(<<>>, d)
  BY DEF Distinct, On

(* Listed() counts at most one. *)
LEMMA ListedIs ==
    ASSUME RepInv, NEW c \in Proc, par[c] \in Proc
    PROVE  Listed(c) = IF On(grp[par[c]].stat, c) THEN 1 ELSE 0
  <1> DEFINE s == grp[par[c]].stat
             A == {i \in DOMAIN s : s[i] = c}
  <1>1. CASE On(s, c)
    <2>1. PICK i \in DOMAIN s : s[i] = c
      BY <1>1 DEF On
    <2>2. A = {i}
      BY <2>1 DEF RepInv, Distinct
    <2> QED
      BY <1>1, <2>2, FS_Singleton DEF Listed
  <1>2. CASE ~ On(s, c)
    <2>1. A = {}
      BY <1>2 DEF On
    <2> QED
      BY <1>2, <2>1, FS_EmptySet DEF Listed
  <1> QED
    BY <1>1, <1>2

-----------------------------------------------------------------------------
(* A step that leaves lists and counts alone, posts nothing and attaches no *)
(* parent.                                                                  *)
LEMMA StillKeeps ==
    ASSUME RInv, RepInv, par' = par, got' = got,
           \A q \in Proc : /\ grp'[q].stat = grp[q].stat
                           /\ grp'[q].parent => grp[q].parent,
           \A c \in Proc : st'[c] \in Posted <=> st[c] \in Posted
    PROVE  RepInv'
  <1>1. \A c \in Proc : par[c] # NoProc => par[c] \in Proc
    BY DEF RInv, Shape
  <1>2. \A c \in Proc :
          par[c] # NoProc /\ grp'[par[c]].parent =>
              got[c] = IF st'[c] \in Posted /\ ~ On(grp'[par[c]].stat, c) THEN 1 ELSE 0
    BY <1>1 DEF RepInv
  <1> QED
    BY <1>2 DEF RepInv

(* waits() takes the head of the list and returns it.                       *)
LEMMA TakeKeeps ==
    ASSUME RInv, RepInv, NEW p \in Proc, grp[p].parent, grp[p].stat # <<>>,
           st' = st, par' = par,
           got' = [got EXCEPT ![Head(grp[p].stat)] = @ + 1],
           grp'[p].stat = Tail(grp[p].stat),
           \A q \in Proc \ {p} : grp'[q].stat = grp[q].stat,
           \A q \in Proc : grp'[q].parent = grp[q].parent
    PROVE  RepInv'
  <1> DEFINE s == grp[p].stat
             h == Head(s)
  <1>1. s \in Seq(Proc) /\ Distinct(s)
    BY DEF RInv, Shape, IsGrp, RepInv
  <1>2. /\ h \in Proc /\ On(s, h) /\ Distinct(Tail(s))
        /\ \A d : On(Tail(s), d) <=> On(s, d) /\ d # h
    BY <1>1, ListTail
  <1>3. par[h] = p /\ st[h] \in Posted /\ p # NoProc
    BY <1>2, ProcAssumption DEF RepInv
  <1>4. got[h] = 0
    BY <1>2, <1>3 DEF RepInv
  <1>5. got' \in [Proc -> Nat] /\ got'[h] = 1 /\ \A c \in Proc \ {h} : got'[c] = got[c]
    BY <1>2, <1>4 DEF RepInv
  <1> HIDE DEF h
  <1>6. \A q \in Proc : Distinct(grp'[q].stat)
    BY <1>2 DEF RepInv
  <1>7. \A q \in Proc : \A c \in Proc : On(grp'[q].stat, c) => On(grp[q].stat, c)
    BY <1>2
  <1>8. ASSUME NEW c \in Proc, par[c] # NoProc, grp'[par[c]].parent
        PROVE  got'[c] = IF st[c] \in Posted /\ ~ On(grp'[par[c]].stat, c) THEN 1 ELSE 0
    <2>1. par[c] \in Proc /\ grp[par[c]].parent
      BY <1>8 DEF RInv, Shape
    <2>2. CASE c = h
      BY <1>2, <1>3, <1>5, <2>2
    <2>3. CASE c # h
      <3>1. On(grp'[par[c]].stat, c) <=> On(grp[par[c]].stat, c)
        BY <1>2, <2>1, <2>3
      <3> QED
        BY <1>5, <1>8, <2>1, <2>3, <3>1 DEF RepInv
    <2> QED
      BY <2>2, <2>3
  <1>9. \A c \in Proc : st[c] \notin Posted => got'[c] = 0
    BY <1>3, <1>5 DEF RepInv
  <1> QED
    BY <1>5, <1>6, <1>7, <1>8, <1>9 DEF RepInv

(* post_exitgrp(): the quick look finds no parent, or the status is listed. *)
LEMMA PostingKeeps ==
    ASSUME RInv, RepInv, NEW p \in Proc, PostLook(p) \/ Post(p)
    PROVE  RepInv'
  <1> USE DEF RInv
  <1>1. /\ par' = par /\ got' = got /\ st[p] \in {"post", "postl"}
        /\ st[p] \notin Posted /\ got[p] = 0
    BY DEF PostLook, Post, Exiting, Posted, RepInv
  <1>2. PICK l \in {"postl", "drf"} : st' = [st EXCEPT ![p] = l]
    BY DEF PostLook, Post
  <1>3. st'[p] = l /\ \A c \in Proc \ {p} : st'[c] = st[c]
    BY <1>2 DEF Shape
  <1>4. \A c \in Proc : par[c] # NoProc => par[c] \in Proc
    BY DEF Shape
  <1>5. \A q \in Proc : ~ On(grp[q].stat, p)
    BY <1>1 DEF RepInv
  <1>6. CASE grp' = grp /\ l = "postl"
    BY <1>1, <1>3, <1>6, StillKeeps DEF Posted
  <1>7. CASE grp' = grp /\ l = "drf" /\ ~ Attached(p)
    <2>1. ASSUME NEW c \in Proc, par[c] # NoProc, grp[par[c]].parent
          PROVE  c # p
      BY <1>7, <2>1 DEF Attached
    <2>2. \A c \in Proc :
            par[c] # NoProc /\ grp[par[c]].parent =>
              got[c] = IF st'[c] \in Posted /\ ~ On(grp[par[c]].stat, c) THEN 1 ELSE 0
      BY <1>3, <2>1 DEF RepInv
    <2>3. \A c \in Proc : st[c] \in Posted => st'[c] \in Posted
      BY <1>1, <1>3
    <2> QED
      BY <1>1, <1>7, <2>2, <2>3 DEF RepInv
  <1>8. ASSUME Attached(p), Post(p)
        PROVE  RepInv'
    <2> DEFINE g == par[p]
               s == grp[g].stat
    <2>1. /\ g \in Proc /\ grp[g].parent /\ l = "drf"
          /\ grp' = [grp EXCEPT ![g].stat = <<p>> \o @, ![g].sema = VSema(@)]
      BY <1>3, <1>4, <1>8 DEF Attached, Post, Shape
    <2>2. /\ grp'[g].stat = <<p>> \o s /\ grp'[g].parent = grp[g].parent
          /\ \A q \in Proc \ {g} : grp'[q] = grp[q]
      BY <2>1 DEF Shape, IsGrp
    <2>3. s \in Seq(Proc) /\ Distinct(s) /\ ~ On(s, p)
      BY <1>5, <2>1 DEF Shape, IsGrp, RepInv
    <2>4. Distinct(<<p>> \o s) /\ \A d : On(<<p>> \o s, d) <=> d = p \/ On(s, d)
      BY <2>3, ListCons
    <2> HIDE DEF s, g
    <2>5. \A q \in Proc : Distinct(grp'[q].stat)
      BY <2>2, <2>4 DEF RepInv
    <2>6. ASSUME NEW q \in Proc, NEW c \in Proc, On(grp'[q].stat, c)
          PROVE  par[c] = q /\ st'[c] \in Posted
      <3>1. CASE c = p
        BY <1>3, <1>5, <2>1, <2>2, <2>6, <3>1 DEF g, Posted
      <3>2. CASE c # p
        <4>1. On(grp[q].stat, c)
          BY <2>2, <2>4, <2>6, <3>2 DEF s
        <4> QED
          BY <1>3, <3>2, <4>1 DEF RepInv
      <3> QED
        BY <3>1, <3>2
    <2>7. \A c \in Proc : st'[c] \notin Posted => got[c] = 0
      BY <1>1, <1>3 DEF RepInv
    <2>8. ASSUME NEW c \in Proc, par[c] # NoProc, grp'[par[c]].parent
          PROVE  got[c] = IF st'[c] \in Posted /\ ~ On(grp'[par[c]].stat, c) THEN 1 ELSE 0
      <3>1. par[c] \in Proc /\ grp[par[c]].parent
        BY <1>4, <2>2, <2>8
      <3>2. CASE c = p
        BY <1>1, <2>2, <2>4, <3>2 DEF g
      <3>3. CASE c # p
        <4>1. On(grp'[par[c]].stat, c) <=> On(grp[par[c]].stat, c)
          BY <2>2, <2>4, <3>1, <3>3 DEF s
        <4> QED
          BY <1>3, <2>8, <3>1, <3>3, <4>1 DEF RepInv
      <3> QED
        BY <3>2, <3>3
    <2> QED
      BY <1>1, <2>5, <2>6, <2>7, <2>8 DEF RepInv
  <1>9. CASE PostLook(p)
    <2>1. grp' = grp /\ l = IF Attached(p) THEN "postl" ELSE "drf"
      BY <1>3, <1>9 DEF PostLook, Shape
    <2> QED
      BY <1>6, <1>7, <2>1
  <1>10. CASE Post(p)
    <2>1. l = "drf"
      BY <1>3, <1>10 DEF Post, Shape
    <2>2. ~ Attached(p) => grp' = grp
      BY <1>10 DEF Post
    <2> QED
      BY <1>7, <1>8, <1>10, <2>1, <2>2
  <1> QED
    BY <1>9, <1>10

-----------------------------------------------------------------------------
(* fork(): a new child is on no list and was not reported.                  *)
LEMMA ForkRefReports ==
    ASSUME RInv, RepInv, NEW p \in Proc, NEW t \in Thread, NEW c \in Proc,
           ForkRef(p, t, c)
    PROVE  RepInv'
  <1> USE DEF RInv
  <1>1. /\ st[c] = "unused" /\ got' = got
        /\ st' = [st EXCEPT ![c] = "born"] /\ par' = [par EXCEPT ![c] = p]
        /\ grp' = [grp EXCEPT ![p].refs = @ + 1]
    BY DEF ForkRef
  <1>2. /\ st'[c] = "born" /\ par'[c] = p /\ p # NoProc
        /\ \A d \in Proc \ {c} : st'[d] = st[d] /\ par'[d] = par[d]
    BY <1>1, ProcAssumption DEF Shape
  <1>3. \A q \in Proc : grp'[q].stat = grp[q].stat /\ grp'[q].parent = grp[q].parent
    BY <1>1 DEF Shape, IsGrp
  <1>4. st[c] \notin Posted /\ st'[c] \notin Posted /\ got[c] = 0
    BY <1>1, <1>2 DEF Posted, RepInv
  <1>5. \A q \in Proc : ~ On(grp[q].stat, c)
    BY <1>4 DEF RepInv
  <1>6. \A q \in Proc : \A d \in Proc :
            On(grp'[q].stat, d) => par'[d] = q /\ st'[d] \in Posted
    BY <1>2, <1>3, <1>5 DEF RepInv
  <1>7. ASSUME NEW d \in Proc, par'[d] # NoProc, grp'[par'[d]].parent
        PROVE  got[d] = IF st'[d] \in Posted /\ ~ On(grp'[par'[d]].stat, d) THEN 1 ELSE 0
    <2>1. CASE d = c
      BY <1>4, <2>1
    <2>2. CASE d # c
      <3>1. par[d] \in Proc /\ par'[d] = par[d] /\ st'[d] = st[d]
        BY <1>2, <1>7, <2>2 DEF Shape
      <3> QED
        BY <1>3, <1>7, <3>1 DEF RepInv
    <2> QED
      BY <2>1, <2>2
  <1>8. \A d \in Proc : st'[d] \notin Posted => got[d] = 0
    BY <1>2, <1>4 DEF RepInv
  <1> QED
    BY <1>1, <1>3, <1>6, <1>7, <1>8 DEF RepInv

(* ... and nobody is the child of a process before it runs.                 *)
LEMMA ForkRunReports ==
    ASSUME RInv, RepInv, NEW p \in Proc, NEW t \in Thread, NEW c \in Proc,
           ForkRun(p, t, c)
    PROVE  RepInv'
  <1> USE DEF RInv
  <1>1. /\ st[c] = "born" /\ got' = got /\ par' = par
        /\ st' = [st EXCEPT ![c] = "live"] /\ grp' = [grp EXCEPT ![c] = NewGrp]
    BY DEF ForkRun
  <1>2. st'[c] = "live" /\ \A d \in Proc \ {c} : st'[d] = st[d]
    BY <1>1 DEF Shape
  <1>3. /\ grp'[c].stat = <<>> /\ grp[c].stat = <<>>
        /\ \A q \in Proc \ {c} : grp'[q] = grp[q]
    BY <1>1 DEF Shape, Family, NewGrp
  <1>4. \A d \in Proc : par[d] # c
    BY <1>1 DEF Family
  <1>5. \A d \in Proc : st'[d] \in Posted <=> st[d] \in Posted
    BY <1>1, <1>2 DEF Posted
  <1>6. \A q \in Proc : grp'[q].stat = grp[q].stat
    BY <1>3
  <1>7. ASSUME NEW d \in Proc, par[d] # NoProc, grp'[par[d]].parent
        PROVE  got[d] = IF st'[d] \in Posted /\ ~ On(grp'[par[d]].stat, d) THEN 1 ELSE 0
    <2>1. par[d] \in Proc /\ grp'[par[d]] = grp[par[d]]
      BY <1>3, <1>4, <1>7 DEF Shape
    <2> QED
      BY <1>5, <1>7, <2>1 DEF RepInv
  <1> QED
    BY <1>1, <1>5, <1>6, <1>7 DEF RepInv

(* noparent_exitgrp() drops what nobody will take any more.                 *)
LEMMA NoparentReports ==
    ASSUME RInv, RepInv, NEW p \in Proc, Noparent(p)
    PROVE  RepInv'
  <1> USE DEF RInv
  <1>1. /\ grp[p].parent /\ got' = got /\ par' = par
        /\ grp' = [grp EXCEPT ![p].parent = FALSE, ![p].stat = <<>>]
        /\ st[p] = "np" /\ st' = [st EXCEPT ![p] = "npd"]
    BY DEF Noparent, Exiting, Family
  <1>2. /\ grp'[p].parent = FALSE /\ grp'[p].stat = <<>>
        /\ \A q \in Proc \ {p} : grp'[q] = grp[q]
    BY <1>1 DEF Shape, IsGrp
  <1>3. \A d \in Proc : st'[d] \in Posted <=> st[d] \in Posted
    BY <1>1 DEF Posted, Shape
  <1>4. ASSUME NEW d \in Proc, par[d] # NoProc, grp'[par[d]].parent
        PROVE  got[d] = IF st'[d] \in Posted /\ ~ On(grp'[par[d]].stat, d) THEN 1 ELSE 0
    <2>1. par[d] \in Proc /\ grp'[par[d]] = grp[par[d]]
      BY <1>2, <1>4 DEF Shape
    <2> QED
      BY <1>3, <1>4, <2>1 DEF RepInv
  <1>5. \A q \in Proc : Distinct(grp'[q].stat)
    BY <1>2, ListEmpty DEF RepInv
  <1>6. \A q \in Proc : \A d \in Proc : On(grp'[q].stat, d) => On(grp[q].stat, d)
    BY <1>2, ListEmpty
  <1> QED
    BY <1>1, <1>3, <1>4, <1>5, <1>6 DEF RepInv

(* deref_exitgrp() leaves the list alone.                                   *)
LEMMA DerefReports ==
    ASSUME RInv, RepInv, NEW p \in Proc, NoparentDeref(p) \/ DerefParent(p)
    PROVE  RepInv'
  <1> USE DEF RInv
  <1>1. ASSUME NEW g \in Proc, grp[g].refs > 0, grp' = [grp EXCEPT ![g] = Deref(@)]
        PROVE  \A q \in Proc : grp'[q].stat = grp[q].stat /\ grp'[q].parent = grp[q].parent
    <2>1. IsGrp(grp[g]) /\ grp'[g] = Deref(grp[g])
          /\ \A q \in Proc \ {g} : grp'[q] = grp[q]
      BY <1>1 DEF Shape
    <2>2. Deref(grp[g]).stat = grp[g].stat /\ Deref(grp[g]).parent = grp[g].parent
      BY <1>1, <2>1, DerefFields
    <2> QED
      BY <2>1, <2>2
  <1>2. CASE NoparentDeref(p)
    <2>1. st[p] = "npd"
      BY <1>2 DEF NoparentDeref, Exiting
    <2>2. grp[p].refs > 0 /\ DerefFails(grp[p]) = "none"
      <3>1. grp[p].refs = 1 + Cardinality(Children(p)) /\ DerefFails(grp[p]) = "none"
        BY <2>1, OwnDerefSafe
      <3> QED
        BY <3>1, ChildrenFinite
    <2>3. /\ grp' = [grp EXCEPT ![p] = Deref(@)] /\ st' = [st EXCEPT ![p] = "post"]
          /\ par' = par /\ got' = got
      BY <1>2, <2>2 DEF NoparentDeref
    <2>4. \A c \in Proc : st'[c] \in Posted <=> st[c] \in Posted
      BY <2>1, <2>3 DEF Posted, Shape
    <2> QED
      BY <1>1, <2>2, <2>3, <2>4, StillKeeps
  <1>3. CASE DerefParent(p)
    <2>1. st[p] = "drf"
      BY <1>3 DEF DerefParent, Exiting
    <2>2. par[p] # NoProc => /\ DerefFails(grp[par[p]]) = "none"
                             /\ par[p] \in Proc /\ grp[par[p]].refs > 0
      <3> SUFFICES ASSUME par[p] # NoProc
                   PROVE  /\ DerefFails(grp[par[p]]) = "none"
                          /\ par[p] \in Proc /\ grp[par[p]].refs > 0
        OBVIOUS
      <3>1. PICK g \in Proc : g = par[p] /\ DerefFails(grp[g]) = "none"
                              /\ Cardinality(Children(g)) > 0
        BY <2>1, ParentDerefSafe
      <3> QED
        BY <3>1, ChildrenFinite DEF RefsCount
    <2>3. /\ grp' = IF par[p] = NoProc THEN grp ELSE [grp EXCEPT ![par[p]] = Deref(@)]
          /\ st' = [st EXCEPT ![p] = "dead"] /\ par' = par /\ got' = got
      BY <1>3, <2>2 DEF DerefParent
    <2>4. \A c \in Proc : st'[c] \in Posted <=> st[c] \in Posted
      BY <2>1, <2>3 DEF Posted, Shape
    <2>5. \A q \in Proc : grp'[q].stat = grp[q].stat /\ grp'[q].parent = grp[q].parent
      BY <1>1, <2>2, <2>3
    <2> QED
      BY <2>3, <2>4, <2>5, StillKeeps
  <1> QED
    BY <1>2, <1>3

(* Threads come and go, or wait.                                            *)
LEMMA ThreadReports ==
    ASSUME RInv, RepInv, NEW p \in Proc, NEW t \in Thread,
           \/ \E u \in Thread : ForkThread(p, t, u)
           \/ Exit(p, t) \/ WaitTake(p, t) \/ WaitBlock(p, t)
           \/ WaitIntr(p, t) \/ WaitWoken(p, t) \/ WaitCount(p, t)
    PROVE  RepInv'
  <1> USE DEF RInv
  <1>1. ASSUME NEW x, grp' = [grp EXCEPT ![p].sema = x], par' = par, got' = got, st' = st
        PROVE  RepInv'
    <2>1. \A q \in Proc : grp'[q].stat = grp[q].stat /\ grp'[q].parent = grp[q].parent
      BY <1>1 DEF Shape, IsGrp
    <2> QED
      BY <1>1, <2>1, StillKeeps
  <1>2. CASE grp' = grp /\ par' = par /\ got' = got /\ st' = st
    BY <1>2, StillKeeps
  <1>3. CASE Exit(p, t)
    <2>1. PICK l \in {"live", "np"} : st' = [st EXCEPT ![p] = l]
      BY <1>3 DEF Exit, At
    <2>2. \A c \in Proc : st'[c] \in Posted <=> st[c] \in Posted
      BY <1>3, <2>1 DEF Exit, At, Posted, Shape
    <2> QED
      BY <1>3, <2>2, StillKeeps DEF Exit
  <1>4. CASE st[p] = "live" /\ grp[p].stat # <<>> /\ st' = st /\ par' = par
             /\ grp' = [grp EXCEPT ![p].stat = Tail(@)]
             /\ got' = [got EXCEPT ![Head(grp[p].stat)] = @ + 1]
    <2>1. grp[p].parent
      BY <1>4 DEF Family
    <2>2. /\ grp'[p].stat = Tail(grp[p].stat)
          /\ \A q \in Proc \ {p} : grp'[q].stat = grp[q].stat
          /\ \A q \in Proc : grp'[q].parent = grp[q].parent
      BY <1>4 DEF Shape, IsGrp
    <2> QED
      BY <1>4, <2>1, <2>2, TakeKeeps
  <1>5. CASE \E u \in Thread : ForkThread(p, t, u)
    BY <1>2, <1>5 DEF ForkThread
  <1>6. CASE WaitTake(p, t)
    BY <1>4, <1>6 DEF WaitTake, At
  <1>7. CASE WaitBlock(p, t)
    BY <1>1, <1>7 DEF WaitBlock
  <1>8. CASE WaitIntr(p, t)
    BY <1>1, <1>8 DEF WaitIntr
  <1>9. CASE WaitWoken(p, t)
    <2>1. CASE grp[p].stat = <<>>
      BY <1>2, <1>9, <2>1 DEF WaitWoken, Panic
    <2>2. CASE grp[p].stat # <<>>
      BY <1>4, <1>9, <2>2 DEF WaitWoken, At
    <2> QED
      BY <2>1, <2>2
  <1>10. CASE WaitCount(p, t)
    BY <1>1, <1>10 DEF WaitCount
  <1> QED
    BY <1>3, <1>5, <1>6, <1>7, <1>8, <1>9, <1>10

-----------------------------------------------------------------------------
LEMMA InitRepInv == Init => RepInv
  <1> SUFFICES ASSUME Init
               PROVE  RepInv
    OBVIOUS
  <1>1. \A p \in Proc : grp[p].stat = <<>> /\ par[p] = NoProc /\ got[p] = 0
    BY DEF Init, NewGrp, NoGrp
  <1> QED
    BY <1>1, ListEmpty DEF RepInv, Init

LEMMA StepKeepsRepInv == RInv /\ RepInv /\ [Next]_vars => RepInv'
  <1> SUFFICES ASSUME RInv, RepInv, [Next]_vars
               PROVE  RepInv'
    OBVIOUS
  <1>1. CASE UNCHANGED vars
    BY <1>1, StillKeeps DEF vars
  <1>2. ASSUME NEW p \in Proc, ExitStep(p)
        PROVE  RepInv'
    BY <1>2, NoparentReports, DerefReports, PostingKeeps DEF ExitStep
  <1>3. ASSUME NEW p \in Proc, NEW t \in Thread, ThreadStep(p, t)
        PROVE  RepInv'
    BY <1>3, ForkRunReports, ThreadReports DEF ThreadStep
  <1>4. ASSUME NEW p \in Proc, NEW t \in Thread, Syscall(p, t) \/ WaitIntr(p, t)
        PROVE  RepInv'
    BY <1>4, ForkRefReports, ThreadReports DEF Syscall
  <1> QED
    BY <1>1, <1>2, <1>3, <1>4 DEF Next

(* The invariant the two theorems below rest on.                            *)
LEMMA ReportInvariant == Spec => [](RInv /\ RepInv)
  <1> QED
    BY InitRInv, InitRepInv, StepKeepsRInv, StepKeepsRepInv, PTL DEF Spec

(* A child whose parent stays is reported exactly once, from the moment it  *)
(* posted its status: no status is lost, none is returned twice, whoever    *)
(* waits and in whatever order parents and children exit.                   *)
THEOREM EveryExitReportedOnce == Spec => []ReportedOnce
  <1>1. RInv /\ RepInv => ReportedOnce
    <2> SUFFICES ASSUME RInv, RepInv, NEW c \in Proc, par[c] # NoProc, grp[par[c]].parent
                 PROVE  Listed(c) + got[c] = IF st[c] \in {"drf", "dead"} THEN 1 ELSE 0
      BY DEF ReportedOnce
    <2>1. par[c] \in Proc
      BY DEF RInv, Shape
    <2>2. Listed(c) = IF On(grp[par[c]].stat, c) THEN 1 ELSE 0
      BY <2>1, ListedIs
    <2>3. got[c] = IF st[c] \in Posted /\ ~ On(grp[par[c]].stat, c) THEN 1 ELSE 0
      BY DEF RepInv
    <2>4. On(grp[par[c]].stat, c) => st[c] \in Posted
      BY <2>1 DEF RepInv
    <2> QED
      BY <2>2, <2>3, <2>4 DEF Posted
  <1> QED
    BY <1>1, ReportInvariant, PTL

(* When wait_exitgrp() says that there are no children (exitgrp.c:199), all *)
(* of them are gone, and waits() returned the status of each.               *)
THEOREM NoChildIsTrue == Spec => []NoChildTrue
  <1>1. RInv /\ RepInv => NoChildTrue
    <2> SUFFICES ASSUME RInv, RepInv, NEW p \in Proc, st[p] = "live", NoChild(p),
                        NEW c \in Proc, par[c] = p
                 PROVE  st[c] = "dead" /\ got[c] = 1
      BY DEF NoChildTrue
    <2>1. grp[p].stat = <<>> /\ grp[p].refs = 1 /\ grp[p].parent /\ p # NoProc
      BY ProcAssumption DEF NoChild, RInv, Family
    <2>2. Children(p) = {}
      <3>1. 1 = 1 + Cardinality(Children(p))
        BY <2>1 DEF RInv, RefsCount, Attending
      <3>2. Cardinality(Children(p)) = 0
        BY <3>1, ChildrenFinite
      <3> QED
        BY <3>2, ChildrenFinite, FS_EmptySet
    <2>3. st[c] \in Life /\ c \notin Children(p) /\ st[c] # "unused"
      BY <2>1, <2>2 DEF RInv, Shape, Family
    <2>4. st[c] = "dead"
      BY <2>3 DEF Children, Life
    <2> QED
      BY <2>1, <2>4, ListEmpty DEF RepInv, Posted
  <1> QED
    BY <1>1, ReportInvariant, PTL

-----------------------------------------------------------------------------
(***************************************************************************)
(* waits(), where one thread of each process waits.  (With two that wait   *)
(* the assertion of wait_exitgrp() does fail.)                             *)
(***************************************************************************)

OneWaiter == \A t \in Waiter : \A u \in Waiter : t = u

(* Threads that are not in waits(). *)
Away == {"none", "idle", "fork"}

(* The list of statuses of group g and its e_sema, while its threads are at *)
(* f: in step, but for the one thread in waits().                           *)
Quiet(g, k) == g.sema = [cnt |-> Len(g.stat) + k, q |-> <<>>]
Waiting(g, f, w) ==
    \/ f[w] = "wsleep" /\ g.stat = <<>> /\ g.sema = [cnt |-> -1, q |-> <<w>>]
    \/ f[w] = "wgot" /\ g.stat # <<>> /\ Quiet(g, -1)
    \/ f[w] = "wp" /\ Quiet(g, 1)
InStep(g, f) ==
    \/ (\A t \in Thread : f[t] \in Away) /\ Quiet(g, 0)
    \/ \E w \in Thread : Waiting(g, f, w) /\ \A t \in Thread \ {w} : f[t] \in Away

Threads(f) ==
    f \in [Thread -> ThreadPC] /\ \A t \in Thread : f[t] \notin Away => t \in Waiter

WInv ==
    /\ pc = [p \in Proc |-> pc[p]]
    /\ \A p \in Proc : Threads(pc[p])
    /\ \A p \in Proc : SemaType(grp[p].sema, Thread)
    /\ \A p \in Proc : grp[p].parent => InStep(grp[p], pc[p])
    /\ got \in [Proc -> Nat]

-----------------------------------------------------------------------------
(* A step of one process that keeps its group and its threads in step.      *)
LEMMA OneKeeps ==
    ASSUME Shape, WInv, NEW p \in Proc, NEW g, NEW f,
           grp' = [grp EXCEPT ![p] = g], pc' = [pc EXCEPT ![p] = f],
           Threads(f), SemaType(g.sema, Thread), g.parent => InStep(g, f),
           got' \in [Proc -> Nat]
    PROVE  WInv'
  <1>1. \A q \in Proc : grp'[q] = IF q = p THEN g ELSE grp[q]
    BY DEF Shape
  <1>2. pc' = [q \in Proc |-> IF q = p THEN f ELSE pc[q]]
    BY DEF WInv
  <1>3. \A q \in Proc : pc'[q] = IF q = p THEN f ELSE pc[q]
    BY <1>2
  <1>4. pc' = [q \in Proc |-> pc'[q]]
    BY <1>2
  <1>5. \A q \in Proc : /\ Threads(pc'[q])
                        /\ SemaType(grp'[q].sema, Thread)
                        /\ grp'[q].parent => InStep(grp'[q], pc'[q])
    BY <1>1, <1>3 DEF WInv
  <1> QED
    BY <1>4, <1>5 DEF WInv

(* A step that leaves threads, statuses and semaphores alone.               *)
LEMMA RestKeeps ==
    ASSUME WInv, pc' = pc, got' = got,
           \A q \in Proc : /\ grp'[q].stat = grp[q].stat
                           /\ grp'[q].sema = grp[q].sema
                           /\ grp'[q].parent => grp[q].parent
    PROVE  WInv'
  <1>1. \A q \in Proc : /\ Threads(pc'[q])
                        /\ SemaType(grp'[q].sema, Thread)
                        /\ grp'[q].parent => InStep(grp'[q], pc'[q])
    BY DEF WInv, InStep, Waiting, Quiet
  <1> QED
    BY <1>1 DEF WInv

(* Where one thread moves to. *)
LEMMA Moved ==
    ASSUME NEW f, Threads(f), NEW t \in Thread, NEW a \in ThreadPC,
           a \in Away \/ t \in Waiter
    PROVE  /\ Threads([f EXCEPT ![t] = a])
           /\ [f EXCEPT ![t] = a][t] = a
           /\ \A u \in Thread \ {t} : [f EXCEPT ![t] = a][u] = f[u]
  BY DEF Threads

(* Between two states away from waits() nothing changes. *)
LEMMA AwayKeeps ==
    ASSUME NEW g, NEW f, Threads(f), InStep(g, f), NEW t \in Thread, f[t] \in Away,
           NEW a \in Away
    PROVE  InStep(g, [f EXCEPT ![t] = a])
  <1>1. a \in ThreadPC
    BY DEF Away, ThreadPC
  <1>2. /\ [f EXCEPT ![t] = a][t] = a
        /\ \A u \in Thread \ {t} : [f EXCEPT ![t] = a][u] = f[u]
    BY DEF Threads
  <1> DEFINE e == [f EXCEPT ![t] = a]
  <1> HIDE DEF e
  <1>3. e[t] = a /\ \A u \in Thread \ {t} : e[u] = f[u]
    BY <1>2 DEF e
  <1>4. InStep(g, e)
    <2>1. CASE (\A u \in Thread : f[u] \in Away) /\ Quiet(g, 0)
      BY <1>3, <2>1 DEF InStep
    <2>2. CASE \E w \in Thread : Waiting(g, f, w) /\ \A u \in Thread \ {w} : f[u] \in Away
      <3>1. PICK w \in Thread : Waiting(g, f, w) /\ \A u \in Thread \ {w} : f[u] \in Away
        BY <2>2
      <3>2. w # t
        BY <3>1 DEF Waiting, Away
      <3>3. Waiting(g, e, w)
        BY <1>3, <3>1, <3>2 DEF Waiting
      <3> QED
        BY <1>3, <3>1, <3>2, <3>3 DEF InStep
    <2> QED
      BY <2>1, <2>2 DEF InStep
  <1> QED
    BY <1>4 DEF e

(* While one thread is in waits() no other is.                              *)
LEMMA Alone ==
    ASSUME OneWaiter, NEW g, NEW f, Threads(f), InStep(g, f), NEW t \in Waiter
    PROVE  /\ \A u \in Thread \ {t} : f[u] \in Away
           /\ f[t] \in Away => Quiet(g, 0)
           /\ f[t] \notin Away => Waiting(g, f, t)
  <1>1. CASE (\A u \in Thread : f[u] \in Away) /\ Quiet(g, 0)
    BY <1>1, ThreadAssumption
  <1>2. CASE \E w \in Thread : Waiting(g, f, w) /\ \A u \in Thread \ {w} : f[u] \in Away
    <2>1. PICK w \in Thread : Waiting(g, f, w) /\ \A u \in Thread \ {w} : f[u] \in Away
      BY <1>2
    <2>2. f[w] \notin Away
      BY <2>1 DEF Waiting, Away
    <2>3. w \in Waiter
      BY <2>2 DEF Threads
    <2>4. w = t
      BY <2>3 DEF OneWaiter
    <2> QED
      BY <2>1, <2>2, <2>4
  <1> QED
    BY <1>1, <1>2 DEF InStep

(* Operations on e_sema, as they happen in step: nobody asleep on it ...    *)
LEMMA RestSteps ==
    ASSUME NEW n \in Int, NEW t \in Thread, NEW r, r = [cnt |-> n, q |-> <<>>]
    PROVE  /\ SemaType(r, Thread)
           /\ VSema(r) = [cnt |-> n + 1, q |-> <<>>] /\ VWakes(r) = {}
           /\ n > 0 => ~ PSleeps(r) /\ PSema(r, t) = [cnt |-> n - 1, q |-> <<>>]
           /\ n = 0 => PSleeps(r) /\ PSema(r, t) = [cnt |-> -1, q |-> <<t>>]
  <1>1. <<>> \in Seq(Thread) /\ Append(<<>>, t) = <<t>>
    OBVIOUS
  <1>2. SemaType(r, Thread)
    BY <1>1 DEF SemaType
  <1>3. VSema(r) = [cnt |-> n + 1, q |-> <<>>] /\ VWakes(r) = {}
    BY DEF VSema, VWakes
  <1>4. n > 0 => ~ PSleeps(r) /\ PSema(r, t) = [cnt |-> n - 1, q |-> <<>>]
    BY DEF PSleeps, PSema
  <1>5. n = 0 => PSleeps(r) /\ PSema(r, t) = [cnt |-> -1, q |-> <<t>>]
    BY <1>1 DEF PSleeps, PSema
  <1> QED
    BY <1>2, <1>3, <1>4, <1>5

(* ... or one thread. *)
LEMMA AsleepSteps ==
    ASSUME NEW t \in Thread, NEW b, b = [cnt |-> -1, q |-> <<t>>]
    PROVE  /\ SemaType(b, Thread)
           /\ VSema(b) = [cnt |-> 0, q |-> <<>>] /\ VWakes(b) = {t}
           /\ DqSema(b, t) = [cnt |-> 0, q |-> <<>>]
  <1>1. <<t>> \in Seq(Thread) /\ <<t>> # <<>> /\ Tail(<<t>>) = <<>> /\ Head(<<t>>) = t
    OBVIOUS
  <1>2. SemaType(b, Thread)
    BY <1>1 DEF SemaType
  <1>3. VSema(b) = [cnt |-> 0, q |-> <<>>] /\ VWakes(b) = {t}
    BY <1>1 DEF VSema, VWakes
  <1>4. DqSema(b, t) = [cnt |-> 0, q |-> <<>>]
    <2> DEFINE i == CHOOSE j \in DOMAIN b.q : b.q[j] = t
    <2>1. DOMAIN b.q = {1} /\ b.q[1] = t /\ b.q = <<t>>
      OBVIOUS
    <2>2. i = 1
      BY <2>1
    <2>3. RemoveAt(<<t>>, 1) = <<>>
      BY <1>1 DEF RemoveAt
    <2> QED
      BY <2>1, <2>2, <2>3 DEF DqSema
  <1> QED
    BY <1>2, <1>3, <1>4

-----------------------------------------------------------------------------
(* The steps that leave e_sema and the list alone.                          *)
LEMMA OutsideWait ==
    ASSUME RInv, WInv, NEW p \in Proc, NEW t \in Thread,
           \/ \E c \in Proc : ForkRef(p, t, c) \/ ForkRun(p, t, c)
           \/ \E u \in Thread : ForkThread(p, t, u)
           \/ Exit(p, t) \/ Noparent(p) \/ NoparentDeref(p) \/ PostLook(p)
           \/ DerefParent(p)
    PROVE  WInv'
  <1> USE DEF RInv
  <1>1. \A a \in Away : a \in ThreadPC
    BY DEF Away, ThreadPC
  <1>2. Threads(pc[p]) /\ SemaType(grp[p].sema, Thread) /\ got \in [Proc -> Nat]
        /\ grp = [grp EXCEPT ![p] = grp[p]] /\ pc = [pc EXCEPT ![p] = pc[p]]
        /\ (st[p] = "live" => grp[p].parent /\ InStep(grp[p], pc[p]))
    BY DEF WInv, Shape, Family
  <1>3. ASSUME NEW u \in Thread, NEW a \in Away, pc[p][u] \in Away, st[p] = "live",
               pc' = [pc EXCEPT ![p] = [pc[p] EXCEPT ![u] = a]],
               grp' = grp, got' = got
        PROVE  WInv'
    <2> DEFINE e == [pc[p] EXCEPT ![u] = a]
    <2>1. Threads(e) /\ InStep(grp[p], e)
      BY <1>1, <1>2, <1>3, Moved, AwayKeeps
    <2>2. /\ pc' = [pc EXCEPT ![p] = e] /\ grp' = [grp EXCEPT ![p] = grp[p]]
          /\ got' \in [Proc -> Nat]
      BY <1>2, <1>3
    <2> HIDE DEF e
    <2> QED
      BY <1>2, <2>1, <2>2, OneKeeps
  <1>4. CASE \E c \in Proc : ForkRef(p, t, c)
    <2>1. pc[p][t] = "idle" /\ st[p] = "live" /\ got' = got
          /\ grp' = [grp EXCEPT ![p].refs = @ + 1]
          /\ pc' = [pc EXCEPT ![p] = [pc[p] EXCEPT ![t] = "fork"]]
      BY <1>4 DEF ForkRef, At, Step, WInv
    <2> DEFINE e == [pc[p] EXCEPT ![t] = "fork"]
               h == [grp[p] EXCEPT !.refs = grp[p].refs + 1]
    <2>2. Threads(e) /\ InStep(grp[p], e)
      <3>1. "fork" \in Away /\ "idle" \in Away
        BY DEF Away
      <3> QED
        BY <1>1, <1>2, <2>1, <3>1, Moved, AwayKeeps
    <2>3. h.stat = grp[p].stat /\ h.sema = grp[p].sema
      BY DEF Shape, IsGrp
    <2>4. InStep(h, e)
      <3> HIDE DEF e, h
      <3> QED
        BY <2>2, <2>3 DEF InStep, Waiting, Quiet
    <2>5. grp' = [grp EXCEPT ![p] = h]
      BY <2>1
    <2> HIDE DEF e, h
    <2> QED
      BY <1>2, <2>1, <2>2, <2>3, <2>4, <2>5, OneKeeps DEF e
  <1>5. CASE \E c \in Proc : ForkRun(p, t, c)
    <2>1. PICK c \in Proc : ForkRun(p, t, c)
      BY <1>5
    <2>2. /\ st[p] = "live" /\ pc[p][t] = "fork" /\ st[c] = "born" /\ got' = got
          /\ grp' = [grp EXCEPT ![c] = NewGrp]
          /\ pc' = [pc EXCEPT ![p][t] = "idle", ![c] = OneThread]
      BY <2>1 DEF ForkRun, At
    <2> DEFINE e == [pc[p] EXCEPT ![t] = "idle"]
    <2>3. "idle" \in Away /\ "fork" \in Away /\ p # c
      BY <2>2 DEF Away
    <2>4. Threads(e) /\ InStep(grp[p], e)
      BY <1>1, <1>2, <2>2, <2>3, Moved, AwayKeeps
    <2>5. /\ \A q \in Proc : grp'[q] = IF q = c THEN NewGrp ELSE grp[q]
          /\ \A q \in Proc : pc'[q] = IF q = c THEN OneThread
                                      ELSE IF q = p THEN e ELSE pc[q]
          /\ pc' = [q \in Proc |-> pc'[q]]
      BY <2>2, <2>3 DEF Shape, WInv
    <2>6. Threads(OneThread) /\ \A u \in Thread : OneThread[u] \in Away
      <3>1. OneThread = [u \in Thread |-> IF u = Main THEN "idle" ELSE "none"]
        BY DEF OneThread, NoThreads
      <3> QED
        BY <3>1 DEF Threads, ThreadPC, Away
    <2>7. SemaType(NewGrp.sema, Thread) /\ Quiet(NewGrp, 0)
      <3>1. NewGrp.stat = <<>> /\ NewGrp.sema = [cnt |-> 0, q |-> <<>>] /\ Len(<<>>) = 0
        BY DEF NewGrp, NewSema
      <3>2. <<>> \in Seq(Thread)
        OBVIOUS
      <3> QED
        BY <3>1, <3>2 DEF Quiet, SemaType
    <2>8. InStep(NewGrp, OneThread)
      BY <2>6, <2>7 DEF InStep
    <2> HIDE DEF e
    <2>9. \A q \in Proc : /\ Threads(pc'[q])
                          /\ SemaType(grp'[q].sema, Thread)
                          /\ grp'[q].parent => InStep(grp'[q], pc'[q])
      <3> SUFFICES ASSUME NEW q \in Proc
                   PROVE  /\ Threads(pc'[q])
                          /\ SemaType(grp'[q].sema, Thread)
                          /\ grp'[q].parent => InStep(grp'[q], pc'[q])
        OBVIOUS
      <3>1. CASE q = c
        <4>1. grp'[q] = NewGrp /\ pc'[q] = OneThread
          BY <2>5, <3>1
        <4> QED
          BY <2>6, <2>7, <2>8, <4>1
      <3>2. CASE q = p
        <4>1. grp'[q] = grp[p] /\ pc'[q] = e
          BY <2>3, <2>5, <3>2
        <4> QED
          BY <1>2, <2>4, <4>1
      <3>3. CASE q # c /\ q # p
        <4>1. grp'[q] = grp[q] /\ pc'[q] = pc[q]
          BY <2>5, <3>3
        <4> QED
          BY <4>1 DEF WInv
      <3> QED
        BY <3>1, <3>2, <3>3
    <2> QED
      BY <1>2, <2>2, <2>5, <2>9 DEF WInv
  <1>6. CASE \E u \in Thread : ForkThread(p, t, u)
    <2>1. PICK u \in Thread : ForkThread(p, t, u)
      BY <1>6
    <2>2. pc[p][u] \in Away /\ "idle" \in Away
      BY <2>1 DEF ForkThread, Away
    <2> QED
      BY <1>3, <2>1, <2>2 DEF ForkThread, At, Step, WInv
  <1>7. CASE Exit(p, t)
    <2>1. pc[p][t] \in Away /\ "none" \in Away
      BY <1>7 DEF Exit, At, Away
    <2> QED
      BY <1>3, <1>7, <2>1 DEF Exit, At, Step, WInv
  <1>8. CASE Noparent(p)
    <2>1. /\ st[p] = "np" /\ grp[p].parent /\ pc' = pc /\ got' = got
          /\ grp' = [grp EXCEPT ![p].parent = FALSE, ![p].stat = <<>>]
      BY <1>8 DEF Noparent, Exiting, Family
    <2>2. grp'[p].parent = FALSE /\ grp'[p].sema = grp[p].sema
          /\ \A q \in Proc \ {p} : grp'[q] = grp[q]
      BY <2>1 DEF Shape, IsGrp
    <2>3. \A q \in Proc : /\ SemaType(grp'[q].sema, Thread)
                          /\ grp'[q].parent => InStep(grp'[q], pc[q])
      BY <2>2 DEF WInv
    <2> QED
      BY <2>1, <2>3 DEF WInv
  <1>9. ASSUME NEW g \in Proc, grp[g].refs > 0, grp' = [grp EXCEPT ![g] = Deref(@)],
               pc' = pc, got' = got
        PROVE  WInv'
    <2>1. IsGrp(grp[g]) /\ grp'[g] = Deref(grp[g])
          /\ \A q \in Proc \ {g} : grp'[q] = grp[q]
      BY <1>9 DEF Shape
    <2>2. Deref(grp[g]).stat = grp[g].stat /\ Deref(grp[g]).parent = grp[g].parent
      BY <1>9, <2>1, DerefFields
    <2>3. Deref(grp[g]).sema = grp[g].sema
      BY <2>1 DEF Deref, IsGrp
    <2> QED
      BY <1>9, <2>1, <2>2, <2>3, RestKeeps
  <1>10. CASE NoparentDeref(p)
    <2>1. st[p] = "npd"
      BY <1>10 DEF NoparentDeref, Exiting
    <2>2. grp[p].refs > 0 /\ DerefFails(grp[p]) = "none"
      <3>1. grp[p].refs = 1 + Cardinality(Children(p)) /\ DerefFails(grp[p]) = "none"
        BY <2>1, OwnDerefSafe
      <3> QED
        BY <3>1, ChildrenFinite
    <2> QED
      BY <1>9, <1>10, <2>1, <2>2 DEF NoparentDeref
  <1>11. CASE DerefParent(p)
    <2>1. st[p] = "drf"
      BY <1>11 DEF DerefParent, Exiting
    <2>2. CASE par[p] = NoProc
      <3>1. grp' = grp /\ pc' = pc /\ got' = got
        BY <1>11, <2>1, <2>2 DEF DerefParent
      <3> QED
        BY <3>1, RestKeeps
    <2>3. CASE par[p] # NoProc
      <3>1. PICK g \in Proc : g = par[p] /\ DerefFails(grp[g]) = "none"
                              /\ Cardinality(Children(g)) > 0
        BY <2>1, <2>3, ParentDerefSafe
      <3>2. grp[g].refs > 0
        BY <3>1, ChildrenFinite DEF RefsCount
      <3> QED
        BY <1>9, <1>11, <2>3, <3>1, <3>2 DEF DerefParent
    <2> QED
      BY <2>2, <2>3
  <1>12. CASE PostLook(p)
    BY <1>12, RestKeeps DEF PostLook
  <1> QED
    BY <1>4, <1>5, <1>6, <1>7, <1>8, <1>10, <1>11, <1>12

-----------------------------------------------------------------------------
(* waits(): the list and e_sema move apart and together again.              *)
LEMMA InsideWait ==
    ASSUME OneWaiter, RInv, WInv, NEW p \in Proc, NEW t \in Thread,
           \/ WaitTake(p, t) \/ WaitBlock(p, t) \/ WaitIntr(p, t)
           \/ WaitWoken(p, t) \/ WaitCount(p, t)
    PROVE  WInv' /\ UNCHANGED panic
  <1> USE DEF RInv
  <1> DEFINE f == pc[p]
             n == Len(grp[p].stat)
  <1>1. /\ Threads(f) /\ SemaType(grp[p].sema, Thread) /\ got \in [Proc -> Nat]
        /\ st[p] = "live" => grp[p].parent /\ InStep(grp[p], f)
        /\ IsGrp(grp[p]) /\ grp[p].stat \in Seq(Proc) /\ n \in Nat
    BY DEF WInv, Shape, Family, IsGrp
  <1>2. st[p] = "live" /\ InStep(grp[p], f)
    BY <1>1 DEF WaitTake, WaitBlock, WaitIntr, WaitWoken, WaitCount, At
  <1>3. t \in Waiter
    BY <1>1 DEF WaitTake, WaitBlock, WaitIntr, WaitWoken, WaitCount, At, Threads, Away
  <1>4. /\ \A u \in Thread \ {t} : f[u] \in Away
        /\ f[t] \in Away => Quiet(grp[p], 0)
        /\ f[t] \notin Away => Waiting(grp[p], f, t)
    BY <1>1, <1>2, <1>3, Alone
  (* A step of t that leads to list l and semaphore s. *)
  <1>5. ASSUME NEW l \in Seq(Proc), NEW s, NEW a \in ThreadPC, SemaType(s, Thread),
               grp' = [grp EXCEPT ![p] = [grp[p] EXCEPT !.stat = l, !.sema = s]],
               pc' = [pc EXCEPT ![p][t] = a], got' \in [Proc -> Nat],
               \/ a = "idle" /\ s = [cnt |-> Len(l), q |-> <<>>]
               \/ a = "wp" /\ s = [cnt |-> Len(l) + 1, q |-> <<>>]
               \/ a = "wsleep" /\ l = <<>> /\ s = [cnt |-> -1, q |-> <<t>>]
        PROVE  WInv'
    <2> DEFINE g == [grp[p] EXCEPT !.stat = l, !.sema = s]
               e == [f EXCEPT ![t] = a]
    <2>1. Threads(e) /\ e[t] = a /\ \A u \in Thread \ {t} : e[u] = f[u]
      BY <1>1, <1>3, Moved
    <2>2. g.stat = l /\ g.sema = s
      BY <1>1 DEF IsGrp
    <2>3. grp' = [grp EXCEPT ![p] = g] /\ pc' = [pc EXCEPT ![p] = e]
      BY <1>5 DEF WInv
    <2>4. InStep(g, e)
      <3> HIDE DEF g, e
      <3>1. Len(l) \in Nat
        OBVIOUS
      <3>2. CASE a = "idle"
        BY <1>4, <1>5, <2>1, <2>2, <3>1, <3>2 DEF InStep, Quiet, Away
      <3>3. CASE a # "idle"
        BY <1>4, <1>5, <2>1, <2>2, <3>1, <3>3 DEF InStep, Waiting, Quiet
      <3> QED
        BY <3>2, <3>3
    <2> HIDE DEF g, e
    <2> QED
      BY <1>5, <2>1, <2>2, <2>3, <2>4, OneKeeps
  <1>6. \A b, x : [grp[p] EXCEPT !.stat = b] = [grp[p] EXCEPT !.stat = b, !.sema = grp[p].sema]
                  /\ [grp[p] EXCEPT !.sema = x] = [grp[p] EXCEPT !.stat = grp[p].stat, !.sema = x]
    BY <1>1 DEF IsGrp
  <1>7. grp[p].stat # <<>> => /\ Tail(grp[p].stat) \in Seq(Proc)
                              /\ Len(Tail(grp[p].stat)) = n - 1
                              /\ Head(grp[p].stat) \in Proc
    BY <1>1
  <1>8. CASE WaitTake(p, t)
    <2>1. /\ f[t] = "idle" /\ grp[p].stat # <<>> /\ panic' = panic
          /\ grp' = [grp EXCEPT ![p] = [grp[p] EXCEPT !.stat = Tail(grp[p].stat)]]
          /\ got' = [got EXCEPT ![Head(grp[p].stat)] = @ + 1]
          /\ pc' = [pc EXCEPT ![p][t] = "wp"]
      BY <1>8 DEF WaitTake, At, Step, Shape
    <2>2. Quiet(grp[p], 0)
      BY <1>4, <2>1 DEF Away
    <2>3. grp[p].sema = [cnt |-> Len(Tail(grp[p].stat)) + 1, q |-> <<>>]
      BY <1>1, <1>7, <2>1, <2>2 DEF Quiet
    <2>4. got' \in [Proc -> Nat]
      BY <1>1, <1>7, <2>1
    <2> QED
      BY <1>1, <1>5, <1>6, <1>7, <2>1, <2>3, <2>4 DEF ThreadPC
  <1>9. CASE WaitBlock(p, t)
    <2> DEFINE s == PSema(grp[p].sema, t)
    <2>1. /\ f[t] = "idle" /\ grp[p].stat = <<>> /\ panic' = panic /\ got' = got
          /\ grp' = [grp EXCEPT ![p] = [grp[p] EXCEPT !.sema = s]]
          /\ pc' = [pc EXCEPT ![p][t] = IF PSleeps(grp[p].sema) THEN "wsleep" ELSE "wgot"]
      BY <1>9 DEF WaitBlock, At, Step, Shape
    <2>2. Quiet(grp[p], 0)
      BY <1>4, <2>1 DEF Away
    <2>3. grp[p].sema = [cnt |-> 0, q |-> <<>>]
      BY <2>1, <2>2 DEF Quiet
    <2>4. PSleeps(grp[p].sema) /\ s = [cnt |-> -1, q |-> <<t>>]
      BY <2>3, RestSteps
    <2>6. SemaType(s, Thread)
      BY <2>4, AsleepSteps
    <2>5. pc' = [pc EXCEPT ![p][t] = "wsleep"]
      BY <2>1, <2>4
    <2> HIDE DEF s
    <2> QED
      BY <1>1, <1>5, <1>6, <2>1, <2>4, <2>5, <2>6 DEF ThreadPC
  <1>10. CASE WaitIntr(p, t)
    <2> DEFINE s == DqSema(grp[p].sema, t)
    <2>1. /\ f[t] = "wsleep" /\ panic' = panic /\ got' = got
          /\ grp' = [grp EXCEPT ![p] = [grp[p] EXCEPT !.sema = s]]
          /\ pc' = [pc EXCEPT ![p][t] = "idle"]
      BY <1>10 DEF WaitIntr, At, Step, Shape
    <2>2. grp[p].stat = <<>> /\ grp[p].sema = [cnt |-> -1, q |-> <<t>>]
      BY <1>4, <2>1 DEF Away, Waiting
    <2>3. s = [cnt |-> 0, q |-> <<>>] /\ Len(grp[p].stat) = 0
      BY <2>2, AsleepSteps
    <2>4. SemaType(s, Thread)
      BY <2>3, RestSteps
    <2> HIDE DEF s
    <2> QED
      BY <1>1, <1>5, <1>6, <2>1, <2>3, <2>4 DEF ThreadPC
  <1>11. CASE WaitWoken(p, t)
    <2>1. f[t] = "wgot"
      BY <1>11 DEF WaitWoken, At
    <2>2. grp[p].stat # <<>> /\ Quiet(grp[p], -1)
      BY <1>4, <2>1 DEF Away, Waiting
    <2>3. /\ panic' = panic
          /\ grp' = [grp EXCEPT ![p] = [grp[p] EXCEPT !.stat = Tail(grp[p].stat)]]
          /\ got' = [got EXCEPT ![Head(grp[p].stat)] = @ + 1]
          /\ pc' = [pc EXCEPT ![p][t] = "idle"]
      BY <1>11, <2>2 DEF WaitWoken, Step, Shape
    <2>4. grp[p].sema = [cnt |-> Len(Tail(grp[p].stat)), q |-> <<>>]
      BY <1>1, <1>7, <2>2 DEF Quiet
    <2>5. got' \in [Proc -> Nat]
      BY <1>1, <1>7, <2>2, <2>3
    <2> QED
      BY <1>1, <1>5, <1>6, <1>7, <2>2, <2>3, <2>4, <2>5 DEF ThreadPC
  <1>12. CASE WaitCount(p, t)
    <2> DEFINE s == PSema(grp[p].sema, t)
    <2>1. /\ f[t] = "wp" /\ panic' = panic /\ got' = got
          /\ grp' = [grp EXCEPT ![p] = [grp[p] EXCEPT !.sema = s]]
          /\ pc' = [pc EXCEPT ![p][t] = IF PSleeps(grp[p].sema) THEN "wpsleep" ELSE "idle"]
      BY <1>12 DEF WaitCount, At, Step, Shape
    <2>2. grp[p].sema = [cnt |-> n + 1, q |-> <<>>] /\ n + 1 > 0 /\ n + 1 \in Int
      BY <1>1, <1>4, <2>1 DEF Away, Waiting, Quiet
    <2>3. ~ PSleeps(grp[p].sema) /\ s = [cnt |-> n, q |-> <<>>]
      BY <1>1, <2>2, RestSteps
    <2>4. SemaType(s, Thread)
      BY <1>1, <2>3, RestSteps
    <2>5. pc' = [pc EXCEPT ![p][t] = "idle"]
      BY <2>1, <2>3
    <2> HIDE DEF s
    <2> QED
      BY <1>1, <1>5, <1>6, <2>1, <2>3, <2>4, <2>5 DEF ThreadPC
  <1> QED
    BY <1>8, <1>9, <1>10, <1>11, <1>12 DEF WaitTake, WaitBlock, WaitIntr, WaitCount

-----------------------------------------------------------------------------
(* What v_sema(e_sema) does to the threads of the parent. *)
Woken(g, f) == [t \in Thread |-> IF t \in VWakes(g.sema) THEN WakeTo[f[t]] ELSE f[t]]

(* One more status and one more unit: a sleeper becomes the owner of it.    *)
LEMMA PostInStep ==
    ASSUME NEW g, NEW f, NEW p \in Proc, IsGrp(g), Threads(f), InStep(g, f),
           NEW h, h.stat = <<p>> \o g.stat, h.sema = VSema(g.sema)
    PROVE  InStep(h, Woken(g, f)) /\ Threads(Woken(g, f)) /\ SemaType(h.sema, Thread)
  <1> DEFINE e == Woken(g, f)
             n == Len(g.stat)
  <1>1. g.stat \in Seq(Proc) /\ n \in Nat
    BY DEF IsGrp
  <1>2. Len(h.stat) = n + 1 /\ h.stat # <<>>
    BY <1>1
  <1>3. e = [t \in Thread |-> IF t \in VWakes(g.sema) THEN WakeTo[f[t]] ELSE f[t]]
    BY DEF Woken
  <1>4. f \in [Thread -> ThreadPC] /\ \A t \in Thread : f[t] \notin Away => t \in Waiter
    BY DEF Threads
  <1> SUFFICES InStep(h, e) /\ Threads(e) /\ SemaType(h.sema, Thread)
    OBVIOUS
  <1> HIDE DEF e
  <1>5. ASSUME NEW k \in Int, Quiet(g, k)
        PROVE  e = f /\ Quiet(h, k) /\ SemaType(h.sema, Thread)
    <2>1. n + k \in Int /\ n + k + 1 \in Int /\ Main \in Thread
      BY <1>1, ThreadAssumption
    <2>2. VWakes(g.sema) = {} /\ VSema(g.sema) = [cnt |-> n + k + 1, q |-> <<>>]
      BY <1>5, <2>1, RestSteps DEF Quiet
    <2>3. SemaType(h.sema, Thread)
      BY <2>1, <2>2, RestSteps
    <2>4. e = [t \in Thread |-> f[t]]
      BY <1>3, <2>2
    <2>5. e = f
      BY <1>4, <2>4
    <2>6. n + k + 1 = Len(h.stat) + k
      BY <1>1, <1>2
    <2>7. Quiet(h, k)
      BY <2>2, <2>6 DEF Quiet
    <2> QED
      BY <2>3, <2>5, <2>7
  <1>6. CASE (\A t \in Thread : f[t] \in Away) /\ Quiet(g, 0)
    <2>1. e = f /\ Quiet(h, 0) /\ SemaType(h.sema, Thread)
      BY <1>5, <1>6
    <2> QED
      BY <1>6, <2>1 DEF InStep
  <1>7. CASE \E w \in Thread : Waiting(g, f, w) /\ \A t \in Thread \ {w} : f[t] \in Away
    <2>1. PICK w \in Thread : Waiting(g, f, w) /\ \A t \in Thread \ {w} : f[t] \in Away
      BY <1>7
    <2>2. CASE f[w] = "wsleep" /\ g.stat = <<>> /\ g.sema = [cnt |-> -1, q |-> <<w>>]
      <3>1. VWakes(g.sema) = {w} /\ VSema(g.sema) = [cnt |-> 0, q |-> <<>>]
        BY <2>2, AsleepSteps
      <3>2. WakeTo["wsleep"] = "wgot"
        BY DEF WakeTo
      <3>3. e \in [Thread -> ThreadPC] /\ e[w] = "wgot" /\ \A t \in Thread \ {w} : e[t] = f[t]
        BY <1>3, <1>4, <2>2, <3>1, <3>2 DEF ThreadPC
      <3>4. Quiet(h, -1)
        BY <1>2, <2>2, <3>1 DEF Quiet
      <3>5. SemaType(h.sema, Thread)
        BY <3>1, RestSteps
      <3>6. Threads(e)
        BY <1>4, <2>2, <3>3 DEF Threads, Away
      <3> QED
        BY <1>2, <2>1, <3>3, <3>4, <3>5, <3>6 DEF InStep, Waiting
    <2>3. CASE f[w] = "wgot" /\ Quiet(g, -1)
      <3>1. e = f /\ Quiet(h, -1) /\ SemaType(h.sema, Thread)
        BY <1>5, <2>3
      <3> QED
        BY <1>2, <2>1, <2>3, <3>1 DEF InStep, Waiting
    <2>4. CASE f[w] = "wp" /\ Quiet(g, 1)
      <3>1. e = f /\ Quiet(h, 1) /\ SemaType(h.sema, Thread)
        BY <1>5, <2>4
      <3> QED
        BY <1>2, <2>1, <2>4, <3>1 DEF InStep, Waiting
    <2> QED
      BY <2>1, <2>2, <2>3, <2>4 DEF Waiting
  <1> QED
    BY <1>6, <1>7 DEF InStep

LEMMA PostKeeps ==
    ASSUME RInv, WInv, NEW p \in Proc, Post(p)
    PROVE  WInv'
  <1> USE DEF RInv
  <1>1. CASE ~ Attached(p)
    <2>1. grp' = grp /\ pc' = pc /\ got' = got
      BY <1>1 DEF Post
    <2> QED
      BY <2>1, RestKeeps
  <1>2. CASE Attached(p)
    <2>1. PICK g \in Proc : g = par[p] /\ grp[g].parent
      BY <1>2 DEF Attached, Shape
    <2> DEFINE h == [grp[g] EXCEPT !.stat = <<p>> \o grp[g].stat,
                                   !.sema = VSema(grp[g].sema)]
    <2>2. /\ IsGrp(grp[g]) /\ Threads(pc[g]) /\ InStep(grp[g], pc[g])
          /\ got' = got /\ got \in [Proc -> Nat]
      BY <1>2, <2>1 DEF WInv, Shape, Post
    <2>3. h.stat = <<p>> \o grp[g].stat /\ h.sema = VSema(grp[g].sema)
      BY <2>2 DEF IsGrp
    <2>4. grp' = [grp EXCEPT ![g] = h]
      BY <1>2, <2>1 DEF Post, Shape
    <2>5. pc' = [pc EXCEPT ![g] = Woken(grp[g], pc[g])]
      BY <1>2, <2>1 DEF Post, WInv, Woken
    <2>6. /\ InStep(h, Woken(grp[g], pc[g])) /\ Threads(Woken(grp[g], pc[g]))
          /\ SemaType(h.sema, Thread)
      <3> HIDE DEF h
      <3> QED
        BY <2>2, <2>3, PostInStep
    <2> HIDE DEF h
    <2> QED
      BY <2>1, <2>2, <2>4, <2>5, <2>6, OneKeeps
  <1> QED
    BY <1>1, <1>2

-----------------------------------------------------------------------------
WaitInv == RInv /\ WInv /\ NoPanic

LEMMA InitWaitInv == Init => WaitInv
  <1> SUFFICES ASSUME Init
               PROVE  WInv /\ NoPanic
    BY InitRInv DEF WaitInv
  <1>1. \A p \in Proc : /\ grp[p] = IF p = Root THEN NewGrp ELSE NoGrp
                        /\ pc[p] = IF p = Root THEN OneThread ELSE NoThreads
    BY DEF Init
  <1>2. /\ NewGrp.sema = [cnt |-> 0, q |-> <<>>] /\ NoGrp.sema = [cnt |-> 0, q |-> <<>>]
        /\ NewGrp.stat = <<>> /\ NoGrp.stat = <<>> /\ Len(<<>>) = 0
    BY DEF NewGrp, NoGrp, NewSema
  <1>3. SemaType(NewGrp.sema, Thread) /\ SemaType(NoGrp.sema, Thread)
    BY <1>2, RestSteps, ThreadAssumption
  <1>4. OneThread = [u \in Thread |-> IF u = Main THEN "idle" ELSE "none"]
    BY DEF OneThread, NoThreads
  <1>5. Threads(OneThread) /\ \A u \in Thread : OneThread[u] \in Away
    BY <1>4 DEF Threads, ThreadPC, Away
  <1>6. Threads(NoThreads) /\ \A u \in Thread : NoThreads[u] \in Away
    BY DEF Threads, ThreadPC, Away, NoThreads
  <1>7. InStep(NewGrp, OneThread) /\ InStep(NoGrp, NoThreads)
    BY <1>2, <1>5, <1>6 DEF InStep, Quiet
  <1>8. pc = [p \in Proc |-> pc[p]] /\ got \in [Proc -> Nat] /\ NoPanic
    BY DEF Init, NoPanic
  <1> QED
    BY <1>1, <1>3, <1>5, <1>6, <1>7, <1>8 DEF WInv

LEMMA StepWaitInv ==
    ASSUME OneWaiter
    PROVE  WaitInv /\ [Next]_vars => WaitInv'
  <1> SUFFICES ASSUME RInv, WInv, NoPanic, [Next]_vars
               PROVE  WInv' /\ NoPanic'
    BY StepKeepsRInv DEF WaitInv
  <1>1. CASE UNCHANGED vars
    <2>1. pc' = pc /\ got' = got /\ grp' = grp /\ panic' = panic
      BY <1>1 DEF vars
    <2> QED
      BY <2>1, RestKeeps DEF NoPanic
  <1>2. ASSUME NEW p \in Proc, ExitStep(p)
        PROVE  WInv' /\ panic' = panic
    <2>1. Main \in Thread
      BY ThreadAssumption
    <2>2. WInv'
      BY <1>2, <2>1, OutsideWait, PostKeeps DEF ExitStep
    <2>3. Noparent(p) => panic' = panic
      BY DEF Noparent, Exiting, RInv, Family
    <2>4. panic' = panic
      BY <1>2, <2>3, NoparentDerefKeeps, DerefParentKeeps DEF ExitStep, PostLook, Post
    <2> QED
      BY <2>2, <2>4
  <1>3. ASSUME NEW p \in Proc, NEW t \in Thread, ThreadStep(p, t)
        PROVE  WInv' /\ panic' = panic
    BY <1>3, OutsideWait, InsideWait DEF ThreadStep, ForkRun
  <1>4. ASSUME NEW p \in Proc, NEW t \in Thread, Syscall(p, t)
        PROVE  WInv' /\ panic' = panic
    BY <1>4, OutsideWait, InsideWait DEF Syscall, ForkRef, ForkThread, Exit
  <1>5. ASSUME NEW p \in Proc, NEW t \in Thread, WaitIntr(p, t)
        PROVE  WInv' /\ panic' = panic
    BY <1>5, InsideWait
  <1> QED
    BY <1>1, <1>2, <1>3, <1>4, <1>5 DEF Next, NoPanic

(* With one thread in waits() at a time the kernel never panics, "stat out  *)
(* of synch" (wait_exitgrp()) included.                                     *)
THEOREM NoAssertionFails ==
    ASSUME OneWaiter
    PROVE  Spec => []NoPanic
  <1>1. WaitInv => NoPanic
    BY DEF WaitInv
  <1> QED
    BY <1>1, InitWaitInv, StepWaitInv, PTL DEF Spec

(* Every process, group and thread is in one of the states the model names. *)
THEOREM ExitTypeCorrect ==
    ASSUME OneWaiter
    PROVE  Spec => []TypeOK
  <1>1. WaitInv => TypeOK
    <2> SUFFICES ASSUME WaitInv
                 PROVE  TypeOK
      OBVIOUS
    <2>1. \A p \in Proc : grp[p] \in GrpType
      BY DEF WaitInv, RInv, Shape, IsGrp, WInv, SemaType, GrpType
    <2>2. \A p \in Proc : pc[p] \in [Thread -> ThreadPC]
      BY DEF WaitInv, WInv, Threads
    <2> QED
      BY <2>1, <2>2 DEF WaitInv, WInv, RInv, Shape, TypeOK
  <1> QED
    BY <1>1, InitWaitInv, StepWaitInv, PTL DEF Spec

(* e_sema has a unit for every status on the list, but for those whose      *)
(* taker is on its way: a later waits() neither sleeps beside a status nor  *)
(* wakes without one.                                                       *)
THEOREM UnitsCorrect ==
    ASSUME OneWaiter
    PROVE  Spec => []UnitsCountStat
  <1>1. WaitInv => UnitsCountStat
    <2> SUFFICES ASSUME WaitInv, NEW p \in Proc, st[p] = "live"
                 PROVE  Units(grp[p].sema) + InWait(p, "wgot")
                          = Len(grp[p].stat) + InWait(p, "wp") + InWait(p, "wpsleep")
      BY DEF UnitsCountStat
    <2> DEFINE in(where) == {t \in Thread : pc[p][t] = where}
    <2>1. InStep(grp[p], pc[p]) /\ grp[p].stat \in Seq(Proc) /\ Len(grp[p].stat) \in Nat
      BY DEF WaitInv, RInv, WInv, Family, Shape, IsGrp
    <2>2. CASE (\A t \in Thread : pc[p][t] \in Away) /\ Quiet(grp[p], 0)
      <3>1. in("wgot") = {} /\ in("wp") = {} /\ in("wpsleep") = {}
        BY <2>2 DEF Away
      <3>2. InWait(p, "wgot") = 0 /\ InWait(p, "wp") = 0 /\ InWait(p, "wpsleep") = 0
        BY <3>1, FS_EmptySet DEF InWait
      <3>3. Units(grp[p].sema) = Len(grp[p].stat)
        BY <2>1, <2>2 DEF Quiet, Units, Blocked
      <3> QED
        BY <2>1, <3>2, <3>3
    <2>3. CASE \E w \in Thread : Waiting(grp[p], pc[p], w)
                                 /\ \A t \in Thread \ {w} : pc[p][t] \in Away
      <3>1. PICK w \in Thread : Waiting(grp[p], pc[p], w)
                                /\ \A t \in Thread \ {w} : pc[p][t] \in Away
        BY <2>3
      <3>2. /\ in("wpsleep") = {}
            /\ in("wgot") = IF pc[p][w] = "wgot" THEN {w} ELSE {}
            /\ in("wp") = IF pc[p][w] = "wp" THEN {w} ELSE {}
        BY <3>1 DEF Away, Waiting
      <3>3. Cardinality({}) = 0 /\ Cardinality({w}) = 1
        BY FS_EmptySet, FS_Singleton
      <3>4. /\ InWait(p, "wpsleep") = 0
            /\ InWait(p, "wgot") = IF pc[p][w] = "wgot" THEN 1 ELSE 0
            /\ InWait(p, "wp") = IF pc[p][w] = "wp" THEN 1 ELSE 0
        BY <3>2, <3>3 DEF InWait
      <3>5. CASE pc[p][w] = "wsleep" /\ grp[p].stat = <<>>
                 /\ grp[p].sema = [cnt |-> -1, q |-> <<w>>]
        BY <3>4, <3>5 DEF Units, Blocked
      <3>6. CASE pc[p][w] = "wgot" /\ grp[p].stat # <<>> /\ Quiet(grp[p], -1)
        <4>1. Len(grp[p].stat) > 0
          BY <2>1, <3>6
        <4>2. Units(grp[p].sema) = Len(grp[p].stat) - 1
          BY <2>1, <3>6, <4>1 DEF Quiet, Units, Blocked
        <4> QED
          BY <2>1, <3>4, <3>6, <4>2
      <3>7. CASE pc[p][w] = "wp" /\ Quiet(grp[p], 1)
        <4>1. Units(grp[p].sema) = Len(grp[p].stat) + 1
          BY <2>1, <3>7 DEF Quiet, Units, Blocked
        <4> QED
          BY <2>1, <3>4, <3>7, <4>1
      <3> QED
        BY <3>1, <3>5, <3>6, <3>7 DEF Waiting
    <2> QED
      BY <2>1, <2>2, <2>3 DEF InStep
  <1> QED
    BY <1>1, InitWaitInv, StepWaitInv, PTL DEF Spec
=============================================================================
