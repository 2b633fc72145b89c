---------------------------- MODULE SwapProofs -----------------------------
(***************************************************************************)
(* Proofs about swap space.  First resource maps: what rmap_alloc() and    *)
(* rmap_free() do to the free blocks of any map in order, of any length.   *)
(* Then the kernel and the server, for any threads, devices and sizes: no  *)
(* block has two uses, nobody sleeps beside free space, and no block is    *)
(* forgotten.                                                              *)
(***************************************************************************)
EXTENDS Swap, SemaOpsProofs, FiniteSetTheorems, WellFoundedInduction

Runs == [off : Nat \ {0}, size : Nat \ {0}]

-----------------------------------------------------------------------------
(* The least element of a set of numbers                                    *)

Below == {p \in Nat \X Nat : p[1] < p[2]}

LEMMA LessWF == IsWellFoundedOn(Below, Nat)
BY NatLessThanWellFounded DEF OpToRel, Below

LEMMA MinIs ==
    ASSUME NEW S \in SUBSET Nat, S # {}
    PROVE  Min(S) \in S /\ \A y \in S : Min(S) <= y
<1>1. PICK x \in S : \A y \in S : ~ (<<y, x>> \in Below)
  BY LessWF, WFMin, Zenon
<1>2. ASSUME NEW y \in S PROVE x <= y
  <2>1. x \in Nat /\ y \in Nat /\ <<y, x>> \in Nat \X Nat
    OBVIOUS
  <2>2. ~ (y < x)
    BY <1>1, <2>1 DEF Below
  <2>3. QED BY <2>1, <2>2
<1>3. QED BY <1>2 DEF Min

-----------------------------------------------------------------------------
(* Sequences with an element more or less                                   *)

LEMMA SameSeq ==
    ASSUME NEW a \in Seq(Runs), NEW b \in Seq(Runs), Len(a) = Len(b),
           \A j \in 1 .. Len(a) : a[j] = b[j]
    PROVE  a = b
<1>1. a = [j \in 1 .. Len(a) |-> a[j]]
  OBVIOUS
<1>2. b = [j \in 1 .. Len(a) |-> b[j]]
  OBVIOUS
<1>3. [j \in 1 .. Len(a) |-> a[j]] = [j \in 1 .. Len(a) |-> b[j]]
  OBVIOUS
<1>4. QED BY <1>1, <1>2, <1>3, Zenon

LEMMA CutShape ==
    ASSUME NEW m \in Seq(Runs), NEW i \in DOMAIN m
    PROVE  /\ RemoveAt(m, i) \in Seq(Runs)
           /\ Len(RemoveAt(m, i)) = Len(m) - 1
           /\ \A j \in 1 .. Len(m) - 1 :
                 RemoveAt(m, i)[j] = IF j < i THEN m[j] ELSE m[j + 1]
<1> DEFINE a == SubSeq(m, 1, i - 1)
           b == SubSeq(m, i + 1, Len(m))
<1>1. i \in 1 .. Len(m) /\ Len(m) \in Nat
  OBVIOUS
<1>2. a \in Seq(Runs) /\ Len(a) = i - 1 /\ \A j \in 1 .. i - 1 : a[j] = m[j]
  BY <1>1
<1>3. b \in Seq(Runs) /\ Len(b) = Len(m) - i
      /\ \A j \in 1 .. Len(m) - i : b[j] = m[i + j]
  BY <1>1
<1>4. RemoveAt(m, i) = a \o b
  BY DEF RemoveAt
<1> HIDE DEF a, b
<1>5. a \o b \in Seq(Runs) /\ Len(a \o b) = Len(m) - 1
  BY <1>1, <1>2, <1>3
<1>6. ASSUME NEW j \in 1 .. Len(m) - 1
      PROVE  (a \o b)[j] = IF j < i THEN m[j] ELSE m[j + 1]
  <2>1. CASE j < i
    BY <1>1, <1>2, <1>3, <2>1
  <2>2. CASE ~ (j < i)
    <3>1. j - (i - 1) \in 1 .. Len(m) - i /\ i + (j - (i - 1)) = j + 1
      BY <1>1, <2>2
    <3>2. (a \o b)[j] = b[j - (i - 1)]
      BY <1>1, <1>2, <1>3, <2>2, SMTT(30)
    <3>3. QED BY <1>3, <2>2, <3>1, <3>2
  <2>3. QED BY <2>1, <2>2
<1>7. QED BY <1>4, <1>5, <1>6

LEMMA InsertAtShape ==
    ASSUME NEW m \in Seq(Runs), NEW i \in 1 .. Len(m) + 1, NEW e \in Runs
    PROVE  /\ InsertAt(m, i, e) \in Seq(Runs)
           /\ Len(InsertAt(m, i, e)) = Len(m) + 1
           /\ \A j \in 1 .. Len(m) + 1 :
                 InsertAt(m, i, e)[j] = IF j < i THEN m[j]
                                        ELSE IF j = i THEN e ELSE m[j - 1]
<1> DEFINE a == SubSeq(m, 1, i - 1)
           b == SubSeq(m, i, Len(m))
           c == a \o <<e>>
<1>1. i \in 1 .. Len(m) + 1 /\ Len(m) \in Nat
  OBVIOUS
<1>2. a \in Seq(Runs) /\ Len(a) = i - 1 /\ \A j \in 1 .. i - 1 : a[j] = m[j]
  BY <1>1
<1>3. b \in Seq(Runs) /\ Len(b) = Len(m) + 1 - i
      /\ \A j \in 1 .. Len(m) + 1 - i : b[j] = m[i - 1 + j]
  BY <1>1
<1>4. InsertAt(m, i, e) = c \o b
  BY DEF InsertAt
<1> HIDE DEF a, b
<1>5. /\ c \in Seq(Runs) /\ Len(c) = i /\ c[i] = e
      /\ \A j \in 1 .. i - 1 : c[j] = m[j]
  BY <1>1, <1>2
<1> HIDE DEF c
<1>6. c \o b \in Seq(Runs) /\ Len(c \o b) = Len(m) + 1
  BY <1>1, <1>3, <1>5
<1>7. ASSUME NEW j \in 1 .. Len(m) + 1
      PROVE  (c \o b)[j] = IF j < i THEN m[j] ELSE IF j = i THEN e ELSE m[j - 1]
  <2>1. CASE j <= i
    <3>1. j \in 1 .. Len(c)
      BY <1>1, <1>5, <2>1
    <3>2. (c \o b)[j] = c[j]
      BY <1>3, <1>5, <3>1
    <3>3. QED BY <1>1, <1>5, <2>1, <3>2
  <2>2. CASE ~ (j <= i)
    <3>1. j - i \in 1 .. Len(m) + 1 - i /\ i - 1 + (j - i) = j - 1
      BY <1>1, <2>2
    <3>2. (c \o b)[j] = b[j - i]
      BY <1>1, <1>3, <1>5, <2>2
    <3>3. QED BY <1>1, <1>3, <2>2, <3>1, <3>2
  <2>3. QED BY <2>1, <2>2
<1>8. QED BY <1>4, <1>6, <1>7

-----------------------------------------------------------------------------
(* One entry of a map                                                       *)

LEMMA InBlocks ==
    ASSUME NEW e \in Runs, NEW b
    PROVE  b \in BlocksOf(e) <=> b \in Int /\ e.off <= b /\ b < End(e)
BY DEF BlocksOf, End, Runs

LEMMA InFree ==
    ASSUME NEW m \in Seq(Runs), NEW b
    PROVE  b \in FreeBlocks(m) <=> \E i \in DOMAIN m : b \in BlocksOf(m[i])
BY DEF FreeBlocks

(* The blocks of an entry are in no other. *)
LEMMA Apart ==
    ASSUME NEW m \in Seq(Runs), Ascending(m), NEW i \in DOMAIN m, NEW j \in DOMAIN m,
           NEW b, b \in BlocksOf(m[i]), b \in BlocksOf(m[j])
    PROVE  i = j
<1>1. i \in Nat /\ j \in Nat /\ m[i] \in Runs /\ m[j] \in Runs
  OBVIOUS
<1>2. /\ b \in Int /\ m[i].off <= b /\ b < End(m[i])
      /\ m[j].off <= b /\ b < End(m[j])
  BY <1>1, InBlocks
<1>3. ~ (i < j) /\ ~ (j < i)
  BY <1>1, <1>2 DEF Ascending, Runs, End
<1>4. QED BY <1>1, <1>3

LEMMA Bounds ==
    ASSUME NEW m \in Seq(Runs), Ascending(m)
    PROVE  /\ \A j \in DOMAIN m : /\ m[j].off \in Nat /\ m[j].size \in Nat \ {0}
                                /\ End(m[j]) \in Nat /\ m[j].off < End(m[j])
           /\ \A j, k \in DOMAIN m : j < k => End(m[j]) < m[k].off
<1>1. ASSUME NEW j \in DOMAIN m
      PROVE  /\ m[j].off \in Nat /\ m[j].size \in Nat \ {0}
             /\ End(m[j]) \in Nat /\ m[j].off < End(m[j])
  <2>1. m[j] \in Runs
    OBVIOUS
  <2>2. QED BY <2>1 DEF Runs, End
<1>2. QED BY <1>1 DEF Ascending

(* An entry that goes takes its blocks with it. *)
LEMMA Removed ==
    ASSUME NEW m \in Seq(Runs), Ascending(m), NEW i \in DOMAIN m
    PROVE  /\ RemoveAt(m, i) \in Seq(Runs) /\ Ascending(RemoveAt(m, i))
           /\ FreeBlocks(RemoveAt(m, i)) = FreeBlocks(m) \ BlocksOf(m[i])
<1> DEFINE r == RemoveAt(m, i)
<1>1. /\ r \in Seq(Runs) /\ Len(r) = Len(m) - 1
      /\ \A j \in 1 .. Len(m) - 1 : r[j] = IF j < i THEN m[j] ELSE m[j + 1]
  BY CutShape
<1>2. Len(m) \in Nat /\ DOMAIN m = 1 .. Len(m) /\ DOMAIN r = 1 .. Len(m) - 1
  BY <1>1
<1> HIDE DEF r
<1>3. Ascending(r)
  <2>1. ASSUME NEW j \in DOMAIN r PROVE r[j].off > 0 /\ r[j].size > 0
    BY <1>1, <1>2 DEF Ascending
  <2>2. ASSUME NEW j \in DOMAIN r, NEW k \in DOMAIN r, j < k
        PROVE  End(r[j]) < r[k].off
    <3>1. PICK x \in DOMAIN m, y \in DOMAIN m : x < y /\ r[j] = m[x] /\ r[k] = m[y]
      <4>1. CASE k < i
        <5>1. r[j] = m[j] /\ r[k] = m[k] /\ j \in DOMAIN m /\ k \in DOMAIN m
          BY <1>1, <1>2, <2>2, <4>1
        <5>2. QED BY <2>2, <5>1
      <4>2. CASE ~ (k < i) /\ j < i
        <5>1. /\ r[j] = m[j] /\ r[k] = m[k + 1] /\ j < k + 1
              /\ j \in DOMAIN m /\ k + 1 \in DOMAIN m
          BY <1>1, <1>2, <2>2, <4>2
        <5>2. QED BY <5>1
      <4>3. CASE ~ (j < i)
        <5>1. /\ r[j] = m[j + 1] /\ r[k] = m[k + 1] /\ j + 1 < k + 1
              /\ j + 1 \in DOMAIN m /\ k + 1 \in DOMAIN m
          BY <1>1, <1>2, <2>2, <4>3
        <5>2. QED BY <5>1
      <4>4. QED BY <4>1, <4>2, <4>3
    <3>2. QED BY <3>1 DEF Ascending
  <2>3. QED BY <2>1, <2>2 DEF Ascending
<1>4. ASSUME NEW b PROVE b \in FreeBlocks(r) <=> b \in FreeBlocks(m) /\ b \notin BlocksOf(m[i])
  <2>1. ASSUME NEW j \in DOMAIN r, b \in BlocksOf(r[j])
        PROVE  b \in FreeBlocks(m) /\ b \notin BlocksOf(m[i])
    <3>1. PICK x \in DOMAIN m : x # i /\ r[j] = m[x]
      <4>1. CASE j < i
        BY <1>1, <1>2, <4>1
      <4>2. CASE ~ (j < i)
        <5>1. j + 1 \in DOMAIN m /\ j + 1 # i /\ r[j] = m[j + 1]
          BY <1>1, <1>2, <4>2
        <5>2. QED BY <5>1
      <4>3. QED BY <4>1, <4>2
    <3>2. QED BY <2>1, <3>1, InFree, Apart
  <2>2. ASSUME NEW x \in DOMAIN m, b \in BlocksOf(m[x]), x # i
        PROVE  b \in FreeBlocks(r)
    <3>1. \E j \in DOMAIN r : r[j] = m[x]
      <4>1. CASE x < i BY <1>1, <1>2, <4>1
      <4>2. CASE ~ (x < i)
        <5>1. x - 1 \in DOMAIN r /\ ~ (x - 1 < i) /\ (x - 1) + 1 = x
          BY <1>2, <2>2, <4>2
        <5>2. QED BY <1>1, <1>2, <5>1
      <4>3. QED BY <4>1, <4>2
    <3>2. QED BY <1>1, <2>2, <3>1, InFree
  <2>3. QED BY <1>1, <2>1, <2>2, InFree
<1>5. QED BY <1>1, <1>3, <1>4 DEF r

(* An entry that changes, and stays apart from its neighbours. *)
LEMMA Changed ==
    ASSUME NEW m \in Seq(Runs), Ascending(m), NEW i \in DOMAIN m, NEW e \in Runs,
           \A j \in DOMAIN m : j < i => End(m[j]) < e.off,
           \A j \in DOMAIN m : i < j => End(e) < m[j].off
    PROVE  /\ [m EXCEPT ![i] = e] \in Seq(Runs) /\ Ascending([m EXCEPT ![i] = e])
           /\ FreeBlocks([m EXCEPT ![i] = e])
                = (FreeBlocks(m) \ BlocksOf(m[i])) \cup BlocksOf(e)
<1> DEFINE r == [m EXCEPT ![i] = e]
<1>1. /\ r \in Seq(Runs) /\ DOMAIN r = DOMAIN m /\ r[i] = e
      /\ \A j \in DOMAIN m : j # i => r[j] = m[j]
  OBVIOUS
<1>2. \A j \in DOMAIN m : j \in Nat
  OBVIOUS
<1> HIDE DEF r
<1>3. Ascending(r)
  <2>1. ASSUME NEW j \in DOMAIN r PROVE r[j].off > 0 /\ r[j].size > 0
    <3>1. r[j] \in Runs
      BY <1>1
    <3>2. QED BY <3>1 DEF Runs
  <2>2. ASSUME NEW j \in DOMAIN r, NEW k \in DOMAIN r, j < k
        PROVE  End(r[j]) < r[k].off
    <3>1. CASE j = i BY <1>1, <1>2, <2>2, <3>1
    <3>2. CASE k = i BY <1>1, <1>2, <2>2, <3>2
    <3>3. CASE j # i /\ k # i BY <1>1, <2>2, <3>3 DEF Ascending
    <3>4. QED BY <3>1, <3>2, <3>3
  <2>3. QED BY <2>1, <2>2 DEF Ascending
<1>4. ASSUME NEW b
      PROVE  b \in FreeBlocks(r) <=> \/ b \in FreeBlocks(m) /\ b \notin BlocksOf(m[i])
                                     \/ b \in BlocksOf(e)
  BY <1>1, InFree, Apart
<1>5. QED BY <1>1, <1>3, <1>4 DEF r

(* A new entry between its neighbours. *)
LEMMA Inserted ==
    ASSUME NEW m \in Seq(Runs), Ascending(m), NEW i \in 1 .. Len(m) + 1, NEW e \in Runs,
           \A j \in DOMAIN m : j < i => End(m[j]) < e.off,
           \A j \in DOMAIN m : i <= j => End(e) < m[j].off
    PROVE  /\ InsertAt(m, i, e) \in Seq(Runs) /\ Ascending(InsertAt(m, i, e))
           /\ FreeBlocks(InsertAt(m, i, e)) = FreeBlocks(m) \cup BlocksOf(e)
<1> DEFINE r == InsertAt(m, i, e)
<1>a. r \in Seq(Runs) /\ Len(r) = Len(m) + 1
  BY InsertAtShape
<1>b. \A j \in 1 .. Len(m) + 1 :
         r[j] = IF j < i THEN m[j] ELSE IF j = i THEN e ELSE m[j - 1]
  BY InsertAtShape
<1>1. /\ r \in Seq(Runs) /\ Len(r) = Len(m) + 1
      /\ \A j \in 1 .. Len(m) + 1 :
            r[j] = IF j < i THEN m[j] ELSE IF j = i THEN e ELSE m[j - 1]
  BY <1>a, <1>b
<1>2. Len(m) \in Nat /\ DOMAIN m = 1 .. Len(m) /\ DOMAIN r = 1 .. Len(m) + 1
  BY <1>1
<1> HIDE DEF r
<1>3. r[i] = e /\ i \in DOMAIN r
  BY <1>1, <1>2
<1>4. ASSUME NEW j \in DOMAIN r, j # i
      PROVE  \E x \in DOMAIN m : r[j] = m[x] /\ x = IF j < i THEN j ELSE j - 1
  BY <1>1, <1>2, <1>4
<1>5. Ascending(r)
  <2>1. ASSUME NEW j \in DOMAIN r PROVE r[j].off > 0 /\ r[j].size > 0
    <3>1. r[j] \in Runs
      BY <1>1
    <3>2. QED BY <3>1 DEF Runs
  <2>2. ASSUME NEW j \in DOMAIN r, NEW k \in DOMAIN r, j < k
        PROVE  End(r[j]) < r[k].off
    <3>1. CASE j = i
      <4>1. PICK x \in DOMAIN m : r[k] = m[x] /\ i <= x
        BY <1>2, <1>4, <2>2, <3>1
      <4>2. QED BY <1>3, <3>1, <4>1
    <3>2. CASE k = i
      <4>1. PICK x \in DOMAIN m : r[j] = m[x] /\ x < i
        BY <1>2, <1>4, <2>2, <3>2
      <4>2. QED BY <1>3, <3>2, <4>1
    <3>3. CASE j # i /\ k # i
      <4>1. PICK x \in DOMAIN m : r[j] = m[x] /\ x = IF j < i THEN j ELSE j - 1
        BY <1>4, <3>3
      <4>2. PICK y \in DOMAIN m : r[k] = m[y] /\ y = IF k < i THEN k ELSE k - 1
        BY <1>4, <3>3
      <4>3. x < y
        BY <1>2, <2>2, <3>3, <4>1, <4>2
      <4>4. QED BY <4>1, <4>2, <4>3 DEF Ascending
    <3>4. QED BY <3>1, <3>2, <3>3
  <2>3. QED BY <2>1, <2>2 DEF Ascending
<1>6. ASSUME NEW b
      PROVE  b \in FreeBlocks(r) <=> b \in FreeBlocks(m) \/ b \in BlocksOf(e)
  <2>1. ASSUME b \in FreeBlocks(r) PROVE b \in FreeBlocks(m) \/ b \in BlocksOf(e)
    <3>1. PICK j \in DOMAIN r : b \in BlocksOf(r[j])
      BY <1>1, <2>1, InFree
    <3>2. CASE j = i BY <1>3, <3>1, <3>2
    <3>3. CASE j # i BY <1>4, <3>1, <3>3, InFree
    <3>4. QED BY <3>2, <3>3
  <2>2. ASSUME b \in BlocksOf(e) PROVE b \in FreeBlocks(r)
    BY <1>1, <1>3, <2>2, InFree
  <2>3. ASSUME NEW x \in DOMAIN m, b \in BlocksOf(m[x]) PROVE b \in FreeBlocks(r)
    <3>1. \E j \in DOMAIN r : r[j] = m[x]
      <4>1. CASE x < i BY <1>1, <1>2, <4>1
      <4>2. CASE ~ (x < i)
        <5>1. x + 1 \in DOMAIN r /\ ~ (x + 1 < i) /\ x + 1 # i /\ (x + 1) - 1 = x
          BY <1>2, <4>2
        <5>2. QED BY <1>1, <1>2, <5>1
      <4>3. QED BY <4>1, <4>2
    <3>2. QED BY <1>1, <2>3, <3>1, InFree
  <2>4. QED BY <2>1, <2>2, <2>3, InFree
<1>7. QED BY <1>1, <1>5, <1>6 DEF r

-----------------------------------------------------------------------------
(* rmap_free()                                                              *)

Stops(m, off, n, i) == \/ End(m[i]) = off \/ off + n = m[i].off \/ off < m[i].off

(* Place() is the first entry the scan stops at. *)
LEMMA PlaceIs ==
    ASSUME NEW m \in Seq(Runs), NEW off, NEW n
    PROVE  /\ Place(m, off, n) \in 1 .. Len(m) + 1
           /\ Place(m, off, n) \in DOMAIN m => Stops(m, off, n, Place(m, off, n))
           /\ \A j \in DOMAIN m : j < Place(m, off, n) => ~ Stops(m, off, n, j)
<1> DEFINE S == {i \in DOMAIN m : Stops(m, off, n, i)}
<1>1. Place(m, off, n) = IF S = {} THEN Len(m) + 1 ELSE Min(S)
  BY DEF Place, Stops
<1>2. S \in SUBSET Nat /\ DOMAIN m = 1 .. Len(m) /\ Len(m) \in Nat
  OBVIOUS
<1>3. CASE S = {}
  BY <1>1, <1>2, <1>3
<1>4. CASE S # {}
  <2>1. Min(S) \in S /\ \A y \in S : Min(S) <= y
    BY <1>2, <1>4, MinIs
  <2>2. ASSUME NEW j \in DOMAIN m, j < Min(S) PROVE j \notin S
    <3>1. j \in Nat /\ Min(S) \in Nat
      BY <1>2, <2>1
    <3> HIDE DEF S
    <3>2. QED BY <2>1, <2>2, <3>1
  <2> HIDE DEF S
  <2>3. QED BY <1>1, <1>2, <1>4, <2>1, <2>2 DEF S
<1>5. QED BY <1>3, <1>4

(* Blocks that are not free lie before or after each entry. *)
LEMMA Beside ==
    ASSUME NEW m \in Seq(Runs), NEW e \in Runs, BlocksOf(e) \cap FreeBlocks(m) = {},
           NEW j \in DOMAIN m
    PROVE  End(e) <= m[j].off \/ End(m[j]) <= e.off
<1>1. m[j] \in Runs
  OBVIOUS
<1>a. m[j].off \in Nat /\ e.off \in Nat /\ End(e) \in Nat /\ End(m[j]) \in Nat
  BY <1>1 DEF End, Runs
<1> SUFFICES ASSUME m[j].off < End(e), e.off < End(m[j]) PROVE FALSE
  BY <1>a
<1>2. CASE m[j].off <= e.off
  <2>1. e.off \in BlocksOf(e) /\ e.off \in BlocksOf(m[j])
    BY <1>1, <1>2 DEF BlocksOf, End, Runs
  <2>2. QED BY <2>1, InFree
<1>3. CASE e.off <= m[j].off
  <2>1. m[j].off \in BlocksOf(e) /\ m[j].off \in BlocksOf(m[j])
    BY <1>1, <1>3 DEF BlocksOf, End, Runs
  <2>2. QED BY <2>1, InFree
<1>4. QED BY <1>1, <1>2, <1>3 DEF Runs

(* Two runs that abut, put together. *)
LEMMA Joined ==
    ASSUME NEW a \in Runs, NEW b \in Runs, End(a) = b.off
    PROVE  /\ Entry(a.off, a.size + b.size) \in Runs
           /\ Entry(a.off, a.size + b.size).off = a.off
           /\ Entry(a.off, a.size + b.size).size = a.size + b.size
           /\ End(Entry(a.off, a.size + b.size)) = End(b)
           /\ BlocksOf(Entry(a.off, a.size + b.size)) = BlocksOf(a) \cup BlocksOf(b)
<1> DEFINE x == Entry(a.off, a.size + b.size)
<1>1. /\ a.off \in Nat \ {0} /\ a.size \in Nat \ {0}
      /\ b.off \in Nat \ {0} /\ b.size \in Nat \ {0}
      /\ a.off + a.size = b.off
  BY DEF Runs, End
<1>2. x \in Runs /\ x.off = a.off /\ x.size = a.size + b.size
  BY <1>1 DEF Entry, Runs
<1>3. End(x) = End(b) /\ End(x) = a.off + (a.size + b.size)
  BY <1>1, <1>2 DEF End
<1> HIDE DEF x
<1>4. ASSUME NEW c PROVE c \in BlocksOf(x) <=> c \in BlocksOf(a) \/ c \in BlocksOf(b)
  BY <1>1, <1>2, <1>3, InBlocks DEF End
<1>5. QED BY <1>2, <1>3, <1>4 DEF x

(* What the map is after blocks have been given back. *)
GivenBack(m, r, e) == /\ r \in Seq(Runs) /\ Ascending(r)
                  /\ FreeBlocks(r) = FreeBlocks(m) \cup BlocksOf(e)

(* RmapGrow(), once the entry x that takes the place of the i-th is known. *)
GrowFrom(m, i, x) ==
    LET g == [m EXCEPT ![i] = x]
    IN  IF i < Len(m) /\ End(x) = m[i + 1].off
        THEN RemoveAt([m EXCEPT ![i] = Entry(x.off, x.size + m[i + 1].size)], i + 1)
        ELSE g

LEMMA Grown ==
    ASSUME NEW m \in Seq(Runs), Ascending(m), NEW i \in DOMAIN m, NEW x \in Runs,
           NEW e \in Runs, BlocksOf(x) = BlocksOf(m[i]) \cup BlocksOf(e),
           \A j \in DOMAIN m : j < i => End(m[j]) < x.off,
           \A j \in DOMAIN m : i < j => End(x) <= m[j].off
    PROVE  GivenBack(m, GrowFrom(m, i, x), e)
<1>1. Len(m) \in Nat /\ DOMAIN m = 1 .. Len(m) /\ i \in Nat
  OBVIOUS
<1>2. BlocksOf(m[i]) \subseteq FreeBlocks(m)
  BY DEF FreeBlocks
<1>3. /\ \A j \in DOMAIN m : /\ m[j].off \in Nat /\ m[j].size \in Nat \ {0}
                               /\ End(m[j]) \in Nat /\ m[j].off < End(m[j])
      /\ \A j, k \in DOMAIN m : j < k => End(m[j]) < m[k].off
  BY Bounds
<1>4. CASE i < Len(m) /\ End(x) = m[i + 1].off
  <2> DEFINE y == Entry(x.off, x.size + m[i + 1].size)
             d == RemoveAt(m, i + 1)
             r == RemoveAt([m EXCEPT ![i] = y], i + 1)
  <2>1. i + 1 \in DOMAIN m /\ m[i + 1] \in Runs
    BY <1>1, <1>4
  <2>2. /\ y \in Runs /\ y.off = x.off /\ End(y) = End(m[i + 1])
        /\ BlocksOf(y) = BlocksOf(x) \cup BlocksOf(m[i + 1])
    BY <1>4, <2>1, Joined
  <2> HIDE DEF y
  <2>3. /\ d \in Seq(Runs) /\ Ascending(d) /\ Len(d) = Len(m) - 1
        /\ \A j \in 1 .. Len(m) - 1 : d[j] = IF j < i + 1 THEN m[j] ELSE m[j + 1]
        /\ FreeBlocks(d) = FreeBlocks(m) \ BlocksOf(m[i + 1])
    BY <2>1, Removed, CutShape
  <2>4. r = [d EXCEPT ![i] = y]
    <3> DEFINE h == [m EXCEPT ![i] = y]
               c == [d EXCEPT ![i] = y]
    <3>1. /\ h \in Seq(Runs) /\ Len(h) = Len(m) /\ i + 1 \in DOMAIN h
          /\ \A j \in DOMAIN m : h[j] = IF j = i THEN y ELSE m[j]
      BY <1>1, <2>1, <2>2
    <3>2. r = RemoveAt(h, i + 1)
      OBVIOUS
    <3> HIDE DEF h, r, d
    <3>3. /\ r \in Seq(Runs) /\ Len(r) = Len(m) - 1
          /\ \A j \in 1 .. Len(m) - 1 : r[j] = IF j < i + 1 THEN h[j] ELSE h[j + 1]
      <4> DEFINE z == RemoveAt(h, i + 1)
      <4>1. z \in Seq(Runs) /\ Len(z) = Len(h) - 1
        BY <3>1, CutShape
      <4>2. \A j \in 1 .. Len(h) - 1 : z[j] = IF j < i + 1 THEN h[j] ELSE h[j + 1]
        BY <3>1, CutShape
      <4> HIDE DEF z
      <4>3. QED BY <3>1, <3>2, <4>1, <4>2 DEF z
    <3>4. ASSUME NEW j \in 1 .. Len(m) - 1 PROVE r[j] = IF j = i THEN y ELSE d[j]
      <4>1. j \in DOMAIN m /\ j + 1 \in DOMAIN m /\ (j < i + 1 \/ j + 1 # i)
        BY <1>1
      <4>2. r[j] = IF j < i + 1 THEN h[j] ELSE h[j + 1]
        BY <3>3
      <4>3. d[j] = IF j < i + 1 THEN m[j] ELSE m[j + 1]
        BY <2>3
      <4>4. j = i => j < i + 1
        BY <1>1
      <4>5. QED BY <3>1, <4>1, <4>2, <4>3, <4>4
    <3>5. i \in DOMAIN d
      BY <1>1, <1>4, <2>3
    <3>6. /\ c \in Seq(Runs) /\ Len(c) = Len(m) - 1
          /\ \A j \in 1 .. Len(m) - 1 : c[j] = IF j = i THEN y ELSE d[j]
      BY <2>2, <2>3, <3>5
    <3> HIDE DEF c
    <3>7. r = c
      BY <3>3, <3>4, <3>6, SameSeq
    <3>8. QED BY <3>7 DEF c
  <2> HIDE DEF r, d
  <2>5. i \in DOMAIN d /\ d[i] = m[i] /\ DOMAIN d = 1 .. Len(m) - 1
    BY <1>1, <1>4, <2>3
  <2>6. \A j \in DOMAIN d : j < i => End(d[j]) < y.off
    BY <1>1, <2>2, <2>3, <2>5
  <2>7. ASSUME NEW j \in DOMAIN d, i < j PROVE End(y) < d[j].off
    <3>1. d[j] = m[j + 1] /\ j + 1 \in DOMAIN m /\ i + 1 < j + 1
      BY <1>1, <2>3, <2>5, <2>7
    <3>2. QED BY <1>3, <2>1, <2>2, <3>1
  <2>8. /\ r \in Seq(Runs) /\ Ascending(r)
        /\ FreeBlocks(r) = (FreeBlocks(d) \ BlocksOf(d[i])) \cup BlocksOf(y)
    <3>1. d \in Seq(Runs) /\ Ascending(d) /\ i \in DOMAIN d /\ y \in Runs
      BY <2>2, <2>3, <2>5
    <3>2. \A j \in DOMAIN d : i < j => End(y) < d[j].off
      BY <2>7
    <3>4. [d EXCEPT ![i] = y] \in Seq(Runs)
      BY <3>1
    <3>5. Ascending([d EXCEPT ![i] = y])
      BY <2>6, <3>1, <3>2, Changed
    <3>6. FreeBlocks([d EXCEPT ![i] = y]) = (FreeBlocks(d) \ BlocksOf(d[i])) \cup BlocksOf(y)
      BY <2>6, <3>1, <3>2, Changed
    <3>3. QED BY <2>4, <3>4, <3>5, <3>6
  <2>9. BlocksOf(m[i + 1]) \subseteq FreeBlocks(m)
    BY <2>1 DEF FreeBlocks
  <2>10. FreeBlocks(r) = FreeBlocks(m) \cup BlocksOf(e)
    BY <1>2, <2>2, <2>3, <2>5, <2>8, <2>9
  <2>11. GrowFrom(m, i, x) = r
    BY <1>4 DEF GrowFrom, r, y
  <2>12. QED BY <2>8, <2>10, <2>11 DEF GivenBack
<1>5. CASE ~ (i < Len(m) /\ End(x) = m[i + 1].off)
  <2>1. ASSUME NEW j \in DOMAIN m, i < j PROVE End(x) < m[j].off
    <3>1. i + 1 \in DOMAIN m /\ i < Len(m) /\ i < i + 1 /\ j \in Nat
      BY <1>1, <2>1
    <3>2. End(x) < m[i + 1].off
      <4>1. End(x) \in Nat
        BY DEF End, Runs
      <4>2. QED BY <1>3, <1>5, <3>1, <4>1
    <3>3. m[i + 1].off <= m[j].off
      <4>1. CASE j = i + 1 BY <1>3, <3>1, <4>1
      <4>2. CASE i + 1 < j BY <1>3, <3>1, <4>2
      <4>3. QED BY <1>1, <2>1, <3>1, <4>1, <4>2
    <3>4. End(x) \in Nat
      BY DEF End, Runs
    <3>5. QED BY <1>3, <3>1, <3>2, <3>3, <3>4
  <2>2. GrowFrom(m, i, x) = [m EXCEPT ![i] = x]
    BY <1>5 DEF GrowFrom
  <2>3. /\ [m EXCEPT ![i] = x] \in Seq(Runs) /\ Ascending([m EXCEPT ![i] = x])
        /\ FreeBlocks([m EXCEPT ![i] = x]) = (FreeBlocks(m) \ BlocksOf(m[i])) \cup BlocksOf(x)
    BY <2>1, Changed
  <2>4. QED BY <1>2, <2>2, <2>3 DEF GivenBack
<1>6. QED BY <1>4, <1>5

(* rmap_free() of blocks that were in use: the map stays in order with      *)
(* neighbours joined, and has those blocks and all it had before, unless it *)
(* was full (rmap.c:81-157).                                                *)
THEOREM FreeAddsBlocks ==
    ASSUME NEW m \in Seq(Runs), Ascending(m), NEW off \in Nat \ {0}, NEW n \in Nat \ {0},
           NEW slots, BlocksOf(Entry(off, n)) \cap FreeBlocks(m) = {}
    PROVE  IF RmapLoses(m, off, n, slots) THEN RmapFree(m, off, n, slots) = m
           ELSE GivenBack(m, RmapFree(m, off, n, slots), Entry(off, n))
<1> DEFINE e == Entry(off, n)
           i == Place(m, off, n)
           r == RmapFree(m, off, n, slots)
<1>1. e \in Runs /\ e.off = off /\ e.size = n /\ End(e) = off + n
  BY DEF Entry, Runs, End
<1>2. /\ i \in 1 .. Len(m) + 1
      /\ i \in DOMAIN m => Stops(m, off, n, i)
      /\ \A j \in DOMAIN m : j < i => ~ Stops(m, off, n, j)
  BY PlaceIs
<1>3. Len(m) \in Nat /\ DOMAIN m = 1 .. Len(m) /\ \A j \in DOMAIN m : m[j] \in Runs
  OBVIOUS
<1>4. \A j \in DOMAIN m : End(e) <= m[j].off \/ End(m[j]) <= e.off
  BY <1>1, Beside
<1>5. /\ \A j \in DOMAIN m : m[j].off \in Nat /\ End(m[j]) \in Nat /\ m[j].off < End(m[j])
      /\ \A j, k \in DOMAIN m : j < k => End(m[j]) < m[k].off
  BY Bounds
<1>6. /\ RmapFree(m, off, n, slots) = r
      /\ AbutsEnd(m, off, i) <=> i \in DOMAIN m /\ End(m[i]) = off
      /\ AbutsStart(m, off, n, i) <=> i \in DOMAIN m /\ off + n = m[i].off
      /\ RmapLoses(m, off, n, slots)
            => ~ AbutsEnd(m, off, i) /\ ~ AbutsStart(m, off, n, i)
      /\ AbutsEnd(m, off, i) => r = RmapGrow(m, n, i)
      /\ ~ AbutsEnd(m, off, i) /\ AbutsStart(m, off, n, i)
            => r = [m EXCEPT ![i] = Entry(off, m[i].size + n)]
      /\ RmapLoses(m, off, n, slots) => r = m
      /\ ~ AbutsEnd(m, off, i) /\ ~ AbutsStart(m, off, n, i)
            /\ ~ RmapLoses(m, off, n, slots) => r = InsertAt(m, i, e)
  BY DEF RmapFree, RmapLoses, AbutsEnd, AbutsStart
<1> HIDE DEF e, i, r
<1>7. \A j \in DOMAIN m : j < i => End(m[j]) < off
  BY <1>1, <1>2, <1>3, <1>4, <1>5 DEF Stops
<1>8. CASE AbutsEnd(m, off, i)
  <2>1. i \in DOMAIN m /\ End(m[i]) = off /\ r = RmapGrow(m, n, i)
    BY <1>6, <1>8
  <2> DEFINE x == Entry(m[i].off, m[i].size + n)
             g == [m EXCEPT ![i] = x]
  <2>2. m[i] \in Runs
    BY <1>3, <2>1
  <2>3. /\ x \in Runs /\ x.off = m[i].off /\ x.size = m[i].size + n
        /\ End(x) = off + n /\ BlocksOf(x) = BlocksOf(m[i]) \cup BlocksOf(e)
    BY <1>1, <2>1, <2>2, Joined
  <2>4. RmapGrow(m, n, i) = GrowFrom(m, i, x)
    <3>1. g[i] = x /\ \A j \in DOMAIN m : j # i => g[j] = m[j]
      BY <2>1
    <3>2. \A y : [g EXCEPT ![i] = y] = [m EXCEPT ![i] = y]
      BY <2>1
    <3>3. i < Len(m) => i + 1 \in DOMAIN m /\ i + 1 # i
      BY <1>3, <2>1
    <3> HIDE DEF x
    <3>4. i < Len(m) => g[i + 1] = m[i + 1]
      BY <3>1, <3>3
    <3> HIDE DEF g
    <3>5. RmapGrow(m, n, i) =
             IF i < Len(m) /\ End(g[i]) = g[i + 1].off
             THEN RemoveAt([g EXCEPT ![i] = Entry(g[i].off, g[i].size + g[i + 1].size)], i + 1)
             ELSE g
      BY DEF RmapGrow, g, x
    <3>6. CASE i < Len(m) /\ End(x) = m[i + 1].off
      BY <3>1, <3>2, <3>4, <3>5, <3>6 DEF GrowFrom
    <3>7. CASE ~ (i < Len(m) /\ End(x) = m[i + 1].off)
      BY <3>1, <3>4, <3>5, <3>7 DEF GrowFrom, g
    <3>8. QED BY <3>6, <3>7
  <2> HIDE DEF x
  <2>5. \A j \in DOMAIN m : j < i => End(m[j]) < x.off
    BY <1>5, <2>1, <2>3
  <2>6. \A j \in DOMAIN m : i < j => End(x) <= m[j].off
    BY <1>1, <1>4, <1>5, <2>1, <2>3
  <2>7. GivenBack(m, r, e)
    BY <1>1, <2>1, <2>3, <2>4, <2>5, <2>6, Grown
  <2>8. QED BY <1>6, <1>8, <2>7 DEF r, e, i
<1>9. CASE ~ AbutsEnd(m, off, i) /\ AbutsStart(m, off, n, i)
  <2> DEFINE x == Entry(off, n + m[i].size)
  <2>1. i \in DOMAIN m /\ off + n = m[i].off /\ m[i] \in Runs
    BY <1>3, <1>6, <1>9
  <2>2. r = [m EXCEPT ![i] = x]
    <3>1. m[i].size + n = n + m[i].size
      BY <2>1 DEF Runs
    <3>2. QED BY <1>6, <1>9, <3>1
  <2>3. /\ x \in Runs /\ x.off = off
        /\ End(x) = End(m[i]) /\ BlocksOf(x) = BlocksOf(e) \cup BlocksOf(m[i])
    BY <1>1, <2>1, Joined
  <2> HIDE DEF x
  <2>4. \A j \in DOMAIN m : i < j => End(x) < m[j].off
    BY <1>5, <2>1, <2>3
  <2>5. /\ r \in Seq(Runs) /\ Ascending(r)
        /\ FreeBlocks(r) = (FreeBlocks(m) \ BlocksOf(m[i])) \cup BlocksOf(x)
    BY <1>7, <2>1, <2>2, <2>3, <2>4, Changed
  <2>6. BlocksOf(m[i]) \subseteq FreeBlocks(m)
    BY <2>1 DEF FreeBlocks
  <2>7. GivenBack(m, r, e)
    BY <2>3, <2>5, <2>6 DEF GivenBack
  <2>8. QED BY <1>6, <1>9, <2>7 DEF r, e, i
<1>10. CASE ~ AbutsEnd(m, off, i) /\ ~ AbutsStart(m, off, n, i)
  <2>1. ASSUME NEW j \in DOMAIN m, i <= j PROVE End(e) < m[j].off
    <3>1. i \in DOMAIN m /\ i \in Nat /\ j \in Nat
      BY <1>2, <1>3, <2>1
    <3>2. off < m[i].off /\ off + n # m[i].off
      BY <1>2, <1>6, <1>10, <3>1 DEF Stops
    <3>3. End(e) < m[i].off
      <4>1. m[i].off \in Nat /\ End(m[i]) \in Nat /\ m[i].off < End(m[i])
        BY <1>5, <3>1
      <4>2. End(e) <= m[i].off \/ End(m[i]) <= e.off
        BY <1>4, <3>1
      <4>3. QED BY <1>1, <3>2, <4>1, <4>2
    <3>4. m[i].off <= m[j].off
      BY <1>5, <2>1, <3>1
    <3>5. QED BY <1>1, <1>5, <3>1, <3>3, <3>4
  <2>2. CASE RmapLoses(m, off, n, slots)
    BY <1>6, <2>2
  <2>3. CASE ~ RmapLoses(m, off, n, slots)
    <3>1. r = InsertAt(m, i, e)
      BY <1>6, <1>10, <2>3
    <3>2. GivenBack(m, r, e)
      BY <1>1, <1>2, <1>7, <2>1, <3>1, Inserted DEF GivenBack
    <3>3. QED BY <1>6, <2>3, <3>2 DEF r, e, i
  <2>4. QED BY <2>2, <2>3
<1>11. QED BY <1>8, <1>9, <1>10

LEMMA Added ==
    ASSUME NEW a \in Runs, NEW b \in Runs
    PROVE  Entry(a.off, a.size + b.size) \in Runs
<1>1. a.off \in Nat \ {0} /\ a.size + b.size \in Nat \ {0}
  BY DEF Runs
<1>2. QED BY <1>1 DEF Entry, Runs

(* rmap_free() makes no map longer than it may be. *)
LEMMA FreeKeepsSize ==
    ASSUME NEW m \in Seq(Runs), NEW off \in Nat \ {0}, NEW n \in Nat \ {0},
           NEW slots \in Nat, Len(m) <= slots
    PROVE  Len(RmapFree(m, off, n, slots)) <= slots
<1> DEFINE i == Place(m, off, n)
<1>1. i \in 1 .. Len(m) + 1 /\ Entry(off, n) \in Runs /\ Len(m) \in Nat
  BY PlaceIs DEF Entry, Runs
<1>2. \A e : Len([m EXCEPT ![i] = e]) = Len(m)
  OBVIOUS
<1> HIDE DEF i
<1>3. Len(InsertAt(m, i, Entry(off, n))) = Len(m) + 1
  BY <1>1, InsertAtShape
<1>4. ASSUME AbutsEnd(m, off, i) PROVE Len(RmapGrow(m, n, i)) <= Len(m)
  <2> DEFINE g == [m EXCEPT ![i] = Entry(m[i].off, m[i].size + n)]
             h == [g EXCEPT ![i] = Entry(g[i].off, g[i].size + g[i + 1].size)]
  <2>1. i \in DOMAIN m /\ m[i] \in Runs
    BY <1>4 DEF AbutsEnd
  <2>2. Entry(m[i].off, m[i].size + n) \in Runs
    BY <2>1 DEF Entry, Runs
  <2>3. g \in Seq(Runs) /\ Len(g) = Len(m)
    BY <2>1, <2>2
  <2> HIDE DEF g
  <2>4. ASSUME i < Len(m) PROVE h \in Seq(Runs) /\ Len(h) = Len(m) /\ i + 1 \in DOMAIN h
    <3>1. g[i] \in Runs /\ g[i + 1] \in Runs /\ i + 1 \in 1 .. Len(m)
      BY <1>1, <2>1, <2>3, <2>4
    <3> DEFINE e == Entry(g[i].off, g[i].size + g[i + 1].size)
    <3>2. e \in Runs
      BY <3>1, Added
    <3> HIDE DEF e
    <3>3. [g EXCEPT ![i] = e] \in Seq(Runs) /\ Len([g EXCEPT ![i] = e]) = Len(g)
      BY <2>1, <2>3, <3>2
    <3>4. QED BY <2>3, <3>1, <3>3 DEF e
  <2> HIDE DEF h
  <2>5. i < Len(m) => Len(RemoveAt(h, i + 1)) = Len(m) - 1
    BY <2>4, CutShape
  <2>6. RmapGrow(m, n, i) = IF i < Len(m) /\ End(g[i]) = g[i + 1].off
                            THEN RemoveAt(h, i + 1) ELSE g
    BY DEF RmapGrow, g, h
  <2>7. QED BY <1>1, <2>3, <2>5, <2>6
<1>5. QED BY <1>1, <1>2, <1>3, <1>4 DEF RmapFree, RmapLoses, i

-----------------------------------------------------------------------------
(* rmap_alloc()                                                             *)

(* rmap_alloc() hands out blocks that were free, and those only leave the   *)
(* map, which stays in order (rmap.c:38-71).                                *)
THEOREM TakeRemovesBlocks ==
    ASSUME NEW m \in Seq(Runs), Ascending(m), NEW n \in Nat \ {0}, Fitting(m, n) # {}
    PROVE  LET e == Entry(RmapIndex(m, n), n)
               r == RmapTake(m, n)
           IN  /\ e \in Runs /\ BlocksOf(e) \subseteq FreeBlocks(m)
               /\ r \in Seq(Runs) /\ Ascending(r) /\ Len(r) <= Len(m)
               /\ FreeBlocks(r) = FreeBlocks(m) \ BlocksOf(e)
<1> DEFINE i == Min(Fitting(m, n))
           e == Entry(RmapIndex(m, n), n)
           r == RmapTake(m, n)
<1>1. i \in DOMAIN m /\ m[i].size >= n /\ m[i] \in Runs
  <2>1. Fitting(m, n) \in SUBSET Nat
    BY DEF Fitting
  <2>2. i \in Fitting(m, n)
    BY <2>1, MinIs
  <2>3. QED BY <2>2 DEF Fitting
<1>2. e = Entry(m[i].off, n)
  BY DEF RmapIndex
<1>3. r = IF m[i].size > n
          THEN [m EXCEPT ![i] = Entry(m[i].off + n, m[i].size - n)]
          ELSE RemoveAt(m, i)
  BY DEF RmapTake
<1> HIDE DEF i, e, r
<1>4. /\ m[i].off \in Nat \ {0} /\ m[i].size \in Nat \ {0}
      /\ e \in Runs /\ e.off = m[i].off /\ e.size = n /\ End(e) = m[i].off + n
  BY <1>1, <1>2 DEF Entry, Runs, End
<1>5. BlocksOf(m[i]) \subseteq FreeBlocks(m)
  BY <1>1 DEF FreeBlocks
<1>6. CASE m[i].size > n
  <2> DEFINE x == Entry(m[i].off + n, m[i].size - n)
  <2>1. x \in Runs /\ x.off = m[i].off + n /\ x.size = m[i].size - n /\ End(e) = x.off
    <3>1. m[i].off + n \in Nat \ {0} /\ m[i].size - n \in Nat \ {0}
      BY <1>4, <1>6
    <3>2. QED BY <1>4, <3>1 DEF Entry, Runs
  <2>2. End(x) = End(m[i]) /\ End(x) = x.off + x.size
    BY <1>4, <2>1 DEF End
  <2> HIDE DEF x
  <2>3. ASSUME NEW b PROVE /\ b \in BlocksOf(m[i]) <=> b \in BlocksOf(e) \/ b \in BlocksOf(x)
                           /\ ~ (b \in BlocksOf(e) /\ b \in BlocksOf(x))
    <3>1. b \in BlocksOf(m[i]) <=> b \in Int /\ m[i].off <= b /\ b < End(m[i])
      BY <1>1, InBlocks
    <3>2. b \in BlocksOf(e) <=> b \in Int /\ m[i].off <= b /\ b < m[i].off + n
      BY <1>4, InBlocks
    <3>3. b \in BlocksOf(x) <=> b \in Int /\ m[i].off + n <= b /\ b < End(m[i])
      BY <2>1, <2>2, InBlocks
    <3>4. m[i].off + n < End(m[i])
      BY <1>4, <1>6 DEF End
    <3>5. End(m[i]) \in Int
      BY <1>4 DEF End
    <3>6. QED BY <1>4, <3>1, <3>2, <3>3, <3>4, <3>5
  <2>4. \A j \in DOMAIN m : j < i => End(m[j]) < x.off
    BY <1>1, <1>4, <2>1, Bounds
  <2>5. \A j \in DOMAIN m : i < j => End(x) < m[j].off
    BY <1>1, <2>2, Bounds
  <2>6. r = [m EXCEPT ![i] = x]
    BY <1>3, <1>6 DEF x
  <2>7. /\ r \in Seq(Runs) /\ Ascending(r) /\ Len(r) = Len(m)
        /\ FreeBlocks(r) = (FreeBlocks(m) \ BlocksOf(m[i])) \cup BlocksOf(x)
    <3>1. Len(r) = Len(m)
      BY <2>6
    <3>2. QED BY <1>1, <2>1, <2>4, <2>5, <2>6, <3>1, Changed
  <2>8. QED BY <1>4, <1>5, <2>3, <2>7 DEF e, r
<1>7. CASE ~ (m[i].size > n)
  <2>1. BlocksOf(e) = BlocksOf(m[i]) /\ r = RemoveAt(m, i)
    BY <1>1, <1>3, <1>4, <1>7 DEF BlocksOf, End
  <2>2. QED BY <1>1, <1>4, <1>5, <2>1, Removed, CutShape DEF e, r
<1>8. QED BY <1>6, <1>7

(* rmap_alloc() refuses only when there are not as many free blocks in a    *)
(* row: free space that adjoins is one entry, however it was freed          *)
(* (rmap.c:48-60).                                                          *)
THEOREM RefusedMeansNoRun ==
    ASSUME NEW m \in Seq(Runs), Ascending(m), NEW n \in Nat \ {0}, RmapIndex(m, n) = 0
    PROVE  ~ \E b \in FreeBlocks(m) : b .. b + n - 1 \subseteq FreeBlocks(m)
<1>1. Fitting(m, n) = {}
  <2>1. ASSUME Fitting(m, n) # {} PROVE FALSE
    <3>1. Fitting(m, n) \in SUBSET Nat
      BY DEF Fitting
    <3>2. Min(Fitting(m, n)) \in DOMAIN m
      BY <2>1, <3>1, MinIs DEF Fitting
    <3>3. m[Min(Fitting(m, n))].off \in Nat \ {0}
      <4>1. m[Min(Fitting(m, n))] \in Runs
        BY <3>2
      <4>2. QED BY <4>1 DEF Runs
    <3>4. QED BY <2>1, <3>3 DEF RmapIndex
  <2>2. QED BY <2>1
<1>2. SUFFICES ASSUME NEW b \in FreeBlocks(m), b .. b + n - 1 \subseteq FreeBlocks(m)
               PROVE  FALSE
  OBVIOUS
<1>3. PICK i \in DOMAIN m : b \in BlocksOf(m[i])
  BY InFree
<1>4. m[i] \in Runs /\ ~ (m[i].size >= n)
  BY <1>1 DEF Fitting
<1>5. b \in Int /\ m[i].off <= b /\ b < End(m[i])
  BY <1>3, <1>4, InBlocks
<1>6. End(m[i]) \in b .. b + n - 1
  BY <1>4, <1>5 DEF End, Runs
<1>7. PICK j \in DOMAIN m : End(m[i]) \in BlocksOf(m[j])
  BY <1>2, <1>6, InFree
<1>8. m[j] \in Runs /\ m[j].off <= End(m[i]) /\ End(m[i]) < End(m[j])
  BY <1>7, InBlocks
<1>9. i \in Nat /\ j \in Nat /\ i # j
  BY <1>4, <1>8 DEF End, Runs
<1>10. CASE i < j
  BY <1>8, <1>10, Bounds
<1>11. CASE j < i
  BY <1>8, <1>11, Bounds
<1>12. QED BY <1>9, <1>10, <1>11

-----------------------------------------------------------------------------
(* The settings                                                             *)


(* What the theorems assume of the settings: the first request to a new     *)
(* server is not to free, no device comes while threads wait for space,     *)
(* and the map has room for the first device.                               *)
Sound(e) == ~ e.free1st /\ ~ e.late /\ e.slots > 0

-----------------------------------------------------------------------------
(* The inductive invariant                                                  *)

Inside == {"send", "io", "back"}
Places == Inside \cup {"idle", "lock", "wait", "again"}

Requests == [pc : Places, op : {"none", "alloc", "free", "file"},
             off : Nat, n : Nat, outer : Nat, res : Nat]

(* The one assertion that may fail is the server's. *)
Halts == {"none", "rmap_free: zero off"}

Types ==
    /\ env \in Envs /\ swapdev \in BOOLEAN /\ panic \in Halts
    /\ pend \in Nat /\ spend \in Nat /\ lost \in Nat
    /\ th \in [Thread -> Requests]
    /\ own \in [Thread -> SUBSET Runs] /\ leaked \subseteq Runs
    /\ devs \in Seq([block : Nat, len : Nat]) /\ Len(devs) <= Len(env.lens)
    /\ map \in Seq(Runs) /\ Ascending(map) /\ Len(map) <= env.slots

(* What a thread may be asking for, by where it is. *)
Call(t) ==
    /\ th[t].pc = "idle" => th[t] = Idle
    /\ th[t].pc # "idle" => th[t].op # "none" /\ th[t].n > 0
    /\ th[t].pc \in {"wait", "again"} => th[t].op = "alloc"
    /\ th[t].op = "free" => th[t].off > 0 /\ th[t].outer = 0
    /\ th[t].op = "file" => th[t].pc \in {"lock", "send", "io"}
    /\ th[t].outer > 0 => th[t].pc \in {"io", "back"} /\ pend = 0

Calls == \A t \in Thread : Call(t)

AtPlace(P) == {t \in Thread : th[t].pc \in P}

Sleeping ==
    /\ HeldBy(psema, Thread, AtPlace({"lock"}), AtPlace(Inside))
    /\ SemaType(waitq, Thread) /\ CountsSleepers(waitq) /\ waitq.cnt <= 0
    /\ Sleepers(waitq) = AtPlace({"wait"})

(* The first block that is on no device. *)
Top == IF NoDevice THEN spend + 1 ELSE Last(devs).block + Last(devs).len

Server ==
    /\ ~ NoDevice => spend = 0
    /\ \A b \in FreeBlocks(map) : b < Top

(* Blocks in use are in use once, are not free, and lie below a limit. *)
Claimed(U, F, top) ==
    /\ \A u \in U : /\ u[3] \in Runs /\ End(u[3]) <= top
                    /\ BlocksOf(u[3]) \cap F = {}
    /\ \A u, v \in U : u # v => BlocksOf(u[3]) \cap BlocksOf(v[3]) = {}

(* The server has handed out nothing, and can give the first n blocks. *)
Untouched(n) ==
    /\ spend = 0
    /\ NoDevice => map = <<>>
    /\ ~ NoDevice => 1 .. Head(env.lens) \subseteq FreeBlocks(map)
    /\ n > 0 => n < Head(env.lens)
    /\ Claimed(Used, {}, n + 1)

Boot == (~ swapdev \/ pend > 0) =>
    Untouched(pend) /\ \A t \in Thread : th[t].pc = "idle"

Accounting == \A t \in Thread : th[t].outer > 0 =>
    /\ th[t].pc = "io" => Untouched(th[t].n)
    /\ th[t].pc = "back" => th[t].res = 1

Settled == Accounted => Claimed(Used, FreeBlocks(map), Top)

(* alloc_swap() found no room and sleeps, or is about to. *)
Wants(t) ==
    \/ th[t].pc = "wait"
    \/ th[t].pc = "back" /\ th[t].op = "alloc" /\ th[t].res = 0

NoneBesideRoom == \A t \in Thread :
    Wants(t) /\ Room(th[t].n) => \E u \in Thread : th[u].op = "free" /\ th[u].pc = "back"

IInv == /\ Types /\ Calls /\ Sleeping /\ Server
        /\ Boot /\ Accounting /\ Settled /\ NoneBesideRoom

-----------------------------------------------------------------------------
(* The map and the blocks in use                                            *)

(* When the first n blocks are free, they are what rmap_alloc() finds.      *)
LEMMA FirstFit ==
    ASSUME NEW m \in Seq(Runs), Ascending(m), NEW n \in Nat \ {0},
           1 .. n \subseteq FreeBlocks(m)
    PROVE  Fitting(m, n) # {} /\ RmapIndex(m, n) = 1
<1>1. PICK i \in DOMAIN m : 1 \in BlocksOf(m[i])
  BY InFree
<1>2. m[i] \in Runs /\ i \in Nat
  OBVIOUS
<1>3. m[i].off = 1 /\ m[i].size \in Nat \ {0} /\ End(m[i]) = 1 + m[i].size
  BY <1>1, <1>2, InBlocks DEF End, Runs
<1>4. \A j \in DOMAIN m : i <= j
  <2>1. ASSUME NEW j \in DOMAIN m, j < i PROVE FALSE
    BY <1>3, <2>1, Bounds
  <2>2. QED BY <1>2, <2>1
<1>5. m[i].size >= n
  <2>1. SUFFICES ASSUME m[i].size < n PROVE FALSE
    BY <1>3
  <2>2. End(m[i]) \in 1 .. n
    BY <1>3, <2>1
  <2>3. PICK k \in DOMAIN m : End(m[i]) \in BlocksOf(m[k])
    BY <2>2, InFree
  <2>4. m[k] \in Runs /\ k \in Nat
    OBVIOUS
  <2>5. m[k].off <= End(m[i]) /\ End(m[i]) < End(m[k])
    BY <2>3, <2>4, InBlocks
  <2>6. i < k
    BY <1>2, <1>3, <1>4, <2>4, <2>5
  <2>7. End(m[i]) < m[k].off
    BY <2>6, Bounds
  <2>8. QED BY <1>3, <2>4, <2>5, <2>7 DEF Runs
<1>6. i \in Fitting(m, n) /\ Fitting(m, n) \in SUBSET Nat
  BY <1>5 DEF Fitting
<1>7. Min(Fitting(m, n)) \in DOMAIN m /\ Min(Fitting(m, n)) <= i
  BY <1>6, MinIs DEF Fitting
<1>8. Min(Fitting(m, n)) = i
  BY <1>2, <1>4, <1>7
<1>9. QED BY <1>3, <1>6, <1>8 DEF RmapIndex

LEMMA ClaimLess ==
    ASSUME NEW U, NEW F, NEW top \in Int, Claimed(U, F, top),
           NEW V, V \subseteq U, NEW G, G \subseteq F, NEW up \in Int, top <= up
    PROVE  Claimed(V, G, up)
<1>1. ASSUME NEW u \in V
      PROVE  u[3] \in Runs /\ End(u[3]) <= up /\ BlocksOf(u[3]) \cap G = {}
  <2>1. u[3] \in Runs /\ End(u[3]) <= top /\ BlocksOf(u[3]) \cap F = {}
    BY DEF Claimed
  <2>2. End(u[3]) \in Int
    BY <2>1 DEF End, Runs
  <2>3. QED BY <2>1, <2>2
<1>2. QED BY <1>1 DEF Claimed

LEMMA ClaimNew ==
    ASSUME NEW U, NEW F, NEW top \in Int, Claimed(U, F, top),
           NEW x, x[3] \in Runs, \A u \in U : BlocksOf(u[3]) \cap BlocksOf(x[3]) = {},
           NEW V, V \subseteq U \cup {x}, NEW G, G \subseteq F, BlocksOf(x[3]) \cap G = {},
           NEW up \in Int, top <= up, End(x[3]) <= up
    PROVE  Claimed(V, G, up)
<1>1. ASSUME NEW u \in V, u # x
      PROVE  u[3] \in Runs /\ End(u[3]) <= up /\ BlocksOf(u[3]) \cap G = {}
  <2>1. Claimed(U, G, up)
    BY ClaimLess
  <2>2. QED BY <1>1, <2>1 DEF Claimed
<1>2. ASSUME NEW u \in V, NEW v \in V, u # v
      PROVE  BlocksOf(u[3]) \cap BlocksOf(v[3]) = {}
  <2>1. u \in U /\ v \in U => BlocksOf(u[3]) \cap BlocksOf(v[3]) = {}
    BY <1>2 DEF Claimed
  <2>2. u = x => v \in U /\ BlocksOf(v[3]) \cap BlocksOf(x[3]) = {}
    BY <1>2
  <2>3. v = x => u \in U /\ BlocksOf(u[3]) \cap BlocksOf(x[3]) = {}
    BY <1>2
  <2>4. QED BY <2>1, <2>2, <2>3
<1>3. QED BY <1>1, <1>2 DEF Claimed

LEMMA ClaimMove ==
    ASSUME NEW U, NEW F, NEW top \in Int, Claimed(U, F, top), NEW u \in U,
           NEW x, x[3] = u[3], NEW V, V \subseteq (U \ {u}) \cup {x}
    PROVE  Claimed(V, F, top)
<1>1. Claimed(U \ {u}, F, top)
  BY ClaimLess
<1>2. /\ x[3] \in Runs /\ BlocksOf(x[3]) \cap F = {} /\ End(x[3]) <= top
      /\ \A v \in U \ {u} : BlocksOf(v[3]) \cap BlocksOf(x[3]) = {}
  BY DEF Claimed
<1> HIDE DEF Claimed
<1>3. QED BY <1>1, <1>2, ClaimNew

(* Blocks in use below a limit are none of those beyond. *)
LEMMA ClaimBelow ==
    ASSUME NEW U, NEW F, NEW top \in Int, Claimed(U, F, top),
           NEW e \in Runs, top <= e.off
    PROVE  \A u \in U : BlocksOf(u[3]) \cap BlocksOf(e) = {}
<1> SUFFICES ASSUME NEW u \in U, NEW b \in BlocksOf(u[3]), b \in BlocksOf(e) PROVE FALSE
  OBVIOUS
<1>1. u[3] \in Runs /\ End(u[3]) <= top /\ e.off \in Int /\ End(u[3]) \in Int
  BY DEF Claimed, Runs, End
<1>2. b \in Int /\ b < End(u[3]) /\ e.off <= b
  BY <1>1, InBlocks
<1>3. QED BY <1>1, <1>2

LEMMA InUsed ==
    ASSUME NEW x
    PROVE  x \in Used <=> \/ \E t \in Thread : \E c \in own[t] : x = <<t, "owns", c>>
                          \/ \E c \in leaked : x = <<"nobody", "leaked", c>>
                          \/ \E t \in Thread : InFlight(t) /\ x = <<t, "flight", FlightChunk(t)>>
<1> DEFINE O == {{<<t, "owns", c>> : c \in own[t]} : t \in Thread}
           K == {<<"nobody", "leaked", c>> : c \in leaked}
           W == UNION O
           I == {u \in Thread : InFlight(u)}
           G == {<<t, "flight", FlightChunk(t)>> : t \in I}
           Owns    == \E t \in Thread : \E c \in own[t] : x = <<t, "owns", c>>
           Leaked  == \E c \in leaked : x = <<"nobody", "leaked", c>>
           Flying  == \E t \in Thread : InFlight(t) /\ x = <<t, "flight", FlightChunk(t)>>
<1>1. Used = W \cup K \cup G
  BY DEF Used
<1>2. x \in W <=> Owns
  <2>1. ASSUME NEW S \in O, x \in S
        PROVE  \E t \in Thread : \E c \in own[t] : x = <<t, "owns", c>>
    <3>1. PICK t \in Thread : S = {<<t, "owns", c>> : c \in own[t]}
      BY Zenon
    <3>2. PICK c \in own[t] : x = <<t, "owns", c>>
      BY <2>1, <3>1, Zenon
    <3>3. QED BY <3>2
  <2>2. ASSUME NEW t \in Thread, NEW c \in own[t], x = <<t, "owns", c>>
        PROVE  \E S \in O : x \in S
    <3> DEFINE S == {<<t, "owns", d>> : d \in own[t]}
    <3>1. S \in O
      BY Zenon
    <3>2. x \in S
      BY <2>2, Zenon
    <3>3. QED BY <3>1, <3>2, Zenon
  <2>3. x \in UNION O <=> \E S \in O : x \in S
    BY Zenon
  <2>4. QED BY <2>1, <2>2, <2>3, Zenon
<1>3. x \in K <=> Leaked
  BY Zenon
<1>4. x \in G <=> Flying
  BY Zenon
<1>6. SUFFICES x \in Used <=> Owns \/ Leaked \/ Flying
  BY Zenon
<1> HIDE DEF O, W, K, G, Owns, Leaked, Flying
<1>5. x \in Used <=> x \in W \/ x \in K \/ x \in G
  BY <1>1
<1>7. QED BY <1>2, <1>3, <1>4, <1>5

LEMMA InUsedNext ==
    ASSUME NEW x
    PROVE  x \in Used' <=>
              \/ \E t \in Thread : \E c \in own'[t] : x = <<t, "owns", c>>
              \/ \E c \in leaked' : x = <<"nobody", "leaked", c>>
              \/ \E t \in Thread : InFlight(t)' /\ x = <<t, "flight", FlightChunk(t)'>>
<1> DEFINE O == {{<<t, "owns", c>> : c \in own'[t]} : t \in Thread}
           K == {<<"nobody", "leaked", c>> : c \in leaked'}
           W == UNION O
           I == {u \in Thread : InFlight(u)'}
           G == {<<t, "flight", FlightChunk(t)'>> : t \in I}
           Owns    == \E t \in Thread : \E c \in own'[t] : x = <<t, "owns", c>>
           Leaked  == \E c \in leaked' : x = <<"nobody", "leaked", c>>
           Flying  == \E t \in Thread : InFlight(t)' /\ x = <<t, "flight", FlightChunk(t)'>>
<1>1. Used' = W \cup K \cup G
  BY DEF Used
<1>2. x \in W <=> Owns
  <2>1. ASSUME NEW S \in O, x \in S
        PROVE  \E t \in Thread : \E c \in own'[t] : x = <<t, "owns", c>>
    <3>1. PICK t \in Thread : S = {<<t, "owns", c>> : c \in own'[t]}
      BY Zenon
    <3>2. PICK c \in own'[t] : x = <<t, "owns", c>>
      BY <2>1, <3>1, Zenon
    <3>3. QED BY <3>2
  <2>2. ASSUME NEW t \in Thread, NEW c \in own'[t], x = <<t, "owns", c>>
        PROVE  \E S \in O : x \in S
    <3> DEFINE S == {<<t, "owns", d>> : d \in own'[t]}
    <3>1. S \in O
      BY Zenon
    <3>2. x \in S
      BY <2>2, Zenon
    <3>3. QED BY <3>1, <3>2, Zenon
  <2>3. x \in UNION O <=> \E S \in O : x \in S
    BY Zenon
  <2>4. QED BY <2>1, <2>2, <2>3, Zenon
<1>3. x \in K <=> Leaked
  BY Zenon
<1>4. x \in G <=> Flying
  BY Zenon
<1>6. SUFFICES x \in Used' <=> Owns \/ Leaked \/ Flying
  BY Zenon
<1> HIDE DEF O, W, K, G, Owns, Leaked, Flying
<1>5. x \in Used' <=> x \in W \/ x \in K \/ x \in G
  BY <1>1
<1>7. QED BY <1>2, <1>3, <1>4, <1>5

(* A thread's blocks on the way to or from the server. *)
SameFlight(u) == InFlight(u)' => InFlight(u) /\ FlightChunk(u)' = FlightChunk(u)

(* What uses blocks after a step of t only. *)
LEMMA UsedAfter ==
    ASSUME NEW t \in Thread,
           \A u \in Thread \ {t} : own'[u] = own[u] /\ SameFlight(u),
           NEW x \in Used'
    PROVE  \/ /\ x \in Used
              /\ \A c : x # <<t, "owns", c>> /\ x # <<t, "flight", c>>
           \/ \E c \in own'[t] : x = <<t, "owns", c>>
           \/ \E c \in leaked' : x = <<"nobody", "leaked", c>>
           \/ InFlight(t)' /\ x = <<t, "flight", FlightChunk(t)'>>
<1>1. CASE \E u \in Thread : \E c \in own'[u] : x = <<u, "owns", c>>
  <2>a. PICK u \in Thread : \E c \in own'[u] : x = <<u, "owns", c>>
    BY <1>1
  <2>1. PICK c \in own'[u] : x = <<u, "owns", c>>
    BY <2>a
  <2>2. CASE u = t
    BY <2>1, <2>2
  <2>3. CASE u # t
    <3>1. c \in own[u]
      BY <2>1, <2>3
    <3>2. x \in Used
      BY <2>1, <3>1, InUsed
    <3>3. QED BY <2>1, <2>3, <3>2
  <2>4. QED BY <2>2, <2>3
<1>2. CASE \E c \in leaked' : x = <<"nobody", "leaked", c>>
  BY <1>2
<1>3. CASE \E u \in Thread : InFlight(u)' /\ x = <<u, "flight", FlightChunk(u)'>>
  <2>1. PICK u \in Thread : InFlight(u)' /\ x = <<u, "flight", FlightChunk(u)'>>
    BY <1>3
  <2>2. CASE u = t
    BY <2>1, <2>2
  <2>3. CASE u # t
    <3>1. InFlight(u) /\ x = <<u, "flight", FlightChunk(u)>>
      BY <2>1, <2>3 DEF SameFlight
    <3>2. x \in Used
      BY <3>1, InUsed
    <3>3. QED BY <2>1, <2>3, <3>2
  <2>4. QED BY <2>2, <2>3
<1>4. QED BY <1>1, <1>2, <1>3, InUsedNext

(* Blocks in use stay what they are, whatever they must keep clear of. *)
ClaimsKept == \A F : \A top \in Int : Claimed(Used, F, top) => Claimed(Used', F, top)

LEMMA ClaimsSame ==
    ASSUME own' = own, leaked' = leaked, \A u \in Thread : SameFlight(u)
    PROVE  Used' \subseteq Used /\ ClaimsKept
<1>1. ASSUME NEW x \in Used' PROVE x \in Used
  <2>1. CASE \E u \in Thread : InFlight(u)' /\ x = <<u, "flight", FlightChunk(u)'>>
    BY <2>1, InUsed DEF SameFlight
  <2>2. CASE ~ \E u \in Thread : InFlight(u)' /\ x = <<u, "flight", FlightChunk(u)'>>
    BY <2>2, InUsed, InUsedNext
  <2>3. QED BY <2>1, <2>2
<1>2. ASSUME NEW F, NEW top \in Int, Claimed(Used, F, top) PROVE Claimed(Used', F, top)
  <2>1. Used' \subseteq Used /\ F \subseteq F /\ top <= top
    BY <1>1
  <2>2. QED BY <1>2, <2>1, ClaimLess
<1>3. QED BY <1>1, <1>2 DEF ClaimsKept

LEMMA ClaimsMoved ==
    ASSUME NEW u \in Used, NEW x, x[3] = u[3], Used' \subseteq (Used \ {u}) \cup {x}
    PROVE  ClaimsKept
BY ClaimMove DEF ClaimsKept

-----------------------------------------------------------------------------
(* Where threads go                                                         *)

LEMMA AskedPositive ==
    ASSUME Types, NEW n \in env.asks
    PROVE  n \in Nat \ {0}
BY EnvAssumption DEF Types, Env

(* What may happen to a thread while another takes a step. *)
MayMove(u) ==
    \/ th'[u] = th[u]
    \/ th[u].pc = "lock" /\ th'[u] = [th[u] EXCEPT !.pc = "send"]
    \/ th[u].pc = "wait" /\ th'[u] = [th[u] EXCEPT !.pc = "again"]

LEMMA MoveKeeps ==
    ASSUME Types, Calls, NEW u \in Thread, MayMove(u)
    PROVE  /\ th'[u] \in Requests /\ SameFlight(u)
           /\ th'[u].op = th[u].op /\ th'[u].n = th[u].n /\ th'[u].off = th[u].off
           /\ th'[u].res = th[u].res /\ th'[u].outer = th[u].outer
           /\ th[u].outer > 0 => th'[u] = th[u]
           /\ th[u].pc \in {"idle", "io", "back"} => th'[u] = th[u]
           /\ th[u].pc # "idle" => th'[u].pc # "idle"
           /\ th'[u].pc \in {"back", "wait", "idle", "io"} => th'[u] = th[u]
<1>1. th[u] \in Requests
  BY DEF Types
<1>2. CASE th'[u] = th[u]
  BY <1>1, <1>2 DEF SameFlight, InFlight, FlightChunk
<1>3. CASE th[u].pc = "lock" /\ th'[u] = [th[u] EXCEPT !.pc = "send"]
  <2>1. /\ th'[u] \in Requests /\ th'[u].pc = "send"
        /\ th'[u].op = th[u].op /\ th'[u].n = th[u].n /\ th'[u].off = th[u].off
        /\ th'[u].res = th[u].res /\ th'[u].outer = th[u].outer
    BY <1>1, <1>3 DEF Requests, Places, Inside
  <2>2. ~ th[u].outer > 0
    BY <1>3 DEF Calls, Call
  <2>3. QED BY <1>3, <2>1, <2>2 DEF SameFlight, InFlight, FlightChunk
<1>4. CASE th[u].pc = "wait" /\ th'[u] = [th[u] EXCEPT !.pc = "again"]
  <2>1. /\ th'[u] \in Requests /\ th'[u].pc = "again"
        /\ th'[u].op = th[u].op /\ th'[u].n = th[u].n /\ th'[u].off = th[u].off
        /\ th'[u].res = th[u].res /\ th'[u].outer = th[u].outer
    BY <1>1, <1>4 DEF Requests, Places, Inside
  <2>2. ~ th[u].outer > 0 /\ th[u].op = "alloc"
    BY <1>4 DEF Calls, Call
  <2>3. QED BY <1>4, <2>1, <2>2 DEF SameFlight, InFlight, FlightChunk
<1>5. QED BY <1>2, <1>3, <1>4 DEF MayMove

(* The shape of th after Ask(). *)
LEMMA AskShape ==
    ASSUME NEW f \in [Thread -> Requests], NEW s, NEW t \in Thread, Ask(f, s, t)
    PROVE  /\ th' \in [Thread -> Requests] /\ psema' = PSema(s, t)
           /\ \A u \in Thread \ {t} : th'[u] = f[u]
           /\ th'[t].pc = IF PSleeps(s) THEN "lock" ELSE "io"
           /\ th'[t].op = f[t].op /\ th'[t].n = f[t].n /\ th'[t].off = f[t].off
           /\ th'[t].res = f[t].res /\ th'[t].outer = f[t].outer
<1> DEFINE p == IF PSleeps(s) THEN "lock" ELSE "io"
           r == [f[t] EXCEPT !.pc = p]
<1>1. p \in Places
  BY DEF Places, Inside
<1>2. th' = [f EXCEPT ![t] = r] /\ psema' = PSema(s, t)
  BY DEF Ask
<1>3. p = IF PSleeps(s) THEN "lock" ELSE "io"
  OBVIOUS
<1> HIDE DEF p
<1>4. /\ r \in Requests /\ r.pc = p /\ r.op = f[t].op /\ r.n = f[t].n /\ r.off = f[t].off
      /\ r.res = f[t].res /\ r.outer = f[t].outer
  BY <1>1 DEF Requests
<1> HIDE DEF r
<1>5. QED BY <1>2, <1>3, <1>4

LEMMA GrantedShape ==
    ASSUME Types
    PROVE  /\ Granted(th) \in [Thread -> Requests]
           /\ \A u \in Thread : Granted(th)[u] = IF u \in VWakes(psema)
                                                 THEN [th[u] EXCEPT !.pc = "send"] ELSE th[u]
<1>1. \A u \in Thread : th[u] \in Requests /\ [th[u] EXCEPT !.pc = "send"] \in Requests
  BY DEF Types, Requests, Places, Inside
<1>2. QED BY <1>1 DEF Granted

-----------------------------------------------------------------------------
(* The queue at the server and the sleepers                                 *)

LEMMA LocksAsk ==
    ASSUME Sleeping, NEW t \in Thread, th[t].pc \notin Inside \cup {"lock"},
           psema' = PSema(psema, t),
           th'[t].pc = IF PSleeps(psema) THEN "lock" ELSE "io",
           \A u \in Thread \ {t} : th'[u] = th[u]
    PROVE  HeldBy(psema', Thread, AtPlace({"lock"})', AtPlace(Inside)')
<1> DEFINE L == AtPlace({"lock"})
           I == AtPlace(Inside)
<1>1. HeldBy(psema, Thread, L, I) /\ t \notin L /\ t \notin I
  BY DEF Sleeping, AtPlace
<1> HIDE DEF L, I
<1>2. IF PSleeps(psema) THEN HeldBy(psema', Thread, L \cup {t}, I)
      ELSE I = {} /\ L = {} /\ HeldBy(psema', Thread, {}, {t})
  BY <1>1, HeldAsk
<1>3. CASE PSleeps(psema)
  <2>1. AtPlace({"lock"})' = L \cup {t} /\ AtPlace(Inside)' = I
    BY <1>3 DEF AtPlace, Inside, L, I
  <2>2. QED BY <1>2, <1>3, <2>1
<1>4. CASE ~ PSleeps(psema)
  <2>1. AtPlace({"lock"})' = {} /\ AtPlace(Inside)' = {t}
    BY <1>2, <1>4 DEF AtPlace, Inside, L, I
  <2>2. QED BY <1>2, <1>4, <2>1
<1>5. QED BY <1>3, <1>4

(* What v_sema() of the server does to the others. *)
Passed(u) ==
    \/ u \in VWakes(psema) /\ th'[u].pc = "send"
    \/ u \notin VWakes(psema) /\ th'[u].pc = th[u].pc
    \/ th[u].pc = "wait" /\ th'[u].pc = "again"

LEMMA LocksGive ==
    ASSUME Sleeping, NEW t \in Thread, th[t].pc \in Inside,
           \A u \in Thread \ {t} : Passed(u)
    PROVE  LET L == AtPlace({"lock"}) \ VWakes(psema)
               I == VWakes(psema)
           IN  /\ HeldBy(VSema(psema), Thread, L, I) /\ t \notin L /\ t \notin I
               /\ I \subseteq AtPlace({"lock"})
               /\ \A u \in Thread \ {t} : /\ u \in L <=> th'[u].pc = "lock"
                                          /\ u \in I <=> th'[u].pc \in Inside
<1> DEFINE L == AtPlace({"lock"})
           I == AtPlace(Inside)
           W == VWakes(psema)
<1>1. HeldBy(psema, Thread, L, I) /\ t \in I /\ t \notin L
  BY DEF Sleeping, AtPlace, Inside
<1>2. W \subseteq L /\ I = {t} /\ HeldBy(VSema(psema), Thread, L \ W, W)
  <2> HIDE DEF L, I
  <2>1. QED BY <1>1, HeldGive
<1>3. ASSUME NEW u \in Thread \ {t}
      PROVE  /\ u \in L \ W <=> th'[u].pc = "lock"
             /\ u \in W <=> th'[u].pc \in Inside
  <2>1. u \notin I /\ (u \in W => u \in L)
    BY <1>2
  <2>2. th[u].pc \notin Inside /\ (u \in L <=> th[u].pc = "lock")
    BY <2>1 DEF AtPlace
  <2>3. Passed(u)
    OBVIOUS
  <2> HIDE DEF L, W
  <2>4. QED BY <2>1, <2>2, <2>3 DEF Passed, Inside, W
<1>4. QED BY <1>1, <1>2, <1>3

LEMMA LocksGiven ==
    ASSUME Sleeping, NEW t \in Thread, th[t].pc \in Inside,
           psema' = VSema(psema), th'[t].pc \notin Inside \cup {"lock"},
           \A u \in Thread \ {t} : Passed(u)
    PROVE  HeldBy(psema', Thread, AtPlace({"lock"})', AtPlace(Inside)')
<1> DEFINE L == AtPlace({"lock"}) \ VWakes(psema)
           I == VWakes(psema)
<1>1. /\ HeldBy(VSema(psema), Thread, L, I) /\ t \notin L /\ t \notin I
      /\ L \subseteq Thread /\ I \subseteq Thread
      /\ \A u \in Thread \ {t} : /\ u \in L <=> th'[u].pc = "lock"
                                 /\ u \in I <=> th'[u].pc \in Inside
  BY LocksGive DEF AtPlace
<1> HIDE DEF L, I
<1>2. AtPlace({"lock"})' = L /\ AtPlace(Inside)' = I
  BY <1>1 DEF AtPlace
<1>3. QED BY <1>1, <1>2

LEMMA LocksAskedAgain ==
    ASSUME Sleeping, NEW t \in Thread, th[t].pc \in Inside,
           psema' = PSema(VSema(psema), t),
           th'[t].pc = IF PSleeps(VSema(psema)) THEN "lock" ELSE "io",
           \A u \in Thread \ {t} : Passed(u)
    PROVE  HeldBy(psema', Thread, AtPlace({"lock"})', AtPlace(Inside)')
<1> DEFINE L == AtPlace({"lock"}) \ VWakes(psema)
           I == VWakes(psema)
           s == VSema(psema)
<1>1. /\ HeldBy(s, Thread, L, I) /\ t \notin L /\ t \notin I
      /\ L \subseteq Thread /\ I \subseteq Thread
      /\ \A u \in Thread \ {t} : /\ u \in L <=> th'[u].pc = "lock"
                                 /\ u \in I <=> th'[u].pc \in Inside
  BY LocksGive DEF AtPlace
<1>2. psema' = PSema(s, t) /\ th'[t].pc = IF PSleeps(s) THEN "lock" ELSE "io"
  OBVIOUS
<1> HIDE DEF L, I, s
<1>3. IF PSleeps(s) THEN HeldBy(psema', Thread, L \cup {t}, I)
      ELSE I = {} /\ L = {} /\ HeldBy(psema', Thread, {}, {t})
  <2>1. HeldBy(s, Thread, L, I) /\ t \notin L
    BY <1>1
  <2>2. IF PSleeps(s) THEN HeldBy(PSema(s, t), Thread, L \cup {t}, I)
        ELSE I = {} /\ L = {} /\ HeldBy(PSema(s, t), Thread, {}, {t})
    BY <2>1, HeldAsk
  <2>3. QED BY <1>2, <2>2
<1>4. CASE PSleeps(s)
  <2>1. AtPlace({"lock"})' = L \cup {t} /\ AtPlace(Inside)' = I
    BY <1>1, <1>2, <1>4 DEF AtPlace, Inside
  <2>2. QED BY <1>3, <1>4, <2>1
<1>5. CASE ~ PSleeps(s)
  <2>1. AtPlace({"lock"})' = {} /\ AtPlace(Inside)' = {t}
    BY <1>1, <1>2, <1>3, <1>5 DEF AtPlace, Inside
  <2>2. QED BY <1>3, <1>5, <2>1
<1>6. QED BY <1>4, <1>5

LEMMA LocksSame ==
    ASSUME Sleeping, psema' = psema,
           \A u \in Thread : /\ th'[u].pc = "lock" <=> th[u].pc = "lock"
                             /\ th'[u].pc \in Inside <=> th[u].pc \in Inside
    PROVE  HeldBy(psema', Thread, AtPlace({"lock"})', AtPlace(Inside)')
<1>1. AtPlace({"lock"})' = AtPlace({"lock"}) /\ AtPlace(Inside)' = AtPlace(Inside)
  BY DEF AtPlace
<1>2. QED BY <1>1 DEF Sleeping

(* Nobody came to swap_wait, and none left. *)
LEMMA SleepersSame ==
    ASSUME Sleeping, waitq' = waitq, HeldBy(psema', Thread, AtPlace({"lock"})', AtPlace(Inside)'),
           \A u \in Thread : th'[u].pc = "wait" <=> th[u].pc = "wait"
    PROVE  Sleeping'
<1>1. AtPlace({"wait"})' = AtPlace({"wait"})
  BY DEF AtPlace
<1>2. QED BY <1>1 DEF Sleeping

(* One thread at a time talks to the server. *)
LEMMA OneInside ==
    ASSUME Sleeping, NEW t \in Thread, th[t].pc \in Inside,
           NEW u \in Thread, th[u].pc \in Inside
    PROVE  t = u
BY DEF Sleeping, HeldBy, SleptOn, AtPlace

(* Whoever gives up the server moves others only as they may be moved. *)
LEMMA GrantMoves ==
    ASSUME Types, Sleeping, NEW t \in Thread, th[t].pc \in Inside, NEW u \in Thread \ {t},
           th'[u] = Granted(th)[u]
    PROVE  MayMove(u) /\ Passed(u)
<1> DEFINE L == AtPlace({"lock"})
           I == AtPlace(Inside)
<1>1. HeldBy(psema, Thread, L, I) /\ t \in I
  BY DEF Sleeping, AtPlace
<1>2. VWakes(psema) \subseteq L
  <2> HIDE DEF L, I
  <2>1. QED BY <1>1, HeldGive
<1>3. CASE u \in VWakes(psema)
  <2>1. th[u].pc = "lock" /\ th'[u] = [th[u] EXCEPT !.pc = "send"] /\ th[u] \in Requests
    BY <1>2, <1>3, GrantedShape DEF AtPlace, Types
  <2>2. th'[u].pc = "send"
    BY <2>1 DEF Requests
  <2>3. QED BY <1>3, <2>1, <2>2 DEF MayMove, Passed
<1>4. CASE u \notin VWakes(psema)
  BY <1>4, GrantedShape DEF MayMove, Passed
<1>5. QED BY <1>3, <1>4

-----------------------------------------------------------------------------
(* Steps of the kernel                                                      *)

LEMMA BusyMeansServer ==
    ASSUME Types, Boot, NEW t \in Thread, th[t].pc # "idle"
    PROVE  swapdev /\ pend = 0
BY DEF Types, Boot

LEMMA LastIn ==
    ASSUME NEW D, NEW s \in Seq(D), s # <<>>
    PROVE  s[Len(s)] \in D
OBVIOUS

LEMMA TopIsInt ==
    ASSUME Types
    PROVE  Top \in Int
<1>1. CASE NoDevice
  BY <1>1 DEF Types, Top
<1>2. CASE ~ NoDevice
  <2>1. devs \in Seq([block : Nat, len : Nat]) /\ devs # <<>>
    BY <1>2 DEF Types, NoDevice
  <2>2. devs[Len(devs)] \in [block : Nat, len : Nat]
    BY <2>1, LastIn
  <2>3. QED BY <1>2, <2>2 DEF Top, Last
<1>3. QED BY <1>1, <1>2

LEMMA UntouchedKept ==
    ASSUME ClaimsKept, UNCHANGED <<env, server>>, NEW n \in Nat, Untouched(n)
    PROVE  Untouched(n)'
<1>1. n + 1 \in Int
  OBVIOUS
<1>2. Claimed(Used', {}, n + 1)
  BY <1>1 DEF ClaimsKept, Untouched
<1>3. QED BY <1>2 DEF Untouched, server, NoDevice

(* A step of a thread in the kernel with a server that accounted for the    *)
(* first blocks, or is asked to by another thread: the server's part stays. *)
LEMMA KernelStep ==
    ASSUME IInv, NEW t \in Thread,
           UNCHANGED <<env, swapdev, pend, server, panic>>, swapdev, pend = 0,
           th' \in [Thread -> Requests], own' \in [Thread -> SUBSET Runs],
           leaked' \subseteq Runs, Sleeping', ClaimsKept,
           \A u \in Thread \ {t} : MayMove(u),
           Call(t)', th'[t].outer = 0, th[t].outer > 0 => th[t].pc = "back",
           Wants(t)' => Wants(t) /\ th'[t].n = th[t].n,
           th[t].op = "free" /\ th[t].pc = "back" => \A u \in Thread : th'[u].pc # "wait"
    PROVE  IInv'
<1> USE DEF IInv
<1>1. Types'
  BY DEF Types, server
<1>2. \A u \in Thread \ {t} : /\ th'[u].op = th[u].op /\ th'[u].n = th[u].n
                              /\ th'[u].off = th[u].off
                              /\ th'[u].res = th[u].res /\ th'[u].outer = th[u].outer
                              /\ th[u].outer > 0 => th'[u] = th[u]
                              /\ th[u].pc \in {"idle", "io", "back"} => th'[u] = th[u]
                              /\ th[u].pc # "idle" => th'[u].pc # "idle"
                              /\ th'[u].pc \in {"back", "wait", "idle", "io"} => th'[u] = th[u]
  BY MoveKeeps
<1>3. Calls'
  <2>1. ASSUME NEW u \in Thread \ {t} PROVE Call(u)'
    <3>1. Call(u) /\ MayMove(u) /\ th[u] \in Requests
      BY DEF Calls, Types
    <3>2. CASE th'[u] = th[u]
      BY <3>1, <3>2 DEF Call, Idle
    <3>3. CASE th'[u] # th[u]
      <4>1. th[u].pc \in {"lock", "wait"} /\ th'[u].pc \in {"send", "again"}
            /\ (th'[u].pc = "again" => th[u].pc = "wait")
        BY <3>1, <3>3 DEF MayMove, Requests
      <4>2. QED BY <1>2, <3>1, <4>1 DEF Call
    <3>4. QED BY <3>2, <3>3
  <2>2. QED BY <2>1 DEF Calls
<1>4. Server' /\ Top' = Top /\ Boot'
  BY DEF Server, Boot, Top, NoDevice, server
<1>5. Accounting'
  <2>1. SUFFICES ASSUME NEW u \in Thread, th'[u].outer > 0
                 PROVE  /\ th'[u].pc = "io" => Untouched(th[u].n)'
                        /\ th'[u].pc = "back" => th'[u].res = 1
    BY DEF Accounting
  <2>2. u # t /\ th'[u] = th[u] /\ th[u].outer > 0
    BY <1>2, <2>1
  <2>3. th[u].n \in Nat
    BY DEF Types, Requests
  <2>4. th[u].pc = "io" => Untouched(th[u].n)'
    <3>1. PICK n \in Nat : n = th[u].n
      BY <2>3
    <3>2. th[u].pc = "io" => Untouched(n)
      BY <2>2, <3>1 DEF Accounting
    <3>3. Untouched(n) => Untouched(n)'
      BY UntouchedKept
    <3>4. n = th'[u].n
      BY <2>2, <3>1
    <3>5. QED BY <3>2, <3>3, <3>4 DEF Untouched
  <2>5. QED BY <2>2, <2>4 DEF Accounting
<1>6. Settled'
  <2>1. SUFFICES ASSUME Accounted' PROVE Claimed(Used', FreeBlocks(map)', Top')
    BY DEF Settled
  <2>2. Accounted
    <3>1. ASSUME NEW u \in Thread \ {t}, th[u].outer > 0 PROVE th[u].pc = "back"
      BY <1>2, <2>1, <3>1 DEF Accounted
    <3>2. QED BY <3>1 DEF Accounted
  <2>3. Claimed(Used, FreeBlocks(map), Top) /\ Top \in Int
    BY <2>2, TopIsInt DEF Settled
  <2>4. map' = map
    BY DEF server
  <2>5. QED BY <1>4, <2>3, <2>4 DEF ClaimsKept
<1>7. NoneBesideRoom'
  <2>1. SUFFICES ASSUME NEW u \in Thread, Wants(u)', Room(th[u].n)'
                 PROVE  \E v \in Thread : th'[v].op = "free" /\ th'[v].pc = "back"
    BY DEF NoneBesideRoom
  <2>2. Wants(u) /\ th'[u].n = th[u].n
    BY <1>2, <2>1 DEF Wants
  <2>3. Room(th[u].n)
    BY <2>1, <2>2 DEF Room, server
  <2>4. PICK v \in Thread : th[v].op = "free" /\ th[v].pc = "back"
    BY <2>2, <2>3 DEF NoneBesideRoom
  <2>5. CASE v = t
    <3>1. u # t /\ th'[u].pc = "back"
      BY <2>1, <2>2, <2>4, <2>5 DEF Wants
    <3>2. th[u].pc = "back"
      BY <1>2, <3>1
    <3>3. QED BY <2>4, <2>5, <3>1, <3>2, OneInside DEF Inside
  <2>6. CASE v # t
    <3>1. th'[v] = th[v]
      BY <1>2, <2>4, <2>6
    <3>2. QED BY <2>4, <3>1
  <2>7. QED BY <2>5, <2>6
<1>8. QED BY <1>1, <1>3, <1>4, <1>5, <1>6, <1>7

LEMMA AskSleeping ==
    ASSUME Sleeping, NEW t \in Thread, NEW f \in [Thread -> Requests],
           \A u \in Thread \ {t} : f[u] = th[u], th[t].pc \in {"idle", "again"},
           Ask(f, psema, t), waitq' = waitq
    PROVE  Sleeping'
<1>1. /\ psema' = PSema(psema, t) /\ \A u \in Thread \ {t} : th'[u] = th[u]
      /\ th'[t].pc = IF PSleeps(psema) THEN "lock" ELSE "io"
  BY AskShape
<1>2. th[t].pc \notin Inside \cup {"lock"}
  BY DEF Inside
<1>3. HeldBy(psema', Thread, AtPlace({"lock"})', AtPlace(Inside)')
  BY <1>1, <1>2, LocksAsk
<1>4. th'[t].pc # "wait" /\ th[t].pc # "wait"
  BY <1>1
<1>5. \A u \in Thread : th'[u].pc = "wait" <=> th[u].pc = "wait"
  BY <1>1, <1>4
<1>6. QED BY <1>3, <1>5, SleepersSame

LEMMA SendKeeps ==
    ASSUME IInv, NEW t \in Thread, Send(t)
    PROVE  IInv'
<1> USE DEF IInv
<1>1. th[t] \in Requests /\ th[t].pc = "send" /\ Call(t) /\ th \in [Thread -> Requests]
  BY DEF Send, At, Types, Calls
<1> DEFINE r == [th[t] EXCEPT !.pc = "io"]
<1>2. /\ r \in Requests /\ r.pc = "io" /\ r.op = th[t].op /\ r.n = th[t].n
      /\ r.off = th[t].off /\ r.outer = th[t].outer
  BY <1>1 DEF Requests, Places, Inside
<1>3. th' = [th EXCEPT ![t] = r]
  BY DEF Send
<1> HIDE DEF r
<1>4. th' \in [Thread -> Requests] /\ th'[t] = r /\ \A u \in Thread \ {t} : th'[u] = th[u]
  BY <1>1, <1>2, <1>3
<1>5. /\ UNCHANGED <<env, swapdev, pend, leaked, psema, waitq, own, server, panic>>
      /\ swapdev /\ pend = 0
  BY <1>1, BusyMeansServer DEF Send
<1>6. Sleeping'
  <2>1. HeldBy(psema', Thread, AtPlace({"lock"})', AtPlace(Inside)')
    BY <1>1, <1>2, <1>4, <1>5, LocksSame DEF Inside
  <2>2. QED BY <1>1, <1>2, <1>4, <1>5, <2>1, SleepersSame
<1>7. th[t].outer = 0
  BY <1>1 DEF Call, Requests
<1>8. \A u \in Thread : SameFlight(u)
  BY <1>1, <1>2, <1>4 DEF SameFlight, InFlight, FlightChunk
<1>9. ClaimsKept
  BY <1>5, <1>8, ClaimsSame
<1>10. Call(t)' /\ ~ Wants(t)'
  BY <1>1, <1>2, <1>4, <1>7 DEF Call, Wants
<1>11. /\ \A u \in Thread \ {t} : MayMove(u)
      /\ th[t].outer = 0 /\ th'[t].outer = 0 /\ ~ (th[t].op = "free" /\ th[t].pc = "back")
      /\ own' \in [Thread -> SUBSET Runs] /\ leaked' \subseteq Runs
      /\ UNCHANGED <<env, swapdev, pend, server, panic>> /\ swapdev /\ pend = 0
  BY <1>1, <1>2, <1>4, <1>5, <1>7 DEF MayMove, Types
<1>12. QED
  BY <1>11, <1>4, <1>6, <1>9, <1>10, KernelStep

(* A request for blocks when the server knows of those used before. *)
LEMMA AllocKeeps ==
    ASSUME IInv, NEW t \in Thread, NEW n \in env.asks, Alloc(t, n), pend = 0
    PROVE  IInv'
<1> USE DEF IInv
<1>1. /\ th[t].pc = "idle" /\ swapdev /\ th[t] = Idle /\ n \in Nat \ {0}
      /\ th \in [Thread -> Requests]
  BY AskedPositive DEF Alloc, At, Types, Calls, Call
<1> DEFINE x == IF pend > 0 THEN pend ELSE n
           y == IF pend > 0 THEN n ELSE 0
           r == [Idle EXCEPT !.op = "alloc", !.n = x, !.outer = y]
           f == [th EXCEPT ![t] = r]
<1>2. /\ Ask(f, psema, t)
      /\ UNCHANGED <<env, swapdev, leaked, waitq, own, server, panic>> /\ pend' = 0
  BY DEF Alloc
<1>3. r \in Requests /\ r.op = "alloc" /\ r.n = n /\ r.off = 0 /\ r.outer = 0
  <2>1. x = n /\ y = 0
    OBVIOUS
  <2> HIDE DEF x, y
  <2>2. QED BY <1>1, <2>1 DEF Requests, Places, Idle
<1> HIDE DEF r
<1>4. f \in [Thread -> Requests] /\ f[t] = r /\ \A u \in Thread \ {t} : f[u] = th[u]
  BY <1>1, <1>3
<1> HIDE DEF f
<1>5. Sleeping'
  BY <1>1, <1>2, <1>4, AskSleeping
<1>6. /\ th' \in [Thread -> Requests] /\ \A u \in Thread \ {t} : th'[u] = th[u]
      /\ th'[t].pc \in {"lock", "io"} /\ th'[t].op = "alloc" /\ th'[t].n = n
      /\ th'[t].off = 0 /\ th'[t].outer = 0
  <2>1. /\ th' \in [Thread -> Requests] /\ \A u \in Thread \ {t} : th'[u] = f[u]
        /\ th'[t].pc = IF PSleeps(psema) THEN "lock" ELSE "io"
        /\ th'[t].op = f[t].op /\ th'[t].n = f[t].n /\ th'[t].off = f[t].off
        /\ th'[t].outer = f[t].outer
    BY <1>2, <1>4, AskShape
  <2>2. QED BY <1>3, <1>4, <2>1
<1>7. \A u \in Thread : SameFlight(u)
  BY <1>6 DEF SameFlight, InFlight, FlightChunk
<1>8. ClaimsKept
  BY <1>2, <1>7, ClaimsSame
<1>9. Call(t)' /\ ~ Wants(t)'
  BY <1>1, <1>6 DEF Call, Wants
<1>10. th[t].op = "none" /\ th[t].outer = 0
  BY <1>1 DEF Idle
<1>11. /\ \A u \in Thread \ {t} : MayMove(u)
      /\ th[t].outer = 0 /\ th'[t].outer = 0 /\ ~ (th[t].op = "free" /\ th[t].pc = "back")
      /\ own' \in [Thread -> SUBSET Runs] /\ leaked' \subseteq Runs
      /\ UNCHANGED <<env, swapdev, pend, server, panic>> /\ swapdev /\ pend = 0
  BY <1>1, <1>2, <1>6, <1>10 DEF MayMove, Types
<1>12. QED
  BY <1>11, <1>5, <1>6, <1>8, <1>9, KernelStep

LEMMA AgainKeeps ==
    ASSUME IInv, NEW t \in Thread, AllocAgain(t)
    PROVE  IInv'
<1> USE DEF IInv
<1>1. /\ th[t].pc = "again" /\ th[t] \in Requests /\ Call(t) /\ th \in [Thread -> Requests]
      /\ swapdev /\ pend = 0
  BY BusyMeansServer DEF AllocAgain, At, Types, Calls
<1>2. /\ Ask(th, psema, t)
      /\ UNCHANGED <<env, swapdev, pend, leaked, waitq, own, server, panic>>
  BY DEF AllocAgain
<1>3. Sleeping'
  BY <1>1, <1>2, AskSleeping
<1>4. /\ th' \in [Thread -> Requests] /\ \A u \in Thread \ {t} : th'[u] = th[u]
      /\ th'[t].pc = IF PSleeps(psema) THEN "lock" ELSE "io"
      /\ th'[t].op = th[t].op /\ th'[t].n = th[t].n /\ th'[t].off = th[t].off
      /\ th'[t].outer = th[t].outer
  BY <1>1, <1>2, AskShape
<1>5. th[t].op = "alloc" /\ th[t].n > 0 /\ th[t].outer = 0 /\ th'[t].pc \in {"lock", "io"}
  BY <1>1, <1>4 DEF Call, Requests
<1>6. \A u \in Thread : SameFlight(u)
  BY <1>4, <1>5 DEF SameFlight, InFlight, FlightChunk
<1>7. ClaimsKept
  BY <1>2, <1>6, ClaimsSame
<1>8. Call(t)' /\ ~ Wants(t)'
  BY <1>4, <1>5 DEF Call, Wants
<1>9. /\ \A u \in Thread \ {t} : MayMove(u)
      /\ th[t].outer = 0 /\ th'[t].outer = 0 /\ ~ (th[t].op = "free" /\ th[t].pc = "back")
      /\ own' \in [Thread -> SUBSET Runs] /\ leaked' \subseteq Runs
      /\ UNCHANGED <<env, swapdev, pend, server, panic>> /\ swapdev /\ pend = 0
  BY <1>1, <1>2, <1>4, <1>5 DEF MayMove, Types
<1>10. QED
  BY <1>9, <1>3, <1>4, <1>7, <1>8, KernelStep

(* free_swap() passes the blocks on to the server. *)
LEMMA FreeKeeps ==
    ASSUME IInv, NEW t \in Thread, NEW c \in own[t], Free(t, c), ~ env.free1st
    PROVE  IInv'
<1> USE DEF IInv
<1>1. /\ th[t].pc = "idle" /\ swapdev /\ pend = 0 /\ th[t] = Idle
      /\ th \in [Thread -> Requests] /\ own \in [Thread -> SUBSET Runs]
      /\ c.off \in Nat \ {0} /\ c.size \in Nat \ {0} /\ c = [off |-> c.off, size |-> c.size]
  <2>1. c \in Runs
    BY DEF Types
  <2>2. QED BY <2>1 DEF Free, At, Types, Calls, Call, Runs
<1> DEFINE r == [Idle EXCEPT !.op = "free", !.off = c.off, !.n = c.size]
           f == [th EXCEPT ![t] = r]
<1>2. /\ Ask(f, psema, t) /\ own' = [own EXCEPT ![t] = own[t] \ {c}]
      /\ UNCHANGED <<env, swapdev, pend, leaked, waitq, server, panic>>
  BY DEF Free
<1>3. r \in Requests /\ r.op = "free" /\ r.n = c.size /\ r.off = c.off /\ r.outer = 0
  BY <1>1 DEF Requests, Places, Idle
<1> HIDE DEF r
<1>4. f \in [Thread -> Requests] /\ f[t] = r /\ \A u \in Thread \ {t} : f[u] = th[u]
  BY <1>1, <1>3
<1> HIDE DEF f
<1>5. Sleeping'
  BY <1>1, <1>2, <1>4, AskSleeping
<1>6. /\ th' \in [Thread -> Requests] /\ \A u \in Thread \ {t} : th'[u] = th[u]
      /\ th'[t].pc \in {"lock", "io"} /\ th'[t].op = "free" /\ th'[t].n = c.size
      /\ th'[t].off = c.off /\ th'[t].outer = 0
  <2>1. /\ th' \in [Thread -> Requests] /\ \A u \in Thread \ {t} : th'[u] = f[u]
        /\ th'[t].pc = IF PSleeps(psema) THEN "lock" ELSE "io"
        /\ th'[t].op = f[t].op /\ th'[t].n = f[t].n /\ th'[t].off = f[t].off
        /\ th'[t].outer = f[t].outer
    BY <1>2, <1>4, AskShape
  <2>2. QED BY <1>3, <1>4, <2>1
<1>7. ClaimsKept
  <2> DEFINE u == <<t, "owns", c>>
             x == <<t, "flight", c>>
  <2>1. u \in Used
    BY InUsed
  <2>2. FlightChunk(t)' = c
    BY <1>1, <1>6 DEF FlightChunk, Chunk, Entry
  <2>3. \A v \in Thread \ {t} : own'[v] = own[v] /\ SameFlight(v)
    BY <1>1, <1>2, <1>6 DEF SameFlight, InFlight, FlightChunk
  <2>4. ASSUME NEW y \in Used' PROVE y \in (Used \ {u}) \cup {x}
    <3>1. \/ y \in Used /\ \A d : y # <<t, "owns", d>> /\ y # <<t, "flight", d>>
          \/ \E d \in own'[t] : y = <<t, "owns", d>>
          \/ \E d \in leaked' : y = <<"nobody", "leaked", d>>
          \/ InFlight(t)' /\ y = <<t, "flight", FlightChunk(t)'>>
      BY <2>3, <2>4, UsedAfter
    <3>2. CASE \E d \in own'[t] : y = <<t, "owns", d>>
      <4>1. PICK d \in own[t] \ {c} : y = <<t, "owns", d>>
        BY <1>1, <1>2, <3>2
      <4>2. y \in Used
        BY <4>1, InUsed
      <4>3. QED BY <4>1, <4>2
    <3>3. CASE \E d \in leaked' : y = <<"nobody", "leaked", d>>
      <4>1. PICK d \in leaked : y = <<"nobody", "leaked", d>>
        BY <1>2, <3>3
      <4>2. y \in Used
        BY <4>1, InUsed
      <4>3. QED BY <4>1, <4>2
    <3>4. QED BY <2>2, <3>1, <3>2, <3>3
  <2>5. x[3] = u[3]
    OBVIOUS
  <2> HIDE DEF u, x
  <2>6. QED BY <2>1, <2>4, <2>5, ClaimsMoved
<1>8. Call(t)' /\ ~ Wants(t)'
  BY <1>1, <1>6 DEF Call, Wants
<1>9. th[t].op = "none" /\ th[t].outer = 0 /\ own' \in [Thread -> SUBSET Runs]
  BY <1>1, <1>2 DEF Idle
<1>10. /\ \A u \in Thread \ {t} : MayMove(u)
      /\ th[t].outer = 0 /\ th'[t].outer = 0 /\ ~ (th[t].op = "free" /\ th[t].pc = "back")
      /\ own' \in [Thread -> SUBSET Runs] /\ leaked' \subseteq Runs
      /\ UNCHANGED <<env, swapdev, pend, server, panic>> /\ swapdev /\ pend = 0
  BY <1>1, <1>2, <1>6, <1>9 DEF MayMove, Types
<1>11. QED
  BY <1>10, <1>5, <1>6, <1>7, <1>8, KernelStep

(* free_swap() for a mapped file has no blocks to pass on.                  *)
LEMMA FreeFileKeeps ==
    ASSUME IInv, NEW t \in Thread, NEW n \in env.files, FreeFile(t, n), ~ env.free1st
    PROVE  IInv'
<1> USE DEF IInv
<1>1. /\ th[t].pc = "idle" /\ swapdev /\ pend = 0 /\ th[t] = Idle
      /\ th \in [Thread -> Requests] /\ n \in Nat \ {0}
  BY EnvAssumption DEF FreeFile, At, Types, Calls, Call, Env
<1> DEFINE r == [Idle EXCEPT !.op = "file", !.n = n]
           f == [th EXCEPT ![t] = r]
<1>2. /\ Ask(f, psema, t)
      /\ UNCHANGED <<env, swapdev, pend, leaked, waitq, own, server, panic>>
  BY DEF FreeFile
<1>3. r \in Requests /\ r.op = "file" /\ r.n = n /\ r.outer = 0
  BY <1>1 DEF Requests, Places, Idle
<1> HIDE DEF r
<1>4. f \in [Thread -> Requests] /\ f[t] = r /\ \A u \in Thread \ {t} : f[u] = th[u]
  BY <1>1, <1>3
<1> HIDE DEF f
<1>5. Sleeping'
  BY <1>1, <1>2, <1>4, AskSleeping
<1>6. /\ th' \in [Thread -> Requests] /\ \A u \in Thread \ {t} : th'[u] = th[u]
      /\ th'[t].pc \in {"lock", "io"} /\ th'[t].op = "file" /\ th'[t].n = n
      /\ th'[t].outer = 0
  <2>1. /\ th' \in [Thread -> Requests] /\ \A u \in Thread \ {t} : th'[u] = f[u]
        /\ th'[t].pc = IF PSleeps(psema) THEN "lock" ELSE "io"
        /\ th'[t].op = f[t].op /\ th'[t].n = f[t].n /\ th'[t].outer = f[t].outer
    BY <1>2, <1>4, AskShape
  <2>2. QED BY <1>3, <1>4, <2>1
<1>7. \A u \in Thread : SameFlight(u)
  BY <1>1, <1>6 DEF SameFlight, InFlight, FlightChunk
<1>8. ClaimsKept
  BY <1>2, <1>7, ClaimsSame
<1>9. Call(t)' /\ ~ Wants(t)'
  BY <1>1, <1>6 DEF Call, Wants
<1>10. th[t].op = "none" /\ th[t].outer = 0
  BY <1>1 DEF Idle
<1>11. /\ \A u \in Thread \ {t} : MayMove(u)
      /\ th[t].outer = 0 /\ th'[t].outer = 0 /\ ~ (th[t].op = "free" /\ th[t].pc = "back")
      /\ own' \in [Thread -> SUBSET Runs] /\ leaked' \subseteq Runs
      /\ UNCHANGED <<env, swapdev, pend, server, panic>> /\ swapdev /\ pend = 0
  BY <1>1, <1>2, <1>6, <1>10 DEF MayMove, Types
<1>12. QED
  BY <1>11, <1>5, <1>6, <1>8, <1>9, KernelStep

LEMMA InsideNotWoken ==
    ASSUME Types, Sleeping, NEW t \in Thread, th[t].pc \in Inside
    PROVE  Granted(th)[t] = th[t]
<1> DEFINE L == AtPlace({"lock"})
           I == AtPlace(Inside)
<1>1. HeldBy(psema, Thread, L, I) /\ t \in I /\ t \notin L
  BY DEF Sleeping, AtPlace, Inside
<1>2. VWakes(psema) \subseteq L
  <2> HIDE DEF L, I
  <2>1. QED BY <1>1, HeldGive
<1>3. t \notin VWakes(psema)
  BY <1>1, <1>2
<1>4. QED BY <1>3, GrantedShape

(* The thread that was given the server gives it up. *)
LEMMA GiveSleeping ==
    ASSUME Types, Sleeping, NEW t \in Thread, th[t].pc \in Inside,
           \A u \in Thread \ {t} : th'[u] = Granted(th)[u],
           \/ psema' = VSema(psema) /\ th'[t].pc \notin Inside \cup {"lock"}
           \/ /\ psema' = PSema(VSema(psema), t)
              /\ th'[t].pc = IF PSleeps(VSema(psema)) THEN "lock" ELSE "io"
    PROVE  /\ HeldBy(psema', Thread, AtPlace({"lock"})', AtPlace(Inside)')
           /\ \A u \in Thread \ {t} : MayMove(u) /\ (th'[u].pc = "wait" <=> th[u].pc = "wait")
<1>1. ASSUME NEW u \in Thread \ {t}
      PROVE  MayMove(u) /\ Passed(u) /\ (th'[u].pc = "wait" <=> th[u].pc = "wait")
  <2>1. MayMove(u) /\ Passed(u) /\ th'[u] = Granted(th)[u]
    BY GrantMoves
  <2>2. th[u] \in Requests
    BY DEF Types
  <2>3. (th'[u] = [th[u] EXCEPT !.pc = "send"] /\ th[u].pc = "lock") \/ th'[u] = th[u]
    <3>1. \/ th'[u] = [th[u] EXCEPT !.pc = "send"] /\ u \in VWakes(psema)
          \/ th'[u] = th[u]
      BY <2>1, GrantedShape
    <3>2. [th[u] EXCEPT !.pc = "send"].pc # [th[u] EXCEPT !.pc = "again"].pc
      BY <2>2 DEF Requests
    <3>3. QED BY <2>1, <3>1, <3>2 DEF MayMove
  <2>4. QED BY <2>1, <2>2, <2>3 DEF Requests
<1>2. HeldBy(psema', Thread, AtPlace({"lock"})', AtPlace(Inside)')
  BY <1>1, LocksGiven, LocksAskedAgain
<1>3. QED BY <1>1, <1>2

(* The blocks used before the server came up are accounted for. *)
LEMMA AccountedKeeps ==
    ASSUME IInv, NEW t \in Thread, AllocAccounted(t)
    PROVE  IInv'
<1> USE DEF IInv
<1>1. /\ th[t].pc = "back" /\ th[t].op = "alloc" /\ th[t].outer > 0 /\ th[t].res = 1
      /\ th[t] \in Requests /\ swapdev /\ pend = 0 /\ panic' = panic
  <2>1. /\ th[t].pc = "back" /\ th[t].op = "alloc" /\ th[t].outer > 0 /\ panic = "none"
        /\ panic' = IF th[t].res = 1 THEN "none" ELSE "alloc_swap: pend != 1"
    BY DEF AllocAccounted, At
  <2>2. th[t].res = 1 /\ th[t] \in Requests
    BY <2>1 DEF Accounting, Types
  <2>3. QED BY <2>1, <2>2, BusyMeansServer
<1> DEFINE g == Granted(th)
           r == [g[t] EXCEPT !.n = th[t].outer, !.outer = 0]
           f == [g EXCEPT ![t] = r]
<1>2. /\ Ask(f, VSema(psema), t)
      /\ UNCHANGED <<env, swapdev, pend, leaked, waitq, own, server>>
  BY DEF AllocAccounted
<1>3. g \in [Thread -> Requests] /\ g[t] = th[t]
  BY <1>1, GrantedShape, InsideNotWoken DEF Inside
<1> HIDE DEF g
<1>4. /\ r \in Requests /\ r.op = "alloc" /\ r.n = th[t].outer /\ r.off = th[t].off
      /\ r.outer = 0 /\ r.n > 0
  BY <1>1, <1>3 DEF Requests
<1> HIDE DEF r
<1>5. f \in [Thread -> Requests] /\ f[t] = r /\ \A u \in Thread \ {t} : f[u] = g[u]
  BY <1>3, <1>4
<1> HIDE DEF f
<1>6. /\ th' \in [Thread -> Requests] /\ \A u \in Thread \ {t} : th'[u] = Granted(th)[u]
      /\ psema' = PSema(VSema(psema), t)
      /\ th'[t].pc = IF PSleeps(VSema(psema)) THEN "lock" ELSE "io"
      /\ th'[t].op = "alloc" /\ th'[t].n > 0 /\ th'[t].off = th[t].off /\ th'[t].outer = 0
  <2>1. /\ th' \in [Thread -> Requests] /\ \A u \in Thread \ {t} : th'[u] = f[u]
        /\ psema' = PSema(VSema(psema), t)
        /\ th'[t].pc = IF PSleeps(VSema(psema)) THEN "lock" ELSE "io"
        /\ th'[t].op = f[t].op /\ th'[t].n = f[t].n /\ th'[t].off = f[t].off
        /\ th'[t].outer = f[t].outer
    BY <1>2, <1>5, AskShape
  <2>2. QED BY <1>4, <1>5, <2>1 DEF g
<1>7. /\ HeldBy(psema', Thread, AtPlace({"lock"})', AtPlace(Inside)')
      /\ \A u \in Thread \ {t} : MayMove(u) /\ (th'[u].pc = "wait" <=> th[u].pc = "wait")
  BY <1>1, <1>6, GiveSleeping DEF Inside
<1>8. th'[t].pc \in {"lock", "io"}
  BY <1>6
<1>9. Sleeping'
  BY <1>1, <1>2, <1>7, <1>8, SleepersSame
<1>10. \A u \in Thread : SameFlight(u)
  <2>1. SameFlight(t)
    BY <1>6, <1>8 DEF SameFlight, InFlight
  <2>2. QED BY <1>7, <2>1, MoveKeeps
<1>11. ClaimsKept
  BY <1>2, <1>10, ClaimsSame
<1>12. Call(t)' /\ ~ Wants(t)'
  BY <1>6, <1>8 DEF Call, Wants
<1>13. /\ own' \in [Thread -> SUBSET Runs] /\ leaked' \subseteq Runs
       /\ UNCHANGED <<env, swapdev, pend, server, panic>>
       /\ ~ (th[t].op = "free" /\ th[t].pc = "back")
  BY <1>1, <1>2 DEF Types
<1>14. QED
  BY <1>1, <1>6, <1>7, <1>9, <1>11, <1>12, <1>13, KernelStep

LEMMA AllocatedKeeps ==
    ASSUME IInv, NEW t \in Thread, Allocated(t)
    PROVE  IInv'
<1> USE DEF IInv
<1>1. /\ th[t].pc = "back" /\ th[t].op = "alloc" /\ th[t].outer = 0 /\ th[t].res > 0
      /\ th[t] \in Requests /\ th[t].n > 0 /\ swapdev /\ pend = 0
  <2>1. th[t].pc = "back" /\ th[t].op = "alloc" /\ th[t].outer = 0 /\ th[t].res > 0
    BY DEF Allocated, At
  <2>2. th[t].n > 0 /\ th[t] \in Requests
    BY <2>1 DEF Calls, Call, Types
  <2>3. QED BY <2>1, <2>2, BusyMeansServer
<1> DEFINE g == Granted(th)
           c == Chunk(th[t].res, th[t].n)
<1>2. /\ own' = [own EXCEPT ![t] = own[t] \cup {c}]
      /\ psema' = VSema(psema) /\ th' = [g EXCEPT ![t] = Idle]
      /\ UNCHANGED <<env, swapdev, pend, leaked, waitq, server, panic>>
  BY DEF Allocated
<1>3. g \in [Thread -> Requests] /\ Idle \in Requests
  BY GrantedShape DEF Idle, Requests, Places
<1>4. c \in Runs
  BY <1>1 DEF Chunk, Entry, Runs, Requests
<1>5. /\ th' \in [Thread -> Requests] /\ th'[t] = Idle
      /\ \A u \in Thread \ {t} : th'[u] = Granted(th)[u]
      /\ own' \in [Thread -> SUBSET Runs] /\ own'[t] = own[t] \cup {c}
      /\ \A u \in Thread \ {t} : own'[u] = own[u]
  <2>1. own \in [Thread -> SUBSET Runs]
    BY DEF Types
  <2> HIDE DEF g, c
  <2>2. th' \in [Thread -> Requests] /\ th'[t] = Idle /\ \A u \in Thread \ {t} : th'[u] = g[u]
    BY <1>2, <1>3
  <2>3. QED BY <1>2, <1>4, <2>1, <2>2 DEF g
<1>6. th'[t].pc = "idle" /\ th'[t].op = "none" /\ th'[t].outer = 0
  BY <1>5 DEF Idle
<1>7. /\ HeldBy(psema', Thread, AtPlace({"lock"})', AtPlace(Inside)')
      /\ \A u \in Thread \ {t} : MayMove(u) /\ (th'[u].pc = "wait" <=> th[u].pc = "wait")
  <2>1. th[t].pc \in Inside /\ th'[t].pc \notin Inside \cup {"lock"}
    BY <1>1, <1>6 DEF Inside
  <2>2. QED BY <1>2, <1>5, <2>1, GiveSleeping
<1>8. Sleeping'
  BY <1>1, <1>2, <1>6, <1>7, SleepersSame
<1>9. ClaimsKept
  <2> DEFINE u == <<t, "flight", c>>
             x == <<t, "owns", c>>
  <2>1. InFlight(t) /\ FlightChunk(t) = c /\ ~ InFlight(t)'
    BY <1>1, <1>6 DEF InFlight, FlightChunk
  <2>2. u \in Used
    BY <2>1, InUsed
  <2>3. \A v \in Thread \ {t} : own'[v] = own[v] /\ SameFlight(v)
    BY <1>5, <1>7, MoveKeeps
  <2> HIDE DEF c
  <2>4. ASSUME NEW y \in Used' PROVE y \in (Used \ {u}) \cup {x}
    <3>1. \/ y \in Used /\ \A d : y # <<t, "owns", d>> /\ y # <<t, "flight", d>>
          \/ \E d \in own'[t] : y = <<t, "owns", d>>
          \/ \E d \in leaked' : y = <<"nobody", "leaked", d>>
          \/ InFlight(t)' /\ y = <<t, "flight", FlightChunk(t)'>>
      BY <2>3, <2>4, UsedAfter
    <3>2. CASE \E d \in own'[t] : y = <<t, "owns", d>>
      <4>1. PICK d \in own[t] \cup {c} : y = <<t, "owns", d>>
        BY <1>5, <3>2
      <4>2. d \in own[t] => y \in Used
        BY <4>1, InUsed
      <4>3. QED BY <4>1, <4>2
    <3>3. CASE \E d \in leaked' : y = <<"nobody", "leaked", d>>
      <4>1. PICK d \in leaked : y = <<"nobody", "leaked", d>>
        BY <1>2, <3>3
      <4>2. y \in Used
        BY <4>1, InUsed
      <4>3. QED BY <4>1, <4>2
    <3>4. QED BY <2>1, <3>1, <3>2, <3>3
  <2>5. x[3] = u[3]
    OBVIOUS
  <2> HIDE DEF u, x
  <2>6. QED BY <2>2, <2>4, <2>5, ClaimsMoved
<1>10. Call(t)' /\ ~ Wants(t)'
  BY <1>5, <1>6 DEF Call, Wants, Idle
<1>11. /\ leaked' \subseteq Runs /\ UNCHANGED <<env, swapdev, pend, server, panic>>
       /\ ~ (th[t].op = "free" /\ th[t].pc = "back")
  BY <1>1, <1>2 DEF Types
<1>12. QED
  BY <1>1, <1>5, <1>6, <1>7, <1>8, <1>9, <1>10, <1>11, KernelStep

(* A thread more sleeps on swap_wait. *)
LEMMA WaitAsk ==
    ASSUME NEW s, SemaType(s, Thread), CountsSleepers(s), s.cnt <= 0, NEW t \in Thread
    PROVE  LET r == PSema(s, t)
           IN  /\ SemaType(r, Thread) /\ CountsSleepers(r) /\ r.cnt <= 0
               /\ Sleepers(r) = Sleepers(s) \cup {t}
<1>1. /\ s.cnt \in Int /\ s.q \in Seq(Thread) /\ Len(s.q) = - s.cnt
      /\ DOMAIN s.q = 1 .. Len(s.q) /\ Len(s.q) \in Nat
  BY DEF SemaType, CountsSleepers
<1> DEFINE q == Append(s.q, t)
<1>2. PSema(s, t) = [cnt |-> s.cnt - 1, q |-> q]
  BY DEF PSema, PSleeps
<1>3. /\ q \in Seq(Thread) /\ Len(q) = Len(s.q) + 1 /\ DOMAIN q = 1 .. Len(s.q) + 1
      /\ \A i \in 1 .. Len(s.q) : q[i] = s.q[i]
      /\ q[Len(s.q) + 1] = t
  BY <1>1
<1> HIDE DEF q
<1>4. {q[i] : i \in DOMAIN q} = {s.q[i] : i \in DOMAIN s.q} \cup {t}
  <2>1. ASSUME NEW i \in DOMAIN q PROVE q[i] = t \/ \E j \in DOMAIN s.q : q[i] = s.q[j]
    BY <1>1, <1>3
  <2>2. ASSUME NEW i \in DOMAIN s.q PROVE i \in DOMAIN q /\ q[i] = s.q[i]
    BY <1>1, <1>3
  <2>3. Len(s.q) + 1 \in DOMAIN q
    BY <1>1, <1>3
  <2>4. QED BY <1>3, <2>1, <2>2, <2>3
<1>5. QED
  <2> DEFINE r == PSema(s, t)
  <2>1. r = [cnt |-> s.cnt - 1, q |-> q] /\ r.cnt = s.cnt - 1 /\ r.q = q
    BY <1>2
  <2> HIDE DEF r
  <2>2. SemaType(r, Thread) /\ r.cnt <= 0
    BY <1>1, <1>3, <2>1 DEF SemaType
  <2>3. CountsSleepers(r)
    BY <1>1, <1>3, <2>1 DEF CountsSleepers
  <2>4. Sleepers(r) = Sleepers(s) \cup {t}
    BY <1>4, <2>1 DEF Sleepers
  <2>5. QED BY <2>2, <2>3, <2>4 DEF r

(* There is no room: the thread gives up the server and sleeps. *)
LEMMA RefusedKeeps ==
    ASSUME IInv, NEW t \in Thread, AllocRefused(t)
    PROVE  IInv'
<1> USE DEF IInv
<1>1. /\ th[t].pc = "back" /\ th[t].op = "alloc" /\ th[t].res = 0 /\ th[t].outer = 0
      /\ th[t] \in Requests /\ th[t].n > 0 /\ swapdev /\ pend = 0
  <2>1. th[t].pc = "back" /\ th[t].op = "alloc" /\ th[t].res = 0
    BY DEF AllocRefused, At
  <2>2. th[t].n > 0 /\ th[t] \in Requests
    BY <2>1 DEF Calls, Call, Types
  <2>3. ~ (th[t].outer > 0)
    BY <2>1 DEF Accounting
  <2>4. th[t].outer = 0
    BY <2>2, <2>3 DEF Requests
  <2>5. QED BY <2>1, <2>2, <2>4, BusyMeansServer
<1> DEFINE g == Granted(th)
           r == [g[t] EXCEPT !.pc = "wait"]
<1>2. /\ psema' = VSema(psema) /\ waitq' = PSema(waitq, t) /\ th' = [g EXCEPT ![t] = r]
      /\ UNCHANGED <<env, swapdev, pend, leaked, own, server, panic>>
  BY DEF AllocRefused
<1>3. g \in [Thread -> Requests] /\ g[t] = th[t]
  BY <1>1, GrantedShape, InsideNotWoken DEF Inside
<1> HIDE DEF g
<1>4. /\ r \in Requests /\ r.pc = "wait" /\ r.op = "alloc" /\ r.n = th[t].n
      /\ r.off = th[t].off /\ r.outer = 0
  BY <1>1, <1>3 DEF Requests, Places
<1> HIDE DEF r
<1>5. /\ th' \in [Thread -> Requests] /\ th'[t] = r
      /\ \A u \in Thread \ {t} : th'[u] = Granted(th)[u]
  <2>1. th' \in [Thread -> Requests] /\ th'[t] = r /\ \A u \in Thread \ {t} : th'[u] = g[u]
    BY <1>2, <1>3, <1>4
  <2>2. QED BY <2>1 DEF g
<1>6. /\ HeldBy(psema', Thread, AtPlace({"lock"})', AtPlace(Inside)')
      /\ \A u \in Thread \ {t} : MayMove(u) /\ (th'[u].pc = "wait" <=> th[u].pc = "wait")
  <2>1. th[t].pc \in Inside /\ th'[t].pc \notin Inside \cup {"lock"}
    BY <1>1, <1>4, <1>5 DEF Inside
  <2>2. QED BY <1>2, <1>5, <2>1, GiveSleeping
<1>7. Sleeping'
  <2>1. AtPlace({"wait"})' = AtPlace({"wait"}) \cup {t}
    BY <1>4, <1>5, <1>6 DEF AtPlace
  <2>2. /\ SemaType(waitq', Thread) /\ CountsSleepers(waitq') /\ waitq'.cnt <= 0
        /\ Sleepers(waitq') = AtPlace({"wait"}) \cup {t}
    BY <1>2, WaitAsk DEF Sleeping
  <2>3. QED BY <1>6, <2>1, <2>2 DEF Sleeping
<1>8. \A u \in Thread : SameFlight(u)
  <2>1. SameFlight(t)
    BY <1>4, <1>5 DEF SameFlight, InFlight
  <2>2. QED BY <1>6, <2>1, MoveKeeps
<1>9. ClaimsKept
  BY <1>2, <1>8, ClaimsSame
<1>10. /\ Call(t)' /\ Wants(t) /\ th'[t].n = th[t].n /\ th'[t].outer = 0
       /\ ~ (th[t].op = "free" /\ th[t].pc = "back")
  BY <1>1, <1>4, <1>5 DEF Call, Wants
<1>11. /\ own' \in [Thread -> SUBSET Runs] /\ leaked' \subseteq Runs
       /\ UNCHANGED <<env, swapdev, pend, server, panic>>
  BY <1>2 DEF Types
<1>12. QED
  BY <1>1, <1>5, <1>6, <1>7, <1>9, <1>10, <1>11, KernelStep

(* Blocks are free again: all that slept are woken. *)
LEMMA FreedKeeps ==
    ASSUME IInv, NEW t \in Thread, Freed(t)
    PROVE  IInv'
<1> USE DEF IInv
<1>1. /\ th[t].pc = "back" /\ th[t].op = "free" /\ th[t].outer = 0
      /\ th[t] \in Requests /\ swapdev /\ pend = 0
  <2>1. th[t].pc = "back" /\ th[t].op = "free"
    BY DEF Freed, At
  <2>2. th[t].outer = 0 /\ th[t] \in Requests
    BY <2>1 DEF Calls, Call, Types
  <2>3. QED BY <2>1, <2>2, BusyMeansServer
<1>2. /\ psema' = VSema(psema)
      /\ waitq' = IF Blocked(waitq) THEN NewSema(0) ELSE waitq
      /\ th' = [u \in Thread |-> IF u = t THEN Idle
                                 ELSE IF u \in Sleepers(waitq)
                                      THEN [th[u] EXCEPT !.pc = "again"]
                                      ELSE Granted(th)[u]]
      /\ UNCHANGED <<env, swapdev, pend, leaked, own, server, panic>>
  BY DEF Freed
<1>3. /\ Granted(th) \in [Thread -> Requests] /\ Idle \in Requests
      /\ \A u \in Thread : th[u] \in Requests
  BY GrantedShape DEF Idle, Requests, Places, Types
<1>4. \A u \in Thread : u \in Sleepers(waitq) <=> th[u].pc = "wait"
  BY DEF Sleeping, AtPlace
<1>5. /\ th'[t] = Idle /\ th'[t].pc = "idle" /\ th'[t].op = "none" /\ th'[t].outer = 0
  BY <1>2 DEF Idle
<1>6. ASSUME NEW u \in Thread \ {t}
      PROVE  /\ MayMove(u) /\ Passed(u) /\ th'[u] \in Requests /\ th'[u].pc # "wait"
  <2>1. CASE u \in Sleepers(waitq)
    <3>1. th'[u] = [th[u] EXCEPT !.pc = "again"] /\ th[u].pc = "wait" /\ th[u] \in Requests
      BY <1>2, <1>3, <1>4, <2>1
    <3>2. th'[u] \in Requests /\ th'[u].pc = "again"
      BY <3>1 DEF Requests, Places
    <3>3. QED BY <3>1, <3>2 DEF MayMove, Passed
  <2>2. CASE u \notin Sleepers(waitq)
    <3>1. th'[u] = Granted(th)[u] /\ th[u].pc # "wait" /\ th[u] \in Requests
      BY <1>2, <1>3, <1>4, <2>2
    <3>2. th[t].pc \in Inside
      BY <1>1 DEF Inside
    <3>3. MayMove(u) /\ Passed(u)
      BY <3>1, <3>2, GrantMoves
    <3>4. th'[u].pc # "wait"
      BY <3>1, <3>3 DEF MayMove, Requests
    <3>5. QED BY <1>3, <3>1, <3>3, <3>4
  <2>3. QED BY <2>1, <2>2
<1>7. th' \in [Thread -> Requests] /\ \A u \in Thread : th'[u].pc # "wait"
  <2>1. \A u \in Thread : th'[u] \in Requests
    BY <1>3, <1>5, <1>6
  <2>2. th' = [u \in Thread |-> th'[u]]
    BY <1>2
  <2>3. QED BY <1>5, <1>6, <2>1, <2>2
<1>8. Sleeping'
  <2>1. HeldBy(psema', Thread, AtPlace({"lock"})', AtPlace(Inside)')
    <3>1. th[t].pc \in Inside /\ th'[t].pc \notin Inside \cup {"lock"}
      BY <1>1, <1>5 DEF Inside
    <3>2. QED BY <1>2, <1>6, <3>1, LocksGiven
  <2>2. AtPlace({"wait"})' = {}
    BY <1>7 DEF AtPlace
  <2>3. waitq' = [cnt |-> 0, q |-> <<>>]
    <3>1. waitq.cnt \in Int /\ waitq.cnt <= 0 /\ waitq = [cnt |-> waitq.cnt, q |-> waitq.q]
      BY DEF Sleeping, SemaType
    <3>2. QED BY <1>2, <3>1 DEF Sleeping, Blocked, NewSema, CountsSleepers
  <2>4. /\ SemaType(waitq', Thread) /\ CountsSleepers(waitq') /\ waitq'.cnt <= 0
        /\ Sleepers(waitq') = {}
    BY <2>3 DEF SemaType, CountsSleepers, Sleepers
  <2>5. QED BY <2>1, <2>2, <2>4 DEF Sleeping
<1>9. \A u \in Thread : SameFlight(u)
  <2>1. SameFlight(t)
    BY <1>5 DEF SameFlight, InFlight
  <2>2. QED BY <1>6, <2>1, MoveKeeps
<1>10. ClaimsKept
  BY <1>2, <1>9, ClaimsSame
<1>11. Call(t)' /\ ~ Wants(t)'
  BY <1>5 DEF Call, Wants, Idle
<1>12. /\ own' \in [Thread -> SUBSET Runs] /\ leaked' \subseteq Runs
       /\ UNCHANGED <<env, swapdev, pend, server, panic>>
       /\ \A u \in Thread \ {t} : MayMove(u)
  BY <1>2, <1>6 DEF Types
<1>13. QED
  BY <1>1, <1>5, <1>7, <1>8, <1>10, <1>11, <1>12, KernelStep

-----------------------------------------------------------------------------
(* Steps before the server has accounted for the first blocks               *)

LEMMA BootIdle ==
    ASSUME IInv, ~ swapdev \/ pend > 0
    PROVE  Untouched(pend) /\ \A t \in Thread : th[t] = Idle
BY DEF IInv, Boot, Calls, Call

(* All are idle, and so they stay. *)
LEMMA BootStep ==
    ASSUME IInv, \A t \in Thread : th[t] = Idle,
           UNCHANGED <<env, psema, waitq, th, server, panic>>,
           swapdev' \in BOOLEAN, pend' \in Nat,
           own' \in [Thread -> SUBSET Runs], leaked' \subseteq Runs,
           ~ swapdev' \/ pend' > 0 => Untouched(pend)',
           pend' = 0 => pend = 0 /\ ClaimsKept
    PROVE  IInv'
<1> USE DEF IInv
<1>1. \A t \in Thread : th'[t] = Idle /\ th'[t].pc = "idle" /\ th'[t].outer = 0
  BY DEF Idle
<1>2. Types'
  BY DEF Types, server
<1>3. Calls'
  BY <1>1 DEF Calls, Call, Idle
<1>4. Sleeping'
  BY DEF Sleeping, AtPlace, HeldBy, SleptOn
<1>5. Server' /\ Top' = Top
  BY DEF Server, Top, NoDevice, server
<1>6. Boot'
  BY <1>1 DEF Boot
<1>7. Accounting'
  BY <1>1 DEF Accounting
<1>8. Settled'
  <2>1. SUFFICES ASSUME Accounted' PROVE Claimed(Used', FreeBlocks(map)', Top')
    BY DEF Settled
  <2>2. pend = 0 /\ ClaimsKept /\ map' = map /\ Top \in Int
    BY <2>1, TopIsInt DEF Accounted, server
  <2>3. Accounted
    BY <1>1, <2>2 DEF Accounted, Idle
  <2>4. Claimed(Used, FreeBlocks(map), Top)
    BY <2>3 DEF Settled
  <2>5. QED BY <1>5, <2>2, <2>4 DEF ClaimsKept
<1>9. NoneBesideRoom'
  BY <1>1 DEF NoneBesideRoom, Wants
<1>10. QED BY <1>2, <1>3, <1>4, <1>5, <1>6, <1>7, <1>8, <1>9

(* Blocks are counted while there is no server. *)
LEMMA PendingKeeps ==
    ASSUME IInv, NEW t \in Thread, NEW n \in env.asks, AllocPending(t, n)
    PROVE  IInv'
<1>1. Types /\ n \in Nat \ {0} /\ pend \in Nat
  BY AskedPositive DEF IInv, Types
<1>2. Untouched(pend) /\ \A u \in Thread : th[u] = Idle
  BY BootIdle DEF AllocPending
<1> DEFINE c == Chunk(pend + 1, n)
<1>3. /\ own' = [own EXCEPT ![t] = own[t] \cup {c}] /\ pend' = pend + n
      /\ UNCHANGED <<env, swapdev, leaked, psema, waitq, th, server, panic>>
      /\ pend + spend + n < Head(env.lens)
  BY DEF AllocPending, RoomAtBoot
<1>4. c \in Runs /\ c.off = pend + 1 /\ End(c) = pend + n + 1
  BY <1>1 DEF Chunk, Entry, Runs, End
<1> HIDE DEF c
<1>5. /\ own' \in [Thread -> SUBSET Runs] /\ own'[t] = own[t] \cup {c}
      /\ \A u \in Thread \ {t} : own'[u] = own[u]
  BY <1>1, <1>3, <1>4 DEF Types
<1> DEFINE x == <<t, "owns", c>>
<1>6. ASSUME NEW y \in Used' PROVE y \in Used \cup {x}
  <2>1. CASE \E u \in Thread : \E d \in own'[u] : y = <<u, "owns", d>>
    <3>1. PICK u \in Thread : \E d \in own'[u] : y = <<u, "owns", d>>
      BY <2>1
    <3>2. PICK d \in own'[u] : y = <<u, "owns", d>>
      BY <3>1
    <3>3. d \in own[u] \/ (u = t /\ d = c)
      BY <1>5
    <3>4. d \in own[u] => y \in Used
      BY <3>2, InUsed
    <3>5. QED BY <3>2, <3>3, <3>4
  <2>2. CASE \E d \in leaked' : y = <<"nobody", "leaked", d>>
    BY <1>3, <2>2, InUsed
  <2>3. CASE \E u \in Thread : InFlight(u)' /\ y = <<u, "flight", FlightChunk(u)'>>
    BY <1>2, <1>3, <2>3 DEF InFlight, Idle
  <2>4. QED BY <2>1, <2>2, <2>3, InUsedNext
<1>7. Claimed(Used', {}, pend + n + 1)
  <2>1. Claimed(Used, {}, pend + 1) /\ pend + 1 \in Int /\ pend + n + 1 \in Int
        /\ pend + 1 <= pend + n + 1
    BY <1>1, <1>2 DEF Untouched
  <2>2. \A u \in Used : BlocksOf(u[3]) \cap BlocksOf(c) = {}
    BY <1>4, <2>1, ClaimBelow
  <2>3. x[3] = c
    OBVIOUS
  <2>4. Used' \subseteq Used \cup {x}
    BY <1>6
  <2> HIDE DEF x
  <2>5. QED BY <1>4, <2>1, <2>2, <2>3, <2>4, ClaimNew
<1>8. Untouched(pend)'
  <2>1. spend' = 0 /\ pend' < Head(env'.lens)
    BY <1>1, <1>2, <1>3 DEF Untouched, server
  <2>2. QED BY <1>1, <1>2, <1>3, <1>7, <2>1 DEF Untouched, server, NoDevice
<1>9. /\ swapdev' \in BOOLEAN /\ pend' \in Nat /\ pend' # 0 /\ leaked' \subseteq Runs
  BY <1>1, <1>3 DEF Types
<1>10. QED BY <1>2, <1>3, <1>5, <1>8, <1>9, BootStep

(* Blocks freed while there is no server are nobody's. *)
LEMMA LeaksKeeps ==
    ASSUME IInv, NEW t \in Thread, NEW c \in own[t], FreeLeaks(t, c)
    PROVE  IInv'
<1>1. Types /\ pend \in Nat /\ c \in Runs
  BY DEF IInv, Types
<1>2. Untouched(pend) /\ \A u \in Thread : th[u] = Idle
  BY BootIdle DEF FreeLeaks
<1>3. /\ own' = [own EXCEPT ![t] = own[t] \ {c}] /\ leaked' = leaked \cup {c}
      /\ UNCHANGED <<env, swapdev, pend, psema, waitq, th, server, panic>>
  BY DEF FreeLeaks
<1>4. /\ own' \in [Thread -> SUBSET Runs] /\ own'[t] = own[t] \ {c}
      /\ \A u \in Thread \ {t} : own'[u] = own[u]
      /\ leaked' \subseteq Runs
  BY <1>1, <1>3 DEF Types
<1>5. ClaimsKept
  <2> DEFINE u == <<t, "owns", c>>
             x == <<"nobody", "leaked", c>>
  <2>1. u \in Used
    BY InUsed
  <2>2. ASSUME NEW y \in Used' PROVE y \in (Used \ {u}) \cup {x}
    <3>1. CASE \E v \in Thread : \E d \in own'[v] : y = <<v, "owns", d>>
      <4>1. PICK v \in Thread : \E d \in own'[v] : y = <<v, "owns", d>>
        BY <3>1
      <4>2. PICK d \in own'[v] : y = <<v, "owns", d>>
        BY <4>1
      <4>3. d \in own[v] /\ ~ (v = t /\ d = c)
        BY <1>4
      <4>4. y \in Used
        BY <4>2, <4>3, InUsed
      <4>5. QED BY <4>2, <4>3, <4>4
    <3>2. CASE \E d \in leaked' : y = <<"nobody", "leaked", d>>
      <4>1. PICK d \in leaked \cup {c} : y = <<"nobody", "leaked", d>>
        BY <1>3, <3>2
      <4>2. d \in leaked => y \in Used
        BY <4>1, InUsed
      <4>3. y # u
        BY <4>1
      <4>4. QED BY <4>1, <4>2, <4>3
    <3>3. CASE \E v \in Thread : InFlight(v)' /\ y = <<v, "flight", FlightChunk(v)'>>
      BY <1>2, <1>3, <3>3 DEF InFlight, Idle
    <3>4. QED BY <3>1, <3>2, <3>3, InUsedNext
  <2>3. x[3] = u[3]
    OBVIOUS
  <2> HIDE DEF u, x
  <2>4. QED BY <2>1, <2>2, <2>3, ClaimsMoved
<1>6. Untouched(pend)'
  <2>1. PICK m \in Nat : m = pend
    BY <1>1
  <2>2. Untouched(m)'
    BY <1>2, <1>3, <1>5, <2>1, UntouchedKept
  <2>3. m = pend'
    BY <1>3, <2>1
  <2>4. QED BY <2>2, <2>3 DEF Untouched
<1>7. swapdev' \in BOOLEAN /\ pend' \in Nat
  BY <1>1, <1>3 DEF Types
<1>8. QED BY <1>2, <1>3, <1>4, <1>5, <1>6, <1>7, BootStep

(* The server comes up. *)
LEMMA SetKeeps ==
    ASSUME IInv, SetSwapdev
    PROVE  IInv'
<1>1. /\ Types /\ pend \in Nat
      /\ UNCHANGED <<env, pend, leaked, psema, waitq, th, own, server, panic>>
      /\ swapdev' = TRUE
  BY DEF IInv, Types, SetSwapdev
<1>2. Untouched(pend) /\ \A u \in Thread : th[u] = Idle
  BY BootIdle DEF SetSwapdev
<1>3. ClaimsKept
  <2>1. \A u \in Thread : SameFlight(u)
    BY <1>1 DEF SameFlight, InFlight, FlightChunk
  <2>2. QED BY <1>1, <2>1, ClaimsSame
<1>4. Untouched(pend)'
  <2>1. PICK m \in Nat : m = pend
    BY <1>1
  <2>2. Untouched(m)'
    BY <1>1, <1>2, <1>3, <2>1, UntouchedKept
  <2>3. m = pend'
    BY <1>1, <2>1
  <2>4. QED BY <2>2, <2>3 DEF Untouched
<1>5. own' \in [Thread -> SUBSET Runs] /\ leaked' \subseteq Runs /\ pend' \in Nat
      /\ swapdev' \in BOOLEAN
  BY <1>1 DEF Types
<1>6. QED BY <1>1, <1>2, <1>3, <1>4, <1>5, BootStep

(* The first request to the server: for the blocks used so far. *)
LEMMA FirstKeeps ==
    ASSUME IInv, NEW t \in Thread, NEW n \in env.asks, Alloc(t, n), pend > 0
    PROVE  IInv'
<1>1. Types /\ n \in Nat \ {0} /\ pend \in Nat /\ swapdev /\ th \in [Thread -> Requests]
  BY AskedPositive DEF IInv, Types, Alloc
<1>2. Untouched(pend) /\ \A u \in Thread : th[u] = Idle
  BY BootIdle
<1> DEFINE x == IF pend > 0 THEN pend ELSE n
           y == IF pend > 0 THEN n ELSE 0
           r == [Idle EXCEPT !.op = "alloc", !.n = x, !.outer = y]
           f == [th EXCEPT ![t] = r]
<1>3. /\ Ask(f, psema, t)
      /\ UNCHANGED <<env, swapdev, leaked, waitq, own, server, panic>> /\ pend' = 0
  BY DEF Alloc
<1>4. r \in Requests /\ r.op = "alloc" /\ r.n = pend /\ r.outer = n
  <2>1. x = pend /\ y = n
    OBVIOUS
  <2> HIDE DEF x, y
  <2>2. QED BY <1>1, <2>1 DEF Requests, Places, Idle
<1> HIDE DEF r
<1>5. f \in [Thread -> Requests] /\ f[t] = r /\ \A u \in Thread \ {t} : f[u] = th[u]
  BY <1>1, <1>4
<1> HIDE DEF f
<1>6. ~ PSleeps(psema)
  <2>1. AtPlace(Inside) = {}
    BY <1>2 DEF AtPlace, Inside, Idle
  <2>2. psema.cnt > 0 /\ psema.cnt \in Int
    BY <2>1 DEF IInv, Sleeping, HeldBy, SleptOn, SemaType
  <2>3. QED BY <2>2 DEF PSleeps
<1>7. /\ th' \in [Thread -> Requests] /\ \A u \in Thread \ {t} : th'[u] = Idle
      /\ th'[t].pc = "io" /\ th'[t].op = "alloc" /\ th'[t].n = pend /\ th'[t].outer = n
  <2>1. /\ th' \in [Thread -> Requests] /\ \A u \in Thread \ {t} : th'[u] = f[u]
        /\ th'[t].pc = IF PSleeps(psema) THEN "lock" ELSE "io"
        /\ th'[t].op = f[t].op /\ th'[t].n = f[t].n /\ th'[t].outer = f[t].outer
    BY <1>3, <1>5, AskShape
  <2>2. QED BY <1>2, <1>4, <1>5, <1>6, <2>1
<1>8. Sleeping'
  <2>1. th[t].pc \in {"idle", "again"}
    BY <1>2 DEF Idle
  <2>2. QED BY <1>3, <1>5, <2>1, AskSleeping DEF IInv
<1>9. Untouched(pend) /\ ClaimsKept
  <2>1. \A u \in Thread : SameFlight(u)
    BY <1>7 DEF SameFlight, InFlight, Idle
  <2>2. QED BY <1>2, <1>3, <2>1, ClaimsSame
<1>10. Accounting'
  <2>1. PICK m \in Nat : m = pend
    BY <1>1
  <2>2. Untouched(m)'
    BY <1>3, <1>9, <2>1, UntouchedKept
  <2>3. Untouched(th[t].n)'
    BY <1>7, <2>1, <2>2 DEF Untouched
  <2>4. QED BY <1>7, <2>3 DEF Accounting, Idle
<1>11. Types' /\ Server'
  BY <1>1, <1>3, <1>7 DEF IInv, Types, Server, Top, NoDevice, server
<1>12. Calls'
  BY <1>1, <1>3, <1>7 DEF Calls, Call, Idle
<1>13. Boot'
  BY <1>1, <1>3 DEF Boot
<1>14. Settled'
  <2>1. ~ Accounted'
    BY <1>1, <1>7 DEF Accounted
  <2>2. QED BY <2>1 DEF Settled
<1>15. NoneBesideRoom'
  BY <1>7 DEF NoneBesideRoom, Wants, Idle
<1>16. QED BY <1>8, <1>10, <1>11, <1>12, <1>13, <1>14, <1>15 DEF IInv

-----------------------------------------------------------------------------
(* Steps of the server                                                      *)

LEMMA AnswerShape ==
    ASSUME th \in [Thread -> Requests], NEW t \in Thread, NEW res \in Nat, Answer(t, res)
    PROVE  /\ th' \in [Thread -> Requests] /\ \A u \in Thread \ {t} : th'[u] = th[u]
           /\ th'[t].pc = "back" /\ th'[t].res = res
           /\ th'[t].op = th[t].op /\ th'[t].n = th[t].n /\ th'[t].off = th[t].off
           /\ th'[t].outer = th[t].outer
<1> DEFINE r == [th[t] EXCEPT !.pc = "back", !.res = res]
<1>1. th' = [th EXCEPT ![t] = r]
  BY DEF Answer
<1>2. /\ r \in Requests /\ r.pc = "back" /\ r.res = res /\ r.op = th[t].op /\ r.n = th[t].n
      /\ r.off = th[t].off /\ r.outer = th[t].outer
  BY DEF Requests, Places, Inside
<1> HIDE DEF r
<1>3. QED BY <1>1, <1>2

(* Only one thread talks to the server, and only it can be accounting.      *)
LEMMA OthersAccounted ==
    ASSUME IInv, NEW t \in Thread, th[t].pc = "io"
    PROVE  /\ swapdev /\ pend = 0
           /\ \A u \in Thread \ {t} : th[u].pc \notin Inside /\ ~ (th[u].outer > 0)
           /\ th[t].outer = 0 => Accounted
           /\ th[t] \in Requests /\ th[t].op # "none" /\ th[t].n \in Nat \ {0}
           /\ th[t].op = "free" => th[t].off \in Nat \ {0} /\ th[t].outer = 0
<1> USE DEF IInv
<1>1. swapdev /\ pend = 0
  BY BusyMeansServer
<1>2. ASSUME NEW u \in Thread \ {t} PROVE th[u].pc \notin Inside /\ ~ (th[u].outer > 0)
  <2>1. th[u].pc \notin Inside
    BY OneInside DEF Inside
  <2>2. QED BY <2>1 DEF Calls, Call, Inside
<1>3. th[t].outer = 0 => Accounted
  BY <1>1, <1>2 DEF Accounted
<1>4. th[t] \in Requests /\ Call(t)
  BY DEF Types, Calls
<1>5. QED BY <1>1, <1>2, <1>3, <1>4 DEF Call, Requests

(* An answer of the server: what is left to look at is the server's state.  *)
LEMMA ServerStep ==
    ASSUME IInv, NEW t \in Thread, th[t].pc = "io", NEW res \in Nat, Answer(t, res),
           UNCHANGED <<env, swapdev, pend, leaked, psema, waitq, own, devs, panic>>,
           spend' \in Nat, lost' \in Nat,
           map' \in Seq(Runs), Ascending(map'), Len(map') <= env.slots,
           Server', Settled', NoneBesideRoom', th[t].outer > 0 => res = 1,
           th[t].op # "file"
    PROVE  IInv'
<1> USE DEF IInv
<1>1. /\ th' \in [Thread -> Requests] /\ \A u \in Thread \ {t} : th'[u] = th[u]
      /\ th'[t].pc = "back" /\ th'[t].res = res
      /\ th'[t].op = th[t].op /\ th'[t].n = th[t].n /\ th'[t].off = th[t].off
      /\ th'[t].outer = th[t].outer
  BY AnswerShape DEF Types
<1>2. /\ swapdev /\ pend = 0
      /\ \A u \in Thread \ {t} : th[u].pc \notin Inside /\ ~ (th[u].outer > 0)
  BY OthersAccounted
<1>3. Types'
  BY <1>1 DEF Types
<1>4. Calls'
  <2>1. Call(t)'
    BY <1>1, <1>2 DEF Calls, Call
  <2>2. ASSUME NEW u \in Thread \ {t} PROVE Call(u)'
    BY <1>1 DEF Calls, Call, Idle
  <2>3. QED BY <2>1, <2>2 DEF Calls
<1>5. Sleeping'
  <2>1. HeldBy(psema', Thread, AtPlace({"lock"})', AtPlace(Inside)')
    BY <1>1, LocksSame DEF Inside
  <2>2. QED BY <1>1, <2>1, SleepersSame
<1>6. Boot'
  BY <1>2 DEF Boot
<1>7. Accounting'
  BY <1>1, <1>2 DEF Accounting
<1>8. QED BY <1>3, <1>4, <1>5, <1>6, <1>7

(* What the answer to t makes of the blocks in use. *)
LEMMA UsedAnswered ==
    ASSUME Types, NEW t \in Thread, th[t].pc = "io", NEW res \in Nat, Answer(t, res),
           own' = own, leaked' = leaked
    PROVE  /\ Used' \subseteq Used \cup {<<t, "flight", Chunk(res, th[t].n)>>}
           /\ th[t].op = "free" \/ th[t].outer > 0 \/ res = 0 =>
                 Used' \subseteq Used \ {<<t, "flight", FlightChunk(t)>>}
<1>1. /\ \A u \in Thread \ {t} : th'[u] = th[u]
      /\ th'[t].pc = "back" /\ th'[t].res = res
      /\ th'[t].op = th[t].op /\ th'[t].n = th[t].n /\ th'[t].outer = th[t].outer
  BY AnswerShape DEF Types
<1>2. \A u \in Thread \ {t} : own'[u] = own[u] /\ SameFlight(u)
  BY <1>1 DEF SameFlight, InFlight, FlightChunk
<1>3. InFlight(t)' => /\ FlightChunk(t)' = Chunk(res, th[t].n)
                      /\ ~ (th[t].op = "free" \/ th[t].outer > 0 \/ res = 0)
  BY <1>1 DEF InFlight, FlightChunk
<1>4. ASSUME NEW x \in Used'
      PROVE  \/ x \in Used /\ x # <<t, "flight", FlightChunk(t)>>
             \/ InFlight(t)' /\ x = <<t, "flight", FlightChunk(t)'>>
  <2>1. \/ x \in Used /\ \A c : x # <<t, "owns", c>> /\ x # <<t, "flight", c>>
        \/ \E c \in own'[t] : x = <<t, "owns", c>>
        \/ \E c \in leaked' : x = <<"nobody", "leaked", c>>
        \/ InFlight(t)' /\ x = <<t, "flight", FlightChunk(t)'>>
    BY <1>2, <1>4, UsedAfter
  <2>2. CASE \E c \in own'[t] : x = <<t, "owns", c>>
    <3>1. PICK c \in own[t] : x = <<t, "owns", c>>
      BY <2>2
    <3>2. x \in Used
      BY <3>1, InUsed
    <3>3. x # <<t, "flight", FlightChunk(t)>>
      BY <3>1
    <3>4. QED BY <3>2, <3>3
  <2>3. CASE \E c \in leaked' : x = <<"nobody", "leaked", c>>
    <3>1. PICK c \in leaked : x = <<"nobody", "leaked", c>>
      BY <2>3
    <3>2. x \in Used
      BY <3>1, InUsed
    <3>3. x # <<t, "flight", FlightChunk(t)>>
      BY <3>1
    <3>4. QED BY <3>2, <3>3
  <2>4. QED BY <2>1, <2>2, <2>3
<1>5. QED BY <1>3, <1>4

(* Who waits beside room waited there before, if none came and none was     *)
(* freed.                                                                   *)
LEMMA RoomLess ==
    ASSUME IInv, NEW t \in Thread, th[t].pc = "io", NEW res \in Nat, Answer(t, res),
           FreeBlocks(map') \subseteq FreeBlocks(map),
           th[t].op = "alloc" /\ res = 0 => ~ Room(th[t].n)
    PROVE  NoneBesideRoom'
<1>1. /\ \A u \in Thread \ {t} : th'[u] = th[u]
      /\ th'[t].pc = "back" /\ th'[t].res = res
      /\ th'[t].op = th[t].op /\ th'[t].n = th[t].n
  BY AnswerShape DEF IInv, Types
<1>2. SUFFICES ASSUME NEW u \in Thread, Wants(u)', Room(th[u].n)'
               PROVE  \E v \in Thread : th'[v].op = "free" /\ th'[v].pc = "back"
  BY DEF NoneBesideRoom
<1>3. Room(th[u].n)
  <2>1. th'[u].n = th[u].n
    BY <1>1
  <2>2. QED BY <1>2, <2>1 DEF Room
<1>4. u # t /\ Wants(u)
  <2>1. u # t
    BY <1>1, <1>2, <1>3 DEF Wants
  <2>2. QED BY <1>1, <1>2, <2>1 DEF Wants
<1>5. PICK v \in Thread : th[v].op = "free" /\ th[v].pc = "back"
  BY <1>3, <1>4 DEF IInv, NoneBesideRoom
<1>6. v # t
  BY <1>5
<1>7. QED BY <1>1, <1>5, <1>6

LEMMA ServePendingKeeps ==
    ASSUME IInv, NEW t \in Thread, ServeAllocPending(t)
    PROVE  IInv'
<1> DEFINE n == th[t].n
<1>1. /\ th[t].pc = "io" /\ th[t].op = "alloc" /\ NoDevice /\ Answer(t, spend + 1)
      /\ spend' = spend + n
      /\ UNCHANGED <<env, swapdev, pend, leaked, psema, waitq, own, devs, map, lost, panic>>
  BY DEF ServeAllocPending, At
<1>2. Types /\ spend \in Nat /\ n \in Nat \ {0} /\ (th[t].outer = 0 => Accounted)
      /\ th[t].outer \in Nat
  BY <1>1, OthersAccounted DEF IInv, Types, Requests
<1>3. Top = spend + 1 /\ Top' = spend + n + 1 /\ spend + 1 \in Nat
  BY <1>1, <1>2 DEF Top, NoDevice
<1>4. Server'
  <2>1. ASSUME NEW b \in FreeBlocks(map) PROVE b < Top'
    <3>1. b < Top
      BY DEF IInv, Server
    <3>2. b \in Int
      BY <1>2, InFree, InBlocks DEF Types
    <3>3. QED BY <1>2, <1>3, <3>1, <3>2
  <2>2. QED BY <1>1, <2>1 DEF Server, NoDevice
<1>5. th[t].outer > 0 => Untouched(n)
  BY <1>1 DEF IInv, Accounting
<1> HIDE DEF n
<1>6. Settled'
  <2>1. CASE th[t].outer > 0
    <3>1. Claimed(Used, {}, n + 1) /\ FreeBlocks(map) = {} /\ spend = 0
      BY <1>1, <1>5, <2>1 DEF Untouched, FreeBlocks
    <3>2. Used' \subseteq Used
      BY <1>1, <1>2, <1>3, <2>1, UsedAnswered
    <3>3. n + 1 = Top' /\ n + 1 \in Int /\ n + 1 <= n + 1
      BY <1>2, <1>3, <3>1
    <3>4. Claimed(Used', {}, n + 1)
      BY <3>1, <3>2, <3>3, ClaimLess
    <3>5. QED BY <1>1, <3>1, <3>3, <3>4 DEF Settled
  <2>2. CASE th[t].outer = 0
    <3> DEFINE c == Chunk(spend + 1, n)
               x == <<t, "flight", c>>
    <3>1. Claimed(Used, FreeBlocks(map), Top)
      BY <1>2, <2>2 DEF IInv, Settled
    <3>2. c \in Runs /\ c.off = Top /\ End(c) = Top'
      BY <1>2, <1>3 DEF Chunk, Entry, Runs, End
    <3>3. Used' \subseteq Used \cup {x}
      BY <1>1, <1>2, <1>3, UsedAnswered DEF n
    <3> HIDE DEF c
    <3>4. Top \in Int /\ Top' \in Int /\ Top <= Top' /\ c.off \in Int
      BY <1>2, <1>3, <3>2
    <3>5. \A u \in Used : BlocksOf(u[3]) \cap BlocksOf(c) = {}
      <4>1. Top <= c.off
        BY <3>2, <3>4
      <4>2. QED BY <3>1, <3>2, <3>4, <4>1, ClaimBelow
    <3>6. BlocksOf(c) \cap FreeBlocks(map) = {}
      <4>1. ASSUME NEW b \in BlocksOf(c), b \in FreeBlocks(map) PROVE FALSE
        <5>1. b < Top
          BY <4>1 DEF IInv, Server
        <5>2. b \in Int /\ Top <= b
          BY <3>2, InBlocks
        <5>3. QED BY <3>4, <5>1, <5>2
      <4>2. QED BY <4>1
    <3>7. x[3] = c
      OBVIOUS
    <3> HIDE DEF x
    <3>8. End(x[3]) <= Top'
      BY <3>2, <3>4, <3>7
    <3>9. Claimed(Used', FreeBlocks(map), Top')
      BY <3>1, <3>2, <3>3, <3>4, <3>5, <3>6, <3>7, <3>8, ClaimNew
    <3>10. QED BY <1>1, <3>9 DEF Settled
  <2>3. QED BY <1>2, <2>1, <2>2
<1>7. NoneBesideRoom'
  <2>1. FreeBlocks(map') \subseteq FreeBlocks(map) /\ spend + 1 # 0
    BY <1>1, <1>2
  <2>2. QED BY <1>1, <1>3, <2>1, RoomLess
<1>8. th[t].outer > 0 => spend + 1 = 1
  BY <1>5 DEF Untouched
<1>9. /\ spend' \in Nat /\ lost' \in Nat
      /\ map' \in Seq(Runs) /\ Ascending(map') /\ Len(map') <= env.slots
  BY <1>1, <1>2 DEF Types
<1>10. QED BY <1>1, <1>3, <1>4, <1>6, <1>7, <1>8, <1>9, ServerStep

(* The first n blocks hold all that is in use: what is beyond is clear.     *)
LEMMA ClaimFirst ==
    ASSUME NEW U, NEW n \in Nat, Claimed(U, {}, n + 1),
           NEW F, F \cap (1 .. n) = {}, NEW top \in Int, n + 1 <= top
    PROVE  Claimed(U, F, top)
<1>1. ASSUME NEW u \in U
      PROVE  u[3] \in Runs /\ End(u[3]) <= top /\ BlocksOf(u[3]) \cap F = {}
  <2>1. u[3] \in Runs /\ End(u[3]) <= n + 1 /\ u[3].off \in Nat \ {0} /\ End(u[3]) \in Int
    BY DEF Claimed, Runs, End
  <2>2. ASSUME NEW b \in BlocksOf(u[3]) PROVE b \in 1 .. n
    BY <2>1, InBlocks
  <2>3. QED BY <2>1, <2>2
<1>2. QED BY <1>1 DEF Claimed

(* An allocation from a device. *)
LEMMA ServeAllocKeeps ==
    ASSUME IInv, NEW t \in Thread, ServeAlloc(t)
    PROVE  IInv'
<1> DEFINE n == th[t].n
           res == RmapIndex(map, n)
           e == Entry(res, n)
<1>1. /\ th[t].pc = "io" /\ th[t].op = "alloc" /\ ~ NoDevice /\ Answer(t, res)
      /\ map' = IF res = 0 THEN map ELSE RmapTake(map, n)
      /\ UNCHANGED <<env, swapdev, pend, leaked, psema, waitq, own, devs, spend, lost, panic>>
  BY DEF ServeAlloc, At
<1>2. /\ Types /\ n \in Nat \ {0} /\ (th[t].outer = 0 => Accounted) /\ th[t].outer \in Nat
      /\ map \in Seq(Runs) /\ Ascending(map) /\ Len(map) \in Nat /\ Len(map) <= env.slots
  <2>1. Types
    BY DEF IInv
  <2>2. /\ th[t] \in Requests /\ n \in Nat \ {0} /\ (th[t].outer = 0 => Accounted)
    BY <1>1, OthersAccounted
  <2>3. th[t].outer \in Nat
    BY <2>2 DEF Requests
  <2>4. map \in Seq(Runs) /\ Ascending(map) /\ Len(map) <= env.slots
    BY <2>1 DEF Types
  <2>5. Len(map) \in Nat
    BY <2>4
  <2>6. QED BY <2>1, <2>2, <2>3, <2>4, <2>5
<1>3. env.slots \in Nat
  BY <1>2, EnvAssumption DEF Types, Env
<1>4. Top' = Top /\ Top \in Int
  BY <1>1, <1>2, TopIsInt DEF Top, NoDevice
<1>5. CASE Fitting(map, n) = {}
  <2>1. res = 0 /\ map' = map
    BY <1>1, <1>5 DEF RmapIndex
  <2>2. th[t].outer = 0
    <3>1. SUFFICES ASSUME th[t].outer > 0 PROVE FALSE
      BY <1>2
    <3>2. Untouched(n)
      BY <1>1, <3>1 DEF IInv, Accounting
    <3>3. 1 .. n \subseteq FreeBlocks(map)
      <4>1. 1 .. Head(env.lens) \subseteq FreeBlocks(map) /\ n < Head(env.lens)
        BY <1>1, <1>2, <3>2 DEF Untouched
      <4>2. Head(env.lens) \in Int
        <5>1. env.lens \in Seq(Nat) /\ Len(devs) <= Len(env.lens) /\ devs # <<>>
              /\ devs \in Seq([block : Nat, len : Nat])
          BY <1>1, <1>2, EnvAssumption DEF Types, Env, NoDevice
        <5>2. env.lens # <<>>
          BY <5>1
        <5>3. QED BY <5>1, <5>2
      <4> HIDE DEF n
      <4>3. QED BY <1>2, <4>1, <4>2
    <3> HIDE DEF n
    <3>4. QED BY <1>2, <1>5, <3>3, FirstFit
  <2>3. ~ Room(n)
    <3> HIDE DEF n
    <3>1. ~ \E b \in FreeBlocks(map) : b .. b + n - 1 \subseteq FreeBlocks(map)
      BY <1>2, <2>1, RefusedMeansNoRun DEF res
    <3>2. QED BY <3>1 DEF Room
  <2>4. Server'
    BY <1>1, <1>4, <2>1 DEF IInv, Server, NoDevice
  <2>5. Settled'
    <3>1. Claimed(Used, FreeBlocks(map), Top)
      BY <1>2, <2>2 DEF IInv, Settled
    <3>2. Used' \subseteq Used
      BY <1>1, <1>2, <2>1, UsedAnswered
    <3>3. Claimed(Used', FreeBlocks(map), Top)
      BY <1>4, <3>1, <3>2, ClaimLess
    <3>4. QED BY <1>4, <2>1, <3>3 DEF Settled
  <2>6. NoneBesideRoom'
    BY <1>1, <2>1, <2>3, RoomLess
  <2>7. /\ spend' \in Nat /\ lost' \in Nat
        /\ map' \in Seq(Runs) /\ Ascending(map') /\ Len(map') <= env.slots
    BY <1>1, <1>2, <2>1 DEF Types
  <2>8. QED BY <1>1, <2>1, <2>2, <2>4, <2>5, <2>6, <2>7, ServerStep
<1>6. CASE Fitting(map, n) # {}
  <2> HIDE DEF n
  <2>1. /\ e \in Runs /\ BlocksOf(e) \subseteq FreeBlocks(map)
        /\ RmapTake(map, n) \in Seq(Runs) /\ Ascending(RmapTake(map, n))
        /\ Len(RmapTake(map, n)) <= Len(map)
        /\ FreeBlocks(RmapTake(map, n)) = FreeBlocks(map) \ BlocksOf(e)
    BY <1>2, <1>6, TakeRemovesBlocks
  <2> HIDE DEF res
  <2>2. e.off = res /\ e.size = n /\ res \in Nat \ {0} /\ End(e) = res + n
    BY <2>1 DEF Entry, Runs, End
  <2> HIDE DEF e
  <2>3. /\ map' = RmapTake(map, n) /\ FreeBlocks(map') = FreeBlocks(map) \ BlocksOf(e)
    BY <1>1, <2>1, <2>2
  <2>4. Server'
    BY <1>1, <1>4, <2>3 DEF IInv, Server, NoDevice
  <2>5. th[t].outer > 0 => Untouched(n)
    BY <1>1 DEF IInv, Accounting, n
  <2>6. th[t].outer > 0 => res = 1 /\ 1 .. n \subseteq FreeBlocks(map)
    <3>1. SUFFICES ASSUME th[t].outer > 0
                   PROVE  res = 1 /\ 1 .. n \subseteq FreeBlocks(map)
      OBVIOUS
    <3>2. 1 .. Head(env.lens) \subseteq FreeBlocks(map) /\ n < Head(env.lens)
      BY <1>1, <1>2, <2>5, <3>1 DEF Untouched
    <3>3. Head(env.lens) \in Int
      <4>1. env.lens \in Seq(Nat) /\ Len(devs) <= Len(env.lens) /\ devs # <<>>
            /\ devs \in Seq([block : Nat, len : Nat])
        BY <1>1, <1>2, EnvAssumption DEF Types, Env, NoDevice
      <4>2. env.lens # <<>>
        BY <4>1
      <4>3. QED BY <4>1, <4>2
    <3>4. 1 .. n \subseteq FreeBlocks(map)
      BY <1>2, <3>2, <3>3
    <3>5. QED BY <1>2, <3>4, FirstFit DEF res
  <2>7. End(e) <= Top
    <3>1. End(e) - 1 \in BlocksOf(e) /\ End(e) \in Int
      BY <1>2, <2>1, <2>2, InBlocks
    <3>2. End(e) - 1 < Top
      BY <2>1, <3>1 DEF IInv, Server
    <3>3. QED BY <1>4, <3>1, <3>2
  <2>8. Settled'
    <3>1. CASE th[t].outer > 0
      <4>1. res = 1 /\ End(e) = n + 1
        BY <1>2, <2>2, <2>6, <3>1
      <4>2. FreeBlocks(map') \cap (1 .. n) = {}
        <5>1. ASSUME NEW b \in 1 .. n PROVE b \in BlocksOf(e)
          BY <1>2, <2>1, <2>2, <4>1, InBlocks
        <5>2. QED BY <2>3, <5>1
      <4>3. Used' \subseteq Used /\ Claimed(Used, {}, n + 1)
        BY <1>1, <1>2, <2>2, <2>5, <3>1, UsedAnswered DEF Untouched
      <4>4. n + 1 \in Int /\ n + 1 <= n + 1 /\ n \in Nat /\ n + 1 <= Top
        BY <1>2, <2>7, <4>1
      <4>5. Claimed(Used', {}, n + 1)
        BY <4>3, <4>4, ClaimLess
      <4>6. Claimed(Used', FreeBlocks(map'), Top)
        BY <1>4, <4>2, <4>4, <4>5, ClaimFirst
      <4>7. QED BY <1>4, <4>6 DEF Settled
    <3>2. CASE th[t].outer = 0
      <4> DEFINE x == <<t, "flight", e>>
      <4>1. Claimed(Used, FreeBlocks(map), Top)
        BY <1>2, <3>2 DEF IInv, Settled
      <4>2. Used' \subseteq Used \cup {x}
        BY <1>1, <1>2, <2>2, UsedAnswered DEF n, e, Chunk
      <4>3. \A u \in Used : BlocksOf(u[3]) \cap BlocksOf(e) = {}
        BY <2>1, <4>1 DEF Claimed
      <4>4. x[3] = e
        OBVIOUS
      <4> HIDE DEF x
      <4>5. BlocksOf(x[3]) \cap FreeBlocks(map') = {} /\ FreeBlocks(map') \subseteq FreeBlocks(map)
        BY <2>3, <4>4
      <4>6. x[3] \in Runs /\ End(x[3]) <= Top /\ Top <= Top
        BY <1>4, <2>1, <2>7, <4>4
      <4>7. \A u \in Used : BlocksOf(u[3]) \cap BlocksOf(x[3]) = {}
        BY <4>3, <4>4
      <4>8. Claimed(Used', FreeBlocks(map'), Top)
        BY <1>4, <4>1, <4>2, <4>5, <4>6, <4>7, ClaimNew
      <4>9. QED BY <1>4, <4>8 DEF Settled
    <3>3. QED BY <1>2, <3>1, <3>2
  <2>9. NoneBesideRoom'
    BY <1>1, <2>2, <2>3, RoomLess
  <2>10. /\ spend' \in Nat /\ lost' \in Nat
         /\ map' \in Seq(Runs) /\ Ascending(map') /\ Len(map') <= env.slots
    BY <1>1, <1>2, <1>3, <2>1, <2>3 DEF Types
  <2>11. res \in Nat /\ (th[t].outer > 0 => res = 1)
    BY <2>2, <2>6
  <2>12. QED BY <1>1, <2>4, <2>8, <2>9, <2>10, <2>11, ServerStep
<1>7. QED BY <1>5, <1>6

(* Blocks that no longer are in use may be free. *)
LEMMA ClaimFreed ==
    ASSUME NEW U, NEW F, NEW top \in Int, Claimed(U, F, top), NEW u \in U,
           NEW V, V \subseteq U \ {u}, NEW G, G \subseteq F \cup BlocksOf(u[3])
    PROVE  Claimed(V, G, top)
<1>1. ASSUME NEW v \in V
      PROVE  v[3] \in Runs /\ End(v[3]) <= top /\ BlocksOf(v[3]) \cap G = {}
  <2>1. v \in U /\ v # u
    OBVIOUS
  <2>2. /\ v[3] \in Runs /\ End(v[3]) <= top /\ BlocksOf(v[3]) \cap F = {}
        /\ BlocksOf(v[3]) \cap BlocksOf(u[3]) = {}
    BY <2>1 DEF Claimed
  <2>3. QED BY <2>2
<1>2. QED BY <1>1 DEF Claimed

(* rmap_free() as this server calls it. *)
LEMMA FreeHere ==
    ASSUME Types, NEW e \in Runs, BlocksOf(e) \cap FreeBlocks(map) = {}
    PROVE  LET r == RmapFree(map, e.off, e.size, env.slots)
           IN  /\ r \in Seq(Runs) /\ Ascending(r) /\ Len(r) <= env.slots
               /\ FreeBlocks(map) \subseteq FreeBlocks(r)
               /\ FreeBlocks(r) \subseteq FreeBlocks(map) \cup BlocksOf(e)
               /\ ~ RmapLoses(map, e.off, e.size, env.slots)
                     => FreeBlocks(r) = FreeBlocks(map) \cup BlocksOf(e)
<1> DEFINE off == e.off
           n == e.size
           r == RmapFree(map, off, n, env.slots)
<1>1. /\ map \in Seq(Runs) /\ Ascending(map) /\ Len(map) <= env.slots
      /\ env.slots \in Nat
  BY EnvAssumption DEF Types, Env
<1>2. off \in Nat \ {0} /\ n \in Nat \ {0} /\ e = Entry(off, n)
  BY DEF Runs, Entry
<1>3. SUFFICES /\ r \in Seq(Runs) /\ Ascending(r) /\ Len(r) <= env.slots
               /\ FreeBlocks(map) \subseteq FreeBlocks(r)
               /\ FreeBlocks(r) \subseteq FreeBlocks(map) \cup BlocksOf(e)
               /\ ~ RmapLoses(map, off, n, env.slots)
                     => FreeBlocks(r) = FreeBlocks(map) \cup BlocksOf(e)
  OBVIOUS
<1> HIDE DEF off, n
<1>4. BlocksOf(Entry(off, n)) \cap FreeBlocks(map) = {}
  BY <1>2
<1>5. IF RmapLoses(map, off, n, env.slots) THEN r = map ELSE GivenBack(map, r, Entry(off, n))
  BY <1>1, <1>2, <1>4, FreeAddsBlocks
<1>6. Len(r) <= env.slots
  BY <1>1, <1>2, FreeKeepsSize
<1> HIDE DEF r
<1>7. QED BY <1>1, <1>2, <1>5, <1>6 DEF GivenBack

(* Blocks come back to the server. *)
LEMMA ServeFreeKeeps ==
    ASSUME IInv, NEW t \in Thread, ServeFree(t)
    PROVE  IInv'
<1> DEFINE off == th[t].off
           n == th[t].n
           e == Entry(off, n)
           x == <<t, "flight", e>>
<1>1. /\ th[t].pc = "io" /\ th[t].op = "free" /\ Answer(t, 0)
      /\ map' = RmapFree(map, off, n, env.slots)
      /\ lost' = lost + IF RmapLoses(map, off, n, env.slots) THEN n ELSE 0
      /\ UNCHANGED <<env, swapdev, pend, leaked, psema, waitq, own, devs, spend, panic>>
  BY DEF ServeFree, At
<1>2. /\ off \in Nat \ {0} /\ n \in Nat \ {0} /\ th[t].outer = 0 /\ Accounted
  BY <1>1, OthersAccounted
<1>3. Types
  BY DEF IInv
<1>4. x \in Used
  <2>1. InFlight(t) /\ FlightChunk(t) = e
    BY <1>1 DEF InFlight, FlightChunk, Chunk
  <2>2. QED BY <2>1, InUsed
<1>5. Claimed(Used, FreeBlocks(map), Top) /\ Top' = Top /\ Top \in Int
  BY <1>1, <1>2, <1>3, TopIsInt DEF IInv, Settled, Top, NoDevice
<1>6. Used' \subseteq Used \ {x}
  <2>1. FlightChunk(t) = e
    BY <1>1 DEF FlightChunk, Chunk
  <2>2. QED BY <1>1, <1>3, <2>1, UsedAnswered
<1>7. e.off = off /\ e.size = n /\ e \in Runs /\ x[3] = e
  BY <1>2 DEF Entry, Runs
<1> HIDE DEF off, n, e, x
<1>8. End(e) <= Top /\ BlocksOf(e) \cap FreeBlocks(map) = {}
  BY <1>4, <1>5, <1>7 DEF Claimed
<1>9. /\ map' \in Seq(Runs) /\ Ascending(map') /\ Len(map') <= env.slots
      /\ FreeBlocks(map') \subseteq FreeBlocks(map) \cup BlocksOf(e)
  BY <1>1, <1>3, <1>7, <1>8, FreeHere
<1>10. Server'
  <2>1. ASSUME NEW b \in BlocksOf(e) PROVE b < Top
    <3>1. b \in Int /\ b < End(e) /\ End(e) \in Int
      BY <1>2, <1>7, InBlocks DEF End
    <3>2. QED BY <1>5, <1>8, <3>1
  <2>2. QED BY <1>1, <1>5, <1>9, <2>1 DEF IInv, Server, NoDevice
<1>11. Settled'
  <2>1. Claimed(Used', FreeBlocks(map'), Top)
    BY <1>4, <1>5, <1>6, <1>7, <1>9, ClaimFreed
  <2>2. QED BY <1>5, <2>1 DEF Settled
<1>12. NoneBesideRoom'
  <2>1. th'[t].op = "free" /\ th'[t].pc = "back"
    BY <1>1, <1>3, AnswerShape DEF Types
  <2>2. QED BY <2>1 DEF NoneBesideRoom
<1>13. spend' \in Nat /\ lost' \in Nat
  BY <1>1, <1>2, <1>3 DEF Types
<1>14. QED BY <1>1, <1>2, <1>9, <1>10, <1>11, <1>12, <1>13, ServerStep

(* A device more, when nobody waits for space. *)
LEMMA SwapAddKeeps ==
    ASSUME IInv, SwapAdd, Sound(env)
    PROVE  IInv'
<1> DEFINE len == env.lens[Len(devs) + 1]
           low == IF NoDevice THEN 1 ELSE Last(devs).block + Last(devs).len + 1
           off == low + spend
           n   == len - spend
           dev == [block |-> low, len |-> len]
           e   == Entry(off, n)
<1>1. /\ panic = "none" /\ Len(devs) < Len(env.lens) /\ spend < len
      /\ \A t \in Thread : ~ Refused(t)
      /\ devs' = Append(devs, dev)
      /\ map' = RmapFree(map, off, n, env.slots)
      /\ lost' = lost + IF RmapLoses(map, off, n, env.slots) THEN n ELSE 0
      /\ spend' = 0
      /\ UNCHANGED <<env, swapdev, pend, leaked, psema, waitq, th, own, panic>>
  BY DEF SwapAdd, Sound
<1>2. /\ Types /\ spend \in Nat /\ devs \in Seq([block : Nat, len : Nat]) /\ lost \in Nat
      /\ Len(devs) \in Nat /\ env.lens \in Seq(Nat) /\ env.slots \in Nat
  BY EnvAssumption DEF IInv, Types, Env
<1>3. len \in Nat
  <2>1. Len(devs) + 1 \in DOMAIN env.lens
    BY <1>1, <1>2
  <2>2. QED BY <1>2, <2>1
<1>4. /\ low \in Nat \ {0} /\ Top \in Int
      /\ NoDevice => low = 1 /\ Top = off
      /\ ~ NoDevice => spend = 0 /\ low = Top + 1
  <2>1. CASE NoDevice
    BY <1>2, <2>1 DEF Top
  <2>2. CASE ~ NoDevice
    <3>1. devs[Len(devs)] \in [block : Nat, len : Nat]
      BY <1>2, <2>2, LastIn DEF NoDevice
    <3>2. QED BY <2>2, <3>1 DEF Top, Last, IInv, Server
  <2>3. QED BY <2>1, <2>2
<1>5. NoDevice => len = Head(env.lens)
  BY <1>1, <1>2 DEF NoDevice
<1> HIDE DEF len, low
<1>6. off \in Nat \ {0} /\ n \in Nat \ {0} /\ Top <= off /\ off + n = low + len
  BY <1>1, <1>2, <1>3, <1>4
<1>7. dev \in [block : Nat, len : Nat] /\ dev.block = low /\ dev.len = len
  BY <1>3, <1>4
<1> HIDE DEF off, n, dev
<1>8. e \in Runs /\ e.off = off /\ e.size = n /\ End(e) = low + len
  BY <1>6 DEF Entry, Runs, End
<1> HIDE DEF e
<1>9. /\ devs' \in Seq([block : Nat, len : Nat]) /\ Len(devs') = Len(devs) + 1
      /\ devs'[Len(devs')] = dev /\ devs' # <<>>
  BY <1>1, <1>2, <1>7
<1>10. ~ NoDevice' /\ Top' = End(e) /\ Top' \in Int /\ Top <= Top'
  <2>1. ~ NoDevice' /\ Top' = low + len
    BY <1>7, <1>9 DEF NoDevice, Top, Last
  <2>2. QED BY <1>3, <1>4, <1>6, <1>8, <2>1
<1>11. BlocksOf(e) \cap FreeBlocks(map) = {}
  <2>1. ASSUME NEW b \in BlocksOf(e), b \in FreeBlocks(map) PROVE FALSE
    <3>1. b \in Int /\ off <= b /\ b < Top
      BY <1>8, <2>1, InBlocks DEF IInv, Server
    <3>2. QED BY <1>4, <1>6, <3>1
  <2>2. QED BY <2>1
<1>12. /\ map' \in Seq(Runs) /\ Ascending(map') /\ Len(map') <= env.slots
       /\ FreeBlocks(map) \subseteq FreeBlocks(map')
       /\ FreeBlocks(map') \subseteq FreeBlocks(map) \cup BlocksOf(e)
       /\ ~ RmapLoses(map, off, n, env.slots)
             => FreeBlocks(map') = FreeBlocks(map) \cup BlocksOf(e)
  BY <1>1, <1>2, <1>8, <1>11, FreeHere
<1>13. Used' \subseteq Used /\ ClaimsKept
  <2>1. \A u \in Thread : SameFlight(u)
    BY <1>1 DEF SameFlight, InFlight, FlightChunk
  <2>2. QED BY <1>1, <2>1, ClaimsSame
<1>14. Types'
  BY <1>1, <1>2, <1>6, <1>9, <1>12, SMTT(30) DEF Types
<1>15. Calls' /\ Sleeping'
  BY <1>1 DEF IInv, Calls, Call, Sleeping, AtPlace, HeldBy, SleptOn
<1>16. Server'
  <2>1. ASSUME NEW b \in FreeBlocks(map') PROVE b < Top'
    <3>1. CASE b \in BlocksOf(e)
      BY <1>8, <1>10, <3>1, InBlocks
    <3>2. CASE b \in FreeBlocks(map)
      <4>1. b < Top
        BY <3>2 DEF IInv, Server
      <4>2. b \in Int
        BY <1>2, <3>2, InFree, InBlocks DEF Types
      <4>3. QED BY <1>4, <1>10, <4>1, <4>2
    <3>3. QED BY <1>12, <3>1, <3>2
  <2>2. QED BY <1>1, <2>1 DEF Server
<1>17. ASSUME NEW m \in Nat, Untouched(m) PROVE Untouched(m)'
  <2>1. 1 .. Head(env.lens) \subseteq FreeBlocks(map')
    <3>1. CASE NoDevice
      <4>1. map = <<>> /\ spend = 0
        BY <1>17, <3>1 DEF Untouched
      <4>2. ~ RmapLoses(map, off, n, env.slots)
        BY <1>1, <4>1 DEF RmapLoses, Sound
      <4>3. off = 1 /\ End(e) = Head(env.lens) + 1 /\ Head(env.lens) \in Nat
        BY <1>3, <1>4, <1>5, <1>8, <3>1, <4>1 DEF off
      <4>4. ASSUME NEW b \in 1 .. Head(env.lens) PROVE b \in BlocksOf(e)
        BY <1>8, <4>3, InBlocks
      <4>5. QED BY <1>12, <4>2, <4>4
    <3>2. CASE ~ NoDevice
      BY <1>12, <1>17, <3>2 DEF Untouched
    <3>3. QED BY <3>1, <3>2
  <2>2. Claimed(Used', {}, m + 1)
    <3>1. Claimed(Used, {}, m + 1) /\ m + 1 \in Int
      BY <1>17 DEF Untouched
    <3>2. QED BY <1>13, <3>1 DEF ClaimsKept
  <2>3. QED BY <1>1, <1>10, <1>17, <2>1, <2>2 DEF Untouched
<1>18. Boot'
  <2>1. SUFFICES ASSUME ~ swapdev \/ pend > 0
                 PROVE  Untouched(pend)' /\ \A t \in Thread : th[t].pc = "idle"
    BY <1>1 DEF Boot
  <2>2. Untouched(pend) /\ \A t \in Thread : th[t].pc = "idle"
    BY <2>1 DEF IInv, Boot
  <2>3. PICK m \in Nat : m = pend
    BY <1>2 DEF Types
  <2>4. Untouched(m)' /\ m = pend'
    BY <1>1, <1>17, <2>2, <2>3
  <2>5. QED BY <2>2, <2>4 DEF Untouched
<1>19. Accounting'
  <2>1. SUFFICES ASSUME NEW t \in Thread, th[t].outer > 0
                 PROVE  /\ th[t].pc = "io" => Untouched(th[t].n)'
                        /\ th[t].pc = "back" => th[t].res = 1
    BY <1>1 DEF Accounting
  <2>2. /\ th[t].pc = "io" => Untouched(th[t].n)
        /\ th[t].pc = "back" => th[t].res = 1
    BY <2>1 DEF IInv, Accounting
  <2>3. PICK m \in Nat : m = th[t].n
    BY <1>2 DEF Types, Requests
  <2>4. th[t].pc = "io" => Untouched(m)'
    BY <1>17, <2>2, <2>3
  <2>5. m = th'[t].n
    BY <1>1, <2>3
  <2>6. QED BY <2>2, <2>4, <2>5 DEF Untouched
<1>20. Settled'
  <2>1. SUFFICES ASSUME Accounted PROVE Claimed(Used', FreeBlocks(map'), Top')
    BY <1>1 DEF Settled, Accounted
  <2>2. Claimed(Used, FreeBlocks(map), Top)
    BY <2>1 DEF IInv, Settled
  <2>3. \A u \in Used : BlocksOf(u[3]) \cap BlocksOf(e) = {}
    BY <1>4, <1>6, <1>8, <2>2, ClaimBelow
  <2>4. Claimed(Used, FreeBlocks(map'), Top)
    BY <1>12, <2>2, <2>3 DEF Claimed
  <2>5. FreeBlocks(map') \subseteq FreeBlocks(map')
    OBVIOUS
  <2>6. QED BY <1>4, <1>10, <1>13, <2>4, <2>5, ClaimLess
<1>21. NoneBesideRoom'
  <2>1. ASSUME NEW t \in Thread PROVE ~ Wants(t)'
    BY <1>1 DEF Wants, Refused, At
  <2>2. QED BY <2>1 DEF NoneBesideRoom
<1>22. QED BY <1>14, <1>15, <1>16, <1>18, <1>19, <1>20, <1>21 DEF IInv

-----------------------------------------------------------------------------
(* The theorems                                                             *)

LEMMA InitHolds ==
    ASSUME Init
    PROVE  IInv
<1>1. /\ env \in Envs /\ swapdev = FALSE /\ pend = 0 /\ leaked = {}
      /\ psema = [cnt |-> 1, q |-> <<>>] /\ waitq = [cnt |-> 0, q |-> <<>>]
      /\ th = [t \in Thread |-> Idle] /\ own = [t \in Thread |-> {}]
      /\ devs = <<>> /\ spend = 0 /\ map = <<>> /\ lost = 0 /\ panic = "none"
  BY DEF Init, NewSema
<1>2. Idle \in Requests /\ Idle.pc = "idle" /\ Idle.op = "none" /\ Idle.outer = 0
  BY DEF Idle, Requests, Places
<1>3. \A t \in Thread : th[t] = Idle /\ th[t].pc = "idle" /\ th[t].outer = 0
  BY <1>1, <1>2
<1>4. FreeBlocks(map) = {} /\ Ascending(map) /\ map \in Seq(Runs) /\ Len(map) = 0
  BY <1>1 DEF FreeBlocks, Ascending
<1>5. Types
  <2>1. env.slots \in Nat /\ env.lens \in Seq(Nat)
    BY <1>1, EnvAssumption DEF Env
  <2>2. Len(env.lens) \in Nat
    BY <2>1
  <2>3. th \in [Thread -> Requests] /\ own \in [Thread -> SUBSET Runs]
    BY <1>1, <1>2
  <2>4. devs \in Seq([block : Nat, len : Nat]) /\ Len(devs) = 0
    BY <1>1
  <2>5. /\ env \in Envs /\ swapdev \in BOOLEAN /\ panic \in Halts
        /\ pend \in Nat /\ spend \in Nat /\ lost \in Nat /\ leaked \subseteq Runs
    BY <1>1 DEF Halts
  <2>6. Len(devs) <= Len(env.lens) /\ Len(map) <= env.slots
    BY <1>4, <2>1, <2>2, <2>4
  <2>7. QED BY <1>4, <2>3, <2>4, <2>5, <2>6 DEF Types
<1>6. Calls
  BY <1>3 DEF Calls, Call, Idle
<1>7. Sleeping
  <2>1. AtPlace({"lock"}) = {} /\ AtPlace(Inside) = {} /\ AtPlace({"wait"}) = {}
    BY <1>3 DEF AtPlace, Inside
  <2>2. HeldBy(psema, Thread, {}, {})
    BY <1>1 DEF HeldBy, SleptOn, SemaType, CountsSleepers, Sleepers
  <2>3. SemaType(waitq, Thread) /\ CountsSleepers(waitq) /\ waitq.cnt <= 0
        /\ Sleepers(waitq) = {}
    BY <1>1 DEF SemaType, CountsSleepers, Sleepers
  <2>4. QED BY <2>1, <2>2, <2>3 DEF Sleeping
<1>8. Server
  BY <1>1, <1>4 DEF Server, NoDevice
<1>9. Used = {}
  <2>1. ASSUME NEW x \in Used PROVE FALSE
    <3>1. \A t \in Thread : own[t] = {} /\ ~ InFlight(t)
      BY <1>1, <1>3 DEF InFlight
    <3>2. QED BY <1>1, <2>1, <3>1, InUsed
  <2>2. QED BY <2>1
<1>10. \A F, top : Claimed(Used, F, top)
  BY <1>9 DEF Claimed
<1>11. Boot
  BY <1>1, <1>3, <1>10 DEF Boot, Untouched, NoDevice
<1>12. Accounting /\ Settled /\ NoneBesideRoom
  BY <1>3, <1>10 DEF Accounting, Settled, NoneBesideRoom, Wants
<1>13. QED BY <1>5, <1>6, <1>7, <1>8, <1>11, <1>12 DEF IInv

(* Nothing changes, or the assertion of the server fails. *)
LEMMA StopKeeps ==
    ASSUME IInv, UNCHANGED <<env, swapdev, pend, leaked, psema, waitq, th, own>>,
           UNCHANGED <<devs, spend, map, lost>>, panic' \in Halts
    PROVE  IInv'
<1>2. Used' = Used
  BY DEF Used, InFlight, FlightChunk
<1>3. Types' /\ Calls' /\ Sleeping'
  BY DEF IInv, Types, Calls, Call, Sleeping, HeldBy, SleptOn, AtPlace
<1>4. Server' /\ Top' = Top /\ FreeBlocks(map)' = FreeBlocks(map)
  BY DEF IInv, Server, Top, NoDevice
<1>5. ASSUME NEW n \in Nat, Untouched(n) PROVE Untouched(n)'
  BY <1>2, <1>5 DEF Untouched, NoDevice
<1>6. Boot'
  <2>1. PICK m \in Nat : m = pend
    BY DEF IInv, Types
  <2>2. ~ swapdev \/ pend > 0 => Untouched(m)' /\ \A t \in Thread : th[t].pc = "idle"
    BY <1>5, <2>1 DEF IInv, Boot
  <2>3. m = pend'
    BY <2>1
  <2>4. QED BY <2>2, <2>3 DEF Boot, Untouched
<1>7. Accounting'
  <2>1. SUFFICES ASSUME NEW t \in Thread, th[t].outer > 0
                 PROVE  /\ th[t].pc = "io" => Untouched(th[t].n)'
                        /\ th[t].pc = "back" => th[t].res = 1
    BY DEF Accounting
  <2>2. PICK m \in Nat : m = th[t].n
    BY DEF IInv, Types, Requests
  <2>3. /\ th[t].pc = "io" => Untouched(m)'
        /\ th[t].pc = "back" => th[t].res = 1
    BY <1>5, <2>1, <2>2 DEF IInv, Accounting
  <2>4. m = th'[t].n
    BY <2>2
  <2>5. QED BY <2>3, <2>4 DEF Untouched
<1>8. Settled'
  BY <1>2, <1>4 DEF IInv, Settled, Accounted
<1>9. NoneBesideRoom'
  BY DEF IInv, NoneBesideRoom, Wants, Room
<1>10. QED BY <1>3, <1>4, <1>6, <1>7, <1>8, <1>9 DEF IInv

LEMMA NextHolds ==
    ASSUME IInv, Sound(env), [Next]_vars
    PROVE  IInv'
<1>1. CASE SetSwapdev
  BY <1>1, SetKeeps
<1>2. CASE SwapAdd
  BY <1>2, SwapAddKeeps
<1>3. ASSUME NEW t \in Thread, NEW n \in env.asks, AllocPending(t, n) \/ Alloc(t, n)
      PROVE  IInv'
  <2>1. CASE AllocPending(t, n)
    BY <2>1, PendingKeeps
  <2>2. CASE Alloc(t, n) /\ pend = 0
    BY <2>2, AllocKeeps
  <2>3. CASE Alloc(t, n) /\ pend > 0
    BY <2>3, FirstKeeps
  <2>4. pend \in Nat
    BY DEF IInv, Types
  <2>5. QED BY <1>3, <2>1, <2>2, <2>3, <2>4
<1>4. ASSUME NEW t \in Thread, NEW c \in own[t], FreeLeaks(t, c) \/ Free(t, c)
      PROVE  IInv'
  BY <1>4, LeaksKeeps, FreeKeeps DEF Sound
<1>5. ASSUME NEW t \in Thread,
             \/ Send(t) \/ AllocAccounted(t) \/ Allocated(t) \/ AllocRefused(t)
             \/ AllocAgain(t) \/ Freed(t)
      PROVE  IInv'
  BY <1>5, SendKeeps, AccountedKeeps, AllocatedKeeps, RefusedKeeps, AgainKeeps, FreedKeeps
<1>6. ASSUME NEW t \in Thread, ServeAllocPending(t) \/ ServeAlloc(t) \/ ServeFree(t)
      PROVE  IInv'
  BY <1>6, ServePendingKeeps, ServeAllocKeeps, ServeFreeKeeps
<1>7. CASE UNCHANGED vars
  <2>1. panic' \in Halts
    BY <1>7 DEF vars, IInv, Types
  <2>2. QED BY <1>7, <2>1, StopKeeps DEF vars, server
<1>8. ASSUME NEW t \in Thread, NEW n \in env.files, FreeFile(t, n) PROVE IInv'
  BY <1>8, FreeFileKeeps DEF Sound
<1>9. ASSUME NEW t \in Thread, ServeFile(t) PROVE IInv'
  <2>1. panic' \in Halts
    BY ONLY <1>9, ZenonT(20) DEF ServeFile, Halts
  <2>2. QED BY <1>9, <2>1, StopKeeps DEF ServeFile, server
<1>10. QED
  <2>1. CASE Next
    BY <1>1, <1>2, <1>3, <1>4, <1>5, <1>6, <1>8, <1>9, <2>1 DEF Next
  <2>2. QED BY <1>7, <2>1

(* What is claimed throughout, before and after the server has accounted    *)
(* for the first blocks.                                                    *)
LEMMA AlwaysClaimed ==
    ASSUME IInv
    PROVE  \E F, top : Claimed(Used, F, top)
<1>1. CASE Accounted
  BY <1>1 DEF IInv, Settled
<1>2. CASE ~ Accounted
  <2>1. pend > 0 \/ \E t \in Thread : th[t].outer > 0 /\ th[t].pc = "io"
    BY <1>2 DEF Accounted, IInv, Types, Calls, Call
  <2>2. CASE pend > 0
    BY <2>2 DEF IInv, Boot, Untouched
  <2>3. CASE \E t \in Thread : th[t].outer > 0 /\ th[t].pc = "io"
    BY <2>3 DEF IInv, Accounting, Untouched
  <2>4. QED BY <2>1, <2>2, <2>3
<1>3. QED BY <1>1, <1>2

LEMMA TypesFollow ==
    ASSUME IInv
    PROVE  TypeOK
<1>1. Types /\ Sleeping
  BY DEF IInv
<1>2. ASSUME NEW t \in Thread, NEW c \in own[t] PROVE c.off > 0 /\ c.size > 0
  <2>1. c \in Runs
    BY <1>1 DEF Types
  <2>2. QED BY <2>1 DEF Runs
<1>3. \A t \in Thread : (th[t].pc = "wait") <=> t \in Sleepers(waitq)
  BY <1>1 DEF Sleeping, AtPlace
<1>4. Cardinality(AtPlace(Inside)) = IF psema.cnt > 0 THEN 0 ELSE 1
  <2>1. CASE AtPlace(Inside) = {}
    BY <1>1, <2>1, FS_EmptySet DEF Sleeping, HeldBy, SleptOn
  <2>2. CASE AtPlace(Inside) # {}
    <3>1. PICK t : t \in AtPlace(Inside)
      BY <2>2
    <3>2. AtPlace(Inside) = {t} /\ ~ (psema.cnt > 0)
      BY <1>1, <2>2, <3>1 DEF Sleeping, HeldBy, SleptOn
    <3>3. Cardinality({t}) = 1
      BY FS_Singleton
    <3>4. QED BY <3>2, <3>3
  <2>3. QED BY <2>1, <2>2
<1>5. AtPlace(Inside) = {t \in Thread : th[t].pc \in {"send", "io", "back"}}
  BY DEF AtPlace, Inside
<1>6. /\ SemaType(psema, Thread) /\ CountsSleepers(psema)
      /\ SemaType(waitq, Thread) /\ CountsSleepers(waitq) /\ waitq.cnt <= 0
  BY <1>1 DEF Sleeping, HeldBy, SleptOn
<1>7. /\ swapdev \in BOOLEAN /\ pend \in Nat /\ spend \in Nat /\ lost \in Nat
      /\ Ascending(map) /\ Len(map) <= env.slots
  BY <1>1 DEF Types
<1>8. QED BY <1>2, <1>3, <1>4, <1>5, <1>6, <1>7 DEF TypeOK

LEMMA ApartFollows ==
    ASSUME IInv
    PROVE  BlocksApart
<1>1. panic # "alloc_swap: pend != 1"
  BY Zenon DEF IInv, Types, Halts
<1>2. PICK F, top : Claimed(Used, F, top)
  BY AlwaysClaimed
<1>3. \A u, v \in Used : u # v => BlocksUsed(u) \cap BlocksUsed(v) = {}
  BY <1>2 DEF Claimed, BlocksUsed
<1>4. Accounted => \A u \in Used : BlocksUsed(u) \cap FreeBlocks(map) = {}
  BY DEF IInv, Settled, Claimed, BlocksUsed
<1>5. QED BY <1>1, <1>3, <1>4 DEF BlocksApart

(* Kernel and server keep to what the proofs rest on: of the threads that   *)
(* use swap space one at a time talks to the server, the server knows of    *)
(* all blocks in use or has handed out nothing yet, and those who wait wait *)
(* for space there is not (vm_swap.c:232-340, swap.c:60-240).               *)
THEOREM SwapInvariance ==
    ASSUME \A e \in Envs : Sound(e)
    PROVE  Spec => []IInv
<1>1. Init => IInv
  BY InitHolds
<1>2. IInv /\ [Next]_vars => IInv'
  <2>1. IInv => Sound(env)
    BY DEF IInv, Types
  <2>2. QED BY <2>1, NextHolds
<1>3. QED BY <1>1, <1>2, PTL DEF Spec

(* Every variable keeps its type, the map its order, and the semaphores     *)
(* count who sleeps on them.                                                *)
THEOREM TypeCorrect ==
    ASSUME \A e \in Envs : Sound(e)
    PROVE  Spec => []TypeOK
<1>1. Spec => []IInv
  BY SwapInvariance
<1>2. IInv => TypeOK
  BY TypesFollow
<1>3. QED BY <1>1, <1>2, PTL

(* No block of swap space has two uses at a time, nor is it free while in   *)
(* use, for any number of threads and devices of any size; and the blocks   *)
(* used first are those from 1, as alloc_swap() asserts (vm_swap.c:256).    *)
THEOREM NoBlockTwice ==
    ASSUME \A e \in Envs : Sound(e)
    PROVE  Spec => []BlocksApart
<1>1. Spec => []IInv
  BY SwapInvariance
<1>2. IInv => BlocksApart
  BY ApartFollows
<1>3. QED BY <1>1, <1>2, PTL

(* Nobody sleeps for swap space when there are free blocks enough in a row, *)
(* but until a free_swap() that is about to return wakes all                *)
(* (vm_swap.c:282, 330).                                                    *)
THEOREM NobodySleepsBesideRoom ==
    ASSUME \A e \in Envs : Sound(e)
    PROVE  Spec => []SleeperNoRoom
<1>1. Spec => []IInv
  BY SwapInvariance
<1>2. IInv => SleeperNoRoom
  BY DEF IInv, NoneBesideRoom, Wants, SleeperNoRoom
<1>3. QED BY <1>1, <1>2, PTL

-----------------------------------------------------------------------------
(* No block is forgotten                                                    *)

(* Block b is in use: by a thread, or by nobody.                            *)
InUse(b) == \E u \in Used : b \in BlocksUsed(u)
Has(t, b) == \/ \E c \in own[t] : b \in BlocksOf(c)
             \/ InFlight(t) /\ b \in BlocksOf(FlightChunk(t))
Leak(b) == \E c \in leaked : b \in BlocksOf(c)

(* Between two devices is a block that is on neither: no entry of the map   *)
(* and no chunk spans two.                                                  *)
Spaced ==
    /\ \A i \in DOMAIN devs : devs[i].block > 0
    /\ \A i, j \in DOMAIN devs : i < j => devs[i].block + devs[i].len < devs[j].block

(* The blocks that were used first are those from 1.                        *)
Started ==
    /\ ~ swapdev \/ pend > 0 => \A b \in 1 .. pend : InUse(b)
    /\ \A t \in Thread : th[t].outer > 0 /\ th[t].pc = "io" =>
          \A b \in 1 .. th[t].n : InUse(b)

(* What is in use or free is on a device, and all that is on one and is     *)
(* neither has been counted.                                                *)
Kept ==
    /\ Spaced /\ Started
    /\ FreeBlocks(map) \subseteq Managed
    /\ Accounted => \A u \in Used : BlocksUsed(u) \subseteq Managed
    /\ Cardinality(GivenUp) = lost

LEMMA InUseIs ==
    ASSUME NEW b
    PROVE  InUse(b) <=> Leak(b) \/ \E t \in Thread : Has(t, b)
<1>1. ASSUME InUse(b) PROVE Leak(b) \/ \E t \in Thread : Has(t, b)
  <2>1. PICK x \in Used : b \in BlocksOf(x[3])
    BY <1>1 DEF InUse, BlocksUsed
  <2>2. CASE \E t \in Thread : \E c \in own[t] : x = <<t, "owns", c>>
    <3>1. PICK t \in Thread : \E c \in own[t] : x = <<t, "owns", c>>
      BY <2>2
    <3>2. PICK c \in own[t] : x = <<t, "owns", c>>
      BY <3>1
    <3>3. x[3] = c
      BY <3>2
    <3>4. Has(t, b)
      BY <2>1, <3>2, <3>3 DEF Has
    <3>5. QED BY <3>4
  <2>3. CASE \E c \in leaked : x = <<"nobody", "leaked", c>>
    <3>1. PICK c \in leaked : x = <<"nobody", "leaked", c>>
      BY <2>3
    <3>2. x[3] = c
      BY <3>1
    <3>3. QED BY <2>1, <3>1, <3>2 DEF Leak
  <2>4. CASE \E t \in Thread : InFlight(t) /\ x = <<t, "flight", FlightChunk(t)>>
    <3>1. PICK t \in Thread : InFlight(t) /\ x = <<t, "flight", FlightChunk(t)>>
      BY <2>4
    <3>2. x[3] = FlightChunk(t)
      BY <3>1
    <3>3. Has(t, b)
      BY <2>1, <3>1, <3>2 DEF Has
    <3>4. QED BY <3>3
  <2>5. QED BY <2>1, <2>2, <2>3, <2>4, InUsed
<1>2. ASSUME NEW t \in Thread, Has(t, b) PROVE InUse(b)
  <2>1. CASE \E c \in own[t] : b \in BlocksOf(c)
    <3>1. PICK c \in own[t] : b \in BlocksOf(c)
      BY <2>1
    <3>2. <<t, "owns", c>> \in Used
      BY <3>1, InUsed
    <3>3. <<t, "owns", c>>[3] = c
      OBVIOUS
    <3>4. QED BY <3>1, <3>2, <3>3 DEF InUse, BlocksUsed
  <2>2. CASE InFlight(t) /\ b \in BlocksOf(FlightChunk(t))
    <3>1. PICK c : c = FlightChunk(t)
      OBVIOUS
    <3>2. <<t, "flight", c>> \in Used
      BY <2>2, <3>1, InUsed
    <3>3. <<t, "flight", c>>[3] = c
      OBVIOUS
    <3>4. QED BY <2>2, <3>1, <3>2, <3>3 DEF InUse, BlocksUsed
  <2>3. QED BY <1>2, <2>1, <2>2 DEF Has
<1>3. ASSUME Leak(b) PROVE InUse(b)
  <2>1. PICK c \in leaked : b \in BlocksOf(c)
    BY <1>3 DEF Leak
  <2>2. <<"nobody", "leaked", c>> \in Used
    BY <2>1, InUsed
  <2>3. <<"nobody", "leaked", c>>[3] = c
    OBVIOUS
  <2>4. QED BY <2>1, <2>2, <2>3 DEF InUse, BlocksUsed
<1>4. QED BY <1>1, <1>2, <1>3

LEMMA InUseNext ==
    ASSUME NEW b
    PROVE  InUse(b)' <=> Leak(b)' \/ \E t \in Thread : Has(t, b)'
<1>1. ASSUME InUse(b)' PROVE Leak(b)' \/ \E t \in Thread : Has(t, b)'
  <2>1. PICK x \in Used' : b \in BlocksOf(x[3])
    BY <1>1 DEF InUse, BlocksUsed
  <2>2. CASE \E t \in Thread : \E c \in own'[t] : x = <<t, "owns", c>>
    <3>1. PICK t \in Thread : \E c \in own'[t] : x = <<t, "owns", c>>
      BY <2>2
    <3>2. PICK c \in own'[t] : x = <<t, "owns", c>>
      BY <3>1
    <3>3. x[3] = c
      BY <3>2
    <3>4. Has(t, b)'
      BY <2>1, <3>2, <3>3 DEF Has
    <3>5. QED BY <3>4
  <2>3. CASE \E c \in leaked' : x = <<"nobody", "leaked", c>>
    <3>1. PICK c \in leaked' : x = <<"nobody", "leaked", c>>
      BY <2>3
    <3>2. x[3] = c
      BY <3>1
    <3>3. QED BY <2>1, <3>1, <3>2 DEF Leak
  <2>4. CASE \E t \in Thread : InFlight(t)' /\ x = <<t, "flight", FlightChunk(t)'>>
    <3>1. PICK t \in Thread : InFlight(t)' /\ x = <<t, "flight", FlightChunk(t)'>>
      BY <2>4
    <3>2. x[3] = FlightChunk(t)'
      BY <3>1
    <3>3. Has(t, b)'
      BY <2>1, <3>1, <3>2 DEF Has
    <3>4. QED BY <3>3
  <2>5. QED BY <2>1, <2>2, <2>3, <2>4, InUsedNext
<1>2. ASSUME NEW t \in Thread, Has(t, b)' PROVE InUse(b)'
  <2>1. CASE \E c \in own'[t] : b \in BlocksOf(c)
    <3>1. PICK c \in own'[t] : b \in BlocksOf(c)
      BY <2>1
    <3>2. <<t, "owns", c>> \in Used'
      BY <3>1, InUsedNext
    <3>3. <<t, "owns", c>>[3] = c
      OBVIOUS
    <3>4. QED BY <3>1, <3>2, <3>3 DEF InUse, BlocksUsed
  <2>2. CASE InFlight(t)' /\ b \in BlocksOf(FlightChunk(t)')
    <3>1. PICK c : c = FlightChunk(t)'
      OBVIOUS
    <3>2. <<t, "flight", c>> \in Used'
      BY <2>2, <3>1, InUsedNext
    <3>3. <<t, "flight", c>>[3] = c
      OBVIOUS
    <3>4. QED BY <2>2, <3>1, <3>2, <3>3 DEF InUse, BlocksUsed
  <2>3. QED BY <1>2, <2>1, <2>2 DEF Has
<1>3. ASSUME Leak(b)' PROVE InUse(b)'
  <2>1. PICK c \in leaked' : b \in BlocksOf(c)
    BY <1>3 DEF Leak
  <2>2. <<"nobody", "leaked", c>> \in Used'
    BY <2>1, InUsedNext
  <2>3. <<"nobody", "leaked", c>>[3] = c
    OBVIOUS
  <2>4. QED BY <2>1, <2>2, <2>3 DEF InUse, BlocksUsed
<1>4. QED BY <1>1, <1>2, <1>3

(* While t takes a step, the others keep what they have. *)
LEMMA OthersKeep ==
    ASSUME Types, Calls, NEW t \in Thread,
           \A u \in Thread \ {t} : own'[u] = own[u] /\ MayMove(u),
           NEW u \in Thread \ {t}, NEW b
    PROVE  Has(u, b)' <=> Has(u, b)
<1>1. th[u] \in Requests /\ own'[u] = own[u] /\ MayMove(u)
  BY DEF Types
<1>2. CASE th'[u] = th[u]
  BY <1>1, <1>2 DEF Has, InFlight, FlightChunk
<1>3. CASE th[u].pc = "lock" /\ th'[u] = [th[u] EXCEPT !.pc = "send"]
  <2>1. /\ th'[u].pc = "send" /\ th'[u].op = th[u].op /\ th'[u].n = th[u].n
        /\ th'[u].off = th[u].off /\ th'[u].res = th[u].res
    BY <1>1, <1>3 DEF Requests
  <2>2. (InFlight(u)' <=> InFlight(u)) /\ FlightChunk(u)' = FlightChunk(u)
    BY <1>3, <2>1 DEF InFlight, FlightChunk
  <2>3. QED BY <1>1, <2>2 DEF Has
<1>4. CASE th[u].pc = "wait" /\ th'[u] = [th[u] EXCEPT !.pc = "again"]
  <2>1. th'[u].pc = "again"
    BY <1>1, <1>4 DEF Requests
  <2>2. ~ InFlight(u) /\ ~ InFlight(u)'
    BY <1>4, <2>1 DEF InFlight
  <2>3. QED BY <1>1, <2>2 DEF Has
<1>5. QED BY <1>1, <1>2, <1>3, <1>4 DEF MayMove

(* What is in use after a step of t is what it makes of its own. *)
LEMMA UseMoves ==
    ASSUME Types, Calls, NEW t \in Thread, NEW B,
           \A u \in Thread \ {t} : own'[u] = own[u] /\ MayMove(u),
           \A b : Has(t, b)' \/ Leak(b)' <=> Has(t, b) \/ Leak(b) \/ b \in B
    PROVE  \A b : InUse(b)' <=> InUse(b) \/ b \in B
<1> SUFFICES ASSUME NEW b PROVE InUse(b)' <=> InUse(b) \/ b \in B
  OBVIOUS
<1>1. \A u \in Thread \ {t} : Has(u, b)' <=> Has(u, b)
  BY OthersKeep
<1>2. Has(t, b)' \/ Leak(b)' <=> Has(t, b) \/ Leak(b) \/ b \in B
  OBVIOUS
<1>3. InUse(b) <=> Leak(b) \/ \E u \in Thread : Has(u, b)
  BY InUseIs
<1>4. InUse(b)' <=> Leak(b)' \/ \E u \in Thread : Has(u, b)'
  BY InUseNext
<1>5. (\E u \in Thread : Has(u, b)) <=> Has(t, b) \/ \E u \in Thread \ {t} : Has(u, b)
  OBVIOUS
<1>6. (\E u \in Thread : Has(u, b)') <=> Has(t, b)' \/ \E u \in Thread \ {t} : Has(u, b)'
  OBVIOUS
<1>7. (\E u \in Thread \ {t} : Has(u, b)') <=> \E u \in Thread \ {t} : Has(u, b)
  BY <1>1
<1>8. QED BY <1>2, <1>3, <1>4, <1>5, <1>6, <1>7

(* Blocks that were in use are, and nothing else changed.                   *)
LEMMA QuietKept ==
    ASSUME Kept, UNCHANGED server, \A b : InUse(b)' <=> InUse(b),
           Accounted' => Accounted, Started'
    PROVE  Kept'
<1>1. /\ UNCHANGED <<devs, spend, map, lost>>
      /\ Managed' = Managed /\ FreeBlocks(map)' = FreeBlocks(map)
  BY DEF server, Managed, NoDevice
<1>2. Spaced'
  BY <1>1 DEF Kept, Spaced
<1>3. GivenUp' = GivenUp
  <2>1. GivenUp = {b \in Managed \ FreeBlocks(map) : ~ InUse(b)}
    BY DEF GivenUp, InUse
  <2>2. GivenUp' = {b \in Managed' \ FreeBlocks(map)' : ~ InUse(b)'}
    BY DEF GivenUp, InUse
  <2>3. QED BY <1>1, <2>1, <2>2
<1>4. ASSUME Accounted' PROVE \A u \in Used' : BlocksUsed(u) \subseteq Managed
  <2>1. ASSUME NEW u \in Used', NEW b \in BlocksUsed(u) PROVE b \in Managed
    <3>1. InUse(b)'
      BY <2>1 DEF InUse, BlocksUsed
    <3>2. InUse(b)
      BY <3>1
    <3>3. QED BY <1>4, <3>2 DEF Kept, InUse
  <2>2. QED BY <2>1
<1>5. \A u : BlocksUsed(u)' = BlocksUsed(u)
  BY DEF BlocksUsed
<1>6. QED BY <1>1, <1>2, <1>3, <1>4, <1>5 DEF Kept

(* A step of thread t in the kernel, when the server is there and nobody    *)
(* has to account for the first blocks any more.                            *)
LEMMA QuietStep ==
    ASSUME IInv, Kept, NEW t \in Thread, UNCHANGED server, UNCHANGED pend,
           swapdev' = swapdev, swapdev, pend = 0,
           \A u \in Thread \ {t} : own'[u] = own[u] /\ MayMove(u),
           \A b : Has(t, b)' \/ Leak(b)' <=> Has(t, b) \/ Leak(b),
           th'[t].outer = 0, th[t].outer > 0 => th[t].pc = "back"
    PROVE  Kept'
<1>1. Types /\ Calls
  BY DEF IInv
<1>2. \A b : InUse(b)' <=> InUse(b)
  <2>1. PICK B : B = {}
    OBVIOUS
  <2>2. \A b : Has(t, b)' \/ Leak(b)' <=> Has(t, b) \/ Leak(b) \/ b \in B
    BY <2>1
  <2>3. \A b : InUse(b)' <=> InUse(b) \/ b \in B
    BY <1>1, <2>2, UseMoves
  <2>4. QED BY <2>1, <2>3
<1>3. \A u \in Thread \ {t} : /\ th'[u].outer = th[u].outer
                              /\ th[u].outer > 0 => th'[u] = th[u]
  BY <1>1, MoveKeeps
<1>4. Accounted' => Accounted
  BY <1>3 DEF Accounted
<1>5. Started'
  <2>1. ASSUME NEW u \in Thread, th'[u].outer > 0, th'[u].pc = "io",
               NEW b \in 1 .. th'[u].n
        PROVE  InUse(b)'
    <3>1. u # t
      BY <2>1
    <3>2. th'[u] = th[u] /\ th[u].outer > 0
      BY <1>3, <2>1, <3>1
    <3>3. InUse(b)
      BY <2>1, <3>2 DEF Kept, Started
    <3>4. QED BY <1>2, <3>3
  <2>2. ~ (~ swapdev' \/ pend' > 0)
    OBVIOUS
  <2>3. QED BY <2>1, <2>2 DEF Started
<1>6. QED BY <1>2, <1>4, <1>5, QuietKept

(* A step of thread t that has nothing on the way before and after it.      *)
LEMMA NotInFlight ==
    ASSUME NEW t, ~ InFlight(t), ~ InFlight(t)', own'[t] = own[t], leaked' = leaked
    PROVE  \A b : Has(t, b)' \/ Leak(b)' <=> Has(t, b) \/ Leak(b)
BY DEF Has, Leak

(* Whoever asks the server moves nobody. *)
LEMMA AskedAlone ==
    ASSUME NEW f \in [Thread -> Requests], NEW t \in Thread, NEW s, Ask(f, s, t),
           \A u \in Thread \ {t} : f[u] = th[u]
    PROVE  /\ \A u \in Thread \ {t} : MayMove(u)
           /\ th'[t].pc \in {"lock", "io"} /\ th'[t].op = f[t].op /\ th'[t].n = f[t].n
           /\ th'[t].off = f[t].off /\ th'[t].outer = f[t].outer
BY AskShape DEF MayMove

LEMMA AllocKept ==
    ASSUME IInv, Kept, NEW t \in Thread, NEW n, Alloc(t, n), pend = 0, n \in Nat
    PROVE  Kept'
<1>1. /\ th[t].pc = "idle" /\ swapdev /\ th[t] = Idle /\ th \in [Thread -> Requests]
  BY DEF Alloc, At, IInv, Types, Calls, Call
<1> DEFINE x == IF pend > 0 THEN pend ELSE n
           y == IF pend > 0 THEN n ELSE 0
           r == [Idle EXCEPT !.op = "alloc", !.n = x, !.outer = y]
           f == [th EXCEPT ![t] = r]
<1>2. /\ Ask(f, psema, t)
      /\ UNCHANGED <<env, swapdev, leaked, waitq, own, server, panic>> /\ pend' = 0
  BY DEF Alloc
<1>3. r \in Requests /\ r.op = "alloc" /\ r.outer = 0
  <2>1. x = n /\ y = 0
    OBVIOUS
  <2> HIDE DEF x, y
  <2>2. QED BY <1>1, <2>1 DEF Requests, Places, Idle
<1> HIDE DEF r
<1>4. f \in [Thread -> Requests] /\ f[t] = r /\ \A u \in Thread \ {t} : f[u] = th[u]
  BY <1>1, <1>3
<1> HIDE DEF f
<1>5. /\ \A u \in Thread \ {t} : MayMove(u)
      /\ th'[t].pc \in {"lock", "io"} /\ th'[t].op = "alloc" /\ th'[t].outer = 0
  BY <1>2, <1>3, <1>4, AskedAlone
<1>6. ~ InFlight(t) /\ ~ InFlight(t)' /\ th[t].outer = 0
  BY <1>1, <1>5 DEF InFlight, Idle
<1>7. \A b : Has(t, b)' \/ Leak(b)' <=> Has(t, b) \/ Leak(b)
  BY <1>2, <1>6, NotInFlight
<1>8. UNCHANGED server /\ UNCHANGED pend /\ swapdev' = swapdev
      /\ \A u \in Thread \ {t} : own'[u] = own[u] /\ MayMove(u)
  BY <1>2, <1>5
<1>9. QED BY <1>1, <1>5, <1>6, <1>7, <1>8, QuietStep

LEMMA AgainKept ==
    ASSUME IInv, Kept, NEW t \in Thread, AllocAgain(t)
    PROVE  Kept'
<1>1. /\ th[t].pc = "again" /\ th[t] \in Requests /\ Call(t) /\ th \in [Thread -> Requests]
      /\ swapdev /\ pend = 0
  BY BusyMeansServer DEF AllocAgain, At, IInv, Types, Calls
<1>2. /\ Ask(th, psema, t)
      /\ UNCHANGED <<env, swapdev, pend, leaked, waitq, own, server, panic>>
  BY DEF AllocAgain
<1>3. th[t].op = "alloc" /\ th[t].outer = 0
  BY <1>1 DEF Call, Requests
<1>4. /\ \A u \in Thread \ {t} : MayMove(u)
      /\ th'[t].pc \in {"lock", "io"} /\ th'[t].op = "alloc" /\ th'[t].outer = 0
  BY <1>1, <1>2, <1>3, AskedAlone
<1>5. ~ InFlight(t) /\ ~ InFlight(t)'
  BY <1>1, <1>3, <1>4 DEF InFlight
<1>6. \A b : Has(t, b)' \/ Leak(b)' <=> Has(t, b) \/ Leak(b)
  BY <1>2, <1>5, NotInFlight
<1>7. QED BY <1>1, <1>2, <1>3, <1>4, <1>6, QuietStep

LEMMA SendKept ==
    ASSUME IInv, Kept, NEW t \in Thread, Send(t)
    PROVE  Kept'
<1>1. /\ th[t].pc = "send" /\ th[t] \in Requests /\ Call(t) /\ th \in [Thread -> Requests]
      /\ swapdev /\ pend = 0
  BY BusyMeansServer DEF Send, At, IInv, Types, Calls
<1>2. /\ th' = [th EXCEPT ![t].pc = "io"]
      /\ UNCHANGED <<env, swapdev, pend, leaked, psema, waitq, own, server, panic>>
  BY DEF Send
<1>3. th[t].outer = 0
  BY <1>1 DEF Call, Requests
<1>4. /\ \A u \in Thread \ {t} : MayMove(u)
      /\ th'[t].pc = "io" /\ th'[t].op = th[t].op /\ th'[t].n = th[t].n
      /\ th'[t].off = th[t].off /\ th'[t].res = th[t].res /\ th'[t].outer = 0
  BY <1>1, <1>2, <1>3 DEF MayMove, Requests
<1>5. (InFlight(t)' <=> InFlight(t)) /\ FlightChunk(t)' = FlightChunk(t)
  BY <1>1, <1>4 DEF InFlight, FlightChunk
<1>6. \A b : Has(t, b)' \/ Leak(b)' <=> Has(t, b) \/ Leak(b)
  BY <1>2, <1>5 DEF Has, Leak
<1>7. QED BY <1>1, <1>2, <1>3, <1>4, <1>6, QuietStep

(* free_swap(): the blocks are on their way. *)
LEMMA FreeKept ==
    ASSUME IInv, Kept, NEW t \in Thread, NEW c \in own[t], Free(t, c), Sound(env)
    PROVE  Kept'
<1>1. /\ th[t].pc = "idle" /\ swapdev /\ th[t] = Idle /\ th \in [Thread -> Requests]
      /\ own \in [Thread -> SUBSET Runs] /\ pend = 0
  BY DEF Free, At, IInv, Types, Calls, Call, Sound
<1>2. c \in Runs
  BY <1>1
<1> DEFINE r == [Idle EXCEPT !.op = "free", !.off = c.off, !.n = c.size]
           f == [th EXCEPT ![t] = r]
<1>3. /\ Ask(f, psema, t) /\ own' = [own EXCEPT ![t] = @ \ {c}]
      /\ UNCHANGED <<env, swapdev, pend, leaked, waitq, server, panic>>
  BY DEF Free
<1>4. r \in Requests /\ r.op = "free" /\ r.off = c.off /\ r.n = c.size /\ r.outer = 0
  BY <1>2 DEF Requests, Places, Idle, Runs
<1> HIDE DEF r
<1>5. f \in [Thread -> Requests] /\ f[t] = r /\ \A u \in Thread \ {t} : f[u] = th[u]
  BY <1>1, <1>4
<1> HIDE DEF f
<1>6. /\ \A u \in Thread \ {t} : MayMove(u)
      /\ th'[t].pc \in {"lock", "io"} /\ th'[t].op = "free" /\ th'[t].n = c.size
      /\ th'[t].off = c.off /\ th'[t].outer = 0
  BY <1>3, <1>4, <1>5, AskedAlone
<1>7. ~ InFlight(t) /\ InFlight(t)' /\ th[t].outer = 0
  BY <1>1, <1>6 DEF InFlight, Idle
<1>8. BlocksOf(FlightChunk(t)') = BlocksOf(c)
  BY <1>6 DEF FlightChunk, Chunk, Entry, BlocksOf, End
<1>9. own'[t] = own[t] \ {c} /\ \A u \in Thread \ {t} : own'[u] = own[u]
  BY <1>1, <1>3
<1>10. ASSUME NEW b PROVE Has(t, b)' <=> Has(t, b)
  <2>1. Has(t, b) <=> \E d \in own[t] : b \in BlocksOf(d)
    BY <1>7 DEF Has
  <2>2. Has(t, b)' <=> (\E d \in own[t] \ {c} : b \in BlocksOf(d)) \/ b \in BlocksOf(c)
    BY <1>7, <1>8, <1>9 DEF Has
  <2>3. QED BY <2>1, <2>2
<1>11. \A b : Has(t, b)' \/ Leak(b)' <=> Has(t, b) \/ Leak(b)
  BY <1>3, <1>10 DEF Leak
<1>12. QED BY <1>1, <1>3, <1>6, <1>7, <1>9, <1>11, QuietStep

(* The step gives up the server, or asks it again.                          *)
LEMMA AccountedKept ==
    ASSUME IInv, Kept, NEW t \in Thread, AllocAccounted(t)
    PROVE  Kept'
<1> USE DEF IInv
<1>1. /\ th[t].pc = "back" /\ th[t].op = "alloc" /\ th[t].outer > 0
      /\ th[t] \in Requests /\ swapdev /\ pend = 0
  <2>1. th[t].pc = "back" /\ th[t].op = "alloc" /\ th[t].outer > 0
    BY DEF AllocAccounted, At
  <2>2. th[t] \in Requests
    BY DEF Types
  <2>3. QED BY <2>1, <2>2, BusyMeansServer
<1> DEFINE g == Granted(th)
           r == [g[t] EXCEPT !.n = th[t].outer, !.outer = 0]
           f == [g EXCEPT ![t] = r]
<1>2. /\ Ask(f, VSema(psema), t)
      /\ UNCHANGED <<env, swapdev, pend, leaked, waitq, own, server>>
  BY DEF AllocAccounted
<1>3. g \in [Thread -> Requests] /\ g[t] = th[t]
  BY <1>1, GrantedShape, InsideNotWoken DEF Inside
<1> HIDE DEF g
<1>4. r \in Requests /\ r.op = "alloc" /\ r.outer = 0
  BY <1>1, <1>3 DEF Requests
<1> HIDE DEF r
<1>5. f \in [Thread -> Requests] /\ f[t] = r /\ \A u \in Thread \ {t} : f[u] = g[u]
  BY <1>3, <1>4
<1> HIDE DEF f
<1>6. /\ \A u \in Thread \ {t} : th'[u] = Granted(th)[u]
      /\ th'[t].pc \in {"lock", "io"} /\ th'[t].op = "alloc" /\ th'[t].outer = 0
  <2>1. /\ \A u \in Thread \ {t} : th'[u] = f[u]
        /\ th'[t].pc = IF PSleeps(VSema(psema)) THEN "lock" ELSE "io"
        /\ th'[t].op = f[t].op /\ th'[t].outer = f[t].outer
    BY <1>2, <1>5, AskShape
  <2>2. QED BY <1>4, <1>5, <2>1 DEF g
<1>7. \A u \in Thread \ {t} : MayMove(u)
  BY <1>1, <1>6, GrantMoves DEF Inside
<1>8. ~ InFlight(t) /\ ~ InFlight(t)'
  BY <1>1, <1>6 DEF InFlight
<1>9. \A b : Has(t, b)' \/ Leak(b)' <=> Has(t, b) \/ Leak(b)
  BY <1>2, <1>8, NotInFlight
<1> HIDE DEF IInv
<1>10. QED BY <1>1, <1>2, <1>6, <1>7, <1>9, QuietStep

(* The blocks the server gave are the thread's.                             *)
LEMMA AllocatedKept ==
    ASSUME IInv, Kept, NEW t \in Thread, Allocated(t)
    PROVE  Kept'
<1> USE DEF IInv
<1>1. /\ th[t].pc = "back" /\ th[t].op = "alloc" /\ th[t].outer = 0 /\ th[t].res > 0
      /\ swapdev /\ pend = 0
  <2>1. /\ th[t].pc = "back" /\ th[t].op = "alloc" /\ th[t].outer = 0 /\ th[t].res > 0
    BY DEF Allocated, At
  <2>2. QED BY <2>1, BusyMeansServer
<1> DEFINE g == Granted(th)
           c == Chunk(th[t].res, th[t].n)
<1>2. /\ own' = [own EXCEPT ![t] = own[t] \cup {c}] /\ th' = [g EXCEPT ![t] = Idle]
      /\ UNCHANGED <<env, swapdev, pend, leaked, waitq, server, panic>>
  BY DEF Allocated
<1>3. g \in [Thread -> Requests]
  BY GrantedShape
<1>4. /\ InFlight(t) /\ FlightChunk(t) = c
  BY <1>1 DEF InFlight, FlightChunk
<1> HIDE DEF g, c
<1>5. /\ th'[t] = Idle /\ \A u \in Thread \ {t} : th'[u] = Granted(th)[u]
  BY <1>2, <1>3 DEF g
<1>6. own'[t] = own[t] \cup {c} /\ \A u \in Thread \ {t} : own'[u] = own[u]
  BY <1>2 DEF Types
<1>7. ~ InFlight(t)' /\ th'[t].outer = 0
  BY <1>5 DEF InFlight, Idle
<1>8. \A u \in Thread \ {t} : MayMove(u)
  BY <1>1, <1>5, GrantMoves DEF Inside
<1>9. ASSUME NEW b PROVE Has(t, b)' \/ Leak(b)' <=> Has(t, b) \/ Leak(b)
  <2>1. Has(t, b) <=> (\E d \in own[t] : b \in BlocksOf(d)) \/ b \in BlocksOf(c)
    BY <1>4 DEF Has
  <2>2. Has(t, b)' <=> \E d \in own[t] \cup {c} : b \in BlocksOf(d)
    BY <1>6, <1>7 DEF Has
  <2>3. Leak(b)' <=> Leak(b)
    BY <1>2 DEF Leak
  <2>4. QED BY <2>1, <2>2, <2>3
<1> HIDE DEF IInv
<1>10. QED BY <1>1, <1>2, <1>6, <1>7, <1>8, <1>9, QuietStep

LEMMA RefusedKept ==
    ASSUME IInv, Kept, NEW t \in Thread, AllocRefused(t)
    PROVE  Kept'
<1> USE DEF IInv
<1>1. /\ th[t].pc = "back" /\ th[t].op = "alloc" /\ th[t].res = 0 /\ th[t].outer = 0
      /\ th[t] \in Requests /\ swapdev /\ pend = 0
  <2>1. th[t].pc = "back" /\ th[t].op = "alloc" /\ th[t].res = 0
    BY DEF AllocRefused, At
  <2>2. th[t] \in Requests
    BY DEF Types
  <2>3. ~ (th[t].outer > 0)
    BY <2>1 DEF Accounting
  <2>4. th[t].outer = 0
    BY <2>2, <2>3 DEF Requests
  <2>5. QED BY <2>1, <2>2, <2>4, BusyMeansServer
<1> DEFINE g == Granted(th)
           r == [g[t] EXCEPT !.pc = "wait"]
<1>2. /\ th' = [g EXCEPT ![t] = r]
      /\ UNCHANGED <<env, swapdev, pend, leaked, own, server, panic>>
  BY DEF AllocRefused
<1>3. g \in [Thread -> Requests] /\ g[t] = th[t]
  BY <1>1, GrantedShape, InsideNotWoken DEF Inside
<1> HIDE DEF g
<1>4. r.pc = "wait" /\ r.op = "alloc" /\ r.outer = 0
  BY <1>1, <1>3 DEF Requests
<1> HIDE DEF r
<1>5. th'[t] = r /\ \A u \in Thread \ {t} : th'[u] = Granted(th)[u]
  <2>1. th'[t] = r /\ \A u \in Thread \ {t} : th'[u] = g[u]
    BY <1>2, <1>3
  <2>2. QED BY <2>1 DEF g
<1>6. \A u \in Thread \ {t} : MayMove(u)
  BY <1>1, <1>5, GrantMoves DEF Inside
<1>7. ~ InFlight(t) /\ ~ InFlight(t)' /\ th'[t].outer = 0
  BY <1>1, <1>4, <1>5 DEF InFlight
<1>8. \A b : Has(t, b)' \/ Leak(b)' <=> Has(t, b) \/ Leak(b)
  BY <1>2, <1>7, NotInFlight
<1> HIDE DEF IInv
<1>9. QED BY <1>1, <1>2, <1>6, <1>7, <1>8, QuietStep

LEMMA FreedKept ==
    ASSUME IInv, Kept, NEW t \in Thread, Freed(t)
    PROVE  Kept'
<1> USE DEF IInv
<1>1. /\ th[t].pc = "back" /\ th[t].op = "free" /\ swapdev /\ pend = 0
  <2>1. th[t].pc = "back" /\ th[t].op = "free"
    BY DEF Freed, At
  <2>2. QED BY <2>1, BusyMeansServer
<1>2. /\ th' = [u \in Thread |-> IF u = t THEN Idle
                                 ELSE IF u \in Sleepers(waitq)
                                      THEN [th[u] EXCEPT !.pc = "again"]
                                      ELSE Granted(th)[u]]
      /\ UNCHANGED <<env, swapdev, pend, leaked, own, server, panic>>
  BY DEF Freed
<1>3. \A u \in Thread : u \in Sleepers(waitq) <=> th[u].pc = "wait"
  BY DEF Sleeping, AtPlace
<1>4. th'[t] = Idle /\ th'[t].outer = 0
  BY <1>2 DEF Idle
<1>5. ASSUME NEW u \in Thread \ {t} PROVE MayMove(u)
  <2>1. CASE u \in Sleepers(waitq)
    <3>1. th'[u] = [th[u] EXCEPT !.pc = "again"] /\ th[u].pc = "wait"
      BY <1>2, <1>3, <2>1
    <3>2. QED BY <3>1 DEF MayMove
  <2>2. CASE u \notin Sleepers(waitq)
    <3>1. th'[u] = Granted(th)[u]
      BY <1>2, <2>2
    <3>2. QED BY <1>1, <3>1, GrantMoves DEF Inside
  <2>3. QED BY <2>1, <2>2
<1>6. ~ InFlight(t) /\ ~ InFlight(t)'
  BY <1>1, <1>4 DEF InFlight, Idle
<1>7. \A b : Has(t, b)' \/ Leak(b)' <=> Has(t, b) \/ Leak(b)
  BY <1>2, <1>6, NotInFlight
<1> HIDE DEF IInv
<1>8. QED BY <1>1, <1>2, <1>4, <1>5, <1>7, QuietStep

-----------------------------------------------------------------------------
(* Before the server has accounted for the first blocks                     *)

(* All are idle and so they stay, and what was in use is.                   *)
(* free_swap() for a mapped file.                                           *)
LEMMA FreeFileKept ==
    ASSUME IInv, Kept, NEW t \in Thread, NEW n \in env.files, FreeFile(t, n), ~ env.free1st
    PROVE  Kept'
<1>1. /\ th[t].pc = "idle" /\ swapdev /\ pend = 0 /\ th[t] = Idle
      /\ th \in [Thread -> Requests] /\ n \in Nat
  BY EnvAssumption DEF FreeFile, At, IInv, Types, Calls, Call, Env
<1> DEFINE r == [Idle EXCEPT !.op = "file", !.n = n]
           f == [th EXCEPT ![t] = r]
<1>2. /\ Ask(f, psema, t)
      /\ UNCHANGED <<env, swapdev, pend, leaked, waitq, own, server, panic>>
  BY DEF FreeFile
<1>3. r \in Requests /\ r.op = "file" /\ r.outer = 0
  BY <1>1 DEF Requests, Places, Idle
<1> HIDE DEF r
<1>4. f \in [Thread -> Requests] /\ f[t] = r /\ \A u \in Thread \ {t} : f[u] = th[u]
  BY <1>1, <1>3
<1> HIDE DEF f
<1>5. /\ \A u \in Thread \ {t} : MayMove(u)
      /\ th'[t].pc \in {"lock", "io"} /\ th'[t].op = "file" /\ th'[t].outer = 0
  BY <1>2, <1>3, <1>4, AskedAlone
<1>6. ~ InFlight(t) /\ ~ InFlight(t)' /\ th[t].outer = 0
  BY <1>1, <1>5 DEF InFlight, Idle
<1>7. \A b : Has(t, b)' \/ Leak(b)' <=> Has(t, b) \/ Leak(b)
  BY <1>2, <1>6, NotInFlight
<1>8. UNCHANGED server /\ UNCHANGED pend /\ swapdev' = swapdev
      /\ \A u \in Thread \ {t} : own'[u] = own[u] /\ MayMove(u)
  BY <1>2, <1>5
<1>9. QED BY <1>1, <1>5, <1>6, <1>7, <1>8, QuietStep

LEMMA BootKept ==
    ASSUME IInv, Kept, \A t \in Thread : th[t] = Idle, UNCHANGED <<pend, th, server>>,
           ~ swapdev, \A b : InUse(b)' <=> InUse(b)
    PROVE  Kept'
<1>1. \A t \in Thread : th[t].outer = 0 /\ th'[t].outer = 0
  BY DEF Idle
<1>2. Accounted' => Accounted
  BY <1>1 DEF Accounted
<1>3. Started'
  <2>1. \A b \in 1 .. pend : InUse(b)'
    BY DEF Kept, Started
  <2>2. QED BY <1>1, <2>1 DEF Started
<1>4. UNCHANGED server
  OBVIOUS
<1>5. QED BY <1>2, <1>3, <1>4, QuietKept

LEMMA SetKept ==
    ASSUME IInv, Kept, SetSwapdev
    PROVE  Kept'
<1>1. /\ UNCHANGED <<env, pend, leaked, psema, waitq, th, own, server, panic>>
      /\ ~ swapdev
  BY DEF SetSwapdev
<1>2. \A t \in Thread : th[t] = Idle
  BY <1>1, BootIdle
<1>3. Used' = Used
  BY <1>1 DEF Used, InFlight, FlightChunk
<1>4. \A b : InUse(b)' <=> InUse(b)
  BY <1>3 DEF InUse, BlocksUsed
<1>5. UNCHANGED <<pend, th, server>>
  BY <1>1
<1>6. QED BY <1>1, <1>2, <1>4, <1>5, BootKept

LEMMA LeaksKept ==
    ASSUME IInv, Kept, NEW t \in Thread, NEW c \in own[t], FreeLeaks(t, c)
    PROVE  Kept'
<1>1. /\ own' = [own EXCEPT ![t] = own[t] \ {c}] /\ leaked' = leaked \cup {c}
      /\ UNCHANGED <<env, swapdev, pend, psema, waitq, th, server, panic>> /\ ~ swapdev
  BY DEF FreeLeaks
<1>2. (\A u \in Thread : th[u] = Idle) /\ Types /\ Calls
  BY <1>1, BootIdle DEF IInv
<1>3. own'[t] = own[t] \ {c} /\ \A u \in Thread \ {t} : own'[u] = own[u]
  BY <1>1, <1>2 DEF Types
<1>4. \A u \in Thread : ~ InFlight(u) /\ ~ InFlight(u)'
  BY <1>1, <1>2 DEF InFlight, Idle
<1>5. \A u \in Thread \ {t} : MayMove(u)
  BY <1>1 DEF MayMove
<1>6. PICK B : B = {}
  OBVIOUS
<1>7. ASSUME NEW b PROVE Has(t, b)' \/ Leak(b)' <=> Has(t, b) \/ Leak(b) \/ b \in B
  <2>1. Has(t, b) <=> \E d \in own[t] : b \in BlocksOf(d)
    BY <1>4 DEF Has
  <2>2. Has(t, b)' <=> \E d \in own[t] \ {c} : b \in BlocksOf(d)
    BY <1>3, <1>4 DEF Has
  <2>3. Leak(b)' <=> Leak(b) \/ b \in BlocksOf(c)
    BY <1>1 DEF Leak
  <2>4. QED BY <1>6, <2>1, <2>2, <2>3
<1>8. \A b : InUse(b)' <=> InUse(b) \/ b \in B
  BY <1>2, <1>3, <1>5, <1>7, UseMoves
<1>9. \A b : InUse(b)' <=> InUse(b)
  BY <1>6, <1>8
<1>10. UNCHANGED <<pend, th, server>>
  BY <1>1
<1>11. QED BY <1>1, <1>2, <1>9, <1>10, BootKept

(* The first request to the server asks for the blocks from 1.              *)
LEMMA FirstKept ==
    ASSUME IInv, Kept, NEW t \in Thread, NEW n \in env.asks, Alloc(t, n), pend > 0
    PROVE  Kept'
<1>1. /\ Types /\ n \in Nat \ {0} /\ pend \in Nat /\ swapdev /\ th \in [Thread -> Requests]
  BY AskedPositive DEF IInv, Types, Alloc
<1>2. \A u \in Thread : th[u] = Idle
  BY BootIdle
<1> DEFINE x == IF pend > 0 THEN pend ELSE n
           y == IF pend > 0 THEN n ELSE 0
           r == [Idle EXCEPT !.op = "alloc", !.n = x, !.outer = y]
           f == [th EXCEPT ![t] = r]
<1>3. /\ Ask(f, psema, t)
      /\ UNCHANGED <<env, swapdev, leaked, waitq, own, server, panic>> /\ pend' = 0
  BY DEF Alloc
<1>4. r \in Requests /\ r.op = "alloc" /\ r.n = pend /\ r.outer = n
  <2>1. x = pend /\ y = n
    OBVIOUS
  <2> HIDE DEF x, y
  <2>2. QED BY <1>1, <2>1 DEF Requests, Places, Idle
<1> HIDE DEF r
<1>5. f \in [Thread -> Requests] /\ f[t] = r /\ \A u \in Thread \ {t} : f[u] = th[u]
  BY <1>1, <1>4
<1> HIDE DEF f
<1>6. /\ \A u \in Thread \ {t} : th'[u] = Idle
      /\ th'[t].pc \in {"lock", "io"} /\ th'[t].op = "alloc" /\ th'[t].n = pend
      /\ th'[t].outer = n
  <2>1. /\ \A u \in Thread \ {t} : th'[u] = f[u]
        /\ th'[t].pc = IF PSleeps(psema) THEN "lock" ELSE "io"
        /\ th'[t].op = f[t].op /\ th'[t].n = f[t].n /\ th'[t].outer = f[t].outer
    BY <1>3, <1>5, AskShape
  <2>2. QED BY <1>2, <1>4, <1>5, <2>1
<1>7. \A u \in Thread : ~ InFlight(u) /\ ~ InFlight(u)'
  BY <1>2, <1>6 DEF InFlight, Idle
<1>8. ASSUME NEW b PROVE InUse(b)' <=> InUse(b)
  <2>1. \A u \in Thread : Has(u, b)' <=> Has(u, b)
    BY <1>3, <1>7 DEF Has
  <2>2. Leak(b)' <=> Leak(b)
    BY <1>3 DEF Leak
  <2>3. InUse(b) <=> Leak(b) \/ \E u \in Thread : Has(u, b)
    BY InUseIs
  <2>4. InUse(b)' <=> Leak(b)' \/ \E u \in Thread : Has(u, b)'
    BY InUseNext
  <2>5. QED BY <2>1, <2>2, <2>3, <2>4
<1>9. ~ Accounted'
  BY <1>1, <1>6 DEF Accounted
<1>10. Started'
  <2>1. \A b \in 1 .. pend : InUse(b)'
    BY <1>8 DEF Kept, Started
  <2>2. ~ (~ swapdev' \/ pend' > 0)
    BY <1>1, <1>3
  <2>3. \A u \in Thread : th'[u].outer > 0 => u = t
    BY <1>6 DEF Idle
  <2>4. QED BY <1>6, <2>1, <2>2, <2>3 DEF Started
<1>11. UNCHANGED server
  BY <1>3
<1>12. QED BY <1>8, <1>9, <1>10, <1>11, QuietKept

(* What is kept, from what is in use.                                       *)
LEMMA KeptFrom ==
    ASSUME Spaced', Started', FreeBlocks(map') \subseteq Managed',
           Accounted' => \A b : InUse(b)' => b \in Managed',
           Cardinality({b \in Managed' \ FreeBlocks(map') : ~ InUse(b)'}) = lost'
    PROVE  Kept'
<1>1. GivenUp' = {b \in Managed' \ FreeBlocks(map') : ~ InUse(b)'}
  BY DEF GivenUp, InUse
<1>2. ASSUME Accounted', NEW u \in Used' PROVE BlocksUsed(u)' \subseteq Managed'
  <2>1. ASSUME NEW b \in BlocksUsed(u)' PROVE InUse(b)'
    BY <1>2, <2>1 DEF InUse
  <2>2. QED BY <1>2, <2>1
<1>3. QED BY <1>1, <1>2 DEF Kept

(* The same blocks are given up. *)
LEMMA KeptSame ==
    ASSUME Kept, Spaced', Started', FreeBlocks(map') \subseteq Managed',
           Accounted' => \A b : InUse(b)' => b \in Managed',
           \A b : b \in Managed' /\ b \notin FreeBlocks(map') /\ ~ InUse(b)' <=>
                  b \in Managed /\ b \notin FreeBlocks(map) /\ ~ InUse(b),
           lost' = lost
    PROVE  Kept'
<1>1. GivenUp = {b \in Managed \ FreeBlocks(map) : ~ InUse(b)}
  BY DEF GivenUp, InUse
<1>2. {b \in Managed' \ FreeBlocks(map') : ~ InUse(b)'} = GivenUp
  BY <1>1
<1>3. Cardinality({b \in Managed' \ FreeBlocks(map') : ~ InUse(b)'}) = lost'
  BY <1>2 DEF Kept
<1>4. QED BY <1>3, KeptFrom

(* The blocks on the devices. *)
LEMMA InManaged ==
    ASSUME Types, NEW b
    PROVE  /\ NoDevice => (b \in Managed <=> b \in 1 .. spend)
           /\ ~ NoDevice =>
                 (b \in Managed <=> \E i \in DOMAIN devs : b \in DeviceBlocks(devs[i]))
BY DEF Managed

LEMMA ElementIn ==
    ASSUME NEW D, NEW s \in Seq(D), NEW i \in DOMAIN s
    PROVE  s[i] \in D
OBVIOUS

LEMMA InDevice ==
    ASSUME Types, NEW i \in DOMAIN devs, NEW b
    PROVE  /\ devs[i].block \in Nat /\ devs[i].len \in Nat
           /\ b \in DeviceBlocks(devs[i]) <=>
                 b \in Int /\ devs[i].block <= b /\ b < devs[i].block + devs[i].len
<1>1. devs[i] \in [block : Nat, len : Nat]
  <2>1. devs \in Seq([block : Nat, len : Nat])
    BY DEF Types
  <2>2. QED BY <2>1, ElementIn
<1>2. PICK p \in Nat : p = devs[i].block
  BY <1>1
<1>3. PICK q \in Nat : q = devs[i].len
  BY <1>1
<1>4. DeviceBlocks(devs[i]) = p .. p + q - 1
  BY <1>2, <1>3 DEF DeviceBlocks
<1>5. b \in p .. p + q - 1 <=> b \in Int /\ p <= b /\ b < p + q
  OBVIOUS
<1>6. QED BY <1>2, <1>3, <1>4, <1>5

(* The server has no block beyond its devices. *)
LEMMA ManagedBelow ==
    ASSUME Types, Spaced, NEW b \in Managed
    PROVE  b \in Int /\ 0 < b /\ b < Top
<1>1. Len(devs) \in Nat /\ DOMAIN devs = 1 .. Len(devs) /\ spend \in Nat
  BY DEF Types
<1>2. CASE NoDevice
  BY <1>1, <1>2, InManaged DEF Top
<1>3. CASE ~ NoDevice
  <2>1. PICK i \in DOMAIN devs : b \in DeviceBlocks(devs[i])
    BY <1>3, InManaged
  <2>2. PICK l : l = Len(devs)
    OBVIOUS
  <2>3. l \in DOMAIN devs /\ l \in Nat /\ i <= l
    BY <1>1, <1>3, <2>2 DEF NoDevice, Types
  <2>4. Top = devs[l].block + devs[l].len
    BY <1>3, <2>2 DEF Top, Last
  <2>5. /\ devs[i].block \in Nat /\ devs[i].len \in Nat
        /\ b \in Int /\ devs[i].block <= b /\ b < devs[i].block + devs[i].len
    BY <2>1, InDevice
  <2>6. devs[l].block \in Nat /\ devs[l].len \in Nat
    BY <2>3, InDevice
  <2>7. devs[i].block > 0
    BY DEF Spaced
  <2>8. i < l => devs[i].block + devs[i].len < devs[l].block
    BY <2>3 DEF Spaced
  <2>9. i = l \/ i < l
    BY <1>1, <2>3
  <2>10. QED BY <2>4, <2>5, <2>6, <2>7, <2>8, <2>9
<1>4. QED BY <1>2, <1>3

LEMMA FirstDevice ==
    ASSUME Types, ~ NoDevice
    PROVE  Head(env.lens) \in Nat
<1>1. env.lens \in Seq(Nat) /\ Len(devs) <= Len(env.lens) /\ devs # <<>>
      /\ devs \in Seq([block : Nat, len : Nat])
  BY EnvAssumption DEF Types, Env, NoDevice
<1>2. env.lens # <<>>
  BY <1>1
<1>3. QED BY <1>1, <1>2

(* Blocks counted while there is no server are none of those it has to      *)
(* account for, or it has them as free yet.                                 *)
LEMMA PendingKept ==
    ASSUME IInv, Kept, NEW t \in Thread, NEW n \in env.asks, AllocPending(t, n)
    PROVE  Kept'
<1>1. Types /\ Calls /\ n \in Nat \ {0} /\ pend \in Nat
  BY AskedPositive DEF IInv, Types
<1>2. Untouched(pend) /\ \A u \in Thread : th[u] = Idle
  BY BootIdle DEF AllocPending
<1> DEFINE c == Chunk(pend + 1, n)
<1>3. /\ own' = [own EXCEPT ![t] = own[t] \cup {c}] /\ pend' = pend + n
      /\ UNCHANGED <<env, swapdev, leaked, psema, waitq, th, server, panic>>
      /\ pend + spend + n < Head(env.lens) /\ ~ swapdev
  BY DEF AllocPending, RoomAtBoot
<1>4. c \in Runs /\ c.off = pend + 1 /\ End(c) = pend + n + 1
  BY <1>1 DEF Chunk, Entry, Runs, End
<1> HIDE DEF c
<1>5. own'[t] = own[t] \cup {c} /\ \A u \in Thread \ {t} : own'[u] = own[u]
  BY <1>1, <1>3 DEF Types
<1>6. \A u \in Thread : ~ InFlight(u) /\ ~ InFlight(u)'
  BY <1>2, <1>3 DEF InFlight, Idle
<1>7. \A u \in Thread \ {t} : MayMove(u)
  BY <1>3 DEF MayMove
<1>8. PICK B : B = BlocksOf(c)
  OBVIOUS
<1>9. ASSUME NEW b PROVE Has(t, b)' \/ Leak(b)' <=> Has(t, b) \/ Leak(b) \/ b \in B
  <2>1. Has(t, b) <=> \E d \in own[t] : b \in BlocksOf(d)
    BY <1>6 DEF Has
  <2>2. Has(t, b)' <=> \E d \in own[t] \cup {c} : b \in BlocksOf(d)
    BY <1>5, <1>6 DEF Has
  <2>3. Leak(b)' <=> Leak(b)
    BY <1>3 DEF Leak
  <2>4. QED BY <1>8, <2>1, <2>2, <2>3
<1>10. \A b : InUse(b)' <=> InUse(b) \/ b \in B
  BY <1>1, <1>5, <1>7, <1>9, UseMoves
<1>11. \A b : b \in B <=> b \in Int /\ pend < b /\ b <= pend + n
  <2>1. \A b : b \in B <=> b \in Int /\ c.off <= b /\ b < End(c)
    BY <1>4, <1>8, InBlocks
  <2>2. QED BY <1>1, <1>4, <2>1
<1>12. /\ Managed' = Managed /\ map' = map /\ lost' = lost /\ devs' = devs /\ th' = th
  BY <1>3 DEF Managed, NoDevice, server
<1>13. \A b \in B : b \in Managed => b \in FreeBlocks(map)
  <2>1. CASE NoDevice
    BY <1>1, <1>2, <2>1, InManaged DEF Untouched
  <2>2. CASE ~ NoDevice
    <3>1. Head(env.lens) \in Nat /\ spend = 0
      BY <1>1, <1>2, <2>2, FirstDevice DEF Untouched
    <3>2. \A b \in B : b \in 1 .. Head(env.lens)
      BY <1>1, <1>3, <1>11, <3>1
    <3>3. QED BY <1>2, <2>2, <3>2 DEF Untouched
  <2>3. QED BY <2>1, <2>2
<1>14. ~ Accounted'
  BY <1>1, <1>3 DEF Accounted
<1>15. Started'
  <2>1. \A b \in 1 .. pend : InUse(b)
    BY <1>3 DEF Kept, Started
  <2>2. \A b \in 1 .. pend' : b \in 1 .. pend \/ b \in B
    BY <1>1, <1>3, <1>11
  <2>3. \A b \in 1 .. pend' : InUse(b)'
    BY <1>10, <2>1, <2>2
  <2>4. \A u \in Thread : ~ (th'[u].outer > 0)
    BY <1>2, <1>12 DEF Idle
  <2>5. QED BY <2>3, <2>4 DEF Started
<1>16. Spaced' /\ FreeBlocks(map') \subseteq Managed'
  BY <1>12 DEF Kept, Spaced
<1>17. \A b : b \in Managed' /\ b \notin FreeBlocks(map') /\ ~ InUse(b)' <=>
              b \in Managed /\ b \notin FreeBlocks(map) /\ ~ InUse(b)
  BY <1>10, <1>12, <1>13
<1>18. QED BY <1>12, <1>14, <1>15, <1>16, <1>17, KeptSame

-----------------------------------------------------------------------------
(* The server's steps                                                       *)

(* What an answer to t leaves as it is.                                     *)
LEMMA AnswerLeaves ==
    ASSUME IInv, Kept, NEW t \in Thread, th[t].pc = "io", NEW res \in Nat, Answer(t, res),
           UNCHANGED <<swapdev, pend, leaked, own, devs>>
    PROVE  /\ Started' /\ Spaced'
           /\ \A u \in Thread \ {t} : own'[u] = own[u] /\ MayMove(u)
           /\ own'[t] = own[t] /\ (\A b : Leak(b)' <=> Leak(b))
           /\ th'[t].pc = "back" /\ th'[t].res = res
           /\ th'[t].op = th[t].op /\ th'[t].n = th[t].n /\ th'[t].outer = th[t].outer
<1>1. /\ \A u \in Thread \ {t} : th'[u] = th[u]
      /\ th'[t].pc = "back" /\ th'[t].res = res
      /\ th'[t].op = th[t].op /\ th'[t].n = th[t].n /\ th'[t].outer = th[t].outer
  BY AnswerShape DEF IInv, Types
<1>2. /\ swapdev /\ pend = 0 /\ \A u \in Thread \ {t} : ~ (th[u].outer > 0)
  BY OthersAccounted
<1>3. Started'
  <2>1. \A u \in Thread : th'[u].outer > 0 => th'[u].pc # "io"
    BY <1>1, <1>2
  <2>2. QED BY <1>2, <2>1 DEF Started
<1>4. Spaced'
  BY DEF Kept, Spaced
<1>5. \A u \in Thread \ {t} : own'[u] = own[u] /\ MayMove(u)
  BY <1>1 DEF MayMove
<1>6. \A b : Leak(b)' <=> Leak(b)
  BY DEF Leak
<1>7. QED BY <1>1, <1>3, <1>4, <1>5, <1>6

(* The answer to an allocation: the blocks it gives, if any, are in use.    *)
LEMMA AnswerUse ==
    ASSUME IInv, Kept, NEW t \in Thread, th[t].pc = "io", NEW res \in Nat, Answer(t, res),
           UNCHANGED <<swapdev, pend, leaked, own, devs>>, th[t].op = "alloc"
    PROVE  \A b : InUse(b)' <=>
                  \/ InUse(b)
                  \/ th[t].outer = 0 /\ res > 0 /\ b \in BlocksOf(Entry(res, th[t].n))
<1>1. Types /\ Calls
  BY DEF IInv
<1>2. /\ \A u \in Thread \ {t} : own'[u] = own[u] /\ MayMove(u)
      /\ own'[t] = own[t] /\ (\A b : Leak(b)' <=> Leak(b))
      /\ th'[t].pc = "back" /\ th'[t].res = res
      /\ th'[t].op = th[t].op /\ th'[t].n = th[t].n /\ th'[t].outer = th[t].outer
  BY AnswerLeaves
<1> DEFINE given == th[t].outer = 0 /\ res > 0
<1>3. ~ InFlight(t) /\ (InFlight(t)' <=> given)
  BY <1>2 DEF InFlight
<1>4. FlightChunk(t)' = Entry(res, th[t].n)
  BY <1>2 DEF FlightChunk, Chunk
<1>5. PICK e : e = Entry(res, th[t].n)
  OBVIOUS
<1>6. given \/ ~ given
  OBVIOUS
<1> SUFFICES \A b : InUse(b)' <=> InUse(b) \/ (given /\ b \in BlocksOf(e))
  BY <1>5
<1> HIDE DEF given
<1>7. PICK B : \A b : b \in B <=> given /\ b \in BlocksOf(e)
  <2>1. WITNESS {b \in BlocksOf(e) : given}
  <2>2. QED OBVIOUS
<1>8. ASSUME NEW b PROVE Has(t, b)' \/ Leak(b)' <=> Has(t, b) \/ Leak(b) \/ b \in B
  <2>1. Has(t, b) <=> \E d \in own[t] : b \in BlocksOf(d)
    BY <1>3 DEF Has
  <2>2. Has(t, b)' <=> (\E d \in own[t] : b \in BlocksOf(d)) \/ (given /\ b \in BlocksOf(e))
    BY <1>2, <1>3, <1>4, <1>5 DEF Has
  <2>3. QED BY <1>2, <1>7, <2>1, <2>2
<1>9. \A b : InUse(b)' <=> InUse(b) \/ b \in B
  BY <1>1, <1>2, <1>8, UseMoves
<1>10. QED BY <1>7, <1>9

(* The blocks in use are those of the entries claimed. *)
LEMMA UseBelow ==
    ASSUME NEW F, NEW top \in Int, Claimed(Used, F, top), NEW b, InUse(b)
    PROVE  b \in Int /\ 0 < b /\ b < top /\ b \notin F
<1>1. PICK u \in Used : b \in BlocksOf(u[3])
  BY DEF InUse, BlocksUsed
<1>2. u[3] \in Runs /\ End(u[3]) <= top /\ BlocksOf(u[3]) \cap F = {}
  BY DEF Claimed
<1>3. PICK e \in Runs : e = u[3]
  BY <1>2
<1>4. b \in Int /\ e.off <= b /\ b < End(e)
  BY <1>1, <1>3, InBlocks
<1>5. e.off > 0 /\ e.off \in Int /\ End(e) \in Int
  BY DEF Runs, End
<1>6. QED BY <1>1, <1>2, <1>3, <1>4, <1>5

(* The first blocks are counted by the server without a device.             *)
LEMMA ServePendingKept ==
    ASSUME IInv, Kept, NEW t \in Thread, ServeAllocPending(t)
    PROVE  Kept'
<1>1. /\ th[t].pc = "io" /\ th[t].op = "alloc" /\ NoDevice /\ Answer(t, spend + 1)
      /\ spend' = spend + th[t].n
      /\ UNCHANGED <<env, swapdev, pend, leaked, psema, waitq, own, devs, map, lost, panic>>
  BY DEF ServeAllocPending, At
<1>2. PICK n : n = th[t].n
  OBVIOUS
<1>3. /\ Types /\ spend \in Nat /\ n \in Nat \ {0} /\ (th[t].outer = 0 => Accounted)
      /\ th[t].outer \in Nat
  BY <1>1, <1>2, OthersAccounted DEF IInv, Types, Requests
<1>4. spend + 1 \in Nat /\ spend + 1 > 0
  BY <1>3
<1>5. Started' /\ Spaced'
  BY <1>1, <1>4, AnswerLeaves
<1>6. \A b : InUse(b)' <=>
             \/ InUse(b)
             \/ th[t].outer = 0 /\ b \in BlocksOf(Entry(spend + 1, n))
  BY <1>1, <1>2, <1>4, AnswerUse
<1>7. PICK e : e = Entry(spend + 1, n)
  OBVIOUS
<1>8. e \in Runs /\ e.off = spend + 1 /\ End(e) = spend + n + 1
  BY <1>3, <1>7 DEF Entry, Runs, End
<1>9. \A b : b \in BlocksOf(e) <=> b \in Int /\ spend < b /\ b <= spend + n
  <2>1. \A b : b \in BlocksOf(e) <=> b \in Int /\ e.off <= b /\ b < End(e)
    BY <1>8, InBlocks
  <2>2. QED BY <1>3, <1>8, <2>1
<1>10. Managed = 1 .. spend /\ Managed' = 1 .. spend + n
  BY <1>1, <1>2 DEF Managed, NoDevice
<1>11. \A b : b \in Managed' <=> b \in Managed \/ b \in BlocksOf(e)
  BY <1>3, <1>9, <1>10
<1>12. FreeBlocks(map') \subseteq Managed'
  BY <1>1, <1>11 DEF Kept
<1>13. CASE th[t].outer = 0
  <2>1. \A b : InUse(b) => b \in Managed
    BY <1>3, <1>13 DEF Kept, InUse
  <2>2. \A b : InUse(b)' <=> InUse(b) \/ b \in BlocksOf(e)
    BY <1>6, <1>7, <1>13
  <2>3. \A b : InUse(b)' => b \in Managed'
    BY <1>11, <2>1, <2>2
  <2>4. \A b : b \in Managed' /\ b \notin FreeBlocks(map') /\ ~ InUse(b)' <=>
               b \in Managed /\ b \notin FreeBlocks(map) /\ ~ InUse(b)
    <3>1. \A b : b \in BlocksOf(e) => b \notin Managed
      BY <1>3, <1>9, <1>10
    <3>2. QED BY <1>1, <1>11, <2>2, <3>1
  <2>5. QED BY <1>1, <1>5, <1>12, <2>3, <2>4, KeptSame
<1>14. CASE th[t].outer > 0
  <2>1. spend = 0 /\ Claimed(Used, {}, n + 1)
    BY <1>1, <1>2, <1>14 DEF IInv, Accounting, Untouched
  <2>2. \A b \in 1 .. n : InUse(b)
    BY <1>1, <1>2, <1>14 DEF Kept, Started
  <2>3. \A b : InUse(b)' <=> InUse(b)
    BY <1>3, <1>6, <1>14
  <2>4. \A b : InUse(b) => b \in 1 .. n
    <3>1. n + 1 \in Int
      BY <1>3
    <3>2. \A b : InUse(b) => b \in Int /\ 0 < b /\ b < n + 1
      BY <2>1, <3>1, UseBelow
    <3>3. QED BY <1>3, <3>2
  <2>5. Managed' = 1 .. n /\ Managed = {}
    BY <1>3, <1>10, <2>1
  <2>6. \A b : InUse(b)' => b \in Managed'
    BY <2>3, <2>4, <2>5
  <2>7. \A b : b \in Managed' /\ b \notin FreeBlocks(map') /\ ~ InUse(b)' <=>
               b \in Managed /\ b \notin FreeBlocks(map) /\ ~ InUse(b)
    BY <2>2, <2>3, <2>5
  <2>8. QED BY <1>1, <1>5, <1>12, <2>6, <2>7, KeptSame
<1>15. QED BY <1>3, <1>13, <1>14

(* What a device gives was free, and is in use.                             *)
LEMMA ServeAllocKept ==
    ASSUME IInv, Kept, NEW t \in Thread, ServeAlloc(t)
    PROVE  Kept'
<1>1. PICK n : n = th[t].n
  OBVIOUS
<1>2. PICK res : res = RmapIndex(map, n)
  OBVIOUS
<1>3. /\ th[t].pc = "io" /\ th[t].op = "alloc" /\ ~ NoDevice /\ Answer(t, res)
      /\ map' = IF res = 0 THEN map ELSE RmapTake(map, n)
      /\ UNCHANGED <<env, swapdev, pend, leaked, psema, waitq, own, devs, spend, lost, panic>>
  BY <1>1, <1>2 DEF ServeAlloc, At
<1>4. /\ Types /\ n \in Nat \ {0} /\ (th[t].outer = 0 => Accounted) /\ th[t].outer \in Nat
      /\ map \in Seq(Runs) /\ Ascending(map)
  <2>1. Types
    BY DEF IInv
  <2>2. /\ th[t] \in Requests /\ n \in Nat \ {0} /\ (th[t].outer = 0 => Accounted)
    BY <1>1, <1>3, OthersAccounted
  <2>3. QED BY <2>1, <2>2 DEF Types, Requests
<1>5. PICK e : e = Entry(res, n)
  OBVIOUS
<1>6. /\ res \in Nat /\ FreeBlocks(map') \subseteq FreeBlocks(map)
      /\ res > 0 => BlocksOf(e) \subseteq FreeBlocks(map)
                    /\ FreeBlocks(map') = FreeBlocks(map) \ BlocksOf(e)
      /\ res = 0 => FreeBlocks(map') = FreeBlocks(map)
  <2>1. CASE Fitting(map, n) = {}
    <3>1. res = 0 /\ map' = map
      BY <1>2, <1>3, <2>1 DEF RmapIndex
    <3>2. QED BY <3>1
  <2>2. CASE Fitting(map, n) # {}
    <3>1. /\ e \in Runs /\ BlocksOf(e) \subseteq FreeBlocks(map)
          /\ FreeBlocks(RmapTake(map, n)) = FreeBlocks(map) \ BlocksOf(e)
      BY <1>2, <1>4, <1>5, <2>2, TakeRemovesBlocks
    <3>2. res \in Nat /\ res > 0
      BY <1>5, <3>1 DEF Entry, Runs
    <3>3. map' = RmapTake(map, n)
      BY <1>3, <3>2
    <3>4. QED BY <3>1, <3>2, <3>3
  <2>3. QED BY <2>1, <2>2
<1>7. Started' /\ Spaced'
  BY <1>3, <1>6, AnswerLeaves
<1>8. \A b : InUse(b)' <=>
             InUse(b) \/ (th[t].outer = 0 /\ res > 0 /\ b \in BlocksOf(e))
  BY <1>1, <1>3, <1>5, <1>6, AnswerUse
<1>9. Managed' = Managed
  BY <1>3 DEF Managed, NoDevice
<1>10. FreeBlocks(map) \subseteq Managed /\ FreeBlocks(map') \subseteq Managed'
  BY <1>6, <1>9 DEF Kept
<1>11. CASE th[t].outer = 0
  <2>1. \A b : InUse(b) => b \in Managed
    BY <1>4, <1>11 DEF Kept, InUse
  <2>2. \A b : InUse(b)' => b \in Managed'
    BY <1>6, <1>8, <1>9, <1>10, <2>1
  <2>3. \A b : b \in Managed' /\ b \notin FreeBlocks(map') /\ ~ InUse(b)' <=>
               b \in Managed /\ b \notin FreeBlocks(map) /\ ~ InUse(b)
    <3>1. CASE res = 0
      BY <1>6, <1>8, <1>9, <3>1
    <3>2. CASE res > 0
      BY <1>6, <1>8, <1>9, <1>11, <3>2
    <3>3. QED BY <1>6, <3>1, <3>2
  <2>4. QED BY <1>3, <1>7, <1>10, <2>2, <2>3, KeptSame
<1>12. CASE th[t].outer > 0
  <2>1. Untouched(n)
    BY <1>1, <1>3, <1>12 DEF IInv, Accounting
  <2>2. \A b \in 1 .. n : InUse(b)
    BY <1>1, <1>3, <1>12 DEF Kept, Started
  <2>3. \A b : InUse(b)' <=> InUse(b)
    BY <1>4, <1>8, <1>12
  <2>4. 1 .. n \subseteq FreeBlocks(map)
    <3>1. 1 .. Head(env.lens) \subseteq FreeBlocks(map) /\ n < Head(env.lens)
      BY <1>3, <1>4, <2>1 DEF Untouched
    <3>2. Head(env.lens) \in Nat
      BY <1>3, <1>4, FirstDevice
    <3>3. QED BY <1>4, <3>1, <3>2
  <2>5. \A b : InUse(b) => b \in 1 .. n
    <3>1. n + 1 \in Int /\ Claimed(Used, {}, n + 1)
      BY <1>4, <2>1 DEF Untouched
    <3>2. \A b : InUse(b) => b \in Int /\ 0 < b /\ b < n + 1
      BY <3>1, UseBelow
    <3>3. QED BY <1>4, <3>2
  <2>6. \A b : InUse(b)' => b \in Managed'
    BY <1>9, <1>10, <2>3, <2>4, <2>5
  <2>7. res > 0 => res = 1
    <3>1. Fitting(map, n) # {} /\ RmapIndex(map, n) = 1
      BY <1>4, <2>4, FirstFit
    <3>2. QED BY <1>2, <3>1
  <2>8. \A b : b \in FreeBlocks(map) /\ b \notin FreeBlocks(map') => InUse(b)
    <3>1. CASE res = 0
      BY <1>6, <3>1
    <3>2. CASE res > 0
      <4>1. e \in Runs /\ e.off = 1 /\ End(e) = n + 1
        BY <1>4, <1>5, <2>7, <3>2 DEF Entry, Runs, End
      <4>2. \A b \in BlocksOf(e) : b \in 1 .. n
        BY <1>4, <4>1, InBlocks
      <4>3. QED BY <1>6, <2>2, <3>2, <4>2
    <3>3. QED BY <1>6, <3>1, <3>2
  <2>9. \A b : b \in Managed' /\ b \notin FreeBlocks(map') /\ ~ InUse(b)' <=>
               b \in Managed /\ b \notin FreeBlocks(map) /\ ~ InUse(b)
    BY <1>6, <1>9, <2>3, <2>8
  <2>10. QED BY <1>3, <1>7, <1>10, <2>6, <2>9, KeptSame
<1>13. QED BY <1>4, <1>11, <1>12

(* Blocks that are given up for good add to those that were.                *)
LEMMA MoreGivenUp ==
    ASSUME Types, Spaced, NEW e \in Runs, \A b \in BlocksOf(e) : b \notin GivenUp
    PROVE  Cardinality(GivenUp \cup BlocksOf(e)) = Cardinality(GivenUp) + e.size
<1>1. \A b \in GivenUp : b \in Int /\ 0 < b /\ b < Top
  BY ManagedBelow DEF GivenUp
<1>2. PICK k \in Int : k = Top
  BY TopIsInt
<1>3. GivenUp \in SUBSET (1 .. k)
  BY <1>1, <1>2
<1>4. IsFiniteSet(1 .. k)
  BY <1>2, FS_Interval
<1>5. IsFiniteSet(GivenUp)
  BY <1>3, <1>4, FS_Subset
<1>6. PICK a \in Int : a = e.off
  BY DEF Runs
<1>7. PICK n \in Nat \ {0} : n = e.size
  BY DEF Runs
<1>8. BlocksOf(e) = a .. a + n - 1
  BY <1>6, <1>7 DEF BlocksOf, End
<1>9. IsFiniteSet(BlocksOf(e)) /\ Cardinality(BlocksOf(e)) = n
  <2>1. a + n - 1 \in Int
    OBVIOUS
  <2>2. /\ IsFiniteSet(a .. a + n - 1)
        /\ Cardinality(a .. a + n - 1) = IF a > a + n - 1 THEN 0 ELSE (a + n - 1) - a + 1
    BY <2>1, FS_Interval
  <2>3. (IF a > a + n - 1 THEN 0 ELSE (a + n - 1) - a + 1) = n
    OBVIOUS
  <2>4. QED BY <1>8, <2>2, <2>3
<1>10. GivenUp \cap BlocksOf(e) = {}
  OBVIOUS
<1>11. Cardinality(GivenUp \cap BlocksOf(e)) = 0
  BY <1>10, FS_EmptySet
<1>12. PICK had \in Nat : had = Cardinality(GivenUp)
  BY <1>5, FS_CardinalityType
<1>13. Cardinality(GivenUp \cup BlocksOf(e))
          = Cardinality(GivenUp) + Cardinality(BlocksOf(e)) - Cardinality(GivenUp \cap BlocksOf(e))
  BY <1>5, <1>9, FS_Union
<1>14. Cardinality(GivenUp \cup BlocksOf(e)) = had + n - 0
  BY <1>9, <1>11, <1>12, <1>13
<1>15. had + n - 0 = had + n
  OBVIOUS
<1>16. QED BY <1>7, <1>12, <1>14, <1>15

(* rmap_free() of blocks the map loses leaves it as it was.                 *)
LEMMA LostHere ==
    ASSUME Types, NEW off \in Nat \ {0}, NEW n \in Nat \ {0},
           BlocksOf(Entry(off, n)) \cap FreeBlocks(map) = {},
           RmapLoses(map, off, n, env.slots)
    PROVE  RmapFree(map, off, n, env.slots) = map
<1>1. map \in Seq(Runs) /\ Ascending(map)
  BY DEF Types
<1>2. PICK s : s = env.slots
  OBVIOUS
<1>3. RmapFree(map, off, n, s) = map
  BY <1>1, <1>2, FreeAddsBlocks
<1>4. QED BY <1>2, <1>3

(* Freed blocks are free, or the map was full and they are counted.         *)
LEMMA ServeFreeKept ==
    ASSUME IInv, Kept, NEW t \in Thread, ServeFree(t)
    PROVE  Kept'
<1> DEFINE off == th[t].off
           n == th[t].n
           e == Entry(off, n)
           x == <<t, "flight", e>>
<1>1. /\ th[t].pc = "io" /\ th[t].op = "free" /\ Answer(t, 0)
      /\ map' = RmapFree(map, off, n, env.slots)
      /\ lost' = lost + IF RmapLoses(map, off, n, env.slots) THEN n ELSE 0
      /\ UNCHANGED <<env, swapdev, pend, leaked, psema, waitq, own, devs, spend, panic>>
  BY DEF ServeFree, At
<1>2. /\ off \in Nat \ {0} /\ n \in Nat \ {0} /\ th[t].outer = 0 /\ Accounted
  BY <1>1, OthersAccounted
<1>3. Types /\ Calls /\ lost \in Nat
  BY DEF IInv, Types
<1>4. InFlight(t) /\ FlightChunk(t) = e
  BY <1>1 DEF InFlight, FlightChunk, Chunk
<1>5. x \in Used
  BY <1>4, InUsed
<1>6. Claimed(Used, FreeBlocks(map), Top) /\ Top \in Int
  BY <1>2, <1>3, TopIsInt DEF IInv, Settled
<1>7. Used' \subseteq Used \ {x}
  BY <1>1, <1>3, <1>4, UsedAnswered
<1>8. e.off = off /\ e.size = n /\ e \in Runs /\ x[3] = e
  BY <1>2 DEF Entry, Runs
<1>9. /\ Started' /\ Spaced' /\ th'[t].pc = "back" /\ th'[t].op = "free"
      /\ \A u \in Thread \ {t} : own'[u] = own[u] /\ MayMove(u)
      /\ own'[t] = own[t] /\ (\A b : Leak(b)' <=> Leak(b))
  BY <1>1, AnswerLeaves
<1>10. ~ InFlight(t)'
  BY <1>9 DEF InFlight
<1> HIDE DEF off, n, e, x
<1>11. BlocksOf(e) \cap FreeBlocks(map) = {} /\ e = Entry(off, n)
  BY <1>5, <1>6, <1>8 DEF Claimed, e
<1>12. ASSUME NEW b PROVE InUse(b)' <=> InUse(b) /\ b \notin BlocksOf(e)
  <2>1. ASSUME InUse(b)' PROVE InUse(b) /\ b \notin BlocksOf(e)
    <3>1. PICK u \in Used' : b \in BlocksOf(u[3])
      BY <2>1 DEF InUse, BlocksUsed
    <3>2. u \in Used /\ u # x
      BY <1>7
    <3>3. BlocksOf(u[3]) \cap BlocksOf(x[3]) = {}
      BY <1>5, <1>6, <3>2 DEF Claimed
    <3>4. QED BY <1>8, <3>1, <3>2, <3>3 DEF InUse, BlocksUsed
  <2>2. ASSUME InUse(b), b \notin BlocksOf(e) PROVE InUse(b)'
    <3>1. Leak(b) \/ \E u \in Thread : Has(u, b)
      BY <2>2, InUseIs
    <3>2. ASSUME NEW u \in Thread, Has(u, b) PROVE Has(u, b)'
      <4>1. CASE u = t
        BY <1>4, <1>9, <2>2, <3>2, <4>1 DEF Has
      <4>2. CASE u # t
        BY <1>3, <1>9, <3>2, <4>2, OthersKeep
      <4>3. QED BY <4>1, <4>2
    <3>3. QED BY <1>9, <3>1, <3>2, InUseNext
  <2>3. QED BY <2>1, <2>2
<1>13. Managed' = Managed
  BY <1>1 DEF Managed, NoDevice
<1>14. \A b : InUse(b) => b \in Managed
  BY <1>2 DEF Kept, InUse
<1>15. \A b \in BlocksOf(e) : InUse(b)
  BY <1>5, <1>8 DEF InUse, BlocksUsed
<1>16. \A b : InUse(b)' => b \in Managed'
  BY <1>12, <1>13, <1>14
<1>17. CASE ~ RmapLoses(map, off, n, env.slots)
  <2>1. FreeBlocks(map') = FreeBlocks(map) \cup BlocksOf(e)
    BY <1>1, <1>3, <1>8, <1>11, <1>17, FreeHere
  <2>2. FreeBlocks(map') \subseteq Managed'
    BY <1>13, <1>14, <1>15, <2>1 DEF Kept
  <2>3. \A b : b \in Managed' /\ b \notin FreeBlocks(map') /\ ~ InUse(b)' <=>
               b \in Managed /\ b \notin FreeBlocks(map) /\ ~ InUse(b)
    BY <1>12, <1>13, <1>15, <2>1
  <2>4. lost' = lost
    BY <1>1, <1>3, <1>17
  <2>5. QED BY <1>9, <1>16, <2>2, <2>3, <2>4, KeptSame
<1>18. CASE RmapLoses(map, off, n, env.slots)
  <2>1. map' = map /\ lost' = lost + n
    BY <1>1, <1>2, <1>3, <1>11, <1>18, LostHere
  <2>2. FreeBlocks(map') \subseteq Managed'
    BY <1>13, <2>1 DEF Kept
  <2>3. GivenUp = {b \in Managed \ FreeBlocks(map) : ~ InUse(b)}
    BY DEF GivenUp, InUse
  <2>4. {b \in Managed' \ FreeBlocks(map') : ~ InUse(b)'} = GivenUp \cup BlocksOf(e)
    BY <1>11, <1>12, <1>13, <1>14, <1>15, <2>1, <2>3
  <2>5. \A b \in BlocksOf(e) : b \notin GivenUp
    BY <1>15, <2>3
  <2>6. Cardinality(GivenUp \cup BlocksOf(e)) = Cardinality(GivenUp) + e.size
    BY <1>3, <1>8, <2>5, MoreGivenUp DEF Kept
  <2>7. Cardinality({b \in Managed' \ FreeBlocks(map') : ~ InUse(b)'}) = lost'
    BY <1>8, <2>1, <2>4, <2>6 DEF Kept
  <2>8. QED BY <1>9, <1>16, <2>2, <2>7, KeptFrom
<1>19. QED BY <1>17, <1>18

(* The server has not accounted for the first blocks: it gave none.         *)
LEMMA NotAccounted ==
    ASSUME IInv, ~ Accounted
    PROVE  \E m \in Nat : Untouched(m)
<1>1. Types /\ Calls
  BY DEF IInv
<1>2. pend > 0 \/ \E t \in Thread : th[t].outer > 0 /\ th[t].pc = "io"
  BY <1>1 DEF Accounted, Types, Calls, Call
<1>3. CASE pend > 0
  <2>1. Untouched(pend) /\ pend \in Nat
    BY <1>1, <1>3 DEF IInv, Boot, Types
  <2>2. QED BY <2>1
<1>4. CASE \E t \in Thread : th[t].outer > 0 /\ th[t].pc = "io"
  <2>1. PICK t \in Thread : th[t].outer > 0 /\ th[t].pc = "io"
    BY <1>4
  <2>2. Untouched(th[t].n) /\ th[t].n \in Nat
    BY <1>1, <2>1 DEF IInv, Accounting, Types, Requests
  <2>3. QED BY <2>2
<1>5. QED BY <1>2, <1>3, <1>4

(* A device more: its blocks are free, but those that were used before it   *)
(* came, or given up at once when the map is full.                          *)
LEMMA SwapAddKept ==
    ASSUME IInv, Kept, SwapAdd, Sound(env)
    PROVE  Kept'
<1> DEFINE len == env.lens[Len(devs) + 1]
           low == IF NoDevice THEN 1 ELSE Last(devs).block + Last(devs).len + 1
           off == low + spend
           n   == len - spend
           dev == [block |-> low, len |-> len]
           e   == Entry(off, n)
<1>1. /\ Len(devs) < Len(env.lens) /\ spend < len
      /\ devs' = Append(devs, dev)
      /\ map' = RmapFree(map, off, n, env.slots)
      /\ lost' = lost + IF RmapLoses(map, off, n, env.slots) THEN n ELSE 0
      /\ spend' = 0
      /\ UNCHANGED <<env, swapdev, pend, leaked, psema, waitq, th, own, panic>>
  BY DEF SwapAdd
<1>2. /\ Types /\ spend \in Nat /\ devs \in Seq([block : Nat, len : Nat]) /\ lost \in Nat
      /\ Len(devs) \in Nat /\ env.lens \in Seq(Nat) /\ env.slots \in Nat
  BY EnvAssumption DEF IInv, Types, Env
<1>3. len \in Nat
  <2>1. Len(devs) + 1 \in DOMAIN env.lens
    BY <1>1, <1>2
  <2>2. QED BY <1>2, <2>1
<1>4. /\ low \in Nat \ {0} /\ Top \in Int
      /\ NoDevice => low = 1 /\ Top = off
      /\ ~ NoDevice => spend = 0 /\ low = Top + 1
  <2>1. CASE NoDevice
    BY <1>2, <2>1 DEF Top
  <2>2. CASE ~ NoDevice
    <3>1. devs[Len(devs)] \in [block : Nat, len : Nat]
      BY <1>2, <2>2, LastIn DEF NoDevice
    <3>2. QED BY <2>2, <3>1 DEF Top, Last, IInv, Server
  <2>3. QED BY <2>1, <2>2
<1> HIDE DEF len, low
<1>5. off \in Nat \ {0} /\ n \in Nat \ {0} /\ Top <= off /\ off + n = low + len
      /\ off = low + spend /\ (~ NoDevice => Top < off)
  BY <1>1, <1>2, <1>3, <1>4
<1>6. dev.block = low /\ dev.len = len
  OBVIOUS
<1> HIDE DEF off, n, dev
<1>7. e \in Runs /\ e.off = off /\ e.size = n /\ End(e) = low + len /\ e = Entry(off, n)
  BY <1>5 DEF Entry, Runs, End
<1> HIDE DEF e
<1>8. \A b : b \in BlocksOf(e) <=> b \in Int /\ off <= b /\ b < low + len
  <2>1. \A b : b \in BlocksOf(e) <=> b \in Int /\ e.off <= b /\ b < End(e)
    BY <1>7, InBlocks
  <2>2. QED BY <1>7, <2>1
<1>9. PICK l : l = Len(devs)
  OBVIOUS
<1>10. /\ l \in Nat /\ DOMAIN devs = 1 .. l /\ DOMAIN devs' = 1 .. l + 1
       /\ devs'[l + 1] = dev /\ (\A i \in 1 .. l : devs'[i] = devs[i])
       /\ ~ NoDevice'
  <2>1. l \in Nat /\ DOMAIN devs = 1 .. l
    BY <1>2, <1>9
  <2>2. devs' = Append(devs, dev)
    BY <1>1
  <2>3. Len(devs') = l + 1 /\ DOMAIN devs' = 1 .. l + 1
    BY <1>2, <1>9, <2>2
  <2>4. devs'[l + 1] = dev /\ (\A i \in 1 .. l : devs'[i] = devs[i])
    BY <1>2, <1>9, <2>2
  <2>5. devs' # <<>>
    BY <2>1, <2>3
  <2>6. QED BY <2>1, <2>3, <2>4, <2>5 DEF NoDevice
<1>11. NoDevice => l = 0
  BY <1>9 DEF NoDevice
<1>12. \A b : b \in DeviceBlocks(dev) <=> b \in Int /\ low <= b /\ b < low + len
  <2>1. DeviceBlocks(dev) = low .. low + len - 1
    BY <1>6 DEF DeviceBlocks
  <2>2. QED BY <1>3, <1>4, <2>1
<1>13. \A b : b \in Managed' <=> b \in Managed \/ b \in BlocksOf(e)
  <2>1. Managed' = UNION {DeviceBlocks(devs'[i]) : i \in DOMAIN devs'}
    BY <1>10 DEF Managed
  <2>2. ASSUME NEW b
        PROVE  b \in Managed' <=> b \in DeviceBlocks(dev)
                                  \/ \E i \in 1 .. l : b \in DeviceBlocks(devs[i])
    <3>1. b \in Managed' <=> \E i \in DOMAIN devs' : b \in DeviceBlocks(devs'[i])
      BY <2>1
    <3>2. \A i : i \in 1 .. l + 1 <=> i \in 1 .. l \/ i = l + 1
      BY <1>10
    <3>3. QED BY <1>10, <3>1, <3>2
  <2>3. CASE NoDevice
    <3>1. \A b : b \in Managed <=> b \in 1 .. spend
      BY <1>2, <2>3, InManaged
    <3>2. \A b : b \in Managed' <=> b \in DeviceBlocks(dev)
      BY <1>11, <2>2, <2>3
    <3>3. low = 1 /\ off = 1 + spend
      BY <1>4, <1>5, <2>3
    <3>4. \A b : b \in DeviceBlocks(dev) <=> b \in 1 .. spend \/ b \in BlocksOf(e)
      BY <1>1, <1>2, <1>3, <1>8, <1>12, <3>3
    <3>5. QED BY <3>1, <3>2, <3>4
  <2>4. CASE ~ NoDevice
    <3>1. \A b : b \in Managed <=> \E i \in 1 .. l : b \in DeviceBlocks(devs[i])
      BY <1>2, <1>10, <2>4, InManaged
    <3>2. off = low
      BY <1>4, <1>5, <2>4
    <3>3. \A b : b \in DeviceBlocks(dev) <=> b \in BlocksOf(e)
      BY <1>8, <1>12, <3>2
    <3>4. QED BY <2>2, <3>1, <3>3
  <2>5. QED BY <2>3, <2>4
<1>14. \A b \in BlocksOf(e) : b \notin Managed /\ b \notin FreeBlocks(map)
  <2>1. ASSUME NEW b \in BlocksOf(e) PROVE b \notin Managed
    <3>1. b \in Managed => b \in Int /\ b < Top
      BY <1>2, ManagedBelow DEF Kept
    <3>2. b \in Int /\ off <= b
      BY <1>8
    <3>3. QED BY <1>4, <1>5, <3>1, <3>2
  <2>2. QED BY <2>1 DEF Kept
<1>15. Used' = Used
  BY <1>1 DEF Used, InFlight, FlightChunk
<1>16. \A b : InUse(b)' <=> InUse(b)
  BY <1>15 DEF InUse, BlocksUsed
<1>17. Started'
  BY <1>1, <1>16 DEF Kept, Started
<1>18. Spaced'
  <2>1. \A i \in 1 .. l : devs[i].block \in Nat /\ devs[i].len \in Nat /\ devs[i].block > 0
    BY <1>2, <1>10, InDevice DEF Kept, Spaced
  <2>2. ASSUME NEW i \in 1 .. l PROVE devs[i].block + devs[i].len < low
    <3>1. l \in 1 .. l /\ ~ NoDevice
      BY <1>10, <1>11
    <3>2. devs[l].block + devs[l].len = Top /\ low = Top + 1
      BY <1>4, <1>9, <3>1 DEF Top, Last
    <3>3. i < l => devs[i].block + devs[i].len < devs[l].block
      BY <1>10, <3>1 DEF Kept, Spaced
    <3>4. i = l \/ i < l
      BY <1>10
    <3>5. QED BY <1>4, <2>1, <3>1, <3>2, <3>3, <3>4
  <2>3. ASSUME NEW i \in DOMAIN devs' PROVE devs'[i].block > 0
    <3>1. i \in 1 .. l \/ i = l + 1
      BY <1>10
    <3>2. QED BY <1>4, <1>6, <1>10, <2>1, <3>1
  <2>4. ASSUME NEW i \in DOMAIN devs', NEW j \in DOMAIN devs', i < j
        PROVE  devs'[i].block + devs'[i].len < devs'[j].block
    <3>1. i \in 1 .. l /\ (j \in 1 .. l \/ j = l + 1)
      BY <1>10, <2>4
    <3>2. CASE j \in 1 .. l
      BY <1>10, <2>4, <3>1, <3>2 DEF Kept, Spaced
    <3>3. CASE j = l + 1
      BY <1>6, <1>10, <2>2, <3>1, <3>3
    <3>4. QED BY <3>1, <3>2, <3>3
  <2>5. QED BY <2>3, <2>4 DEF Spaced
<1>19. Accounted' => \A b : InUse(b)' => b \in Managed'
  <2>1. Accounted' => Accounted
    BY <1>1 DEF Accounted
  <2>2. Accounted => \A b : InUse(b) => b \in Managed
    BY DEF Kept, InUse
  <2>3. QED BY <1>13, <1>16, <2>1, <2>2
<1>20. BlocksOf(e) \cap FreeBlocks(map) = {}
  BY <1>14
<1>21. CASE ~ RmapLoses(map, off, n, env.slots)
  <2>1. FreeBlocks(map') = FreeBlocks(map) \cup BlocksOf(e)
    BY <1>1, <1>2, <1>7, <1>20, <1>21, FreeHere
  <2>2. FreeBlocks(map') \subseteq Managed'
    BY <1>13, <2>1 DEF Kept
  <2>3. \A b : b \in Managed' /\ b \notin FreeBlocks(map') /\ ~ InUse(b)' <=>
               b \in Managed /\ b \notin FreeBlocks(map) /\ ~ InUse(b)
    BY <1>13, <1>14, <1>16, <2>1
  <2>4. lost' = lost
    BY <1>1, <1>2, <1>21
  <2>5. QED BY <1>17, <1>18, <1>19, <2>2, <2>3, <2>4, KeptSame
<1>22. CASE RmapLoses(map, off, n, env.slots)
  <2>1. map' = map /\ lost' = lost + n
    BY <1>1, <1>2, <1>5, <1>7, <1>20, <1>22, LostHere
  <2>2. FreeBlocks(map') \subseteq Managed'
    BY <1>13, <2>1 DEF Kept
  <2>3. ASSUME NEW b \in BlocksOf(e) PROVE ~ InUse(b)
    <3>1. b \in Int /\ off <= b
      BY <1>8
    <3>2. CASE Accounted
      <4>1. InUse(b) => b < Top
        BY <1>4, <3>2, UseBelow DEF IInv, Settled
      <4>2. QED BY <1>4, <1>5, <3>1, <4>1
    <3>3. CASE ~ Accounted
      <4>1. PICK m \in Nat : Untouched(m)
        BY <3>3, NotAccounted
      <4>2. ~ NoDevice
        <5>1. NoDevice => map = <<>>
          BY <4>1 DEF Untouched
        <5>2. Len(map) = env.slots /\ env.slots > 0
          BY <1>22 DEF RmapLoses, Sound
        <5>3. QED BY <5>1, <5>2
      <4>3. InUse(b) => 0 < b /\ b < m + 1
        BY UseBelow, <4>1 DEF Untouched
      <4>4. PICK h \in Nat : h = Head(env.lens)
        BY <1>2, <4>2, FirstDevice
      <4>5. m > 0 => m < h
        BY <4>1, <4>4 DEF Untouched
      <4>6. h > 0 => h \in FreeBlocks(map)
        BY <4>1, <4>2, <4>4 DEF Untouched
      <4>7. h > 0 => h < Top
        BY <4>6 DEF IInv, Server
      <4>8. QED BY <1>4, <1>5, <3>1, <4>3, <4>5, <4>7
    <3>4. QED BY <3>2, <3>3
  <2>4. GivenUp = {b \in Managed \ FreeBlocks(map) : ~ InUse(b)}
    BY DEF GivenUp, InUse
  <2>5. {b \in Managed' \ FreeBlocks(map') : ~ InUse(b)'} = GivenUp \cup BlocksOf(e)
    BY <1>13, <1>14, <1>16, <2>1, <2>3, <2>4
  <2>6. \A b \in BlocksOf(e) : b \notin GivenUp
    BY <1>14, <2>4
  <2>7. Cardinality(GivenUp \cup BlocksOf(e)) = Cardinality(GivenUp) + e.size
    BY <1>2, <1>7, <2>6, MoreGivenUp DEF Kept
  <2>8. Cardinality({b \in Managed' \ FreeBlocks(map') : ~ InUse(b)'}) = lost'
    BY <1>7, <2>1, <2>5, <2>7 DEF Kept
  <2>9. QED BY <1>17, <1>18, <1>19, <2>2, <2>8, KeptFrom
<1>23. QED BY <1>21, <1>22

(* There is nothing to keep at the start.                                   *)
LEMMA InitKept ==
    ASSUME Init
    PROVE  Kept
<1>1. IInv
  BY InitHolds
<1>2. /\ swapdev = FALSE /\ pend = 0 /\ leaked = {}
      /\ th = [t \in Thread |-> Idle] /\ own = [t \in Thread |-> {}]
      /\ devs = <<>> /\ spend = 0 /\ map = <<>> /\ lost = 0
  BY DEF Init
<1>3. \A t \in Thread : own[t] = {} /\ ~ InFlight(t) /\ ~ (th[t].outer > 0)
  BY <1>2 DEF Idle, InFlight
<1>4. \A u \in Used : FALSE
  BY <1>2, <1>3, InUsed
<1>5. Spaced /\ Started
  BY <1>2, <1>3 DEF Spaced, Started
<1>6. FreeBlocks(map) = {}
  BY <1>2 DEF FreeBlocks
<1>7. Managed = {}
  BY <1>2 DEF Managed, NoDevice
<1>8. GivenUp = {}
  BY <1>7 DEF GivenUp
<1>9. QED BY <1>2, <1>4, <1>5, <1>6, <1>8, FS_EmptySet DEF Kept

(* Nothing changes, or the assertion of the server fails. *)
LEMMA StopKept ==
    ASSUME Kept, UNCHANGED <<env, swapdev, pend, leaked, psema, waitq, th, own>>,
           UNCHANGED server
    PROVE  Kept'
<1>1. Used' = Used
  BY DEF Used, InFlight, FlightChunk
<1>2. \A b : InUse(b)' <=> InUse(b)
  BY <1>1 DEF InUse, BlocksUsed
<1>3. Accounted' => Accounted
  BY DEF Accounted
<1>4. Started'
  BY <1>2 DEF Kept, Started
<1>5. QED BY <1>2, <1>3, <1>4, QuietKept

LEMMA NextKept ==
    ASSUME IInv, Kept, Sound(env), [Next]_vars
    PROVE  Kept'
<1>1. CASE SetSwapdev
  BY <1>1, SetKept
<1>2. CASE SwapAdd
  BY <1>2, SwapAddKept
<1>3. ASSUME NEW t \in Thread, NEW n \in env.asks, AllocPending(t, n) \/ Alloc(t, n)
      PROVE  Kept'
  <2>1. CASE AllocPending(t, n)
    BY <2>1, PendingKept
  <2>2. pend \in Nat /\ n \in Nat
    BY AskedPositive DEF IInv, Types
  <2>3. CASE Alloc(t, n) /\ pend = 0
    BY <2>2, <2>3, AllocKept
  <2>4. CASE Alloc(t, n) /\ pend > 0
    BY <2>4, FirstKept
  <2>5. QED BY <1>3, <2>1, <2>2, <2>3, <2>4
<1>4. ASSUME NEW t \in Thread, NEW c \in own[t], FreeLeaks(t, c) \/ Free(t, c)
      PROVE  Kept'
  BY <1>4, LeaksKept, FreeKept
<1>5. ASSUME NEW t \in Thread,
             \/ Send(t) \/ AllocAccounted(t) \/ Allocated(t) \/ AllocRefused(t)
             \/ AllocAgain(t) \/ Freed(t)
      PROVE  Kept'
  BY <1>5, SendKept, AccountedKept, AllocatedKept, RefusedKept, AgainKept, FreedKept
<1>6. ASSUME NEW t \in Thread, ServeAllocPending(t) \/ ServeAlloc(t) \/ ServeFree(t)
      PROVE  Kept'
  BY <1>6, ServePendingKept, ServeAllocKept, ServeFreeKept
<1>7. CASE UNCHANGED vars
  BY <1>7, StopKept DEF vars, server
<1>8. ASSUME NEW t \in Thread, NEW n \in env.files, FreeFile(t, n) PROVE Kept'
  BY <1>8, FreeFileKept DEF Sound
<1>9. ASSUME NEW t \in Thread, ServeFile(t) PROVE Kept'
  BY <1>9, StopKept DEF ServeFile
<1>10. QED
  <2>1. CASE Next
    BY <1>1, <1>2, <1>3, <1>4, <1>5, <1>6, <1>8, <1>9, <2>1 DEF Next
  <2>2. QED BY <1>7, <2>1

(* The device swapent() finds for a block of one.                           *)
LEMMA EntFinds ==
    ASSUME Types, Spaced, NEW i \in DOMAIN devs, NEW b \in DeviceBlocks(devs[i])
    PROVE  SwapEnt(b) = {i}
<1> DEFINE at == {k \in DOMAIN devs : b < devs[k].block + devs[k].len}
<1>1. /\ devs[i].block \in Nat /\ devs[i].len \in Nat
      /\ b \in Int /\ devs[i].block <= b /\ b < devs[i].block + devs[i].len
  BY InDevice
<1>2. i \in at /\ at \in SUBSET Nat /\ i \in Nat
  BY <1>1 DEF Types
<1>3. ASSUME NEW k \in at PROVE ~ (k < i)
  <2>1. devs[k].block \in Nat /\ devs[k].len \in Nat /\ b < devs[k].block + devs[k].len
    BY InDevice
  <2>2. k < i => devs[k].block + devs[k].len < devs[i].block
    BY DEF Spaced
  <2>3. QED BY <1>1, <2>1, <2>2
<1>4. Min(at) = i
  <2>1. at # {}
    BY <1>2
  <2>2. PICK S : S = at
    OBVIOUS
  <2>3. S \in SUBSET Nat /\ S # {} /\ i \in S
    BY <1>2, <2>1, <2>2
  <2>4. Min(S) \in S /\ \A y \in S : Min(S) <= y
    BY <2>3, MinIs
  <2>5. Min(S) \in Nat /\ Min(S) <= i /\ ~ (Min(S) < i)
    BY <1>3, <2>2, <2>3, <2>4
  <2>6. QED BY <1>2, <2>2, <2>5
<1>5. SwapEnt(b) = IF at = {} \/ b < devs[Min(at)].block THEN {} ELSE {Min(at)}
  BY DEF SwapEnt
<1> HIDE DEF at
<1>6. at # {} /\ ~ (b < devs[i].block)
  BY <1>1, <1>2
<1>7. QED BY <1>4, <1>5, <1>6

(* A run of blocks that are all on a device lies on one.                    *)
LEMMA OneDevice ==
    ASSUME Types, Spaced, ~ NoDevice, NEW c \in Runs, BlocksOf(c) \subseteq Managed
    PROVE  \E i \in DOMAIN devs : BlocksOf(c) \subseteq DeviceBlocks(devs[i])
<1>1. \A b : b \in BlocksOf(c) <=> b \in Int /\ c.off <= b /\ b < End(c)
  BY InBlocks
<1>2. c.off \in Int /\ End(c) \in Int /\ c.off < End(c)
  BY DEF Runs, End
<1>3. c.off \in BlocksOf(c)
  BY <1>1, <1>2
<1>4. PICK i \in DOMAIN devs : c.off \in DeviceBlocks(devs[i])
  BY <1>3, InManaged
<1>5. /\ devs[i].block \in Nat /\ devs[i].len \in Nat
      /\ devs[i].block <= c.off /\ c.off < devs[i].block + devs[i].len
  BY <1>4, InDevice
<1>6. PICK x \in Nat : x = devs[i].block + devs[i].len
  BY <1>5
<1>7. x \notin Managed
  <2>1. ASSUME NEW k \in DOMAIN devs, x \in DeviceBlocks(devs[k]) PROVE FALSE
    <3>1. /\ devs[k].block \in Nat /\ devs[k].len \in Nat
          /\ devs[k].block <= x /\ x < devs[k].block + devs[k].len
      BY <2>1, InDevice
    <3>2. i < k => x < devs[k].block
      BY <1>6 DEF Spaced
    <3>3. k < i => devs[k].block + devs[k].len < devs[i].block
      BY DEF Spaced
    <3>4. k < i \/ k = i \/ i < k
      BY DEF Types
    <3>5. QED BY <1>5, <1>6, <3>1, <3>2, <3>3, <3>4
  <2>2. QED BY <2>1, InManaged
<1>8. End(c) <= x
  BY <1>1, <1>2, <1>5, <1>6, <1>7
<1>9. ASSUME NEW b \in BlocksOf(c) PROVE b \in DeviceBlocks(devs[i])
  <2>1. b \in Int /\ c.off <= b /\ b < End(c)
    BY <1>1
  <2>2. devs[i].block <= b /\ b < devs[i].block + devs[i].len
    BY <1>2, <1>5, <1>6, <1>8, <2>1
  <2>3. QED BY <2>1, <2>2, InDevice
<1>10. QED BY <1>9

LEMMA KeptFollows ==
    ASSUME IInv, Kept
    PROVE  BlocksKept
<1>1. Types
  BY DEF IInv
<1>2. ASSUME Accounted, ~ NoDevice, NEW u \in Used
      PROVE  \E i \in DOMAIN devs : \A b \in BlocksUsed(u) : SwapEnt(b) = {i}
  <2>1. BlocksUsed(u) \subseteq Managed
    BY <1>2 DEF Kept
  <2>2. u[3] \in Runs
    BY <1>2 DEF IInv, Settled, Claimed
  <2>3. PICK c \in Runs : c = u[3]
    BY <2>2
  <2>4. BlocksUsed(u) = BlocksOf(c)
    BY <2>3 DEF BlocksUsed
  <2>5. PICK i \in DOMAIN devs : BlocksOf(c) \subseteq DeviceBlocks(devs[i])
    BY <1>1, <1>2, <2>1, <2>4, OneDevice DEF Kept
  <2>6. \A b \in BlocksOf(c) : SwapEnt(b) = {i}
    BY <1>1, <2>5, EntFinds DEF Kept
  <2>7. QED BY <2>4, <2>6
<1>3. QED BY <1>2 DEF Kept, BlocksKept

(* No block of swap space is forgotten: each the server has is in use, free *)
(* or counted as lost when the map was full, however the threads' and the   *)
(* administrator's calls interleave with the first devices, and what a page *)
(* set has lies on one device (rmap.c:136, swap.c:9, vm_swap.c:256); and    *)
(* none has two uses.                                                       *)
THEOREM BlocksStay ==
    ASSUME \A e \in Envs : Sound(e)
    PROVE  Spec => []BlocksOwned
<1>1. Spec => []IInv
  BY SwapInvariance
<1>2. Init => Kept
  BY InitKept
<1>3. IInv /\ Kept /\ [Next]_vars => Kept'
  <2>1. IInv => Sound(env)
    BY DEF IInv, Types
  <2>2. QED BY <2>1, NextKept
<1>4. IInv /\ Kept => BlocksOwned
  BY ApartFollows, KeptFollows DEF BlocksOwned
<1>5. Spec => []Kept
  BY <1>1, <1>2, <1>3, PTL DEF Spec
<1>6. QED BY <1>1, <1>4, <1>5, PTL
=============================================================================
