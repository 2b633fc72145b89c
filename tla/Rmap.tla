-------------------------------- MODULE Rmap --------------------------------
(***************************************************************************)
(* The resource map of src/src/libc/rmap.c, the swap server's record of    *)
(* free blocks: entries of consecutive blocks in ascending order.  The     *)
(* array without its header is the sequence; the header's r_off, the       *)
(* number of entries, is its length.                                       *)
(***************************************************************************)
EXTENDS Integers, Sequences, SequencesExt, FiniteSetsExt

Entry(off, size) == [off |-> off, size |-> size]
End(e) == e.off + e.size
BlocksOf(e) == e.off .. End(e) - 1

(* What a map stands for. *)
FreeBlocks(m) == UNION {BlocksOf(m[i]) : i \in DOMAIN m}

(* Entries are in order, none is empty, and neighbours are one entry.       *)
Ascending(m) ==
    /\ \A i \in DOMAIN m : m[i].off > 0 /\ m[i].size > 0
    /\ \A i, j \in DOMAIN m : i < j => End(m[i]) < m[j].off

Fitting(m, n) == {i \in DOMAIN m : m[i].size >= n}

(* rmap_alloc(), as the map left by it: the first fit is trimmed at its     *)
(* start or deleted.                                                        *)
RmapTake(m, n) ==
    LET i == Min(Fitting(m, n))
    IN  IF m[i].size > n THEN [m EXCEPT ![i] = Entry(@.off + n, @.size - n)]
        ELSE RemoveAt(m, i)

(* rmap_alloc(), as what it returns: 0 when nothing fits. *)
RmapIndex(m, n) == IF Fitting(m, n) = {} THEN 0 ELSE m[Min(Fitting(m, n))].off

(* Where the scan of rmap_free() ends: an entry that abuts, or the first    *)
(* beyond; one past the end if there is none.                               *)
Place(m, off, n) ==
    LET stops == {i \in DOMAIN m : \/ End(m[i]) = off
                                   \/ off + n = m[i].off
                                   \/ off < m[i].off}
    IN  IF stops = {} THEN Len(m) + 1 ELSE Min(stops)

AbutsEnd(m, off, i)      == i \in DOMAIN m /\ End(m[i]) = off
AbutsStart(m, off, n, i) == i \in DOMAIN m /\ off + n = m[i].off

(* Mutant: an entry that grows is not joined with the next. *)
RmapGrowAlone(m, n, i) == [m EXCEPT ![i] = Entry(@.off, @.size + n)]

(* The entry grows, and is joined with the next if they now abut. *)
RmapGrow(m, n, i) ==
    LET g == [m EXCEPT ![i] = Entry(@.off, @.size + n)]
    IN  IF i < Len(m) /\ End(g[i]) = g[i + 1].off
        THEN RemoveAt([g EXCEPT ![i] = Entry(@.off, @.size + g[i + 1].size)], i + 1)
        ELSE g

(* rmap_free() loses the space when the header says that all slots, its     *)
(* own included, are taken: that is one entry later than the array ends.    *)
RmapLoses(m, off, n, slots) ==
    LET i == Place(m, off, n)
    IN  Len(m) = slots /\ ~ AbutsEnd(m, off, i) /\ ~ AbutsStart(m, off, n, i)

(* rmap_free() *)
RmapFree(m, off, n, slots) ==
    LET i == Place(m, off, n)
    IN  CASE AbutsEnd(m, off, i)           -> RmapGrow(m, n, i)
          [] AbutsStart(m, off, n, i)
             /\ ~ AbutsEnd(m, off, i)      -> [m EXCEPT ![i] = Entry(off, @.size + n)]
          [] RmapLoses(m, off, n, slots)   -> m
          [] OTHER                         -> InsertAt(m, i, Entry(off, n))
=============================================================================
