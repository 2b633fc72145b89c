------------------------------ MODULE Memory ------------------------------
(***************************************************************************)
(* What the page sets promise to the processes that map them: each set     *)
(* holds what was stored last, whatever faults, copies on write, page      *)
(* stealing and page I/O do underneath.  One page of each set; it holds    *)
(* the number of stores to it.                                             *)
(***************************************************************************)
EXTENDS Integers

CONSTANTS
    Set,        \* the page sets
    MaxStores,  \* stores looked at for one set (a bound)
    Gone        \* the "value" of a page set that does not exist

VARIABLE mem

Init == mem \in [Set -> {0, Gone}]

Store(s) == mem[s] \in 0..(MaxStores - 1) /\ mem' = [mem EXCEPT ![s] = @ + 1]

(* fork(): the new set starts as a copy. *)
Fork(s, c) == mem[s] # Gone /\ mem[c] = Gone /\ mem' = [mem EXCEPT ![c] = mem[s]]

(* The last reference to a set goes. *)
Free(s) == mem[s] # Gone /\ mem' = [mem EXCEPT ![s] = Gone]

Next == \E s \in Set : Store(s) \/ Free(s) \/ \E c \in Set : Fork(s, c)

Spec == Init /\ [][Next]_mem
=============================================================================
