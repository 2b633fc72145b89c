------------------------------- MODULE MCSwap -------------------------------
(* Small instances of Swap. *)
EXTENDS Swap, TLC

CONSTANTS a, b, c

(* The threads are alike, and no property names one. *)
Symmetry == Permutations({a, b, c})

Setting(lens, asks, chunks, slots) ==
    [lens |-> lens, asks |-> asks, chunks |-> chunks, slots |-> slots,
     free1st |-> FALSE, late |-> FALSE, files |-> {}]

(* The page set of a mapped file is freed while others swap. *)
EnvsFile == {[Setting(<<4>>, {1}, 1, 8) EXCEPT !.files = {2}]}

(* Two devices, one or two pages at a time; single pages of one device, and  *)
(* a map whose array is full with every other page free; the page set of a   *)
(* mapped file.                                                              *)
EnvsPass == {Setting(<<4, 2>>, {1, 2}, 1, 8), Setting(<<5>>, {1}, 2, 2)} \cup EnvsFile

(* Not in a run: the first request to the server frees blocks; a device is   *)
(* added while threads sleep for swap space.                                 *)
EnvsBoot == {[Setting(<<4>>, {1}, 2, 8) EXCEPT !.free1st = TRUE]}
EnvsLate == {[Setting(<<2, 2>>, {1}, 2, 8) EXCEPT !.late = TRUE]}
=============================================================================
