------------------------------- MODULE MCSema -------------------------------
(* Small instances of Sema, and the mutated definitions its properties are  *)
(* tried against.                                                           *)
EXTENDS Sema, TLC

Symm == Permutations(Thread)
=============================================================================
