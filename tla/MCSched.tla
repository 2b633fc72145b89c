------------------------------ MODULE MCSched ------------------------------
(* Small instances of Sched. *)
EXTENDS Sched, TLC

CONSTANTS a, b, c, p1, p2

ProcOfThread == a :> p1 @@ b :> p1 @@ c :> p2

Setting == [boot |-> {a, c}, forks |-> FALSE, exits |-> FALSE, prio |-> FALSE]

(* Two processes whose threads fork and exit; three threads that share the  *)
(* CPU; two threads that change priorities.                                 *)
Forking  == [Setting EXCEPT !.forks = TRUE, !.exits = TRUE]
Sharing  == [Setting EXCEPT !.forks = TRUE]
Changing == [Setting EXCEPT !.prio = TRUE]

EnvsPass == {Forking, Sharing, Changing}
=============================================================================
