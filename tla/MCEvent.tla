------------------------------ MODULE MCEvent ------------------------------
(* Small instances of Event. *)
EXTENDS Event

CONSTANTS a, b, c, p1, p2, p3

Setting(owner, senders, targets, ops, exit, group) ==
    [owner |-> owner, unborn |-> {}, senders |-> senders, targets |-> targets,
     ops |-> ops, group |-> group, exit |-> exit]

Apart == a :> p1 @@ b :> p2 @@ c :> p3
Pair  == a :> p1 @@ b :> p2 @@ c :> p2

(* Two senders at a process; threads that signal each other, themselves and  *)
(* their group and exit; a process of two threads, one of them new.          *)
EnvsPass ==
    {Setting(Apart, {a, b}, {p3}, {"all"}, FALSE, {}),
     Setting(Pair, {a, b}, {p2}, {"all", "one", "pg"}, TRUE, {p1, p2}),
     Setting(Pair, {a}, {p2}, {"pg"}, TRUE, {p2}),
     Setting(Apart, {a, b}, {p1, p2}, {"all", "self"}, FALSE, {}),
     [Setting(Pair, {a, b}, {p2}, {"all"}, FALSE, {}) EXCEPT !.unborn = {c}]}

EnvsExit == {Setting(Apart, {a, b}, {p3}, {"all"}, TRUE, {})}
=============================================================================
