------------------------------- MODULE MCMsg -------------------------------
(* Small instances of Msg: two clients, two server threads, two portrefs, in *)
(* the settings below.                                                       *)
EXTENDS Msg

CONSTANTS c1, c2, s1, s2, r1, r2

Up(open, ops, events, holds, servers) ==
    [open |-> open, ops |-> ops, events |-> events, shut |-> FALSE,
     holds |-> holds, servers |-> servers]
Closes(open, ops) == [Up(open, ops, FALSE, FALSE, {s1}) EXCEPT !.shut = TRUE]

(* Requests interrupted by events, answered by two server threads, or held   *)
(* by one; connections that come and go; a server that closes its port.      *)
EnvsPass ==
    {Up({r1}, {"send"}, TRUE, FALSE, {s1}),
     Up({r1}, {"send"}, TRUE, FALSE, {s1, s2}),
     Up({r1, r2}, {"send"}, TRUE, TRUE, {s1}),
     Up({r1}, {"send", "clone", "connect", "disconnect"}, FALSE, FALSE, {s1}),
     Closes({r1}, {"send", "disconnect"})}

(* The port closes while one client connects.                                *)
EnvsConnect == {Closes({}, {"connect"})}
=============================================================================
