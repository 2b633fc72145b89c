------------------------------- MODULE MCPset -------------------------------
(* Small instances of Pset. *)
EXTENDS Pset

CONSTANTS t1, t2, t3, file, cow1, cow2, anon1, anon2, f1, f2, f3

Setting(map) ==
    [map |-> map, child |-> [t \in Thread |-> None], frames |-> {f1, f2},
     steal |-> FALSE, swap |-> FALSE, exit |-> FALSE, tables |-> FALSE,
     rderr |-> FALSE]

Views(x, y, z) == t1 :> x @@ t2 :> y @@ t3 :> z

(* A file with two copies on write over it, and the page daemon; two        *)
(* processes in need of one frame, with swap; the file's reader beside a    *)
(* copy, with swap; fork(); exits; two threads of a process; exits with     *)
(* page tables, of the file's last view too.                                *)
Stealing == [Setting(Views(cow1, cow2, None)) EXCEPT !.steal = TRUE, !.rderr = TRUE]
Swapping == [Setting(Views(anon1, anon2, None)) EXCEPT
                !.frames = {f1}, !.steal = TRUE, !.swap = TRUE, !.rderr = TRUE]
Pushing  == [Setting(Views(cow1, file, None)) EXCEPT !.steal = TRUE, !.swap = TRUE]
Forking  == [Setting(Views(anon1, None, anon2)) EXCEPT
                !.child = Views(anon2, None, None)]
Exiting  == [Setting(Views(cow1, cow2, None)) EXCEPT
                !.frames = Frame, !.exit = TRUE, !.rderr = TRUE]
Threads  == [Setting(Views(cow1, cow1, None)) EXCEPT !.frames = Frame,
                !.tables = TRUE]
Leaving  == [Setting(Views(cow1, file, None)) EXCEPT !.frames = Frame,
                !.exit = TRUE, !.tables = TRUE]

EnvsPass == {Stealing, Swapping, Pushing, Forking, Exiting, Threads, Leaving}

(* A copy made by fork() under the page daemon; page tables under it. *)
EnvsFork   == {[Forking EXCEPT !.steal = TRUE]}
EnvsTables == {[Leaving EXCEPT !.exit = FALSE, !.steal = TRUE]}
=============================================================================
