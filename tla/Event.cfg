SPECIFICATION LiveSpec
CONSTANTS
    a = a
    b = b
    c = c
    p1 = p1
    p2 = p2
    p3 = p3
    Thread = {a, b, c}
    Proc = {p1, p2, p3}
    NoProc = NoProc
    Envs <- EnvsPass
INVARIANTS TypeOK EvqHandedOn TargetsLinked
PROPERTIES NotifyEnds
\* every thread may have exited
CHECK_DEADLOCK FALSE
