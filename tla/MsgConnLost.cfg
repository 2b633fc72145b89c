SPECIFICATION LiveSpec
CONSTANTS
    c1 = c1
    c2 = c2
    s1 = s1
    s2 = s2
    r1 = r1
    r2 = r2
    Client = {c1, c2}
    Server = {s1, s2}
    Ref = {r1, r2}
    NoRef = NoRef
    Envs <- EnvsConnect
    SvCap = 1
PROPERTIES CallEnds
\* in some settings every client is done, or nobody sends
CHECK_DEADLOCK FALSE
