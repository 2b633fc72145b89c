SPECIFICATION LiveSpec
CONSTANTS
    a = a
    b = b
    c = c
    p1 = p1
    p2 = p2
    Rt = Rt
    Cheated = Cheated
    Bg = Bg
    Root = Root
    None = None
    Thread = {a, b, c}
    Proc = {p1, p2}
    ProcOf <- ProcOfThread
    RunTicks = 3
    MaxOink = 1
    Envs <- EnvsPass
INVARIANTS TypeOK RunnableQueued Counts PreemptPending
PROPERTIES Served
\* every thread may exit
CHECK_DEADLOCK FALSE
