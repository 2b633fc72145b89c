SPECIFICATION LiveSpec
CONSTANTS
    c1 = c1
    c2 = c2
    s1 = s1
    s2 = s2
    r1 = r1
    r2 = r2
    Client = {c1, c2}
    Server = {s1, s2}
    Ref = {r1, r2}
    NoRef = NoRef
    Envs <- EnvsPass
    SvCap = 1
INVARIANTS TypeOK NoPanic MessagesAllocated Answerable ReplyIsMine PortAlive WaitCountsQueue
PROPERTIES CallEnds
\* in some settings every client is done, or nobody sends
CHECK_DEADLOCK FALSE
