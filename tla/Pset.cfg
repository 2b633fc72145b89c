SPECIFICATION Spec
CONSTANTS
    t1 = t1
    t2 = t2
    t3 = t3
    file = file
    cow1 = cow1
    cow2 = cow2
    anon1 = anon1
    anon2 = anon2
    f1 = f1
    f2 = f2
    f3 = f3
    Thread = {t1, t2, t3}
    File = file
    Cow = {cow1, cow2}
    Anon = {anon1, anon2}
    Frame = {f1, f2, f3}
    None = None
    MaxStores = 2
    Envs <- EnvsPass
INVARIANTS TypeOK NoPanic SleepersWanted FramesOwned MapsCurrent RefsCount
PROPERTIES MemoryKept
\* processes may have exited, or all wait for memory nobody frees without the daemon
CHECK_DEADLOCK FALSE
