SPECIFICATION Spec
CONSTANTS
    Proc = {p1, p2}
    Root = p1
    NoProc = NoProc
    Thread = {t1}
    Main = t1
    Waiter = {t1}
    Events = FALSE
INVARIANTS SleeperHasChild
CHECK_DEADLOCK FALSE
