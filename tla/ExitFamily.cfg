SPECIFICATION LiveSpec
CONSTANTS
    Proc = {p1, p2, p3}
    Root = p1
    NoProc = NoProc
    Thread = {t1, t2}
    Main = t1
    Waiter = {t1}
    Events = TRUE
INVARIANTS TypeOK RefsCount NoPanic ReportedOnce NoChildTrue UnitsCountStat
PROPERTIES ExitWakes
CHECK_DEADLOCK FALSE
