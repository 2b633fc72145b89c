SPECIFICATION LiveSpec
CONSTANTS
    Thread = {t1, t2, t3}
    InitCount = 1
    CountCap = 2
INVARIANTS TypeOK UnitsConserved WokenHolds MutualExclusion
PROPERTIES NoOvertaking SleepEnds
\* as an event counter, every thread may be asleep until someone else releases it
CHECK_DEADLOCK FALSE
