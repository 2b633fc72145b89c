SPECIFICATION Spec
CONSTANTS
    a = a
    b = b
    c = c
    Thread = {a, b, c}
    Envs <- EnvsPass
SYMMETRY Symmetry
INVARIANTS TypeOK BlocksOwned SleeperNoRoom
\* everyone may sleep for swap space that nobody frees
CHECK_DEADLOCK FALSE
