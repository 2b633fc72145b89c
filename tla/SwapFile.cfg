SPECIFICATION Spec
CONSTANTS
    a = a
    b = b
    c = c
    Thread = {a, b, c}
    Envs <- EnvsFile
SYMMETRY Symmetry
INVARIANT FreesNotZero
\* everyone may sleep for swap space that nobody frees
CHECK_DEADLOCK FALSE
