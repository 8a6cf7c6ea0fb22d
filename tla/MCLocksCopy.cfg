SPECIFICATION Spec
CONSTANTS
    Procs = {p1, p2}
    Mortal = {}
    Tables = {t1}
    None = None
INVARIANT NoCircularWait
CHECK_DEADLOCK FALSE
