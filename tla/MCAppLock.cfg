SPECIFICATION FairSpec
CONSTANTS
    Apps = {a1}
    Callers = {c1, c2}
    Slots = {s1, s2}
INVARIANTS LockSafety
PROPERTIES RequestsAreAnswered ShutdownEnds
