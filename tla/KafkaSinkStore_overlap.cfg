\* Two requests at once.
SPECIFICATION Spec
CONSTANTS
    Threads = {t1, t2}
    Ids = {1, 2, 3, 4, 5}
    Numbers = {1, 2, 3}
    DerivedId <- MCDerived
    Seeds <- ThreeRows
    Patches <- MCPatches
    None = None
    Junk = Junk
    MaxRequests = 2
    MaxRestarts = 0
SYMMETRY Symmetry
PROPERTY OverlapsHarmless
CHECK_DEADLOCK FALSE
