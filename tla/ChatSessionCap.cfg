\* Three turns, with and without a session id, over a cache of one session.
SPECIFICATION CapSpec
CONSTANTS
    Turns = {t1, t2, t3}
    Resets = {r1}
    Lifespan = main
    Sessions = {s1, s2, s3}
    None = none
    MaxSessions = 1
    MaxAttempts = 2
SYMMETRY Symmetry
INVARIANTS TypeOK OneOwner SessionIsolation LockExcludes ShutdownClosesAll GrowthBounded
