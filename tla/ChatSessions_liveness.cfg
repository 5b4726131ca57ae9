SPECIFICATION FairSpec
CONSTANTS
    Turns = {t1, t2}
    Resets = {r1}
    Lifespan = main
    Sessions = {s1, s2}
    None = none
    MaxSessions = 1
    MaxAttempts = 3
PROPERTIES EveryTurnAnswered EvictedIsClosed ImplementsOwnership
