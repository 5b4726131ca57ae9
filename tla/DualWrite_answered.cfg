\* Two requests, a batch of two transactions, and a broker that need not answer.
SPECIFICATION FairSpec
CONSTANTS
    c1 = c1 c2 = c2 a1 = a1 t1 = t1 t2 = t2 u1 = u1 u2 = u2
    r1 = r1 r2 = r2 r3 = r3
    Requests = {r1, r2}
    Customers = {c1, c2}
    Accounts = {a1}
    Txns = {t1, t2}
    Uniqs = {u1, u2}
    None = None
    NewRows <- MCNewRows
    Patches <- MCPatches
    Seeds <- MCSeeds
    ProduceEnabled = TRUE
    MaxLog = 2
PROPERTY CommittedIsAnswered
