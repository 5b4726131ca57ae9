\* Two writers of one customer, every delivery at once and in order.
SPECIFICATION Spec
CONSTANTS
    c1 = c1 c2 = c2 a1 = a1 t1 = t1 t2 = t2 u1 = u1 u2 = u2
    r1 = r1 r2 = r2 r3 = r3
    Requests = {r1, r2}
    Customers = {c1}
    Accounts = {}
    Txns = {}
    Uniqs = {u1, u2}
    None = None
    NewRows <- MCNewRows
    Patches <- RowPatches
    Seeds <- MCSeeds
    ProduceEnabled = TRUE
    MaxLog = 0
INVARIANT ConsumersHoldTheTable
