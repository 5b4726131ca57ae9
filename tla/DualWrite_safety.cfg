\* Three requests on one seeded customer, a second customer, one account and a
\* generated batch, in bypass mode and with a CDC connector.
SPECIFICATION Spec
CONSTANTS
    c1 = c1 c2 = c2 a1 = a1 t1 = t1 t2 = t2 u1 = u1 u2 = u2
    r1 = r1 r2 = r2 r3 = r3
    Requests = {r1, r2, r3}
    Customers = {c1, c2}
    Accounts = {a1}
    Txns = {t1}
    Uniqs = {u1, u2}
    None = None
    NewRows <- MCNewRows
    Patches <- MCPatches
    Seeds <- MCSeeds
    ProduceEnabled = TRUE
    MaxLog = 2
SYMMETRY Symmetry
INVARIANTS TypeOK NoPhantomEvents QuietKeysConverge ConnectorOwnsKafka
