SPECIFICATION Spec
CONSTANTS
    c1 = c1
    c2 = c2
    c3 = c3
    Customers <- MCCustomers
    Dims = {"segment", "country"}
    Profiles <- MCProfiles
    Starts <- MCStarts
    Labels = {1, 2, 3, 4}
    Unknown = 3
    Other = 9
    Blank = Blank
    None = None
    TopN = 2
    Schemas <- MCSchemas
    Lower <- MCLower
    MaxWrites = 1
INVARIANTS
    TypeOK
    PartsAgree
    ProfileFaithful
CHECK_DEADLOCK FALSE
