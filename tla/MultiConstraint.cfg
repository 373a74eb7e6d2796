\* One search over three nodes and two targets, every query with its timer.
CONSTANTS
    n1 = n1  n2 = n2  n3 = n3  t1 = t1  t2 = t2
    Nodes = {n1, n2, n3}  Entries = {n1}
    Client = client  Nobody = nobody
    Targets = {t1, t2}
    Knows <- Rings  Measures <- SteadyMeasures  Constraint <- Limits
    BetaNum = 1  BetaDen = 2
    CacheStates <- OneToProbe
    MaxTurns = 3
SPECIFICATION FairSpec
INVARIANTS
    MCConsistent
PROPERTIES
    ImplementsSearch ClientGetsNode
CHECK_DEADLOCK FALSE
