\* One search that goes from n1 to n2 and round between n2 and n3, equally far.
CONSTANTS
    n1 = n1  n2 = n2  n3 = n3
    Nodes = {n1, n2, n3}  Entries = {n1}
    Client = client  Nobody = nobody
    Targets = {t1}
    Knows <- Rings  Lat <- SteadyLat
    BetaNum = 1  BetaDen = 2
SPECIFICATION FairSpec
INVARIANTS
    SearchConsistent AtMostOneAnswer AnswersNeverWorse
PROPERTIES
    EveryRequestAnswered ClientGetsNode
CHECK_DEADLOCK FALSE
