\* Three nodes: two behind firewalls, or a seed without room, or one that ends.
CONSTANTS
    s = s  x = x  y = y
    Nodes = {s, x, y}
    Seeds <- SeedsOfAll
    Overlays <- ThreeOverlays
    MaxOutstanding = 0
SPECIFICATION FairSpec
INVARIANTS
    MembersAreMeasurable
PROPERTIES
    DeadAreForgotten EverybodyMeets
CHECK_DEADLOCK FALSE
