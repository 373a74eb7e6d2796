\* Three TCP and two DNS probes over three descriptors; the probes run out.
CONSTANTS
  t1 = t1
  t2 = t2
  t3 = t3
  d1 = d1
  d2 = d2
  TCPProbes <- ThreeTCP
  DNSProbes <- TwoDNS
  MaxFD = 3
  None = None
SPECIFICATION FairSpec
CHECK_DEADLOCK FALSE
INVARIANTS ConnectionsConsistent NoConnectionOutlivesProbe
PROPERTIES DNSConnectionIsOwn EveryProbeEnds
