\* Three nodes compete for two entries; the clock takes any of three times,
\* in any order, so entries share a timeout or outlive later ones.
CONSTANTS
  Nodes = {n1, n2, n3}
  LatenciesUS = {l1, l2}
  ClockTimes <- ThreeTimes
  MaxSize = 2
  Period = 1
  None = None
SPECIFICATION Spec
INVARIANT CacheConsistent
PROPERTY ImplementsBoundedCache
