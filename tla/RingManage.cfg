\* Three nodes in two rings of one primary and two secondaries: nodes move in
\* and out around a frozen ring, one candidate is dropped for incomplete
\* reports, and any members stay silent.
CONSTANTS
  Nodes = {n1, n2, n3}
  Rendvs = {h1}
  NoRendv = NoRendv
  LatenciesUS <- TwoLatencies
  NumRings = 2
  PrimarySize = 1
  SecondarySize = 2
  ExponentBase = 2
  BetaNum = 1
  BetaDen = 2
SPECIFICATION FairManageSpec
INVARIANTS DumpStaysCurrent RingsConsistent
PROPERTIES ReportersStay SilentLeave RingThaws
