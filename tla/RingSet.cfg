\* Three rings of two primaries and two secondaries, five nodes: moves between
\* rings, promotion, eviction, freezing, the swap, replacement, fillVector.
CONSTANTS
  Nodes = {n1, n2, n3, n4, n5}
  Rendvs = {h1}
  NoRendv = NoRendv
  LatenciesUS <- ThreeLatencies
  NumRings = 3
  PrimarySize = 2
  SecondarySize = 2
  ExponentBase = 2
  BetaNum = 1
  BetaDen = 2
SPECIFICATION Spec
SYMMETRY NodeSymmetry
INVARIANTS RingsWellFormed RingsMatchLatencies FillVectorComplete
PROPERTIES FrozenRingsKeepMembers SwapMovesFirewalledOut
