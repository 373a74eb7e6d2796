\* A rendezvous given for a node that changes rings.
CONSTANTS
  Nodes = {n1, n2, n3}
  Rendvs = {h1}
  NoRendv = NoRendv
  LatenciesUS <- ThreeLatencies
  NumRings = 3
  PrimarySize = 1
  SecondarySize = 1
  ExponentBase = 2
  BetaNum = 1
  BetaDen = 2
SPECIFICATION Spec
PROPERTY RendvStored
