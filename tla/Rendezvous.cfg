\* Two clients, three connections and two packets over a tunnel whose packets have 60
\* bytes; sends and receives of 20 and 30 bytes cut them anywhere.
CONSTANTS
  Null = Null
  Nodes <- AllNodes
  Clients <- BothClients
  Samples <- AllSamples
  Traffic <- SomeTraffic
  RendvFDs = {1, 2, 3}
  SendSizes = {20}
  RecvSizes = {30}
  MaxPacketSize = 60
  WordSize = 4
  MagicNumber = 5
  MaxProgramSize = 8
  Values <- AllValues
  MaxConns = 3
  MaxPushes = 2
SPECIFICATION RendvFairSpec
INVARIANTS PacketsReadAsWritten HostConsistent StreamConsistent
PROPERTIES PacketsMoveOn
CHECK_DEADLOCK FALSE
