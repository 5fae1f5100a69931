CONSTANTS
  Node <- MCNode
  Edge <- MCEdge
  Ends <- MCEnds
  Meta <- MCMeta
  Sound <- MCSound
  Writer = {w1}
  Contributions <- RaceContributions
  GenesisLog <- MCGenesisLog
  MaxLog = 4
  MaxCrashes = 1
  Empty = Empty
  Garbled = Garbled
SPECIFICATION Spec
\* Proposals stop at MaxLog, and a torn log stops every reader and writer.
CHECK_DEADLOCK FALSE
INVARIANTS
  PartialWriteIsSurfaced
