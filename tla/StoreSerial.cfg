CONSTANTS
  Node <- MCNode
  Edge <- MCEdge
  Ends <- MCEnds
  Meta <- MCMeta
  Sound <- MCSound
  Writer = {w1}
  Contributions <- SerialContributions
  GenesisLog <- MCGenesisLog
  MaxLog = 6
  MaxCrashes = 2
  Empty = Empty
  Garbled = Garbled
SPECIFICATION Spec
\* Proposals stop at MaxLog, and a torn log stops every reader and writer.
CHECK_DEADLOCK FALSE
INVARIANTS
  SerialChain
  ReproposalPushesNothing
  ReplayMeansLatest
PROPERTIES
  RetiredStaysRetired
  PushRepairsCurrent
