CONSTANTS
  Node <- MCNode
  Edge <- MCEdge
  Ends <- MCEnds
  Meta <- MCMeta
  Sound <- MCSound
  Writer = {w1, w2}
  Contributions <- RaceContributions
  GenesisLog <- MCGenesisLog
  MaxLog = 4
  MaxCrashes = 1
  Empty = Empty
  Garbled = Garbled
SPECIFICATION Spec
SYMMETRY WriterSymmetry
\* Proposals stop at MaxLog, and a torn log stops every reader and writer.
CHECK_DEADLOCK FALSE
INVARIANTS
  TypeOK
  Rooted
  NoDanglingEdge
  HeadReadsCurrentMap
PROPERTIES
  StaleAppendIsReported
  VersionStable
  ReturnedVersionHoldsContribution
  ContractSpec
  RevivalIsARace
