CONSTANTS
  Node <- RepairNode
  Edge <- RepairEdge
  Ends <- RepairEnds
  Meta <- RepairMeta
  Sound <- RepairSound
  Writer = {w1, w2}
  Contributions <- RepairContributions
  GenesisLog <- RepairGenesisLog
  MaxLog = 5
  MaxCrashes = 1
  Empty = Empty
  Garbled = Garbled
SPECIFICATION Spec
SYMMETRY WriterSymmetry
\* Proposals stop at MaxLog, and a torn log stops every reader and writer.
CHECK_DEADLOCK FALSE
INVARIANTS
  CrashIsRepairable
  NoIslands
