CONSTANTS
  Node <- SyncNode
  Edge <- SyncEdge
  Ends <- SyncEnds
  Meta <- SyncMeta
  Sound <- Uid
  Layers <- LooseLayers
  Anchor <- SyncAnchor
  Rank <- SyncRank
  FirstLayer <- SyncFirst
  MaxEdits = 2
  MaxCrashes = 1
SPECIFICATION Spec
INVARIANTS
  TypeOK
  AppliedMeansAgreed
PROPERTIES
  Converges
  NoSilentReMint
