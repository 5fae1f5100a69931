CONSTANTS
  Node <- SyncNode
  Edge <- SyncEdge
  Ends <- SyncEnds
  Meta <- SyncMeta
  Sound <- Uid
  Layers <- SyncLayers
  Anchor <- SyncAnchor
  Rank <- SyncRank
  FirstLayer <- SyncFirst
  MaxEdits = 3
  MaxCrashes = 1
SPECIFICATION Spec
INVARIANTS
  InSyncMeansAgree
