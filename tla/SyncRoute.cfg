CONSTANTS
  Node <- RouteNode
  Edge <- RouteEdge
  Ends <- RouteEnds
  Meta <- SyncMeta
  Sound <- Uid
  Layers <- RouteLayers
  Anchor <- RouteAnchor
  Rank <- RouteRank
  FirstLayer <- RouteFirst
  MaxEdits = 1
  MaxCrashes = 0
SPECIFICATION Spec
PROPERTIES
  PrintedRouteConverges
