----------------------------- MODULE MCMapSync -----------------------------
(***************************************************************************)
(* Instances of MapSync.  Edges e and d both produce n and may be given    *)
(* new formulas (e2, d2); n may be given a new identity (n2, with k on     *)
(* it); m hangs on n by f.                                                 *)
(***************************************************************************)
EXTENDS MapSync

SyncNode == {"g", "n", "n2", "m"}
SyncEdge == {"e", "d", "e2", "d2", "k", "f"}
SyncEnds == [u \in SyncEdge |-> CASE u \in {"e", "d", "e2", "d2"} -> {"g", "n"}
                                  [] u = "k" -> {"g", "n2"}
                                  [] u = "f" -> {"n", "m"}]
SyncAnchor == [u \in SyncNode \cup SyncEdge |->
                  CASE u \in {"n", "n2"} -> "quantity N"
                    [] u \in {"e", "d", "e2", "d2"} -> "output n"
                    [] u = "k" -> "output n2"
                    [] u = "f" -> "output m"
                    [] OTHER -> u]
SyncRank == [u \in SyncNode \cup SyncEdge |->
                CASE u = "g" -> 1 [] u = "n" -> 2 [] u = "n2" -> 3 [] u = "m" -> 4
                  [] u = "d2" -> 5 [] u = "e" -> 6 [] u = "d" -> 7
                  [] u = "e2" -> 8 [] u = "k" -> 9 [] u = "f" -> 10]
SyncMeta == {0, 1}

Layer(uids, edited) == [u \in uids |-> IF u \in edited THEN 1 ELSE 0]

SyncFirst == Layer({"g", "n", "e", "d"}, {})
SyncLayers == { SyncFirst,
                Layer({"g", "n", "e2", "d"}, {"n"}),
                Layer({"g", "n", "e2", "d2"}, {}),
                Layer({"g", "n2", "k"}, {}),
                Layer({"g", "n", "m", "e", "f"}, {"e"}),
                Layer({"g"}, {}) }

(* One more layer, with a node that no edge ties to the rest. *)
LooseLayers == SyncLayers \cup {Layer({"g", "n", "m", "e", "d"}, {})}

(* Two edges that share no node, at the two ends of a map held together by  *)
(* a third, are given new formulas.                                         *)
RouteNode == {"x", "y", "u", "v"}
RouteEdge == {"a", "b", "c", "a2", "c2"}
RouteEnds == [e \in RouteEdge |-> CASE e \in {"a", "a2"} -> {"x", "y"}
                                    [] e = "b" -> {"y", "u"}
                                    [] e \in {"c", "c2"} -> {"u", "v"}]
RouteAnchor == [u \in RouteNode \cup RouteEdge |->
                   CASE u \in {"a", "a2"} -> "output y"
                     [] u = "b" -> "output u"
                     [] u \in {"c", "c2"} -> "output v"
                     [] OTHER -> u]
RouteRank == [u \in RouteNode \cup RouteEdge |->
                 CASE u = "x" -> 1 [] u = "y" -> 2 [] u = "u" -> 3 [] u = "v" -> 4
                   [] u = "a" -> 5 [] u = "a2" -> 6 [] u = "b" -> 7
                   [] u = "c" -> 8 [] u = "c2" -> 9]
RouteFirst == Layer({"x", "y", "u", "v", "a", "b", "c"}, {})
RouteLayers == {RouteFirst, Layer({"x", "y", "u", "v", "a2", "b", "c2"}, {})}

(* The route main() prints with exit code 3, "Write an explicit supersede   *)
(* tying each old_uid to its new_uid, then re-run --apply on the remaining  *)
(* add / edit_meta", ends in a run that finds nothing left to do.           *)
PrintedRouteConverges == <>[](InSync /\ said = "in sync")
=============================================================================
