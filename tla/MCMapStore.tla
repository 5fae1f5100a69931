----------------------------- MODULE MCMapStore -----------------------------
(***************************************************************************)
(* Instances of MapStore: a genesis of one node, and one more node with    *)
(* the edge that ties it to the genesis node.                              *)
(***************************************************************************)
EXTENDS MapStore, TLC

\* Writers are interchangeable: no definition tells one from another, and every
\* property of the runs is an invariant or speaks of one step.
WriterSymmetry == Permutations(Writer)

MCNode == {"g", "n"}
MCEdge == {"e"}
MCEnds == [e \in {"e"} |-> {"g", "n"}]
MCMeta == {0, 1}
MCSound == {"g", "n", "e"}

MCChange(op, uids, meta, new) == [op |-> op, uids |-> uids, meta |-> meta, new |-> new]
AddNode(u) == MCChange("add_node", {u}, 0, {})
AddEdge(u) == MCChange("add_edge", {u}, 0, {})
EditMeta(u) == MCChange("edit_meta", {u}, 1, {})
Deprecate(u) == MCChange("deprecate", {u}, 0, {})
Supersede(u, v) == MCChange("supersede", {u}, 0, {v})
Equate(u, v) == MCChange("equate", {u, v}, 0, {})

MCGenesisLog == << make_record(1, AddNode("g"), GENESIS_PREV) >>

Additions == {<< AddNode("n"), AddEdge("e") >>, << AddEdge("e") >>}
Refused == {<< AddNode("n") >>, << AddEdge("e"), AddNode("n") >>}

RaceContributions == Additions \cup Refused \cup {<< Deprecate("n") >>}

SerialContributions ==
    RaceContributions \cup {<< EditMeta("g") >>, << Supersede("n", "g") >>,
                            << Equate("g", "n") >>}
=============================================================================
