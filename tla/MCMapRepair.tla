---------------------------- MODULE MCMapRepair ----------------------------
(***************************************************************************)
(* Crashes in the middle of a contribution whose edges hang together only  *)
(* through the first of them, and what can be proposed afterwards.         *)
(***************************************************************************)
EXTENDS MapStore, TLC

\* Writers are interchangeable: no definition tells one from another.
WriterSymmetry == Permutations(Writer)

RepairNode == {"x", "y", "u", "v", "t"}
RepairEdge == {"a", "b", "c", "d"}
RepairMeta == {0}
RepairSound == RepairNode \cup RepairEdge
RepairEnds == [e \in RepairEdge |-> CASE e = "a" -> {"x", "y"}
                                      [] e = "b" -> {"x", "u"}
                                      [] e = "c" -> {"y", "v"}
                                      [] e = "d" -> {"u", "t"}]

Add(op, u) == [op |-> op, uids |-> {u}, meta |-> 0, new |-> {}]
AddNode(u) == Add("add_node", u)
AddEdge(u) == Add("add_edge", u)

RepairGenesisLog ==
    LET first == << make_record(1, AddNode("x"), GENESIS_PREV) >>
        second == Append(first, NextRecord(first, AddNode("y")))
    IN Append(second, NextRecord(second, AddNode("v")))

RepairContributions ==
    { << AddEdge("a"), AddNode("u"), AddEdge("b"), AddEdge("c") >>,
      << AddNode("u"), AddEdge("b") >>,
      << AddNode("t"), AddEdge("d") >>,
      << AddNode("u"), AddEdge("c") >> }
=============================================================================
