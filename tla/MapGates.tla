------------------------------ MODULE MapGates ------------------------------
(***************************************************************************)
(* The contribution gates (omai/gates.py): what a contribution, an ordered *)
(* sequence of changes, must satisfy against the materialized view before  *)
(* propose() pushes any of it.                                             *)
(*                                                                         *)
(* The registry, gauge and dimensional gates and the recomputation of uids *)
(* look at one added element and the fixed vocabulary, never at the map:   *)
(* Sound is the set of uids whose element passes them.  Two elements with  *)
(* one uid have one identity, so the identity gate's collision case cannot *)
(* arise and what is left of it is the set of no-ops.                      *)
(***************************************************************************)
EXTENDS MapLog

CONSTANT Sound

(* Faults: a retired entry does not count; edges do not converge. *)
NoOpIfLive(c, view) ==
    \/ /\ c.op = "add_node" /\ c.uids \subseteq DOMAIN view.nodes
       /\ \A u \in c.uids : ~ view.nodes[u].deprecated
    \/ c.op = "add_edge" /\ c.uids \subseteq DOMAIN view.edges

NoOpNodes(c, view) == c.op = "add_node" /\ c.uids \subseteq DOMAIN view.nodes

(* Exact convergence: an add whose uid is in the view already, deprecated   *)
(* and superseded entries included.                                         *)
NoOp(c, view) == \/ c.op = "add_node" /\ c.uids \subseteq DOMAIN view.nodes
                 \/ c.op = "add_edge" /\ c.uids \subseteq DOMAIN view.edges

no_op_indices(contribution, view) ==
    {i \in DOMAIN contribution : NoOp(contribution[i], view)}

WellFormed(contribution) ==
    \A i \in DOMAIN contribution :
        IsAdd(contribution[i]) => contribution[i].uids \subseteq Sound

EndsOf(c) == UNION {Ends[e] : e \in c.uids}

(* Fault: the order of the records is not looked at. *)
ReachableInAnyOrder(contribution, view) ==
    \A i \in DOMAIN contribution :
        contribution[i].op = "add_edge" =>
            \A n \in EndsOf(contribution[i]) :
                \/ n \in DOMAIN view.nodes
                \/ \E j \in DOMAIN contribution : /\ contribution[j].op = "add_node"
                                                 /\ n \in contribution[j].uids

(* Every endpoint of an added edge is a node of the map or one added by an  *)
(* earlier record of the contribution.                                      *)
Reachable(contribution, view) ==
    \A i \in DOMAIN contribution :
        contribution[i].op = "add_edge" =>
            \A n \in EndsOf(contribution[i]) :
                \/ n \in DOMAIN view.nodes
                \/ \E j \in 1 .. i - 1 : /\ contribution[j].op = "add_node"
                                         /\ n \in contribution[j].uids

(* The graph of a contribution: its nodes are the added nodes and the       *)
(* endpoints of its edges.  It is connected when no part of the nodes is    *)
(* left by no edge.                                                         *)
GraphNodes(adds) ==
    UNION {IF c.op = "add_node" THEN c.uids ELSE EndsOf(c) : c \in adds}

Isolated(S, adds) ==
    \A c \in adds : c.op = "add_edge" => \/ EndsOf(c) \subseteq S
                                         \/ EndsOf(c) \cap S = {}

WeaklyConnected(adds) ==
    \A S \in SUBSET GraphNodes(adds) :
        Isolated(S, adds) => S = {} \/ S = GraphNodes(adds)

(* Fault: an edge attaches a contribution only with all its ends. *)
ConnectedByWholeEdge(contribution, view) ==
    LET adds == {c \in {contribution[i] : i \in DOMAIN contribution \
                            no_op_indices(contribution, view)} : IsAdd(c)}
    IN adds # {} =>
         /\ \E c \in adds : c.op = "add_edge" /\ EndsOf(c) \subseteq DOMAIN view.nodes
         /\ WeaklyConnected(adds)

(* Fault: one attached piece is enough. *)
ConnectedInPieces(contribution, view) ==
    LET adds == {c \in {contribution[i] : i \in DOMAIN contribution \
                            no_op_indices(contribution, view)} : IsAdd(c)}
    IN adds # {} => \E c \in adds : /\ c.op = "add_edge"
                                    /\ EndsOf(c) \cap DOMAIN view.nodes # {}

(* The connectivity gate looks at the additions that are not no-ops. *)
Connected(contribution, view) ==
    LET adds == {c \in {contribution[i] : i \in DOMAIN contribution \
                            no_op_indices(contribution, view)} : IsAdd(c)}
    IN adds # {} =>
         /\ \E c \in adds : /\ c.op = "add_edge"
                            /\ EndsOf(c) \cap DOMAIN view.nodes # {}
         /\ WeaklyConnected(adds)

(* validate_contribution() returns no problem. *)
Admissible(contribution, view) ==
    /\ WellFormed(contribution)
    /\ Reachable(contribution, view)
    /\ Connected(contribution, view)
=============================================================================
