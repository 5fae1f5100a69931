---------------------------- MODULE OperatorGraph ----------------------------
(***************************************************************************)
(* The operator layer as a graph: an edge (omai.operator.operator.Operator) *)
(* takes spaces to spaces, and a tuple of edges, in declaration order, is   *)
(* what the validator, topological_order and the executor walk.  A formula  *)
(* is kept as the two things the walkers ask of it: whether the edge counts *)
(* as executable, and whether apply_edge can evaluate it, given inputs of   *)
(* the shape their spaces declare and values for its plain symbols.         *)
(***************************************************************************)
EXTENDS Naturals, Sequences

CONSTANTS Space     \* names of the spaces; a Space is equal to another by name

Operator == [name: STRING,
             ins: Seq(Space), outs: Seq(Space),
             executable: BOOLEAN,   \* is_executable_in_sympy
             evaluates: BOOLEAN]    \* apply_edge gets a value out of the formula

Inputs(op)  == {op.ins[i] : i \in DOMAIN op.ins}
Outputs(op) == {op.outs[i] : i \in DOMAIN op.outs}

is_nullary(op)      == op.ins = << >>
is_multi_output(op) == Len(op.outs) > 1

\* Every operator that produces s; several may (alternative producers).
ProducersOf(edges, s) == {i \in DOMAIN edges : s \in Outputs(edges[i])}

\* The executor's producers_by_space: setdefault keeps the first declared.
Producer(edges, s) ==
    CHOOSE i \in ProducersOf(edges, s) :
        \A j \in ProducersOf(edges, s) : i <= j

\* Operator i is scheduled before operator j when j reads what i produces.
Feeds(edges, i, j) == Outputs(edges[i]) \cap Inputs(edges[j]) # {}

\* A cycle, without walking one: a non-empty set of operators each of which
\* is fed from inside the set (for a finite tuple of edges the two agree).
Cyclic(edges) ==
    \E S \in SUBSET DOMAIN edges :
        S # {} /\ \A j \in S : \E i \in S : Feeds(edges, i, j)
=============================================================================
