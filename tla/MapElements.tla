----------------------------- MODULE MapElements -----------------------------
(***************************************************************************)
(* How the operator layer's declarations are written down: constructors for  *)
(* nodes and edges, and validate_dag, the structural discipline a set of     *)
(* nodes and edges has to keep.                                              *)
(***************************************************************************)
EXTENDS Naturals, Sequences, FiniteSets

LOCAL INSTANCE SequencesExt

LOCAL Elements(seq) == {seq[i] : i \in DOMAIN seq}

\* Node classes (omai.operator.space).  The dimension is the first field's.
Node(name, dim, kind, contractions) ==
    [name |-> name, dim |-> dim, kind |-> kind, contractions |-> contractions]
Observable(name, dim)       == Node(name, dim, "observable", {})
Scaffolding(name, dim, obs) == Node(name, dim, "scaffolding", obs)
Approximation(name, dim)    == Node(name, dim, "approximation", {})

\* Operators.  An edge that counts as executable evaluates, unless apply_edge
\* has no rule for its formula: an equality sympy has folded to True, a Sum over
\* a base that is no input or over a repeated index, a derivative or integral
\* left standing, an input without a symbol, an output unit without a scale.
Edge(name, ins, outs, executable, evaluates) ==
    [name |-> name, ins |-> ins, outs |-> outs,
     executable |-> executable, evaluates |-> evaluates]
Provide(name, out)           == Edge(name, << >>, <<out>>, TRUE, TRUE)
Closed(name, ins, outs)      == Edge(name, ins, outs, TRUE, TRUE)
Unevaluable(name, ins, outs) == Edge(name, ins, outs, TRUE, FALSE)
Implicit(name, ins, outs)    == Edge(name, ins, outs, FALSE, TRUE)

\* The edges named in a tuple, in its order.
InOrder(names, edges) ==
    FoldLeft(LAMBDA done, n : Append(done, CHOOSE e \in Elements(edges) : e.name = n),
             << >>, names)

Ends(e) == Elements(e.ins) \cup Elements(e.outs)

\* The structural part of validate_dag: the violations it reports.
validate_dag(nodes, edges) ==
    LET known      == {n.name : n \in Elements(nodes)}
        observable == {n.name : n \in {n \in Elements(nodes) : n.kind = "observable"}}
    IN  {<<"duplicate", nodes[i].name>> :
            i \in {i \in DOMAIN nodes : \E j \in 1 .. i - 1 : nodes[j].name = nodes[i].name}}
        \cup {<<"no contraction", n.name>> :
            n \in {n \in Elements(nodes) : n.kind = "scaffolding" /\ n.contractions = {}}}
        \cup {<<"not observable", n.name>> :
            n \in {n \in Elements(nodes) : ~(n.contractions \subseteq observable)}}
        \cup {<<"terminal", n.name>> :
            n \in {n \in Elements(nodes) : n.kind = "approximation" /\ n.contractions # {}}}
        \cup {<<"unknown end", e.name>> :
            e \in {e \in Elements(edges) : ~(Ends(e) \subseteq known)}}
=============================================================================
