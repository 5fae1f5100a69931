----------------------------- MODULE MCOperators -----------------------------
(***************************************************************************)
(* compute() and topological_order() over every small tuple of operators,   *)
(* cyclic ones and alternative producers included.                          *)
(***************************************************************************)
EXTENDS Executor, TopologicalOrder, TLC

CONSTANTS a, b, c,
          MaxComputed, MaxOrdered   \* bounds on the length of the edge tuple

VARIABLES walk      \* which of the two walks this behaviour takes

mcvars == <<walk, vars, ordervars>>

Edge(ins, outs, exec, evaluates) ==
    [name |-> "", ins |-> ins, outs |-> outs, executable |-> exec,
     evaluates |-> evaluates]

InputLists == {<< >>, <<a>>, <<b>>, <<c>>, <<a, b>>, <<b, a>>, <<b, c>>}
Plain      == {Edge(i, <<o>>, TRUE, TRUE) : i \in InputLists, o \in Space}
Odd        == {Edge(<<a>>, <<b>>, FALSE, TRUE), Edge(<<a>>, <<b>>, TRUE, FALSE),
               Edge(<<b>>, <<c>>, FALSE, TRUE), Edge(<<b>>, <<c>>, TRUE, FALSE),
               Edge(<<a>>, <<b, c>>, TRUE, TRUE), Edge(<<a>>, <<c, b>>, FALSE, TRUE)}

Tuples(ops, n) == UNION {[1 .. k -> ops] : k \in 0 .. n}

Src(s, f) == [space |-> s, form |-> f]
SourceSets == {<< >>, a :> Src(a, "operator"), a :> Src(a, "unit"), a :> Src(a, "bare"),
               a :> Src(b, "operator"), c :> Src(c, "unit"),
               (a :> Src(a, "operator")) @@ (b :> Src(b, "unit")),
               (a :> Src(b, "operator")) @@ (b :> Src(b, "unit"))}

\* The walk that is not taken is over, or was not begun.
MCInit ==
    \/ /\ walk = "compute"
       /\ \E E \in Tuples(Plain \cup Odd, MaxComputed), S \in SourceSets : Start(E, S, c)
       /\ operators = << >> /\ next = 0 /\ visits = << >> /\ result = << >> /\ ended = "idle"
    \/ /\ walk = "order"
       /\ \E E \in Tuples(Plain \cup Odd, MaxOrdered) : StartOrder(E)
       /\ edges = << >> /\ sources = (c :> Src(c, "operator")) /\ target = c
       /\ stack = << >> /\ memo = (c :> c) /\ trace = <<Record("LOAD", c)>>
       /\ outcome = "returned"

MCNext == \/ walk = "compute" /\ Next /\ UNCHANGED <<walk, ordervars>>
          \/ walk = "order" /\ OrderNext /\ UNCHANGED <<walk, vars>>

MCSpec == MCInit /\ [][MCNext]_mcvars /\ WF_mcvars(MCNext)

\* Every call of compute() and of topological_order() comes to an end, on a
\* cyclic tuple of operators too.
Terminates == <>(ended # "running" /\ outcome # "running")
=============================================================================
