------------------------------ MODULE MCShipped ------------------------------
(***************************************************************************)
(* compute() and topological_order() over the shipped map: every target, from *)
(* the sources of every code.                                                *)
(***************************************************************************)
EXTENDS Executor, TopologicalOrder, ShippedMap, TLC

VARIABLES walk      \* which of the two walks this behaviour takes

mcvars == <<walk, vars, ordervars>>

\* The edges compute() can run: first declared for what they produce.
Runs(i) == LET op == AllEdges[i] IN
    /\ ~is_nullary(op) /\ op.executable /\ ~is_multi_output(op) /\ op.evaluates
    /\ \A j \in 1 .. i - 1 : Outputs(AllEdges[j]) \cap Outputs(op) = {}

\* Sources: one code's, whose bare values the user has lifted or not; or a
\* result for everything that no edge can compute.
SourceMaps ==
    {SourcesOf(code, canonical) : code \in Codes, canonical \in BOOLEAN}
    \cup {[s \in Space \ UNION {Outputs(AllEdges[i]) : i \in {i \in DOMAIN AllEdges : Runs(i)}}
              |-> [space |-> s, form |-> "operator"]]}

MCInit ==
    \/ /\ walk = "compute"
       /\ \E S \in SourceMaps, t \in Space : Start(AllEdges, S, t)
       /\ operators = << >> /\ next = 0 /\ visits = << >> /\ result = << >> /\ ended = "idle"
    \/ /\ walk = "order"
       /\ StartOrder(AllEdges)
       /\ edges = << >> /\ sources = << >> /\ target = "Structure"
       /\ stack = << >> /\ memo = << >> /\ trace = << >> /\ outcome = "idle"

MCNext == \/ walk = "compute" /\ Next /\ UNCHANGED <<walk, ordervars>>
          \/ walk = "order" /\ OrderNext /\ UNCHANGED <<walk, vars>>

MCSpec == MCInit /\ [][MCNext]_mcvars

-----------------------------------------------------------------------------
\* Derivability on a map too large for its subsets: the spaces reached by at
\* most MaxDepth rounds of edges, which must be a fixed point.
MaxDepth == 12
\* compute() returns a target of the shipped map exactly when it is derivable.
ShippedExact ==
    walk = "compute" /\ outcome # "running" =>
        LET steps == {AllEdges[i] : i \in {i \in DOMAIN AllEdges : Runs(i)}}
            OneMore(C) == C \cup {op.outs[1] : op \in
                {op \in steps : op.outs[1] \notin Supplied /\ Inputs(op) \subseteq C}}
            Reachable[n \in 0 .. MaxDepth] ==
                IF n = 0 THEN {s \in Supplied : sources[s].form # "bare"}
                ELSE LET C == Reachable[n - 1] IN OneMore(C)
            R == Reachable[MaxDepth]
        IN  OneMore(R) = R /\ (outcome = "returned" <=> target \in R)

\* The shipped map is a DAG: it is ordered, producers before consumers.
ShippedOrdered == walk = "order" => ended # "ValueError" /\ Ordered

\* "The closed-form subset (per-mode thermodynamics, identity edges, Matthiessen
\* sums, Wigner combination, contractions) can be evaluated directly off the
\* sympy formula"; the others are implicit and raise ExternalSolveRequired
\* (executor.py:8-14).  So given sources that lift, no compute() of the shipped
\* map comes to an edge that counts as executable and cannot be evaluated.
ClosedFormEvaluates ==
    (\A s \in Supplied : sources[s].form # "bare") => outcome # "EvaluationError"
=============================================================================
