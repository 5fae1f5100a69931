--------------------------- MODULE TopologicalOrder ---------------------------
(***************************************************************************)
(* omai.operator.operator.topological_order: a depth-first visit of the     *)
(* edges that schedules every producer of an input before the operator      *)
(* itself, and raises on an operator it meets while visiting it.            *)
(***************************************************************************)
EXTENDS OperatorGraph

VARIABLES
    operators,  \* the tuple of operators, in declaration order
    next,       \* the operator the outer loop visits next
    visits,     \* visits in progress: [op, asked], asked = the last <<input, producer>>
    result,     \* the operators scheduled so far (visited is their set)
    ended       \* "running", "ordered" or "ValueError"

ordervars == <<operators, next, visits, result, ended>>

Visited  == {result[i] : i \in DOMAIN result}
Visiting == {visits[i].op : i \in DOMAIN visits}
Deepest  == visits[Len(visits)]

\* Fault: only the first producer of an input is visited.
CallsFirst(i) == {c \in (DOMAIN operators[i].ins) \X (DOMAIN operators) :
                     /\ operators[i].ins[c[1]] \in Outputs(operators[c[2]])
                     /\ \A j \in 1 .. c[2] - 1 : operators[i].ins[c[1]] \notin Outputs(operators[j])}

\* The two nested loops of visit(): inputs in order, and for each of them its
\* producers in declaration order.
Before(c, d) == c[1] < d[1] \/ (c[1] = d[1] /\ c[2] < d[2])
Calls(i) == {c \in (DOMAIN operators[i].ins) \X (DOMAIN operators) :
                c[2] \in ProducersOf(operators, operators[i].ins[c[1]])}
Pending(frame) == {c \in Calls(frame.op) : Before(frame.asked, c)}
NextCall(frame) == CHOOSE c \in Pending(frame) :
                       \A d \in Pending(frame) : c = d \/ Before(c, d)

StartOrder(E) ==
    /\ operators = E
    /\ next = 1 /\ visits = << >> /\ result = << >>
    /\ ended = "running"

\* Fault: an operator that is scheduled already counts as a cycle.
EnterOnce(i, frames) ==
    IF i \in Visited \cup Visiting
    THEN visits' = visits /\ ended' = "ValueError"
    ELSE visits' = Append(frames, [op |-> i, asked |-> <<0, 0>>]) /\ ended' = ended

\* The body of visit(i), up to its first recursive call.
Enter(i, frames) ==
    IF i \in Visited
    THEN visits' = frames /\ ended' = ended
    ELSE IF i \in Visiting
    THEN visits' = visits /\ ended' = "ValueError"
    ELSE visits' = Append(frames, [op |-> i, asked |-> <<0, 0>>]) /\ ended' = ended

\* The outer loop.
VisitNext ==
    /\ ended = "running" /\ visits = << >> /\ next \in DOMAIN operators
    /\ Enter(next, visits)
    /\ next' = next + 1
    /\ UNCHANGED <<operators, result>>

VisitProducer ==
    /\ ended = "running" /\ visits # << >> /\ Pending(Deepest) # {}
    /\ Enter(NextCall(Deepest)[2], [visits EXCEPT ![Len(visits)].asked = NextCall(Deepest)])
    /\ UNCHANGED <<operators, next, result>>

\* All producers are in: the operator is scheduled and the visit returns.
Schedule ==
    /\ ended = "running" /\ visits # << >> /\ Pending(Deepest) = {}
    /\ result' = Append(result, Deepest.op)
    /\ visits' = SubSeq(visits, 1, Len(visits) - 1)
    /\ UNCHANGED <<operators, next, ended>>

Return ==
    /\ ended = "running" /\ visits = << >> /\ next \notin DOMAIN operators
    /\ ended' = "ordered"
    /\ UNCHANGED <<operators, next, visits, result>>

OrderNext ==
    \/ VisitNext \/ VisitProducer \/ Schedule \/ Return
    \/ ended # "running" /\ UNCHANGED ordervars

\* Any tuple of edges.  Operators are equal by name in the code, and here by
\* their place in the tuple: no two of a tuple have one name.
OrderInit ==
    \E E \in Seq(Operator) :
        /\ \A i, j \in DOMAIN E : E[i].name = E[j].name => i = j
        /\ StartOrder(E)

OrderSpec == OrderInit /\ [][OrderNext]_ordervars

-----------------------------------------------------------------------------
OrderTypeOK ==
    /\ operators \in Seq(Operator)
    /\ next \in 1 .. Len(operators) + 1
    /\ result \in Seq(DOMAIN operators)
    /\ visits \in Seq([op: DOMAIN operators, asked: Nat \X Nat])
    /\ ended \in {"running", "ordered", "ValueError"}

\* "All producers of a space are scheduled before any consumer", and every
\* operator is scheduled, once (operator.py:130-131).
Ordered ==
    ended = "ordered" =>
        /\ Len(result) = Len(operators) /\ Visited = DOMAIN operators
        /\ \A i, j \in DOMAIN operators : Feeds(operators, i, j) =>
               \E n \in DOMAIN result :
                   result[n] = j /\ \E m \in 1 .. n - 1 : result[m] = i

\* It raises only on a graph that is not a DAG (operator.py:124-125).
RaisesOnCycle == ended = "ValueError" => Cyclic(operators)
=============================================================================
