------------------------------- MODULE Executor -------------------------------
(***************************************************************************)
(* omai.representation.executor.compute: resolve a target space from the    *)
(* registered sources over a tuple of edges, depth first, each space once.  *)
(* The recursion of resolve() is a stack of frames; a frame is a call that  *)
(* chose a producing edge and is collecting its inputs.                     *)
(***************************************************************************)
EXTENDS OperatorGraph

\* A Source is a Representation (or a thunk of one): the space it really
\* represents, and whether it is in operator form already, can be lifted
\* with its declared unit, or declares none (to_operator raises KeyError).
Source == [space: Space, form: {"operator", "unit", "bare"}]

Failure == {"NoSourceError", "ExternalSolveRequired", "KeyError",
            "ValueError", "NotImplementedError", "EvaluationError", "RecursionError"}

VARIABLES
    edges,      \* the tuple of operators, in declaration order
    sources,    \* [space name -> Source], a partial function
    target,     \* the space asked for
    stack,      \* calls of resolve() in progress: [space, op, done]
    memo,       \* [space name -> the space its representation is of]
    trace,      \* the TraceSteps
    outcome     \* "running", "returned" or the exception that left compute()

given == <<edges, sources, target>>
vars  == <<edges, sources, target, stack, memo, trace, outcome>>

Top == stack[Len(stack)]
Op(frame) == edges[frame.op]
Collected == stack # << >> /\ Top.done = Len(Op(Top).ins)

\* The space resolve() is called on next: the target first, then the inputs
\* of the edge on top of the stack, in their order.
Wanted == IF stack = << >> THEN target ELSE Op(Top).ins[Top.done + 1]

Supplied == DOMAIN sources
Resolved == DOMAIN memo
OnStack  == {stack[i].space : i \in DOMAIN stack}

Running(s) == outcome = "running" /\ ~Collected /\ Wanted = s
Raise(e)   == outcome' = e /\ UNCHANGED <<stack, memo>>
Record(kind, s) == [kind |-> kind, space |-> s]

Start(E, S, t) ==
    /\ edges = E /\ sources = S /\ target = t
    /\ stack = << >> /\ memo = << >> /\ trace = << >>
    /\ outcome = "running"

\* Fault: an input that is there is asked for again.
TakeAgain(s) ==
    /\ Running(s) /\ s \in Resolved
    /\ IF stack = << >> THEN outcome' = "returned" ELSE outcome' = outcome
    /\ UNCHANGED <<stack, memo, trace, given>>

\* Fault: the input after the one that was asked for is skipped.
TakeTwo(s) ==
    /\ Running(s) /\ s \in Resolved
    /\ IF stack = << >>
       THEN outcome' = "returned" /\ stack' = stack
       ELSE stack' = [stack EXCEPT ![Len(stack)].done = @ + 2] /\ outcome' = outcome
    /\ UNCHANGED <<memo, trace, given>>

\* resolve(s) returns what the memo holds, to the edge that asked for it or,
\* for the target itself, to the caller of compute().
Take(s) ==
    /\ Running(s) /\ s \in Resolved
    /\ IF stack = << >>
       THEN outcome' = "returned" /\ stack' = stack
       ELSE stack' = [stack EXCEPT ![Len(stack)].done = @ + 1] /\ outcome' = outcome
    /\ UNCHANGED <<memo, trace, given>>

\* Fault: the memo is not asked first.
LoadAgain(s) ==
    /\ Running(s) /\ s \in Supplied
    /\ sources[s].form # "bare"
    /\ memo' = [x \in Resolved \cup {s} |-> IF x = s THEN sources[s].space ELSE memo[x]]
    /\ trace' = Append(trace, Record("LOAD", s))
    /\ UNCHANGED <<stack, outcome, given>>

\* Fault: every source is loaded, wanted or not.
LoadEagerly(s) ==
    /\ outcome = "running" /\ s \in Supplied \ Resolved
    /\ sources[s].form # "bare"
    /\ memo' = [x \in Resolved \cup {s} |-> IF x = s THEN sources[s].space ELSE memo[x]]
    /\ trace' = Append(trace, Record("LOAD", s))
    /\ UNCHANGED <<stack, outcome, given>>

\* A registered source is loaded, and lifted unless in operator form.  It is
\* kept under the name it was registered for, whatever it represents.
Load(s) ==
    /\ Running(s) /\ s \in Supplied \ Resolved
    /\ sources[s].form # "bare"
    /\ memo' = [x \in Resolved \cup {s} |-> IF x = s THEN sources[s].space ELSE memo[x]]
    /\ trace' = trace \o (IF sources[s].form = "unit"
                          THEN <<Record("LOAD", s), Record("LIFT", s)>>
                          ELSE <<Record("LOAD", s)>>)
    /\ UNCHANGED <<stack, outcome, given>>

LoadFails(s) ==
    /\ Running(s) /\ s \in Supplied \ Resolved
    /\ sources[s].form = "bare"
    /\ Raise("KeyError")
    /\ trace' = Append(trace, Record("LOAD", s))
    /\ UNCHANGED given

\* No source: the first declared producer must be one compute() can run.
NoProducer(s) ==
    ProducersOf(edges, s) # {} => is_nullary(edges[Producer(edges, s)])

\* Fault: the producers are looked at before the sources.
RefuseSupplied(s) ==
    /\ Running(s) /\ s \notin Resolved
    /\ \/ NoProducer(s) /\ Raise("NoSourceError")
       \/ /\ ~NoProducer(s)
          /\ ~edges[Producer(edges, s)].executable
          /\ Raise("ExternalSolveRequired")
    /\ UNCHANGED <<trace, given>>

Refuse(s) ==
    /\ Running(s) /\ s \notin Supplied \cup Resolved
    /\ \/ NoProducer(s) /\ Raise("NoSourceError")
       \/ /\ ~NoProducer(s)
          /\ ~edges[Producer(edges, s)].executable
          /\ Raise("ExternalSolveRequired")
    /\ UNCHANGED <<trace, given>>

\* resolve() has no notion of a call in progress: asked again for a space it
\* is already resolving, it descends for ever, which Python cuts short.
Descend(s) ==
    /\ Running(s) /\ s \notin Supplied \cup Resolved
    /\ ~NoProducer(s)
    /\ edges[Producer(edges, s)].executable
    /\ IF s \in OnStack
       THEN Raise("RecursionError")
       ELSE /\ stack' = Append(stack, [space |-> s, op |-> Producer(edges, s), done |-> 0])
            /\ UNCHANGED <<memo, outcome>>
    /\ UNCHANGED <<trace, given>>

\* Fault: a formula that cannot be evaluated is taken for one that was.
RejectionUnchecked(op) ==
    IF is_multi_output(op) THEN "NotImplementedError"
    ELSE IF \E i \in DOMAIN op.ins : memo[op.ins[i]] # op.ins[i] THEN "ValueError"
    ELSE "none"

\* apply_edge's checks, in its order, and last what may go wrong in reading,
\* lambdifying, calling or rescaling the formula, as one EvaluationError: by its
\* place it is a NotImplementedError of its own, a ValueError of the layout or of
\* the unit bridge, or whatever the generated code raises.
Rejection(op) ==
    IF is_multi_output(op) THEN "NotImplementedError"
    ELSE IF \E i \in DOMAIN op.ins : memo[op.ins[i]] # op.ins[i] THEN "ValueError"
    ELSE IF ~op.evaluates THEN "EvaluationError"
    ELSE "none"

\* All inputs are in: apply_edge runs, the step is traced, the call returns.
Execute ==
    /\ outcome = "running" /\ Collected
    /\ LET op == Op(Top)  s == Top.space IN
       IF Rejection(op) # "none"
       THEN Raise(Rejection(op)) /\ UNCHANGED trace
       ELSE /\ memo' = [x \in Resolved \cup {s} |-> IF x = s THEN op.outs[1] ELSE memo[x]]
            /\ trace' = Append(trace, Record("EXEC", s))
            /\ stack' = SubSeq(stack, 1, Len(stack) - 1)
            /\ UNCHANGED outcome
    /\ UNCHANGED given

Next ==
    \/ \E s \in Space : \/ Take(s) \/ Load(s) \/ LoadFails(s)
                        \/ Refuse(s) \/ Descend(s)
    \/ Execute
    \/ outcome # "running" /\ UNCHANGED vars

\* Any edges, any sources, any target.
Init ==
    \E E \in Seq(Operator), D \in SUBSET Space, t \in Space :
        \E S \in [D -> Source] : Start(E, S, t)

Spec == Init /\ [][Next]_vars

-----------------------------------------------------------------------------
\* What compute() promises, stated without a stack, a memo or an order.

\* An edge that can be run once its inputs are there.
Usable(E, s) ==
    /\ ProducersOf(E, s) # {}
    /\ LET op == E[Producer(E, s)] IN
       ~is_nullary(op) /\ op.executable /\ ~is_multi_output(op) /\ op.evaluates

\* The sets that hold what the sources give and, with its inputs, what an
\* edge computes; the least of them is what can be derived.
StepClosed(E, S) ==
    {C \in SUBSET Space :
        /\ \A s \in DOMAIN S : S[s].form # "bare" => s \in C
        /\ \A s \in Space \ DOMAIN S :
               Usable(E, s) /\ Inputs(E[Producer(E, s)]) \subseteq C => s \in C}

Derivable(s) == \A C \in StepClosed(edges, sources) : s \in C

\* The sets that hold the target and the inputs of the producer of whatever
\* they hold and has no source; the least of them is what the target needs.
NeedClosed(E, S, t) ==
    {C \in SUBSET Space :
        /\ t \in C
        /\ \A s \in C \ DOMAIN S :
               ProducersOf(E, s) # {} => Inputs(E[Producer(E, s)]) \subseteq C}

Needed(s) == \A C \in NeedClosed(edges, sources, target) : s \in C

-----------------------------------------------------------------------------
TypeOK ==
    /\ edges \in Seq(Operator) /\ target \in Space
    /\ Supplied \subseteq Space /\ sources \in [Supplied -> Source]
    /\ Resolved \subseteq Space /\ memo \in [Resolved -> Space]
    /\ stack \in Seq([space: Space, op: DOMAIN edges, done: Nat])
    /\ \A i \in DOMAIN stack : stack[i].done <= Len(edges[stack[i].op].ins)
    /\ trace \in Seq([kind: {"LOAD", "LIFT", "EXEC"}, space: Space])
    /\ outcome \in {"running", "returned"} \cup Failure

\* compute() returns a target only if it can be derived: resolved "from
\* sources over the operator DAG" (executor.py:738).
ReturnsDerivable == outcome = "returned" => Derivable(target)

\* ... and gives up only on a target no order of steps could derive, except
\* when a source was registered under another space's name (ValueError).
RefusesUnderivable ==
    outcome \in Failure \ {"ValueError"} => ~Derivable(target)

\* The trace is a plan: each space is produced once, and an edge runs only
\* after all its inputs were produced, each of them truly of its space.
Produced(n) == {trace[m].space : m \in {m \in 1 .. n : trace[m].kind # "LIFT"}}
TraceIsAPlan ==
    \A n \in DOMAIN trace :
        /\ trace[n].kind # "LIFT" => trace[n].space \notin Produced(n - 1)
        /\ trace[n].kind = "EXEC" =>
               \A s \in Inputs(edges[Producer(edges, trace[n].space)]) :
                   s \in Produced(n - 1) /\ memo[s] = s

\* "Lazy (only resolves what target needs)" (executor.py:742).
OnlyNeeded == \A n \in DOMAIN trace : Needed(trace[n].space)
=============================================================================
