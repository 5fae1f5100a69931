-------------------------- MODULE OperatorsProofs --------------------------
(***************************************************************************)
(* The two recursive searches of the operator layer, for every tuple of      *)
(* operators, cyclic ones included.                                          *)
(*                                                                           *)
(* compute() returns exactly what can be derived, and only looks at what is  *)
(* needed.  The stack is the argument: its frames are a chain of edges, each *)
(* waiting for the space of the next.  What is resolved lies in every set    *)
(* closed under steps; and when compute() gives up, the spaces on the chain  *)
(* can be taken out of all there is without breaking closure, the target     *)
(* with them.                                                                *)
(*                                                                           *)
(* topological_order() returns an order, producers first, and raises only on *)
(* a cycle: the stack is a path of producers, so an operator met twice on it *)
(* closes a cycle; and a frame has had all its calls up to the last one      *)
(* scheduled.                                                                *)
(***************************************************************************)
EXTENDS Executor, TopologicalOrder, EnumerationProofs, SequenceTheorems, TLAPS

(* compute() *)

(* Several edges may produce a space: the first of them does exist. *)
LEMMA ProducerProduces ==
  ASSUME NEW E \in Seq(Operator), NEW s \in Space, ProducersOf(E, s) # {}
  PROVE  /\ Producer(E, s) \in DOMAIN E
         /\ s \in Outputs(E[Producer(E, s)])
<1> DEFINE P == ProducersOf(E, s)
<1>1. P \subseteq Nat  BY DEF ProducersOf
<1>2. PICK i \in P : \A j \in P : i <= j
  BY <1>1, LeastNumber, Zenon
<1>3. Producer(E, s) \in P
  BY <1>2, Zenon DEF Producer
<1>4. QED  BY <1>3 DEF ProducersOf
-----------------------------------------------------------------------------
(* The first producer of each space, and the spaces resolve() descends on. *)
FirstProducer(E) == [s \in Space |-> Producer(E, s)]
Opened(E) == {s \in Space : /\ ProducersOf(E, s) # {}
                            /\ ~is_nullary(E[Producer(E, s)])
                            /\ E[Producer(E, s)].executable}

(* A frame is a call for a space that has no source and is not resolved; the *)
(* inputs it has collected are.                                              *)
Frames ==
    \A i \in DOMAIN stack :
        /\ stack[i].space \in Opened(edges)
        /\ stack[i].space \notin DOMAIN sources
        /\ stack[i].space \notin DOMAIN memo
        /\ stack[i].op = FirstProducer(edges)[stack[i].space]
        /\ \A k \in 1 .. stack[i].done : edges[stack[i].op].ins[k] \in DOMAIN memo

(* The frames form a chain from the target, without repetition. *)
Chain ==
    \A i \in DOMAIN stack :
        /\ i = 1 => stack[i].space = target
        /\ i + 1 \in DOMAIN stack =>
               /\ stack[i].done + 1 \in 1 .. Len(edges[stack[i].op].ins)
               /\ stack[i + 1].space = edges[stack[i].op].ins[stack[i].done + 1]
        /\ \A j \in DOMAIN stack : stack[i].space = stack[j].space => i = j

Sound == \A C \in StepClosed(edges, sources) : DOMAIN memo \subseteq C

Lazy == \A C \in NeedClosed(edges, sources, target) :
            /\ \A i \in DOMAIN stack : stack[i].space \in C
            /\ \A n \in DOMAIN trace : trace[n].space \in C

Ended ==
    /\ outcome = "returned" => target \in DOMAIN memo
    /\ outcome \in Failure \ {"ValueError"} =>
           \E C \in StepClosed(edges, sources) : target \notin C

IInv == TypeOK /\ Frames /\ Chain /\ Sound /\ Lazy /\ Ended
-----------------------------------------------------------------------------
(* The edge a frame stands for, and what it reads. *)
LEMMA FrameEdge ==
  ASSUME TypeOK, NEW i \in DOMAIN stack
  PROVE  /\ stack[i] \in [space: Space, op: DOMAIN edges, done: Nat]
         /\ edges[stack[i].op] \in Operator
         /\ edges[stack[i].op].ins \in Seq(Space)
         /\ edges[stack[i].op].outs \in Seq(Space)
<1>1. stack[i] \in [space: Space, op: DOMAIN edges, done: Nat]
  <2>1. stack \in Seq([space: Space, op: DOMAIN edges, done: Nat])
    BY DEF TypeOK
  <2>2. i \in 1 .. Len(stack)
    BY <2>1, LenProperties
  <2>3. QED  BY <2>1, <2>2, ElementOfSeq
<1>2. edges[stack[i].op] \in Operator
  BY <1>1 DEF TypeOK
<1>3. QED  BY <1>1, <1>2 DEF Operator

LEMMA TopInStack ==
  ASSUME TypeOK, stack # << >>
  PROVE  Len(stack) \in DOMAIN stack /\ Len(stack) \in Nat \ {0}
BY DEF TypeOK

(* resolve() is only ever called on spaces. *)
LEMMA WantedIsSpace ==
  ASSUME TypeOK, ~Collected
  PROVE  /\ Wanted \in Space
         /\ stack # << >> => Top.done + 1 \in 1 .. Len(edges[Top.op].ins)
<1>1. CASE stack = << >>
  BY <1>1 DEF Wanted, TypeOK
<1>2. CASE stack # << >>
  <2>1. Len(stack) \in DOMAIN stack  BY <1>2, TopInStack
  <2>2. Top \in [space: Space, op: DOMAIN edges, done: Nat]
        /\ edges[Top.op].ins \in Seq(Space)
    BY <2>1, FrameEdge DEF Top
  <2>3. Top.done <= Len(edges[Top.op].ins) /\ Top.done # Len(edges[Top.op].ins)
    BY <1>2, <2>1 DEF TypeOK, Collected, Top, Op
  <2>4. Top.done + 1 \in 1 .. Len(edges[Top.op].ins)
    BY <2>2, <2>3
  <2>5. QED  BY <1>2, <2>2, <2>4 DEF Wanted, Op
<1>3. QED  BY <1>1, <1>2
-----------------------------------------------------------------------------
(* What each step does to the stack. *)
FrameType == [space: Space, op: DOMAIN edges, done: Nat]

LEMMA StackIs ==
  ASSUME TypeOK
  PROVE  stack \in Seq(FrameType) /\ Len(stack) \in Nat /\ DOMAIN stack = 1 .. Len(stack)
<1>1. stack \in Seq(FrameType)  BY DEF TypeOK, FrameType
<1>2. QED  BY <1>1, LenProperties

(* A resolved input is taken by the edge on top. *)
LEMMA TakeStack ==
  ASSUME TypeOK, NEW s \in Space, Take(s), stack # << >>
  PROVE  /\ stack' \in Seq(FrameType) /\ Len(stack') = Len(stack)
         /\ \A j \in 1 .. Len(stack) :
                stack'[j] = IF j = Len(stack) THEN [stack[j] EXCEPT !.done = @ + 1] ELSE stack[j]
         /\ outcome' = outcome
<1> DEFINE n == Len(stack)
           e == [stack[n] EXCEPT !.done = @ + 1]
<1>1. stack \in Seq(FrameType) /\ n \in 1 .. Len(stack)
  BY StackIs, TopInStack
<1>2. stack[n] \in FrameType
  BY <1>1, ElementOfSeq
<1>3. e \in FrameType
  BY <1>2 DEF FrameType
<1>4. stack' = [stack EXCEPT ![n] = e] /\ outcome' = outcome
  BY DEF Take
<1>5. QED  BY <1>1, <1>3, <1>4, ExceptSeq

(* A call that found its producer is put on top. *)
LEMMA PushStack ==
  ASSUME TypeOK, NEW s \in Space, Descend(s), s \notin OnStack
  PROVE  /\ stack' \in Seq(FrameType) /\ Len(stack') = Len(stack) + 1
         /\ \A j \in 1 .. Len(stack) : stack'[j] = stack[j]
         /\ stack'[Len(stack) + 1] = [space |-> s, op |-> Producer(edges, s), done |-> 0]
         /\ ProducersOf(edges, s) # {}
<1> DEFINE e == [space |-> s, op |-> Producer(edges, s), done |-> 0]
<1>1. stack \in Seq(FrameType)
  BY StackIs
<1>2. ProducersOf(edges, s) # {}
  BY DEF Descend, NoProducer
<1>3. e \in FrameType
  BY <1>2, ProducerProduces DEF FrameType, TypeOK
<1>4. stack' = Append(stack, e)
  BY DEF Descend
<1>5. QED  BY <1>1, <1>2, <1>3, <1>4, AppendProperties

(* An edge that ran returns. *)
LEMMA PopStack ==
  ASSUME TypeOK, Execute, Rejection(Op(Top)) = "none"
  PROVE  /\ stack' \in Seq(FrameType) /\ Len(stack) \in Nat \ {0}
         /\ Len(stack') = Len(stack) - 1
         /\ \A j \in 1 .. Len(stack) - 1 : stack'[j] = stack[j]
<1>1. stack \in Seq(FrameType) /\ Len(stack) \in Nat \ {0}
  BY StackIs, TopInStack DEF Execute, Collected
<1>2. stack' = SubSeq(stack, 1, Len(stack) - 1)
  BY DEF Execute
<1> DEFINE m == Len(stack) - 1
<1>3. m \in Int /\ 1 \in Int /\ m = m - 1 + 1 /\ m >= 0
  BY <1>1
<1>4. \A j \in 1 .. m : stack[j] \in FrameType
  BY <1>1, ElementOfSeq
<1> HIDE DEF m
<1>5. /\ SubSeq(stack, 1, m) \in Seq(FrameType)
      /\ Len(SubSeq(stack, 1, m)) = (IF 1 <= m THEN m - 1 + 1 ELSE 0)
      /\ \A j \in 1 .. m - 1 + 1 : SubSeq(stack, 1, m)[j] = stack[1 + j - 1]
  BY <1>3, <1>4, SubSeqProperties
<1>6. Len(SubSeq(stack, 1, m)) = m
  BY <1>3, <1>5
<1>7. \A j \in 1 .. m : SubSeq(stack, 1, m)[j] = stack[j]
  BY <1>3, <1>5
<1>8. QED  BY <1>1, <1>2, <1>5, <1>6, <1>7 DEF m

(* An edge that may run computes the space it was called for. *)
LEMMA TopProduces ==
  ASSUME TypeOK, Frames, outcome = "running", Collected
  PROVE  /\ Len(stack) \in DOMAIN stack /\ Top \in FrameType
         /\ Op(Top) = edges[Producer(edges, Top.space)]
         /\ Op(Top) \in Operator
         /\ Top.space \in Outputs(Op(Top))
         /\ ~is_multi_output(Op(Top)) => Op(Top).outs[1] = Top.space
<1>1. Len(stack) \in DOMAIN stack
  BY TopInStack DEF Collected
<1>2. Top \in FrameType /\ Op(Top) \in Operator /\ Op(Top).outs \in Seq(Space)
  BY <1>1, FrameEdge DEF Top, Op, FrameType
<1>3. /\ Top.space \in Opened(edges)
      /\ Op(Top) = edges[Producer(edges, Top.space)]
  BY <1>1, <1>2 DEF Frames, FirstProducer, Top, Op, FrameType
<1>4. Top.space \in Outputs(Op(Top))
  BY <1>2, <1>3, ProducerProduces DEF Opened, TypeOK, FrameType
<1>5. ASSUME ~is_multi_output(Op(Top))  PROVE Op(Top).outs[1] = Top.space
  <2>1. PICK k \in DOMAIN Op(Top).outs : Op(Top).outs[k] = Top.space
    BY <1>4 DEF Outputs
  <2>2. k \in 1 .. Len(Op(Top).outs) /\ Len(Op(Top).outs) \in Nat
    BY <1>2, <2>1, LenProperties
  <2>3. k = 1
    BY <1>5, <2>2 DEF is_multi_output
  <2>4. QED  BY <2>1, <2>3
<1>6. QED  BY <1>1, <1>2, <1>3, <1>4, <1>5
-----------------------------------------------------------------------------
(* The stack and the outcome keep their types.  What is on the stack is the  *)
(* only part that takes a lemma of its own per step.                         *)
LEMMA TypeStep == IInv /\ [Next]_vars => TypeOK'
<1> SUFFICES ASSUME TypeOK, Frames, [Next]_vars  PROVE TypeOK'
  BY DEF IInv
<1> USE DEF FrameType, Supplied, Resolved
<1> DEFINE Step == [kind: {"LOAD", "LIFT", "EXEC"}, space: Space]
<1>0. stack \in Seq(FrameType) /\ Len(stack) \in Nat /\ DOMAIN stack = 1 .. Len(stack)
  BY StackIs
<1>1. ASSUME NEW s \in Space, Take(s)  PROVE TypeOK'
  <2>1. CASE stack = << >>
    BY <1>1, <2>1 DEF Take, given, TypeOK
  <2>2. CASE stack # << >>
    <3>1. /\ stack' \in Seq(FrameType) /\ Len(stack') = Len(stack)
          /\ \A j \in 1 .. Len(stack) :
                 stack'[j] = IF j = Len(stack) THEN [stack[j] EXCEPT !.done = @ + 1] ELSE stack[j]
          /\ outcome' = outcome
      BY <1>1, <2>2, TakeStack
    <3>2. DOMAIN stack' = 1 .. Len(stack)
      BY <3>1, LenProperties
    <3>3. Top.done + 1 \in 1 .. Len(edges[Top.op].ins)
      BY <1>1, <2>2, WantedIsSpace DEF Take, Running
    <3>4. \A j \in DOMAIN stack' : stack'[j].done <= Len(edges[stack'[j].op].ins)
      <4>1. TAKE j \in DOMAIN stack'
      <4>2. stack[j] \in FrameType
        BY <1>0, <3>2, FrameEdge
      <4>3. CASE j = Len(stack)
        BY <3>1, <3>2, <3>3, <4>2, <4>3 DEF Top
      <4>4. CASE j # Len(stack)
        BY <1>0, <3>1, <3>2, <4>4 DEF TypeOK
      <4>5. QED  BY <4>3, <4>4
    <3>5. QED  BY <1>1, <3>1, <3>4 DEF Take, given, TypeOK
  <2>3. QED  BY <2>1, <2>2
<1>2. ASSUME NEW s \in Space, Load(s)  PROVE TypeOK'
  <2>1. sources[s] \in Source  BY <1>2 DEF Load, TypeOK
  <2>2. memo' \in [Resolved \cup {s} -> Space]
    BY <1>2, <2>1 DEF Load, TypeOK, Source
  <2>3. trace' \in Seq(Step)
    <3>1. trace \in Seq(Step)
      BY DEF TypeOK
    <3>2. Record("LOAD", s) \in Step /\ Record("LIFT", s) \in Step
      BY DEF Record
    <3>3. /\ <<Record("LOAD", s), Record("LIFT", s)>> \in Seq(Step)
          /\ <<Record("LOAD", s)>> \in Seq(Step)
      BY <3>2
    <3> HIDE DEF Step
    <3>4. PICK q \in Seq(Step) : trace' = trace \o q
      BY <1>2, <3>3 DEF Load
    <3>5. QED  BY <3>1, <3>4, ConcatProperties
  <2>4. QED  BY <1>2, <2>2, <2>3 DEF Load, given, TypeOK
<1>3. ASSUME NEW s \in Space, LoadFails(s)  PROVE TypeOK'
  BY <1>3 DEF LoadFails, Raise, Record, given, TypeOK, Failure
<1>4. ASSUME NEW s \in Space, Refuse(s)  PROVE TypeOK'
  BY <1>4 DEF Refuse, Raise, given, TypeOK, Failure
<1>5. ASSUME NEW s \in Space, Descend(s)  PROVE TypeOK'
  <2>1. CASE s \in OnStack
    BY <1>5, <2>1 DEF Descend, Raise, given, TypeOK, Failure
  <2>2. CASE s \notin OnStack
    <3>1. /\ stack' \in Seq(FrameType) /\ Len(stack') = Len(stack) + 1
          /\ \A j \in 1 .. Len(stack) : stack'[j] = stack[j]
          /\ stack'[Len(stack) + 1] = [space |-> s, op |-> Producer(edges, s), done |-> 0]
          /\ ProducersOf(edges, s) # {}
      BY <1>5, <2>2, PushStack
    <3>2. edges[Producer(edges, s)].ins \in Seq(Space)
      <4>1. Producer(edges, s) \in DOMAIN edges
        BY <3>1, ProducerProduces DEF TypeOK
      <4>2. edges[Producer(edges, s)] \in Operator
        BY <4>1 DEF TypeOK
      <4>3. QED  BY <4>2 DEF Operator
    <3>3. \A j \in DOMAIN stack' : stack'[j].done <= Len(edges[stack'[j].op].ins)
      <4>1. TAKE j \in DOMAIN stack'
      <4>2. j \in 1 .. Len(stack) + 1
        BY <1>0, <3>1, LenProperties
      <4>3. CASE j \in 1 .. Len(stack)
        BY <1>0, <3>1, <4>3 DEF TypeOK
      <4>4. CASE j = Len(stack) + 1
        <5>1. Len(edges[Producer(edges, s)].ins) \in Nat
          BY <3>2, LenProperties
        <5>2. QED  BY <3>1, <4>4, <5>1
      <4>5. QED  BY <1>0, <4>2, <4>3, <4>4
    <3>4. QED  BY <1>5, <2>2, <3>1, <3>3 DEF Descend, given, TypeOK
  <2>3. QED  BY <2>1, <2>2
<1>6. CASE Execute
  <2>1. CASE Rejection(Op(Top)) # "none"
    BY <1>6, <2>1 DEF Execute, Rejection, Raise, given, TypeOK, Failure
  <2>2. CASE Rejection(Op(Top)) = "none"
    <3>1. /\ stack' \in Seq(FrameType) /\ Len(stack) \in Nat \ {0}
          /\ Len(stack') = Len(stack) - 1
          /\ \A j \in 1 .. Len(stack) - 1 : stack'[j] = stack[j]
      BY <1>6, <2>2, PopStack
    <3>2. \A j \in DOMAIN stack' : stack'[j].done <= Len(edges[stack'[j].op].ins)
      <4>1. TAKE j \in DOMAIN stack'
      <4>2. j \in 1 .. Len(stack) - 1
        BY <1>0, <3>1, LenProperties
      <4>3. stack'[j] = stack[j]
        BY <3>1, <4>2, Zenon
      <4>4. j \in 1 .. Len(stack)
        BY <1>0, <4>2
      <4>5. j \in DOMAIN stack /\ stack'[j] = stack[j]
        BY <1>0, <4>3, <4>4, Zenon
      <4>6. stack[j].done <= Len(edges[stack[j].op].ins)
        BY <4>5 DEF TypeOK
      <4>7. QED  BY <4>5, <4>6
    <3>3. Top.space \in Space /\ Op(Top).outs[1] \in Space
      <4>1. ~is_multi_output(Op(Top))
        BY <2>2 DEF Rejection
      <4>2. QED  BY <1>6, <4>1, TopProduces DEF Execute
    <3>4. memo' \in [Resolved \cup {Top.space} -> Space]
      BY <1>6, <2>2, <3>3 DEF Execute, TypeOK
    <3>5. trace' \in Seq(Step)
      <4>1. trace \in Seq(Step)
        BY DEF TypeOK
      <4>2. Record("EXEC", Top.space) \in Step
        BY <3>3 DEF Record
      <4>3. trace' = Append(trace, Record("EXEC", Top.space))
        BY <1>6, <2>2 DEF Execute
      <4> HIDE DEF Step
      <4>4. QED  BY <4>1, <4>2, <4>3, AppendProperties
    <3>6. QED  BY <1>6, <2>2, <3>1, <3>2, <3>3, <3>4, <3>5 DEF Execute, given, TypeOK
  <2>3. QED  BY <2>1, <2>2
<1>7. CASE UNCHANGED vars
  BY <1>7 DEF vars, TypeOK
<1>8. QED  BY <1>1, <1>2, <1>3, <1>4, <1>5, <1>6, <1>7 DEF Next
-----------------------------------------------------------------------------
(* A frame waits on inputs it lacks, for a space that is not there yet. *)
LEMMA FramesStep == IInv /\ [Next]_vars => Frames'
<1> SUFFICES ASSUME TypeOK, Frames, Chain, [Next]_vars, NEW i \in DOMAIN stack'
             PROVE  /\ stack'[i].space \in Opened(edges')
                    /\ stack'[i].space \notin DOMAIN sources'
                    /\ stack'[i].space \notin DOMAIN memo'
                    /\ stack'[i].op = FirstProducer(edges')[stack'[i].space]
                    /\ \A k \in 1 .. stack'[i].done : edges'[stack'[i].op].ins[k] \in DOMAIN memo'
  BY DEF Frames, IInv
<1> DEFINE Goal == /\ stack'[i].space \in Opened(edges')
                   /\ stack'[i].space \notin DOMAIN sources'
                   /\ stack'[i].space \notin DOMAIN memo'
                   /\ stack'[i].op = FirstProducer(edges')[stack'[i].space]
                   /\ \A k \in 1 .. stack'[i].done : edges'[stack'[i].op].ins[k] \in DOMAIN memo'
<1>0. stack \in Seq(FrameType) /\ Len(stack) \in Nat /\ DOMAIN stack = 1 .. Len(stack)
  BY StackIs
<1>1. ASSUME NEW s \in Space, Take(s)  PROVE Goal
  <2>1. edges' = edges /\ sources' = sources /\ memo' = memo
    BY <1>1 DEF Take, given
  <2>2. CASE stack = << >>
    BY <1>1, <2>1, <2>2 DEF Take, Frames
  <2>3. CASE stack # << >>
    <3>1. /\ stack' \in Seq(FrameType) /\ Len(stack') = Len(stack)
          /\ \A j \in 1 .. Len(stack) :
                 stack'[j] = IF j = Len(stack) THEN [stack[j] EXCEPT !.done = @ + 1] ELSE stack[j]
      BY <1>1, <2>3, TakeStack
    <3>2. i \in 1 .. Len(stack) /\ i \in DOMAIN stack
      BY <1>0, <3>1, LenProperties
    <3>3. CASE i # Len(stack)
      <4>1. stack'[i] = stack[i]
        BY <3>1, <3>2, <3>3
      <4>2. QED  BY <2>1, <3>2, <4>1 DEF Frames
    <3>4. CASE i = Len(stack)
      <4>1. stack[i] \in FrameType
        BY <3>2, FrameEdge DEF FrameType
      <4>2. /\ stack'[i].space = stack[i].space /\ stack'[i].op = stack[i].op
            /\ stack'[i].done = stack[i].done + 1 /\ stack[i].done \in Nat
        BY <3>1, <3>2, <3>4, <4>1 DEF FrameType
      <4>3. edges[stack[i].op].ins[stack[i].done + 1] \in DOMAIN memo
        BY <1>1, <2>3, <3>4 DEF Take, Running, Wanted, Top, Op, Resolved
      <4>4. \A k \in 1 .. stack[i].done : edges[stack[i].op].ins[k] \in DOMAIN memo
        BY <3>2 DEF Frames
      <4>5. \A k \in 1 .. stack[i].done + 1 : edges[stack[i].op].ins[k] \in DOMAIN memo
        <5>1. TAKE k \in 1 .. stack[i].done + 1
        <5>2. k = stack[i].done + 1 \/ k \in 1 .. stack[i].done
          BY <4>2
        <5>3. QED  BY <4>3, <4>4, <5>2
      <4>6. QED  BY <2>1, <3>2, <4>2, <4>5 DEF Frames
    <3>5. QED  BY <3>3, <3>4
  <2>4. QED  BY <2>2, <2>3
<1>2. ASSUME NEW s \in Space, Load(s)  PROVE Goal
  <2>1. /\ edges' = edges /\ sources' = sources /\ stack' = stack
        /\ DOMAIN memo' = DOMAIN memo \cup {s} /\ s \in DOMAIN sources
    BY <1>2 DEF Load, given, Resolved, Supplied
  <2>2. QED  BY <2>1 DEF Frames
<1>3. ASSUME NEW s \in Space, LoadFails(s) \/ Refuse(s)  PROVE Goal
  BY <1>3 DEF LoadFails, Refuse, Raise, given, Frames
<1>4. ASSUME NEW s \in Space, Descend(s)  PROVE Goal
  <2>1. edges' = edges /\ sources' = sources /\ memo' = memo
    BY <1>4 DEF Descend, Raise, given
  <2>2. CASE s \in OnStack
    BY <1>4, <2>1, <2>2 DEF Descend, Raise, Frames
  <2>3. CASE s \notin OnStack
    <3>1. /\ stack' \in Seq(FrameType) /\ Len(stack') = Len(stack) + 1
          /\ \A j \in 1 .. Len(stack) : stack'[j] = stack[j]
          /\ stack'[Len(stack) + 1] = [space |-> s, op |-> Producer(edges, s), done |-> 0]
      BY <1>4, <2>3, PushStack
    <3>2. i \in 1 .. Len(stack) + 1
      BY <1>0, <3>1, LenProperties
    <3>3. CASE i \in 1 .. Len(stack)
      BY <1>0, <2>1, <3>1, <3>3 DEF Frames
    <3>4. CASE i = Len(stack) + 1
      <4>1. /\ stack'[i].space = s /\ stack'[i].op = Producer(edges, s)
            /\ stack'[i].done = 0
        BY <3>1, <3>4
      <4>2. s \in Opened(edges) /\ s \notin DOMAIN sources /\ s \notin DOMAIN memo
        BY <1>4 DEF Descend, NoProducer, Opened, Supplied, Resolved
      <4>3. FirstProducer(edges)[s] = Producer(edges, s)
        BY DEF FirstProducer
      <4>4. \A k \in 1 .. 0 : FALSE
        OBVIOUS
      <4>5. QED  BY <2>1, <4>1, <4>2, <4>3, <4>4
    <3>5. QED  BY <1>0, <3>2, <3>3, <3>4
  <2>4. QED  BY <2>2, <2>3
<1>5. CASE Execute
  <2>1. edges' = edges /\ sources' = sources
    BY <1>5 DEF Execute, given
  <2>2. CASE Rejection(Op(Top)) # "none"
    BY <1>5, <2>1, <2>2 DEF Execute, Raise, Frames
  <2>3. CASE Rejection(Op(Top)) = "none"
    <3>1. /\ stack' \in Seq(FrameType) /\ Len(stack) \in Nat \ {0}
          /\ Len(stack') = Len(stack) - 1
          /\ \A j \in 1 .. Len(stack) - 1 : stack'[j] = stack[j]
      BY <1>5, <2>3, PopStack
    <3>2. i \in 1 .. Len(stack) - 1
      BY <3>1, LenProperties
    <3>3. i \in DOMAIN stack /\ Len(stack) \in DOMAIN stack /\ i # Len(stack)
      BY <1>0, <3>1, <3>2
    <3>4. stack'[i] = stack[i]
      BY <3>1, <3>2
    <3>5. stack[i].space # Top.space
      BY <3>3 DEF Chain, Top
    <3>6. DOMAIN memo' = DOMAIN memo \cup {Top.space}
      BY <1>5, <2>3 DEF Execute, Resolved
    <3>7. QED  BY <2>1, <3>3, <3>4, <3>5, <3>6 DEF Frames
  <2>4. QED  BY <2>2, <2>3
<1>6. CASE UNCHANGED vars
  BY <1>6 DEF vars, Frames
<1>7. QED  BY <1>1, <1>2, <1>3, <1>4, <1>5, <1>6 DEF Next
-----------------------------------------------------------------------------
(* The chain grows by the space that is wanted, and shrinks from its end. *)
LEMMA ChainStep == IInv /\ [Next]_vars => Chain'
<1> DEFINE Link(i) ==
        /\ i = 1 => stack'[i].space = target'
        /\ i + 1 \in DOMAIN stack' =>
               /\ stack'[i].done + 1 \in 1 .. Len(edges'[stack'[i].op].ins)
               /\ stack'[i + 1].space = edges'[stack'[i].op].ins[stack'[i].done + 1]
        /\ \A j \in DOMAIN stack' : stack'[i].space = stack'[j].space => i = j
<1> SUFFICES ASSUME TypeOK, Frames, Chain, [Next]_vars, NEW i \in DOMAIN stack'
             PROVE  Link(i)
  BY DEF Chain, IInv
<1>0. stack \in Seq(FrameType) /\ Len(stack) \in Nat /\ DOMAIN stack = 1 .. Len(stack)
  BY StackIs
<1>1. ASSUME stack' = stack, edges' = edges, target' = target  PROVE Link(i)
  BY <1>1 DEF Chain
<1>2. ASSUME NEW s \in Space, Take(s), stack # << >>  PROVE Link(i)
  <2>1. edges' = edges /\ target' = target
    BY <1>2 DEF Take, given
  <2>2. /\ stack' \in Seq(FrameType) /\ Len(stack') = Len(stack)
        /\ \A j \in 1 .. Len(stack) :
               stack'[j] = IF j = Len(stack) THEN [stack[j] EXCEPT !.done = @ + 1] ELSE stack[j]
    BY <1>2, TakeStack
  <2>3. DOMAIN stack' = DOMAIN stack
    BY <1>0, <2>2, LenProperties
  <2>4. \A j \in DOMAIN stack : stack'[j].space = stack[j].space /\ stack'[j].op = stack[j].op
    <3>1. TAKE j \in DOMAIN stack
    <3>2. stack[j] \in FrameType
      BY FrameEdge DEF FrameType
    <3>3. QED  BY <1>0, <2>2, <3>2 DEF FrameType
  <2>5. i + 1 \in DOMAIN stack => stack'[i] = stack[i]
    BY <1>0, <2>2, <2>3
  <2>6. i + 1 \in DOMAIN stack =>
            /\ stack'[i].done + 1 \in 1 .. Len(edges[stack[i].op].ins)
            /\ stack'[i + 1].space = edges[stack[i].op].ins[stack'[i].done + 1]
    BY <2>3, <2>4, <2>5 DEF Chain
  <2>7. QED  BY <2>1, <2>3, <2>4, <2>6 DEF Chain
<1>3. ASSUME NEW s \in Space, Descend(s), s \notin OnStack  PROVE Link(i)
  <2>1. edges' = edges /\ target' = target
    BY <1>3 DEF Descend, given
  <2>2. /\ stack' \in Seq(FrameType) /\ Len(stack') = Len(stack) + 1
        /\ \A j \in 1 .. Len(stack) : stack'[j] = stack[j]
        /\ stack'[Len(stack) + 1] = [space |-> s, op |-> Producer(edges, s), done |-> 0]
    BY <1>3, PushStack
  <2>3. DOMAIN stack' = 1 .. Len(stack) + 1
    BY <2>2, LenProperties
  <2>4. \A j \in 1 .. Len(stack) : stack[j].space # s
    BY <1>0, <1>3 DEF OnStack
  <2>5. i = 1 => stack'[i].space = target
    <3>1. CASE stack = << >>
      BY <1>3, <2>2, <3>1 DEF Descend, Running, Wanted
    <3>2. CASE stack # << >>
      <4>1. 1 \in 1 .. Len(stack)
        BY <3>2, TopInStack
      <4>2. QED  BY <1>0, <2>2, <4>1 DEF Chain
    <3>3. QED  BY <3>1, <3>2
  <2>6. ASSUME i + 1 \in DOMAIN stack'
        PROVE  /\ stack'[i].done + 1 \in 1 .. Len(edges[stack'[i].op].ins)
               /\ stack'[i + 1].space = edges[stack'[i].op].ins[stack'[i].done + 1]
    <3>1. i \in 1 .. Len(stack) /\ stack'[i] = stack[i]
      BY <1>0, <2>2, <2>3, <2>6
    <3>2. CASE i + 1 \in DOMAIN stack
      BY <1>0, <2>2, <3>1, <3>2 DEF Chain
    <3>3. CASE i + 1 \notin DOMAIN stack
      <4>1. i = Len(stack) /\ stack # << >>
        BY <1>0, <3>1, <3>3
      <4>2. stack'[i + 1].space = s /\ stack'[i] = Top
        BY <2>2, <3>1, <4>1 DEF Top
      <4>3. s = edges[Top.op].ins[Top.done + 1]
        BY <1>3, <4>1 DEF Descend, Running, Wanted, Op
      <4>4. Top.done + 1 \in 1 .. Len(edges[Top.op].ins)
        BY <1>3, <4>1, WantedIsSpace DEF Descend, Running
      <4>5. QED  BY <4>2, <4>3, <4>4
    <3>4. QED  BY <3>2, <3>3
  <2>7. ASSUME NEW j \in DOMAIN stack', stack'[i].space = stack'[j].space  PROVE i = j
    <3>1. CASE i \in 1 .. Len(stack) /\ j \in 1 .. Len(stack)
      BY <1>0, <2>2, <2>7, <3>1 DEF Chain
    <3>2. CASE i = Len(stack) + 1 \/ j = Len(stack) + 1
      <4>1. \A n \in 1 .. Len(stack) : stack'[n].space # s
        BY <2>2, <2>4
      <4>2. QED  BY <1>0, <2>2, <2>3, <2>7, <3>2, <4>1
    <3>3. QED  BY <1>0, <2>3, <3>1, <3>2
  <2>8. QED  BY <2>1, <2>5, <2>6, <2>7
<1>4. ASSUME Execute, Rejection(Op(Top)) = "none"  PROVE Link(i)
  <2>1. edges' = edges /\ target' = target
    BY <1>4 DEF Execute, given
  <2>2. /\ stack' \in Seq(FrameType) /\ Len(stack) \in Nat \ {0}
        /\ Len(stack') = Len(stack) - 1
        /\ \A j \in 1 .. Len(stack) - 1 : stack'[j] = stack[j]
    BY <1>4, PopStack
  <2>3. DOMAIN stack' = 1 .. Len(stack) - 1
    BY <2>2, LenProperties
  <2>4. \A j \in DOMAIN stack' : j \in DOMAIN stack /\ stack'[j] = stack[j]
    BY <1>0, <2>2, <2>3
  <2>5. QED  BY <2>1, <2>4 DEF Chain
<1>5. QED
  <2>1. ASSUME NEW s \in Space, Take(s) \/ Load(s) \/ LoadFails(s) \/ Refuse(s) \/ Descend(s)
        PROVE  Link(i)
    <3>1. CASE Take(s) /\ stack = << >>
      BY <1>1, <3>1 DEF Take, given
    <3>2. CASE Load(s) \/ LoadFails(s) \/ Refuse(s)
      BY <1>1, <3>2 DEF Load, LoadFails, Refuse, Raise, given
    <3>3. CASE Descend(s) /\ s \in OnStack
      BY <1>1, <3>3 DEF Descend, Raise, given
    <3>4. QED  BY <2>1, <1>2, <1>3, <3>1, <3>2, <3>3
  <2>2. CASE Execute
    <3>1. CASE Rejection(Op(Top)) # "none"
      BY <1>1, <2>2, <3>1 DEF Execute, Raise, given
    <3>2. QED  BY <1>4, <2>2, <3>1
  <2>3. CASE UNCHANGED vars
    BY <1>1, <2>3 DEF vars
  <2>4. QED  BY <2>1, <2>2, <2>3 DEF Next
-----------------------------------------------------------------------------
(* An edge that runs has all its inputs, and may be run. *)
LEMMA TopIsUsable ==
  ASSUME TypeOK, Frames, outcome = "running", Collected, Rejection(Op(Top)) = "none"
  PROVE  /\ Usable(edges, Top.space)
         /\ Inputs(edges[Producer(edges, Top.space)]) \subseteq DOMAIN memo
         /\ Top.space \in Space \ DOMAIN sources
<1>1. /\ Len(stack) \in DOMAIN stack /\ Top \in FrameType
      /\ Op(Top) = edges[Producer(edges, Top.space)] /\ Op(Top) \in Operator
  BY TopProduces
<1>2. /\ Top.space \in Opened(edges) /\ Top.space \notin DOMAIN sources
      /\ \A k \in 1 .. Top.done : Op(Top).ins[k] \in DOMAIN memo
  BY <1>1 DEF Frames, Top, Op
<1>3. ~is_multi_output(Op(Top)) /\ Op(Top).evaluates
  BY DEF Rejection
<1>4. Usable(edges, Top.space)
  BY <1>1, <1>2, <1>3 DEF Usable, Opened
<1>5. Inputs(Op(Top)) \subseteq DOMAIN memo
  <2>1. SUFFICES ASSUME NEW k \in DOMAIN Op(Top).ins  PROVE Op(Top).ins[k] \in DOMAIN memo
    BY DEF Inputs
  <2>2. Op(Top).ins \in Seq(Space)
    BY <1>1 DEF Operator
  <2>3. k \in 1 .. Len(Op(Top).ins)
    BY <2>2, LenProperties
  <2>4. Top.done = Len(Op(Top).ins)
    BY DEF Collected
  <2>5. QED  BY <1>2, <2>3, <2>4
<1>6. QED  BY <1>1, <1>2, <1>4, <1>5 DEF FrameType

(* What is resolved can be derived. *)
LEMMA SoundStep == IInv /\ [Next]_vars => Sound'
<1> SUFFICES ASSUME TypeOK, Frames, Sound, [Next]_vars,
                    NEW C \in StepClosed(edges', sources'), NEW x \in DOMAIN memo'
             PROVE  x \in C
  BY DEF IInv, Sound
<1>1. edges' = edges /\ sources' = sources
  BY DEF Next, vars, given, Take, Load, LoadFails, Refuse, Descend, Execute
<1>2. C \in StepClosed(edges, sources) /\ DOMAIN memo \subseteq C
  BY <1>1 DEF Sound
<1>3. ASSUME NEW s \in Space, Load(s)  PROVE x \in C
  <2>1. x \in DOMAIN memo \cup {s} /\ s \in DOMAIN sources /\ sources[s].form # "bare"
    BY <1>3 DEF Load, Resolved, Supplied
  <2>2. s \in C
    BY <1>2, <2>1 DEF StepClosed
  <2>3. QED  BY <1>2, <2>1, <2>2
<1>4. ASSUME Execute, Rejection(Op(Top)) = "none"  PROVE x \in C
  <2>1. x \in DOMAIN memo \cup {Top.space}
    BY <1>4 DEF Execute, Resolved
  <2>2. /\ Usable(edges, Top.space) /\ Top.space \in Space \ DOMAIN sources
        /\ Inputs(edges[Producer(edges, Top.space)]) \subseteq C
    BY <1>2, <1>4, TopIsUsable DEF Execute
  <2>3. Top.space \in C
    BY <1>2, <2>2 DEF StepClosed
  <2>4. QED  BY <1>2, <2>1, <2>3
<1>5. ASSUME memo' = memo  PROVE x \in C
  BY <1>2, <1>5
<1>6. QED
  BY <1>3, <1>4, <1>5
  DEF Next, vars, Take, LoadFails, Refuse, Descend, Execute, Raise
-----------------------------------------------------------------------------
(* resolve() is only called on what the target needs. *)
LEMMA WantedIsNeeded ==
  ASSUME TypeOK, Frames, Lazy, ~Collected, NEW C \in NeedClosed(edges, sources, target)
  PROVE  Wanted \in C
<1>1. CASE stack = << >>
  BY <1>1 DEF Wanted, NeedClosed
<1>2. CASE stack # << >>
  <2>1. Len(stack) \in DOMAIN stack
    BY <1>2, TopInStack
  <2>2. /\ Top.space \in C /\ Top.space \in Opened(edges)
        /\ Top.space \notin DOMAIN sources /\ Top.op = Producer(edges, Top.space)
    BY <2>1 DEF Lazy, Frames, Top, FirstProducer, Opened
  <2>3. Inputs(edges[Top.op]) \subseteq C
    BY <2>2 DEF NeedClosed, Opened
  <2>4. Top.done + 1 \in 1 .. Len(edges[Top.op].ins) /\ edges[Top.op].ins \in Seq(Space)
    BY <1>2, <2>1, WantedIsSpace, FrameEdge DEF Top
  <2>5. Top.done + 1 \in DOMAIN edges[Top.op].ins
    BY <2>4, LenProperties
  <2>6. Wanted \in Inputs(edges[Top.op])
    BY <1>2, <2>5 DEF Wanted, Op, Inputs
  <2>7. QED  BY <2>3, <2>6
<1>3. QED  BY <1>1, <1>2

(* Whatever is opened, loaded or computed is needed. *)
LEMMA LazyStep == IInv /\ [Next]_vars => Lazy'
<1> SUFFICES ASSUME TypeOK, Frames, Lazy, [Next]_vars,
                    NEW C \in NeedClosed(edges', sources', target')
             PROVE  /\ \A i \in DOMAIN stack' : stack'[i].space \in C
                    /\ \A n \in DOMAIN trace' : trace'[n].space \in C
  BY DEF IInv, Lazy
<1> DEFINE Goal == /\ \A i \in DOMAIN stack' : stack'[i].space \in C
                   /\ \A n \in DOMAIN trace' : trace'[n].space \in C
<1>0. stack \in Seq(FrameType) /\ Len(stack) \in Nat /\ DOMAIN stack = 1 .. Len(stack)
  BY StackIs
<1>1. edges' = edges /\ sources' = sources /\ target' = target
  BY DEF Next, vars, given, Take, Load, LoadFails, Refuse, Descend, Execute
<1>2. /\ C \in NeedClosed(edges, sources, target)
      /\ \A i \in DOMAIN stack : stack[i].space \in C
      /\ \A n \in DOMAIN trace : trace[n].space \in C
  BY <1>1 DEF Lazy
<1>3. ASSUME NEW s \in Space, Running(s)  PROVE s \in C
  BY <1>2, <1>3, WantedIsNeeded DEF Running
<1>4. ASSUME NEW s \in C, NEW k, trace' = Append(trace, Record(k, s))
      PROVE  \A n \in DOMAIN trace' : trace'[n].space \in C
  <2>1. trace \in Seq([kind: {"LOAD", "LIFT", "EXEC"}, space: Space])
    BY DEF TypeOK
  <2>2. Record(k, s).space = s
    BY DEF Record
  <2>3. QED  BY <1>2, <1>4, <2>1, <2>2
<1>5. ASSUME NEW s \in Space, Take(s)  PROVE Goal
  <2>1. trace' = trace  BY <1>5 DEF Take
  <2>2. CASE stack = << >>
    BY <1>2, <1>5, <2>1, <2>2 DEF Take
  <2>3. CASE stack # << >>
    <3>1. /\ stack' \in Seq(FrameType) /\ Len(stack') = Len(stack)
          /\ \A j \in 1 .. Len(stack) :
                 stack'[j] = IF j = Len(stack) THEN [stack[j] EXCEPT !.done = @ + 1] ELSE stack[j]
      BY <1>5, <2>3, TakeStack
    <3>2. ASSUME NEW i \in DOMAIN stack'  PROVE stack'[i].space \in C
      <4>1. i \in 1 .. Len(stack)
        BY <1>0, <3>1, LenProperties
      <4>2. stack[i] \in FrameType /\ stack[i].space \in C
        BY <1>0, <1>2, <4>1, ElementOfSeq
      <4>3. stack'[i].space = stack[i].space
        BY <3>1, <4>1, <4>2 DEF FrameType
      <4>4. QED  BY <4>2, <4>3
    <3>3. QED  BY <1>2, <2>1, <3>2
  <2>4. QED  BY <2>2, <2>3
<1>6. ASSUME NEW s \in Space, Load(s)  PROVE Goal
  <2>1. s \in C /\ stack' = stack
    BY <1>3, <1>6 DEF Load
  <2>2. \A n \in DOMAIN trace' : trace'[n].space \in C
    <3>1. trace \in Seq([kind: {"LOAD", "LIFT", "EXEC"}, space: Space])
      BY DEF TypeOK
    <3>2. Record("LOAD", s).space = s /\ Record("LIFT", s).space = s
      BY DEF Record
    <3>3. CASE sources[s].form = "unit"
      <4>1. trace' = trace \o <<Record("LOAD", s), Record("LIFT", s)>>
        BY <1>6, <3>3 DEF Load
      <4>2. QED  BY <1>2, <2>1, <3>1, <3>2, <4>1
    <3>4. CASE sources[s].form # "unit"
      <4>1. trace' = trace \o <<Record("LOAD", s)>>
        BY <1>6, <3>4 DEF Load
      <4>2. QED  BY <1>2, <2>1, <3>1, <3>2, <4>1
    <3>5. QED  BY <3>3, <3>4
  <2>3. QED  BY <1>2, <2>1, <2>2
<1>7. ASSUME NEW s \in Space, LoadFails(s)  PROVE Goal
  <2>1. stack' = stack /\ trace' = Append(trace, Record("LOAD", s)) /\ s \in C
    BY <1>3, <1>7 DEF LoadFails, Raise
  <2>2. QED  BY <1>2, <1>4, <2>1
<1>8. ASSUME NEW s \in Space, Refuse(s)  PROVE Goal
  BY <1>2, <1>8 DEF Refuse, Raise
<1>9. ASSUME NEW s \in Space, Descend(s)  PROVE Goal
  <2>1. trace' = trace /\ s \in C
    BY <1>3, <1>9 DEF Descend
  <2>2. CASE s \in OnStack
    BY <1>2, <1>9, <2>1, <2>2 DEF Descend, Raise
  <2>3. CASE s \notin OnStack
    <3>1. /\ stack' \in Seq(FrameType) /\ Len(stack') = Len(stack) + 1
          /\ \A j \in 1 .. Len(stack) : stack'[j] = stack[j]
          /\ stack'[Len(stack) + 1] = [space |-> s, op |-> Producer(edges, s), done |-> 0]
      BY <1>9, <2>3, PushStack
    <3>2. ASSUME NEW i \in DOMAIN stack'  PROVE stack'[i].space \in C
      <4>1. i \in 1 .. Len(stack) \/ i = Len(stack) + 1
        BY <1>0, <3>1, LenProperties
      <4>2. QED  BY <1>0, <1>2, <2>1, <3>1, <4>1
    <3>3. QED  BY <1>2, <2>1, <3>2
  <2>4. QED  BY <2>2, <2>3
<1>10. CASE Execute
  <2>1. CASE Rejection(Op(Top)) # "none"
    BY <1>2, <1>10, <2>1 DEF Execute, Raise
  <2>2. CASE Rejection(Op(Top)) = "none"
    <3>1. /\ stack' \in Seq(FrameType) /\ Len(stack) \in Nat \ {0}
          /\ Len(stack') = Len(stack) - 1
          /\ \A j \in 1 .. Len(stack) - 1 : stack'[j] = stack[j]
      BY <1>10, <2>2, PopStack
    <3>2. ASSUME NEW i \in DOMAIN stack'  PROVE stack'[i].space \in C
      <4>1. i \in 1 .. Len(stack) - 1
        BY <3>1, LenProperties
      <4>2. i \in DOMAIN stack /\ stack'[i] = stack[i]
        BY <1>0, <3>1, <4>1
      <4>3. QED  BY <1>2, <4>2
    <3>3. Top.space \in C
      <4>1. Len(stack) \in DOMAIN stack
        BY <1>0, <3>1
      <4>2. QED  BY <1>2, <4>1 DEF Top
    <3>4. trace' = Append(trace, Record("EXEC", Top.space))
      BY <1>10, <2>2 DEF Execute
    <3>5. QED  BY <1>4, <3>2, <3>3, <3>4
  <2>3. QED  BY <2>1, <2>2
<1>11. CASE UNCHANGED vars
  BY <1>2, <1>11 DEF vars
<1>12. QED  BY <1>5, <1>6, <1>7, <1>8, <1>9, <1>10, <1>11 DEF Next
-----------------------------------------------------------------------------
(* A set of spaces that block each other: none has a source that loads, and  *)
(* none has a producer that runs without another of them.                    *)
Blocks(E, S, B) ==
    \A x \in B :
        /\ x \in DOMAIN S => S[x].form = "bare"
        /\ \/ x \in DOMAIN S
           \/ ~Usable(E, x)
           \/ Inputs(E[Producer(E, x)]) \cap B # {}

LEMMA BlockedIsUnderivable ==
  ASSUME NEW E, NEW S, NEW B \in SUBSET Space, Blocks(E, S, B), DOMAIN S \subseteq Space
  PROVE  Space \ B \in StepClosed(E, S)
<1>1. ASSUME NEW s \in DOMAIN S, S[s].form # "bare"  PROVE s \in Space \ B
  BY <1>1 DEF Blocks
<1>2. ASSUME NEW s \in Space \ DOMAIN S, Usable(E, s),
             Inputs(E[Producer(E, s)]) \subseteq Space \ B
      PROVE  s \in Space \ B
  BY <1>2 DEF Blocks
<1>3. QED  BY <1>1, <1>2 DEF StepClosed

(* Every frame but the last waits for the next, and the last for what is *)
(* wanted.                                                                *)
LEMMA FrameWaits ==
  ASSUME TypeOK, Frames, Chain, NEW i \in DOMAIN stack
  PROVE  /\ stack[i].space \in Space \ DOMAIN sources
         /\ i # Len(stack) => Inputs(edges[Producer(edges, stack[i].space)]) \cap OnStack # {}
         /\ i = Len(stack) /\ ~Collected =>
                Wanted \in Inputs(edges[Producer(edges, stack[i].space)])
<1>1. /\ stack[i] \in FrameType /\ edges[stack[i].op].ins \in Seq(Space)
      /\ stack[i].op = Producer(edges, stack[i].space) /\ stack[i].space \notin DOMAIN sources
  BY FrameEdge DEF FrameType, Frames, FirstProducer
<1>2. ASSUME i # Len(stack)
      PROVE  Inputs(edges[Producer(edges, stack[i].space)]) \cap OnStack # {}
  <2>1. i + 1 \in DOMAIN stack
    BY <1>2, StackIs
  <2>2. /\ stack[i].done + 1 \in DOMAIN edges[stack[i].op].ins
        /\ stack[i + 1].space = edges[stack[i].op].ins[stack[i].done + 1]
    BY <1>1, <2>1, LenProperties DEF Chain
  <2>3. stack[i + 1].space \in Inputs(edges[stack[i].op])
    BY <2>2 DEF Inputs
  <2>4. stack[i + 1].space \in OnStack
    BY <2>1 DEF OnStack
  <2>5. QED  BY <1>1, <2>3, <2>4
<1>3. ASSUME i = Len(stack), ~Collected
      PROVE  Wanted \in Inputs(edges[Producer(edges, stack[i].space)])
  <2>1. stack # << >>
    BY StackIs
  <2>2. Top.done + 1 \in DOMAIN edges[Top.op].ins /\ Top = stack[i]
    BY <1>1, <1>3, <2>1, WantedIsSpace, LenProperties DEF Top
  <2>3. Wanted = edges[Top.op].ins[Top.done + 1]
    BY <2>1 DEF Wanted, Op
  <2>4. QED  BY <1>1, <2>2, <2>3 DEF Inputs
<1>4. QED  BY <1>1, <1>2, <1>3 DEF FrameType

(* The chain hangs on the target. *)
LEMMA TargetOnChain ==
  ASSUME TypeOK, Chain
  PROVE  /\ stack # << >> => target \in OnStack
         /\ stack = << >> => Wanted = target
         /\ OnStack \subseteq Space
<1>1. ASSUME stack # << >>  PROVE target \in OnStack
  <2>1. 1 \in DOMAIN stack
    BY <1>1, TopInStack, StackIs
  <2>2. QED  BY <2>1 DEF Chain, OnStack
<1>2. ASSUME NEW i \in DOMAIN stack  PROVE stack[i].space \in Space
  BY FrameEdge
<1>3. QED  BY <1>1, <1>2 DEF Wanted, OnStack

(* A wanted space that cannot be had blocks the whole chain. *)
LEMMA WantedBlocks ==
  ASSUME TypeOK, Frames, Chain, NEW s \in Space, Wanted = s, ~Collected,
         s \in DOMAIN sources => sources[s].form = "bare",
         s \in DOMAIN sources \/ s \in OnStack \/ ~Usable(edges, s)
  PROVE  \E C \in StepClosed(edges, sources) : target \notin C
<1> DEFINE B == OnStack \cup {s}
<1>1. ASSUME NEW x \in OnStack
      PROVE  x \notin DOMAIN sources /\ Inputs(edges[Producer(edges, x)]) \cap B # {}
  <2>1. PICK i \in DOMAIN stack : stack[i].space = x
    BY DEF OnStack
  <2>2. QED  BY <2>1, FrameWaits
<1>2. Blocks(edges, sources, B)
  BY <1>1 DEF Blocks
<1>3. target \in B /\ B \subseteq Space
  BY TargetOnChain
<1>4. DOMAIN sources \subseteq Space
  BY DEF TypeOK, Supplied
<1> HIDE DEF B
<1>5. Space \ B \in StepClosed(edges, sources)
  BY <1>2, <1>3, <1>4, BlockedIsUnderivable
<1>6. QED  BY <1>3, <1>5

(* So does an edge that cannot be run. *)
LEMMA TopBlocks ==
  ASSUME TypeOK, Frames, Chain, stack # << >>, ~Usable(edges, Top.space)
  PROVE  \E C \in StepClosed(edges, sources) : target \notin C
<1>1. ASSUME NEW x \in OnStack
      PROVE  /\ x \notin DOMAIN sources
             /\ ~Usable(edges, x) \/ Inputs(edges[Producer(edges, x)]) \cap OnStack # {}
  <2>1. PICK i \in DOMAIN stack : stack[i].space = x
    BY DEF OnStack
  <2>2. CASE i = Len(stack)
    BY <2>1, <2>2, FrameWaits DEF Top
  <2>3. CASE i # Len(stack)
    BY <2>1, <2>3, FrameWaits
  <2>4. QED  BY <2>2, <2>3
<1>2. Blocks(edges, sources, OnStack)
  BY <1>1 DEF Blocks
<1>3. target \in OnStack /\ OnStack \subseteq Space
  BY TargetOnChain
<1>4. DOMAIN sources \subseteq Space
  BY DEF TypeOK, Supplied
<1>5. Space \ OnStack \in StepClosed(edges, sources)
  BY <1>2, <1>3, <1>4, BlockedIsUnderivable
<1>6. QED  BY <1>3, <1>5

(* compute() returns what it has, and gives up on what is out of reach. *)
LEMMA EndedStep == IInv /\ [Next]_vars => Ended'
<1> SUFFICES ASSUME TypeOK, Frames, Chain, Ended, [Next]_vars
             PROVE  /\ outcome' = "returned" => target' \in DOMAIN memo'
                    /\ outcome' \in Failure \ {"ValueError"} =>
                           \E C \in StepClosed(edges', sources') : target' \notin C
  BY DEF IInv, Ended
<1> DEFINE Goal == /\ outcome' = "returned" => target' \in DOMAIN memo'
                   /\ outcome' \in Failure \ {"ValueError"} =>
                          \E C \in StepClosed(edges', sources') : target' \notin C
           Lost == \E C \in StepClosed(edges, sources) : target \notin C
<1>1. edges' = edges /\ sources' = sources /\ target' = target
  BY DEF Next, vars, given, Take, Load, LoadFails, Refuse, Descend, Execute
<1>2. ASSUME outcome' = "running"  PROVE Goal
  BY <1>2 DEF Failure
<1>3. ASSUME Lost, outcome' # "returned"  PROVE Goal
  BY <1>1, <1>3
<1>4. ASSUME NEW s \in Space, Take(s)  PROVE Goal
  <2>1. CASE stack = << >>
    <3>1. outcome' = "returned" /\ target \in DOMAIN memo /\ memo' = memo
      BY <1>4, <2>1 DEF Take, Running, Wanted, Resolved
    <3>2. QED  BY <1>1, <3>1 DEF Failure
  <2>2. CASE stack # << >>
    BY <1>2, <1>4, <2>2 DEF Take, Running
  <2>3. QED  BY <2>1, <2>2
<1>5. ASSUME NEW s \in Space, Load(s)  PROVE Goal
  BY <1>2, <1>5 DEF Load, Running
<1>6. ASSUME NEW s \in Space, LoadFails(s)  PROVE Goal
  <2>1. /\ Wanted = s /\ ~Collected /\ s \in DOMAIN sources /\ sources[s].form = "bare"
        /\ outcome' = "KeyError"
    BY <1>6 DEF LoadFails, Running, Supplied, Raise
  <2>2. Lost
    BY <2>1, WantedBlocks
  <2>3. QED  BY <1>3, <2>1, <2>2
<1>7. ASSUME NEW s \in Space, Refuse(s)  PROVE Goal
  <2>1. /\ Wanted = s /\ ~Collected /\ s \notin DOMAIN sources
        /\ outcome' \in {"NoSourceError", "ExternalSolveRequired"}
        /\ ProducersOf(edges, s) = {} \/ is_nullary(edges[Producer(edges, s)])
              \/ ~edges[Producer(edges, s)].executable
    BY <1>7 DEF Refuse, Running, Supplied, Raise, NoProducer
  <2>2. ~Usable(edges, s)
    BY <2>1 DEF Usable
  <2>3. Lost
    BY <2>1, <2>2, WantedBlocks
  <2>4. QED  BY <1>3, <2>1, <2>3
<1>8. ASSUME NEW s \in Space, Descend(s)  PROVE Goal
  <2>1. CASE s \in OnStack
    <3>1. /\ Wanted = s /\ ~Collected /\ s \notin DOMAIN sources
          /\ outcome' = "RecursionError"
      BY <1>8, <2>1 DEF Descend, Running, Supplied, Raise
    <3>2. Lost
      BY <2>1, <3>1, WantedBlocks
    <3>3. QED  BY <1>3, <3>1, <3>2
  <2>2. CASE s \notin OnStack
    BY <1>2, <1>8, <2>2 DEF Descend, Running
  <2>3. QED  BY <2>1, <2>2
<1>9. CASE Execute
  <2>1. CASE Rejection(Op(Top)) = "none"
    BY <1>2, <1>9, <2>1 DEF Execute
  <2>2. CASE Rejection(Op(Top)) # "none"
    <3>1. outcome' = Rejection(Op(Top)) /\ stack # << >> /\ outcome = "running" /\ Collected
      BY <1>9, <2>2 DEF Execute, Raise, Collected
    <3>2. CASE Rejection(Op(Top)) = "ValueError"
      BY <3>1, <3>2
    <3>3. CASE Rejection(Op(Top)) # "ValueError"
      <4>1. is_multi_output(Op(Top)) \/ ~Op(Top).evaluates
        BY <2>2, <3>3 DEF Rejection
      <4>2. Op(Top) = edges[Producer(edges, Top.space)]
        BY <3>1, TopProduces
      <4>3. ~Usable(edges, Top.space)
        BY <4>1, <4>2 DEF Usable
      <4>4. Lost
        BY <3>1, <4>3, TopBlocks
      <4>5. outcome' # "returned"
        BY <3>1 DEF Rejection
      <4>6. QED  BY <1>3, <4>4, <4>5
    <3>4. QED  BY <3>2, <3>3
  <2>3. QED  BY <2>1, <2>2
<1>10. CASE UNCHANGED vars
  BY <1>1, <1>10 DEF vars, Ended
<1>11. QED  BY <1>4, <1>5, <1>6, <1>7, <1>8, <1>9, <1>10 DEF Next
-----------------------------------------------------------------------------
LEMMA IInvInit == Init => IInv
<1> SUFFICES ASSUME NEW E \in Seq(Operator), NEW D \in SUBSET Space, NEW t \in Space,
                    NEW S \in [D -> Source], Start(E, S, t)
             PROVE  IInv
  BY DEF Init
<1>1. TypeOK
  BY DEF Start, TypeOK, Supplied, Resolved
<1>2. Frames /\ Chain /\ Sound /\ Lazy /\ Ended
  BY DEF Start, Frames, Chain, Sound, Lazy, Ended, Failure
<1>3. QED  BY <1>1, <1>2 DEF IInv

LEMMA IInvStep == IInv /\ [Next]_vars => IInv'
BY TypeStep, FramesStep, ChainStep, SoundStep, LazyStep, EndedStep DEF IInv

LEMMA IInvHolds == Spec => []IInv
BY IInvInit, IInvStep, PTL DEF Spec

(* The state of a computation keeps its type: the stack only holds edges *)
(* that exist, with no more inputs collected than they have.             *)
THEOREM ComputeTypes == Spec => []TypeOK
BY IInvHolds, PTL DEF IInv

(* compute() returns a target only if it can be derived from the sources. *)
THEOREM ComputeIsSound == Spec => []ReturnsDerivable
<1>1. IInv => ReturnsDerivable
  BY DEF IInv, Ended, Sound, ReturnsDerivable, Derivable
<1>2. QED  BY <1>1, IInvHolds, PTL

(* ... and gives up only on one that cannot, unless a source was registered *)
(* for a space it is not of.                                                *)
THEOREM ComputeIsComplete == Spec => []RefusesUnderivable
<1>1. IInv => RefusesUnderivable
  BY DEF IInv, Ended, RefusesUnderivable, Derivable
<1>2. QED  BY <1>1, IInvHolds, PTL

(* It loads and computes nothing but what the target needs. *)
THEOREM ComputeIsLazy == Spec => []OnlyNeeded
<1>1. IInv => OnlyNeeded
  BY DEF IInv, Lazy, OnlyNeeded, Needed
<1>2. QED  BY <1>1, IInvHolds, PTL
-----------------------------------------------------------------------------
(* The trace as a plan, for the induction: the steps that make a space are   *)
(* all different, they made what is resolved, and an edge that ran had its   *)
(* inputs made before it.                                                    *)
TraceStep == [kind: {"LOAD", "LIFT", "EXEC"}, space: Space]

MadeIn(T) == {T[m].space : m \in {m \in DOMAIN T : T[m].kind # "LIFT"}}

MadeOnce(T) ==
    \A m, n \in DOMAIN T :
        T[m].kind # "LIFT" /\ T[n].kind # "LIFT" /\ T[m].space = T[n].space => m = n

InputsFirst ==
    \A n \in DOMAIN trace : trace[n].kind = "EXEC" =>
        \A s : s \in Inputs(edges[FirstProducer(edges)[trace[n].space]]) =>
                    /\ s \in DOMAIN memo /\ memo[s] = s
                    /\ \E m \in DOMAIN trace :
                           m < n /\ trace[m].kind # "LIFT" /\ trace[m].space = s

Plan == /\ MadeOnce(trace)
        /\ outcome = "running" => MadeIn(trace) = DOMAIN memo
        /\ InputsFirst

(* One more step of a trace. *)
LEMMA OneMoreStep ==
  ASSUME NEW T \in Seq(TraceStep), NEW e \in TraceStep, MadeOnce(T),
         e.kind # "LIFT" => e.space \notin MadeIn(T)
  PROVE  /\ Append(T, e) \in Seq(TraceStep)
         /\ MadeOnce(Append(T, e))
         /\ MadeIn(Append(T, e)) = MadeIn(T) \cup (IF e.kind = "LIFT" THEN {} ELSE {e.space})
<1> DEFINE U == Append(T, e)
<1>1. /\ U \in Seq(TraceStep) /\ Len(T) \in Nat
      /\ DOMAIN T = 1 .. Len(T) /\ DOMAIN U = 1 .. Len(T) + 1
      /\ \A m \in 1 .. Len(T) : U[m] = T[m]
      /\ U[Len(T) + 1] = e
  BY AppendProperties, LenProperties
<1> HIDE DEF U
<1>2. MadeOnce(U)
  <2>1. SUFFICES ASSUME NEW m \in DOMAIN U, NEW n \in DOMAIN U, U[m].kind # "LIFT",
                        U[n].kind # "LIFT", U[m].space = U[n].space
                 PROVE  m = n
    BY DEF MadeOnce
  <2>2. CASE m \in DOMAIN T /\ n \in DOMAIN T
    BY <1>1, <2>1, <2>2 DEF MadeOnce
  <2>3. CASE m = Len(T) + 1 /\ n \in DOMAIN T
    BY <1>1, <2>1, <2>3 DEF MadeIn
  <2>4. CASE m \in DOMAIN T /\ n = Len(T) + 1
    BY <1>1, <2>1, <2>4 DEF MadeIn
  <2>5. QED  BY <1>1, <2>2, <2>3, <2>4
<1>3. ASSUME NEW s \in MadeIn(U)
      PROVE  s \in MadeIn(T) \cup (IF e.kind = "LIFT" THEN {} ELSE {e.space})
  <2>1. PICK m \in DOMAIN U : U[m].kind # "LIFT" /\ U[m].space = s
    BY DEF MadeIn
  <2>2. CASE m \in DOMAIN T
    BY <1>1, <2>1, <2>2 DEF MadeIn
  <2>3. CASE m = Len(T) + 1
    BY <1>1, <2>1, <2>3
  <2>4. QED  BY <1>1, <2>2, <2>3
<1>4. ASSUME NEW s \in MadeIn(T)  PROVE s \in MadeIn(U)
  <2>1. PICK m \in DOMAIN T : T[m].kind # "LIFT" /\ T[m].space = s
    BY DEF MadeIn
  <2>2. m \in DOMAIN U /\ U[m] = T[m]
    BY <1>1
  <2>3. QED  BY <2>1, <2>2 DEF MadeIn
<1>5. ASSUME e.kind # "LIFT"  PROVE e.space \in MadeIn(U)
  <2>1. Len(T) + 1 \in DOMAIN U
    BY <1>1
  <2>2. QED  BY <1>1, <1>5, <2>1 DEF MadeIn
<1>6. MadeIn(U) = MadeIn(T) \cup (IF e.kind = "LIFT" THEN {} ELSE {e.space})
  BY <1>3, <1>4, <1>5
<1>7. QED  BY <1>1, <1>2, <1>6 DEF U

(* Later steps leave the edges that ran alone: nothing resolved is replaced. *)
LEMMA InputsStay ==
  ASSUME InputsFirst, edges' = edges,
         trace \in Seq(TraceStep), trace' \in Seq(TraceStep), Len(trace) <= Len(trace'),
         \A m \in 1 .. Len(trace) : trace'[m] = trace[m],
         \A x \in DOMAIN memo : x \in DOMAIN memo' /\ memo'[x] = memo[x],
         NEW n \in DOMAIN trace, trace[n].kind = "EXEC", NEW s,
         s \in Inputs(edges[FirstProducer(edges)[trace[n].space]])
  PROVE  /\ s \in DOMAIN memo' /\ memo'[s] = s
         /\ \E m \in DOMAIN trace' :
                m < n /\ trace'[m].kind # "LIFT" /\ trace'[m].space = s
<1>1. /\ DOMAIN trace = 1 .. Len(trace) /\ Len(trace) \in Nat
      /\ DOMAIN trace' = 1 .. Len(trace') /\ Len(trace') \in Nat
  BY LenProperties
<1>2. PICK m \in DOMAIN trace : m < n /\ trace[m].kind # "LIFT" /\ trace[m].space = s
  BY DEF InputsFirst
<1>3. m \in DOMAIN trace' /\ trace'[m] = trace[m]
  BY <1>1
<1>4. s \in DOMAIN memo /\ memo[s] = s
  BY DEF InputsFirst
<1>5. QED  BY <1>2, <1>3, <1>4

LEMMA PlanStep == IInv /\ Plan /\ [Next]_vars => Plan'
<1> SUFFICES ASSUME TypeOK, Frames, Plan, [Next]_vars  PROVE Plan'
  BY DEF IInv
<1>0. /\ edges' = edges
      /\ trace \in Seq(TraceStep) /\ Len(trace) \in Nat /\ DOMAIN trace = 1 .. Len(trace)
  <2>1. edges' = edges
    BY DEF Next, vars, given, Take, Load, LoadFails, Refuse, Descend, Execute
  <2>2. trace \in Seq(TraceStep)
    BY DEF TypeOK, TraceStep
  <2>3. QED  BY <2>1, <2>2, LenProperties
<1>1. ASSUME trace' = trace, memo' = memo, outcome' = "running" => outcome = "running"
      PROVE  Plan'
  <2>1. MadeOnce(trace') /\ MadeIn(trace') = MadeIn(trace) /\ DOMAIN memo' = DOMAIN memo
    BY <1>1 DEF Plan
  <2>2. InputsFirst'
    BY <1>0, <1>1 DEF Plan, InputsFirst
  <2>3. QED  BY <1>1, <2>1, <2>2 DEF Plan
<1>2. ASSUME NEW s \in Space, Load(s)  PROVE Plan'
  <2> DEFINE l == Record("LOAD", s)  u == Record("LIFT", s)
  <2>1. /\ outcome = "running" /\ s \notin DOMAIN memo /\ outcome' = outcome
        /\ DOMAIN memo' = DOMAIN memo \cup {s}
        /\ \A x \in DOMAIN memo : x \in DOMAIN memo' /\ memo'[x] = memo[x]
    BY <1>2 DEF Load, Running, Resolved
  <2>2. /\ l \in TraceStep /\ l.kind = "LOAD" /\ l.space = s
        /\ u \in TraceStep /\ u.kind = "LIFT" /\ u.space = s
    BY DEF Record, TraceStep
  <2>3. trace' \in {Append(trace, l), Append(Append(trace, l), u)}
    <3>1. trace \o <<l>> = Append(trace, l)
      BY <1>0, <2>2
    <3>2. trace \o <<l, u>> = Append(Append(trace, l), u)
      BY <1>0, <2>2
    <3>3. QED  BY <1>2, <3>1, <3>2 DEF Load
  <2> HIDE DEF l, u
  <2>4. /\ Append(trace, l) \in Seq(TraceStep) /\ MadeOnce(Append(trace, l))
        /\ MadeIn(Append(trace, l)) = DOMAIN memo \cup {s}
    BY <1>0, <2>1, <2>2, OneMoreStep DEF Plan
  <2>5. /\ Append(Append(trace, l), u) \in Seq(TraceStep)
        /\ MadeOnce(Append(Append(trace, l), u))
        /\ MadeIn(Append(Append(trace, l), u)) = DOMAIN memo \cup {s}
    <3>1. /\ MadeOnce(Append(Append(trace, l), u))
          /\ Append(Append(trace, l), u) \in Seq(TraceStep)
          /\ MadeIn(Append(Append(trace, l), u)) = MadeIn(Append(trace, l)) \cup {}
      BY <2>2, <2>4, OneMoreStep
    <3>2. QED  BY <2>4, <3>1
  <2>6. trace' \in Seq(TraceStep) /\ MadeOnce(trace') /\ MadeIn(trace') = DOMAIN memo'
    BY <2>1, <2>3, <2>4, <2>5
  <2>7. /\ Len(trace) <= Len(trace')
        /\ \A m \in 1 .. Len(trace) : trace'[m] = trace[m]
        /\ \A n \in DOMAIN trace' : n \in DOMAIN trace \/ trace'[n].kind # "EXEC"
    <3>1. /\ Len(Append(trace, l)) = Len(trace) + 1
          /\ \A m \in 1 .. Len(trace) : Append(trace, l)[m] = trace[m]
          /\ Append(trace, l)[Len(trace) + 1] = l
      BY <1>0, <2>2, AppendProperties
    <3>2. /\ Len(Append(Append(trace, l), u)) = Len(trace) + 2
          /\ \A m \in 1 .. Len(trace) + 1 : Append(Append(trace, l), u)[m] = Append(trace, l)[m]
          /\ Append(Append(trace, l), u)[Len(trace) + 2] = u
      <4>1. Append(trace, l) \in Seq(TraceStep)
        BY <2>4
      <4>2. Len(Append(trace, l)) + 1 = Len(trace) + 2
        BY <1>0, <3>1
      <4>3. QED  BY <2>2, <3>1, <4>1, <4>2, AppendProperties
    <3>3. CASE trace' = Append(trace, l)
      BY <1>0, <2>2, <2>6, <3>1, <3>3, LenProperties
    <3>4. CASE trace' = Append(Append(trace, l), u)
      BY <1>0, <2>2, <2>6, <3>1, <3>2, <3>4, LenProperties
    <3>5. QED  BY <2>3, <3>3, <3>4
  <2>8. InputsFirst'
    <3>1. SUFFICES ASSUME NEW n \in DOMAIN trace', trace'[n].kind = "EXEC", NEW x,
                          x \in Inputs(edges'[FirstProducer(edges')[trace'[n].space]])
                   PROVE  /\ x \in DOMAIN memo' /\ memo'[x] = x
                          /\ \E m \in DOMAIN trace' :
                                 m < n /\ trace'[m].kind # "LIFT" /\ trace'[m].space = x
      BY DEF InputsFirst
    <3>2. n \in DOMAIN trace /\ trace'[n] = trace[n]
      BY <1>0, <2>7, <3>1
    <3>3. /\ trace[n].kind = "EXEC"
          /\ x \in Inputs(edges[FirstProducer(edges)[trace[n].space]])
      BY <1>0, <3>1, <3>2
    <3>4. InputsFirst
      BY DEF Plan
    <3>5. QED  BY <1>0, <2>1, <2>6, <2>7, <3>2, <3>3, <3>4, InputsStay
  <2>9. QED  BY <2>6, <2>8 DEF Plan
<1>3. ASSUME NEW s \in Space, LoadFails(s)  PROVE Plan'
  <2> DEFINE l == Record("LOAD", s)
  <2>1. /\ outcome = "running" /\ s \notin DOMAIN memo /\ outcome' = "KeyError"
        /\ memo' = memo /\ trace' = Append(trace, l)
    BY <1>3 DEF LoadFails, Running, Resolved, Raise
  <2>2. l \in TraceStep /\ l.kind = "LOAD" /\ l.space = s
    BY DEF Record, TraceStep
  <2> HIDE DEF l
  <2>3. trace' \in Seq(TraceStep) /\ MadeOnce(trace')
    BY <1>0, <2>1, <2>2, OneMoreStep DEF Plan
  <2>4. /\ Len(trace') = Len(trace) + 1 /\ trace'[Len(trace) + 1] = l
        /\ \A m \in 1 .. Len(trace) : trace'[m] = trace[m]
    BY <1>0, <2>1, <2>2, AppendProperties
  <2>5. InputsFirst'
    <3>1. SUFFICES ASSUME NEW n \in DOMAIN trace', trace'[n].kind = "EXEC", NEW x,
                          x \in Inputs(edges'[FirstProducer(edges')[trace'[n].space]])
                   PROVE  /\ x \in DOMAIN memo' /\ memo'[x] = x
                          /\ \E m \in DOMAIN trace' :
                                 m < n /\ trace'[m].kind # "LIFT" /\ trace'[m].space = x
      BY DEF InputsFirst
    <3>2. n \in DOMAIN trace /\ trace'[n] = trace[n]
      BY <1>0, <2>2, <2>3, <2>4, <3>1, LenProperties
    <3>3. /\ trace[n].kind = "EXEC"
          /\ x \in Inputs(edges[FirstProducer(edges)[trace[n].space]])
      BY <1>0, <3>1, <3>2
    <3>4. InputsFirst /\ Len(trace) <= Len(trace')
      BY <1>0, <2>4 DEF Plan
    <3>5. \A y \in DOMAIN memo : y \in DOMAIN memo' /\ memo'[y] = memo[y]
      BY <2>1
    <3>6. QED  BY <1>0, <2>3, <2>4, <3>2, <3>3, <3>4, <3>5, InputsStay
  <2>6. QED  BY <2>1, <2>3, <2>5 DEF Plan
<1>4. ASSUME Execute, Rejection(Op(Top)) = "none"  PROVE Plan'
  <2> DEFINE s == Top.space
             e == Record("EXEC", s)
  <2>1. /\ Len(stack) \in DOMAIN stack /\ s \in Space /\ s \notin DOMAIN memo
        /\ Op(Top) = edges[Producer(edges, s)]
    BY <1>4, TopProduces DEF Execute, Frames, Top, FrameType
  <2>2. /\ outcome = "running" /\ outcome' = outcome /\ trace' = Append(trace, e)
        /\ DOMAIN memo' = DOMAIN memo \cup {s}
        /\ \A x \in DOMAIN memo : x \in DOMAIN memo' /\ memo'[x] = memo[x]
    BY <1>4, <2>1 DEF Execute, Resolved
  <2>3. e \in TraceStep /\ e.kind = "EXEC" /\ e.space = s
    BY <2>1 DEF Record, TraceStep
  <2>4. \A x \in Inputs(edges[Producer(edges, s)]) : x \in DOMAIN memo /\ memo[x] = x
    <3>1. TAKE x \in Inputs(edges[Producer(edges, s)])
    <3>2. x \in DOMAIN memo
      BY <1>4, TopIsUsable DEF Execute
    <3>3. PICK k \in DOMAIN Op(Top).ins : Op(Top).ins[k] = x
      BY <2>1 DEF Inputs
    <3>4. memo[Op(Top).ins[k]] = Op(Top).ins[k]
      BY <1>4 DEF Rejection
    <3>5. QED  BY <3>2, <3>3, <3>4
  <2> HIDE DEF s, e
  <2>5. /\ trace' \in Seq(TraceStep) /\ MadeOnce(trace')
        /\ MadeIn(trace') = DOMAIN memo \cup {s}
    BY <1>0, <2>1, <2>2, <2>3, OneMoreStep DEF Plan
  <2>6. /\ Len(trace') = Len(trace) + 1 /\ trace'[Len(trace) + 1] = e
        /\ \A m \in 1 .. Len(trace) : trace'[m] = trace[m]
    BY <1>0, <2>2, <2>3, AppendProperties
  <2>7. InputsFirst'
    <3>1. SUFFICES ASSUME NEW n \in DOMAIN trace', trace'[n].kind = "EXEC", NEW x,
                          x \in Inputs(edges'[FirstProducer(edges')[trace'[n].space]])
                   PROVE  /\ x \in DOMAIN memo' /\ memo'[x] = x
                          /\ \E m \in DOMAIN trace' :
                                 m < n /\ trace'[m].kind # "LIFT" /\ trace'[m].space = x
      BY DEF InputsFirst
    <3>2. DOMAIN trace' = 1 .. Len(trace) + 1
      BY <2>5, <2>6, LenProperties
    <3>3. CASE n \in DOMAIN trace
      <4>1. trace'[n] = trace[n]
        BY <1>0, <2>6, <3>3
      <4>2. /\ trace[n].kind = "EXEC"
            /\ x \in Inputs(edges[FirstProducer(edges)[trace[n].space]])
        BY <1>0, <3>1, <4>1
      <4>3. InputsFirst /\ Len(trace) <= Len(trace')
        BY <1>0, <2>6 DEF Plan
      <4>4. QED  BY <1>0, <2>2, <2>5, <2>6, <3>3, <4>2, <4>3, InputsStay
    <3>4. CASE n = Len(trace) + 1
      <4>1. trace'[n].space = s
        BY <2>3, <2>6, <3>4
      <4>2. x \in Inputs(edges[Producer(edges, s)])
        BY <1>0, <2>1, <3>1, <4>1 DEF FirstProducer
      <4>3. x \in DOMAIN memo /\ memo[x] = x
        BY <2>4, <4>2
      <4>4. x \in MadeIn(trace)
        BY <2>2, <4>3 DEF Plan
      <4>5. PICK m \in DOMAIN trace : trace[m].kind # "LIFT" /\ trace[m].space = x
        BY <4>4 DEF MadeIn
      <4>6. m \in DOMAIN trace' /\ m < n /\ trace'[m] = trace[m]
        BY <1>0, <2>6, <3>2, <3>4
      <4>7. QED  BY <2>2, <4>3, <4>5, <4>6
    <3>5. QED  BY <1>0, <3>2, <3>3, <3>4
  <2>8. QED  BY <2>2, <2>5, <2>7 DEF Plan
<1>5. ASSUME NEW s \in Space, Take(s) \/ Refuse(s) \/ Descend(s)  PROVE Plan'
  BY <1>1, <1>5 DEF Take, Refuse, Descend, Raise, Running
<1>6. CASE Execute
  <2>1. CASE Rejection(Op(Top)) # "none"
    BY <1>1, <1>6, <2>1 DEF Execute, Raise
  <2>2. QED  BY <1>4, <1>6, <2>1
<1>7. CASE UNCHANGED vars
  BY <1>1, <1>7 DEF vars
<1>8. QED  BY <1>2, <1>3, <1>5, <1>6, <1>7 DEF Next

(* The steps compute() reports are a plan: each space is made once, and an   *)
(* edge runs only on inputs made before it, each truly of its space.         *)
THEOREM TraceIsPlanned == Spec => []TraceIsAPlan
<1>1. Init => Plan
  BY DEF Init, Start, Plan, MadeOnce, MadeIn, InputsFirst
<1>2. IInv /\ Plan => TraceIsAPlan
  <2>1. SUFFICES ASSUME IInv, Plan, NEW n \in DOMAIN trace
                 PROVE  /\ trace[n].kind # "LIFT" => trace[n].space \notin Produced(n - 1)
                        /\ trace[n].kind = "EXEC" =>
                               \A s \in Inputs(edges[Producer(edges, trace[n].space)]) :
                                   s \in Produced(n - 1) /\ memo[s] = s
    BY DEF TraceIsAPlan
  <2>2. /\ trace \in Seq(TraceStep) /\ Len(trace) \in Nat /\ n \in 1 .. Len(trace)
        /\ DOMAIN trace = 1 .. Len(trace) /\ trace[n] \in TraceStep
    <3>1. trace \in Seq(TraceStep)
      BY <2>1 DEF IInv, TypeOK, TraceStep
    <3>2. QED  BY <3>1, LenProperties, ElementOfSeq
  <2>3. ASSUME trace[n].kind # "LIFT", trace[n].space \in Produced(n - 1)  PROVE FALSE
    <3>1. PICK m \in 1 .. n - 1 : trace[m].kind # "LIFT" /\ trace[m].space = trace[n].space
      BY <2>3 DEF Produced
    <3>2. m \in DOMAIN trace /\ m # n
      BY <2>2
    <3>3. QED  BY <2>1, <2>3, <3>1, <3>2 DEF Plan, MadeOnce
  <2>4. ASSUME trace[n].kind = "EXEC",
               NEW s \in Inputs(edges[Producer(edges, trace[n].space)])
        PROVE  s \in Produced(n - 1) /\ memo[s] = s
    <3>1. FirstProducer(edges)[trace[n].space] = Producer(edges, trace[n].space)
      BY <2>2 DEF FirstProducer, TraceStep
    <3>2. /\ memo[s] = s
          /\ \E m \in DOMAIN trace :
                 m < n /\ trace[m].kind # "LIFT" /\ trace[m].space = s
      BY <2>1, <2>4, <3>1 DEF Plan, InputsFirst
    <3>3. PICK m \in DOMAIN trace : m < n /\ trace[m].kind # "LIFT" /\ trace[m].space = s
      BY <3>2
    <3>4. m \in 1 .. n - 1
      BY <2>2, <3>3
    <3>5. QED  BY <3>2, <3>3, <3>4 DEF Produced
  <2>5. QED  BY <2>3, <2>4
<1>3. QED  BY <1>1, <1>2, IInvHolds, PlanStep, PTL DEF Spec
-----------------------------------------------------------------------------
(* topological_order() *)

(* The calls of every operator, as a function of the edges alone. *)
AllCalls(E) ==
    [i \in DOMAIN E |-> {c \in (DOMAIN E[i].ins) \X (DOMAIN E) :
                            c[2] \in ProducersOf(E, E[i].ins[c[1]])}]

VisitType == [op: DOMAIN operators, asked: Nat \X Nat]

(* No operator is scheduled or visited twice. *)
Once ==
    /\ \A m \in DOMAIN result : \A n \in DOMAIN result : result[m] = result[n] => m = n
    /\ \A k \in DOMAIN visits : \A l \in DOMAIN visits : visits[k].op = visits[l].op => k = l
    /\ \A k \in DOMAIN visits : \A n \in DOMAIN result : result[n] # visits[k].op

(* Every visit in progress was called by the one below it. *)
Path ==
    \A k \in DOMAIN visits : k + 1 \in DOMAIN visits =>
        /\ visits[k].asked \in AllCalls(operators)[visits[k].op]
        /\ visits[k].asked[2] = visits[k + 1].op

(* What a visit asked for before is scheduled. *)
AskedIsDone ==
    \A k \in DOMAIN visits : \A c \in AllCalls(operators)[visits[k].op] :
        Before(c, visits[k].asked) \/ (c = visits[k].asked /\ k = Len(visits)) =>
            \E n \in DOMAIN result : result[n] = c[2]

ProducersFirst ==
    \A n \in DOMAIN result : \A c \in AllCalls(operators)[result[n]] :
        \E m \in DOMAIN result : m < n /\ result[m] = c[2]

(* The outer loop leaves nothing behind. *)
Reached ==
    \A i \in DOMAIN operators : i < next =>
        \/ \E n \in DOMAIN result : result[n] = i
        \/ \E k \in DOMAIN visits : visits[k].op = i

Returned == ended = "ordered" => visits = << >> /\ next \notin DOMAIN operators

OrderInv ==
    OrderTypeOK /\ Once /\ Path /\ AskedIsDone /\ ProducersFirst /\ Reached /\ Returned /\ RaisesOnCycle
-----------------------------------------------------------------------------
LEMMA VisitsAre ==
  ASSUME OrderTypeOK
  PROVE  /\ visits \in Seq(VisitType) /\ Len(visits) \in Nat /\ DOMAIN visits = 1 .. Len(visits)
         /\ \A k \in DOMAIN visits : visits[k] \in VisitType /\ visits[k].op \in DOMAIN operators
         /\ result \in Seq(DOMAIN operators) /\ Len(result) \in Nat
         /\ DOMAIN result = 1 .. Len(result)
         /\ \A n \in DOMAIN result : result[n] \in DOMAIN operators
         /\ DOMAIN operators = 1 .. Len(operators) /\ Len(operators) \in Nat
<1>1. visits \in Seq(VisitType) /\ result \in Seq(DOMAIN operators) /\ operators \in Seq(Operator)
  BY DEF OrderTypeOK, VisitType
<1>2. /\ Len(visits) \in Nat /\ DOMAIN visits = 1 .. Len(visits)
      /\ Len(result) \in Nat /\ DOMAIN result = 1 .. Len(result)
      /\ Len(operators) \in Nat /\ DOMAIN operators = 1 .. Len(operators)
  BY <1>1, LenProperties
<1>3. \A k \in DOMAIN visits : visits[k] \in VisitType
  BY <1>1, <1>2, ElementOfSeq
<1>4. \A n \in DOMAIN result : result[n] \in DOMAIN operators
  BY <1>1, <1>2, ElementOfSeq
<1>5. QED  BY <1>1, <1>2, <1>3, <1>4 DEF VisitType

(* A call is made for a producer of an input. *)
LEMMA CallsAre ==
  ASSUME OrderTypeOK, NEW i \in DOMAIN operators
  PROVE  /\ Calls(i) = AllCalls(operators)[i]
         /\ \A c \in Calls(i) : /\ c \in (Nat \ {0}) \X (DOMAIN operators) /\ c[2] \in Nat
                                /\ Feeds(operators, c[2], i)
         /\ \A j \in DOMAIN operators : Feeds(operators, j, i) => \E c \in Calls(i) : c[2] = j
<1>1. Calls(i) = AllCalls(operators)[i]
  BY DEF Calls, AllCalls
<1>2. operators[i] \in Operator
  BY VisitsAre, ElementOfSeq DEF OrderTypeOK
<1>3. operators[i].ins \in Seq(Space) /\ DOMAIN operators[i].ins = 1 .. Len(operators[i].ins)
  BY <1>2, LenProperties DEF Operator
<1>4. ASSUME NEW c \in Calls(i)
      PROVE  /\ c \in (Nat \ {0}) \X (DOMAIN operators) /\ c[2] \in Nat
             /\ Feeds(operators, c[2], i)
  <2>1. c \in (DOMAIN operators[i].ins) \X (DOMAIN operators)
        /\ operators[i].ins[c[1]] \in Outputs(operators[c[2]])
    BY DEF Calls, ProducersOf
  <2>2. c[1] \in DOMAIN operators[i].ins /\ c[2] \in DOMAIN operators /\ c = << c[1], c[2] >>
    BY <2>1
  <2>3. c[1] \in Nat \ {0} /\ c[2] \in Nat
    BY <1>3, <2>2, VisitsAre
  <2>4. operators[i].ins[c[1]] \in Inputs(operators[i])
    BY <2>2 DEF Inputs
  <2>5. Feeds(operators, c[2], i)
    BY <2>1, <2>4 DEF Feeds
  <2>6. QED  BY <2>2, <2>3, <2>5
<1>5. ASSUME NEW j \in DOMAIN operators, Feeds(operators, j, i)  PROVE \E c \in Calls(i) : c[2] = j
  <2>1. PICK x \in Inputs(operators[i]) : x \in Outputs(operators[j])
    BY <1>5 DEF Feeds
  <2>2. PICK a \in DOMAIN operators[i].ins : operators[i].ins[a] = x
    BY DEF Inputs
  <2>3. << a, j >> \in Calls(i)
    BY <2>1, <2>2 DEF Calls, ProducersOf
  <2>4. QED  BY <2>3
<1>6. QED  BY <1>1, <1>4, <1>5

LEMMA TopIs ==
  ASSUME OrderTypeOK, visits # << >>
  PROVE  /\ Len(visits) \in DOMAIN visits /\ Deepest = visits[Len(visits)]
         /\ Deepest \in VisitType /\ Deepest.op \in DOMAIN operators /\ Deepest.asked \in Nat \X Nat
         /\ Calls(Deepest.op) = AllCalls(operators)[Deepest.op]
<1>1. Len(visits) \in DOMAIN visits
  BY VisitsAre
<1>2. Deepest \in VisitType
  BY <1>1, VisitsAre DEF Deepest
<1>3. QED  BY <1>1, <1>2, CallsAre DEF Deepest, VisitType

(* The loops go on with the first call that is pending. *)
LEMMA NextIsFirst ==
  ASSUME OrderTypeOK, visits # << >>, Pending(Deepest) # {}
  PROVE  /\ NextCall(Deepest) \in Pending(Deepest)
         /\ \A d \in Pending(Deepest) : NextCall(Deepest) = d \/ Before(NextCall(Deepest), d)
<1> DEFINE P == Pending(Deepest)
           Ones == {c[1] : c \in P}
<1>1. \A c \in P : c = << c[1], c[2] >> /\ c[1] \in Nat /\ c[2] \in Nat
  BY TopIs, CallsAre DEF Pending
<1> HIDE DEF P
<1>2. Ones \in SUBSET Nat /\ Ones # {}
  BY <1>1 DEF P
<1>3. PICK a \in Ones : \A m \in Ones : a <= m
  BY <1>2, LeastNumber
<1> DEFINE Twos == {c[2] : c \in {c \in P : c[1] = a}}
<1>4. Twos \in SUBSET Nat /\ Twos # {}
  BY <1>1, <1>3
<1>5. PICK b \in Twos : \A m \in Twos : b <= m
  <2> HIDE DEF Twos
  <2>1. QED  BY <1>4, LeastNumber
<1>6. PICK e \in P : e[1] = a /\ e[2] = b
  BY <1>5
<1>7. \A d \in P : e = d \/ Before(e, d)
  <2>1. TAKE d \in P
  <2>2. a <= d[1]
    BY <1>3
  <2>3. d[1] = a => b <= d[2]
    BY <1>5
  <2>4. QED  BY <1>1, <1>6, <2>2, <2>3 DEF Before
<1>8. QED  BY <1>6, <1>7, Zenon DEF P, NextCall

(* ... so whatever comes before it was asked for. *)
LEMMA EarlierIsDone ==
  ASSUME OrderTypeOK, AskedIsDone, visits # << >>, NEW c \in Calls(Deepest.op), c \notin Pending(Deepest)
  PROVE  \E n \in DOMAIN result : result[n] = c[2]
<1>1. ~Before(Deepest.asked, c)
  BY DEF Pending
<1>2. /\ c = << c[1], c[2] >> /\ c[1] \in Nat /\ c[2] \in Nat
      /\ Deepest.asked = << Deepest.asked[1], Deepest.asked[2] >>
      /\ Deepest.asked[1] \in Nat /\ Deepest.asked[2] \in Nat
  BY TopIs, CallsAre
<1>3. c = Deepest.asked \/ Before(c, Deepest.asked)
  BY <1>1, <1>2 DEF Before
<1>4. QED  BY <1>3, TopIs DEF AskedIsDone
-----------------------------------------------------------------------------
(* The three things a step does to the visits in progress: a visit asks for  *)
(* its next call, one is started, the last one ends.                         *)
Asking(c) ==
    /\ Len(visits') = Len(visits)
    /\ \A k \in DOMAIN visits :
           /\ visits'[k].op = visits[k].op
           /\ visits'[k].asked = IF k = Len(visits) THEN c ELSE visits[k].asked

Started(i, c) ==
    /\ Len(visits') = Len(visits) + 1
    /\ \A k \in DOMAIN visits :
           /\ visits'[k].op = visits[k].op
           /\ visits'[k].asked = IF k = Len(visits) THEN c ELSE visits[k].asked
    /\ visits'[Len(visits) + 1].op = i
    /\ visits'[Len(visits) + 1].asked = << 0, 0 >>

LEMMA AskedStack ==
  ASSUME OrderTypeOK, visits # << >>, NEW c \in Nat \X Nat
  PROVE  LET frames == [visits EXCEPT ![Len(visits)].asked = c] IN
         /\ frames \in Seq(VisitType) /\ Len(frames) = Len(visits)
         /\ \A k \in 1 .. Len(visits) :
                frames[k] = IF k = Len(visits) THEN [visits[k] EXCEPT !.asked = c] ELSE visits[k]
<1> DEFINE n == Len(visits)
           e == [visits[n] EXCEPT !.asked = c]
<1>1. visits \in Seq(VisitType) /\ n \in 1 .. Len(visits)
  BY VisitsAre
<1>2. visits[n] \in VisitType
  BY <1>1, ElementOfSeq
<1>3. e \in VisitType
  BY <1>2 DEF VisitType
<1>4. [visits EXCEPT ![n].asked = c] = [visits EXCEPT ![n] = e]
  OBVIOUS
<1>5. QED  BY <1>1, <1>3, <1>4, ExceptSeq

LEMMA AskingStep ==
  ASSUME OrderTypeOK, visits # << >>, NEW c \in Nat \X Nat,
         visits' = [visits EXCEPT ![Len(visits)].asked = c]
  PROVE  Asking(c) /\ visits' \in Seq(VisitType) /\ DOMAIN visits' = DOMAIN visits
<1>1. /\ visits' \in Seq(VisitType) /\ Len(visits') = Len(visits)
      /\ \A k \in 1 .. Len(visits) :
             visits'[k] = IF k = Len(visits) THEN [visits[k] EXCEPT !.asked = c] ELSE visits[k]
  BY AskedStack
<1>2. \A k \in DOMAIN visits : visits[k] \in VisitType /\ k \in 1 .. Len(visits)
  BY VisitsAre
<1>3. \A k \in DOMAIN visits :
          /\ visits'[k].op = visits[k].op
          /\ visits'[k].asked = IF k = Len(visits) THEN c ELSE visits[k].asked
  BY <1>1, <1>2 DEF VisitType
<1>4. DOMAIN visits' = DOMAIN visits
  BY <1>1, VisitsAre, LenProperties
<1>5. QED  BY <1>1, <1>3, <1>4 DEF Asking

LEMMA AppendIs ==
  ASSUME NEW S, NEW s \in Seq(S), NEW e \in S
  PROVE  /\ Append(s, e) \in Seq(S) /\ Len(Append(s, e)) = Len(s) + 1
         /\ \A k \in 1 .. Len(s) : Append(s, e)[k] = s[k]
         /\ Append(s, e)[Len(s) + 1] = e
  BY AppendProperties

LEMMA StartedFrom ==
  ASSUME OrderTypeOK, NEW i \in DOMAIN operators, NEW c, NEW frames \in Seq(VisitType),
         Len(frames) = Len(visits),
         \A k \in DOMAIN visits :
             /\ frames[k].op = visits[k].op
             /\ frames[k].asked = IF k = Len(visits) THEN c ELSE visits[k].asked,
         NEW e \in VisitType, e.op = i, e.asked = << 0, 0 >>,
         visits' = Append(frames, e)
  PROVE  /\ Started(i, c) /\ visits' \in Seq(VisitType)
         /\ DOMAIN visits' = DOMAIN visits \cup {Len(visits) + 1}
<1>1. Len(visits) \in Nat /\ DOMAIN visits = 1 .. Len(visits)
  BY VisitsAre
<1>2. /\ Append(frames, e) \in Seq(VisitType) /\ Len(Append(frames, e)) = Len(frames) + 1
      /\ \A k \in 1 .. Len(frames) : Append(frames, e)[k] = frames[k]
      /\ Append(frames, e)[Len(frames) + 1] = e
  BY AppendIs, Zenon
<1>3. /\ visits' \in Seq(VisitType) /\ Len(visits') = Len(visits) + 1
      /\ \A k \in 1 .. Len(visits) : visits'[k] = frames[k]
      /\ visits'[Len(visits) + 1] = e
  BY <1>2, Zenon
<1>4. DOMAIN visits' = 1 .. Len(visits) + 1
  BY <1>3, LenProperties
<1>5. 1 .. Len(visits) + 1 = (1 .. Len(visits)) \cup {Len(visits) + 1}
  BY <1>1
<1>6. DOMAIN visits' = DOMAIN visits \cup {Len(visits) + 1}
  BY <1>1, <1>4, <1>5, Zenon
<1>7. QED  BY <1>1, <1>3, <1>6, Zenon DEF Started

LEMMA StartedStep ==
  ASSUME OrderTypeOK, NEW i \in DOMAIN operators, NEW c \in Nat \X Nat,
         NEW frames, frames = (IF visits = << >> THEN visits
                               ELSE [visits EXCEPT ![Len(visits)].asked = c]),
         visits' = Append(frames, [op |-> i, asked |-> << 0, 0 >>])
  PROVE  /\ Started(i, c) /\ visits' \in Seq(VisitType)
         /\ DOMAIN visits' = DOMAIN visits \cup {Len(visits) + 1}
<1>1. PICK e \in VisitType : /\ e.op = i /\ e.asked = << 0, 0 >>
                             /\ visits' = Append(frames, e)
  BY DEF VisitType
<1>2. /\ visits \in Seq(VisitType) /\ Len(visits) \in Nat /\ DOMAIN visits = 1 .. Len(visits)
      /\ \A k \in DOMAIN visits : visits[k] \in VisitType
  BY VisitsAre
<1>3. /\ frames \in Seq(VisitType) /\ Len(frames) = Len(visits)
      /\ \A k \in DOMAIN visits :
             /\ frames[k].op = visits[k].op
             /\ frames[k].asked = IF k = Len(visits) THEN c ELSE visits[k].asked
  <2>1. CASE visits = << >>
    BY <1>2, <2>1
  <2>2. CASE visits # << >>
    <3>1. /\ frames \in Seq(VisitType) /\ Len(frames) = Len(visits)
          /\ \A k \in 1 .. Len(visits) :
                 frames[k] = IF k = Len(visits) THEN [visits[k] EXCEPT !.asked = c] ELSE visits[k]
      BY <2>2, AskedStack
    <3>2. QED  BY <1>2, <3>1 DEF VisitType
  <2>3. QED  BY <2>1, <2>2
<1>4. frames \in Seq(VisitType)
  BY <1>3, Zenon
<1>5. QED  BY ONLY OrderTypeOK, i \in DOMAIN operators, e \in VisitType, <1>1, <1>3, <1>4, StartedFrom, Zenon

LEMMA ReturnedStep ==
  ASSUME OrderTypeOK, visits # << >>, visits' = SubSeq(visits, 1, Len(visits) - 1)
  PROVE  /\ visits' \in Seq(VisitType) /\ Len(visits') = Len(visits) - 1
         /\ DOMAIN visits' = DOMAIN visits \ {Len(visits)}
         /\ \A k \in DOMAIN visits' : visits'[k] = visits[k]
<1>1. /\ visits \in Seq(VisitType) /\ Len(visits) \in Nat \ {0} /\ DOMAIN visits = 1 .. Len(visits)
  BY VisitsAre
<1> DEFINE m == Len(visits) - 1
<1>2. m \in Int /\ 1 \in Int /\ m = m - 1 + 1 /\ m >= 0
  BY <1>1
<1>3. \A j \in 1 .. m : visits[j] \in VisitType
  BY <1>1, ElementOfSeq
<1> HIDE DEF m
<1>4. /\ SubSeq(visits, 1, m) \in Seq(VisitType)
      /\ Len(SubSeq(visits, 1, m)) = (IF 1 <= m THEN m - 1 + 1 ELSE 0)
      /\ \A j \in 1 .. m - 1 + 1 : SubSeq(visits, 1, m)[j] = visits[1 + j - 1]
  BY <1>2, <1>3, SubSeqProperties
<1>5. Len(SubSeq(visits, 1, m)) = m
  BY <1>2, <1>4
<1>6. \A j \in 1 .. m : SubSeq(visits, 1, m)[j] = visits[j]
  BY <1>2, <1>4
<1>7. visits' = SubSeq(visits, 1, m)
  BY DEF m
<1>8. visits' \in Seq(VisitType) /\ Len(visits') = m /\ DOMAIN visits' = 1 .. m
  BY <1>4, <1>5, <1>7, LenProperties
<1>9. 1 .. m = DOMAIN visits \ {Len(visits)}
  BY <1>1 DEF m
<1>10. QED  BY <1>6, <1>7, <1>8, <1>9 DEF m
-----------------------------------------------------------------------------
(* A next call of the visit on top, whatever becomes of it. *)
LEMMA CallFacts ==
  ASSUME OrderInv, VisitProducer
  PROVE  /\ visits # << >> /\ NextCall(Deepest) \in AllCalls(operators)[Deepest.op]
         /\ NextCall(Deepest) \in Nat \X Nat /\ NextCall(Deepest)[2] \in DOMAIN operators
         /\ Feeds(operators, NextCall(Deepest)[2], Deepest.op)
         /\ \A d \in AllCalls(operators)[Deepest.op] :
                Before(d, NextCall(Deepest)) => \E n \in DOMAIN result : result[n] = d[2]
<1>1. OrderTypeOK /\ AskedIsDone /\ visits # << >> /\ Pending(Deepest) # {}
  BY DEF OrderInv, VisitProducer
<1>2. /\ NextCall(Deepest) \in Pending(Deepest)
      /\ \A d \in Pending(Deepest) : NextCall(Deepest) = d \/ Before(NextCall(Deepest), d)
  BY <1>1, NextIsFirst
<1>3. NextCall(Deepest) \in Calls(Deepest.op) /\ Deepest.op \in DOMAIN operators
      /\ Calls(Deepest.op) = AllCalls(operators)[Deepest.op]
  BY <1>1, <1>2, TopIs DEF Pending
<1>4. /\ NextCall(Deepest) \in (Nat \ {0}) \X (DOMAIN operators) /\ NextCall(Deepest)[2] \in Nat
      /\ Feeds(operators, NextCall(Deepest)[2], Deepest.op)
  BY <1>1, <1>3, CallsAre
<1>5. ASSUME NEW d \in Calls(Deepest.op), Before(d, NextCall(Deepest))
      PROVE  \E n \in DOMAIN result : result[n] = d[2]
  <2>1. d[1] \in Nat /\ d[2] \in Nat /\ d = << d[1], d[2] >>
    BY <1>1, <1>3, CallsAre
  <2>2. NextCall(Deepest)[1] \in Nat /\ NextCall(Deepest)[2] \in Nat
        /\ NextCall(Deepest) = << NextCall(Deepest)[1], NextCall(Deepest)[2] >>
    BY <1>4
  <2>3. d # NextCall(Deepest) /\ ~Before(NextCall(Deepest), d)
    BY <1>5, <2>1, <2>2 DEF Before
  <2>4. d \notin Pending(Deepest)
    BY <1>2, <2>3
  <2>5. QED  BY <1>1, <2>4, EarlierIsDone
<1>6. QED  BY <1>1, <1>3, <1>4, <1>5

(* An operator met while it is visited is on the path to the call, which so  *)
(* closes a cycle.                                                           *)
LEMMA MeetingIsCycle ==
  ASSUME OrderInv, VisitProducer, NextCall(Deepest)[2] \in Visiting
  PROVE  Cyclic(operators)
<1>1. OrderTypeOK /\ Path /\ visits # << >> /\ Feeds(operators, NextCall(Deepest)[2], Deepest.op)
  BY CallFacts DEF OrderInv
<1>2. PICK p \in DOMAIN visits : visits[p].op = NextCall(Deepest)[2]
  BY DEF Visiting
<1> DEFINE S == {visits[k].op : k \in {k \in DOMAIN visits : p <= k}}
<1>3. DOMAIN visits = 1 .. Len(visits) /\ Len(visits) \in DOMAIN visits /\ Len(visits) \in Nat
  BY <1>1, VisitsAre, TopIs
<1>4. S \in SUBSET DOMAIN operators /\ S # {}
  BY <1>1, <1>2, <1>3, VisitsAre
<1>5. ASSUME NEW j \in S  PROVE \E i \in S : Feeds(operators, i, j)
  <2>1. PICK k \in DOMAIN visits : p <= k /\ visits[k].op = j
    OBVIOUS
  <2>2. CASE k = Len(visits)
    <3>1. Feeds(operators, visits[p].op, j)
      BY <1>1, <1>2, <2>1, <2>2 DEF Deepest
    <3>2. visits[p].op \in S
      BY <1>2, <1>3
    <3>3. QED  BY <3>1, <3>2
  <2>3. CASE k # Len(visits)
    <3>1. k + 1 \in DOMAIN visits /\ p <= k + 1
      BY <1>2, <1>3, <2>1, <2>3
    <3>2. /\ visits[k].asked \in AllCalls(operators)[visits[k].op]
          /\ visits[k].asked[2] = visits[k + 1].op /\ visits[k].op \in DOMAIN operators
      BY <1>1, <3>1, VisitsAre DEF Path
    <3>3. Feeds(operators, visits[k + 1].op, j)
      BY <1>1, <2>1, <3>2, CallsAre
    <3>4. visits[k + 1].op \in S
      BY <3>1
    <3>5. QED  BY <3>3, <3>4
  <2>4. QED  BY <2>2, <2>3
<1> HIDE DEF S
<1>6. QED  BY <1>4, <1>5 DEF Cyclic
-----------------------------------------------------------------------------
(* The top visit asks for its next call, which has been scheduled. *)
LEMMA AskKeeps ==
  ASSUME OrderInv, visits # << >>, NEW c \in AllCalls(operators)[Deepest.op], Asking(c),
         DOMAIN visits' = DOMAIN visits, operators' = operators, result' = result,
         \A d \in AllCalls(operators)[Deepest.op] :
             Before(d, c) \/ d = c => \E n \in DOMAIN result : result[n] = d[2]
  PROVE  Once' /\ Path' /\ AskedIsDone' /\ ProducersFirst'
<1>1. /\ OrderTypeOK /\ Once /\ Path /\ AskedIsDone /\ ProducersFirst
      /\ DOMAIN visits = 1 .. Len(visits) /\ Len(visits) \in Nat
  BY VisitsAre DEF OrderInv
<1>2. /\ Len(visits') = Len(visits)
      /\ \A k \in DOMAIN visits :
             /\ visits'[k].op = visits[k].op
             /\ visits'[k].asked = IF k = Len(visits) THEN c ELSE visits[k].asked
  BY DEF Asking
<1>3. Once'
  BY <1>1, <1>2 DEF Once
<1>4. Path'
  <2>1. \A k \in DOMAIN visits : k + 1 \in DOMAIN visits => k # Len(visits)
    BY <1>1
  <2>2. QED  BY <1>1, <1>2, <2>1 DEF Path
<1>5. ASSUME NEW k \in DOMAIN visits', NEW d \in AllCalls(operators')[visits'[k].op],
             Before(d, visits'[k].asked) \/ (d = visits'[k].asked /\ k = Len(visits'))
      PROVE  \E n \in DOMAIN result' : result'[n] = d[2]
  <2>1. d \in AllCalls(operators)[visits[k].op]
    BY <1>2
  <2>2. CASE k = Len(visits)
    BY <1>2, <1>5, <2>1, <2>2 DEF Deepest
  <2>3. CASE k # Len(visits)
    BY <1>1, <1>2, <1>5, <2>1, <2>3 DEF AskedIsDone
  <2>4. QED  BY <2>2, <2>3
<1>6. AskedIsDone'
  BY <1>5 DEF AskedIsDone
<1>7. ProducersFirst'
  BY <1>1 DEF ProducersFirst
<1>8. QED  BY <1>3, <1>4, <1>6, <1>7

(* A visit starts, from the outer loop or because the top visit called it. *)
LEMMA StartKeeps ==
  ASSUME OrderInv, NEW i \in DOMAIN operators, i \notin Visited, i \notin Visiting,
         NEW c, Started(i, c), DOMAIN visits' = DOMAIN visits \cup {Len(visits) + 1},
         operators' = operators, result' = result,
         visits # << >> =>
             /\ c \in AllCalls(operators)[Deepest.op] /\ c[2] = i
             /\ \A d \in AllCalls(operators)[Deepest.op] :
                    Before(d, c) => \E n \in DOMAIN result : result[n] = d[2]
  PROVE  Once' /\ Path' /\ AskedIsDone' /\ ProducersFirst'
<1>1. /\ OrderTypeOK /\ Once /\ Path /\ AskedIsDone /\ ProducersFirst
      /\ DOMAIN visits = 1 .. Len(visits) /\ Len(visits) \in Nat
  BY VisitsAre DEF OrderInv
<1>2. /\ Len(visits') = Len(visits) + 1
      /\ \A k \in DOMAIN visits :
             /\ visits'[k].op = visits[k].op
             /\ visits'[k].asked = IF k = Len(visits) THEN c ELSE visits[k].asked
      /\ visits'[Len(visits) + 1].op = i
      /\ visits'[Len(visits) + 1].asked = << 0, 0 >>
  BY DEF Started
<1>3. /\ \A k \in DOMAIN visits : visits[k].op # i
      /\ \A n \in DOMAIN result : result[n] # i
  BY DEF Visited, Visiting
<1>4. Len(visits) + 1 \notin DOMAIN visits
  BY <1>1
<1>5. Once'
  BY <1>1, <1>2, <1>3, <1>4 DEF Once
<1>6. Path'
  <2>1. SUFFICES ASSUME NEW k \in DOMAIN visits', k + 1 \in DOMAIN visits'
                 PROVE  /\ visits'[k].asked \in AllCalls(operators)[visits'[k].op]
                        /\ visits'[k].asked[2] = visits'[k + 1].op
    BY DEF Path
  <2>2. k \in DOMAIN visits
    BY <1>1, <2>1
  <2>3. CASE k = Len(visits)
    <3>1. visits # << >>
      BY <2>2, EmptySeq
    <3>2. Deepest.op = visits[k].op
      BY <2>3 DEF Deepest
    <3>3. QED  BY <1>2, <2>2, <2>3, <3>1, <3>2
  <2>4. CASE k # Len(visits)
    <3>1. k + 1 \in DOMAIN visits
      BY <1>1, <2>2, <2>4
    <3>2. QED  BY <1>1, <1>2, <2>2, <2>4, <3>1 DEF Path
  <2>5. QED  BY <2>3, <2>4
<1>7. ASSUME NEW k \in DOMAIN visits', NEW d \in AllCalls(operators')[visits'[k].op],
             Before(d, visits'[k].asked) \/ (d = visits'[k].asked /\ k = Len(visits'))
      PROVE  \E n \in DOMAIN result' : result'[n] = d[2]
  <2>1. CASE k = Len(visits) + 1
    <3>1. d \in Calls(i)
      BY <1>1, <1>2, <2>1, CallsAre
    <3>2. d = << d[1], d[2] >> /\ d[1] \in Nat \ {0} /\ d[2] \in Nat
      BY <1>1, <3>1, CallsAre
    <3>3. FALSE
      BY <1>2, <1>7, <2>1, <3>2 DEF Before
    <3>4. QED  BY <3>3
  <2>2. CASE k \in DOMAIN visits
    <3>1. d \in AllCalls(operators)[visits[k].op] /\ k # Len(visits')
      BY <1>1, <1>2, <2>2
    <3>2. CASE k = Len(visits)
      <4>1. visits # << >> /\ Deepest.op = visits[k].op
        BY <2>2, <3>2, EmptySeq DEF Deepest
      <4>2. Before(d, c)
        BY <1>2, <1>7, <2>2, <3>1, <3>2
      <4>3. QED  BY <3>1, <4>1, <4>2
    <3>3. CASE k # Len(visits)
      <4>1. Before(d, visits[k].asked)
        BY <1>2, <1>7, <2>2, <3>1, <3>3
      <4>2. QED  BY <1>1, <2>2, <3>1, <4>1 DEF AskedIsDone
    <3>4. QED  BY <3>2, <3>3
  <2>3. QED  BY <2>1, <2>2
<1>8. AskedIsDone'
  BY <1>7 DEF AskedIsDone
<1>9. ProducersFirst'
  BY <1>1 DEF ProducersFirst
<1>10. QED  BY <1>5, <1>6, <1>8, <1>9

(* The last visit ends, and its operator is scheduled. *)
LEMMA ScheduleKeeps ==
  ASSUME OrderInv, Schedule
  PROVE  /\ Once' /\ Path' /\ AskedIsDone' /\ ProducersFirst' /\ Reached'
         /\ visits' \in Seq(VisitType) /\ result' \in Seq(DOMAIN operators)
<1>1. /\ OrderTypeOK /\ Once /\ Path /\ AskedIsDone /\ ProducersFirst /\ Reached
      /\ DOMAIN visits = 1 .. Len(visits) /\ Len(visits) \in Nat
      /\ result \in Seq(DOMAIN operators) /\ Len(result) \in Nat /\ DOMAIN result = 1 .. Len(result)
  BY VisitsAre DEF OrderInv
<1>2. /\ visits # << >> /\ Pending(Deepest) = {} /\ result' = Append(result, Deepest.op)
      /\ visits' = SubSeq(visits, 1, Len(visits) - 1) /\ operators' = operators /\ next' = next
  BY DEF Schedule
<1>3. /\ visits' \in Seq(VisitType) /\ Len(visits') = Len(visits) - 1
      /\ DOMAIN visits' = DOMAIN visits \ {Len(visits)}
      /\ \A k \in DOMAIN visits' : visits'[k] = visits[k]
  BY <1>1, <1>2, ReturnedStep
<1>4. /\ Len(visits) \in DOMAIN visits /\ Deepest = visits[Len(visits)] /\ Deepest.op \in DOMAIN operators
      /\ Calls(Deepest.op) = AllCalls(operators)[Deepest.op]
  BY <1>1, <1>2, TopIs
<1>5. /\ result' \in Seq(DOMAIN operators) /\ Len(result') = Len(result) + 1
      /\ \A n \in 1 .. Len(result) : result'[n] = result[n]
      /\ result'[Len(result) + 1] = Deepest.op
  BY <1>1, <1>2, <1>4, AppendProperties
<1>6. DOMAIN result' = 1 .. Len(result) + 1
  BY <1>5, LenProperties
<1>7. /\ DOMAIN result' = DOMAIN result \cup {Len(result) + 1}
      /\ \A n \in DOMAIN result : result'[n] = result[n] /\ n < Len(result) + 1
      /\ Len(result) + 1 \notin DOMAIN result
  BY <1>1, <1>5, <1>6
<1>8. \A n \in DOMAIN result : result[n] # Deepest.op
  BY <1>1, <1>4 DEF Once
<1>9. \A k \in DOMAIN visits' : k \in DOMAIN visits /\ visits[k].op # Deepest.op
  BY <1>1, <1>3, <1>4 DEF Once
<1>10. Once'
  <2>1. \A m \in DOMAIN result' : \A n \in DOMAIN result' : result'[m] = result'[n] => m = n
    BY <1>1, <1>5, <1>7, <1>8 DEF Once
  <2>2. \A k \in DOMAIN visits' : \A l \in DOMAIN visits' : visits'[k].op = visits'[l].op => k = l
    BY <1>1, <1>3 DEF Once
  <2>3. \A k \in DOMAIN visits' : \A n \in DOMAIN result' : result'[n] # visits'[k].op
    BY <1>1, <1>3, <1>5, <1>7, <1>9 DEF Once
  <2>4. QED  BY <2>1, <2>2, <2>3 DEF Once
<1>11. Path'
  BY <1>1, <1>2, <1>3 DEF Path
<1>12. ASSUME NEW k \in DOMAIN visits', NEW d \in AllCalls(operators')[visits'[k].op],
              Before(d, visits'[k].asked) \/ (d = visits'[k].asked /\ k = Len(visits'))
       PROVE  \E n \in DOMAIN result' : result'[n] = d[2]
  <2>1. k \in DOMAIN visits /\ visits'[k] = visits[k] /\ d \in AllCalls(operators)[visits[k].op]
    BY <1>2, <1>3
  <2>2. CASE Before(d, visits[k].asked)
    <3>1. PICK n \in DOMAIN result : result[n] = d[2]
      BY <1>1, <2>1, <2>2 DEF AskedIsDone
    <3>2. QED  BY <1>7, <3>1
  <2>3. CASE d = visits[k].asked /\ k = Len(visits) - 1
    <3>1. k + 1 \in DOMAIN visits /\ k + 1 = Len(visits)
      BY <1>1, <1>4, <2>1, <2>3
    <3>2. d[2] = Deepest.op
      BY <1>1, <1>4, <2>1, <2>3, <3>1 DEF Path
    <3>3. QED  BY <1>5, <1>7, <3>2
  <2>4. QED  BY <1>3, <1>12, <2>1, <2>2, <2>3
<1>13. AskedIsDone'
  BY <1>12 DEF AskedIsDone
<1>14. ASSUME NEW n \in DOMAIN result', NEW d \in AllCalls(operators')[result'[n]]
       PROVE  \E m \in DOMAIN result' : m < n /\ result'[m] = d[2]
  <2>1. CASE n \in DOMAIN result
    <3>1. d \in AllCalls(operators)[result[n]]
      BY <1>2, <1>7, <2>1
    <3>2. PICK m \in DOMAIN result : m < n /\ result[m] = d[2]
      BY <1>1, <2>1, <3>1 DEF ProducersFirst
    <3>3. QED  BY <1>7, <3>2
  <2>2. CASE n = Len(result) + 1
    <3>1. d \in Calls(Deepest.op)
      BY <1>2, <1>4, <1>5, <2>2
    <3>2. PICK m \in DOMAIN result : result[m] = d[2]
      BY <1>1, <1>2, <3>1, EarlierIsDone
    <3>3. QED  BY <1>7, <2>2, <3>2
  <2>3. QED  BY <1>7, <2>1, <2>2
<1>15. ProducersFirst'
  BY <1>14 DEF ProducersFirst
<1>16. Reached'
  <2>1. SUFFICES ASSUME NEW i \in DOMAIN operators, i < next
                 PROVE  \/ \E n \in DOMAIN result' : result'[n] = i
                        \/ \E k \in DOMAIN visits' : visits'[k].op = i
    BY <1>2 DEF Reached
  <2>2. CASE \E n \in DOMAIN result : result[n] = i
    BY <1>7, <2>2
  <2>3. ASSUME NEW k \in DOMAIN visits, visits[k].op = i
        PROVE  \/ \E n \in DOMAIN result' : result'[n] = i
               \/ \E l \in DOMAIN visits' : visits'[l].op = i
    <3>1. CASE k = Len(visits)
      BY <1>4, <1>5, <1>7, <2>3, <3>1
    <3>2. CASE k # Len(visits)
      BY <1>3, <2>3, <3>2
    <3>3. QED  BY <3>1, <3>2
  <2>4. QED  BY <1>1, <2>1, <2>2, <2>3 DEF Reached
<1>17. QED  BY <1>3, <1>5, <1>10, <1>11, <1>13, <1>15, <1>16
-----------------------------------------------------------------------------
LEMMA ReachedKeeps ==
  ASSUME OrderInv, operators' = operators, result' = result,
         \A k \in DOMAIN visits : k \in DOMAIN visits' /\ visits'[k].op = visits[k].op,
         \/ next' = next
         \/ /\ next' = next + 1
            /\ \/ \E n \in DOMAIN result : result[n] = next
               \/ \E k \in DOMAIN visits' : visits'[k].op = next
  PROVE  Reached'
<1>1. OrderTypeOK /\ Reached /\ DOMAIN operators = 1 .. Len(operators) /\ Len(operators) \in Nat
  BY VisitsAre DEF OrderInv
<1>2. next \in Nat
  BY <1>1 DEF OrderTypeOK
<1>3. SUFFICES ASSUME NEW i \in DOMAIN operators, i < next'
               PROVE  \/ \E n \in DOMAIN result : result[n] = i
                      \/ \E k \in DOMAIN visits' : visits'[k].op = i
  BY DEF Reached
<1>4. i \in Nat
  BY <1>1
<1>5. CASE i < next
  BY <1>1, <1>5 DEF Reached
<1>6. CASE ~(i < next)
  <2>1. i = next /\ next' = next + 1
    BY <1>2, <1>3, <1>4, <1>6
  <2>2. next' # next
    BY <1>2, <2>1
  <2>3. QED  BY <2>1, <2>2
<1>7. QED  BY <1>5, <1>6

(* Nothing but the outer loop's counter and the outcome change. *)
LEMMA SameKeeps ==
  ASSUME OrderInv, operators' = operators, result' = result, visits' = visits
  PROVE  /\ Once' /\ Path' /\ AskedIsDone' /\ ProducersFirst'
         /\ result' \in Seq(DOMAIN operators') /\ visits' \in Seq([op: DOMAIN operators', asked: Nat \X Nat])
  BY DEF OrderInv, OrderTypeOK, Once, Path, AskedIsDone, ProducersFirst

LEMMA InitIsOrderly == OrderInit => OrderInv
<1> SUFFICES ASSUME OrderInit  PROVE OrderInv
  OBVIOUS
<1>1. PICK E \in Seq(Operator) : StartOrder(E)
  BY DEF OrderInit
<1>2. /\ operators \in Seq(Operator) /\ next = 1 /\ visits = << >> /\ result = << >>
      /\ ended = "running" /\ Len(operators) \in Nat /\ DOMAIN operators = 1 .. Len(operators)
  BY <1>1, LenProperties DEF StartOrder
<1>3. DOMAIN visits = {} /\ DOMAIN result = {}
  BY <1>2
<1>4. OrderTypeOK
  BY <1>2, EmptySeq DEF OrderTypeOK
<1>5. Once /\ Path /\ AskedIsDone /\ ProducersFirst
  BY <1>3 DEF Once, Path, AskedIsDone, ProducersFirst
<1>6. Reached
  BY <1>2 DEF Reached
<1>7. Returned /\ RaisesOnCycle
  BY <1>2 DEF Returned, RaisesOnCycle
<1>8. QED  BY <1>4, <1>5, <1>6, <1>7 DEF OrderInv

LEMMA VisitNextKeeps ==
  ASSUME OrderInv, VisitNext
  PROVE  OrderInv'
<1>1. /\ OrderTypeOK /\ ended = "running" /\ visits = << >> /\ next \in DOMAIN operators
      /\ next' = next + 1 /\ operators' = operators /\ result' = result /\ Enter(next, visits)
  BY DEF OrderInv, VisitNext
<1>2. DOMAIN visits = {} /\ DOMAIN operators = 1 .. Len(operators) /\ Len(operators) \in Nat
  BY <1>1, VisitsAre
<1>3. next \in Nat /\ next' \in 1 .. Len(operators') + 1
  BY <1>1, <1>2
<1>4. next \notin Visiting
  BY <1>2 DEF Visiting
<1>5. CASE next \in Visited
  <2>1. visits' = visits /\ ended' = ended
    BY <1>1, <1>5 DEF Enter
  <2>2. /\ Once' /\ Path' /\ AskedIsDone' /\ ProducersFirst'
        /\ result' \in Seq(DOMAIN operators') /\ visits' \in Seq([op: DOMAIN operators', asked: Nat \X Nat])
    BY <1>1, <2>1, SameKeeps
  <2>3. \E n \in DOMAIN result : result[n] = next
    BY <1>5 DEF Visited
  <2>4. Reached'
    BY <1>1, <2>1, <2>3, ReachedKeeps
  <2>5. OrderTypeOK'
    BY <1>1, <1>3, <2>1, <2>2 DEF OrderTypeOK
  <2>6. Returned' /\ RaisesOnCycle'
    BY <1>1, <2>1 DEF Returned, RaisesOnCycle
  <2>7. QED  BY <2>2, <2>4, <2>5, <2>6 DEF OrderInv
<1>6. CASE next \notin Visited
  <2>1. /\ visits' = Append(visits, [op |-> next, asked |-> << 0, 0 >>])
        /\ ended' = ended
    BY <1>1, <1>4, <1>6 DEF Enter
  <2>2. PICK c \in Nat \X Nat : c = << 0, 0 >>
    OBVIOUS
  <2>3. /\ Started(next, c) /\ visits' \in Seq(VisitType)
        /\ DOMAIN visits' = DOMAIN visits \cup {Len(visits) + 1}
    BY <1>1, <2>1, StartedStep
  <2>4. Once' /\ Path' /\ AskedIsDone' /\ ProducersFirst'
    BY <1>1, <1>4, <1>6, <2>3, StartKeeps
  <2>5. \E k \in DOMAIN visits' : visits'[k].op = next
    BY <2>3 DEF Started
  <2>6. Reached'
    BY <1>1, <1>2, <2>5, ReachedKeeps
  <2>7. OrderTypeOK'
    BY <1>1, <1>3, <2>1, <2>3 DEF OrderTypeOK, VisitType
  <2>8. Returned' /\ RaisesOnCycle'
    BY <1>1, <2>1 DEF Returned, RaisesOnCycle
  <2>9. QED  BY <2>4, <2>6, <2>7, <2>8 DEF OrderInv
<1>7. QED  BY <1>5, <1>6

LEMMA VisitProducerKeeps ==
  ASSUME OrderInv, VisitProducer
  PROVE  OrderInv'
<1> DEFINE c == NextCall(Deepest)
<1>1. /\ OrderTypeOK /\ AskedIsDone /\ ended = "running" /\ visits # << >>
      /\ next' = next /\ operators' = operators /\ result' = result
      /\ Enter(c[2], [visits EXCEPT ![Len(visits)].asked = c])
  BY DEF OrderInv, VisitProducer
<1>2. /\ c \in AllCalls(operators)[Deepest.op] /\ c \in Nat \X Nat /\ c[2] \in DOMAIN operators
      /\ \A d \in AllCalls(operators)[Deepest.op] :
             Before(d, c) => \E n \in DOMAIN result : result[n] = d[2]
  BY CallFacts
<1>3. c[2] \in Visiting => Cyclic(operators)
  BY MeetingIsCycle
<1> HIDE DEF c
<1>4. CASE c[2] \in Visited
  <2>1. visits' = [visits EXCEPT ![Len(visits)].asked = c] /\ ended' = ended
    BY <1>1, <1>4 DEF Enter
  <2>2. Asking(c) /\ visits' \in Seq(VisitType) /\ DOMAIN visits' = DOMAIN visits
    BY <1>1, <1>2, <2>1, AskingStep
  <2>3. \E n \in DOMAIN result : result[n] = c[2]
    BY <1>4 DEF Visited
  <2>4. \A d \in AllCalls(operators)[Deepest.op] :
            Before(d, c) \/ d = c => \E n \in DOMAIN result : result[n] = d[2]
    BY <1>2, <2>3
  <2>5. Once' /\ Path' /\ AskedIsDone' /\ ProducersFirst'
    BY <1>1, <1>2, <2>2, <2>4, AskKeeps
  <2>6. \A k \in DOMAIN visits : k \in DOMAIN visits' /\ visits'[k].op = visits[k].op
    BY <2>2 DEF Asking
  <2>7. Reached'
    BY <1>1, <2>6, ReachedKeeps
  <2>8. OrderTypeOK'
    BY <1>1, <2>1, <2>2 DEF OrderTypeOK, VisitType
  <2>9. Returned' /\ RaisesOnCycle'
    BY <1>1, <2>1 DEF Returned, RaisesOnCycle
  <2>10. QED  BY <2>5, <2>7, <2>8, <2>9 DEF OrderInv
<1>5. CASE c[2] \notin Visited /\ c[2] \in Visiting
  <2>1. visits' = visits /\ ended' = "ValueError"
    BY <1>1, <1>5 DEF Enter
  <2>2. /\ Once' /\ Path' /\ AskedIsDone' /\ ProducersFirst'
        /\ result' \in Seq(DOMAIN operators') /\ visits' \in Seq([op: DOMAIN operators', asked: Nat \X Nat])
    BY <1>1, <2>1, SameKeeps
  <2>3. Reached'
    BY <1>1, <2>1, ReachedKeeps
  <2>4. OrderTypeOK'
    BY <1>1, <2>1, <2>2 DEF OrderTypeOK
  <2>5. Returned' /\ RaisesOnCycle'
    BY <1>1, <1>3, <1>5, <2>1 DEF Returned, RaisesOnCycle
  <2>6. QED  BY <2>2, <2>3, <2>4, <2>5 DEF OrderInv
<1>6. CASE c[2] \notin Visited /\ c[2] \notin Visiting
  <2>1. /\ visits' = Append([visits EXCEPT ![Len(visits)].asked = c],
                           [op |-> c[2], asked |-> << 0, 0 >>])
        /\ ended' = ended
    BY <1>1, <1>6 DEF Enter
  <2>2. PICK frames : /\ frames = (IF visits = << >> THEN visits
                                   ELSE [visits EXCEPT ![Len(visits)].asked = c])
                      /\ visits' = Append(frames, [op |-> c[2], asked |-> << 0, 0 >>])
    BY <1>1, <2>1, Zenon
  <2>3. PICK i \in DOMAIN operators : i = c[2]
    BY <1>2
  <2>4. /\ Started(i, c) /\ visits' \in Seq(VisitType)
        /\ DOMAIN visits' = DOMAIN visits \cup {Len(visits) + 1}
    BY ONLY <1>1, <1>2, i \in DOMAIN operators, <2>2, <2>3, StartedStep, Zenon
  <2>5. Once' /\ Path' /\ AskedIsDone' /\ ProducersFirst'
    BY <1>1, <1>2, <1>6, <2>3, <2>4, StartKeeps
  <2>6. \A k \in DOMAIN visits : k \in DOMAIN visits' /\ visits'[k].op = visits[k].op
    BY <2>4 DEF Started
  <2>7. Reached'
    BY <1>1, <2>6, ReachedKeeps
  <2>8. OrderTypeOK'
    BY <1>1, <2>1, <2>4 DEF OrderTypeOK, VisitType
  <2>9. Returned' /\ RaisesOnCycle'
    BY <1>1, <2>1 DEF Returned, RaisesOnCycle
  <2>10. QED  BY <2>5, <2>7, <2>8, <2>9 DEF OrderInv
<1>7. QED  BY <1>4, <1>5, <1>6

LEMMA OrderStep ==
  ASSUME OrderInv, [OrderNext]_ordervars
  PROVE  OrderInv'
<1>1. CASE VisitNext
  BY <1>1, VisitNextKeeps
<1>2. CASE VisitProducer
  BY <1>2, VisitProducerKeeps
<1>3. CASE Schedule
  <2>1. /\ Once' /\ Path' /\ AskedIsDone' /\ ProducersFirst' /\ Reached'
        /\ visits' \in Seq(VisitType) /\ result' \in Seq(DOMAIN operators)
    BY <1>3, ScheduleKeeps
  <2>2. operators' = operators /\ next' = next /\ ended' = "running" /\ OrderTypeOK
    BY <1>3 DEF Schedule, OrderInv
  <2>3. OrderTypeOK'
    BY <2>1, <2>2 DEF OrderTypeOK, VisitType
  <2>4. Returned' /\ RaisesOnCycle'
    BY <2>2 DEF Returned, RaisesOnCycle
  <2>5. QED  BY <2>1, <2>3, <2>4 DEF OrderInv
<1>4. CASE Return
  <2>1. /\ operators' = operators /\ next' = next /\ visits' = visits /\ result' = result
        /\ ended' = "ordered" /\ visits = << >> /\ next \notin DOMAIN operators /\ OrderTypeOK
    BY <1>4 DEF Return, OrderInv
  <2>2. Once' /\ Path' /\ AskedIsDone' /\ ProducersFirst'
    BY <2>1, SameKeeps
  <2>3. Reached'
    BY <2>1, ReachedKeeps
  <2>4. OrderTypeOK' /\ Returned' /\ RaisesOnCycle'
    BY <2>1 DEF OrderTypeOK, Returned, RaisesOnCycle
  <2>5. QED  BY <2>2, <2>3, <2>4 DEF OrderInv
<1>5. CASE UNCHANGED ordervars
  <2>1. /\ operators' = operators /\ next' = next /\ visits' = visits /\ result' = result
        /\ ended' = ended
    BY <1>5 DEF ordervars
  <2>2. Once' /\ Path' /\ AskedIsDone' /\ ProducersFirst'
    BY <2>1, SameKeeps
  <2>3. Reached'
    BY <2>1, ReachedKeeps
  <2>4. OrderTypeOK' /\ Returned' /\ RaisesOnCycle'
    BY <2>1 DEF OrderInv, OrderTypeOK, Returned, RaisesOnCycle
  <2>5. QED  BY <2>2, <2>3, <2>4 DEF OrderInv
<1>6. QED  BY <1>1, <1>2, <1>3, <1>4, <1>5 DEF OrderNext

LEMMA OrderHolds == OrderSpec => []OrderInv
<1>1. OrderInv /\ [OrderNext]_ordervars => OrderInv'
  BY OrderStep
<1>2. QED  BY InitIsOrderly, <1>1, PTL DEF OrderSpec
-----------------------------------------------------------------------------
(* An order in which every operator is found once is as long as the tuple. *)
LEMMA OrderedIsAnOrder == OrderInv => Ordered
<1>1. SUFFICES ASSUME OrderInv, ended = "ordered"
               PROVE  /\ Len(result) = Len(operators) /\ Visited = DOMAIN operators
                      /\ \A i, j \in DOMAIN operators : Feeds(operators, i, j) =>
                             \E n \in DOMAIN result :
                                 result[n] = j /\ \E m \in 1 .. n - 1 : result[m] = i
  BY DEF Ordered
<1>2. /\ OrderTypeOK /\ Once /\ ProducersFirst /\ Reached /\ visits = << >> /\ next \notin DOMAIN operators
      /\ DOMAIN operators = 1 .. Len(operators) /\ Len(operators) \in Nat
      /\ result \in Seq(DOMAIN operators) /\ Len(result) \in Nat /\ DOMAIN result = 1 .. Len(result)
      /\ \A n \in DOMAIN result : result[n] \in DOMAIN operators
  BY <1>1, VisitsAre DEF OrderInv, Returned
<1>3. \A i \in DOMAIN operators : i < next
  BY <1>2 DEF OrderTypeOK
<1>4. DOMAIN visits = {}
  BY <1>2
<1>5. \A i \in DOMAIN operators : \E n \in DOMAIN result : result[n] = i
  BY <1>2, <1>3, <1>4 DEF Reached
<1>6. Visited = DOMAIN operators
  BY <1>2, <1>5 DEF Visited
<1>7. Len(result) = Len(operators)
  <2>1. result \in [DOMAIN result -> DOMAIN operators]
    BY <1>2, LenProperties
  <2>2. result \in Bijection(DOMAIN result, DOMAIN operators)
    BY <1>2, <1>5, <2>1 DEF Once, Bijection, Injection, Surjection, IsInjective
  <2>3. ExistsBijection(DOMAIN result, DOMAIN operators)
    BY <2>2 DEF ExistsBijection
  <2>4. /\ IsFiniteSet(DOMAIN result) /\ Cardinality(DOMAIN result) = Len(result)
        /\ Cardinality(DOMAIN operators) = Len(operators)
    <3>1. /\ IsFiniteSet(1 .. Len(result)) /\ IsFiniteSet(1 .. Len(operators))
          /\ Cardinality(1 .. Len(result)) = IF 1 > Len(result) THEN 0 ELSE Len(result) - 1 + 1
          /\ Cardinality(1 .. Len(operators)) = IF 1 > Len(operators) THEN 0 ELSE Len(operators) - 1 + 1
      <4>1. 1 \in Int /\ Len(result) \in Int /\ Len(operators) \in Int
        BY <1>2
      <4>2. QED  BY <4>1, FS_Interval, Zenon
    <3>2. QED  BY <1>2, <3>1
  <2>5. QED  BY <2>3, <2>4, FS_Bijection
<1>8. ASSUME NEW i \in DOMAIN operators, NEW j \in DOMAIN operators, Feeds(operators, i, j)
      PROVE  \E n \in DOMAIN result :
                 result[n] = j /\ \E m \in 1 .. n - 1 : result[m] = i
  <2>1. PICK n \in DOMAIN result : result[n] = j
    BY <1>5
  <2>2. Calls(j) = AllCalls(operators)[j] /\ \E c \in Calls(j) : c[2] = i
    BY <1>2, <1>8, CallsAre, Zenon
  <2>3. PICK m \in DOMAIN result : m < n /\ result[m] = i
    <3>1. PICK c \in AllCalls(operators)[result[n]] : c[2] = i
      BY <2>1, <2>2, Zenon
    <3>2. QED  BY <1>2, <3>1, Zenon DEF ProducersFirst
  <2>4. m \in 1 .. n - 1
    BY <1>2, <2>3
  <2>5. QED  BY <2>1, <2>3, <2>4
<1>9. QED  BY <1>6, <1>7, <1>8

(* topological_order() raises only on edges that close a cycle: "ValueError  *)
(* if the graph is not a DAG" (operator.py:124-125), for every tuple of      *)
(* operators, alternative producers and diamonds included.                   *)
THEOREM RaisesOnlyOnCycles == OrderSpec => []RaisesOnCycle
<1>1. OrderInv => RaisesOnCycle
  BY DEF OrderInv
<1>2. QED  BY OrderHolds, <1>1, PTL

(* What topological_order() returns is an order of all operators, each of    *)
(* them once, with every producer of an input before the consumer.           *)
THEOREM ReturnsAnOrder == OrderSpec => []Ordered
<1>1. QED  BY OrderHolds, OrderedIsAnOrder, PTL
-----------------------------------------------------------------------------
(* Both searches come to an end: every step that does not end the call makes *)
(* a triple of naturals smaller.  (That the steps are taken, the fairness of *)
(* Terminates, is TLC's.)                                                    *)

(* The order of dictionaries on triples. *)
Smaller(p, q) ==
    \/ p[1] < q[1]
    \/ p[1] = q[1] /\ p[2] < q[2]
    \/ p[1] = q[1] /\ p[2] = q[2] /\ p[3] < q[3]

Triple == Nat \X Nat \X Nat

LEMMA FewerIn ==
  ASSUME NEW T, IsFiniteSet(T), NEW S, S \subseteq T
  PROVE  /\ Cardinality(S) \in Nat /\ Cardinality(T) \in Nat
         /\ S # T => Cardinality(S) < Cardinality(T)
<1>1. /\ IsFiniteSet(S) /\ Cardinality(S) <= Cardinality(T)
      /\ Cardinality(S) = Cardinality(T) => S = T
  BY FS_Subset, Zenon
<1>2. Cardinality(S) \in Nat /\ Cardinality(T) \in Nat
  BY <1>1, FS_CardinalityType
<1>3. QED  BY <1>1, <1>2

(* compute(): the spaces not resolved, those with no call in progress, and   *)
(* the inputs the call on top has still to collect.                          *)
ComputeVariant ==
    << Cardinality(Space \ Resolved), Cardinality(Space \ OnStack),
       IF stack = << >> THEN 0 ELSE Len(Op(Top).ins) - Top.done >>

ComputeComesCloser ==
    [][outcome = "running" =>
          /\ ComputeVariant \in Triple
          /\ outcome' # "running" \/ Smaller(ComputeVariant', ComputeVariant)]_vars

LEMMA VariantIsTriple ==
  ASSUME IsFiniteSet(Space), TypeOK
  PROVE  ComputeVariant \in Triple
<1>1. Cardinality(Space \ Resolved) \in Nat /\ Cardinality(Space \ OnStack) \in Nat
  BY FewerIn
<1>2. CASE stack = << >>
  BY <1>1, <1>2 DEF ComputeVariant, Triple
<1>3. CASE stack # << >>
  <2>1. Len(stack) \in DOMAIN stack
    BY <1>3, TopInStack
  <2>2. Top \in FrameType /\ edges[Top.op].ins \in Seq(Space)
        /\ Top.done <= Len(edges[Top.op].ins)
    BY <2>1, FrameEdge DEF Top, FrameType, TypeOK
  <2>3. Len(edges[Top.op].ins) - Top.done \in Nat
    BY <2>2, LenProperties DEF FrameType
  <2>4. QED  BY <1>1, <1>3, <2>3 DEF ComputeVariant, Triple, Op
<1>4. QED  BY <1>2, <1>3

(* One more space resolved, or one more call begun. *)
LEMMA MemoGrows ==
  ASSUME IsFiniteSet(Space), NEW s \in Space, s \notin DOMAIN memo,
         DOMAIN memo' = DOMAIN memo \cup {s}
  PROVE  Smaller(ComputeVariant', ComputeVariant)
<1>1. Cardinality(Space \ Resolved') < Cardinality(Space \ Resolved)
  <2>1. IsFiniteSet(Space \ Resolved)
    BY FS_Difference
  <2>2. Space \ Resolved' \subseteq Space \ Resolved
        /\ Space \ Resolved' # Space \ Resolved
    BY DEF Resolved
  <2>3. QED  BY <2>1, <2>2, FewerIn
<1>2. QED  BY <1>1 DEF Smaller, ComputeVariant

LEMMA StackGrows ==
  ASSUME IsFiniteSet(Space), NEW s \in Space, s \notin OnStack,
         OnStack' = OnStack \cup {s}, memo' = memo
  PROVE  Smaller(ComputeVariant', ComputeVariant)
<1>1. Cardinality(Space \ OnStack') < Cardinality(Space \ OnStack)
  <2>1. IsFiniteSet(Space \ OnStack)
    BY FS_Difference
  <2>2. Space \ OnStack' \subseteq Space \ OnStack
        /\ Space \ OnStack' # Space \ OnStack
    OBVIOUS
  <2>3. QED  BY <2>1, <2>2, FewerIn
<1>2. Resolved' = Resolved
  BY DEF Resolved
<1>3. QED  BY <1>1, <1>2 DEF Smaller, ComputeVariant

LEMMA InputsTaken ==
  ASSUME TypeOK, NEW s \in Space, Take(s), stack # << >>
  PROVE  Smaller(ComputeVariant', ComputeVariant)
<1> DEFINE n == Len(stack)
<1>1. /\ stack' \in Seq(FrameType) /\ Len(stack') = n /\ n \in 1 .. n
      /\ \A j \in 1 .. n :
             stack'[j] = IF j = n THEN [stack[j] EXCEPT !.done = @ + 1] ELSE stack[j]
      /\ stack[n] \in FrameType /\ DOMAIN stack = 1 .. n
      /\ \A j \in 1 .. n : stack[j] \in FrameType
  BY TakeStack, StackIs, TopInStack, ElementOfSeq
<1>2. DOMAIN stack' = 1 .. n /\ memo' = memo /\ edges' = edges
  BY <1>1, LenProperties DEF Take, given
<1>3. \A j \in 1 .. n : stack'[j].space = stack[j].space /\ stack'[j].op = stack[j].op
  BY <1>1 DEF FrameType
<1>4. Resolved' = Resolved /\ OnStack' = OnStack
  BY <1>1, <1>2, <1>3 DEF Resolved, OnStack
<1>5. Top'.done = Top.done + 1 /\ Op(Top)' = Op(Top) /\ Top.done \in Nat /\ stack' # << >>
  BY <1>1, <1>2, <1>3 DEF Top, Op, FrameType
<1>6. Op(Top).ins \in Seq(Space)
  BY <1>1, FrameEdge DEF Op, Top
<1>7. Len(Op(Top).ins) \in Nat
  BY <1>6, LenProperties
<1>8. Len(Op(Top)'.ins) - Top'.done < Len(Op(Top).ins) - Top.done
  BY <1>5, <1>7
<1>9. QED  BY <1>4, <1>5, <1>8 DEF Smaller, ComputeVariant

LEMMA ComputeStepIsCloser ==
  ASSUME IsFiniteSet(Space), IInv, Next, outcome = "running", outcome' = "running"
  PROVE  Smaller(ComputeVariant', ComputeVariant)
<1> USE DEF IInv
<1>1. ASSUME NEW s \in Space, Take(s)
      PROVE  Smaller(ComputeVariant', ComputeVariant)
  <2>1. stack # << >>
    BY <1>1 DEF Take
  <2>2. QED  BY <1>1, <2>1, InputsTaken
<1>2. ASSUME NEW s \in Space, Load(s)
      PROVE  Smaller(ComputeVariant', ComputeVariant)
  <2>1. s \notin DOMAIN memo /\ DOMAIN memo' = DOMAIN memo \cup {s}
    BY <1>2 DEF Load, Resolved
  <2>2. QED  BY <2>1, MemoGrows
<1>3. ASSUME NEW s \in Space, LoadFails(s) \/ Refuse(s)
      PROVE  FALSE
  BY <1>3 DEF LoadFails, Refuse, Raise
<1>4. ASSUME NEW s \in Space, Descend(s)
      PROVE  Smaller(ComputeVariant', ComputeVariant)
  <2>1. s \notin OnStack /\ memo' = memo
    BY <1>4 DEF Descend, Raise
  <2>2. /\ stack' \in Seq(FrameType) /\ Len(stack') = Len(stack) + 1
        /\ \A j \in 1 .. Len(stack) : stack'[j] = stack[j]
        /\ stack'[Len(stack) + 1] = [space |-> s, op |-> Producer(edges, s), done |-> 0]
    BY <1>4, <2>1, PushStack
  <2>3. DOMAIN stack' = 1 .. Len(stack) + 1 /\ DOMAIN stack = 1 .. Len(stack)
        /\ Len(stack) \in Nat
    BY <2>2, LenProperties, StackIs
  <2>4. OnStack' = OnStack \cup {s}
    BY <2>2, <2>3 DEF OnStack
  <2>5. QED  BY <2>1, <2>4, StackGrows
<1>5. ASSUME Execute
      PROVE  Smaller(ComputeVariant', ComputeVariant)
  <2> DEFINE s == Top.space
  <2>1. Len(stack) \in DOMAIN stack /\ Top \in FrameType
    BY <1>5, TopProduces DEF Execute
  <2>2. s \in Space /\ s \notin DOMAIN memo
    BY <2>1 DEF Frames, Top, FrameType
  <2>3. Rejection(Op(Top)) = "none"
    BY <1>5 DEF Execute, Raise, Rejection
  <2>4. DOMAIN memo' = DOMAIN memo \cup {s}
    BY <1>5, <2>3 DEF Execute, Resolved
  <2>5. QED  BY <2>2, <2>4, MemoGrows
<1>6. QED  BY <1>1, <1>2, <1>3, <1>4, <1>5 DEF Next

(* compute() ends, on cyclic operators too: a finite map of spaces leaves it *)
(* no endless descent but the one Python cuts short.                         *)
THEOREM ComputeEnds ==
  ASSUME IsFiniteSet(Space)
  PROVE  Spec => ComputeComesCloser
<1>1. IInv /\ [Next]_vars =>
        [outcome = "running" =>
            /\ ComputeVariant \in Triple
            /\ outcome' # "running" \/ Smaller(ComputeVariant', ComputeVariant)]_vars
  BY ComputeStepIsCloser, VariantIsTriple DEF IInv
<1>2. QED  BY <1>1, IInvHolds, PTL DEF Spec, ComputeComesCloser

(* topological_order(): the operators not scheduled, those with no visit in  *)
(* progress, and what the loop on top (the outer one, when no visit is in    *)
(* progress) has still to go through.                                        *)
OrderVariant ==
    << Cardinality(DOMAIN operators \ Visited), Cardinality(DOMAIN operators \ Visiting),
       IF visits = << >> THEN Len(operators) + 1 - next ELSE Cardinality(Pending(Deepest)) >>

OrderComesCloser ==
    [][ended = "running" =>
          /\ OrderVariant \in Triple
          /\ ended' # "running" \/ Smaller(OrderVariant', OrderVariant)]_ordervars

LEMMA OrderIsFinite ==
  ASSUME OrderTypeOK
  PROVE  /\ IsFiniteSet(DOMAIN operators)
         /\ visits # << >> => IsFiniteSet(Pending(Deepest))
<1>1. DOMAIN operators = 1 .. Len(operators) /\ Len(operators) \in Nat
  BY VisitsAre
<1>2. IsFiniteSet(DOMAIN operators)
  BY <1>1, FS_Interval
<1>3. ASSUME visits # << >>  PROVE IsFiniteSet(Pending(Deepest))
  <2>1. PICK ins : ins = operators[Deepest.op].ins
    OBVIOUS
  <2>2. Deepest.op \in DOMAIN operators
    BY <1>3, TopIs
  <2>3. operators[Deepest.op] \in Operator
    BY <1>1, <2>2, ElementOfSeq DEF OrderTypeOK
  <2>4. DOMAIN ins = 1 .. Len(ins) /\ Len(ins) \in Nat
    BY <2>1, <2>3, LenProperties DEF Operator
  <2>5. IsFiniteSet(DOMAIN ins)
    BY <2>4, FS_Interval
  <2>6. IsFiniteSet((DOMAIN ins) \X (DOMAIN operators))
    BY <1>2, <2>5, FS_Product
  <2>7. Pending(Deepest) \subseteq (DOMAIN ins) \X (DOMAIN operators)
    BY <2>1 DEF Pending, Calls
  <2>8. QED  BY <2>6, <2>7, FS_Subset
<1>4. QED  BY <1>2, <1>3

LEMMA OrderVariantIsTriple ==
  ASSUME OrderTypeOK
  PROVE  OrderVariant \in Triple
<1>1. /\ Cardinality(DOMAIN operators \ Visited) \in Nat
      /\ Cardinality(DOMAIN operators \ Visiting) \in Nat
  BY OrderIsFinite, FewerIn
<1>2. Len(operators) + 1 - next \in Nat
  BY VisitsAre DEF OrderTypeOK
<1>3. visits # << >> => Cardinality(Pending(Deepest)) \in Nat
  BY OrderIsFinite, FS_CardinalityType
<1>4. QED  BY <1>1, <1>2, <1>3 DEF OrderVariant, Triple

LEMMA VisitBegun ==
  ASSUME OrderTypeOK, NEW i \in DOMAIN operators, i \notin Visiting, NEW c, Started(i, c),
         DOMAIN visits' = DOMAIN visits \cup {Len(visits) + 1},
         operators' = operators, result' = result
  PROVE  Smaller(OrderVariant', OrderVariant)
<1>1. Visiting' = Visiting \cup {i}
  <2>1. Len(visits) \in Nat /\ DOMAIN visits = 1 .. Len(visits)
    BY VisitsAre
  <2>2. /\ \A k \in DOMAIN visits : visits'[k].op = visits[k].op
        /\ visits'[Len(visits) + 1].op = i
    BY DEF Started
  <2>3. QED  BY <2>1, <2>2 DEF Visiting
<1>2. Visited' = Visited
  BY DEF Visited
<1>3. IsFiniteSet(DOMAIN operators \ Visiting)
  BY OrderIsFinite, FS_Difference
<1>4. /\ DOMAIN operators \ Visiting' \subseteq DOMAIN operators \ Visiting
      /\ DOMAIN operators \ Visiting' # DOMAIN operators \ Visiting
  BY <1>1
<1>5. Cardinality(DOMAIN operators \ Visiting') < Cardinality(DOMAIN operators \ Visiting)
  BY <1>3, <1>4, FewerIn
<1>6. QED  BY <1>2, <1>5 DEF Smaller, OrderVariant

LEMMA CallsTaken ==
  ASSUME OrderInv, VisitProducer, Asking(NextCall(Deepest)), DOMAIN visits' = DOMAIN visits
  PROVE  Smaller(OrderVariant', OrderVariant)
<1>1. /\ OrderTypeOK /\ visits # << >> /\ Pending(Deepest) # {}
      /\ operators' = operators /\ result' = result
  BY DEF OrderInv, VisitProducer
<1>2. PICK c : c = NextCall(Deepest)
  OBVIOUS
<1>3. c \in Pending(Deepest) /\ c \in Calls(Deepest.op)
  BY <1>1, <1>2, NextIsFirst DEF Pending
<1>4. /\ Len(visits') = Len(visits)
      /\ \A k \in DOMAIN visits :
             /\ visits'[k].op = visits[k].op
             /\ visits'[k].asked = IF k = Len(visits) THEN c ELSE visits[k].asked
  BY <1>2 DEF Asking
<1>5. /\ Len(visits) \in DOMAIN visits /\ Deepest.op \in DOMAIN operators
      /\ Deepest.asked \in Nat \X Nat
  BY <1>1, TopIs
<1>6. Visiting' = Visiting /\ Visited' = Visited
  BY <1>1, <1>4 DEF Visiting, Visited
<1>7. visits' # << >>
  BY <1>5
<1>8. Deepest'.op = Deepest.op /\ Deepest'.asked = c
  BY <1>4, <1>5 DEF Deepest
<1>9. Pending(Deepest)' = {d \in Calls(Deepest.op) : Before(c, d)}
  BY <1>1, <1>8 DEF Pending, Calls
<1>10. \A d \in Calls(Deepest.op) : d[1] \in Nat /\ d[2] \in Nat
  BY <1>1, <1>5, CallsAre
<1>11. Pending(Deepest)' \subseteq Pending(Deepest) /\ c \notin Pending(Deepest)'
  <2>1. Before(Deepest.asked, c)
    BY <1>3 DEF Pending
  <2>2. \A d \in Calls(Deepest.op) : Before(c, d) => Before(Deepest.asked, d)
    BY <1>3, <1>5, <1>10, <2>1 DEF Before
  <2>3. ~Before(c, c)
    BY <1>3, <1>10 DEF Before
  <2>4. QED  BY <1>9, <2>2, <2>3 DEF Pending
<1>12. IsFiniteSet(Pending(Deepest))
  BY <1>1, OrderIsFinite
<1>13. Cardinality(Pending(Deepest)') < Cardinality(Pending(Deepest))
  BY <1>3, <1>11, <1>12, FewerIn
<1>14. QED  BY <1>1, <1>6, <1>7, <1>13 DEF Smaller, OrderVariant

LEMMA OneMoreScheduled ==
  ASSUME OrderInv, Schedule
  PROVE  Smaller(OrderVariant', OrderVariant)
<1>1. /\ OrderTypeOK /\ Once /\ visits # << >> /\ operators' = operators
      /\ result' = Append(result, Deepest.op)
  BY DEF OrderInv, Schedule
<1>2. /\ Len(visits) \in DOMAIN visits /\ Deepest.op \in DOMAIN operators
      /\ Deepest.op = visits[Len(visits)].op
  BY <1>1, TopIs
<1>3. Deepest.op \notin Visited
  BY <1>1, <1>2 DEF Once, Visited
<1>4. /\ result \in Seq(DOMAIN operators) /\ DOMAIN result = 1 .. Len(result)
      /\ Len(result) \in Nat
  BY <1>1, VisitsAre
<1>5. /\ result' \in Seq(DOMAIN operators) /\ Len(result') = Len(result) + 1
      /\ \A k \in 1 .. Len(result) : result'[k] = result[k]
      /\ result'[Len(result) + 1] = Deepest.op
  BY <1>1, <1>2, <1>4, AppendIs
<1>6. DOMAIN result' = 1 .. Len(result) + 1
  BY <1>5, LenProperties
<1>7. Visited' = Visited \cup {Deepest.op}
  BY <1>4, <1>5, <1>6 DEF Visited
<1>8. IsFiniteSet(DOMAIN operators \ Visited)
  BY <1>1, OrderIsFinite, FS_Difference
<1>9. /\ DOMAIN operators \ Visited' \subseteq DOMAIN operators \ Visited
      /\ DOMAIN operators \ Visited' # DOMAIN operators \ Visited
  BY <1>2, <1>3, <1>7
<1>10. Cardinality(DOMAIN operators \ Visited') < Cardinality(DOMAIN operators \ Visited)
  BY <1>8, <1>9, FewerIn
<1>11. QED  BY <1>1, <1>10 DEF Smaller, OrderVariant

LEMMA OrderStepIsCloser ==
  ASSUME OrderInv, OrderNext, ended = "running", ended' = "running"
  PROVE  Smaller(OrderVariant', OrderVariant)
<1>1. OrderTypeOK
  BY DEF OrderInv
<1>2. CASE VisitNext
  <2>1. /\ visits = << >> /\ next \in DOMAIN operators /\ next' = next + 1
        /\ operators' = operators /\ result' = result /\ Enter(next, visits)
    BY <1>2 DEF VisitNext
  <2>2. CASE next \in Visited
    <3>1. visits' = visits
      BY <2>1, <2>2 DEF Enter
    <3>2. Visited' = Visited /\ Visiting' = Visiting
      BY <2>1, <3>1 DEF Visited, Visiting
    <3>3. Len(operators) + 1 - next' < Len(operators) + 1 - next
      BY <1>1, <2>1, VisitsAre
    <3>4. QED  BY <2>1, <3>1, <3>2, <3>3 DEF Smaller, OrderVariant
  <2>3. CASE next \notin Visited
    <3>1. next \notin Visiting
      BY <2>1 DEF Visiting
    <3>2. visits' = Append(visits, [op |-> next, asked |-> << 0, 0 >>])
      BY <2>1, <2>3, <3>1 DEF Enter
    <3>3. PICK c \in Nat \X Nat : c = << 0, 0 >>
      OBVIOUS
    <3>4. Started(next, c) /\ DOMAIN visits' = DOMAIN visits \cup {Len(visits) + 1}
      BY <1>1, <2>1, <3>2, StartedStep
    <3>5. QED  BY <1>1, <2>1, <3>1, <3>4, VisitBegun
  <2>4. QED  BY <2>2, <2>3
<1>3. CASE VisitProducer
  <2> DEFINE c == NextCall(Deepest)
  <2>1. /\ visits # << >> /\ operators' = operators /\ result' = result
        /\ Enter(c[2], [visits EXCEPT ![Len(visits)].asked = c])
    BY <1>3 DEF VisitProducer
  <2>2. c \in Nat \X Nat /\ c[2] \in DOMAIN operators
    BY <1>3, CallFacts
  <2>3. CASE c[2] \in Visited
    <3>1. visits' = [visits EXCEPT ![Len(visits)].asked = c]
      BY <2>1, <2>3 DEF Enter
    <3>2. Asking(c) /\ DOMAIN visits' = DOMAIN visits
      BY <1>1, <2>1, <2>2, <3>1, AskingStep
    <3>3. QED  BY <1>3, <3>2, CallsTaken
  <2>4. CASE c[2] \notin Visited /\ c[2] \in Visiting
    BY <2>1, <2>4 DEF Enter
  <2>5. CASE c[2] \notin Visited /\ c[2] \notin Visiting
    <3> HIDE DEF c
    <3>1. visits' = Append([visits EXCEPT ![Len(visits)].asked = c],
                           [op |-> c[2], asked |-> << 0, 0 >>])
      BY <2>1, <2>5 DEF Enter
    <3>2. PICK frames : /\ frames = (IF visits = << >> THEN visits
                                     ELSE [visits EXCEPT ![Len(visits)].asked = c])
                        /\ visits' = Append(frames, [op |-> c[2], asked |-> << 0, 0 >>])
      BY <2>1, <3>1, Zenon
    <3>3. PICK i \in DOMAIN operators : i = c[2]
      BY <2>2
    <3>4. Started(i, c) /\ DOMAIN visits' = DOMAIN visits \cup {Len(visits) + 1}
      BY ONLY <1>1, <2>2, i \in DOMAIN operators, <3>2, <3>3, StartedStep, Zenon
    <3>5. QED  BY <1>1, <2>1, <2>5, <3>3, <3>4, VisitBegun
  <2>6. QED  BY <2>3, <2>4, <2>5
<1>4. CASE Schedule
  BY <1>4, OneMoreScheduled
<1>5. CASE Return
  BY <1>5 DEF Return
<1>6. QED  BY <1>2, <1>3, <1>4, <1>5 DEF OrderNext

(* topological_order() ends on every tuple of operators, ordered or refused. *)
THEOREM OrderEnds == OrderSpec => OrderComesCloser
<1>1. OrderInv /\ [OrderNext]_ordervars =>
        [ended = "running" =>
            /\ OrderVariant \in Triple
            /\ ended' # "running" \/ Smaller(OrderVariant', OrderVariant)]_ordervars
  BY OrderStepIsCloser, OrderVariantIsTriple DEF OrderInv
<1>2. QED  BY <1>1, OrderHolds, PTL DEF OrderSpec, OrderComesCloser
============================================================================
