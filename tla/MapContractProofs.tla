------------------------- MODULE MapContractProofs -------------------------
(***************************************************************************)
(* The store implements its contract, and what a reader of the map gains   *)
(* from it: no edge ever dangles, what is in the map can be proposed again, *)
(* a returned version holds the contribution, and replay says the latest.  *)
(* The heart of it is LandingStep, which sorts the steps of the store into *)
(* the three things that can happen to the records still to land.          *)
(* Then what a contribution cut short leaves: its missing records can be   *)
(* proposed again, whole or by the part of the map they hang together in.  *)
(* Then that a retired node stays retired, for one writer, and with several *)
(* comes back only in a race.  Last, that the map has no islands but those  *)
(* an edge under way will join.                                             *)
(***************************************************************************)
EXTENDS MapStoreProofs

USE DEF Materializing

(* The steps of _materialize but the last, with which the push ends. *)
Rewrites(w) == OpenNodes(w) \/ PushNodes(w) \/ OpenEdges(w)

(* A writer outside the loop of propose() has nothing to push. *)
IdleHasNone == \A w \in Writer : pc[w] \in {"idle", "head"} => left[w] = {}

LandInv == TypeInv /\ IdleHasNone

(* What one step does to the records that are still to land. *)
Admits(w, contribution) ==
    /\ Unlanded[w] = {}
    /\ Admissible(contribution, replay(log))
    /\ Unlanded'[w] = DOMAIN contribution \ no_op_indices(contribution, replay(log))
    /\ asked'[w] = contribution
    /\ log' = log
    /\ \A v \in Writer \ {w} : Unlanded'[v] = Unlanded[v] /\ asked'[v] = asked[v]

Lands(w) ==
    /\ AppendsOne(w)
    /\ Unlanded[w] = left[w] /\ left[w] # {}
    /\ Unlanded'[w] \in {left[w] \ {Least(left[w])}, {}}
    /\ Unlanded'[w] # {} => asked'[w] = asked[w]
    /\ \A v \in Writer \ {w} : Unlanded'[v] = Unlanded[v] /\ asked'[v] = asked[v]

DropsSome ==
    /\ log' = log
    /\ \A v \in Writer : \/ Unlanded'[v] = {}
                         \/ Unlanded'[v] = Unlanded[v] /\ asked'[v] = asked[v]
-----------------------------------------------------------------------------
LEMMA LandInvInit == Init => LandInv
BY TypeInvInit DEF Init, LandInv, IdleHasNone

LEMMA IdleHasNoneStep == LandInv /\ [Next]_vars => IdleHasNone'
<1> SUFFICES ASSUME LandInv, [Next]_vars, NEW u \in Writer, pc'[u] \in {"idle", "head"}
             PROVE  left'[u] = {}
  BY DEF IdleHasNone
<1> USE DEF LandInv, TypeInv, TypeOK, IdleHasNone
<1>1. CASE UNCHANGED vars
  BY <1>1 DEF vars
<1>2. ASSUME NEW w \in Writer, NEW contribution \in Contributions, Propose(w, contribution)
      PROVE  left'[u] = {}
  BY <1>2 DEF Propose
<1>3. ASSUME NEW w \in Writer, ReturnHead(w) \/ ReadFails(w) \/ Restart(w) \/ PushEdges(w)
      PROVE  left'[u] = {}
  <2>1. CASE Finish(w)
    BY <2>1 DEF Finish
  <2>2. CASE PushEdges(w) /\ ~ Finish(w)
    <3>1. pc' = [pc EXCEPT ![w] = "read"] /\ left' = [left EXCEPT ![w] = @ \ {Least(@)}]
      BY <2>2 DEF PushEdges, Advance
    <3>2. QED  BY <3>1
  <2>3. QED  BY <1>3, <2>1, <2>2 DEF ReturnHead, ReadFails, Restart
<1>4. ASSUME NEW w \in Writer, PushRead(w) \/ PushAppend(w) \/ Rewrites(w)
      PROVE  left'[u] = {}
  BY <1>4 DEF PushRead, PushAppend, Rewrites, OpenNodes, PushNodes, OpenEdges, locals
<1>5. ASSUME NEW w \in Writer,
             CrashBetween(w) \/ CrashInAppend(w) \/ CrashInMaterialize(w)
      PROVE  left'[u] = {}
  <2>1. pc' = [pc EXCEPT ![w] = "crashed"]
    BY <1>5 DEF CrashBetween, CrashInAppend, CrashInMaterialize, Die
  <2>2. left' = left \/ left' = [left EXCEPT ![w] = @ \ {Least(@)}]
    BY <1>5 DEF CrashBetween, CrashInAppend, CrashInMaterialize, Advance
  <2>3. u # w /\ pc'[u] = pc[u]
    BY <2>1
  <2>4. QED  BY <2>2, <2>3
<1>6. QED  BY <1>1, <1>2, <1>3, <1>4, <1>5 DEF Next, Rewrites

LEMMA LandInvStep == LandInv /\ [Next]_vars => LandInv'
BY TypeInvStep, IdleHasNoneStep DEF LandInv
-----------------------------------------------------------------------------
LEMMA LandingStep ==
  ASSUME LandInv, [Next]_vars
  PROVE  \/ \E w \in Writer, contribution \in Contributions : Admits(w, contribution)
         \/ \E w \in Writer : Lands(w)
         \/ DropsSome
<1> USE DEF LandInv, TypeInv, TypeOK
<1>1. CASE UNCHANGED vars
  BY <1>1 DEF vars, DropsSome, Unlanded, Readable
<1>2. ASSUME NEW w \in Writer, NEW contribution \in Contributions, Propose(w, contribution)
      PROVE  Admits(w, contribution)
  <2> DEFINE rest == DOMAIN contribution \ no_op_indices(contribution, replay(log))
  <2>1. /\ pc[w] = "idle" /\ Readable /\ Admissible(contribution, replay(log))
        /\ left' = [left EXCEPT ![w] = rest]
        /\ pc' = [pc EXCEPT ![w] = IF rest = {} THEN "head" ELSE "read"]
        /\ asked' = [asked EXCEPT ![w] = contribution]
        /\ UNCHANGED << log, tail >>
    BY <1>2 DEF Propose
  <2> HIDE DEF rest
  <2>2. Unlanded[w] = {}
    BY <2>1 DEF Unlanded, IdleHasNone
  <2>3. Unlanded'[w] = rest /\ asked'[w] = contribution
    BY <2>1 DEF Unlanded, Readable
  <2>4. \A v \in Writer \ {w} : Unlanded'[v] = Unlanded[v] /\ asked'[v] = asked[v]
    BY <2>1 DEF Unlanded, Readable
  <2>5. QED  BY <2>1, <2>2, <2>3, <2>4 DEF Admits, rest
<1>3. ASSUME NEW w \in Writer, Finish(w), UNCHANGED << log, tail >>
      PROVE  DropsSome
  BY <1>3 DEF Finish, DropsSome, Unlanded, Readable
<1>4. ASSUME NEW w \in Writer, ReturnHead(w) \/ ReadFails(w) \/ Restart(w)
      PROVE  DropsSome
  BY <1>3, <1>4 DEF ReturnHead, ReadFails, Restart
<1>5. ASSUME NEW w \in Writer, PushRead(w) \/ Rewrites(w)
      PROVE  DropsSome
  BY <1>5 DEF PushRead, Rewrites, OpenNodes, PushNodes, OpenEdges, locals, DropsSome,
              Unlanded, Readable
<1>6. ASSUME NEW w \in Writer, PushAppend(w)
      PROVE  Lands(w) \/ DropsSome
  <2>1. pc[w] = "append" /\ pc' = [pc EXCEPT ![w] = "nodes"]
        /\ UNCHANGED << asked, left >> /\ left[w] # {}
    BY <1>6 DEF PushAppend, locals, LoopHasRecord, Pushing
  <2>2. CASE tail = "clean"
    <3>1. AppendsOne(w) /\ tail' = "clean"
      BY <1>6, <2>2 DEF PushAppend, AppendLine, AppendsOne
    <3>2. Unlanded[w] = left[w] /\ Unlanded'[w] = left[w] \ {Least(left[w])}
      BY <2>1, <2>2, <3>1 DEF Unlanded, Readable
    <3>3. \A v \in Writer \ {w} : Unlanded'[v] = Unlanded[v]
      BY <2>1, <2>2, <3>1 DEF Unlanded, Readable
    <3>4. QED  BY <2>1, <3>1, <3>2, <3>3 DEF Lands
  <2>3. CASE tail # "clean"
    BY <1>6, <2>3 DEF PushAppend, AppendLine, DropsSome, Unlanded, Readable
  <2>4. QED  BY <2>2, <2>3
<1>7. ASSUME NEW w \in Writer, PushEdges(w)
      PROVE  DropsSome
  <2>1. CASE Finish(w)
    BY <1>3, <1>7, <2>1 DEF PushEdges
  <2>2. CASE ~ Finish(w)
    <3>1. /\ pc[w] = "edgesOpen" /\ pc' = [pc EXCEPT ![w] = "read"]
          /\ left' = [left EXCEPT ![w] = @ \ {Least(@)}]
          /\ UNCHANGED << log, tail, asked >>
      BY <1>7, <2>2 DEF PushEdges, Advance
    <3>2. QED  BY <3>1 DEF DropsSome, Unlanded, Readable
  <2>3. QED  BY <2>1, <2>2
<1>8. ASSUME NEW w \in Writer, CrashBetween(w) \/ CrashInMaterialize(w)
      PROVE  DropsSome
  <2>1. /\ pc' = [pc EXCEPT ![w] = "crashed"] /\ UNCHANGED << log, tail, asked >>
        /\ \A v \in Writer \ {w} : left'[v] = left[v]
    BY <1>8 DEF CrashBetween, CrashInMaterialize, Die, Advance
  <2>2. QED  BY <2>1 DEF DropsSome, Unlanded, Readable
<1>9. ASSUME NEW w \in Writer, CrashInAppend(w)
      PROVE  Lands(w) \/ DropsSome
  <2>1. pc[w] = "append" /\ pc' = [pc EXCEPT ![w] = "crashed"] /\ UNCHANGED asked
        /\ left[w] # {}
    BY <1>9 DEF CrashInAppend, Die, LoopHasRecord, Pushing
  <2>2. CASE tail' = "torn" /\ log' = log
    BY <2>2 DEF DropsSome, Unlanded, Readable
  <2>3. CASE tail = "clean" /\ tail' = "unterminated" /\ log' = Append(log, Pending(w))
             /\ Advance(w)
    <3>1. AppendsOne(w)
      BY <2>1, <2>3 DEF AppendsOne
    <3>2. Unlanded[w] = left[w] /\ Unlanded'[w] = {}
      BY <2>1, <2>3 DEF Unlanded, Readable
    <3>3. \A v \in Writer \ {w} : Unlanded'[v] = Unlanded[v]
      BY <2>1, <2>3 DEF Unlanded, Readable, Advance
    <3>4. QED  BY <2>1, <3>1, <3>2, <3>3 DEF Lands
  <2>4. QED  BY <1>9, <2>2, <2>3 DEF CrashInAppend
<1>10. QED  BY <1>1, <1>2, <1>4, <1>5, <1>6, <1>7, <1>8, <1>9 DEF Next, Rewrites

-----------------------------------------------------------------------------
(* The operators the contract is stated with are those of the store. *)

LEMMA ContractNoOp ==
  ASSUME NEW contribution, NEW view
  PROVE  Contract!no_op_indices(contribution, view) = no_op_indices(contribution, view)
BY Zenon DEF Contract!no_op_indices, Contract!NoOp, no_op_indices, NoOp

LEMMA ContractAdmissible ==
  ASSUME NEW contribution, NEW view
  PROVE  Contract!Admissible(contribution, view) = Admissible(contribution, view)
<1>1. Contract!WellFormed(contribution) = WellFormed(contribution)
  BY Zenon DEF Contract!WellFormed, WellFormed, Contract!IsAdd, IsAdd
<1>2. \A c : Contract!EndsOf(c) = EndsOf(c)
  BY Zenon DEF Contract!EndsOf, EndsOf
<1>3. Contract!Reachable(contribution, view) = Reachable(contribution, view)
  BY <1>2, Zenon DEF Contract!Reachable, Reachable, Contract!EndsOf, EndsOf
<1>4. ASSUME NEW adds
      PROVE  Contract!GraphNodes(adds) = GraphNodes(adds)
  BY Zenon DEF Contract!GraphNodes, GraphNodes, Contract!EndsOf, EndsOf
<1>5. ASSUME NEW adds, NEW S
      PROVE  Contract!Isolated(S, adds) = Isolated(S, adds)
  BY Zenon DEF Contract!Isolated, Isolated, Contract!EndsOf, EndsOf
<1>6. \A adds : Contract!WeaklyConnected(adds) = WeaklyConnected(adds)
  BY <1>4, <1>5, Zenon DEF Contract!WeaklyConnected, WeaklyConnected
<1>7. Contract!Connected(contribution, view) = Connected(contribution, view)
  BY <1>2, <1>6, ContractNoOp, Zenon
     DEF Contract!Connected, Connected, Contract!IsAdd, IsAdd
<1>8. QED
  BY <1>1, <1>3, <1>7, Zenon DEF Contract!Admissible, Admissible

LEMMA ContractApply ==
  ASSUME NEW view, NEW c
  PROVE  Contract!Apply(view, c) = Apply(view, c)
BY Zenon DEF Contract!Apply, Contract!Insert, Contract!Touch, Contract!Fresh, Contract!Mutate,
             Apply, Insert, Touch, Fresh, Mutate

LEMMA ContractFirst ==
  ASSUME NEW S
  PROVE  Contract!First(S) = Least(S)
BY Zenon DEF Contract!First, Least

-----------------------------------------------------------------------------
(* The refinement: each of the three kinds of step is one of the contract. *)

LEMMA UnlandedFunction ==
  /\ Unlanded = [v \in Writer |-> Unlanded[v]]
  /\ Unlanded' = [v \in Writer |-> Unlanded'[v]]
BY DEF Unlanded

LEMMA InitRefines == Init => Contract!Init
<1> SUFFICES ASSUME Init PROVE Contract!Init
  OBVIOUS
<1>1. \A w \in Writer : Unlanded[w] = {}
  BY DEF Init, Unlanded
<1>2. Unlanded = [w \in Writer |-> {}] /\ Admitted = [w \in Writer |-> << >>]
  BY <1>1, UnlandedFunction DEF Admitted
<1>3. QED  BY <1>2 DEF Init, Contract!Init

LEMMA AdmitsRefines ==
  ASSUME NEW w \in Writer, NEW contribution \in Contributions, Admits(w, contribution)
  PROVE  Contract!Admit(w, contribution) \/ UNCHANGED Contract!cvars
<1> DEFINE rest == DOMAIN contribution \ no_op_indices(contribution, replay(log))
<1>1. Unlanded[w] = {} /\ Contract!Admissible(contribution, replay(log))
      /\ replay(log)' = replay(log)
  BY ContractAdmissible DEF Admits
<1>2. Unlanded[w] = {} /\ Unlanded'[w] = rest /\ asked'[w] = contribution
      /\ \A v \in Writer \ {w} : Unlanded'[v] = Unlanded[v] /\ asked'[v] = asked[v]
  BY DEF Admits
<1> HIDE DEF rest
<1>3. CASE rest = {}
  <2>1. Unlanded' = Unlanded /\ Admitted' = Admitted
    BY <1>2, <1>3, UnlandedFunction DEF Admitted
  <2>2. QED  BY <1>1, <2>1 DEF Contract!cvars
<1>4. CASE rest # {}
  <2>1. Unlanded' = [Unlanded EXCEPT ![w] = rest]
    BY <1>2, UnlandedFunction
  <2>2. Admitted' = [Admitted EXCEPT ![w] = contribution]
    BY <1>2, <1>4 DEF Admitted
  <2>3. rest = DOMAIN contribution \ Contract!no_op_indices(contribution, replay(log))
    BY ContractNoOp DEF rest
  <2>4. QED  BY <1>1, <2>1, <2>2, <2>3 DEF Contract!Admit
<1>5. QED  BY <1>3, <1>4

LEMMA LandsRefines ==
  ASSUME LandInv, NEW w \in Writer, Lands(w)
  PROVE  Contract!Land(w)
<1> DEFINE i == Least(left[w])
           rest == Unlanded'[w]
<1>1. /\ Unlanded[w] = left[w] /\ left[w] # {} /\ rest \in {left[w] \ {i}, {}}
      /\ rest # {} => asked'[w] = asked[w]
      /\ \A v \in Writer \ {w} : Unlanded'[v] = Unlanded[v] /\ asked'[v] = asked[v]
      /\ AppendsOne(w)
  BY DEF Lands
<1>2. replay(log)' = Apply(replay(log), asked[w][i])
  <2>1. pc[w] \in Pushing /\ log' = Append(log, Pending(w)) /\ log \in Seq(Record)
    BY <1>1 DEF AppendsOne, Pushing, LandInv, TypeInv, TypeOK
  <2>2. Pending(w) \in Record /\ Pending(w).change = asked[w][i]
    BY <2>1, PendingType DEF LandInv
  <2>3. replay(Append(log, Pending(w))) = Apply(replay(log), Pending(w).change)
    BY <2>1, <2>2, ReplayAppend
  <2>4. QED  BY <2>1, <2>2, <2>3
<1>3. Unlanded[w] = left[w] /\ Admitted[w] = asked[w] /\ Contract!First(left[w]) = i
  BY <1>1, ContractFirst DEF Admitted
<1> HIDE DEF i, rest
<1>4. Unlanded' = [Unlanded EXCEPT ![w] = rest]
  BY <1>1, UnlandedFunction DEF rest
<1>5. Admitted' = [Admitted EXCEPT ![w] = IF rest = {} THEN << >> ELSE @]
  BY <1>1, <1>3 DEF Admitted, rest
<1>6. replay(log)' = Contract!Apply(replay(log), Admitted[w][Contract!First(Unlanded[w])])
  BY <1>2, <1>3, ContractApply
<1>7. rest \in {Unlanded[w] \ {Contract!First(Unlanded[w])}, {}} /\ Unlanded[w] # {}
  BY <1>1, <1>3
<1>8. QED
  BY <1>4, <1>5, <1>6, <1>7 DEF Contract!Land

LEMMA DropsRefines ==
  ASSUME DropsSome
  PROVE  Contract!Drop({v \in Writer : Unlanded'[v] = {}})
<1> DEFINE dropped == {v \in Writer : Unlanded'[v] = {}}
<1>1. \A v \in Writer : \/ Unlanded'[v] = {}
                        \/ Unlanded'[v] = Unlanded[v] /\ asked'[v] = asked[v]
  BY DEF DropsSome
<1>2. Unlanded' = [v \in Writer |-> IF v \in dropped THEN {} ELSE Unlanded[v]]
  BY <1>1, UnlandedFunction
<1>3. Admitted' = [v \in Writer |-> IF v \in dropped THEN << >> ELSE Admitted[v]]
  BY <1>1 DEF Admitted
<1>4. replay(log)' = replay(log)
  BY DEF DropsSome
<1>5. QED  BY <1>2, <1>3, <1>4 DEF Contract!Drop

LEMMA StepRefines == LandInv /\ [Next]_vars => [Contract!Next]_Contract!cvars
<1> SUFFICES ASSUME LandInv, [Next]_vars PROVE [Contract!Next]_Contract!cvars
  OBVIOUS
<1>1. ASSUME NEW w \in Writer, NEW contribution \in Contributions, Admits(w, contribution)
      PROVE  [Contract!Next]_Contract!cvars
  BY <1>1, AdmitsRefines DEF Contract!Next
<1>2. ASSUME NEW w \in Writer, Lands(w)
      PROVE  [Contract!Next]_Contract!cvars
  BY <1>2, LandsRefines DEF Contract!Next
<1>3. CASE DropsSome
  BY <1>3, DropsRefines DEF Contract!Next
<1>4. QED  BY <1>1, <1>2, <1>3, LandingStep

(* The store, with its races, crashes and files, implements the contract.   *)
THEOREM StoreImplementsContract == Spec => ContractSpec
<1>1. Init => LandInv /\ Contract!Init
  BY LandInvInit, InitRefines
<1>2. LandInv /\ [Next]_vars => LandInv' /\ [Contract!Next]_Contract!cvars
  BY LandInvStep, StepRefines
<1>3. QED  BY <1>1, <1>2, PTL DEF Spec, ContractSpec, Contract!Spec

-----------------------------------------------------------------------------
(* No edge dangles.  Inductive only together with what the records still to *)
(* land rely on: an endpoint is in the map or is added by an earlier record *)
(* of the same contribution that is itself still to land.                   *)

Covered(w) ==
    \A i \in Unlanded[w] :
        asked[w][i].op = "add_edge" =>
            \A n \in EndsOf(asked[w][i]) :
                \/ n \in DOMAIN replay(log).nodes
                \/ \E j \in Unlanded[w] : /\ j < i
                                          /\ asked[w][j].op = "add_node"
                                          /\ n \in asked[w][j].uids

EdgeInv == LandInv /\ NoDanglingEdge /\ \A w \in Writer : Covered(w)

(* The domains of the map after a record has landed. *)
LEMMA LandedDomains ==
  ASSUME LandInv, NEW w \in Writer, Lands(w)
  PROVE  LET c == asked[w][Least(left[w])]
         IN /\ DOMAIN replay(log').nodes = IF c.op = "add_node"
                   THEN DOMAIN replay(log).nodes \cup c.uids ELSE DOMAIN replay(log).nodes
            /\ DOMAIN replay(log').edges = IF c.op = "add_edge"
                   THEN DOMAIN replay(log).edges \cup c.uids ELSE DOMAIN replay(log).edges
            /\ Least(left[w]) \in left[w] /\ \A j \in left[w] : Least(left[w]) <= j
<1> DEFINE c == asked[w][Least(left[w])]
<1>1. pc[w] \in Pushing /\ log' = Append(log, Pending(w)) /\ log \in Seq(Record)
      /\ left[w] # {} /\ left[w] \subseteq Nat /\ Len(log) \in Nat
  BY DEF Lands, AppendsOne, Pushing, LandInv, TypeInv, TypeOK
<1>2. Pending(w) \in Record /\ Pending(w).change = c
  BY <1>1, PendingType DEF LandInv
<1>3. replay(log') = Apply(replay(log), c)
  BY <1>1, <1>2, ReplayAppend
<1>4. IsView(replay(log))
  BY <1>1, ReplayIsView
<1>5. Least(left[w]) \in left[w] /\ \A j \in left[w] : Least(left[w]) <= j
  BY <1>1, LeastIsIn, Zenon
<1> HIDE DEF c
<1>6. /\ DOMAIN Apply(replay(log), c).nodes = IF c.op = "add_node"
             THEN DOMAIN replay(log).nodes \cup c.uids ELSE DOMAIN replay(log).nodes
      /\ DOMAIN Apply(replay(log), c).edges = IF c.op = "add_edge"
             THEN DOMAIN replay(log).edges \cup c.uids ELSE DOMAIN replay(log).edges
  BY <1>4, ApplyDomains
<1>7. QED  BY <1>3, <1>5, <1>6 DEF c

LEMMA CoveredStep ==
  ASSUME EdgeInv, [Next]_vars, NEW u \in Writer
  PROVE  Covered(u)'
<1>1. ASSUME NEW w \in Writer, NEW contribution \in Contributions, Admits(w, contribution)
      PROVE  Covered(u)'
  <2>1. CASE u # w
    BY <1>1, <2>1 DEF Admits, EdgeInv, Covered
  <2>2. CASE u = w
    <3> DEFINE dropped == no_op_indices(contribution, replay(log))
    <3>1. /\ Unlanded'[u] = DOMAIN contribution \ dropped
          /\ asked'[u] = contribution /\ log' = log
          /\ Reachable(contribution, replay(log))
          /\ contribution \in Seq(Change)
      BY <1>1, <2>2, StoreAssumption DEF Admits, Admissible
    <3>2. \A j \in dropped : contribution[j].op = "add_node"
                             => contribution[j].uids \subseteq DOMAIN replay(log).nodes
      BY DEF no_op_indices, NoOp
    <3> HIDE DEF dropped
    <3>3. ASSUME NEW i \in Unlanded'[u], contribution[i].op = "add_edge",
                 NEW n \in EndsOf(contribution[i]), n \notin DOMAIN replay(log).nodes
          PROVE  \E j \in Unlanded'[u] : /\ j < i
                                         /\ contribution[j].op = "add_node"
                                         /\ n \in contribution[j].uids
      <4>1. i \in DOMAIN contribution
        BY <3>1
      <4>2. PICK j \in 1 .. i - 1 : contribution[j].op = "add_node" /\ n \in contribution[j].uids
        BY <3>1, <3>3, <4>1 DEF Reachable
      <4>3. j \in DOMAIN contribution /\ j < i
        BY <3>1, <4>1
      <4>4. j \notin dropped
        BY <3>2, <3>3, <4>2
      <4>5. QED  BY <3>1, <4>2, <4>3, <4>4
    <3>4. QED  BY <3>1, <3>3 DEF Covered
  <2>3. QED  BY <2>1, <2>2
<1>2. ASSUME NEW w \in Writer, Lands(w)
      PROVE  Covered(u)'
  <2> DEFINE m == Least(left[w])
             old == DOMAIN replay(log).nodes
             new == DOMAIN replay(log').nodes
  <2>1. /\ new = IF asked[w][m].op = "add_node" THEN old \cup asked[w][m].uids ELSE old
        /\ m \in left[w]
    BY <1>2, LandedDomains DEF EdgeInv
  <2>2. Covered(u)
    BY DEF EdgeInv
  <2>3. CASE Unlanded'[u] = {}
    BY <2>3 DEF Covered
  <2>4. CASE u # w
    <3>1. Unlanded'[u] = Unlanded[u] /\ asked'[u] = asked[u] /\ old \subseteq new
      BY <1>2, <2>1, <2>4 DEF Lands
    <3>2. QED  BY <2>2, <3>1 DEF Covered
  <2>5. CASE u = w /\ Unlanded'[u] # {}
    <3>1. Unlanded[u] = left[u] /\ Unlanded'[u] = left[u] \ {m} /\ asked'[u] = asked[u]
      BY <1>2, <2>5 DEF Lands
    <3> HIDE DEF m, old, new
    <3>2. ASSUME NEW i \in Unlanded'[u], asked[u][i].op = "add_edge",
                 NEW n \in EndsOf(asked[u][i]), n \notin new
          PROVE  \E j \in Unlanded'[u] : /\ j < i
                                         /\ asked[u][j].op = "add_node"
                                         /\ n \in asked[u][j].uids
      <4>1. n \notin old
        BY <2>1, <3>2
      <4>2. PICK j \in Unlanded[u] : j < i /\ asked[u][j].op = "add_node"
                                     /\ n \in asked[u][j].uids
        BY <2>2, <3>1, <3>2, <4>1 DEF Covered, old
      <4>3. j # m
        BY <2>1, <2>5, <3>2, <4>2
      <4>4. QED  BY <3>1, <4>2, <4>3
    <3>3. QED  BY <3>1, <3>2 DEF Covered, new
  <2>6. QED  BY <2>3, <2>4, <2>5
<1>3. CASE DropsSome
  BY <1>3 DEF DropsSome, EdgeInv, Covered
<1>4. QED  BY <1>1, <1>2, <1>3, LandingStep DEF EdgeInv

LEMMA NoDanglingEdgeStep == EdgeInv /\ [Next]_vars => NoDanglingEdge'
<1> SUFFICES ASSUME EdgeInv, [Next]_vars PROVE NoDanglingEdge'
  OBVIOUS
<1>1. CASE log' = log
  BY <1>1 DEF EdgeInv, NoDanglingEdge
<1>2. ASSUME NEW w \in Writer, Lands(w)
      PROVE  NoDanglingEdge'
  <2> DEFINE m == Least(left[w])
             c == asked[w][m]
             nodes == DOMAIN replay(log).nodes
             edges == DOMAIN replay(log).edges
  <2>1. /\ DOMAIN replay(log').nodes = IF c.op = "add_node" THEN nodes \cup c.uids ELSE nodes
        /\ DOMAIN replay(log').edges = IF c.op = "add_edge" THEN edges \cup c.uids ELSE edges
        /\ m \in left[w] /\ \A j \in left[w] : m <= j
    BY <1>2, LandedDomains DEF EdgeInv
  <2>2. Covered(w) /\ Unlanded[w] = left[w] /\ left[w] \subseteq Nat
    BY <1>2 DEF EdgeInv, Lands, LandInv, TypeInv, TypeOK
  <2>3. c.op = "add_edge" => EndsOf(c) \subseteq nodes
    <3>1. SUFFICES ASSUME c.op = "add_edge", NEW n \in EndsOf(c), n \notin nodes
                   PROVE  FALSE
      OBVIOUS
    <3>2. \E j \in left[w] : j < m
      BY <2>1, <2>2, <3>1 DEF Covered
    <3>3. QED  BY <2>1, <2>2, <3>2
  <2>4. \A e \in edges : Ends[e] \subseteq nodes
    BY DEF EdgeInv, NoDanglingEdge
  <2>5. \A e \in c.uids : Ends[e] \subseteq EndsOf(c)
    BY DEF EndsOf
  <2> HIDE DEF c, nodes, edges
  <2>6. \A e \in DOMAIN replay(log').edges : Ends[e] \subseteq DOMAIN replay(log').nodes
    BY <2>1, <2>3, <2>4, <2>5
  <2>7. QED  BY <2>6 DEF NoDanglingEdge
<1>3. QED  BY <1>1, <1>2, LandingStep DEF EdgeInv, Admits, DropsSome

GenesisEdgesTied == \A e \in DOMAIN replay(GenesisLog).edges :
                        Ends[e] \subseteq DOMAIN replay(GenesisLog).nodes

LEMMA EdgeInvInit == GenesisEdgesTied /\ Init => EdgeInv
<1> SUFFICES ASSUME GenesisEdgesTied, Init PROVE EdgeInv
  OBVIOUS
<1>1. \A w \in Writer : Unlanded[w] = {}
  BY DEF Init, Unlanded
<1>2. QED  BY <1>1, LandInvInit DEF Init, EdgeInv, NoDanglingEdge, Covered, GenesisEdgesTied

LEMMA EdgeInvStep == EdgeInv /\ [Next]_vars => EdgeInv'
<1> SUFFICES ASSUME EdgeInv, [Next]_vars PROVE EdgeInv'
  OBVIOUS
<1>1. LandInv' /\ NoDanglingEdge'
  BY LandInvStep, NoDanglingEdgeStep DEF EdgeInv
<1>2. \A w \in Writer : Covered(w)'
  BY CoveredStep
<1>3. QED  BY <1>1, <1>2 DEF EdgeInv

(* From a genesis map without dangling edges, races and crashes never make  *)
(* one, although every gate is checked against a view that may be stale.    *)
THEOREM EdgesNeverDangle ==
  ASSUME GenesisEdgesTied
  PROVE  Spec => []NoDanglingEdge
<1>1. Init => EdgeInv
  BY EdgeInvInit
<1>2. EdgeInv => NoDanglingEdge
  BY DEF EdgeInv
<1>3. QED  BY <1>1, <1>2, EdgeInvStep, PTL DEF Spec

-----------------------------------------------------------------------------
(* A contribution that is in the map is never refused again.  It rests on   *)
(* NoDanglingEdge, and on additions naming uids of the kind they add.       *)

OfItsKind(c) == /\ c.op = "add_node" => c.uids \subseteq Node
                /\ c.op = "add_edge" => c.uids \subseteq Edge

KindAssumption ==
    /\ DOMAIN replay(GenesisLog).nodes \subseteq Node
    /\ DOMAIN replay(GenesisLog).edges \subseteq Edge
    /\ \A c \in Contributions : \A i \in DOMAIN c : OfItsKind(c[i])

KindInv ==
    /\ DOMAIN replay(log).nodes \subseteq Node
    /\ DOMAIN replay(log).edges \subseteq Edge
    /\ \A w \in Writer : \A i \in DOMAIN asked[w] : OfItsKind(asked[w][i])

LEMMA AskedStep ==
  ASSUME TypeInv, [Next]_vars, NEW w \in Writer
  PROVE  asked'[w] \in {asked[w], << >>} \cup Contributions
<1> USE DEF TypeInv, TypeOK
<1>1. CASE UNCHANGED vars
  BY <1>1 DEF vars
<1>2. ASSUME NEW v \in Writer, NEW contribution \in Contributions, Propose(v, contribution)
      PROVE  asked'[w] \in {asked[w]} \cup Contributions
  BY <1>2 DEF Propose
<1>3. ASSUME NEW v \in Writer, ReturnHead(v) \/ ReadFails(v) \/ PushEdges(v) \/ Restart(v)
      PROVE  asked'[w] \in {asked[w], << >>}
  BY <1>3 DEF ReturnHead, ReadFails, PushEdges, Restart, Finish
<1>4. ASSUME NEW v \in Writer,
             \/ PushRead(v) \/ PushAppend(v) \/ Rewrites(v)
             \/ CrashBetween(v) \/ CrashInAppend(v) \/ CrashInMaterialize(v)
      PROVE  asked'[w] = asked[w]
  BY <1>4 DEF PushRead, PushAppend, Rewrites, OpenNodes, PushNodes, OpenEdges,
              CrashBetween, CrashInAppend, CrashInMaterialize, Die, locals
<1>5. QED  BY <1>1, <1>2, <1>3, <1>4 DEF Next, Rewrites

LEMMA KindInvStep ==
  ASSUME KindAssumption, LandInv, KindInv, [Next]_vars
  PROVE  KindInv'
<1>1. ASSUME NEW w \in Writer, NEW i \in DOMAIN asked'[w]
      PROVE  OfItsKind(asked'[w][i])
  <2>1. asked'[w] \in {asked[w], << >>} \cup Contributions
    BY AskedStep DEF LandInv
  <2>2. CASE asked'[w] = asked[w]
    BY <1>1, <2>2 DEF KindInv
  <2>3. CASE asked'[w] = << >>
    BY <1>1, <2>3
  <2>4. CASE asked'[w] \in Contributions
    BY <1>1, <2>4 DEF KindAssumption
  <2>5. QED  BY <2>1, <2>2, <2>3, <2>4
<1>2. /\ DOMAIN replay(log').nodes \subseteq Node
      /\ DOMAIN replay(log').edges \subseteq Edge
  <2>1. CASE log' = log
    BY <2>1 DEF KindInv
  <2>2. ASSUME NEW w \in Writer, Lands(w)
        PROVE  /\ DOMAIN replay(log').nodes \subseteq Node
               /\ DOMAIN replay(log').edges \subseteq Edge
    <3> DEFINE c == asked[w][Least(left[w])]
    <3>1. /\ DOMAIN replay(log').nodes = IF c.op = "add_node"
                   THEN DOMAIN replay(log).nodes \cup c.uids ELSE DOMAIN replay(log).nodes
          /\ DOMAIN replay(log').edges = IF c.op = "add_edge"
                   THEN DOMAIN replay(log).edges \cup c.uids ELSE DOMAIN replay(log).edges
          /\ Least(left[w]) \in left[w]
      BY <2>2, LandedDomains
    <3>2. Least(left[w]) \in DOMAIN asked[w]
      BY <3>1 DEF LandInv, TypeInv, TypeOK
    <3>3. OfItsKind(c)
      BY <3>2 DEF KindInv
    <3> HIDE DEF c
    <3>4. QED  BY <3>1, <3>3 DEF KindInv, OfItsKind
  <2>3. QED  BY <2>1, <2>2, LandingStep DEF Admits, DropsSome
<1>3. QED  BY <1>1, <1>2 DEF KindInv

(* A contribution of additions that is in the map is accepted and pushes    *)
(* nothing, whatever has happened to its entries since.                     *)
THEOREM ProposedAgainPushesNothing ==
  ASSUME GenesisEdgesTied, KindAssumption
  PROVE  Spec => []ReproposalPushesNothing
<1>1. Init => EdgeInv /\ KindInv
  <2>1. Init => KindInv
    BY DEF Init, KindInv, KindAssumption
  <2>2. QED  BY <2>1, EdgeInvInit
<1>2. EdgeInv /\ KindInv /\ [Next]_vars => (EdgeInv /\ KindInv)'
  BY EdgeInvStep, KindInvStep DEF EdgeInv
<1>3. EdgeInv /\ KindInv => ReproposalPushesNothing
  <2> DEFINE view == replay(log)
  <2> SUFFICES ASSUME EdgeInv, KindInv, NEW c \in Contributions, WellFormed(c), AddsOnly(c),
                      \A i \in DOMAIN c : Holds(view, c[i])
               PROVE  Admissible(c, view) /\ no_op_indices(c, view) = DOMAIN c
    BY DEF ReproposalPushesNothing
  <2>1. ASSUME NEW i \in DOMAIN c
        PROVE  NoOp(c[i], view)
    <3>1. OfItsKind(c[i]) /\ IsAdd(c[i]) /\ c[i].uids \subseteq DOMAIN view.nodes \cup DOMAIN view.edges
      BY <2>1 DEF KindAssumption, AddsOnly, Holds, KnownUids
    <3>2. DOMAIN view.nodes \subseteq Node /\ DOMAIN view.edges \subseteq Edge /\ Node \cap Edge = {}
      BY UidAssumption DEF KindInv
    <3> HIDE DEF view
    <3>3. QED  BY <3>1, <3>2 DEF OfItsKind, IsAdd, NoOp
  <2>2. no_op_indices(c, view) = DOMAIN c
    BY <2>1 DEF no_op_indices
  <2>3. Connected(c, view)
    BY <2>2 DEF Connected
  <2>4. Reachable(c, view)
    <3>1. \A e \in DOMAIN view.edges : Ends[e] \subseteq DOMAIN view.nodes
      BY DEF EdgeInv, NoDanglingEdge
    <3> SUFFICES ASSUME NEW i \in DOMAIN c, c[i].op = "add_edge", NEW n \in EndsOf(c[i])
                 PROVE  n \in DOMAIN view.nodes
      BY DEF Reachable
    <3>2. c[i].uids \subseteq DOMAIN view.edges
      BY <2>1 DEF NoOp
    <3> HIDE DEF view
    <3>3. QED  BY <3>1, <3>2 DEF EndsOf
  <2>5. QED  BY <2>2, <2>3, <2>4 DEF Admissible
<1>4. QED  BY <1>1, <1>2, <1>3, PTL DEF Spec

-----------------------------------------------------------------------------
(* The version propose() returns holds the contribution.  What has landed,  *)
(* or was in the map from the start, stays in it (no op removes an entry);  *)
(* the last record is made from a copy that holds the rest; and on a chain  *)
(* the only line with its version is the one after that copy.               *)

HeldIn(view, w, rest) ==
    \A i \in DOMAIN asked[w] \ rest : IsAdd(asked[w][i]) => Holds(view, asked[w][i])

HeldInLog(w)  == Readable /\ pc[w] # "crashed" => HeldIn(replay(log), w, Unlanded[w])
HeldInSeen(w) == Readable /\ pc[w] \in {"append"} \cup Materializing =>
                     HeldIn(replay(seen[w]), w, left[w])
Placed(w)     == Readable /\ pc[w] \in Materializing =>
                     \E k \in 1 .. Len(log) : log[k] = Pending(w)

ReturnInv == \A w \in Writer : HeldInLog(w) /\ HeldInSeen(w) /\ Placed(w)

(* A record adds to what the map knows, and an added uid is known. *)
LEMMA KnownGrows ==
  ASSUME NEW recs \in Seq(Record), NEW r \in Record
  PROVE  /\ KnownUids(replay(recs)) \subseteq KnownUids(replay(Append(recs, r)))
         /\ IsAdd(r.change) => Holds(replay(Append(recs, r)), r.change)
<1> DEFINE c == r.change
<1>1. replay(Append(recs, r)) = Apply(replay(recs), c)
  BY ReplayAppend
<1>2. IsView(replay(recs))
  BY ReplayIsView
<1> HIDE DEF c
<1>3. /\ DOMAIN Apply(replay(recs), c).nodes = IF c.op = "add_node"
             THEN DOMAIN replay(recs).nodes \cup c.uids ELSE DOMAIN replay(recs).nodes
      /\ DOMAIN Apply(replay(recs), c).edges = IF c.op = "add_edge"
             THEN DOMAIN replay(recs).edges \cup c.uids ELSE DOMAIN replay(recs).edges
  BY <1>2, ApplyDomains
<1>4. /\ KnownUids(replay(recs)) \subseteq KnownUids(Apply(replay(recs), c))
      /\ IsAdd(c) => c.uids \subseteq KnownUids(Apply(replay(recs), c))
  BY <1>3 DEF KnownUids, IsAdd
<1>5. QED  BY <1>1, <1>4 DEF Holds, c

LEMMA LogGrows ==
  ASSUME TypeInv, [Next]_vars
  PROVE  /\ KnownUids(replay(log)) \subseteq KnownUids(replay(log'))
         /\ \A k \in 1 .. Len(log) : k \in 1 .. Len(log') /\ log'[k] = log[k]
<1>1. CASE log' = log
  BY <1>1
<1>2. ASSUME NEW w \in Writer, AppendsOne(w)
      PROVE  /\ KnownUids(replay(log)) \subseteq KnownUids(replay(log'))
             /\ \A k \in 1 .. Len(log) : k \in 1 .. Len(log') /\ log'[k] = log[k]
  <2>1. Pending(w) \in Record /\ log \in Seq(Record) /\ log' = Append(log, Pending(w))
    BY <1>2, PendingType DEF AppendsOne, Pushing, TypeInv, TypeOK
  <2>2. KnownUids(replay(log)) \subseteq KnownUids(replay(log'))
    BY <2>1, KnownGrows
  <2>3. QED  BY <2>1, <2>2, AppendProperties
<1>3. QED  BY <1>1, <1>2, LogStep

(* A step of another writer, or one after which the writer is where it was. *)
Undisturbed(u) ==
    /\ pc'[u] = pc[u] /\ asked'[u] = asked[u] /\ left'[u] = left[u] /\ seen'[u] = seen[u]

LEMMA OthersUndisturbed ==
  ASSUME TypeInv, [Next]_vars, NEW u \in Writer
  PROVE  \/ Undisturbed(u)
         \/ \E contribution \in Contributions : Propose(u, contribution)
         \/ ReturnHead(u) \/ PushRead(u) \/ ReadFails(u)
         \/ PushAppend(u) \/ Rewrites(u) \/ PushEdges(u)
         \/ pc'[u] = "crashed"
         \/ Restart(u)
<1> USE DEF TypeInv, TypeOK
<1>1. CASE UNCHANGED vars
  BY <1>1 DEF vars, Undisturbed
<1>2. ASSUME NEW w \in Writer, w # u, NEW contribution \in Contributions,
             Propose(w, contribution)
      PROVE  Undisturbed(u)
  BY <1>2 DEF Propose, Undisturbed
<1>3. ASSUME NEW w \in Writer, w # u,
             ReturnHead(w) \/ ReadFails(w) \/ PushEdges(w) \/ Restart(w)
      PROVE  Undisturbed(u)
  BY <1>3 DEF ReturnHead, ReadFails, PushEdges, Restart, Finish, Advance, Undisturbed
<1>4. ASSUME NEW w \in Writer, w # u, PushRead(w) \/ PushAppend(w) \/ Rewrites(w)
      PROVE  Undisturbed(u)
  BY <1>4 DEF PushRead, PushAppend, Rewrites, OpenNodes, PushNodes, OpenEdges, locals, Undisturbed
<1>5. ASSUME NEW w \in Writer, w # u,
             CrashBetween(w) \/ CrashInAppend(w) \/ CrashInMaterialize(w)
      PROVE  Undisturbed(u)
  BY <1>5 DEF CrashBetween, CrashInAppend, CrashInMaterialize, Die, Advance, Undisturbed
<1>6. ASSUME CrashBetween(u) \/ CrashInAppend(u) \/ CrashInMaterialize(u)
      PROVE  pc'[u] = "crashed"
  BY <1>6 DEF CrashBetween, CrashInAppend, CrashInMaterialize, Die
<1>7. QED  BY <1>1, <1>2, <1>3, <1>4, <1>5, <1>6 DEF Next, Rewrites

LEMMA ReturnInvStep ==
  ASSUME LandInv, ReturnInv, [Next]_vars
  PROVE  ReturnInv'
<1> SUFFICES ASSUME NEW u \in Writer, Readable', pc'[u] # "crashed"
             PROVE  HeldInLog(u)' /\ HeldInSeen(u)' /\ Placed(u)'
  BY DEF ReturnInv, HeldInLog, HeldInSeen, Placed
<1>0. /\ TypeInv /\ Readable /\ HeldInLog(u) /\ HeldInSeen(u) /\ Placed(u)
      /\ KnownUids(replay(log)) \subseteq KnownUids(replay(log'))
      /\ \A k \in 1 .. Len(log) : k \in 1 .. Len(log') /\ log'[k] = log[k]
  BY StaysReadable, LogGrows DEF ReturnInv, LandInv
<1>2. CASE Undisturbed(u)
  <2>1. Unlanded'[u] = Unlanded[u]
    BY <1>0, <1>2 DEF Unlanded, Undisturbed
  <2>2. HeldInLog(u)'
    BY <1>0, <1>2, <2>1 DEF HeldInLog, HeldIn, Holds, Undisturbed
  <2>3. HeldInSeen(u)'
    BY <1>0, <1>2 DEF HeldInSeen, HeldIn, Holds, Undisturbed
  <2>4. Pending(u)' = Pending(u)
    BY <1>2 DEF Pending, Undisturbed
  <2>5. Placed(u)'
    BY <1>0, <1>2, <2>4 DEF Placed, Undisturbed
  <2>6. QED  BY <2>2, <2>3, <2>5
<1>3. ASSUME NEW c \in Contributions, Propose(u, c)
      PROVE  HeldInLog(u)' /\ HeldInSeen(u)' /\ Placed(u)'
  <2>1. /\ asked'[u] = c /\ pc'[u] \in {"head", "read"} /\ log' = log
        /\ left'[u] = DOMAIN c \ no_op_indices(c, replay(log))
    BY <1>0, <1>3 DEF Propose, TypeInv, TypeOK
  <2>2. Unlanded'[u] = left'[u]
    BY <2>1 DEF Unlanded
  <2>3. \A i \in DOMAIN c \ Unlanded'[u] : Holds(replay(log), c[i])
    BY <2>1, <2>2 DEF no_op_indices, NoOp, Holds, KnownUids
  <2>4. HeldInLog(u)'
    BY <2>1, <2>3 DEF HeldInLog, HeldIn, Holds
  <2>5. QED  BY <2>1, <2>4 DEF HeldInSeen, Placed
<1>4. CASE ReturnHead(u) \/ ReadFails(u) \/ Restart(u)
  <2>1. asked'[u] = << >> /\ pc'[u] = "idle"
    BY <1>0, <1>4 DEF ReturnHead, ReadFails, Restart, Finish, TypeInv, TypeOK
  <2>2. QED  BY <2>1 DEF HeldInLog, HeldInSeen, Placed, HeldIn
<1>5. CASE PushRead(u)
  <2>1. /\ pc[u] = "read" /\ pc'[u] = "append" /\ seen'[u] = log /\ log' = log
        /\ asked'[u] = asked[u] /\ left'[u] = left[u]
    BY <1>0, <1>5 DEF PushRead, locals, TypeInv, TypeOK
  <2>2. Unlanded[u] = left[u] /\ Unlanded'[u] = left[u]
    BY <1>0, <2>1 DEF Unlanded
  <2>3. HeldInLog(u)' /\ HeldInSeen(u)'
    BY <1>0, <2>1, <2>2 DEF HeldInLog, HeldInSeen, HeldIn, Holds
  <2>4. QED  BY <2>1, <2>3 DEF Placed
<1>6. CASE PushAppend(u)
  <2> DEFINE i == Least(left[u])
  <2>1. /\ pc[u] = "append" /\ pc'[u] = "nodes" /\ seen'[u] = seen[u]
        /\ asked'[u] = asked[u] /\ left'[u] = left[u] /\ log' = Append(log, Pending(u))
    BY <1>0, <1>6 DEF PushAppend, AppendLine, locals, TypeInv, TypeOK, Readable
  <2>2. Unlanded[u] = left[u] /\ Unlanded'[u] = left[u] \ {i}
    BY <1>0, <2>1 DEF Unlanded
  <2>3. log \in Seq(Record) /\ Pending(u) \in Record /\ Pending(u).change = asked[u][i]
    BY <1>0, <2>1, PendingType DEF Pushing, TypeInv, TypeOK
  <2>4. IsAdd(asked[u][i]) => Holds(replay(log'), asked[u][i])
    BY <2>1, <2>3, KnownGrows
  <2>5. ASSUME NEW j \in DOMAIN asked[u] \ (left[u] \ {i}), IsAdd(asked[u][j])
        PROVE  Holds(replay(log'), asked[u][j])
    <3>1. CASE j = i
      BY <2>4, <2>5, <3>1
    <3>2. CASE j \notin left[u]
      BY <1>0, <2>1, <2>2, <2>5, <3>2 DEF HeldInLog, HeldIn, Holds
    <3>3. QED  BY <2>5, <3>1, <3>2
  <2>6. HeldInLog(u)'
    BY <2>1, <2>2, <2>5 DEF HeldInLog, HeldIn, Holds
  <2>7. HeldInSeen(u)'
    BY <1>0, <2>1 DEF HeldInSeen, HeldIn, Holds
  <2>8. Pending(u)' = Pending(u)
    BY <2>1 DEF Pending
  <2>9. Len(log') \in 1 .. Len(log') /\ log'[Len(log')] = Pending(u)
    BY <2>1, <2>3, AppendProperties
  <2>10. QED  BY <2>6, <2>7, <2>8, <2>9 DEF Placed
<1>7. CASE Rewrites(u)
  <2>1. /\ pc[u] \in Materializing /\ pc'[u] \in Materializing /\ seen'[u] = seen[u] /\ log' = log
        /\ asked'[u] = asked[u] /\ left'[u] = left[u]
    BY <1>0, <1>7 DEF Rewrites, OpenNodes, PushNodes, OpenEdges, locals, TypeInv, TypeOK
  <2>2. Unlanded'[u] = Unlanded[u] /\ Pending(u)' = Pending(u)
    BY <1>0, <2>1 DEF Unlanded, Pending
  <2>3. HeldInLog(u)'
    BY <1>0, <2>1, <2>2 DEF HeldInLog, HeldIn, Holds
  <2>4. HeldInSeen(u)'
    BY <1>0, <2>1 DEF HeldInSeen, HeldIn, Holds
  <2>5. Placed(u)'
    BY <1>0, <2>1, <2>2 DEF Placed
  <2>6. QED  BY <2>3, <2>4, <2>5
<1>8. CASE PushEdges(u)
  <2>1. CASE left[u] = {Least(left[u])}
    <3>1. asked'[u] = << >> /\ pc'[u] = "idle"
      BY <1>0, <1>8, <2>1 DEF PushEdges, Finish, TypeInv, TypeOK
    <3>2. QED  BY <3>1 DEF HeldInLog, HeldInSeen, Placed, HeldIn
  <2>2. CASE left[u] # {Least(left[u])}
    <3>1. /\ pc[u] = "edgesOpen" /\ pc'[u] = "read" /\ log' = log
          /\ asked'[u] = asked[u] /\ left'[u] = left[u] \ {Least(left[u])}
      BY <1>0, <1>8, <2>2 DEF PushEdges, Advance, TypeInv, TypeOK
    <3>2. Unlanded'[u] = Unlanded[u]
      BY <1>0, <3>1 DEF Unlanded
    <3>3. HeldInLog(u)'
      BY <1>0, <3>1, <3>2 DEF HeldInLog, HeldIn, Holds
    <3>4. QED  BY <3>1, <3>3 DEF HeldInSeen, Placed
  <2>3. QED  BY <2>1, <2>2
<1>9. QED  BY <1>0, <1>2, <1>3, <1>4, <1>5, <1>6, <1>7, <1>8, OthersUndisturbed

(* On a chain, a record that is a line comes right after the copy it was    *)
(* made from, and its version is on no other line.                          *)
LEMMA PlacedReads ==
  ASSUME LogInv, Linked(log), NEW w \in Writer, pc[w] \in Pushing,
         NEW k \in 1 .. Len(log), log[k] = Pending(w)
  PROVE  read(log, head(Seen(w))) = replay(Seen(w))
<1> DEFINE m == Len(seen[w])
<1>1. /\ log \in Seq(Record) /\ seen[w] \in Seq(Record) /\ m \in Nat /\ m <= Len(log)
      /\ \A i \in 1 .. m : seen[w][i] = log[i]
      /\ Pending(w) \in Record /\ asked[w][Least(left[w])] \in Change
  BY PendingType DEF LogInv, TypeInv, TypeOK, SeenIsPrefix
<1>2. \A i \in 1 .. Len(log) : Len(log[i].version) = i
  BY <1>1, LinkedDepth, RootedRecomputes DEF LogInv
<1>3. Pending(w).prev = head(seen[w])
  BY <1>1, NextRecordType DEF Pending
<1>4. Len(head(seen[w])) = m /\ head(seen[w]) \in Version
  <2>1. CASE seen[w] = << >>
    BY <1>1, <2>1 DEF head, GENESIS_PREV, Version
  <2>2. CASE seen[w] # << >>
    <3>1. m \in 1 .. m /\ head(seen[w]) = log[m].version /\ m \in 1 .. Len(log)
      BY <1>1, <2>2 DEF head
    <3>2. log[m] \in Record
      BY <1>1, <3>1
    <3>3. QED  BY <1>2, <3>1, <3>2 DEF Record
  <2>3. QED  BY <2>1, <2>2
<1>5. Len(Pending(w).version) = m + 1
  <2>1. Len(log[k].version) = Len(log[k].prev) + 1
    BY <1>1, RecomputedDepth, RootedRecomputes DEF LogInv
  <2>2. QED  BY <1>3, <1>4, <2>1
<1>6. k = m + 1
  BY <1>2, <1>5
<1>7. SubSeq(log, 1, k) = Seen(w)
  <2>1. /\ SubSeq(log, 1, k) \in Seq(Record) /\ Len(SubSeq(log, 1, k)) = k
        /\ \A i \in 1 .. k : SubSeq(log, 1, k)[i] = log[i]
    BY <1>1
  <2>2. /\ Seen(w) \in Seq(Record) /\ Len(Seen(w)) = m + 1 /\ Seen(w)[m + 1] = Pending(w)
        /\ \A i \in 1 .. m : Seen(w)[i] = seen[w][i]
    BY <1>1, AppendProperties DEF Seen
  <2>3. \A i \in 1 .. k : SubSeq(log, 1, k)[i] = Seen(w)[i]
    BY <1>1, <1>6, <2>1, <2>2
  <2>4. QED  BY <1>6, <2>1, <2>2, <2>3, SeqEqual
<1>8. head(Seen(w)) = log[k].version
  BY <1>1, AppendProperties DEF Seen, head
<1>9. Positions(log, log[k].version) = {k}
  BY <1>2 DEF Positions
<1>10. FirstPosition(log, log[k].version) = k
  BY <1>9 DEF FirstPosition
<1>11. QED  BY <1>7, <1>8, <1>10 DEF read

(* The version that a proposal returns reads, as long as there is no fork,  *)
(* as a map that holds all the contribution adds.                           *)
THEOREM ReturnedVersionsHold ==
  ASSUME GenesisLog # << >>
  PROVE  Spec => ReturnedVersionHoldsContribution
<1> DEFINE Inv == LogInv /\ LandInv /\ ReturnInv /\ log # << >>
           Returning(w) == /\ pc[w] \in {"head", "edgesOpen"} /\ pc'[w] = "idle"
                           /\ tail' # "torn" /\ Linked(log)
           version(w) == IF pc[w] = "head" THEN head(log) ELSE head(Seen(w))
           AllHeld(w) == \A i \in DOMAIN asked[w] :
                 IsAdd(asked[w][i]) => Holds(read(log, version(w)), asked[w][i])
<1>1. Init => Inv
  <2> SUFFICES ASSUME Init PROVE Inv
    OBVIOUS
  <2>1. \A w \in Writer : asked[w] = << >> /\ pc[w] = "idle"
    BY DEF Init
  <2>2. ReturnInv
    BY <2>1 DEF ReturnInv, HeldInLog, HeldInSeen, Placed, HeldIn
  <2>3. QED  BY <2>2, LogInvInit, LandInvInit DEF Init
<1>2. Inv /\ [Next]_vars => Inv'
  <2> SUFFICES ASSUME Inv, [Next]_vars PROVE Inv'
    OBVIOUS
  <2>1. LogInv' /\ LandInv' /\ ReturnInv'
    BY LogInvStep, LandInvStep, ReturnInvStep
  <2>2. ASSUME NEW w \in Writer, AppendsOne(w) PROVE log' # << >>
    BY <2>2, AppendedRecord
  <2>3. QED  BY <2>1, <2>2, LogStep
<1>3. ASSUME Inv, [Next]_vars, NEW w \in Writer, Returning(w)
      PROVE  AllHeld(w)
  <2>1. /\ Readable /\ HeldInLog(w) /\ HeldInSeen(w) /\ Placed(w)
        /\ TypeInv /\ log \in Seq(Record) /\ seen[w] \in Seq(Record)
    BY <1>3, StaysReadable DEF ReturnInv, LogInv, TypeInv, TypeOK, Readable
  <2>2. CASE pc[w] = "head"
    <3>1. Unlanded[w] = {}
      BY <1>3, <2>1, <2>2 DEF Unlanded, LandInv, IdleHasNone
    <3>2. read(log, version(w)) = replay(log)
      BY <1>3, <2>1, <2>2, RootedRecomputes, LinkedHeadReads DEF LogInv
    <3>3. QED  BY <2>1, <2>2, <3>1, <3>2 DEF HeldInLog, HeldIn
  <2>3. CASE pc[w] = "edgesOpen"
    <3>1. left[w] = {Least(left[w])}
      <4>1. PushEdges(w) \/ Undisturbed(w) \/ pc'[w] = "crashed"
        BY <1>3, <2>1, <2>3, OthersUndisturbed
           DEF Propose, ReturnHead, PushRead, ReadFails, PushAppend, Restart,
               Rewrites, OpenNodes, PushNodes, OpenEdges
      <4>2. PushEdges(w)
        BY <1>3, <2>3, <4>1 DEF Undisturbed
      <4>3. QED  BY <1>3, <2>1, <4>2 DEF PushEdges, TypeInv, TypeOK
    <3> DEFINE c == asked[w][Least(left[w])]
    <3>2. Pending(w) \in Record /\ Pending(w).change = c
      BY <2>1, <2>3, PendingType DEF Pushing
    <3>3. /\ KnownUids(replay(seen[w])) \subseteq KnownUids(replay(Seen(w)))
          /\ IsAdd(c) => Holds(replay(Seen(w)), c)
      BY <2>1, <3>2, KnownGrows DEF Seen
    <3>4. read(log, version(w)) = replay(Seen(w))
      <4>1. PICK k \in 1 .. Len(log) : log[k] = Pending(w)
        BY <2>1, <2>3 DEF Placed
      <4>2. QED  BY <1>3, <2>3, <4>1, PlacedReads DEF Pushing
    <3>5. ASSUME NEW i \in DOMAIN asked[w], IsAdd(asked[w][i])
          PROVE  Holds(replay(Seen(w)), asked[w][i])
      <4>1. CASE i = Least(left[w])
        BY <3>3, <3>5, <4>1
      <4>2. CASE i \notin left[w]
        BY <2>1, <2>3, <3>3, <3>5, <4>2 DEF HeldInSeen, HeldIn, Holds
      <4>3. QED  BY <3>1, <4>1, <4>2
    <3>6. QED  BY <3>4, <3>5
  <2>4. QED  BY <1>3, <2>2, <2>3
<1>4. Inv /\ [Next]_vars =>
        [\A w \in Writer :
          (/\ pc[w] \in {"head", "edgesOpen"} /\ pc'[w] = "idle" /\ tail' # "torn"
           /\ Linked(log))
          => LET returned == IF pc[w] = "head" THEN head(log) ELSE head(Seen(w))
             IN \A i \in DOMAIN asked[w] :
                    IsAdd(asked[w][i]) => Holds(read(log, returned), asked[w][i])]_vars
  BY <1>3
<1>5. QED  BY <1>1, <1>2, <1>4, PTL DEF Spec, ReturnedVersionHoldsContribution
-----------------------------------------------------------------------------
(* What replay computes, for any log: the induction over the log is a least *)
(* prefix for which it fails.                                               *)

SinceIn(recs, u) ==
    {i \in 1 .. Len(recs) :
        /\ u \in recs[i].change.uids
        /\ \A j \in i + 1 .. Len(recs) : ~ (IsAdd(recs[j].change) /\ u \in recs[j].change.uids)}

OfOp(recs, u, op) == {i \in SinceIn(recs, u) : recs[i].change.op = op}
Last(S) == CHOOSE i \in S : \A j \in S : j <= i
LatestIn(recs, u, op, field, default) ==
    IF OfOp(recs, u, op) = {} THEN default ELSE recs[Last(OfOp(recs, u, op))].change[field]

LatestMeta(recs, u) == LatestIn(recs, u, "edit_meta", "meta",
                           LatestIn(recs, u, "add_node", "meta", CHOOSE m \in Meta : TRUE))
LatestEntry(recs, u) ==
    [meta |-> LatestMeta(recs, u),
     deprecated |-> \E i \in SinceIn(recs, u) : recs[i].change.op = "deprecate",
     superseded_by |-> LatestIn(recs, u, "supersede", "new", {}),
     equivalent_to |-> LatestIn(recs, u, "equate", "uids", {})]

Added(recs) == {n \in Node : \E i \in 1 .. Len(recs) :
                    recs[i].change.op = "add_node" /\ n \in recs[i].change.uids}

MeansLatest(recs) ==
    /\ DOMAIN replay(recs).nodes = Added(recs)
    /\ DOMAIN replay(recs).edges \subseteq Edge
    /\ \A n \in DOMAIN replay(recs).nodes : replay(recs).nodes[n] = LatestEntry(recs, n)

LEMMA LastIsIn ==
  ASSUME NEW n \in Nat, NEW S, S \subseteq 1 .. n, S # {}
  PROVE  Last(S) \in S /\ \A j \in S : j <= Last(S)
<1> DEFINE T == {n - i : i \in S}
<1>1. T \subseteq Nat /\ T # {}
  <2>1. \A i \in S : n - i \in Nat
    OBVIOUS
  <2>2. QED  BY <2>1
<1>2. PICK x \in T : \A y \in T : x <= y
  <2> HIDE DEF T
  <2>1. QED  BY <1>1, LeastNumber, Zenon
<1>3. PICK i \in S : x = n - i
  BY <1>2
<1>4. \A j \in S : j <= i
  <2> SUFFICES ASSUME NEW j \in S PROVE j <= i
    OBVIOUS
  <2>1. x <= n - j
    BY <1>2
  <2>2. QED  BY <1>3, <2>1
<1>5. QED  BY <1>4 DEF Last

(* One more record: what it changes of the records since the last addition. *)
LEMMA OneMore ==
  ASSUME NEW recs \in Seq(Record), NEW r \in Record
  PROVE  LET R == Append(recs, r) IN
         /\ R \in Seq(Record) /\ Len(recs) \in Nat /\ Len(R) = Len(recs) + 1
         /\ R[Len(recs) + 1] = r /\ \A i \in 1 .. Len(recs) : R[i] = recs[i]
BY AppendProperties

LEMMA SinceAppend ==
  ASSUME NEW recs \in Seq(Record), NEW r \in Record, NEW u
  PROVE  SinceIn(Append(recs, r), u) =
            IF u \notin r.change.uids THEN SinceIn(recs, u)
            ELSE IF IsAdd(r.change) THEN {Len(recs) + 1}
            ELSE SinceIn(recs, u) \cup {Len(recs) + 1}
<1> DEFINE R == Append(recs, r)
           L == Len(recs)
           Later(S, i) == \E j \in i + 1 .. Len(S) : IsAdd(S[j].change) /\ u \in S[j].change.uids
<1>1. /\ L \in Nat /\ Len(R) = L + 1
      /\ R[L + 1] = r /\ \A i \in 1 .. L : R[i] = recs[i]
  BY OneMore
<1>2. /\ SinceIn(R, u) = {i \in 1 .. L + 1 : u \in R[i].change.uids /\ ~ Later(R, i)}
      /\ SinceIn(recs, u) = {i \in 1 .. L : u \in recs[i].change.uids /\ ~ Later(recs, i)}
  BY <1>1 DEF SinceIn
<1>3. ASSUME NEW i \in 1 .. L
      PROVE  Later(R, i) <=> Later(recs, i) \/ (IsAdd(r.change) /\ u \in r.change.uids)
  BY <1>1
<1>4. ~ Later(R, L + 1)
  BY <1>1
<1> HIDE DEF R, L, Later
<1>5. SinceIn(R, u) = IF u \notin r.change.uids THEN SinceIn(recs, u)
                      ELSE IF IsAdd(r.change) THEN {L + 1} ELSE SinceIn(recs, u) \cup {L + 1}
  <2>1. CASE u \notin r.change.uids
    BY <1>1, <1>2, <1>3, <2>1
  <2>2. CASE u \in r.change.uids /\ IsAdd(r.change)
    BY <1>1, <1>2, <1>3, <1>4, <2>2
  <2>3. CASE u \in r.change.uids /\ ~ IsAdd(r.change)
    BY <1>1, <1>2, <1>3, <1>4, <2>3
  <2>4. QED  BY <2>1, <2>2, <2>3
<1>6. QED  BY <1>5 DEF R, L

LEMMA OfOpAppend ==
  ASSUME NEW recs \in Seq(Record), NEW r \in Record, NEW u, NEW op
  PROVE  OfOp(Append(recs, r), u, op) =
            IF u \notin r.change.uids THEN OfOp(recs, u, op)
            ELSE (IF IsAdd(r.change) THEN {} ELSE OfOp(recs, u, op))
                 \cup (IF r.change.op = op THEN {Len(recs) + 1} ELSE {})
<1> DEFINE R == Append(recs, r)
           L == Len(recs)
<1>1. L \in Nat /\ R[L + 1] = r /\ \A i \in 1 .. L : R[i] = recs[i]
  BY OneMore
<1>2. SinceIn(R, u) = IF u \notin r.change.uids THEN SinceIn(recs, u)
                      ELSE IF IsAdd(r.change) THEN {L + 1} ELSE SinceIn(recs, u) \cup {L + 1}
  BY SinceAppend
<1>3. SinceIn(recs, u) \subseteq 1 .. L
  BY DEF SinceIn
<1> HIDE DEF R, L
<1>4. OfOp(R, u, op) = IF u \notin r.change.uids THEN OfOp(recs, u, op)
            ELSE (IF IsAdd(r.change) THEN {} ELSE OfOp(recs, u, op))
                 \cup (IF r.change.op = op THEN {L + 1} ELSE {})
  <2>1. \A i \in SinceIn(recs, u) : R[i] = recs[i]
    BY <1>1, <1>3
  <2>2. CASE u \notin r.change.uids
    BY <1>2, <2>1, <2>2 DEF OfOp
  <2>3. CASE u \in r.change.uids /\ IsAdd(r.change)
    BY <1>1, <1>2, <2>3 DEF OfOp
  <2>4. CASE u \in r.change.uids /\ ~ IsAdd(r.change)
    BY <1>1, <1>2, <2>1, <2>4 DEF OfOp
  <2>5. QED  BY <2>2, <2>3, <2>4
<1>5. QED  BY <1>4 DEF R, L

(* A field keeps its latest value, gets the new one, or is reset. *)
LEMMA LatestAppend ==
  ASSUME NEW recs \in Seq(Record), NEW r \in Record, NEW u, NEW op, NEW field, NEW default
  PROVE  LET c == r.change
             new == LatestIn(Append(recs, r), u, op, field, default)
         IN /\ u \notin c.uids \/ (c.op # op /\ ~ IsAdd(c)) =>
                   new = LatestIn(recs, u, op, field, default)
            /\ u \in c.uids /\ c.op = op => new = c[field]
            /\ u \in c.uids /\ c.op # op /\ IsAdd(c) => new = default
<1> DEFINE R == Append(recs, r)
           L == Len(recs)
           c == r.change
           old == OfOp(recs, u, op)
<1>1. L \in Nat /\ R[L + 1] = r /\ \A i \in 1 .. L : R[i] = recs[i]
  BY OneMore
<1>2. OfOp(R, u, op) = IF u \notin c.uids THEN old
            ELSE (IF IsAdd(c) THEN {} ELSE old) \cup (IF c.op = op THEN {L + 1} ELSE {})
  BY OfOpAppend
<1>3. old \subseteq 1 .. L
  BY DEF OfOp, SinceIn
<1>4. old # {} => Last(old) \in 1 .. L
  BY <1>1, <1>3, LastIsIn
<1> HIDE DEF R, L, c, old
<1>5. ASSUME u \notin c.uids \/ (c.op # op /\ ~ IsAdd(c))
      PROVE  LatestIn(R, u, op, field, default) = LatestIn(recs, u, op, field, default)
  <2>1. OfOp(R, u, op) = old
    BY <1>2, <1>5
  <2>2. CASE old = {}
    BY <2>1, <2>2 DEF LatestIn, old
  <2>3. CASE old # {}
    <3>1. R[Last(old)] = recs[Last(old)]
      BY <1>1, <1>4, <2>3
    <3>2. QED  BY <2>1, <2>3, <3>1 DEF LatestIn, old
  <2>4. QED  BY <2>2, <2>3
<1>6. ASSUME u \in c.uids, c.op = op
      PROVE  LatestIn(R, u, op, field, default) = c[field]
  <2>1. /\ L + 1 \in OfOp(R, u, op) /\ OfOp(R, u, op) \subseteq 1 .. L + 1
    BY <1>1, <1>2, <1>3, <1>6
  <2>2. Last(OfOp(R, u, op)) = L + 1
    <3>1. /\ Last(OfOp(R, u, op)) \in OfOp(R, u, op)
          /\ \A j \in OfOp(R, u, op) : j <= Last(OfOp(R, u, op))
      <4>1. L + 1 \in Nat /\ OfOp(R, u, op) # {}
        BY <1>1, <2>1
      <4>2. QED  BY <2>1, <4>1, LastIsIn
    <3>2. QED  BY <1>1, <2>1, <3>1
  <2>3. QED  BY <1>1, <2>1, <2>2 DEF LatestIn, c
<1>7. ASSUME u \in c.uids, c.op # op, IsAdd(c)
      PROVE  LatestIn(R, u, op, field, default) = default
  BY <1>2, <1>7 DEF LatestIn
<1>8. QED  BY <1>5, <1>6, <1>7 DEF R, c

LEMMA EntryAppend ==
  ASSUME NEW recs \in Seq(Record), NEW r \in Record, NEW u
  PROVE  LET c == r.change
             new == LatestEntry(Append(recs, r), u)
         IN /\ u \notin c.uids => new = LatestEntry(recs, u)
            /\ u \in c.uids /\ c.op = "add_node" => new = Fresh(c)
            /\ u \in c.uids /\ ~ IsAdd(c) => new = Mutate(LatestEntry(recs, u), c)
<1> DEFINE R == Append(recs, r)
           c == r.change
           first == CHOOSE m \in Meta : TRUE
           Retired(S) == \E i \in SinceIn(S, u) : S[i].change.op = "deprecate"
<1>1. c \in Change
  BY DEF Record
<1>2. \A op, field, default :
        LET new == LatestIn(R, u, op, field, default)
        IN /\ u \notin c.uids \/ (c.op # op /\ ~ IsAdd(c)) =>
                  new = LatestIn(recs, u, op, field, default)
           /\ u \in c.uids /\ c.op = op => new = c[field]
           /\ u \in c.uids /\ c.op # op /\ IsAdd(c) => new = default
  BY LatestAppend
<1>3. Retired(R) <=> \/ c.op = "deprecate" /\ u \in c.uids
                     \/ Retired(recs) /\ ~ (u \in c.uids /\ IsAdd(c))
  <2>1. OfOp(R, u, "deprecate") =
            IF u \notin c.uids THEN OfOp(recs, u, "deprecate")
            ELSE (IF IsAdd(c) THEN {} ELSE OfOp(recs, u, "deprecate"))
                 \cup (IF c.op = "deprecate" THEN {Len(recs) + 1} ELSE {})
    BY OfOpAppend
  <2>2. \A S : Retired(S) <=> OfOp(S, u, "deprecate") # {}
    BY DEF OfOp
  <2> HIDE DEF R, c, Retired
  <2>3. c.op = "deprecate" => ~ IsAdd(c)
    BY DEF IsAdd
  <2>4. QED  BY <2>1, <2>2, <2>3
<1>4. \A S : LatestEntry(S, u) =
        [meta |-> LatestIn(S, u, "edit_meta", "meta", LatestIn(S, u, "add_node", "meta", first)),
         deprecated |-> Retired(S),
         superseded_by |-> LatestIn(S, u, "supersede", "new", {}),
         equivalent_to |-> LatestIn(S, u, "equate", "uids", {})]
  BY DEF LatestEntry, LatestMeta
<1>5. Retired(recs) \in BOOLEAN
  OBVIOUS
<1> HIDE DEF R, c, first, Retired
<1>6. ASSUME u \notin c.uids
      PROVE  LatestEntry(R, u) = LatestEntry(recs, u)
  <2>1. Retired(R) = Retired(recs)
    BY <1>3, <1>6 DEF Retired
  <2>2. \A op, field, default : LatestIn(R, u, op, field, default) = LatestIn(recs, u, op, field, default)
    BY <1>2, <1>6
  <2>3. QED  BY <1>4, <2>1, <2>2
<1>7. ASSUME u \in c.uids, c.op = "add_node"
      PROVE  LatestEntry(R, u) = Fresh(c)
  <2>1. /\ LatestIn(R, u, "add_node", "meta", first) = c["meta"]
        /\ \A default : /\ LatestIn(R, u, "edit_meta", "meta", default) = default
                        /\ LatestIn(R, u, "supersede", "new", default) = default
                        /\ LatestIn(R, u, "equate", "uids", default) = default
    BY <1>2, <1>7 DEF IsAdd
  <2>2. Retired(R) = FALSE
    BY <1>3, <1>7 DEF IsAdd, Retired
  <2>3. QED  BY <1>4, <2>1, <2>2 DEF Fresh
<1>8. ASSUME u \in c.uids, ~ IsAdd(c)
      PROVE  LatestEntry(R, u) = Mutate(LatestEntry(recs, u), c)
  <2>1. c.op \in {"edit_meta", "deprecate", "supersede", "equate"}
    BY <1>1, <1>8 DEF Change, CHANGE_OPS, IsAdd
  <2>2. LatestIn(R, u, "add_node", "meta", first) = LatestIn(recs, u, "add_node", "meta", first)
    BY <1>2, <1>8, <2>1
  <2> DEFINE added == LatestIn(recs, u, "add_node", "meta", first)
             meta(S) == LatestIn(S, u, "edit_meta", "meta", added)
             superseded(S) == LatestIn(S, u, "supersede", "new", {})
             equated(S) == LatestIn(S, u, "equate", "uids", {})
  <2>3. /\ meta(R) = IF c.op = "edit_meta" THEN c["meta"] ELSE meta(recs)
        /\ superseded(R) = IF c.op = "supersede" THEN c["new"] ELSE superseded(recs)
        /\ equated(R) = IF c.op = "equate" THEN c["uids"] ELSE equated(recs)
    BY <1>2, <1>8, <2>1
  <2>4. Retired(R) = (c.op = "deprecate" \/ Retired(recs))
    BY <1>3, <1>8 DEF Retired
  <2>5. /\ LatestEntry(R, u) = [meta |-> meta(R), deprecated |-> Retired(R),
                                superseded_by |-> superseded(R), equivalent_to |-> equated(R)]
        /\ LatestEntry(recs, u) = [meta |-> meta(recs), deprecated |-> Retired(recs),
                                superseded_by |-> superseded(recs), equivalent_to |-> equated(recs)]
    BY <1>4, <2>2
  <2> HIDE DEF added, meta, superseded, equated
  <2>6. CASE c.op = "edit_meta"
    BY <1>5, <2>3, <2>4, <2>5, <2>6 DEF Mutate
  <2>7. CASE c.op = "deprecate"
    <3>1. Retired(R) = TRUE
      BY <2>4, <2>7
    <3>2. /\ meta(R) = meta(recs) /\ superseded(R) = superseded(recs)
          /\ equated(R) = equated(recs)
      BY <2>3, <2>7
    <3>3. LatestEntry(R, u) = [meta |-> meta(recs), deprecated |-> TRUE,
                               superseded_by |-> superseded(recs),
                               equivalent_to |-> equated(recs)]
      BY <2>5, <3>1, <3>2, Zenon
    <3> DEFINE m == meta(recs)
               d == Retired(recs)
               s == superseded(recs)
               e == equated(recs)
               old == LatestEntry(recs, u)
    <3>4. old = [meta |-> m, deprecated |-> d, superseded_by |-> s, equivalent_to |-> e]
      BY <2>5, Zenon
    <3> DEFINE yes == TRUE
    <3>5. LatestEntry(R, u) = [meta |-> m, deprecated |-> yes, superseded_by |-> s, equivalent_to |-> e]
      BY <3>3, Zenon
    <3> HIDE DEF m, d, s, e, old
    <3>6. Mutate(old, c) = [old EXCEPT !.deprecated = yes]
      BY <2>7 DEF Mutate
    <3> HIDE DEF yes
    <3>7. [old EXCEPT !.deprecated = yes]
             = [meta |-> m, deprecated |-> yes, superseded_by |-> s, equivalent_to |-> e]
      BY <3>4
    <3>8. QED  BY <3>5, <3>6, <3>7, Zenon DEF old
  <2>8. CASE c.op = "supersede"
    BY <1>5, <2>3, <2>4, <2>5, <2>8 DEF Mutate
  <2>9. CASE c.op = "equate"
    <3>1. /\ equated(R) = c.uids /\ Retired(R) = Retired(recs)
          /\ meta(R) = meta(recs) /\ superseded(R) = superseded(recs)
      BY <1>5, <2>3, <2>4, <2>9
    <3>2. Mutate(LatestEntry(recs, u), c) = [LatestEntry(recs, u) EXCEPT !.equivalent_to = c.uids]
      BY <2>9 DEF Mutate
    <3>3. QED  BY <2>5, <3>1, <3>2
  <2>10. QED  BY <2>1, <2>6, <2>7, <2>8, <2>9
<1>9. QED  BY <1>6, <1>7, <1>8 DEF R, c

(* The view after one more record of its kind. *)
LEMMA MeansLatestAppend ==
  ASSUME NEW recs \in Seq(Record), NEW r \in Record, OfItsKind(r.change),
         IsView(replay(recs)), MeansLatest(recs)
  PROVE  MeansLatest(Append(recs, r))
<1> DEFINE R == Append(recs, r)
           c == r.change
           old == replay(recs)
           new == replay(R)
<1>1. new = Apply(old, c)
  BY ReplayAppend
<1>2. /\ \A n : n \notin c.uids => LatestEntry(R, n) = LatestEntry(recs, n)
      /\ \A n \in c.uids : c.op = "add_node" => LatestEntry(R, n) = Fresh(c)
      /\ \A n \in c.uids : ~ IsAdd(c) => LatestEntry(R, n) = Mutate(LatestEntry(recs, n), c)
  BY EntryAppend
<1>3. Added(R) = Added(recs) \cup (IF c.op = "add_node" THEN c.uids ELSE {})
  <2>1. /\ Len(recs) \in Nat /\ Len(R) = Len(recs) + 1
        /\ R[Len(recs) + 1] = r /\ \A i \in 1 .. Len(recs) : R[i] = recs[i]
    BY OneMore
  <2>2. c.op = "add_node" => c.uids \subseteq Node
    BY DEF OfItsKind
  <2> HIDE DEF R
  <2>3. \A n : (\E i \in 1 .. Len(R) : R[i].change.op = "add_node" /\ n \in R[i].change.uids)
               <=> \/ \E i \in 1 .. Len(recs) : recs[i].change.op = "add_node" /\ n \in recs[i].change.uids
                   \/ c.op = "add_node" /\ n \in c.uids
    BY <2>1
  <2> HIDE DEF c
  <2>4. QED  BY <2>2, <2>3 DEF Added
<1>4. /\ DOMAIN old.nodes = Added(recs) /\ DOMAIN old.edges \subseteq Edge
      /\ \A n \in DOMAIN old.nodes : old.nodes[n] = LatestEntry(recs, n)
      /\ Added(recs) \subseteq Node /\ Node \cap Edge = {}
      /\ old = [nodes |-> old.nodes, edges |-> old.edges]
      /\ OfItsKind(c) /\ c \in Change
  BY UidAssumption DEF MeansLatest, Added, IsView, Record
<1> SUFFICES /\ DOMAIN new.nodes = Added(R) /\ DOMAIN new.edges \subseteq Edge
             /\ \A n \in DOMAIN new.nodes : new.nodes[n] = LatestEntry(R, n)
  BY Zenon DEF MeansLatest
<1> HIDE DEF R, c, old, new
<1> DEFINE N == old.nodes
           E == old.edges
<1>5. CASE c.op = "add_node"
  <2>1. new = [nodes |-> Insert(N, c), edges |-> E]
    BY <1>1, <1>4, <1>5 DEF Apply
  <2>2. /\ DOMAIN Insert(N, c) = DOMAIN N \cup c.uids
        /\ \A n \in DOMAIN N \cup c.uids : Insert(N, c)[n] = IF n \in c.uids THEN Fresh(c) ELSE N[n]
    BY DEF Insert
  <2>3. QED  BY <1>2, <1>3, <1>4, <1>5, <2>1, <2>2
<1>6. CASE c.op = "add_edge"
  <2>1. new = [nodes |-> N, edges |-> Insert(E, c)]
    BY <1>1, <1>4, <1>6 DEF Apply
  <2>2. DOMAIN Insert(E, c) = DOMAIN E \cup c.uids /\ c.uids \subseteq Edge
    BY <1>4, <1>6 DEF Insert, OfItsKind
  <2>3. \A n \in DOMAIN N : n \notin c.uids
    BY <1>4, <2>2
  <2>4. QED  BY <1>2, <1>3, <1>4, <1>6, <2>1, <2>2, <2>3
<1>7. CASE ~ IsAdd(c)
  <2>1. new = [nodes |-> Touch(N, c), edges |-> Touch(E, c)]
    BY <1>1, <1>4, <1>7 DEF Apply, IsAdd
  <2>2. /\ DOMAIN Touch(N, c) = DOMAIN N /\ DOMAIN Touch(E, c) = DOMAIN E
        /\ \A n \in DOMAIN N : Touch(N, c)[n] = IF n \in c.uids THEN Mutate(N[n], c) ELSE N[n]
    BY DEF Touch
  <2>3. c.op # "add_node"
    BY <1>7 DEF IsAdd
  <2>4. QED  BY <1>2, <1>3, <1>4, <1>7, <2>1, <2>2, <2>3
<1>8. QED  BY <1>5, <1>6, <1>7 DEF IsAdd

LEMMA PrefixOneMore ==
  ASSUME NEW recs \in Seq(Record), NEW k \in 1 .. Len(recs)
  PROVE  /\ SubSeq(recs, 1, k) = Append(SubSeq(recs, 1, k - 1), recs[k])
         /\ SubSeq(recs, 1, k - 1) \in Seq(Record)
<1> DEFINE s == SubSeq(recs, 1, k)
           p == SubSeq(recs, 1, k - 1)
           a == Append(p, recs[k])
<1>1. /\ s \in Seq(Record) /\ Len(s) = k /\ \A i \in 1 .. k : s[i] = recs[i]
      /\ p \in Seq(Record) /\ Len(p) = k - 1 /\ \A i \in 1 .. k - 1 : p[i] = recs[i]
      /\ recs[k] \in Record
  OBVIOUS
<1>2. a \in Seq(Record) /\ Len(a) = k /\ a[k] = recs[k] /\ \A i \in 1 .. k - 1 : a[i] = p[i]
  BY <1>1, AppendProperties
<1>3. \A i \in 1 .. k : s[i] = a[i]
  BY <1>1, <1>2
<1> HIDE DEF s, a
<1>4. s = a
  BY <1>1, <1>2, <1>3, SeqEqual
<1>5. QED  BY <1>1, <1>4 DEF s, a

LEMMA ReplayIsLatest ==
  ASSUME NEW recs \in Seq(Record), \A i \in 1 .. Len(recs) : OfItsKind(recs[i].change)
  PROVE  MeansLatest(recs)
<1> DEFINE n == Len(recs)
           T == {k \in 0 .. n : ~ MeansLatest(SubSeq(recs, 1, k))}
<1>1. n \in Nat /\ SubSeq(recs, 1, n) = recs
  BY SubSeqFull
<1>2. MeansLatest(SubSeq(recs, 1, 0))
  <2>1. SubSeq(recs, 1, 0) = << >>
    OBVIOUS
  <2>2. replay(<< >>) = EmptyView
    BY ReplayEmpty
  <2>3. DOMAIN EmptyView.nodes = {} /\ DOMAIN EmptyView.edges = {}
    BY DEF EmptyView
  <2>4. Added(<< >>) = {}
    BY DEF Added
  <2>5. QED  BY <2>1, <2>2, <2>3, <2>4 DEF MeansLatest
<1>3. SUFFICES ASSUME T # {} PROVE FALSE
  <2>1. MeansLatest(SubSeq(recs, 1, n))  BY <1>1, <1>3
  <2>2. QED  BY <1>1, <2>1, Zenon
<1>4. PICK k \in T : \A j \in T : k <= j
  <2>1. T \subseteq Nat  BY <1>1
  <2> HIDE DEF T
  <2>2. QED  BY <1>3, <2>1, LeastNumber, Zenon
<1>5. k \in 1 .. n /\ MeansLatest(SubSeq(recs, 1, k - 1))
  <2>1. k \in 1 .. n  BY <1>1, <1>2, <1>4
  <2>2. k - 1 \in 0 .. n /\ k - 1 \notin T  BY <1>1, <1>4, <2>1
  <2>3. QED  BY <2>1, <2>2
<1>6. SubSeq(recs, 1, k) = Append(SubSeq(recs, 1, k - 1), recs[k])
      /\ SubSeq(recs, 1, k - 1) \in Seq(Record) /\ recs[k] \in Record
  BY <1>5, PrefixOneMore
<1>7. IsView(replay(SubSeq(recs, 1, k - 1)))
  BY <1>6, ReplayIsView
<1>8. MeansLatest(SubSeq(recs, 1, k))
  BY <1>5, <1>6, <1>7, MeansLatestAppend
<1>9. QED  BY <1>4, <1>8

GenesisOfKind == \A i \in 1 .. Len(GenesisLog) : OfItsKind(GenesisLog[i].change)
LogOfKind == \A i \in 1 .. Len(log) : OfItsKind(log[i].change)

LEMMA LogOfKindStep ==
  ASSUME LandInv, KindInv, LogOfKind, [Next]_vars
  PROVE  LogOfKind'
<1>1. CASE log' = log
  BY <1>1 DEF LogOfKind
<1>2. ASSUME NEW w \in Writer, AppendsOne(w)
      PROVE  LogOfKind'
  <2>1. /\ TypeInv /\ pc[w] \in Pushing /\ log \in Seq(Record)
        /\ left[w] \subseteq DOMAIN asked[w]
    BY <1>2 DEF LandInv, TypeInv, TypeOK, AppendsOne, Pushing
  <2>2. /\ Pending(w) \in Record /\ Pending(w).change = asked[w][Least(left[w])]
        /\ Least(left[w]) \in left[w]
    BY <2>1, PendingType
  <2>3. OfItsKind(Pending(w).change)
    BY <2>1, <2>2 DEF KindInv
  <2>4. /\ Len(log) \in Nat /\ Len(log') = Len(log) + 1
        /\ log'[Len(log) + 1] = Pending(w) /\ \A i \in 1 .. Len(log) : log'[i] = log[i]
    BY <1>2, <2>1, <2>2, AppendProperties DEF AppendsOne
  <2>5. QED  BY <2>3, <2>4 DEF LogOfKind
<1>3. QED  BY <1>1, <1>2, LogStep

(* At any time, whatever races and crashes there were, the nodes that       *)
(* replay() builds from the log are those ever added, and every field of a  *)
(* node is what the latest record setting it says.                          *)
THEOREM ReplayIsTheLatest ==
  ASSUME GenesisOfKind, KindAssumption
  PROVE  Spec => []ReplayMeansLatest
<1> DEFINE Inv == LandInv /\ KindInv /\ LogOfKind
<1>1. Init => Inv
  <2>1. Init => KindInv /\ LogOfKind
    BY DEF Init, KindInv, KindAssumption, LogOfKind, GenesisOfKind
  <2>2. QED  BY <2>1, LandInvInit
<1>2. Inv /\ [Next]_vars => Inv'
  BY LandInvStep, KindInvStep, LogOfKindStep
<1>3. Inv => ReplayMeansLatest
  <2>1. Inv => MeansLatest(log)
    BY ReplayIsLatest DEF LandInv, TypeInv, TypeOK, LogOfKind
  <2>2. \A u : SinceIn(log, u) = Since(u)
    BY Zenon DEF SinceIn, Since
  <2>3. ASSUME NEW u, NEW op, NEW field, NEW default
        PROVE  LatestIn(log, u, op, field, default) = LatestField(u, op, field, default)
    <3> DEFINE S == {i \in Since(u) : log[i].change.op = op}
    <3>1. OfOp(log, u, op) = S
      BY <2>2, Zenon DEF OfOp
    <3>2. LatestField(u, op, field, default)
            = IF S = {} THEN default ELSE log[CHOOSE i \in S : \A j \in S : j <= i].change[field]
      BY Zenon DEF LatestField
    <3> HIDE DEF S
    <3>3. LatestIn(log, u, op, field, default)
            = IF S = {} THEN default ELSE log[CHOOSE i \in S : \A j \in S : j <= i].change[field]
      BY <3>1 DEF LatestIn, Last
    <3>4. QED  BY <3>2, <3>3, Zenon
  <2>4. ASSUME MeansLatest(log)
        PROVE  ReplayMeansLatest
    <3>1. DOMAIN replay(log).nodes = Added(log)
      BY <2>4 DEF MeansLatest
    <3>2. ASSUME NEW n \in DOMAIN replay(log).nodes
          PROVE  replay(log).nodes[n] =
                   [meta |-> LatestField(n, "edit_meta", "meta",
                                LatestField(n, "add_node", "meta", CHOOSE m \in Meta : TRUE)),
                    deprecated |-> \E i \in Since(n) : log[i].change.op = "deprecate",
                    superseded_by |-> LatestField(n, "supersede", "new", {}),
                    equivalent_to |-> LatestField(n, "equate", "uids", {})]
      <4>1. replay(log).nodes[n] = LatestEntry(log, n)
        BY <2>4, Zenon DEF MeansLatest
      <4>2. LatestEntry(log, n) =
               [meta |-> LatestField(n, "edit_meta", "meta",
                            LatestField(n, "add_node", "meta", CHOOSE m \in Meta : TRUE)),
                deprecated |-> \E i \in Since(n) : log[i].change.op = "deprecate",
                superseded_by |-> LatestField(n, "supersede", "new", {}),
                equivalent_to |-> LatestField(n, "equate", "uids", {})]
        BY <2>2, <2>3, ZenonT(60) DEF LatestEntry, LatestMeta
      <4>3. QED  BY <4>1, <4>2, Zenon
    <3>3. DOMAIN replay(log).nodes =
             {n \in Node : \E i \in 1 .. Len(log) :
                 log[i].change.op = "add_node" /\ n \in log[i].change.uids}
      BY <3>1 DEF Added
    <3>4. QED  BY <3>2, <3>3, ZenonT(40) DEF ReplayMeansLatest
  <2>5. QED  BY <2>1, <2>4
<1>4. QED  BY <1>1, <1>2, <1>3, PTL DEF Spec
-----------------------------------------------------------------------------
(* A contribution cut short by a crash can be completed.  What is left of   *)
(* it keeps three things the gates found when it was proposed: an endpoint  *)
(* is in the map or is added by an earlier record that is left too, what is *)
(* not left is in the map, and all it had to add hangs together and hangs   *)
(* on the map.  The three survive races and the crash itself.               *)

(* The records that have no line yet, and those there were at the start. *)
Remaining(w) == IF pc[w] \in Materializing THEN left[w] \ {Least(left[w])} ELSE left[w]
Begun(w) == left[w] \cup landed[w]
Additions(w) == {c \in {asked[w][i] : i \in Begun(w)} : IsAdd(c)}

CoveredLeft(w) ==
    \A i \in Remaining(w) :
        asked[w][i].op = "add_edge" =>
            \A n \in EndsOf(asked[w][i]) :
                \/ n \in DOMAIN replay(log).nodes
                \/ \E j \in Remaining(w) : /\ j < i
                                           /\ asked[w][j].op = "add_node"
                                           /\ n \in asked[w][j].uids

HangsOn(adds, view) ==
    adds # {} =>
        /\ \E c \in adds : c.op = "add_edge" /\ EndsOf(c) \cap DOMAIN view.nodes # {}
        /\ WeaklyConnected(adds)

Repairable(w) == /\ WellFormed(asked[w])
                 /\ CoveredLeft(w)
                 /\ HeldIn(replay(log), w, Remaining(w))
                 /\ HangsOn(Additions(w), replay(log))

RepairInv == Readable => \A w \in Writer : Repairable(w)

(* What a step does to the contribution of one writer, if the log can be    *)
(* read after it.                                                           *)
Ended(u) == asked'[u] = << >> /\ left'[u] = {} /\ landed'[u] = {}

Started(u) ==
    \E contribution \in Contributions :
        LET rest == DOMAIN contribution \ no_op_indices(contribution, replay(log))
        IN /\ Admissible(contribution, replay(log))
           /\ asked'[u] = contribution /\ log' = log
           /\ Remaining(u)' = rest /\ Begun(u)' = rest

Stayed(u) == /\ asked'[u] = asked[u]
             /\ Begun(u)' = Begun(u) /\ Remaining(u)' = Remaining(u)
             /\ log' = log \/ \E w \in Writer \ {u} : AppendsOne(w)

Wrote(u) == /\ AppendsOne(u) /\ asked'[u] = asked[u]
            /\ Begun(u)' = Begun(u)
            /\ Remaining(u) = left[u] /\ left[u] # {}
            /\ Remaining(u)' = left[u] \ {Least(left[u])}

LEMMA FateStep ==
  ASSUME LandInv, [Next]_vars, Readable', NEW u \in Writer
  PROVE  Ended(u) \/ Started(u) \/ Stayed(u) \/ Wrote(u)
<1> USE DEF LandInv, TypeInv, TypeOK
<1>1. CASE UNCHANGED vars
  BY <1>1 DEF vars, Stayed, Begun, Remaining
<1>2. ASSUME NEW w \in Writer, NEW contribution \in Contributions, Propose(w, contribution)
      PROVE  Started(u) \/ Stayed(u)
  <2> DEFINE rest == DOMAIN contribution \ no_op_indices(contribution, replay(log))
  <2>1. CASE w # u
    BY <1>2, <2>1 DEF Propose, Stayed, Begun, Remaining
  <2>2. CASE w = u
    <3>1. /\ Admissible(contribution, replay(log)) /\ asked'[u] = contribution /\ log' = log
          /\ left'[u] = rest /\ landed'[u] = {} /\ pc'[u] \in {"head", "read"}
      BY <1>2, <2>2 DEF Propose
    <3> HIDE DEF rest
    <3>2. Remaining(u)' = rest /\ Begun(u)' = rest
      BY <3>1 DEF Begun, Remaining
    <3>3. QED  BY <3>1, <3>2 DEF Started, rest
  <2>3. QED  BY <2>1, <2>2
<1>3. ASSUME NEW w \in Writer, ReturnHead(w) \/ ReadFails(w) \/ Restart(w)
      PROVE  Ended(u) \/ Stayed(u)
  BY <1>3 DEF ReturnHead, ReadFails, Restart, Finish, Ended, Stayed, Begun, Remaining
<1>4. ASSUME NEW w \in Writer, PushRead(w) \/ Rewrites(w) \/ CrashBetween(w)
      PROVE  Stayed(u)
  BY <1>4 DEF PushRead, Rewrites, OpenNodes, PushNodes, OpenEdges, CrashBetween, Die, locals,
              Stayed, Begun, Remaining
<1>5. ASSUME NEW w \in Writer, PushAppend(w)
      PROVE  Stayed(u) \/ Wrote(u)
  <2>1. CASE w # u
    <3>1. log' = log \/ AppendsOne(w)
      BY <1>5 DEF PushAppend, AppendLine, AppendsOne
    <3>2. QED  BY <1>5, <2>1, <3>1 DEF PushAppend, locals, Stayed, Begun, Remaining
  <2>2. CASE w = u
    <3>1. AppendsOne(u)
      BY <1>5, <2>2 DEF PushAppend, AppendLine, AppendsOne, Readable
    <3>2. left[u] # {}
      BY <3>1 DEF AppendsOne, LoopHasRecord, Pushing
    <3>3. asked'[u] = asked[u] /\ left'[u] = left[u] /\ landed'[u] = landed[u]
          /\ pc[u] = "append" /\ pc'[u] = "nodes"
      BY <1>5, <2>2 DEF PushAppend, locals
    <3>4. QED  BY <3>1, <3>2, <3>3 DEF Wrote, Begun, Remaining
  <2>3. QED  BY <2>1, <2>2
<1>6. ASSUME NEW w \in Writer, pc[w] \in Pushing, Advance(w)
      PROVE  /\ \A v \in Writer \ {w} : left'[v] = left[v] /\ landed'[v] = landed[v]
             /\ left'[w] = left[w] \ {Least(left[w])}
             /\ left[w] # {} /\ Begun(w)' = Begun(w)
  <2>1. Least(left[w]) \in left[w] /\ left[w] # {}
    BY <1>6, PendingType
  <2>2. /\ \A v \in Writer \ {w} : left'[v] = left[v] /\ landed'[v] = landed[v]
        /\ left'[w] = left[w] \ {Least(left[w])}
        /\ landed'[w] = landed[w] \cup {Least(left[w])}
    BY <1>6 DEF Advance
  <2>3. QED  BY <2>1, <2>2 DEF Begun
<1>7. ASSUME NEW w \in Writer, PushEdges(w)
      PROVE  Ended(u) \/ Stayed(u)
  <2> USE DEF PushEdges
  <2>1. CASE Finish(w)
    BY <1>7, <2>1 DEF Finish, Ended, Stayed, Begun, Remaining
  <2>2. CASE Advance(w) /\ pc' = [pc EXCEPT ![w] = "read"] /\ UNCHANGED asked
    <3>1. pc[w] = "edgesOpen" /\ pc[w] \in Pushing
      BY <1>7 DEF Pushing
    <3>2. CASE u = w
      BY <1>6, <1>7, <2>2, <3>1, <3>2 DEF Stayed, Remaining
    <3>3. CASE u # w
      BY <1>6, <1>7, <2>2, <3>1, <3>3 DEF Stayed, Remaining, Begun
    <3>4. QED  BY <3>2, <3>3
  <2>3. QED  BY <1>7, <2>1, <2>2
<1>8. ASSUME NEW w \in Writer, CrashInAppend(w)
      PROVE  Stayed(u) \/ Wrote(u)
  <2>1. /\ AppendsOne(w) /\ Advance(w) /\ asked' = asked
        /\ pc' = [pc EXCEPT ![w] = "crashed"] /\ pc[w] = "append" /\ pc[w] \in Pushing
    BY <1>8 DEF CrashInAppend, Die, AppendsOne, Readable, Pushing
  <2>2. CASE u = w
    BY <1>6, <2>1, <2>2 DEF Wrote, Remaining
  <2>3. CASE u # w
    BY <1>6, <2>1, <2>3 DEF Stayed, Remaining, Begun
  <2>4. QED  BY <2>2, <2>3
<1>9. ASSUME NEW w \in Writer, CrashInMaterialize(w)
      PROVE  Stayed(u)
  <2>1. /\ Advance(w) /\ asked' = asked /\ pc[w] \in Materializing /\ pc[w] \in Pushing
        /\ log' = log /\ pc' = [pc EXCEPT ![w] = "crashed"]
    BY <1>9 DEF CrashInMaterialize, Die, Pushing
  <2>2. CASE u = w
    BY <1>6, <2>1, <2>2 DEF Stayed, Remaining
  <2>3. CASE u # w
    BY <1>6, <2>1, <2>3 DEF Stayed, Remaining, Begun
  <2>4. QED  BY <2>2, <2>3
<1>10. QED  BY <1>1, <1>2, <1>3, <1>4, <1>5, <1>7, <1>8, <1>9 DEF Next, Rewrites

(* The domains of the map only grow, and a record that is written adds to   *)
(* the one of its kind.                                                     *)
LEMMA AppendedDomains ==
  ASSUME TypeInv, NEW w \in Writer, AppendsOne(w)
  PROVE  LET c == asked[w][Least(left[w])]
         IN /\ DOMAIN replay(log').nodes = IF c.op = "add_node"
                   THEN DOMAIN replay(log).nodes \cup c.uids ELSE DOMAIN replay(log).nodes
            /\ DOMAIN replay(log').edges = IF c.op = "add_edge"
                   THEN DOMAIN replay(log).edges \cup c.uids ELSE DOMAIN replay(log).edges
            /\ Least(left[w]) \in left[w] /\ left[w] \subseteq DOMAIN asked[w]
            /\ IsAdd(c) => Holds(replay(log'), c)
<1> DEFINE c == asked[w][Least(left[w])]
<1>1. pc[w] \in Pushing /\ log' = Append(log, Pending(w)) /\ log \in Seq(Record)
      /\ left[w] \subseteq DOMAIN asked[w] /\ Len(log) \in Nat
  BY DEF AppendsOne, Pushing, TypeInv, TypeOK
<1>2. Pending(w) \in Record /\ Pending(w).change = c /\ Least(left[w]) \in left[w]
  BY <1>1, PendingType
<1>3. replay(log') = Apply(replay(log), c)
  BY <1>1, <1>2, ReplayAppend
<1>4. IsView(replay(log))
  BY <1>1, ReplayIsView
<1>5. IsAdd(c) => Holds(replay(log'), c)
  BY <1>1, <1>2, KnownGrows
<1> HIDE DEF c
<1>6. /\ DOMAIN Apply(replay(log), c).nodes = IF c.op = "add_node"
             THEN DOMAIN replay(log).nodes \cup c.uids ELSE DOMAIN replay(log).nodes
      /\ DOMAIN Apply(replay(log), c).edges = IF c.op = "add_edge"
             THEN DOMAIN replay(log).edges \cup c.uids ELSE DOMAIN replay(log).edges
  BY <1>4, ApplyDomains
<1>7. QED  BY <1>1, <1>2, <1>3, <1>5, <1>6 DEF c

LEMMA NodesGrow ==
  ASSUME TypeInv, [Next]_vars
  PROVE  DOMAIN replay(log).nodes \subseteq DOMAIN replay(log').nodes
<1>1. ASSUME NEW w \in Writer, AppendsOne(w)
      PROVE  DOMAIN replay(log).nodes \subseteq DOMAIN replay(log').nodes
  BY <1>1, AppendedDomains
<1>2. QED  BY <1>1, LogStep

-----------------------------------------------------------------------------
LEMMA StartedIsRepairable ==
  ASSUME NEW u \in Writer, Started(u)
  PROVE  Repairable(u)'
<1> DEFINE view == replay(log)
<1>1. PICK contribution \in Contributions :
         /\ Admissible(contribution, view) /\ asked'[u] = contribution /\ log' = log
         /\ Remaining(u)' = DOMAIN contribution \ no_op_indices(contribution, view)
         /\ Begun(u)' = DOMAIN contribution \ no_op_indices(contribution, view)
  BY DEF Started
<1> DEFINE dropped == no_op_indices(contribution, view)
           rest == DOMAIN contribution \ dropped
<1>2. \A j \in DOMAIN contribution : j \in dropped <=> NoOp(contribution[j], view)
  BY DEF no_op_indices
<1>3. contribution \in Seq(Change) /\ DOMAIN contribution = 1 .. Len(contribution)
      /\ Len(contribution) \in Nat
  BY StoreAssumption
<1> HIDE DEF dropped, view
<1>4. WellFormed(asked[u])'
  BY <1>1 DEF Admissible, WellFormed
<1>5. CoveredLeft(u)'
  <2>1. SUFFICES ASSUME NEW i \in rest, contribution[i].op = "add_edge",
                        NEW n \in EndsOf(contribution[i]), n \notin DOMAIN view.nodes
                 PROVE  \E j \in rest : /\ j < i /\ contribution[j].op = "add_node"
                                        /\ n \in contribution[j].uids
    BY <1>1 DEF CoveredLeft, view, dropped
  <2>2. PICK j \in 1 .. i - 1 : contribution[j].op = "add_node" /\ n \in contribution[j].uids
    BY <1>1, <2>1 DEF Admissible, Reachable
  <2>3. j \in DOMAIN contribution /\ j < i
    BY <1>3, <2>1
  <2>4. j \notin dropped
    BY <1>2, <2>1, <2>2, <2>3 DEF NoOp
  <2>5. QED  BY <2>2, <2>3, <2>4
<1>6. HeldIn(replay(log), u, Remaining(u))'
  <2>1. SUFFICES ASSUME NEW i \in DOMAIN contribution \ rest, IsAdd(contribution[i])
                 PROVE  Holds(view, contribution[i])
    BY <1>1 DEF HeldIn, view, dropped
  <2>2. NoOp(contribution[i], view)
    BY <1>2
  <2>3. QED  BY <2>2 DEF NoOp, Holds, KnownUids
<1>7. HangsOn(Additions(u), replay(log))'
  <2> DEFINE adds == {c \in {contribution[i] : i \in rest} : IsAdd(c)}
  <2>1. HangsOn(adds, view)
    BY <1>1 DEF Admissible, Connected, HangsOn, dropped
  <2>2. Additions(u)' = adds /\ replay(log') = view
    BY <1>1 DEF Additions, view, dropped
  <2> HIDE DEF adds
  <2>3. QED  BY <2>1, <2>2 DEF HangsOn
<1>8. QED  BY <1>4, <1>5, <1>6, <1>7 DEF Repairable

(* A map that has grown in the meantime does not harm what is left. *)
LEMMA GrownIsRepairable ==
  ASSUME LandInv, [Next]_vars, NEW u \in Writer, Repairable(u), Stayed(u) \/ Wrote(u)
  PROVE  Repairable(u)'
<1> DEFINE old == DOMAIN replay(log).nodes
           new == DOMAIN replay(log').nodes
<1>1. asked'[u] = asked[u] /\ Begun(u)' = Begun(u) /\ old \subseteq new
      /\ KnownUids(replay(log)) \subseteq KnownUids(replay(log'))
  BY NodesGrow, LogGrows DEF Stayed, Wrote, LandInv
<1>2. WellFormed(asked[u])'
  BY <1>1 DEF Repairable
<1>3. HangsOn(Additions(u), replay(log))'
  <2>1. Additions(u)' = Additions(u)
    BY <1>1 DEF Additions
  <2>2. HangsOn(Additions(u), replay(log))
    BY DEF Repairable
  <2>3. QED  BY <1>1, <2>1, <2>2 DEF HangsOn
<1>4. CASE Stayed(u)
  <2>1. Remaining(u)' = Remaining(u)
    BY <1>4 DEF Stayed
  <2>2. CoveredLeft(u)'
    BY <1>1, <2>1 DEF CoveredLeft, Repairable
  <2>3. HeldIn(replay(log), u, Remaining(u))'
    BY <1>1, <2>1 DEF HeldIn, Holds, Repairable
  <2>4. QED  BY <1>2, <1>3, <2>2, <2>3 DEF Repairable
<1>5. CASE Wrote(u)
  <2> DEFINE m == Least(left[u])
             c == asked[u][m]
  <2>1. /\ new = IF c.op = "add_node" THEN old \cup c.uids ELSE old
        /\ IsAdd(c) => Holds(replay(log'), c)
        /\ m \in left[u]
        /\ Remaining(u) = left[u] /\ Remaining(u)' = left[u] \ {m}
    BY <1>5, AppendedDomains DEF LandInv, Wrote
  <2>2. CoveredLeft(u) /\ HeldIn(replay(log), u, left[u])
    BY <2>1 DEF Repairable
  <2> HIDE DEF m, old, new
  <2>3. CoveredLeft(u)'
    <3>1. SUFFICES ASSUME NEW i \in left[u] \ {m}, asked[u][i].op = "add_edge",
                          NEW n \in EndsOf(asked[u][i]), n \notin new
                   PROVE  \E j \in left[u] \ {m} : /\ j < i /\ asked[u][j].op = "add_node"
                                                   /\ n \in asked[u][j].uids
      BY <1>1, <2>1 DEF CoveredLeft, new
    <3>2. PICK j \in left[u] : j < i /\ asked[u][j].op = "add_node" /\ n \in asked[u][j].uids
      BY <1>1, <2>1, <2>2, <3>1 DEF CoveredLeft, old
    <3>3. j # m
      BY <2>1, <3>1, <3>2
    <3>4. QED  BY <3>2, <3>3
  <2>4. HeldIn(replay(log), u, Remaining(u))'
    <3>1. SUFFICES ASSUME NEW i \in DOMAIN asked[u] \ (left[u] \ {m}), IsAdd(asked[u][i])
                   PROVE  Holds(replay(log'), asked[u][i])
      BY <1>1, <2>1 DEF HeldIn
    <3>2. CASE i = m
      BY <2>1, <3>1, <3>2
    <3>3. CASE i # m
      BY <1>1, <2>2, <3>1, <3>3 DEF HeldIn, Holds
    <3>4. QED  BY <3>2, <3>3
  <2>5. QED  BY <1>2, <1>3, <2>3, <2>4 DEF Repairable
<1>6. QED  BY <1>4, <1>5

LEMMA EndedIsRepairable ==
  ASSUME NEW u \in Writer, asked[u] = << >>, left[u] = {}, landed[u] = {}
  PROVE  Repairable(u)
<1>1. DOMAIN asked[u] = {} /\ Remaining(u) = {} /\ Begun(u) = {}
  BY DEF Remaining, Begun
<1>2. Additions(u) = {}
  BY <1>1 DEF Additions
<1>3. QED  BY <1>1, <1>2 DEF Repairable, WellFormed, CoveredLeft, HeldIn, HangsOn

LEMMA RepairInvInit == Init => RepairInv
<1> SUFFICES ASSUME Init, NEW u \in Writer PROVE Repairable(u)
  BY DEF RepairInv
<1>1. QED  BY EndedIsRepairable DEF Init

LEMMA RepairInvStep ==
  ASSUME LandInv, RepairInv, [Next]_vars
  PROVE  RepairInv'
<1> SUFFICES ASSUME Readable', NEW u \in Writer PROVE Repairable(u)'
  BY DEF RepairInv
<1>1. Repairable(u)
  BY StaysReadable DEF RepairInv
<1>2. CASE Ended(u)
  <2>1. asked'[u] = << >> /\ left'[u] = {} /\ landed'[u] = {}
    BY <1>2 DEF Ended
  <2>2. DOMAIN asked'[u] = {} /\ Remaining(u)' = {} /\ Begun(u)' = {}
    BY <2>1 DEF Remaining, Begun
  <2>3. Additions(u)' = {}
    BY <2>2 DEF Additions
  <2>4. QED  BY <2>2, <2>3 DEF Repairable, WellFormed, CoveredLeft, HeldIn, HangsOn
<1>3. QED  BY <1>1, <1>2, FateStep, StartedIsRepairable, GrownIsRepairable

-----------------------------------------------------------------------------
(* A change record of an addition has one uid in its payload. *)
NamesOne(c) == IsAdd(c) => \E u \in c.uids : c.uids = {u}
OneUidAssumption == \A c \in Contributions : \A i \in DOMAIN c : NamesOne(c[i])
AskedNameOne == \A w \in Writer : \A i \in DOMAIN asked[w] : NamesOne(asked[w][i])

LEMMA AskedNameOneStep ==
  ASSUME OneUidAssumption, TypeInv, AskedNameOne, [Next]_vars
  PROVE  AskedNameOne'
<1> SUFFICES ASSUME NEW w \in Writer, NEW i \in DOMAIN asked'[w]
             PROVE  NamesOne(asked'[w][i])
  BY DEF AskedNameOne
<1>1. asked'[w] \in {asked[w], << >>} \cup Contributions
  BY AskedStep
<1>2. CASE asked'[w] = << >>
  BY <1>2
<1>3. CASE asked'[w] = asked[w]
  BY <1>3 DEF AskedNameOne
<1>4. CASE asked'[w] \in Contributions
  BY <1>4 DEF OneUidAssumption
<1>5. QED  BY <1>1, <1>2, <1>3, <1>4

CrashInv == EdgeInv /\ KindInv /\ AskedNameOne /\ RepairInv

(* The indices of one component. *)
In(w, S) == {i \in Lost(w) : GraphNodes({asked[w][i]}) \subseteq S}
InGraph(w, S) == {asked[w][i] : i \in In(w, S)}

LEMMA OneGraphNodes ==
  ASSUME NEW c
  PROVE  GraphNodes({c}) = IF c.op = "add_node" THEN c.uids ELSE EndsOf(c)
BY DEF GraphNodes

LEMMA GraphNodesOf ==
  ASSUME NEW adds, NEW n
  PROVE  n \in GraphNodes(adds) <=> \E c \in adds : n \in GraphNodes({c})
BY DEF GraphNodes

(* A component holds whole records: the nodes of its records are its own,   *)
(* and nothing in it is cut off from the rest.                              *)
LEMMA ComponentIsWhole ==
  ASSUME AskedNameOne, TypeInv, NEW w \in Writer, NEW S \in LostComponents(w)
  PROVE  /\ \A i \in Lost(w) : GraphNodes({asked[w][i]}) \cap S # {} => i \in In(w, S)
         /\ GraphNodes(InGraph(w, S)) = S
         /\ WeaklyConnected(InGraph(w, S))
<1>1. /\ S # {} /\ S \subseteq GraphNodes(LostGraph(w)) /\ Isolated(S, LostGraph(w))
      /\ \A T \in SUBSET S : Isolated(T, LostGraph(w)) => T \in {{}, S}
  BY DEF LostComponents
<1>2. ASSUME NEW i \in Lost(w), GraphNodes({asked[w][i]}) \cap S # {}
      PROVE  i \in In(w, S)
  <2> DEFINE c == asked[w][i]
  <2>1. c \in LostGraph(w) /\ IsAdd(c) /\ i \in DOMAIN asked[w]
    BY <1>2 DEF LostGraph, Lost, TypeInv, TypeOK
  <2>2. NamesOne(c)
    BY <2>1 DEF AskedNameOne
  <2>3. GraphNodes({c}) = IF c.op = "add_node" THEN c.uids ELSE EndsOf(c)
    BY OneGraphNodes
  <2>4. c.op = "add_edge" => EndsOf(c) \subseteq S \/ EndsOf(c) \cap S = {}
    BY <1>1, <2>1 DEF Isolated
  <2>5. GraphNodes({c}) \cap S # {}
    BY <1>2
  <2> HIDE DEF c
  <2>6. GraphNodes({c}) \subseteq S
    BY <2>1, <2>2, <2>3, <2>4, <2>5 DEF NamesOne, IsAdd
  <2>7. QED  BY <2>6 DEF In, c
<1>3. GraphNodes(InGraph(w, S)) = S
  <2>1. ASSUME NEW n \in S
        PROVE  n \in GraphNodes(InGraph(w, S))
    <3>1. PICK c \in LostGraph(w) : n \in GraphNodes({c})
      BY <1>1, GraphNodesOf
    <3>2. PICK i \in Lost(w) : c = asked[w][i]
      BY DEF LostGraph
    <3>3. i \in In(w, S)
      BY <1>2, <3>1, <3>2
    <3>4. c \in InGraph(w, S)
      BY <3>2, <3>3 DEF InGraph
    <3>5. QED  BY <3>1, <3>4, GraphNodesOf
  <2>2. ASSUME NEW n \in GraphNodes(InGraph(w, S))
        PROVE  n \in S
    <3>1. PICK c \in InGraph(w, S) : n \in GraphNodes({c})
      BY <2>2, GraphNodesOf
    <3>2. QED  BY <3>1 DEF InGraph, In
  <2>3. QED  BY <2>1, <2>2
<1>4. ASSUME NEW T \in SUBSET S, Isolated(T, InGraph(w, S))
      PROVE  T = {} \/ T = S
  <2>1. ASSUME NEW c \in LostGraph(w), c.op = "add_edge"
        PROVE  EndsOf(c) \subseteq T \/ EndsOf(c) \cap T = {}
    <3>1. PICK i \in Lost(w) : c = asked[w][i]
      BY DEF LostGraph
    <3>2. GraphNodes({c}) = EndsOf(c)
      BY <2>1, OneGraphNodes
    <3>3. CASE EndsOf(c) \cap S = {}
      BY <3>3
    <3>4. CASE EndsOf(c) \cap S # {}
      <4>1. c \in InGraph(w, S)
        BY <1>2, <3>1, <3>2, <3>4 DEF InGraph
      <4>2. QED  BY <1>4, <2>1, <4>1 DEF Isolated
    <3>5. QED  BY <3>3, <3>4
  <2>2. Isolated(T, LostGraph(w))
    BY <2>1 DEF Isolated
  <2>3. QED  BY <1>1, <2>2
<1>5. WeaklyConnected(InGraph(w, S))
  BY <1>3, <1>4 DEF WeaklyConnected
<1>6. QED  BY <1>2, <1>3, <1>5

(* The lost edges of a component are tied to the map, or one of its edges   *)
(* would be the one that tied the whole contribution to it.                 *)
LEMMA ComponentHangsOn ==
  ASSUME CrashInv, Readable, NEW w \in Writer, pc[w] = "crashed", NEW S \in LostComponents(w)
  PROVE  \E c \in InGraph(w, S) : /\ c.op = "add_edge"
                                  /\ EndsOf(c) \cap DOMAIN replay(log).nodes # {}
<1> DEFINE nodes == DOMAIN replay(log).nodes
           edges == DOMAIN replay(log).edges
<1>1. /\ TypeInv /\ AskedNameOne /\ Repairable(w) /\ KindInv /\ NoDanglingEdge
      /\ Remaining(w) = left[w] /\ left[w] \cup landed[w] \subseteq DOMAIN asked[w]
  BY DEF CrashInv, EdgeInv, LandInv, RepairInv, Remaining, TypeInv, TypeOK
<1>2. /\ S # {} /\ S \subseteq GraphNodes(LostGraph(w)) /\ Isolated(S, LostGraph(w))
  BY DEF LostComponents
<1>3. LostGraph(w) \subseteq Additions(w)
  BY DEF LostGraph, Lost, Additions, Begun
<1>4. PICK n \in S : nodes \cap S # {} => n \in nodes
  BY <1>2
<1>5. PICK i \in Lost(w) : n \in GraphNodes({asked[w][i]})
  <2>1. PICK c \in LostGraph(w) : n \in GraphNodes({c})
    BY <1>2, GraphNodesOf
  <2>2. QED  BY <2>1 DEF LostGraph
<1>6. i \in In(w, S) /\ asked[w][i] \in InGraph(w, S)
  BY <1>1, <1>5, ComponentIsWhole DEF InGraph
<1>7. CASE nodes \cap S # {}
  <2> DEFINE c == asked[w][i]
  <2>1. IsAdd(c) /\ ~ NoOp(c, replay(log)) /\ i \in DOMAIN asked[w]
    BY <1>1 DEF Lost
  <2>2. GraphNodes({c}) = IF c.op = "add_node" THEN c.uids ELSE EndsOf(c)
    BY OneGraphNodes
  <2>3. NamesOne(c)
    BY <1>1, <2>1 DEF AskedNameOne
  <2>4. n \in nodes /\ n \in GraphNodes({c})
    BY <1>4, <1>5, <1>7
  <2> HIDE DEF c
  <2>5. c.op = "add_edge" /\ n \in EndsOf(c)
    BY <2>1, <2>2, <2>3, <2>4 DEF NamesOne, NoOp, IsAdd
  <2>6. QED  BY <1>6, <2>4, <2>5 DEF c
<1>8. CASE nodes \cap S = {}
  <2>1. ASSUME NEW c \in Additions(w), c.op = "add_edge"
        PROVE  EndsOf(c) \subseteq S \/ EndsOf(c) \cap S = {}
    <3>1. PICK j \in left[w] \cup landed[w] : c = asked[w][j]
      BY DEF Additions, Begun
    <3>2. CASE j \in Lost(w)
      BY <1>2, <2>1, <3>1, <3>2 DEF Isolated, LostGraph
    <3>3. CASE j \notin Lost(w)
      <4>1. IsAdd(c) /\ j \in DOMAIN asked[w]
        BY <1>1, <2>1 DEF IsAdd
      <4>2. ASSUME j \in left[w]  PROVE c.uids \subseteq edges
        <5>1. NoOp(c, replay(log))
          BY <3>1, <3>3, <4>1, <4>2 DEF Lost
        <5>2. QED  BY <2>1, <5>1 DEF NoOp
      <4>3. ASSUME j \notin left[w]  PROVE c.uids \subseteq edges
        <5>1. c.uids \subseteq KnownUids(replay(log))
          BY <1>1, <3>1, <4>1, <4>3 DEF Repairable, HeldIn, Holds
        <5>2. c.uids \subseteq Edge /\ nodes \subseteq Node
          BY <1>1, <2>1, <3>1, <4>1 DEF KindInv, OfItsKind
        <5>3. c.uids \subseteq edges
          BY <5>1, <5>2, UidAssumption DEF KnownUids
        <5>4. QED  BY <5>3
      <4>4. c.uids \subseteq edges
        BY <4>2, <4>3
      <4>5. EndsOf(c) \subseteq nodes
        BY <1>1, <4>4 DEF EndsOf, NoDanglingEdge
      <4>6. QED  BY <1>8, <4>5
    <3>4. QED  BY <3>2, <3>3
  <2>2. Isolated(S, Additions(w))
    BY <2>1 DEF Isolated
  <2>3. S \subseteq GraphNodes(Additions(w)) /\ Additions(w) # {}
    BY <1>2, <1>3, <1>5 DEF GraphNodes, LostGraph
  <2>4. HangsOn(Additions(w), replay(log))
    BY <1>1 DEF Repairable
  <2>5. S = GraphNodes(Additions(w))
    BY <1>2, <2>2, <2>3, <2>4 DEF HangsOn, WeaklyConnected
  <2>6. PICK c \in Additions(w) : c.op = "add_edge" /\ EndsOf(c) \cap nodes # {}
    BY <2>3, <2>4 DEF HangsOn
  <2>7. EndsOf(c) \subseteq S
    <3>1. GraphNodes({c}) = EndsOf(c)
      BY <2>6, OneGraphNodes
    <3>2. GraphNodes({c}) \subseteq GraphNodes(Additions(w))
      BY <2>6 DEF GraphNodes
    <3>3. QED  BY <2>5, <3>1, <3>2
  <2>8. QED  BY <1>8, <2>6, <2>7
<1>9. QED  BY <1>7, <1>8

(* The records of a part, in their order. *)
LEMMA PartIs ==
  ASSUME TypeInv, NEW w \in Writer, NEW S
  PROVE  \E at : /\ Cardinality(In(w, S)) \in Nat
                 /\ DOMAIN Part(w, S) = 1 .. Cardinality(In(w, S))
                 /\ at \in [1 .. Cardinality(In(w, S)) -> In(w, S)]
                 /\ \A k \in DOMAIN Part(w, S) : Part(w, S)[k] = asked[w][at[k]]
                 /\ \A i \in In(w, S) : \E k \in DOMAIN Part(w, S) : at[k] = i
                 /\ \A j, k \in DOMAIN Part(w, S) : at[j] < at[k] => j < k
<1> DEFINE I == In(w, S)
           rank == [i \in I |-> i]
           at == Sorted(I, rank)
           n == Cardinality(I)
<1>1. I \subseteq DOMAIN asked[w] /\ DOMAIN asked[w] = 1 .. Len(asked[w])
      /\ Len(asked[w]) \in Nat
  BY DEF In, Lost, TypeInv, TypeOK
<1>2. IsFiniteSet(I)
  <2> HIDE DEF I
  <2>1. 1 \in Int /\ Len(asked[w]) \in Int
    BY <1>1
  <2>2. IsFiniteSet(1 .. Len(asked[w]))
    BY <2>1, FS_Interval, Zenon
  <2>3. QED  BY <1>1, <2>2, FS_Subset, Zenon
<1>3. IsRank(rank, I)
  BY <1>1 DEF IsRank
<1>4. Part(w, S) = [k \in 1 .. n |-> asked[w][at[k]]]
  BY DEF Part, In
<1> HIDE DEF I, rank
<1>5. /\ n \in Nat /\ at \in [1 .. n -> I]
      /\ \A i \in I : \E k \in 1 .. n : at[k] = i
      /\ \A j, k \in 1 .. n : j < k <=> rank[at[j]] < rank[at[k]]
  BY <1>2, <1>3, SortedIs
<1>6. \A j \in 1 .. n : rank[at[j]] = at[j]
  BY <1>5 DEF rank
<1> HIDE DEF at, n
<1>7. DOMAIN Part(w, S) = 1 .. n /\ \A k \in 1 .. n : Part(w, S)[k] = asked[w][at[k]]
  BY <1>4
<1>8. \A j, k \in 1 .. n : at[j] < at[k] => j < k
  BY <1>5, <1>6
<1>9. QED  BY <1>5, <1>7, <1>8 DEF I, n

LEMMA PartIsAdmissible ==
  ASSUME CrashInv, Readable, NEW w \in Writer, pc[w] = "crashed", NEW S \in LostComponents(w)
  PROVE  Admissible(Part(w, S), replay(log))
<1> DEFINE P == Part(w, S)
           view == replay(log)
<1>1. /\ TypeInv /\ AskedNameOne /\ Repairable(w) /\ Remaining(w) = left[w]
      /\ left[w] \subseteq DOMAIN asked[w] /\ left[w] \subseteq Nat
  BY DEF CrashInv, EdgeInv, LandInv, RepairInv, Remaining, TypeInv, TypeOK
<1>2. PICK at :
         /\ Cardinality(In(w, S)) \in Nat
         /\ DOMAIN P = 1 .. Cardinality(In(w, S))
         /\ at \in [1 .. Cardinality(In(w, S)) -> In(w, S)]
         /\ \A k \in DOMAIN P : P[k] = asked[w][at[k]]
         /\ \A i \in In(w, S) : \E k \in DOMAIN P : at[k] = i
         /\ \A j, k \in DOMAIN P : at[j] < at[k] => j < k
  BY <1>1, PartIs
<1>3. \A i \in In(w, S) : /\ i \in left[w] /\ i \in Lost(w) /\ IsAdd(asked[w][i])
                          /\ ~ NoOp(asked[w][i], view)
                          /\ GraphNodes({asked[w][i]}) \subseteq S
  BY DEF In, Lost
<1>4. \A i \in Lost(w) : GraphNodes({asked[w][i]}) \cap S # {} => i \in In(w, S)
  BY <1>1, ComponentIsWhole
<1> HIDE DEF P, view
<1>5. \A k \in DOMAIN P : at[k] \in In(w, S)
  BY <1>2
<1>6. WellFormed(P)
  BY <1>1, <1>2, <1>3, <1>5 DEF WellFormed, Repairable
<1>7. Reachable(P, view)
  <2>1. SUFFICES ASSUME NEW k \in DOMAIN P, P[k].op = "add_edge",
                        NEW n \in EndsOf(P[k]), n \notin DOMAIN view.nodes
                 PROVE  \E l \in 1 .. k - 1 : P[l].op = "add_node" /\ n \in P[l].uids
    BY DEF Reachable
  <2>2. P[k] = asked[w][at[k]] /\ at[k] \in left[w] /\ at[k] \in In(w, S)
    BY <1>2, <1>3, <1>5
  <2>3. PICK j \in left[w] : /\ j < at[k] /\ asked[w][j].op = "add_node"
                             /\ n \in asked[w][j].uids
    BY <1>1, <2>1, <2>2 DEF Repairable, CoveredLeft, view
  <2>4. j \in Lost(w)
    BY <2>1, <2>3 DEF Lost, IsAdd, NoOp, view
  <2>5. n \in S
    BY <1>3, <2>1, <2>2, OneGraphNodes
  <2>6. GraphNodes({asked[w][j]}) = asked[w][j].uids
    BY <2>3, OneGraphNodes
  <2>7. PICK l \in DOMAIN P : at[l] = j
    BY <1>2, <1>4, <2>3, <2>4, <2>5, <2>6
  <2>8. l < k
    BY <1>2, <2>3, <2>7
  <2>9. l \in 1 .. k - 1 /\ P[l] = asked[w][j]
    BY <1>2, <2>7, <2>8
  <2>10. QED  BY <2>3, <2>9
<1>8. Connected(P, view)
  <2> DEFINE adds == {c \in {P[k] : k \in DOMAIN P \ no_op_indices(P, view)} : IsAdd(c)}
  <2>1. no_op_indices(P, view) = {}
    BY <1>2, <1>3, <1>5 DEF no_op_indices
  <2>2. ASSUME NEW c \in adds
        PROVE  c \in InGraph(w, S)
    BY <1>2, <1>5 DEF InGraph
  <2>3. ASSUME NEW c \in InGraph(w, S)
        PROVE  c \in adds
    <3>1. PICK i \in In(w, S) : c = asked[w][i]
      BY DEF InGraph
    <3>2. PICK k \in DOMAIN P : at[k] = i
      BY <1>2
    <3>3. P[k] = c /\ IsAdd(c)
      BY <1>2, <1>3, <3>1, <3>2
    <3>4. QED  BY <2>1, <3>3
  <2>4. adds = InGraph(w, S)
    BY <2>2, <2>3
  <2>5. WeaklyConnected(InGraph(w, S))
    BY <1>1, ComponentIsWhole
  <2>6. \E c \in InGraph(w, S) : c.op = "add_edge" /\ EndsOf(c) \cap DOMAIN view.nodes # {}
    BY ComponentHangsOn DEF view
  <2> HIDE DEF adds
  <2>7. adds # {} =>
          /\ \E c \in adds : c.op = "add_edge" /\ EndsOf(c) \cap DOMAIN view.nodes # {}
          /\ WeaklyConnected(adds)
    BY <2>4, <2>5, <2>6
  <2>8. QED  BY <2>7 DEF Connected, adds
<1>9. QED  BY <1>6, <1>7, <1>8 DEF Admissible, P, view

(* Whatever other writers pushed before, between and after, each connected  *)
(* part of what a crash has left unlanded is a contribution the gates       *)
(* accept.                                                                  *)
THEOREM CrashesAreRepairable ==
  ASSUME GenesisEdgesTied, KindAssumption, OneUidAssumption
  PROVE  Spec => []CrashIsRepairable
<1>1. Init => CrashInv
  <2>1. Init => KindInv /\ AskedNameOne
    BY DEF Init, KindInv, KindAssumption, AskedNameOne
  <2>2. QED  BY <2>1, EdgeInvInit, RepairInvInit DEF CrashInv
<1>2. CrashInv /\ [Next]_vars => CrashInv'
  <2> SUFFICES ASSUME CrashInv, [Next]_vars
               PROVE  CrashInv'
    OBVIOUS
  <2>2. EdgeInv /\ KindInv /\ AskedNameOne /\ RepairInv /\ LandInv /\ TypeInv
    BY DEF CrashInv, EdgeInv, LandInv
  <2>3. EdgeInv'
    BY <2>2, EdgeInvStep
  <2>4. KindInv' /\ AskedNameOne' /\ RepairInv'
    BY <2>2, KindInvStep, AskedNameOneStep, RepairInvStep
  <2>5. QED  BY <2>3, <2>4 DEF CrashInv
<1>3. CrashInv => CrashIsRepairable
  BY PartIsAdmissible DEF CrashIsRepairable
<1>4. QED  BY <1>1, <1>2, <1>3, PTL DEF Spec

-----------------------------------------------------------------------------
(* With one writer, what is retired stays retired.  Nothing in the gates    *)
(* forbids a contribution that adds a node again after it has retired it,   *)
(* or a supersede without a successor: the theorem is about contributions   *)
(* that do neither.  Inductive is that an addition still to be pushed is of *)
(* a node that is not retired, which races with a second writer would break. *)

Retires(c, n) == c.op \in {"deprecate", "supersede"} /\ n \in c.uids

NeverRevives(contribution) ==
    \A j \in DOMAIN contribution :
        /\ contribution[j].op = "supersede" => contribution[j].new # {}
        /\ contribution[j].op = "add_node" =>
               \A n \in contribution[j].uids : \A i \in 1 .. j - 1 : ~ Retires(contribution[i], n)

NoRevivalAssumption == \A c \in Contributions : NeverRevives(c)
AskedNeverRevives == \A w \in Writer : NeverRevives(asked[w])

Unretired(view, n) ==
    n \in DOMAIN view.nodes =>
        ~ view.nodes[n].deprecated /\ view.nodes[n].superseded_by = {}

AddsUnretired(w) ==
    \A i \in Remaining(w) :
        asked[w][i].op = "add_node" =>
            \A n \in asked[w][i].uids : Unretired(replay(log), n)

AdditionsUnretired == Readable => \A w \in Writer : AddsUnretired(w)

(* What one more record c does to the marks of a node. *)
MarksFollow(old, after, c, n) ==
    /\ n \in DOMAIN old => n \in DOMAIN after
    /\ n \in DOMAIN old /\ n \notin c.uids => after[n] = old[n]
    /\ n \in DOMAIN old /\ n \in c.uids /\ ~ IsAdd(c) =>
          /\ after[n].deprecated <=> (old[n].deprecated \/ c.op = "deprecate")
          /\ after[n].superseded_by = IF c.op = "supersede" THEN c.new ELSE old[n].superseded_by
    /\ n \in DOMAIN after /\ n \in c.uids /\ IsAdd(c) =>
          ~ after[n].deprecated /\ after[n].superseded_by = {}
    /\ n \notin DOMAIN old /\ n \in DOMAIN after => n \in c.uids /\ IsAdd(c)

LEMMA MarksAppend ==
  ASSUME NEW recs \in Seq(Record), NEW r \in Record, NEW n \in Node,
         \A i \in 1 .. Len(recs) : OfItsKind(recs[i].change), OfItsKind(r.change)
  PROVE  MarksFollow(replay(recs).nodes, replay(Append(recs, r)).nodes, r.change, n)
<1> DEFINE c     == r.change
           old   == replay(recs).nodes
           after == replay(Append(recs, r)).nodes
           E     == LatestEntry(recs, n)
           F     == LatestEntry(Append(recs, r), n)
<1>1. MeansLatest(recs)
  BY ReplayIsLatest
<1>2. MeansLatest(Append(recs, r)) /\ Len(recs) \in Nat /\ c \in Change
  <2>1. /\ Append(recs, r) \in Seq(Record) /\ Len(Append(recs, r)) = Len(recs) + 1
        /\ Append(recs, r)[Len(recs) + 1] = r /\ Len(recs) \in Nat
        /\ \A i \in 1 .. Len(recs) : Append(recs, r)[i] = recs[i]
    BY OneMore
  <2>2. \A i \in 1 .. Len(Append(recs, r)) : OfItsKind(Append(recs, r)[i].change)
    BY <2>1
  <2>3. QED  BY <2>1, <2>2, ReplayIsLatest DEF Record
<1>3. /\ n \in DOMAIN old => old[n] = E
      /\ n \in DOMAIN after => after[n] = F
  BY <1>1, <1>2 DEF MeansLatest
<1>4. /\ n \notin c.uids => F = E
      /\ n \in c.uids /\ c.op = "add_node" => F = Fresh(c)
      /\ n \in c.uids /\ ~ IsAdd(c) => F = Mutate(E, c)
  BY EntryAppend
<1>5. E = [meta |-> E.meta, deprecated |-> E.deprecated,
           superseded_by |-> E.superseded_by, equivalent_to |-> E.equivalent_to]
  BY DEF LatestEntry
<1>6. DOMAIN after = IF c.op = "add_node" THEN DOMAIN old \cup c.uids ELSE DOMAIN old
  <2>1. IsView(replay(recs)) /\ replay(Append(recs, r)) = Apply(replay(recs), c)
    BY <1>2, ReplayIsView, ReplayAppend
  <2>2. old = replay(recs).nodes /\ after = Apply(replay(recs), c).nodes
    BY <2>1
  <2> HIDE DEF c, old, after
  <2>3. DOMAIN Apply(replay(recs), c).nodes =
           IF c.op = "add_node" THEN DOMAIN replay(recs).nodes \cup c.uids
                                ELSE DOMAIN replay(recs).nodes
    BY <2>1, ApplyDomains, Zenon
  <2>4. QED  BY <2>2, <2>3
<1>7. OfItsKind(c) /\ n \notin Edge
  BY UidAssumption
<1> HIDE DEF old, after, E, F, c
<1>8. n \in c.uids /\ IsAdd(c) => c.op = "add_node"
  BY <1>7 DEF OfItsKind, IsAdd
<1>9. n \in c.uids /\ ~ IsAdd(c) =>
         /\ F.deprecated <=> (E.deprecated \/ c.op = "deprecate")
         /\ F.superseded_by = IF c.op = "supersede" THEN c.new ELSE E.superseded_by
  <2>1. SUFFICES ASSUME n \in c.uids, ~ IsAdd(c)
                 PROVE  /\ F.deprecated <=> (E.deprecated \/ c.op = "deprecate")
                        /\ F.superseded_by = IF c.op = "supersede" THEN c.new ELSE E.superseded_by
    OBVIOUS
  <2>2. F = Mutate(E, c) /\ c.op \in {"edit_meta", "deprecate", "supersede", "equate"}
    BY <1>2, <1>4, <2>1 DEF Change, CHANGE_OPS, IsAdd
  <2>3. CASE c.op = "edit_meta"
    BY <1>5, <2>2, <2>3 DEF Mutate
  <2>4. CASE c.op = "deprecate"
    BY <1>5, <2>2, <2>4 DEF Mutate
  <2>5. CASE c.op = "supersede"
    BY <1>5, <2>2, <2>5 DEF Mutate
  <2>6. CASE c.op = "equate"
    BY <1>5, <2>2, <2>6 DEF Mutate
  <2>7. QED  BY <2>2, <2>3, <2>4, <2>5, <2>6
<1>10. n \in c.uids /\ IsAdd(c) => ~ F.deprecated /\ F.superseded_by = {}
  BY <1>4, <1>8 DEF Fresh
<1>11. /\ n \in DOMAIN old => n \in DOMAIN after
       /\ n \notin DOMAIN old /\ n \in DOMAIN after => n \in c.uids /\ IsAdd(c)
  BY <1>6 DEF IsAdd
<1>12. n \in DOMAIN old /\ n \notin c.uids => after[n] = old[n]
  BY <1>3, <1>4, <1>11
<1>13. n \in DOMAIN old /\ n \in c.uids /\ ~ IsAdd(c) =>
         /\ after[n].deprecated <=> (old[n].deprecated \/ c.op = "deprecate")
         /\ after[n].superseded_by =
               IF c.op = "supersede" THEN c.new ELSE old[n].superseded_by
  BY <1>3, <1>9, <1>11, Zenon
<1>14. n \in DOMAIN after /\ n \in c.uids /\ IsAdd(c) =>
         ~ after[n].deprecated /\ after[n].superseded_by = {}
  BY <1>3, <1>10, Zenon
<1>15. MarksFollow(old, after, c, n)
  BY <1>11, <1>12, <1>13, <1>14 DEF MarksFollow
<1>16. QED  BY <1>15 DEF old, after, c

RetireInv == /\ LandInv /\ KindInv /\ LogOfKind
             /\ AskedNameOne /\ AskedNeverRevives /\ AdditionsUnretired

LEMMA AskedNeverRevivesStep ==
  ASSUME NoRevivalAssumption, TypeInv, AskedNeverRevives, [Next]_vars
  PROVE  AskedNeverRevives'
<1> SUFFICES ASSUME NEW w \in Writer PROVE NeverRevives(asked'[w])
  BY DEF AskedNeverRevives
<1>1. asked'[w] \in {asked[w], << >>} \cup Contributions
  BY AskedStep
<1>2. NeverRevives(<< >>)
  BY DEF NeverRevives
<1>3. QED  BY <1>1, <1>2 DEF AskedNeverRevives, NoRevivalAssumption

(* The record the writer is about to append, and the marks of a node after. *)
LEMMA AppendedMarks ==
  ASSUME LandInv, KindInv, LogOfKind, NEW w \in Writer, AppendsOne(w), NEW n \in Node
  PROVE  MarksFollow(replay(log).nodes, replay(log').nodes, asked[w][Least(left[w])], n)
<1> DEFINE m == Least(left[w])
<1>1. /\ TypeInv /\ pc[w] \in Pushing /\ log \in Seq(Record)
      /\ log' = Append(log, Pending(w))
  BY DEF LandInv, TypeInv, TypeOK, AppendsOne, Pushing
<1>2. Pending(w) \in Record /\ Pending(w).change = asked[w][m] /\ m \in DOMAIN asked[w]
  BY <1>1, PendingType
<1>3. PICK r \in Record : r = Pending(w)
  BY <1>2
<1>4. PICK recs \in Seq(Record) : recs = log
  BY <1>1
<1>5. OfItsKind(r.change) /\ \A i \in 1 .. Len(recs) : OfItsKind(recs[i].change)
  BY <1>2, <1>3, <1>4 DEF KindInv, LogOfKind
<1>6. r.change = asked[w][m] /\ log' = Append(recs, r) /\ log = recs
  BY <1>1, <1>2, <1>3, <1>4
<1> HIDE DEF m
<1>7. MarksFollow(replay(recs).nodes, replay(Append(recs, r)).nodes, r.change, n)
  BY <1>5, MarksAppend
<1>8. QED  BY <1>6, <1>7 DEF m

(* The record about to be appended adds no retired node, and is not one     *)
(* that clears a mark.                                                      *)
LEMMA NextAdditionUnretired ==
  ASSUME RetireInv, NEW w \in Writer, AppendsOne(w)
  PROVE  LET c == asked[w][Least(left[w])]
         IN /\ c.op = "add_node" => \A n \in c.uids : Unretired(replay(log), n)
            /\ c.op = "supersede" => c.new # {}
            /\ OfItsKind(c)
            /\ Least(left[w]) \in left[w] /\ left[w] \subseteq DOMAIN asked[w]
            /\ left[w] \subseteq Nat /\ \A j \in left[w] : Least(left[w]) <= j
<1>1. /\ TypeInv /\ pc[w] \in Pushing /\ Readable /\ Remaining(w) = left[w]
      /\ left[w] \subseteq Nat /\ left[w] # {} /\ left[w] \subseteq DOMAIN asked[w]
  BY DEF RetireInv, LandInv, TypeInv, TypeOK, AppendsOne, Pushing, LoopHasRecord, Readable,
         Remaining
<1>2. Least(left[w]) \in left[w] /\ \A j \in left[w] : Least(left[w]) <= j
  BY <1>1, LeastIsIn
<1>3. QED  BY <1>1, <1>2 DEF RetireInv, AdditionsUnretired, AddsUnretired, KindInv,
                             AskedNeverRevives, NeverRevives

LEMMA AdditionsUnretiredStep ==
  ASSUME OneUidAssumption, RetireInv, [Next]_vars, \A v, w \in Writer : v = w
  PROVE  AdditionsUnretired'
<1> SUFFICES ASSUME Readable', NEW u \in Writer PROVE AddsUnretired(u)'
  BY DEF AdditionsUnretired
<1>1. LandInv /\ TypeInv /\ AddsUnretired(u)
  BY StaysReadable DEF RetireInv, LandInv, AdditionsUnretired
<1>2. CASE Ended(u)
  BY <1>2 DEF Ended, AddsUnretired, Remaining
<1>3. CASE Started(u)
  <2>1. PICK contribution \in Contributions :
           /\ asked'[u] = contribution /\ log' = log
           /\ Remaining(u)' = DOMAIN contribution \ no_op_indices(contribution, replay(log))
    BY <1>3 DEF Started
  <2>2. ASSUME NEW i \in DOMAIN contribution \ no_op_indices(contribution, replay(log)),
               contribution[i].op = "add_node", NEW n \in contribution[i].uids
        PROVE  n \notin DOMAIN replay(log).nodes
    <3>1. ~ NoOp(contribution[i], replay(log)) /\ NamesOne(contribution[i])
      BY <2>1 DEF no_op_indices, OneUidAssumption
    <3>2. QED  BY <2>2, <3>1 DEF NoOp, NamesOne, IsAdd
  <2>3. QED  BY <2>1, <2>2 DEF AddsUnretired, Unretired
<1>4. CASE Stayed(u)
  <2>1. log' = log
    BY <1>4 DEF Stayed
  <2>2. QED  BY <1>1, <1>4, <2>1 DEF Stayed, AddsUnretired, Unretired
<1>5. CASE Wrote(u)
  <2> DEFINE m == Least(left[u])
             c == asked[u][m]
  <2>1. /\ AppendsOne(u) /\ asked'[u] = asked[u]
        /\ Remaining(u) = left[u] /\ Remaining(u)' = left[u] \ {m}
    BY <1>5 DEF Wrote
  <2>2. /\ m \in left[u] /\ left[u] \subseteq DOMAIN asked[u] /\ left[u] \subseteq Nat
        /\ \A j \in left[u] : m <= j
    BY <2>1, NextAdditionUnretired
  <2>3. SUFFICES ASSUME NEW i \in left[u] \ {m}, asked[u][i].op = "add_node",
                        NEW n \in asked[u][i].uids
                 PROVE  Unretired(replay(log'), n)
    BY <2>1 DEF AddsUnretired
  <2>4. Unretired(replay(log), n) /\ n \in Node
    BY <1>1, <2>1, <2>2, <2>3 DEF AddsUnretired, RetireInv, KindInv, OfItsKind
  <2>5. ~ Retires(c, n)
    <3>1. m \in 1 .. i - 1
      BY <2>2, <2>3, <1>1 DEF TypeInv, TypeOK
    <3>2. QED  BY <2>2, <2>3, <3>1 DEF RetireInv, AskedNeverRevives, NeverRevives
  <2>6. MarksFollow(replay(log).nodes, replay(log').nodes, c, n)
    BY <2>1, <2>4, AppendedMarks DEF RetireInv
  <2> HIDE DEF m, c
  <2>7. QED  BY <2>4, <2>5, <2>6 DEF MarksFollow, Unretired, Retires
<1>6. QED  BY <1>1, <1>2, <1>3, <1>4, <1>5, FateStep

(* No step clears a mark: not of a later contribution, a retry or a crash. *)
THEOREM RetiredIsForGood ==
  ASSUME \A v, w \in Writer : v = w,
         GenesisOfKind, KindAssumption, OneUidAssumption, NoRevivalAssumption
  PROVE  Spec => RetiredStaysRetired
<1> DEFINE StillRetired(old, new) ==
      \A n \in DOMAIN old.nodes :
          /\ old.nodes[n].deprecated => new.nodes[n].deprecated
          /\ old.nodes[n].superseded_by # {} => new.nodes[n].superseded_by # {}
<1>1. Init => RetireInv
  <2>1. NeverRevives(<< >>)
    BY DEF NeverRevives
  <2>2. Init => KindInv /\ LogOfKind /\ AskedNameOne /\ AskedNeverRevives
    BY <2>1 DEF Init, KindInv, KindAssumption, LogOfKind, GenesisOfKind, AskedNameOne,
                AskedNeverRevives
  <2>3. Init => AdditionsUnretired
    BY DEF Init, AdditionsUnretired, AddsUnretired, Remaining
  <2>4. QED  BY <2>2, <2>3, LandInvInit DEF RetireInv
<1>2. RetireInv /\ [Next]_vars => RetireInv'
  <2> SUFFICES ASSUME RetireInv, [Next]_vars
               PROVE  RetireInv'
    OBVIOUS
  <2>1. LandInv /\ TypeInv /\ KindInv /\ LogOfKind /\ AskedNameOne /\ AskedNeverRevives
    BY DEF RetireInv, LandInv
  <2>2. LandInv' /\ KindInv' /\ LogOfKind'
    BY <2>1, LandInvStep, KindInvStep, LogOfKindStep
  <2>3. AskedNameOne' /\ AskedNeverRevives' /\ AdditionsUnretired'
    BY <2>1, AskedNameOneStep, AskedNeverRevivesStep, AdditionsUnretiredStep
  <2>4. QED  BY <2>2, <2>3 DEF RetireInv
<1>3. RetireInv /\ [Next]_vars => [StillRetired(replay(log), replay(log'))]_vars
  <2> SUFFICES ASSUME RetireInv, [Next]_vars, NEW n \in DOMAIN replay(log).nodes
               PROVE  /\ replay(log).nodes[n].deprecated => replay(log').nodes[n].deprecated
                      /\ replay(log).nodes[n].superseded_by # {}
                            => replay(log').nodes[n].superseded_by # {}
    OBVIOUS
  <2>1. CASE log' = log
    BY <2>1
  <2>2. ASSUME NEW w \in Writer, AppendsOne(w)
        PROVE  /\ replay(log).nodes[n].deprecated => replay(log').nodes[n].deprecated
               /\ replay(log).nodes[n].superseded_by # {}
                     => replay(log').nodes[n].superseded_by # {}
    <3> DEFINE c == asked[w][Least(left[w])]
    <3>1. /\ c.op = "add_node" => \A x \in c.uids : Unretired(replay(log), x)
          /\ c.op = "supersede" => c.new # {}
          /\ OfItsKind(c)
      BY <2>2, NextAdditionUnretired
    <3>2. n \in Node /\ n \notin Edge
      BY UidAssumption DEF RetireInv, KindInv
    <3>3. MarksFollow(replay(log).nodes, replay(log').nodes, c, n)
      BY <2>2, <3>2, AppendedMarks DEF RetireInv
    <3> HIDE DEF c
    <3>4. n \in c.uids /\ IsAdd(c) => Unretired(replay(log), n)
      BY <3>1, <3>2 DEF OfItsKind, IsAdd
    <3>5. QED  BY <3>1, <3>3, <3>4 DEF MarksFollow, Unretired
  <2>3. TypeInv
    BY DEF RetireInv, LandInv
  <2>4. QED  BY <2>1, <2>2, <2>3, LogStep
<1>4. QED  BY <1>1, <1>2, <1>3, PTL DEF Spec, RetiredStaysRetired

-----------------------------------------------------------------------------
(* The same with racing writers.  A mark is cleared only by an addition of  *)
(* the node, and a writer has one under way only if the node was not in the *)
(* map when its contribution was accepted.  What the payload format allows  *)
(* and the theorem leaves out is a supersede that names no successor.       *)

NamesASuccessor(c) == c.op = "supersede" => c.new # {}
SuccessorAssumption == \A c \in Contributions : \A i \in DOMAIN c : NamesASuccessor(c[i])
AskedNameASuccessor == \A w \in Writer : \A i \in DOMAIN asked[w] : NamesASuccessor(asked[w][i])

RaceInv == LandInv /\ KindInv /\ LogOfKind /\ AskedNameASuccessor

LEMMA AskedNameASuccessorStep ==
  ASSUME SuccessorAssumption, TypeInv, AskedNameASuccessor, [Next]_vars
  PROVE  AskedNameASuccessor'
<1> SUFFICES ASSUME NEW w \in Writer, NEW i \in DOMAIN asked'[w]
             PROVE  NamesASuccessor(asked'[w][i])
  BY DEF AskedNameASuccessor
<1>1. asked'[w] \in {asked[w], << >>} \cup Contributions
  BY AskedStep
<1>2. CASE asked'[w] = << >>
  BY <1>2
<1>3. CASE asked'[w] = asked[w]
  BY <1>3 DEF AskedNameASuccessor
<1>4. CASE asked'[w] \in Contributions
  BY <1>4 DEF SuccessorAssumption
<1>5. QED  BY <1>1, <1>2, <1>3, <1>4

(* Nobody starts to add a node that is in the map. *)
LEMMA NoNewAddition ==
  ASSUME OneUidAssumption, KindAssumption, LandInv, KindInv, [Next]_vars,
         NEW n \in DOMAIN replay(log).nodes, NEW w \in Writer, Adding(w, n)'
  PROVE  Adding(w, n)
<1>1. CASE Unlanded'[w] \subseteq Unlanded[w] /\ asked'[w] = asked[w]
  BY <1>1 DEF Adding, UnderWay
<1>2. CASE Unlanded'[w] = {}
  BY <1>2 DEF Adding, UnderWay
<1>3. ASSUME NEW contribution \in Contributions, Admits(w, contribution)
      PROVE  FALSE
  <2>1. PICK i \in DOMAIN contribution \ no_op_indices(contribution, replay(log)) :
           IsAdd(contribution[i]) /\ n \in contribution[i].uids
    BY <1>3 DEF Admits, Adding, UnderWay
  <2>2. ~ NoOp(contribution[i], replay(log))
    BY <2>1 DEF no_op_indices
  <2>3. OfItsKind(contribution[i]) /\ NamesOne(contribution[i]) /\ n \notin Edge
    BY <2>1, UidAssumption DEF KindAssumption, OneUidAssumption, KindInv
  <2>4. QED  BY <2>1, <2>2, <2>3 DEF NoOp, NamesOne, OfItsKind, IsAdd
<1>4. ASSUME NEW v \in Writer, NEW contribution \in Contributions, Admits(v, contribution)
      PROVE  v = w \/ (Unlanded'[w] = Unlanded[w] /\ asked'[w] = asked[w])
  BY <1>4 DEF Admits
<1>5. ASSUME NEW v \in Writer, Lands(v)
      PROVE  Unlanded'[w] = {} \/ (Unlanded'[w] \subseteq Unlanded[w] /\ asked'[w] = asked[w])
  BY <1>5 DEF Lands
<1>6. CASE DropsSome
  BY <1>1, <1>2, <1>6 DEF DropsSome
<1>7. QED  BY <1>1, <1>2, <1>3, <1>4, <1>5, <1>6, LandingStep

(* A mark of a node that nobody is adding is there after the step. *)
LEMMA MarksStay ==
  ASSUME RaceInv, [Next]_vars, NEW n \in DOMAIN replay(log).nodes,
         \A w \in Writer : ~ Adding(w, n)
  PROVE  /\ replay(log).nodes[n].deprecated => replay(log').nodes[n].deprecated
         /\ replay(log).nodes[n].superseded_by # {} => replay(log').nodes[n].superseded_by # {}
<1>1. CASE log' = log
  BY <1>1
<1>2. ASSUME NEW w \in Writer, Lands(w)
      PROVE  /\ replay(log).nodes[n].deprecated => replay(log').nodes[n].deprecated
             /\ replay(log).nodes[n].superseded_by # {}
                   => replay(log').nodes[n].superseded_by # {}
  <2> DEFINE m == Least(left[w])
             c == asked[w][m]
  <2>1. AppendsOne(w) /\ Unlanded[w] = left[w] /\ m \in left[w]
    BY <1>2, LandedDomains DEF Lands, RaceInv
  <2>2. m \in DOMAIN asked[w]
    BY <2>1 DEF RaceInv, LandInv, TypeInv, TypeOK
  <2>3. NamesASuccessor(c)
    BY <2>2 DEF RaceInv, AskedNameASuccessor
  <2>4. ~ (IsAdd(c) /\ n \in c.uids)
    <3>1. IsAdd(c) => c \in UnderWay(w)
      BY <2>1 DEF UnderWay
    <3>2. QED  BY <3>1 DEF Adding
  <2>5. n \in Node
    BY DEF RaceInv, KindInv
  <2>6. MarksFollow(replay(log).nodes, replay(log').nodes, c, n)
    BY <2>1, <2>5, AppendedMarks DEF RaceInv
  <2> HIDE DEF m, c
  <2>7. QED  BY <2>3, <2>4, <2>6 DEF MarksFollow, NamesASuccessor
<1>3. QED  BY <1>1, <1>2, LandingStep DEF Admits, DropsSome, RaceInv

(* However writers race and die, a retired node comes back only by an       *)
(* addition that was under way when it was retired.                         *)
THEOREM RevivalsAreRaces ==
  ASSUME GenesisOfKind, KindAssumption, OneUidAssumption, SuccessorAssumption
  PROVE  Spec => RevivalIsARace
<1> DEFINE Step ==
      LET old == replay(log).nodes new == replay(log').nodes
       IN \A n \in DOMAIN old :
             (old[n].deprecated \/ old[n].superseded_by # {}) =>
                /\ \A w \in Writer : Adding(w, n)' => Adding(w, n)
                /\ \/ \E w \in Writer : Adding(w, n)
                   \/ /\ old[n].deprecated => new[n].deprecated
                      /\ old[n].superseded_by # {} => new[n].superseded_by # {}
<1>1. Init => RaceInv
  <2>1. Init => KindInv /\ LogOfKind /\ AskedNameASuccessor
    BY DEF Init, KindInv, KindAssumption, LogOfKind, GenesisOfKind, AskedNameASuccessor
  <2>2. QED  BY <2>1, LandInvInit DEF RaceInv
<1>2. RaceInv /\ [Next]_vars => RaceInv'
  <2> SUFFICES ASSUME RaceInv, [Next]_vars
               PROVE  RaceInv'
    OBVIOUS
  <2>1. LandInv /\ TypeInv /\ KindInv /\ LogOfKind /\ AskedNameASuccessor
    BY DEF RaceInv, LandInv
  <2>2. LandInv' /\ KindInv' /\ LogOfKind' /\ AskedNameASuccessor'
    BY <2>1, LandInvStep, KindInvStep, LogOfKindStep, AskedNameASuccessorStep
  <2>3. QED  BY <2>2 DEF RaceInv
<1>3. RaceInv /\ [Next]_vars => [Step]_vars
  <2> SUFFICES ASSUME RaceInv, [Next]_vars
               PROVE  Step
    OBVIOUS
  <2>1. ASSUME NEW n \in DOMAIN replay(log).nodes, NEW w \in Writer
        PROVE  Adding(w, n)' => Adding(w, n)
    BY <2>1, NoNewAddition DEF RaceInv
  <2>2. ASSUME NEW n \in DOMAIN replay(log).nodes, \A w \in Writer : ~ Adding(w, n)
        PROVE  /\ replay(log).nodes[n].deprecated => replay(log').nodes[n].deprecated
               /\ replay(log).nodes[n].superseded_by # {}
                     => replay(log').nodes[n].superseded_by # {}
    BY <2>2, MarksStay
  <2>3. QED  BY <2>1, <2>2
<1>4. QED  BY <1>1, <1>2, <1>3, PTL DEF Spec, RevivalIsARace

-----------------------------------------------------------------------------
(* The map is in one piece but for what is under way.  Inductive is the     *)
(* claim for every set of nodes, also those still to come: a set that no    *)
(* edge crosses, in the map or under way, and that holds a node of the map  *)
(* or one that is under way, holds a node the genesis put there.  A new     *)
(* contribution keeps it for being connected and attached to the map of     *)
(* that moment, wherever the attachment itself is still loose.              *)

GenesisNodes == DOMAIN replay(GenesisLog).nodes

Coming(n) == \/ n \in DOMAIN replay(log).nodes
             \/ \E w \in Writer : \E c \in UnderWay(w) : n \in GraphNodes({c})

Uncrossed(S) ==
    /\ \A e \in DOMAIN replay(log).edges : ~ Crosses(Ends[e], S)
    /\ \A w \in Writer : \A c \in UnderWay(w) :
          c.op = "add_edge" => ~ Crosses(EndsOf(c), S)

NoneDied == crashes = 0 => tail = "clean" /\ \A w \in Writer : pc[w] # "crashed"
TiedToGenesis ==
    crashes = 0 =>
        \A S \in SUBSET Node :
            Uncrossed(S) /\ (\E n \in S : Coming(n)) => \E n \in S : n \in GenesisNodes

IslandInv == LandInv /\ KindInv /\ AskedNameOne /\ NoneDied /\ TiedToGenesis

(* What a step does to what is under way, as long as nobody dies. *)
Additional(contribution, view) ==
    {c \in {contribution[i] : i \in DOMAIN contribution \ no_op_indices(contribution, view)} :
        IsAdd(c)}

Begins(w) ==
    \E contribution \in Contributions :
        /\ Connected(contribution, replay(log))
        /\ UnderWay(w)' = Additional(contribution, replay(log))
        /\ UnderWay(w) = {} /\ log' = log
        /\ \A v \in Writer \ {w} : UnderWay(v)' = UnderWay(v)

Proceeds(w) ==
    /\ AppendsOne(w)
    /\ LET c == asked[w][Least(left[w])]
       IN /\ UnderWay(w)' \subseteq UnderWay(w)
          /\ UnderWay(w) \subseteq UnderWay(w)' \cup {c}
          /\ IsAdd(c) => c \in UnderWay(w)
    /\ \A v \in Writer \ {w} : UnderWay(v)' = UnderWay(v)

SameUnderWay == log' = log /\ \A v \in Writer : UnderWay(v)' = UnderWay(v)

LEMMA CrashesStay == TypeInv /\ [Next]_vars /\ crashes' = 0 => crashes = 0
<1> SUFFICES ASSUME TypeInv, [Next]_vars, crashes' = 0
             PROVE  crashes = 0
  OBVIOUS
<1>1. crashes \in Nat
  BY DEF TypeInv, TypeOK
<1>2. ASSUME NEW w \in Writer, CrashBetween(w) \/ CrashInAppend(w) \/ CrashInMaterialize(w)
      PROVE  FALSE
  BY <1>1, <1>2 DEF CrashBetween, CrashInAppend, CrashInMaterialize, Die
<1>3. ASSUME NEW w \in Writer,
             \/ ReturnHead(w) \/ ReadFails(w) \/ Restart(w) \/ PushEdges(w)
             \/ PushRead(w) \/ PushAppend(w) \/ Rewrites(w)
      PROVE  crashes' = crashes
  BY <1>3 DEF ReturnHead, ReadFails, Restart, PushEdges, PushRead, PushAppend,
              Rewrites, OpenNodes, PushNodes, OpenEdges
<1>4. ASSUME NEW w \in Writer, NEW contribution \in Contributions, Propose(w, contribution)
      PROVE  crashes' = crashes
  BY <1>4 DEF Propose
<1>5. QED  BY <1>2, <1>3, <1>4 DEF Next, Rewrites, vars

LEMMA NoneDiedStep ==
  ASSUME TypeInv, NoneDied, [Next]_vars
  PROVE  NoneDied'
<1> SUFFICES ASSUME crashes' = 0
             PROVE  tail' = "clean" /\ \A v \in Writer : pc'[v] # "crashed"
  BY DEF NoneDied
<1> USE DEF TypeInv, TypeOK
<1>1. CASE UNCHANGED vars
  BY <1>1 DEF vars, NoneDied
<1>2. ASSUME NEW w \in Writer, CrashBetween(w) \/ CrashInAppend(w) \/ CrashInMaterialize(w)
      PROVE  FALSE
  BY <1>2 DEF CrashBetween, CrashInAppend, CrashInMaterialize, Die
<1>3. ASSUME NEW w \in Writer, NEW contribution \in Contributions, Propose(w, contribution)
      PROVE  tail' = "clean" /\ \A v \in Writer : pc'[v] # "crashed"
  BY <1>3 DEF Propose, NoneDied
<1>4. ASSUME NEW w \in Writer,
             ReturnHead(w) \/ ReadFails(w) \/ Restart(w) \/ PushEdges(w)
      PROVE  tail' = "clean" /\ \A v \in Writer : pc'[v] # "crashed"
  BY <1>4 DEF ReturnHead, ReadFails, Restart, PushEdges, Finish, NoneDied
<1>5. ASSUME NEW w \in Writer, PushRead(w) \/ PushAppend(w) \/ Rewrites(w)
      PROVE  tail' = "clean" /\ \A v \in Writer : pc'[v] # "crashed"
  BY <1>5 DEF PushRead, PushAppend, AppendLine, Rewrites, OpenNodes, PushNodes, OpenEdges, NoneDied
<1>6. QED  BY <1>1, <1>2, <1>3, <1>4, <1>5 DEF Next, Rewrites

LEMMA UnderWayStep ==
  ASSUME LandInv, NoneDied, [Next]_vars, crashes' = 0
  PROVE  \/ \E w \in Writer : Begins(w) \/ Proceeds(w)
         \/ SameUnderWay
<1> USE DEF LandInv, TypeInv, TypeOK
<1>1. CASE UNCHANGED vars
  BY <1>1 DEF vars, SameUnderWay, UnderWay, Unlanded, Readable
<1>2. ASSUME NEW w \in Writer, CrashBetween(w) \/ CrashInAppend(w) \/ CrashInMaterialize(w)
      PROVE  FALSE
  BY <1>2 DEF CrashBetween, CrashInAppend, CrashInMaterialize, Die
<1>3. ASSUME NEW w \in Writer, NEW contribution \in Contributions, Propose(w, contribution)
      PROVE  Begins(w)
  <2> DEFINE rest == DOMAIN contribution \ no_op_indices(contribution, replay(log))
  <2>1. /\ pc[w] = "idle" /\ Readable /\ Admissible(contribution, replay(log))
        /\ left' = [left EXCEPT ![w] = rest]
        /\ pc' = [pc EXCEPT ![w] = IF rest = {} THEN "head" ELSE "read"]
        /\ asked' = [asked EXCEPT ![w] = contribution]
        /\ UNCHANGED << log, tail >>
    BY <1>3 DEF Propose
  <2> HIDE DEF rest
  <2>2. Unlanded[w] = {} /\ Unlanded'[w] = rest /\ asked'[w] = contribution
    BY <2>1 DEF Unlanded, Readable, IdleHasNone
  <2>3. \A v \in Writer \ {w} : Unlanded'[v] = Unlanded[v] /\ asked'[v] = asked[v]
    BY <2>1 DEF Unlanded, Readable
  <2>4. UnderWay(w)' = Additional(contribution, replay(log)) /\ UnderWay(w) = {}
    BY <2>2 DEF UnderWay, Additional, rest
  <2>5. \A v \in Writer \ {w} : UnderWay(v)' = UnderWay(v)
    BY <2>3 DEF UnderWay
  <2>6. QED  BY <2>1, <2>4, <2>5 DEF Begins, Admissible
<1>4. crashes = 0 /\ tail = "clean" /\ \A v \in Writer : pc[v] # "crashed"
  BY CrashesStay DEF NoneDied
<1>5. ASSUME NEW w \in Writer, ReadFails(w) \/ Restart(w)
      PROVE  FALSE
  BY <1>4, <1>5 DEF ReadFails, Restart, Readable
<1>6. ASSUME NEW w \in Writer, \A v \in Writer \ {w} : left'[v] = left[v] /\ asked'[v] = asked[v]
                               /\ pc'[v] = pc[v], tail' = tail
      PROVE  \A v \in Writer \ {w} : UnderWay(v)' = UnderWay(v)
  BY <1>6 DEF UnderWay, Unlanded, Readable
<1>7. ASSUME NEW w \in Writer, ReturnHead(w)
      PROVE  SameUnderWay
  <2>1. Unlanded[w] = {} /\ Unlanded'[w] = {} /\ log' = log
    BY <1>7 DEF ReturnHead, Finish, Unlanded, Readable, IdleHasNone
  <2>2. \A v \in Writer \ {w} : UnderWay(v)' = UnderWay(v)
    BY <1>6, <1>7 DEF ReturnHead, Finish
  <2>3. QED  BY <2>1, <2>2 DEF SameUnderWay, UnderWay
<1>8. ASSUME NEW w \in Writer, PushRead(w) \/ Rewrites(w)
      PROVE  SameUnderWay
  <2>1. Unlanded'[w] = Unlanded[w] /\ asked'[w] = asked[w] /\ log' = log
    BY <1>8 DEF PushRead, Rewrites, OpenNodes, PushNodes, OpenEdges, locals, Unlanded, Readable
  <2>2. \A v \in Writer \ {w} : UnderWay(v)' = UnderWay(v)
    BY <1>6, <1>8 DEF PushRead, Rewrites, OpenNodes, PushNodes, OpenEdges, locals
  <2>3. QED  BY <2>1, <2>2 DEF SameUnderWay, UnderWay
<1>9. ASSUME NEW w \in Writer, PushEdges(w)
      PROVE  SameUnderWay
  <2>1. log' = log /\ tail' = tail /\ \A v \in Writer \ {w} : left'[v] = left[v] /\ asked'[v] = asked[v]
                               /\ pc'[v] = pc[v]
    BY <1>9 DEF PushEdges, Finish, Advance
  <2>2. \A v \in Writer \ {w} : UnderWay(v)' = UnderWay(v)
    BY <1>6, <2>1
  <2>3. CASE left[w] = {Least(left[w])}
    <3>1. Unlanded[w] = {} /\ Unlanded'[w] = {}
      BY <1>9, <2>3 DEF PushEdges, Finish, Unlanded, Readable
    <3>2. UnderWay(w)' = UnderWay(w)
      BY <3>1 DEF UnderWay
    <3>3. QED  BY <2>1, <2>2, <3>2 DEF SameUnderWay
  <2>4. CASE left[w] # {Least(left[w])}
    <3>1. Unlanded'[w] = Unlanded[w] /\ asked'[w] = asked[w]
      BY <1>9, <2>4 DEF PushEdges, Advance, Unlanded, Readable
    <3>2. UnderWay(w)' = UnderWay(w)
      BY <3>1 DEF UnderWay
    <3>3. QED  BY <2>1, <2>2, <3>2 DEF SameUnderWay
  <2>5. QED  BY <2>3, <2>4
<1>10. ASSUME NEW w \in Writer, PushAppend(w)
       PROVE  Proceeds(w)
  <2> DEFINE m == Least(left[w])
  <2>1. AppendsOne(w) /\ tail' = tail
    BY <1>4, <1>10 DEF PushAppend, AppendLine, AppendsOne
  <2>2. /\ left[w] # {} /\ left[w] \subseteq Nat
        /\ Unlanded[w] = left[w] /\ Unlanded'[w] = left[w] \ {m} /\ asked'[w] = asked[w]
    BY <1>4, <1>10, <2>1 DEF PushAppend, locals, Unlanded, Readable, LoopHasRecord, Pushing
  <2>3. m \in left[w]
    BY <2>2, LeastIsIn
  <2>4. \A v \in Writer \ {w} : UnderWay(v)' = UnderWay(v)
    BY <1>6, <1>10, <2>1 DEF PushAppend, locals
  <2> HIDE DEF m
  <2>5. /\ UnderWay(w)' \subseteq UnderWay(w)
        /\ UnderWay(w) \subseteq UnderWay(w)' \cup {asked[w][m]}
        /\ IsAdd(asked[w][m]) => asked[w][m] \in UnderWay(w)
    BY <2>2, <2>3 DEF UnderWay
  <2>6. QED  BY <2>1, <2>4, <2>5 DEF Proceeds, m
<1>11. QED  BY <1>1, <1>2, <1>3, <1>5, <1>7, <1>8, <1>9, <1>10 DEF Next, Rewrites

(* A step keeps every set of nodes tied. *)
LEMMA TiedStaysTied ==
  ASSUME IslandInv, NEW S \in SUBSET Node, crashes = 0,
         \E w \in Writer : Begins(w) \/ Proceeds(w), Uncrossed(S)', \E n \in S : Coming(n)'
  PROVE  \E n \in S : n \in GenesisNodes
<1> DEFINE V == DOMAIN replay(log).nodes
           E == DOMAIN replay(log).edges
<1>1. ASSUME Uncrossed(S), \E n \in S : Coming(n)
      PROVE  \E n \in S : n \in GenesisNodes
  BY <1>1 DEF IslandInv, TiedToGenesis
<1>2. ASSUME NEW w \in Writer, Proceeds(w)
      PROVE  Uncrossed(S) /\ \E n \in S : Coming(n)
  <2> DEFINE c == asked[w][Least(left[w])]
  <2>1. /\ DOMAIN replay(log').nodes = IF c.op = "add_node" THEN V \cup c.uids ELSE V
        /\ DOMAIN replay(log').edges = IF c.op = "add_edge" THEN E \cup c.uids ELSE E
        /\ Least(left[w]) \in left[w]
    BY <1>2, AppendedDomains DEF Proceeds, IslandInv, LandInv
  <2>2. NamesOne(c)
    BY <2>1 DEF IslandInv, LandInv, TypeInv, TypeOK, AskedNameOne
  <2>3. /\ UnderWay(w)' \subseteq UnderWay(w)
        /\ UnderWay(w) \subseteq UnderWay(w)' \cup {c}
        /\ IsAdd(c) => c \in UnderWay(w)
        /\ \A v \in Writer \ {w} : UnderWay(v)' = UnderWay(v)
    BY <1>2 DEF Proceeds
  <2>4. c.op = "add_edge" => \E e \in DOMAIN replay(log').edges : EndsOf(c) = Ends[e]
    BY <2>1, <2>2 DEF NamesOne, IsAdd, EndsOf
  <2>5. GraphNodes({c}) = IF c.op = "add_node" THEN c.uids ELSE EndsOf(c)
    BY OneGraphNodes
  <2> HIDE DEF c, V, E
  <2>6. /\ \A e \in DOMAIN replay(log').edges : ~ Crosses(Ends[e], S)
        /\ \A v \in Writer : \A d \in UnderWay(v)' : d.op = "add_edge" => ~ Crosses(EndsOf(d), S)
    BY DEF Uncrossed
  <2>7. c.op = "add_edge" => ~ Crosses(EndsOf(c), S)
    BY <2>4, <2>6
  <2>8. \A e \in E : ~ Crosses(Ends[e], S)
    BY <2>1, <2>6
  <2>9. ASSUME NEW v \in Writer, NEW d \in UnderWay(v), d.op = "add_edge"
        PROVE  ~ Crosses(EndsOf(d), S)
    <3>1. d \in UnderWay(v)' \/ d = c
      BY <2>3
    <3>2. QED  BY <2>6, <2>7, <2>9, <3>1
  <2>10. Uncrossed(S)
    BY <2>8, <2>9 DEF Uncrossed, E
  <2>11. PICK n \in S : Coming(n)'
    OBVIOUS
  <2>12. Coming(n)
    <3>1. CASE n \in DOMAIN replay(log').nodes
      <4>1. CASE n \in V
        BY <4>1 DEF Coming, V
      <4>2. CASE n \notin V
        <5>1. c.op = "add_node" /\ n \in c.uids
          BY <2>1, <3>1, <4>2
        <5>2. c \in UnderWay(w) /\ n \in GraphNodes({c})
          BY <2>3, <2>5, <5>1 DEF IsAdd
        <5>3. QED  BY <5>2 DEF Coming
      <4>3. QED  BY <4>1, <4>2
    <3>2. CASE n \notin DOMAIN replay(log').nodes
      <4>1. PICK v \in Writer : \E d \in UnderWay(v)' : n \in GraphNodes({d})
        BY <2>11, <3>2 DEF Coming
      <4>2. UnderWay(v)' \subseteq UnderWay(v)
        BY <2>3
      <4>3. QED  BY <4>1, <4>2 DEF Coming
    <3>3. QED  BY <3>1, <3>2
  <2>13. QED  BY <2>10, <2>11, <2>12
<1>3. ASSUME NEW w \in Writer, Begins(w)
      PROVE  Uncrossed(S) /\ \E n \in S : Coming(n)
  <2>1. PICK contribution \in Contributions :
           /\ Connected(contribution, replay(log))
           /\ UnderWay(w)' = Additional(contribution, replay(log))
           /\ UnderWay(w) = {} /\ log' = log
           /\ \A v \in Writer \ {w} : UnderWay(v)' = UnderWay(v)
    BY <1>3 DEF Begins
  <2> DEFINE adds == Additional(contribution, replay(log))
             W == GraphNodes(adds)
             T == S \cap W
  <2>2. HangsOn(adds, replay(log))
    BY <2>1 DEF Connected, HangsOn, Additional
  <2> HIDE DEF adds, V, E
  <2>0. \A d \in adds : GraphNodes({d}) \subseteq W
    <3>1. \A n : n \in GraphNodes(adds) <=> \E d \in adds : n \in GraphNodes({d})
      BY GraphNodesOf
    <3>2. QED  BY <3>1
  <2>3. /\ \A e \in DOMAIN replay(log).edges : ~ Crosses(Ends[e], S)
        /\ \A v \in Writer : \A d \in UnderWay(v)' : d.op = "add_edge" => ~ Crosses(EndsOf(d), S)
    BY <2>1 DEF Uncrossed
  <2>4. Uncrossed(S)
    BY <2>1, <2>3 DEF Uncrossed
  <2>5. Isolated(T, adds)
    <3>1. SUFFICES ASSUME NEW d \in adds, d.op = "add_edge"
                   PROVE  EndsOf(d) \subseteq T \/ EndsOf(d) \cap T = {}
      BY DEF Isolated
    <3>2. ~ Crosses(EndsOf(d), S)
      BY <2>1, <2>3, <3>1 DEF adds
    <3>3. EndsOf(d) \subseteq W
      <4>1. GraphNodes({d}) = EndsOf(d)
        BY <3>1, OneGraphNodes
      <4>2. GraphNodes({d}) \subseteq W
        BY <2>0
      <4>3. QED  BY <4>1, <4>2
    <3>4. QED  BY <3>2, <3>3 DEF Crosses
  <2>6. PICK n \in S : Coming(n)'
    OBVIOUS
  <2>7. CASE adds = {}
    <3>1. Coming(n)
      BY <2>1, <2>6, <2>7 DEF Coming, adds
    <3>2. QED  BY <2>4, <3>1
  <2>8. CASE adds # {} /\ T = {}
    <3>1. n \notin W
      BY <2>8
    <3>2. \A d \in adds : n \notin GraphNodes({d})
      BY <3>1, GraphNodesOf
    <3>3. Coming(n)
      BY <2>1, <2>6, <3>2 DEF Coming, adds
    <3>4. QED  BY <2>4, <3>3
  <2>9. CASE adds # {} /\ T # {}
    <3>1. T = W
      BY <2>2, <2>5, <2>9 DEF HangsOn, WeaklyConnected
    <3>2. PICK d \in adds : d.op = "add_edge" /\ EndsOf(d) \cap V # {}
      BY <2>2, <2>9 DEF HangsOn, V
    <3>3. PICK x \in EndsOf(d) : x \in V
      BY <3>2
    <3>4. x \in W
      <4>1. GraphNodes({d}) = EndsOf(d)
        BY <3>2, OneGraphNodes
      <4>2. GraphNodes({d}) \subseteq W
        BY <2>0
      <4>3. QED  BY <4>1, <4>2
    <3>5. x \in S /\ Coming(x)
      BY <3>1, <3>3, <3>4 DEF Coming, V
    <3>6. QED  BY <2>4, <3>5
  <2>10. QED  BY <2>7, <2>8, <2>9
<1>4. QED  BY <1>1, <1>2, <1>3

LEMMA IslandInvStep ==
  ASSUME KindAssumption, OneUidAssumption, IslandInv, [Next]_vars
  PROVE  IslandInv'
<1>1. LandInv /\ TypeInv /\ KindInv /\ AskedNameOne /\ NoneDied /\ TiedToGenesis
  BY DEF IslandInv, LandInv
<1>2. LandInv' /\ KindInv' /\ AskedNameOne' /\ NoneDied'
  BY <1>1, LandInvStep, KindInvStep, AskedNameOneStep, NoneDiedStep
<1>3. TiedToGenesis'
  <2>1. SUFFICES ASSUME crashes' = 0, NEW S \in SUBSET Node, Uncrossed(S)', \E n \in S : Coming(n)'
                 PROVE  \E n \in S : n \in GenesisNodes
    BY DEF TiedToGenesis, GenesisNodes
  <2>2. crashes = 0
    BY <1>1, <2>1, CrashesStay
  <2>3. CASE \E w \in Writer : Begins(w) \/ Proceeds(w)
    BY <2>1, <2>2, <2>3, TiedStaysTied
  <2>4. CASE SameUnderWay
    <3>1. Uncrossed(S)
      BY <2>1, <2>4 DEF SameUnderWay, Uncrossed
    <3>2. \E n \in S : Coming(n)
      BY <2>1, <2>4 DEF SameUnderWay, Coming
    <3>3. QED  BY <1>1, <2>2, <3>1, <3>2 DEF TiedToGenesis
  <2>5. QED  BY <1>1, <2>1, <2>3, <2>4, UnderWayStep
<1>4. QED  BY <1>2, <1>3 DEF IslandInv

(* As long as no writer has died, what no edge of the map joins to the rest *)
(* of it waits for an edge that is under way.                               *)
THEOREM IslandsAreTemporary ==
  ASSUME KindAssumption, OneUidAssumption
  PROVE  Spec => []NoIslands
<1>1. Init => IslandInv
  <2> SUFFICES ASSUME Init
               PROVE  IslandInv
    OBVIOUS
  <2>1. LandInv /\ KindInv /\ AskedNameOne /\ NoneDied
    BY LandInvInit DEF Init, KindInv, KindAssumption, AskedNameOne, NoneDied
  <2>2. \A w \in Writer : UnderWay(w) = {}
    BY DEF Init, UnderWay, Unlanded
  <2>3. TiedToGenesis
    BY <2>2 DEF Init, TiedToGenesis, Coming, GenesisNodes
  <2>4. QED  BY <2>1, <2>3 DEF IslandInv
<1>2. IslandInv /\ [Next]_vars => IslandInv'
  BY IslandInvStep
<1>3. IslandInv => NoIslands
  <2> SUFFICES ASSUME IslandInv, crashes = 0,
                      NEW S \in SUBSET (DOMAIN replay(log).nodes \ DOMAIN replay(GenesisLog).nodes),
                      S # {}, Uncrossed(S)
               PROVE  FALSE
    BY DEF NoIslands, Uncrossed
  <2>1. S \in SUBSET Node
    BY DEF IslandInv, KindInv
  <2>2. \E n \in S : Coming(n)
    BY DEF Coming
  <2>3. \E n \in S : n \in GenesisNodes
    BY <2>1, <2>2 DEF IslandInv, TiedToGenesis
  <2>4. QED  BY <2>3 DEF GenesisNodes
<1>4. QED  BY <1>1, <1>2, <1>3, PTL DEF Spec
=============================================================================
