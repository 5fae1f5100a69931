------------------------- MODULE ExternalSolveProofs -------------------------
(***************************************************************************)
(* An external-solve request that is accepted is valid in the map as it is   *)
(* at that moment, and a refusal says what is so.  The view a request was    *)
(* checked against is that of the head read first; the head read last is the *)
(* same version, and if no version names two lines the view of that version  *)
(* is the view of the whole log.                                             *)
(***************************************************************************)
EXTENDS ExternalSolve, MapLogProofs, FiniteSetTheorems

Readable == headSeen = request.version /\ headSeen \in Versions(log)

(* What holds between the steps of a validation. *)
SolveInv ==
    /\ log \in Seq(Record) /\ log # << >> /\ copy \in Seq(Record)
    /\ pc \in {"view", "recheck"} => Readable
    /\ pc = "recheck" => Passes(request.wish, read(log, headSeen))
-----------------------------------------------------------------------------
(* The search downstream.  f is the function downstream_of defines by        *)
(* recursion, up to n rounds.                                                *)
IsReach(f, view, seeds, n) ==
    f = [i \in 0 .. n |-> IF i = 0 THEN seeds ELSE Grow(view, f[i - 1])]

LEMMA DownstreamChooses ==
  ASSUME NEW view, NEW seeds
  PROVE  downstream_of(view, seeds) =
             (CHOOSE f : IsReach(f, view, seeds, Cardinality(Node)))[Cardinality(Node)]
BY Zenon DEF downstream_of, IsReach

LEMMA ReachExists ==
  ASSUME NEW view, NEW seeds, NEW n \in Nat
  PROVE  \E f : IsReach(f, view, seeds, n)
<1> DEFINE T == {m \in Nat : ~ \E f : IsReach(f, view, seeds, m)}
<1>1. SUFFICES ASSUME T # {} PROVE FALSE
  BY DEF T
<1>2. PICK m \in T : \A k \in T : m <= k
  BY <1>1, LeastNumber
<1>3. IsReach([i \in 0 .. 0 |-> seeds], view, seeds, 0)
  BY DEF IsReach
<1>4. m \in Nat /\ m # 0
  BY <1>3
<1>5. m - 1 \in Nat /\ m - 1 \notin T
  BY <1>2, <1>4
<1>6. PICK f : IsReach(f, view, seeds, m - 1)
  BY <1>5
<1> DEFINE g == [i \in 0 .. m |-> IF i = m THEN Grow(view, f[m - 1]) ELSE f[i]]
<1>7. f = [i \in 0 .. m - 1 |-> IF i = 0 THEN seeds ELSE Grow(view, f[i - 1])]
  BY <1>6 DEF IsReach
<1>8. ASSUME NEW i \in 0 .. m
      PROVE  g[i] = IF i = 0 THEN seeds ELSE Grow(view, g[i - 1])
  <2>1. CASE i = m
    <3>1. g[i] = Grow(view, f[m - 1])  BY <2>1, <1>4
    <3>2. g[i - 1] = f[m - 1]  BY <2>1, <1>4
    <3>3. QED  BY <3>1, <3>2, <2>1, <1>4
  <2>2. CASE i # m /\ i = 0
    BY <2>2, <1>7, <1>4
  <2>3. CASE i # m /\ i # 0
    <3>1. i \in 1 .. m - 1  BY <2>3, <1>4
    <3>2. g[i] = f[i] /\ g[i - 1] = f[i - 1]  BY <3>1, <1>4
    <3>3. f[i] = Grow(view, f[i - 1])  BY <1>7, <3>1
    <3>4. QED  BY <3>2, <3>3, <2>3
  <2>4. QED  BY <2>1, <2>2, <2>3
<1>9. IsReach(g, view, seeds, m)
  BY <1>8 DEF IsReach
<1>10. QED  BY <1>9, <1>2

LEMMA GrowMonotone ==
  ASSUME NEW view, NEW A, NEW B, A \subseteq B
  PROVE  Grow(view, A) \subseteq Grow(view, B)
BY DEF Grow

(* What is found downstream is in every set that holds the seeds and is      *)
(* closed under the live edges.                                              *)
LEMMA DownstreamInClosed ==
  ASSUME IsFiniteSet(Node), NEW view, NEW seeds, NEW C,
         seeds \subseteq C, Grow(view, C) = C
  PROVE  downstream_of(view, seeds) \subseteq C
<1> DEFINE n == Cardinality(Node)
           f == CHOOSE h : IsReach(h, view, seeds, n)
           T == {k \in 0 .. n : ~ (f[k] \subseteq C)}
<1>1. n \in Nat
  BY FS_CardinalityType
<1>2. IsReach(f, view, seeds, n)
  BY <1>1, ReachExists, Zenon
<1> HIDE DEF n, f
<1>3. f = [i \in 0 .. n |-> IF i = 0 THEN seeds ELSE Grow(view, f[i - 1])]
  BY <1>2 DEF IsReach
<1>4. ASSUME T # {} PROVE FALSE
  <2>1. PICK k \in T : \A j \in T : k <= j
    <3>1. T \subseteq Nat  BY <1>1
    <3>2. QED  BY <1>4, <3>1, LeastNumber, Zenon
  <2>2. k \in 1 .. n
    <3>1. f[0] = seeds  BY <1>1, <1>3
    <3>2. QED  BY <1>1, <3>1
  <2>3. f[k - 1] \subseteq C
    BY <1>1, <2>1, <2>2
  <2>4. f[k] = Grow(view, f[k - 1])
    BY <1>1, <1>3, <2>2
  <2>5. QED  BY <2>3, <2>4, GrowMonotone
<1>5. f[n] \subseteq C
  BY <1>1, <1>4
<1>6. QED  BY <1>5, DownstreamChooses DEF n, f

(* What passes the code's checks is valid by the reference. *)
LEMMA PassesIsValid ==
  ASSUME IsFiniteSet(Node), NEW r, NEW view, Passes(r, view)
  PROVE  Valid(r, view)
<1>1. ASSUME NEW C \in SUBSET Node, ToSet(r.outs) \subseteq C, Grow(view, C) = C
      PROVE  r.target \in C
  BY <1>1, DownstreamInClosed DEF Passes
<1>2. QED  BY <1>1 DEF Valid, Passes
-----------------------------------------------------------------------------
(* A step leaves the log alone or appends a record to it, and then nothing   *)
(* of the validation moves.                                                  *)
LEMMA SolveLogStep ==
  ASSUME SolveInv, [SolveNext]_xvars
  PROVE  /\ copy' \in Seq(Record)
         /\ \/ log' = log
            \/ /\ \E r \in Record : log' = Append(log, r)
               /\ UNCHANGED << request, pc, headSeen, verdict >>
<1>1. ASSUME NEW c \in Pushed, NEW base \in Seq(Record), Push(c, base)
      PROVE  /\ \E r \in Record : log' = Append(log, r)
             /\ UNCHANGED << request, pc, headSeen, verdict >>
  <2>1. NextRecord(base, c) \in Record
    BY <1>1, NextRecordType, SolveAssumption
  <2>2. QED  BY <1>1, <2>1 DEF Push
<1>2. ASSUME NEW c \in Pushed, PushCurrent(c) \/ PushLate(c)
      PROVE  /\ copy' \in Seq(Record)
             /\ \E r \in Record : log' = Append(log, r)
             /\ UNCHANGED << request, pc, headSeen, verdict >>
  <2>1. log \in Seq(Record) /\ copy \in Seq(Record) /\ << >> \in Seq(Record)
    BY DEF SolveInv
  <2>2. CASE PushCurrent(c)
    <3>1. Push(c, log) /\ copy' = copy  BY <2>2 DEF PushCurrent
    <3>2. QED  BY <2>1, <3>1, <1>1
  <2>3. CASE PushLate(c)
    <3>1. Push(c, copy) /\ copy' = << >>  BY <2>3 DEF PushLate
    <3>2. QED  BY <2>1, <3>1, <1>1
  <2>4. QED  BY <1>2, <2>2, <2>3
<1>3. ASSUME ReadLog PROVE copy' \in Seq(Record) /\ log' = log
  BY <1>3 DEF ReadLog, SolveInv
<1>4. ASSUME \/ \E wish \in Wishes, v \in Versions(log) \cup {Unknown} : Ask(wish, v)
             \/ ReadHead \/ NameTheVersion \/ CheckView \/ ReadHeadAgain
             \/ UNCHANGED xvars
      PROVE  copy' = copy /\ log' = log
  BY <1>4 DEF Ask, ReadHead, NameTheVersion, CheckView, ReadHeadAgain, Validating, xvars
<1>5. QED  BY <1>2, <1>3, <1>4 DEF SolveNext, SolveInv

(* A version in the log stays there, at the place it first had, and reads as *)
(* it did.                                                                   *)
LEMMA VersionsStay ==
  ASSUME NEW recs \in Seq(Record), NEW r \in Record, NEW v \in Versions(recs)
  PROVE  /\ v \in Versions(Append(recs, r))
         /\ FirstPosition(recs, v) \in 1 .. Len(recs)
         /\ FirstPosition(Append(recs, r), v) = FirstPosition(recs, v)
         /\ read(Append(recs, r), v) = read(recs, v)
<1>1. PICK i \in 1 .. Len(recs) : v = recs[i].version
  BY DEF Versions
<1>2. i \in DOMAIN Append(recs, r) /\ Append(recs, r)[i] = recs[i]
  OBVIOUS
<1>3. QED  BY <1>1, <1>2, FirstPositionStable, ReadStable DEF Versions

LEMMA HeadIsAVersion ==
  ASSUME NEW recs \in Seq(Record), recs # << >>
  PROVE  head(recs) \in Versions(recs)
<1>1. Len(recs) \in DOMAIN recs
  OBVIOUS
<1>2. QED  BY <1>1 DEF head, Versions

LEMMA SolveInvInit == SolveInit => SolveInv
BY SolveAssumption DEF SolveInit, SolveInv

LEMMA SolveInvStep == SolveInv /\ [SolveNext]_xvars => SolveInv'
<1> SUFFICES ASSUME SolveInv, [SolveNext]_xvars PROVE SolveInv'
  OBVIOUS
<1>1. CASE log' = log
  <2>1. copy' \in Seq(Record)
    BY SolveLogStep
  <2>2. ASSUME NEW wish \in Wishes, NEW v \in Versions(log) \cup {Unknown}, Ask(wish, v)
        PROVE  SolveInv'
    BY <1>1, <2>1, <2>2 DEF Ask, SolveInv
  <2>3. CASE ReadHead
    BY <1>1, <2>1, <2>3, HeadIsAVersion DEF ReadHead, Validating, SolveInv, Readable
  <2>4. CASE NameTheVersion
    BY <1>1, <2>1, <2>4 DEF NameTheVersion, Validating, End, SolveInv
  <2>5. CASE CheckView
    BY <1>1, <2>1, <2>5 DEF CheckView, Validating, End, SolveInv, Readable
  <2>6. CASE ReadHeadAgain
    BY <1>1, <2>1, <2>6 DEF ReadHeadAgain, Validating, End, SolveInv
  <2>7. ASSUME UNCHANGED << request, pc, headSeen >>  PROVE SolveInv'
    BY <1>1, <2>1, <2>7 DEF SolveInv, Readable
  <2>8. ASSUME ReadLog \/ UNCHANGED xvars \/ \E c \in Pushed : PushCurrent(c) \/ PushLate(c)
        PROVE  SolveInv'
    BY <2>7, <2>8 DEF ReadLog, PushCurrent, PushLate, Push, xvars
  <2>9. QED  BY <2>2, <2>3, <2>4, <2>5, <2>6, <2>8 DEF SolveNext
<1>2. CASE log' # log
  <2>1. PICK r \in Record : log' = Append(log, r)
    BY <1>2, SolveLogStep
  <2>2. UNCHANGED << request, pc, headSeen >> /\ copy' \in Seq(Record)
    BY <1>2, SolveLogStep
  <2>3. log' \in Seq(Record) /\ log' # << >>
    BY <2>1, AppendProperties DEF SolveInv
  <2>4. headSeen \in Versions(log) =>
            headSeen \in Versions(log') /\ read(log', headSeen) = read(log, headSeen)
    BY <2>1, VersionsStay DEF SolveInv
  <2>5. QED  BY <2>2, <2>3, <2>4 DEF SolveInv, Readable
<1>3. QED  BY <1>1, <1>2
-----------------------------------------------------------------------------
(* In a log in which no version names two lines the head reads as the map.   *)
LEMMA HeadReadsTheMap ==
  ASSUME SolveInv, NoTwins
  PROVE  read(log, head(log)) = replay(log)
<1> DEFINE n == Len(log)
           v == head(log)
<1>1. n \in Nat /\ n \in 1 .. n /\ v = log[n].version
  BY DEF SolveInv, head
<1>2. ASSUME NEW i \in 1 .. n - 1, log[i].version = v  PROVE FALSE
  <2> DEFINE f == [j \in 1 .. n - 1 |-> log[j].version]
  <2>1. Versions(log) = {f[j] : j \in 1 .. n - 1}
    BY <1>1, <1>2 DEF Versions, SolveInv
  <2>2. f \in Surjection(1 .. n - 1, Versions(log))
    BY <2>1 DEF Surjection
  <2>3. IsFiniteSet(1 .. n - 1) /\ Cardinality(1 .. n - 1) = n - 1
    BY <1>1, <1>2, FS_Interval
  <2> HIDE DEF f
  <2>4. Cardinality(Versions(log)) <= n - 1
    BY <2>2, <2>3, FS_Surjection
  <2>5. QED  BY <1>1, <2>4 DEF NoTwins
<1>3. Positions(log, v) = {n}
  BY <1>1, <1>2 DEF Positions
<1>4. FirstPosition(log, v) = n
  BY <1>1, <1>3 DEF FirstPosition
<1>5. SubSeq(log, 1, n) = log
  BY SubSeqFull DEF SolveInv
<1>6. QED  BY <1>4, <1>5 DEF read

(* A request validate_request_snapshot accepts is valid in the map as it is  *)
(* at that moment, whatever was pushed since its validation began.           *)
THEOREM AcceptedRequestsAreLive == SolveSpec => AcceptedIsLive
<1>1. SolveInv /\ [SolveNext]_xvars =>
        [verdict' = "accepted" /\ verdict # "accepted" /\ NoTwins =>
            /\ head(log) = request.version
            /\ Valid(request.wish, replay(log))]_xvars
  <2> SUFFICES ASSUME SolveInv, SolveNext, verdict' = "accepted", verdict # "accepted", NoTwins
               PROVE  /\ head(log) = request.version
                      /\ Valid(request.wish, replay(log))
    OBVIOUS
  <2>1. pc = "recheck" /\ head(log) = headSeen
    <3>1. ASSUME NEW wish \in Wishes, NEW v \in Versions(log) \cup {Unknown}, Ask(wish, v)
          PROVE  FALSE
      BY <3>1 DEF Ask
    <3>2. ASSUME ReadHead \/ NameTheVersion \/ CheckView \/ ReadLog  PROVE FALSE
      BY <3>2 DEF ReadHead, NameTheVersion, CheckView, ReadLog, Validating, End
    <3>3. ASSUME NEW c \in Pushed, PushCurrent(c) \/ PushLate(c)  PROVE FALSE
      BY <3>3 DEF PushCurrent, PushLate, Push
    <3>4. ReadHeadAgain
      BY <3>1, <3>2, <3>3 DEF SolveNext
    <3>5. QED  BY <3>4 DEF ReadHeadAgain, Validating, End
  <2>2. Passes(request.wish, read(log, headSeen)) /\ headSeen = request.version
    BY <2>1 DEF SolveInv, Readable
  <2>3. Passes(request.wish, replay(log))
    BY <2>1, <2>2, HeadReadsTheMap
  <2>4. Valid(request.wish, replay(log))
    BY <2>3, PassesIsValid, SolveAssumption
  <2>5. QED  BY <2>1, <2>2, <2>4
<1>2. QED
  BY <1>1, SolveInvInit, SolveInvStep, PTL DEF SolveSpec, AcceptedIsLive
-----------------------------------------------------------------------------
(* Conversely, what is valid passes: after as many rounds as there are nodes *)
(* the search has come to rest, since a round that finds nothing is the last *)
(* one to change anything and every other finds a node.                      *)
LEMMA GrowInNode ==
  ASSUME Out \in [Edge -> Seq(Node)], NEW view, DOMAIN view.edges \subseteq Edge,
         NEW A \in SUBSET Node
  PROVE  Grow(view, A) \in SUBSET Node /\ A \subseteq Grow(view, A)
<1>1. ASSUME NEW e \in LiveEdges(view)  PROVE ToSet(Out[e]) \subseteq Node
  <2>1. e \in Edge  BY DEF LiveEdges
  <2>2. Out[e] \in Seq(Node)  BY <2>1
  <2>3. QED  BY <2>2 DEF ToSet
<1>2. QED  BY <1>1 DEF Grow

LEMMA OneMoreFound ==
  ASSUME IsFiniteSet(Node), NEW A \in SUBSET Node, NEW B \in SUBSET Node,
         A \subseteq B, A # B, NEW k \in Nat, k <= Cardinality(A)
  PROVE  k + 1 <= Cardinality(B)
<1>1. IsFiniteSet(B)
  BY FS_Subset
<1>2. Cardinality(A) <= Cardinality(B) /\ Cardinality(A) # Cardinality(B)
  BY <1>1, FS_Subset
<1>3. Cardinality(A) \in Nat /\ Cardinality(B) \in Nat
  BY FS_Subset, FS_CardinalityType
<1>4. QED  BY <1>2, <1>3

LEMMA DownstreamIsClosed ==
  ASSUME IsFiniteSet(Node), Out \in [Edge -> Seq(Node)],
         NEW view, DOMAIN view.edges \subseteq Edge, NEW seeds \in SUBSET Node
  PROVE  LET C == downstream_of(view, seeds)
         IN  C \in SUBSET Node /\ seeds \subseteq C /\ Grow(view, C) = C
<1> DEFINE n == Cardinality(Node)
           f == CHOOSE h : IsReach(h, view, seeds, n)
           Good(k) == /\ f[k] \in SUBSET Node /\ seeds \subseteq f[k]
                      /\ Grow(view, f[k]) = f[k] \/ k <= Cardinality(f[k])
           T == {k \in 0 .. n : ~ Good(k)}
<1>0. n = Cardinality(Node)
  OBVIOUS
<1>1. n \in Nat
  BY FS_CardinalityType
<1>2. IsReach(f, view, seeds, n)
  BY <1>1, ReachExists, Zenon
<1> HIDE DEF n, f
<1>3. f = [i \in 0 .. n |-> IF i = 0 THEN seeds ELSE Grow(view, f[i - 1])]
  BY <1>2 DEF IsReach
<1>4. ASSUME T # {} PROVE FALSE
  <2>1. PICK k \in T : \A j \in T : k <= j
    <3>1. T \subseteq Nat  BY <1>1
    <3>2. QED  BY <1>4, <3>1, LeastNumber, Zenon
  <2>2. k # 0
    <3>1. f[0] = seeds  BY <1>1, <1>3
    <3>2. Cardinality(seeds) \in Nat
      BY FS_Subset, FS_CardinalityType
    <3>3. Good(0)  BY <3>1, <3>2
    <3>4. QED  BY <2>1, <3>3
  <2>3. k \in 1 .. n /\ k - 1 \in Nat /\ k - 1 \in 0 .. n /\ k - 1 < k
    BY <1>1, <2>1, <2>2
  <2>4. Good(k - 1)
    BY <1>1, <2>1, <2>3
  <2>5. f[k] = Grow(view, f[k - 1])
    BY <1>1, <1>3, <2>3
  <2>6. f[k] \in SUBSET Node /\ f[k - 1] \subseteq f[k]
    BY <2>4, <2>5, GrowInNode
  <2>7. CASE Grow(view, f[k - 1]) = f[k - 1]
    <3>1. f[k] = f[k - 1]  BY <2>5, <2>7
    <3>2. Good(k)  BY <2>4, <2>7, <3>1
    <3>3. QED  BY <2>1, <3>2
  <2>8. CASE Grow(view, f[k - 1]) # f[k - 1]
    <3>1. k - 1 <= Cardinality(f[k - 1]) /\ f[k] # f[k - 1]
      BY <2>4, <2>5, <2>8
    <3>2. (k - 1) + 1 <= Cardinality(f[k])
      BY <2>3, <2>4, <2>6, <3>1, OneMoreFound
    <3>3. Good(k)  BY <2>3, <2>4, <2>6, <3>2
    <3>4. QED  BY <2>1, <3>3
  <2>9. QED  BY <2>7, <2>8
<1>5. Good(n)
  BY <1>1, <1>4
<1>6. Grow(view, f[n]) = f[n]
  <2>1. CASE n <= Cardinality(f[n])
    <3>1. Cardinality(f[n]) <= Cardinality(Node) /\ Cardinality(f[n]) \in Nat
      <4>1. f[n] \in SUBSET Node  BY <1>5
      <4>2. IsFiniteSet(f[n]) /\ Cardinality(f[n]) <= Cardinality(Node)  BY <4>1, FS_Subset
      <4>3. QED  BY <4>2, FS_CardinalityType
    <3>2. Cardinality(f[n]) = Cardinality(Node)
      BY <1>0, <1>1, <2>1, <3>1
    <3>3. f[n] = Node
      BY <1>5, <3>2, FS_Subset
    <3>4. Grow(view, Node) \in SUBSET Node /\ Node \subseteq Grow(view, Node)
      <4>1. Node \in SUBSET Node  OBVIOUS
      <4>2. QED  BY <4>1, GrowInNode
    <3>5. Grow(view, Node) = Node  BY <3>4
    <3>6. QED  BY <3>3, <3>5
  <2>2. QED  BY <1>5, <2>1
<1>7. downstream_of(view, seeds) = f[n]
  BY DownstreamChooses DEF n, f
<1>8. QED  BY <1>5, <1>6, <1>7

LEMMA ValidPasses ==
  ASSUME IsFiniteSet(Node), Out \in [Edge -> Seq(Node)],
         NEW r, NEW view, DOMAIN view.edges \subseteq Edge, Valid(r, view)
  PROVE  Passes(r, view)
<1>1. Matches(r, view)
  BY DEF Valid
<1>2. ToSet(r.outs) \in SUBSET Node
  <2>1. r.edge \in Edge /\ r.outs = Out[r.edge]
    <3>1. r.edge \in DOMAIN view.edges /\ r.outs = Out[r.edge]  BY <1>1 DEF Matches
    <3>2. QED  BY <3>1
  <2>2. Out[r.edge] \in Seq(Node)  BY <2>1
  <2>3. r.outs \in Seq(Node)  BY <2>1, <2>2
  <2>4. QED  BY <2>3 DEF ToSet
<1>3. r.target \in downstream_of(view, ToSet(r.outs))
  BY <1>2, DownstreamIsClosed DEF Valid
<1>4. QED  BY <1>1, <1>3 DEF Passes

(* A view that was replayed has the shape of one, and edges for its edges.   *)
HasEdges(view) == /\ view = [nodes |-> view.nodes, edges |-> view.edges]
                  /\ DOMAIN view.edges \subseteq Edge

LEMMA ApplyHasEdges ==
  ASSUME NEW view, HasEdges(view), NEW c \in Change, AddsEdges(c)
  PROVE  HasEdges(Apply(view, c))
<1>1. CASE c.op = "add_node"
  <2>1. Apply(view, c) = [nodes |-> Insert(view.nodes, c), edges |-> view.edges]
    BY <1>1 DEF Apply, HasEdges
  <2>2. QED  BY <2>1 DEF HasEdges
<1>2. CASE c.op = "add_edge"
  <2>1. Apply(view, c) = [nodes |-> view.nodes, edges |-> Insert(view.edges, c)]
    BY <1>2 DEF Apply, HasEdges
  <2>2. DOMAIN Insert(view.edges, c) = DOMAIN view.edges \cup c.uids
    BY DEF Insert
  <2>3. c.uids \subseteq Edge  BY <1>2 DEF AddsEdges
  <2>4. QED  BY <2>1, <2>2, <2>3 DEF HasEdges
<1>3. CASE c.op # "add_node" /\ c.op # "add_edge"
  <2>1. Apply(view, c) = [nodes |-> Touch(view.nodes, c), edges |-> Touch(view.edges, c)]
    BY <1>3 DEF Apply
  <2>2. DOMAIN Touch(view.edges, c) = DOMAIN view.edges
    BY DEF Touch
  <2>3. QED  BY <2>1, <2>2 DEF HasEdges
<1>4. QED  BY <1>1, <1>2, <1>3

LEMMA ReplayHasEdges ==
  ASSUME NEW recs \in Seq(Record), AddOnlyEdges(recs)
  PROVE  DOMAIN replay(recs).edges \subseteq Edge
<1> DEFINE n == Len(recs)
           f == CHOOSE v : IsViews(v, recs, n)
           T == {k \in 0 .. n : ~ HasEdges(f[k])}
<1>1. n \in Nat
  OBVIOUS
<1>2. IsViews(f, recs, n)
  BY <1>1, ViewsExist, Zenon
<1> HIDE DEF f
<1>3. f = [i \in 0 .. n |-> IF i = 0 THEN EmptyView ELSE Apply(f[i - 1], recs[i].change)]
  BY <1>2 DEF IsViews
<1>4. ASSUME T # {} PROVE FALSE
  <2>1. PICK k \in T : \A j \in T : k <= j
    <3>1. T \subseteq Nat  BY <1>1
    <3>2. QED  BY <1>4, <3>1, LeastNumber, Zenon
  <2>2. k # 0
    <3>1. f[0] = EmptyView  BY <1>1, <1>3
    <3>2. DOMAIN << >> = {}  OBVIOUS
    <3>3. HasEdges(EmptyView)  BY <3>2 DEF HasEdges, EmptyView
    <3>4. QED  BY <2>1, <3>1, <3>3
  <2>3. k \in 1 .. n /\ k - 1 \in 0 .. n /\ k - 1 < k
    BY <1>1, <2>1, <2>2
  <2>4. HasEdges(f[k - 1])
    BY <1>1, <2>1, <2>3
  <2>5. f[k] = Apply(f[k - 1], recs[k].change)
    BY <1>1, <1>3, <2>3
  <2>6. recs[k].change \in Change /\ AddsEdges(recs[k].change)
    <3>1. recs[k] \in Record  BY <2>3
    <3>2. QED  BY <2>3, <3>1 DEF Record, AddOnlyEdges
  <2>7. HasEdges(f[k])  BY <2>4, <2>5, <2>6, ApplyHasEdges
  <2>8. QED  BY <2>1, <2>7
<1>5. HasEdges(f[n])
  BY <1>1, <1>4
<1>6. replay(recs) = f[n]
  BY ReplayChooses DEF f
<1>7. QED  BY <1>5, <1>6 DEF HasEdges
-----------------------------------------------------------------------------
(* What holds of a refusal, and of the steps that lead to one.               *)
RefusalInv ==
    /\ SolveInv
    /\ AddOnlyEdges(log)
    /\ pc # "idle" => verdict = "none" /\ request.version \in Versions(log) \cup {Unknown}
    /\ pc = "other version" => request.version # headSeen
    /\ verdict \in {"invalid", "changed"} => headSeen \in Versions(log)
    /\ RefusalHasItsReason

LEMMA FirstHasTheVersion ==
  ASSUME NEW recs \in Seq(Record), NEW v \in Versions(recs)
  PROVE  recs[FirstPosition(recs, v)].version = v
<1> DEFINE P == Positions(recs, v)
<1>1. P \subseteq Nat /\ P # {}
  BY DEF Versions, Positions
<1>2. \E x \in P : \A y \in P : x <= y
  BY <1>1, LeastNumber, Zenon
<1>3. FirstPosition(recs, v) \in P
  BY <1>2, Zenon DEF FirstPosition
<1>4. QED  BY <1>3 DEF Positions

(* A log is longer than its prefix up to a version other than its head.      *)
LEMMA PrefixIsShorter ==
  ASSUME NEW recs \in Seq(Record), NEW k \in 1 .. Len(recs)
  PROVE  /\ recs # SubSeq(recs, 1, k) <=> k # Len(recs)
         /\ SubSeq(recs, 1, k) \in Seq(Record) /\ Len(SubSeq(recs, 1, k)) = k
         /\ \A i \in 1 .. k : SubSeq(recs, 1, k)[i] = recs[i]
<1>1. SubSeq(recs, 1, k) \in Seq(Record) /\ Len(SubSeq(recs, 1, k)) = k
      /\ \A i \in 1 .. k : SubSeq(recs, 1, k)[i] = recs[i]
  OBVIOUS
<1>2. k = Len(recs) => SubSeq(recs, 1, k) = recs
  BY SubSeqFull
<1>3. QED  BY <1>1, <1>2

(* The view of a version in the log is one the search can be trusted in.     *)
LEMMA ReadIsValid ==
  ASSUME NEW recs \in Seq(Record), AddOnlyEdges(recs),
         NEW v \in Versions(recs), NEW r, Valid(r, read(recs, v))
  PROVE  Passes(r, read(recs, v))
<1> DEFINE k == FirstPosition(recs, v)
           past == SubSeq(recs, 1, k)
<1>1. k \in 1 .. Len(recs)
  <2>1. PICK i \in 1 .. Len(recs) : v = recs[i].version  BY DEF Versions
  <2>2. recs[i] \in Record  OBVIOUS
  <2>3. QED  BY <2>1, <2>2, FirstPositionStable
<1> HIDE DEF k
<1>2. past \in Seq(Record) /\ AddOnlyEdges(past)
  BY <1>1, PrefixIsShorter DEF AddOnlyEdges
<1>3. read(recs, v) = replay(past)
  BY DEF read, k
<1>4. DOMAIN read(recs, v).edges \subseteq Edge
  BY <1>2, <1>3, ReplayHasEdges
<1>5. QED  BY <1>4, ValidPasses, SolveAssumption

LEMMA RefusalInvInit == SolveInit => RefusalInv
BY SolveInvInit, SolveAssumption DEF SolveInit, RefusalInv, RefusalHasItsReason

(* Pushes leave a refusal its reason.                                        *)
LEMMA RefusalInvPush ==
  ASSUME RefusalInv, SolveInv', NEW c \in Pushed, PushCurrent(c) \/ PushLate(c)
  PROVE  RefusalInv'
<1>1. UNCHANGED << request, pc, headSeen, verdict >>
  BY DEF PushCurrent, PushLate, Push
<1>2. log \in Seq(Record) /\ copy \in Seq(Record)
  BY DEF RefusalInv, SolveInv
<1>3. PICK r \in Record : log' = Append(log, r) /\ r.change = c
  <2>1. PICK base \in Seq(Record) : log' = Append(log, NextRecord(base, c))
    BY <1>2 DEF PushCurrent, PushLate, Push
  <2>2. QED  BY <2>1, NextRecordType, SolveAssumption
<1>4. AddOnlyEdges(log)'
  <2>1. Len(log') = Len(log) + 1 /\ log'[Len(log) + 1] = r
        /\ \A i \in 1 .. Len(log) : log'[i] = log[i]
    BY <1>2, <1>3
  <2>2. AddsEdges(r.change)
    BY <1>3, SolveAssumption
  <2>3. AddOnlyEdges(log)
    BY DEF RefusalInv
  <2>4. ASSUME NEW i \in 1 .. Len(log')  PROVE AddsEdges(log'[i].change)
    <3>1. Len(log) \in Nat  BY <1>2
    <3>2. CASE i = Len(log) + 1  BY <2>1, <2>2, <3>2
    <3>3. CASE i # Len(log) + 1
      <4>1. i \in 1 .. Len(log)  BY <2>1, <3>1, <3>3
      <4>2. QED  BY <2>1, <2>3, <4>1 DEF AddOnlyEdges
    <3>4. QED  BY <3>2, <3>3
  <2>5. QED  BY <2>4 DEF AddOnlyEdges
<1>5. ASSUME NEW v \in Versions(log)
      PROVE  /\ v \in Versions(log')
             /\ read(log', v) = read(log, v)
             /\ log' # SubSeq(log', 1, FirstPosition(log', v))
  <2>1. /\ v \in Versions(log') /\ read(log', v) = read(log, v)
        /\ FirstPosition(log', v) \in 1 .. Len(log)
    BY <1>2, <1>3, VersionsStay
  <2>2. log' \in Seq(Record) /\ Len(log') = Len(log) + 1
    BY <1>2, <1>3
  <2>3. FirstPosition(log', v) \in 1 .. Len(log') /\ FirstPosition(log', v) # Len(log')
    BY <1>2, <2>1, <2>2
  <2>4. QED  BY <2>1, <2>2, <2>3, PrefixIsShorter
<1>6. request.version \in Versions(log) \cup {Unknown}
          => request.version \in Versions(log') \cup {Unknown}
  BY <1>5
<1>7. headSeen \in Versions(log) =>
          /\ headSeen \in Versions(log') /\ read(log', headSeen) = read(log, headSeen)
          /\ log' # SubSeq(log', 1, FirstPosition(log', headSeen))
  BY <1>5
<1>8. RefusalHasItsReason'
  BY <1>1, <1>7 DEF RefusalInv, RefusalHasItsReason
<1>9. QED  BY <1>1, <1>4, <1>6, <1>7, <1>8 DEF RefusalInv

LEMMA RefusalInvStep == RefusalInv /\ [SolveNext]_xvars => RefusalInv'
<1> SUFFICES ASSUME RefusalInv, [SolveNext]_xvars PROVE RefusalInv'
  OBVIOUS
<1>1. SolveInv'
  BY SolveInvStep DEF RefusalInv
<1>2. ASSUME NEW wish \in Wishes, NEW v \in Versions(log) \cup {Unknown}, Ask(wish, v)
      PROVE  RefusalInv'
  BY <1>1, <1>2 DEF Ask, RefusalInv, RefusalHasItsReason
<1>3. CASE ReadHead
  BY <1>1, <1>3 DEF ReadHead, Validating, RefusalInv, RefusalHasItsReason
<1>4. CASE NameTheVersion
  BY <1>1, <1>4 DEF NameTheVersion, Validating, End, RefusalInv, RefusalHasItsReason
<1>5. CASE CheckView
  <2>1. pc = "view" /\ UNCHANGED << log, request, headSeen >>
    BY <1>5 DEF CheckView, Validating, End
  <2>2. headSeen = request.version /\ headSeen \in Versions(log) /\ verdict = "none"
    BY <2>1 DEF RefusalInv, SolveInv, Readable
  <2>3. log \in Seq(Record) /\ AddOnlyEdges(log)
    BY DEF RefusalInv, SolveInv
  <2>4. CASE Passes(request.wish, read(log, headSeen))
    <3>1. pc' = "recheck" /\ verdict' = verdict
      BY <1>5, <2>4 DEF CheckView
    <3>2. QED  BY <1>1, <2>1, <2>2, <3>1 DEF RefusalInv, RefusalHasItsReason
  <2>5. CASE ~ Passes(request.wish, read(log, headSeen))
    <3>1. pc' = "idle" /\ verdict' = "invalid"
      BY <1>5, <2>5 DEF CheckView, End
    <3>2. ~ Valid(request.wish, read(log, headSeen))
      BY <2>2, <2>3, <2>5, ReadIsValid
    <3>3. RefusalHasItsReason'
      BY <2>1, <2>2, <3>1, <3>2 DEF RefusalHasItsReason
    <3>4. QED  BY <1>1, <2>1, <2>2, <2>3, <3>1, <3>3 DEF RefusalInv
  <2>6. QED  BY <2>4, <2>5
<1>6. CASE ReadHeadAgain
  <2>1. pc = "recheck" /\ UNCHANGED << log, request, headSeen >> /\ pc' = "idle"
        /\ verdict' = (IF head(log) = headSeen THEN "accepted" ELSE "changed")
    BY <1>6 DEF ReadHeadAgain, Validating, End
  <2>2. headSeen = request.version /\ headSeen \in Versions(log) /\ log \in Seq(Record)
        /\ log # << >>
    BY <2>1 DEF RefusalInv, SolveInv, Readable
  <2>3. head(log) # headSeen => log # SubSeq(log, 1, FirstPosition(log, headSeen))
    <3>1. PICK i \in 1 .. Len(log) : headSeen = log[i].version
      BY <2>2 DEF Versions
    <3>2. log[i] \in Record
      BY <2>2
    <3>3. FirstPosition(log, headSeen) \in 1 .. Len(log)
      BY <2>2, <3>1, <3>2, FirstPositionStable
    <3>4. log[FirstPosition(log, headSeen)].version = headSeen
      BY <2>2, FirstHasTheVersion
    <3>5. head(log) = log[Len(log)].version
      BY <2>2 DEF head
    <3>6. QED  BY <2>2, <3>3, <3>4, <3>5, PrefixIsShorter
  <2>4. RefusalHasItsReason'
    BY <2>1, <2>2, <2>3 DEF RefusalHasItsReason
  <2>5. QED  BY <1>1, <2>1, <2>2, <2>4 DEF RefusalInv
<1>7. ASSUME NEW c \in Pushed, PushCurrent(c) \/ PushLate(c)  PROVE RefusalInv'
  BY <1>1, <1>7, RefusalInvPush
<1>8. CASE ReadLog \/ UNCHANGED xvars
  <2>1. UNCHANGED << log, request, pc, headSeen, verdict >>
    BY <1>8 DEF ReadLog, xvars
  <2>2. QED  BY <1>1, <2>1 DEF RefusalInv, RefusalHasItsReason
<1>9. QED  BY <1>2, <1>3, <1>4, <1>5, <1>6, <1>7, <1>8 DEF SolveNext

(* What a refusal of validate_request_snapshot says of the map is so,        *)
(* whatever is pushed meanwhile and afterwards.                              *)
THEOREM RefusalsHaveReasons == SolveSpec => []RefusalHasItsReason
<1>1. RefusalInv => RefusalHasItsReason
  BY DEF RefusalInv
<1>2. QED
  BY <1>1, RefusalInvInit, RefusalInvStep, PTL DEF SolveSpec
=============================================================================
