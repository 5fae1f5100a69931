---------------------------- MODULE MapLogProofs ----------------------------
(***************************************************************************)
(* Lemmas about the data of the store: the chained record, the replay of   *)
(* an extended log, and the first position of a version.                   *)
(*                                                                         *)
(* An argument by induction over a log is made here by its smallest        *)
(* counterexample: LeastNumber provides it.                                *)
(***************************************************************************)
EXTENDS MapLog, EnumerationProofs, SequenceTheorems, TLAPS

(* f is the function replay() defines by recursion, up to position n. *)
IsViews(f, recs, n) ==
    f = [i \in 0 .. n |->
            IF i = 0 THEN EmptyView ELSE Apply(f[i - 1], recs[i].change)]

LEMMA ReplayChooses ==
  ASSUME NEW recs
  PROVE  replay(recs) = (CHOOSE f : IsViews(f, recs, Len(recs)))[Len(recs)]
BY Zenon DEF replay, IsViews

(* The recursion defines a function: its value at m is computed from the    *)
(* one at m - 1.                                                            *)
LEMMA ViewsExist ==
  ASSUME NEW recs, NEW n \in Nat
  PROVE  \E f : IsViews(f, recs, n)
<1> DEFINE T == {m \in Nat : ~ \E f : IsViews(f, recs, m)}
<1>1. SUFFICES ASSUME T # {} PROVE FALSE
  BY DEF T
<1>2. PICK m \in T : \A k \in T : m <= k
  BY <1>1, LeastNumber
<1>3. IsViews([i \in 0 .. 0 |-> EmptyView], recs, 0)
  BY DEF IsViews
<1>4. m \in Nat /\ m # 0
  BY <1>3
<1>5. m - 1 \in Nat /\ m - 1 \notin T
  BY <1>2, <1>4
<1>6. PICK f : IsViews(f, recs, m - 1)
  BY <1>5
<1> DEFINE g == [i \in 0 .. m |-> IF i = m THEN Apply(f[m - 1], recs[m].change)
                                           ELSE f[i]]
<1>7. f = [i \in 0 .. m - 1 |-> IF i = 0 THEN EmptyView
                                         ELSE Apply(f[i - 1], recs[i].change)]
  BY <1>6 DEF IsViews
<1>8. ASSUME NEW i \in 0 .. m
      PROVE  g[i] = IF i = 0 THEN EmptyView ELSE Apply(g[i - 1], recs[i].change)
  <2>1. CASE i = m
    <3>1. g[i] = Apply(f[m - 1], recs[m].change)  BY <2>1, <1>4
    <3>2. g[i - 1] = f[m - 1]  BY <2>1, <1>4
    <3>3. QED  BY <3>1, <3>2, <2>1, <1>4
  <2>2. CASE i # m /\ i = 0
    BY <2>2, <1>7, <1>4
  <2>3. CASE i # m /\ i # 0
    <3>1. i \in 1 .. m - 1  BY <2>3, <1>4
    <3>2. g[i] = f[i] /\ g[i - 1] = f[i - 1]  BY <3>1, <1>4
    <3>3. f[i] = Apply(f[i - 1], recs[i].change)  BY <1>7, <3>1
    <3>4. QED  BY <3>2, <3>3, <2>3
  <2>4. QED  BY <2>1, <2>2, <2>3
<1>9. IsViews(g, recs, m)
  BY <1>8 DEF IsViews
<1>10. QED  BY <1>9, <1>2

Agree(a, b, n) == \A i \in 1 .. n : a[i] = b[i]

(* Two logs that agree up to n have the same view at n. *)
LEMMA ViewsAgree ==
  ASSUME NEW a, NEW b, NEW n \in Nat, NEW m \in Nat, n <= m,
         Agree(a, b, n),
         NEW f, IsViews(f, a, n), NEW g, IsViews(g, b, m)
  PROVE  f[n] = g[n]
<1> DEFINE T == {k \in 0 .. n : f[k] # g[k]}
<1>1. SUFFICES ASSUME T # {} PROVE FALSE
  BY DEF T
<1>2. PICK k \in T : \A j \in T : k <= j
  <2>1. T \subseteq Nat  OBVIOUS
  <2>2. QED  BY <1>1, <2>1, LeastNumber, Zenon
<1>3. f = [i \in 0 .. n |-> IF i = 0 THEN EmptyView ELSE Apply(f[i - 1], a[i].change)]
  BY DEF IsViews
<1>4. g = [i \in 0 .. m |-> IF i = 0 THEN EmptyView ELSE Apply(g[i - 1], b[i].change)]
  BY DEF IsViews
<1>5. f[0] = EmptyView /\ g[0] = EmptyView
  BY <1>3, <1>4
<1>6. k \in 1 .. n
  BY <1>5
<1>7. f[k - 1] = g[k - 1]
  BY <1>2, <1>6
<1>8. f[k] = Apply(f[k - 1], a[k].change)
  BY <1>3, <1>6
<1>9. g[k] = Apply(g[k - 1], b[k].change)
  BY <1>4, <1>6
<1>10. a[k] = b[k]
  BY <1>6 DEF Agree
<1>11. QED  BY <1>7, <1>8, <1>9, <1>10

LEMMA ReplayEmpty == replay(<< >>) = EmptyView
<1>1. PICK f : IsViews(f, << >>, 0)
  BY ViewsExist
<1>2. IsViews(CHOOSE g : IsViews(g, << >>, 0), << >>, 0)
  BY <1>1, Zenon
<1>3. Len(<< >>) = 0
  OBVIOUS
<1>4. QED  BY <1>2, <1>3, ReplayChooses DEF IsViews

(* A record appended to the log changes the view by Apply and nothing else. *)
LEMMA ReplayAppend ==
  ASSUME NEW S, NEW recs \in Seq(S), NEW r \in S
  PROVE  replay(Append(recs, r)) = Apply(replay(recs), r.change)
<1> DEFINE n == Len(recs)
           longer == Append(recs, r)
           f == CHOOSE v : IsViews(v, recs, n)
           g == CHOOSE v : IsViews(v, longer, n + 1)
<1>1. n \in Nat /\ Len(longer) = n + 1 /\ longer[n + 1] = r
      /\ \A i \in 1 .. n : recs[i] = longer[i]
  OBVIOUS
<1>2. IsViews(f, recs, n)
  BY <1>1, ViewsExist, Zenon
<1>3. n + 1 \in Nat /\ n <= n + 1
  BY <1>1
<1>4. IsViews(g, longer, n + 1)
  BY <1>3, ViewsExist, Zenon
<1> HIDE DEF n, f, g, longer
<1>5. f[n] = g[n]
  <2>1. n \in Nat /\ Agree(recs, longer, n)  BY <1>1 DEF Agree
  <2>2. QED  BY <2>1, <1>2, <1>3, <1>4, ViewsAgree
<1>6. g[n + 1] = Apply(g[n], longer[n + 1].change)
  BY <1>1, <1>4 DEF IsViews
<1>7. replay(recs) = f[n] /\ replay(longer) = g[n + 1]
  BY <1>1, ReplayChooses, Zenon DEF f, g, n
<1>8. QED  BY <1>1, <1>5, <1>6, <1>7, Zenon DEF longer

-----------------------------------------------------------------------------
(* A view is a record of entries, and a change only ever adds to it. *)

IsView(view) == view = [nodes |-> view.nodes, edges |-> view.edges]

LEMMA ApplyDomains ==
  ASSUME NEW view, IsView(view), NEW c
  PROVE  /\ IsView(Apply(view, c))
         /\ DOMAIN Apply(view, c).nodes =
               IF c.op = "add_node" THEN DOMAIN view.nodes \cup c.uids ELSE DOMAIN view.nodes
         /\ DOMAIN Apply(view, c).edges =
               IF c.op = "add_edge" THEN DOMAIN view.edges \cup c.uids ELSE DOMAIN view.edges
<1> DEFINE N == view.nodes
           E == view.edges
<1>1. view = [nodes |-> N, edges |-> E]
  BY DEF IsView
<1> HIDE DEF N, E
<1>2. CASE c.op = "add_node"
  <2>1. Apply(view, c) = [nodes |-> Insert(N, c), edges |-> E]
    BY <1>1, <1>2 DEF Apply
  <2>2. DOMAIN Insert(N, c) = DOMAIN N \cup c.uids
    BY DEF Insert
  <2>3. QED  BY <1>1, <1>2, <2>1, <2>2 DEF IsView
<1>3. CASE c.op = "add_edge"
  <2>1. Apply(view, c) = [nodes |-> N, edges |-> Insert(E, c)]
    BY <1>1, <1>3 DEF Apply
  <2>2. DOMAIN Insert(E, c) = DOMAIN E \cup c.uids
    BY DEF Insert
  <2>3. QED  BY <1>1, <1>3, <2>1, <2>2 DEF IsView
<1>4. CASE c.op # "add_node" /\ c.op # "add_edge"
  <2>1. Apply(view, c) = [nodes |-> Touch(N, c), edges |-> Touch(E, c)]
    BY <1>1, <1>4 DEF Apply
  <2>2. DOMAIN Touch(N, c) = DOMAIN N /\ DOMAIN Touch(E, c) = DOMAIN E
    BY DEF Touch
  <2>3. QED  BY <1>1, <1>4, <2>1, <2>2 DEF IsView
<1>5. QED  BY <1>2, <1>3, <1>4

LEMMA ReplayIsView ==
  ASSUME NEW recs, Len(recs) \in Nat
  PROVE  IsView(replay(recs))
<1> DEFINE n == Len(recs)
           f == CHOOSE g : IsViews(g, recs, n)
           T == {k \in 0 .. n : ~ IsView(f[k])}
<1>1. IsViews(f, recs, n)
  BY ViewsExist, Zenon
<1> HIDE DEF f
<1>2. \A k \in 0 .. n : f[k] = IF k = 0 THEN EmptyView ELSE Apply(f[k - 1], recs[k].change)
  BY <1>1 DEF IsViews
<1>3. T = {}
  <2> SUFFICES ASSUME T # {} PROVE FALSE
    OBVIOUS
  <2>1. PICK k \in T : \A j \in T : k <= j
    <3>1. T \subseteq Nat  OBVIOUS
    <3>2. QED  BY <3>1, LeastNumber, Zenon
  <2>2. IsView(EmptyView)
    BY DEF IsView, EmptyView
  <2>3. k \in 1 .. n
    BY <1>2, <2>2
  <2>4. IsView(f[k - 1])
    BY <2>1, <2>3
  <2>5. IsView(f[k])
    <3>1. f[k] = Apply(f[k - 1], recs[k].change)  BY <1>2, <2>3
    <3>2. IsView(Apply(f[k - 1], recs[k].change))  BY <2>4, ApplyDomains, Zenon
    <3>3. QED  BY <3>1, <3>2
  <2>6. QED  BY <2>5
<1>4. replay(recs) = f[n]
  BY ReplayChooses, Zenon DEF f
<1>5. QED  BY <1>3, <1>4

-----------------------------------------------------------------------------
(* The record push() builds: its version commits to prev, seq and change,   *)
(* and is one longer than prev.                                             *)
LEMMA NextRecordType ==
  ASSUME NEW recs \in Seq(Record), NEW c \in Change
  PROVE  /\ NextRecord(recs, c) \in Record
         /\ NextRecord(recs, c).change = c
         /\ NextRecord(recs, c).prev = head(recs)
         /\ NextRecord(recs, c).seq =
               IF recs = << >> THEN 1 ELSE recs[Len(recs)].seq + 1
         /\ NextRecord(recs, c).version =
               Append(head(recs), [seq |-> NextRecord(recs, c).seq, change |-> c])
<1>1. recs # << >> => Len(recs) \in 1 .. Len(recs)
  OBVIOUS
<1>2. recs # << >> => recs[Len(recs)] \in Record
  BY <1>1
<1>3. head(recs) \in Version
  BY <1>2 DEF head, GENESIS_PREV, Record, Version
<1>4. (IF recs = << >> THEN 1 ELSE recs[Len(recs)].seq + 1) \in Nat
  BY <1>2 DEF Record
<1>5. QED
  BY <1>3, <1>4 DEF NextRecord, make_record, version_hash, Record, Version

(* The first position of a version does not move when the log grows. *)
LEMMA FirstPositionStable ==
  ASSUME NEW S, NEW recs \in Seq(S), NEW r \in S, NEW k \in 1 .. Len(recs)
  PROVE  /\ FirstPosition(recs, recs[k].version) \in 1 .. Len(recs)
         /\ FirstPosition(Append(recs, r), recs[k].version)
              = FirstPosition(recs, recs[k].version)
<1> DEFINE v == recs[k].version
           old == Positions(recs, v)
           new == Positions(Append(recs, r), v)
           First(T, x) == x \in T /\ \A j \in T : x <= j
<1>1. Len(recs) \in Nat /\ Len(Append(recs, r)) = Len(recs) + 1
      /\ \A i \in 1 .. Len(recs) : Append(recs, r)[i] = recs[i]
  OBVIOUS
<1>2. k \in old /\ old \subseteq 1 .. Len(recs) /\ old \subseteq Nat
  BY DEF Positions
<1>3. old \subseteq new /\ new \subseteq old \cup {Len(recs) + 1}
  BY <1>1 DEF Positions
<1>4. PICK x \in old : \A j \in old : x <= j
  BY <1>2, LeastNumber, Zenon
<1>5. x \in 1 .. Len(recs)
  BY <1>2, <1>4
<1>6. First(new, x) /\ First(old, x)
  BY <1>1, <1>2, <1>3, <1>4, <1>5
<1>7. \A y : (First(old, y) => y = x) /\ (First(new, y) => y = x)
  BY <1>1, <1>2, <1>3, <1>4, <1>5
<1>8. FirstPosition(recs, v) = x
  BY <1>6, <1>7 DEF FirstPosition
<1>9. FirstPosition(Append(recs, r), v) = x
  BY <1>6, <1>7 DEF FirstPosition
<1>10. QED  BY <1>5, <1>8, <1>9
(* A version reads the same in the longer log. *)
LEMMA ReadStable ==
  ASSUME NEW recs \in Seq(Record), NEW r \in Record, NEW i \in 1 .. Len(recs)
  PROVE  read(Append(recs, r), recs[i].version) = read(recs, recs[i].version)
<1> DEFINE v == recs[i].version
           k == FirstPosition(recs, v)
<1>1. k \in 1 .. Len(recs) /\ FirstPosition(Append(recs, r), v) = k
  BY FirstPositionStable
<1>2. Append(recs, r) \in Seq(Record) /\ Len(Append(recs, r)) = Len(recs) + 1
      /\ \A j \in 1 .. Len(recs) : Append(recs, r)[j] = recs[j]
  BY AppendProperties
<1> HIDE DEF k
<1>3. SubSeq(Append(recs, r), 1, k) = SubSeq(recs, 1, k)
  BY <1>1, <1>2
<1>4. QED  BY <1>1, <1>3 DEF read, k
-----------------------------------------------------------------------------
(* The seq of a record is the length of the history its version commits to. *)
SeqIsDepth(recs) == \A i \in 1 .. Len(recs) : Len(recs[i].version) = recs[i].seq

LEMMA RecomputedDepth ==
  ASSUME NEW recs \in Seq(Record), Recomputes(recs), NEW i \in 1 .. Len(recs)
  PROVE  Len(recs[i].version) = Len(recs[i].prev) + 1
<1>1. recs[i] \in Record
  OBVIOUS
<1>2. recs[i].prev \in Version /\ [seq |-> recs[i].seq, change |-> recs[i].change]
                                    \in [seq : Nat, change : Change]
  BY <1>1 DEF Record
<1>3. recs[i].version = Append(recs[i].prev, [seq |-> recs[i].seq,
                                              change |-> recs[i].change])
  BY DEF Recomputes, version_hash
<1>4. QED  BY <1>2, <1>3, AppendProperties DEF Version

(* In a log whose chain links, seq is dense exactly when it is the depth. *)
LEMMA LinkedDepth ==
  ASSUME NEW recs \in Seq(Record), Recomputes(recs), Linked(recs)
  PROVE  \A i \in 1 .. Len(recs) : Len(recs[i].version) = i
<1> DEFINE T == {i \in 1 .. Len(recs) : Len(recs[i].version) # i}
<1>1. SUFFICES ASSUME T # {} PROVE FALSE
  BY DEF T
<1>2. PICK k \in T : \A j \in T : k <= j
  <2>1. T \subseteq Nat  OBVIOUS
  <2>2. QED  BY <1>1, <2>1, LeastNumber, Zenon
<1>3. k \in 1 .. Len(recs) /\ Len(recs) \in Nat
  OBVIOUS
<1>4. Len(recs[k].version) = Len(recs[k].prev) + 1
  BY <1>3, RecomputedDepth
<1>5. CASE k = 1
  <2>1. recs[k].prev = << >>  BY <1>3, <1>5 DEF Linked, GENESIS_PREV
  <2>2. QED  BY <1>4, <1>5, <2>1
<1>6. CASE k # 1
  <2>1. k - 1 \in 1 .. Len(recs) /\ k - 1 \notin T  BY <1>2, <1>3, <1>6
  <2>2. recs[k].prev = recs[k - 1].version  BY <1>3, <1>6 DEF Linked
  <2>3. Len(recs[k - 1].version) = k - 1  BY <2>1
  <2>4. QED  BY <1>3, <1>4, <2>2, <2>3
<1>7. QED  BY <1>5, <1>6

LEMMA DenseIsDepth ==
  ASSUME NEW recs \in Seq(Record), Recomputes(recs), Linked(recs)
  PROVE  Dense(recs) <=> SeqIsDepth(recs)
BY LinkedDepth DEF Dense, SeqIsDepth

(* In a log whose chain links no version names two lines. *)
LEMMA LinkedHeadReads ==
  ASSUME NEW recs \in Seq(Record), Recomputes(recs), Linked(recs), recs # << >>
  PROVE  read(recs, head(recs)) = replay(recs)
<1> DEFINE n == Len(recs)
<1>1. n \in Nat /\ n \in 1 .. n
  OBVIOUS
<1>2. head(recs) = recs[n].version
  BY DEF head
<1>3. \A i \in 1 .. n : recs[i].version = recs[n].version => i = n
  BY <1>1, LinkedDepth
<1>4. Positions(recs, head(recs)) = {n}
  BY <1>1, <1>2, <1>3 DEF Positions
<1>5. FirstPosition(recs, head(recs)) = n
  BY <1>1, <1>4 DEF FirstPosition
<1>6. SubSeq(recs, 1, n) = recs
  BY SubSeqFull
<1>7. QED  BY <1>5, <1>6 DEF read
=============================================================================
