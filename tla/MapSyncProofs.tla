--------------------------- MODULE MapSyncProofs ---------------------------
(***************************************************************************)
(* The sync tool: one --apply is enough, a re-mint is never landed as a    *)
(* plain addition, and the reports only shrink while the layer is left     *)
(* alone, whatever the layers, their order and the crashes.                *)
(*                                                                         *)
(* All rest on what landing a list of records does (LandedIs), and the     *)
(* second on the pairing of compute_sync(): if some lost element and some  *)
(* new one share an anchor, so do the first of each, and those are paired. *)
(***************************************************************************)
EXTENDS MapSync, MapLogProofs

(* Landing records of one uid. *)

OneOfItsKind(c) == /\ c.op \in CHANGE_OPS
                   /\ \E x \in Uid : /\ c.uids = {x}
                                     /\ c.op = "add_node" => x \in Node
                                     /\ c.op = "add_edge" => x \in Edge

Fields == {"meta", "deprecated", "superseded_by"}
HasFields(entries) == \A u \in DOMAIN entries : Fields \subseteq DOMAIN entries[u]

IsStore(view) ==
    /\ IsView(view)
    /\ DOMAIN view.nodes \subseteq Node /\ HasFields(view.nodes)
    /\ DOMAIN view.edges \subseteq Edge /\ HasFields(view.edges)

EntryIn(view, u) == IF u \in DOMAIN view.nodes THEN view.nodes[u] ELSE view.edges[u]
MetaIn(view, u) == IF u \in DOMAIN view.nodes THEN view.nodes[u].meta
                                              ELSE view.edges[u].meta

SaysMeta(c, u) == u \in c.uids /\ (IsAdd(c) \/ c.op = "edit_meta")

LEMMA MutateIs ==
  ASSUME NEW entry, Fields \subseteq DOMAIN entry, NEW c, c.op \in CHANGE_OPS, ~ IsAdd(c)
  PROVE  /\ Fields \subseteq DOMAIN Mutate(entry, c)
         /\ Mutate(entry, c).meta = IF c.op = "edit_meta" THEN c.meta ELSE entry.meta
         /\ c.op = "deprecate" => Mutate(entry, c).deprecated = TRUE
         /\ c.op = "supersede" => Mutate(entry, c).superseded_by = c.new
<1>1. c.op \in {"edit_meta", "deprecate", "supersede", "equate"}
  BY DEF CHANGE_OPS, IsAdd
<1>2. "meta" \in DOMAIN entry /\ "deprecated" \in DOMAIN entry /\ "superseded_by" \in DOMAIN entry
  BY DEF Fields
<1>3. CASE c.op = "edit_meta"
  BY <1>2, <1>3 DEF Mutate, Fields
<1>4. CASE c.op = "deprecate"
  <2>1. Mutate(entry, c) = [entry EXCEPT !.deprecated = TRUE]
    BY <1>4 DEF Mutate
  <2>2. DOMAIN Mutate(entry, c) = DOMAIN entry
    BY <2>1
  <2>3. Mutate(entry, c).meta = entry.meta /\ Mutate(entry, c).deprecated = TRUE
    BY <1>2, <2>1
  <2>4. QED
    BY <1>4, <2>2, <2>3
<1>5. CASE c.op = "supersede"
  BY <1>2, <1>5 DEF Mutate, Fields
<1>6. CASE c.op = "equate"
  BY <1>2, <1>6 DEF Mutate, Fields
<1>7. QED
  BY <1>1, <1>3, <1>4, <1>5, <1>6

LEMMA TouchMeta ==
  ASSUME NEW entries, HasFields(entries), NEW c, c.op \in CHANGE_OPS, ~ IsAdd(c)
  PROVE  /\ DOMAIN Touch(entries, c) = DOMAIN entries
         /\ HasFields(Touch(entries, c))
         /\ \A u \in DOMAIN entries :
               Touch(entries, c)[u].meta = IF SaysMeta(c, u) THEN c.meta ELSE entries[u].meta
<1>1. /\ DOMAIN Touch(entries, c) = DOMAIN entries
      /\ \A u \in DOMAIN entries :
            Touch(entries, c)[u] = IF u \in c.uids THEN Mutate(entries[u], c) ELSE entries[u]
  BY DEF Touch
<1>2. ASSUME NEW u \in DOMAIN entries
      PROVE  /\ Fields \subseteq DOMAIN Mutate(entries[u], c)
             /\ Mutate(entries[u], c).meta = IF c.op = "edit_meta" THEN c.meta
                                                                   ELSE entries[u].meta
  BY MutateIs DEF HasFields
<1>3. QED
  BY <1>1, <1>2 DEF HasFields, SaysMeta

LEMMA InsertMeta ==
  ASSUME NEW entries, HasFields(entries), NEW c
  PROVE  /\ DOMAIN Insert(entries, c) = DOMAIN entries \cup c.uids
         /\ HasFields(Insert(entries, c))
         /\ \A u \in DOMAIN entries \cup c.uids :
               Insert(entries, c)[u].meta = IF u \in c.uids THEN c.meta ELSE entries[u].meta
<1>1. Fields \subseteq DOMAIN Fresh(c) /\ Fresh(c).meta = c.meta
  BY DEF Fresh, Fields
<1>2. /\ DOMAIN Insert(entries, c) = DOMAIN entries \cup c.uids
      /\ \A u \in DOMAIN entries \cup c.uids :
            Insert(entries, c)[u] = IF u \in c.uids THEN Fresh(c) ELSE entries[u]
  BY DEF Insert
<1>3. QED
  BY <1>1, <1>2 DEF HasFields

LEMMA ApplyOne ==
  ASSUME NEW view, IsStore(view), NEW c, OneOfItsKind(c)
  PROVE  /\ IsStore(Apply(view, c))
         /\ KnownUids(Apply(view, c)) = KnownUids(view) \cup (IF IsAdd(c) THEN c.uids ELSE {})
         /\ \A u \in KnownUids(Apply(view, c)) :
               MetaIn(Apply(view, c), u) = IF SaysMeta(c, u) THEN c.meta ELSE MetaIn(view, u)
<1> DEFINE N == view.nodes
           E == view.edges
           new == Apply(view, c)
<1>1. /\ view = [nodes |-> N, edges |-> E]
      /\ DOMAIN N \subseteq Node /\ DOMAIN E \subseteq Edge /\ HasFields(N) /\ HasFields(E)
      /\ Node \cap Edge = {}
  BY UidAssumption DEF IsStore, IsView
<1>2. PICK x \in Uid : /\ c.uids = {x}
                       /\ c.op = "add_node" => x \in Node
                       /\ c.op = "add_edge" => x \in Edge
  BY DEF OneOfItsKind
<1>3. c.op \in CHANGE_OPS
  BY DEF OneOfItsKind
<1>4. IsView(new)
  BY ApplyDomains, Zenon DEF IsStore
<1>5. CASE c.op = "add_node"
  <2>1. new.nodes = Insert(N, c) /\ new.edges = E
    BY <1>1, <1>5 DEF Apply
  <2> HIDE DEF N, E, new
  <2>2. /\ DOMAIN Insert(N, c) = DOMAIN N \cup c.uids /\ HasFields(Insert(N, c))
        /\ \A u \in DOMAIN N \cup c.uids :
              Insert(N, c)[u].meta = IF u \in c.uids THEN c.meta ELSE N[u].meta
    BY <1>1, InsertMeta
  <2>3. IsStore(new)
    BY <1>1, <1>2, <1>4, <1>5, <2>1, <2>2 DEF IsStore
  <2>4. KnownUids(new) = DOMAIN N \cup DOMAIN E \cup c.uids
    BY <2>1, <2>2 DEF KnownUids
  <2>5. ASSUME NEW u \in KnownUids(new)
        PROVE  MetaIn(new, u) = IF SaysMeta(c, u) THEN c.meta
                                ELSE IF u \in DOMAIN N THEN N[u].meta ELSE E[u].meta
    BY <1>1, <1>2, <1>5, <2>1, <2>2, <2>4, <2>5 DEF MetaIn, SaysMeta, IsAdd
  <2>6. QED
    BY <1>5, <2>3, <2>4, <2>5 DEF MetaIn, KnownUids, IsAdd, N, E, new
<1>6. CASE c.op = "add_edge"
  <2>1. new.nodes = N /\ new.edges = Insert(E, c)
    BY <1>1, <1>6 DEF Apply
  <2> HIDE DEF N, E, new
  <2>2. /\ DOMAIN Insert(E, c) = DOMAIN E \cup c.uids /\ HasFields(Insert(E, c))
        /\ \A u \in DOMAIN E \cup c.uids :
              Insert(E, c)[u].meta = IF u \in c.uids THEN c.meta ELSE E[u].meta
    BY <1>1, InsertMeta
  <2>3. IsStore(new)
    BY <1>1, <1>2, <1>4, <1>6, <2>1, <2>2 DEF IsStore
  <2>4. KnownUids(new) = DOMAIN N \cup DOMAIN E \cup c.uids
    BY <2>1, <2>2 DEF KnownUids
  <2>5. ASSUME NEW u \in KnownUids(new)
        PROVE  MetaIn(new, u) = IF SaysMeta(c, u) THEN c.meta
                                ELSE IF u \in DOMAIN N THEN N[u].meta ELSE E[u].meta
    BY <1>1, <1>2, <1>6, <2>1, <2>2, <2>4, <2>5 DEF MetaIn, SaysMeta, IsAdd
  <2>6. QED
    BY <1>6, <2>3, <2>4, <2>5 DEF MetaIn, KnownUids, IsAdd, N, E, new
<1>7. CASE ~ IsAdd(c)
  <2>1. new.nodes = Touch(N, c) /\ new.edges = Touch(E, c)
    BY <1>1, <1>7 DEF Apply, IsAdd
  <2> HIDE DEF N, E, new
  <2>2. /\ DOMAIN Touch(N, c) = DOMAIN N /\ HasFields(Touch(N, c))
        /\ \A u \in DOMAIN N :
              Touch(N, c)[u].meta = IF SaysMeta(c, u) THEN c.meta ELSE N[u].meta
    BY <1>1, <1>3, <1>7, TouchMeta
  <2>3. /\ DOMAIN Touch(E, c) = DOMAIN E /\ HasFields(Touch(E, c))
        /\ \A u \in DOMAIN E :
              Touch(E, c)[u].meta = IF SaysMeta(c, u) THEN c.meta ELSE E[u].meta
    BY <1>1, <1>3, <1>7, TouchMeta
  <2>4. IsStore(new)
    BY <1>1, <1>4, <2>1, <2>2, <2>3 DEF IsStore
  <2>5. KnownUids(new) = DOMAIN N \cup DOMAIN E
    BY <2>1, <2>2, <2>3 DEF KnownUids
  <2>6. ASSUME NEW u \in KnownUids(new)
        PROVE  MetaIn(new, u) = IF SaysMeta(c, u) THEN c.meta
                                ELSE IF u \in DOMAIN N THEN N[u].meta ELSE E[u].meta
    BY <2>1, <2>2, <2>3, <2>5, <2>6 DEF MetaIn
  <2>7. QED
    BY <1>7, <2>4, <2>5, <2>6 DEF MetaIn, KnownUids, N, E, new
<1>8. QED
  BY <1>5, <1>6, <1>7 DEF IsAdd

(* An entry that the record does not name. *)
LEMMA ApplyKeeps ==
  ASSUME NEW view, IsStore(view), NEW c, NEW u \in KnownUids(view), u \notin c.uids
  PROVE  EntryIn(Apply(view, c), u) = EntryIn(view, u)
<1>1. view = [nodes |-> view.nodes, edges |-> view.edges]
  BY DEF IsStore, IsView
<1>2. ASSUME NEW entries
      PROVE  /\ DOMAIN Insert(entries, c) = DOMAIN entries \cup c.uids
             /\ DOMAIN Touch(entries, c) = DOMAIN entries
             /\ u \in DOMAIN entries => /\ Insert(entries, c)[u] = entries[u]
                                        /\ Touch(entries, c)[u] = entries[u]
  BY DEF Insert, Touch
<1>3. CASE c.op = "add_node"
  <2>1. Apply(view, c).nodes = Insert(view.nodes, c) /\ Apply(view, c).edges = view.edges
    BY <1>1, <1>3 DEF Apply
  <2>2. QED
    BY <1>2, <2>1 DEF EntryIn, KnownUids
<1>4. CASE c.op = "add_edge"
  <2>1. Apply(view, c).nodes = view.nodes /\ Apply(view, c).edges = Insert(view.edges, c)
    BY <1>1, <1>4 DEF Apply
  <2>2. QED
    BY <1>2, <2>1 DEF EntryIn, KnownUids
<1>5. CASE ~ IsAdd(c)
  <2>1. /\ Apply(view, c).nodes = Touch(view.nodes, c)
        /\ Apply(view, c).edges = Touch(view.edges, c)
    BY <1>5 DEF Apply, IsAdd
  <2>2. QED
    BY <1>2, <2>1 DEF EntryIn, KnownUids
<1>6. QED
  BY <1>3, <1>4, <1>5 DEF IsAdd

(* An entry that it names, if it is no addition. *)
LEMMA ApplyMutates ==
  ASSUME NEW view, IsStore(view), NEW c, ~ IsAdd(c), NEW u \in KnownUids(view), u \in c.uids
  PROVE  EntryIn(Apply(view, c), u) = Mutate(EntryIn(view, u), c)
<1>1. /\ Apply(view, c).nodes = Touch(view.nodes, c)
      /\ Apply(view, c).edges = Touch(view.edges, c)
  BY DEF Apply, IsAdd
<1>2. ASSUME NEW entries
      PROVE  /\ DOMAIN Touch(entries, c) = DOMAIN entries
             /\ u \in DOMAIN entries => Touch(entries, c)[u] = Mutate(entries[u], c)
  BY DEF Touch
<1>3. QED
  BY <1>1, <1>2 DEF EntryIn, KnownUids
-----------------------------------------------------------------------------
(* Landing a list of records. *)

IsLanding(f, view, records, n) ==
    f = [i \in 0 .. n |-> IF i = 0 THEN view ELSE Apply(f[i - 1], records[i])]

(* The recursion of Landed defines a function. *)
LEMMA LandingExists ==
  ASSUME NEW view, NEW records, NEW n \in Nat
  PROVE  \E f : IsLanding(f, view, records, n)
<1> DEFINE T == {m \in Nat : ~ \E f : IsLanding(f, view, records, m)}
<1>1. SUFFICES ASSUME T # {} PROVE FALSE
  BY DEF T
<1>2. PICK m \in T : \A k \in T : m <= k
  BY <1>1, LeastNumber
<1>3. IsLanding([i \in 0 .. 0 |-> view], view, records, 0)
  BY DEF IsLanding
<1>4. m \in Nat /\ m # 0
  BY <1>3
<1>5. m - 1 \in Nat /\ m - 1 \notin T
  BY <1>2, <1>4
<1>6. PICK f : IsLanding(f, view, records, m - 1)
  BY <1>5
<1> DEFINE g == [i \in 0 .. m |-> IF i = m THEN Apply(f[m - 1], records[m]) ELSE f[i]]
<1>7. f = [i \in 0 .. m - 1 |-> IF i = 0 THEN view ELSE Apply(f[i - 1], records[i])]
  BY <1>6 DEF IsLanding
<1>8. ASSUME NEW i \in 0 .. m
      PROVE  g[i] = IF i = 0 THEN view ELSE Apply(g[i - 1], records[i])
  <2>1. CASE i = m
    <3>1. g[i] = Apply(f[m - 1], records[m])  BY <2>1, <1>4
    <3>2. g[i - 1] = f[m - 1]  BY <2>1, <1>4
    <3>3. QED  BY <3>1, <3>2, <2>1, <1>4
  <2>2. CASE i # m /\ i = 0
    BY <2>2, <1>7, <1>4
  <2>3. CASE i # m /\ i # 0
    <3>1. i \in 1 .. m - 1  BY <2>3, <1>4
    <3>2. g[i] = f[i] /\ g[i - 1] = f[i - 1]  BY <3>1, <1>4
    <3>3. f[i] = Apply(f[i - 1], records[i])  BY <1>7, <3>1
    <3>4. QED  BY <3>2, <3>3, <2>3
  <2>4. QED  BY <2>1, <2>2, <2>3
<1>9. IsLanding(g, view, records, m)
  BY <1>8 DEF IsLanding
<1>10. QED  BY <1>9, <1>2

(* A list of records of one uid each, all of which say the same metadata of *)
(* a uid, if any.                                                           *)
IsList(records, says) ==
    /\ Len(records) \in Nat
    /\ \A i \in 1 .. Len(records) :
          /\ OneOfItsKind(records[i])
          /\ \A u : SaysMeta(records[i], u) => records[i].meta = says[u]

AddedBy(records, n) == {u \in Uid : \E i \in 1 .. n : IsAdd(records[i]) /\ u \in records[i].uids}

(* The view after n records. *)
Reached(new, view, records, says, n) ==
    /\ IsStore(new)
    /\ KnownUids(new) = KnownUids(view) \cup AddedBy(records, n)
    /\ \A u \in KnownUids(new) :
          MetaIn(new, u) = IF \E i \in 1 .. n : SaysMeta(records[i], u) THEN says[u]
                                                                        ELSE MetaIn(view, u)
    /\ \A u \in KnownUids(view) :
          (\A i \in 1 .. n : u \notin records[i].uids) => EntryIn(new, u) = EntryIn(view, u)

LEMMA ReachedOneMore ==
  ASSUME NEW old, NEW view, NEW records, NEW says, IsList(records, says),
         NEW n \in 1 .. Len(records), Reached(old, view, records, says, n - 1)
  PROVE  Reached(Apply(old, records[n]), view, records, says, n)
<1> DEFINE c == records[n]
           new == Apply(old, c)
<1>1. /\ OneOfItsKind(c) /\ \A u : SaysMeta(c, u) => c.meta = says[u]
      /\ Len(records) \in Nat /\ n \in Nat /\ n - 1 \in Nat
  BY DEF IsList
<1>2. /\ IsStore(old)
      /\ KnownUids(old) = KnownUids(view) \cup AddedBy(records, n - 1)
      /\ \A u \in KnownUids(old) :
            MetaIn(old, u) = IF \E i \in 1 .. n - 1 : SaysMeta(records[i], u)
                             THEN says[u] ELSE MetaIn(view, u)
  BY DEF Reached
<1> HIDE DEF c
<1>3. /\ IsStore(new)
      /\ KnownUids(new) = KnownUids(old) \cup (IF IsAdd(c) THEN c.uids ELSE {})
      /\ \A u \in KnownUids(new) :
            MetaIn(new, u) = IF SaysMeta(c, u) THEN c.meta ELSE MetaIn(old, u)
  BY <1>1, <1>2, ApplyOne
<1> HIDE DEF new
<1>4. \A i \in 1 .. n : i \in 1 .. n - 1 \/ i = n
  BY <1>1
<1>5. \A i \in 1 .. n - 1 : i \in 1 .. n
  BY <1>1
<1>6. n \in 1 .. n
  BY <1>1
<1>7. c.uids \subseteq Uid
  BY <1>1 DEF OneOfItsKind
<1>8. AddedBy(records, n) = AddedBy(records, n - 1) \cup (IF IsAdd(c) THEN c.uids ELSE {})
  BY <1>4, <1>5, <1>6, <1>7 DEF AddedBy, c
<1>9. ASSUME NEW u \in KnownUids(new)
      PROVE  MetaIn(new, u) = IF \E i \in 1 .. n : SaysMeta(records[i], u)
                              THEN says[u] ELSE MetaIn(view, u)
  <2>1. CASE SaysMeta(c, u)
    <3>1. \E i \in 1 .. n : SaysMeta(records[i], u)
      BY <1>6, <2>1 DEF c
    <3>2. QED
      BY <1>1, <1>3, <2>1, <3>1
  <2>2. CASE ~ SaysMeta(c, u)
    <3>1. u \in KnownUids(old)
      BY <1>3, <2>2 DEF SaysMeta
    <3>2. (\E i \in 1 .. n : SaysMeta(records[i], u))
             <=> (\E i \in 1 .. n - 1 : SaysMeta(records[i], u))
      BY <1>4, <1>5, <2>2 DEF c
    <3>3. QED
      BY <1>2, <1>3, <2>2, <3>1, <3>2
  <2>3. QED
    BY <2>1, <2>2
<1>10. ASSUME NEW u \in KnownUids(view), \A i \in 1 .. n : u \notin records[i].uids
       PROVE  EntryIn(new, u) = EntryIn(view, u)
  <2>1. u \in KnownUids(old) /\ EntryIn(old, u) = EntryIn(view, u)
    BY <1>2, <1>5, <1>10 DEF Reached
  <2>2. u \notin c.uids
    BY <1>6, <1>10 DEF c
  <2>3. EntryIn(new, u) = EntryIn(old, u)
    BY <1>2, <2>1, <2>2, ApplyKeeps DEF new
  <2>4. QED
    BY <2>1, <2>3
<1>11. QED
  BY <1>2, <1>3, <1>8, <1>9, <1>10 DEF Reached, new, c

LEMMA LandedIs ==
  ASSUME NEW view, IsStore(view), NEW records, NEW says, IsList(records, says)
  PROVE  Reached(Landed(view, records), view, records, says, Len(records))
<1> DEFINE n == Len(records)
           f == CHOOSE g : IsLanding(g, view, records, n)
           T == {k \in 0 .. n : ~ Reached(f[k], view, records, says, k)}
<1>1. n \in Nat
  BY DEF IsList
<1>2. IsLanding(f, view, records, n)
  BY <1>1, LandingExists, Zenon
<1>3. Landed(view, records) = f[n]
  BY Zenon DEF Landed, IsLanding
<1> HIDE DEF f
<1>4. \A k \in 0 .. n : f[k] = IF k = 0 THEN view ELSE Apply(f[k - 1], records[k])
  BY <1>2 DEF IsLanding
<1>5. Reached(f[0], view, records, says, 0)
  <2>1. f[0] = view
    BY <1>1, <1>4
  <2>2. \A i \in 1 .. 0 : FALSE
    OBVIOUS
  <2>3. AddedBy(records, 0) = {}
    BY <2>2 DEF AddedBy
  <2>4. QED
    BY <2>1, <2>2, <2>3 DEF Reached
<1>6. SUFFICES ASSUME T # {}  PROVE FALSE
  <2>1. Reached(f[n], view, records, says, n)
    BY <1>1, <1>6
  <2>2. QED
    BY <1>3, <2>1
<1>7. PICK k \in T : \A j \in T : k <= j
  <2>1. T \subseteq Nat
    OBVIOUS
  <2>2. QED
    BY <1>6, <2>1, LeastNumber, Zenon
<1>8. k \in 1 .. n /\ k - 1 \in 0 .. n
  BY <1>1, <1>5, <1>7
<1>9. Reached(f[k - 1], view, records, says, k - 1)
  BY <1>1, <1>7, <1>8
<1>10. f[k] = Apply(f[k - 1], records[k])
  BY <1>4, <1>8
<1>11. Reached(f[k], view, records, says, k)
  BY <1>8, <1>9, <1>10, ReachedOneMore
<1>12. QED
  BY <1>7, <1>11

LEMMA LandedOne ==
  ASSUME NEW view, NEW c
  PROVE  Landed(view, << c >>) = Apply(view, c)
<1> DEFINE f == CHOOSE g : IsLanding(g, view, << c >>, 1)
<1>1. IsLanding(f, view, << c >>, 1)
  <2>1. 1 \in Nat
    OBVIOUS
  <2>2. QED
    BY <2>1, LandingExists, Zenon
<1>2. Landed(view, << c >>) = f[1]
  <2>1. Len(<< c >>) = 1
    OBVIOUS
  <2>2. Landed(view, << c >>) = f[Len(<< c >>)]
    BY <2>1, Zenon DEF Landed, IsLanding
  <2>3. QED
    BY <2>1, <2>2
<1> HIDE DEF f
<1>3. f[0] = view /\ f[1] = Apply(f[0], << c >>[1])
  BY <1>1 DEF IsLanding
<1>4. QED
  BY <1>2, <1>3
-----------------------------------------------------------------------------
(* The order of the dicts after a list of records. *)
LEMMA PlacedIs ==
  ASSUME NEW places \in Seq(Uid), IsInjective(places), NEW records, NEW says,
         IsList(records, says), DOMAIN records = 1 .. Len(records)
  PROVE  /\ Placed(places, records) \in Seq(Uid)
         /\ IsInjective(Placed(places, records))
         /\ Range(Placed(places, records)) = Range(places) \cup AddedBy(records, Len(records))
<1> DEFINE n == Len(records)
           S == {u \in Uid : Inserting(records, u) # {}} \ Range(places)
           rank == [u \in S |-> FirstInserting(records, u)]
           more == Sorted(S, rank)
           new == places \o more
<1>1. n \in Nat /\ \A i \in 1 .. n : \E x \in Uid : records[i].uids = {x}
  BY DEF IsList, OneOfItsKind
<1>2. ASSUME NEW u \in S
      PROVE  FirstInserting(records, u) \in 1 .. n /\ u \in records[FirstInserting(records, u)].uids
  <2>1. Inserting(records, u) # {} /\ Inserting(records, u) \subseteq 1 .. n
    BY <1>2 DEF Inserting
  <2>2. Inserting(records, u) \subseteq Nat
    BY <1>1, <2>1
  <2>3. \E i \in Inserting(records, u) : \A j \in Inserting(records, u) : i <= j
    BY <2>1, <2>2, LeastNumber, Zenon
  <2>4. FirstInserting(records, u) \in Inserting(records, u)
    BY <2>3, Zenon DEF FirstInserting
  <2>5. QED
    BY <2>1, <2>4 DEF Inserting
<1>3. S = AddedBy(records, n) \ Range(places)
  BY DEF AddedBy, Inserting
<1>4. \A u \in S : rank[u] = FirstInserting(records, u)
  OBVIOUS
<1>5. S \subseteq Uid /\ S \cap Range(places) = {}
  OBVIOUS
<1>6. new = Placed(places, records)
  BY Zenon DEF Placed
<1> HIDE DEF S, rank, new
<1>7. IsRank(rank, S)
  <2>1. ASSUME NEW u \in S, NEW v \in S, rank[u] = rank[v]  PROVE u = v
    <3>1. PICK x \in Uid : records[rank[u]].uids = {x}
      BY <1>1, <1>2, <1>4
    <3>2. u \in records[rank[u]].uids /\ v \in records[rank[u]].uids
      BY <1>2, <1>4, <2>1
    <3>3. QED
      BY <3>1, <3>2
  <2>2. \A u \in S : rank[u] \in Nat
    BY <1>1, <1>2, <1>4
  <2>3. QED
    BY <2>1, <2>2 DEF IsRank
<1>8. IsFiniteSet(S)
  <2> DEFINE g == [u \in S |-> rank[u]]
  <2>1. g \in Injection(S, 1 .. n)
    BY <1>2, <1>4, <1>7 DEF Injection, IsInjective, IsRank
  <2>2. IsFiniteSet(1 .. n)
    <3>1. 1 \in Int /\ n \in Int
      BY <1>1
    <3>2. QED
      BY <3>1, FS_Interval, Zenon
  <2>3. QED
    BY <2>1, <2>2, FS_Injection, Zenon
<1> DEFINE m == Cardinality(S)
<1>9. /\ m \in Nat /\ more \in [1 .. m -> S]
      /\ \A x \in S : \E k \in 1 .. m : more[k] = x
      /\ \A j, k \in 1 .. m : j < k <=> rank[more[j]] < rank[more[k]]
  BY <1>7, <1>8, SortedIs
<1> HIDE DEF m, more
<1>10. more \in Seq(Uid) /\ Len(more) = m
  BY <1>5, <1>9
<1>11. places \in Seq(Uid) /\ Len(places) \in Nat
  OBVIOUS
<1>12. /\ new \in Seq(Uid) /\ Len(new) = Len(places) + m
       /\ \A i \in 1 .. Len(places) + m :
             new[i] = IF i <= Len(places) THEN places[i] ELSE more[i - Len(places)]
  BY <1>10, <1>11, ConcatProperties DEF new
<1>13. DOMAIN new = 1 .. Len(places) + m /\ DOMAIN places = 1 .. Len(places)
  BY <1>11, <1>12
<1>14. ASSUME NEW j \in 1 .. m, NEW k \in 1 .. m, more[j] = more[k]  PROVE j = k
  <2>1. rank[more[j]] \in Nat
    BY <1>7, <1>9 DEF IsRank
  <2>2. ~ (j < k) /\ ~ (k < j)
    BY <1>9, <1>14, <2>1
  <2>3. QED
    BY <1>9, <2>2
<1>15. ASSUME NEW i \in DOMAIN new, NEW j \in DOMAIN new, new[i] = new[j]  PROVE i = j
  <2>1. \A k \in 1 .. Len(places) : places[k] \in Range(places)
    BY <1>13 DEF Range
  <2>2. \A k \in 1 .. m : more[k] \in S
    BY <1>9
  <2>3. CASE i <= Len(places) /\ j <= Len(places)
    <3>1. i \in DOMAIN places /\ j \in DOMAIN places /\ places[i] = places[j]
      BY <1>9, <1>11, <1>12, <1>13, <1>15, <2>3
    <3>2. QED
      BY <3>1 DEF IsInjective
  <2>4. CASE i > Len(places) /\ j > Len(places)
    <3>1. i - Len(places) \in 1 .. m /\ j - Len(places) \in 1 .. m
      BY <1>9, <1>11, <1>13, <2>4
    <3>2. new[i] = more[i - Len(places)] /\ new[j] = more[j - Len(places)]
      <4>1. ~ (i <= Len(places)) /\ ~ (j <= Len(places))
        BY <1>9, <1>11, <1>13, <2>4
      <4>2. QED
        BY <1>12, <1>13, <4>1, Zenon
    <3>3. i - Len(places) = j - Len(places)
      BY <1>14, <1>15, <3>1, <3>2
    <3>4. QED
      BY <1>11, <1>13, <1>9, <3>3
  <2>5. CASE i <= Len(places) /\ j > Len(places)
    <3>1. i \in 1 .. Len(places) /\ j - Len(places) \in 1 .. m
          /\ places[i] = more[j - Len(places)]
      BY <1>9, <1>11, <1>12, <1>13, <1>15, <2>5
    <3>2. QED
      BY <1>5, <2>1, <2>2, <3>1
  <2>6. CASE i > Len(places) /\ j <= Len(places)
    <3>1. j \in 1 .. Len(places) /\ i - Len(places) \in 1 .. m
          /\ places[j] = more[i - Len(places)]
      BY <1>9, <1>11, <1>12, <1>13, <1>15, <2>6
    <3>2. QED
      BY <1>5, <2>1, <2>2, <3>1
  <2>7. QED
    BY <1>9, <1>11, <1>13, <2>3, <2>4, <2>5, <2>6
<1>16. Range(new) = Range(places) \cup S
  <2>1. ASSUME NEW i \in DOMAIN new  PROVE new[i] \in Range(places) \cup S
    <3>1. CASE i <= Len(places)
      <4>1. i \in DOMAIN places /\ new[i] = places[i]
        BY <1>9, <1>11, <1>12, <1>13, <3>1
      <4>2. QED
        BY <4>1 DEF Range
    <3>2. CASE i > Len(places)
      <4>1. i - Len(places) \in 1 .. m /\ new[i] = more[i - Len(places)]
        BY <1>9, <1>11, <1>12, <1>13, <3>2
      <4>2. QED
        BY <1>9, <4>1
    <3>3. QED
      BY <1>9, <1>11, <1>13, <3>1, <3>2
  <2>2. ASSUME NEW x \in Range(places)  PROVE \E i \in DOMAIN new : new[i] = x
    <3>1. PICK i \in DOMAIN places : places[i] = x
      BY <2>2 DEF Range
    <3>2. i \in 1 .. Len(places) + m /\ i <= Len(places)
      BY <1>9, <1>11, <1>13
    <3>3. new[i] = places[i]
      BY <1>12, <3>2
    <3>4. QED
      BY <1>13, <3>1, <3>2, <3>3
  <2>3. ASSUME NEW x \in S  PROVE \E i \in DOMAIN new : new[i] = x
    <3>1. PICK k \in 1 .. m : more[k] = x
      BY <1>9
    <3>2. PICK i : i = Len(places) + k
      OBVIOUS
    <3>3. i \in 1 .. Len(places) + m /\ ~ (i <= Len(places)) /\ i - Len(places) = k
      BY <1>9, <1>11, <3>2
    <3>4. new[i] = more[k]
      BY <1>12, <3>3
    <3>5. QED
      BY <1>13, <3>1, <3>3, <3>4
  <2>4. QED
    BY <2>1, <2>2, <2>3 DEF Range
<1>17. IsInjective(new)
  BY <1>15 DEF IsInjective
<1>18. Range(new) = Range(places) \cup AddedBy(records, n)
  BY <1>3, <1>16
<1>19. QED
  BY <1>6, <1>12, <1>17, <1>18
-----------------------------------------------------------------------------
(* The lists --apply writes, and any first part of them. *)

(* C lists a change for each of the uids, and for nothing else. *)
AreChanges(C, op, uids) ==
    /\ Len(C) \in Nat /\ DOMAIN C = 1 .. Len(C)
    /\ \A i \in 1 .. Len(C) : \E x \in uids :
          /\ C[i].uids = {x} /\ C[i].meta = python[x]
          /\ C[i].op = IF op # "add" THEN op
                       ELSE IF x \in Node THEN "add_node" ELSE "add_edge"
    /\ \A x \in uids : \E i \in 1 .. Len(C) : C[i].uids = {x}
    /\ \A T : (\A i \in 1 .. Len(C) : C[i] \in T) => C \in Seq(T)

LEMMA ChangesAre ==
  ASSUME python \in Layers, NEW op \in {"add", "edit_meta"}, NEW uids \in SUBSET DOMAIN python
  PROVE  AreChanges(Changes(op, uids), op, uids)
<1> DEFINE walk == Sorted(uids, Rank)
           n == Cardinality(uids)
           C == Changes(op, uids)
<1>1. DOMAIN python \subseteq Uid /\ IsFiniteSet(DOMAIN python)
  BY SyncAssumption
<1>2. IsFiniteSet(uids) /\ uids \subseteq Uid
  BY <1>1, FS_Subset
<1>3. IsRank(Rank, uids)
  BY <1>2, SyncAssumption DEF IsRank
<1>4. /\ n \in Nat /\ walk \in [1 .. n -> uids]
      /\ \A x \in uids : \E k \in 1 .. n : walk[k] = x
  BY <1>2, <1>3, SortedIs
<1>5. C = [i \in DOMAIN walk |->
              [op |-> IF op # "add" THEN op
                      ELSE IF walk[i] \in Node THEN "add_node" ELSE "add_edge",
               uids |-> {walk[i]}, meta |-> python[walk[i]], new |-> {}]]
  BY Zenon DEF Changes
<1> HIDE DEF walk, n, C
<1>6. DOMAIN C = 1 .. n
  BY <1>4, <1>5
<1>7. Len(C) = n
  BY <1>4, <1>5
<1>8. ASSUME NEW i \in 1 .. n
      PROVE  /\ walk[i] \in uids /\ C[i].uids = {walk[i]} /\ C[i].meta = python[walk[i]]
             /\ C[i].op = IF op # "add" THEN op
                          ELSE IF walk[i] \in Node THEN "add_node" ELSE "add_edge"
  <2>1. i \in DOMAIN walk /\ walk[i] \in uids
    BY <1>4
  <2>2. PICK kind : kind = IF op # "add" THEN op
                           ELSE IF walk[i] \in Node THEN "add_node" ELSE "add_edge"
    OBVIOUS
  <2>3. C[i] = [op |-> kind, uids |-> {walk[i]}, meta |-> python[walk[i]], new |-> {}]
    BY <1>5, <2>1, <2>2, Zenon
  <2>4. kind = IF op # "add" THEN op
               ELSE IF walk[i] \in Node THEN "add_node" ELSE "add_edge"
    BY <2>2
  <2>5. QED
    BY <2>1, <2>3, <2>4
<1>9. \A i \in 1 .. n : \E x \in uids :
          /\ C[i].uids = {x} /\ C[i].meta = python[x]
          /\ C[i].op = IF op # "add" THEN op
                       ELSE IF x \in Node THEN "add_node" ELSE "add_edge"
  BY <1>8
<1>10. \A x \in uids : \E i \in 1 .. n : C[i].uids = {x}
  BY <1>4, <1>8
<1>11. ASSUME NEW T, \A i \in 1 .. n : C[i] \in T
       PROVE  C \in Seq(T)
  <2>1. C = [i \in 1 .. n |-> C[i]]
    BY <1>4, <1>5
  <2>2. C \in [1 .. n -> T]
    BY <1>11, <2>1
  <2>3. QED
    BY <1>4, <2>2
<1>12. QED
  BY <1>4, <1>6, <1>7, <1>9, <1>10, <1>11 DEF C, AreChanges

(* A list of records of which the additions are those that are proposed. *)
IsReport(records) ==
    /\ IsList(records, python) /\ DOMAIN records = 1 .. Len(records)
    /\ \A i \in 1 .. Len(records) : /\ IsAdd(records[i]) => records[i].uids \subseteq add
                                    /\ records[i].uids \subseteq DOMAIN python

LEMMA KindOf ==
  ASSUME NEW c, NEW x \in Uid, c.uids = {x}, c.meta = python[x],
         c.op \in {"edit_meta", IF x \in Node THEN "add_node" ELSE "add_edge"}
  PROVE  OneOfItsKind(c) /\ \A u : SaysMeta(c, u) => c.meta = python[u]
<1>1. x \in Node \/ x \in Edge
  BY DEF Uid
<1>2. c.op \in CHANGE_OPS
  BY DEF CHANGE_OPS
<1>3. /\ c.op = "add_node" => x \in Node
      /\ c.op = "add_edge" => x \in Edge
  BY <1>1
<1>4. QED
  BY <1>2, <1>3 DEF OneOfItsKind, SaysMeta

LEMMA AddIsNew == add \subseteq NewPy /\ edit_meta \subseteq DOMAIN python /\ NewPy \subseteq DOMAIN python
BY DEF add, edit_meta, NewPy

LEMMA RecordsAre ==
  ASSUME python \in Layers
  PROVE  /\ IsReport(Records)
         /\ \A x \in add : \E i \in 1 .. Len(Records) :
               IsAdd(Records[i]) /\ Records[i].uids = {x}
         /\ \A x \in edit_meta : \E i \in 1 .. Len(Records) : SaysMeta(Records[i], x)
         /\ \A k \in 0 .. Len(Records) : IsReport(SubSeq(Records, 1, k))
<1> DEFINE A == Changes("add", add)
           B == Changes("edit_meta", edit_meta)
           R == Records
<1>1. /\ add \subseteq DOMAIN python /\ edit_meta \subseteq DOMAIN python
      /\ DOMAIN python \subseteq Uid
  BY AddIsNew, SyncAssumption
<1>2. AreChanges(A, "add", add) /\ AreChanges(B, "edit_meta", edit_meta)
  BY <1>1, ChangesAre
<1>3. /\ Len(A) \in Nat /\ DOMAIN A = 1 .. Len(A)
      /\ \A i \in 1 .. Len(A) : \E x \in add :
            /\ A[i].uids = {x} /\ A[i].meta = python[x]
            /\ A[i].op = IF x \in Node THEN "add_node" ELSE "add_edge"
      /\ \A x \in add : \E i \in 1 .. Len(A) : A[i].uids = {x}
  <2> HIDE DEF A
  <2>1. QED
    BY <1>2 DEF AreChanges
<1>4. /\ Len(B) \in Nat /\ DOMAIN B = 1 .. Len(B)
      /\ \A i \in 1 .. Len(B) : \E x \in edit_meta :
            /\ B[i].uids = {x} /\ B[i].meta = python[x]
            /\ B[i].op = "edit_meta"
      /\ \A x \in edit_meta : \E i \in 1 .. Len(B) : B[i].uids = {x}
  <2> HIDE DEF B
  <2>1. QED
    BY <1>2 DEF AreChanges
<1>5. R = A \o B
  BY DEF Records
<1> HIDE DEF A, B, R
<1>6. /\ Len(R) = Len(A) + Len(B) /\ DOMAIN R = 1 .. Len(R)
      /\ \A i \in 1 .. Len(A) + Len(B) : R[i] = IF i <= Len(A) THEN A[i] ELSE B[i - Len(A)]
  <2> DEFINE T == {A[i] : i \in 1 .. Len(A)} \cup {B[i] : i \in 1 .. Len(B)}
  <2>1. (\A i \in 1 .. Len(A) : A[i] \in T) /\ (\A i \in 1 .. Len(B) : B[i] \in T)
    OBVIOUS
  <2> HIDE DEF T
  <2>2. A \in Seq(T) /\ B \in Seq(T)
    BY <1>2, <2>1, Zenon DEF AreChanges
  <2>3. /\ A \o B \in Seq(T) /\ Len(A \o B) = Len(A) + Len(B)
        /\ \A i \in 1 .. Len(A) + Len(B) :
              (A \o B)[i] = IF i <= Len(A) THEN A[i] ELSE B[i - Len(A)]
    BY <2>2, ConcatProperties, Zenon
  <2>4. QED
    BY <1>3, <1>4, <1>5, <2>3
<1>7. \A i \in 1 .. Len(A) : i \in 1 .. Len(R) /\ R[i] = A[i]
  BY <1>3, <1>4, <1>6
<1>8. ASSUME NEW i \in 1 .. Len(B)
      PROVE  Len(A) + i \in 1 .. Len(R) /\ R[Len(A) + i] = B[i]
  <2>1. PICK j : j = Len(A) + i
    OBVIOUS
  <2>2. j \in 1 .. Len(A) + Len(B) /\ ~ (j <= Len(A)) /\ j - Len(A) = i
    BY <1>3, <1>4, <2>1
  <2>3. R[j] = B[i]
    BY <1>6, <2>2
  <2>4. QED
    BY <1>6, <2>1, <2>2, <2>3
<1>9. \A i \in 1 .. Len(R) : \/ i \in 1 .. Len(A) /\ R[i] = A[i]
                             \/ \E j \in 1 .. Len(B) : R[i] = B[j]
  <2> SUFFICES ASSUME NEW i \in 1 .. Len(R)
               PROVE  \/ i \in 1 .. Len(A) /\ R[i] = A[i]
                      \/ \E j \in 1 .. Len(B) : R[i] = B[j]
    OBVIOUS
  <2>1. CASE i <= Len(A)
    BY <1>3, <1>4, <1>6, <2>1
  <2>2. CASE i > Len(A)
    <3>1. i - Len(A) \in 1 .. Len(B)
      BY <1>3, <1>4, <1>6, <2>2
    <3>2. R[i] = B[i - Len(A)]
      BY <1>3, <1>4, <1>6, <2>2
    <3>3. QED
      BY <3>1, <3>2
  <2>3. QED
    BY <1>3, <1>4, <1>6, <2>1, <2>2
<1>10. ASSUME NEW i \in 1 .. Len(R)
      PROVE  /\ OneOfItsKind(R[i]) /\ \A u : SaysMeta(R[i], u) => R[i].meta = python[u]
             /\ IsAdd(R[i]) => R[i].uids \subseteq add
             /\ R[i].uids \subseteq DOMAIN python
  <2>1. CASE i \in 1 .. Len(A) /\ R[i] = A[i]
    <3>1. PICK x \in add : /\ R[i].uids = {x} /\ R[i].meta = python[x]
                           /\ R[i].op = IF x \in Node THEN "add_node" ELSE "add_edge"
      BY <1>3, <2>1
    <3>2. x \in Uid /\ x \in DOMAIN python
      BY <1>1
    <3>3. QED
      BY <3>1, <3>2, KindOf
  <2>2. CASE \E j \in 1 .. Len(B) : R[i] = B[j]
    <3>1. PICK j \in 1 .. Len(B) : R[i] = B[j]
      BY <2>2
    <3>2. PICK x \in edit_meta : /\ B[j].uids = {x} /\ B[j].meta = python[x]
                                 /\ B[j].op = "edit_meta"
      BY <1>4
    <3>3. x \in Uid /\ x \in DOMAIN python
      BY <1>1
    <3>4. R[i].uids = {x} /\ R[i].meta = python[x] /\ R[i].op = "edit_meta"
      BY <3>1, <3>2
    <3>5. ~ IsAdd(R[i])
      BY <3>4 DEF IsAdd
    <3>6. QED
      BY <3>3, <3>4, <3>5, KindOf
  <2>3. QED
    BY <1>9, <2>1, <2>2
<1>11. Len(R) \in Nat
  BY <1>3, <1>4, <1>6
<1>12. IsReport(R)
  BY <1>6, <1>10, <1>11 DEF IsReport, IsList
<1>13. ASSUME NEW x \in add
       PROVE  \E i \in 1 .. Len(R) : IsAdd(R[i]) /\ R[i].uids = {x}
  <2>1. PICK i \in 1 .. Len(A) : A[i].uids = {x}
    BY <1>3
  <2>2. A[i].op \in {"add_node", "add_edge"}
    BY <1>3
  <2>3. QED
    BY <1>7, <2>1, <2>2 DEF IsAdd
<1>14. ASSUME NEW x \in edit_meta
       PROVE  \E i \in 1 .. Len(R) : SaysMeta(R[i], x)
  <2>1. PICK i \in 1 .. Len(B) : B[i].uids = {x}
    BY <1>4
  <2>2. B[i].op = "edit_meta"
    BY <1>4
  <2>3. QED
    BY <1>8, <2>1, <2>2 DEF SaysMeta
<1>15. ASSUME NEW k \in 0 .. Len(R)
       PROVE  IsReport(SubSeq(R, 1, k))
  <2>1. SubSeq(R, 1, k) = [i \in 1 .. k |-> R[i]]
    BY <1>6, <1>11
  <2>2. /\ Len(SubSeq(R, 1, k)) = k /\ DOMAIN SubSeq(R, 1, k) = 1 .. k
        /\ \A i \in 1 .. k : SubSeq(R, 1, k)[i] = R[i] /\ i \in 1 .. Len(R)
    BY <1>11, <2>1
  <2>3. QED
    BY <1>10, <1>11, <2>2 DEF IsReport, IsList
<1>16. QED
  BY <1>12, <1>13, <1>14, <1>15 DEF R
-----------------------------------------------------------------------------
(* The inductive invariant: besides the types, the entries of the view have *)
(* their metadata; and after a run of --apply the layer has no uid that the *)
(* store does not know, so that following a report later cannot undo it.    *)

Settled == said = "applied" => NewPy = {} /\ edit_meta = {}

SyncInv == TypeOK /\ IsStore(map) /\ Settled

InOrder(seq, view) == seq \in Seq(Uid) /\ Range(seq) = KnownUids(view) /\ IsInjective(seq)

LEMMA EntryMeta == /\ \A u : EntryOf(u).meta = MetaIn(map, u)
                   /\ \A u : (EntryOf(u).meta)' = MetaIn(map', u)
BY DEF EntryOf, MetaIn

LEMMA LandsIs ==
  ASSUME IsStore(map), InOrder(order, map), NEW records, NEW says, IsList(records, says),
         DOMAIN records = 1 .. Len(records), Lands(records)
  PROVE  /\ Reached(map', map, records, says, Len(records))
         /\ InOrder(order', map')
<1>1. map' = Landed(map, records) /\ order' = Placed(order, records)
  BY DEF Lands
<1>2. Reached(Landed(map, records), map, records, says, Len(records))
  BY LandedIs
<1>3. /\ Placed(order, records) \in Seq(Uid) /\ IsInjective(Placed(order, records))
      /\ Range(Placed(order, records)) = Range(order) \cup AddedBy(records, Len(records))
  BY PlacedIs DEF InOrder
<1>4. QED
  BY <1>1, <1>2, <1>3 DEF InOrder, Reached

Marked(entry) == entry.superseded_by # {} \/ entry.deprecated

(* What a person writes about x marks it, and changes nothing else. *)
RemarksOn(x) ==
    /\ IsStore(map') /\ InOrder(order', map')
    /\ KnownUids(map') = KnownUids(map)
    /\ \A u \in KnownUids(map) : MetaIn(map', u) = MetaIn(map, u)
    /\ \A u \in KnownUids(map) : u # x => EntryIn(map', u) = EntryIn(map, u)
    /\ x \in KnownUids(map) => Marked(EntryIn(map', x))

LEMMA RemarkLands ==
  ASSUME IsStore(map), InOrder(order, map), NEW c, NEW x \in Uid, c.uids = {x},
         c.op \in {"supersede", "deprecate"}, c.op = "supersede" => c.new # {}, Lands(<< c >>)
  PROVE  RemarksOn(x)
<1> DEFINE records == << c >>
<1>1. /\ Len(records) = 1 /\ DOMAIN records = 1 .. 1 /\ records[1] = c
      /\ \A i \in 1 .. 1 : i = 1
  OBVIOUS
<1>2. ~ IsAdd(c) /\ \A u : ~ SaysMeta(c, u)
  BY DEF IsAdd, SaysMeta
<1>3. OneOfItsKind(c)
  BY DEF OneOfItsKind, CHANGE_OPS
<1>4. ASSUME x \in KnownUids(map)
      PROVE  Marked(EntryIn(map', x))
  <2>1. EntryIn(map', x) = Mutate(EntryIn(map, x), c)
    BY <1>2, <1>4, ApplyMutates, LandedOne DEF Lands
  <2>2. Fields \subseteq DOMAIN EntryIn(map, x)
    BY <1>4 DEF EntryIn, KnownUids, IsStore, HasFields
  <2>3. c.op \in CHANGE_OPS
    BY DEF CHANGE_OPS
  <2>4. PICK entry : entry = EntryIn(map, x)
    OBVIOUS
  <2>5. /\ c.op = "deprecate" => Mutate(entry, c).deprecated = TRUE
        /\ c.op = "supersede" => Mutate(entry, c).superseded_by = c.new
    BY <1>2, <2>2, <2>3, <2>4, MutateIs
  <2>6. QED
    BY <2>1, <2>4, <2>5 DEF Marked
<1> HIDE DEF records
<1>5. IsList(records, c)
  BY <1>1, <1>2, <1>3 DEF IsList
<1>6. /\ Reached(map', map, records, c, 1) /\ InOrder(order', map')
  BY <1>1, <1>5, LandsIs DEF records
<1>7. AddedBy(records, 1) = {}
  BY <1>1, <1>2 DEF AddedBy
<1>8. \A u : ~ \E i \in 1 .. 1 : SaysMeta(records[i], u)
  BY <1>1, <1>2
<1>9. \A u : u # x => \A i \in 1 .. 1 : u \notin records[i].uids
  BY <1>1
<1>10. QED
  BY <1>4, <1>6, <1>7, <1>8, <1>9 DEF Reached, RemarksOn

LEMMA UidsOfReports ==
  ASSUME TypeOK
  PROVE  /\ KnownUids(map) \subseteq Uid /\ DOMAIN python \subseteq Uid
         /\ Unmatched \subseteq Uid /\ deprecate \subseteq Uid
         /\ re_mint \subseteq Uid \X Uid
<1>1. KnownUids(map) \subseteq Uid
  BY DEF TypeOK, KnownUids, Uid
<1>2. DOMAIN python \subseteq Uid
  BY SyncAssumption DEF TypeOK
<1>3. Unmatched \subseteq Uid /\ NewPy \subseteq Uid
  BY <1>1, <1>2 DEF Unmatched, NewPy
<1>4. re_mint \subseteq Unmatched \X NewPy /\ deprecate \subseteq Unmatched
  BY DEF re_mint, deprecate
<1>5. QED
  BY <1>1, <1>2, <1>3, <1>4

LEMMA SyncInvInit == Init => SyncInv
<1> SUFFICES ASSUME Init PROVE SyncInv
  OBVIOUS
<1> DEFINE C == Changes("add", DOMAIN FirstLayer)
<1>1. python = FirstLayer /\ FirstLayer \in Layers /\ said = "nothing" /\ printed = {}
      /\ edits = 0 /\ crashes = 0
      /\ map = Landed(EmptyView, C) /\ order = Placed(<< >>, C)
  BY SyncAssumption DEF Init
<1>2. DOMAIN python \subseteq Uid
  BY <1>1, SyncAssumption
<1>3. AreChanges(C, "add", DOMAIN python)
  BY <1>1, ChangesAre
<1> HIDE DEF C
<1>4. IsList(C, python) /\ DOMAIN C = 1 .. Len(C)
  <2>1. ASSUME NEW i \in 1 .. Len(C)
        PROVE  OneOfItsKind(C[i]) /\ \A u : SaysMeta(C[i], u) => C[i].meta = python[u]
    <3>1. PICK x \in DOMAIN python : /\ C[i].uids = {x} /\ C[i].meta = python[x]
                                     /\ C[i].op = IF x \in Node THEN "add_node" ELSE "add_edge"
      BY <1>3 DEF AreChanges
    <3>2. QED
      BY <1>2, <3>1, KindOf
  <2>2. QED
    BY <1>3, <2>1 DEF IsList, AreChanges
<1>5. IsStore(EmptyView) /\ KnownUids(EmptyView) = {}
  <2>1. DOMAIN << >> = {}
    OBVIOUS
  <2>2. EmptyView.nodes = << >> /\ EmptyView.edges = << >> /\ IsView(EmptyView)
    BY DEF EmptyView, IsView
  <2>3. QED
    BY <2>1, <2>2 DEF IsStore, HasFields, KnownUids
<1>6. << >> \in Seq(Uid) /\ Range(<< >>) = {} /\ IsInjective(<< >>)
  BY DEF Range, IsInjective
<1>7. Reached(map, EmptyView, C, python, Len(C))
  BY <1>1, <1>4, <1>5, LandedIs
<1>8. /\ order \in Seq(Uid) /\ IsInjective(order)
      /\ Range(order) = {} \cup AddedBy(C, Len(C))
  <2>1. /\ Placed(<< >>, C) \in Seq(Uid) /\ IsInjective(Placed(<< >>, C))
        /\ Range(Placed(<< >>, C)) = Range(<< >>) \cup AddedBy(C, Len(C))
    BY <1>4, <1>6, PlacedIs
  <2>2. QED
    BY <1>1, <1>6, <2>1
<1>9. IsStore(map) /\ Range(order) = KnownUids(map)
  BY <1>5, <1>7, <1>8 DEF Reached
<1>10. TypeOK
  BY <1>1, <1>8, <1>9, SyncAssumption DEF TypeOK, IsStore
<1>11. QED
  BY <1>1, <1>9, <1>10 DEF SyncInv, Settled

(* The actions that land something, in the terms of the lemmas. *)
LEMMA ApplyIs ==
  ASSUME SyncInv, ApplyLands \/ ApplyCrashes
  PROVE  /\ re_mint = {} /\ python' = python
         /\ \E records :
               /\ IsReport(records)
               /\ Reached(map', map, records, python, Len(records))
               /\ InOrder(order', map')
               /\ ApplyLands => records = Records
<1>1. python \in Layers /\ IsStore(map) /\ InOrder(order, map)
  BY DEF SyncInv, TypeOK, InOrder
<1>2. IsReport(Records) /\ \A k \in 0 .. Len(Records) : IsReport(SubSeq(Records, 1, k))
  BY <1>1, RecordsAre
<1>3. ASSUME NEW records, IsReport(records), Lands(records)
      PROVE  Reached(map', map, records, python, Len(records)) /\ InOrder(order', map')
  BY <1>1, <1>3, LandsIs DEF IsReport
<1>4. CASE ApplyLands
  <2>1. PICK records : records = Records /\ Lands(records)
    BY <1>4 DEF ApplyLands
  <2>2. IsReport(records)
    BY <1>2, <2>1
  <2>3. QED
    BY <1>3, <1>4, <2>1, <2>2 DEF ApplyLands
<1>5. CASE ApplyCrashes /\ ~ ApplyLands
  <2>1. PICK records : /\ records = Records
                       /\ \E k \in 0 .. Len(records) - 1 : Lands(SubSeq(records, 1, k))
    BY <1>5 DEF ApplyCrashes
  <2>2. PICK k \in 0 .. Len(records) - 1 : Lands(SubSeq(records, 1, k))
    BY <2>1
  <2>3. PICK part : part = SubSeq(records, 1, k)
    OBVIOUS
  <2>4. Len(Records) \in Nat
    BY <1>2 DEF IsReport, IsList
  <2>5. k \in 0 .. Len(Records)
    BY <2>1, <2>4
  <2>6. IsReport(part) /\ Lands(part)
    BY <1>2, <2>1, <2>2, <2>3, <2>5
  <2>7. QED
    BY <1>3, <1>5, <2>6 DEF ApplyCrashes
<1>6. QED
  BY <1>4, <1>5

LEMMA SupersedeIs ==
  ASSUME SyncInv, WriteSupersede
  PROVE  \E p \in printed : printed' = printed \ {p} /\ RemarksOn(p[1])
<1>1. IsStore(map) /\ InOrder(order, map) /\ printed \subseteq Uid \X Uid
  BY DEF SyncInv, TypeOK, InOrder
<1>2. PICK p \in printed : /\ Lands(<< [op |-> "supersede", uids |-> {p[1]},
                                        meta |-> EntryOf(p[1]).meta, new |-> {p[2]}] >>)
                           /\ printed' = printed \ {p}
  BY DEF WriteSupersede
<1>3. PICK c : c = [op |-> "supersede", uids |-> {p[1]},
                    meta |-> EntryOf(p[1]).meta, new |-> {p[2]}]
  OBVIOUS
<1>4. /\ p[1] \in Uid /\ c.uids = {p[1]} /\ c.op = "supersede" /\ c.new # {}
      /\ Lands(<< c >>)
  BY <1>1, <1>2, <1>3
<1>5. RemarksOn(p[1])
  BY <1>1, <1>4, RemarkLands
<1>6. QED
  BY <1>2, <1>5

LEMMA DeprecateIs ==
  ASSUME SyncInv, WriteDeprecate
  PROVE  \E u \in deprecate : RemarksOn(u)
<1>1. IsStore(map) /\ InOrder(order, map)
  BY DEF SyncInv, TypeOK, InOrder
<1>2. PICK u \in deprecate : Lands(<< [op |-> "deprecate", uids |-> {u},
                                       meta |-> EntryOf(u).meta, new |-> {}] >>)
  BY DEF WriteDeprecate
<1>3. PICK c : c = [op |-> "deprecate", uids |-> {u}, meta |-> EntryOf(u).meta, new |-> {}]
  OBVIOUS
<1>4. u \in Uid /\ c.uids = {u} /\ c.op = "deprecate" /\ Lands(<< c >>)
  BY <1>2, <1>3, UidsOfReports DEF SyncInv
<1>5. RemarksOn(u)
  BY <1>1, <1>4, RemarkLands
<1>6. QED
  BY <1>5

LEMMA RemarkIs ==
  ASSUME SyncInv, WriteSupersede \/ WriteDeprecate
  PROVE  \E x : RemarksOn(x)
BY SupersedeIs, DeprecateIs

LEMMA TypeOKStep == SyncInv /\ [Next]_vars => TypeOK' /\ IsStore(map)'
<1> SUFFICES ASSUME SyncInv, [Next]_vars PROVE TypeOK' /\ IsStore(map)'
  OBVIOUS
<1>1. TypeOK /\ IsStore(map)
  BY DEF SyncInv
<1>9. MaxEdits \in Nat /\ MaxCrashes \in Nat
  BY SyncAssumption
<1>10. ApplyCrashes => crashes' \in 0 .. MaxCrashes
  <2>1. ApplyCrashes => crashes < MaxCrashes /\ crashes' = crashes + 1 /\ crashes \in 0 .. MaxCrashes
    BY <1>1 DEF ApplyCrashes, TypeOK
  <2>2. QED
    BY <1>9, <2>1
<1>2. CASE UNCHANGED << map, order >>
  <2>1. IsStore(map')
    BY <1>1, <1>2
  <2>2. /\ python' \in Layers /\ said' \in {"nothing", "in sync", "re_mint", "applied", "refused"}
        /\ edits' \in 0 .. MaxEdits /\ crashes' \in 0 .. MaxCrashes
        /\ printed' \subseteq Uid \X Uid
    <3>1. CASE UNCHANGED vars
      BY <1>1, <3>1 DEF vars, TypeOK
    <3>2. ASSUME NEW layer \in Layers, EditPython(layer)
          PROVE  /\ python' \in Layers /\ said' = "nothing"
                 /\ edits' \in 0 .. MaxEdits /\ crashes' \in 0 .. MaxCrashes
                 /\ printed' \subseteq Uid \X Uid
      <4>1. edits < MaxEdits /\ edits' = edits + 1 /\ edits \in 0 .. MaxEdits
        BY <1>1, <3>2 DEF EditPython, TypeOK
      <4>2. edits' \in 0 .. MaxEdits
        BY <1>9, <4>1
      <4>3. QED
        BY <1>1, <3>2, <4>2 DEF EditPython, TypeOK
    <3>3. CASE ReportInSync
      BY <1>1, <3>3 DEF ReportInSync, TypeOK
    <3>4. CASE RefuseReMint
      BY <1>1, <3>4, UidsOfReports DEF RefuseReMint, TypeOK
    <3>5. CASE ApplyLands
      BY <1>1, <3>5 DEF ApplyLands, TypeOK
    <3>6. CASE ApplyRefused
      BY <1>1, <3>6 DEF ApplyRefused, TypeOK
    <3>7. CASE ApplyCrashes
      BY <1>1, <1>10, <3>7 DEF ApplyCrashes, TypeOK
    <3>8. CASE WriteSupersede
      BY <1>1, <3>8 DEF WriteSupersede, TypeOK
    <3>9. CASE WriteDeprecate
      BY <1>1, <3>9 DEF WriteDeprecate, TypeOK
    <3>10. QED
      BY <3>1, <3>2, <3>3, <3>4, <3>5, <3>6, <3>7, <3>8, <3>9 DEF Next
  <2>3. QED
    BY <1>1, <1>2, <2>1, <2>2 DEF TypeOK
<1>3. ASSUME IsStore(map'), InOrder(order', map'), python' = python, edits' = edits,
             printed' \subseteq Uid \X Uid, crashes' \in 0 .. MaxCrashes,
             said' \in {"nothing", "in sync", "re_mint", "applied", "refused"}
      PROVE  TypeOK' /\ IsStore(map')
  BY <1>1, <1>3 DEF TypeOK, IsStore, InOrder
<1>4. CASE ApplyLands
  <2>1. IsStore(map') /\ InOrder(order', map')
    BY <1>4, ApplyIs DEF Reached
  <2>2. QED
    BY <1>1, <1>3, <1>4, <2>1 DEF ApplyLands, TypeOK
<1>5. CASE ApplyCrashes
  <2>1. IsStore(map') /\ InOrder(order', map')
    BY <1>5, ApplyIs DEF Reached
  <2>2. crashes' \in 0 .. MaxCrashes
    BY <1>5, <1>10
  <2>3. QED
    BY <1>1, <1>3, <1>5, <2>1, <2>2 DEF ApplyCrashes, TypeOK
<1>6. CASE WriteSupersede
  <2>1. IsStore(map') /\ InOrder(order', map')
    BY <1>6, RemarkIs DEF RemarksOn
  <2>2. QED
    BY <1>1, <1>3, <1>6, <2>1 DEF WriteSupersede, TypeOK
<1>7. CASE WriteDeprecate
  <2>1. IsStore(map') /\ InOrder(order', map')
    BY <1>7, RemarkIs DEF RemarksOn
  <2>2. QED
    BY <1>1, <1>3, <1>7, <2>1 DEF WriteDeprecate, TypeOK
<1>8. QED
  BY <1>2, <1>4, <1>5, <1>6, <1>7
     DEF Next, vars, EditPython, ReportInSync, RefuseReMint, ApplyRefused

LEMMA ApplySettles ==
  ASSUME SyncInv, ApplyLands
  PROVE  NewPy' = {} /\ edit_meta' = {}
<1>1. PICK records : /\ records = Records
                     /\ Reached(map', map, records, python, Len(records))
  BY ApplyIs
<1>2. python' = python /\ re_mint = {} /\ python \in Layers
  BY ApplyIs DEF SyncInv, TypeOK
<1>3. /\ \A x \in add : \E i \in 1 .. Len(records) : IsAdd(records[i]) /\ records[i].uids = {x}
      /\ \A x \in edit_meta : \E i \in 1 .. Len(records) : SaysMeta(records[i], x)
  BY <1>1, <1>2, RecordsAre
<1>4. add = NewPy /\ NewPy = DOMAIN python \ KnownUids(map) /\ NewPy \subseteq Uid
  BY <1>2, SyncAssumption DEF add, NewPy
<1>5. add \subseteq AddedBy(records, Len(records))
  BY <1>3, <1>4 DEF AddedBy
<1>6. /\ KnownUids(map') = KnownUids(map) \cup AddedBy(records, Len(records))
      /\ \A u \in KnownUids(map') :
            MetaIn(map', u) = IF \E i \in 1 .. Len(records) : SaysMeta(records[i], u)
                              THEN python[u] ELSE MetaIn(map, u)
  BY <1>1 DEF Reached
<1>7. NewPy' = {}
  BY <1>2, <1>4, <1>5, <1>6 DEF NewPy
<1>8. ASSUME NEW u \in DOMAIN python, u \in KnownUids(map')
      PROVE  MetaIn(map', u) = python[u]
  <2>1. CASE \E i \in 1 .. Len(records) : SaysMeta(records[i], u)
    BY <1>6, <1>8, <2>1
  <2>2. CASE ~ \E i \in 1 .. Len(records) : SaysMeta(records[i], u)
    <3>1. u \notin add
      BY <1>3, <2>2 DEF SaysMeta
    <3>2. u \notin edit_meta
      BY <1>3, <2>2
    <3>3. u \in KnownUids(map) /\ python[u] = EntryOf(u).meta
      BY <1>4, <3>1, <3>2 DEF edit_meta
    <3>4. QED
      BY <1>6, <1>8, <2>2, <3>3, EntryMeta
  <2>3. QED
    BY <2>1, <2>2
<1>9. edit_meta' = {}
  <2>1. edit_meta' = {u \in DOMAIN python \cap KnownUids(map') : python[u] # (EntryOf(u).meta)'}
    BY <1>2 DEF edit_meta
  <2>2. QED
    BY <1>8, <2>1, EntryMeta
<1>10. QED
  BY <1>7, <1>9

LEMMA SettledStep == SyncInv /\ [Next]_vars => Settled'
<1> SUFFICES ASSUME SyncInv, [Next]_vars, said' = "applied"
             PROVE  NewPy' = {} /\ edit_meta' = {}
  BY DEF Settled
<1>1. CASE ApplyLands
  BY <1>1, ApplySettles
<1>2. CASE UNCHANGED vars
  BY <1>2 DEF vars, SyncInv, Settled, NewPy, edit_meta, EntryOf
<1>3. CASE WriteSupersede \/ WriteDeprecate
  <2>1. said = "applied" /\ python' = python
    BY <1>3 DEF WriteSupersede, WriteDeprecate
  <2>2. KnownUids(map') = KnownUids(map)
        /\ \A u \in KnownUids(map) : MetaIn(map', u) = MetaIn(map, u)
    BY <1>3, RemarkIs DEF RemarksOn
  <2>3. NewPy = {} /\ edit_meta = {}
    BY <2>1 DEF SyncInv, Settled
  <2>4. NewPy' = {}
    BY <2>1, <2>2, <2>3 DEF NewPy
  <2>5. edit_meta = {u \in DOMAIN python \cap KnownUids(map) : python[u] # MetaIn(map, u)}
    BY EntryMeta DEF edit_meta
  <2>6. edit_meta' = {u \in DOMAIN python \cap KnownUids(map') : python[u] # (EntryOf(u).meta)'}
    BY <2>1 DEF edit_meta
  <2>7. edit_meta' = {}
    BY <2>2, <2>3, <2>5, <2>6, EntryMeta
  <2>8. QED
    BY <2>4, <2>7
<1>4. QED
  BY <1>1, <1>2, <1>3
     DEF Next, EditPython, ReportInSync, RefuseReMint, ApplyRefused, ApplyCrashes

LEMMA SyncInvStep == SyncInv /\ [Next]_vars => SyncInv'
BY TypeOKStep, SettledStep DEF SyncInv

(* The layer stays one of the layers, the order of the dicts names each     *)
(* entry of the map once, and a printed re-mint is a pair of uids.          *)
THEOREM SyncTypeCorrect == Spec => []TypeOK
<1>1. SyncInv => TypeOK
  BY DEF SyncInv
<1>2. QED
  BY <1>1, SyncInvInit, SyncInvStep, PTL DEF Spec

(* One run of --apply leaves nothing of what it proposed to do, for any     *)
(* layers, in whatever state it found the map.                              *)
THEOREM OneApplyIsEnough == Spec => []AppliedMeansAgreed
<1>1. SyncInv => AppliedMeansAgreed
  BY AddIsNew DEF SyncInv, Settled, AppliedMeansAgreed
<1>2. QED
  BY <1>1, SyncInvInit, SyncInvStep, PTL DEF Spec
-----------------------------------------------------------------------------
(* The pairing.  Of the lost elements of an anchor one comes first in the   *)
(* order of the store, and of the new ones one in the order of the layer;   *)
(* each is number 1 of its anchor, so the two are paired.                   *)
LEMMA FirstsArePaired ==
  ASSUME SyncInv, NEW v \in Unmatched, NEW u \in NewPy, Anchor[u] = Anchor[v]
  PROVE  re_mint # {}
<1> DEFINE U == {w \in Unmatched : Anchor[w] = Anchor[v]}
           N == {w \in NewPy : Anchor[w] = Anchor[v]}
<1>1. /\ Unmatched \subseteq KnownUids(map) /\ Range(order) = KnownUids(map)
      /\ order \in Seq(Uid) /\ NewPy \subseteq Uid
  BY SyncAssumption DEF SyncInv, TypeOK, Unmatched, NewPy
<1>2. \A w \in Unmatched : Place(w) \in Nat /\ order[Place(w)] = w
  <2> SUFFICES ASSUME NEW w \in Unmatched
               PROVE  Place(w) \in Nat /\ order[Place(w)] = w
    OBVIOUS
  <2>1. \E i \in DOMAIN order : order[i] = w
    BY <1>1 DEF Range
  <2>2. Place(w) \in DOMAIN order /\ order[Place(w)] = w
    BY <2>1 DEF Place
  <2>3. QED
    BY <1>1, <2>2
<1>3. PICK first \in U : \A w \in U : Place(first) <= Place(w)
  <2> DEFINE T == {Place(w) : w \in U}
  <2>1. T \subseteq Nat /\ T # {}
    BY <1>2
  <2>2. PICK t \in T : \A s \in T : t <= s
    BY <2>1, LeastNumber, Zenon
  <2>3. QED
    BY <2>2
<1>4. PICK new \in N : \A w \in N : Rank[new] <= Rank[w]
  <2> DEFINE T == {Rank[w] : w \in N}
  <2>1. T \subseteq Nat /\ T # {}
    BY <1>1, SyncAssumption
  <2>2. PICK t \in T : \A s \in T : t <= s
    BY <2>1, LeastNumber, Zenon
  <2>3. QED
    BY <2>2
<1>5. NthInStore(first) = 1
  <2>1. {w \in Unmatched : Anchor[w] = Anchor[first] /\ Place(w) <= Place(first)} = {first}
    <3>1. ASSUME NEW w \in U, Place(w) <= Place(first)  PROVE w = first
      <4>1. Place(w) = Place(first)
        BY <1>2, <1>3, <3>1
      <4>2. QED
        BY <1>2, <4>1
    <3>2. QED
      BY <1>2, <1>3, <3>1
  <2>2. QED
    BY <2>1, FS_Singleton DEF NthInStore
<1>6. NthInPython(new) = 1
  <2>1. {w \in NewPy : Anchor[w] = Anchor[new] /\ Rank[w] <= Rank[new]} = {new}
    <3>1. ASSUME NEW w \in N, Rank[w] <= Rank[new]  PROVE w = new
      <4>1. Rank[w] \in Nat /\ Rank[new] \in Nat /\ w \in Uid /\ new \in Uid
        BY <1>1, SyncAssumption
      <4>2. Rank[w] = Rank[new]
        BY <1>4, <3>1, <4>1
      <4>3. QED
        BY <4>1, <4>2, SyncAssumption
    <3>2. Rank[new] <= Rank[new]
      BY <1>1, SyncAssumption
    <3>3. QED
      BY <3>1, <3>2
  <2>2. QED
    BY <2>1, FS_Singleton DEF NthInPython
<1>7. << first, new >> \in re_mint
  BY <1>3, <1>4, <1>5, <1>6 DEF re_mint
<1>8. QED
  BY <1>7

(* No run of the tool, complete or cut short, lands as an addition what the *)
(* pairing would call a re-mint of an element the store still has.          *)
THEOREM ReMintsAreNeverAdded == Spec => NoSilentReMint
<1> DEFINE Enters == \A u \in KnownUids(map') \ KnownUids(map),
                        v \in KnownUids(map) \ DOMAIN python :
                        Anchor[u] = Anchor[v] => Retired(v)
<1>1. SyncInv /\ [Next]_vars => Enters
  <2> SUFFICES ASSUME SyncInv, [Next]_vars,
                      NEW u \in KnownUids(map') \ KnownUids(map),
                      NEW v \in KnownUids(map) \ DOMAIN python,
                      Anchor[u] = Anchor[v], ~ Retired(v)
               PROVE  FALSE
    OBVIOUS
  <2>1. v \in Unmatched
    BY DEF Unmatched
  <2>2. CASE ApplyLands \/ ApplyCrashes
    <3>1. re_mint = {}
      BY <2>2, ApplyIs
    <3>2. PICK records : /\ IsReport(records)
                         /\ Reached(map', map, records, python, Len(records))
      BY <2>2, ApplyIs
    <3>3. u \in AddedBy(records, Len(records))
      BY <3>2 DEF Reached
    <3>4. u \in add
      BY <3>2, <3>3 DEF AddedBy, IsReport
    <3>5. u \in NewPy
      BY <3>4, AddIsNew
    <3>6. QED
      BY <2>1, <3>1, <3>5, FirstsArePaired
  <2>3. CASE WriteSupersede \/ WriteDeprecate
    BY <2>3, RemarkIs DEF RemarksOn
  <2>4. CASE map' = map
    BY <2>4
  <2>5. QED
    BY <2>2, <2>3, <2>4
       DEF Next, vars, EditPython, ReportInSync, RefuseReMint, ApplyRefused
<1>2. SyncInv /\ [Next]_vars => [Enters]_vars
  BY <1>1
<1>3. QED
  BY <1>2, SyncInvInit, SyncInvStep, PTL DEF Spec, NoSilentReMint
-----------------------------------------------------------------------------
(* The reports.  While the layer is left alone, what the tool has to say    *)
(* only becomes less: a run adds uids of the layer alone and touches no     *)
(* entry that the layer lost, and a remark marks the entry it names.  A     *)
(* printed re-mint stays one of an element of the store that is lost.       *)

PrintedLost == \A p \in printed : p[1] \in KnownUids(map) \ DOMAIN python

FlowInv == SyncInv /\ PrintedLost

LEMMA RetiredIs == /\ \A u : Retired(u) <=> Marked(EntryIn(map, u))
                   /\ \A u : Retired(u)' <=> Marked(EntryIn(map', u))
BY DEF Retired, Marked, EntryIn, EntryOf

(* The lists of a report, of the map alone. *)
LEMMA ReportsAre ==
  /\ NewPy = DOMAIN python \ KnownUids(map)
  /\ Unmatched = {u \in KnownUids(map) \ DOMAIN python : ~ Marked(EntryIn(map, u))}
  /\ edit_meta = {u \in DOMAIN python \cap KnownUids(map) : python[u] # MetaIn(map, u)}
  /\ python' = python =>
        /\ NewPy' = DOMAIN python \ KnownUids(map')
        /\ Unmatched' = {u \in KnownUids(map') \ DOMAIN python : ~ Marked(EntryIn(map', u))}
        /\ edit_meta' = {u \in DOMAIN python \cap KnownUids(map') : python[u] # MetaIn(map', u)}
<1>1. NewPy = DOMAIN python \ KnownUids(map)
  BY DEF NewPy
<1>2. Unmatched = {u \in KnownUids(map) \ DOMAIN python : ~ Marked(EntryIn(map, u))}
  BY RetiredIs DEF Unmatched
<1>3. edit_meta = {u \in DOMAIN python \cap KnownUids(map) : python[u] # MetaIn(map, u)}
  BY EntryMeta DEF edit_meta
<1>4. ASSUME python' = python
      PROVE  /\ NewPy' = DOMAIN python \ KnownUids(map')
             /\ Unmatched' = {u \in KnownUids(map') \ DOMAIN python :
                                 ~ Marked(EntryIn(map', u))}
             /\ edit_meta' = {u \in DOMAIN python \cap KnownUids(map') :
                                 python[u] # MetaIn(map', u)}
  <2>1. NewPy' = DOMAIN python' \ KnownUids(map')
    BY DEF NewPy
  <2>2. Unmatched' = {u \in KnownUids(map') \ DOMAIN python' : ~ Retired(u)'}
    BY DEF Unmatched
  <2>3. edit_meta' = {u \in DOMAIN python' \cap KnownUids(map') :
                         python'[u] # (EntryOf(u).meta)'}
    BY DEF edit_meta
  <2>4. QED
    BY <1>4, <2>1, <2>2, <2>3, RetiredIs, EntryMeta
<1>5. QED
  BY <1>1, <1>2, <1>3, <1>4

Shrinks == Unmatched' \subseteq Unmatched /\ NewPy' \subseteq NewPy /\ edit_meta' \subseteq edit_meta

LEMMA ApplyShrinks ==
  ASSUME SyncInv, ApplyLands \/ ApplyCrashes
  PROVE  Shrinks
<1>1. PICK records : /\ IsReport(records)
                     /\ Reached(map', map, records, python, Len(records))
  BY ApplyIs
<1>2. python' = python
  BY ApplyIs
<1> DEFINE n == Len(records)
<1>3. /\ KnownUids(map') = KnownUids(map) \cup AddedBy(records, n)
      /\ \A u \in KnownUids(map') :
            MetaIn(map', u) = IF \E i \in 1 .. n : SaysMeta(records[i], u) THEN python[u]
                                                                          ELSE MetaIn(map, u)
      /\ \A u \in KnownUids(map) :
            (\A i \in 1 .. n : u \notin records[i].uids) => EntryIn(map', u) = EntryIn(map, u)
  BY <1>1 DEF Reached
<1>4. \A i \in 1 .. n : records[i].uids \subseteq DOMAIN python
  BY <1>1 DEF IsReport
<1>5. \A u \in AddedBy(records, n) :
         u \in DOMAIN python /\ \E i \in 1 .. n : SaysMeta(records[i], u)
  BY <1>4 DEF AddedBy, SaysMeta
<1> HIDE DEF n
<1>6. \A u \in Unmatched' : u \in Unmatched
  BY <1>2, <1>3, <1>4, <1>5, ReportsAre
<1>7. \A u \in edit_meta' : u \in edit_meta
  BY <1>2, <1>3, <1>5, ReportsAre
<1>8. NewPy' \subseteq NewPy
  BY <1>2, <1>3, ReportsAre
<1>9. QED
  BY <1>6, <1>7, <1>8 DEF Shrinks

LEMMA RemarkShrinks ==
  ASSUME NEW x, RemarksOn(x), python' = python
  PROVE  Shrinks /\ x \notin Unmatched'
BY ReportsAre DEF RemarksOn, Shrinks

LEMMA StepShrinks == SyncInv /\ [Next]_vars /\ python' = python => Shrinks
<1> SUFFICES ASSUME SyncInv, [Next]_vars, python' = python  PROVE Shrinks
  OBVIOUS
<1>1. CASE ApplyLands \/ ApplyCrashes
  BY <1>1, ApplyShrinks
<1>2. CASE WriteSupersede \/ WriteDeprecate
  BY <1>2, RemarkIs, RemarkShrinks
<1>3. CASE map' = map
  BY <1>3, ReportsAre DEF Shrinks
<1>4. QED
  BY <1>1, <1>2, <1>3 DEF Next, vars, EditPython, ReportInSync, RefuseReMint, ApplyRefused

LEMMA KnownStays == SyncInv /\ [Next]_vars => KnownUids(map) \subseteq KnownUids(map')
<1> SUFFICES ASSUME SyncInv, [Next]_vars  PROVE KnownUids(map) \subseteq KnownUids(map')
  OBVIOUS
<1>1. CASE ApplyLands \/ ApplyCrashes
  BY <1>1, ApplyIs DEF Reached
<1>2. CASE WriteSupersede \/ WriteDeprecate
  BY <1>2, RemarkIs DEF RemarksOn
<1>3. CASE map' = map
  BY <1>3
<1>4. QED
  BY <1>1, <1>2, <1>3 DEF Next, vars, EditPython, ReportInSync, RefuseReMint, ApplyRefused

LEMMA FlowInvStep == FlowInv /\ [Next]_vars => FlowInv'
<1> SUFFICES ASSUME FlowInv, [Next]_vars  PROVE FlowInv'
  OBVIOUS
<1>1. SyncInv' /\ KnownUids(map) \subseteq KnownUids(map')
  BY SyncInvStep, KnownStays DEF FlowInv
<1>2. CASE printed' \subseteq printed /\ python' = python
  BY <1>1, <1>2 DEF FlowInv, PrintedLost
<1>3. CASE printed' = {}
  BY <1>1, <1>3 DEF FlowInv, PrintedLost
<1>4. CASE RefuseReMint
  <2>1. printed' = re_mint /\ python' = python /\ map' = map
    BY <1>4 DEF RefuseReMint
  <2>2. \A p \in re_mint : p[1] \in KnownUids(map) \ DOMAIN python
    BY DEF re_mint, Unmatched
  <2>3. QED
    BY <1>1, <2>1, <2>2 DEF FlowInv, PrintedLost
<1>5. QED
  BY <1>2, <1>3, <1>4
     DEF Next, vars, EditPython, ReportInSync, ApplyLands, ApplyRefused, ApplyCrashes,
         WriteSupersede, WriteDeprecate

(* While the layer is left alone no step brings anything into a report, and *)
(* each thing done takes something out of them.                             *)
ReportsShrink ==
    [][/\ python' = python => Shrinks
       /\ ApplyLands => NewPy' = {} /\ edit_meta' = {}
       /\ WriteDeprecate => \E u \in Unmatched : u \notin Unmatched'
       /\ WriteSupersede => \E p \in printed \ printed' : Retired(p[1])']_vars

(* The supersede flow of compute_sync() and main(), run after run: until    *)
(* the layer is edited, the elements that are lost, those that are new and  *)
(* those whose metadata differs only become fewer.  An --apply leaves none  *)
(* of the last two, a deprecation takes its element out, and a supersede    *)
(* that a run printed retires the element it was printed for, whatever      *)
(* other runs, crashes and remarks came in between.                         *)
THEOREM ReportsOnlyShrink == Spec => ReportsShrink
<1>1. Init => FlowInv
  BY SyncInvInit DEF FlowInv, PrintedLost, Init
<1>2. ASSUME FlowInv, WriteDeprecate
      PROVE  \E u \in Unmatched : u \notin Unmatched'
  <2>1. PICK u \in deprecate : RemarksOn(u)
    BY <1>2, DeprecateIs DEF FlowInv
  <2>2. python' = python /\ u \in Unmatched
    BY <1>2 DEF WriteDeprecate, deprecate
  <2>3. QED
    BY <2>1, <2>2, RemarkShrinks
<1>3. ASSUME FlowInv, WriteSupersede
      PROVE  \E p \in printed \ printed' : Retired(p[1])'
  <2>1. PICK p \in printed : printed' = printed \ {p} /\ RemarksOn(p[1])
    BY <1>3, SupersedeIs DEF FlowInv
  <2>2. Marked(EntryIn(map', p[1]))
    BY <1>3, <2>1 DEF FlowInv, PrintedLost, RemarksOn
  <2>3. QED
    BY <2>1, <2>2, RetiredIs
<1> DEFINE Step == /\ python' = python => Shrinks
                   /\ ApplyLands => NewPy' = {} /\ edit_meta' = {}
                   /\ WriteDeprecate => \E u \in Unmatched : u \notin Unmatched'
                   /\ WriteSupersede => \E p \in printed \ printed' : Retired(p[1])'
<1>4. FlowInv /\ [Next]_vars => [Step]_vars
  BY <1>2, <1>3, StepShrinks, ApplySettles DEF FlowInv
<1>5. QED
  BY <1>1, <1>4, FlowInvStep, PTL DEF Spec, ReportsShrink
=============================================================================
