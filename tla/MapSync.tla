------------------------------ MODULE MapSync ------------------------------
(***************************************************************************)
(* The sync tool (omai/sync.py): the Python operator layer, which its      *)
(* authors edit, against the map, with the people who carry out what the   *)
(* tool only reports.  The store is taken at its contract (MapContract):   *)
(* what the gates accept lands record by record, and a crash leaves a      *)
(* prefix of it.                                                           *)
(***************************************************************************)
EXTENDS MapGates, Enumeration, Functions

CONSTANTS Layers,       \* what the Python layer may produce: uid -> meta
          Anchor,       \* the re-mint anchor of a uid, its kind included
          Rank,         \* the order in which the layer is walked, nodes first
          FirstLayer,   \* the layer the genesis migration was run on
          MaxEdits,     \* bound on the edits of the Python layer
          MaxCrashes    \* bound on the crashes of --apply

ASSUME SyncAssumption ==
    /\ FirstLayer \in Layers
    /\ \A layer \in Layers :
          /\ DOMAIN layer \subseteq Uid /\ IsFiniteSet(DOMAIN layer)
          /\ \A e \in DOMAIN layer \cap Edge : Ends[e] \subseteq DOMAIN layer
    /\ Rank \in [Uid -> Nat] /\ \A u, v \in Uid : Rank[u] = Rank[v] => u = v
    /\ \A n \in Node, e \in Edge : Rank[n] < Rank[e] /\ Anchor[n] # Anchor[e]
    /\ MaxEdits \in Nat /\ MaxCrashes \in Nat

VARIABLES python,   \* the current Python layer
          map,      \* the view of the store
          order,    \* the uids of the view in the order of its dicts
          said,     \* the outcome of the last run of the tool
          printed,  \* the re-mints it told to supersede, those done left out
          edits, crashes

vars == << python, map, order, said, printed, edits, crashes >>

(* Fault: the kind of the first pass is kept for the second. *)
ChangesAllNodes(op, uids) ==
    LET walk == Sorted(uids, Rank)
    IN [i \in DOMAIN walk |->
           [op |-> IF op = "add" THEN "add_node" ELSE op,
            uids |-> {walk[i]}, meta |-> python[walk[i]], new |-> {}]]

(* Change records for uids of the Python layer, in the order it is walked. *)
Changes(op, uids) ==
    LET walk == Sorted(uids, Rank)
    IN [i \in DOMAIN walk |->
           [op |-> IF op # "add" THEN op
                   ELSE IF walk[i] \in Node THEN "add_node" ELSE "add_edge",
            uids |-> {walk[i]}, meta |-> python[walk[i]], new |-> {}]]

Landed(view, records) ==
    LET at[i \in 0 .. Len(records)] ==
            IF i = 0 THEN view ELSE Apply(at[i - 1], records[i])
    IN at[Len(records)]

(* A dict keeps the place a uid was first inserted at. *)
Inserting(records, u) == {i \in DOMAIN records : IsAdd(records[i]) /\ u \in records[i].uids}
FirstInserting(records, u) ==
    CHOOSE i \in Inserting(records, u) : \A j \in Inserting(records, u) : i <= j

Placed(places, records) ==
    LET inserted == {u \in Uid : Inserting(records, u) # {}} \ Range(places)
    IN places \o Sorted(inserted, [u \in inserted |-> FirstInserting(records, u)])

Lands(records) == /\ map' = Landed(map, records)
                  /\ order' = Placed(order, records)
-----------------------------------------------------------------------------
(* compute_sync(). *)

EntryOf(u) == IF u \in DOMAIN map.nodes THEN map.nodes[u] ELSE map.edges[u]
Retired(u) == EntryOf(u).superseded_by # {} \/ EntryOf(u).deprecated

NewPy == DOMAIN python \ KnownUids(map)
edit_meta == {u \in DOMAIN python \cap KnownUids(map) : python[u] # EntryOf(u).meta}

(* Fault: the retired entries are looked at too. *)
UnmatchedWithRetired == KnownUids(map) \ DOMAIN python

(* The elements that only the store has, the retired ones left out. *)
Unmatched == {u \in KnownUids(map) \ DOMAIN python : ~ Retired(u)}

(* Each of them, in the order of the store, takes the first new uid with    *)
(* its anchor, in the order of the layer, that is not claimed yet: the k-th *)
(* of an anchor takes the k-th.                                             *)
Place(u) == CHOOSE i \in DOMAIN order : order[i] = u
NthInStore(u) ==
    Cardinality({v \in Unmatched : Anchor[v] = Anchor[u] /\ Place(v) <= Place(u)})
NthInPython(u) ==
    Cardinality({v \in NewPy : Anchor[v] = Anchor[u] /\ Rank[v] <= Rank[u]})

(* Fault: the second pass is over the nodes alone. *)
ReMintNodes == {p \in Unmatched \X NewPy : /\ p[1] \in Node
                                           /\ Anchor[p[1]] = Anchor[p[2]]
                                           /\ NthInStore(p[1]) = NthInPython(p[2])}

re_mint == {p \in Unmatched \X NewPy : /\ Anchor[p[1]] = Anchor[p[2]]
                                       /\ NthInStore(p[1]) = NthInPython(p[2])}

deprecate == Unmatched \ {p[1] : p \in re_mint}
add == NewPy \ {p[2] : p \in re_mint}

(* total == 0 *)
InSync == add = {} /\ edit_meta = {} /\ deprecate = {} /\ re_mint = {}
-----------------------------------------------------------------------------
(* main() with --apply, and the people around it. *)

Init ==
    /\ python = FirstLayer
    /\ map = Landed(EmptyView, Changes("add", DOMAIN FirstLayer))
    /\ order = Placed(<< >>, Changes("add", DOMAIN FirstLayer))
    /\ said = "nothing" /\ printed = {}
    /\ edits = 0 /\ crashes = 0

EditPython(layer) ==
    /\ edits < MaxEdits
    /\ edits' = edits + 1
    /\ python' = layer
    /\ said' = "nothing" /\ printed' = {}
    /\ UNCHANGED << map, order, crashes >>

(* The contribution of --apply, in the order of its lists.  The actions bind *)
(* it with \E, so that it is computed once, as in the code.                 *)
Records == Changes("add", add) \o Changes("edit_meta", edit_meta)

ReportInSync ==
    /\ InSync
    /\ said' = "in sync"
    /\ UNCHANGED << python, map, order, printed, edits, crashes >>

RefuseReMint ==
    /\ re_mint # {}
    /\ said' = "re_mint" /\ printed' = re_mint
    /\ UNCHANGED << python, map, order, edits, crashes >>

ApplyLands ==
    /\ ~ InSync /\ re_mint = {}
    /\ \E records \in {Records} : Admissible(records, map) /\ Lands(records)
    /\ said' = "applied"
    /\ UNCHANGED << python, printed, edits, crashes >>

(* GateError: the run ends with a traceback and nothing is written. *)
ApplyRefused ==
    /\ ~ InSync /\ re_mint = {}
    /\ ~ Admissible(Records, map)
    /\ said' = "refused"
    /\ UNCHANGED << python, map, order, printed, edits, crashes >>

ApplyCrashes ==
    /\ crashes < MaxCrashes
    /\ crashes' = crashes + 1
    /\ re_mint = {}
    /\ \E records \in {Records} :
          /\ Admissible(records, map)
          /\ \E k \in 0 .. Len(records) - 1 : Lands(SubSeq(records, 1, k))
    /\ said' = "nothing"
    /\ UNCHANGED << python, printed, edits >>

(* A person follows the instruction printed with exit code 3, a supersede   *)
(* for each pair.                                                           *)
WriteSupersede ==
    /\ \E p \in printed :
          /\ Lands(<< [op |-> "supersede", uids |-> {p[1]},
                       meta |-> EntryOf(p[1]).meta, new |-> {p[2]}] >>)
          /\ printed' = printed \ {p}
    /\ UNCHANGED << python, said, edits, crashes >>

(* A person agrees with a deprecation, which every run prints and --apply   *)
(* leaves out.                                                              *)
WriteDeprecate ==
    /\ said \notin {"nothing", "in sync"}
    /\ \E u \in deprecate :
          Lands(<< [op |-> "deprecate", uids |-> {u},
                    meta |-> EntryOf(u).meta, new |-> {}] >>)
    /\ UNCHANGED << python, said, printed, edits, crashes >>

Next ==
    \/ \E layer \in Layers : EditPython(layer)
    \/ ReportInSync \/ RefuseReMint \/ ApplyLands \/ ApplyRefused \/ ApplyCrashes
    \/ WriteSupersede \/ WriteDeprecate

(* The tool is run and its reports are followed, again and again; that the  *)
(* layer is edited, or that a run crashes, is not to be relied on.          *)
Spec ==
    /\ Init /\ [][Next]_vars
    /\ WF_vars(ReportInSync) /\ WF_vars(RefuseReMint) /\ WF_vars(ApplyLands)
    /\ SF_vars(WriteSupersede) /\ SF_vars(WriteDeprecate)
-----------------------------------------------------------------------------
(* The types, with what ties the order of the dicts to their content. *)
TypeOK ==
    /\ python \in Layers
    /\ DOMAIN map.nodes \subseteq Node /\ DOMAIN map.edges \subseteq Edge
    /\ order \in Seq(Uid) /\ Range(order) = KnownUids(map) /\ IsInjective(order)
    /\ said \in {"nothing", "in sync", "re_mint", "applied", "refused"}
    /\ printed \subseteq Uid \X Uid
    /\ edits \in 0 .. MaxEdits /\ crashes \in 0 .. MaxCrashes

(* One run of --apply is enough: after it nothing is left of the additions  *)
(* and metadata edits it proposed, whatever the entries it met had become   *)
(* (retired ones whose identity the layer produces again included).         *)
AppliedMeansAgreed == said = "applied" => add = {} /\ edit_meta = {}

(* A re-mint is never landed as a plain addition: as long as the store has  *)
(* a live element that the Python layer lost, no element of its kind and    *)
(* anchor enters the map, so that a changed identity always goes through a  *)
(* deliberate supersede, after crashes and over any number of runs.         *)
NoSilentReMint ==
    [][\A u \in KnownUids(map') \ KnownUids(map), v \in KnownUids(map) \ DOMAIN python :
          Anchor[u] = Anchor[v] => Retired(v)]_vars

(* Once the layer is left alone, running the tool and doing what it reports *)
(* ends in a map the tool calls in sync, for good: the supersede flow of    *)
(* compute_sync()'s comment, deprecations and crashes included.  Only what  *)
(* the gates refuse, now and ever after, can keep it from that.             *)
Converges == \/ <>[](InSync /\ said = "in sync")
             \/ <>[](re_mint = {} /\ ~ Admissible(Records, map))

(* What the tool says in its success message: the map and the layer agree,  *)
(* that is, the layer produces exactly the entries of the map that are not  *)
(* retired, with their metadata.                                            *)
InSyncMeansAgree ==
    said = "in sync" =>
        /\ DOMAIN python = {u \in KnownUids(map) : ~ Retired(u)}
        /\ \A u \in DOMAIN python : python[u] = EntryOf(u).meta
=============================================================================
