------------------------------- MODULE MapLog -------------------------------
(***************************************************************************)
(* The data of the map store: change records, the chained version, the     *)
(* replay of a log into the current view, and what verify() checks of it   *)
(* (omai/store.py).  No state lives here; MapStore is the state machine.   *)
(*                                                                         *)
(* A uid is the hash of an identity dict, so a uid stands for its identity *)
(* and an edge uid determines the edge's endpoints (Ends).  A version is   *)
(* the hash of the previous version and of the record: it is modelled, as  *)
(* a hash without collisions, by the history it commits to, and the 64     *)
(* zeros before the first record by the empty history.  Every writer signs *)
(* with the same author, date and reason, the case in which two racing     *)
(* writers can produce records that are equal byte for byte.               *)
(*                                                                         *)
(* view is a recursive function over the index, not a fold of the library: *)
(* its defining equation is what the proofs about replay unfold.           *)
(***************************************************************************)
EXTENDS Integers, Sequences

CONSTANTS Node,     \* uids of nodes
          Edge,     \* uids of edges
          Ends,     \* Ends[e]: the input and output nodes in e's identity
          Meta      \* values of the one metadata key that is kept

ASSUME UidAssumption == /\ Node \cap Edge = {}
                        /\ Ends \in [Edge -> SUBSET Node]

Uid == Node \cup Edge

CHANGE_OPS == {"add_node", "add_edge", "edit_meta", "deprecate", "supersede",
               "equate"}

(* The (op, payload) of a record.  uids are the entries it names: the one   *)
(* uid of an add, an edit or a deprecation, the old_uids of a supersede,    *)
(* the uids of an equate.  meta and new are used by the ops that have them. *)
Change == [op : CHANGE_OPS, uids : SUBSET Uid, meta : Meta, new : SUBSET Uid]

IsAdd(c) == c.op \in {"add_node", "add_edge"}

GENESIS_PREV == << >>

(* Fault: the hash is of the payload alone. *)
PayloadHash(prev, seq, change) == << [seq |-> 1, change |-> change] >>

version_hash(prev, seq, change) == Append(prev, [seq |-> seq, change |-> change])

make_record(seq, change, prev) ==
    [seq |-> seq, change |-> change, prev |-> prev,
     version |-> version_hash(prev, seq, change)]

Version == Seq([seq : Nat, change : Change])
Record == [seq : Nat, change : Change, prev : Version, version : Version]

head(recs) == IF recs = << >> THEN GENESIS_PREV ELSE recs[Len(recs)].version

(* Fault: the seq is the number of lines. *)
NextRecordCountsLines(recs, change) == make_record(Len(recs) + 1, change, head(recs))

(* The record push() builds from the log it has just read. *)
NextRecord(recs, change) ==
    make_record(IF recs = << >> THEN 1 ELSE recs[Len(recs)].seq + 1,
                change, head(recs))
-----------------------------------------------------------------------------
(* Replay. *)

EmptyView == [nodes |-> << >>, edges |-> << >>]

Fresh(c) == [meta |-> c.meta, deprecated |-> FALSE, superseded_by |-> {},
             equivalent_to |-> {}]

(* Fault: a deprecated entry is frozen. *)
MutateLive(entry, c) ==
    IF entry.deprecated THEN entry
    ELSE CASE c.op = "edit_meta" -> [entry EXCEPT !.meta = c.meta]
           [] c.op = "deprecate" -> [entry EXCEPT !.deprecated = TRUE]
           [] c.op = "supersede" -> [entry EXCEPT !.superseded_by = c.new]
           [] c.op = "equate"    -> [entry EXCEPT !.equivalent_to = c.uids]

(* What a non-add op does to an entry it names. *)
Mutate(entry, c) ==
    CASE c.op = "edit_meta" -> [entry EXCEPT !.meta = c.meta]
      [] c.op = "deprecate" -> [entry EXCEPT !.deprecated = TRUE]
      [] c.op = "supersede" -> [entry EXCEPT !.superseded_by = c.new]
      [] c.op = "equate"    -> [entry EXCEPT !.equivalent_to = c.uids]

(* Only entries that exist are touched: a change naming an unknown uid has  *)
(* nothing to act on and is skipped.                                        *)
Touch(entries, c) ==
    [u \in DOMAIN entries |-> IF u \in c.uids THEN Mutate(entries[u], c)
                                              ELSE entries[u]]

(* Fault: an entry that is there is kept. *)
InsertIfAbsent(entries, c) ==
    [u \in DOMAIN entries \cup c.uids |-> IF u \in DOMAIN entries THEN entries[u]
                                                                  ELSE Fresh(c)]

(* An add inserts a fresh entry or overwrites the one there. *)
Insert(entries, c) ==
    [u \in DOMAIN entries \cup c.uids |-> IF u \in c.uids THEN Fresh(c)
                                                          ELSE entries[u]]

Apply(view, c) ==
    CASE c.op = "add_node" -> [view EXCEPT !.nodes = Insert(@, c)]
      [] c.op = "add_edge" -> [view EXCEPT !.edges = Insert(@, c)]
      [] OTHER -> [nodes |-> Touch(view.nodes, c), edges |-> Touch(view.edges, c)]

replay(recs) ==
    LET view[i \in 0 .. Len(recs)] ==
            IF i = 0 THEN EmptyView ELSE Apply(view[i - 1], recs[i].change)
    IN view[Len(recs)]

KnownUids(view) == DOMAIN view.nodes \cup DOMAIN view.edges

(* The positions of a version; read() replays up to the first of them. *)
Positions(recs, version) == {i \in 1 .. Len(recs) : recs[i].version = version}

(* Fault: the last line that has the version. *)
LastPosition(recs, version) ==
    CHOOSE i \in Positions(recs, version) :
        \A j \in Positions(recs, version) : j <= i

FirstPosition(recs, version) ==
    CHOOSE i \in Positions(recs, version) :
        \A j \in Positions(recs, version) : i <= j

read(recs, version) == replay(SubSeq(recs, 1, FirstPosition(recs, version)))
-----------------------------------------------------------------------------
(* verify(), one operator per check. *)

Recomputes(recs) ==
    \A i \in 1 .. Len(recs) :
        recs[i].version = version_hash(recs[i].prev, recs[i].seq, recs[i].change)

(* Fault: any earlier version will do as prev. *)
LinkedAnywhere(recs) ==
    \A i \in 1 .. Len(recs) :
        recs[i].prev \in {GENESIS_PREV} \cup {recs[j].version : j \in 1 .. i - 1}

Linked(recs) ==
    \A i \in 1 .. Len(recs) :
        recs[i].prev = IF i = 1 THEN GENESIS_PREV ELSE recs[i - 1].version

Dense(recs) == \A i \in 1 .. Len(recs) : recs[i].seq = i

(* A non-add record names only uids that are known when it is replayed. *)
TargetsKnown(recs) ==
    \A i \in 1 .. Len(recs) :
        IsAdd(recs[i].change) \/
        recs[i].change.uids \subseteq KnownUids(replay(SubSeq(recs, 1, i - 1)))

(* The kinds of problem verify() reports for a readable log and the two     *)
(* files of current/.                                                       *)
verify(recs, nodesFile, edgesFile) ==
    {p \in {"version", "chain", "seq", "unknown uid", "nodes.json", "edges.json"} :
        \/ p = "version" /\ ~ Recomputes(recs)
        \/ p = "chain" /\ ~ Linked(recs)
        \/ p = "seq" /\ ~ Dense(recs)
        \/ p = "unknown uid" /\ ~ TargetsKnown(recs)
        \/ p = "nodes.json" /\ nodesFile # replay(recs).nodes
        \/ p = "edges.json" /\ edgesFile # replay(recs).edges}
=============================================================================
