------------------------------ MODULE MapStore ------------------------------
(***************************************************************************)
(* The log-first map store (omai/store.py): writer processes that propose  *)
(* contributions to one store directory, with no lock between them, and    *)
(* that may die at any point.                                              *)
(*                                                                         *)
(* propose() reads the whole log and validates against it; then, for each  *)
(* record that is not a no-op, push() reads the log again, appends a line, *)
(* and rewrites current/nodes.json and current/edges.json: it opens each   *)
(* file, which empties it, and writes the map from its start.  Each of     *)
(* those accesses to the file system is one action.                        *)
(***************************************************************************)
EXTENDS MapGates, Enumeration

CONSTANTS Writer,         \* the processes
          Contributions,  \* what a process may propose
          GenesisLog,     \* the log the genesis migration has left
          MaxLog,         \* bound: no proposal starts once the log is this long
          MaxCrashes,     \* bound on the number of crashes
          Empty,          \* the content of a file that has been opened for writing
          Garbled         \* the content of a file that is no writer's: part of a
                          \* map, or pieces of the maps of several writers

ASSUME StoreAssumption ==
    /\ Contributions \subseteq Seq(Change)
    /\ GenesisLog \in Seq(Record)
    /\ Recomputes(GenesisLog) /\ Linked(GenesisLog) /\ Dense(GenesisLog)
    /\ MaxLog \in Nat
    /\ MaxCrashes \in Nat

VARIABLES
    log,        \* the records on the complete lines of log.jsonl
    tail,       \* how log.jsonl ends: "clean" after a newline, "unterminated"
                \* when the last record has no newline, "torn" when a line is
                \* not JSON and so no read of the log succeeds
    nodesFile,  \* current/nodes.json
    edgesFile,  \* current/edges.json
    pc,         \* where each writer is
    asked,      \* the contribution a writer is proposing
    left,       \* the indices of asked that are still to be pushed
    landed,     \* the indices of asked whose record this writer has appended
    seen,       \* the log as the writer's current push() read it
    crashes     \* how many crashes there have been

vars == << log, tail, nodesFile, edgesFile, pc, asked, left, landed, seen, crashes >>
files == << nodesFile, edgesFile >>
locals == << asked, left, landed >>

Least(S) == CHOOSE i \in S : \A j \in S : i <= j

Readable == tail # "torn"

(* A writer in _materialize: before it opens a file, or with the file open. *)
Materializing == {"nodes", "nodesOpen", "edges", "edgesOpen"}

(* What a file may hold once a writer that has it open has written content  *)
(* from its start.  Where another writer has written since the file was     *)
(* emptied, its end sticks out, or the two writes mix.                      *)
Written(file, content) ==
    IF file \in {Empty, content} THEN {content} ELSE {content, Garbled}

(* Faults: the last record first; the new record not materialized. *)
PendingLastFirst(w) ==
    NextRecord(seen[w], asked[w][CHOOSE i \in left[w] : \A j \in left[w] : j <= i])

SeenWithoutPending(w) == seen[w]

(* The record w is pushing and the log w materializes after appending it. *)
Pending(w) == NextRecord(seen[w], asked[w][Least(left[w])])
Seen(w) == Append(seen[w], Pending(w))

Init ==
    /\ log = GenesisLog
    /\ tail = "clean"
    /\ nodesFile = replay(GenesisLog).nodes
    /\ edgesFile = replay(GenesisLog).edges
    /\ pc = [w \in Writer |-> "idle"]
    /\ asked = [w \in Writer |-> << >>]
    /\ left = [w \in Writer |-> {}]
    /\ landed = [w \in Writer |-> {}]
    /\ seen = [w \in Writer |-> << >>]
    /\ crashes = 0
-----------------------------------------------------------------------------
(* propose(), up to its loop.  A contribution the gates refuse, like any    *)
(* proposal to a log that cannot be read, raises before anything is written *)
(* and leaves the state as it was: it is no step.                           *)
Propose(w, contribution) ==
    /\ pc[w] = "idle"
    /\ Readable
    /\ Len(log) < MaxLog
    /\ Admissible(contribution, replay(log))
    /\ LET rest == DOMAIN contribution \ no_op_indices(contribution, replay(log))
       IN /\ left' = [left EXCEPT ![w] = rest]
          /\ pc' = [pc EXCEPT ![w] = IF rest = {} THEN "head" ELSE "read"]
    /\ asked' = [asked EXCEPT ![w] = contribution]
    /\ landed' = [landed EXCEPT ![w] = {}]
    /\ UNCHANGED << log, tail, files, seen, crashes >>

(* Fault: what was left to push is not forgotten. *)
FinishKeepsLeft(w) ==
    /\ pc' = [pc EXCEPT ![w] = "idle"]
    /\ asked' = [asked EXCEPT ![w] = << >>]
    /\ UNCHANGED << left, landed >>

(* The process is done with its contribution, for better or worse. *)
Finish(w) ==
    /\ pc' = [pc EXCEPT ![w] = "idle"]
    /\ asked' = [asked EXCEPT ![w] = << >>]
    /\ left' = [left EXCEPT ![w] = {}]
    /\ landed' = [landed EXCEPT ![w] = {}]

(* Nothing to push: propose() returns the head it reads now. *)
ReturnHead(w) ==
    /\ pc[w] = "head"
    /\ Readable
    /\ Finish(w)
    /\ UNCHANGED << log, tail, files, seen, crashes >>

(* push() reads the whole log: seq and prev come from this copy. *)
PushRead(w) ==
    /\ pc[w] = "read"
    /\ Readable
    /\ seen' = [seen EXCEPT ![w] = log]
    /\ pc' = [pc EXCEPT ![w] = "append"]
    /\ UNCHANGED << log, tail, files, locals, crashes >>

(* json.loads fails on the torn line and the exception ends the proposal. *)
ReadFails(w) ==
    /\ pc[w] \in {"read", "head"}
    /\ ~ Readable
    /\ Finish(w)
    /\ UNCHANGED << log, tail, files, seen, crashes >>

(* The line goes to the end of the file as it is now.  After a last line    *)
(* without newline the two records share a line, which no read can parse.   *)
AppendLine(w) ==
    IF tail = "clean" THEN log' = Append(log, Pending(w)) /\ UNCHANGED tail
                      ELSE tail' = "torn" /\ UNCHANGED log

PushAppend(w) ==
    /\ pc[w] = "append"
    /\ AppendLine(w)
    /\ pc' = [pc EXCEPT ![w] = "nodes"]
    /\ UNCHANGED << files, locals, seen, crashes >>

OpenNodes(w) ==
    /\ pc[w] = "nodes"
    /\ nodesFile' = Empty
    /\ pc' = [pc EXCEPT ![w] = "nodesOpen"]
    /\ UNCHANGED << log, tail, edgesFile, locals, seen, crashes >>

PushNodes(w) ==
    /\ pc[w] = "nodesOpen"
    /\ nodesFile' \in Written(nodesFile, replay(Seen(w)).nodes)
    /\ pc' = [pc EXCEPT ![w] = "edges"]
    /\ UNCHANGED << log, tail, edgesFile, locals, seen, crashes >>

(* The record is done with, for the writer's bookkeeping. *)
Advance(w) ==
    /\ left' = [left EXCEPT ![w] = @ \ {Least(@)}]
    /\ landed' = [landed EXCEPT ![w] = @ \cup {Least(left[w])}]

(* Fault: the file is opened without being emptied. *)
OpenEdgesInPlace(w) ==
    /\ pc[w] = "edges"
    /\ pc' = [pc EXCEPT ![w] = "edgesOpen"]
    /\ UNCHANGED << log, tail, files, locals, seen, crashes >>

OpenEdges(w) ==
    /\ pc[w] = "edges"
    /\ edgesFile' = Empty
    /\ pc' = [pc EXCEPT ![w] = "edgesOpen"]
    /\ UNCHANGED << log, tail, nodesFile, locals, seen, crashes >>

(* Fault: the loop reads the log only once. *)
PushEdgesReadsOnce(w) ==
    /\ pc[w] = "edgesOpen"
    /\ edgesFile' \in Written(edgesFile, replay(Seen(w)).edges)
    /\ IF left[w] = {Least(left[w])}
         THEN Finish(w) /\ seen' = [seen EXCEPT ![w] = << >>]
         ELSE Advance(w) /\ pc' = [pc EXCEPT ![w] = "append"] /\ UNCHANGED << asked, seen >>
    /\ UNCHANGED << log, tail, nodesFile, crashes >>

(* push() returns; the loop goes on to the next record or propose() returns *)
(* the version of the last one.                                             *)
PushEdges(w) ==
    /\ pc[w] = "edgesOpen"
    /\ edgesFile' \in Written(edgesFile, replay(Seen(w)).edges)
    /\ IF left[w] = {Least(left[w])}
         THEN Finish(w)
         ELSE Advance(w) /\ pc' = [pc EXCEPT ![w] = "read"] /\ UNCHANGED asked
    /\ seen' = [seen EXCEPT ![w] = << >>]
    /\ UNCHANGED << log, tail, nodesFile, crashes >>
-----------------------------------------------------------------------------
(* Crashes. *)

Die(w) ==
    /\ crashes < MaxCrashes
    /\ crashes' = crashes + 1
    /\ pc' = [pc EXCEPT ![w] = "crashed"]
    /\ seen' = [seen EXCEPT ![w] = << >>]
    /\ UNCHANGED asked

CrashBetween(w) ==
    /\ pc[w] \in {"head", "read", "append"}
    /\ Die(w)
    /\ UNCHANGED << log, tail, files, left, landed >>

(* While the line is written: part of it, or all but its newline, is there. *)
CrashInAppend(w) ==
    /\ pc[w] = "append"
    /\ Die(w)
    /\ UNCHANGED files
    /\ \/ tail' = "torn" /\ UNCHANGED << log, left, landed >>
       \/ /\ tail = "clean"
          /\ tail' = "unterminated"
          /\ log' = Append(log, Pending(w))
          /\ Advance(w)

(* While current/ is rewritten: before a file is opened, after that, or     *)
(* with part of the map in it.                                              *)
CrashInMaterialize(w) ==
    /\ pc[w] \in Materializing
    /\ Die(w)
    /\ Advance(w)
    /\ UNCHANGED << log, tail >>
    /\ \/ UNCHANGED files
       \/ pc[w] = "nodesOpen" /\ nodesFile' = Garbled /\ UNCHANGED edgesFile
       \/ pc[w] = "edgesOpen" /\ edgesFile' = Garbled /\ UNCHANGED nodesFile

Restart(w) ==
    /\ pc[w] = "crashed"
    /\ Finish(w)
    /\ UNCHANGED << log, tail, files, seen, crashes >>

Next ==
    \E w \in Writer :
        \/ \E contribution \in Contributions : Propose(w, contribution)
        \/ ReturnHead(w) \/ PushRead(w) \/ ReadFails(w)
        \/ PushAppend(w) \/ OpenNodes(w) \/ PushNodes(w) \/ OpenEdges(w) \/ PushEdges(w)
        \/ CrashBetween(w) \/ CrashInAppend(w) \/ CrashInMaterialize(w)
        \/ Restart(w)

Spec == Init /\ [][Next]_vars
-----------------------------------------------------------------------------
(* Properties. *)

(* Every variable has its type; a file of current/ is not constrained. *)
TypeOK ==
    /\ log \in Seq(Record)
    /\ tail \in {"clean", "unterminated", "torn"}
    /\ pc \in [Writer -> {"idle", "head", "read", "append", "crashed"} \cup Materializing]
    /\ asked \in [Writer -> Seq(Change)]
    /\ left \in [Writer -> SUBSET Nat]
    /\ landed \in [Writer -> SUBSET Nat]
    /\ \A w \in Writer : left[w] \cup landed[w] \subseteq DOMAIN asked[w]
    /\ seen \in [Writer -> Seq(Record)]
    /\ crashes \in Nat

(* Whatever races and crashes there were, the log is a tree of records      *)
(* rooted at the genesis prev: each one hashes its own content and extends  *)
(* a record on an earlier line (or the root), with the next seq.            *)
Rooted ==
    \A i \in 1 .. Len(log) :
        /\ log[i].version = version_hash(log[i].prev, log[i].seq, log[i].change)
        /\ \/ log[i].prev = GENESIS_PREV /\ log[i].seq = 1
           \/ \E j \in 1 .. i - 1 : /\ log[j].version = log[i].prev
                                    /\ log[j].seq = log[i].seq - 1

(* With one writer the log is a line, whatever crashes and retries: the     *)
(* chain links and the seq is dense.                                        *)
SerialChain == Linked(log) /\ Dense(log)

(* A record appended from a copy of the log that other writers have since   *)
(* extended forks the history; from that step on both of verify()'s checks, *)
(* the chain and the dense seq, report it: no later record, of whatever     *)
(* writer, clears a problem verify() finds in the log.                      *)
StaleAppendIsReported ==
    [][/\ \A w \in Writer :
             (pc[w] = "append" /\ pc'[w] # "append" /\ log' # log /\ seen[w] # log)
             => {"chain", "seq"} \subseteq verify(log', nodesFile', edgesFile')
       /\ verify(log, nodesFile, edgesFile) \cap {"version", "chain", "seq", "unknown uid"}
             \subseteq verify(log', nodesFile', edgesFile')]_vars

(* Gates run against a view that may be stale when the records land, and a  *)
(* crash may cut a contribution anywhere; still no edge of the map ever has *)
(* an endpoint that is not a node of the map.                               *)
NoDanglingEdge ==
    LET view == replay(log)
    IN \A e \in DOMAIN view.edges : Ends[e] \subseteq DOMAIN view.nodes

(* A version that could be read once reads the same forever, also when two  *)
(* racing writers have appended the same record and so the same version.    *)
VersionStable ==
    [][\A i \in 1 .. Len(log) :
          read(log', log[i].version) = read(log, log[i].version)]_vars

Holds(view, c) == c.uids \subseteq KnownUids(view)

(* As long as verify() reports no fork, the head reads as the current map:  *)
(* no version names two lines.                                              *)
HeadReadsCurrentMap == Linked(log) => read(log, head(log)) = replay(log)

(* propose() returns a version; as long as there is no fork, the map read   *)
(* at that version holds every node and edge of the contribution, whether   *)
(* landed now or dropped as a no-op, whatever other writers pushed between. *)
ReturnedVersionHoldsContribution ==
    [][\A w \in Writer :
          (/\ pc[w] \in {"head", "edgesOpen"} /\ pc'[w] = "idle" /\ tail' # "torn"
           /\ Linked(log))
          => LET returned == IF pc[w] = "head" THEN head(log) ELSE head(Seen(w))
             IN \A i \in DOMAIN asked[w] :
                    IsAdd(asked[w][i]) => Holds(read(log, returned), asked[w][i])]_vars

AddsOnly(contribution) ==
    \A i \in DOMAIN contribution : IsAdd(contribution[i])

(* A contribution of additions that is in the map is never refused again    *)
(* and pushes nothing, whatever has happened to its entries since.          *)
ReproposalPushesNothing ==
    LET view == replay(log)
    IN \A c \in Contributions :
          (WellFormed(c) /\ AddsOnly(c) /\ \A i \in DOMAIN c : Holds(view, c[i]))
          => Admissible(c, view) /\ no_op_indices(c, view) = DOMAIN c

(* With one writer a deprecated or superseded entry never comes back: no    *)
(* later contribution, retry or crash clears the mark.                      *)
RetiredStaysRetired ==
    [][LET old == replay(log) new == replay(log')
       IN \A n \in DOMAIN old.nodes :
             /\ old.nodes[n].deprecated => new.nodes[n].deprecated
             /\ old.nodes[n].superseded_by # {} => new.nodes[n].superseded_by # {}]_vars

(* With one writer a push that runs to its end leaves current/ equal to the *)
(* replay, whatever an earlier crash left there (missing records, emptied   *)
(* or cut files).                                                          *)
PushRepairsCurrent ==
    [][\A w \in Writer :
          (pc[w] = "edgesOpen" /\ pc'[w] # "crashed" /\ pc'[w] # "edgesOpen" /\ Readable)
          => nodesFile' = replay(log').nodes /\ edgesFile' = replay(log').edges]_vars

(* The changes of u since it was last added. *)
Since(u) ==
    {i \in 1 .. Len(log) :
        /\ u \in log[i].change.uids
        /\ \A j \in i + 1 .. Len(log) : ~ (IsAdd(log[j].change) /\ u \in log[j].change.uids)}

LatestField(u, op, field, default) ==
    LET at == {i \in Since(u) : log[i].change.op = op}
    IN IF at = {} THEN default
       ELSE log[CHOOSE i \in at : \A j \in at : j <= i].change[field]

(* What replay computes, said without replaying: the nodes are those ever   *)
(* added, and each field of a node is what the latest record of the op that *)
(* sets it says, of the records since the node was last added.              *)
ReplayMeansLatest ==
    LET view == replay(log)
    IN /\ DOMAIN view.nodes = {n \in Node : \E i \in 1 .. Len(log) :
                                  log[i].change.op = "add_node" /\ n \in log[i].change.uids}
       /\ \A n \in DOMAIN view.nodes :
             view.nodes[n] =
                 [meta |-> LatestField(n, "edit_meta", "meta",
                                LatestField(n, "add_node", "meta", CHOOSE m \in Meta : TRUE)),
                  deprecated |-> \E i \in Since(n) : log[i].change.op = "deprecate",
                  superseded_by |-> LatestField(n, "supersede", "new", {}),
                  equivalent_to |-> LatestField(n, "equate", "uids", {})]

(* A crash part-way through the loop of propose(). *)
CrashedPartWay(w) == pc[w] = "crashed" /\ landed[w] # {} /\ left[w] # {}

(* omai/store.py 214-217: "the only partial-write risk is a crash part-way  *)
(* through the loop, which verify() would surface".                         *)
PartialWriteIsSurfaced ==
    \A w \in Writer :
        (CrashedPartWay(w) /\ Readable /\ \A v \in Writer \ {w} : pc[v] = "idle")
        => verify(log, nodesFile, edgesFile) # {}

(* The additions a crashed writer did not land and nobody else has since. *)
Lost(w) == {i \in left[w] : /\ IsAdd(asked[w][i])
                            /\ ~ NoOp(asked[w][i], replay(log))}
LostGraph(w) == {asked[w][i] : i \in Lost(w)}

(* The connected components of what a crash has left unlanded. *)
LostComponents(w) ==
    {S \in SUBSET GraphNodes(LostGraph(w)) :
        /\ S # {} /\ Isolated(S, LostGraph(w))
        /\ \A T \in SUBSET S : Isolated(T, LostGraph(w)) => T \in {{}, S}}

(* The records of one component, in the order they had. *)
Part(w, S) ==
    LET indices == {i \in Lost(w) : GraphNodes({asked[w][i]}) \subseteq S}
        inOrder == Sorted(indices, [i \in indices |-> i])
    IN [k \in 1 .. Cardinality(indices) |-> asked[w][inOrder[k]]]

(* A contribution cut short by a crash can always be completed: each        *)
(* connected component of what did not land is, on its own, a contribution  *)
(* the gates accept, in whatever way other writers extended the map since.  *)
(* (Proposing the whole again may be refused: the connectivity gate no      *)
(* longer counts the edges that landed.)                                    *)
CrashIsRepairable ==
    \A w \in Writer :
        (pc[w] = "crashed" /\ Readable)
        => \A S \in LostComponents(w) : Admissible(Part(w, S), replay(log))
-----------------------------------------------------------------------------
(* The store implements the contract.  A record leaves its contribution     *)
(* when its line is in the log; a writer that has crashed, and everyone     *)
(* once the log cannot be read, has dropped the rest.                       *)
Unlanded ==
    [w \in Writer |->
        IF ~ Readable \/ pc[w] = "crashed" THEN {}
        ELSE IF pc[w] \in Materializing THEN left[w] \ {Least(left[w])}
        ELSE left[w]]

(* The additions a writer has under way. *)
UnderWay(w) == {c \in {asked[w][i] : i \in Unlanded[w]} : IsAdd(c)}

Crosses(ends, S) == ends \cap S # {} /\ ~ (ends \subseteq S)

(* The map is never in two pieces for long: as long as no writer has died,  *)
(* a part of the added nodes that no edge of the map joins to the rest is   *)
(* waiting for an edge that is under way, also when the contribution of one *)
(* writer hangs on a node of another that is still landing.                 *)
NoIslands ==
    LET view == replay(log)
        added == DOMAIN view.nodes \ DOMAIN replay(GenesisLog).nodes
    IN crashes = 0 =>
          \A S \in SUBSET added :
              S = {} \/ (\E e \in DOMAIN view.edges : Crosses(Ends[e], S))
                     \/ \E w \in Writer : \E c \in UnderWay(w) :
                            c.op = "add_edge" /\ Crosses(EndsOf(c), S)

Adding(w, n) == \E c \in UnderWay(w) : n \in c.uids

(* However writers race, a retired node comes back only by an addition that *)
(* was under way when it was retired: a mark goes only when such an         *)
(* addition is left, and nobody new starts to add a retired node.           *)
RevivalIsARace ==
    [][LET old == replay(log).nodes new == replay(log').nodes
       IN \A n \in DOMAIN old :
             (old[n].deprecated \/ old[n].superseded_by # {}) =>
                /\ \A w \in Writer : Adding(w, n)' => Adding(w, n)
                /\ \/ \E w \in Writer : Adding(w, n)
                   \/ /\ old[n].deprecated => new[n].deprecated
                      /\ old[n].superseded_by # {} => new[n].superseded_by # {}]_vars
-----------------------------------------------------------------------------
Admitted == [w \in Writer |-> IF Unlanded[w] = {} THEN << >> ELSE asked[w]]

Contract == INSTANCE MapContract WITH
    map <- replay(log), asked <- Admitted, left <- Unlanded,
    GenesisView <- replay(GenesisLog)

ContractSpec == Contract!Spec
=============================================================================
