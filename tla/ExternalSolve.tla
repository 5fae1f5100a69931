---------------------------- MODULE ExternalSolve ----------------------------
(***************************************************************************)
(* The live-map gate of external_solve.py: a request for a solve outside is  *)
(* checked against the map of the version it pins, while writers push.  The  *)
(* head is read, the log is read again at that head, and the head once more  *)
(* at the end.  Writers push as Store.push does: from the log as it is, or   *)
(* from a copy read before another one pushed.                               *)
(***************************************************************************)
EXTENDS MapLog, SequencesExt, FiniteSets

CONSTANTS In, Out,          \* In[e], Out[e]: the tuples of nodes in e's identity
          Pushed,           \* the changes writers push
          Genesis,          \* the log at the start
          Wishes,           \* what is asked: [edge, ins, outs, target, opName, targetName]
          Unknown,          \* a version that was never in the log
          MaxLog, MaxAsked  \* bounds

\* What an add_edge adds are uids of edges.
AddsEdges(c) == c.op = "add_edge" => c.uids \subseteq Edge
AddOnlyEdges(recs) == \A i \in 1 .. Len(recs) : AddsEdges(recs[i].change)

ASSUME SolveAssumption ==
    /\ IsFiniteSet(Node)
    /\ Out \in [Edge -> Seq(Node)]
    /\ \A c \in Pushed : c \in Change /\ AddsEdges(c)
    /\ Genesis \in Seq(Record) /\ Genesis # << >> /\ AddOnlyEdges(Genesis)

VARIABLES log,          \* log.jsonl
          copy,         \* a writer's copy of the log
          request,      \* the request at hand
          pc, headSeen, \* where its validation is, and the head it read
          verdict,
          asked

xvars == << log, copy, request, pc, headSeen, verdict, asked >>

Versions(recs) == {recs[i].version : i \in DOMAIN recs}

-----------------------------------------------------------------------------
\* The checks against a view: the edge and the nodes are live and are what the
\* request says they are, and the target lies downstream of the edge's outputs.

Live(entry) == ~entry.deprecated /\ entry.superseded_by = {}

LiveEdges(view) == {e \in DOMAIN view.edges : Live(view.edges[e])}

Grow(view, reach) ==
    reach \cup UNION {ToSet(Out[e]) : e \in
        {e \in LiveEdges(view) : ToSet(In[e]) \cap reach # {}}}

downstream_of(view, seeds) ==
    LET reach[i \in 0 .. Cardinality(Node)] ==
            IF i = 0 THEN seeds ELSE Grow(view, reach[i - 1])
    IN  reach[Cardinality(Node)]

Matches(r, view) ==
    /\ r.edge \in DOMAIN view.edges
    /\ Live(view.edges[r.edge])
    /\ view.edges[r.edge].meta = r.opName
    /\ r.ins = In[r.edge] /\ r.outs = Out[r.edge]
    /\ \A n \in ToSet(In[r.edge]) \cup ToSet(Out[r.edge]) \cup {r.target} :
           n \in DOMAIN view.nodes /\ Live(view.nodes[n])
    /\ view.nodes[r.target].meta = r.targetName

Passes(r, view) == Matches(r, view) /\ r.target \in downstream_of(view, ToSet(r.outs))

-----------------------------------------------------------------------------
SolveInit ==
    /\ log = Genesis /\ copy = << >>
    /\ request = << >> /\ pc = "idle" /\ headSeen = GENESIS_PREV
    /\ verdict = "none" /\ asked = 0

Validating(step) == pc = step /\ UNCHANGED << log, copy, request, asked >>
End(why) == pc' = "idle" /\ verdict' = why /\ UNCHANGED headSeen

Ask(wish, version) ==
    /\ pc = "idle" /\ asked < MaxAsked
    /\ asked' = asked + 1
    /\ request' = [wish |-> wish, version |-> version]
    /\ pc' = "head" /\ verdict' = "none"
    /\ UNCHANGED << log, copy, headSeen >>

ReadHead ==
    /\ Validating("head")
    /\ headSeen' = head(log)
    /\ pc' = IF request.version = head(log) THEN "view" ELSE "other version"
    /\ UNCHANGED verdict

\* store.read(version), for the message alone.
NameTheVersion ==
    /\ Validating("other version")
    /\ End(IF request.version \in Versions(log) THEN "stale" ELSE "unknown")

\* Fault: the view is the one of the log as it is by now.
CheckLatestView ==
    /\ Validating("view")
    /\ IF Passes(request.wish, replay(log))
       THEN pc' = "recheck" /\ UNCHANGED << headSeen, verdict >>
       ELSE End("invalid")

CheckView ==
    /\ Validating("view")
    /\ IF Passes(request.wish, read(log, headSeen))
       THEN pc' = "recheck" /\ UNCHANGED << headSeen, verdict >>
       ELSE End("invalid")

\* Fault: the head is not read again.
AcceptUnread ==
    /\ Validating("recheck")
    /\ End("accepted")

ReadHeadAgain ==
    /\ Validating("recheck")
    /\ End(IF head(log) = headSeen THEN "accepted" ELSE "changed")

\* Writers.
Push(c, base) ==
    /\ Len(log) < MaxLog
    /\ log' = Append(log, NextRecord(base, c))
    /\ UNCHANGED << request, pc, headSeen, verdict, asked >>

PushCurrent(c) == Push(c, log) /\ UNCHANGED copy
ReadLog == /\ copy # log
           /\ copy' = log
           /\ UNCHANGED << log, request, pc, headSeen, verdict, asked >>
PushLate(c) == copy # << >> /\ Push(c, copy) /\ copy' = << >>

SolveNext ==
    \/ \E wish \in Wishes, v \in Versions(log) \cup {Unknown} : Ask(wish, v)
    \/ ReadHead \/ NameTheVersion \/ CheckView \/ ReadHeadAgain
    \/ ReadLog \/ \E c \in Pushed : PushCurrent(c) \/ PushLate(c)

SolveSpec == SolveInit /\ [][SolveNext]_xvars
-----------------------------------------------------------------------------
\* No version names two lines (it may after two equal records were raced).
NoTwins == Cardinality(Versions(log)) = Len(log)

\* The reference: the target is in every set that holds the outputs and, with
\* an input of a live edge, the outputs of that edge.
Valid(r, view) ==
    /\ Matches(r, view)
    /\ \A C \in SUBSET Node : ToSet(r.outs) \subseteq C /\ Grow(view, C) = C => r.target \in C

(* An accepted request is valid in the map as it is at that moment, whatever *)
(* was pushed since its validation began, forks included: the head read last *)
(* is the pinned one.                                                        *)
AcceptedIsLive ==
    [][verdict' = "accepted" /\ verdict # "accepted" /\ NoTwins =>
          /\ head(log) = request.version
          /\ Valid(request.wish, replay(log))]_xvars

(* A refusal has its reason in the map: a request called unknown or stale    *)
(* pins no head that was there when it was read, one called invalid fails in *)
(* the very version it pins, and "map changed" is said of a map that did.    *)
RefusalHasItsReason ==
    /\ verdict = "unknown" => request.version = Unknown
    /\ verdict = "stale" => request.version # headSeen
    /\ verdict = "invalid" =>
           request.version = headSeen /\ ~Valid(request.wish, read(log, headSeen))
    /\ verdict = "changed" =>
           headSeen = request.version /\ log # SubSeq(log, 1, FirstPosition(log, headSeen))
=============================================================================
