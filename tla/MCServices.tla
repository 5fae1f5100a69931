----------------------------- MODULE MCServices -----------------------------
(***************************************************************************)
(* The parts around the map that share no state with one another: a          *)
(* behaviour of this module is a behaviour of one of them.  Two mints at a   *)
(* time draw from two codes, and a day has two links for an address.         *)
(***************************************************************************)
EXTENDS LearnProxy, ShortLinks, ExternalSolve, RecordFiles, Snapshots, TLC

VARIABLES part

---------------------------------------------------------------------------
\* Share links: a snapshot, one with a node put in front of it and one with
\* nodes gone; the first and the last of them share a prefix.
ShareNodes  == "h1" :> <<"a", "b", "c">> @@ "h2" :> <<"d", "a", "b", "c">> @@ "h3" :> <<"c">>
SharePrefix == "h1" :> "p" @@ "h2" :> "q" @@ "h3" :> "p"
ShareRank   == "h1" :> 2 @@ "h2" :> 1 @@ "h3" :> 3

---------------------------------------------------------------------------
\* Evidence files: proposals with claims that clear the bar and ones that do not.
Claimed(content, kind, survives, duplicate, ruling, numeric) ==
    [content |-> content, kind |-> kind, node |-> TRUE, survives |-> survives,
     duplicate |-> duplicate, verdict |-> ruling, numeric |-> numeric]
Good(content) == Claimed(content, "value", TRUE, FALSE, "confirmed", TRUE)

FileContent == {"x", "y", "u", "v", "w"}
FileJobs == {<< Good("x") >>, << Good("y"), Good("x") >>,
             << Claimed("u", "value", TRUE, FALSE, "killed", TRUE),
                Claimed("v", "condition", TRUE, FALSE, "none", TRUE),
                Claimed("y", "value", TRUE, FALSE, "none", TRUE),
                Claimed("w", "value", TRUE, TRUE, "confirmed", TRUE) >>}

---------------------------------------------------------------------------
\* External solves: x -e-> y -f-> z; edges and nodes are retired, renamed and
\* put back while a request for e with target z is validated.

SolveNode == {"x", "y", "z"}
SolveEdge == {"e", "f"}
SolveEnds == "e" :> {"x", "y"} @@ "f" :> {"y", "z"}
SolveMeta == {0, 1}
SolveIn   == "e" :> << "x" >> @@ "f" :> << "y" >>
SolveOut  == "e" :> << "y" >> @@ "f" :> << "z" >>

Does(op, u, meta, new) == [op |-> op, uids |-> {u}, meta |-> meta, new |-> new]
GenesisChanges == << Does("add_node", "x", 0, {}), Does("add_node", "y", 0, {}),
                     Does("add_node", "z", 0, {}), Does("add_edge", "e", 0, {}),
                     Does("add_edge", "f", 0, {}) >>
GenesisRecords[n \in 0 .. Len(GenesisChanges)] ==
    IF n = 0 THEN << >>
    ELSE Append(GenesisRecords[n - 1], NextRecord(GenesisRecords[n - 1], GenesisChanges[n]))
SolveGenesis == GenesisRecords[Len(GenesisChanges)]
SolvePushed  == {Does("deprecate", "f", 0, {}), Does("add_edge", "f", 0, {}),
                 Does("supersede", "z", 0, {"y"}), Does("edit_meta", "e", 1, {})}
SolveUnknown == << [seq |-> 9, change |-> GenesisChanges[1]] >>

Wish(ins, goal, name) ==
    [edge |-> "e", ins |-> ins, outs |-> << "y" >>, target |-> goal,
     opName |-> name, targetName |-> 0]
SolveWishes == {Wish(<< "x" >>, "z", 0), Wish(<< "x" >>, "x", 0),
                Wish(<< "x", "x" >>, "z", 0), Wish(<< "x" >>, "y", 1)}

---------------------------------------------------------------------------
MCInit ==
    /\ part \in {"learn", "mint", "share", "files", "solve"}
    /\ Init /\ MintInit /\ SnapshotInit /\ RecordInit /\ SolveInit

MCNext ==
    /\ UNCHANGED part
    /\ \/ part = "learn" /\ Next
       \/ part # "learn" /\ UNCHANGED vars
    /\ \/ part = "mint" /\ MintNext
       \/ part # "mint" /\ UNCHANGED mvars
    /\ \/ part = "share" /\ SnapshotNext
       \/ part # "share" /\ UNCHANGED svars
    /\ \/ part = "files" /\ RecordNext
       \/ part # "files" /\ UNCHANGED rvars
    /\ \/ part = "solve" /\ SolveNext
       \/ part # "solve" /\ UNCHANGED xvars

MCSpec == MCInit /\ [][MCNext]_<< part, vars, mvars, svars, rvars, xvars >>
=============================================================================
