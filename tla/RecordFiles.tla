----------------------------- MODULE RecordFiles -----------------------------
(***************************************************************************)
(* Evidence written as files: record_simulation and record_instance look for *)
(* the first name of a slug that is free or already holds their content, and *)
(* write it; apply_proposal writes one instance per claim that clears its    *)
(* bar.  Processes share the directory, and one may die while it writes.     *)
(* One slug is modelled: what goes under another never meets it.             *)
(***************************************************************************)
EXTENDS Naturals, Sequences

CONSTANTS Process,
          Content,      \* what a claim's file holds
          Jobs,         \* proposals, tuples of claims
          MaxRuns       \* bound

Torn == "torn"
Absent == "absent"

Claim == [content : Content, kind : STRING, node : BOOLEAN, survives : BOOLEAN,
          duplicate : BOOLEAN, verdict : STRING, numeric : BOOLEAN]

\* The text of a file cut short is not the whole text of a record.
ASSUME RecordAssumption ==
    /\ Jobs \subseteq Seq(Claim)
    /\ Content \cap {Torn, Absent} = {}
    /\ MaxRuns \in Nat

VARIABLES dir,          \* name number -> content, or "torn"
          proc,         \* [pc, todo, n]: what is left to write, and the name tried
          job,          \* the proposal of each run, until another run begins
          kept,         \* the paths returned, with the content they stand for
          shared,       \* two processes were at work at once
          dead,         \* the content a dead process was writing
          runs

rvars == << dir, proc, job, kept, shared, dead, runs >>

Busy(p) == proc[p].pc # "idle"

\* The bar of apply_proposal.
Clears(claim) ==
    /\ claim.kind # "condition" /\ claim.node
    /\ claim.survives /\ ~claim.duplicate
    /\ claim.verdict # "killed"
    /\ claim.numeric

Contents(claims) == {c \in Content : \E i \in DOMAIN claims :
                                        Clears(claims[i]) /\ claims[i].content = c}

Wanted(p) == Head(proc[p].todo).content

Text(n) == IF n \in DOMAIN dir THEN dir[n] ELSE Absent
Put(n, text) == dir' = [m \in DOMAIN dir \cup {n} |-> IF m = n THEN text ELSE dir[m]]

RecordInit ==
    /\ dir = << >> /\ kept = {} /\ shared = FALSE /\ dead = {} /\ runs = 0
    /\ proc = [p \in Process |-> [pc |-> "idle", todo |-> << >>, n |-> 1]]
    /\ job = [p \in Process |-> << >>]

ApplyProposal(p, claims) ==
    /\ ~Busy(p) /\ runs < MaxRuns
    /\ runs' = runs + 1
    /\ job' = [q \in Process |-> IF q = p THEN claims ELSE IF Busy(q) THEN job[q] ELSE << >>]
    /\ proc' = [proc EXCEPT ![p] = [pc |-> "probe", todo |-> claims, n |-> 1]]
    /\ shared' = (shared \/ \E q \in Process \ {p} : Busy(q))
    /\ UNCHANGED << dir, kept, dead >>

\* A claim that does not clear the bar is passed over.
Skip(p) ==
    /\ proc[p].pc = "probe" /\ proc[p].todo # << >>
    /\ ~Clears(Head(proc[p].todo))
    /\ proc' = [proc EXCEPT ![p] = [pc |-> "probe", todo |-> Tail(@.todo), n |-> 1]]
    /\ UNCHANGED << dir, job, kept, shared, dead, runs >>

Recording(p) ==
    proc[p].pc = "probe" /\ proc[p].todo # << >> /\ Clears(Head(proc[p].todo))

\* Fault: a name that is taken is written over.
ProbeNothing(p) ==
    /\ Recording(p)
    /\ proc' = [proc EXCEPT ![p].pc = "open"]
    /\ UNCHANGED << dir, job, kept, shared, dead, runs >>

\* Fault: a file that is there, a torn one too, is taken for the record.
ProbeTornIsDone(p) ==
    /\ Recording(p)
    /\ proc' = IF Text(proc[p].n) = Absent
               THEN [proc EXCEPT ![p].pc = "open"]
               ELSE IF Text(proc[p].n) \in {Torn, Wanted(p)}
               THEN [proc EXCEPT ![p] = [pc |-> "probe", todo |-> Tail(@.todo), n |-> 1]]
               ELSE [proc EXCEPT ![p].n = @ + 1]
    /\ UNCHANGED << dir, job, kept, shared, dead, runs >>

\* while path.exists() and path.read_text() != payload
Probe(p) ==
    /\ Recording(p)
    /\ proc' = IF Text(proc[p].n) \in {Absent, Wanted(p)}
               THEN [proc EXCEPT ![p].pc = "open"]
               ELSE [proc EXCEPT ![p].n = @ + 1]
    /\ UNCHANGED << dir, job, kept, shared, dead, runs >>

\* path.write_text truncates the file, an identical one too, ...
Truncate(p) ==
    /\ proc[p].pc = "open"
    /\ Put(proc[p].n, Torn)
    /\ proc' = [proc EXCEPT ![p].pc = "write"]
    /\ UNCHANGED << job, kept, shared, dead, runs >>

\* ... and fills it; the path is returned.
Fill(p) ==
    /\ proc[p].pc = "write"
    /\ Put(proc[p].n, Wanted(p))
    /\ kept' = kept \cup {[n |-> proc[p].n, content |-> Wanted(p)]}
    /\ proc' = [proc EXCEPT ![p] = [pc |-> "probe", todo |-> Tail(@.todo), n |-> 1]]
    /\ UNCHANGED << job, shared, dead, runs >>

Done(p) ==
    /\ proc[p].pc = "probe" /\ proc[p].todo = << >>
    /\ proc' = [proc EXCEPT ![p].pc = "idle"]
    /\ UNCHANGED << dir, job, kept, shared, dead, runs >>

Die(p) ==
    /\ Busy(p)
    /\ dead' = dead \cup (IF proc[p].pc = "write" THEN {Wanted(p)} ELSE {})
    /\ proc' = [proc EXCEPT ![p] = [pc |-> "idle", todo |-> << >>, n |-> 1]]
    /\ job' = [job EXCEPT ![p] = << >>]
    /\ UNCHANGED << dir, kept, shared, runs >>

RecordNext ==
    \E p \in Process :
        \/ \E claims \in Jobs : ApplyProposal(p, claims)
        \/ Skip(p) \/ Probe(p) \/ Truncate(p) \/ Fill(p) \/ Done(p) \/ Die(p)

RecordSpec == RecordInit /\ [][RecordNext]_rvars
-----------------------------------------------------------------------------
Writing(n) == \E p \in Process : proc[p].pc = "write" /\ proc[p].n = n

(* "A different record for the same slug gets a numeric suffix rather than   *)
(* silently overwriting" (lineages.py:1465-1467): a path that was returned   *)
(* goes on holding its content, over reruns and deaths, unless processes     *)
(* shared the directory; only rewriting the same content can tear it, when   *)
(* the process dies at that.                                                 *)
KeptRecordsStay ==
    \A k \in kept :
        \/ shared
        \/ Text(k.n) = k.content
        \/ Text(k.n) = Torn /\ (Writing(k.n) \/ k.content \in dead)

(* A run of apply_proposal that comes to its end leaves, whatever files      *)
(* earlier deaths cut short, a whole file for each claim of its proposal     *)
(* that clears the bar, and it is there until another run begins.  No        *)
(* content but such a claim's has a file, and none has two whole ones.  Of   *)
(* processes that shared the directory only the part on contents is said.    *)
RerunCompletes ==
    /\ \A n \in DOMAIN dir : dir[n] = Torn \/ \E claims \in Jobs : dir[n] \in Contents(claims)
    /\ ~shared =>
        /\ \A p \in Process : proc[p].todo = << >> =>
               \A c \in Contents(job[p]) : \E n \in DOMAIN dir : dir[n] = c
        /\ \A m, n \in DOMAIN dir : m # n /\ dir[m] = dir[n] => dir[m] = Torn
=============================================================================
