------------------------------ MODULE Snapshots ------------------------------
(***************************************************************************)
(* Share links (omai/snapshots.py, docs/assets/share.js): snapshots frozen   *)
(* under their content hash, the index that lists them, and selections       *)
(* encoded as bitsets over a snapshot's nodes.  A run of write_snapshot may  *)
(* die while it writes a file, which leaves the file torn; branches with     *)
(* snapshots of their own are merged between runs.                           *)
(***************************************************************************)
EXTENDS Enumeration, SequencesExt, FiniteSetsExt

CONSTANTS Id,           \* node ids
          Hash,         \* names of the snapshots that can be built
          NodesOf,      \* NodesOf[h]: the node ids of the snapshot, in order
          Prefix,       \* Prefix[h]: the part of the name a link carries
          Rank,         \* Rank[h]: the place of the name in sorted order
          BYTE,         \* bits in a byte of the encoding (8 in the code)
          MaxWrites, MaxMerges  \* bounds

ASSUME SnapshotAssumption ==
    /\ NodesOf \in [Hash -> Seq(Id)]
    /\ \A g, h \in Hash : Rank[h] \in Nat /\ (Rank[g] = Rank[h] => g = h)
    /\ {"none", "torn"} \cap Hash = {}
    /\ BYTE \in Nat \ {0}
    /\ MaxWrites \in Nat /\ MaxMerges \in Nat

TornFile == "torn"
TornIndex == [latest |-> TornFile, snapshots |-> << >>]

VARIABLES frozen,       \* the files on disk: a hash to "whole" or "torn"
          index,        \* [latest, snapshots] of index.json, or TornIndex
          writer,       \* where write_snapshot is, and with which hash
          link,         \* a share link, with the ids and the snapshot meant
          writes, merges,
          settled       \* a run has ended, and nothing was merged since

svars == << frozen, index, writer, link, writes, merges, settled >>

NoLink == [prefix |-> "none", bits |-> << >>, ids |-> {}, snapshot |-> "none"]

OnDisk == DOMAIN frozen
Freeze(h, state) == [x \in OnDisk \cup {h} |-> IF x = h THEN state ELSE frozen[x]]

-----------------------------------------------------------------------------
\* The encoding: byte b holds the offsets of its set bits, from the high end.

Places(h, ids) == {i - 1 : i \in {i \in DOMAIN NodesOf[h] : NodesOf[h][i] \in ids}}

\* Fault: the first bit of a byte is its low end.
encodeFromTheLowEnd(h, ids) ==
    [b \in 1 .. (Max(Places(h, ids)) \div BYTE) + 1 |->
        {BYTE - 1 - (p % BYTE) : p \in {p \in Places(h, ids) : p \div BYTE = b - 1}}]

encode(h, ids) ==
    [b \in 1 .. (Max(Places(h, ids)) \div BYTE) + 1 |->
        {p % BYTE : p \in {p \in Places(h, ids) : p \div BYTE = b - 1}}]

Bits(bits) == UNION {{(b - 1) * BYTE + k : k \in bits[b]} : b \in DOMAIN bits}

\* None for a malformed selection or one that names a node past the last.
decode(h, bits) ==
    IF \/ bits = << >> \/ Last(bits) = {}
       \/ \E p \in Bits(bits) : p >= Len(NodesOf[h])
    THEN [ok |-> FALSE, ids |-> {}]
    ELSE [ok |-> TRUE, ids |-> {NodesOf[h][p + 1] : p \in Bits(bits)}]

\* The places in the index: a name that is listed twice is ambiguous too.
resolveSnapshot(prefix) ==
    {i \in DOMAIN index.snapshots : Prefix[index.snapshots[i]] = prefix}

\* loadShare: what opening the link shows.
Opened ==
    LET hits == resolveSnapshot(link.prefix)
        hash == index.snapshots[CHOOSE i \in hits : TRUE]
    IN  IF Cardinality(hits) = 1 /\ hash \in OnDisk /\ frozen[hash] # TornFile
        THEN decode(hash, link.bits)
        ELSE [ok |-> FALSE, ids |-> {}]

-----------------------------------------------------------------------------
SnapshotInit ==
    /\ frozen = << >> /\ index = [latest |-> "none", snapshots |-> << >>]
    /\ writer = [pc |-> "idle", hash |-> "none"]
    /\ link = NoLink /\ writes = 0 /\ merges = 0 /\ settled = FALSE

\* The map as it is now has the snapshot h; its file is written if there is none.
Build(h) ==
    /\ writer.pc = "idle" /\ writes < MaxWrites
    /\ writes' = writes + 1
    /\ writer' = [pc |-> IF h \in OnDisk THEN "index" ELSE "file", hash |-> h]
    /\ settled' = FALSE
    /\ UNCHANGED << frozen, index, link, merges >>

WriteFile ==
    /\ writer.pc = "file"
    /\ frozen' = Freeze(writer.hash, "whole")
    /\ writer' = [writer EXCEPT !.pc = "index"]
    /\ UNCHANGED << index, link, writes, merges, settled >>

\* Fault: files that nobody listed stay out.
ListedOnly(h) ==
    LET kept == Kept(index.snapshots, OnDisk)
    IN  IF h \in ToSet(kept) THEN kept ELSE Append(kept, h)

\* Names whose files are gone drop out, files nobody listed come in, by name.
Listed(h) ==
    LET kept   == Kept(index.snapshots, OnDisk)
        others == Sorted((OnDisk \ ToSet(kept)) \ {h}, Rank)
        seen   == kept \o others
    IN  IF h \in ToSet(seen) THEN seen ELSE Append(seen, h)

WriteIndex ==
    /\ writer.pc = "index" /\ index # TornIndex
    /\ index' = [latest |-> writer.hash, snapshots |-> Listed(writer.hash)]
    /\ writer' = [writer EXCEPT !.pc = "idle"]
    /\ settled' = TRUE
    /\ UNCHANGED << frozen, link, writes, merges >>

\* json.loads fails on an index torn earlier.
IndexUnreadable ==
    /\ writer.pc = "index" /\ index = TornIndex
    /\ writer' = [writer EXCEPT !.pc = "idle"]
    /\ UNCHANGED << frozen, index, link, writes, merges, settled >>

CrashInFile ==
    /\ writer.pc = "file"
    /\ frozen' = Freeze(writer.hash, TornFile)
    /\ writer' = [writer EXCEPT !.pc = "idle"]
    /\ UNCHANGED << index, link, writes, merges, settled >>

CrashInIndex ==
    /\ writer.pc = "index"
    /\ index' = TornIndex
    /\ writer' = [writer EXCEPT !.pc = "idle"]
    /\ UNCHANGED << frozen, link, writes, merges, settled >>

\* A branch comes in with a snapshot of its own, and either side's index.
Merge(h) ==
    /\ writer.pc = "idle" /\ merges < MaxMerges
    /\ merges' = merges + 1
    /\ frozen' = IF h \in OnDisk THEN frozen ELSE Freeze(h, "whole")
    /\ index' \in {index, [latest |-> h, snapshots |-> << h >>]}
    /\ settled' = FALSE
    /\ UNCHANGED << writer, link, writes >>

\* A page that shows the latest snapshot offers a link to a selection of ids
\* (of which it leaves out those the snapshot does not have).
Share(ids) ==
    /\ link = NoLink /\ index # TornIndex
    /\ index.latest \in OnDisk /\ frozen[index.latest] # TornFile
    /\ Places(index.latest, ids) # {}
    /\ link' = [prefix |-> Prefix[index.latest], bits |-> encode(index.latest, ids),
                ids |-> ids \cap ToSet(NodesOf[index.latest]),
                snapshot |-> index.latest]
    /\ UNCHANGED << frozen, index, writer, writes, merges, settled >>

SnapshotNext ==
    \/ \E h \in Hash : Build(h) \/ Merge(h)
    \/ WriteFile \/ WriteIndex \/ IndexUnreadable \/ CrashInFile \/ CrashInIndex
    \/ \E ids \in SUBSET Id : Share(ids)

SnapshotSpec == SnapshotInit /\ [][SnapshotNext]_svars
-----------------------------------------------------------------------------
(* "index.json lists every snapshot file on disk, so a merge that drops a    *)
(* name from the list cannot orphan a link" (snapshots.py:6-7): after a run  *)
(* the index names exactly the files, each once, the new one as the latest.  *)
IndexListsTheFiles ==
    settled => /\ ToSet(index.snapshots) = OnDisk
               /\ Len(index.snapshots) = Cardinality(OnDisk)
               /\ index.latest \in OnDisk

(* "A link made today reads the same data forever" (snapshots.py:5): opened  *)
(* at any later time, after nodes came and went and branches were merged,    *)
(* a link shows the selection it was made for, or nothing; and it does show  *)
(* it after any run of write_snapshot.  (Of two snapshots that share the     *)
(* prefix a link carries, the one still listed is opened.)                   *)
LinksOpenTheirSelection ==
    link # NoLink /\ (\A h \in OnDisk \ {link.snapshot} : Prefix[h] # link.prefix) =>
        /\ Opened.ok => Opened.ids = link.ids
        /\ settled => Opened.ok
=============================================================================
