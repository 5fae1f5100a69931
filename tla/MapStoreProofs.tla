--------------------------- MODULE MapStoreProofs ---------------------------
(***************************************************************************)
(* Proofs about the map store, for any nodes, edges and contributions, any *)
(* number of writers and of crashes, and any genesis log that verifies.    *)
(***************************************************************************)
EXTENDS MapStore, MapLogProofs

USE DEF Materializing

(* A writer in the loop of propose() has a record to push. *)
Pushing == {"read", "append"} \cup Materializing
LoopHasRecord == \A w \in Writer : pc[w] \in Pushing => left[w] # {}

(* What a writer has read of the log is still how the log begins. *)
SeenIsPrefix ==
    \A w \in Writer : /\ Len(seen[w]) <= Len(log)
                      /\ \A i \in 1 .. Len(seen[w]) : seen[w][i] = log[i]

TypeInv == TypeOK /\ LoopHasRecord
-----------------------------------------------------------------------------
LEMMA LeastIsIn ==
  ASSUME NEW S, S \subseteq Nat, S # {}
  PROVE  Least(S) \in S /\ \A j \in S : Least(S) <= j
<1>1. \E x \in S : \A j \in S : x <= j
  BY LeastNumber
<1>2. QED  BY <1>1 DEF Least

(* The record a writer is about to append, and the log it materializes. *)
LEMMA PendingType ==
  ASSUME TypeInv, NEW w \in Writer, pc[w] \in Pushing
  PROVE  /\ Least(left[w]) \in left[w]
         /\ Least(left[w]) \in DOMAIN asked[w]
         /\ asked[w][Least(left[w])] \in Change
         /\ Pending(w) \in Record
         /\ Pending(w).change = asked[w][Least(left[w])]
<1>1. left[w] \subseteq Nat /\ left[w] # {} /\ left[w] \subseteq DOMAIN asked[w]
  BY DEF TypeInv, TypeOK, LoopHasRecord
<1>2. Least(left[w]) \in left[w]
  BY <1>1, LeastIsIn
<1>3. asked[w] \in Seq(Change) /\ seen[w] \in Seq(Record)
  BY DEF TypeInv, TypeOK
<1>4. asked[w][Least(left[w])] \in Change
  BY <1>1, <1>2, <1>3
<1>5. QED  BY <1>1, <1>2, <1>3, <1>4, NextRecordType DEF Pending

(* The log changes by the pending record of one writer or not at all. *)
AppendsOne(w) == pc[w] = "append" /\ tail = "clean" /\ log' = Append(log, Pending(w))

LEMMA LogStep ==
  ASSUME [Next]_vars
  PROVE  log' = log \/ \E w \in Writer : AppendsOne(w)
<1>1. CASE UNCHANGED vars
  BY <1>1 DEF vars
<1>2. ASSUME NEW w \in Writer, PushAppend(w) \/ CrashInAppend(w)
      PROVE  log' = log \/ AppendsOne(w)
  BY <1>2 DEF PushAppend, AppendLine, CrashInAppend, AppendsOne
<1>3. ASSUME NEW w \in Writer, NEW contribution \in Contributions,
             Propose(w, contribution)
      PROVE  log' = log
  BY <1>3 DEF Propose
<1>4. ASSUME NEW w \in Writer,
             \/ ReturnHead(w) \/ PushRead(w) \/ ReadFails(w)
             \/ OpenNodes(w) \/ PushNodes(w) \/ OpenEdges(w) \/ PushEdges(w)
             \/ CrashBetween(w) \/ CrashInMaterialize(w) \/ Restart(w)
      PROVE  log' = log
  BY <1>4 DEF ReturnHead, PushRead, ReadFails, OpenNodes, PushNodes, OpenEdges, PushEdges,
              CrashBetween, CrashInMaterialize, Restart
<1>5. QED  BY <1>1, <1>2, <1>3, <1>4 DEF Next
-----------------------------------------------------------------------------
(* Type correctness. *)

LEMMA TypeInvInit == Init => TypeInv
<1> SUFFICES ASSUME Init PROVE TypeInv
  OBVIOUS
<1>1. GenesisLog \in Seq(Record)
  BY StoreAssumption
<1>2. TypeOK
  BY <1>1 DEF Init, TypeOK
<1>3. LoopHasRecord
  BY DEF Init, LoopHasRecord, Pushing
<1>4. QED  BY <1>2, <1>3 DEF TypeInv

(* The bookkeeping of a writer that is done with its contribution. *)
LEMMA FinishType ==
  ASSUME TypeInv, NEW w \in Writer, Finish(w), UNCHANGED << log, tail, crashes >>,
         seen' \in [Writer -> Seq(Record)]
  PROVE  TypeInv'
<1>1. pc' \in [Writer -> {"idle", "head", "read", "append", "crashed"} \cup Materializing]
  BY DEF TypeInv, TypeOK, Finish
<1>2. asked' \in [Writer -> Seq(Change)] /\ left' \in [Writer -> SUBSET Nat]
      /\ landed' \in [Writer -> SUBSET Nat]
  BY DEF TypeInv, TypeOK, Finish
<1>3. ASSUME NEW v \in Writer
      PROVE  left'[v] \cup landed'[v] \subseteq DOMAIN asked'[v]
  BY DEF TypeInv, TypeOK, Finish
<1>4. ASSUME NEW v \in Writer, pc'[v] \in Pushing
      PROVE  left'[v] # {}
  BY <1>4 DEF TypeInv, TypeOK, LoopHasRecord, Finish, Pushing
<1>5. QED  BY <1>1, <1>2, <1>3, <1>4 DEF TypeInv, TypeOK, LoopHasRecord

(* A record moves from left to landed. *)
LEMMA AdvanceType ==
  ASSUME TypeInv, NEW w \in Writer, pc[w] \in Pushing, Advance(w), UNCHANGED asked
  PROVE  /\ left' \in [Writer -> SUBSET Nat]
         /\ landed' \in [Writer -> SUBSET Nat]
         /\ \A v \in Writer : left'[v] \cup landed'[v] \subseteq DOMAIN asked'[v]
         /\ \A v \in Writer \ {w} : left'[v] = left[v]
         /\ left'[w] = left[w] \ {Least(left[w])}
<1>1. Least(left[w]) \in left[w]
  BY PendingType
<1>2. left \in [Writer -> SUBSET Nat] /\ landed \in [Writer -> SUBSET Nat]
      /\ \A v \in Writer : left[v] \cup landed[v] \subseteq DOMAIN asked[v]
  BY DEF TypeInv, TypeOK
<1>3. /\ left' = [left EXCEPT ![w] = @ \ {Least(@)}]
      /\ landed' = [landed EXCEPT ![w] = @ \cup {Least(left[w])}]
  BY DEF Advance
<1> HIDE DEF Least
<1>4. left' \in [Writer -> SUBSET Nat] /\ landed' \in [Writer -> SUBSET Nat]
  BY <1>1, <1>2, <1>3
<1>5. left'[w] = left[w] \ {Least(left[w])} /\ landed'[w] = landed[w] \cup {Least(left[w])}
  BY <1>2, <1>3
<1>6. \A v \in Writer \ {w} : left'[v] = left[v] /\ landed'[v] = landed[v]
  BY <1>2, <1>3
<1>7. QED  BY <1>1, <1>2, <1>4, <1>5, <1>6

(* One step per action; the steps that end a proposal or move a record use  *)
(* the two lemmas above.                                                    *)
LEMMA TypeInvStep == TypeInv /\ [Next]_vars => TypeInv'
<1> SUFFICES ASSUME TypeInv, [Next]_vars PROVE TypeInv'
  OBVIOUS
<1> USE DEF Pushing
<1>1. CASE UNCHANGED vars
  BY <1>1 DEF vars, TypeInv, TypeOK, LoopHasRecord
<1>2. ASSUME NEW w \in Writer, NEW contribution \in Contributions,
             Propose(w, contribution)
      PROVE  TypeInv'
  <2> DEFINE rest == DOMAIN contribution \ no_op_indices(contribution, replay(log))
  <2>1. contribution \in Seq(Change)
    BY StoreAssumption
  <2>2. rest \subseteq DOMAIN contribution /\ DOMAIN contribution \subseteq Nat
    BY <2>1
  <2> HIDE DEF rest
  <2>3. /\ left' = [left EXCEPT ![w] = rest]
        /\ pc' = [pc EXCEPT ![w] = IF rest = {} THEN "head" ELSE "read"]
        /\ asked' = [asked EXCEPT ![w] = contribution]
        /\ landed' = [landed EXCEPT ![w] = {}]
        /\ UNCHANGED << log, tail, files, seen, crashes >>
    BY <1>2 DEF Propose, rest
  <2>4. TypeOK'
    <3>1. /\ pc' \in [Writer -> {"idle", "head", "read", "append", "crashed"} \cup Materializing]
          /\ asked' \in [Writer -> Seq(Change)]
      BY <2>1, <2>3 DEF TypeInv, TypeOK
    <3>2. left' \in [Writer -> SUBSET Nat] /\ landed' \in [Writer -> SUBSET Nat]
      BY <2>2, <2>3 DEF TypeInv, TypeOK
    <3>3. \A v \in Writer : left'[v] \cup landed'[v] \subseteq DOMAIN asked'[v]
      BY <2>2, <2>3 DEF TypeInv, TypeOK
    <3>4. QED  BY <2>3, <3>1, <3>2, <3>3 DEF TypeInv, TypeOK
  <2>5. LoopHasRecord'
    BY <2>2, <2>3 DEF TypeInv, TypeOK, LoopHasRecord
  <2>6. QED  BY <2>4, <2>5 DEF TypeInv
<1>3. ASSUME NEW w \in Writer, ReturnHead(w) \/ ReadFails(w) \/ Restart(w)
      PROVE  TypeInv'
  <2>1. Finish(w) /\ UNCHANGED << log, tail, seen, crashes >>
    BY <1>3 DEF ReturnHead, ReadFails, Restart
  <2>2. QED  BY <2>1, FinishType DEF TypeInv, TypeOK
<1>4. ASSUME NEW w \in Writer, PushRead(w)
      PROVE  TypeInv'
  BY <1>4 DEF PushRead, locals, TypeInv, TypeOK, LoopHasRecord
<1>5. ASSUME NEW w \in Writer, PushAppend(w)
      PROVE  TypeInv'
  <2>1. pc[w] \in Pushing /\ pc[w] = "append"
    BY <1>5 DEF PushAppend
  <2>2. Pending(w) \in Record
    BY <2>1, PendingType
  <2>3. log' \in Seq(Record) /\ tail' \in {"clean", "unterminated", "torn"}
    <3>1. \/ log' = Append(log, Pending(w)) /\ UNCHANGED tail
          \/ log' = log /\ tail' = "torn"
      BY <1>5 DEF PushAppend, AppendLine
    <3>2. log \in Seq(Record) /\ tail \in {"clean", "unterminated", "torn"}
      BY DEF TypeInv, TypeOK
    <3>3. QED  BY <2>2, <3>1, <3>2, AppendProperties
  <2>4. pc' \in [Writer -> {"idle", "head", "read", "append", "crashed"} \cup Materializing]
        /\ UNCHANGED << asked, left, landed, seen, crashes >>
    BY <1>5 DEF PushAppend, locals, TypeInv, TypeOK
  <2>5. LoopHasRecord'
    BY <1>5, <2>1, <2>4 DEF PushAppend, TypeInv, TypeOK, LoopHasRecord
  <2>6. QED  BY <2>3, <2>4, <2>5 DEF TypeInv, TypeOK
<1>6. ASSUME NEW w \in Writer, OpenNodes(w) \/ PushNodes(w) \/ OpenEdges(w)
      PROVE  TypeInv'
  BY <1>6 DEF OpenNodes, PushNodes, OpenEdges, locals, TypeInv, TypeOK, LoopHasRecord
<1>7. ASSUME NEW w \in Writer, PushEdges(w)
      PROVE  TypeInv'
  <2>1. seen' \in [Writer -> Seq(Record)] /\ UNCHANGED << log, tail, crashes >>
        /\ pc[w] \in Pushing
    BY <1>7 DEF PushEdges, TypeInv, TypeOK
  <2>2. CASE left[w] = {Least(left[w])}
    BY <1>7, <2>1, <2>2, FinishType DEF PushEdges
  <2>3. CASE left[w] # {Least(left[w])}
    <3>1. Advance(w) /\ pc' = [pc EXCEPT ![w] = "read"] /\ UNCHANGED asked
      BY <1>7, <2>3 DEF PushEdges
    <3>2. left' \in [Writer -> SUBSET Nat] /\ landed' \in [Writer -> SUBSET Nat]
          /\ (\A v \in Writer : left'[v] \cup landed'[v] \subseteq DOMAIN asked'[v])
          /\ (\A v \in Writer \ {w} : left'[v] = left[v])
          /\ left'[w] = left[w] \ {Least(left[w])}
      BY <2>1, <3>1, AdvanceType
    <3>3. left'[w] # {}
      BY <2>1, <2>3, <3>2, PendingType
    <3>4. pc' \in [Writer -> {"idle", "head", "read", "append", "crashed"} \cup Materializing]
      BY <3>1 DEF TypeInv, TypeOK
    <3>5. LoopHasRecord'
      BY <3>1, <3>2, <3>3 DEF TypeInv, TypeOK, LoopHasRecord
    <3>6. QED  BY <2>1, <3>1, <3>2, <3>4, <3>5 DEF TypeInv, TypeOK
  <2>4. QED  BY <2>2, <2>3
<1>8. ASSUME NEW w \in Writer, CrashBetween(w) \/ CrashInAppend(w) \/ CrashInMaterialize(w)
      PROVE  TypeInv'
  <2>1. /\ pc' = [pc EXCEPT ![w] = "crashed"]
        /\ seen' = [seen EXCEPT ![w] = << >>]
        /\ crashes' = crashes + 1
        /\ UNCHANGED asked
    BY <1>8 DEF CrashBetween, CrashInAppend, CrashInMaterialize, Die
  <2>2. pc' \in [Writer -> {"idle", "head", "read", "append", "crashed"} \cup Materializing]
        /\ seen' \in [Writer -> Seq(Record)] /\ crashes' \in Nat
    BY <2>1 DEF TypeInv, TypeOK
  <2>3. log' \in Seq(Record)
    <3>1. CASE CrashInAppend(w)
      <4>1. pc[w] \in Pushing  BY <3>1 DEF CrashInAppend
      <4>2. Pending(w) \in Record  BY <4>1, PendingType
      <4>3. log' = log \/ log' = Append(log, Pending(w))
        BY <3>1 DEF CrashInAppend
      <4>4. log \in Seq(Record)  BY DEF TypeInv, TypeOK
      <4>5. QED  BY <4>2, <4>3, <4>4, AppendProperties
    <3>2. CASE CrashBetween(w) \/ CrashInMaterialize(w)
      BY <3>2 DEF CrashBetween, CrashInMaterialize, TypeInv, TypeOK
    <3>3. QED  BY <1>8, <3>1, <3>2
  <2>4. tail' \in {"clean", "unterminated", "torn"}
    BY <1>8 DEF CrashBetween, CrashInAppend, CrashInMaterialize, TypeInv, TypeOK
  <2>5. /\ left' \in [Writer -> SUBSET Nat] /\ landed' \in [Writer -> SUBSET Nat]
        /\ \A v \in Writer : left'[v] \cup landed'[v] \subseteq DOMAIN asked'[v]
        /\ \A v \in Writer \ {w} : left'[v] = left[v]
    <3>1. CASE UNCHANGED << left, landed >>
      BY <2>1, <3>1 DEF TypeInv, TypeOK
    <3>2. CASE Advance(w) /\ pc[w] \in Pushing
      BY <2>1, <3>2, AdvanceType
    <3>3. QED  BY <1>8, <3>1, <3>2 DEF CrashBetween, CrashInAppend, CrashInMaterialize
  <2>6. LoopHasRecord'
    BY <2>1, <2>5 DEF TypeInv, TypeOK, LoopHasRecord
  <2>7. QED  BY <2>1, <2>2, <2>3, <2>4, <2>5, <2>6 DEF TypeInv, TypeOK
<1>9. QED  BY <1>1, <1>2, <1>3, <1>4, <1>5, <1>6, <1>7, <1>8 DEF Next

(* Every variable keeps its type. *)
THEOREM TypeCorrect == Spec => []TypeOK
<1>1. Init => TypeInv  BY TypeInvInit
<1>2. TypeInv /\ [Next]_vars => TypeInv'  BY TypeInvStep
<1>3. TypeInv => TypeOK  BY DEF TypeInv
<1>4. QED  BY <1>1, <1>2, <1>3, PTL DEF Spec

-----------------------------------------------------------------------------
(* The shape of the log under races and crashes.  Rooted is not inductive:  *)
(* a record extends what its writer read some steps ago, so the copy has to *)
(* be known to be a prefix of the log still.                                *)

LogInv == /\ TypeInv
          /\ SeenIsPrefix
          /\ Rooted
          /\ SeqIsDepth(log)

LEMMA LogInvInit == Init => LogInv
<1> SUFFICES ASSUME Init PROVE LogInv
  OBVIOUS
<1>1. TypeInv
  BY TypeInvInit
<1>2. log = GenesisLog /\ log \in Seq(Record) /\ Recomputes(log) /\ Linked(log) /\ Dense(log)
  BY StoreAssumption DEF Init
<1>3. SeenIsPrefix
  BY <1>2 DEF Init, SeenIsPrefix
<1>4. SeqIsDepth(log)
  BY <1>2, DenseIsDepth
<1>5. ASSUME NEW i \in 1 .. Len(log)
      PROVE  \/ log[i].prev = GENESIS_PREV /\ log[i].seq = 1
             \/ \E j \in 1 .. i - 1 : /\ log[j].version = log[i].prev
                                      /\ log[j].seq = log[i].seq - 1
  <2>1. CASE i = 1
    BY <1>2, <2>1 DEF Linked, Dense
  <2>2. CASE i # 1
    <3>1. i - 1 \in 1 .. i - 1 /\ i - 1 \in 1 .. Len(log)  BY <1>2, <2>2
    <3>2. log[i].prev = log[i - 1].version /\ log[i - 1].seq = i - 1 /\ log[i].seq = i
      BY <1>2, <2>2, <3>1 DEF Linked, Dense
    <3>3. QED  BY <3>1, <3>2
  <2>3. QED  BY <2>1, <2>2
<1>6. Rooted
  BY <1>2, <1>5 DEF Rooted, Recomputes
<1>7. QED  BY <1>1, <1>3, <1>4, <1>6 DEF LogInv

(* A writer's copy of the log grows only when it reads the log anew. *)
LEMMA SeenStep ==
  ASSUME TypeInv, [Next]_vars, NEW w \in Writer
  PROVE  seen'[w] \in {seen[w], << >>} \/ (seen'[w] = log /\ log' = log /\ pc'[w] = "append")
<1> USE DEF TypeInv, TypeOK
<1>1. CASE UNCHANGED vars
  BY <1>1 DEF vars
<1>2. ASSUME NEW v \in Writer, NEW contribution \in Contributions, Propose(v, contribution)
      PROVE  seen' = seen
  BY <1>2 DEF Propose
<1>3. ASSUME NEW v \in Writer,
             \/ ReturnHead(v) \/ ReadFails(v) \/ PushAppend(v) \/ Restart(v)
             \/ OpenNodes(v) \/ PushNodes(v) \/ OpenEdges(v)
      PROVE  seen' = seen
  BY <1>3 DEF ReturnHead, ReadFails, PushAppend, OpenNodes, PushNodes, OpenEdges, Restart
<1>4. ASSUME NEW v \in Writer, PushRead(v)
      PROVE  seen'[w] = seen[w] \/ (seen'[w] = log /\ log' = log /\ pc'[w] = "append")
  BY <1>4 DEF PushRead
<1>5. ASSUME NEW v \in Writer,
             PushEdges(v) \/ CrashBetween(v) \/ CrashInAppend(v) \/ CrashInMaterialize(v)
      PROVE  seen'[w] \in {seen[w], << >>}
  BY <1>5 DEF PushEdges, CrashBetween, CrashInAppend, CrashInMaterialize, Die
<1>6. QED  BY <1>1, <1>2, <1>3, <1>4, <1>5 DEF Next

LEMMA SeenIsPrefixStep == LogInv /\ [Next]_vars => SeenIsPrefix'
<1> SUFFICES ASSUME LogInv, [Next]_vars, NEW w \in Writer
             PROVE  /\ Len(seen'[w]) <= Len(log')
                    /\ \A i \in 1 .. Len(seen'[w]) : seen'[w][i] = log'[i]
  BY DEF SeenIsPrefix
<1>1. log \in Seq(Record) /\ seen[w] \in Seq(Record) /\ TypeInv
      /\ Len(seen[w]) <= Len(log) /\ \A i \in 1 .. Len(seen[w]) : seen[w][i] = log[i]
  BY DEF LogInv, TypeInv, TypeOK, SeenIsPrefix
<1>2. Len(log) <= Len(log') /\ \A i \in 1 .. Len(log) : log'[i] = log[i]
  <2>1. CASE log' = log
    BY <1>1, <2>1
  <2>2. ASSUME NEW v \in Writer, AppendsOne(v)
        PROVE  Len(log) <= Len(log') /\ \A i \in 1 .. Len(log) : log'[i] = log[i]
    <3>1. Pending(v) \in Record  BY <1>1, <2>2, PendingType DEF AppendsOne, Pushing
    <3>2. QED  BY <1>1, <2>2, <3>1, AppendProperties DEF AppendsOne
  <2>3. QED  BY <2>1, <2>2, LogStep
<1>3. CASE seen'[w] = seen[w]
  BY <1>1, <1>2, <1>3
<1>4. CASE seen'[w] = << >>
  BY <1>1, <1>2, <1>4
<1>5. CASE seen'[w] = log
  BY <1>1, <1>2, <1>5
<1>6. QED  BY <1>1, <1>3, <1>4, <1>5, SeenStep

(* The new line: it extends the last record its writer has read, which is   *)
(* an earlier line of the log.                                              *)
LEMMA AppendedRecord ==
  ASSUME LogInv, NEW w \in Writer, AppendsOne(w)
  PROVE  LET n == Len(log)
             k == Len(seen[w])
             new == Pending(w)
         IN /\ n \in Nat /\ k \in 0 .. n
            /\ log' \in Seq(Record) /\ Len(log') = n + 1
            /\ log'[n + 1] = new /\ \A i \in 1 .. n : log'[i] = log[i]
            /\ new \in Record /\ new.change = asked[w][Least(left[w])]
            /\ new.version = version_hash(new.prev, new.seq, new.change)
            /\ k = 0 => new.prev = << >> /\ new.seq = 1
            /\ k # 0 => new.prev = log[k].version /\ new.seq = log[k].seq + 1
            /\ Len(new.version) = new.seq
<1> DEFINE n == Len(log)
           k == Len(seen[w])
           new == Pending(w)
           c == asked[w][Least(left[w])]
<1>1. log \in Seq(Record) /\ seen[w] \in Seq(Record) /\ TypeInv
      /\ k <= n /\ \A i \in 1 .. k : seen[w][i] = log[i]
  BY DEF LogInv, TypeInv, TypeOK, SeenIsPrefix
<1>2. c \in Change /\ new \in Record /\ new.change = c
  BY <1>1, PendingType DEF AppendsOne, Pushing
<1>3. log' \in Seq(Record) /\ Len(log') = n + 1
      /\ log'[n + 1] = new /\ \A i \in 1 .. n : log'[i] = log[i]
  BY <1>1, <1>2, AppendProperties DEF AppendsOne
<1>4. /\ new.prev = head(seen[w])
      /\ new.seq = IF seen[w] = << >> THEN 1 ELSE seen[w][k].seq + 1
      /\ new.version = Append(head(seen[w]), [seq |-> new.seq, change |-> c])
  BY <1>1, <1>2, NextRecordType DEF Pending
<1>5. new.version = version_hash(new.prev, new.seq, new.change)
  BY <1>2, <1>4 DEF version_hash
<1>6. k = 0 => new.prev = << >> /\ new.seq = 1
  BY <1>1, <1>4 DEF head, GENESIS_PREV
<1>7. k # 0 => new.prev = log[k].version /\ new.seq = log[k].seq + 1
  <2>1. SUFFICES ASSUME k # 0 PROVE new.prev = log[k].version /\ new.seq = log[k].seq + 1
    OBVIOUS
  <2>2. k \in 1 .. k /\ seen[w] # << >> /\ seen[w][k] = log[k]  BY <1>1, <2>1
  <2>3. QED  BY <1>4, <2>2 DEF head
<1>8. Len(new.version) = new.seq
  <2>1. new.prev \in Version /\ [seq |-> new.seq, change |-> c] \in [seq : Nat, change : Change]
    BY <1>2 DEF Record
  <2>2. Len(new.version) = Len(new.prev) + 1
    BY <1>4, <2>1, AppendProperties DEF Version
  <2>3. CASE k = 0
    BY <1>6, <2>2, <2>3
  <2>4. CASE k # 0
    <3>1. k \in 1 .. n  BY <1>1, <2>4
    <3>2. Len(log[k].version) = log[k].seq  BY <3>1 DEF LogInv, SeqIsDepth
    <3>3. QED  BY <1>7, <2>2, <2>4, <3>2
  <2>5. QED  BY <2>3, <2>4
<1>9. QED  BY <1>1, <1>2, <1>3, <1>5, <1>6, <1>7, <1>8

LEMMA LogInvStep == LogInv /\ [Next]_vars => LogInv'
<1> SUFFICES ASSUME LogInv, [Next]_vars PROVE LogInv'
  OBVIOUS
<1>1. TypeInv'
  BY TypeInvStep DEF LogInv
<1>2. SeenIsPrefix'
  BY SeenIsPrefixStep
<1>3. CASE log' = log
  BY <1>1, <1>2, <1>3 DEF LogInv, Rooted, SeqIsDepth
<1>4. ASSUME NEW w \in Writer, AppendsOne(w)
      PROVE  Rooted' /\ SeqIsDepth(log)'
  <2> DEFINE n == Len(log)
             k == Len(seen[w])
             new == Pending(w)
  <2>1. /\ n \in Nat /\ k \in 0 .. n
        /\ Len(log') = n + 1
        /\ log'[n + 1] = new /\ \A i \in 1 .. n : log'[i] = log[i]
        /\ new \in Record
        /\ new.version = version_hash(new.prev, new.seq, new.change)
        /\ k = 0 => new.prev = << >> /\ new.seq = 1
        /\ k # 0 => new.prev = log[k].version /\ new.seq = log[k].seq + 1
        /\ Len(new.version) = new.seq
    BY <1>4, AppendedRecord
  <2> HIDE DEF n, k, new
  <2>2. SeqIsDepth(log)'
    BY <2>1 DEF LogInv, SeqIsDepth, n
  <2>3. ASSUME NEW i \in 1 .. n + 1
        PROVE  /\ log'[i].version = version_hash(log'[i].prev, log'[i].seq, log'[i].change)
               /\ \/ log'[i].prev = GENESIS_PREV /\ log'[i].seq = 1
                  \/ \E j \in 1 .. i - 1 : /\ log'[j].version = log'[i].prev
                                           /\ log'[j].seq = log'[i].seq - 1
    <3>1. CASE i \in 1 .. n
      <4>1. log'[i] = log[i] /\ \A j \in 1 .. i - 1 : log'[j] = log[j]
        BY <2>1, <3>1
      <4>2. /\ log[i].version = version_hash(log[i].prev, log[i].seq, log[i].change)
            /\ \/ log[i].prev = GENESIS_PREV /\ log[i].seq = 1
               \/ \E j \in 1 .. i - 1 : /\ log[j].version = log[i].prev
                                        /\ log[j].seq = log[i].seq - 1
        BY <3>1 DEF LogInv, Rooted, n
      <4>3. QED  BY <4>1, <4>2
    <3>2. CASE i = n + 1 /\ k = 0
      BY <2>1, <3>2 DEF GENESIS_PREV
    <3>3. CASE i = n + 1 /\ k # 0
      <4>1. k \in 1 .. i - 1 /\ log'[k] = log[k]  BY <2>1, <3>3
      <4>2. k \in 1 .. Len(log)  BY <2>1, <3>3 DEF n
      <4>3. log[k].seq \in Nat
        <5>1. log[k] \in Record  BY <4>2 DEF LogInv, TypeInv, TypeOK
        <5>2. QED  BY <5>1 DEF Record
      <4>4. log'[k].seq = log'[i].seq - 1  BY <2>1, <3>3, <4>1, <4>3
      <4>5. QED  BY <2>1, <3>3, <4>1, <4>4
    <3>4. QED  BY <2>1, <3>1, <3>2, <3>3
  <2>4. Rooted'
    BY <2>1, <2>3 DEF Rooted
  <2>5. QED  BY <2>2, <2>4
<1>5. QED  BY <1>1, <1>2, <1>3, <1>4, LogStep DEF LogInv

(* The log is a tree of self-consistent records, whatever races and crashes *)
(* there were.                                                              *)
THEOREM LogIsRooted == Spec => []Rooted
<1>1. LogInv => Rooted  BY DEF LogInv
<1>2. QED  BY <1>1, LogInvInit, LogInvStep, PTL DEF Spec

-----------------------------------------------------------------------------
(* What follows of the tree for readers. *)

LEMMA RootedRecomputes == Rooted => Recomputes(log)
BY DEF Rooted, Recomputes

(* As long as verify() reports no fork the head reads as the current map.   *)
THEOREM HeadIsCurrentMap ==
  ASSUME GenesisLog # << >>
  PROVE  Spec => []HeadReadsCurrentMap
<1> DEFINE Inv == LogInv /\ log # << >>
<1>1. Init => Inv
  BY LogInvInit DEF Init
<1>2. Inv /\ [Next]_vars => Inv'
  <2> SUFFICES ASSUME Inv, [Next]_vars PROVE Inv'
    OBVIOUS
  <2>1. LogInv'
    BY LogInvStep
  <2>2. ASSUME NEW w \in Writer, AppendsOne(w) PROVE log' # << >>
    BY <2>2, AppendedRecord
  <2>3. QED  BY <2>1, <2>2, LogStep
<1>3. Inv => HeadReadsCurrentMap
  BY RootedRecomputes, LinkedHeadReads
     DEF LogInv, TypeInv, TypeOK, HeadReadsCurrentMap
<1>4. QED  BY <1>1, <1>2, <1>3, PTL DEF Spec

(* A version that could be read once reads the same for ever. *)
THEOREM VersionsAreStable == Spec => VersionStable
<1>1. LogInv /\ [Next]_vars =>
        [\A i \in 1 .. Len(log) :
            read(log', log[i].version) = read(log, log[i].version)]_vars
  <2> SUFFICES ASSUME LogInv, [Next]_vars, NEW i \in 1 .. Len(log)
               PROVE  read(log', log[i].version) = read(log, log[i].version)
    OBVIOUS
  <2>1. CASE log' = log
    BY <2>1
  <2>2. ASSUME NEW w \in Writer, AppendsOne(w)
        PROVE  read(log', log[i].version) = read(log, log[i].version)
    <3>1. log \in Seq(Record) /\ Pending(w) \in Record
      BY <2>2, AppendedRecord DEF LogInv, TypeInv, TypeOK
    <3>2. QED  BY <2>2, <3>1, ReadStable DEF AppendsOne
  <2>3. QED  BY <2>1, <2>2, LogStep
<1>2. QED  BY <1>1, LogInvInit, LogInvStep, PTL DEF Spec, VersionStable

-----------------------------------------------------------------------------
(* The writer that appends is the only one that moves. *)
LEMMA AppendsAlone ==
  ASSUME TypeInv, Next, log' # log, NEW w \in Writer, pc[w] = "append", pc'[w] # "append"
  PROVE  AppendsOne(w)
<1> USE DEF TypeInv, TypeOK
<1>1. ASSUME NEW v \in Writer, PushAppend(v) \/ CrashInAppend(v)
      PROVE  AppendsOne(w)
  <2>1. AppendsOne(v)
    BY <1>1 DEF PushAppend, AppendLine, CrashInAppend, AppendsOne
  <2>2. \A u \in Writer \ {v} : pc'[u] = pc[u]
    BY <1>1 DEF PushAppend, CrashInAppend, Die
  <2>3. QED  BY <2>1, <2>2
<1>2. ASSUME NEW v \in Writer, NEW contribution \in Contributions, Propose(v, contribution)
      PROVE  log' = log
  BY <1>2 DEF Propose
<1>3. ASSUME NEW v \in Writer,
             \/ ReturnHead(v) \/ PushRead(v) \/ ReadFails(v)
             \/ OpenNodes(v) \/ PushNodes(v) \/ OpenEdges(v) \/ PushEdges(v)
             \/ CrashBetween(v) \/ CrashInMaterialize(v) \/ Restart(v)
      PROVE  log' = log
  BY <1>3 DEF ReturnHead, PushRead, ReadFails, OpenNodes, PushNodes, OpenEdges, PushEdges,
              CrashBetween, CrashInMaterialize, Restart
<1>4. QED  BY <1>1, <1>2, <1>3 DEF Next

(* The lines of the log stay what they are. *)
LEMMA LinesStay ==
  ASSUME TypeInv, [Next]_vars
  PROVE  /\ log \in Seq(Record) /\ log' \in Seq(Record) /\ Len(log) <= Len(log')
         /\ \A i \in 1 .. Len(log) : log'[i] = log[i]
<1> USE DEF TypeInv, TypeOK
<1>1. CASE log' = log
  BY <1>1
<1>2. ASSUME NEW w \in Writer, AppendsOne(w)
      PROVE  /\ log' \in Seq(Record) /\ Len(log) <= Len(log')
             /\ \A i \in 1 .. Len(log) : log'[i] = log[i]
  <2>1. Pending(w) \in Record /\ log' = Append(log, Pending(w))
    BY <1>2, PendingType DEF AppendsOne, Pushing
  <2>2. QED  BY <2>1, AppendProperties
<1>3. QED  BY <1>1, <1>2, LogStep

(* What verify() finds in the log it finds in every longer one. *)
LEMMA ProblemsStay ==
  ASSUME NEW recs \in Seq(Record), NEW more \in Seq(Record), Len(recs) <= Len(more),
         \A i \in 1 .. Len(recs) : more[i] = recs[i]
  PROVE  /\ Recomputes(more) => Recomputes(recs)
         /\ Linked(more) => Linked(recs)
         /\ Dense(more) => Dense(recs)
         /\ TargetsKnown(more) => TargetsKnown(recs)
<1>1. Len(recs) \in Nat /\ Len(more) \in Nat
  OBVIOUS
<1>2. Recomputes(more) => Recomputes(recs)
  BY <1>1 DEF Recomputes
<1>3. Dense(more) => Dense(recs)
  BY <1>1 DEF Dense
<1>4. Linked(more) => Linked(recs)
  <2> SUFFICES ASSUME Linked(more), NEW i \in 1 .. Len(recs)
               PROVE  recs[i].prev = IF i = 1 THEN GENESIS_PREV ELSE recs[i - 1].version
    BY DEF Linked
  <2>1. i \in 1 .. Len(more) /\ (i # 1 => i - 1 \in 1 .. Len(recs))
    BY <1>1
  <2>2. more[i].prev = IF i = 1 THEN GENESIS_PREV ELSE more[i - 1].version
    BY <2>1 DEF Linked
  <2>3. QED  BY <2>1, <2>2
<1>5. TargetsKnown(more) => TargetsKnown(recs)
  <2> SUFFICES ASSUME TargetsKnown(more), NEW i \in 1 .. Len(recs)
               PROVE  \/ IsAdd(recs[i].change)
                      \/ recs[i].change.uids \subseteq KnownUids(replay(SubSeq(recs, 1, i - 1)))
    BY DEF TargetsKnown
  <2>1. i \in 1 .. Len(more) /\ i - 1 \in Nat /\ more[i] = recs[i]
    BY <1>1
  <2>2. /\ SubSeq(recs, 1, i - 1) \in Seq(Record) /\ SubSeq(more, 1, i - 1) \in Seq(Record)
        /\ Len(SubSeq(recs, 1, i - 1)) = i - 1 /\ Len(SubSeq(more, 1, i - 1)) = i - 1
        /\ \A j \in 1 .. i - 1 : SubSeq(recs, 1, i - 1)[j] = SubSeq(more, 1, i - 1)[j]
    BY <1>1, <2>1
  <2>3. SubSeq(recs, 1, i - 1) = SubSeq(more, 1, i - 1)
    BY <2>2, SeqEqual
  <2>4. QED  BY <2>1, <2>3 DEF TargetsKnown
<1>6. QED  BY <1>2, <1>3, <1>4, <1>5

(* A fork cannot hide: a record that extends anything but the last line     *)
(* leaves a log that is neither linked nor dense, and so is every longer    *)
(* log.  (SeqIsDepth makes the one follow from the other.)                  *)
THEOREM ForksAreReported == Spec => StaleAppendIsReported
<1> DEFINE Reported(w) ==
      (pc[w] = "append" /\ pc'[w] # "append" /\ log' # log /\ seen[w] # log)
      => {"chain", "seq"} \subseteq verify(log', nodesFile', edgesFile')
<1>1. LogInv /\ [Next]_vars => [\A w \in Writer : Reported(w)]_vars
  <2> SUFFICES ASSUME LogInv, Next, NEW w \in Writer, log' # log, seen[w] # log,
                      pc[w] = "append", pc'[w] # "append"
               PROVE  {"chain", "seq"} \subseteq verify(log', nodesFile', edgesFile')
    OBVIOUS
  <2> DEFINE n == Len(log)
             k == Len(seen[w])
  <2>1. AppendsOne(w)
    BY AppendsAlone DEF LogInv
  <2>2. /\ n \in Nat /\ k \in 0 .. n
        /\ log' \in Seq(Record) /\ Len(log') = n + 1
        /\ log'[n + 1] = Pending(w) /\ \A i \in 1 .. n : log'[i] = log[i]
        /\ k = 0 => Pending(w).seq = 1
        /\ k # 0 => Pending(w).seq = log[k].seq + 1
    BY <2>1, AppendedRecord
  <2>3. k # n
    <3>1. log \in Seq(Record) /\ seen[w] \in Seq(Record)
          /\ \A i \in 1 .. k : seen[w][i] = log[i]
      BY DEF LogInv, TypeInv, TypeOK, SeenIsPrefix
    <3>2. QED  BY <3>1, SeqEqual
  <2>4. ~ Dense(log')
    <3> SUFFICES ASSUME Dense(log') PROVE FALSE
      OBVIOUS
    <3>1. log'[n + 1].seq = n + 1
      BY <2>2 DEF Dense
    <3>2. k # 0 => log'[k].seq = k
      BY <2>2 DEF Dense
    <3>3. QED  BY <2>2, <2>3, <3>1, <3>2
  <2>5. ~ Linked(log')
    <3>1. LogInv'
      BY LogInvStep
    <3>2. SeqIsDepth(log') /\ Recomputes(log')
      BY <3>1 DEF LogInv, Rooted, Recomputes
    <3>3. QED  BY <2>2, <2>4, <3>2, DenseIsDepth
  <2>6. QED  BY <2>4, <2>5 DEF verify
<1>2. LogInv /\ [Next]_vars =>
        verify(log, nodesFile, edgesFile) \cap {"version", "chain", "seq", "unknown uid"}
            \subseteq verify(log', nodesFile', edgesFile')
  <2> SUFFICES ASSUME LogInv, [Next]_vars,
                      NEW p \in verify(log, nodesFile, edgesFile)
                                 \cap {"version", "chain", "seq", "unknown uid"}
               PROVE  p \in verify(log', nodesFile', edgesFile')
    OBVIOUS
  <2>1. /\ log \in Seq(Record) /\ log' \in Seq(Record) /\ Len(log) <= Len(log')
        /\ \A i \in 1 .. Len(log) : log'[i] = log[i]
    BY LinesStay DEF LogInv
  <2>2. PICK more \in Seq(Record) : more = log'
    BY <2>1
  <2>3. /\ Recomputes(more) => Recomputes(log)
        /\ Linked(more) => Linked(log)
        /\ Dense(more) => Dense(log)
        /\ TargetsKnown(more) => TargetsKnown(log)
    BY <2>1, <2>2, ProblemsStay
  <2>4. QED  BY <2>2, <2>3 DEF verify
<1>3. QED  BY <1>1, <1>2, LogInvInit, LogInvStep, PTL DEF Spec, StaleAppendIsReported

-----------------------------------------------------------------------------
(* One writer. *)

(* The only writer has the whole log in its copy when it appends.           *)
SerialInv == /\ LogInv
             /\ Linked(log)
             /\ \A w \in Writer : pc[w] = "append" => seen[w] = log

LEMMA CopyIsFresh ==
  ASSUME SerialInv, Next, \A v, w \in Writer : v = w,
         NEW w \in Writer, pc'[w] = "append"
  PROVE  seen'[w] = log'
<1> USE DEF SerialInv, LogInv, TypeInv, TypeOK
<1>1. ASSUME NEW v \in Writer, PushRead(v)
      PROVE  seen'[w] = log'
  BY <1>1 DEF PushRead
<1>2. ASSUME NEW v \in Writer, NEW contribution \in Contributions, Propose(v, contribution)
      PROVE  FALSE
  BY <1>2 DEF Propose
<1>3. ASSUME NEW v \in Writer,
             \/ ReturnHead(v) \/ ReadFails(v) \/ PushAppend(v) \/ Restart(v)
             \/ OpenNodes(v) \/ PushNodes(v) \/ OpenEdges(v) \/ PushEdges(v)
      PROVE  FALSE
  BY <1>3 DEF ReturnHead, ReadFails, PushAppend, OpenNodes, PushNodes, OpenEdges, PushEdges,
              Restart, Finish
<1>4. ASSUME NEW v \in Writer,
             CrashBetween(v) \/ CrashInAppend(v) \/ CrashInMaterialize(v)
      PROVE  FALSE
  BY <1>4 DEF CrashBetween, CrashInAppend, CrashInMaterialize, Die
<1>5. QED  BY <1>1, <1>2, <1>3, <1>4 DEF Next

LEMMA SerialInvStep ==
  ASSUME SerialInv, [Next]_vars, \A v, w \in Writer : v = w
  PROVE  SerialInv'
<1>1. LogInv'
  BY LogInvStep DEF SerialInv
<1>2. \A w \in Writer : pc'[w] = "append" => seen'[w] = log'
  <2>1. CASE UNCHANGED vars  BY <2>1 DEF vars, SerialInv
  <2>2. CASE Next  BY <2>2, CopyIsFresh
  <2>3. QED  BY <2>1, <2>2
<1>3. ASSUME NEW w \in Writer, AppendsOne(w)
      PROVE  Linked(log')
  <2> DEFINE n == Len(log)
  <2>1. Len(seen[w]) = n
    BY <1>3 DEF SerialInv, AppendsOne
  <2>2. /\ n \in Nat /\ Len(log') = n + 1
        /\ log'[n + 1] = Pending(w) /\ \A i \in 1 .. n : log'[i] = log[i]
        /\ n = 0 => Pending(w).prev = << >>
        /\ n # 0 => Pending(w).prev = log[n].version
    BY <1>3, <2>1, AppendedRecord DEF SerialInv
  <2>3. \A i \in 1 .. n : log[i].prev = IF i = 1 THEN << >> ELSE log[i - 1].version
    BY DEF SerialInv, Linked, GENESIS_PREV
  <2> HIDE DEF n
  <2>4. ASSUME NEW i \in 1 .. n + 1
        PROVE  log'[i].prev = IF i = 1 THEN << >> ELSE log'[i - 1].version
    <3>1. CASE i \in 1 .. n
      BY <2>2, <2>3, <3>1
    <3>2. CASE i = n + 1
      BY <2>2, <3>2
    <3>3. QED  BY <2>2, <3>1, <3>2
  <2>5. QED  BY <2>2, <2>4 DEF Linked, GENESIS_PREV
<1>4. Linked(log')
  <2>1. CASE log' = log  BY <2>1 DEF SerialInv
  <2>2. QED  BY <1>3, <2>1, LogStep
<1>5. QED  BY <1>1, <1>2, <1>4 DEF SerialInv

(* With one writer the log is a line with a dense seq, whatever crashes and *)
(* retries there were.                                                      *)
THEOREM SerialLogIsChain ==
  ASSUME \A v, w \in Writer : v = w
  PROVE  Spec => []SerialChain
<1>1. Init => SerialInv
  BY LogInvInit, StoreAssumption DEF Init, SerialInv
<1>2. SerialInv /\ [Next]_vars => SerialInv'
  BY SerialInvStep
<1>3. SerialInv => SerialChain
  BY RootedRecomputes, DenseIsDepth
     DEF SerialInv, LogInv, TypeInv, TypeOK, SerialChain
<1>4. QED  BY <1>1, <1>2, <1>3, PTL DEF Spec

(* Until the materialization is over the log is what the writer has seen    *)
(* plus its record, the file that is open is empty, and nodes.json is       *)
(* written before edges.json is opened.                                     *)
Rewriting == \A w \in Writer :
    Readable /\ pc[w] \in Materializing =>
        /\ Seen(w) = log
        /\ pc[w] = "nodesOpen" => nodesFile = Empty
        /\ pc[w] \in {"edges", "edgesOpen"} => nodesFile = replay(log).nodes
        /\ pc[w] = "edgesOpen" => edgesFile = Empty

LEMMA RewritingStep ==
  ASSUME SerialInv, Rewriting, [Next]_vars, \A v, w \in Writer : v = w
  PROVE  Rewriting'
<1> SUFFICES ASSUME NEW w \in Writer, Readable', pc'[w] \in Materializing
             PROVE  /\ Seen(w)' = log'
                    /\ pc'[w] = "nodesOpen" => nodesFile' = Empty
                    /\ pc'[w] \in {"edges", "edgesOpen"} => nodesFile' = replay(log').nodes
                    /\ pc'[w] = "edgesOpen" => edgesFile' = Empty
  BY DEF Rewriting
<1> USE DEF SerialInv, LogInv, TypeInv, TypeOK
<1>1. CASE UNCHANGED vars
  BY <1>1 DEF vars, Rewriting, Readable, Seen, Pending
<1>2. CASE PushAppend(w)
  <2>1. tail = "clean" /\ log' = Append(log, Pending(w))
    BY <1>2 DEF PushAppend, AppendLine, Readable
  <2>2. seen[w] = log /\ pc'[w] = "nodes"
    BY <1>2 DEF PushAppend
  <2>3. Seen(w)' = Seen(w)
    BY <1>2 DEF PushAppend, locals, Seen, Pending
  <2>4. QED  BY <2>1, <2>2, <2>3 DEF Seen
<1>3. CASE PushNodes(w)
  <2>1. Seen(w) = log
    BY <1>3 DEF PushNodes, Rewriting, Readable
  <2>2. Seen(w)' = Seen(w) /\ log' = log
    BY <1>3 DEF PushNodes, locals, Seen, Pending
  <2>3. nodesFile' = replay(Seen(w)).nodes
    <3>1. nodesFile = Empty
      BY <1>3 DEF PushNodes, Rewriting, Readable
    <3>2. QED  BY <1>3, <3>1 DEF PushNodes, Written
  <2>4. pc'[w] = "edges"
    BY <1>3 DEF PushNodes
  <2>5. QED  BY <2>1, <2>2, <2>3, <2>4
<1>4. ASSUME NEW contribution \in Contributions, Propose(w, contribution)
      PROVE  FALSE
  BY <1>4 DEF Propose
<1>5. ASSUME \/ ReturnHead(w) \/ PushRead(w) \/ ReadFails(w) \/ PushEdges(w) \/ Restart(w)
      PROVE  FALSE
  BY <1>5 DEF ReturnHead, PushRead, ReadFails, PushEdges, Restart, Finish
<1>6. ASSUME CrashBetween(w) \/ CrashInAppend(w) \/ CrashInMaterialize(w)
      PROVE  FALSE
  BY <1>6 DEF CrashBetween, CrashInAppend, CrashInMaterialize, Die
<1>7. CASE OpenNodes(w) \/ OpenEdges(w)
  <2>1. Seen(w) = log /\ (pc[w] = "edges" => nodesFile = replay(log).nodes)
    BY <1>7 DEF OpenNodes, OpenEdges, Rewriting, Readable
  <2>2. Seen(w)' = Seen(w) /\ log' = log
    BY <1>7 DEF OpenNodes, OpenEdges, locals, Seen, Pending
  <2>3. \/ pc'[w] = "nodesOpen" /\ nodesFile' = Empty
        \/ pc[w] = "edges" /\ pc'[w] = "edgesOpen" /\ edgesFile' = Empty /\ nodesFile' = nodesFile
    BY <1>7 DEF OpenNodes, OpenEdges
  <2>4. QED  BY <2>1, <2>2, <2>3
<1>8. QED  BY <1>1, <1>2, <1>3, <1>4, <1>5, <1>6, <1>7 DEF Next

(* With one writer a push that runs to its end leaves current/ equal to the *)
(* replay, whatever an earlier crash left there.                            *)
THEOREM SerialPushRepairs ==
  ASSUME \A v, w \in Writer : v = w
  PROVE  Spec => PushRepairsCurrent
<1>1. Init => SerialInv /\ Rewriting
  <2> SUFFICES ASSUME Init PROVE SerialInv /\ Rewriting
    OBVIOUS
  <2>1. SerialInv
    BY LogInvInit, StoreAssumption DEF Init, SerialInv
  <2>2. Rewriting
    BY DEF Init, Rewriting
  <2>3. QED  BY <2>1, <2>2
<1>2. SerialInv /\ Rewriting /\ [Next]_vars => (SerialInv /\ Rewriting)'
  BY SerialInvStep, RewritingStep
<1>3. SerialInv /\ Rewriting /\ [Next]_vars =>
        \A w \in Writer :
          (pc[w] = "edgesOpen" /\ pc'[w] # "crashed" /\ pc'[w] # "edgesOpen" /\ Readable)
          => nodesFile' = replay(log').nodes /\ edgesFile' = replay(log').edges
  <2> SUFFICES ASSUME SerialInv, Rewriting, [Next]_vars, NEW w \in Writer,
                      pc[w] = "edgesOpen", pc'[w] # "crashed", pc'[w] # "edgesOpen", Readable
               PROVE  nodesFile' = replay(log').nodes /\ edgesFile' = replay(log').edges
    OBVIOUS
  <2> USE DEF SerialInv, LogInv, TypeInv, TypeOK
  <2>1. PushEdges(w)
    <3>1. Next
      BY DEF vars
    <3>2. ASSUME NEW contribution \in Contributions, Propose(w, contribution)
          PROVE  FALSE
      BY <3>2 DEF Propose
    <3>3. ASSUME \/ ReturnHead(w) \/ PushRead(w) \/ ReadFails(w) \/ PushAppend(w)
                 \/ OpenNodes(w) \/ PushNodes(w) \/ OpenEdges(w) \/ Restart(w)
          PROVE  FALSE
      BY <3>3 DEF ReturnHead, PushRead, ReadFails, PushAppend, OpenNodes, PushNodes, OpenEdges,
                  Restart
    <3>4. ASSUME CrashBetween(w) \/ CrashInAppend(w) \/ CrashInMaterialize(w)
          PROVE  FALSE
      BY <3>4 DEF CrashBetween, CrashInAppend, CrashInMaterialize, Die
    <3>5. QED  BY <3>1, <3>2, <3>3, <3>4 DEF Next
  <2>2. Seen(w) = log /\ nodesFile = replay(log).nodes /\ edgesFile = Empty
    BY DEF Rewriting
  <2>3. log' = log /\ nodesFile' = nodesFile /\ edgesFile' = replay(Seen(w)).edges
    BY <2>1, <2>2 DEF PushEdges, Written
  <2>4. QED  BY <2>2, <2>3
<1>4. QED  BY <1>1, <1>2, <1>3, PTL DEF Spec, PushRepairsCurrent

-----------------------------------------------------------------------------
(* What races and crashes may leave in current/.  A file may be empty or    *)
(* garbled, by a crash or by two writers that had it open at once, and a    *)
(* slow writer may put an older map over a newer one.  But a file that is   *)
(* as one writer wrote it holds the map of one line of the log together     *)
(* with the lines that writer had read, the last of which it extends; or    *)
(* what the genesis left there.                                             *)

OfLine(view) ==
    \E i \in 1 .. Len(log) : \E k \in 0 .. i - 1 :
        /\ log[i].prev = head(SubSeq(log, 1, k))
        /\ view = replay(Append(SubSeq(log, 1, k), log[i]))

MapOfALine(view) == view = replay(GenesisLog) \/ OfLine(view)

CurrentIsOfOneLine ==
    Readable =>
        /\ nodesFile \in {Empty, Garbled} \/ \E view : MapOfALine(view) /\ nodesFile = view.nodes
        /\ edgesFile \in {Empty, Garbled} \/ \E view : MapOfALine(view) /\ edgesFile = view.edges

(* The record a writer is materializing is a line after those it has read. *)
OnALine(w) ==
    Readable /\ pc[w] \in Materializing =>
        \E i \in 1 .. Len(log) : Len(seen[w]) < i /\ log[i] = Pending(w)

CurrentInv == LogInv /\ CurrentIsOfOneLine /\ \A w \in Writer : OnALine(w)

LEMMA StaysReadable == [Next]_vars /\ Readable' => Readable
<1> SUFFICES ASSUME [Next]_vars, Readable' PROVE Readable
  OBVIOUS
<1>1. CASE UNCHANGED vars
  BY <1>1 DEF vars, Readable
<1>2. ASSUME NEW w \in Writer, PushAppend(w) \/ CrashInAppend(w)
      PROVE  Readable
  BY <1>2 DEF PushAppend, AppendLine, CrashInAppend, Readable
<1>3. ASSUME NEW w \in Writer, NEW contribution \in Contributions, Propose(w, contribution)
      PROVE  Readable
  BY <1>3 DEF Propose
<1>4. ASSUME NEW w \in Writer,
             \/ ReturnHead(w) \/ PushRead(w) \/ ReadFails(w)
             \/ OpenNodes(w) \/ PushNodes(w) \/ OpenEdges(w) \/ PushEdges(w)
             \/ CrashBetween(w) \/ CrashInMaterialize(w) \/ Restart(w)
      PROVE  tail' = tail
  BY <1>4 DEF ReturnHead, PushRead, ReadFails, OpenNodes, PushNodes, OpenEdges, PushEdges,
              CrashBetween, CrashInMaterialize, Restart
<1>5. QED  BY <1>1, <1>2, <1>3, <1>4 DEF Next, Readable

LEMMA MapOfALineStays ==
  ASSUME TypeInv, [Next]_vars, NEW view, MapOfALine(view)
  PROVE  MapOfALine(view)'
<1>1. /\ log \in Seq(Record) /\ log' \in Seq(Record) /\ Len(log) <= Len(log')
      /\ \A i \in 1 .. Len(log) : log'[i] = log[i]
  BY LinesStay
<1>2. CASE OfLine(view)
  <2>0. PICK i \in 1 .. Len(log) : \E k \in 0 .. i - 1 :
           /\ log[i].prev = head(SubSeq(log, 1, k))
           /\ view = replay(Append(SubSeq(log, 1, k), log[i]))
    BY <1>2 DEF OfLine
  <2>1. PICK k \in 0 .. i - 1 :
           /\ log[i].prev = head(SubSeq(log, 1, k))
           /\ view = replay(Append(SubSeq(log, 1, k), log[i]))
    BY <2>0
  <2>2. /\ SubSeq(log, 1, k) \in Seq(Record) /\ SubSeq(log', 1, k) \in Seq(Record)
        /\ Len(SubSeq(log, 1, k)) = k /\ Len(SubSeq(log', 1, k)) = k
        /\ \A j \in 1 .. k : SubSeq(log, 1, k)[j] = SubSeq(log', 1, k)[j]
    BY <1>1
  <2>3. SubSeq(log', 1, k) = SubSeq(log, 1, k)
    BY <2>2, SeqEqual
  <2>4. i \in 1 .. Len(log') /\ log'[i] = log[i]
    BY <1>1
  <2>5. QED  BY <2>1, <2>3, <2>4 DEF MapOfALine, OfLine
<1>3. QED  BY <1>2 DEF MapOfALine

(* What a writer materializes is the map of its line. *)
LEMMA SeenIsOfALine ==
  ASSUME LogInv, Readable, NEW w \in Writer, OnALine(w), pc[w] \in Materializing
  PROVE  OfLine(replay(Seen(w)))
<1> DEFINE k == Len(seen[w])
<1>1. /\ log \in Seq(Record) /\ seen[w] \in Seq(Record) /\ k \in Nat /\ k <= Len(log)
      /\ \A j \in 1 .. k : seen[w][j] = log[j] /\ TypeInv
  BY DEF LogInv, TypeInv, TypeOK, SeenIsPrefix
<1>2. PICK i \in 1 .. Len(log) : k < i /\ log[i] = Pending(w)
  BY DEF OnALine
<1>3. SubSeq(log, 1, k) = seen[w]
  <2>1. /\ SubSeq(log, 1, k) \in Seq(Record) /\ Len(SubSeq(log, 1, k)) = k
        /\ \A j \in 1 .. k : SubSeq(log, 1, k)[j] = seen[w][j]
    BY <1>1
  <2>2. QED  BY <1>1, <2>1, SeqEqual
<1>4. Pending(w).prev = head(seen[w])
  <2>1. asked[w][Least(left[w])] \in Change
    BY PendingType DEF LogInv, Pushing
  <2>2. QED  BY <1>1, <2>1, NextRecordType DEF Pending
<1>5. k \in 0 .. i - 1
  BY <1>1, <1>2
<1>6. log[i].prev = head(SubSeq(log, 1, k)) /\ Seen(w) = Append(SubSeq(log, 1, k), log[i])
  BY <1>2, <1>3, <1>4 DEF Seen
<1>7. QED  BY <1>5, <1>6 DEF OfLine

LEMMA OnALineStep ==
  ASSUME CurrentInv, [Next]_vars, NEW u \in Writer
  PROVE  OnALine(u)'
<1> SUFFICES ASSUME Readable', pc'[u] \in Materializing
             PROVE  \E i \in 1 .. Len(log') : Len(seen'[u]) < i /\ log'[i] = Pending(u)'
  BY DEF OnALine
<1>1. /\ TypeInv /\ log \in Seq(Record) /\ log' \in Seq(Record) /\ Len(log) <= Len(log')
      /\ \A i \in 1 .. Len(log) : log'[i] = log[i]
  BY LinesStay DEF CurrentInv, LogInv
<1> USE DEF TypeInv, TypeOK
<1>2. CASE PushAppend(u)
  <2>1. /\ pc[u] = "append" /\ seen'[u] = seen[u] /\ Pending(u)' = Pending(u)
        /\ log' = Append(log, Pending(u))
    BY <1>1, <1>2 DEF PushAppend, AppendLine, locals, Readable, Pending
  <2>2. Pending(u) \in Record /\ Len(seen[u]) <= Len(log)
    BY <1>1, <2>1, PendingType DEF Pushing, CurrentInv, LogInv, SeenIsPrefix
  <2>3. seen[u] \in Seq(Record)
    BY <1>1
  <2>4. /\ Len(log) + 1 \in 1 .. Len(log') /\ log'[Len(log) + 1] = Pending(u)
        /\ Len(seen[u]) < Len(log) + 1
    BY <1>1, <2>1, <2>2, <2>3
  <2>5. QED  BY <2>1, <2>4
<1>3. CASE /\ Readable /\ pc[u] \in Materializing
           /\ seen'[u] = seen[u] /\ left'[u] = left[u] /\ asked'[u] = asked[u]
  <2>1. PICK i \in 1 .. Len(log) : Len(seen[u]) < i /\ log[i] = Pending(u)
    BY <1>3 DEF CurrentInv, OnALine
  <2>2. i \in 1 .. Len(log') /\ log'[i] = log[i]
    BY <1>1
  <2>3. Pending(u)' = Pending(u)
    BY <1>3 DEF Pending
  <2>4. QED  BY <1>3, <2>1, <2>2, <2>3
<1>4. CASE UNCHANGED vars
  BY <1>3, <1>4 DEF vars, Readable
<1>5. ASSUME NEW w \in Writer, NEW contribution \in Contributions, Propose(w, contribution)
      PROVE  w # u /\ Readable /\ pc[u] = pc'[u]
             /\ seen'[u] = seen[u] /\ left'[u] = left[u] /\ asked'[u] = asked[u]
  BY <1>1, <1>5 DEF Propose
<1>6. ASSUME NEW w \in Writer,
             \/ ReturnHead(w) \/ PushRead(w) \/ ReadFails(w) \/ PushEdges(w) \/ Restart(w)
      PROVE  Readable /\ pc[u] = pc'[u]
             /\ seen'[u] = seen[u] /\ left'[u] = left[u] /\ asked'[u] = asked[u]
  BY <1>1, <1>6 DEF ReturnHead, PushRead, ReadFails, PushEdges, Restart, Finish, Advance,
                    locals, Readable
<1>7. ASSUME NEW w \in Writer, OpenNodes(w) \/ PushNodes(w) \/ OpenEdges(w)
      PROVE  Readable /\ pc[u] \in Materializing
             /\ seen'[u] = seen[u] /\ left'[u] = left[u] /\ asked'[u] = asked[u]
  BY <1>1, <1>7 DEF OpenNodes, PushNodes, OpenEdges, locals, Readable
<1>8. ASSUME NEW w \in Writer, w # u, PushAppend(w)
      PROVE  Readable /\ pc[u] = pc'[u]
             /\ seen'[u] = seen[u] /\ left'[u] = left[u] /\ asked'[u] = asked[u]
  BY <1>1, <1>8 DEF PushAppend, AppendLine, locals, Readable
<1>9. ASSUME NEW w \in Writer, CrashBetween(w) \/ CrashInAppend(w) \/ CrashInMaterialize(w)
      PROVE  Readable /\ pc[u] = pc'[u]
             /\ seen'[u] = seen[u] /\ left'[u] = left[u] /\ asked'[u] = asked[u]
  BY <1>1, <1>9 DEF CrashBetween, CrashInAppend, CrashInMaterialize, Die, Advance, Readable
<1>10. QED  BY <1>2, <1>3, <1>4, <1>5, <1>6, <1>7, <1>8, <1>9 DEF Next

LEMMA CurrentStep ==
  ASSUME CurrentInv, [Next]_vars, Readable'
  PROVE  /\ \/ nodesFile' = nodesFile \/ nodesFile' \in {Empty, Garbled}
            \/ \E view : MapOfALine(view) /\ nodesFile' = view.nodes
         /\ \/ edgesFile' = edgesFile \/ edgesFile' \in {Empty, Garbled}
            \/ \E view : MapOfALine(view) /\ edgesFile' = view.edges
<1>1. CASE UNCHANGED vars
  BY <1>1 DEF vars
<1>2. ASSUME NEW w \in Writer, PushNodes(w) \/ PushEdges(w)
      PROVE  MapOfALine(replay(Seen(w)))
  <2>1. Readable /\ pc[w] \in Materializing
    BY <1>2 DEF PushNodes, PushEdges, Readable
  <2>2. QED  BY <2>1, SeenIsOfALine DEF CurrentInv, MapOfALine
<1>3. ASSUME NEW w \in Writer, PushNodes(w)
      PROVE  nodesFile' \in {replay(Seen(w)).nodes, Garbled} /\ edgesFile' = edgesFile
  BY <1>3 DEF PushNodes, Written
<1>4. ASSUME NEW w \in Writer, PushEdges(w)
      PROVE  edgesFile' \in {replay(Seen(w)).edges, Garbled} /\ nodesFile' = nodesFile
  BY <1>4 DEF PushEdges, Written
<1>5. ASSUME NEW w \in Writer, OpenNodes(w) \/ OpenEdges(w) \/ CrashInMaterialize(w)
      PROVE  /\ nodesFile' \in {nodesFile, Empty, Garbled}
             /\ edgesFile' \in {edgesFile, Empty, Garbled}
  BY <1>5 DEF OpenNodes, OpenEdges, CrashInMaterialize, files
<1>6. ASSUME NEW w \in Writer, NEW contribution \in Contributions, Propose(w, contribution)
      PROVE  UNCHANGED files
  BY <1>6 DEF Propose
<1>7. ASSUME NEW w \in Writer,
             \/ ReturnHead(w) \/ PushRead(w) \/ ReadFails(w) \/ PushAppend(w)
             \/ CrashBetween(w) \/ CrashInAppend(w) \/ Restart(w)
      PROVE  UNCHANGED files
  BY <1>7 DEF ReturnHead, PushRead, ReadFails, PushAppend, CrashBetween, CrashInAppend, Restart
<1>8. QED  BY <1>1, <1>2, <1>3, <1>4, <1>5, <1>6, <1>7 DEF Next, files

LEMMA CurrentInvStep == CurrentInv /\ [Next]_vars => CurrentInv'
<1> SUFFICES ASSUME CurrentInv, [Next]_vars
             PROVE  CurrentInv'
  OBVIOUS
<1>1. LogInv /\ TypeInv /\ CurrentIsOfOneLine
  BY DEF CurrentInv, LogInv
<1>2. LogInv' /\ \A w \in Writer : OnALine(w)'
  BY <1>1, LogInvStep, OnALineStep
<1>3. ASSUME Readable'
      PROVE  /\ nodesFile' \in {Empty, Garbled} \/ \E view : MapOfALine(view)' /\ nodesFile' = view.nodes
             /\ edgesFile' \in {Empty, Garbled} \/ \E view : MapOfALine(view)' /\ edgesFile' = view.edges
  <2>1. Readable
    BY <1>3, StaysReadable
  <2>2. \A view : MapOfALine(view) => MapOfALine(view)'
    BY <1>1, MapOfALineStays
  <2>3. /\ nodesFile \in {Empty, Garbled} \/ \E view : MapOfALine(view) /\ nodesFile = view.nodes
        /\ edgesFile \in {Empty, Garbled} \/ \E view : MapOfALine(view) /\ edgesFile = view.edges
    BY <1>1, <2>1 DEF CurrentIsOfOneLine
  <2>4. /\ \/ nodesFile' = nodesFile \/ nodesFile' \in {Empty, Garbled}
           \/ \E view : MapOfALine(view) /\ nodesFile' = view.nodes
        /\ \/ edgesFile' = edgesFile \/ edgesFile' \in {Empty, Garbled}
           \/ \E view : MapOfALine(view) /\ edgesFile' = view.edges
    BY <1>3, CurrentStep
  <2> HIDE DEF MapOfALine
  <2>5. QED  BY <2>2, <2>3, <2>4, Zenon
<1>4. CurrentIsOfOneLine'
  BY <1>3 DEF CurrentIsOfOneLine
<1>5. QED  BY <1>2, <1>4 DEF CurrentInv

(* Whatever races and crashes there were, each file of current/ that is as  *)
(* one writer wrote it holds the map of one line of the log.                *)
THEOREM CurrentIsAMapOfTheLog == Spec => []CurrentIsOfOneLine
<1>1. Init => CurrentInv
  <2> SUFFICES ASSUME Init
               PROVE  CurrentInv
    OBVIOUS
  <2>1. CurrentIsOfOneLine
    BY DEF Init, CurrentIsOfOneLine, MapOfALine
  <2>2. QED  BY <2>1, LogInvInit DEF Init, CurrentInv, OnALine
<1>2. CurrentInv => CurrentIsOfOneLine
  BY DEF CurrentInv
<1>3. QED  BY <1>1, <1>2, CurrentInvStep, PTL DEF Spec

(* With one writer, a push that runs to its end leaves a store that         *)
(* verify() finds nothing wrong with but a change of an unknown uid, which  *)
(* the gates let pass.                                                      *)
PushVerifies ==
    [][\A w \in Writer :
          (pc[w] = "edgesOpen" /\ pc'[w] # "crashed" /\ pc'[w] # "edgesOpen" /\ Readable)
          => verify(log', nodesFile', edgesFile') \subseteq {"unknown uid"}]_vars

THEOREM SerialPushVerifies ==
  ASSUME \A v, w \in Writer : v = w
  PROVE  Spec => PushVerifies
<1> DEFINE Repairs ==
      \A w \in Writer :
          (pc[w] = "edgesOpen" /\ pc'[w] # "crashed" /\ pc'[w] # "edgesOpen" /\ Readable)
          => nodesFile' = replay(log').nodes /\ edgesFile' = replay(log').edges
    Verifies ==
      \A w \in Writer :
          (pc[w] = "edgesOpen" /\ pc'[w] # "crashed" /\ pc'[w] # "edgesOpen" /\ Readable)
          => verify(log', nodesFile', edgesFile') \subseteq {"unknown uid"}
<1>1. Spec => []SerialChain
  BY SerialLogIsChain
<1>2. Spec => []Rooted
  BY LogIsRooted
<1>3. Spec => [][Repairs]_vars
  BY SerialPushRepairs DEF PushRepairsCurrent
<1>4. SerialChain' /\ Rooted' /\ [Repairs]_vars => [Verifies]_vars
  <2> SUFFICES ASSUME SerialChain', Rooted', Repairs, NEW w \in Writer,
                      pc[w] = "edgesOpen", pc'[w] # "crashed", pc'[w] # "edgesOpen", Readable
               PROVE  verify(log', nodesFile', edgesFile') \subseteq {"unknown uid"}
    OBVIOUS
  <2>1. Recomputes(log')
    BY DEF Rooted, Recomputes
  <2>2. Linked(log') /\ Dense(log')
    BY DEF SerialChain
  <2>3. nodesFile' = replay(log').nodes /\ edgesFile' = replay(log').edges
    OBVIOUS
  <2>4. QED  BY <2>1, <2>2, <2>3 DEF verify
<1>5. QED  BY <1>1, <1>2, <1>3, <1>4, PTL DEF PushVerifies
=============================================================================
