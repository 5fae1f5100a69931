---------------------------- MODULE Enumeration ----------------------------
(***************************************************************************)
(* sorted() and the comprehension with a condition, written so that what   *)
(* they return can be proved (the operators of SequencesExt for them rest  *)
(* on SortSeq and SelectSeq, which have no definition in TLA+).            *)
(***************************************************************************)
EXTENDS Naturals, Sequences, FiniteSets

(* How many elements of S come before x. *)
Earlier(S, rank, x) == Cardinality({y \in S : rank[y] < rank[x]})

(* The elements of S by their rank, no two of which are equal. *)
Sorted(S, rank) ==
    [k \in 1 .. Cardinality(S) |-> CHOOSE x \in S : Earlier(S, rank, x) = k - 1]

(* The elements of seq that are in S, in the order they are in. *)
Kept(seq, S) ==
    LET places == {i \in 1 .. Len(seq) : seq[i] \in S}
        at     == Sorted(places, [i \in places |-> i])
    IN  [k \in 1 .. Cardinality(places) |-> seq[at[k]]]
=============================================================================
