---------------------------- MODULE MapContract ----------------------------
(***************************************************************************)
(* What the store promises its readers, without log, versions or files: a  *)
(* map that changes one record at a time.  A contribution is admitted      *)
(* against the map as it then is; its records land in order, interleaved   *)
(* with those of others; and the rest of it may be dropped at any point.   *)
(* The promise is the one of omai/store.py propose() read with its note on *)
(* atomicity: validated in full, landed one record at a time.              *)
(***************************************************************************)
EXTENDS MapGates

CONSTANTS Writer, Contributions, GenesisView

VARIABLES map,      \* the view a reader gets
          asked,    \* the contribution each writer has had admitted
          left      \* the indices of its records that have not landed

cvars == << map, asked, left >>

First(S) == CHOOSE i \in S : \A j \in S : i <= j

Init ==
    /\ map = GenesisView
    /\ asked = [w \in Writer |-> << >>]
    /\ left = [w \in Writer |-> {}]

Admit(w, contribution) ==
    /\ left[w] = {}
    /\ Admissible(contribution, map)
    /\ asked' = [asked EXCEPT ![w] = contribution]
    /\ left' = [left EXCEPT ![w] = DOMAIN contribution \ no_op_indices(contribution, map)]
    /\ UNCHANGED map

(* The next record lands, and the writer goes on or is never heard of again. *)
Land(w) ==
    /\ left[w] # {}
    /\ map' = Apply(map, asked[w][First(left[w])])
    /\ \E rest \in {left[w] \ {First(left[w])}, {}} :
          /\ left' = [left EXCEPT ![w] = rest]
          /\ asked' = [asked EXCEPT ![w] = IF rest = {} THEN << >> ELSE @]

(* Some writers drop what they have not landed. *)
Drop(dropped) ==
    /\ left' = [w \in Writer |-> IF w \in dropped THEN {} ELSE left[w]]
    /\ asked' = [w \in Writer |-> IF w \in dropped THEN << >> ELSE asked[w]]
    /\ UNCHANGED map

Next == \/ \E w \in Writer, contribution \in Contributions : Admit(w, contribution)
        \/ \E w \in Writer : Land(w)
        \/ \E dropped \in SUBSET Writer : Drop(dropped)

Spec == Init /\ [][Next]_cvars
=============================================================================
