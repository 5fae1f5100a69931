------------------------- MODULE EnumerationProofs -------------------------
(***************************************************************************)
(* The least and the greatest element of a set of naturals, and what       *)
(* Sorted and Kept return.  An argument by induction is made by a smallest *)
(* counterexample, which LeastNumber provides; that Sorted leaves no place *)
(* empty, by counting.                                                     *)
(***************************************************************************)
EXTENDS Enumeration, FiniteSetTheorems, WellFoundedInduction, TLAPS

Below == {p \in Nat \X Nat : p[1] < p[2]}

(* The order of the naturals is well founded, as a relation that is not     *)
(* built with an operator argument.                                         *)
LEMMA BelowWellFounded == IsWellFoundedOn(Below, Nat)
<1>1. OpToRel(<, Nat) = Below  BY DEF OpToRel, Below
<1>2. QED  BY NatLessThanWellFounded, <1>1, Zenon

(* A set of naturals that is not empty has a least element. *)
LEMMA LeastNumber ==
  ASSUME NEW T, T \subseteq Nat, T # {}
  PROVE  \E x \in T : \A y \in T : x <= y
<1>1. PICK x \in T : \A y \in T : ~ (<< y, x >> \in Below)
  BY BelowWellFounded, WFMin, Zenon
<1>2. ASSUME NEW y \in T, ~ (x <= y)  PROVE FALSE
  <2>1. y \in Nat /\ x \in Nat /\ y < x  BY <1>2
  <2>2. << y, x >> \in Below  BY <2>1 DEF Below
  <2>3. QED  BY <1>1, <1>2, <2>2
<1>3. QED  BY <1>2

(* A set of naturals with a bound has a greatest element. *)
LEMMA GreatestNumber ==
  ASSUME NEW T, T \subseteq Nat, T # {}, NEW b \in Nat, \A y \in T : y <= b
  PROVE  \E x \in T : \A y \in T : y <= x
<1> DEFINE U == {u \in Nat : \A y \in T : y <= u}
<1>1. U \subseteq Nat /\ b \in U
  OBVIOUS
<1>2. PICK x \in U : \A u \in U : x <= u
  BY <1>1, LeastNumber, Zenon
<1>3. x \in T
  <2>1. SUFFICES ASSUME x \notin T  PROVE FALSE
    OBVIOUS
  <2>2. PICK y \in T : TRUE
    OBVIOUS
  <2>3. x # 0
    BY <2>1, <2>2, <1>2
  <2>4. x - 1 \in U
    BY <2>1, <2>3, <1>2
  <2>5. QED
    BY <1>2, <2>4
<1>4. QED
  BY <1>2, <1>3
-----------------------------------------------------------------------------
IsRank(rank, S) == /\ \A x \in S : rank[x] \in Nat
                   /\ \A x, y \in S : rank[x] = rank[y] => x = y

(* The number of earlier elements is a place, and orders S as rank does. *)
LEMMA EarlierIsPlace ==
  ASSUME NEW S, IsFiniteSet(S), NEW rank, IsRank(rank, S)
  PROVE  /\ \A x \in S : Earlier(S, rank, x) \in 0 .. Cardinality(S) - 1
         /\ \A x, y \in S : rank[x] < rank[y] => Earlier(S, rank, x) < Earlier(S, rank, y)
<1>1. Cardinality(S) \in Nat
  BY FS_CardinalityType
<1>2. ASSUME NEW x \in S, NEW B, B = {z \in S : rank[z] < rank[x]}
      PROVE  /\ Earlier(S, rank, x) = Cardinality(B) /\ Cardinality(B) \in Nat
             /\ B \cup {x} \in SUBSET S
             /\ IsFiniteSet(B \cup {x})
             /\ Cardinality(B \cup {x}) = Cardinality(B) + 1
             /\ Cardinality(B) + 1 <= Cardinality(S)
  <2>1. B \in SUBSET S /\ x \notin B /\ B \cup {x} \in SUBSET S
    BY <1>2 DEF IsRank
  <2>2. Earlier(S, rank, x) = Cardinality(B)
    BY <1>2 DEF Earlier
  <2>3. IsFiniteSet(B) /\ IsFiniteSet(B \cup {x})
    BY <2>1, FS_Subset
  <2>4. Cardinality(B \cup {x}) = Cardinality(B) + 1 /\ Cardinality(B) \in Nat
    BY <2>1, <2>3, FS_AddElement, FS_CardinalityType
  <2>5. Cardinality(B \cup {x}) <= Cardinality(S)
    BY <2>1, FS_Subset
  <2>6. QED
    BY <2>1, <2>2, <2>3, <2>4, <2>5
<1>3. ASSUME NEW x \in S, NEW y \in S, rank[x] < rank[y]
      PROVE  Earlier(S, rank, x) < Earlier(S, rank, y)
  <2>1. PICK B : B = {z \in S : rank[z] < rank[x]}
    OBVIOUS
  <2>2. PICK C : C = {z \in S : rank[z] < rank[y]}
    OBVIOUS
  <2>3. B \cup {x} \in SUBSET C
    BY <1>3, <2>1, <2>2 DEF IsRank
  <2>4. IsFiniteSet(C)
    BY <2>2, FS_Subset
  <2>5. Cardinality(B \cup {x}) <= Cardinality(C)
    BY <2>3, <2>4, FS_Subset
  <2>6. /\ Earlier(S, rank, x) = Cardinality(B) /\ Cardinality(B) \in Nat
        /\ Cardinality(B \cup {x}) = Cardinality(B) + 1
    BY <1>2, <2>1, Zenon
  <2>7. Earlier(S, rank, y) = Cardinality(C) /\ Cardinality(C) \in Nat
    BY <1>2, <2>2, Zenon
  <2>8. QED
    BY <2>5, <2>6, <2>7
<1>4. ASSUME NEW x \in S  PROVE Earlier(S, rank, x) \in 0 .. Cardinality(S) - 1
  <2>1. PICK B : B = {z \in S : rank[z] < rank[x]}
    OBVIOUS
  <2>2. /\ Earlier(S, rank, x) = Cardinality(B) /\ Cardinality(B) \in Nat
        /\ Cardinality(B) + 1 <= Cardinality(S)
    BY <1>2, <2>1, Zenon
  <2>3. QED
    BY <1>1, <2>2
<1>5. QED
  BY <1>3, <1>4

(* Sorted is S in its order: all of it, and each element once. *)
LEMMA SortedIs ==
  ASSUME NEW S, IsFiniteSet(S), NEW rank, IsRank(rank, S)
  PROVE  /\ Cardinality(S) \in Nat
         /\ Sorted(S, rank) \in [1 .. Cardinality(S) -> S]
         /\ \A x \in S : \E k \in 1 .. Cardinality(S) : Sorted(S, rank)[k] = x
         /\ \A j, k \in 1 .. Cardinality(S) :
               j < k <=> rank[Sorted(S, rank)[j]] < rank[Sorted(S, rank)[k]]
<1> DEFINE n == Cardinality(S)
           c == [x \in S |-> Earlier(S, rank, x)]
           s == Sorted(S, rank)
<1>1. n \in Nat
  BY FS_CardinalityType
<1>2. c \in [S -> 0 .. n - 1]
  BY EarlierIsPlace
<1>3. \A x, y \in S : rank[x] < rank[y] => c[x] < c[y]
  BY EarlierIsPlace
<1>4. s = [k \in 1 .. n |-> CHOOSE x \in S : c[x] = k - 1]
  <2>1. ASSUME NEW k \in 1 .. n
        PROVE  (CHOOSE x \in S : Earlier(S, rank, x) = k - 1) = (CHOOSE x \in S : c[x] = k - 1)
    <3>1. \A x : (x \in S /\ Earlier(S, rank, x) = k - 1) <=> (x \in S /\ c[x] = k - 1)
      OBVIOUS
    <3>2. QED
      BY <3>1
  <2>2. QED
    BY <2>1 DEF Sorted
<1> HIDE DEF n, c, s
<1>5. c \in Injection(S, 0 .. n - 1)
  <2>1. ASSUME NEW x \in S, NEW y \in S, x # y  PROVE c[x] # c[y]
    <3>1. rank[x] \in Nat /\ rank[y] \in Nat /\ rank[x] # rank[y]
      BY <2>1 DEF IsRank
    <3>2. c[x] \in 0 .. n - 1 /\ c[y] \in 0 .. n - 1
      BY <1>2
    <3>3. QED
      BY <1>3, <3>1, <3>2
  <2>2. QED
    BY <1>2, <2>1 DEF Injection, IsInjective
<1>6. IsFiniteSet(0 .. n - 1) /\ Cardinality(0 .. n - 1) = n
  <2>1. 0 \in Int /\ n - 1 \in Int
    BY <1>1
  <2>2. QED
    BY <1>1, <2>1, FS_Interval
<1>7. c \in Surjection(S, 0 .. n - 1)
  BY <1>5, <1>6, FS_Injection DEF n
<1>8. \A m \in 0 .. n - 1 : \E x \in S : c[x] = m
  BY <1>7 DEF Surjection
<1>9. ASSUME NEW k \in 1 .. n  PROVE s[k] \in S /\ c[s[k]] = k - 1
  <2>1. k - 1 \in 0 .. n - 1
    BY <1>1
  <2>2. \E x \in S : c[x] = k - 1
    BY <1>8, <2>1
  <2>3. s[k] = CHOOSE x \in S : c[x] = k - 1
    BY <1>4
  <2>4. QED
    BY <2>2, <2>3
<1>10. \A x, y \in S : c[x] = c[y] => x = y
  BY <1>5 DEF Injection, IsInjective
<1>11. s \in [1 .. n -> S]
  BY <1>4, <1>9
<1>12. ASSUME NEW x \in S  PROVE \E k \in 1 .. n : s[k] = x
  <2>1. c[x] \in 0 .. n - 1
    BY <1>2
  <2>2. c[x] + 1 \in 1 .. n /\ (c[x] + 1) - 1 = c[x]
    BY <1>1, <2>1
  <2>3. s[c[x] + 1] = x
    BY <1>9, <1>10, <2>2
  <2>4. QED
    BY <2>2, <2>3
<1>13. ASSUME NEW j \in 1 .. n, NEW k \in 1 .. n
       PROVE  j < k <=> rank[s[j]] < rank[s[k]]
  <2>1. /\ s[j] \in S /\ c[s[j]] = j - 1
        /\ s[k] \in S /\ c[s[k]] = k - 1
    BY <1>9
  <2>2. rank[s[j]] \in Nat /\ rank[s[k]] \in Nat
    BY <2>1 DEF IsRank
  <2>3. rank[s[j]] < rank[s[k]] => j < k
    <3>1. rank[s[j]] < rank[s[k]] => c[s[j]] < c[s[k]]
      BY <1>3, <2>1, Zenon
    <3>2. QED
      BY <1>1, <2>1, <3>1
  <2>4. rank[s[k]] < rank[s[j]] => k < j
    <3>1. rank[s[k]] < rank[s[j]] => c[s[k]] < c[s[j]]
      BY <1>3, <2>1, Zenon
    <3>2. QED
      BY <1>1, <2>1, <3>1
  <2>5. rank[s[j]] = rank[s[k]] => j = k
    <3>1. rank[s[j]] = rank[s[k]] => s[j] = s[k]
      BY <2>1, Zenon DEF IsRank
    <3>2. s[j] = s[k] => j - 1 = k - 1
      BY <2>1
    <3>3. QED
      BY <1>1, <3>1, <3>2
  <2>6. QED
    BY <1>1, <2>2, <2>3, <2>4, <2>5
<1>14. QED
  BY <1>1, <1>11, <1>12, <1>13 DEF n, s

(* Kept leaves the elements that are in S, in their order. *)
LEMMA KeptIs ==
  ASSUME NEW T, NEW seq \in Seq(T), NEW S
  PROVE  /\ Kept(seq, S) \in Seq(T)
         /\ \A k \in 1 .. Len(Kept(seq, S)) :
               \E i \in 1 .. Len(seq) : Kept(seq, S)[k] = seq[i] /\ seq[i] \in S
         /\ \A i \in 1 .. Len(seq) :
               seq[i] \in S => \E k \in 1 .. Len(Kept(seq, S)) : Kept(seq, S)[k] = seq[i]
         /\ (\A i, j \in 1 .. Len(seq) : seq[i] = seq[j] => i = j)
               => \A k, l \in 1 .. Len(Kept(seq, S)) : Kept(seq, S)[k] = Kept(seq, S)[l] => k = l
<1> DEFINE n == Len(seq)
           places == {i \in 1 .. n : seq[i] \in S}
           own == [i \in places |-> i]
           at == Sorted(places, own)
           m == Cardinality(places)
<1>1. n \in Nat /\ \A i \in 1 .. n : seq[i] \in T
  OBVIOUS
<1>2. places \in SUBSET (1 .. n) /\ IsFiniteSet(1 .. n)
  <2>1. 1 \in Int /\ n \in Int
    BY <1>1
  <2>2. IsFiniteSet(1 .. n)
    BY <2>1, FS_Interval, Zenon
  <2>3. QED
    BY <2>2
<1>3. IsFiniteSet(places) /\ IsRank(own, places)
  <2>1. IsFiniteSet(places)
    BY <1>2, FS_Subset, Zenon
  <2>2. QED
    BY <1>1, <2>1 DEF IsRank
<1>4. Kept(seq, S) = [k \in 1 .. m |-> seq[at[k]]]
  BY Zenon DEF Kept
<1>5. \A i \in places : own[i] = i /\ i \in 1 .. n /\ seq[i] \in S
  OBVIOUS
<1>6. \A i \in 1 .. n : seq[i] \in S => i \in places
  OBVIOUS
<1> HIDE DEF n, places, own, m
<1>7. /\ m \in Nat /\ at \in [1 .. m -> places]
      /\ \A i \in places : \E k \in 1 .. m : at[k] = i
      /\ \A j, k \in 1 .. m : j < k <=> own[at[j]] < own[at[k]]
  BY <1>3, SortedIs DEF m
<1> HIDE DEF at
<1>8. Kept(seq, S) \in Seq(T) /\ Len(Kept(seq, S)) = m
  <2>1. \A k \in 1 .. m : seq[at[k]] \in T
    BY <1>1, <1>5, <1>7
  <2>2. QED
    BY <1>4, <1>7, <2>1
<1>9. \A k \in 1 .. m : Kept(seq, S)[k] = seq[at[k]] /\ at[k] \in 1 .. n /\ seq[at[k]] \in S
  BY <1>4, <1>5, <1>7
<1>10. ASSUME NEW j \in 1 .. m, NEW k \in 1 .. m, at[j] = at[k]  PROVE j = k
  <2>1. own[at[j]] = at[j] /\ own[at[k]] = at[k] /\ at[j] \in 1 .. n
    BY <1>5, <1>7
  <2>2. ~ (j < k) /\ ~ (k < j)
    BY <1>1, <1>7, <1>10, <2>1
  <2>3. QED
    BY <1>7, <2>2
<1>11. \A i \in 1 .. n : seq[i] \in S => \E k \in 1 .. m : Kept(seq, S)[k] = seq[i]
  BY <1>6, <1>7, <1>9
<1>12. \A k \in 1 .. m : \E i \in 1 .. n : Kept(seq, S)[k] = seq[i] /\ seq[i] \in S
  BY <1>9
<1>13. ASSUME \A i, j \in 1 .. n : seq[i] = seq[j] => i = j,
              NEW k \in 1 .. m, NEW l \in 1 .. m, Kept(seq, S)[k] = Kept(seq, S)[l]
       PROVE  k = l
  BY <1>9, <1>10, <1>13
<1>14. QED
  BY <1>8, <1>11, <1>12, <1>13 DEF n

(* A sequence without repetition is as long as the set of its elements. *)
LEMMA DistinctLength ==
  ASSUME NEW S, NEW n \in Nat, NEW seq \in [1 .. n -> S],
         \A x \in S : \E i \in 1 .. n : seq[i] = x,
         \A i, j \in 1 .. n : seq[i] = seq[j] => i = j
  PROVE  IsFiniteSet(S) /\ Cardinality(S) = n
<1>1. seq \in Bijection(1 .. n, S)
  BY DEF Bijection, Injection, Surjection, IsInjective
<1>2. ExistsBijection(1 .. n, S)
  BY <1>1 DEF ExistsBijection
<1>3. IsFiniteSet(1 .. n) /\ Cardinality(1 .. n) = n
  <2>1. 1 \in Int /\ n \in Int
    OBVIOUS
  <2>2. IsFiniteSet(1 .. n) /\ Cardinality(1 .. n) = IF 1 > n THEN 0 ELSE n - 1 + 1
    BY <2>1, FS_Interval, Zenon
  <2>3. QED
    BY <2>2
<1>4. QED
  BY <1>2, <1>3, FS_Bijection
=============================================================================
