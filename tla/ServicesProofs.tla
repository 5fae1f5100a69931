--------------------------- MODULE ServicesProofs ---------------------------
(***************************************************************************)
(* What the parts around the map guarantee, for any number of lanes, mints,  *)
(* processes, addresses, names and snapshots, and any limits:                *)
(*   the learn proxy: nobody is turned away early; and, as long as requests  *)
(*   come one after the other, nobody gets more than the limits;             *)
(*   short links: an issued link keeps its bytes unless its code was         *)
(*   contested, and nobody is turned away early;                             *)
(*   record files: a returned path keeps its record, and a rerun completes   *)
(*   what a death left, unless processes shared the directory;               *)
(*   share links: the index lists the files, and a link opens the selection  *)
(*   it was made for.                                                        *)
(***************************************************************************)
EXTENDS LearnProxy, ShortLinks, RecordFiles, Snapshots, EnumerationProofs, TLAPS

(* The learn proxy. *)

(* What the store holds, and what a request carries on from a read of it,    *)
(* never exceeds what was really served: old values are smaller ones.        *)
NeverTooMuch ==
    /\ \A ip \in Ip : kv[ip] <= served[ip] /\ far[ip] <= served[ip]
    /\ kv["spend"] <= cost /\ far["spend"] <= cost

Earned(r, S, c) ==
    /\ r.pc \in {"budget", "relay"} => r.ipCount <= S[r.ip]
    /\ r.pc = "relay" => r.spent <= c
    /\ r.pc \in Charging => r.ipCount + 1 <= S[r.ip]
    /\ r.pc = "put spend" => r.spent + r.cost <= c
    /\ r.pc = "rate_limit_error" => S[r.ip] >= PerIp
    /\ r.pc = "budget_exhausted" => c >= Budget

AllEarned == \A l \in Lane : Earned(lane[l], served, cost)

ProxyInv == TypeOK /\ NeverTooMuch /\ AllEarned

LanePc == Answered \cup {"count", "budget", "relay"} \cup Charging
LaneType == [pc : LanePc, ip : Ip, ipCount : Nat, spent : Nat, cost : Nat]

LEMMA ReadsAreNumbers ==
  ASSUME TypeOK, NEW key \in Key, NEW v \in Reads(key)
  PROVE  v \in Nat /\ v \in {kv[key], far[key]}
BY DEF TypeOK, Reads

LEMMA AtIsLane ==
  ASSUME NEW pc \in Answered \cup {"count"}, NEW ip \in Ip
  PROVE  At(pc, ip) \in LaneType /\ At(pc, ip).pc = pc /\ At(pc, ip).ip = ip
BY DEF At, LaneType, LanePc

LEMMA TypeStep == TypeOK /\ [Next]_vars => TypeOK'
<1> SUFFICES ASSUME TypeOK, [Next]_vars  PROVE TypeOK'
  OBVIOUS
<1> USE ProxyAssumption
<1>0. lane \in [Lane -> LaneType] /\ kv \in [Key -> Nat] /\ far \in [Key -> Nat]
  BY DEF TypeOK, LaneType, LanePc
<1>1. ASSUME NEW l \in Lane, NEW ip \in Ip, Arrive(l, ip)  PROVE TypeOK'
  <2>1. lane' \in [Lane -> LaneType]
    BY <1>0, <1>1, AtIsLane DEF Arrive
  <2>2. QED  BY <1>1, <2>1 DEF Arrive, Notice, TypeOK, LaneType, LanePc
<1>2. ASSUME NEW l \in Lane, NEW pc \in Answered, Answer(l, pc)
      PROVE  lane' \in [Lane -> LaneType]
  <2>1. lane[l].ip \in Ip
    BY <1>0 DEF LaneType
  <2>2. At(pc, lane[l].ip) \in LaneType
    BY <2>1, AtIsLane
  <2>3. lane' = [lane EXCEPT ![l] = At(pc, lane[l].ip)]
    BY <1>2 DEF Answer
  <2>4. QED  BY <1>0, <2>2, <2>3
<1>3. ASSUME NEW l \in Lane, ReadCount(l)  PROVE TypeOK'
  <2>1. lane[l] \in LaneType /\ lane[l].ip \in Key
    BY <1>0 DEF LaneType, Key
  <2>2. PICK ipCount \in Reads(lane[l].ip) :
           /\ IF ipCount >= PerIp
              THEN Answer(l, "rate_limit_error")
              ELSE lane' = [lane EXCEPT ![l].pc = "budget", ![l].ipCount = ipCount]
           /\ Notice("stale", ipCount # kv[lane[l].ip])
    BY <1>3 DEF ReadCount
  <2>3. ipCount \in Nat
    BY <2>1, ReadsAreNumbers
  <2>4. [lane[l] EXCEPT !.pc = "budget", !.ipCount = ipCount] \in LaneType
    BY <2>1, <2>3 DEF LaneType, LanePc
  <2>5. lane' \in [Lane -> LaneType]
    BY <1>0, <1>2, <2>2, <2>4 DEF Answered
  <2>6. QED  BY <1>3, <2>2, <2>5 DEF ReadCount, Notice, TypeOK, LaneType, LanePc
<1>4. ASSUME NEW l \in Lane, ReadSpend(l)  PROVE TypeOK'
  <2>1. lane[l] \in LaneType /\ "spend" \in Key
    BY <1>0 DEF Key
  <2>2. PICK spent \in Reads("spend") :
           /\ IF spent >= Budget
              THEN Answer(l, "budget_exhausted")
              ELSE lane' = [lane EXCEPT ![l].pc = "relay", ![l].spent = spent]
           /\ Notice("stale", spent # kv["spend"])
    BY <1>4 DEF ReadSpend
  <2>3. spent \in Nat
    BY <2>1, ReadsAreNumbers
  <2>4. [lane[l] EXCEPT !.pc = "relay", !.spent = spent] \in LaneType
    BY <2>1, <2>3 DEF LaneType, LanePc
  <2>5. lane' \in [Lane -> LaneType]
    BY <1>0, <1>2, <2>2, <2>4 DEF Answered
  <2>6. QED  BY <1>4, <2>2, <2>5 DEF ReadSpend, Notice, TypeOK, LaneType, LanePc
<1>5. ASSUME NEW l \in Lane, Relay(l)  PROVE TypeOK'
  <2>1. lane[l] \in LaneType
    BY <1>0
  <2>2. CASE Answer(l, "idle") /\ UNCHANGED << served, cost >>
    <3>1. lane' \in [Lane -> LaneType]
      BY <1>2, <2>2 DEF Answered
    <3>2. QED  BY <1>5, <2>2, <3>1 DEF Relay, TypeOK, LaneType, LanePc
  <2>3. ASSUME NEW c \in 1 .. MaxCost,
               lane' = [lane EXCEPT ![l].pc = "put spend", ![l].cost = c],
               served' = [served EXCEPT ![lane[l].ip] = @ + 1], cost' = cost + c
        PROVE  TypeOK'
    <3>0. c \in Nat
      BY ProxyAssumption
    <3>1. [lane[l] EXCEPT !.pc = "put spend", !.cost = c] \in LaneType
      BY <2>1, <3>0 DEF LaneType, LanePc, Charging
    <3>2. lane' \in [Lane -> LaneType]
      BY <1>0, <2>3, <3>1
    <3>3. served' \in [Ip -> Nat] /\ cost' \in Nat
      <4>1. served \in [Ip -> Nat] /\ cost \in Nat /\ lane[l].ip \in Ip
        BY <2>1 DEF TypeOK, LaneType
      <4>2. cost' = cost + c /\ served' = [served EXCEPT ![lane[l].ip] = @ + 1]
        BY <2>3, Zenon
      <4>3. QED  BY <3>0, <4>1, <4>2
    <3>4. QED  BY <1>5, <3>2, <3>3 DEF Relay, TypeOK, LaneType, LanePc
  <2>4. QED  BY <1>5, <2>2, <2>3 DEF Relay
<1>6. ASSUME NEW l \in Lane, PutSpend(l)  PROVE TypeOK'
  <2>1. lane[l] \in LaneType /\ lane[l].spent + lane[l].cost \in Nat
    BY <1>0 DEF LaneType
  <2>2. [lane[l] EXCEPT !.pc = "put count", !.spent = 0, !.cost = 0] \in LaneType
    BY <2>1 DEF LaneType, LanePc, Charging
  <2>3. lane' \in [Lane -> LaneType] /\ kv' \in [Key -> Nat]
    BY <1>0, <1>6, <2>1, <2>2 DEF PutSpend
  <2>4. QED  BY <1>6, <2>3 DEF PutSpend, TypeOK, LaneType, LanePc
<1>7. ASSUME NEW l \in Lane, PutCount(l)  PROVE TypeOK'
  <2>1. lane[l] \in LaneType /\ lane[l].ipCount + 1 \in Nat
    BY <1>0 DEF LaneType
  <2>2. lane' \in [Lane -> LaneType] /\ kv' \in [Key -> Nat]
    BY <1>0, <1>2, <1>7, <2>1 DEF PutCount, Answered
  <2>3. QED  BY <1>7, <2>2 DEF PutCount, TypeOK, LaneType, LanePc
<1>8. ASSUME NEW l \in Lane, Throw(l)  PROVE TypeOK'
  <2>1. lane' \in [Lane -> LaneType]
    BY <1>2, <1>8 DEF Throw, Answered
  <2>2. QED  BY <1>8, <2>1 DEF Throw, Notice, TypeOK, LaneType, LanePc
<1>9. ASSUME NEW key \in Key, Propagate(key)  PROVE TypeOK'
  BY <1>0, <1>9 DEF Propagate, TypeOK
<1>10. CASE UNCHANGED vars
  BY <1>10 DEF vars, TypeOK
<1>11. QED  BY <1>1, <1>3, <1>4, <1>5, <1>6, <1>7, <1>8, <1>9, <1>10 DEF Next
-----------------------------------------------------------------------------
(* What is served and what it cost only grow, which costs no request what it *)
(* has earned.                                                               *)
LEMMA EarnedStays ==
  ASSUME NEW r \in LaneType, NEW S \in [Ip -> Nat], NEW T \in [Ip -> Nat],
         NEW c \in Nat, NEW d \in Nat, c <= d, \A ip \in Ip : S[ip] <= T[ip],
         Earned(r, S, c)
  PROVE  Earned(r, T, d)
<1>1. /\ r.ip \in Ip /\ r.ipCount \in Nat /\ r.spent \in Nat /\ r.cost \in Nat
      /\ S[r.ip] \in Nat /\ T[r.ip] \in Nat /\ S[r.ip] <= T[r.ip]
  BY DEF LaneType
<1>2. PerIp \in Nat /\ Budget \in Nat
  BY ProxyAssumption
<1>3. ASSUME r.ipCount <= S[r.ip]  PROVE r.ipCount <= T[r.ip]
  BY <1>1, <1>3
<1>4. ASSUME r.ipCount + 1 <= S[r.ip]  PROVE r.ipCount + 1 <= T[r.ip]
  BY <1>1, <1>4
<1>5. ASSUME S[r.ip] >= PerIp  PROVE T[r.ip] >= PerIp
  BY <1>1, <1>2, <1>5
<1>6. ASSUME r.spent <= c  PROVE r.spent <= d
  BY <1>1, <1>6
<1>7. ASSUME r.spent + r.cost <= c  PROVE r.spent + r.cost <= d
  BY <1>1, <1>7
<1>8. ASSUME c >= Budget  PROVE d >= Budget
  BY <1>2, <1>8
<1>9. QED  BY <1>3, <1>4, <1>5, <1>6, <1>7, <1>8, Zenon DEF Earned

(* So it is enough to look at the request that takes the step. *)
LEMMA OneLaneMoves ==
  ASSUME ProxyInv, TypeOK', NEW l \in Lane, NEW r \in LaneType,
         lane' = [lane EXCEPT ![l] = r], Earned(r, served', cost'),
         cost <= cost', \A ip \in Ip : served[ip] <= served'[ip]
  PROVE  AllEarned'
<1>1. SUFFICES ASSUME NEW m \in Lane  PROVE Earned(lane'[m], served', cost')
  BY DEF AllEarned
<1>2. lane \in [Lane -> LaneType]
  BY DEF ProxyInv, TypeOK, LaneType, LanePc
<1>3. CASE m = l
  <2>1. lane'[m] = r
    BY <1>2, <1>3
  <2>2. QED  BY <2>1
<1>4. CASE m # l
  <2>1. lane'[m] = lane[m] /\ lane[m] \in LaneType
    BY <1>2, <1>4
  <2>2. Earned(lane[m], served, cost)
    BY DEF ProxyInv, AllEarned
  <2>3. /\ served \in [Ip -> Nat] /\ cost \in Nat
        /\ served' \in [Ip -> Nat] /\ cost' \in Nat
    BY DEF ProxyInv, TypeOK
  <2>4. Earned(lane[m], served', cost')
    BY <2>1, <2>2, <2>3, EarnedStays
  <2>5. QED  BY <2>1, <2>4
<1>5. QED  BY <1>3, <1>4

LEMMA SafeStep == ProxyInv /\ [Next]_vars => NeverTooMuch' /\ AllEarned'
<1> SUFFICES ASSUME ProxyInv, [Next]_vars  PROVE NeverTooMuch' /\ AllEarned'
  OBVIOUS
<1>1. TypeOK /\ TypeOK'
  BY TypeStep DEF ProxyInv
<1>2. /\ lane \in [Lane -> LaneType] /\ kv \in [Key -> Nat] /\ far \in [Key -> Nat]
      /\ served \in [Ip -> Nat] /\ cost \in Nat
  BY <1>1 DEF TypeOK, LaneType, LanePc
<1>3. /\ \A ip \in Ip : kv[ip] <= served[ip] /\ far[ip] <= served[ip]
      /\ kv["spend"] <= cost /\ far["spend"] <= cost
  BY DEF ProxyInv, NeverTooMuch
<1>4. ASSUME NEW l \in Lane
      PROVE  /\ lane[l] \in LaneType /\ lane[l].ip \in Ip /\ lane[l].ip \in Key
             /\ lane[l].ip # "spend" /\ Earned(lane[l], served, cost)
             /\ lane[l].ipCount \in Nat /\ lane[l].spent \in Nat /\ lane[l].cost \in Nat
  BY <1>2, ProxyAssumption DEF LaneType, Key, ProxyInv, AllEarned
<1>5. ASSUME UNCHANGED << kv, far, served, cost >>  PROVE NeverTooMuch'
  BY <1>3, <1>5 DEF NeverTooMuch
<1>6. ASSUME NEW l \in Lane, NEW r \in LaneType, lane' = [lane EXCEPT ![l] = r],
             UNCHANGED << served, cost >>, Earned(r, served, cost)
      PROVE  AllEarned'
  <2>1. cost <= cost' /\ \A ip \in Ip : served[ip] <= served'[ip]
    BY <1>2, <1>6
  <2>2. QED  BY <1>1, <1>6, <2>1, OneLaneMoves
<1>7. ASSUME NEW l \in Lane, NEW pc \in {"idle"}, Answer(l, pc), UNCHANGED << served, cost >>
      PROVE  AllEarned'
  <2>1. At(pc, lane[l].ip) \in LaneType /\ At(pc, lane[l].ip).pc = "idle"
    BY <1>4, AtIsLane DEF Answered
  <2>2. Earned(At(pc, lane[l].ip), served, cost)
    BY <2>1 DEF Earned, Charging
  <2>3. QED  BY <1>6, <1>7, <2>1, <2>2 DEF Answer
<1>8. ASSUME NEW l \in Lane, NEW ip \in Ip, Arrive(l, ip)  PROVE NeverTooMuch' /\ AllEarned'
  <2>1. At("count", ip) \in LaneType /\ At("count", ip).pc = "count"
    BY AtIsLane
  <2>2. Earned(At("count", ip), served, cost)
    BY <2>1 DEF Earned, Charging
  <2>3. QED  BY <1>5, <1>6, <1>8, <2>1, <2>2 DEF Arrive
<1>9. ASSUME NEW l \in Lane, ReadCount(l)  PROVE NeverTooMuch' /\ AllEarned'
  <2>1. PICK ipCount \in Reads(lane[l].ip) :
           IF ipCount >= PerIp
           THEN Answer(l, "rate_limit_error")
           ELSE lane' = [lane EXCEPT ![l].pc = "budget", ![l].ipCount = ipCount]
    BY <1>9 DEF ReadCount
  <2>2. ipCount \in Nat /\ ipCount <= served[lane[l].ip]
    BY <1>1, <1>3, <1>4, ReadsAreNumbers
  <2>3. CASE ipCount >= PerIp
    <3> DEFINE r == At("rate_limit_error", lane[l].ip)
    <3>1. r \in LaneType /\ r.pc = "rate_limit_error" /\ r.ip = lane[l].ip
      BY <1>4, AtIsLane DEF Answered
    <3>2. served[lane[l].ip] >= PerIp
      BY <1>2, <1>4, <2>2, <2>3, ProxyAssumption
    <3>3. Earned(r, served, cost)
      BY <3>1, <3>2 DEF Earned, Charging
    <3>4. lane' = [lane EXCEPT ![l] = r]
      BY <2>1, <2>3 DEF Answer
    <3> HIDE DEF r
    <3>5. QED  BY <1>5, <1>6, <1>9, <3>1, <3>3, <3>4 DEF ReadCount
  <2>4. CASE ~(ipCount >= PerIp)
    <3> DEFINE r == [lane[l] EXCEPT !.pc = "budget", !.ipCount = ipCount]
    <3>1. /\ r \in LaneType /\ r.pc = "budget" /\ r.ip = lane[l].ip /\ r.ipCount = ipCount
      BY <1>4, <2>2 DEF LaneType, LanePc
    <3>2. Earned(r, served, cost)
      BY <2>2, <3>1 DEF Earned, Charging
    <3>3. lane' = [lane EXCEPT ![l] = r]
      BY <2>1, <2>4
    <3> HIDE DEF r
    <3>4. QED  BY <1>5, <1>6, <1>9, <3>1, <3>2, <3>3 DEF ReadCount
  <2>5. QED  BY <2>3, <2>4
<1>10. ASSUME NEW l \in Lane, ReadSpend(l)  PROVE NeverTooMuch' /\ AllEarned'
  <2>1. PICK spent \in Reads("spend") :
           IF spent >= Budget
           THEN Answer(l, "budget_exhausted")
           ELSE lane' = [lane EXCEPT ![l].pc = "relay", ![l].spent = spent]
    BY <1>10 DEF ReadSpend
  <2>2. spent \in Nat /\ spent <= cost
    BY <1>1, <1>3, ReadsAreNumbers DEF Key
  <2>3. CASE spent >= Budget
    <3> DEFINE r == At("budget_exhausted", lane[l].ip)
    <3>1. r \in LaneType /\ r.pc = "budget_exhausted" /\ r.ip = lane[l].ip
      BY <1>4, AtIsLane DEF Answered
    <3>2. cost >= Budget
      BY <1>2, <2>2, <2>3, ProxyAssumption
    <3>3. Earned(r, served, cost)
      BY <3>1, <3>2 DEF Earned, Charging
    <3>4. lane' = [lane EXCEPT ![l] = r]
      BY <2>1, <2>3 DEF Answer
    <3> HIDE DEF r
    <3>5. QED  BY <1>5, <1>6, <1>10, <3>1, <3>3, <3>4 DEF ReadSpend
  <2>4. CASE ~(spent >= Budget)
    <3> DEFINE r == [lane[l] EXCEPT !.pc = "relay", !.spent = spent]
    <3>1. /\ r \in LaneType /\ r.pc = "relay" /\ r.ip = lane[l].ip
          /\ r.ipCount = lane[l].ipCount /\ r.spent = spent
      BY <1>4, <2>2 DEF LaneType, LanePc
    <3>2. lane[l].ipCount <= served[lane[l].ip]
      BY <1>4, <1>10 DEF ReadSpend, Earned
    <3>3. Earned(r, served, cost)
      BY <2>2, <3>1, <3>2 DEF Earned, Charging
    <3>4. lane' = [lane EXCEPT ![l] = r]
      BY <2>1, <2>4
    <3> HIDE DEF r
    <3>5. QED  BY <1>5, <1>6, <1>10, <3>1, <3>3, <3>4 DEF ReadSpend
  <2>5. QED  BY <2>3, <2>4
<1>11. ASSUME NEW l \in Lane, Relay(l)  PROVE NeverTooMuch' /\ AllEarned'
  <2>1. CASE Answer(l, "idle") /\ UNCHANGED << served, cost >>
    BY <1>5, <1>7, <1>11, <2>1 DEF Relay
  <2>2. ASSUME NEW c \in 1 .. MaxCost,
               lane' = [lane EXCEPT ![l].pc = "put spend", ![l].cost = c],
               served' = [served EXCEPT ![lane[l].ip] = @ + 1], cost' = cost + c
        PROVE  NeverTooMuch' /\ AllEarned'
    <3> DEFINE r == [lane[l] EXCEPT !.pc = "put spend", !.cost = c]
    <3>1. c \in Nat
      BY ProxyAssumption
    <3>2. /\ cost <= cost' /\ \A ip \in Ip : served[ip] <= served'[ip]
          /\ served'[lane[l].ip] = served[lane[l].ip] + 1 /\ cost' = cost + c
      <4>1. cost' = cost + c /\ served' = [served EXCEPT ![lane[l].ip] = @ + 1]
        BY <2>2, Zenon
      <4>2. \A ip \in Ip : served[ip] \in Nat
        BY <1>2
      <4>3. QED  BY <1>2, <1>4, <3>1, <4>1, <4>2
    <3>3. NeverTooMuch'
      <4>1. kv' = kv /\ far' = far
        BY <1>11 DEF Relay
      <4>2. \A k \in Key : kv[k] \in Nat /\ far[k] \in Nat
        BY <1>2
      <4>3. \A ip \in Ip : served[ip] \in Nat /\ served'[ip] \in Nat
        BY <1>1 DEF TypeOK
      <4>4. cost \in Nat /\ cost' \in Nat
        BY <1>1 DEF TypeOK
      <4>5. QED  BY <1>3, <3>2, <4>1, <4>2, <4>3, <4>4 DEF NeverTooMuch, Key
    <3>4. /\ r \in LaneType /\ r.pc = "put spend" /\ r.ip = lane[l].ip
          /\ r.ipCount = lane[l].ipCount /\ r.spent = lane[l].spent /\ r.cost = c
      BY <1>4, <3>1 DEF LaneType, LanePc, Charging
    <3>5. lane[l].ipCount <= served[lane[l].ip] /\ lane[l].spent <= cost
      BY <1>4, <1>11 DEF Relay, Earned
    <3>6. /\ r.ipCount + 1 <= served'[r.ip] /\ r.spent + r.cost <= cost'
      BY <1>2, <1>4, <3>1, <3>2, <3>4, <3>5
    <3>7. Earned(r, served', cost')
      BY <3>4, <3>6 DEF Earned
    <3>8. lane' = [lane EXCEPT ![l] = r]
      BY <2>2
    <3> HIDE DEF r
    <3>9. AllEarned'
      BY <1>1, <3>2, <3>4, <3>7, <3>8, OneLaneMoves
    <3>10. QED  BY <3>3, <3>9
  <2>3. QED  BY <1>11, <2>1, <2>2 DEF Relay
<1>12. ASSUME NEW l \in Lane, PutSpend(l)  PROVE NeverTooMuch' /\ AllEarned'
  <2> DEFINE r == [lane[l] EXCEPT !.pc = "put count", !.spent = 0, !.cost = 0]
  <2>1. /\ r \in LaneType /\ r.pc = "put count" /\ r.ip = lane[l].ip
        /\ r.ipCount = lane[l].ipCount
    BY <1>4 DEF LaneType, LanePc, Charging
  <2>2. lane[l].ipCount + 1 <= served[lane[l].ip] /\ lane[l].spent + lane[l].cost <= cost
    BY <1>4, <1>12 DEF PutSpend, Earned, Charging
  <2>3. Earned(r, served, cost)
    BY <2>1, <2>2 DEF Earned
  <2>4. lane' = [lane EXCEPT ![l] = r]
    BY <1>12 DEF PutSpend
  <2>5. NeverTooMuch'
    <3>1. /\ kv'["spend"] = lane[l].spent + lane[l].cost
          /\ \A ip \in Ip : kv'[ip] = kv[ip]
          /\ UNCHANGED << far, served, cost >>
      BY <1>2, <1>12, ProxyAssumption DEF PutSpend, Key
    <3>2. QED  BY <1>3, <2>2, <3>1 DEF NeverTooMuch
  <2> HIDE DEF r
  <2>6. QED  BY <1>6, <1>12, <2>1, <2>3, <2>4, <2>5 DEF PutSpend
<1>13. ASSUME NEW l \in Lane, PutCount(l)  PROVE NeverTooMuch' /\ AllEarned'
  <2>1. lane[l].ipCount + 1 <= served[lane[l].ip]
    BY <1>4, <1>13 DEF PutCount, Earned, Charging
  <2>2. /\ kv'[lane[l].ip] = lane[l].ipCount + 1
        /\ \A k \in Key \ {lane[l].ip} : kv'[k] = kv[k]
        /\ UNCHANGED << far, served, cost >>
    BY <1>2, <1>4, <1>13 DEF PutCount
  <2>3. NeverTooMuch'
    BY <1>3, <1>4, <2>1, <2>2 DEF NeverTooMuch, Key
  <2>4. QED  BY <1>7, <1>13, <2>3 DEF PutCount
<1>14. ASSUME NEW l \in Lane, Throw(l)  PROVE NeverTooMuch' /\ AllEarned'
  BY <1>5, <1>7, <1>14 DEF Throw
<1>15. ASSUME UNCHANGED << lane, served, cost >>  PROVE AllEarned'
  BY <1>15 DEF ProxyInv, AllEarned
<1>16. ASSUME NEW key \in Key, Propagate(key)  PROVE NeverTooMuch' /\ AllEarned'
  <2>1. \A k \in Key : far'[k] \in {far[k], kv[k]}
    BY <1>2, <1>16 DEF Propagate
  <2>2. UNCHANGED << kv, served, cost, lane >>
    BY <1>16 DEF Propagate
  <2>3. QED  BY <1>3, <1>15, <2>1, <2>2 DEF NeverTooMuch, Key
<1>17. CASE UNCHANGED vars
  BY <1>5, <1>15, <1>17 DEF vars
<1>18. QED
  BY <1>8, <1>9, <1>10, <1>11, <1>12, <1>13, <1>14, <1>16, <1>17 DEF Next

LEMMA ProxyInit == Init => ProxyInv
<1> SUFFICES ASSUME Init  PROVE ProxyInv
  OBVIOUS
<1>1. PICK ip \in Ip : lane = [l \in Lane |-> At("idle", ip)]
  BY DEF Init
<1>2. At("idle", ip) \in LaneType /\ At("idle", ip).pc = "idle"
  BY AtIsLane DEF Answered
<1>3. TypeOK
  BY <1>1, <1>2 DEF Init, TypeOK, LaneType, LanePc
<1>4. NeverTooMuch
  BY DEF Init, NeverTooMuch, Key
<1>5. AllEarned
  BY <1>1, <1>2 DEF AllEarned, Earned, Charging
<1>6. QED  BY <1>3, <1>4, <1>5 DEF ProxyInv

LEMMA ProxyInvHolds == Spec => []ProxyInv
<1>1. ProxyInv /\ [Next]_vars => ProxyInv'
  BY TypeStep, SafeStep DEF ProxyInv
<1>2. QED  BY <1>1, ProxyInit, PTL DEF Spec

(* Every 429 of the proxy is earned by calls that were really served: for    *)
(* any overlap of requests, old values and lost writes.                      *)
THEOREM NobodyIsTurnedAwayEarly == Spec => []DenialIsEarned
<1>1. ProxyInv => DenialIsEarned
  BY DEF ProxyInv, AllEarned, Earned, DenialIsEarned
<1>2. QED  BY <1>1, ProxyInvHolds, PTL
-----------------------------------------------------------------------------
(* When requests come one after the other, are given current values and      *)
(* lose no write, the accounts are exact but for the request being charged.  *)
Settled(K, S, c) == (\A ip \in Ip : K[ip] = S[ip]) /\ K["spend"] = c

Carries(r, K, S, c) ==
    /\ r.pc \notin Charging => Settled(K, S, c)
    /\ r.pc \in {"budget", "relay"} => r.ipCount = S[r.ip] /\ r.ipCount < PerIp
    /\ r.pc = "relay" => r.spent = c /\ r.spent < Budget
    /\ r.pc \in Charging => /\ r.ipCount + 1 = S[r.ip]
                            /\ \A ip \in Ip \ {r.ip} : K[ip] = S[ip]
    /\ r.pc = "put spend" => r.spent + r.cost = c
    /\ r.pc = "put count" => K["spend"] = c

WithinLimits(S, c) == (\A ip \in Ip : S[ip] <= PerIp) /\ c < Budget + MaxCost

OneAtATime == \A l, m \in Lane : lane[l].pc \in Answered \/ lane[m].pc \in Answered \/ l = m

Exact ==
    /\ OneAtATime
    /\ (\A l \in Lane : lane[l].pc \in Answered) => Settled(kv, served, cost)
    /\ \A l \in Lane : lane[l].pc \notin Answered => Carries(lane[l], kv, served, cost)
    /\ WithinLimits(served, cost)

SerialInv == TypeOK /\ (disturbed = {} => Exact)

(* The only request in progress is the one to look at. *)
LEMMA LoneLaneMoves ==
  ASSUME TypeOK, NEW l \in Lane, NEW r \in LaneType, lane' = [lane EXCEPT ![l] = r],
         \A m \in Lane : m # l => lane[m].pc \in Answered,
         r.pc \in Answered => Settled(kv', served', cost'),
         r.pc \notin Answered => Carries(r, kv', served', cost'),
         WithinLimits(served', cost')
  PROVE  Exact'
<1>1. lane \in [Lane -> LaneType]
  BY DEF TypeOK, LaneType, LanePc
<1>2. lane'[l] = r /\ \A m \in Lane : m # l => lane'[m] = lane[m]
  BY <1>1
<1>3. \A m \in Lane : m # l => lane'[m].pc \in Answered
  BY <1>2
<1>4. OneAtATime'
  BY <1>3 DEF OneAtATime, Answered
<1>5. ASSUME \A m \in Lane : lane'[m].pc \in Answered  PROVE Settled(kv', served', cost')
  BY <1>2, <1>5
<1>6. ASSUME NEW m \in Lane, lane'[m].pc \notin Answered
      PROVE  Carries(lane'[m], kv', served', cost')
  <2>1. m = l /\ lane'[m] = r
    BY <1>2, <1>3, <1>6
  <2>2. QED  BY <1>6, <2>1
<1>7. QED  BY <1>4, <1>5, <1>6, Zenon DEF Exact, Answered

LEMMA SerialStep == SerialInv /\ [Next]_vars => SerialInv'
<1> SUFFICES ASSUME SerialInv, [Next]_vars, disturbed' = {}  PROVE Exact'
  BY TypeStep DEF SerialInv
<1>1. TypeOK /\ TypeOK'
  BY TypeStep DEF SerialInv
<1>2. /\ lane \in [Lane -> LaneType] /\ kv \in [Key -> Nat] /\ far \in [Key -> Nat]
      /\ served \in [Ip -> Nat] /\ cost \in Nat
  BY <1>1 DEF TypeOK, LaneType, LanePc
<1>3. disturbed = {}
  BY DEF Next, vars, Arrive, ReadCount, ReadSpend, Relay, PutSpend, PutCount, Throw,
         Propagate, Notice
<1>4. Exact
  BY <1>3 DEF SerialInv
<1>5. ASSUME NEW l \in Lane
      PROVE  /\ lane[l] \in LaneType /\ lane[l].ip \in Ip /\ lane[l].ip \in Key
             /\ lane[l].ip # "spend" /\ "spend" \in Key
             /\ lane[l].ipCount \in Nat /\ lane[l].spent \in Nat /\ lane[l].cost \in Nat
  BY <1>2, ProxyAssumption DEF LaneType, Key
<1>6. WithinLimits(served, cost)
  BY <1>4 DEF Exact
<1>7. ASSUME NEW l \in Lane, lane[l].pc \notin Answered
      PROVE  /\ \A m \in Lane : m # l => lane[m].pc \in Answered
             /\ Carries(lane[l], kv, served, cost)
  BY <1>4, <1>7 DEF Exact, OneAtATime
<1>8. \A pc \in {"count", "budget", "relay", "put spend", "put count"} : pc \notin Answered
  BY DEF Answered
<1>9. ASSUME NEW l \in Lane, Answer(l, "idle"), lane[l].pc \notin Answered,
             Settled(kv', served', cost'), UNCHANGED << served, cost >>
      PROVE  Exact'
  <2>1. At("idle", lane[l].ip) \in LaneType /\ At("idle", lane[l].ip).pc \in Answered
    BY <1>5, AtIsLane DEF Answered
  <2>2. lane' = [lane EXCEPT ![l] = At("idle", lane[l].ip)]
    BY <1>9 DEF Answer
  <2>3. WithinLimits(served', cost')
    BY <1>6, <1>9
  <2>4. QED  BY <1>1, <1>7, <1>9, <2>1, <2>2, <2>3, LoneLaneMoves
<1>10. ASSUME NEW l \in Lane, NEW ip \in Ip, Arrive(l, ip)  PROVE Exact'
  <2>1. \A m \in Lane : lane[m].pc \in Answered
    BY <1>10 DEF Arrive, Notice
  <2>2. Settled(kv, served, cost) /\ UNCHANGED << kv, served, cost >>
    BY <1>4, <1>10, <2>1 DEF Exact, Arrive
  <2>3. At("count", ip) \in LaneType /\ At("count", ip).pc = "count"
    BY AtIsLane
  <2>4. Carries(At("count", ip), kv, served, cost)
    BY <2>2, <2>3 DEF Carries, Charging
  <2>5. lane' = [lane EXCEPT ![l] = At("count", ip)]
    BY <1>10 DEF Arrive
  <2>6. /\ WithinLimits(served', cost') /\ Carries(At("count", ip), kv', served', cost')
        /\ At("count", ip).pc \notin Answered
    BY <1>6, <1>8, <2>2, <2>3, <2>4
  <2>7. QED  BY <1>1, <2>1, <2>3, <2>5, <2>6, LoneLaneMoves
<1>11. ASSUME NEW l \in Lane, ReadCount(l)  PROVE Exact'
  <2>1. /\ lane[l].pc = "count" /\ lane[l].pc \notin Answered
        /\ UNCHANGED << kv, served, cost >>
    BY <1>8, <1>11 DEF ReadCount
  <2>2. /\ Settled(kv, served, cost) /\ \A m \in Lane : m # l => lane[m].pc \in Answered
    BY <1>7, <2>1 DEF Carries, Charging
  <2>3. IF kv[lane[l].ip] >= PerIp
        THEN Answer(l, "rate_limit_error")
        ELSE lane' = [lane EXCEPT ![l].pc = "budget", ![l].ipCount = kv[lane[l].ip]]
    BY <1>11 DEF ReadCount, Notice
  <2>4. kv[lane[l].ip] = served[lane[l].ip] /\ kv[lane[l].ip] \in Nat /\ PerIp \in Nat
    BY <1>2, <1>5, <2>2, ProxyAssumption DEF Settled
  <2>5. WithinLimits(served', cost') /\ Settled(kv', served', cost')
    BY <1>6, <2>1, <2>2
  <2>6. CASE kv[lane[l].ip] >= PerIp
    <3>1. /\ At("rate_limit_error", lane[l].ip) \in LaneType
          /\ At("rate_limit_error", lane[l].ip).pc \in Answered
      BY <1>5, AtIsLane DEF Answered
    <3>2. lane' = [lane EXCEPT ![l] = At("rate_limit_error", lane[l].ip)]
      BY <2>3, <2>6 DEF Answer
    <3>3. QED  BY <1>1, <2>2, <2>5, <3>1, <3>2, LoneLaneMoves
  <2>7. CASE ~(kv[lane[l].ip] >= PerIp)
    <3> DEFINE r == [lane[l] EXCEPT !.pc = "budget", !.ipCount = kv[lane[l].ip]]
    <3>1. /\ r \in LaneType /\ r.pc = "budget" /\ r.ip = lane[l].ip
          /\ r.ipCount = kv[lane[l].ip]
      BY <1>5, <2>4 DEF LaneType, LanePc
    <3>2. kv[lane[l].ip] < PerIp
      BY <2>4, <2>7
    <3>3. Carries(r, kv, served, cost)
      BY <2>2, <2>4, <3>1, <3>2 DEF Carries, Charging
    <3>4. lane' = [lane EXCEPT ![l] = r]
      BY <2>3, <2>7
    <3> HIDE DEF r
    <3>5. r.pc \notin Answered /\ Carries(r, kv', served', cost')
      BY <1>8, <2>1, <3>1, <3>3
    <3>6. QED  BY <1>1, <2>2, <2>5, <3>1, <3>4, <3>5, LoneLaneMoves
  <2>8. QED  BY <2>6, <2>7
<1>12. ASSUME NEW l \in Lane, ReadSpend(l)  PROVE Exact'
  <2>1. /\ lane[l].pc = "budget" /\ lane[l].pc \notin Answered
        /\ UNCHANGED << kv, served, cost >>
    BY <1>8, <1>12 DEF ReadSpend
  <2>2. /\ Settled(kv, served, cost) /\ \A m \in Lane : m # l => lane[m].pc \in Answered
        /\ lane[l].ipCount = served[lane[l].ip] /\ lane[l].ipCount < PerIp
    BY <1>7, <2>1 DEF Carries, Charging
  <2>3. IF kv["spend"] >= Budget
        THEN Answer(l, "budget_exhausted")
        ELSE lane' = [lane EXCEPT ![l].pc = "relay", ![l].spent = kv["spend"]]
    BY <1>12 DEF ReadSpend, Notice
  <2>4. kv["spend"] = cost /\ kv["spend"] \in Nat /\ Budget \in Nat
    BY <1>2, <1>5, <2>2, ProxyAssumption DEF Settled
  <2>5. WithinLimits(served', cost') /\ Settled(kv', served', cost')
    BY <1>6, <2>1, <2>2
  <2>6. CASE kv["spend"] >= Budget
    <3>1. /\ At("budget_exhausted", lane[l].ip) \in LaneType
          /\ At("budget_exhausted", lane[l].ip).pc \in Answered
      BY <1>5, AtIsLane DEF Answered
    <3>2. lane' = [lane EXCEPT ![l] = At("budget_exhausted", lane[l].ip)]
      BY <2>3, <2>6 DEF Answer
    <3>3. QED  BY <1>1, <2>2, <2>5, <3>1, <3>2, LoneLaneMoves
  <2>7. CASE ~(kv["spend"] >= Budget)
    <3> DEFINE r == [lane[l] EXCEPT !.pc = "relay", !.spent = kv["spend"]]
    <3>1. /\ r \in LaneType /\ r.pc = "relay" /\ r.ip = lane[l].ip
          /\ r.ipCount = lane[l].ipCount /\ r.spent = kv["spend"]
      BY <1>5, <2>4 DEF LaneType, LanePc
    <3>2. kv["spend"] < Budget
      BY <2>4, <2>7
    <3>3. Carries(r, kv, served, cost)
      BY <2>2, <2>4, <3>1, <3>2 DEF Carries, Charging
    <3>4. lane' = [lane EXCEPT ![l] = r]
      BY <2>3, <2>7
    <3> HIDE DEF r
    <3>5. r.pc \notin Answered /\ Carries(r, kv', served', cost')
      BY <1>8, <2>1, <3>1, <3>3
    <3>6. QED  BY <1>1, <2>2, <2>5, <3>1, <3>4, <3>5, LoneLaneMoves
  <2>8. QED  BY <2>6, <2>7
<1>13. ASSUME NEW l \in Lane, Relay(l)  PROVE Exact'
  <2>1. lane[l].pc = "relay" /\ lane[l].pc \notin Answered /\ UNCHANGED << kv, far >>
    BY <1>8, <1>13 DEF Relay
  <2>2. /\ Settled(kv, served, cost) /\ \A m \in Lane : m # l => lane[m].pc \in Answered
        /\ lane[l].ipCount = served[lane[l].ip] /\ lane[l].ipCount < PerIp
        /\ lane[l].spent = cost /\ lane[l].spent < Budget
    BY <1>7, <2>1 DEF Carries, Charging
  <2>3. CASE Answer(l, "idle") /\ UNCHANGED << served, cost >>
    BY <1>9, <2>1, <2>2, <2>3
  <2>4. ASSUME NEW c \in 1 .. MaxCost,
               lane' = [lane EXCEPT ![l].pc = "put spend", ![l].cost = c],
               served' = [served EXCEPT ![lane[l].ip] = @ + 1], cost' = cost + c
        PROVE  Exact'
    <3> DEFINE r == [lane[l] EXCEPT !.pc = "put spend", !.cost = c]
    <3>1. c \in Nat /\ c <= MaxCost /\ MaxCost \in Nat /\ Budget \in Nat /\ PerIp \in Nat
      BY ProxyAssumption
    <3>2. cost' = cost + c /\ served' = [served EXCEPT ![lane[l].ip] = @ + 1]
      BY <2>4, Zenon
    <3>3. /\ served'[lane[l].ip] = served[lane[l].ip] + 1
          /\ \A ip \in Ip \ {lane[l].ip} : served'[ip] = served[ip]
      BY <1>2, <1>5, <3>2
    <3>4. /\ r \in LaneType /\ r.pc = "put spend" /\ r.ip = lane[l].ip
          /\ r.ipCount = lane[l].ipCount /\ r.spent = lane[l].spent /\ r.cost = c
      BY <1>5, <3>1 DEF LaneType, LanePc, Charging
    <3>5. lane' = [lane EXCEPT ![l] = r]
      BY <2>4
    <3> HIDE DEF r
    <3>6. /\ r.pc \in Charging /\ r.pc \notin {"budget", "relay", "put count"}
          /\ r.pc \notin Answered
      BY <3>4 DEF Charging, Answered
    <3>7. /\ r.ipCount + 1 = served'[r.ip] /\ r.spent + r.cost = cost'
          /\ \A ip \in Ip \ {r.ip} : kv'[ip] = served'[ip]
      BY <1>2, <1>5, <2>1, <2>2, <3>2, <3>3, <3>4 DEF Settled
    <3>8. Carries(r, kv', served', cost')
      BY <3>4, <3>6, <3>7 DEF Carries
    <3>9. WithinLimits(served', cost')
      <4>1. cost' < Budget + MaxCost
        BY <1>2, <2>2, <3>1, <3>2
      <4>2. ASSUME NEW ip \in Ip  PROVE served'[ip] <= PerIp
        <5>1. CASE ip = lane[l].ip
          BY <1>2, <1>5, <2>2, <3>1, <3>3, <5>1
        <5>2. CASE ip # lane[l].ip
          BY <1>6, <3>3, <5>2 DEF WithinLimits
        <5>3. QED  BY <5>1, <5>2
      <4>3. QED  BY <4>1, <4>2 DEF WithinLimits
    <3>10. QED  BY <1>1, <2>2, <3>4, <3>5, <3>6, <3>8, <3>9, LoneLaneMoves
  <2>5. QED  BY <1>13, <2>3, <2>4 DEF Relay
<1>14. ASSUME NEW l \in Lane, PutSpend(l)  PROVE Exact'
  <2> DEFINE r == [lane[l] EXCEPT !.pc = "put count", !.spent = 0, !.cost = 0]
  <2>1. /\ lane[l].pc = "put spend" /\ lane[l].pc \notin Answered
        /\ UNCHANGED << served, cost >>
    BY <1>8, <1>14 DEF PutSpend
  <2>2. /\ \A m \in Lane : m # l => lane[m].pc \in Answered
        /\ lane[l].ipCount + 1 = served[lane[l].ip] /\ lane[l].spent + lane[l].cost = cost
        /\ \A ip \in Ip \ {lane[l].ip} : kv[ip] = served[ip]
    BY <1>7, <2>1 DEF Carries, Charging
  <2>3. /\ kv'["spend"] = cost /\ \A ip \in Ip : kv'[ip] = kv[ip]
    BY <1>2, <1>5, <1>14, <2>2, ProxyAssumption DEF PutSpend, Key
  <2>4. /\ r \in LaneType /\ r.pc = "put count" /\ r.ip = lane[l].ip
        /\ r.ipCount = lane[l].ipCount
    BY <1>5 DEF LaneType, LanePc, Charging
  <2>5. lane' = [lane EXCEPT ![l] = r]
    BY <1>14 DEF PutSpend
  <2> HIDE DEF r
  <2>6. /\ r.pc \in Charging /\ r.pc \notin {"budget", "relay", "put spend"}
        /\ r.pc \notin Answered
    BY <2>4 DEF Charging, Answered
  <2>7. Carries(r, kv', served', cost')
    BY <2>1, <2>2, <2>3, <2>4, <2>6 DEF Carries
  <2>8. WithinLimits(served', cost')
    BY <1>6, <2>1
  <2>9. QED  BY <1>1, <2>2, <2>4, <2>5, <2>6, <2>7, <2>8, LoneLaneMoves
<1>15. ASSUME NEW l \in Lane, PutCount(l)  PROVE Exact'
  <2>1. /\ lane[l].pc = "put count" /\ lane[l].pc \notin Answered
        /\ UNCHANGED << served, cost >> /\ Answer(l, "idle")
    BY <1>8, <1>15 DEF PutCount
  <2>2. /\ lane[l].ipCount + 1 = served[lane[l].ip] /\ kv["spend"] = cost
        /\ \A ip \in Ip \ {lane[l].ip} : kv[ip] = served[ip]
    BY <1>7, <2>1 DEF Carries, Charging
  <2>3. /\ kv'[lane[l].ip] = lane[l].ipCount + 1
        /\ \A k \in Key \ {lane[l].ip} : kv'[k] = kv[k]
    BY <1>2, <1>5, <1>15 DEF PutCount
  <2>4. Settled(kv', served', cost')
    BY <1>5, <2>1, <2>2, <2>3 DEF Settled, Key
  <2>5. QED  BY <1>9, <2>1, <2>4
<1>16. ASSUME NEW l \in Lane, Throw(l)  PROVE Exact'
  <2>1. /\ lane[l].pc \in {"count", "budget"} /\ Answer(l, "idle")
        /\ UNCHANGED << kv, served, cost >>
    BY <1>16 DEF Throw, Notice
  <2>2. lane[l].pc \notin Answered /\ lane[l].pc \notin Charging
    BY <2>1 DEF Answered, Charging
  <2>3. Settled(kv', served', cost')
    BY <1>7, <2>1, <2>2 DEF Carries
  <2>4. QED  BY <1>9, <2>1, <2>2, <2>3
<1>17. ASSUME UNCHANGED << kv, lane, served, cost >>  PROVE Exact'
  BY <1>4, <1>17 DEF Exact, OneAtATime
<1>18. QED
  BY <1>10, <1>11, <1>12, <1>13, <1>14, <1>15, <1>16, <1>17 DEF Next, vars, Propagate

(* The limits hold for calls that come one after the other, with current     *)
(* reads and writes that succeed: PerIp calls of an address, and a budget    *)
(* passed by less than the cost of one call.                                 *)
THEOREM SerialCallsAreLimited == Spec => []SerialCallsKeepTheLimits
<1>1. Init => SerialInv
  <2> SUFFICES ASSUME Init  PROVE SerialInv
    OBVIOUS
  <2>1. PICK ip \in Ip : lane = [l \in Lane |-> At("idle", ip)]
    BY DEF Init
  <2>2. \A l \in Lane : lane[l].pc \in Answered
    BY <2>1 DEF At, Answered
  <2>3. TypeOK
    BY ProxyInit DEF ProxyInv
  <2>4. Settled(kv, served, cost) /\ WithinLimits(served, cost)
    BY ProxyAssumption DEF Init, Settled, WithinLimits, Key
  <2>5. QED  BY <2>2, <2>3, <2>4 DEF SerialInv, Exact, OneAtATime
<1>2. SerialInv => SerialCallsKeepTheLimits
  BY DEF SerialInv, Exact, WithinLimits, SerialCallsKeepTheLimits
<1>3. QED  BY <1>1, <1>2, SerialStep, PTL DEF Spec
-----------------------------------------------------------------------------
(* Short links. *)

\* What an uncontested code says of the mints that hold or have stored it.
Untouched ==
    \A l \in MintLane : mint[l].pc = "store" =>
        \/ links[mint[l].code] = None
        \/ mint[l].code \in contested
Alone ==
    \A l, m \in MintLane :
        /\ l # m /\ mint[l].pc = "store" /\ mint[m].pc = "store"
        /\ mint[l].code = mint[m].code
        => mint[l].code \in contested
Written ==
    \A l \in MintLane : mint[l].pc = "charge" =>
        \/ links[mint[l].code] = mint[l].body
        \/ mint[l].code \in contested

LinkInv == MintTypeOK /\ Untouched /\ Alone /\ Written /\ IssuedLinksKeep

\* The counter and every copy of it stay behind what was stored.
Behind ==
    /\ \A a \in Address : used[a] <= stored[a] /\ farUsed[a] <= stored[a]
    /\ \A l \in MintLane :
           /\ mint[l].pc \in {"validate", "draw", "store"} =>
                  mint[l].used <= stored[mint[l].ip]
           /\ mint[l].pc = "charge" => mint[l].used + 1 <= stored[mint[l].ip]

LimitInv == MintTypeOK /\ Behind /\ LimitIsEarned

-----------------------------------------------------------------------------
MintRecord ==
    [pc : AnsweredMint \cup {"limit", "validate", "draw", "store", "charge"},
     ip : Address, body : Body, used : Nat, code : Code, attempts : Nat]

\* The two actions that set several fields of a mint, field by field.
LEMMA PostSets ==
    ASSUME MintTypeOK, NEW l \in MintLane, NEW a \in Address, NEW b \in Body, Post(l, a, b)
    PROVE  \E r \in MintRecord :
              /\ mint' = [mint EXCEPT ![l] = r]
              /\ r.pc = "limit" /\ r.ip = a /\ r.body = b
<1>1. mint \in [MintLane -> MintRecord]
  BY DEF MintTypeOK, MintRecord
<1> DEFINE r == [mint[l] EXCEPT !.pc = "limit", !.ip = a, !.body = b, !.attempts = 0]
<1>2. mint[l] \in MintRecord
  BY <1>1
<1>3. r \in MintRecord /\ r.pc = "limit" /\ r.ip = a /\ r.body = b
  BY <1>2 DEF MintRecord
<1>4. mint' = [mint EXCEPT ![l] = r]
  BY <1>1 DEF Post
<1>5. QED
  BY <1>3, <1>4

LEMMA ReadLimitSets ==
    ASSUME MintTypeOK, NEW l \in MintLane, ReadLimit(l)
    PROVE  \E n \in Counter(l), r \in MintRecord :
              /\ mint' = [mint EXCEPT ![l] = r]
              /\ r.pc = IF n >= MINTS_PER_DAY THEN "429" ELSE "validate"
              /\ r.ip = mint[l].ip /\ r.used = n
<1>1. /\ mint \in [MintLane -> MintRecord]
      /\ used \in [Address -> Nat] /\ farUsed \in [Address -> Nat]
  BY DEF MintTypeOK, MintRecord
<1>2. PICK n \in Counter(l) : Told(l, n)
  BY DEF ReadLimit
<1> DEFINE next == IF n >= MINTS_PER_DAY THEN "429" ELSE "validate"
           r    == [mint[l] EXCEPT !.pc = next, !.used = n]
<1>3. mint[l] \in MintRecord /\ n \in Nat
  BY <1>1 DEF MintRecord, Counter
<1>4. next \in {"429", "validate"}
  OBVIOUS
<1>5. mint' = [mint EXCEPT ![l].pc = next, ![l].used = n]
  BY <1>2 DEF Told
<1> HIDE DEF next
<1>6. r \in MintRecord /\ r.pc = next /\ r.ip = mint[l].ip /\ r.used = n
  BY <1>3, <1>4 DEF MintRecord, AnsweredMint
<1>7. mint' = [mint EXCEPT ![l] = r]
  BY <1>1, <1>5
<1>8. QED
  BY <1>6, <1>7 DEF next

LEMMA MintTypesInit == MintInit => MintTypeOK
  BY MintAssumption DEF MintInit, MintTypeOK, AnsweredMint

LEMMA MintTypesNext == MintTypeOK /\ [MintNext]_mvars => MintTypeOK'
<1> SUFFICES ASSUME MintTypeOK, [MintNext]_mvars
             PROVE  MintTypeOK'
  OBVIOUS
<1> USE MintAssumption DEF MintTypeOK, AnsweredMint
<1>1. ASSUME NEW l \in MintLane, NEW a \in Address, NEW b \in Body, Post(l, a, b)
      PROVE  MintTypeOK'
  <2>1. PICK r \in MintRecord : /\ mint' = [mint EXCEPT ![l] = r]
                                /\ r.pc = "limit" /\ r.ip = a /\ r.body = b
    BY <1>1, PostSets
  <2>2. mints' = mints + 1 /\ UNCHANGED << links, farLinks, used, farUsed, stored, issued, contested >>
    BY <1>1 DEF Post
  <2>3. QED
    BY <2>1, <2>2 DEF MintRecord
<1>2. ASSUME NEW l \in MintLane, ReadLimit(l)  PROVE MintTypeOK'
  <2>1. PICK n \in Counter(l), r \in MintRecord :
           /\ mint' = [mint EXCEPT ![l] = r]
           /\ r.pc = IF n >= MINTS_PER_DAY THEN "429" ELSE "validate"
           /\ r.ip = mint[l].ip /\ r.used = n
    BY <1>2, ReadLimitSets
  <2>2. UNCHANGED << links, farLinks, used, farUsed, stored, issued, contested, mints >>
    BY <1>2 DEF ReadLimit
  <2>3. QED
    BY <2>1, <2>2 DEF MintRecord
<1>3. ASSUME NEW l \in MintLane, Validate(l)  PROVE MintTypeOK'
  BY <1>3 DEF Validate
<1>4. ASSUME NEW l \in MintLane, NoCode(l)  PROVE MintTypeOK'
  BY <1>4 DEF NoCode, Finish
<1>5. ASSUME NEW l \in MintLane, Store(l)  PROVE MintTypeOK'
  BY <1>5 DEF Store
<1>6. ASSUME NEW l \in MintLane, Charge(l)  PROVE MintTypeOK'
  BY <1>6 DEF Charge, Finish
<1>7. ASSUME NEW l \in MintLane, Fail(l)  PROVE MintTypeOK'
  BY <1>7 DEF Fail, Finish
<1>8. ASSUME NEW l \in MintLane, NEW c \in Code, Draw(l, c)  PROVE MintTypeOK'
  <2>1. /\ contested' \in {contested, contested \cup {c}}
        /\ UNCHANGED << links, farLinks, used, farUsed, stored, issued, mints >>
    BY <1>8 DEF Draw
  <2>2. CASE mint' = [mint EXCEPT ![l].pc = "store", ![l].code = c]
    BY <1>8, <2>1, <2>2 DEF Draw
  <2>3. CASE mint' = [mint EXCEPT ![l].attempts = @ + 1]
    BY <1>8, <2>1, <2>3 DEF Draw
  <2>4. QED
    BY <1>8, <2>2, <2>3 DEF Draw
<1>9. ASSUME NEW c \in Code, CatchUp(c)  PROVE MintTypeOK'
  BY <1>9 DEF CatchUp
<1>10. CASE UNCHANGED mvars
  BY <1>10 DEF mvars
<1>11. ASSUME NEW a \in Address, CatchUpCounter(a)  PROVE MintTypeOK'
  BY <1>11 DEF CatchUpCounter
<1>12. QED
  BY <1>1, <1>2, <1>3, <1>4, <1>5, <1>6, <1>7, <1>8, <1>9, <1>10, <1>11 DEF MintNext

-----------------------------------------------------------------------------
LEMMA LinkInvInit == MintInit => LinkInv
  BY MintTypesInit DEF MintInit, LinkInv, Untouched, Alone, Written, IssuedLinksKeep

(* One step: only Draw takes a code, and it takes it untouched and alone or  *)
(* contested; only Store writes, where nobody else's link can be.            *)
LEMMA LinkInvNext == LinkInv /\ [MintNext]_mvars => LinkInv'
<1> SUFFICES ASSUME LinkInv, [MintNext]_mvars
             PROVE  LinkInv'
  OBVIOUS
<1>0. MintTypeOK'
  BY MintTypesNext DEF LinkInv
<1> USE MintAssumption DEF LinkInv, MintTypeOK, Untouched, Alone, Written, IssuedLinksKeep
<1>1. ASSUME NEW l \in MintLane, NEW a \in Address, NEW b \in Body, Post(l, a, b)
      PROVE  LinkInv'
  <2>1. PICK r \in MintRecord : /\ mint' = [mint EXCEPT ![l] = r]
                                /\ r.pc = "limit" /\ r.ip = a /\ r.body = b
    BY <1>1, PostSets
  <2>2. mints' = mints + 1 /\ UNCHANGED << links, farLinks, used, farUsed, stored, issued, contested >>
    BY <1>1 DEF Post
  <2>3. QED
    BY <1>0, <2>1, <2>2 DEF MintRecord
<1>2. ASSUME NEW l \in MintLane, ReadLimit(l)  PROVE LinkInv'
  <2>1. PICK n \in Counter(l), r \in MintRecord :
           /\ mint' = [mint EXCEPT ![l] = r]
           /\ r.pc = IF n >= MINTS_PER_DAY THEN "429" ELSE "validate"
           /\ r.ip = mint[l].ip /\ r.used = n
    BY <1>2, ReadLimitSets
  <2>2. UNCHANGED << links, farLinks, used, farUsed, stored, issued, contested, mints >>
    BY <1>2 DEF ReadLimit
  <2>3. QED
    BY <1>0, <2>1, <2>2 DEF MintRecord
<1>3. ASSUME NEW l \in MintLane, Validate(l)  PROVE LinkInv'
  <2>1. PICK pc \in {"draw", "idle"} : mint' = [mint EXCEPT ![l].pc = pc]
    BY <1>3 DEF Validate
  <2>2. UNCHANGED << links, issued, contested >>
    BY <1>3 DEF Validate
  <2>3. QED
    BY <1>0, <2>1, <2>2
<1>4. ASSUME NEW l \in MintLane, NoCode(l)  PROVE LinkInv'
  BY <1>0, <1>4 DEF NoCode, Finish
<1>5. ASSUME NEW l \in MintLane, Store(l)  PROVE LinkInv'
  <2>1. /\ links' = [links EXCEPT ![mint[l].code] = mint[l].body]
        /\ mint' = [mint EXCEPT ![l].pc = "charge"]
        /\ UNCHANGED << issued, contested >>
    BY <1>5 DEF Store
  <2>2. mint[l].pc = "store" /\ mint[l].code \in Code /\ mint[l].body \in Body
    BY <1>5 DEF Store
  <2>3. Untouched'
    BY <2>1, <2>2
  <2>4. Alone'
    BY <2>1, <2>2
  <2>5. Written'
    BY <2>1, <2>2
  <2>6. IssuedLinksKeep'
    BY <2>1, <2>2
  <2>7. QED
    BY <1>0, <2>3, <2>4, <2>5, <2>6
<1>6. ASSUME NEW l \in MintLane, Charge(l)  PROVE LinkInv'
  BY <1>0, <1>6 DEF Charge, Finish
<1>7. ASSUME NEW l \in MintLane, Fail(l)  PROVE LinkInv'
  BY <1>0, <1>7 DEF Fail, Finish
<1>8. ASSUME NEW l \in MintLane, NEW c \in Code, Draw(l, c)  PROVE LinkInv'
  <2>1. CASE /\ mint' = [mint EXCEPT ![l].pc = "store", ![l].code = c]
             /\ contested' = IF links[c] # None \/ \E m \in MintLane \ {l} : Holds(m, c)
                             THEN contested \cup {c} ELSE contested
    <3>1. UNCHANGED << links, issued >> /\ contested \subseteq contested'
      BY <1>8, <2>1 DEF Draw
    <3>2. Untouched'
      BY <2>1, <3>1
    <3>3. Alone'
      BY <2>1, <3>1 DEF Holds
    <3>4. Written'
      BY <2>1, <3>1
    <3>5. IssuedLinksKeep'
      BY <3>1
    <3>6. QED
      BY <1>0, <3>2, <3>3, <3>4, <3>5
  <2>2. CASE mint' = [mint EXCEPT ![l].attempts = @ + 1] /\ UNCHANGED contested
    BY <1>0, <1>8, <2>2 DEF Draw
  <2>3. QED
    BY <1>8, <2>1, <2>2 DEF Draw
<1>9. ASSUME NEW c \in Code, CatchUp(c)  PROVE LinkInv'
  BY <1>0, <1>9 DEF CatchUp
<1>10. CASE UNCHANGED mvars
  BY <1>0, <1>10 DEF mvars
<1>11. ASSUME NEW a \in Address, CatchUpCounter(a)  PROVE LinkInv'
  BY <1>0, <1>11 DEF CatchUpCounter
<1>12. QED
  BY <1>1, <1>2, <1>3, <1>4, <1>5, <1>6, <1>7, <1>8, <1>9, <1>10, <1>11 DEF MintNext

(* A link that was handed out keeps its bytes, unless two mints held its     *)
(* code at once or a lookup did not see it yet (POST /s, the lookup of a     *)
(* candidate code before the put).                                           *)
THEOREM LinksKeepTheirBytes ==
    MintSpec => []IssuedLinksKeep
<1>1. MintInit => LinkInv
  BY LinkInvInit
<1>2. LinkInv /\ [MintNext]_mvars => LinkInv'
  BY LinkInvNext
<1>3. LinkInv => IssuedLinksKeep
  BY DEF LinkInv
<1>4. QED
  BY <1>1, <1>2, <1>3, PTL DEF MintSpec

-----------------------------------------------------------------------------
LEMMA LimitInvInit == MintInit => LimitInv
  BY MintTypesInit, MintAssumption DEF MintInit, LimitInv, Behind, LimitIsEarned

LEMMA LimitInvNext == LimitInv /\ [MintNext]_mvars => LimitInv'
<1> SUFFICES ASSUME LimitInv, [MintNext]_mvars
             PROVE  LimitInv'
  OBVIOUS
<1>0. MintTypeOK'
  BY MintTypesNext DEF LimitInv
<1> USE MintAssumption DEF LimitInv, MintTypeOK, Behind, LimitIsEarned, AnsweredMint
<1>1. ASSUME NEW l \in MintLane, NEW a \in Address, NEW b \in Body, Post(l, a, b)
      PROVE  LimitInv'
  <2>1. PICK r \in MintRecord : /\ mint' = [mint EXCEPT ![l] = r]
                                /\ r.pc = "limit" /\ r.ip = a /\ r.body = b
    BY <1>1, PostSets
  <2>2. mints' = mints + 1 /\ UNCHANGED << links, farLinks, used, farUsed, stored, issued, contested >>
    BY <1>1 DEF Post
  <2>3. QED
    BY <1>0, <2>1, <2>2 DEF MintRecord
<1>2. ASSUME NEW l \in MintLane, ReadLimit(l)  PROVE LimitInv'
  <2>1. PICK n \in Counter(l), r \in MintRecord :
           /\ mint' = [mint EXCEPT ![l] = r]
           /\ r.pc = IF n >= MINTS_PER_DAY THEN "429" ELSE "validate"
           /\ r.ip = mint[l].ip /\ r.used = n
    BY <1>2, ReadLimitSets
  <2>2. UNCHANGED << links, farLinks, used, farUsed, stored, issued, contested, mints >>
    BY <1>2 DEF ReadLimit
  <2>3. n \in Nat /\ n <= stored[mint[l].ip]
    BY DEF Counter
  <2>4. QED
    BY <1>0, <2>1, <2>2, <2>3 DEF MintRecord
<1>3. ASSUME NEW l \in MintLane, Validate(l)  PROVE LimitInv'
  BY <1>0, <1>3 DEF Validate
<1>4. ASSUME NEW l \in MintLane, NoCode(l)  PROVE LimitInv'
  BY <1>0, <1>4 DEF NoCode, Finish
<1>5. ASSUME NEW l \in MintLane, Store(l)  PROVE LimitInv'
  BY <1>0, <1>5 DEF Store
<1>6. ASSUME NEW l \in MintLane, Charge(l)  PROVE LimitInv'
  BY <1>0, <1>6 DEF Charge, Finish
<1>7. ASSUME NEW l \in MintLane, Fail(l)  PROVE LimitInv'
  BY <1>0, <1>7 DEF Fail, Finish
<1>8. ASSUME NEW l \in MintLane, NEW c \in Code, Draw(l, c)  PROVE LimitInv'
  <2>1. /\ contested' \in {contested, contested \cup {c}}
        /\ UNCHANGED << links, farLinks, used, farUsed, stored, issued, mints >>
    BY <1>8 DEF Draw
  <2>2. CASE mint' = [mint EXCEPT ![l].pc = "store", ![l].code = c]
    BY <1>0, <1>8, <2>1, <2>2 DEF Draw
  <2>3. CASE mint' = [mint EXCEPT ![l].attempts = @ + 1]
    BY <1>0, <1>8, <2>1, <2>3 DEF Draw
  <2>4. QED
    BY <1>8, <2>2, <2>3 DEF Draw
<1>9. ASSUME NEW c \in Code, CatchUp(c)  PROVE LimitInv'
  BY <1>0, <1>9 DEF CatchUp
<1>10. CASE UNCHANGED mvars
  BY <1>0, <1>10 DEF mvars
<1>11. ASSUME NEW a \in Address, CatchUpCounter(a)  PROVE LimitInv'
  BY <1>0, <1>11 DEF CatchUpCounter
<1>12. QED
  BY <1>1, <1>2, <1>3, <1>4, <1>5, <1>6, <1>7, <1>8, <1>9, <1>10, <1>11 DEF MintNext

(* A mint is refused with 429 only to an address that really stored a day's  *)
(* worth of links, whatever mints overlapped and whatever the store lost.    *)
THEOREM MintLimitIsEarned ==
    MintSpec => []LimitIsEarned
<1>1. MintInit => LimitInv
  BY LimitInvInit
<1>2. LimitInv /\ [MintNext]_mvars => LimitInv'
  BY LimitInvNext
<1>3. LimitInv => LimitIsEarned
  BY DEF LimitInv
<1>4. QED
  BY <1>1, <1>2, <1>3, PTL DEF MintSpec
-----------------------------------------------------------------------------
(* Record files. *)

(* The names in use are the first ones, and a process has found every name   *)
(* before the one it tries taken.                                            *)
Names == DOMAIN dir
FileTypes ==
    /\ \E k \in Nat : dir \in [1 .. k -> Content \cup {Torn}]
    /\ proc \in [Process -> [pc : {"idle", "probe", "open", "write"},
                             todo : Seq(Claim), n : Nat \ {0}]]
    /\ job \in [Process -> Jobs \cup {<< >>}]
    /\ kept \subseteq [n : Nat, content : Content]
    /\ shared \in BOOLEAN /\ dead \subseteq Content
    /\ \A p \in Process : 1 .. proc[p].n - 1 \subseteq Names

(* A process at a file is at one for a claim that clears the bar; it and its *)
(* files come from its proposal.                                             *)
FromJobs ==
    /\ \A p \in Process : proc[p].pc \in {"open", "write"} =>
           proc[p].todo # << >> /\ Clears(Head(proc[p].todo))
    /\ \A p \in Process : proc[p].pc = "idle" => proc[p].todo = << >>
    /\ \A p \in Process : Contents(proc[p].todo) \subseteq Contents(job[p])
    /\ \A n \in Names : dir[n] = Torn \/ \E claims \in Jobs : dir[n] \in Contents(claims)

(* What holds as long as no two processes were at work at once. *)
OneBusy == \A p, q \in Process : Busy(p) /\ Busy(q) => p = q
FilesOnce == \A m, n \in Names : m # n /\ dir[m] = dir[n] => dir[m] = Torn
Passed(p) == Busy(p) /\ proc[p].todo # << >> => \A m \in 1 .. proc[p].n - 1 : dir[m] # Wanted(p)
Opens(p) == proc[p].pc = "open" => Text(proc[p].n) \in {Absent, Wanted(p)}
Writes(p) == proc[p].pc = "write" =>
    /\ Text(proc[p].n) = Torn
    /\ \A m \in Names : dir[m] # Wanted(p)
    /\ \A k \in kept : k.n = proc[p].n => k.content = Wanted(p)
Keeps == \A k \in kept : \/ Text(k.n) = k.content
                         \/ Text(k.n) = Torn /\ (Writing(k.n) \/ k.content \in dead)
Completes(p) == \A c \in Contents(job[p]) :
    c \in Contents(proc[p].todo) \/ \E n \in Names : dir[n] = c
Forgotten == \A p, q \in Process : Busy(p) /\ p # q => job[q] = << >>
SerialFiles == /\ OneBusy /\ FilesOnce /\ Keeps /\ Forgotten
               /\ \A p \in Process : Passed(p) /\ Opens(p) /\ Writes(p) /\ Completes(p)

FileInv == FileTypes /\ FromJobs /\ (~shared => SerialFiles)
-----------------------------------------------------------------------------
LEMMA ClaimsLeft ==
    ASSUME NEW todo \in Seq(Claim), todo # << >>
    PROVE  /\ Head(todo) \in Claim /\ Tail(todo) \in Seq(Claim)
           /\ Contents(Tail(todo)) \subseteq Contents(todo)
           /\ Contents(todo) \subseteq Contents(Tail(todo)) \cup {Head(todo).content}
           /\ ~Clears(Head(todo)) => Contents(todo) = Contents(Tail(todo))
           /\ Clears(Head(todo)) => Head(todo).content \in Contents(todo)
<1>1. /\ Len(todo) \in Nat /\ Len(todo) # 0
      /\ Tail(todo) \in Seq(Claim) /\ Len(Tail(todo)) = Len(todo) - 1
      /\ Head(todo) = todo[1] /\ Head(todo) \in Claim
      /\ \A i \in 1 .. Len(todo) - 1 : Tail(todo)[i] = todo[i + 1]
  OBVIOUS
<1>2. /\ DOMAIN todo = 1 .. Len(todo)
      /\ DOMAIN Tail(todo) = 1 .. Len(todo) - 1
  BY <1>1
<1>3. Head(todo).content \in Content
  BY <1>1 DEF Claim
<1>4. ASSUME NEW c \in Contents(Tail(todo))  PROVE c \in Contents(todo)
  <2>1. PICK i \in DOMAIN Tail(todo) : Clears(Tail(todo)[i]) /\ Tail(todo)[i].content = c
    BY <1>4 DEF Contents
  <2>2. i + 1 \in DOMAIN todo /\ todo[i + 1] = Tail(todo)[i]
    BY <1>1, <1>2
  <2>3. QED
    BY <2>1, <2>2, <1>4 DEF Contents
<1>5. ASSUME NEW c \in Contents(todo)
      PROVE  c \in Contents(Tail(todo)) \/ (Clears(Head(todo)) /\ c = Head(todo).content)
  <2>1. PICK i \in DOMAIN todo : Clears(todo[i]) /\ todo[i].content = c
    BY <1>5 DEF Contents
  <2>2. CASE i = 1
    BY <2>1, <2>2, <1>1
  <2>3. CASE i # 1
    <3>1. i - 1 \in DOMAIN Tail(todo) /\ Tail(todo)[i - 1] = todo[i]
      BY <2>3, <1>1, <1>2
    <3>2. Clears(Tail(todo)[i - 1]) /\ Tail(todo)[i - 1].content = c
      BY <2>1, <3>1, Zenon
    <3>3. c \in Content
      BY <1>5 DEF Contents
    <3>4. \E j \in DOMAIN Tail(todo) : Clears(Tail(todo)[j]) /\ Tail(todo)[j].content = c
      BY <3>1, <3>2, Zenon
    <3>5. QED
      BY <3>3, <3>4 DEF Contents
  <2>4. QED
    BY <2>2, <2>3
<1>6. Clears(Head(todo)) => Head(todo).content \in Contents(todo)
  <2>1. 1 \in DOMAIN todo
    BY <1>1, <1>2
  <2>2. QED
    BY <2>1, <1>1, <1>3 DEF Contents
<1>7. QED
  BY <1>1, <1>4, <1>5, <1>6

\* What a process records, when it is at a claim that clears the bar.
LEMMA WantedIsContent ==
    ASSUME FileTypes, NEW p \in Process, proc[p].todo # << >>
    PROVE  Wanted(p) \in Content
<1>1. proc[p].todo \in Seq(Claim)
  BY DEF FileTypes
<1>2. QED
  BY <1>1, ClaimsLeft DEF Wanted, Claim

LEMMA FileInvInit == RecordInit => FileInv
<1> SUFFICES ASSUME RecordInit  PROVE FileInv
  OBVIOUS
<1>1. << >> \in [1 .. 0 -> Content \cup {Torn}] /\ << >> \in Seq(Claim)
  OBVIOUS
<1>2. Contents(<< >>) = {}
  BY DEF Contents
<1>3. \A p \in Process : proc[p] = [pc |-> "idle", todo |-> << >>, n |-> 1] /\ job[p] = << >>
  BY DEF RecordInit
<1>4. FileTypes
  <2>1. 0 \in Nat /\ dir \in [1 .. 0 -> Content \cup {Torn}]
    BY <1>1 DEF RecordInit
  <2>2. \E k \in Nat : dir \in [1 .. k -> Content \cup {Torn}]
    BY <2>1
  <2>3. proc \in [Process -> [pc : {"idle", "probe", "open", "write"},
                              todo : Seq(Claim), n : Nat \ {0}]]
    BY <1>1 DEF RecordInit
  <2>4. \A p \in Process : 1 .. proc[p].n - 1 \subseteq Names
    <3>1. SUFFICES ASSUME NEW p \in Process  PROVE 1 .. proc[p].n - 1 = {}
      OBVIOUS
    <3>2. proc[p].n = 1
      BY <1>3
    <3>3. QED
      BY <3>2
  <2>5. QED
    BY <2>2, <2>3, <2>4 DEF RecordInit, FileTypes
<1>5. FromJobs
  BY <1>2, <1>3 DEF RecordInit, FromJobs, Names
<1>6. SerialFiles
  BY <1>2, <1>3 DEF RecordInit, SerialFiles, OneBusy, FilesOnce, Keeps, Passed, Opens, Writes,
                    Completes, Forgotten, Names, Busy
<1>7. QED
  BY <1>4, <1>5, <1>6 DEF FileInv

ProcType == [pc : {"idle", "probe", "open", "write"}, todo : Seq(Claim), n : Nat \ {0}]

\* What a step of one process does to the processes, field by field.
Step(p, pc, todo, n) ==
    /\ proc'[p].pc = pc /\ proc'[p].todo = todo /\ proc'[p].n = n
    /\ \A q \in Process : q # p => proc'[q] = proc[q]
    /\ proc' \in [Process -> ProcType]

LEMMA SetProc ==
    ASSUME FileTypes, NEW p \in Process, NEW pc \in {"idle", "probe", "open", "write"},
           NEW todo \in Seq(Claim), NEW n \in Nat \ {0},
           proc' = [proc EXCEPT ![p] = [pc |-> pc, todo |-> todo, n |-> n]]
    PROVE  Step(p, pc, todo, n)
<1>1. proc \in [Process -> ProcType]
  BY DEF FileTypes, ProcType
<1>2. [pc |-> pc, todo |-> todo, n |-> n] \in ProcType
  BY DEF ProcType
<1>3. QED
  BY <1>1, <1>2 DEF Step

LEMMA SetPc ==
    ASSUME FileTypes, NEW p \in Process, NEW pc \in {"idle", "probe", "open", "write"},
           proc' = [proc EXCEPT ![p].pc = pc]
    PROVE  Step(p, pc, proc[p].todo, proc[p].n)
<1>1. proc \in [Process -> ProcType]
  BY DEF FileTypes, ProcType
<1>2. proc[p] \in ProcType
  BY <1>1
<1>3. [proc[p] EXCEPT !.pc = pc] = [pc |-> pc, todo |-> proc[p].todo, n |-> proc[p].n]
  BY <1>2 DEF ProcType
<1>4. proc' = [proc EXCEPT ![p] = [pc |-> pc, todo |-> proc[p].todo, n |-> proc[p].n]]
  BY <1>1, <1>3
<1>5. proc[p].todo \in Seq(Claim) /\ proc[p].n \in Nat \ {0}
  BY <1>2 DEF ProcType
<1>6. QED
  BY <1>4, <1>5, SetProc

LEMMA SetN ==
    ASSUME FileTypes, NEW p \in Process, proc' = [proc EXCEPT ![p].n = @ + 1]
    PROVE  Step(p, proc[p].pc, proc[p].todo, proc[p].n + 1)
<1>1. proc \in [Process -> ProcType]
  BY DEF FileTypes, ProcType
<1>2. proc[p] \in ProcType
  BY <1>1
<1> DEFINE n == proc[p].n + 1
<1>3. [proc[p] EXCEPT !.n = n] = [pc |-> proc[p].pc, todo |-> proc[p].todo, n |-> n]
  BY <1>2 DEF ProcType
<1>4. proc' = [proc EXCEPT ![p] = [pc |-> proc[p].pc, todo |-> proc[p].todo, n |-> n]]
  BY <1>1, <1>3
<1>5. /\ proc[p].todo \in Seq(Claim) /\ n \in Nat \ {0}
      /\ proc[p].pc \in {"idle", "probe", "open", "write"}
  BY <1>2 DEF ProcType
<1> HIDE DEF n
<1>6. Step(p, proc[p].pc, proc[p].todo, n)
  BY <1>4, <1>5, SetProc
<1>7. QED
  BY <1>6 DEF n

\* The steps of a process, with what they do to the processes spelled out.
Starts(p, claims) == ApplyProposal(p, claims) /\ Step(p, "probe", claims, 1)
Skips(p) == Skip(p) /\ Step(p, "probe", Tail(proc[p].todo), 1)
Finds(p) == /\ Probe(p) /\ Text(proc[p].n) \in {Absent, Wanted(p)}
            /\ Step(p, "open", proc[p].todo, proc[p].n)
Passes(p) == /\ Probe(p) /\ Text(proc[p].n) \notin {Absent, Wanted(p)}
             /\ Step(p, "probe", proc[p].todo, proc[p].n + 1)
Truncates(p) == Truncate(p) /\ Step(p, "write", proc[p].todo, proc[p].n)
Fills(p) == Fill(p) /\ Step(p, "probe", Tail(proc[p].todo), 1)
Ends(p) == Done(p) /\ Step(p, "idle", proc[p].todo, proc[p].n)
Dies(p) == Die(p) /\ Step(p, "idle", << >>, 1)

LEMMA StepsOfAProcess ==
    ASSUME FileTypes, FromJobs, RecordNext
    PROVE  \E p \in Process :
              \/ \E claims \in Jobs : Starts(p, claims)
              \/ Skips(p) \/ Finds(p) \/ Passes(p) \/ Truncates(p) \/ Fills(p) \/ Ends(p)
              \/ Dies(p)
<1>1. ASSUME NEW p \in Process
      PROVE  /\ proc[p].todo \in Seq(Claim) /\ proc[p].n \in Nat \ {0}
             /\ proc[p].todo # << >> => Tail(proc[p].todo) \in Seq(Claim)
  BY ClaimsLeft DEF FileTypes
<1>2. << >> \in Seq(Claim) /\ 1 \in Nat \ {0}
  OBVIOUS
<1>3. ASSUME NEW p \in Process, NEW claims \in Jobs, ApplyProposal(p, claims)
      PROVE  Starts(p, claims)
  <2>1. claims \in Seq(Claim)
    BY RecordAssumption
  <2>2. QED
    BY <1>2, <1>3, <2>1, SetProc DEF ApplyProposal, Starts
<1>4. ASSUME NEW p \in Process, Skip(p)  PROVE Skips(p)
  <2>1. proc' = [proc EXCEPT ![p] = [pc |-> "probe", todo |-> Tail(proc[p].todo), n |-> 1]]
    BY <1>4 DEF Skip
  <2>2. QED
    BY <1>1, <1>2, <1>4, <2>1, SetProc DEF Skip, Skips
<1>5. ASSUME NEW p \in Process, Probe(p)  PROVE Finds(p) \/ Passes(p)
  <2>1. CASE Text(proc[p].n) \in {Absent, Wanted(p)}
    <3>1. proc' = [proc EXCEPT ![p].pc = "open"]
      BY <1>5, <2>1 DEF Probe
    <3>2. QED
      BY <1>5, <2>1, <3>1, SetPc DEF Finds
  <2>2. CASE Text(proc[p].n) \notin {Absent, Wanted(p)}
    <3>1. proc' = [proc EXCEPT ![p].n = @ + 1]
      BY <1>5, <2>2 DEF Probe
    <3>2. proc[p].pc = "probe"
      BY <1>5 DEF Probe, Recording
    <3>3. Step(p, proc[p].pc, proc[p].todo, proc[p].n + 1)
      BY <3>1, SetN
    <3>4. QED
      BY <1>5, <2>2, <3>2, <3>3 DEF Passes
  <2>3. QED
    BY <2>1, <2>2
<1>6. ASSUME NEW p \in Process, Truncate(p)  PROVE Truncates(p)
  BY <1>6, SetPc DEF Truncate, Truncates
<1>7. ASSUME NEW p \in Process, Fill(p)  PROVE Fills(p)
  <2>1. proc' = [proc EXCEPT ![p] = [pc |-> "probe", todo |-> Tail(proc[p].todo), n |-> 1]]
    BY <1>7 DEF Fill
  <2>2. proc[p].todo # << >>
    BY <1>7 DEF Fill, FromJobs
  <2>3. QED
    BY <1>1, <1>2, <1>7, <2>1, <2>2, SetProc DEF Fills
<1>8. ASSUME NEW p \in Process, Done(p)  PROVE Ends(p)
  BY <1>8, SetPc DEF Done, Ends
<1>9. ASSUME NEW p \in Process, Die(p)  PROVE Dies(p)
  BY <1>2, <1>9, SetProc DEF Die, Dies
<1>10. QED
  BY <1>3, <1>4, <1>5, <1>6, <1>7, <1>8, <1>9 DEF RecordNext

\* Writing at a name that is in use or is the next one.
LEMMA PutInPlace ==
    ASSUME FileTypes, NEW p \in Process, NEW text \in Content \cup {Torn},
           Put(proc[p].n, text)
    PROVE  /\ \E k \in Nat : dir' \in [1 .. k -> Content \cup {Torn}]
           /\ Names' = Names \cup {proc[p].n}
           /\ dir'[proc[p].n] = text
           /\ \A m \in Names : m # proc[p].n => dir'[m] = dir[m]
<1>1. PICK k \in Nat : dir \in [1 .. k -> Content \cup {Torn}]
  BY DEF FileTypes
<1>2. PICK n \in Nat \ {0} : n = proc[p].n
  BY DEF FileTypes
<1> DEFINE S == Content \cup {Torn}
           j == IF n <= k THEN k ELSE k + 1
<1>3. Names = 1 .. k /\ Put(n, text) /\ 1 .. n - 1 \subseteq 1 .. k
  BY <1>1, <1>2 DEF Names, FileTypes
<1>4. dir \in [1 .. k -> S] /\ text \in S
  BY <1>1
<1> HIDE DEF S
<1>5. dir' = [m \in 1 .. k \cup {n} |-> IF m = n THEN text ELSE dir[m]]
  BY <1>3 DEF Put, Names
<1>6. n <= k + 1
  <2>1. n - 1 = 0 \/ n - 1 \in 1 .. k
    BY <1>3
  <2>2. QED
    BY <2>1
<1>7. 1 .. k \cup {n} = 1 .. j /\ j \in Nat
  BY <1>6
<1>8. dir' \in [1 .. j -> S]
  BY <1>4, <1>5, <1>7
<1>9. Names' = 1 .. k \cup {n} /\ dir'[n] = text /\ \A m \in 1 .. k : m # n => dir'[m] = dir[m]
  BY <1>5 DEF Names
<1>10. QED
  BY <1>2, <1>3, <1>7, <1>8, <1>9 DEF S

LEMMA FileTypesStep == FileTypes /\ FromJobs /\ [RecordNext]_rvars => FileTypes'
<1> SUFFICES ASSUME FileTypes, FromJobs, [RecordNext]_rvars  PROVE FileTypes'
  OBVIOUS
<1>0. ASSUME NEW p \in Process, NEW pc, NEW todo, NEW n, Step(p, pc, todo, n),
             Names \subseteq Names', 1 .. n - 1 \subseteq Names'
      PROVE  /\ proc' \in [Process -> ProcType]
             /\ \A q \in Process : 1 .. proc'[q].n - 1 \subseteq Names'
  BY <1>0 DEF Step, FileTypes
<1>1. CASE UNCHANGED rvars
  BY <1>1 DEF rvars, FileTypes, Names
<1>2. ASSUME NEW p \in Process, NEW claims \in Jobs, Starts(p, claims)  PROVE FileTypes'
  <2>1. dir' = dir /\ Names' = Names /\ kept' = kept /\ dead' = dead /\ Step(p, "probe", claims, 1)
        /\ job' \in [Process -> Jobs \cup {<< >>}] /\ shared' \in BOOLEAN
    BY <1>2 DEF Starts, ApplyProposal, Names, FileTypes
  <2>2. 1 .. 1 - 1 \subseteq Names'
    OBVIOUS
  <2>3. QED
    BY <1>0, <2>1, <2>2 DEF FileTypes, ProcType
<1>3. ASSUME NEW p \in Process, Skips(p) \/ Finds(p) \/ Passes(p) \/ Ends(p) \/ Dies(p)
      PROVE  dir' = dir /\ Names' = Names /\ kept' = kept /\ shared' = shared
  BY <1>3 DEF Skips, Finds, Passes, Ends, Dies, Skip, Probe, Done, Die, Names
<1>4. ASSUME NEW p \in Process, Skips(p) \/ Finds(p) \/ Passes(p) \/ Ends(p)  PROVE FileTypes'
  <2>1. dir' = dir /\ Names' = Names /\ kept' = kept /\ shared' = shared
        /\ job' = job /\ dead' = dead
    BY <1>3, <1>4 DEF Skips, Finds, Passes, Ends, Skip, Probe, Done
  <2>2. 1 .. 1 - 1 \subseteq Names'
    OBVIOUS
  <2>3. 1 .. proc[p].n - 1 \subseteq Names'
    BY <2>1 DEF FileTypes
  <2>4. Passes(p) => 1 .. (proc[p].n + 1) - 1 \subseteq Names'
    <3>1. SUFFICES ASSUME Passes(p)  PROVE 1 .. (proc[p].n + 1) - 1 \subseteq Names
      BY <2>1
    <3>2. proc[p].n \in Names
      BY <3>1 DEF Passes, Text, Names
    <3>3. proc[p].n \in Nat /\ 1 .. proc[p].n - 1 \subseteq Names
      BY DEF FileTypes
    <3>4. QED
      BY <3>2, <3>3
  <2>5. /\ proc' \in [Process -> ProcType]
        /\ \A q \in Process : 1 .. proc'[q].n - 1 \subseteq Names'
    <3>1. \E pc, todo, n : Step(p, pc, todo, n) /\ 1 .. n - 1 \subseteq Names'
      <4>1. CASE Skips(p)   BY <4>1, <2>2 DEF Skips
      <4>2. CASE Finds(p)   BY <4>2, <2>3 DEF Finds
      <4>3. CASE Passes(p)  BY <4>3, <2>4 DEF Passes
      <4>4. CASE Ends(p)    BY <4>4, <2>3 DEF Ends
      <4>5. QED  BY <1>4, <4>1, <4>2, <4>3, <4>4
    <3>2. QED
      BY <1>0, <2>1, <3>1
  <2>6. QED
    BY <2>1, <2>5 DEF FileTypes, ProcType
<1>5. ASSUME NEW p \in Process, Dies(p)  PROVE FileTypes'
  <2>1. dir' = dir /\ Names' = Names /\ kept' = kept /\ shared' = shared
        /\ job' = [job EXCEPT ![p] = << >>] /\ Step(p, "idle", << >>, 1)
    BY <1>3, <1>5 DEF Dies, Die
  <2>2. dead' \subseteq Content
    <3>1. proc[p].pc = "write" => Wanted(p) \in Content
      BY WantedIsContent DEF FromJobs
    <3>2. QED
      BY <1>5, <3>1 DEF Dies, Die, FileTypes
  <2>3. 1 .. 1 - 1 \subseteq Names'
    OBVIOUS
  <2>4. QED
    BY <1>0, <2>1, <2>2, <2>3 DEF FileTypes, ProcType
<1>6. ASSUME NEW p \in Process, Truncates(p)  PROVE FileTypes'
  <2>1. /\ Put(proc[p].n, Torn) /\ Step(p, "write", proc[p].todo, proc[p].n)
        /\ job' = job /\ kept' = kept /\ shared' = shared /\ dead' = dead
    BY <1>6 DEF Truncates, Truncate
  <2>2. /\ \E k \in Nat : dir' \in [1 .. k -> Content \cup {Torn}]
        /\ Names \subseteq Names' /\ 1 .. proc[p].n - 1 \subseteq Names'
    BY <2>1, PutInPlace DEF FileTypes
  <2>3. /\ proc' \in [Process -> ProcType]
        /\ \A q \in Process : 1 .. proc'[q].n - 1 \subseteq Names'
    BY <1>0, <2>1, <2>2
  <2>4. QED
    BY <2>1, <2>2, <2>3 DEF FileTypes, ProcType
<1>7. ASSUME NEW p \in Process, Fills(p)  PROVE FileTypes'
  <2>1. /\ Put(proc[p].n, Wanted(p)) /\ Step(p, "probe", Tail(proc[p].todo), 1)
        /\ kept' = kept \cup {[n |-> proc[p].n, content |-> Wanted(p)]}
        /\ job' = job /\ shared' = shared /\ dead' = dead
    BY <1>7 DEF Fills, Fill
  <2>2. Wanted(p) \in Content
    BY <1>7, WantedIsContent DEF FromJobs, Fills, Fill
  <2>3. /\ \E k \in Nat : dir' \in [1 .. k -> Content \cup {Torn}]
        /\ Names \subseteq Names'
    BY <2>1, <2>2, PutInPlace
  <2>4. proc[p].n \in Nat /\ 1 .. 1 - 1 \subseteq Names'
    BY DEF FileTypes
  <2>5. /\ proc' \in [Process -> ProcType]
        /\ \A q \in Process : 1 .. proc'[q].n - 1 \subseteq Names'
    BY <1>0, <2>1, <2>3, <2>4
  <2>6. kept' \subseteq [n : Nat, content : Content]
    BY <2>1, <2>2, <2>4 DEF FileTypes
  <2>7. QED
    BY <2>1, <2>3, <2>5, <2>6 DEF FileTypes, ProcType
<1>8. QED
  BY <1>1, <1>2, <1>4, <1>5, <1>6, <1>7, StepsOfAProcess

LEMMA FromJobsStep == FileTypes /\ FromJobs /\ [RecordNext]_rvars => FromJobs'
<1> SUFFICES ASSUME FileTypes, FromJobs, [RecordNext]_rvars  PROVE FromJobs'
  OBVIOUS
<1> DEFINE Placed(q) == proc'[q].pc \in {"open", "write"} =>
                            proc'[q].todo # << >> /\ Clears(Head(proc'[q].todo))
           Rests(q) == proc'[q].pc = "idle" => proc'[q].todo = << >>
           Own(q) == Contents(proc'[q].todo) \subseteq Contents(job'[q])
           Known == \A n \in Names' : dir'[n] = Torn \/ \E claims \in Jobs : dir'[n] \in Contents(claims)
<1>0. ASSUME NEW p \in Process, NEW pc, NEW todo, NEW n, Step(p, pc, todo, n),
             Placed(p), Rests(p), Own(p), Known,
             \A q \in Process : q # p => job'[q] = job[q] \/ proc[q].todo = << >>
      PROVE  FromJobs'
  <2>1. ASSUME NEW q \in Process  PROVE Placed(q) /\ Rests(q) /\ Own(q)
    <3>1. Contents(<< >>) = {}
      BY DEF Contents
    <3>2. CASE q = p
      BY <1>0, <3>2
    <3>3. CASE q # p
      <4>1. proc'[q] = proc[q]
        BY <1>0, <3>3 DEF Step
      <4>2. Placed(q) /\ Rests(q)
        BY <4>1 DEF FromJobs
      <4>3. CASE proc[q].todo = << >>
        BY <3>1, <4>1, <4>2, <4>3
      <4>4. CASE job'[q] = job[q]
        BY <4>1, <4>2, <4>4 DEF FromJobs, Contents
      <4>5. QED
        BY <1>0, <3>3, <4>3, <4>4
    <3>4. QED
      BY <3>2, <3>3
  <2>2. QED
    BY <1>0, <2>1 DEF FromJobs, Names
<1>1. CASE UNCHANGED rvars
  BY <1>1 DEF rvars, FromJobs, Names, Contents
<1>2. dir' = dir => Known
  BY DEF FromJobs, Names
<1>3. ASSUME NEW p \in Process, NEW claims \in Jobs, Starts(p, claims)  PROVE FromJobs'
  <2>1. /\ dir' = dir /\ Step(p, "probe", claims, 1)
        /\ job'[p] = claims
        /\ \A q \in Process : q # p => job'[q] = job[q] \/ proc[q].todo = << >>
    BY <1>3 DEF Starts, ApplyProposal, FromJobs, Busy
  <2>2. Placed(p) /\ Rests(p) /\ Own(p)
    BY <2>1 DEF Step
  <2>3. QED
    BY <1>0, <1>2, <2>1, <2>2
<1>4. ASSUME NEW p \in Process, Skips(p)  PROVE FromJobs'
  <2>1. dir' = dir /\ job' = job /\ Step(p, "probe", Tail(proc[p].todo), 1)
        /\ proc[p].todo # << >>
    BY <1>4 DEF Skips, Skip
  <2>2. Contents(Tail(proc[p].todo)) \subseteq Contents(proc[p].todo)
    BY <2>1, ClaimsLeft DEF FileTypes
  <2>3. Placed(p) /\ Rests(p) /\ Own(p)
    BY <2>1, <2>2 DEF Step, FromJobs
  <2>4. QED
    BY <1>0, <1>2, <2>1, <2>3
<1>5. ASSUME NEW p \in Process, Finds(p) \/ Passes(p) \/ Ends(p)  PROVE FromJobs'
  <2>1. dir' = dir /\ job' = job
    BY <1>5 DEF Finds, Passes, Ends, Probe, Done
  <2>2. PICK pc, n : Step(p, pc, proc[p].todo, n)
                     /\ (pc = "idle" => proc[p].todo = << >>)
                     /\ (pc = "open" => proc[p].todo # << >> /\ Clears(Head(proc[p].todo)))
                     /\ pc # "write"
    BY <1>5 DEF Finds, Passes, Ends, Probe, Recording, Done
  <2>3. Placed(p) /\ Rests(p) /\ Own(p)
    BY <2>1, <2>2 DEF Step, FromJobs
  <2>4. QED
    BY <1>0, <1>2, <2>1, <2>2, <2>3
<1>6. ASSUME NEW p \in Process, Dies(p)  PROVE FromJobs'
  <2>1. /\ dir' = dir /\ Step(p, "idle", << >>, 1)
        /\ \A q \in Process : q # p => job'[q] = job[q]
    BY <1>6 DEF Dies, Die, FileTypes
  <2>2. Contents(<< >>) = {}
    BY DEF Contents
  <2>3. Placed(p) /\ Rests(p) /\ Own(p)
    BY <2>1, <2>2 DEF Step
  <2>4. QED
    BY <1>0, <1>2, <2>1, <2>3
<1>7. ASSUME NEW p \in Process, Truncates(p)  PROVE FromJobs'
  <2>1. /\ Put(proc[p].n, Torn) /\ Step(p, "write", proc[p].todo, proc[p].n)
        /\ job' = job /\ proc[p].pc = "open"
    BY <1>7 DEF Truncates, Truncate
  <2>2. Known
    BY <2>1, PutInPlace DEF FromJobs
  <2>3. Placed(p) /\ Rests(p) /\ Own(p)
    BY <2>1 DEF Step, FromJobs
  <2>4. QED
    BY <1>0, <2>1, <2>2, <2>3
<1>8. ASSUME NEW p \in Process, Fills(p)  PROVE FromJobs'
  <2>1. /\ Put(proc[p].n, Wanted(p)) /\ Step(p, "probe", Tail(proc[p].todo), 1)
        /\ job' = job /\ proc[p].pc = "write"
    BY <1>8 DEF Fills, Fill
  <2>2. proc[p].todo # << >> /\ Clears(Head(proc[p].todo)) /\ proc[p].todo \in Seq(Claim)
    BY <2>1 DEF FromJobs, FileTypes
  <2>3. /\ Contents(Tail(proc[p].todo)) \subseteq Contents(proc[p].todo)
        /\ Wanted(p) \in Contents(proc[p].todo)
    BY <2>2, ClaimsLeft DEF Wanted
  <2>4. job[p] \in Jobs /\ Wanted(p) \in Contents(job[p])
    <3>1. Wanted(p) \in Contents(job[p])
      BY <2>3 DEF FromJobs
    <3>2. Contents(<< >>) = {}
      BY DEF Contents
    <3>3. QED
      BY <3>1, <3>2 DEF FileTypes
  <2>5. Known
    BY <2>1, <2>4, WantedIsContent, <2>2, PutInPlace DEF FromJobs
  <2>6. Placed(p) /\ Rests(p) /\ Own(p)
    BY <2>1, <2>3 DEF Step, FromJobs
  <2>7. QED
    BY <1>0, <2>1, <2>5, <2>6
<1>9. QED
  BY <1>1, <1>3, <1>4, <1>5, <1>6, <1>7, <1>8, StepsOfAProcess

LEMMA SerialFilesStep == FileInv /\ [RecordNext]_rvars /\ ~shared' => SerialFiles'
<1> SUFFICES ASSUME FileInv, [RecordNext]_rvars, ~shared'  PROVE SerialFiles'
  OBVIOUS
<1>1. FileTypes /\ FromJobs
  BY DEF FileInv
<1>2. CASE UNCHANGED rvars
  <2>1. SerialFiles
    BY <1>2 DEF rvars, FileInv
  <2>2. QED
    BY <1>2, <2>1 DEF rvars, SerialFiles, OneBusy, FilesOnce, Forgotten, Keeps, Passed, Opens, Writes, Completes,
                      Names, Busy, Text, Wanted, Writing, Contents
<1>3. SUFFICES ASSUME NEW p \in Process,
                      \/ \E claims \in Jobs : Starts(p, claims)
                      \/ Skips(p) \/ Finds(p) \/ Passes(p) \/ Truncates(p) \/ Fills(p) \/ Ends(p)
                      \/ Dies(p)
               PROVE  SerialFiles'
  BY <1>1, <1>2, StepsOfAProcess
<1>4. SerialFiles /\ \A q \in Process : q # p => proc[q].pc = "idle" /\ proc'[q] = proc[q]
  <2>1. ~shared /\ \A q \in Process : q # p => ~Busy(q)
    <3>1. CASE \E claims \in Jobs : Starts(p, claims)
      BY <3>1, <1>1 DEF Starts, ApplyProposal, FileTypes
    <3>2. CASE ~ \E claims \in Jobs : Starts(p, claims)
      <4>1. shared' = shared /\ Busy(p)
        BY <1>3, <3>2, <1>1 DEF Skips, Finds, Passes, Truncates, Fills, Ends, Dies, Skip, Probe,
              Recording, Truncate, Fill, Done, Die, Busy
      <4>2. OneBusy
        BY <4>1 DEF FileInv, SerialFiles
      <4>3. QED
        BY <4>1, <4>2 DEF OneBusy
    <3>3. QED
      BY <3>1, <3>2
  <2>2. \A q \in Process : q # p => proc'[q] = proc[q]
    BY <1>3 DEF Starts, Skips, Finds, Passes, Truncates, Fills, Ends, Dies, Step
  <2>3. QED
    BY <2>1, <2>2 DEF FileInv, Busy
<1>17. \A q \in Process : q # p => job'[q] = << >>
  <2>1. CASE \E claims \in Jobs : Starts(p, claims)
    BY <1>4, <2>1 DEF Starts, ApplyProposal, Busy
  <2>2. CASE ~ \E claims \in Jobs : Starts(p, claims)
    <3>1. Busy(p)
      BY <1>3, <2>2, <1>1 DEF Skips, Finds, Passes, Truncates, Fills, Ends, Dies, Skip, Probe,
            Recording, Truncate, Fill, Done, Die, Busy
    <3>2. \A q \in Process : q # p => job'[q] = job[q]
      BY <1>3, <2>2, <1>1 DEF Skips, Finds, Passes, Truncates, Fills, Ends, Dies, Skip, Probe,
            Truncate, Fill, Done, Die, FileTypes
    <3>3. QED
      BY <1>4, <3>1, <3>2 DEF SerialFiles, Forgotten
  <2>3. QED
    BY <2>1, <2>2
<1>5. SUFFICES FilesOnce' /\ Keeps' /\ Passed(p)' /\ Opens(p)' /\ Writes(p)' /\ Completes(p)'
  <2>1. \A q \in Process : q # p => ~Busy(q)' /\ Passed(q)' /\ Opens(q)' /\ Writes(q)'
    BY <1>4 DEF Busy, Passed, Opens, Writes
  <2>2. Contents(<< >>) = {}
    BY DEF Contents
  <2>3. \A q \in Process : q # p => Completes(q)'
    BY <1>17, <2>2 DEF Completes, Contents
  <2>4. Forgotten'
    BY <1>17, <2>1 DEF Forgotten
  <2>5. QED
    BY <1>5, <2>1, <2>3, <2>4 DEF SerialFiles, OneBusy
<1>6. \A q \in Process : (Busy(q) <=> proc[q].pc # "idle") /\ (Busy(q)' <=> proc'[q].pc # "idle")
  BY DEF Busy
<1>7. ASSUME NEW pc, NEW n, pc # "write", Step(p, pc, proc[p].todo, n), proc[p].pc # "write",
             dir' = dir, kept' = kept, job' = job, dead' = dead
      PROVE  FilesOnce' /\ Keeps' /\ Writes(p)' /\ Completes(p)'
  <2>1. FilesOnce' /\ Writes(p)'
    BY <1>4, <1>7 DEF SerialFiles, FilesOnce, Names, Writes, Step
  <2>2. \A q \in Process : proc[q].pc # "write"
    BY <1>4, <1>7
  <2>3. Keeps'
    BY <1>4, <1>7, <2>2 DEF SerialFiles, Keeps, Text, Writing
  <2>4. Completes(p)'
    BY <1>4, <1>7 DEF SerialFiles, Completes, Names, Step, Contents
  <2>5. QED
    BY <2>1, <2>3, <2>4
<1>8. CASE \E claims \in Jobs : Starts(p, claims)
  <2>1. PICK claims \in Jobs : Starts(p, claims)
    BY <1>8
  <2>2. /\ dir' = dir /\ kept' = kept /\ dead' = dead /\ Step(p, "probe", claims, 1)
        /\ job'[p] = claims /\ proc[p].pc = "idle"
    BY <1>1, <2>1 DEF Starts, ApplyProposal, FileTypes, Busy
  <2>3. \A q \in Process : proc[q].pc # "write" /\ ~Busy(q)
    BY <1>4, <2>2 DEF Busy
  <2>4. Passed(p)' /\ Opens(p)' /\ Writes(p)'
    BY <2>2 DEF Step, Passed, Opens, Writes
  <2>5. FilesOnce' /\ Keeps'
    BY <1>4, <2>2, <2>3 DEF SerialFiles, FilesOnce, Names, Keeps, Text, Writing
  <2>6. Completes(p)'
    BY <2>2 DEF Step, Completes, Contents
  <2>7. QED
    BY <2>4, <2>5, <2>6
<1>9. CASE Skips(p)
  <2>1. /\ dir' = dir /\ kept' = kept /\ dead' = dead /\ job' = job
        /\ Step(p, "probe", Tail(proc[p].todo), 1) /\ proc[p].pc = "probe"
        /\ proc[p].todo # << >> /\ ~Clears(Head(proc[p].todo))
    BY <1>9 DEF Skips, Skip
  <2>2. Contents(Tail(proc[p].todo)) = Contents(proc[p].todo)
    BY <1>1, <2>1, ClaimsLeft DEF FileTypes
  <2>3. \A q \in Process : proc[q].pc # "write"
    BY <1>4, <2>1
  <2>4. Passed(p)' /\ Opens(p)' /\ Writes(p)'
    BY <2>1 DEF Step, Passed, Opens, Writes
  <2>5. FilesOnce' /\ Keeps'
    BY <1>4, <2>1, <2>3 DEF SerialFiles, FilesOnce, Names, Keeps, Text, Writing
  <2>6. Completes(p)'
    BY <1>4, <2>1, <2>2 DEF SerialFiles, Completes, Names, Contents, Step
  <2>7. QED
    BY <2>4, <2>5, <2>6
<1>10. CASE Finds(p)
  <2>1. /\ dir' = dir /\ kept' = kept /\ dead' = dead /\ job' = job
        /\ Step(p, "open", proc[p].todo, proc[p].n) /\ proc[p].pc = "probe"
        /\ Text(proc[p].n) \in {Absent, Wanted(p)}
    BY <1>10 DEF Finds, Probe, Recording
  <2>2. Passed(p)' /\ Opens(p)'
    BY <1>4, <1>6, <2>1 DEF SerialFiles, Step, Passed, Opens, Wanted, Text
  <2>3. QED
    BY <1>7, <2>1, <2>2
<1>11. CASE Passes(p)
  <2>1. /\ dir' = dir /\ kept' = kept /\ dead' = dead /\ job' = job
        /\ Step(p, "probe", proc[p].todo, proc[p].n + 1) /\ proc[p].pc = "probe"
        /\ proc[p].todo # << >> /\ Text(proc[p].n) \notin {Absent, Wanted(p)}
    BY <1>11 DEF Passes, Probe, Recording
  <2>2. dir[proc[p].n] # Wanted(p) /\ proc[p].n \in Nat
    BY <1>1, <2>1 DEF Text, FileTypes
  <2>3. \A m \in 1 .. proc[p].n - 1 : dir[m] # Wanted(p)
    BY <1>4, <1>6, <2>1 DEF SerialFiles, Passed
  <2>4. \A m \in 1 .. (proc[p].n + 1) - 1 : dir[m] # Wanted(p)
    BY <2>2, <2>3
  <2>5. Passed(p)' /\ Opens(p)'
    BY <2>1, <2>4 DEF Step, Passed, Opens, Wanted
  <2>6. QED
    BY <1>7, <2>1, <2>5
<1>12. CASE Ends(p)
  <2>1. /\ dir' = dir /\ kept' = kept /\ dead' = dead /\ job' = job
        /\ Step(p, "idle", proc[p].todo, proc[p].n) /\ proc[p].pc = "probe"
        /\ proc[p].todo = << >>
    BY <1>12 DEF Ends, Done
  <2>2. Passed(p)' /\ Opens(p)'
    BY <1>6, <2>1 DEF Step, Passed, Opens
  <2>3. QED
    BY <1>7, <2>1, <2>2
<1>13. CASE Truncates(p)
  <2>0. PICK n : n = proc[p].n
    OBVIOUS
  <2>1. /\ Put(n, Torn) /\ Step(p, "write", proc[p].todo, n) /\ proc[p].pc = "open"
        /\ kept' = kept /\ dead' = dead /\ job' = job
    BY <1>13, <2>0 DEF Truncates, Truncate
  <2>2. /\ Names' = Names \cup {n} /\ dir'[n] = Torn
        /\ \A m \in Names : m # n => dir'[m] = dir[m]
    BY <1>1, <2>1, <2>0, PutInPlace
  <2>3. /\ proc[p].todo # << >> /\ Wanted(p) \in Content /\ Wanted(p)' = Wanted(p)
        /\ Text(n) \in {Absent, Wanted(p)} /\ n \in Nat \ {0}
        /\ \A m \in 1 .. n - 1 : dir[m] # Wanted(p)
    <3>1. proc[p].todo # << >>
      BY <1>1, <2>1 DEF FromJobs
    <3>2. Wanted(p)' = Wanted(p)
      BY <2>1 DEF Step, Wanted
    <3>3. Passed(p) /\ Opens(p)
      BY <1>4 DEF SerialFiles
    <3>4. QED
      BY <1>1, <1>6, <2>0, <2>1, <3>1, <3>2, <3>3, WantedIsContent DEF FileTypes, Passed, Opens
  <2>4. \A m \in Names : dir[m] \in Content \cup {Torn}
    BY <1>1 DEF FileTypes, Names
  <2>5. Torn \notin Content /\ Absent \notin Content
    BY RecordAssumption
  <2>6. \A q \in Process : proc[q].pc # "write" /\ (proc'[q].pc = "write" <=> q = p)
    BY <1>4, <2>1 DEF Step
  <2>7. n \in Names => dir[n] = Wanted(p)
    <3>1. ASSUME n \in Names  PROVE Text(n) = dir[n] /\ dir[n] # Absent
      BY <2>4, <2>5, <3>1 DEF Text, Names, Torn, Absent
    <3>2. QED
      BY <2>3, <3>1
  <2>8. FilesOnce'
    BY <1>4, <2>2 DEF SerialFiles, FilesOnce
  <2>9. Keeps'
    <3>1. SUFFICES ASSUME NEW k \in kept
                   PROVE  \/ Text(k.n)' = k.content
                          \/ Text(k.n)' = Torn /\ (Writing(k.n)' \/ k.content \in dead')
      BY <2>1 DEF Keeps
    <3>2. \/ Text(k.n) = k.content
          \/ Text(k.n) = Torn /\ k.content \in dead
      BY <1>4, <2>6 DEF SerialFiles, Keeps, Writing
    <3>3. CASE k.n = n
      <4>1. Text(k.n)' = Torn
        BY <2>2, <3>3 DEF Text, Names
      <4>2. Writing(k.n)'
        BY <2>1, <2>6, <3>3 DEF Writing, Step
      <4>3. QED
        BY <4>1, <4>2
    <3>4. CASE k.n # n
      <4>1. Text(k.n)' = Text(k.n)
        BY <2>2, <3>4 DEF Text, Names
      <4>2. QED
        BY <2>1, <3>2, <4>1
    <3>5. QED
      BY <3>3, <3>4
  <2>10. Writes(p)'
    <3>1. Text(n)' = Torn
      BY <2>2 DEF Text, Names
    <3>2. ASSUME NEW m \in Names'  PROVE dir'[m] # Wanted(p)
      <4>1. CASE m = n
        BY <2>2, <2>3, <2>5, <4>1
      <4>2. CASE m # n
        <5>1. m \in Names /\ dir'[m] = dir[m]
          BY <2>2, <4>2
        <5>2. CASE n \in Names
          <6>1. dir[m] = dir[n] => dir[m] = Torn
            BY <1>4, <4>2, <5>1, <5>2 DEF SerialFiles, FilesOnce
          <6>2. QED
            BY <2>3, <2>5, <2>7, <5>1, <5>2, <6>1
        <5>3. CASE n \notin Names
          <6>1. PICK k \in Nat : dir \in [1 .. k -> Content \cup {Torn}]
            BY <1>1 DEF FileTypes
          <6>2. m \in 1 .. n - 1
            BY <2>3, <5>1, <5>3, <6>1 DEF Names
          <6>3. QED
            BY <2>3, <5>1, <6>2
        <5>4. QED
          BY <5>2, <5>3
      <4>3. QED
        BY <4>1, <4>2
    <3>3. ASSUME NEW k \in kept, k.n = n  PROVE k.content = Wanted(p)
      <4>1. Text(n) = k.content \/ Text(n) = Torn
        BY <1>4, <3>3 DEF SerialFiles, Keeps
      <4>2. k.content \in Content
        BY <1>1 DEF FileTypes
      <4>3. Absent # Torn
        BY DEF Absent, Torn
      <4>4. QED
        BY <2>3, <2>5, <4>1, <4>2, <4>3
    <3>4. proc'[p].n = n
      BY <2>1 DEF Step
    <3>5. QED
      BY <2>1, <2>3, <3>1, <3>2, <3>3, <3>4 DEF Writes
  <2>11. Completes(p)'
    <3>1. SUFFICES ASSUME NEW c \in Contents(job[p])
                   PROVE  c \in Contents(proc[p].todo) \/ \E m \in Names' : dir'[m] = c
      BY <2>1 DEF Completes, Contents, Step
    <3>2. c \in Contents(proc[p].todo) \/ \E m \in Names : dir[m] = c
      BY <1>4 DEF SerialFiles, Completes
    <3>3. CASE \E m \in Names : dir[m] = c
      <4>1. PICK m \in Names : dir[m] = c
        BY <3>3
      <4>2. CASE m = n
        <5>1. Wanted(p) \in Contents(proc[p].todo)
          BY <1>1, <2>1, <2>3, ClaimsLeft DEF FileTypes, FromJobs, Wanted
        <5>2. QED
          BY <2>7, <4>1, <4>2, <5>1
      <4>3. CASE m # n
        BY <2>2, <4>1, <4>3
      <4>4. QED
        BY <4>2, <4>3
    <3>4. QED
      BY <3>2, <3>3
  <2>12. Passed(p)' /\ Opens(p)'
    <3>1. \A m \in 1 .. n - 1 : dir'[m] # Wanted(p)
      <4>1. 1 .. n - 1 \subseteq Names
        BY <1>1, <2>0 DEF FileTypes
      <4>2. \A m \in 1 .. n - 1 : m # n
        BY <2>3
      <4>3. QED
        BY <2>2, <2>3, <4>1, <4>2
    <3>2. proc'[p].pc = "write" /\ proc'[p].n = n
      BY <2>1 DEF Step
    <3>3. QED
      BY <2>3, <3>1, <3>2 DEF Passed, Opens
  <2>13. QED
    BY <2>8, <2>9, <2>10, <2>11, <2>12
<1>14. CASE Fills(p)
  <2>0. PICK n : n = proc[p].n
    OBVIOUS
  <2>1. /\ Put(n, Wanted(p)) /\ Step(p, "probe", Tail(proc[p].todo), 1)
        /\ kept' = kept \cup {[n |-> n, content |-> Wanted(p)]}
        /\ dead' = dead /\ job' = job /\ proc[p].pc = "write"
    BY <1>14, <2>0 DEF Fills, Fill
  <2>2. proc[p].todo \in Seq(Claim) /\ proc[p].todo # << >> /\ Wanted(p) \in Content
    BY <1>1, <2>1, WantedIsContent DEF FileTypes, FromJobs
  <2>3. /\ Names' = Names \cup {n} /\ dir'[n] = Wanted(p)
        /\ \A m \in Names : m # n => dir'[m] = dir[m]
    BY <1>1, <2>1, <2>2, <2>0, PutInPlace
  <2>4. /\ Text(n) = Torn
        /\ \A m \in Names : dir[m] # Wanted(p)
        /\ \A k \in kept : k.n = n => k.content = Wanted(p)
    BY <1>4, <2>0, <2>1 DEF SerialFiles, Writes
  <2>5. Torn \notin Content /\ Absent \notin Content
    BY RecordAssumption
  <2>6. Passed(p)' /\ Opens(p)' /\ Writes(p)'
    BY <2>1 DEF Step, Passed, Opens, Writes
  <2>7. FilesOnce'
    BY <1>4, <2>3, <2>4 DEF SerialFiles, FilesOnce
  <2>8. Keeps'
    <3>1. SUFFICES ASSUME NEW k \in kept'
                   PROVE  \/ Text(k.n)' = k.content
                          \/ Text(k.n)' = Torn /\ k.content \in dead'
      BY DEF Keeps
    <3>2. CASE k.n = n
      <4>1. k.content = Wanted(p)
        BY <2>1, <2>4, <3>2
      <4>2. QED
        BY <2>3, <3>2, <4>1 DEF Text, Names
    <3>3. CASE k.n # n
      <4>1. k \in kept /\ Text(k.n)' = Text(k.n)
        BY <2>1, <2>3, <3>3 DEF Text, Names
      <4>2. ~Writing(k.n)
        BY <1>4, <2>0, <3>3 DEF Writing
      <4>3. QED
        BY <1>4, <2>1, <4>1, <4>2 DEF SerialFiles, Keeps
    <3>4. QED
      BY <3>2, <3>3
  <2>9. Completes(p)'
    <3>1. SUFFICES ASSUME NEW c \in Contents(job[p])
                   PROVE  \/ c \in Contents(Tail(proc[p].todo))
                          \/ \E m \in Names' : dir'[m] = c
      BY <2>1 DEF Completes, Contents, Step
    <3>2. c \in Contents(proc[p].todo) \/ \E m \in Names : dir[m] = c
      BY <1>4 DEF SerialFiles, Completes
    <3>3. CASE c \in Contents(proc[p].todo)
      <4>1. c \in Contents(Tail(proc[p].todo)) \/ c = Wanted(p)
        BY <2>2, <3>3, ClaimsLeft DEF Wanted
      <4>2. QED
        BY <2>3, <4>1
    <3>4. CASE \E m \in Names : dir[m] = c
      <4>1. PICK m \in Names : dir[m] = c
        BY <3>4
      <4>2. c # Torn
        BY <2>5 DEF Contents
      <4>3. m # n
        BY <2>4, <4>1, <4>2 DEF Text, Names
      <4>4. QED
        BY <2>3, <4>1, <4>3
    <3>5. QED
      BY <3>2, <3>3, <3>4
  <2>10. QED
    BY <2>6, <2>7, <2>8, <2>9
<1>15. CASE Dies(p)
  <2>1. /\ dir' = dir /\ kept' = kept /\ Step(p, "idle", << >>, 1)
        /\ dead' = dead \cup (IF proc[p].pc = "write" THEN {Wanted(p)} ELSE {})
        /\ job'[p] = << >>
    BY <1>1, <1>15 DEF Dies, Die, FileTypes
  <2>2. Passed(p)' /\ Opens(p)' /\ Writes(p)'
    BY <2>1 DEF Step, Passed, Opens, Writes
  <2>3. FilesOnce'
    BY <1>4, <2>1 DEF SerialFiles, FilesOnce, Names
  <2>4. Keeps'
    <3>1. SUFFICES ASSUME NEW k \in kept
                   PROVE  \/ Text(k.n)' = k.content
                          \/ Text(k.n)' = Torn /\ k.content \in dead'
      BY <2>1 DEF Keeps
    <3>2. Text(k.n)' = Text(k.n)
      BY <2>1 DEF Text
    <3>3. Writing(k.n) => k.content \in dead'
      BY <1>4, <2>1 DEF SerialFiles, Writes, Writing
    <3>4. QED
      BY <1>4, <2>1, <3>2, <3>3 DEF SerialFiles, Keeps
  <2>5. Completes(p)'
    BY <2>1 DEF Completes, Contents
  <2>6. QED
    BY <2>2, <2>3, <2>4, <2>5
<1>16. QED
  BY <1>3, <1>8, <1>9, <1>10, <1>11, <1>12, <1>13, <1>14, <1>15

LEMMA FileInvHolds == RecordSpec => []FileInv
<1>1. FileInv /\ [RecordNext]_rvars => FileInv'
  BY FileTypesStep, FromJobsStep, SerialFilesStep DEF FileInv
<1>2. QED
  BY <1>1, FileInvInit, PTL DEF RecordSpec

(* A path record_instance returned goes on holding its content, whatever is  *)
(* recorded after it and however processes die (lineages.py:1465-1467), as   *)
(* long as no two of them were at work at once.                              *)
THEOREM ReturnedPathsKeepTheirRecord == RecordSpec => []KeptRecordsStay
<1>1. FileInv => KeptRecordsStay
  BY DEF FileInv, FileTypes, SerialFiles, Keeps, KeptRecordsStay
<1>2. QED
  BY <1>1, FileInvHolds, PTL

(* Whatever files earlier deaths cut short, a run of apply_proposal that is  *)
(* alone in the directory and comes to its end leaves a whole file for every *)
(* claim that clears the bar, and one only (propose.py:290-334).             *)
THEOREM RerunsComplete == RecordSpec => []RerunCompletes
<1>1. ASSUME FileInv  PROVE RerunCompletes
  <2>1. \A n \in DOMAIN dir : dir[n] = Torn \/ \E claims \in Jobs : dir[n] \in Contents(claims)
    BY <1>1 DEF FileInv, FromJobs, Names
  <2>2. ASSUME ~shared, NEW p \in Process, proc[p].todo = << >>, NEW c \in Contents(job[p])
        PROVE  \E n \in DOMAIN dir : dir[n] = c
    <3>1. Contents(proc[p].todo) = {}
      BY <2>2 DEF Contents
    <3>2. QED
      BY <1>1, <2>2, <3>1 DEF FileInv, SerialFiles, Completes, Names
  <2>3. ~shared => FilesOnce
    BY <1>1 DEF FileInv, SerialFiles
  <2>4. QED
    BY <2>1, <2>2, <2>3 DEF RerunCompletes, FilesOnce, Names
<1>2. QED
  BY <1>1, FileInvHolds, PTL
-----------------------------------------------------------------------------
(* Snapshots and the links that open them. *)

Distinct(seq) == \A i, j \in 1 .. Len(seq) : seq[i] = seq[j] => i = j
Named == {index.snapshots[i] : i \in 1 .. Len(index.snapshots)}

(* Files are written by one run at a time, under a name that is free; the    *)
(* index names no snapshot twice.                                            *)
ShareTypes ==
    /\ OnDisk \subseteq Hash /\ IsFiniteSet(OnDisk)
    /\ index \in [latest : Hash \cup {"none", TornFile}, snapshots : Seq(Hash)]
    /\ Distinct(index.snapshots)
    /\ writer \in [pc : {"idle", "file", "index"}, hash : Hash \cup {"none"}]
    /\ writer.pc # "idle" => writer.hash \in Hash /\ settled = FALSE
    /\ writer.pc = "file" => writer.hash \notin OnDisk
    /\ writer.pc = "index" => writer.hash \in OnDisk

(* What a run leaves. *)
RunLeaves == settled => /\ index # TornIndex /\ Named = OnDisk
                        /\ index.latest \in OnDisk

(* The snapshot of a link stays whole, and the link says what was selected. *)
LinkIsGood ==
    link # NoLink =>
        /\ link.snapshot \in OnDisk /\ frozen[link.snapshot] # TornFile
        /\ link.prefix = Prefix[link.snapshot]
        /\ \E ids \in SUBSET Id :
              /\ Places(link.snapshot, ids) # {}
              /\ link.bits = encode(link.snapshot, ids)
              /\ link.ids = ids \cap ToSet(NodesOf[link.snapshot])

ShareInv == ShareTypes /\ RunLeaves /\ LinkIsGood
-----------------------------------------------------------------------------
LEMMA FreezeIs ==
    ASSUME NEW h, NEW state, frozen' = Freeze(h, state)
    PROVE  /\ OnDisk' = OnDisk \cup {h} /\ frozen'[h] = state
           /\ \A g \in OnDisk : g # h => frozen'[g] = frozen[g]
BY DEF Freeze, OnDisk

\* The index that a run writes: the files, each once.
LEMMA ListedIs ==
    ASSUME ShareTypes, NEW h \in OnDisk
    PROVE  /\ Listed(h) \in Seq(Hash) /\ Distinct(Listed(h))
           /\ {Listed(h)[i] : i \in 1 .. Len(Listed(h))} = OnDisk
<1> DEFINE old == index.snapshots
           still == Kept(old, OnDisk)
           new == (OnDisk \ ToSet(still)) \ {h}
           others == Sorted(new, Rank)
           n == Cardinality(new)
<1>1. old \in Seq(Hash) /\ Distinct(old) /\ OnDisk \subseteq Hash /\ IsFiniteSet(OnDisk)
  BY DEF ShareTypes
<1>2. /\ still \in Seq(Hash) /\ Distinct(still)
      /\ \A k \in 1 .. Len(still) : still[k] \in OnDisk
  <2> HIDE DEF old
  <2>1. /\ Kept(old, OnDisk) \in Seq(Hash)
        /\ \A k \in 1 .. Len(Kept(old, OnDisk)) :
              \E i \in 1 .. Len(old) : Kept(old, OnDisk)[k] = old[i] /\ old[i] \in OnDisk
        /\ (\A i, j \in 1 .. Len(old) : old[i] = old[j] => i = j)
               => \A k, l \in 1 .. Len(Kept(old, OnDisk)) :
                     Kept(old, OnDisk)[k] = Kept(old, OnDisk)[l] => k = l
    BY <1>1, KeptIs
  <2>2. QED
    BY <1>1, <2>1 DEF Distinct
<1> HIDE DEF still
<1>3. ToSet(still) = {still[k] : k \in 1 .. Len(still)}
  BY <1>2 DEF ToSet
<1>4. new \in SUBSET OnDisk /\ IsFiniteSet(new) /\ IsRank(Rank, new)
  BY <1>1, FS_Subset, SnapshotAssumption DEF IsRank
<1>5. \A x \in new : x \notin ToSet(still) /\ x # h
  OBVIOUS
<1>6. \A x \in OnDisk : x # h => x \in new \/ x \in ToSet(still)
  OBVIOUS
<1> HIDE DEF new
<1>7. /\ n \in Nat /\ others \in [1 .. n -> new]
      /\ \A x \in new : \E k \in 1 .. n : others[k] = x
      /\ \A j, k \in 1 .. n : j < k <=> Rank[others[j]] < Rank[others[k]]
  BY <1>4, SortedIs
<1> HIDE DEF others, n
<1>8. \A j, k \in 1 .. n : others[j] = others[k] => j = k
  <2>1. SUFFICES ASSUME NEW j \in 1 .. n, NEW k \in 1 .. n, others[j] = others[k]  PROVE j = k
    OBVIOUS
  <2>2. Rank[others[j]] \in Nat /\ Rank[others[k]] = Rank[others[j]]
    BY <1>4, <1>7, <2>1 DEF IsRank
  <2>3. ~ (j < k) /\ ~ (k < j)
    BY <1>7, <2>2
  <2>4. QED
    BY <1>7, <2>3
<1> DEFINE seen == still \o others
           m == Len(still)
<1>9. /\ others \in Seq(Hash) /\ Len(others) = n
      /\ seen \in Seq(Hash) /\ Len(seen) = m + n /\ m \in Nat
      /\ \A i \in 1 .. m : seen[i] = still[i]
      /\ \A i \in m + 1 .. m + n : seen[i] = others[i - m]
  <2>1. others \in [1 .. n -> Hash]
    BY <1>1, <1>4, <1>7
  <2>2. others \in Seq(Hash) /\ Len(others) = n
    BY <1>7, <2>1
  <2>3. still \in Seq(Hash) /\ m = Len(still)
    BY <1>2
  <2>4. m \in Nat
    BY <2>3
  <2>5. /\ seen \in Seq(Hash) /\ Len(seen) = Len(still) + Len(others)
        /\ \A i \in 1 .. Len(still) + Len(others) :
              seen[i] = IF i <= Len(still) THEN still[i] ELSE others[i - Len(still)]
    BY <2>2, <2>3
  <2> HIDE DEF seen, m
  <2>6. QED
    BY <1>7, <2>2, <2>3, <2>4, <2>5
<1> HIDE DEF seen, m
<1>10. \A i \in 1 .. m : seen[i] \in ToSet(still) /\ seen[i] \in OnDisk
  BY <1>2, <1>3, <1>9 DEF m
<1>11. \A i \in m + 1 .. m + n : i - m \in 1 .. n /\ seen[i] \in new
  BY <1>7, <1>9
<1>12. Distinct(seen)
  <2>1. SUFFICES ASSUME NEW i \in 1 .. m + n, NEW j \in 1 .. m + n, seen[i] = seen[j]  PROVE i = j
    BY <1>9 DEF Distinct
  <2>2. CASE i <= m /\ j <= m
    <3>1. i \in 1 .. m /\ j \in 1 .. m
      BY <1>9, <2>2
    <3>2. still[i] = still[j]
      BY <1>9, <2>1, <3>1
    <3>3. QED
      BY <1>2, <3>1, <3>2 DEF Distinct, m
  <2>3. CASE i > m /\ j > m
    <3>1. i \in m + 1 .. m + n /\ j \in m + 1 .. m + n
      BY <1>7, <1>9, <2>3
    <3>2. i - m \in 1 .. n /\ j - m \in 1 .. n /\ others[i - m] = others[j - m]
      BY <1>9, <1>11, <2>1, <3>1
    <3>3. i - m = j - m
      BY <1>8, <3>2
    <3>4. QED
      BY <1>7, <1>9, <3>3
  <2>4. CASE i <= m /\ j > m
    BY <1>5, <1>7, <1>9, <1>10, <1>11, <2>1, <2>4
  <2>5. CASE i > m /\ j <= m
    BY <1>5, <1>7, <1>9, <1>10, <1>11, <2>1, <2>5
  <2>6. QED
    BY <1>7, <1>9, <2>2, <2>3, <2>4, <2>5
<1>13. \A i \in 1 .. Len(seen) : seen[i] \in OnDisk
  <2>1. SUFFICES ASSUME NEW i \in 1 .. m + n  PROVE seen[i] \in OnDisk
    BY <1>9
  <2>2. i \in 1 .. m \/ i \in m + 1 .. m + n
    BY <1>7, <1>9
  <2>3. QED
    BY <1>4, <1>10, <1>11, <2>2
<1>14. \A x \in OnDisk : x # h => \E i \in 1 .. Len(seen) : seen[i] = x
  <2>1. SUFFICES ASSUME NEW x \in OnDisk, x # h  PROVE \E i \in 1 .. m + n : seen[i] = x
    BY <1>9
  <2>2. CASE x \in new
    <3>1. PICK k \in 1 .. n : others[k] = x
      BY <1>7, <2>2
    <3>2. m + k \in m + 1 .. m + n /\ (m + k) - m = k
      BY <1>7, <1>9
    <3>3. seen[m + k] = x /\ m + k \in 1 .. m + n
      BY <1>7, <1>9, <3>1, <3>2
    <3>4. QED
      BY <3>3
  <2>3. CASE x \in ToSet(still)
    <3>1. PICK k \in 1 .. m : still[k] = x
      BY <1>3, <2>3 DEF m
    <3>2. seen[k] = x /\ k \in 1 .. m + n
      BY <1>7, <1>9, <3>1
    <3>3. QED
      BY <3>2
  <2>4. QED
    BY <1>6, <2>1, <2>2, <2>3
<1>15. Listed(h) = IF h \in ToSet(seen) THEN seen ELSE Append(seen, h)
  BY Zenon DEF Listed, seen, others, new, still
<1>16. ToSet(seen) = {seen[i] : i \in 1 .. Len(seen)}
  BY <1>9 DEF ToSet
<1>17. CASE h \in ToSet(seen)
  BY <1>9, <1>12, <1>13, <1>14, <1>15, <1>16, <1>17
<1>18. CASE h \notin ToSet(seen)
  <2> DEFINE longer == Append(seen, h)
             l == Len(seen)
  <2>1. /\ longer \in Seq(Hash) /\ Len(longer) = l + 1 /\ l \in Nat /\ longer[l + 1] = h
        /\ \A i \in 1 .. l : longer[i] = seen[i]
    BY <1>1, <1>9
  <2>2. Listed(h) = longer
    BY <1>15, <1>18
  <2>3. \A i \in 1 .. l : seen[i] # h
    BY <1>16, <1>18
  <2> HIDE DEF longer, l
  <2>4. Distinct(longer)
    <3>1. \A i, j \in 1 .. l : seen[i] = seen[j] => i = j
      BY <1>12 DEF Distinct, l
    <3>2. QED
      BY <2>1, <2>3, <3>1 DEF Distinct
  <2>5. {longer[i] : i \in 1 .. l + 1} = OnDisk
    <3>1. \A i \in 1 .. l + 1 : longer[i] \in OnDisk
      BY <1>13, <2>1 DEF l
    <3>2. \A x \in OnDisk : \E i \in 1 .. l + 1 : longer[i] = x
      <4>1. SUFFICES ASSUME NEW x \in OnDisk, x # h  PROVE \E i \in 1 .. l + 1 : longer[i] = x
        BY <2>1
      <4>2. PICK i \in 1 .. l : seen[i] = x
        BY <1>14, <4>1 DEF l
      <4>3. QED
        BY <2>1, <4>2
    <3>3. QED
      BY <3>1, <3>2
  <2>6. QED
    BY <2>1, <2>2, <2>4, <2>5
<1>19. QED
  BY <1>17, <1>18

LEMMA ShareInvInit == SnapshotInit => ShareInv
<1> SUFFICES ASSUME SnapshotInit  PROVE ShareInv
  OBVIOUS
<1>1. << >> \in Seq(Hash) /\ Distinct(<< >>)
  BY DEF Distinct
<1>2. OnDisk = {} /\ IsFiniteSet({})
  BY FS_EmptySet DEF SnapshotInit, OnDisk
<1>3. ShareTypes
  BY <1>1, <1>2 DEF SnapshotInit, ShareTypes
<1>4. QED
  BY <1>3 DEF SnapshotInit, ShareInv, RunLeaves, LinkIsGood

LEMMA ShareTypesStep == ShareInv /\ [SnapshotNext]_svars => ShareTypes' /\ RunLeaves'
<1> SUFFICES ASSUME ShareInv, [SnapshotNext]_svars  PROVE ShareTypes' /\ RunLeaves'
  OBVIOUS
<1>1. ShareTypes /\ RunLeaves
  BY DEF ShareInv
<1>2. CASE UNCHANGED svars
  BY <1>1, <1>2 DEF svars, ShareTypes, RunLeaves, OnDisk, Named, Distinct
<1>3. ASSUME NEW h \in Hash, Build(h)  PROVE ShareTypes' /\ RunLeaves'
  BY <1>1, <1>3 DEF Build, ShareTypes, RunLeaves, OnDisk, Distinct
<1>4. ASSUME NEW h \in Hash, NEW state, frozen' = Freeze(h, state)
      PROVE  OnDisk' = OnDisk \cup {h} /\ OnDisk' \subseteq Hash /\ IsFiniteSet(OnDisk')
  BY <1>1, <1>4, FreezeIs, FS_AddElement DEF ShareTypes
<1>5. CASE WriteFile
  <2>1. /\ writer.hash \in Hash /\ settled = FALSE /\ settled' = settled /\ index' = index
        /\ frozen' = Freeze(writer.hash, "whole") /\ writer' = [writer EXCEPT !.pc = "index"]
    BY <1>1, <1>5 DEF WriteFile, ShareTypes
  <2>2. OnDisk' = OnDisk \cup {writer.hash} /\ OnDisk' \subseteq Hash /\ IsFiniteSet(OnDisk')
    BY <1>4, <2>1
  <2>3. writer'.pc = "index" /\ writer'.hash = writer.hash
        /\ writer' \in [pc : {"idle", "file", "index"}, hash : Hash \cup {"none"}]
    BY <1>1, <2>1 DEF ShareTypes
  <2>4. QED
    BY <1>1, <2>1, <2>2, <2>3 DEF ShareTypes, RunLeaves, Distinct
<1>6. CASE WriteIndex
  <2>1. /\ writer.hash \in Hash /\ writer.hash \in OnDisk /\ OnDisk' = OnDisk
        /\ index' = [latest |-> writer.hash, snapshots |-> Listed(writer.hash)]
        /\ writer' = [writer EXCEPT !.pc = "idle"]
    BY <1>1, <1>6 DEF WriteIndex, ShareTypes, OnDisk
  <2>2. /\ Listed(writer.hash) \in Seq(Hash) /\ Distinct(Listed(writer.hash))
        /\ {Listed(writer.hash)[i] : i \in 1 .. Len(Listed(writer.hash))} = OnDisk
    BY <1>1, <2>1, ListedIs
  <2>3. index'.snapshots = Listed(writer.hash) /\ index'.latest = writer.hash
        /\ index' \in [latest : Hash \cup {"none", TornFile}, snapshots : Seq(Hash)]
    BY <2>1, <2>2
  <2>4. writer'.pc = "idle" /\ writer' \in [pc : {"idle", "file", "index"}, hash : Hash \cup {"none"}]
    BY <1>1, <2>1 DEF ShareTypes
  <2>5. writer.hash # TornFile
    BY <2>1, SnapshotAssumption DEF TornFile
  <2>6. ShareTypes'
    BY <1>1, <2>1, <2>2, <2>3, <2>4 DEF ShareTypes, Distinct
  <2>7. Named' = OnDisk
    BY <2>2, <2>3 DEF Named
  <2>8. index' # TornIndex
    BY <2>3, <2>5 DEF TornIndex
  <2>9. QED
    BY <2>1, <2>3, <2>6, <2>7, <2>8 DEF RunLeaves
<1>7. CASE IndexUnreadable
  <2>1. writer'.pc = "idle" /\ writer' \in [pc : {"idle", "file", "index"}, hash : Hash \cup {"none"}]
    BY <1>1, <1>7 DEF IndexUnreadable, ShareTypes
  <2>2. QED
    BY <1>1, <1>7, <2>1 DEF IndexUnreadable, ShareTypes, RunLeaves, OnDisk, Named, Distinct
<1>8. CASE CrashInFile
  <2>1. /\ writer.hash \in Hash /\ settled = FALSE /\ settled' = settled /\ index' = index
        /\ frozen' = Freeze(writer.hash, TornFile) /\ writer' = [writer EXCEPT !.pc = "idle"]
    BY <1>1, <1>8 DEF CrashInFile, ShareTypes
  <2>2. OnDisk' = OnDisk \cup {writer.hash} /\ OnDisk' \subseteq Hash /\ IsFiniteSet(OnDisk')
    BY <1>4, <2>1
  <2>3. writer'.pc = "idle" /\ writer' \in [pc : {"idle", "file", "index"}, hash : Hash \cup {"none"}]
    BY <1>1, <2>1 DEF ShareTypes
  <2>4. QED
    BY <1>1, <2>1, <2>2, <2>3 DEF ShareTypes, RunLeaves, Distinct
<1>9. CASE CrashInIndex
  <2>1. /\ settled = FALSE /\ settled' = settled /\ index' = TornIndex /\ OnDisk' = OnDisk
        /\ writer' = [writer EXCEPT !.pc = "idle"]
    BY <1>1, <1>9 DEF CrashInIndex, ShareTypes, OnDisk
  <2>2. writer'.pc = "idle" /\ writer' \in [pc : {"idle", "file", "index"}, hash : Hash \cup {"none"}]
    BY <1>1, <2>1 DEF ShareTypes
  <2>3. index' \in [latest : Hash \cup {"none", TornFile}, snapshots : Seq(Hash)]
        /\ Distinct(index'.snapshots)
    BY <2>1 DEF TornIndex, Distinct
  <2>4. QED
    BY <1>1, <2>1, <2>2, <2>3 DEF ShareTypes, RunLeaves, Distinct
<1>10. ASSUME NEW h \in Hash, Merge(h)  PROVE ShareTypes' /\ RunLeaves'
  <2>1. /\ writer.pc = "idle" /\ writer' = writer /\ settled' = FALSE
        /\ frozen' = IF h \in OnDisk THEN frozen ELSE Freeze(h, "whole")
        /\ index' \in {index, [latest |-> h, snapshots |-> << h >>]}
    BY <1>10 DEF Merge
  <2>2. OnDisk' \subseteq Hash /\ IsFiniteSet(OnDisk')
    <3>1. CASE h \in OnDisk
      BY <1>1, <2>1, <3>1 DEF ShareTypes, OnDisk
    <3>2. CASE h \notin OnDisk
      BY <1>4, <2>1, <3>2
    <3>3. QED
      BY <3>1, <3>2
  <2>3. << h >> \in Seq(Hash) /\ Distinct(<< h >>)
    BY DEF Distinct
  <2>4. index' \in [latest : Hash \cup {"none", TornFile}, snapshots : Seq(Hash)]
        /\ Distinct(index'.snapshots)
    <3>1. CASE index' = index
      BY <1>1, <3>1 DEF ShareTypes
    <3>2. CASE index' = [latest |-> h, snapshots |-> << h >>]
      BY <2>3, <3>2
    <3>3. QED
      BY <2>1, <3>1, <3>2
  <2>5. QED
    BY <1>1, <2>1, <2>2, <2>4 DEF ShareTypes, RunLeaves, Distinct
<1>11. ASSUME NEW ids \in SUBSET Id, Share(ids)  PROVE ShareTypes' /\ RunLeaves'
  BY <1>1, <1>11 DEF Share, ShareTypes, RunLeaves, OnDisk, Named, Distinct
<1>12. QED
  BY <1>2, <1>3, <1>5, <1>6, <1>7, <1>8, <1>9, <1>10, <1>11 DEF SnapshotNext

-----------------------------------------------------------------------------
LEMMA ByteOf ==
    ASSUME NEW p \in Nat
    PROVE  /\ p \div BYTE \in Nat /\ p % BYTE \in Nat
           /\ (p \div BYTE) * BYTE + (p % BYTE) = p
BY SnapshotAssumption

LEMMA ByteOrder ==
    ASSUME NEW p \in Nat, NEW q \in Nat, p <= q
    PROVE  p \div BYTE <= q \div BYTE
<1> DEFINE a == p \div BYTE
           b == q \div BYTE
<1>1. /\ BYTE \in Nat \ {0} /\ a \in Nat /\ b \in Nat
      /\ a * BYTE <= p /\ q < (b + 1) * BYTE
  BY SnapshotAssumption
<1> HIDE DEF a, b
<1>2. SUFFICES ASSUME a >= b + 1  PROVE FALSE
  BY <1>1 DEF a, b
<1>3. a * BYTE >= (b + 1) * BYTE
  BY <1>1, <1>2
<1>4. QED
  BY <1>1, <1>3

\* What is encoded is decoded: the bits of a selection are its places, ...
LEMMA BitsOfEncode ==
    ASSUME NEW h \in Hash, NEW ids, Places(h, ids) # {}
    PROVE  /\ encode(h, ids) # << >>
           /\ Last(encode(h, ids)) # {}
           /\ Bits(encode(h, ids)) = Places(h, ids)
<1> DEFINE places == Places(h, ids)
           top == Max(places)
           bits == encode(h, ids)
           n == (top \div BYTE) + 1
<1>1. places \subseteq Nat /\ places # {} /\ \A p \in places : p <= Len(NodesOf[h])
  BY SnapshotAssumption DEF Places
<1>2. top \in places /\ \A p \in places : p <= top
  <2>1. Len(NodesOf[h]) \in Nat
    BY SnapshotAssumption
  <2> HIDE DEF places
  <2>2. PICK x \in places : \A y \in places : y <= x
    BY <1>1, <2>1, GreatestNumber
  <2>3. x \in places /\ \A y \in places : x >= y
    BY <1>1, <2>2
  <2>4. QED
    BY <1>1, <2>3 DEF Max
<1>3. bits = [b \in 1 .. n |-> {p % BYTE : p \in {p \in places : p \div BYTE = b - 1}}]
  BY Zenon DEF encode
<1> HIDE DEF places, top, bits
<1>4. top \in Nat /\ top \div BYTE \in Nat /\ n \in Nat \ {0}
  <2>1. top \in Nat
    BY <1>1, <1>2
  <2>2. top \div BYTE \in Nat
    BY <2>1, ByteOf
  <2>3. QED
    BY <2>1, <2>2
<1>5. Len(bits) = n /\ DOMAIN bits = 1 .. n /\ n \in 1 .. n
  BY <1>3, <1>4
<1>6. \A b \in 1 .. n : bits[b] = {p % BYTE : p \in {p \in places : p \div BYTE = b - 1}}
  BY <1>3
<1>7. bits # << >> /\ Last(bits) # {}
  <2>1. n - 1 = top \div BYTE
    BY <1>4
  <2>2. top % BYTE \in bits[n]
    BY <1>2, <1>5, <1>6, <2>1
  <2>3. QED
    BY <1>4, <1>5, <2>2 DEF Last
<1>8. ASSUME NEW p \in places  PROVE p \in Bits(bits)
  <2>1. p \in Nat /\ p <= top
    BY <1>1, <1>2
  <2>2. p \div BYTE \in Nat /\ (p \div BYTE) * BYTE + (p % BYTE) = p
    BY <2>1, ByteOf
  <2>3. p \div BYTE <= top \div BYTE
    BY <1>4, <2>1, ByteOrder
  <2> DEFINE b == (p \div BYTE) + 1
  <2>4. b \in 1 .. n /\ b - 1 = p \div BYTE
    BY <1>4, <2>2, <2>3
  <2>5. p % BYTE \in bits[b]
    BY <1>6, <2>4
  <2>6. p \in {(b - 1) * BYTE + k : k \in bits[b]}
    BY <2>2, <2>4, <2>5
  <2> HIDE DEF b
  <2>7. QED
    BY <1>5, <2>4, <2>6 DEF Bits
<1>9. ASSUME NEW p \in Bits(bits)  PROVE p \in places
  <2>1. PICK b \in 1 .. n : p \in {(b - 1) * BYTE + k : k \in bits[b]}
    BY <1>5, <1>9 DEF Bits
  <2>2. PICK q \in places : q \div BYTE = b - 1 /\ p = (b - 1) * BYTE + (q % BYTE)
    BY <1>6, <2>1
  <2>3. q \in Nat
    BY <1>1
  <2>4. (q \div BYTE) * BYTE + (q % BYTE) = q
    BY <2>3, ByteOf
  <2>5. QED
    BY <2>2, <2>4
<1>10. QED
  BY <1>7, <1>8, <1>9 DEF places, bits

\* ... so decode returns the selected nodes.
LEMMA DecodeOfEncode ==
    ASSUME NEW h \in Hash, NEW ids, Places(h, ids) # {}
    PROVE  decode(h, encode(h, ids)) = [ok |-> TRUE, ids |-> ids \cap ToSet(NodesOf[h])]
<1> DEFINE places == Places(h, ids)
           bits == encode(h, ids)
           nodes == NodesOf[h]
<1>1. nodes \in Seq(Id)
  BY SnapshotAssumption
<1>2. places = {i - 1 : i \in {i \in 1 .. Len(nodes) : nodes[i] \in ids}}
  BY <1>1 DEF Places
<1>3. bits # << >> /\ Last(bits) # {} /\ Bits(bits) = places
  BY BitsOfEncode
<1> HIDE DEF places, bits, nodes
<1>4. \A p \in places : p < Len(nodes) /\ p + 1 \in 1 .. Len(nodes) /\ nodes[p + 1] \in ids
  BY <1>1, <1>2
<1>5. {nodes[p + 1] : p \in places} = ids \cap ToSet(nodes)
  <2>1. ToSet(nodes) = {nodes[i] : i \in 1 .. Len(nodes)}
    BY <1>1 DEF ToSet
  <2>2. ASSUME NEW i \in 1 .. Len(nodes), nodes[i] \in ids
        PROVE  nodes[i] \in {nodes[p + 1] : p \in places}
    <3>1. i - 1 \in places /\ (i - 1) + 1 = i
      BY <1>1, <1>2, <2>2
    <3>2. QED
      BY <3>1
  <2>3. QED
    BY <1>4, <2>1, <2>2
<1>6. \A p \in places : ~ (p >= Len(nodes))
  BY <1>1, <1>2
<1>7. decode(h, bits) = [ok |-> TRUE, ids |-> {nodes[p + 1] : p \in places}]
  BY <1>3, <1>6, Zenon DEF decode, nodes
<1>8. QED
  BY <1>5, <1>7 DEF bits, nodes

LEMMA LinkStep == ShareInv /\ [SnapshotNext]_svars => LinkIsGood'
<1> SUFFICES ASSUME ShareInv, [SnapshotNext]_svars  PROVE LinkIsGood'
  OBVIOUS
<1>1. ShareTypes /\ LinkIsGood
  BY DEF ShareInv
<1>2. ASSUME link' = link,
             \A h \in OnDisk : frozen[h] # TornFile => h \in OnDisk' /\ frozen'[h] = frozen[h]
      PROVE  LinkIsGood'
  BY <1>1, <1>2 DEF LinkIsGood
<1>3. CASE frozen' = frozen /\ link' = link
  BY <1>2, <1>3 DEF OnDisk
<1>4. ASSUME NEW h, h \notin OnDisk, NEW state, frozen' = Freeze(h, state), link' = link
      PROVE  LinkIsGood'
  BY <1>2, <1>4, FreezeIs
<1>5. CASE UNCHANGED svars
  BY <1>3, <1>5 DEF svars
<1>6. ASSUME NEW h \in Hash, Build(h)  PROVE LinkIsGood'
  BY <1>3, <1>6 DEF Build
<1>7. CASE WriteFile \/ CrashInFile
  BY <1>1, <1>4, <1>7 DEF WriteFile, CrashInFile, ShareTypes
<1>8. CASE WriteIndex \/ IndexUnreadable \/ CrashInIndex
  BY <1>3, <1>8 DEF WriteIndex, IndexUnreadable, CrashInIndex
<1>9. ASSUME NEW h \in Hash, Merge(h)  PROVE LinkIsGood'
  BY <1>3, <1>4, <1>9 DEF Merge
<1>10. ASSUME NEW ids \in SUBSET Id, Share(ids)  PROVE LinkIsGood'
  <2>1. link' = [prefix |-> Prefix[index.latest], bits |-> encode(index.latest, ids),
                 ids |-> ids \cap ToSet(NodesOf[index.latest]), snapshot |-> index.latest]
        /\ frozen' = frozen /\ index.latest \in OnDisk /\ frozen[index.latest] # TornFile
        /\ Places(index.latest, ids) # {}
    BY <1>10 DEF Share
  <2>2. /\ link'.prefix = Prefix[index.latest] /\ link'.bits = encode(index.latest, ids)
        /\ link'.ids = ids \cap ToSet(NodesOf[index.latest]) /\ link'.snapshot = index.latest
    BY <2>1
  <2> HIDE <2>1
  <2>3. frozen' = frozen /\ index.latest \in OnDisk /\ frozen[index.latest] # TornFile
        /\ Places(index.latest, ids) # {}
    BY <1>10 DEF Share
  <2>4. QED
    BY <2>2, <2>3 DEF LinkIsGood, OnDisk
<1>11. QED
  BY <1>5, <1>6, <1>7, <1>8, <1>9, <1>10 DEF SnapshotNext

LEMMA ShareInvHolds == SnapshotSpec => []ShareInv
<1>1. ShareInv /\ [SnapshotNext]_svars => ShareInv'
  BY ShareTypesStep, LinkStep DEF ShareInv
<1>2. QED
  BY <1>1, ShareInvInit, PTL DEF SnapshotSpec

(* After a run of write_snapshot, and until a branch is merged in, the index  *)
(* names exactly the files on disk, each once: whatever runs died before and *)
(* whichever index a merge kept (snapshots.py:6-7).                          *)
THEOREM IndexIsComplete == SnapshotSpec => []IndexListsTheFiles
<1>1. ASSUME ShareInv  PROVE IndexListsTheFiles
  <2>1. SUFFICES ASSUME settled
                 PROVE  /\ ToSet(index.snapshots) = OnDisk
                        /\ Len(index.snapshots) = Cardinality(OnDisk)
                        /\ index.latest \in OnDisk
    BY DEF IndexListsTheFiles
  <2>2. Named = OnDisk /\ index.latest \in OnDisk
        /\ index.snapshots \in Seq(Hash) /\ Distinct(index.snapshots)
    BY <1>1, <2>1 DEF ShareInv, ShareTypes, RunLeaves
  <2>3. ToSet(index.snapshots) = OnDisk
    BY <2>2 DEF ToSet, Named
  <2> DEFINE seq == index.snapshots
             n == Len(seq)
  <2>4. /\ n \in Nat /\ seq \in [1 .. n -> OnDisk]
        /\ \A x \in OnDisk : \E i \in 1 .. n : seq[i] = x
    BY <2>2 DEF Named
  <2>5. \A i, j \in 1 .. n : seq[i] = seq[j] => i = j
    BY <2>2 DEF Distinct
  <2> HIDE DEF seq, n
  <2>6. Cardinality(OnDisk) = n
    BY <2>4, <2>5, DistinctLength
  <2>7. QED
    BY <2>2, <2>3, <2>6 DEF n, seq
<1>2. QED
  BY <1>1, ShareInvHolds, PTL

(* A link never shows anything but the selection it was made for, and a run  *)
(* of write_snapshot makes it openable (snapshots.py:5), for any number of   *)
(* bits in a byte: what encode writes, decode reads back.                    *)
THEOREM LinksStayTrue == SnapshotSpec => []LinksOpenTheirSelection
<1>1. ASSUME ShareInv, link # NoLink,
             \A h \in OnDisk \ {link.snapshot} : Prefix[h] # link.prefix
      PROVE  /\ Opened.ok => Opened.ids = link.ids
             /\ settled => Opened.ok
  <2> DEFINE s == link.snapshot
             seq == index.snapshots
             hits == resolveSnapshot(link.prefix)
             hash == seq[CHOOSE i \in hits : TRUE]
  <2>1. PICK ids \in SUBSET Id : /\ Places(s, ids) # {}
                                 /\ link.bits = encode(s, ids)
                                 /\ link.ids = ids \cap ToSet(NodesOf[s])
    BY <1>1 DEF ShareInv, LinkIsGood
  <2>2. s \in OnDisk /\ frozen[s] # TornFile /\ link.prefix = Prefix[s] /\ s \in Hash
    BY <1>1 DEF ShareInv, LinkIsGood, ShareTypes
  <2>3. decode(s, link.bits) = [ok |-> TRUE, ids |-> link.ids]
    BY <2>1, <2>2, DecodeOfEncode
  <2>4. seq \in Seq(Hash) /\ Distinct(seq) /\ (settled => \A x \in OnDisk : \E i \in 1 .. Len(seq) : seq[i] = x)
                          /\ (settled => \A i \in 1 .. Len(seq) : seq[i] \in OnDisk)
    BY <1>1 DEF ShareInv, ShareTypes, RunLeaves, Named
  <2>5. hits = {i \in 1 .. Len(seq) : Prefix[seq[i]] = link.prefix}
    BY <2>4 DEF resolveSnapshot
  <2>6. Opened = IF Cardinality(hits) = 1 /\ hash \in OnDisk /\ frozen[hash] # TornFile
                 THEN decode(hash, link.bits)
                 ELSE [ok |-> FALSE, ids |-> {}]
    BY Zenon DEF Opened
  <2> HIDE DEF s, seq, hits
  <2>7. hits # {} => hash \in {seq[i] : i \in hits}
    OBVIOUS
  <2>8. ASSUME settled  PROVE Opened.ok
    <3>1. PICK i \in 1 .. Len(seq) : seq[i] = s
      BY <2>2, <2>4, <2>8
    <3>2. \A k \in 1 .. Len(seq) : Prefix[seq[k]] = link.prefix => seq[k] = s
      BY <1>1, <2>4, <2>8 DEF s
    <3>3. hits = {i}
      BY <2>2, <2>4, <2>5, <3>1, <3>2 DEF Distinct
    <3>4. hash = s /\ Cardinality(hits) = 1
      BY <3>1, <3>3, FS_Singleton
    <3>5. QED
      BY <2>2, <2>3, <2>6, <3>4
  <2>9. ASSUME Opened.ok  PROVE Opened.ids = link.ids
    <3>1. Cardinality(hits) = 1 /\ hash \in OnDisk /\ Opened = decode(hash, link.bits)
      BY <2>6, <2>9
    <3>2. hits # {}
      BY <3>1, FS_EmptySet
    <3>3. hash = s
      BY <1>1, <2>5, <2>7, <3>1, <3>2 DEF s
    <3>4. QED
      BY <2>3, <3>1, <3>3
  <2>10. QED
    BY <2>8, <2>9
<1>2. ShareInv => LinksOpenTheirSelection
  BY <1>1 DEF LinksOpenTheirSelection
<1>3. QED
  BY <1>2, ShareInvHolds, PTL
=============================================================================
