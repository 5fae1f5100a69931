----------------------------- MODULE LearnProxy -----------------------------
(***************************************************************************)
(* The cost-gated proxy of the Learn page (infra/learn-proxy): every         *)
(* request reads the day's count of its address and the day's spend, relays  *)
(* the call, and then writes both back from the values it read.  The         *)
(* key-value store keeps the last value written to a key, and a reader may   *)
(* still be given the one that was there before (Stale).  One day is         *)
(* modelled; requests the stateless gates refuse change nothing.             *)
(***************************************************************************)
EXTENDS Naturals

CONSTANTS Lane,         \* requests in progress at one time
          Ip,
          PerIp,        \* PER_IP_DAILY
          Budget,       \* DAILY_BUDGET_USD, in units of cost
          MaxCost,      \* the most one call can cost
          MaxCalls,     \* bound on the requests of the day
          Stale         \* whether the store may answer with a value of before

ASSUME ProxyAssumption ==
    /\ PerIp \in Nat \ {0} /\ Budget \in Nat \ {0} /\ MaxCost \in Nat \ {0}
    /\ MaxCalls \in Nat /\ Stale \in BOOLEAN
    /\ "spend" \notin Ip

Key == Ip \cup {"spend"}

VARIABLES kv,           \* what each key holds
          far,          \* what a far reader is still given
          lane,         \* the requests, with what they have read
          served,       \* calls of each address that went through
          cost,         \* what they really cost
          calls,
          disturbed     \* what happened so far: "overlap", "stale" reads, "lost" writes

vars == << kv, far, lane, served, cost, calls, disturbed >>

Answered == {"idle", "rate_limit_error", "budget_exhausted"}
Charging == {"put spend", "put count"}

Reads(key) == {kv[key]} \cup (IF Stale THEN {far[key]} ELSE {})
At(pc, ip) == [pc |-> pc, ip |-> ip, ipCount |-> 0, spent |-> 0, cost |-> 0]
Answer(l, pc) == lane' = [lane EXCEPT ![l] = At(pc, @.ip)]

Notice(what, happens) ==
    disturbed' = IF happens THEN disturbed \cup {what} ELSE disturbed

Init ==
    /\ kv = [k \in Key |-> 0] /\ far = kv
    /\ \E ip \in Ip : lane = [l \in Lane |-> At("idle", ip)]
    /\ served = [ip \in Ip |-> 0] /\ cost = 0
    /\ calls = 0 /\ disturbed = {}

Arrive(l, ip) ==
    /\ lane[l].pc \in Answered /\ calls < MaxCalls
    /\ calls' = calls + 1
    /\ lane' = [lane EXCEPT ![l] = At("count", ip)]
    /\ Notice("overlap", \E m \in Lane : lane[m].pc \notin Answered)
    /\ UNCHANGED << kv, far, served, cost >>

\* Fault: one call too many is let through.
ReadCountLate(l) ==
    /\ lane[l].pc = "count"
    /\ \E ipCount \in Reads(lane[l].ip) :
          /\ IF ipCount > PerIp
             THEN Answer(l, "rate_limit_error")
             ELSE lane' = [lane EXCEPT ![l].pc = "budget", ![l].ipCount = ipCount]
          /\ Notice("stale", ipCount # kv[lane[l].ip])
    /\ UNCHANGED << kv, far, served, cost, calls >>

\* Gate 3.
ReadCount(l) ==
    /\ lane[l].pc = "count"
    /\ \E ipCount \in Reads(lane[l].ip) :
          /\ IF ipCount >= PerIp
             THEN Answer(l, "rate_limit_error")
             ELSE lane' = [lane EXCEPT ![l].pc = "budget", ![l].ipCount = ipCount]
          /\ Notice("stale", ipCount # kv[lane[l].ip])
    /\ UNCHANGED << kv, far, served, cost, calls >>

\* Gate 4.
ReadSpend(l) ==
    /\ lane[l].pc = "budget"
    /\ \E spent \in Reads("spend") :
          /\ IF spent >= Budget
             THEN Answer(l, "budget_exhausted")
             ELSE lane' = [lane EXCEPT ![l].pc = "relay", ![l].spent = spent]
          /\ Notice("stale", spent # kv["spend"])
    /\ UNCHANGED << kv, far, served, cost, calls >>

\* Fault: what upstream refuses is charged as well.
RelayChargesAll(l) ==
    /\ lane[l].pc = "relay"
    /\ \E c \in 1 .. MaxCost :
          /\ lane' = [lane EXCEPT ![l].pc = "put spend", ![l].cost = c]
          /\ \/ /\ served' = [served EXCEPT ![lane[l].ip] = @ + 1]
                /\ cost' = cost + c
             \/ UNCHANGED << served, cost >>
    /\ UNCHANGED << kv, far, calls, disturbed >>

\* The call goes through and is to be charged, or upstream refuses it.
Relay(l) ==
    /\ lane[l].pc = "relay"
    /\ \/ \E c \in 1 .. MaxCost :
             /\ lane' = [lane EXCEPT ![l].pc = "put spend", ![l].cost = c]
             /\ served' = [served EXCEPT ![lane[l].ip] = @ + 1]
             /\ cost' = cost + c
       \/ Answer(l, "idle") /\ UNCHANGED << served, cost >>
    /\ UNCHANGED << kv, far, calls, disturbed >>

PutSpend(l) ==
    /\ lane[l].pc = "put spend"
    /\ kv' = [kv EXCEPT !["spend"] = lane[l].spent + lane[l].cost]
    /\ lane' = [lane EXCEPT ![l].pc = "put count", ![l].spent = 0, ![l].cost = 0]
    /\ UNCHANGED << far, served, cost, calls, disturbed >>

PutCount(l) ==
    /\ lane[l].pc = "put count"
    /\ kv' = [kv EXCEPT ![lane[l].ip] = lane[l].ipCount + 1]
    /\ Answer(l, "idle")
    /\ UNCHANGED << far, served, cost, calls, disturbed >>

\* A read or a write of the store throws: a write that does skips what is left
\* of the accounting, and nothing of this is made good later.
Throw(l) ==
    /\ lane[l].pc \in {"count", "budget"} \cup Charging
    /\ Answer(l, "idle")
    /\ Notice("lost", lane[l].pc \in Charging)
    /\ UNCHANGED << kv, far, served, cost, calls >>

\* The store catches up at the far end.
Propagate(key) ==
    /\ Stale /\ far[key] # kv[key]
    /\ far' = [far EXCEPT ![key] = kv[key]]
    /\ UNCHANGED << kv, lane, served, cost, calls, disturbed >>

Next ==
    \/ \E l \in Lane : \/ \E ip \in Ip : Arrive(l, ip)
                       \/ ReadCount(l) \/ ReadSpend(l) \/ Relay(l)
                       \/ PutSpend(l) \/ PutCount(l) \/ Throw(l)
    \/ \E key \in Key : Propagate(key)

Spec == Init /\ [][Next]_vars
-----------------------------------------------------------------------------
TypeOK ==
    /\ kv \in [Key -> Nat] /\ far \in [Key -> Nat]
    /\ lane \in [Lane -> [pc : Answered \cup {"count", "budget", "relay"} \cup Charging,
                          ip : Ip, ipCount : Nat, spent : Nat, cost : Nat]]
    /\ served \in [Ip -> Nat] /\ cost \in Nat /\ calls \in Nat /\ disturbed \subseteq {"overlap", "stale", "lost"}

(* Nobody is turned away before the limit was really used up, whatever      *)
(* requests overlapped, writes were lost or went missing: a 429 is earned   *)
(* by PerIp calls of the address, or by calls worth the day's budget.       *)
DenialIsEarned ==
    \A l \in Lane :
        /\ lane[l].pc = "rate_limit_error" => served[lane[l].ip] >= PerIp
        /\ lane[l].pc = "budget_exhausted" => cost >= Budget

(* The gates hold for requests that come one after the other: an address    *)
(* gets PerIp calls, and the budget is passed by less than one call.        *)
SerialCallsKeepTheLimits ==
    disturbed = {} => /\ \A ip \in Ip : served[ip] <= PerIp
                      /\ cost < Budget + MaxCost

(* "KV is eventually consistent, so the gates are containment, not exact    *)
(* accounting; a racing burst can overshoot by a request or two, never by   *)
(* an unbounded amount" (infra/learn-proxy/src/index.js:17-19): with reads  *)
(* that are current and writes that all succeed, too.                       *)
OvershootIsARequestOrTwo ==
    disturbed \subseteq {"overlap"} => \A ip \in Ip : served[ip] <= PerIp + 2
=============================================================================
