----------------------------- MODULE ShortLinks -----------------------------
(***************************************************************************)
(* The write surface of the site Worker, POST /s: a daily counter read       *)
(* before the body is awaited and written back at the end, a code looked up  *)
(* and then stored under.  The key-value store is the one of LearnProxy: a   *)
(* reader may be given the value of before (Stale).  A code is drawn from a  *)
(* set so small that two mints do draw the same one.                         *)
(***************************************************************************)
EXTENDS Naturals

CONSTANTS MintLane,         \* mints in progress at one time
          Address, Code, Body,
          None,             \* a code under which nothing is stored
          MINTS_PER_DAY,
          Attempts,         \* candidates a mint looks up before it gives up
          MaxMints,         \* bound on the requests
          StaleLookup       \* whether a read may miss what was just stored

ASSUME MintAssumption ==
    /\ MINTS_PER_DAY \in Nat /\ Attempts \in Nat /\ MaxMints \in Nat
    /\ Address # {} /\ Code # {} /\ Body # {} /\ None \notin Body

VARIABLES links,        \* what is stored under each code
          farLinks,     \* what a far reader is still given
          used,         \* the daily counters
          farUsed,      \* what a far reader is still given of them
          mint,         \* the mints in progress
          stored,       \* links really stored for each address
          issued,       \* the answers 201
          contested,    \* codes two mints held at a time, or a lookup missed
          mints

mvars == << links, farLinks, used, farUsed, mint, stored, issued, contested, mints >>

AnsweredMint == {"idle", "429"}
Holds(l, c) == mint[l].pc = "store" /\ mint[l].code = c
Finish(l) == mint' = [mint EXCEPT ![l].pc = "idle"]

MintInit ==
    /\ links = [c \in Code |-> None] /\ farLinks = links
    /\ used = [a \in Address |-> 0] /\ farUsed = used /\ stored = used
    /\ mint = [l \in MintLane |->
                  [pc |-> "idle", ip |-> CHOOSE a \in Address : TRUE,
                   body |-> CHOOSE b \in Body : TRUE, used |-> 0,
                   code |-> CHOOSE c \in Code : TRUE, attempts |-> 0]]
    /\ issued = {} /\ contested = {} /\ mints = 0

Post(l, a, b) ==
    /\ mint[l].pc \in AnsweredMint /\ mints < MaxMints
    /\ mints' = mints + 1
    /\ mint' = [mint EXCEPT ![l].pc = "limit", ![l].ip = a, ![l].body = b,
                            ![l].attempts = 0]
    /\ UNCHANGED << links, farLinks, used, farUsed, stored, issued, contested >>

Counter(l) == {used[mint[l].ip]} \cup (IF StaleLookup THEN {farUsed[mint[l].ip]} ELSE {})
Told(l, n) ==
    mint' = [mint EXCEPT ![l].pc = IF n >= MINTS_PER_DAY THEN "429" ELSE "validate",
                         ![l].used = n]

\* Fault: the counter is charged before anything is stored.
ReadLimitCharges(l) ==
    /\ mint[l].pc = "limit"
    /\ \E n \in Counter(l) : Told(l, n)
    /\ used' = [used EXCEPT ![mint[l].ip] = @ + 1]
    /\ UNCHANGED << links, farLinks, farUsed, stored, issued, contested, mints >>

ReadLimit(l) ==
    /\ mint[l].pc = "limit"
    /\ \E n \in Counter(l) : Told(l, n)
    /\ UNCHANGED << links, farLinks, used, farUsed, stored, issued, contested, mints >>

\* The body and the registry are awaited: a malformed set and one that cites
\* private evidence are refused, and so is all if the registry cannot be read.
Validate(l) ==
    /\ mint[l].pc = "validate"
    /\ mint' \in {[mint EXCEPT ![l].pc = pc] : pc \in {"draw", "idle"}}
    /\ UNCHANGED << links, farLinks, used, farUsed, stored, issued, contested, mints >>

\* Fault: the candidate is not looked up.
DrawBlindly(l, c) ==
    /\ mint[l].pc = "draw" /\ mint[l].attempts < Attempts
    /\ mint' = [mint EXCEPT ![l].pc = "store", ![l].code = c]
    /\ contested' = IF \E m \in MintLane \ {l} : Holds(m, c)
                    THEN contested \cup {c} ELSE contested
    /\ UNCHANGED << links, farLinks, used, farUsed, stored, issued, mints >>

Draw(l, c) ==
    /\ mint[l].pc = "draw" /\ mint[l].attempts < Attempts
    /\ \E found \in {links[c]} \cup (IF StaleLookup THEN {farLinks[c]} ELSE {}) :
          IF found = None
          THEN /\ mint' = [mint EXCEPT ![l].pc = "store", ![l].code = c]
               /\ contested' = IF links[c] # None \/ \E m \in MintLane \ {l} : Holds(m, c)
                               THEN contested \cup {c} ELSE contested
          ELSE /\ mint' = [mint EXCEPT ![l].attempts = @ + 1]
               /\ UNCHANGED contested
    /\ UNCHANGED << links, farLinks, used, farUsed, stored, issued, mints >>

NoCode(l) ==
    /\ mint[l].pc = "draw" /\ mint[l].attempts = Attempts
    /\ Finish(l)
    /\ UNCHANGED << links, farLinks, used, farUsed, stored, issued, contested, mints >>

Store(l) ==
    /\ mint[l].pc = "store"
    /\ links' = [links EXCEPT ![mint[l].code] = mint[l].body]
    /\ stored' = [stored EXCEPT ![mint[l].ip] = @ + 1]
    /\ mint' = [mint EXCEPT ![l].pc = "charge"]
    /\ UNCHANGED << farLinks, used, farUsed, issued, contested, mints >>

Charge(l) ==
    /\ mint[l].pc = "charge"
    /\ used' = [used EXCEPT ![mint[l].ip] = mint[l].used + 1]
    /\ issued' = issued \cup {[code |-> mint[l].code, body |-> mint[l].body]}
    /\ Finish(l)
    /\ UNCHANGED << links, farLinks, farUsed, stored, contested, mints >>

\* The store throws: the answer is a 500, after the link was stored too.
Fail(l) ==
    /\ mint[l].pc \in {"limit", "draw", "store", "charge"}
    /\ Finish(l)
    /\ UNCHANGED << links, farLinks, used, farUsed, stored, issued, contested, mints >>

CatchUp(c) ==
    /\ StaleLookup /\ farLinks[c] # links[c]
    /\ farLinks' = [farLinks EXCEPT ![c] = links[c]]
    /\ UNCHANGED << links, used, farUsed, mint, stored, issued, contested, mints >>

CatchUpCounter(a) ==
    /\ StaleLookup /\ farUsed[a] # used[a]
    /\ farUsed' = [farUsed EXCEPT ![a] = used[a]]
    /\ UNCHANGED << links, farLinks, used, mint, stored, issued, contested, mints >>

MintNext ==
    \/ \E l \in MintLane :
          \/ \E a \in Address, b \in Body : Post(l, a, b)
          \/ ReadLimit(l) \/ Validate(l) \/ NoCode(l) \/ Store(l) \/ Charge(l) \/ Fail(l)
          \/ \E c \in Code : Draw(l, c)
    \/ \E c \in Code : CatchUp(c)
    \/ \E a \in Address : CatchUpCounter(a)

MintSpec == MintInit /\ [][MintNext]_mvars
-----------------------------------------------------------------------------
MintTypeOK ==
    /\ links \in [Code -> Body \cup {None}] /\ farLinks \in [Code -> Body \cup {None}]
    /\ used \in [Address -> Nat] /\ farUsed \in [Address -> Nat] /\ stored \in [Address -> Nat]
    /\ mint \in [MintLane ->
                   [pc : AnsweredMint \cup {"limit", "validate", "draw", "store", "charge"},
                    ip : Address, body : Body, used : Nat, code : Code, attempts : Nat]]
    /\ issued \subseteq [code : Code, body : Body]
    /\ contested \subseteq Code /\ mints \in Nat

(* A link that was handed out keeps its bytes, through failed and repeated   *)
(* mints and any number of collisions that the lookup sees: only a code that *)
(* two mints held at once, or that a lookup did not see yet, can be          *)
(* overwritten ("codes are ... collision-checked", shortlinks.js:13).        *)
IssuedLinksKeep ==
    \A i \in issued : links[i.code] = i.body \/ i.code \in contested

(* The daily limit turns nobody away early: lost and missing updates of the  *)
(* counter only ever make it too small.                                      *)
LimitIsEarned ==
    \A l \in MintLane : mint[l].pc = "429" => stored[mint[l].ip] >= MINTS_PER_DAY
=============================================================================
