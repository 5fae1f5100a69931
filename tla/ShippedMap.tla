------------------------------ MODULE ShippedMap ------------------------------
(***************************************************************************)
(* The operator DAG and the adapters the repository ships, put together: all *)
(* domains in the order of map_data._domains(), and for each code the        *)
(* sources a run of that code could register with the executor.              *)
(***************************************************************************)
EXTENDS ThermalTransport, Domains, Adapters

AllNodes == ThermalNodes \o OtherNodes
AllEdges == ThermalEdges \o OtherEdges

ShippedSpace == {AllNodes[i].name : i \in DOMAIN AllNodes}
Codes        == {ad.code : ad \in AllAdapters}

\* The spaces a code represents, and whether a value of one can be lifted: its
\* unit is declared and registered.
Represented(code) == UNION {{u[1] : u \in ad.units} \cup ad.bare :
                            ad \in {ad \in AllAdapters : ad.code = code}}
Liftable(code)    == UNION {{u[1] : u \in {u \in ad.units : \E v \in UNITS : v[1] = u[2]}} :
                            ad \in {ad \in AllAdapters : ad.code = code}}

\* What a code's user registers: every space its adapter represents, as the
\* code emits it or, if canonical, already in operator form where it must be.
SourcesOf(code, canonical) ==
    [s \in Represented(code) |->
        [space |-> s,
         form  |-> IF s \in Liftable(code) THEN "unit"
                   ELSE IF canonical THEN "operator" ELSE "bare"]]

\* "The operator layer is internally consistent" (operator/validate.py:43).
ASSUME MapIsClean == validate_dag(AllNodes, AllEdges) = {}
=============================================================================
