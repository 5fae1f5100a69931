# A verification model of the openmaterials map

OpenMaterials keeps a *map*: typed physical quantities (nodes) related by
executable formulas (edges), held in a log-first, content-addressed store
(`map/log.jsonl`, `omai/store.py`). Contributions enter through gates
(`omai/gates.py`); a sync tool (`omai/sync.py`) proposes the differences between
the Python operator layer and the map; an executor computes a quantity by walking
the edges; and services around the map record evidence, freeze share links, mint
short links, meter a language-model proxy, and accept requests for external solves.

This directory models these parts in TLA+, checks them with TLC, and proves with
TLAPS what the runs check of the store, the sync tool, the executor, the topological
order, the two workers, the record files, the snapshots and the external-solve gate,
liveness excepted.

## 1. Inventory

| Component | State it keeps | Operations | Interacts with | What is hard | What makes it correct |
|---|---|---|---|---|---|
| Map store (`omai/store.py`) | `log.jsonl`, `current/nodes.json`, `current/edges.json` | `push`, `propose`, `read`, `diff`, `verify`, `head` | gates (called by `propose`), every reader | no lock between processes; six file accesses per record; crashes between and inside them | the log is a tree (a chain for one writer), versions are stable, forks are reported, the view is what the records say, an edge never dangles |
| Gates (`omai/gates.py`) | none | `validate_contribution`, `no_op_indices` | store view, registries | validate a whole contribution against a view that is stale when it lands | a re-proposal is a no-op; what a crash left undone can be proposed |
| Sync (`omai/sync.py`) | none of its own: layer and map | `compute_sync`, `main --apply` | genesis payload builder, `Store.propose`, people | greedy pairing, supersede flow over several runs, reverts, crashes | idempotent; never lands a re-mint silently; converges |
| Genesis (`omai/genesis.py`), identity (`omai/operator/identity.py`) | a fresh store, `GENESIS` | `run_genesis`; uids, `version_hash` | store (ungated `push`) | run twice, or dying half-way | equal identity iff equal uid |
| Operator layer (`omai/operator`) | tuples of nodes and edges | `topological_order`, `validate_dag` | domains | alternative producers, one operator reached many times | every producer before its consumers; an error only on a cycle |
| Executor (`omai/representation/executor.py`) | `memo`, `trace`, the call stack of `resolve` | `compute`, `apply_edge` | operator layer, adapters | a lazy memoised walk: sources under wrong names, producers that are not executable, cycles | returns exactly what is derivable, by a plan, doing only what is needed |
| Domains (`omai/thermal_transport`, twelve others) | declarations | registered in a fixed order | executor, sync | hand-written graph of 134 nodes and as many edges | passes `validate_dag`, has an order, every code's sources reach what they should |
| Code adapters (`*/representation/*.py`, `units.py`) | declarations | which space, in which unit | executor | spaces without units, units out of the registry | a registered value can be lifted |
| External solve (`omai/external_solve.py`) | none; pins a map version | `validate_request_snapshot`, receipts | store head, read at a version | a push between two reads | a request is accepted only if it is valid in the live map |
| Lineages (`omai/lineages.py`), instances (`omai/map_data.py`), claims (`omai/paper_parser/propose.py`) | record files with slugs | `record_simulation`, `record_instance`, `apply_proposal` | one directory | search for a free name, then write; a proposal that dies half-way | never another content under a returned path; a rerun completes |
| Snapshots (`omai/snapshots.py`, `docs/assets/share.js`) | `<hash>.json` files, `index.json` | `write_snapshot`, `encode`, `decode`, lookup by prefix | site worker | death between the files, branches merged, links opened much later | a link opens the selection it was made of |
| Site worker (`infra/site/src`) | key-value pairs | `POST /s`, resolve, raw | registry asset | look up, then put, over an eventually consistent store | a code keeps its bytes; the limit is earned |
| Learn proxy (`infra/learn-proxy/src/index.js`) | daily count and spend | `fetch` | upstream API | check before, charge after, overlapping requests | nobody is turned away early; the overshoot is contained |
| Evidence (`omai/evidence.py`), overlays (`omai/overlays.py`) | registries; a second store | validation; overlay `read` | gates' vocabulary | one record at a time | section 5 |
| Rest of paper parser and map data, registry and formulas, rendering, Lean | generated files | pure functions | the map | none of the above | section 5 |

## 2. Modules

| Module | Models | State and actions |
|---|---|---|
| `Enumeration` | `sorted()` and comprehensions with a condition, in a form that can be proved about | operators only |
| `MapLog` | records, version chain, `_apply`, replay, `read(version)`, `verify` | operators only |
| `MapGates` | no-ops, reachability, connectivity | operators only |
| `MapContract` | what the store promises: a map that changes one record at a time | `map`, `asked`, `left`; `Admit`, `Land`, `Drop` |
| `MapStore` | `propose`/`push` of several processes, crashes, restarts | `log`, `tail`, `nodesFile`, `edgesFile` (the disk); `pc`, `asked`, `left`, `landed`, `seen` (each process); one action per file access |
| `MapSync` | `compute_sync`, `main --apply`, edits of the layer, the people who act on the reports | `python`, `map`, `order`, `said`, `printed`; one action per outcome of a run |
| `OperatorGraph` | an edge and a tuple of edges; first producer, cycles | operators only |
| `Executor` | `compute` | `edges`, `sources`, `target` (given), `stack`, `memo`, `trace`, `outcome`; one action per branch of `resolve` |
| `TopologicalOrder` | `topological_order` | `operators` (given), `next`, `visits`, `result`, `ended`; entering, descending into and leaving a visit |
| `MapElements` | constructors of nodes and edges, `validate_dag` | operators only |
| `ThermalTransport`, `Domains` | the nodes and edges the repository ships, in the order it registers them | constants only |
| `Adapters` | the spaces each code represents, units and their registry | constants only |
| `ShippedMap` | all domains together, the sources of each code | constants, and the assumption `MapIsClean` (`validate_dag` finds nothing) |
| `LearnProxy` | the proxy's `fetch` | `kv`, `far` (an older replica), `lane`; ghosts `served`, `cost`, `disturbed`; one action per await |
| `ShortLinks` | `POST /s` | `links`, `used`, their older replicas `farLinks`, `farUsed`, `mint`; ghosts `stored`, `issued`, `contested`; one action per await |
| `Snapshots` | `write_snapshot`, merged branches, `encode`/`decode`, what a link opens | the files, the index, a link |
| `RecordFiles` | name search and write of records; `apply_proposal`, reruns, deaths | `dir`, `proc`, `job`; ghosts `kept`, `shared`, `dead`, `runs` |
| `ExternalSolve` | the live-map gate, against writers that push from current and stale copies | `log`, `copy`, `request`, `pc`, `headSeen`, `verdict` |
| `EnumerationProofs`, `MapLogProofs` | lemmas: least numbers, what `Sorted` and `Kept` return, `replay` | — |
| `MapStoreProofs`, `MapContractProofs`, `MapSyncProofs`, `OperatorsProofs`, `ServicesProofs`, `ExternalSolveProofs` | theorems | — |
| `MCMapStore`, `MCMapRepair`, `MCMapSync`, `MCOperators`, `MCShipped`, `MCServices` | instances for TLC | — |

How they are put together. `MapStore` extends `MapGates` extends `MapLog`;
`MapStore` instantiates `MapContract` through a refinement mapping; `MapSync`
takes the store at that contract (what the gates accept lands record by record, a
crash leaves a prefix). `ExternalSolve` extends `MapLog` too: the log, its heads
and its reads are the store's. `Executor` and `TopologicalOrder` extend
`OperatorGraph`; `MCOperators` and `MCShipped` extend both, and a behaviour is one
walk of either. `ShippedMap` extends `ThermalTransport`, `Domains` and `Adapters`,
which extend `MapElements`. `MapSync`, `Snapshots` and `RecordFiles` extend
`Enumeration`. `MCServices` takes the five parts around the map,
which share no state: each of its behaviours is one of theirs (`part`).

How the model reads the code:

- **Uids and versions.** A uid is the hash of an identity, so it stands for the
  identity, and an edge uid determines its endpoints (`Ends`). A version is the
  history it commits to. Two records that are byte-identical (same author, date,
  reason, which is the worst case) therefore have the same version, as in the code.
- **A push** is `PushRead` (`_records()`, from which `seq` and `prev` are taken),
  `PushAppend` (the line), and `_materialize` of the copy that was read plus the new
  record: `OpenNodes`, `PushNodes`, `OpenEdges`, `PushEdges`. `write_text` truncates
  and then writes, so each file is empty in between, and two writers may have one
  open at once. The loop of `propose` goes round, or returns, at the end of `PushEdges`.
- **The end of the log** is `tail`: after a crash inside the append the last line
  may be *torn* (every later `_records()` raises) or complete but *unterminated*
  (the next append glues its line to it, and the log is torn then).
- **current/** may be left as it was, `Empty` or `Garbled` by a crash. A writer that
  writes into a file another has filled since it was emptied leaves its own content or
  a mixture (`Written`): `Garbled` stands for every content that is no writer's.
- **Refusals** raise before anything is written and are no step of the store. In
  `MapSync`, where what the tool reports is part of the flow, they are steps.
- **Element-level gates** (registry, uid recomputation, gauge, dimensions) look at
  one element and fixed tables: `Sound` is the set of uids that pass.
- **Pairing in the sync tool** is greedy in the order of two dicts: within an
  anchor the k-th unmatched store element takes the k-th new uid. `order` is the
  order of the store's dict, `Rank` the one in which the layer is walked.
- **Recursive calls** (`resolve`, `visit`) are stacks of frames, so that a call in
  progress is state. A `resolve` that is called for a space it is already resolving
  does from there what it did before, for ever, until Python's limit stops it: the
  model raises `RecursionError` at that call.
- **A formula** is what the walkers ask of it: does the edge count as executable
  (`is_executable_in_sympy`), and does `apply_edge` come to an end with it
  (`evaluates`). What may go wrong between reading the formula and rescaling the result
  (`executor.py:271-556`) is one outcome, `EvaluationError`. For the shipped edges
  `evaluates` is read off the formula each declares: twelve are `Unevaluable`, and the
  other executable ones evaluate on inputs of their declared shape, with every plain
  symbol that is no input supplied as a constant. **A value** is the space it
  is really of, whatever name it was registered under, and whether it can be lifted.
  User `constants` are taken to be supplied; the numbers are left out.
- **The workers' store** keeps the last value written to a key; a reader may be
  given the one before (`Stale`, `StaleLookup`; links and counters alike), and a write may
  throw. One day.
- **Record files** share one slug, which is the case where names collide; a write
  truncates and then fills, and a process may die at either.
- **An external-solve request** names an edge, its ends and a target; its lineage
  names the same target. What can be checked on the request alone is taken to hold.

Operators whose comment starts with *Fault* are deliberately wrong variants of the
definition below them; a property is worth keeping if one of them breaks it.

## 3. Runs

All with two workers; times on a small machine.

| Run | Bounds | Checks | Size |
|---|---|---|---|
| `store_race` | 2 writers, log up to 4 (+ what is in flight), 1 crash; node+edge, bare edge, two refused orders, a deprecation | `TypeOK` `Rooted` `NoDanglingEdge` `HeadReadsCurrentMap` `StaleAppendIsReported` `VersionStable` `ReturnedVersionHoldsContribution` `ContractSpec` `RevivalIsARace` | 209k states (writers interchangeable), 100 s |
| `store_serial` | 1 writer, log up to 6, 2 crashes, every op | `SerialChain` `ReproposalPushesNothing` `ReplayMeansLatest` `RetiredStaysRetired` `PushRepairsCurrent` | 553k states, 1 min |
| `store_repair` | 2 writers, log up to 5 over a genesis of 3, 1 crash; a contribution of 3 edges and a node, parts of it, one that hangs on its new node | `CrashIsRepairable` `NoIslands` | 736k states (writers interchangeable), 90 s |
| `store_partial_write` | 1 writer, 1 crash | `PartialWriteIsSurfaced`, **violated** | 1 s |
| `sync` | 7 layers, 2 edits, 1 crash | `TypeOK` `AppliedMeansAgreed` `NoSilentReMint` `Converges` | 2k states, 25 s |
| `sync_agree` | 6 layers, 3 edits, 1 crash | `InSyncMeansAgree`, **violated** | 1 s |
| `sync_route` | 2 layers, 1 edit, no crash | `PrintedRouteConverges`, **violated** | 5 s |
| `operators` | 3 spaces, every tuple of up to 3 edges, cyclic ones included; every target; sources right, wrong, bare, missing | `TypeOK` `ReturnsDerivable` `RefusesUnderivable` `TraceIsAPlan` `OnlyNeeded` `Ordered` `RaisesOnCycle` `Terminates` | 663k states, 1 min |
| `shipped` | the whole shipped map; every target from the sources of every code, as emitted and in operator form, and from every space no edge can compute | `ShippedExact` `ShippedOrdered` | 19k states, 40 s |
| `shipped_failures` | as above | `ClosedFormEvaluates`, **violated** | 11 s |
| `services` | proxy: 2 lanes, 2 addresses, 3 calls, limit 2, budget 3, cost up to 2. Mints: 2 at a time, 3 in all, 2 codes, limit 2, 2 attempts. Snapshots: 3, of which two share a prefix, 3 writes, 2 merges. Files: 2 processes, 3 runs. Solves: log up to 8 over a genesis of 5, 1 request of 4 | `DenialIsEarned` `SerialCallsKeepTheLimits` `IssuedLinksKeep` `LimitIsEarned` `IndexListsTheFiles` `LinksOpenTheirSelection` `KeptRecordsStay` `RerunCompletes` `RefusalHasItsReason` `AcceptedIsLive` | 2.0M states, 2 min |
| `learn_burst` | 2 lanes, limit 3, 9 calls, current reads | `OvershootIsARequestOrTwo`, **violated** | 1 s |

Why the bounds are enough to be interesting. Two writers and a genesis of one
record give forks, duplicate records, and a writer that overtakes another between
any two of its file accesses; a third writer adds no new relation between a
stale copy and the log. `MaxLog` stops new *proposals*, not pushes in flight, so
forks after the bound are still explored. In
`store_repair` one writer proposes a node and an edge to a node of the other's
contribution, between the landing of that node and of the edge that ties it. Six records let one entry be added,
edited, superseded, deprecated, and proposed again after a crash. The layers of
`sync` re-mint a node and one or both of two edges with one anchor, extend the
map, take everything away, and bring a node no edge ties to the map (which the
gates refuse). Three edges over three spaces give alternative producers, diamonds,
self-loops, cycles through a first and through a later producer, edges without
inputs, with two outputs, and ones that cannot be executed; `shipped` has the real
graph beside them. For the workers, two requests at a time are what a lost update
needs, a limit of two lets a lost one be noticed, and two codes make collisions and
exhausted attempts common. Three snapshots give one with the same node order
shifted, one with nodes gone, and an ambiguous prefix; `BYTE` is 2 bits, so
selections end inside and at a byte. Three pushes during one solve request let it
be overtaken at each of its reads, also by a writer with a stale copy.

Deadlock is checked in the runs of the sync tool, which can always be run again, and
of the walks (`operators`, `shipped*`), whose only stop is a walk that has returned
or raised, a stuttering step of its own. It is not in the store's, where proposals
stop at the bound and a torn log stops every process, nor in `services` and
`learn_burst`, where requests and runs are bounded.

### What the runs show

With racing writers the store keeps more than its serial description suggests:
the log is always a tree of correctly hashed records rooted in the genesis prev,
what a version reads as never changes, a fork is reported by both the chain and
the seq check from the step that makes it and for ever after, and no interleaving or
crash gives the map an edge without its endpoints. Every behaviour is one of
`MapContract`. Nor do races leave the map in pieces: the connectivity gate looks at a
view in which the contributions of others are half landed, and may accept additions
that hang on a node with no edge yet; `NoIslands` shows that the edge is then under way,
so that without a crash what was added is in one piece with the genesis map.

Some properties hold for one writer only, and the configurations say so. With two,
a fork breaks `SerialChain`; a duplicate add revives a retired entry
(`RetiredStaysRetired`); and a slow writer can leave `current/` behind the log
(`PushRepairsCurrent`). Nothing in the repository promises these for racing
writers, and the first and the last are reported by `verify()`. What is left of the
second is `RevivalIsARace`: the addition that revives an entry was under way when the
entry was retired, since nobody starts to add a node that the map has.

A contribution that a crash cut short may be *refused* when it is proposed again,
since the edges that landed no longer count for connectivity. `CrashIsRepairable`
shows what remains true: each connected component of what is missing is accepted.

`compute` is exact for the rule it documents, that the first declared producer of a
space is the one used: what it returns is derivable, and when it gives up (other
than on a source registered under the wrong name) nothing derives the target. It
loads only what the target needs, and its trace is a plan. "Derivable" is by edges that evaluate. A call that goes round a cycle
ends by Python's recursion limit only. `topological_order` follows *all*
producers, and raises on exactly the graphs that have a cycle through what it
visits. The shipped map is clean, has an order, and every target is returned from a
code's sources exactly when it is derivable from them.

Around the map: whatever overlaps, is stale or is lost, no 429 is given early; a
minted link keeps its bytes unless two mints held one code at a time or a lookup
missed it; a share link opens what was selected, over later snapshots and merges;
a record path that was returned keeps its content unless two processes share the
directory; a proposal applied again completes, whatever files a death cut short. `AcceptedIsLive` needs the proviso
that no version names two lines: after two equal records were raced the head read
last may be the version read first at another line.

Five statements of the repository do not hold, each shown by a run:

1. `store_partial_write`: "the only partial-write risk is a crash part-way through
   the loop, which `verify()` would surface" (`omai/store.py:214-217`). A crash
   between two pushes leaves a store that `verify()` calls clean.
2. `sync_agree`: "in sync: the Python operator layer and the store agree"
   (`omai/sync.py:219`). It is also printed when the layer has gone back to an
   identity the map has superseded or deprecated.
3. `sync_route`: "Write an explicit supersede ..., then re-run --apply on the
   remaining add / edit_meta" (`omai/sync.py:233-235`). When two re-minted edges
   share no node, `--apply` is refused on every run.
4. `shipped_failures`: "The closed-form subset (per-mode thermodynamics, identity
   edges, Matthiessen sums, Wigner combination, contractions) can be evaluated directly
   off the sympy formula ...; implicit edges ... require an adapter-owned external
   solver and the executor raises `ExternalSolveRequired` for those"
   (`omai/representation/executor.py:8-14`). Twelve shipped edges count as executable
   and cannot be evaluated, so `compute` calls for all their inputs and then fails:

   | Edges | Why `apply_edge` fails |
   |---|---|
   | `resolve_thermal_conductivity`, `resolve_effective_conductivity` | sympy folds the formula `Eq(k, k)` to `True` (`executor.py:276`) |
   | `compute_force_constants[order=2]` and `[order=3]`, `compute_conductance[transport_model=landauer]`, `compute_dos` | a derivative, an integral or an undefined function is left in the generated code (`executor.py:454`, `539-548`) |
   | `compute_reaction_energy` | a `Sum` over a base that is no input (`executor.py:422`) |
   | `contract_pressure`, `contract_bulk_modulus`, `contract_shear_modulus` | an index repeated within one base (`executor.py:670`) |
   | `contract_interface_conductance[transport_model=nemd]` | no symbol for the input (`executor.py:355`) |
   | `contract_youngs_modulus` | the output's unit has no scale (`executor.py:556`, `units.py:407`), though `omai/mechanics/operator/edges.py:220-223` calls the edge "sympy-executable" and gives its value |

5. `learn_burst`: "a racing burst can overshoot by a request or two, never by an
   unbounded amount" (`infra/learn-proxy/src/index.js:17-19`). A slow call writes
   back the count it read plus one (`index.js:130-131`), which forgets every call
   counted meanwhile: the address has nearly its whole limit again.

### Fairness

The store's specification has none: nothing obliges a process to go on. `MapSync`
assumes that the tool is run again and again (weak fairness of its outcomes;
`ApplyRefused` and `ApplyCrashes` are not relied on) and that a person acts on
what a run printed (strong fairness of `WriteSupersede` and `WriteDeprecate`,
since an edit or another run may come in between). Edits of the layer are bounded
and not fair, so `Converges` speaks of a layer that is eventually left alone. It
says that the tool ends in sync, or that nothing is re-minted and the gates refuse
what is left (`sync_route` is that case; a crash makes one when it lands the one
edge that ties the others). `Terminates` assumes weak fairness of the next step of
a call: sequential code that has been entered goes on. The services have none, and
no liveness is claimed of them: a request may be dropped at any await.

## 4. Proofs

Each theorem holds for every value of the constants that meets the module's
assumptions (`UidAssumption`, `StoreAssumption`, `SyncAssumption`,
`ProxyAssumption`, `MintAssumption`, `SnapshotAssumption`, `RecordAssumption`,
`SolveAssumption`, each of which TLC evaluates in a run): any set of writers,
contributions, layers, edges, requests, records, and any bounds. The further
assumptions are the hypotheses of single theorems; the instances of `store_serial` and
`store_repair` meet those on the genesis and on the contributions, and `store_serial` has
the one writer.

| Theorem | Statement | Further assumption |
|---|---|---|
| `TypeCorrect` | `Spec => []TypeOK` (store) | |
| `LogIsRooted` | `Spec => []Rooted` | |
| `HeadIsCurrentMap` | `Spec => []HeadReadsCurrentMap` | the genesis log is not empty |
| `VersionsAreStable` | `Spec => VersionStable` | |
| `ForksAreReported` | `Spec => StaleAppendIsReported` | |
| `CurrentIsAMapOfTheLog` | `Spec => []CurrentIsOfOneLine` (in `MapStoreProofs`) | |
| `SerialLogIsChain` | `Spec => []SerialChain` | one writer |
| `SerialPushRepairs` | `Spec => PushRepairsCurrent` | one writer |
| `SerialPushVerifies` | `Spec => PushVerifies` (in `MapStoreProofs`) | one writer |
| `StoreImplementsContract` | `Spec => ContractSpec` | |
| `EdgesNeverDangle` | `Spec => []NoDanglingEdge` | no edge dangles at genesis |
| `ProposedAgainPushesNothing` | `Spec => []ReproposalPushesNothing` | no edge dangles at genesis; additions name uids of their kind |
| `ReturnedVersionsHold` | `Spec => ReturnedVersionHoldsContribution` | the genesis log is not empty |
| `ReplayIsTheLatest` | `Spec => []ReplayMeansLatest` | additions name uids of their kind, at genesis too |
| `CrashesAreRepairable` | `Spec => []CrashIsRepairable` | no edge dangles at genesis; additions name uids of their kind, one each |
| `RetiredIsForGood` | `Spec => RetiredStaysRetired` | one writer; additions name uids of their kind, one each, at genesis too; no contribution adds a node that it retired before, or supersedes by nothing |
| `RevivalsAreRaces` | `Spec => RevivalIsARace` | additions name uids of their kind, one each, at genesis too; a supersede names a successor |
| `IslandsAreTemporary` | `Spec => []NoIslands` | additions name uids of their kind, one each |
| `SyncTypeCorrect` | `Spec => []TypeOK` (sync) | |
| `OneApplyIsEnough` | `Spec => []AppliedMeansAgreed` | |
| `ReMintsAreNeverAdded` | `Spec => NoSilentReMint` | |
| `ReportsOnlyShrink` | `Spec => ReportsShrink` (in `MapSyncProofs`) | |
| `ComputeTypes` | `Spec => []TypeOK` (executor) | |
| `ComputeIsSound` | `Spec => []ReturnsDerivable` | |
| `ComputeIsComplete` | `Spec => []RefusesUnderivable` | |
| `ComputeIsLazy` | `Spec => []OnlyNeeded` | |
| `TraceIsPlanned` | `Spec => []TraceIsAPlan` | |
| `ReturnsAnOrder` | `OrderSpec => []Ordered` | |
| `RaisesOnlyOnCycles` | `OrderSpec => []RaisesOnCycle` | |
| `ComputeEnds` | `Spec => ComputeComesCloser` (in `OperatorsProofs`) | finitely many spaces |
| `OrderEnds` | `OrderSpec => OrderComesCloser` (in `OperatorsProofs`) | |
| `NobodyIsTurnedAwayEarly` | `Spec => []DenialIsEarned` | |
| `SerialCallsAreLimited` | `Spec => []SerialCallsKeepTheLimits` | |
| `LinksKeepTheirBytes` | `MintSpec => []IssuedLinksKeep` | |
| `MintLimitIsEarned` | `MintSpec => []LimitIsEarned` | |
| `ReturnedPathsKeepTheirRecord` | `RecordSpec => []KeptRecordsStay` | |
| `RerunsComplete` | `RecordSpec => []RerunCompletes` | |
| `IndexIsComplete` | `SnapshotSpec => []IndexListsTheFiles` | |
| `LinksStayTrue` | `SnapshotSpec => []LinksOpenTheirSelection` | |
| `AcceptedRequestsAreLive` | `SolveSpec => AcceptedIsLive` | |
| `RefusalsHaveReasons` | `SolveSpec => []RefusalHasItsReason` | |

**The store.** `TypeInv` adds to `TypeOK` what the program counter says of the
local variables (a writer between `read` and the end of a push has a record left).
`LogInv` adds the three facts that make the log's properties inductive: the copy a
writer took is a prefix of the log (`SeenIsPrefix`), the log is `Rooted`, and each
record's seq is the length of the history it commits to (`SeqIsDepth`). The last
one is why versions at different depths differ, hence why a linked log has no
version twice, and why a stale append breaks both checks of `verify()`. `Rooted`
is not inductive without the prefix: the record is made from the copy and appended
to the log. `SerialInv` says that with one writer the copy *is* the log.
`Rewriting` carries `PushRepairsCurrent`: with one writer, while `current/` is being
rewritten the log is the copy plus the record, and the nodes file is already its
replay when the edges file is next. `SerialPushVerifies` adds what the chain and the
versions give: such a push leaves nothing for `verify()` but records of unknown uids.
With any number of writers `CurrentInv` says what the files of `current/` can be: the
record a writer is materializing is a line of the log behind the copy that it read
(`OnALine`), so a file that is neither empty nor garbled is the genesis map, or the map
of one line and of the history it was made from. Which of the two a file is when writers
had it open at once is not said: the code excludes no mixture. Torn logs are left out:
there the last line is not a record.

The contract's mapping reads the abstract map off the log, and a record as landed
when its line is there, so `PushAppend` (or a crash that loses only the newline) is
the abstract `Land`; `MapContractProofs` first sorts every step of the store into
admitting, landing and dropping (`LandingStep`) and then maps it. `EdgeInv`
carries `NoDanglingEdge`: for each writer, the endpoints of the edges it has still
to land are in the map or among the nodes it lands first (`Covered`). Since no op
removes a node, other writers cannot break it, which is why gates evaluated on a
stale view are enough.
`KindInv` (nodes are nodes, edges are edges, in the map and in what is proposed) and
`NoDanglingEdge` together give `ReproposalPushesNothing`: every addition is a no-op,
and what the gates still ask, endpoints that are there, holds of the map already.
`ReturnInv` carries `ReturnedVersionHoldsContribution`: what a writer has not still to
land is held by the log, what it has not still to push is held by its copy, and the
record of a push under way is on some line (`Placed`). On a chain the history of that
line is the copy and the record (`PlacedReads`), so the version that is returned reads
as a map with the whole contribution, whatever others appended in between. On a fork
one version can name two lines and `read()` stops at the first, which is why the
property asks for a chain.

`ReplayIsTheLatest` is about what `replay` computes for every log. `EntryAppend` and
`MeansLatestAppend` show that one more record takes the latest values to the latest
values, op by op; `ReplayIsLatest` takes the least prefix for which the equality fails.

`CrashInv` carries `CrashIsRepairable`. The gates are asked about a contribution once,
against one view; what is proposed again after a crash meets another. Three things they
found survive races and the crash (`RepairInv`): an endpoint is in the map or added by
an earlier record that is left too (`CoveredLeft`), what is not left is in the map, and
all that the contribution had to add hangs together and on the map (`HangsOn`). A
component of what is left is therefore the whole, which hung on the map when it was
proposed, or was tied to the rest by an edge that has landed, whose ends are in the
map by `NoDanglingEdge` (`ComponentHangsOn`).
`RetireInv` carries `RetiredStaysRetired`: a mark is cleared only by adding the
node again, so it says that no node a writer has still to add is retired
(`AdditionsUnretired`). With one writer this is so when the contribution is taken up
(the node was not there), and stays so unless the contribution retires it itself;
the gates do not exclude that, and the theorem has it as an assumption. With several
writers the invariant is false. `RaceInv` (kinds, and supersedes that name a successor)
gives `RevivalIsARace` instead: a node of the map is a no-op for whoever takes up a
contribution now, so additions of it are only those begun before (`NoNewAddition`), and
no other record clears a mark (`MarksStay`).

`IslandInv` carries `NoIslands`, which is not inductive: a contribution accepted while
another lands is tied to nodes that are still to come. `TiedToGenesis` speaks of those
too: a set of nodes, some of them in the map or coming (`Coming`), that no edge of the
map and no edge under way crosses (`Uncrossed`), holds a node of the genesis. A landing
moves an edge from what is under way to the map. A contribution that is taken up adds
edges, and connectivity says that a set none of them crosses holds all of its nodes or
none; if all, it holds the node of the map it is attached to, which was there before, and
the invariant speaks of it. A dropped contribution would take its edges away, which is
why a crash is excluded (`NoneDied`): `store_partial_write` is that case.

`MapLogProofs` has what these rest on: existence and agreement of the recursive
function behind `replay`, and its two equations `ReplayEmpty` and `ReplayAppend`.
`EnumerationProofs` has a least-number principle from the well-foundedness of `<` on
the naturals (used in place of induction, which takes an operator as a parameter),
and shows that `Sorted` returns each element once, in the order of the ranks, by
counting those that come earlier.

**The sync tool.** `LandedIs` says what landing any list of records of one uid each
does to the view, in one formula for its uids, their metadata and the entries it
does not name; `PlacedIs` does so for the order of the dicts, and `RecordsAre` says
that the contribution of `--apply`, and each part of it that a crash leaves, is such
a list. `SyncInv` is `TypeOK` with what the entries of the view have and `Settled`: after
an `--apply` the layer has no uid that the store does not know. That is more than
`AppliedMeansAgreed` says, and what keeps it true when a person then writes a supersede
or a deprecation, after which other elements are paired. `ReMintsAreNeverAdded`
rests on the greedy pairing (`FirstsArePaired`): if some lost element
and some new one share an anchor, so do the first of each in their orders; both
are number one of that anchor, so they are paired and `--apply` writes nothing.
`ReportsOnlyShrink` is the safety half of `Converges`: while the layer is left alone no
step brings an element into what a run reports as lost, as new or as different, an
`--apply` empties the last two, a deprecation takes out its element, and a supersede
that was printed retires the element it was printed for (`PrintedLost`: that is still
an element of the store which the layer lost).

**The executor.** `IInv` is `TypeOK` with five facts about the stack and the memo:
each frame is a call for an output of the first producer it uses, with what it has
asked for so far in the memo (`Frames`); the frame below waits for the one above
(`Chain`); what is in the memo is in every closed set that holds the sources
(`Sound`); what was loaded or is being asked for is needed (`Lazy`); and what an
ended call says of its target (`Ended`). A refusal is proved complete by a closed set that leaves
the target out, built from the stack: the chain of frames hands the missing input
down to the target. `Plan` (each space made once, the memo is what the trace made,
an edge's inputs before the edge) gives the trace. `ComputeEnds` has the variant of
the recursion: at each step of a running call the triple of the number of spaces not
resolved, of those no call is in progress for, and of the inputs that the call on top
has still to ask for becomes smaller in the lexicographic order, or the call ends. It
is the safety half of `Terminates`, and the second number is where the recursion limit
enters: a second call for a space in progress is the one that raises.

**The order.** `OrderInv` says each operator is scheduled once, the visits in
progress are a path, what a visit has asked for is scheduled (`AskedIsDone`),
producers come first, and the outer loop has finished what it passed. An operator
met while it is being visited closes a path, and the path is the non-empty set fed
from inside itself that `RaisesOnCycle` wants (`MeetingIsCycle`); an ended loop has
scheduled all of them, once, which is a bijection (`OrderedIsAnOrder`). `OrderEnds`
has its variant: operators not scheduled, those with no visit in progress, and what
the loop on top has still to go through.

**The workers.** `ProxyInv` is `TypeOK` with two facts: no count, here or far
away, read or held by a request, exceeds what was really served (`NeverTooMuch`),
and a denial saw a full count (`AllEarned`). For serial calls `SerialInv` adds that the counts are
*exact* as long as nothing was disturbed. `LinkInv` carries `IssuedLinksKeep`: a
code that nobody contested is held by one mint at most (`Alone`), nothing is stored
under it until then (`Untouched`), and a mint that is about to answer has stored its
body (`Written`). `LimitInv` is the same argument as the proxy's.

**Record files and snapshots.** `FileInv` has two parts. Always: names are used from
the first on, a process has found every name before the one it tries taken, and what is in a
file comes from a proposal. As long as no two processes were at work at once
(`SerialFiles`): no content is in two files, no name a process has passed holds what it
wants, a file being written is torn, kept records are there or are torn because their
own content is being written again, and every content of a process's proposal is still
to be written or whole in a file (`Completes`). A run overwrites no content but its own,
yet its own death may tear what an earlier run completed, so a finished run is spoken of
until another begins (`Forgotten`); torn files, whoever left them, excuse nothing. `ShareInv` says that the index names no
snapshot twice and, after a run, exactly those on disk; that a name being written
was free, which is why no later run touches the file of a link; and that a link
carries what `encode` made of its selection. What `decode` reads back is by
arithmetic on bits and bytes, for any number of bits in a byte.

**External solve.** `SolveInv` says that between its reads a request pins the head
it saw, which is still in the log, and that after the check it passes in the view of
that head. If the last head is that version and no version names two lines, its
first line is the last line (`HeadReadsTheMap`), so the view is the map.
`DownstreamInClosed` and `DownstreamIsClosed` show that the search, which is bounded
by the number of nodes, computes the least closed set (by cardinality: a set that
grows at every step would pass the number of nodes).

**Only model-checked.** `Converges` and `Terminates`, since liveness under fairness is
out of the prover's reach; their safety halves are `ReportsOnlyShrink`, `ComputeEnds` and
`OrderEnds`. The two properties of the shipped map, which are facts about the data:
`ShippedOrdered` is an instance of `ReturnsAnOrder` and
one direction of `ShippedExact` of `ComputeIsSound` and `ComputeIsComplete`, but that the
shipped graph is clean, acyclic and reaches what it should is TLC's to compute. The
properties of the runs that expect a violation are refuted, not proved. That the
constants of the theorems are the model's and not the code's is the reader's to
judge, as is every abstraction of section 2.

## 5. Not modelled

- **In the modelled parts:** `Store.diff` (a read), the wording of problems and
  reports, `GENESIS`, hash collisions, and file systems that reorder writes.
  Concurrent runs of the sync tool (the store's races are in `MapStore`). Two
  authors who sign differently: their records differ, which takes behaviours away
  (no duplicate versions) and adds none. Genesis repeated in a directory that is in
  use, which its documentation excludes. In the executor: the numbers, conversion
  factors, normalizations, schemes, discretizations and gauge groups; of a node
  with several fields the unit of the first. The error `record_instance` raises for
  a variable it does not know. In the site worker, the routes that read.
- **Evidence registry:** validates single records against static tables; keeps no
  state and writes nothing.
- **Overlays:** a second `Store`, which `MapStore` models, read on top of the public
  view; what it adds is a check of namespaces and of single records.
- **Lineage validation and canonical forms, paper ingestion, detection and review:**
  functions of one record, or of a text, to a result.
- **Registry, formulas, dimension algebra:** symbolic physics on sympy expressions:
  functions of their arguments, without a protocol, and about terms TLC cannot
  evaluate. The model keeps what the walkers ask of a formula.
- **Rendering and site assets, `docs/` (generated pages, vendored assets), `scans/`,
  `experiments/`, `tools/`:** formatting of read-only data, content, and generators
  of test vectors.
- **Lean:** a formalisation of the formulas, with its own proofs.

## 6. What is left

A `MapSync` over `MapStore` with concurrent runs of the tool, where a re-mint may be
landed between a report and an `--apply`; genesis cut short, if the repository comes to promise anything for it.
