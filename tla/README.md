# FCA: models, checks and proofs

This directory holds TLA+ models of FCA ("Federated Causal Evidence &
Falsification Architecture", the package `fcea`; paths are relative to `src/` or
to the package), the TLC configurations that check them on small instances,
and proofs, checked by TLAPS, of the properties that matter most for every
instance. Nothing here is derived from the documents: every definition is a
translation of Python code, and `PROJECT.json` ("map") names the lines. The
documents serve to say what is expected; where the code does something else,
there is a run that shows it (see "Disagreements").

## What the program is

FCA stores sources and evidence, freezes the protocol of a study before it is
run, evaluates sixteen gates over it, derives a verdict, and lets people review
and release the run together with a proof packet. Its promise is negative: a
claim is never *promoted* (`SUPPORTED`, `CERTIFIED_WITHIN_SCOPE`) unless
everything that should have been checked was checked. What could go wrong is
therefore mostly in the control: gates that pass over one another, stale reads,
records that arrive between two transactions, chains of claims resting on claims,
crashes between a file and its database row.

| part | code | state it keeps | operations | what is hard about it |
|---|---|---|---|---|
| gate engine and verdict | `gates/`, `core/status.py`, `service.make_verdict` | the `RunContext` of one run: outcomes, analysis, alternatives, rejected tests, coverage, reproduction | sixteen gates in topological order, `make_verdict`, error path | gates communicate through the context; overlapping conditionals in the verdict |
| claims, routes, freezes | `service.py` | claims, links, resolutions, freezes with pinned dependency runs | register, review (resolution), freeze, `precheck_routes`, G0/G4/G6/G7/G13/G15 | decisions are made against what other runs decided earlier |
| scopes and strengths | `core/scope.py` | none | `within`, `evidence_within`, `strength_meet` | wildcards, open intervals, chains |
| graphs | `graphs/graph.py` | none | `topological_order`, `reachable` | cycles, dangling nodes, blocked ends |
| independence | `graphs/independence.py` | a union-find forest | `clusters` | order of a Python set |
| closure | `analysis/closure.py`, parts of G7, G8, G10 | runs used as causal edges | `validate_closure`, `validate_temporal` | three places compare different pairs of things |
| raw store, database | `storage/` | files by content address; immutable objects; hash-chained audit log | `put`, `get`, `verify` | not one transaction; threads, processes, crashes |
| review and release | `review.py`, `proof/packet.py` | reviews, packets, releases | `review`, `release` | seven steps that each read the database for themselves |
| backup | `operations.py` | a copy of the store | `backup`, `restore` | made while others write |
| HTTP server | `api/server.py` | two semaphores, one thread per connection | admit, dispatch, run, audit, reply | every way a request may end |
| isolated worker | `analysis/worker.py`, `service.py:41` | a fresh interpreter | re-analysis for G14 | killed after 45 s |
| adapters, statistics | `adapters/`, `analysis/falsification.py`, `analysis/statistics.py` | none | `analyze`, tests, corrections | floating point |
| provenance | `graphs/provenance.py` | none | lineage, re-extraction | recursion over sources |
| contracts, canonical form | `core/contracts.py`, `core/canonical.py`, `core/normalization.py` | none | decode, validate, hash, convert units | - |
| identities, signing | `security/` | tokens, keys | authenticate, sign | cryptography |
| command line, dashboard, examples | `cli.py`, `dashboard/`, `examples/` | none | around the service | - |

A request comes over the server (or the command line), which calls one operation
of `Service` or of `review.py`; those read and write through `Database.put`,
`Database.get` and `RawStore`. `Service.run` builds a `RunContext`, which reads the
freeze and the pinned runs of other claims, and hands it to the engine. `release`
calls `Service.verify` and `export_packet` on the way. There are no callbacks and
no messages; what actors share is the database, the raw directory and the two
semaphores. Threads are those of the server; other processes (command line,
backup) may work on the same directory, and only SQLite's own lock keeps them
apart.

## The modules

| module | models | extended or used by |
|---|---|---|
| `Ordering` | a finite set as a list, sorted as Python's `sorted` does it | `Graph`, `Multiplicity`, `Networks` |
| `Graph` | `topological_order`, `reachable`, and reference definitions | `MCAlgorithms`, `MCGateRun` |
| `Scope` | `within`, `evidence_within`, `strength_meet`; the situations a scope speaks of | `ClaimGraph`, `MCAlgorithms`, `ScopeProofs` |
| `Independence` | `clusters`, and connected components | `MCAlgorithms` |
| `Provenance` | lineages: what registration asks of parents, `ancestors`, `verify_evidence` | `MCAlgorithms` |
| `Snapshot` | `references`, `collect`, what `freeze` adds, and the replay loop of `reproduce_packet` | `MCAlgorithms` |
| `Multiplicity` | `execute_tests`, Holm and Benjamini-Hochberg, and which hypotheses they reject | `MCAlgorithms` |
| `Networks` | `max_flow` and the documentary path; least cuts | `MCAlgorithms` |
| `GateRun` | one run: context, every gate, engine, `make_verdict`, error path, what `release` requires of the record | `MCGateRun`, `GateRunProofs` |
| `ClaimGraph` | claims resting on claims: registration, links, resolutions, freeze, `RunContext`, the gates that look at them, a run and its replay | `MCClaimGraph`, `ClaimGraphProofs` |
| `Closure` | events, temporal relations, runs as edges, feedback certificates | `MCClosure`, `ClosureProofs` |
| `Registry` | abstract: an append-only registry of records about stored contents | instantiated by `EvidenceStore` |
| `EvidenceStore` | `acquire`, `extract`, `RawStore`, `Database.put`, `Service.verify`, crashes | `MCEvidenceStore`, `Backup`, and `StoreProofs` through `Backup` |
| `Backup` | `backup` and `restore` composed with `EvidenceStore` | `MCBackup`, `StoreProofs` |
| `Lifecycle` | links, freeze, run, review and release of one protocol as concurrent requests; upgrades, crashes | `MCLifecycle`, `LifecycleProofs` |
| `Server` | permits for connections and runs, what a request commits and logs, every end of one | `MCServer`, `ServerProofs` |

How state and actions correspond to the code:

* **GateRun.** `outcome[g]` is `context.outcomes`; `analysis`, `alternatives`,
  `rejected`, `covered`, `reproduction` are the fields of the context the gates
  write and later gates or `make_verdict` read; `verdict` is the stored verdict's
  three axes and its strength. `Prepare` is `RunContext.__init__`, `EvaluateGate`
  one turn of the loop of `evaluate` (`Block` when a prerequisite did not pass,
  else the gate); `MakeVerdict` and `Fail` end in a record, `Escape` is an exception
  that the `try` of `Service.run` does not cover and ends in none. What a gate
  finds in the *data* (are there clusters? do the budgets hold?) is a choice; what
  it finds in the *context* and in the *declarations* of claim and protocol is not.
  The order is a constant, and the assumption `EnginesOrder` of `MCGateRun` says
  that the one of the instance is what `topological_order` computes. The proofs
  hold for every order that respects the dependencies.
* **ClaimGraph.** `freezes[p]` is a `ProtocolFreeze` with the links, resolutions and
  dependency runs `collect` found; `runs` the `RunRecord`s, oldest first. `Run` is
  a whole `Service.run`, atomic because it reads only the freeze, immutable
  records, and the live links (whose race is `Lifecycle`'s). What a run sees of the
  store is a parameter of its outcome: `Live`, or `Replayed(p)`, the store that
  `reproduce_packet` fills from the packet. Claims rest on each other by mandatory
  dependencies and proof routes; `collect` also visits optional ones and superseded
  records (`storage/db.py:15`), which no gate asks a run of. Whether an item verifies
  (module `Provenance`) and all gates about other things are one choice each.
* **Provenance, Snapshot.** A store is a sequence of records in the order of their
  registration, because every reference that is checked must exist when a record is
  inserted. `Snapshot` keeps of a record its kind and its references, by the way
  `references` and `collect` treat them; `Registrable` is one pass of the replay
  loop, and the instance takes its entries in every order.
* **Multiplicity, Networks.** The code's loops, step by step, over integers: a
  p-value is a multiple of 1/240 and `p * n / rank` is exact, a capacity is a natural
  number. Rounding, the solver's tolerances and its budgets (nodes, edges, 10,000
  augmentations), beyond which it gives no answer, are not modelled.
* **EvidenceStore.** `files[c]` is the file at the address of content `c`: `absent`,
  `partial` (created, not yet completely written) or `complete`. `objects` and
  `audit` are the two tables. A database transaction is one step (`BEGIN
  IMMEDIATE`); file operations are steps of their own. The hash chain is the order
  of `audit`: hashing is taken for what it hashes.
* **Lifecycle.** The database *is* the log of the records registered and of the
  `run_started` events. `job[t]` is the request thread `t` serves, with what it has
  read so far. Which gates passed is reduced to `passed`, `failed` or `error`; the
  reduction is justified by `GateRun`; a run that is lost is a `Crash` here.
  `ReleaseExport` reads the reviews and puts the packet in one step: what a packet
  holds is fixed by the reading, after the release has counted, whenever it is put.
* **Closure.** A run is a record of its protocol, its edge runs and whether it was
  promoted. `Inside` is the relation `within` on scopes; it is assumed to be a
  preorder, which `ScopeProofs` proves of the code's.
* **Server.** A connection is `reading`, `working`, `running`, `auditing`,
  `replying` or `refusing` while it has a thread; `request[c]` is its kind (the
  public pages, other reads, an archive, writes, runs), what was committed of the
  operation and whether its event is in the audit log. An operation is what the
  other modules model; here it commits all, nothing or (an import, a run that
  raises after `run_started`) a part.

## The runs

A type invariant is stated in every module with state and proved of it; TLC checks
one where it says more than the ranges of the variables (`GateRun`). Passing runs. Each property has a mutant in `PROJECT.json`: a plausible bug in one
definition that makes TLC find the property violated.

* `gate_run` (`MCGateRun`): six studies with all a promotion needs and eleven
  with a declaration that a gate must stop; every combination of outcomes. A
  promotable verdict needs all gates, an exhaustive certificate an exhaustive
  coverage, a causal or quantified conclusion all counterfactuals; prohibited claim
  types, and quantifiers the method does not compute, get no conclusion; an
  enumeration without a witness refutes no existential claim; `FALSIFIED` is said on valid premises only; an invalid run is
  not hidden by a later assignment; no gate reads an analysis not yet computed;
  what `release` accepts was concluded and reproduced. A run may end without a record (`Escape`), so that
  nothing is said about every run having one.
  The number of gates, types and outcomes is the program's own: the only bound is
  the set of plans, and the theorems drop it.
* `claim_graph` (`MCClaimGraph`): three claims in a chain with an alternative
  route, two pieces of evidence, three links, three runs, five studies (all fits;
  or one thing does not). Three levels are the least in which a chain differs from
  a pair of neighbours. A promoted run has beneath it a complete, earlier, promoted
  proof, no later cutoffs, no wider scopes; the route its gates examined is the
  route it is certified by. And it is promoted again, with the same strength, when
  it is replayed from what its protocol froze, whatever was registered since.
* `algorithms` (`MCAlgorithms`): every graph on four nodes with at most one unknown
  prerequisite; every pair of scopes over two of three names, three precisions, one
  assumption and open or closed intervals; four pieces of evidence with three
  tokens in every order. Four nodes hold a diamond and a cycle beside a path; times
  before, at and after each bound are asked about. Every graph of four nodes is also
  searched for documentary paths of up to four hops. Lineages of four items with two
  times hold chains and diamonds beneath a source, before and after a cutoff. Stores
  hold two claims, one link, a review and a resolution of it, one run and one closure
  that cites it: the least in which a snapshot has a resolved contradiction of a
  dependency claim and a run behind a closure; each is frozen, loses at most one
  entry, and is replayed in every order. Four tests, statistical or not, with five p-values that
  include ties, zero, one and values at the levels. One network of six nodes, in
  which the shortest path of the first turn has to be taken back, with every capacity
  of 0, 1 or 2 on its seven edges.
* `evidence_store` (`MCBackup`): two threads, one source in two versions, one item,
  two clock values, one verification and one backup at a time, crashes at any step.
  Registered sources are readable and evidence agrees with them; objects and audit
  events correspond one to one; "stored" is true; the store implements `Registry`
  under the refinement in `EvidenceStore`; a completed backup can be restored, to a
  past moment. Two threads suffice for the races, which are pairwise: on one file
  (create against re-read) and on one id (lookup against insert).
* `lifecycle` (`MCLifecycle`): two threads, three people, one late link, one run, two
  reviews, one packet, one upgrade. A protocol is frozen once and before its runs;
  late evidence blocks; a release was reviewed at some moment during its request;
  the packet contains the reviews the release relied on. The review property is
  model-checked here for one required reviewer, and proved for every number of
  people, reviews and reviewers required, the two of a high-impact claim included.
* `closure` (`MCClosure`): three events in fourteen chronologies, fifteen protocols, four
  runs, which is the least for a certificate that is an edge of another one.
  Feedback is unrolled in time; the edges estimated the effect the path claims;
  certificates stay within the scope of all that is beneath them.
* `server` (`MCServer`): three connections, two permits, one run permit, so that
  both run out and a refused connection may come again. No permit is lost or
  returned twice; who is told of success finds the operation committed and in the
  audit log, who was turned away changed nothing; admitted connections end.

`CHECK_DEADLOCK FALSE` is set where behaviours really end: a run once recorded or lost, an
input once answered, the bounded numbers of runs.

Fairness. `Server`: a thread with a connection proceeds, because the socket has a
timeout of 15 seconds, lengths are limited, runs have budgets and the isolated
interpreter is killed after 45 seconds. `EvidenceStore`: a thread with work is scheduled; the violation runs use
it so that their traces are not those of a system that stopped. Nothing is assumed
of clients, people, crashes or upgrades.

## Disagreements

Five runs show the code doing what a document, or its own error message, denies.

* `contradictions`: G13 looks at contradictions of the run's own claim; those of
  claims beneath it, frozen with the protocol, do not count ("material
  contradictions remain relevant globally", `docs/SCIENTIFIC_STATUS.md:14`).
* `retry_finds_no_debris`: `RawStore.put` creates the file at its final address
  before writing it. A crash or write error leaves a partial file, and every retry
  with these bytes is refused ("the corrected import can be retried",
  `docs/ARCHITECTURE.md:45`).
* `unaudited_is_true`: `verify` reads events and objects at different moments, and
  reports an object registered in between as having no event, though it has.
  `release` and `backup` then fail. The direction is safe.
* `objection`: `release` reads the reviews, then exports the packet, then writes. An
  objection that arrives in between does not block it, even if it is in the packet
  (`docs/OPERATIONS.md:23`).
* `closure_cutoff`: the cutoff of edge runs is not compared with the closure's
  ("recursive knowledge cutoff", `docs/ARCHITECTURE.md:21`).

Observations that contradict no document, or that no run shows:

* The `try` of `Service.run` ends at `service.py:278`; what follows it, and the handler
  itself, may raise, and then `run_started` has no record. Canonical JSON admits
  finite numbers only, and an analysis that overflows reaches the manifest all the
  same: with a late speed of 1e200 the oscillator's `relative_energy_drift` is infinite
  (`adapters/physics.py:13`), G5 returns it, the digest of its entry raises
  (`gates/engine.py:44`), the handler catches that, and `digest(c.analysis)`
  raises again (`service.py:293`), outside. A comment promises that such failures
  "propagate to an ERROR run" (`gates/engine.py:37`). The direction is safe: what has no
  record is not promoted, pinned or released.
* A closure reads the claims and scopes of its edge runs (`analysis/closure.py:32`),
  but `collect` stops at runs (`service.py:226`): unless the edge claims are also
  dependencies of the closure's claim, the packet lacks them. Such a run is
  promoted, its packet says `self_contained`, and `reproduce_packet` answers MISMATCH,
  as executing the package on such a study confirms ("full gate replay from the
  archive", `README.md:52`). `ReplayAgrees` holds for claims without closures.
* A run that failed G0 because of a link registered after its freeze passes G0 when
  it is replayed: the packet holds the frozen links only.
* Registration accepts an `EventSpec` as a parent of evidence; every run refuses that
  evidence (`LineageIsSound` says so exactly).

* The engine's order puts G7 before G5 in every run, so the branch of G7 that looks
  at the analysis (`gates/checks.py:143`) is never taken.
* A freeze that races a link registration misses the link, and its deterministic id
  makes the protocol impossible to freeze again: G0 blocks every run (safe).
* Two simultaneous acquisitions of the same new source get different times, and the
  second is a conflict although id and bytes agree.
* The API's audit event is written after the operation committed
  (`api/server.py:121`): if it fails, or the answer cannot be sent, the client is
  told of an error although the operation took place, and a run asked for again is
  a second run.
* A dependency run is pinned at the freeze; a later run of that protocol is not
  looked at. A link registered between G0 and the record is seen at release.
* A run falsified with G9, G10 or G11 open cannot be released.
* `software_manifest` reads the files on disk, not the code loaded: after an upgrade
  without restart old code runs under the new digest (`docs/OPERATIONS.md:60` asks to
  stop the service first).
* A resolution counts if its review approved it (`gates/checks.py:252`), also if that
  reviewer declared a conflict of interest or another one rejects the link later.

## The proofs

Every safety property that a passing run checks is proved. The proofs are for all values of the constants that satisfy the
named assumptions of the modules.

* `GateRunProofs` proves the type invariant and the nine safety invariants of
  `gate_run`, for every set of plans and every order that respects the
  dependencies (`OrderAssumption`, `PlansAssumption`). The inductive invariant
  `IInv` has four parts: `TypeOK`; `Engine` (the gates passed so far are those with
  an outcome; a gate that was evaluated has all its prerequisites passed; a blocked
  one has one that did not); `Findings` (what each recorded PASS or FAIL says of
  the context, for instance that G14 passed only with an equivalent reproduction);
  and `Recorded` (the stored verdict is the error verdict or what `make_verdict`
  derives from this context). None of the invariants is inductive alone: they speak
  of the verdict, and the gates' findings must survive until it is made. That a
  gate writes only before anyone reads comes from `Engine`: a gate that has no
  outcome yet has every dependent without outcome or blocked.
* `ClaimGraphProofs` proves the five properties of `claim_graph` for chains of any
  length. `IInv` is `Typed`; `Frozen` (a freeze holds what was registered, and pins
  runs of the claims it pins); `Grounded` (registered claims can be ranked below what
  rests on them, because registration asks for dependencies first); and `Decided`:
  each record speaks of a frozen protocol that pins earlier runs only, and the
  `Decision` of a promoted one holds of what it rests on *one step deep*. Gates look at
  no more than that. The properties speak of everything beneath: they follow by taking
  the least run that breaks them, whose dependencies are earlier and therefore keep
  them (`LeastNatural`), and scopes compose because `within` is transitive
  (`ScopeProofs`). `StepKeeps` (payloads, records and freezes are immutable) is what
  carries a decision on for ever, and `ReplayTheorem` rests on it: the freeze holds what
  its gates looked at. That the recursive function of `Beneath` exists at all is
  proved, by the least depth at which it would not.
* `ClosureProofs` proves the three properties of `closure`. A run is checked against its
  edges when it is recorded and neither events nor runs ever change, so that `IInv` is
  `Typed` with, for each run, `Fits` (one edge for each step of the path) and `Judged` (the
  gates it passed). `CertificateTheorem` goes down the edges level by level, with `Inside` transitive.
* `StoreProofs` proves the three invariants of `EvidenceStore`, that it implements
  `Registry` step by step, and the two invariants of `Backup`. `IInv` adds to the
  properties what a thread has made sure of before it goes on (`ReadyToPut`: the bytes
  are in place before their source is put, the source before its evidence), which
  survives the steps of the others because a complete file and a registered object
  are never changed (`StepGrows`). A step maps to the registration of one record in
  `Registry` or to a stutter; the mapping is the one the run checks. `BackupInv` says
  of a copy that it is a prefix of the store's history (`CopyIsPast`), consistent in
  itself (`CopyIsExact`), and complete but for the files still to be copied
  (`CopyIsReadable`).
* `LifecycleProofs` proves type correctness and the four invariants for every number
  of threads, people, links, reviewers required and all bounds. The log only grows
  (`StepGrowsLog`), so what was true of a prefix stays true of it. For `ReleaseIsReviewed`
  the invariant says, of every release request past its reading of the reviews, that there
  is a moment since the request at which the reviews allowed it with the approvals
  it carries; `ReleasePut` turns this into the property. For the other three,
  `RecordInv` says of every record what it was entitled to when it was written
  (`Justified`), of every request under way what it has read so far (`Known`), and that
  a run under way belongs to one request and has no record yet (`Unrecorded`).
* `ServerProofs` proves `TypeOK`, `PermitsAreExact` and `AnswersAreTrue` for every finite
  set of connections and every capacity. A step moves one connection, so that it
  adds one holder of a permit, removes one or leaves them alone (the lemmas
  `ThreadStarts` to `RunStays`), and the permits go the other way; `Consistency` says
  what is known of a request at each point of `dispatch`, and is needed because an
  answer is true for what was done several steps before.
* `ScopeProofs` proves of `within` that it is sound for the situations a scope speaks
  of, reflexive on admitted scopes and transitive, and of `strength_meet` that it is the
  greatest lower bound. These carry the checks of neighbours in `precheck_routes` and G6
  over to chains, and justify `InsideAssumption` in `Closure`.
* `AlgorithmProofs` proves all nine properties of `algorithms`, for every choice of its
  inputs: graphs, lineages, tests and networks of any size. The state says little here (`AnswersInv`: an
  answer is what the function computes of the input); the work is in the functions. The
  library's induction theorems cannot be used (they take an operator as a parameter), so
  that induction goes by least counterexample (`LeastNatural`, `UpTo`) and that each
  recursive function exists is proved (`CourseExists`, `LoopExists`, `FoldExists`). Each
  loop then has an invariant and a measure, as on paper:
  - `SupportTheorem`: evidence that supports a claim supports the claims within it.
    `ContainmentTheorem`: `within` and `evidence_within` refuse nothing that is contained,
    because to each field that fails there is a situation only the inner scope speaks of.
  - `SnapshotTheorem`: `collect`, a loop over a worklist, finds the least set that is
    closed under references (`ClosureIsLeast`: growing parts of a finite set stop within
    its size), and a replay that is stuck would have an earliest entry whose references
    all precede it, which could be registered. `LineageTheorem`: an earliest item whose
    lineage breaks what registration asks of parents would have a parent that breaks it.
  - `OrderTheorem`: Kahn's loop keeps `KahnInv` (the nodes met are those whose prerequisites
    are all listed, each once, and a degree counts what is not listed). If it ends early,
    each node left has a prerequisite left, and that makes a cycle (`NoFirstMeansCycle`:
    without one, the node with the most dependents would have a prerequisite with more).
  - `SearchTheorem`: in the graphs `topological_order` accepts, the only ones `reachable` is
    asked about, the set reached around the blocked nodes is the least one closed under
    unblocked edges; a turn of `reachable` takes one off the queue and adds no more than the edges
    it uses up, so that the bound on the turns suffices (`Spent`). For documentary paths `FollowOk` says that
    a mark is the distance, that the queue is in the order of distances, and that these
    differ by one at most: hence the path is a shortest one although nodes are marked
    before they are visited.
  - `ClustersTheorem`: halving a path leaves all roots as they were (`ClimbKeeps`), a join
    merges two classes and nothing else (`JoinIs`), and the loop over tokens keeps
    `HeardOk`: no class holds evidence that no chain connects (`Respects`), and
    whoever was looked at is joined with the first that has the token (`Linked`).
  - `AdjustmentTheorem`: the running maximum of Holm's loop and the running minimum of
    Benjamini and Hochberg's are below the level exactly if the definition by the
    p-values alone rejects (`HolmRejectsIs`, `StepUpRejectsIs`), whatever order ties come in.
  - `FlowTheorem` is the theorem of maximum flow and least cut for the code's loop. `FlowOk`
    is its invariant: what an edge lost the way back has gained, and what leaves a node
    has lost the total at the source and nothing elsewhere. The search tree gives a path
    with room (`PathFound`, by a depth that falls from child to parent), a path keeps
    `FlowOk` and raises the total (`AugmentKeeps`), no flow exceeds a cut (`FlowWithinCut`),
    and when the sink is not found, what was found is a cut that the flow fills
    (`MinCutIs`). The sum of the capacities bounds the turns.

What is assumed, beside the shape of ids and payloads. `StudiesAssumption`: scopes are
those `contracts.validate` admits, whose intervals are not empty. `ProtocolsAssumption`:
protocols of closures are well typed; `RunsAssumption`, `InstantsAssumption`: bounds and times are
natural numbers. `StoreAssumption`: clock values are positive, so that none is
mistaken for the mark of a record without time. `ReferencesAssumption`: the absence of a
reference is no record. `SituationsAssumption` asks that the situations compared suffice
to tell scopes apart (a name no scope lists, a second precision, times inside and
outside each interval); it restricts the questions and not the code. `NodesAssumption`:
the nodes of a graph are finitely many, two at least (a documentary path has two
different ends), and numbered by their names.
`RefsAssumption`: pieces of evidence are counted and tokens are finitely many.
`TestsAssumption`: p-values and levels lie between zero and one (`Unit`), which
`analysis/statistics.py:95` and `core/contracts.py:286` demand.
`NetworkAssumption`: finitely many junctions, source and sink different, capacities not negative, no
edge beside its opposite, all of which `max_flow` checks first (`adapters/supply.py:8`, `:16`). TLC evaluates
all of them on the instances.

Only model-checked:

* `ConnectionsEnd`: liveness is out of the prover's reach, as is ENABLED;
* that the constants of `MCGateRun` are what `topological_order` computes of the sixteen
  gates (`EnginesOrder`, an assumption TLC evaluates);
* the disagreements, which are counterexamples.

## Not modelled

Floating-point bodies of adapters and statistics (their conclusions are choices
from the sets they can return, p-values are given); JSON, hashing, units, extraction
and time zones; tokens, signatures, hash links (a chain is an order); HTTP parsing,
routing and roles; generic decoding and schemas of contracts; search and dashboard
projections; the zip format of packets and its hash lists; argument parsing and the
builders of examples; a restore whose target exists or that crashes midway.
`import_bundle` is a sequence of acquisitions, extractions and registrations, each
modelled for itself. These are conversions, or code without state of its own, and
unit tests reach them.

## Plan

Done, in this order: the pure algorithms (`Graph`, `Scope`, `Independence`); the gate
run, the heart of the program, with its proofs; claims over claims; the store with
its abstract specification, then the backup over it; the lifecycle up to the
release, with its proof; closures; the server; then provenance, snapshots and their
replay, corrections for multiplicity, networks; effects and audit events of requests,
with the proofs of the server; then the proofs of the store and its refinement, the
backup, the rest of the lifecycle, claims over claims, closures, containment of scopes,
snapshots and lineages; last the algorithms: orders, searches, clusters, corrections and flows.

Next, in order of importance:

1. `Closure` joined with `Snapshot`, for the replay of closures;
2. the isolated interpreter and its timeout as a process of its own;
3. the generic decoding of contracts, which so far appears as what may be registered.
