# DiffExp: a TLA+ development

DiffExp solves systems of differential equations for Feynman integrals along
paths in kinematic space.  Most of its lines are exact algebra and ball
arithmetic; what surrounds them is a small set of concurrent and persistent
machines: a session server with shared registries, streams that live between
requests, a cache whose builders call it back, checkpoints.  Their mistakes are
lost reservations, overfilled registries, deadlocks and unreadable files, and
tests hardly reach them because they need a particular overlap of requests or a
failure between two system calls.  This directory models those machines.

Paths below are relative to the repository; `kernel/x.ipp` is
`src/kernel/x.ipp`, and headers are under `include/diffexp`.

## 1. Inventory

| Component | State it keeps | Operations | What makes it correct |
|---|---|---|---|
| Solver session server (`kernel/json_codec_session_state.ipp`, `json_codec_commands_*.ipp`) | registries of locals, matches, endpoints, tiles, states, lines, prepared charts, SCCs; `next_*` handle counters; `pending_*` counters; live streams | about fifty JSON requests, each: find the session, be admitted under `session->mutex`, compute without it, publish under it | capacities hold across overlaps; counters balance; handles are unique for ever; consumed locals enter one result; nothing outlives close |
| Transport-pair stream (`json_codec_transport_algorithms.ipp`, class `TransportPairObservableStream`) | status, next tile of each arm, accumulators, terminal locals | add tile, add rolling tile, finish, abort; close of its session | each tile is summed once and in order; a poisoned stream stays so; its line reservation comes back once |
| Immutable recursive cache (`kernel/immutable_recursive_cache.hpp`) | entries, build states, wait edges | `get_or_build`, nested | one value for each key; no deadlock; no false cycle |
| Session checkpoint (`json_codec_checkpoint_snapshot.ipp`, `..._restore.ipp`) | the image at a path, the generation | `checkpoint.save`, `checkpoint.restore` | a picture of a quiescent session that restore accepts |
| Checkpoint container (`kernel/checkpoint.cpp`) | temporary file, target, directory | `write_raw_atomic`, `read_raw` | whole images, kept once acknowledged |
| Prepared caches (`chart.prepare`, `regular_equation.prepare`, `scc.prepare`) | owners by key and handle | prepare, release | one owner for each key, within capacity |
| SCC composite columns (`json_codec_scc.cpp`, `kernel/json_codec_chart_scc_state.ipp`) | charts of the blocks, couplings, a cache of homogeneous targets | `scc.prepare`, `scc.solve_columns` | a manifest that lies about its system is refused; every chain of couplings enters a column once, at its exact tag |
| Parallel arms: start gate (`json_codec_commands_integration.ipp`), response pool (`matching.hpp`), `AcbPrecisionLease` | gates, counters, the active precision | two arms, many columns | every task once; one precision at a time; nobody left waiting |
| Operation executor (`scheduler.hpp`) | cache by operation, floors, last demands, events | `add`, `run`, `obtain`, a refinement thrown by a builder | what is reused satisfies the demand and the floors, at any distance from what was refined; nothing is built twice; refused work does not loop |
| Artifact store (`artifact_store.hpp`) with level cache, cached affine operators, recursion pipeline | immutable files by content address | `put`, `lookup` | a record is whole, never replaced, and the weakest sufficient one is found |
| Adjoint transport (`adjoint_transport.hpp`, `adjoint_checkpoint.hpp`) | leg, batch, center, budgets; the continuation file | transport, resume | a resumed run walks every leg once and ends as an uninterrupted one does |
| Exact tile planner (`kernel/path_planner.hpp`) | none | `tile.plan`, `tile.plan_arm` | a plan wherever the charts can be joined; handoffs safe for both charts |
| FIRE provider (`fire*.hpp`, `modular_reconstruction.hpp`, `ibp_solver_provider.hpp`) | demands, pending and completed batches, an external process | reduce, resume, retire | demands grow monotonically; pending work is retired after the batch is durable; the process group is reaped |
| Level preparation and reduction (`level_preparation.hpp`, `recursion_graph.hpp`, `epsilon_demand.hpp`, `ibp.hpp`, `fuchsify.hpp`) | none | pure | demand propagation, elimination order |
| Numerical kernels (`recurrence.hpp`, `local_algebra.hpp`, `tail_majorant.hpp`, ...) | none | pure | enclosures |
| Front end, Mathematica wrapper, oracles, tools, Lean notes | none | decoding, dispatch, reference data | - |

How they interact: a front-end process decodes one request per thread and calls
the session server.  Requests share one `SolverSession` through its mutex; a
stream object is shared by the requests that name its handle and has a mutex of
its own, taken after the session's is released.  Numeric code called by a
request uses the recursive cache and, in the ball domain, a process-wide
precision lease.  `checkpoint.save` runs under the session mutex down to the
rename of the file.  The executor, artifact store and FIRE provider form the
separate recursion driver, which starts no session.

The hard behaviours are the windows between critical sections (capacity tested
here, used there; an owner resolved here, erased there), what happens to
reservations on every failure path and when the session closes in the middle,
callbacks into the cache, and failures between system calls.  `PROJECT.json`
lists each hazard at its line with the properties that watch it.

## 2. Modules

**SolverSession** models one session.  A request (`Call`) is a record: its phase,
the handles it holds reserved (`held`), the ones its publication will register
(`yield`), the locals whose owners publication compares again (`checks`) and
those it erases (`spends`), and for a consuming march the bases it still has to
use (`route`).  Each critical section is one action.  All requests that change
a registry are there; their admission differs in what they test, draw and
reserve, and the operators `Fits`, `Draw`, `Issued`, `Hold`, `Reserve` and
`Settle` name those parts.  `Publish` and `Fail` end a request.  The kinds of
handles stand for the registries, the numbers of the `next_*` counters for the
handles.  Three idiosyncrasies of the code are kept because properties turn on
them: the two single solves do not test `closed`; a consuming hop is admitted
with a credit for the basis it will erase; `transport.run_arms_consuming`
draws every handle before it tests anything and reserves nothing.  A request
over an arm of one tile is an operation of its own (`run_one_tile_arm`), since
it registers its released anchor again.  `prepared` is one flag for the three
keyed caches.

**SessionCheckpoint** extends it with the file, the generation, `Save` (which may
fail before or after the rename), `Crash` and `Restore`, with the tests
`restore_checkpoint` makes.

**CheckpointFile** models `write_raw_atomic` and `read_raw` one system call at a
time.  A file is the sequence of the pieces written to it, each marked with the
save it came from; the disk holds at least the synchronised pieces and, for the
path, one of the files renamed to it since the directory was last synchronised.
`PowerFails` chooses among those.  A process that dies leaves its temporary
file, and its successor may have the same process id.

**PairStream** models one stream and the requests that reach it: finding it in
the registry and working on it under its own mutex are separate actions, and so
is the assignment of `rolling_terminals_`, which happens after that mutex is
released.

**RecursiveCache** models `get_or_build` for threads with stacks of nested
calls: entries, build states with their owner and waiters, and the wait graph.
**MemoTable** is what such a cache promises: no value, then at most one builder,
then one value for ever.  RecursiveCache implements it under the mapping at the
end of the module (`Table == INSTANCE MemoTable WITH ...`).

**Executor** models `run` and `obtain`.  One thread runs, so what makes it hard
is not overlap but the order of a recursion that is cut short: the stack of
`obtain` calls is explicit, and between any two of its steps stand floors, last
demands and cached artifacts left by other attempts and runs.  A demand is a
vector of numbers on axes where more is better (the five parts of `Demand`,
`epsilon_low` counted downwards; only those that `validate` accepts); an artifact is the guarantee it
gives and the guarantees of the parents it was built from, which is what the
properties compare.  Which guarantee a builder reaches (`Offer`), whether it
throws, and which node it asks to refine are free choices.  `Closure` and
`Descendants`, which the code collects with work lists, are stated as the
smallest sets with the same closure.

**PrecisionLease** models the process-wide lease of the ball precision: a thread
sleeps while another precision is in use, and a newcomer with the precision in
use walks past the sleepers.  **WorkerPools** extends it with the requests that
start threads: admission under the session's mutex, workers that draw tasks from
one counter (columns of a response, transports of a batch, marches), the start
gate of two arms, workers that cannot be created, tasks that throw, stop
requests, joins, and publication under the mutex.  `Trait` says for each kind of
request which of these it does and in which order it takes mutex and leases;
`checkpoint.save`, which takes leases with the mutex held, is one of the kinds.

**PreparedCaches** models the three caches a session finds by key: lookup, issue
of a handle and publication are three sections, and the caches differ in what
the later ones test again (`ClosedAtIssue`, `ClosedAtPublish`,
`RoomAtPublish`).

**SccGraph** is the certificate of the block graph: strongly connected
components by two depth-first passes (the calls that have not returned are a
stack, so that a pass is a function), the condensation, a topological order and the
coupling depth, each derived again and compared.  **SccManifest** compares the
pieces of a manifest with the parent system: facts, orders of work, the chart of
each block, and the couplings with their entries, row by row.  **SccColumn** is
the control of one column: which block is solved when, what the solved blocks
couple into it, split by exact tag, one particular for each tag, homogeneous
solutions where tags meet a root, the cache of those, and the completeness chain
at the end.  That cache belongs to the composite and outlives a column.  An
entry is compared with everything its run and metadata are made of, which are
copies of what the request that met the root was sent with, so a request has a
form (`Forms`): what a client may write in accepted fields that nothing pins.
A request that meets an entry in another form is refused (`RefusedByCache`);
what it had built before that stays in the cache.  A solution is the set of its sectors (the chain of blocks a
contribution came along, and its tag), so that a lost, doubled or misplaced
contribution is visible without any coefficient.

**OwnershipClosure** says what a checkpoint holds.  Objects name the objects
they were made from; releasing a handle takes it out of a registry and no more.
`Items` is the closure `make_checkpoint_snapshot` writes, with its rules about
what each form of local, match and state retains, and `Accepted` are the tests
by which `restore_checkpoint` builds the objects again.  A client is a record
of the operations it uses (`ops`), the kinds it never releases (`keeps`) and a
bound on what it makes (`made`).  Saving and restoring is one step there;
SessionCheckpoint says when it may happen.

**FireSession** models `fire::Session` over its two directories: lookup of
batches and pending snapshots, a run that is stopped, the snapshot, the batch
with its sync, and the retirement of the snapshots; several processes, deaths,
and power failures that choose among what was synchronised.

**AdjointTransport** models the walk of `transport_adjoint_rows` over legs, row
batches, charts and conditioning halvings, with the budgets of each, and the
continuation file that `adjoint_checkpoint::transport` writes after every chart.
Coefficients are functions of the charts and batches that produced them, so
`path` lists those and stands for the result.

**PathPlanner** is the exact planner in rationals: the geometry a request must
have, the four ways to choose a handoff between two charts in the order the code
tries them, the tiles, and the validation of the finished plan.  **Rationals**
has the arithmetic of `kernel/scalar.hpp`, pairs in lowest terms with `Gcd` as a
recursive function.

**SolverSessionProofs** (SolverSession and SessionCheckpoint), **ArmProofs**
(PairStream and PathPlanner), **PersistenceProofs** (CheckpointFile,
OwnershipClosure, FireSession and AdjointTransport), **PoolsAndCachesProofs**
(PreparedCaches, PrecisionLease and WorkerPools), **RecursiveCacheProofs**,
**ExecutorProofs** and **SccColumnProofs** hold the proofs; **StackLemmas** has
what two of them need about stacks of calls.  The `MC*` modules give constants
and symmetry for TLC.  Six of them (MCSessionArms, MCSessionHops, MCArmWork, MCWorkerPools,
MCSccColumn, MCCheckpointFile) put two to four instances beside each other that
do not interact: the initial state chooses one, and the others stand still.
Interaction is in the modules themselves: SessionCheckpoint over SolverSession,
WorkerPools over PrecisionLease, SccColumn over SccManifest over SccGraph.

## 3. What the runs check

| Run | Question | Bounds |
|---|---|---|
| session_streams | Do reservations balance while finish, abort and close race for a stream, while `integration.run_arms` holds its large reservation, and while solves, matches, marches and their results overlap? Does nothing enter a closed session, and does everything come back after close (liveness)? | 2 requests; streams with 2 states and 2 lines, two-arm integrations with 7 locals and 3 lines, results with 2 locals |
| session_checkpoint | Is every saved image quiescent and restorable, does the ledger survive restores, does the generation advance; and does the credit of consuming hops overfill the locals or use one twice? | 2 requests, 2 locals, 2 saves; marches of 2 hops |
| checkpoint_states | *Violation*: two consuming marches overfill the states, and the file is rejected by restore | 2 requests |
| arm_work | Every tile once and in order, one ending, the reservation comes back (liveness). One value for each key, no false cycle, refinement of MemoTable, every call ends (liveness). Plans exactly where charts can be joined | 3 requests over 2 + 1 tiles; 2 threads, 2 keys, 2 contracts; arms of 2 and 3 charts, division orders 2 and 3 |
| stream_terminals | *Violation*: a finish overtakes the assignment of a terminal local | 3 requests |
| checkpoint_file | Is the file whole and kept through failed calls, dead processes and power loss? Does a restored session own what the saved one did? Is pending FIRE work retired only behind a durable batch? Does a resumed adjoint run end as another does? | 2 writers, 1 reader, 3 images of 2 pieces; five clients that make 7 to 9 objects; 2 processes, 2 demands, 1 generation, 1 loss; 2 runs, 8 problems of 2 or 3 legs with 4 points, 2 stops |
| executor | Is anything stale reused, anything built twice, a floor lowered, a demand not met; does every run end (liveness)? | 4 nodes in a diamond, 2 axes of 0..1, 2 refinements, 2 runs of 3 possible demands |
| worker_pools | One precision at a time, every task once, the failure of the lowest task reported, nothing held afterwards, every request ends (liveness). One object for each key, and the late tests of capacity and close | 2 sessions of 64 and 128 bits, one request of any kind and two saves, crew of 2, 3 tasks; 3 requests over 2 keys and 2 signatures, room for 1 |
| scc_columns | Is a forged manifest refused and a column complete? Is the wait graph of the cache of targets exact, and never circular? | graphs on 3 vertices and a diamond on 4, 3 shapes of singularity, each slip in one piece, 2 forms of requests; 3 threads around a ring of 3 keys |
| released_sources | *Violation*: a client releases the plan or local a value handoff came from, and the file of the session is rejected | 8 objects |
| fire_pending | *Violation*: a loss of power tears a published pending snapshot | 2 processes, 1 loss |
| adjoint_resume | *Violation*: a resumed run takes other charts than the uninterrupted one | 2 runs, 2 stops |

Why the bounds are enough: a reservation error needs one request between its
test and its publication and another that passes the same test, so two
overlapping requests and capacities of one or two reach each of them; `Reused`
lets handles be issued beyond the capacity, so that registries empty and fill
again.  Three requests are used where the third is close or abort.  Three
threads are the fewest whose waits can chain; three callers the fewest where a
save of each precision stands beside a request that holds leases.  Two pieces
are the fewest that can be torn, three images the fewest with an old, a current
and a next one.  Three tasks for a crew of two leave one that is drawn second.
The diamond of the executor has a node that two others share and one two steps
from it, so that a refinement has an indirect descendant and a sibling; two axes
make demands that neither dominates; two refinements and two runs let what one
attempt recorded meet another.  Three vertices give every shape of condensation
but the diamond, where two chains meet; that one is added.  Two forms are the
fewest in which columns can differ; each request chooses one for itself.  The clients of
OwnershipClosure are chosen so that each rule of the closure is the only reason
why some object is saved.  A third leg is needed only to skip one; a loss that
follows a stop is the shortest history in which a run resumes from a file that
is not the last one written.  Two demands, one inside the other, are the fewest
that grow.  On arms of three charts every handoff has a neighbour on each side.
Every bound is a constant named in the module that uses it (`MaxHandle`,
`MaxBatch`, `MaxGeneration`, `MaxImages`, `Build`, `MaxDemand`, `MaxRuns`,
`MaxGenerations`, `MaxLosses`, `MaxStops`, `Ticks`, `made`); `Build` objects are
reused when nothing refers to them.

CHECK_DEADLOCK is off where the system really stops: a closed session, a stream
that ended, a bound that was reached.

Each property has a mutant, an operator beside the one it alters that repeats a
plausible slip (a capacity test that forgets the pending count, a publication
that does not compare its owners, a file that is closed and not synchronised).
Under its run's configuration the mutant violates the property.

### Fairness

`Advance` in SolverSession and PairStream is weakly fair for each request: its
thread is scheduled and the numeric work between two sections ends, as it does
in code that has no unbounded loop and takes `session->mutex` only briefly.
Nothing obliges a client to send a request, so entering, adding a tile or
closing are not fair.  In RecursiveCache each call of a thread is weakly fair
(builders end, a notified waiter gets the mutex); a request from outside is not.
In Executor `Step` is weakly fair, since the one thread goes on and builders
end; `Add` and `Run`, which callers decide, are not.  In WorkerPools the whole
next-state relation is weakly fair and no more: the requests are finitely many,
so some thread can always go on until all have ended.  Nothing is claimed for a
waiter of another precision that an endless supply of newcomers walks past;
AcbPrecisionLease has no queue.  In the composites the condition applies to the
instance the behaviour chose.  OwnershipClosure, FireSession, AdjointTransport,
PathPlanner and the SCC modules claim safety only and state no fairness.

`FloorsRise` has a condition that was found with TLC.  `run` joins what a
builder asks for with `last_demand_` of the node it names, which is never older
than the floor if that node is among what the builder's node is built from.  A
builder may however name any node of the target's closure, a sibling for
instance.  Then the demand last recorded may be older than the floor, the floor
may fall, and a refinement that was granted before is granted again until
`max_refinements` is used up; if nothing was recorded in this executor,
`last_demand_.at` throws.  The builders of `tests/test_frontend.cpp`, the only
ones in the repository, name themselves or a parent, so the property has that as
its hypothesis; `RunEnds` does not need it.

### Findings

* `stream_terminals` (a bug): `add_rolling_tile` assigns `rolling_terminals_`
  outside `mutex_`; a finish in that window throws away a complete stream with
  the `logic_error` the code believes impossible.
* `checkpoint_states` (a bug): the room for the two states of
  `transport.run_arms_consuming` is tested against registered states only and
  not again at publication.  Two overlapping marches exceed
  `transport_state_capacity`, and a checkpoint saved afterwards cannot be
  restored.

* `released_sources` (doc against code): a value handoff does not own the tile
  plan and the local it came from.  After a client released one of them the
  session saves and its file is refused; a comment of the snapshot promises that
  whatever is still in use survives release.
* `fire_pending` (doc against code): the files of a pending snapshot are renamed
  into place without fsync.  After a loss of power the manifest may be there and
  torn, and lookup then refuses the demand; a comment calls this work durable.
* `adjoint_resume` (doc against code): `batch_rows`, which a leg may halve for
  all that follow, is not in the continuation.  A resumed run starts from the
  full batch, so that its later charts and Taylor polynomials differ from those
  of the uninterrupted run, which the comment of `AdjointContinuation` says they
  do not.  `ResumeContinues` has as its hypothesis that no later leg wants a
  larger batch than an earlier one allowed.

Neighbours met while modelling, which have no run of their own:

* A one-tile `transport.run_arm` puts its released anchor back without a
  reservation and can exceed `local_capacity` as in `checkpoint_states`:
  `run_one_tile_arm` with `local.release` in MCCheckpointStates.cfg shows it.
  Since a consuming march reserves nothing, `checkpoint.save` also succeeds
  between two of its hops although its message promises a quiescent session.
  `StateCapacity`, `LocalCapacity` and `QuiescentImage` are therefore stated for
  sessions without those operations.
* `RestoresWhole` has two exceptions that the code has: the key of a released
  chart that was prepared again while the old chart is still owned
  (`KeyTakenAgain`), and a handoff that is not fed by what the file holds
  (`HandoffUnfed`), which needs no release when the incoming local is an
  unsealed materialized one that is installed too late.  A terminal factorized
  match attached to a registered sealed local is not followed by the snapshot
  and is lost; no request of a client reads it.
* A save that fails after its rename leaves an image with the generation number
  of the next save.
* Two columns of one composite that are accepted can still be incompatible: if
  one is sent with the rational `radius` alone and the other with
  `radius_exact`, or one with a null `cancellation_audit_base` and the other
  without it, and both meet the same root, the second is refused with E5
  (`json_codec_chart_scc_state.ipp` 2217-2219).  A comment there (1744) calls
  such a target "a composite-owned mathematical object, not a replay of
  whichever public column happened to discover it first"; the contract it is
  compared under is still a copy of that column's fields.  `EveryChainOnce` is
  stated accordingly, and MCSccColumn has both forms.
* Charts and equations may exceed their capacity and charts outlive the close
  (`LateGuards` is stated for what tests).
* The lookup of pending FIRE work throws after more than 64 generations of one
  demand; the newest generation by modification time wins even when an older one
  is further; a process that dies between the sync of a batch and the retirement
  leaves snapshots behind that nothing removes.
* `accumulate_diagnostics` (`kernel/json_codec_chart_scc_state.ipp`) does not
  add up pseudo hits, so the identity of a column always says
  `"pseudo_compensation":"none"`; and the record of a rational shadow is written
  with `..._reference` keys where the matching runtime requires others.

## 4. What is proved

The theorems hold for every value of the constants that satisfies the named
assumptions at the head of each module.  These are types; finiteness of the
threads, requests and clients; and what the code guarantees: `worker_count` is
the minimum of the crew and the number of tasks (`PoolAssumption`), an arm has a
tile (`ExpectedAssumption`), an image has a piece (`PiecesAssumption`), a
working precision is positive (`BitsAssumption`).  A theorem that leaves out an
operation says so in its statement.

**Sessions** (SolverSessionProofs).

* `TypeCorrect`, `PromisesApart`, `CountersExact`.  The inductive invariant is
  `IndInv == TypeOK /\ Ledger /\ Accounting`.  `Accounting` alone is not
  inductive: giving back a reservation lowers the counter by the size of `held`,
  and that is the right amount only if no other request or stream holds the same
  handle, which is what `Ledger` says; `Ledger` in turn needs every handle in
  use to be below its counter, so that a new one is fresh.  A step is one of a
  few shapes (quiet, reserving, settling, taking or starting a stream, closing),
  each with a lemma, and each operation is shown to have one of the shapes.
* `NothingAfterClose`, `SharedRoom`, `StateRoom`, `LocalRoom`.  To count what a
  publication adds one needs that it registers no more than was reserved
  (`Covered`), and for locals that a hop which erases its basis holds exactly
  one local in return for at least one it erases (`Spending`). `StateRoom`
  assumes that `run_arms_consuming` is not among the operations, `LocalRoom`
  that the one-tile arms are not: the hypotheses are in the statements.
* `EachConsumedOnce`.  `ConsumedOnce` compares what was consumed with what is
  registered now, so a local that comes back would break it.  The invariant
  `Consumed` adds why none does: a request registers only locals it reserved
  itself (`YieldsItsOwn`), it erases only owners it resolved and compares again
  (`SpendsResolved`), and what was consumed is below the handle counter and
  reserved by nobody (`HeirsGone`).  The two operations over an arm of one tile,
  which register their anchor again, are excluded in the statement.
* `AccountsSurviveRestores`, `SavesAreQuiescent`, `SavesAreRestorable`, about
  SessionCheckpoint.  `StoredInv` is `IndInv` with what the file must be for a
  session to be made of it (`DiskTypeOK`), the fact that a request that is idle
  holds nothing (`IdleIsFresh`), and the order of the generations.  A restored
  session is `Rested`, and that implies every invariant of a session, which is
  why the proofs above carry over.  A save tests the counters only; that they
  are zero means that no request is in flight because every request in flight
  holds a handle (`FlightHolds`), which `transport.run_arms_consuming` does not.
  Restore tests the capacities, so `SavesAreRestorable` needs the room of every
  kind and has the hypotheses of `StateRoom` and `LocalRoom`.

**Streams** (ArmProofs).

* `StreamTypes`, `TilesOnce`, `EndsOnce`.  `EveryTileOnce` speaks of a line that
  is published; `SumsCount` says what the accumulators hold before, as long as
  nothing failed, `NamesTile` that a request never counts past the end of an
  arm, and `TakenAlone` that whoever took the stream out of the registry has it
  and its reservation alone.  `FinishedOnce` keeps a second ending out.

**Pools and caches** (PoolsAndCachesProofs).

* `CacheTypes`, `KeysMeanObjects`, `GuardsHold`.  Between the sections of a
  request its handle is issued and its object is not stored.  `Fresh` says that
  such a handle belongs to nobody else, for which `Issued` bounds every handle
  by the counter; `IssueBound` counts the requests that drew one.
* `PoolTypes`, `PrecisionHeld`, `NothingIsLeft`, `TasksOnce`, `LowestReported`,
  for any number of requests, workers, tasks and precisions and every `Trait`.
  The invariant has one part for the lease (`LeaseAgreed`) and, for each
  request, seven: which workers exist at each point of the caller (`Crewed`),
  who sleeps at the gate (`Sleepers`), how often each thread holds the lease
  (`Leased`), which tasks were drawn and by whom (`Drawn`), why a task that was
  not executed was not (`Accounted`), what was returned (`Returned`), and the
  bounds of the counters (`Counted`).  `Accounted` is the heart of
  `EveryTaskOnce`: a worker leaves only when the tasks have run out or its
  request has given up.

**Files** (PersistenceProofs).

* `PathAlwaysWhole`, `ReadersGetOneImage`, `SavesAreKept`, `TempsOfTheDead`, for
  any writers, readers, images and pieces.  That the path names one whole image
  says nothing of the files a writer is still filling or of those a loss of
  power can bring back, so the invariant adds what each writer's temporary file
  holds at each point of its program, that no two of them share one, and that
  whatever the directory can fall back to is a whole, synchronised image;
  `AcknowledgedKept` itself states which files those are once a save was
  acknowledged.
* `FireInvariant`, `RetiredBehindTheBatch`, for any processes, demands and
  bounds.  That a snapshot disappears only behind a durable batch is an action
  property; a process between the sync of its batch and the retirement relies on
  what it did steps earlier, while others publish and retire under the same
  names and the power fails.  The invariant `FireInv == FireTypeOK /\
  RetiresDurable /\ Extends` says that whoever is about to retire has a durable
  batch of the very name, and that demands only grow along the rules they were
  started from.

* `OnTheWay`, `RunsGoOn`, for any runs, problems, points and stops, over
  AdjointTransport.  `ResumeContinues` compares runs that ended, which shared
  nothing but a file.  The first half needs, of every run and every continuation
  that may be read, that the charts behind it lead to where it stands, and that
  the count it carries is the number of charts on this leg (`Placed`): that is
  what makes the budget of a leg hold across resumptions.  For the second,
  `Then` is what one uninterrupted run does at a place, and `OnWay` says that a
  place is reached by it from the start.  Walks and files are all on the way,
  and a way has one end (`OneEnd`); the file sends a run back along it.  The
  batches are the difficulty, since a resumed run starts from the batch of the
  options: `FittingTwice` shows that reducing a batch for one leg and then for
  another gives what reducing it for the other gives, if the other wants no
  larger one, which is the hypothesis `BatchesShrink`.  Each problem is assumed
  to have a positive number of rows (`ProblemsAssumption`).

**Ownership** (PersistenceProofs).

* `OwnersStay`, `SessionsComeBack`, for any clients, kinds and sequences of
  requests.  `RestoresWhole` compares what a session owns with what restore
  builds from its file.  `ClosureInv` has the form of every object
  (`ClosureTypes`), that whatever is owned is there (`Kept`), and that nothing
  owns itself however indirectly (`Founded`).  The last makes restore complete:
  it builds objects in passes, each as soon as what it needs is there, and of
  the objects a walk would leave out there is one that needs none of the others,
  which the walk would have taken.  What was built is then the objects of the
  file with the same owners, and what can be reached from the handles is what
  was saved, since both are least closed sets.

**Recursive cache** (RecursiveCacheProofs).

* `OneBuilder`, `EdgesAreExact`, `AnswersNeverDiffer`, `CacheImplementsTable`,
  for any finite set of threads, any keys and any dependencies, circular ones
  included.  `OwnsWhatItBuilds` needs to know that only the innermost call of a
  thread is outside a builder, that the builders below it are of different keys
  (`Frames`), that two keys never share a build (`OneKey`) and that a
  `BuildState` is not reused while a waiter refers to it (`Waiting`): otherwise
  a builder that fails could erase the entry of another. `Answered`, that an
  answer stays retained, gives agreement at once.  The refinement is then a
  simulation step by step: `Own` begins, `Publish` finishes, `Fail` abandons,
  `Hit` and the wake-up of a waiter answer, and the rest changes nothing of the
  table.
* `NoCircles`, `RefusalsAreReal`.  `register_wait_locked` follows the edges for
  as many steps as there are threads.  `ChainVisits` and the pigeonhole
  (`Repeats`) show that this reaches whatever a path of edges can reach, so a
  thread that is not found is not behind the owner of the build, and a wait
  keeps the graph without circles (`Acyclic`; all other steps take edges away).
  That a refusal is real needs the keys along the path: every key in flight is
  being made by a call of some thread (`Owned`), and the call above a builder on
  a stack is for a key the builder asks for (`Descends`).  A set of keys closed
  under what builders ask for then contains, thread by thread along the path and
  call by call up each stack, the key that was refused.

**Executor** (ExecutorProofs).

* `ExecutorTypes`, `NothingStaleIsReused`, `ReturnsMeetDemands`,
  `NothingBuiltTwice`, for any graph, demands and builders. That nothing stale
  is cached says nothing of the call whose parents are obtained and whose
  artifact is not built yet, so the invariant adds, for each call on the stack
  (`Calls`), that the parents it has already are still eligible and meet their
  floors, that no cached artifact of its node would do for it, and that its node
  is strictly below those of its callers.  The last is what keeps a build from
  filling the cache of a caller, and it holds since `validate_graph` refuses
  cycles; that what is cached was built in a valid graph (`CachedValid`) is
  needed when a refinement erases.  `Outermost` carries the demand of the run to
  its return.
* `FloorsNeverFall`, an action property.  A refinement joins what is asked for
  with `last_demand_` of the node it names, so the floor stays if that was
  recorded after the floor rose.  `FloorInv` adds `Recorded`: it was, for every
  node that an eligible artifact or a call on the stack was built from, since
  raising a floor forgets whatever was derived from its node.

**Composites and columns** (SccColumnProofs).

* `PassesFindComponents`, for any graph. A walk is a stack of calls, the order
  in which calls returned and the trees they marked. `OpenAt` says of each call
  on the stack that what returned before it was made leads to nothing but itself
  and the calls below, and that what returned since is reached from it;
  `ReturnsWell` is what is left of that when all have returned. On the reversed
  edges and against that order, each tree of the second pass is then one
  component (`TreesInv`), and the passes end because each step calls or returns
  a vertex once.
* `CouplingDepthIsLongest`. After the first k blocks of the order were pushed, a
  depth is the length of the longest chain that leaves only those k (`Deep`).
  Every chain ascends in the order (`WalkAscends`), so none is longer than there
  are blocks, and after the last block these are all chains.
* `ManifestIsTrue`. Nothing is solved from a manifest that was not accepted
  (`ManifestInv`), and `AcceptedEntries` counts: an entry inside a block is in
  the chart of that block alone, an entry between blocks in one coupling group,
  at one place of it since rows and columns ascend.
* `EveryChainHeldOnce`. `EveryChainOnce` speaks of columns that are published;
  `ColumnInv` has, for a column that is under way, that the blocks the seed
  leads to and that are not left to do hold every chain to them and were fed by
  every coupling from a block the seed leads to, that all others hold nothing
  (`ColumnAt`), and that the evidence names each block solved so far once
  (`LogFits`). The nearest block of the rest has all its neighbours behind it in
  the order, so what is solved of them is all that leads to it (`NextTarget`),
  and a chain to it is a chain to one of them and a last step (`SourceHolds`).
  `MarkedIs`: the marks of `expected_targets` are the blocks that chains from
  the seed end in. The final certificate then finds the path it derives again
  (`CompleteIsUnique`). What the cache of homogeneous solutions holds is of one
  contract under one key, and a contract is decided by the form of its request
  and by nothing else of it (`CacheFits`); so a refusal is over the form
  (`RefusalFits`). TLC checked `ColumnInv` on the instance of `scc_columns`
  before it was proved.
* `OneFormNeverRefused`: under the hypothesis that all requests are written in
  one form, which the code does not require, no request is ever refused.

**Plans** (ArmProofs).

* `PlansStand`, for any requests of arms with finitely many points to avoid
  (`RequestsAssumption`: a request has finite lists).  The inductive invariant
  `PlanIInv` only says that an answer is all plans or none; TLC checked it on
  the instance of `arm_work`.  The rest is about one call of the planner.
* `GcdIsGreatest`.  A call of `Gcd` ends since its second argument falls
  (`GcdRecursion`), and the least argument for which the result were wrong
  cannot exist.  Fractions in lowest terms are then unique (`SameFraction`),
  which is what makes `x \notin Forbidden(arm)` a test of values and not of
  spellings.  `Worth(q, n, d)` relates a rational to any fraction that it is;
  over a common denominator the operations and the order are those of integers,
  and that is how the later proofs compute.
* `PlannableIsPlanned`.  Each of the four ways to choose a handoff yields a
  point strictly between the centers, within the two reaches and not forbidden
  (`Fits`, by `HandoffFits`); in coordinates of a chart that is what its limits
  say (`LocalReach`).  Conversely, between charts that `Joinable` describes one
  of the ways succeeds: the balanced point lies within both reaches whenever
  they meet (`BalancePoint`), and when it is forbidden there are more candidates
  than forbidden points, all different and inside (`PartWay`, `ElsewherePoint`).
  Handoffs that fit pass the final validation together (`PlanValid`), tiles and
  disks included.  `PlanIsSound` reads the safety of a plan off `Fits`.
* `MirroredPlan`.  Each operator of the planner commutes with a change of sign
  of all coordinates (`MirrorReach` to `MirrorHandoff`), the choice of the first
  free candidate included, since candidates are counted along the arm.

Only model-checked: the liveness properties `DrainsAfterClose`, `CallsEnd`,
`ReservationReturns`, `RunEnds` and `PoolRequestsEnd`, since tlapm proves neither
what fairness brings about nor ENABLED.

## 5. Plan

1. Done: the session, its checkpoints and streams; the recursive cache; the
   executor; pools and leases; prepared caches; composites and their columns;
   the ownership closure; FIRE sessions; adjoint transport; the tile planner.
2. Next modules, in order: the centered maps of adjoint transport
   (`adjoint_transport.hpp` 680-945: reduced precision, retries, the choice
   between map and recurrence); ArtifactStore with the order in which `lookup`
   prefers records; EpsilonDemand (`epsilon_demand.hpp`) as functions on small
   graphs; the recursion pipeline over executor and store.
3. Proofs: every invariant of the runs, the action properties and the refinement
   have theorems; what remains are the modules of item 2.

## 6. Not modelled

Coefficient data, ball arithmetic and error bounds (real analysis); the JSON
codecs and response budgets; diagnostics and counters that no decision reads;
requests that only read; branch sheets, complex projections and certified
algebraic geometry of plans, which the planner carries along unread; the pool of
homogeneous columns, which is one more pool like those of WorkerPools; the
external FIRE process and the modular reconstruction; the Mathematica wrapper,
oracles, tools and the Lean notes.  PROJECT.json gives the reason for each
component.
