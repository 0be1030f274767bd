# A verification project for filigrio

filigrio keeps a graph of a source tree and answers questions about it. A
daemon holds the graphs of many projects in memory, follows the file system,
applies changes, persists what it has, and serves command-line and MCP clients
over a socket. This directory holds TLA+ modules of its parts, the TLC
configurations that check them, and proofs that TLAPS checks. `PROJECT.json`
lists components, runs, mutations, findings and hazards, and names for every
definition the source lines it stands for. All paths below are under
`src/src/crates/`.

## 1. The system

| part | state it keeps | operations | who talks to it |
| --- | --- | --- | --- |
| resident state: `filigrio-daemon/src/{flush,cache,locks}.rs` | LRU map of graphs with a query view each, dirty map, checkpoint per project, lock per project | `state_of`, `record_apply` (write-through / write-behind), `flush_project`, `flush_locked`, `flush_evicted`, `flush_all` | every apply, every query, the cadence driver, shutdown |
| cadence: `flush.rs` | first-dirty and last-apply time of each dirty project, the driver thread | `due`, `flush_due`, `start_driver`, `stop_driver` | the resident state |
| apply path: `apply.rs` | none of its own; runs under the project lock | apply, apply-exact, reconcile, recluster, cold command | worker pool, wire commands |
| producer lane: `daemon.rs` `run_inner`, `scheduler.rs`, `priority.rs`, `watchers.rs` | priority queue, deferred jobs, in-flight set, owed reclusters | tick, dispatch, join, idle exit, drain | watchers, registry verbs |
| registry and watch mode: `project.rs`, `watchers.rs`, `daemon.rs` | registered projects, watch flag, registry file, live producers | register, remove, watch on / off, load, save | wire commands, run loop |
| life cycle: `daemon.rs`, `handshake.rs`, `bin/daemon.rs` | lock file, socket file, clean-shutdown marker | handshake, startup reconcile, shutdown, teardown | other daemons, auto-starting clients |
| query lane: `responder.rs`, `state_source.rs` | none; cached views live in the cache | queries, status | clients |
| store: `filigrio-store` | `state.json`, `graph.json` | load, merge of a delta, atomic write, export | flusher, one-shot client |
| pipeline: `filigrio-pipeline` | the manifest inside the state | freshness gate, reconcile, extract, stamp, apply | apply path |
| ingest: `filigrio-ingest` | debounced events and the cached boundary of a watcher | classify, re-scope, produce | watch set |
| resolve engine: `filigrio-resolve` | none; from state and change set to a delta | relink, carry, heal, cluster | pipeline |
| query: `filigrio-query` | none | retrieval, look-ups, paths, report | query lane, one-shot client |
| extractors: `filigrio-index` | none | from text to nodes, references, exports | pipeline |
| git hooks: `filigrio-client-cli/src/hook` | spool directory of undelivered change sets | diff, deliver, replay, sweep, cap | git, daemon |
| clients: `filigrio-client-{core,cli,mcp}` | auto-start lock | auto-start, one-shot | daemon |
| installer: `filigrio-install` | other tools' files | install, uninstall, status | user |

What is hard here is threefold.

*Concurrency and crashes in the daemon.* Three locks (daemon mutex, cache mutex,
one lock per project) are held for different parts of one operation; disk
writes happen under none of the first two; an eviction under one project's lock
writes another project; queries take no project lock; the state is persisted
later than it is answered from; two schedulers (wire commands and the worker
pool) apply to the same projects; and a marker file vouches for what a previous
process left behind.

*Races with the world.* Files are edited while an apply walks, reads and stamps
them; the debouncer turns a history of events into one; hook processes overlap,
are killed, and share a spool; users edit what the installer has written.

*Incremental answers.* An apply re-extracts what changed, re-links what that can
concern, ships a patch, and starts clustering from the last partition; all of
it must come out as if everything had been built from nothing.

What makes each part correct:

* resident state: an apply builds on everything recorded before; an answered
  client command is on disk and stays there; the marker is only written over
  persisted state; the recency order names exactly the resident graphs; a view
  belongs to the state it is served with; no operation waits for ever.
* cadence: dirty time is bounded whatever the churn; bursts cost one write;
  the driver can always be stopped.
* producer lane: bounded pool, one apply per project, every change once and in
  order, a recluster debt is neither forgotten nor paid in the middle of a
  burst, idle exit and shutdown lose nothing they promise to keep.
* life cycle: one daemon per socket, which clients find; a marker vouches for
  persisted state only, so a start that believes it has nothing to re-hash; a
  client that starts the daemon gets an answer.
* pipeline, ingest, watch mode: once nothing is under way, the graph of a
  watched project is that of its tree; an entry of the manifest vouches for the
  nodes of its file; a deep reconcile converges; the watch flag tells the truth.
* hooks: no change set goes silently; the spool is capped; replays are ordered.
* resolve and store: an incremental apply gives the state of a cold build; the
  patch is exact; modularity grows; community ids follow their nodes.
* query: the nearest nodes within depth and budget, each once.
* installer: no line of the user is touched; uninstall restores; install repairs.

## 2. The modules

| module | models | role |
| --- | --- | --- |
| `ProjectStateCache` | `cache.rs` | the LRU cache; every operation runs under the cache mutex and is one step |
| `Flusher` | `flush.rs`, the critical sections of `apply.rs`, `state_source.rs`, `daemon.rs` | all threads that go through the resident state; extends the cache |
| `FlusherSafety` | - | the inductive invariants of `Flusher` |
| `FlushCadence` | `flush.rs`, `due` to `stop_driver` | when the cadence writes, in discrete time |
| `ApplyOrder` | the promise of `scheduler.rs` / `priority.rs` | abstract specification of the producer lane |
| `Scheduler` | `daemon.rs` `run_inner`, `scheduler.rs`, `priority.rs`, `watchers.rs` | the producer lane; implements `ApplyOrder` |
| `Lifecycle` | `handshake.rs`, `daemon.rs` startup / startup_reconcile / teardown / shutdown, `autostart.rs` | several daemon processes and clients on one socket |
| `Capture` | `watcher.rs`, `boundary.rs`, the pipeline's `lib.rs`, `reconcile.rs`, `dedup.rs`, watch mode in `daemon.rs` and `watchers.rs` | how a change of the working tree gets into the graph |
| `HookDelivery` | `hook/mod.rs`, `deliver.rs`, `spool.rs` | how a git hook's change set gets to the daemon |
| `ModuleResolver` | `modres.rs`, the workspace of `state.rs` | how an import becomes a file of the repository (operators only) |
| `Linking` | the resolution half of resolve's `lib.rs`, `export_graph.rs` | how one reference finds its node (operators only) |
| `Relink` | `Engine::apply` and its helpers, the store's merge and prune | incremental linking against a cold build |
| `Clustering` | `cluster.rs` | Louvain, warm start, inherited ids |
| `Traversal` | query's `lib.rs`, `query` | the retrieval of a query |
| `ManagedFile` | installer's `block.rs`, `hooks.rs`, `docs.rs`, `completions.rs`, file helpers of `lib.rs` | files of the user the installer writes into |
| `MCFlusher`, `MCScheduler`, `MCLifecycle`, `MCRelink`, `MCDaemon`, `MCIntake`, `MCEngine` | - | instances for TLC |
| `FlusherProofs` | - | theorems about `Flusher` and its cache |
| `SchedulerProofs` | - | theorems about `Scheduler`; that it implements `ApplyOrder` |
| `IntakeProofs` | - | theorems about `Capture` and `HookDelivery` |
| `RelinkProofs` | - | theorems about `Relink` and what it uses of `Linking` and `ModuleResolver` |
| `LifecycleProofs`, `CadenceProofs`, `TraversalProofs`, `InstallerProofs` | - | theorems about `Lifecycle`, `FlushCadence`, `Traversal`, `ManagedFile` |

`MCDaemon`, `MCIntake` and `MCEngine` each host several machines that share no
state: the variable `part`, chosen at the start, says which one a behaviour is
about, the others stay at their one initial state. That is several model checks
in one run, not a composition; where parts do interact, one module has both:
cache, lock table, flusher, driver, queries and shutdown in `Flusher`; watcher,
lane, apply, registry and restart in `Capture`; engine and store in `Relink`;
run loop, queue and pool in `Scheduler`; daemons and clients in `Lifecycle`.

**Flusher.** A graph state is its *version*: the number of applies it contains.
That is all the properties tell apart: an older version in memory or on disk
than the one an answer was given for is a lost update. Every thread has a
program counter (`pc`), its project (`proj`) and the state it has in hand
(`val`). One action is one critical section or one disk access, since other
threads run between two of them: `state_of` is a hit or a miss, a load, an
install; `record_apply` is a checkpoint write, a cache insert and the update of
the dirty map, or a put and the update; `flush_evicted` clears the dirty entry
and writes, per victim; `flush_locked` looks at the dirty map, peeks at the
cache, writes, marks clean, clears. Five kinds of threads: *clients* (wire
commands, write-through, and the explicit flush and export verbs), *workers*
(the pool, write-behind), *readers* (queries; they run under the daemon mutex,
so one at a time, and hold no project lock), the *driver* of the cadence, which
is also the thread that runs `flush_all` once the driver is joined. `latest` and
`acked` are history variables: applies recorded, and what a client has been
told. `Restart` stands for a crash at any point as well as for an orderly end:
memory is gone and the checkpoint is what there is.

**ProjectStateCache.** `order` is the recency deque, `Victims` what an insert
evicts, `EvictedBy` what it hands back for writing. A view is the version it
was built from; whether a reader's `Arc` is still the resident one
(`Arc::ptr_eq`) is the set `shares`.

**FlushCadence.** Ages instead of clock readings keep the state finite. A
flush takes up to `MaxHold`, from asking for the project's lock to the end of
the write; time stands still only while the driver has an immediate step.

**Scheduler.** The run loop is one process: `loop` says where it is. A tick is
routing (one producer a step, in any order) and collecting (one item a step);
connection tasks get the daemon mutex between the two and not during either.
`dispatch` looks at one job a step; `pass` is what it has not looked at. Jobs
end on their own threads at any time (`JobEnds`) and the loop notices later
(`JoinNext`). Of an apply only the outcome matters: it changed something, it did
not, it failed. Removing a project forgives its debt. The idle timer may have
expired at any time.

**ApplyOrder.** Per project the changes that wait and at most one that runs, the
oldest first, and when changes may be given up: only for unwatched projects and
on the way out. Changes of a project are numbered, so a set of numbers is a
queue. `Scheduler!AppliedInOrder` maps everything in channel, queue, deferred
list and the pass of `dispatch` onto the one abstract set; so it says that the
four containers together neither lose, duplicate nor reorder.

**Lifecycle.** Daemon processes walk through handshake, startup, serving and
teardown, one file-system call a step, and may die at each (`Crash`). A flock
belongs to an inode: `fd` is what a process has open, `lockPath` what the path
names, and the two differ once the path has been unlinked. A dead daemon's
socket file stays as `"stale"`. The marker is absent, torn (created, not
written) or clean. Of the projects only two bits are left: whether a daemon has
state that is not on disk, and whether such state was lost and no deep
reconcile has run since; `Flusher` looks inside. Removing the marker at startup
may fail at every start; the code then logs that "a crash of this daemon may be
mistaken for a clean exit" and serves (daemon.rs:918-931). Such a process is
`stuck`, and what it loses itself is not counted in `lost`. `Overlap` says whether a
process may start while another goes down, `ReconcileFails` whether a project's
startup reconcile may fail, which is logged and served over. Clients hold their
own guard file, start a process, and wait for the socket or a timeout.

**Capture.** One project, its tree and its daemon. A text stands for a file's
content and its hash; the clock is the number of edits. The graph is, per file,
the text its nodes were extracted from (`nodes`), the manifest an entry of hash
and mtime per file, both resident and as last stored. An edit becomes an event
in the debouncer (`raw`), whose folding rules are those of
notify-debouncer-full as the watcher uses it; a batch is classified against the
boundary the watcher has cached and queued in the `lane`. An apply takes the
project's lock (`job`), gates or walks, probes for files that have gone, reads,
stamps and records, and the user may edit between any two of those. Watch verbs
are two-phase (`converging`), restarts are orderly or not. Some coincidences
make the code miss a change; each has a name in `Mishaps`, `mishaps` says which
of them this behaviour may have, and a property says which it cannot stand:
`WatchedIsFresh` all but `mtime` and `verbs` (and never a file whose last write
kept its mtime), `ManifestVouches` `apply` and `replace` for one half each,
`DeepConverges` both of them, `WatchFlagAgrees` `verbs` and `apply`.

**HookDelivery.** A hook is a process with a program counter (`at`): it sweeps,
lists the spool once and replays that list (`todo`) oldest first: it reads a job
(`LoadJob`), which from then on it has in memory, sends it (`SendJob`) and
removes its file (`RemoveJob`), three steps between which another replay can do
the same. Then it diffs, tries the socket, else writes a temporary file, renames
it and enforces the cap. It can be killed at every step, the daemon comes and
goes (`Flip`), jobs of another version and change sets past the frame limit
occur, and removing a job's file can fail, which the code ignores (`Unlink`; `Sticky`
says of which jobs, `unremoved` when it has).
`received` has every arrival at the socket, repeated ones too; `placed`,
`capped`, `unremoved` and `reported` are history variables. That the spool's directory
cannot be listed (spool.rs:121-123, 157-159) is not modelled.

**ModuleResolver, Linking.** Paths and names are sequences of segments. The
probe order of files, extensions and index files, joins with `..`, crate and
package prefixes with the workspace's dependencies, re-exports by name and by
wildcard, candidates by label, receiver type and project, and the tie break by
id order follow the source; the oxc resolver and the reading of manifests do not
appear (a manifest file declares a project).

**Relink.** A scenario (`menu`) gives every file the contents it may have; files
are edited and applies are told some of what is pending. One `Apply` is the
whole of `Engine::apply`: extraction of what was told, workspace and
export tables, impact set or everything, carried edges, healing of sites whose
reference was lost, inline or deferred clustering as far as it changes which
nodes have a community, and the delta, which `Merge` folds into the state as the
store does. `ColdBuild` is the same engine from an empty state. `faults` records
that a reference was lost from the state, or that an apply resolved imports among
files that had come or gone unnoticed (section 5).

**Clustering.** A level moves one item a step in visiting order; passes go on
until nothing moves, `Full` aggregates and goes on, `Stabilize` hands the prior
ids out. Weights are whole numbers and modularity is compared exactly, scaled by
`two_m`, where the source uses floats with an epsilon; labels keep the order the
source compares. That every level ends follows from `ModularityGrows`.

**Traversal.** One action per item taken off the queue, breadth or depth first;
the graph is what the filter of the query lets through, and edges come latest
first, as petgraph hands them out (`OutEdge`: the k-th edge of a node has k - 1
later ones). `Ball`, what is within k hops of the seeds, is the reference.

**ManagedFile.** A text is a sequence of words, newlines and the two markers;
`find`, `upsert`, `remove` and the separator blank line follow `block.rs`. The
destination may be a link, of a link, or dangling; `write_all` goes through
links. Writing and setting the mode of a hook are two steps with `Die` between
them. The user inserts and deletes lines, loses the mode bit, upgrades.

## 3. What the runs check

| run | instance | what it shows |
| --- | --- | --- |
| `flusher_resident` | 2 projects, room for both, 1 client, 1 worker, driver, 2 applies per project, failing writes, crashes | no lost update, acknowledged stays on disk, honest marker; the inductive invariant itself |
| `flusher_paging` | room for one project of two, 1 worker, 1 reader, driver, failing writes | `CacheCoherent`: recency order exact, views never outlive their state |
| `flusher_progress` | room for one project, 2 workers, fairness | every operation returns, no lock cycle |
| `scheduler_progress` | 1 permit, unnumbered events that never stop, fairness | pool bounds with less room than projects, deferred jobs begin, slots come back, reclusters come after the burst |
| `daemon_frame` | *lane*: 2 projects, 2 permits, 3 and 1 events | debts kept, idle exit and graceful stop lose nothing, a recluster runs only on a quiet project, refinement of `ApplyOrder` |
| | *cadence*: 2 projects, window 3, cap 5, poll 1, flush at most 1, failing writes, fairness | bounded dirty age, one write per window, stopping the driver returns |
| | *lifecycle*: 2 processes, 2 clients, 4 starts, crashes anywhere, failing removals of the marker, no overlap, fairness of the clients | one reachable daemon per socket, marker honest across processes, clients return |
| | *paging*: room for one project, 1 worker, driver | evictions with one apply at a time lose nothing, keep the marker honest, and leave nothing unsaved that nobody is going to write |
| `intake` | *tree*: 2 files, 2 texts, 2 edits, 1 restart, queue of 2, three sets of coincidences | a settled watched graph is that of its tree, the manifest vouches, deep reconciles converge, the watch flag agrees |
| | *hooks*: 3 hooks, spool of 2, 1 foreign and 1 waiting job, the latter perhaps too large for a frame or not to be removed, 1 start or stop of the daemon | no change set goes silently, spool capped, first arrivals in order and no file behind them |
| `engine` | *linking*: five small trees, 2 files pending, both scopes | an incremental apply is a cold build, the patch is exact, a lost reference costs no edge |
| | *clustering*: every graph of 4 nodes with weights 0 to 2, 1 edit, both strategies | every move raises modularity, no change keeps every id, ids follow their nodes |
| | *retrieval*: 686 graphs of 4 nodes, 1 or 2 seeds, depths 0, 2, 4, budgets 1, 3, 5, both orders | nearest first, each node and edge once, closed answers |
| | *installer*: hook, doc and completion, 12 layouts, 2 versions, 2 words, 2 alterations | user lines survive, uninstall restores, install repairs |

Five more runs are expected to find a violation; section 5 explains them.

*Bounds.* Two projects are what a lock cycle, an eviction and a starvation
need; two applies per project make one older version distinguishable from the
newest while another is being written; one thread of each kind suffices for the
races between kinds, and two workers are used where the race is between
applies. A permit less than projects makes `dispatch` defer; with as
many permits as projects one is deferred only behind its own project. Two numbered
events of a project make a swap visible, and a third lets a change arrive behind
a recluster that waits, while the other project shares pool and queue; for the
liveness run events are unnumbered, at most one pending per project, and never
stop, so that a starvation would show. The cadence's times are ordered as in the
defaults (poll < window < cap). Two processes are what a race for the lock needs,
and four starts let both of them run twice, so that one finds what the earlier
life of the other has left: a stale socket, a marker, a lock file that is gone.
In `Capture` two files separate what a batch does to one from what it does to
the other, and two edits are a change and another one in the window the first
one opened; a restart separates resident from stored. Three hooks are the
fewest of which one spools a job and two replay it at the same time; with the
waiting job, which is older, the two can deliver in different orders, and the
spool's cap of two is reached. A second stop of the daemon would cut a replay
short once more, which `Kill` does anywhere. The linking scenarios are the smallest
trees for one mechanism each (same-named definitions and receiver types that
come and go, imports through a barrel with a wildcard that leads back to it, an
import under another name, a workspace of packages, a path of modules); two pending files let an apply be told of one and see both.
Four nodes are what a merge of two pairs needs. The retrieval graphs contain
cycles, diamonds and detours. Two alterations let the user break a block in two
places, or break it and upgrade.

*Fairness.* Flusher: a begun operation runs on an OS thread of its own, so its
steps are weakly fair; the project lock is a parking_lot mutex, which hands
over to a waiter eventually, so acquiring it is strongly fair. Scheduler: the
loop's own steps and running jobs are weakly fair; `tokio::select!` polls ready
branches in random order and the tick is a wall-clock interval, so the tick and
a completion are strongly fair. `DaemonSpec`, for cadence and life cycle: time
passes and the driver thread runs; a client's own steps are weakly fair, its
timeout among them (phase 4 counts wall-clock time), and the blocking flock is
strongly fair; nothing is assumed of the daemons. Elsewhere nothing is assumed
of clients, watchers, signals or timeouts.

*Deadlock* is checked in every run but two. A daemon that ended stays so by a
stuttering step (`Stopped`, `Joined`, `AtRest`, `HooksOver`) or is restarted
(`Restart`). `engine` and `relink_indirect` do not check it: a tree whose files
have one content each has nothing left to do, and an answered query neither.

Every property has a mutation of a modelled definition (the operators commented
"Mutation:") with which TLC finds it violated.

## 4. What is proved

All theorems are about the specifications the runs check, for every value of
the constants. The hypotheses some of them have are named here with their
reason; the others need nothing but the modules' assumptions on their constants.

| theorem | shows | hypotheses |
| --- | --- | --- |
| `FlusherProofs!TypeCorrect` | type invariant of `Flusher` | - |
| `FlusherProofs!CacheStaysCoherent` | `CacheCoherent` | - |
| `FlusherProofs!SafetyInvariant` | `SafetyInv` | `ResidentRegime` |
| `ResidentSafety`, `FlushesAreDurable`, `MarkerTellsTruth` | `NoLostUpdate`, `AckDurable`, `MarkerHonest` | `ResidentRegime` |
| `FlusherProofs!PagingAloneIsSafe`, `NothingUnsavedIsForgotten` | `AloneSafe`, `UnsavedIsTracked` | `AloneRegime` |
| `CadenceProofs!CadenceTypeCorrect` | `CadenceTypeOK` | - |
| `CadenceProofs!CadenceKeepsTime` | `WritesAreTimely` | - |
| `SchedulerProofs!PoolSafe` | `PoolBounds`, type invariant | - |
| `SchedulerProofs!DebtsSafe` | `DebtKept`, `IdleExitLosesNothing` | `~ Faults` |
| `SchedulerProofs!ReclustersQuietly` | `ReclusterWhenQuiet` | `EnoughPermits` |
| `SchedulerProofs!EndsInOrder` | `EndsOrderly` | `EnoughPermits`, `~ Faults` |
| `SchedulerProofs!ChangesInOrder` | `AppliedInOrder`: `Scheduler` implements `ApplyOrder` | `~ Endless` |
| `LifecycleProofs!LifeTypeCorrect` | type invariant of `Lifecycle` | - |
| `LifecycleProofs!OneDaemonServes` | `OneReachableDaemon` | `~ Overlap` |
| `LifecycleProofs!MarkerIsTrue` | `MarkerVouches`, `CheapStartsAreSafe` | `~ Overlap`, `~ ReconcileFails`; the losses of a `stuck` process excepted |
| `IntakeProofs!CaptureTypeCorrect` | `CaptureTypeOK` | - |
| `IntakeProofs!EntriesVouch`, `FlagAgrees`, `NothingIsLost` | `ManifestVouches`, `WatchFlagAgrees`, `WatchedIsFresh` | - |
| `IntakeProofs!DeepReconciles` | `DeepConverges` | - |
| `IntakeProofs!HookTypeCorrect` | `HookTypeOK` | - |
| `IntakeProofs!NothingGoesSilently`, `DeliveredInOrder` | `SpoolKeepsJobs`, `ReplaysInOrder` | - |
| `RelinkProofs!PatchesAreExact` | `PatchIsExact` | - |
| `RelinkProofs!AppliesAreCold` | `IncrementalIsCold` | scope `"global"`: -; scope `"scoped"`: `~ Importing` |
| `RelinkProofs!CommunitiesStayOfNodes` | `CommunitiesAreOfNodes`: only nodes have a community | - |
| `TraversalProofs!BreadthFirstIsNearestFirst` | `NearestFirst` | - |
| `TraversalProofs!AnswersAreSound` | `AnswerIsSound` | - |
| `InstallerProofs!InstallIsARepair` | `InstallRepairs` | - |
| `InstallerProofs!UninstallIsAnUndo` | `UninstallRestores` | - |
| `InstallerProofs!UserLinesAreKept` | `UserLinesSurvive` | - |

*The hypotheses* are the code's limits, each with a behaviour in section 5 that
needs its negation. `ResidentRegime`: every project fits in the cache and no
query pages a state in. `AloneRegime`: any capacity, but one worker, neither
queries nor client commands, and writes that succeed; a second thread meets the
write-back of an eviction (`flusher_evict_race`). `EnoughPermits`: a permit for every project; with fewer a
recluster that finds the pool full is deferred, runs in the middle of the next
burst and is dropped at shutdown. `~ Faults`: jobs do not fail; the debt of a
failed one is not noted. `~ Overlap`: no process starts while another one goes
down. `~ ReconcileFails`: a failed startup reconcile is only logged.
`~ Endless` is none of the code: with it events carry no numbers and there is
no order to speak of. `~ Importing`, for scoped applies only, is a limit of the
proof and not of the code: no reference of the scenario imports a module. What
an import means hangs on `Walk`, a recursion over the export tables; that two
walks agree whose tables differ in untouched entries only needs an induction
over data. With imports the property of scoped applies stays with TLC.

What the proofs rest on besides is `MenuAssumption` of `Relink`, what an extractor
may yield: finitely many nodes and references, a reference made from a node of its own file,
and none with the relation of an edge that no reference makes; and
`PathOrderAssumption`, that every file has its place in the order of ids.

*The argument of CacheStaysCoherent.* Behind the recency order stands that
`RemoveFirst` takes a project's only place out and an insert evicts a prefix of
the order, which are lemmas about sequences (the first part of
`FlusherProofs`). Views: a reader shares its `Arc` with the cache only as long
as no insert or eviction of its project came in between (`CoherenceInv`), so
that what it publishes was built from the resident state.

*The argument of SafetyInvariant.* None of the three properties is inductive:
nothing in them says where a version that is not on disk is. `SafetyInv` does.
`LockOK`: a thread between lock and unlock owns its project. `LanesOK`: who can
be at which step. `ProjectsOK`: per project, acknowledged <= on disk <= latest;
not resident means on disk and not dirty; resident means newest, except while
a write-through is between checkpoint and cache; clean means on disk, except
while a write-behind is between put and dirty map. `HandsOK`: what a thread has
in hand at each step. `ShutdownOK`: during the final flush, what is not on disk
is still listed, in the driver's hands, or a failure has been noted. The proof
has one lemma per action; most of the work is that a step of one thread leaves
the hands of the others alone, which the project lock gives. That a flush finds
a state of every dirty project is in it too (with room for all, dirty means
resident; where states are paged out it does not, see section 5).

*The argument of PagingAloneIsSafe and NothingUnsavedIsForgotten.* Where states are paged out a version has one
more place to be in: the list of victims the worker still has to write back
(`InFlight`). `AloneProject`: a project that is neither resident nor in flight is
on disk; one that is resident and clean too, unless its apply is about to mark it
dirty. `AloneWorker`: the victims are other projects than the one the worker has
locked, none is resident, and each carries the newest version of its project.
`AloneDriver`: what the driver has in hand at each step; its flush may find a
state on its way to disk, and then its answer does not say that it is there.
That an insert evicts only what `CacheCoherent` says is resident is taken from
`CoherenceInvariant`. `AloneAlways` is the induction; both theorems follow from
it. The second is the first parts read the other way: what is not on disk is
dirty and resident in its newest version, or about to be marked, or in flight; so
the flush that meets a project as paged out and drops its flag forgets nothing.

*The argument of CadenceKeepsTime.* The age of a project says nothing of how
long the driver still needs. `InTime` bounds age plus remaining work in each
place of the driver: asleep, it wakes within a poll; in a pass, each project
still listed costs at most `MaxHold`; a project that was not due when the pass
listed it is young enough for the next one. `SinceInv`: a dirty project that was
written less than the gap ago has been dirty, and still, for no longer than
that, so that `due` does not list it; and one that is listed was written longer
ago, whatever clients and applies do to it before its turn.

*The argument of PoolSafe and DebtsSafe.* `dispatch` compares the size of the
in-flight set with the permits, while the bound is on threads: `PoolInv` adds
that the two are finite and equal in number. `DebtInv` strengthens `DebtKept`
in three places: a debt is held for removed projects too, since they may come
back before it is forgiven; a recluster that has ended has made up for what was
put off, so that its completion may be forgotten (two applies of one project
would break that, which is where `PoolBounds` comes in); and `pass` is empty
outside of dispatching, so that a completion overwrites nothing.

*The argument of the lane (the second half of SchedulerProofs).* For the refinement, every list is in order
(`ListsRise`), and so are the lists a change goes through: deferred jobs are older
than those of the pass, these older than the queue, and that older than the
channel (`StagesRise`); a lane and a channel hold jobs of their own projects only
(`InPlace`). `dispatch` goes over deferred and queued jobs and may take one only if
no older one of its project was put back in the same pass: a job is put back only
while its project, or the pool, is busy, and no slot is given back before the
pass is over (`PutBack`). Every step of `Scheduler` is then a step of
`ApplyOrder` or none. For reclusters, a permit for every project means that one
is made only when it fits, so that no list ever holds one (`PaidAtOnce`) and the
debts of a stop are in `owes_recluster` or running (`StopInv`).

*The argument of LifecycleProofs.* `LockInv`, without overlap: a process that has
the lock file open has the inode the path names, so that one of them holds the
lock; a process that goes down is alone; the socket of one that serves is its
own. `MarkerInv`: a clean marker is consumed before a daemon does anything it
could be wrong about, or the daemon is `stuck`; what was lost is found before it
serves, and nothing unflushed is left where the marker is written. A daemon that
is `stuck` ceases to be when it writes a marker of its own.

*The argument of IntakeProofs, capture.* `EntriesVouch`: the property has to hold as
well of what is stored and of what the running apply has read and is about to
record (`VouchInv`, with what a coincidence spoils excluded per half).
`NothingIsLost` is about quiet states only, so its invariant (`FreshInv`) says
what is to come when it is not quiet. `Coming`: for every file of a project that
is watched, or will be after the restart, the graph is that of the tree, or will
be when the apply that runs has ended (`Good`); or the debouncer holds an event
of it or of `.gitignore`; or a change in the lane makes it good; or a converge,
of a `watch on` or at startup, is still to walk. `LaneMends`: a change in the lane
that would take away the nodes of a file that is there is followed by one that
brings them back. `Timely`: an mtime that agrees vouches for the content, of
files whose mtime was never kept. `DeepReconciles` needs none of it: whatever the
manifest was, a deep reconcile names every file it should.

*The argument of IntakeProofs, hooks.* A hook's file name, job file and delivery come in
that order (`Stages`), so that a job is received only after it was placed or
without ever being. `Accounts`: a job that was placed is in the spool, has been
received, or made room. `Backlog`: what is older than a job on a replay's list,
and not on that list itself, has been received or made room, and its file is gone
unless removing it failed; so when a job is sent nothing older is left that has
not arrived, or that a replay could still find. An older job in the memory of
another replay is all that can follow. The cap
counts: who adds a job is counted until it has come to the cap, and the cap
leaves no more than `MaxJobs` because the oldest of what it leaves has fewer
than that many behind it.

*The argument of RelinkProofs.* Edges are a bag, so bags are compared by how often
they have an edge (`Copies`, `BagsEqual`). `PatchGives`: a patch that takes out
what the old bag has more and puts in what the new one has more gives the new
one; `LinkFinds`, that a link ends at a node of the graph or at none, leaves
nothing to prune (`NothingToPrune`). Both need the state in order (`StateOK`, in
`InOrder`): edges and references of nodes it has, finite sets, projects with a
path for a root; `ApplyOK` is the lemma that an apply keeps it, also of a
state that lost references.

`AppliesAreCold` says what the state is while edits are pending: `FollowsTree`,
there are contents d that agree with the disk on every file that is not pending,
and a state of files T as some apply saw it, such that the state is the one of d with every
reference linked among T (`IsStateOf`, `LastSeen`). An apply that is told W of the
pending files rereads those (`Reread`), and each part of the state becomes the one of the
new contents: nodes and references, exports, projects, manifest, structural edges
(`RereadNodes` to `RereadLinked`). For the edges made from references the copies
are counted: of those linked anew and of those carried (`EdgesRelinked`). Two things make the
sum right. Nothing is healed, for a site of such a state has as many edges as
references (`EdgesOfSite`, `NothingHealed`). And a reference that is not linked anew
would be linked as before (`Unmoved`): a global apply has none; of a scoped one,
in a scenario whose references name what they mean, neither the candidates of the
reference's names nor the workspace have changed (`SameLink`, `ScopedUnmoved`).
With nothing pending d is the disk and T its tree, and what `ColdBuild` gives is
that state too (`ColdIs`).

*The argument of TraversalProofs.* That `EdgesOut` hands out every edge of a node
once is a counting argument (`OutEdgeIs`), and that `Ball` is the function its
recursion describes an induction (`BallUnfolds`). In both orders, what waits is
as near as its depth says and that is never more than the number of nodes visited
(`WalkInv`): so a depth of at least the number of symbols is no limit, and every
edge of a visited node is found (`FoundInv`); the edges found are counted against
those the visited nodes have; and with budget to spare nothing that was met is
forgotten (`MetInv`). Breadth first, the queue holds at most two levels, the
nearer one first (`LevelInv`), and a node visited k hops away has its neighbours
visited or waiting no further than k + 1 (`LeavesInv`). From these two, by
induction over the distance, all that is nearer than the head of the queue has
been visited (`NearIsCovered`); so a node is visited at its distance, and after
all that is nearer (`OrderInv`).

*The argument of InstallerProofs.* Most of it is about texts. One block between two
texts without a block is found as it was put there (`OneStart`, `BlockIsFound`);
`strip_all` leaves no start marker, as each round that takes out a block shortens
the text and there are as many rounds as words (`StripAllUnfolds`,
`StripAllCleans`); so what `upsert` gives is such a text (`UpsertRepairs`), and
`remove` and a second `upsert` of what `append` gave work on the text it was
appended to (`RemoveUndoes`, `UpsertAgain`). For files: only the end of a chain of
links is written, and that is none of the links (`WriteKeepsLinks`), so that what
is written is what is read next (`WriteIsRead`). `RepairInv`: while the mode is
still to be set, and until something else happens, the destination has one block,
of this version. `RestoreInv`: a text the user has not touched is what `append`
makes of what was found. `UserLinesAreKept` needs no more of the state than its
type; the work is in `Gap`: taking a piece without words of the user's out from
between two others keeps the user's words in order, and with their lines to
themselves if the piece before, and the one taken out, are complete lines or
nothing follows (`SameView` shows two texts to have the same view by a mapping of
places that keeps their order).

Inductions over numbers are made with a set in the place of the predicate
(`SetInduction`, from the minimum of a non-empty set of naturals), since the
library's rules take an operator as a parameter.

The inductive invariants were checked with TLC on the runs' instances before
they were proved; `flusher_resident` keeps `SafetyInv` as an invariant.

*TLC only*:

* liveness (`EveryOperationReturns`, `DeferredJobsRun`, `DebtsPaid`, `StopJoins`,
  `ClientReturns`): fairness and ENABLED are out of the prover's reach;
* `SitesKeepTheirEdges` of `Relink`, that a lost reference costs no edge, and
  `IncrementalIsCold` for scoped applies with imports: which definition a name
  means then goes through `Walk`, a recursion, and what that yields for
  every input needs an induction over data, which is out of the prover's reach too;
* `Clustering`, whose levels and ids are folds over sequences, for the same reason;
* the type invariants of the instances (`DaemonTypeOK`, `IntakeTypeOK`,
  `EngineTypeOK`), which are those of the modules, side by side.

## 5. Findings

With a run each:

* `flusher_evict_race`. What the cache pages out is written back without that
  project's lock. Between the eviction and the write an apply of the project
  misses the cache, reads the older checkpoint and builds on it: the evicted
  apply is lost. The comment of `state_of` (flush.rs:247-250) excludes that.
  The same configuration breaks more: `flush_evicted` removes the dirty entry
  of the project it writes back also when a newer apply has set it since
  (flush.rs:477), so that nobody flushes the newer state and shutdown writes the
  clean marker over it (`MarkerHonest`); a client can be answered while its state
  is still on its way from an eviction (`AckDurable`). With one worker only, the
  claim of flush.rs:337, "dirty ⇒ resident is an invariant", still fails: between an eviction and `flush_evicted` the flag is set
  and the state gone from the cache, so that a flush in between reports it as
  gone and drops the flag. What holds then, and is checked and proved, is that the
  state is in the write-back's hands (`UnsavedIsTracked`).
* `scheduler_stop`. A recluster that found the pool full waits in `deferred`,
  no longer in `owes_recluster`; shutdown drops the one and visits the other.
  With one permit too, a waiting recluster later runs with new changes of its
  project queued behind it (`ReclusterWhenQuiet`), and with failing jobs
  (`Faults`) a debt is lost because it is only noted for `Ok` (`DebtKept`).
* `lifecycle_overlap`. `teardown` releases the lock and removes the socket
  before the final flush and the marker. A process that starts in between finds
  no marker, reconciles and serves; then the old one writes its marker, and a
  crash of the new one reads as a clean exit. `filigrio-daemon stop` reports the
  daemon stopped once the socket is gone, so a stop and start in a row will meet
  this. With overlap two more properties fail (`Overlap = TRUE` in
  `DaemonFrame.cfg`): a process that opened the lock file before it was unlinked
  locks an inode no path names, so that a third one, which creates a new file,
  becomes a second daemon (`OneDaemon`); and the old process removes the socket
  the new one has just bound (`ServingIsReachable`).
  Without overlap but with `ReconcileFails`, the marker is written at shutdown
  although what was lost was never found again (`MarkerVouches`).
* `relink_indirect`. A scoped apply retires the edges that end in an edited file
  and re-links the sites whose written name it finds among what changed. A
  reference that reached its target under another name (`import { g as y }`, or a
  path of modules) is in the first set and not in the second: its edge is gone
  until the importing file is touched. lib.rs:166-168 calls the scoped mode
  "proven equal" to the global one.
* `intake_stamped`. An edit between the extraction of a file and its stamping is
  recorded as indexed, with the newer hash: no gate and no reconcile, not even a
  deep one, takes the file for changed again.

Without a run of its own; each is a behaviour of the model under a changed
constant, or code that was read and is not modelled:

* A query pages a checkpoint in without the project lock (flush.rs:261); an
  apply's put in between is overwritten by the older state and marked clean.
  With `Readers = {r}` and room for one project, `NoLostUpdate` fails.
* A failing write-back of an eviction (flush.rs:475-492) makes the state dirty
  in no map, and daemon.rs:1240-1246 writes the marker over it.
* The coincidences of `Capture`. *replace*: a file removed and created anew
  within one debounced batch is reported as both; it is indexed and its entry
  removed, so no reconcile finds out when it goes. *cancel*: a file an apply
  found before its creation was reported, deleted before the batch, is reported
  neither way. *stale*: a removal queued when a watcher is stopped. *boot*: an
  edit between the startup reconcile and the watchers. *verbs*: a `watch off`
  during the converge of a `watch on` is undone by its commit.
* A scoped apply is told that a file without exports has come, or gone, where it
  hides another one from an import: `./b` means `b.ts` while there is one and
  `b/index.ts` otherwise. No export table has changed, no label either, and the
  import stays bound to the other file. `IncrementalIsCold` excepts it (`skewed`).
* A re-export under another name (`export { g as y } from`) leads a scoped apply
  astray like the import under another name of `relink_indirect`; `Indirect`
  has both.
* With two manifests in one directory (a `package.json` beside a `Cargo.toml`)
  the project is the one read last, so that which of them counts depends on the order of
  the applies, and the removal of either takes the project away; global applies
  differ from a cold build too (`OneManifestEach` excepts it).
* An oversized change set that finds no daemon is spooled (`SpoolIsDeliverable`):
  deliver.rs:267-268 says "A changeset too large for the wire is dropped, not
  spooled: a job that can never be framed would be replayed forever". Replay
  stops at it each time until the cap takes it.
* Replays that overlap deliver out of order, against deliver.rs:147-148 "Stopping at
  the first failure keeps delivery ordered". One reads the oldest job and waits;
  another delivers and removes it and delivers the next; then the first sends
  what it has read: an older change set arrives after a newer one. So it does
  when the file of a delivered job cannot be removed (spool.rs:151-153 ignores
  it), with the next replay. `ReplaysInOrder` states what is left: the first
  arrivals are in order, and after a newer job has arrived no replay that is
  still to read finds the older one, unless its removal failed.
* `enforce_cap` drops jobs without a word, where spool.rs:17-19 has "loudly".
* `stabilize` orders the communities by their best overlap as first computed;
  a community whose best id is taken falls back to a lesser one and may take it
  from a community that holds more of it, against "so the strongest inheritor
  wins a contested id". It takes eight nodes.
* Depth first, `pop` takes the last seed first, so that a budget keeps the least
  relevant region (`SeedsByRelevance`), against query lib.rs:337-338 "packing
  them in priority order means a tight budget keeps the most relevant region"; and a
  node first met at the depth limit is not expanded when a shorter way meets it,
  so nodes within the depth are missed.
* `remove` of block.rs joins two lines of the user when the blank line above the
  block was deleted and text follows the block (`UserLinesSurvive` excludes it),
  against "everything the user wrote around it survives byte for byte".
  `status` calls a file with a second or an unterminated block current, which
  install would change. Uninstalling a YAML block removes the container
  `mcp_servers:` it created and orphans an entry the user has put below.
* `atomic_write` names its temporary file after the process only
  (atomic.rs:17-42). The writer that does not hold the project's lock,
  `flush_evicted`, can meet another one: "no torn/partial file is ever observable
  at the target path" then depends on timing. A failing `fs::write` leaves the
  temporary file, against "no temp is left behind on any failure" (3-5).
* The timeout of a one-shot command does not kill its child, and signals are
  swallowed while it waits (oneshot.rs:61-86, 190-203).

*Preconditions to know about.* `MarkerVouches` does not count what a daemon loses
that could not remove a clean marker when it started: the code serves on and the
log says so. `IncrementalIsCold` is about trees with one manifest
per directory. For scoped applies it excepts indirect references (`Indirect`):
the label of the target is not the name the reference is written with, because
of an import or a re-export under another name, or the path has more than two
segments. If anything is imported (`Importing`) it also excepts behaviours with
an apply that saw on disk a file come or go which it was not told of, or which
changed no export table (`skewed`): import probes look at the disk, the impact
set at what was told and at the tables. Global applies are checked, and proved,
with all of these but two manifests in a directory.
`Reproducible` holds
of `Simple` only; the source promises no more of `Full`.

## 6. Plan

Done: resident state, cadence, producer lane, life cycle, registry and watch
mode, pipeline and ingest, hook delivery, resolve engine with the store's merge,
clustering, retrieval, marked files of the installer. Left, in order:

1. *Atomic write*: temporary files, writers in one process, crash between write
   and rename; `flush_evicted` against a flush of the same project.
2. *One-shot client*: the fallback from socket to a cold run, its timeout, its
   child, and a daemon that starts meanwhile.
3. *Client configurations*: entries in JSON, TOML and YAML, with the container
   the installer creates; `ManagedFile` has the frame.
4. *Which commits a hook compares* (`hook/git.rs`): rewritten history, the first
   commit, a checkout of a file.

## 7. Not modelled

Extractors (`filigrio-index`) walk syntax trees of four languages; their input
is program text and their output what `Relink` takes as a file's content. With
their tests they are the larger part of the source, which is why the share of lines the
modules stand for is small: the front ends (`main.rs` of the CLI and the MCP
server) and the type and cohesion heuristics of the resolver, which are scores
over strings, are most of the rest. The oxc resolver is a library behind the same
probe; manifests are read by parsers; labels of communities and the report are
wording. The MCP and command-line front ends format arguments and output; the
classic exporter and `tools/` carry no concurrent or durable state of the
daemon. Telemetry, profiling and logging are left out everywhere.

In the modules above: a checkpoint write is atomic (rename); a lock table entry
never disappears; panics inside an apply are failures; `Scheduler` takes a
watch-on in one step and keeps no registry file, while `Capture` has both for
one project; mtimes are exact, as their nanoseconds make them; of a text only
lines, words and markers matter to `ManagedFile`, and white space at the ends of
a line is left out.
