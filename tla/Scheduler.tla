----------------------------- MODULE Scheduler -----------------------------
(***************************************************************************)
(* The producer lane of the daemon (filigrio-daemon, daemon.rs run_inner   *)
(* with scheduler.rs, priority.rs and watchers.rs): file-system events     *)
(* become queue items on a tick, queue items become apply jobs, and a pool *)
(* runs them, bounded and one per project; a project whose applies put off *)
(* their clustering owes one recluster, paid once the project is quiet.    *)
(*                                                                         *)
(* The run loop owns the pool, the deferred jobs and the debts: a step of  *)
(* the loop is an action.  Jobs end on their own threads, and connection   *)
(* tasks change the registry and the watchers under the daemon mutex, in   *)
(* between.  What an apply does to its project is module Flusher.          *)
(***************************************************************************)
EXTENDS Integers, FiniteSets, SequencesExt

CONSTANTS
    Projects,   \* project ids
    Permits,    \* worker_threads: applies running at once
    LaneOf,     \* the lane each project's producer declares
    MaxEvents,  \* bound: events of each project
    Endless,    \* events never stop coming, one at a time, and have no number
    Faults      \* a job may fail after it changed the resident state

\* Queue lanes in the order they are popped.
Lanes == {"manual", "git", "fs"}

ASSUME PermitsAssumption == Permits \in Nat \ {0}
ASSUME LaneAssumption == LaneOf \in [Projects -> Lanes]
ASSUME EventsAssumption == MaxEvents \in [Projects -> Nat] /\ Endless \in BOOLEAN
ASSUME FaultsAssumption == Faults \in BOOLEAN

VARIABLES
    registered, \* the registry
    watching,   \* projects with a live producer
    channel,    \* what each producer has sent and no tick has drained
    produced,   \* history: events sent per project
    queue,      \* the priority queue, a FIFO per lane
    deferred,   \* run_inner's deferred jobs
    pass,       \* jobs the running call of dispatch has still to look at
    inflight,   \* ApplyScheduler.inflight
    tasks,      \* ApplyScheduler.tasks, with their result once they ended
    owes,       \* owes_recluster
    loop,       \* where the run loop is
    unrouted,   \* producers the current tick has still to drain
    reason,     \* why the loop ended
    unclustered \* history: projects with nodes applied since a recluster

envVars == <<registered, watching, channel, produced>>
vars == <<envVars, queue, deferred, pass, inflight, tasks, owes, loop, unrouted,
          reason, unclustered>>

Jobs == [p : Projects, op : {"apply", "recluster"}, n : Nat]
Results == {"running", "owes", "ok", "err"}
LoopPcs == {"select", "route", "routed", "collect", "dispatch", "owed", "idle",
            "drain", "reclusters", "stopped"}

Recluster(p) == [p |-> p, op |-> "recluster", n |-> 0]

\* The jobs of p in a list.
Of(jobs, p) == {j \in ToSet(jobs) : j.p = p}

Init ==
    /\ registered = Projects /\ watching = Projects
    /\ channel = [p \in Projects |-> <<>>]
    /\ produced = [p \in Projects |-> 0]
    /\ queue = [l \in Lanes |-> <<>>]
    /\ deferred = <<>> /\ pass = <<>>
    /\ inflight = {} /\ tasks = {} /\ owes = {}
    /\ loop = "dispatch" /\ unrouted = {} /\ reason = "none"
    /\ unclustered = {}

-----------------------------------------------------------------------------
(* Connection tasks and producers, concurrent with the loop *)

\* The loop holds the daemon mutex while it routes, while it collects and while
\* it pays debts, and gives it up in between.
DaemonMutexFree == loop \notin {"route", "collect", "owed"}

ProjectRegister(p) ==
    /\ DaemonMutexFree /\ loop # "stopped" /\ p \notin registered
    /\ registered' = registered \cup {p}
    /\ UNCHANGED <<watching, channel, produced, queue, deferred, pass, inflight,
                   tasks, owes, loop, unrouted, reason, unclustered>>

\* Mutation: the producer of a removed project lives on.
ProjectRemoveWatched(p) ==
    /\ DaemonMutexFree /\ loop # "stopped" /\ p \in registered
    /\ registered' = registered \ {p}
    /\ UNCHANGED <<watching, channel, produced, queue, deferred, pass, inflight,
                   tasks, owes, loop, unrouted, reason, unclustered>>

\* The registry entry goes, and the producer with what its channel still holds.
ProjectRemove(p) ==
    /\ DaemonMutexFree /\ loop # "stopped" /\ p \in registered
    /\ registered' = registered \ {p}
    /\ watching' = watching \ {p}
    /\ channel' = [channel EXCEPT ![p] = <<>>]
    /\ UNCHANGED <<produced, queue, deferred, pass, inflight, tasks, owes, loop,
                   unrouted, reason, unclustered>>

WatchOn(p) ==
    /\ DaemonMutexFree /\ loop # "stopped" /\ p \in registered \ watching
    /\ watching' = watching \cup {p}
    /\ UNCHANGED <<registered, channel, produced, queue, deferred, pass,
                   inflight, tasks, owes, loop, unrouted, reason, unclustered>>

WatchOff(p) ==
    /\ DaemonMutexFree /\ loop # "stopped" /\ p \in watching
    /\ watching' = watching \ {p}
    /\ channel' = [channel EXCEPT ![p] = <<>>]
    /\ UNCHANGED <<registered, produced, queue, deferred, pass, inflight, tasks,
                   owes, loop, unrouted, reason, unclustered>>

\* What is on its way for p and not running yet.
Pending(p) ==
    Of(deferred \o pass \o queue["manual"] \o queue["git"] \o queue["fs"]
       \o channel[p], p)

\* A producer (the watcher's debouncer thread) sends an event.
Produce(p) ==
    /\ p \in watching /\ loop # "stopped"
    /\ IF Endless THEN Pending(p) = {} ELSE produced[p] < MaxEvents[p]
    /\ produced' = [produced EXCEPT ![p] = IF Endless THEN 1 ELSE @ + 1]
    /\ channel' = [channel EXCEPT ![p] =
                     Append(@, [p |-> p, op |-> "apply", n |-> produced'[p]])]
    /\ UNCHANGED <<registered, watching, queue, deferred, pass, inflight, tasks,
                   owes, loop, unrouted, reason, unclustered>>

-----------------------------------------------------------------------------
(* The drain tick *)

DrainTick ==
    /\ loop = "select"
    /\ loop' = "route" /\ unrouted' = watching
    /\ UNCHANGED <<envVars, queue, deferred, pass, inflight, tasks, owes, reason,
                   unclustered>>

\* WatcherSet::drain visits its producers in no particular order.
RouteWatcherEvents(p) ==
    /\ loop = "route" /\ p \in unrouted
    /\ queue' = [queue EXCEPT ![LaneOf[p]] = @ \o channel[p]]
    /\ channel' = [channel EXCEPT ![p] = <<>>]
    /\ unrouted' = unrouted \ {p}
    /\ UNCHANGED <<registered, watching, produced, deferred, pass, inflight,
                   tasks, owes, loop, reason, unclustered>>

Routed ==
    /\ loop = "route" /\ unrouted = {}
    /\ loop' = "routed"
    /\ UNCHANGED <<envVars, queue, deferred, pass, inflight, tasks, owes,
                   unrouted, reason, unclustered>>

\* Lanes popped before l is.
Above(l) == {k \in Lanes : (k = "manual" /\ l # "manual") \/ (k = "git" /\ l = "fs")}

\* Mutation: the new job goes before the deferred ones.
CollectApplyJobFirst(l) ==
    /\ loop \in {"routed", "collect"}
    /\ queue[l] # <<>> /\ \A k \in Above(l) : queue[k] = <<>>
    /\ queue' = [queue EXCEPT ![l] = Tail(@)]
    /\ deferred' = IF Head(queue[l]).p \in registered
                   THEN <<Head(queue[l])>> \o deferred
                   ELSE deferred
    /\ loop' = "collect"
    /\ UNCHANGED <<envVars, pass, inflight, tasks, owes, unrouted, reason,
                   unclustered>>

\* One iteration of collect_apply_jobs pops an item, by priority, and adds its
\* job to the deferred ones; make_job skips a project not registered any more.
CollectApplyJob(l) ==
    /\ loop \in {"routed", "collect"}
    /\ queue[l] # <<>> /\ \A k \in Above(l) : queue[k] = <<>>
    /\ queue' = [queue EXCEPT ![l] = Tail(@)]
    /\ deferred' = IF Head(queue[l]).p \in registered
                   THEN Append(deferred, Head(queue[l]))
                   ELSE deferred
    /\ loop' = "collect"
    /\ UNCHANGED <<envVars, pass, inflight, tasks, owes, unrouted, reason,
                   unclustered>>

\* Everything is popped: the loop starts over and dispatches.
Collected ==
    /\ loop \in {"routed", "collect"}
    /\ \A l \in Lanes : queue[l] = <<>>
    /\ pass' = deferred /\ deferred' = <<>>
    /\ loop' = "dispatch"
    /\ UNCHANGED <<envVars, queue, inflight, tasks, owes, unrouted, reason,
                   unclustered>>

-----------------------------------------------------------------------------
(* ApplyScheduler::dispatch and the jobs it runs *)

\* Mutation: the pool bound is not looked at.
FitsProject(p) == p \notin inflight

\* Below the pool bound, and no apply of the project is running.
Fits(p) == Cardinality(inflight) < Permits /\ p \notin inflight

\* One iteration of dispatch: the job is spawned, or deferred.
Spawn(j) ==
    /\ inflight' = inflight \cup {j.p}
    /\ tasks' = tasks \cup {[job |-> j, res |-> "running"]}
    /\ UNCHANGED deferred

Defer(j) ==
    /\ deferred' = Append(deferred, j)
    /\ UNCHANGED <<inflight, tasks>>

DispatchJob ==
    /\ loop = "dispatch" /\ pass # <<>>
    /\ LET j == Head(pass) IN IF Fits(j.p) THEN Spawn(j) ELSE Defer(j)
    /\ pass' = Tail(pass)
    /\ UNCHANGED <<envVars, queue, owes, loop, unrouted, reason, unclustered>>

Dispatched ==
    /\ loop = "dispatch" /\ pass = <<>>
    /\ loop' = "owed"
    /\ UNCHANGED <<envVars, queue, deferred, pass, inflight, tasks, owes,
                   unrouted, reason, unclustered>>

\* Nothing of p is queued, running or deferred.
Quiet(p) ==
    /\ \A l \in Lanes : Of(queue[l], p) = {}
    /\ p \notin inflight
    /\ Of(deferred, p) = {}

\* Mutation: the recluster is due whatever else waits for the project.
OwedReclusterEager(p) ==
    /\ loop = "owed" /\ p \in owes
    /\ owes' = owes \ {p}
    /\ IF p \in registered
       THEN /\ IF Fits(p) THEN Spawn(Recluster(p)) ELSE Defer(Recluster(p))
            /\ UNCHANGED unclustered
       ELSE /\ unclustered' = unclustered \ {p}
            /\ UNCHANGED <<deferred, inflight, tasks>>
    /\ UNCHANGED <<envVars, queue, pass, loop, unrouted, reason>>

\* A quiet project's debt becomes a job; the debt of a removed one is forgiven.
OwedRecluster(p) ==
    /\ loop = "owed" /\ p \in owes /\ Quiet(p)
    /\ owes' = owes \ {p}
    /\ IF p \in registered
       THEN /\ IF Fits(p) THEN Spawn(Recluster(p)) ELSE Defer(Recluster(p))
            /\ UNCHANGED unclustered
       ELSE /\ unclustered' = unclustered \ {p}
            /\ UNCHANGED <<deferred, inflight, tasks>>
    /\ UNCHANGED <<envVars, queue, pass, loop, unrouted, reason>>

NothingOwed ==
    /\ loop = "owed" /\ \A p \in owes : ~ Quiet(p)
    /\ loop' = "idle"
    /\ UNCHANGED <<envVars, queue, deferred, pass, inflight, tasks, owes,
                   unrouted, reason, unclustered>>

(***************************************************************************)
(* A job ends on its thread.  An apply that changed files puts off its     *)
(* clustering; with Faults it may fail although it has already put its     *)
(* state (record_apply writes evicted projects back after the put), and a  *)
(* recluster may fail.                                                     *)
(***************************************************************************)
JobEnds(t) ==
    LET p == t.job.p
        End(res) == tasks' = (tasks \ {t}) \cup {[t EXCEPT !.res = res]}
    IN  /\ t \in tasks /\ t.res = "running"
        /\ \/ /\ t.job.op = "apply"
              /\ \/ End("owes") /\ unclustered' = unclustered \cup {p}
                 \/ \E res \in {"ok", "err"} : End(res) /\ UNCHANGED unclustered
                 \/ /\ Faults
                    /\ End("err") /\ unclustered' = unclustered \cup {p}
           \/ /\ t.job.op = "recluster"
              /\ \/ End("ok") /\ unclustered' = unclustered \ {p}
                 \/ Faults /\ End("err") /\ UNCHANGED unclustered
        /\ UNCHANGED <<envVars, queue, deferred, pass, inflight, owes, loop,
                       unrouted, reason>>

\* Mutation: the slot of a failed job is not cleared.
JoinNextLeaks(t) ==
    /\ loop \in {"select", "drain"}
    /\ t \in tasks /\ t.res # "running"
    /\ tasks' = tasks \ {t}
    /\ inflight' = IF t.res = "err" THEN inflight ELSE inflight \ {t.job.p}
    /\ owes' = IF t.res = "owes" THEN owes \cup {t.job.p} ELSE owes
    /\ IF loop = "select"
       THEN loop' = "dispatch" /\ pass' = deferred /\ deferred' = <<>>
       ELSE UNCHANGED <<loop, pass, deferred>>
    /\ UNCHANGED <<envVars, queue, unrouted, reason, unclustered>>

\* Mutation: a completion inside the loop does not note the debt.
JoinNextUnnoted(t) ==
    /\ loop \in {"select", "drain"}
    /\ t \in tasks /\ t.res # "running"
    /\ tasks' = tasks \ {t}
    /\ inflight' = inflight \ {t.job.p}
    /\ IF loop = "select"
       THEN loop' = "dispatch" /\ pass' = deferred /\ deferred' = <<>>
       ELSE UNCHANGED <<loop, pass, deferred>>
    /\ UNCHANGED <<envVars, queue, owes, unrouted, reason, unclustered>>

\* join_next: the slot is cleared and a debt noted; a failed job only logged.
\* The loop starts over; shutdown's drain only goes on.
JoinNext(t) ==
    /\ loop \in {"select", "drain"}
    /\ t \in tasks /\ t.res # "running"
    /\ tasks' = tasks \ {t}
    /\ inflight' = inflight \ {t.job.p}
    /\ owes' = IF t.res = "owes" THEN owes \cup {t.job.p} ELSE owes
    /\ IF loop = "select"
       THEN loop' = "dispatch" /\ pass' = deferred /\ deferred' = <<>>
       ELSE UNCHANGED <<loop, pass, deferred>>
    /\ UNCHANGED <<envVars, queue, unrouted, reason, unclustered>>

-----------------------------------------------------------------------------
(* Leaving the loop *)

\* Mutation: idleness is judged without the applies still running.
TrulyIdleButRunning ==
    /\ \A l \in Lanes : queue[l] = <<>>
    /\ deferred = <<>> /\ owes = {}

\* The idle timeout, which may have expired at any time, fires only then.
TrulyIdle ==
    /\ \A l \in Lanes : queue[l] = <<>>
    /\ deferred = <<>> /\ inflight = {} /\ owes = {}

IdleExit ==
    /\ loop = "idle" /\ TrulyIdle
    /\ loop' = "drain" /\ reason' = "idle"
    /\ UNCHANGED <<envVars, queue, deferred, pass, inflight, tasks, owes,
                   unrouted, unclustered>>

Select ==
    /\ loop = "idle"
    /\ loop' = "select"
    /\ UNCHANGED <<envVars, queue, deferred, pass, inflight, tasks, owes,
                   unrouted, reason, unclustered>>

\* A signal, or the test's notification.
ShutdownSignal ==
    /\ loop = "select"
    /\ loop' = "drain" /\ reason' = "asked"
    /\ UNCHANGED <<envVars, queue, deferred, pass, inflight, tasks, owes,
                   unrouted, unclustered>>

\* The pool has been drained; what was never dispatched is dropped.
DropDeferred ==
    /\ loop = "drain" /\ tasks = {}
    /\ deferred' = <<>>
    /\ loop' = "reclusters"
    /\ UNCHANGED <<envVars, queue, pass, inflight, tasks, owes, unrouted, reason,
                   unclustered>>

\* What is owed is paid before the final flush, one project after the other.
FinalRecluster(p) ==
    /\ loop = "reclusters" /\ p \in owes
    /\ owes' = owes \ {p}
    /\ \/ unclustered' = unclustered \ {p}
       \/ Faults /\ p \in registered /\ UNCHANGED unclustered
    /\ UNCHANGED <<envVars, queue, deferred, pass, inflight, tasks, loop,
                   unrouted, reason>>

Teardown ==
    /\ loop = "reclusters" /\ owes = {}
    /\ loop' = "stopped"
    /\ watching' = {} /\ channel' = [p \in Projects |-> <<>>]
    /\ UNCHANGED <<registered, produced, queue, deferred, pass, inflight, tasks,
                   owes, unrouted, reason, unclustered>>

\* The process has ended.
Stopped == loop = "stopped" /\ UNCHANGED vars

-----------------------------------------------------------------------------
(* Specification *)

\* The loop between two waits in select.
LoopStep ==
    \/ \E p \in Projects : RouteWatcherEvents(p) \/ OwedRecluster(p)
    \/ \E l \in Lanes : CollectApplyJob(l)
    \/ Routed \/ Collected \/ DispatchJob \/ Dispatched \/ NothingOwed
    \/ Select

Environment(p) ==
    ProjectRegister(p) \/ ProjectRemove(p) \/ WatchOn(p) \/ WatchOff(p) \/ Produce(p)

Leave ==
    \/ IdleExit \/ ShutdownSignal \/ DropDeferred \/ Teardown
    \/ \E p \in Projects : FinalRecluster(p)

Next ==
    \/ \E p \in Projects : Environment(p)
    \/ DrainTick \/ LoopStep
    \/ \E t \in tasks : JobEnds(t) \/ JoinNext(t)
    \/ Leave \/ Stopped

Spec == Init /\ [][Next]_vars

(***************************************************************************)
(* Fairness: the loop's own steps and the pool's threads run; select polls *)
(* its ready branches in random order and the tick is a wall-clock         *)
(* interval, so neither the tick nor a finished job is passed over for     *)
(* ever.  Nothing is assumed of clients, producers, signals or the idle    *)
(* timeout.                                                                *)
(***************************************************************************)
JobOf(p, A(_)) == \E t \in tasks : t.job.p = p /\ A(t)

FairSpec ==
    /\ Spec
    /\ WF_vars(LoopStep) /\ SF_vars(DrainTick)
    /\ \A p \in Projects :
          WF_vars(JobOf(p, JobEnds)) /\ SF_vars(JobOf(p, JoinNext))

-----------------------------------------------------------------------------
(* Properties *)

\* Type invariant: every variable stays in its domain, and an unrouted
\* producer or a job under dispatch exists only where the loop has one.
TypeOK ==
    /\ registered \subseteq Projects /\ watching \subseteq registered
    /\ channel \in [Projects -> Seq(Jobs)]
    /\ produced \in [Projects -> Nat]
    /\ queue \in [Lanes -> Seq(Jobs)]
    /\ deferred \in Seq(Jobs) /\ pass \in Seq(Jobs)
    /\ inflight \subseteq Projects
    /\ tasks \subseteq [job : Jobs, res : Results]
    /\ owes \subseteq Projects
    /\ loop \in LoopPcs
    /\ unrouted \subseteq Projects
    /\ reason \in {"none", "idle", "asked"}
    /\ unclustered \subseteq Projects

(***************************************************************************)
(* The pool's two bounds, on the threads themselves and not only on the    *)
(* book-keeping: never more applies than permits, never two of a project   *)
(* (scheduler.rs header), whatever ends, panics or is registered anew.     *)
(***************************************************************************)
PoolBounds ==
    /\ inflight = {t.job.p : t \in tasks}
    /\ \A t, u \in tasks : t.job.p = u.job.p => t = u
    /\ Cardinality(tasks) <= Permits

Owing(j) == j.op = "recluster"

\* Somebody will still recluster p: the debt is noted, about to be noted by a
\* finished job, or has become a job that waits or runs.
DebtOfJob(p) ==
    \/ p \in owes
    \/ \E t \in tasks : t.job.p = p /\ (t.res = "owes" \/ Owing(t.job))
    \/ Recluster(p) \in ToSet(deferred \o pass)

(***************************************************************************)
(* While the daemon serves, no project whose applies put off clustering is *)
(* forgotten: run_inner's "Each gets ONE recluster".                       *)
(***************************************************************************)
Serving == loop \notin {"drain", "reclusters", "stopped"}
DebtKept == Serving => \A p \in unclustered \cap registered : DebtOfJob(p)

(***************************************************************************)
(* A graceful stop leaves no project unclustered: the debts are paid       *)
(* before the final flush, since "skipping them here would leave the       *)
(* newest nodes community-less until the next edit" (run_inner, shutdown). *)
(***************************************************************************)
StopPaysDebts == loop = "stopped" => unclustered \cap registered = {}

(***************************************************************************)
(* The idle timeout never costs work: when it ends the loop, no job waits  *)
(* or runs and no project is left unclustered (run_inner, "truly idle").   *)
(***************************************************************************)
IdleExitLosesNothing ==
    reason = "idle" =>
        /\ deferred = <<>> /\ tasks = {}
        /\ unclustered \cap registered = {}

\* The two orderly ends of the run loop lose nothing: an idle exit leaves no job and no debt, and a
\* graceful stop, with a permit for every project, no unclustered one (run_inner).
EndsOrderly == IdleExitLosesNothing /\ StopPaysDebts

(***************************************************************************)
(* A recluster begins to run only when nothing else waits for its project, *)
(* so that a burst of saves costs one pass after the burst (run_inner,     *)
(* "dispatched only once the project is quiet").                           *)
(***************************************************************************)
ReclusterWhenQuiet ==
    [][\A p \in Projects :
          (\E t \in tasks' \ tasks : t.job = Recluster(p) /\ t.res = "running")
              => /\ Of(deferred', p) = {} /\ Of(pass', p) = {}
                 /\ \A l \in Lanes : Of(queue'[l], p) = {}]_vars

\* What the lane does, seen from outside: the numbers of the changes of each
\* project that wait, and what runs for it.
Awaited == [p \in Projects |-> {j.n : j \in {k \in Pending(p) : k.op = "apply"}}]
Applied == [p \in Projects |-> {t.job.n : t \in {u \in tasks : u.job.p = p}}]

\* The producer lane keeps its promise, whatever the tick, the lanes, the
\* deferrals and the pool do: module ApplyOrder.
Promise == INSTANCE ApplyOrder WITH
    sent <- produced, pending <- Awaited, running <- Applied,
    watched <- watching, up <- Serving
AppliedInOrder == Promise!Spec

(***************************************************************************)
(* A collected job begins, however many jobs of other projects keep        *)
(* coming, and its slot is given back (scheduler.rs: "retry when a slot    *)
(* frees", "leaking the in-flight slot").                                  *)
(***************************************************************************)
Waits(p) == p \notin inflight /\ Of(deferred \o pass, p) # {}
DeferredJobsRun ==
    \A p \in Projects :
        /\ Waits(p) ~> (p \in inflight \/ ~ Serving)
        /\ p \in inflight ~> (p \notin inflight \/ ~ Serving)

(***************************************************************************)
(* Once a burst is over the recluster comes: a project does not stay       *)
(* unclustered while the daemon serves it and no further change of it is   *)
(* on its way (run_inner, "one Louvain pass after the burst").             *)
(***************************************************************************)
DebtsPaid ==
    \A p \in Projects :
        p \in unclustered ~> \/ p \notin unclustered \cap registered
                             \/ Pending(p) # {}
                             \/ ~ Serving
=============================================================================
