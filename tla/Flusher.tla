------------------------------ MODULE Flusher ------------------------------
(***************************************************************************)
(* Resident state and when it reaches disk (filigrio-daemon, flush.rs),    *)
(* with every thread that goes through it: the client lane (wire commands, *)
(* write-through), the producer lane (the apply pool, write-behind), the   *)
(* cadence driver, the query lane and graceful shutdown.                   *)
(*                                                                         *)
(* The cache mutex, the dirty-map mutex and the per-project lock are three *)
(* different locks, and a checkpoint write happens under none of the first *)
(* two: each critical section and each disk access is a step of its own.   *)
(* A state is its version (module ProjectStateCache); latest is the        *)
(* history variable that says which version the next apply has to build on.*)
(***************************************************************************)
EXTENDS ProjectStateCache

CONSTANTS
    Clients,     \* connection tasks running a wire command
    Workers,     \* apply-pool threads (producer lane)
    Readers,     \* connection tasks answering a query: holds no project lock
    Driver,      \* the cadence driver; the thread of shutdown once it stopped
    Free,        \* "nobody holds this project's lock"
    MaxApplies,  \* bound: applies that change a project
    IoFails      \* whether a checkpoint write may fail

Threads == Clients \cup Workers \cup Readers \cup {Driver}

ASSUME ThreadsAssumption ==
    /\ Clients \cap Workers = {}
    /\ Readers \cap (Clients \cup Workers) = {}
    /\ Driver \notin Clients \cup Workers \cup Readers
    /\ Free \notin Threads
ASSUME BoundsAssumption == MaxApplies \in Nat /\ IoFails \in BOOLEAN

VARIABLES
    disk,     \* version in state.json (0: no checkpoint yet)
    dirty,    \* Flusher.dirty: projects the cadence still has to persist
    lock,     \* holder of each project's lock
    pc, proj, \* where each thread is, and on which project
    val,      \* the state it has in hand
    evicted,  \* what the cache paged out in its last insert, not yet written
    after,    \* where it continues once that is written / once it has flushed
    shares,   \* readers whose Arc is still the resident entry's
    latest,   \* history: applies recorded for the project
    acked,    \* history: newest version a client was told is persisted
    phase,    \* "up", "flushing" (shutdown), "down"
    todo,     \* projects flush_all has still to visit
    failed,   \* a flush of the shutdown pass failed
    marker    \* the clean-shutdown marker exists

threadVars == <<pc, proj, val, evicted, after, shares>>
stopVars == <<phase, todo, failed, marker>>
vars == <<cacheVars, disk, dirty, lock, threadVars, latest, acked, stopVars>>

AnyProject == CHOOSE p \in Projects : TRUE

\* Steps between acquiring the per-project lock and dropping the guard; a
\* reader goes through the first ones without it.
StateOfPcs == {"state_of", "load", "install"}
ApplyPcs == {"mutate", "write_through", "load_fresh", "clear_dirty", "put",
             "mark_dirty", "unlock"}
FlushPcs == {"flush_locked", "flush_peek", "flush_write", "flush_clean",
             "flush_clear", "snapshot", "answer"}
EvictPcs == {"evict", "evict_write"}
Unlocked == {"idle", "probe", "build", "flush_project", "flush_wait"}
Pcs == StateOfPcs \cup ApplyPcs \cup FlushPcs \cup EvictPcs \cup Unlocked

Holds(t) == t \notin Readers /\ pc[t] \notin Unlocked

Init ==
    /\ CacheInit
    /\ disk = [p \in Projects |-> 0]
    /\ dirty = {}
    /\ lock = [p \in Projects |-> Free]
    /\ pc = [t \in Threads |-> "idle"]
    /\ proj = [t \in Threads |-> AnyProject]
    /\ val = [t \in Threads |-> 0]
    /\ evicted = [t \in Threads |-> <<>>]
    /\ after = [t \in Threads |-> "idle"]
    /\ shares = {}
    /\ latest = [p \in Projects |-> 0]
    /\ acked = [p \in Projects |-> 0]
    /\ phase = "up" /\ todo = {} /\ failed = FALSE /\ marker = FALSE

-----------------------------------------------------------------------------
(* Building blocks *)

Goto(t, to) == pc' = [pc EXCEPT ![t] = to]
At(t, from) == pc[t] = from

\* The guard is dropped.
Unlock(t) == lock' = [lock EXCEPT ![proj[t]] = IF @ = t THEN Free ELSE @]

\* The operation returns: its local variables are out of scope.
Return(t) ==
    /\ Goto(t, "idle")
    /\ proj' = [proj EXCEPT ![t] = AnyProject]
    /\ val' = [val EXCEPT ![t] = 0]
    /\ after' = [after EXCEPT ![t] = "idle"]

\* An apply's guard is dropped: the worker is done, a client still flushes.
LeaveApply(t) ==
    /\ Unlock(t)
    /\ IF t \in Clients
       THEN Goto(t, "flush_project") /\ UNCHANGED <<proj, val, after>>
       ELSE Return(t)

\* Readers whose snapshot is still a resident entry after an insert of p.
KeptShares(p) ==
    {r \in shares : proj[r] # p /\ proj[r] \notin ToSet(Victims(p))}

\* Cache insert by thread t, with what it pages out left for flush_evicted.
InsertBy(t, v, isDirty) ==
    /\ Insert(proj[t], v, isDirty)
    /\ evicted' = [evicted EXCEPT ![t] = EvictedBy(proj[t])]

-----------------------------------------------------------------------------
(* state_of: resident first, else page the checkpoint in *)

\* Mutation: the apply does not wait for the project's lock.
BeginApplyUnlocked(t, p) ==
    /\ t \in Clients \cup Workers /\ At(t, "idle") /\ phase = "up"
    /\ proj' = [proj EXCEPT ![t] = p]
    /\ Goto(t, "state_of")
    /\ UNCHANGED <<cacheVars, disk, dirty, lock, val, evicted, after, shares,
                   latest, acked, stopVars>>

\* with_project_apply / recluster: the per-project lock comes first.
BeginApply(t, p) ==
    /\ t \in Clients \cup Workers /\ At(t, "idle") /\ phase = "up"
    /\ lock[p] = Free
    /\ lock' = [lock EXCEPT ![p] = t]
    /\ proj' = [proj EXCEPT ![t] = p]
    /\ Goto(t, "state_of")
    /\ UNCHANGED <<cacheVars, disk, dirty, val, evicted, after, shares, latest,
                   acked, stopVars>>

\* Where the caller of state_of continues with the state in hand.
StateOfNext(t) == IF t \in Readers THEN "build" ELSE "mutate"

\* Mutation: the hit path does not look whether the project is resident.
StateOfHitUnchecked(t) ==
    /\ At(t, "state_of")
    /\ GetArc(proj[t])
    /\ val' = [val EXCEPT ![t] = graphs[proj[t]]]
    /\ shares' = shares \cup ({t} \cap Readers)
    /\ Goto(t, StateOfNext(t))
    /\ UNCHANGED <<disk, dirty, lock, proj, evicted, after, latest, acked,
                   stopVars>>

StateOfHit(t) ==
    /\ At(t, "state_of") /\ Resident(proj[t])
    /\ GetArc(proj[t])
    /\ val' = [val EXCEPT ![t] = graphs[proj[t]]]
    /\ shares' = shares \cup ({t} \cap Readers)
    /\ Goto(t, StateOfNext(t))
    /\ UNCHANGED <<disk, dirty, lock, proj, evicted, after, latest, acked,
                   stopVars>>

StateOfMiss(t) ==
    /\ At(t, "state_of") /\ ~Resident(proj[t])
    /\ Goto(t, "load")
    /\ UNCHANGED <<cacheVars, disk, dirty, lock, proj, val, evicted, after,
                   shares, latest, acked, stopVars>>

LoadState(t) ==
    /\ At(t, "load")
    /\ val' = [val EXCEPT ![t] = disk[proj[t]]]
    /\ Goto(t, "install")
    /\ UNCHANGED <<cacheVars, disk, dirty, lock, proj, evicted, after, shares,
                   latest, acked, stopVars>>

LoadInto(t) ==
    /\ At(t, "install")
    /\ InsertBy(t, val[t], FALSE)
    /\ shares' = KeptShares(proj[t]) \cup ({t} \cap Readers)
    /\ after' = [after EXCEPT ![t] = StateOfNext(t)]
    /\ Goto(t, IF Victims(proj[t]) = <<>> THEN StateOfNext(t) ELSE "evict")
    /\ UNCHANGED <<disk, dirty, lock, proj, val, latest, acked, stopVars>>

-----------------------------------------------------------------------------
(* flush_evicted: write back what the cache paged out, without its lock *)

EvictNext(t) ==
    /\ evicted' = [evicted EXCEPT ![t] = Tail(@)]
    /\ Goto(t, IF Len(evicted[t]) = 1 THEN after[t] ELSE "evict")

\* Mutation: a victim whose project is no longer marked is taken to be on disk.
EvictClearTrustsFlag(t) ==
    LET e == Head(evicted[t])
    IN  /\ At(t, "evict")
        /\ dirty' = dirty \ {e.id}
        /\ IF e.state = Absent \/ e.id \notin dirty THEN EvictNext(t)
           ELSE Goto(t, "evict_write") /\ UNCHANGED evicted
        /\ UNCHANGED <<cacheVars, disk, lock, proj, val, after, shares, latest,
                       acked, stopVars>>

\* The dirty entry goes first; a clean victim needs no write.
EvictClear(t) ==
    LET e == Head(evicted[t])
    IN  /\ At(t, "evict")
        /\ dirty' = dirty \ {e.id}
        /\ IF e.state = Absent THEN EvictNext(t)
           ELSE Goto(t, "evict_write") /\ UNCHANGED evicted
        /\ UNCHANGED <<cacheVars, disk, lock, proj, val, after, shares, latest,
                       acked, stopVars>>

\* Mutation: the write-back takes the paged-out project's lock.
EvictWriteLocked(t) ==
    LET e == Head(evicted[t])
    IN  /\ At(t, "evict_write") /\ lock[e.id] = Free
        /\ disk' = [disk EXCEPT ![e.id] = e.state]
        /\ EvictNext(t)
        /\ UNCHANGED <<cacheVars, dirty, lock, proj, val, after, shares, latest,
                       acked, stopVars>>

EvictWrite(t) ==
    LET e == Head(evicted[t])
    IN  /\ At(t, "evict_write")
        /\ disk' = [disk EXCEPT ![e.id] = e.state]
        /\ EvictNext(t)
        /\ UNCHANGED <<cacheVars, dirty, lock, proj, val, after, shares, latest,
                       acked, stopVars>>

\* write_state fails: the error ends the whole operation.
EvictWriteFails(t) ==
    /\ IoFails /\ At(t, "evict_write")
    /\ evicted' = [evicted EXCEPT ![t] = <<>>]
    /\ shares' = shares \ {t}
    /\ Unlock(t) /\ Return(t)
    /\ UNCHANGED <<cacheVars, disk, dirty, latest, acked, stopVars>>

-----------------------------------------------------------------------------
(* The pipeline and record_apply *)

\* The pipeline produced a delta: fresh is prior plus this apply.
MutateChanged(t) ==
    /\ At(t, "mutate") /\ latest[proj[t]] < MaxApplies
    /\ val' = [val EXCEPT ![t] = @ + 1]
    /\ Goto(t, IF t \in Clients THEN "write_through" ELSE "put")
    /\ UNCHANGED <<cacheVars, disk, dirty, lock, proj, evicted, after, shares,
                   latest, acked, stopVars>>

\* No effective change (take() is None): a client still flushes the project.
MutateNoop(t) ==
    /\ At(t, "mutate")
    /\ LeaveApply(t)
    /\ UNCHANGED <<cacheVars, disk, dirty, evicted, shares, latest, acked,
                   stopVars>>

\* The pipeline failed: Exec::run returns before its trailing flush.
MutateFails(t) ==
    /\ At(t, "mutate")
    /\ Unlock(t) /\ Return(t)
    /\ UNCHANGED <<cacheVars, disk, dirty, evicted, shares, latest, acked,
                   stopVars>>

\* Persistence::Flush: the checkpoint is written before the cache is touched.
WriteThrough(t) ==
    /\ At(t, "write_through")
    /\ disk' = [disk EXCEPT ![proj[t]] = val[t]]
    /\ latest' = [latest EXCEPT ![proj[t]] = @ + 1]
    /\ Goto(t, "load_fresh")
    /\ UNCHANGED <<cacheVars, dirty, lock, proj, val, evicted, after, shares,
                   acked, stopVars>>

WriteThroughFails(t) ==
    /\ IoFails /\ At(t, "write_through")
    /\ Unlock(t) /\ Return(t)
    /\ UNCHANGED <<cacheVars, disk, dirty, evicted, shares, latest, acked,
                   stopVars>>

LoadFresh(t) ==
    /\ At(t, "load_fresh")
    /\ InsertBy(t, val[t], FALSE)
    /\ shares' = KeptShares(proj[t])
    /\ Goto(t, "clear_dirty")
    /\ UNCHANGED <<disk, dirty, lock, proj, val, after, latest, acked, stopVars>>

ClearDirty(t) ==
    /\ At(t, "clear_dirty")
    /\ dirty' = dirty \ {proj[t]}
    /\ after' = [after EXCEPT ![t] = "unlock"]
    /\ Goto(t, IF evicted[t] = <<>> THEN "unlock" ELSE "evict")
    /\ UNCHANGED <<cacheVars, disk, lock, proj, val, evicted, shares, latest,
                   acked, stopVars>>

\* Persistence::Defer: only the resident copy, and the dirty window opens.
Put(t) ==
    /\ At(t, "put")
    /\ InsertBy(t, val[t], TRUE)
    /\ shares' = KeptShares(proj[t])
    /\ latest' = [latest EXCEPT ![proj[t]] = @ + 1]
    /\ Goto(t, "mark_dirty")
    /\ UNCHANGED <<disk, dirty, lock, proj, val, after, acked, stopVars>>

MarkDirty(t) ==
    /\ At(t, "mark_dirty")
    /\ dirty' = dirty \cup {proj[t]}
    /\ after' = [after EXCEPT ![t] = "unlock"]
    /\ Goto(t, IF evicted[t] = <<>> THEN "unlock" ELSE "evict")
    /\ UNCHANGED <<cacheVars, disk, lock, proj, val, evicted, shares, latest,
                   acked, stopVars>>

EndApply(t) ==
    /\ At(t, "unlock")
    /\ LeaveApply(t)
    /\ UNCHANGED <<cacheVars, disk, dirty, evicted, shares, latest, acked,
                   stopVars>>

-----------------------------------------------------------------------------
(* flush_project / flush_locked, and the verbs that go through them *)

\* due() or flush_all() listed p (driver), or a client sent `project flush`.
BeginFlush(t, p) ==
    /\ \/ t \in Clients /\ phase = "up" /\ UNCHANGED todo
       \/ t = Driver /\ phase = "up" /\ UNCHANGED todo
       \/ t = Driver /\ phase = "flushing" /\ p \in todo /\ todo' = todo \ {p}
    /\ At(t, "idle") /\ p \in dirty
    /\ proj' = [proj EXCEPT ![t] = p]
    /\ after' = [after EXCEPT ![t] = "answer"]
    /\ Goto(t, "flush_wait")
    /\ UNCHANGED <<cacheVars, disk, dirty, lock, val, evicted, shares, latest,
                   acked, phase, failed, marker>>

\* Exec::run's trailing flush_project after a successful apply: nothing dirty,
\* so the client is answered without taking the lock again.
AnswerClean(t) ==
    /\ At(t, "flush_project") /\ proj[t] \notin dirty
    /\ acked' = [acked EXCEPT ![proj[t]] = IF @ < val[t] THEN val[t] ELSE @]
    /\ Return(t)
    /\ UNCHANGED <<cacheVars, disk, dirty, lock, evicted, shares, latest,
                   stopVars>>

\* Mutation: a command that applied nothing does not flush what the producer
\* lane left dirty.
TrailingFlushSkipped(t) ==
    /\ At(t, "flush_project") /\ proj[t] \in dirty
    /\ acked' = [acked EXCEPT ![proj[t]] = IF @ < val[t] THEN val[t] ELSE @]
    /\ Return(t)
    /\ UNCHANGED <<cacheVars, disk, dirty, lock, evicted, shares, latest,
                   stopVars>>

TrailingFlush(t) ==
    /\ At(t, "flush_project") /\ proj[t] \in dirty
    /\ after' = [after EXCEPT ![t] = "answer"]
    /\ Goto(t, "flush_wait")
    /\ UNCHANGED <<cacheVars, disk, dirty, lock, proj, val, evicted, shares,
                   latest, acked, stopVars>>

FlushLock(t) ==
    /\ At(t, "flush_wait") /\ lock[proj[t]] = Free
    /\ lock' = [lock EXCEPT ![proj[t]] = t]
    /\ Goto(t, "flush_locked")
    /\ UNCHANGED <<cacheVars, disk, dirty, proj, val, evicted, after, shares,
                   latest, acked, stopVars>>

\* Exec::Export takes the lock itself and flushes under it before snapshot().
BeginExport(t, p) ==
    /\ t \in Clients /\ At(t, "idle") /\ phase = "up"
    /\ lock[p] = Free
    /\ lock' = [lock EXCEPT ![p] = t]
    /\ proj' = [proj EXCEPT ![t] = p]
    /\ after' = [after EXCEPT ![t] = "snapshot"]
    /\ Goto(t, "flush_locked")
    /\ UNCHANGED <<cacheVars, disk, dirty, val, evicted, shares, latest, acked,
                   stopVars>>

FlushLocked(t) ==
    /\ At(t, "flush_locked")
    /\ Goto(t, IF proj[t] \in dirty THEN "flush_peek" ELSE after[t])
    /\ UNCHANGED <<cacheVars, disk, dirty, lock, proj, val, evicted, after,
                   shares, latest, acked, stopVars>>

FlushPeek(t) ==
    /\ At(t, "flush_peek") /\ Resident(proj[t])
    /\ val' = [val EXCEPT ![t] = graphs[proj[t]]]
    /\ Goto(t, "flush_write")
    /\ UNCHANGED <<cacheVars, disk, dirty, lock, proj, evicted, after, shares,
                   latest, acked, stopVars>>

\* Mutation: shutdown ignores a failed flush.
NoteFailureIgnored(t) == failed' = failed /\ t \in Threads

\* A failed flush of the shutdown pass withholds the marker.
NoteFailure(t) == failed' = (failed \/ (t = Driver /\ phase = "flushing"))

\* "Marked dirty but is not resident; its unpersisted state is gone".
FlushGone(t) ==
    /\ At(t, "flush_peek") /\ ~Resident(proj[t])
    /\ dirty' = dirty \ {proj[t]}
    /\ NoteFailure(t)
    /\ Unlock(t) /\ Return(t)
    /\ UNCHANGED <<cacheVars, disk, evicted, shares, latest, acked, phase,
                   todo, marker>>

FlushWrite(t) ==
    /\ At(t, "flush_write")
    /\ disk' = [disk EXCEPT ![proj[t]] = val[t]]
    /\ Goto(t, "flush_clean")
    /\ UNCHANGED <<cacheVars, dirty, lock, proj, val, evicted, after, shares,
                   latest, acked, stopVars>>

\* The project stays dirty and is retried.
FlushWriteFails(t) ==
    /\ IoFails /\ At(t, "flush_write")
    /\ NoteFailure(t)
    /\ Unlock(t) /\ Return(t)
    /\ UNCHANGED <<cacheVars, disk, dirty, evicted, shares, latest, acked,
                   phase, todo, marker>>

FlushClean(t) ==
    /\ At(t, "flush_clean")
    /\ MarkClean(proj[t])
    /\ Goto(t, "flush_clear")
    /\ UNCHANGED <<disk, dirty, lock, proj, val, evicted, after, shares, latest,
                   acked, stopVars>>

\* Mutation: the flush clears dirty entries it has not written.
FlushClearEarly(t) ==
    /\ At(t, "flush_clear")
    /\ dirty' = {}
    /\ Goto(t, after[t])
    /\ UNCHANGED <<cacheVars, disk, lock, proj, val, evicted, after, shares,
                   latest, acked, stopVars>>

FlushClear(t) ==
    /\ At(t, "flush_clear")
    /\ dirty' = dirty \ {proj[t]}
    /\ Goto(t, after[t])
    /\ UNCHANGED <<cacheVars, disk, lock, proj, val, evicted, after, shares,
                   latest, acked, stopVars>>

\* snapshot(): graph.json is written from state.json, under the lock.
Snapshot(t) ==
    /\ At(t, "snapshot")
    /\ Goto(t, "answer")
    /\ UNCHANGED <<cacheVars, disk, dirty, lock, proj, val, evicted, after,
                   shares, latest, acked, stopVars>>

\* The guard is dropped; a client is told that its project is persisted.
Answer(t) ==
    /\ At(t, "answer")
    /\ acked' = IF t \in Clients
                THEN [acked EXCEPT ![proj[t]] = latest[proj[t]]] ELSE acked
    /\ Unlock(t) /\ Return(t)
    /\ UNCHANGED <<cacheVars, disk, dirty, evicted, shares, latest, stopVars>>

-----------------------------------------------------------------------------
(* The query lane: queries run under the daemon mutex, never a project lock *)

DaemonMutexFree == \A r \in Readers : At(r, "idle")

\* get_view with the index already built.
QueryHit(t, p) ==
    /\ t \in Readers /\ DaemonMutexFree /\ phase = "up"
    /\ view[p] # Absent
    /\ GetArc(p)
    /\ UNCHANGED <<disk, dirty, lock, threadVars, latest, acked, stopVars>>

\* get_view without one (through the probe), or project_status (without it).
BeginQuery(t, p) ==
    /\ t \in Readers /\ DaemonMutexFree /\ phase = "up"
    /\ proj' = [proj EXCEPT ![t] = p]
    /\ \/ view[p] = Absent /\ Goto(t, "probe")
       \/ Goto(t, "state_of")
    /\ UNCHANGED <<cacheVars, disk, dirty, lock, val, evicted, after, shares,
                   latest, acked, stopVars>>

\* RegistryWarmStateSource::state_of: unindexed when neither resident nor on
\* disk; otherwise Flusher::state_of.
Probe(t) ==
    /\ At(t, "probe")
    /\ IF Resident(proj[t]) \/ disk[proj[t]] > 0
       THEN Goto(t, "state_of") /\ UNCHANGED <<proj, val, after>>
       ELSE Return(t)
    /\ UNCHANGED <<cacheVars, disk, dirty, lock, evicted, shares, latest, acked,
                   stopVars>>

\* Mutation: the view is published whatever the entry holds by now.
InstallViewUnchecked(t) ==
    /\ At(t, "build")
    /\ view' = IF Resident(proj[t])
               THEN [view EXCEPT ![proj[t]] = val[t]] ELSE view
    /\ shares' = shares \ {t}
    /\ Return(t)
    /\ UNCHANGED <<graphs, order, cacheDirty, disk, dirty, lock, evicted,
                   latest, acked, stopVars>>

\* The view of val is built outside the cache mutex, then published only if
\* the entry still holds the very Arc it was built from (Arc::ptr_eq).
InstallView(t) ==
    /\ At(t, "build")
    /\ view' = IF t \in shares THEN [view EXCEPT ![proj[t]] = val[t]] ELSE view
    /\ shares' = shares \ {t}
    /\ Return(t)
    /\ UNCHANGED <<graphs, order, cacheDirty, disk, dirty, lock, evicted,
                   latest, acked, stopVars>>

\* project_status only reads the snapshot.
AnswerStatus(t) ==
    /\ At(t, "build")
    /\ shares' = shares \ {t}
    /\ Return(t)
    /\ UNCHANGED <<cacheVars, disk, dirty, lock, evicted, latest, acked,
                   stopVars>>

-----------------------------------------------------------------------------
(* Shutdown, crash and restart *)

\* The pool is drained and the driver joined; flush_all lists the dirty map.
BeginShutdown ==
    /\ phase = "up"
    /\ \A t \in Workers \cup Readers \cup {Driver} : At(t, "idle")
    /\ phase' = "flushing" /\ todo' = dirty /\ failed' = FALSE
    /\ UNCHANGED <<cacheVars, disk, dirty, lock, threadVars, latest, acked,
                   marker>>

\* flush_each on a project somebody else has flushed meanwhile: Ok(false).
SkipFlush(p) ==
    /\ phase = "flushing" /\ At(Driver, "idle") /\ p \in todo /\ p \notin dirty
    /\ todo' = todo \ {p}
    /\ UNCHANGED <<cacheVars, disk, dirty, lock, threadVars, latest, acked,
                   phase, failed, marker>>

WriteMarker ==
    /\ phase = "flushing" /\ todo = {} /\ At(Driver, "idle")
    /\ marker' = ~failed
    /\ phase' = "down"
    /\ UNCHANGED <<cacheVars, disk, dirty, lock, threadVars, latest, acked, todo,
                   failed>>

(***************************************************************************)
(* The process ends - after its shutdown or by a crash at any point - and  *)
(* its successor starts: memory is empty, the marker is consumed, and an   *)
(* apply builds on the checkpoint.                                         *)
(***************************************************************************)
Restart ==
    /\ graphs' = [p \in Projects |-> Absent]
    /\ view' = [p \in Projects |-> Absent]
    /\ order' = <<>> /\ cacheDirty' = {}
    /\ dirty' = {} /\ lock' = [p \in Projects |-> Free]
    /\ pc' = [t \in Threads |-> "idle"]
    /\ proj' = [t \in Threads |-> AnyProject]
    /\ val' = [t \in Threads |-> 0]
    /\ evicted' = [t \in Threads |-> <<>>]
    /\ after' = [t \in Threads |-> "idle"]
    /\ shares' = {}
    /\ latest' = disk
    /\ phase' = "up" /\ todo' = {} /\ failed' = FALSE /\ marker' = FALSE
    /\ UNCHANGED <<disk, acked>>

-----------------------------------------------------------------------------
(* Specification *)

StateOfStep(t) == StateOfHit(t) \/ StateOfMiss(t) \/ LoadState(t) \/ LoadInto(t)

EvictStep(t) == EvictClear(t) \/ EvictWrite(t) \/ EvictWriteFails(t)

ApplyStep(t) ==
    \/ MutateChanged(t) \/ MutateNoop(t) \/ MutateFails(t)
    \/ WriteThrough(t) \/ WriteThroughFails(t) \/ LoadFresh(t) \/ ClearDirty(t)
    \/ Put(t) \/ MarkDirty(t) \/ EndApply(t)

FlushStep(t) ==
    \/ AnswerClean(t) \/ TrailingFlush(t) \/ FlushLock(t) \/ FlushLocked(t)
    \/ FlushPeek(t) \/ FlushGone(t) \/ FlushWrite(t) \/ FlushWriteFails(t)
    \/ FlushClean(t) \/ FlushClear(t) \/ Snapshot(t) \/ Answer(t)

QueryStep(t) == Probe(t) \/ InstallView(t) \/ AnswerStatus(t)

\* The rest of an operation a thread has begun.
Step(t) ==
    StateOfStep(t) \/ EvictStep(t) \/ ApplyStep(t) \/ FlushStep(t) \/ QueryStep(t)

Begin(t, p) ==
    \/ BeginApply(t, p) \/ BeginFlush(t, p) \/ BeginExport(t, p)
    \/ QueryHit(t, p) \/ BeginQuery(t, p)

Next ==
    \/ \E t \in Threads : Step(t)
    \/ \E t \in Threads, p \in Projects : Begin(t, p)
    \/ BeginShutdown
    \/ \E p \in Projects : SkipFlush(p)
    \/ WriteMarker
    \/ Restart

Spec == Init /\ [][Next]_vars

(***************************************************************************)
(* Fairness: an operation that has begun runs on an OS thread of its own   *)
(* (spawn_blocking, the driver thread), so each of its steps is weakly     *)
(* fair; the per-project lock is a parking_lot mutex, which hands the lock *)
(* to a waiter after a bounded number of unfair acquisitions, so the wait  *)
(* for it is strongly fair.  Nothing is assumed of clients, the watcher,   *)
(* the driver's timer or crashes.                                          *)
(***************************************************************************)
FairSpec ==
    /\ Spec
    /\ \A t \in Threads : WF_vars(Step(t)) /\ SF_vars(FlushLock(t))

-----------------------------------------------------------------------------
(* Properties *)

\* Type invariant: every variable stays in its domain.
TypeOK ==
    /\ CacheTypeOK
    /\ disk \in [Projects -> Nat]
    /\ dirty \in SUBSET Projects
    /\ lock \in [Projects -> Threads \cup {Free}]
    /\ pc \in [Threads -> Pcs]
    /\ proj \in [Threads -> Projects]
    /\ val \in [Threads -> Nat]
    /\ evicted \in [Threads -> Seq(EvictedRecord)]
    /\ after \in [Threads -> {"idle", "build", "mutate", "unlock", "answer",
                              "snapshot"}]
    /\ shares \in SUBSET Readers
    /\ latest \in [Projects -> Nat]
    /\ acked \in [Projects -> Nat]
    /\ phase \in {"up", "flushing", "down"}
    /\ todo \in SUBSET Projects
    /\ failed \in BOOLEAN
    /\ marker \in BOOLEAN

(***************************************************************************)
(* No lost update: the prior state an apply is about to build on, read     *)
(* from the cache or paged in by state_of, contains every apply recorded   *)
(* before.  locks.rs: serializing per project closes the race of two       *)
(* applies that "both read the same prior"; flush.rs state_of: "a cache    *)
(* miss can never read a checkpoint that is older than state the daemon    *)
(* still believes in".                                                     *)
(***************************************************************************)
NoLostUpdate ==
    \A t \in Clients \cup Workers : At(t, "mutate") => val[t] = latest[proj[t]]

(***************************************************************************)
(* When flush_locked has returned and its caller still holds the lock, the *)
(* checkpoint is the newest state: what project export then reads, and     *)
(* what a client is told (daemon.rs Exec::run: "a client command must not  *)
(* report success for anything unpersisted").                              *)
(***************************************************************************)
FlushedUnderLock ==
    \A t \in Threads :
        pc[t] \in {"answer", "snapshot"} => disk[proj[t]] = latest[proj[t]]

(***************************************************************************)
(* What a client was told is persisted stays persisted: no later flush,    *)
(* eviction or write-through replaces the checkpoint by an older state,    *)
(* and a crash at any point cannot lose it (flush.rs Persistence::Flush:   *)
(* "CI reads the exit code as 'it is on disk'").                           *)
(***************************************************************************)
AckDurable == \A p \in Projects : acked[p] <= disk[p]

(***************************************************************************)
(* The clean-shutdown marker is honest: when it is written, every state    *)
(* recorded in memory is on disk (daemon.rs shutdown: the marker is the    *)
(* promise "I flushed").                                                   *)
(***************************************************************************)
MarkerHonest == marker => \A p \in Projects : disk[p] = latest[p]

(***************************************************************************)
(* Every operation that has begun returns: no set of threads ends up       *)
(* waiting for each other's project locks, although an insert under one    *)
(* project's lock writes back another project (flush_evicted: "acquiring a *)
(* second would make an A->B / B->A deadlock reachable").                  *)
(***************************************************************************)
EveryOperationReturns ==
    \A t \in Threads : pc[t] # "idle" ~> pc[t] = "idle"
=============================================================================
