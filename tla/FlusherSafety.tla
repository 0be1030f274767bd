--------------------------- MODULE FlusherSafety ---------------------------
(***************************************************************************)
(* The inductive invariants behind the safety of module Flusher in the two *)
(* regimes in which it holds: nothing is ever paged out and no query pages *)
(* anything in, so that the per-project lock alone orders everything; or   *)
(* states are paged out and in, but by one apply at a time.                *)
(***************************************************************************)
EXTENDS Flusher

\* Everything fits in the cache, and the query lane never loads a state.
ResidentRegime == Capacity >= Cardinality(Projects) /\ Readers = {}

\* Some thread working on p is at this step.
Someone(p, at) == \E t \in Threads : At(t, at) /\ proj[t] = p

\* Who is at a step that owns the project holds its lock; nobody evicts or
\* queries.
LockOK ==
    \A t \in Threads :
        /\ Holds(t) => lock[proj[t]] = t
        /\ evicted[t] = <<>>
        /\ pc[t] \notin EvictPcs \cup {"probe", "build"}
        /\ pc[t] \in FlushPcs \cup {"flush_wait"} =>
               after[t] \in {"answer", "snapshot"}

\* Who can be where: only workers write behind, the driver only flushes.
LanesOK ==
    /\ \A t \in Threads : pc[t] \in {"put", "mark_dirty"} => t \in Workers
    /\ pc[Driver] \in FlushPcs \cup {"idle", "flush_wait"}

\* Memory against disk, per project: what is missing from the one is in the
\* other, and whoever is in between holds the lock.
ProjectOK(p) ==
    /\ acked[p] <= disk[p] /\ disk[p] <= latest[p]
    /\ ~ Resident(p) => disk[p] = latest[p] /\ p \notin dirty
    /\ Resident(p) => graphs[p] = latest[p] \/ Someone(p, "load_fresh")
    /\ p \notin dirty => disk[p] = latest[p] \/ Someone(p, "mark_dirty")

ProjectsOK == \A p \in Projects : ProjectOK(p)

\* What a thread has in hand at each step.
Hands(t) ==
    LET p == proj[t] IN
    /\ At(t, "load") => ~ Resident(p)
    /\ At(t, "install") => ~ Resident(p) /\ val[t] = disk[p]
    /\ At(t, "mutate") => Resident(p) /\ val[t] = latest[p]
    /\ pc[t] \in {"write_through", "put"} =>
           Resident(p) /\ val[t] = latest[p] + 1
    /\ At(t, "load_fresh") =>
           Resident(p) /\ val[t] = latest[p] /\ disk[p] = latest[p]
    /\ At(t, "clear_dirty") =>
           Resident(p) /\ val[t] = latest[p] /\ disk[p] = latest[p]
    /\ At(t, "mark_dirty") => Resident(p) /\ val[t] = latest[p]
    /\ At(t, "unlock") => Resident(p) /\ val[t] = latest[p]
    /\ At(t, "flush_project") =>
           val[t] <= latest[p] /\ (p \notin dirty => val[t] <= disk[p])
    /\ At(t, "flush_peek") => Resident(p)
    /\ At(t, "flush_write") => Resident(p) /\ val[t] = latest[p]
    /\ pc[t] \in {"flush_clean", "flush_clear", "answer", "snapshot"} =>
           disk[p] = latest[p]

HandsOK == \A t \in Threads : Hands(t)

\* Shutdown: what is not on disk yet is still on the driver's list, in its
\* hands, or the marker is withheld.
ShutdownOK ==
    /\ phase # "up" =>
          /\ \A t \in Workers : At(t, "idle")
          /\ \A p \in Projects :
                \/ p \in todo \/ failed \/ disk[p] = latest[p]
                \/ /\ proj[Driver] = p
                   /\ pc[Driver] \in {"flush_wait", "flush_locked",
                                      "flush_peek", "flush_write"}
    /\ phase = "down" => todo = {} /\ At(Driver, "idle")
    /\ marker => phase = "down" /\ ~ failed

(***************************************************************************)
(* The inductive invariant: memory, the dirty set, the locks and the disk  *)
(* agree at every step of every operation (record_apply, flush_locked,     *)
(* shutdown) as far as ResidentRegime holds.                               *)
(***************************************************************************)
SafetyInv == LockOK /\ LanesOK /\ ProjectsOK /\ HandsOK /\ ShutdownOK

-----------------------------------------------------------------------------
(* Paging by one apply at a time *)

\* One worker, no client and no query, beside the cadence driver; any capacity.
\* Every write-back succeeds: a failed one loses the state it was to save.
AloneRegime ==
    /\ Clients = {} /\ Readers = {} /\ ~ IoFails
    /\ \A t, u \in Workers : t = u

\* A write-back of p's state is in flight: paged out, and not on disk yet.
InFlight(p) ==
    \E t \in Workers : \E i \in DOMAIN evicted[t] :
        evicted[t][i].id = p /\ evicted[t][i].state # Absent

\* Who can be where, and what is paged out is on its way to disk.
AloneThreads ==
    \A t \in Threads :
        /\ Holds(t) => lock[proj[t]] = t
        /\ evicted[t] # <<>> => pc[t] \in EvictPcs \cup {"mark_dirty"}
        /\ pc[t] \in EvictPcs =>
               evicted[t] # <<>> /\ after[t] \in {"mutate", "unlock"}
        /\ t \in Workers =>
               pc[t] \in StateOfPcs \cup EvictPcs
                         \cup {"idle", "mutate", "put", "mark_dirty", "unlock"}
        /\ t = Driver => /\ pc[t] \in FlushPcs \cup {"idle", "flush_wait"}
                         /\ pc[t] # "snapshot"
                         /\ pc[t] # "idle" => after[t] = "answer"

\* The newest state of a project is on disk, or resident and marked, or on
\* its way to disk.
AloneProject(p) ==
    /\ Resident(p) => graphs[p] = latest[p]
    /\ p \in cacheDirty =>
           Resident(p) /\ (p \in dirty \/ Someone(p, "mark_dirty"))
    /\ disk[p] = latest[p] \/ p \in cacheDirty \/ InFlight(p)

\* What a worker has in hand, and what it has paged out.
AloneWorker(t) ==
    LET p == proj[t] IN
    /\ \A i \in DOMAIN evicted[t] :
           LET e == evicted[t][i] IN
           /\ ~ Resident(e.id) /\ e.id # p
           /\ e.state # Absent => e.state = latest[e.id]
    /\ At(t, "evict_write") => Head(evicted[t]).state # Absent
    /\ pc[t] \in {"load", "install"} => ~ Resident(p)
    /\ At(t, "install") => val[t] = latest[p]
    /\ At(t, "mutate") => val[t] = latest[p]
    /\ At(t, "put") => val[t] = latest[p] + 1
    /\ At(t, "mark_dirty") => Resident(p)
    /\ pc[t] \in EvictPcs /\ after[t] = "mutate" => val[t] = latest[p]

\* What the driver has in hand.
AloneDriver ==
    LET p == proj[Driver] IN
    /\ At(Driver, "flush_write") => val[Driver] = latest[p]
    /\ pc[Driver] \in {"flush_clean", "flush_clear"} =>
           disk[p] = latest[p]
    /\ At(Driver, "flush_clear") => p \notin cacheDirty

(***************************************************************************)
(* The inductive invariant of paging: between the eviction of a state and  *)
(* its write-back the state is in the hands of the worker alone, which     *)
(* does not leave flush_evicted before it is on disk; so whoever misses in *)
(* the cache finds the newest state in the checkpoint.                     *)
(***************************************************************************)
AloneInv ==
    /\ AloneThreads
    /\ \A p \in Projects : AloneProject(p)
    /\ \A t \in Workers : AloneWorker(t)
    /\ AloneDriver
    /\ ShutdownOK

(***************************************************************************)
(* However often its state was paged out and in, an apply builds on the    *)
(* newest state of its project, and the clean marker is never written over *)
(* a state an eviction took along (Flusher::state_of, flush_evicted,       *)
(* Daemon::shutdown).                                                      *)
(***************************************************************************)
AloneSafe == NoLostUpdate /\ MarkerHonest

(***************************************************************************)
(* What is not on disk is resident and marked as dirty, or in the hands of *)
(* the write-back or of the apply about to mark it: a flush that finds its *)
(* project paged out and drops the dirty flag forgets no state, and no     *)
(* eviction leaves a state that nobody is going to write (flush_locked,    *)
(* "not to silently forget the flag").  The stronger claim of flush.rs,    *)
(* that a dirty project is resident, does not hold where states are paged  *)
(* out: between the eviction and flush_evicted the flag is still set.      *)
(***************************************************************************)
UnsavedIsTracked ==
    \A p \in Projects :
        \/ disk[p] = latest[p]
        \/ InFlight(p)
        \/ /\ Resident(p) /\ graphs[p] = latest[p]
           /\ p \in dirty \/ Someone(p, "mark_dirty")
=============================================================================
