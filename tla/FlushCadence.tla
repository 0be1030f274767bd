---------------------------- MODULE FlushCadence ----------------------------
(***************************************************************************)
(* When the write-behind cadence persists a project (filigrio-daemon,      *)
(* flush.rs: FlushConfig, due, flush_each, start_driver / stop_driver).    *)
(* Time is discrete; a dirty project carries its ages, the time since it   *)
(* went dirty and since its last apply.  What a flush does to memory and   *)
(* disk is module Flusher; here it only takes time: waiting for the        *)
(* project's lock and writing the checkpoint take at most MaxHold.         *)
(***************************************************************************)
EXTENDS Integers, FiniteSets, FiniteSetsExt

CONSTANTS
    Held,
    Quiescence,   \* FlushConfig.quiescence
    MaxDirtyAge,  \* FlushConfig.max_dirty_age
    Poll,         \* flush_poll: the driver's sleep
    MaxHold,      \* bound: one flush, from asking for the lock to its end
    IoFails       \* a checkpoint write may fail

ASSUME ProjectsAssumption == IsFiniteSet(Held) /\ Held # {}
ASSUME TimesAssumption ==
    /\ Quiescence \in Nat /\ MaxDirtyAge \in Nat
    /\ Poll \in Nat \ {0} /\ MaxHold \in Nat
ASSUME IoFailsAssumption == IoFails \in BOOLEAN

Clean == -1

VARIABLES
    age,      \* time since first_dirty, or Clean
    still,    \* time since last_apply, counted up to Quiescence
    driver,   \* the driver thread: asleep, in flush_each, in a flush, ended
    left,     \* time its sleep or its flush can still take
    todo,     \* what due() listed and flush_each has not reached
    target,   \* projects whose flush is running: none or one
    stopping, \* stop_driver has been called
    failed,   \* history: dirty projects with a failed flush
    since     \* history: time since the cadence last wrote a project

\* Two writes of a project are at least this far apart.
Gap == Min({Quiescence, MaxDirtyAge})

cadenceVars == <<age, still, driver, left, todo, target, stopping, failed, since>>

\* The cap, a poll, a pass over the other projects and one over all of them;
\* an age is counted up to the first value beyond it.
AgeBound ==
    MaxDirtyAge + Poll + (2 * Cardinality(Held) - 1) * MaxHold

Dirty(p) == age[p] # Clean

CadenceInit ==
    /\ age = [p \in Held |-> Clean]
    /\ still = [p \in Held |-> 0]
    /\ driver = "sleep" /\ left = Poll
    /\ todo = {} /\ target = {} /\ stopping = FALSE
    /\ failed = {} /\ since = [p \in Held |-> Gap]

-----------------------------------------------------------------------------
\* Mutation: every apply restarts the dirty window.
DeferredApplyRestarts(p) ==
    /\ p \notin target
    /\ age' = [age EXCEPT ![p] = 0]
    /\ still' = [still EXCEPT ![p] = 0]
    /\ UNCHANGED <<driver, left, todo, target, stopping, failed, since>>

\* record_apply on the producer lane, under the project's lock: the dirty
\* window opens, or its last apply is now.
DeferredApply(p) ==
    /\ p \notin target
    /\ age' = [age EXCEPT ![p] = IF @ = Clean THEN 0 ELSE @]
    /\ still' = [still EXCEPT ![p] = 0]
    /\ UNCHANGED <<driver, left, todo, target, stopping, failed, since>>

\* A client command writes through, or flushes what was dirty.
ClientFlush(p) ==
    /\ p \notin target /\ Dirty(p)
    /\ age' = [age EXCEPT ![p] = Clean] /\ failed' = failed \ {p}
    /\ UNCHANGED <<still, driver, left, todo, target, stopping, since>>

\* Mutation: a project is only due once it is quiet.
DueWhenQuiet == {p \in Held : Dirty(p) /\ still[p] >= Quiescence}

\* Mutation: a project is due as soon as it is dirty.
DueAtOnce == {p \in Held : Dirty(p)}

\* Quiet for long enough, or dirty for too long.
Due ==
    {p \in Held : Dirty(p) /\ (still[p] >= Quiescence \/ age[p] >= MaxDirtyAge)}

\* The driver wakes up: it ends, or asks what is due.
Wake ==
    /\ driver = "sleep" /\ left = 0
    /\ IF stopping THEN driver' = "ended" /\ UNCHANGED todo
       ELSE driver' = "pass" /\ todo' = Due
    /\ UNCHANGED <<age, still, left, target, stopping, failed, since>>

\* flush_project: not dirty any more, or it goes for the lock.
FlushNext(p) ==
    /\ driver = "pass" /\ p \in todo
    /\ todo' = todo \ {p}
    /\ IF Dirty(p)
       THEN driver' = "flush" /\ target' = {p} /\ left' = MaxHold
       ELSE UNCHANGED <<driver, target, left>>
    /\ UNCHANGED <<age, still, stopping, failed, since>>

\* write_state, mark_clean and the dirty entry removed.
Flushed(p) ==
    /\ driver = "flush" /\ p \in target
    /\ age' = [age EXCEPT ![p] = Clean] /\ failed' = failed \ {p}
    /\ since' = [since EXCEPT ![p] = 0]
    /\ driver' = "pass" /\ target' = {} /\ left' = 0
    /\ UNCHANGED <<still, todo, stopping>>

\* Mutation: a failed flush is tried again in the same pass.
FlushFailedRetries(p) ==
    /\ IoFails /\ driver = "flush" /\ p \in target
    /\ driver' = "pass" /\ target' = {} /\ left' = 0
    /\ todo' = todo \cup {p}
    /\ failed' = failed \cup {p}
    /\ UNCHANGED <<age, still, stopping, since>>

\* The project stays dirty, and is due again at the next poll.
FlushFailed(p) ==
    /\ IoFails /\ driver = "flush" /\ p \in target
    /\ driver' = "pass" /\ target' = {} /\ left' = 0
    /\ failed' = failed \cup {p}
    /\ UNCHANGED <<age, still, todo, stopping, since>>

\* Back to the head of the driver's loop, which looks at the flag first.
PassEnds ==
    /\ driver = "pass" /\ todo = {}
    /\ IF stopping THEN driver' = "ended" /\ UNCHANGED left
       ELSE driver' = "sleep" /\ left' = Poll
    /\ UNCHANGED <<age, still, todo, target, stopping, failed, since>>

StopDriver ==
    /\ ~ stopping
    /\ stopping' = TRUE
    /\ UNCHANGED <<age, still, driver, left, todo, target, failed, since>>

\* Time passes, unless the driver has something to do right now.
Tick ==
    /\ driver \in {"sleep", "flush"} /\ left > 0
    /\ left' = left - 1
    /\ age' = [p \in Held |->
                 IF Dirty(p) THEN Min({age[p] + 1, AgeBound + 1}) ELSE Clean]
    /\ still' = [p \in Held |-> Min({still[p] + 1, Quiescence})]
    /\ since' = [p \in Held |-> Min({since[p] + 1, Gap})]
    /\ UNCHANGED <<driver, todo, target, stopping, failed>>

\* The driver has been joined: shutdown goes on with its own pass.
Joined == driver = "ended" /\ UNCHANGED cadenceVars

DriverStep ==
    \/ Wake \/ PassEnds
    \/ \E p \in Held : FlushNext(p) \/ Flushed(p)

CadenceNext ==
    \/ \E p \in Held :
          DeferredApply(p) \/ ClientFlush(p) \/ FlushFailed(p)
    \/ DriverStep \/ StopDriver \/ Tick \/ Joined

CadenceSpec == CadenceInit /\ [][CadenceNext]_cadenceVars

-----------------------------------------------------------------------------
\* Type invariant, with the driver's state and its lists in agreement.
CadenceTypeOK ==
    /\ age \in [Held -> Nat \cup {Clean}]
    /\ still \in [Held -> 0 .. Quiescence]
    /\ driver \in {"sleep", "pass", "flush", "ended"}
    /\ left \in Nat
    /\ todo \subseteq Held /\ target \subseteq Held
    /\ stopping \in BOOLEAN
    /\ failed \subseteq Held /\ since \in [Held -> 0 .. Gap]
    /\ driver # "flush" <=> target = {}

(***************************************************************************)
(* No churn defers persistence for ever: a project is never dirty for      *)
(* longer than the cap plus one poll, the pass that had just missed it and *)
(* the pass that has it (flush.rs max_dirty_age, "Hard bound on how long a *)
(* project may stay dirty"), while the driver lives and as long as the     *)
(* project's own writes succeed.                                           *)
(***************************************************************************)
DirtyAgeBounded ==
    driver # "ended" =>
        \A p \in Held \ failed :
            age[p] <= AgeBound

(***************************************************************************)
(* A save-storm coalesces into one write: the cadence writes a project at  *)
(* most once in a quiescence window (or cap, if that is shorter), although *)
(* a client may flush it and an apply dirty it anew between due() and its  *)
(* turn in the pass (flush.rs quiescence).                                 *)
(***************************************************************************)
CoalescedWrites ==
    [][\A p \in Held : p \in target /\ Dirty(p) /\ age'[p] = Clean
           => since[p] >= Gap]_cadenceVars

\* Edits go to disk neither too late nor too often: no churn defers a write for ever, and a
\* save-storm costs one write a window (Flusher::due, run_driver).
WritesAreTimely == []DirtyAgeBounded /\ CoalescedWrites

(***************************************************************************)
(* stop_driver returns: once it is asked to stop the driver ends, however  *)
(* many projects keep going dirty and writes fail (flush.rs stop_driver).  *)
(***************************************************************************)
StopJoins == stopping ~> driver = "ended"
=============================================================================
