----------------------------- MODULE ApplyOrder -----------------------------
(***************************************************************************)
(* What the producer lane promises of each project, with no queue, tick or *)
(* pool in sight: the changes a producer sends are applied one at a time,  *)
(* in the order they were sent, at most Permits projects at once; a change *)
(* is given up only when its project is no longer watched or the daemon is *)
(* on its way out.  Module Scheduler implements it (scheduler.rs header:   *)
(* "Pool bound", "One-per-project"; priority.rs: "FIFO within a lane").    *)
(*                                                                         *)
(* A change is its number among those its project's producer has sent.     *)
(***************************************************************************)
EXTENDS Integers, FiniteSets

CONSTANTS
    Projects,
    Permits

VARIABLES
    sent,     \* how many changes each project's producer has sent
    pending,  \* of these, the changes that wait
    running,  \* the change that is applied to a project: at most one
    watched,  \* projects whose changes are followed
    up        \* the daemon serves

vars == <<sent, pending, running, watched, up>>

\* What runs for a project when no change of it is applied: a recluster.
Upkeep == 0

Init ==
    /\ sent = [p \in Projects |-> 0]
    /\ pending = [p \in Projects |-> {}]
    /\ running = [p \in Projects |-> {}]
    /\ watched \subseteq Projects
    /\ up = TRUE

Send(p) ==
    /\ p \in watched
    /\ sent' = [sent EXCEPT ![p] = @ + 1]
    /\ pending' = [pending EXCEPT ![p] = @ \cup {sent'[p]}]
    /\ UNCHANGED <<running, watched, up>>

Begin(p, n) ==
    /\ up
    /\ running[p] = {}
    /\ Cardinality({q \in Projects : running[q] # {}}) < Permits
    /\ running' = [running EXCEPT ![p] = {n}]
    /\ UNCHANGED <<sent, watched, up>>

\* The oldest pending change begins.
BeginChange(p) ==
    \E n \in pending[p] :
        /\ \A m \in pending[p] : n <= m
        /\ Begin(p, n)
        /\ pending' = [pending EXCEPT ![p] = @ \ {n}]

BeginUpkeep(p) == Begin(p, Upkeep) /\ UNCHANGED pending

End(p) ==
    /\ running[p] # {}
    /\ running' = [running EXCEPT ![p] = {}]
    /\ UNCHANGED <<sent, pending, watched, up>>

\* Some of the pending changes of projects nobody watches are given up.
Unwatch ==
    /\ watched' \subseteq watched
    /\ \A p \in Projects : pending'[p] \subseteq pending[p]
    /\ \A p \in watched' : pending'[p] = pending[p]
    /\ UNCHANGED <<sent, running, up>>

Watch(p) ==
    /\ watched' = watched \cup {p}
    /\ UNCHANGED <<sent, pending, running, up>>

\* On its way out the daemon gives up what it has not begun.
Stop ==
    /\ up' = FALSE
    /\ UNCHANGED <<sent, pending, running, watched>>

GiveUp ==
    /\ ~ up
    /\ watched' \subseteq watched
    /\ \A p \in Projects : pending'[p] \subseteq pending[p]
    /\ UNCHANGED <<sent, running, up>>

Next ==
    \/ \E p \in Projects :
          Send(p) \/ BeginChange(p) \/ BeginUpkeep(p) \/ End(p) \/ Watch(p)
    \/ Unwatch \/ Stop \/ GiveUp

Spec == Init /\ [][Next]_vars
=============================================================================
