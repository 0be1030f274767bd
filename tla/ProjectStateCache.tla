------------------------- MODULE ProjectStateCache -------------------------
(***************************************************************************)
(* The daemon's LRU cache of full project states (filigrio-daemon,         *)
(* cache.rs).  A GraphState is abstracted to its version: how many applies *)
(* it contains.  Every operation below runs under the one cache mutex, so  *)
(* it is a single step; the operations are used by module Flusher, which   *)
(* owns the cache.                                                         *)
(***************************************************************************)
EXTENDS Integers, FiniteSets, SequencesExt

CONSTANTS
    Projects,   \* registered project ids
    Capacity    \* cache_capacity: full graphs resident at once

ASSUME CapacityAssumption == Capacity \in Nat \ {0}
ASSUME ProjectsAssumption == IsFiniteSet(Projects) /\ Projects # {}

\* "Paged out" in graphs, "not built" in view, "clean" in an Evicted record.
Absent == -1

VARIABLES
    graphs,     \* version of the resident state of a project, or Absent
    view,       \* version the cached query index was built from, or Absent
    order,      \* recency of use: head = least recently used
    cacheDirty  \* projects whose resident state differs from the checkpoint

cacheVars == <<graphs, view, order, cacheDirty>>

Resident(p) == graphs[p] # Absent

CacheTypeOK ==
    /\ graphs \in [Projects -> Nat \cup {Absent}]
    /\ view \in [Projects -> Nat \cup {Absent}]
    /\ order \in Seq(Projects)
    /\ cacheDirty \in SUBSET Projects

CacheInit ==
    /\ graphs = [p \in Projects |-> Absent]
    /\ view = [p \in Projects |-> Absent]
    /\ order = <<>>
    /\ cacheDirty = {}

-----------------------------------------------------------------------------
\* Mutation: touch keeps the old place of a project that is already listed.
TouchedTwice(p) == Append(order, p)

\* touch: move p to the most-recently-used end, dropping its old place.
Touched(p) == Append(RemoveFirst(order, p), p)

\* get_arc on a resident project: a use of it, nothing else changes.
GetArc(p) ==
    /\ order' = Touched(p)
    /\ UNCHANGED <<graphs, view, cacheDirty>>

\* How many graphs are over capacity once p is resident as well.
Excess(p) ==
    LET n == Cardinality({q \in Projects : Resident(q)} \cup {p})
    IN  IF n > Capacity THEN n - Capacity ELSE 0

\* evict_to_capacity: the least recently used projects, in order.
Victims(p) == SubSeq(Touched(p), 1, Excess(p))

(***************************************************************************)
(* insert: replace p's whole entry (its view goes with the old state),     *)
(* refresh recency, evict down to capacity.  EvictedBy(p) is what the call *)
(* returns: a dirty victim's state, or Absent for a clean one.             *)
(***************************************************************************)
Insert(p, v, dirty) ==
    LET out == ToSet(Victims(p))
    IN  /\ graphs' = [q \in Projects |->
                        IF q \in out THEN Absent
                        ELSE IF q = p THEN v ELSE graphs[q]]
        /\ view' = [q \in Projects |->
                        IF q \in out \cup {p} THEN Absent ELSE view[q]]
        /\ order' = SubSeq(Touched(p), Excess(p) + 1, Len(Touched(p)))
        /\ cacheDirty' = (IF dirty THEN cacheDirty \cup {p}
                          ELSE cacheDirty \ {p}) \ out

\* Mutation: a dirty victim is dropped instead of handed back.
EvictedByDropped(p) ==
    [i \in 1 .. Excess(p) |-> [id |-> Victims(p)[i], state |-> Absent]]

\* One paged-out project, as insert hands it back.
EvictedRecord == [id : Projects, state : Nat \cup {Absent}]

EvictedBy(p) ==
    [i \in 1 .. Excess(p) |->
        [id |-> Victims(p)[i],
         state |-> IF Victims(p)[i] \in cacheDirty
                   THEN graphs[Victims(p)[i]] ELSE Absent]]

MarkClean(p) ==
    /\ cacheDirty' = cacheDirty \ {p}
    /\ UNCHANGED <<graphs, view, order>>

-----------------------------------------------------------------------------
(***************************************************************************)
(* The order deque lists exactly the resident projects, each once, and no  *)
(* more graphs are resident than the capacity allows.  cache.rs: "Each     *)
(* resident graph id appears exactly once" and touch's "invariant that     *)
(* stops the order deque from growing unbounded and picking the wrong      *)
(* victim".                                                                *)
(***************************************************************************)
OrderIsRecency ==
    /\ ToSet(order) = {p \in Projects : Resident(p)}
    /\ Len(order) = Cardinality(ToSet(order))
    /\ Len(order) <= Capacity

(***************************************************************************)
(* A cached view never outlives its state: cache.rs header, "a cached view *)
(* never outlives its state", although the view is built outside the cache *)
(* mutex and published by install_view later.                              *)
(***************************************************************************)
ViewMatchesState == \A p \in Projects : view[p] # Absent => view[p] = graphs[p]

\* The deque, the graphs and the views agree.
CacheCoherent == OrderIsRecency /\ ViewMatchesState
=============================================================================
