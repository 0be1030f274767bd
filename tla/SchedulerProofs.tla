-------------------------- MODULE SchedulerProofs --------------------------
(***************************************************************************)
(* Theorems about module Scheduler for any set of projects, any number of  *)
(* permits and any assignment of lanes: the worker pool keeps its bounds;  *)
(* as long as jobs do not fail, no recluster debt is forgotten; the run    *)
(* loop ends in order and a recluster begins only on a quiet project; and  *)
(* the queue, the tick and the pool together apply the changes of a        *)
(* project one at a time and in the order they were sent (module           *)
(* ApplyOrder).                                                            *)
(***************************************************************************)
EXTENDS Scheduler, FiniteSetTheorems, SequenceTheorems, TLAPS

-----------------------------------------------------------------------------
(* Sequences of jobs *)

\* The elements of a sequence after one is appended.
LEMMA ToSetAppend ==
    ASSUME NEW S, NEW s \in Seq(S), NEW e \in S
    PROVE  /\ Append(s, e) \in Seq(S)
           /\ ToSet(Append(s, e)) = ToSet(s) \cup {e}
<1>1. /\ Append(s, e) \in Seq(S) /\ Len(Append(s, e)) = Len(s) + 1
      /\ \A i \in 1 .. Len(s) : Append(s, e)[i] = s[i]
      /\ Append(s, e)[Len(s) + 1] = e
  BY AppendProperties
<1>2. Len(s) \in Nat /\ DOMAIN s = 1 .. Len(s)
      /\ DOMAIN Append(s, e) = 1 .. Len(s) + 1
  BY <1>1, LenProperties
<1> QED BY <1>1, <1>2 DEF ToSet

\* A non-empty sequence is its head and its tail.
LEMMA ToSetHeadTail ==
    ASSUME NEW S, NEW s \in Seq(S), s # <<>>
    PROVE  /\ Head(s) \in S /\ Tail(s) \in Seq(S)
           /\ ToSet(s) = {Head(s)} \cup ToSet(Tail(s))
<1>1. /\ Head(s) \in S /\ Head(s) = s[1] /\ Tail(s) \in Seq(S)
      /\ Len(Tail(s)) = Len(s) - 1
      /\ \A i \in 1 .. Len(s) - 1 : Tail(s)[i] = s[i + 1]
  BY HeadTailProperties
<1>2. Len(s) \in Nat \ {0} /\ DOMAIN s = 1 .. Len(s)
      /\ DOMAIN Tail(s) = 1 .. Len(s) - 1
  BY <1>1, LenProperties, EmptySeq
<1>3. ASSUME NEW i \in 1 .. Len(s)
      PROVE  s[i] = Head(s) \/ s[i] \in ToSet(Tail(s))
  <2>1. CASE i = 1 BY <2>1, <1>1
  <2>2. CASE i # 1
    <3>1. i - 1 \in 1 .. Len(s) - 1 /\ Tail(s)[i - 1] = s[i]
      BY <2>2, <1>1, <1>2
    <3> QED BY <3>1, <1>2 DEF ToSet
  <2> QED BY <2>1, <2>2
<1>4. ASSUME NEW i \in 1 .. Len(s) - 1 PROVE Tail(s)[i] \in ToSet(s)
  <2>1. i + 1 \in 1 .. Len(s) BY <1>2
  <2> QED BY <2>1, <1>1, <1>2 DEF ToSet
<1>5. Head(s) \in ToSet(s)
  <2>1. 1 \in 1 .. Len(s) BY <1>2
  <2> QED BY <2>1, <1>1, <1>2 DEF ToSet
<1> QED BY <1>1, <1>2, <1>3, <1>4, <1>5 DEF ToSet

\* The elements of a concatenation.
LEMMA ToSetConcat ==
    ASSUME NEW S, NEW s \in Seq(S), NEW t \in Seq(S)
    PROVE  s \o t \in Seq(S) /\ ToSet(s \o t) = ToSet(s) \cup ToSet(t)
<1>1. /\ s \o t \in Seq(S) /\ Len(s \o t) = Len(s) + Len(t)
      /\ \A i \in 1 .. Len(s) + Len(t) :
            (s \o t)[i] = IF i <= Len(s) THEN s[i] ELSE t[i - Len(s)]
  BY ConcatProperties
<1>2. /\ Len(s) \in Nat /\ DOMAIN s = 1 .. Len(s)
      /\ Len(t) \in Nat /\ DOMAIN t = 1 .. Len(t)
      /\ DOMAIN (s \o t) = 1 .. Len(s) + Len(t)
  BY <1>1, LenProperties
<1>3. ASSUME NEW i \in 1 .. Len(s) + Len(t)
      PROVE  (s \o t)[i] \in ToSet(s) \cup ToSet(t)
  <2>1. CASE i <= Len(s) BY <2>1, <1>1, <1>2 DEF ToSet
  <2>2. CASE i > Len(s)
    <3>1. i - Len(s) \in 1 .. Len(t) /\ (s \o t)[i] = t[i - Len(s)]
      BY <2>2, <1>1, <1>2
    <3> QED BY <3>1, <1>2 DEF ToSet
  <2> QED BY <2>1, <2>2, <1>2
<1>4. ASSUME NEW i \in 1 .. Len(s) PROVE s[i] \in ToSet(s \o t)
  <2>1. i \in 1 .. Len(s) + Len(t) /\ (s \o t)[i] = s[i] BY <1>1, <1>2
  <2> QED BY <2>1, <1>2 DEF ToSet
<1>5. ASSUME NEW i \in 1 .. Len(t) PROVE t[i] \in ToSet(s \o t)
  <2>1. /\ Len(s) + i \in 1 .. Len(s) + Len(t)
        /\ (s \o t)[Len(s) + i] = t[i]
    BY <1>1, <1>2
  <2> QED BY <2>1, <1>2 DEF ToSet
<1> QED BY <1>1, <1>2, <1>3, <1>4, <1>5 DEF ToSet

-----------------------------------------------------------------------------
(* Type correctness *)

\* The deferral or spawning of a job keeps the types.
LEMMA AdmitType ==
    ASSUME TypeOK, NEW j \in Jobs, Spawn(j) \/ Defer(j)
    PROVE  /\ deferred' \in Seq(Jobs) /\ inflight' \subseteq Projects
           /\ tasks' \subseteq [job : Jobs, res : Results]
<1>1. CASE Spawn(j)
  <2>1. j.p \in Projects BY DEF Jobs
  <2>2. [job |-> j, res |-> "running"] \in [job : Jobs, res : Results]
    BY DEF Results
  <2> QED BY <1>1, <2>1, <2>2 DEF Spawn, TypeOK
<1>2. CASE Defer(j)
  <2>1. deferred \in Seq(Jobs) BY DEF TypeOK
  <2> QED BY <1>2, <2>1, AppendProperties DEF Defer, TypeOK
<1> QED BY <1>1, <1>2

\* The steps of connection tasks and producers keep the types.
LEMMA EnvironmentType ==
    ASSUME TypeOK, NEW p \in Projects, Environment(p)
    PROVE  TypeOK'
<1>1. CASE ProjectRegister(p)
  BY <1>1 DEF ProjectRegister, TypeOK, envVars
<1>2. CASE ProjectRemove(p)
  <2>1. channel' \in [Projects -> Seq(Jobs)]
    BY <1>2, EmptySeq DEF ProjectRemove, TypeOK
  <2> QED BY <1>2, <2>1 DEF ProjectRemove, TypeOK, envVars
<1>3. CASE WatchOn(p) BY <1>3 DEF WatchOn, TypeOK, envVars
<1>4. CASE WatchOff(p)
  <2>1. channel' \in [Projects -> Seq(Jobs)]
    BY <1>4, EmptySeq DEF WatchOff, TypeOK
  <2> QED BY <1>4, <2>1 DEF WatchOff, TypeOK, envVars
<1>5. CASE Produce(p)
  <2>1. produced' \in [Projects -> Nat] BY <1>5 DEF Produce, TypeOK
  <2>2. [p |-> p, op |-> "apply", n |-> produced'[p]] \in Jobs
    BY <2>1 DEF Jobs
  <2>3. channel[p] \in Seq(Jobs) BY DEF TypeOK
  <2>4. Append(channel[p], [p |-> p, op |-> "apply", n |-> produced'[p]])
          \in Seq(Jobs)
    BY <2>2, <2>3, AppendProperties
  <2>5. channel' \in [Projects -> Seq(Jobs)]
    BY <1>5, <2>4 DEF Produce, TypeOK
  <2> QED BY <1>5, <2>1, <2>5 DEF Produce, TypeOK, envVars
<1> QED BY <1>1, <1>2, <1>3, <1>4, <1>5 DEF Environment

\* The steps of the loop between two waits keep the types.
LEMMA LoopType ==
    ASSUME TypeOK, LoopStep
    PROVE  TypeOK'
<1>1. ASSUME NEW p \in Projects, RouteWatcherEvents(p) PROVE TypeOK'
  <2>1. LaneOf[p] \in Lanes BY LaneAssumption
  <2>2. queue[LaneOf[p]] \in Seq(Jobs) /\ channel[p] \in Seq(Jobs)
    BY <2>1 DEF TypeOK
  <2>3. queue[LaneOf[p]] \o channel[p] \in Seq(Jobs)
    BY <2>2, ConcatProperties
  <2>4. queue' \in [Lanes -> Seq(Jobs)]
    BY <1>1, <2>3 DEF RouteWatcherEvents, TypeOK
  <2>5. channel' \in [Projects -> Seq(Jobs)]
    BY <1>1, EmptySeq DEF RouteWatcherEvents, TypeOK
  <2> QED BY <1>1, <2>4, <2>5 DEF RouteWatcherEvents, TypeOK
<1>2. CASE Routed BY <1>2 DEF Routed, TypeOK, envVars, LoopPcs
<1>3. ASSUME NEW l \in Lanes, CollectApplyJob(l) PROVE TypeOK'
  <2>1. queue[l] \in Seq(Jobs) /\ queue[l] # <<>> /\ deferred \in Seq(Jobs)
    BY <1>3 DEF CollectApplyJob, TypeOK
  <2>2. Head(queue[l]) \in Jobs /\ Tail(queue[l]) \in Seq(Jobs)
    BY <2>1, ToSetHeadTail
  <2>3. Append(deferred, Head(queue[l])) \in Seq(Jobs)
    BY <2>1, <2>2, AppendProperties
  <2>4. queue' \in [Lanes -> Seq(Jobs)] /\ deferred' \in Seq(Jobs)
    BY <1>3, <2>1, <2>2, <2>3 DEF CollectApplyJob, TypeOK
  <2> QED BY <1>3, <2>4 DEF CollectApplyJob, TypeOK, envVars, LoopPcs
<1>4. CASE Collected
  BY <1>4, EmptySeq DEF Collected, TypeOK, envVars, LoopPcs
<1>5. CASE DispatchJob
  <2>1. Head(pass) \in Jobs /\ Tail(pass) \in Seq(Jobs)
    BY <1>5, ToSetHeadTail DEF DispatchJob, TypeOK
  <2>2. Spawn(Head(pass)) \/ Defer(Head(pass)) BY <1>5 DEF DispatchJob
  <2>3. /\ deferred' \in Seq(Jobs) /\ inflight' \subseteq Projects
        /\ tasks' \subseteq [job : Jobs, res : Results]
    BY <2>1, <2>2, AdmitType
  <2> QED BY <1>5, <2>1, <2>3 DEF DispatchJob, TypeOK, envVars
<1>6. CASE Dispatched BY <1>6 DEF Dispatched, TypeOK, envVars, LoopPcs
<1>7. ASSUME NEW p \in Projects, OwedRecluster(p) PROVE TypeOK'
  <2>1. Recluster(p) \in Jobs BY DEF Recluster, Jobs
  <2>2. /\ deferred' \in Seq(Jobs) /\ inflight' \subseteq Projects
        /\ tasks' \subseteq [job : Jobs, res : Results]
        /\ unclustered' \subseteq Projects
    <3>1. CASE p \in registered
      <4>1. Spawn(Recluster(p)) \/ Defer(Recluster(p))
        BY <1>7, <3>1 DEF OwedRecluster
      <4> QED BY <1>7, <2>1, <3>1, <4>1, AdmitType DEF OwedRecluster, TypeOK
    <3>2. CASE p \notin registered
      BY <1>7, <3>2 DEF OwedRecluster, TypeOK
    <3> QED BY <3>1, <3>2
  <2> QED BY <1>7, <2>2 DEF OwedRecluster, TypeOK, envVars
<1>8. CASE NothingOwed BY <1>8 DEF NothingOwed, TypeOK, envVars, LoopPcs
<1>9. CASE Select BY <1>9 DEF Select, TypeOK, envVars, LoopPcs
<1> QED
  BY <1>1, <1>2, <1>3, <1>4, <1>5, <1>6, <1>7, <1>8, <1>9 DEF LoopStep

\* What is left of a job once it has ended with a result.
LEMMA EndedJob ==
    ASSUME NEW t \in [job : Jobs, res : Results], NEW res \in Results
    PROVE  /\ [t EXCEPT !.res = res] \in [job : Jobs, res : Results]
           /\ [t EXCEPT !.res = res].job = t.job
           /\ [t EXCEPT !.res = res].res = res
OBVIOUS

\* A job that ends is exchanged for itself with a result; clustering is put
\* off by an apply and made up for by a recluster.
LEMMA JobEndsShape ==
    ASSUME TypeOK, NEW t \in tasks, JobEnds(t)
    PROVE  /\ t.job.p \in Projects /\ t.res = "running"
           /\ \E res \in Results \ {"running"} :
                 tasks' = (tasks \ {t}) \cup {[t EXCEPT !.res = res]}
           /\ unclustered' \subseteq unclustered \cup {t.job.p}
           /\ UNCHANGED <<envVars, queue, deferred, pass, inflight, owes, loop,
                          unrouted, reason>>
<1>1. t.job \in Jobs BY DEF TypeOK
<1>2. t.job.p \in Projects BY <1>1 DEF Jobs
<1>3. \E res \in Results \ {"running"} :
         tasks' = (tasks \ {t}) \cup {[t EXCEPT !.res = res]}
  BY DEF JobEnds, Results
<1> QED BY <1>2, <1>3 DEF JobEnds

\* A job that ends, and the loop collecting one (join_next), keep every variable in its domain.
LEMMA JobType ==
    ASSUME TypeOK, NEW t \in tasks, JobEnds(t) \/ JoinNext(t)
    PROVE  TypeOK'
<1>1. CASE JobEnds(t)
  <2>1. PICK res \in Results \ {"running"} :
           tasks' = (tasks \ {t}) \cup {[t EXCEPT !.res = res]}
    BY <1>1, JobEndsShape
  <2>2. [t EXCEPT !.res = res] \in [job : Jobs, res : Results]
    BY EndedJob DEF TypeOK
  <2>3. tasks' \subseteq [job : Jobs, res : Results]
    BY <2>1, <2>2 DEF TypeOK
  <2>4. unclustered' \subseteq Projects BY <1>1, JobEndsShape DEF TypeOK
  <2> QED BY <1>1, <2>3, <2>4 DEF JobEnds, TypeOK, envVars
<1>2. CASE JoinNext(t)
  <2>1. t.job.p \in Projects BY DEF TypeOK, Jobs
  <2>2. deferred' \in Seq(Jobs) /\ pass' \in Seq(Jobs) /\ loop' \in LoopPcs
    BY <1>2, EmptySeq DEF JoinNext, TypeOK, LoopPcs
  <2> QED BY <1>2, <2>1, <2>2 DEF JoinNext, TypeOK, envVars
<1> QED BY <1>1, <1>2

\* The ways out of the run loop (idle exit, shutdown, final reclusters, teardown) keep every
\* variable in its domain.
LEMMA LeaveType ==
    ASSUME TypeOK, Leave
    PROVE  TypeOK'
<1>1. CASE IdleExit BY <1>1 DEF IdleExit, TypeOK, envVars, LoopPcs
<1>2. CASE ShutdownSignal BY <1>2 DEF ShutdownSignal, TypeOK, envVars, LoopPcs
<1>3. CASE DropDeferred
  BY <1>3, EmptySeq DEF DropDeferred, TypeOK, envVars, LoopPcs
<1>4. CASE Teardown
  BY <1>4, EmptySeq DEF Teardown, TypeOK, LoopPcs
<1>5. ASSUME NEW p \in Projects, FinalRecluster(p) PROVE TypeOK'
  BY <1>5 DEF FinalRecluster, TypeOK, envVars
<1> QED BY <1>1, <1>2, <1>3, <1>4, <1>5 DEF Leave

\* Every variable stays in its domain.
LEMMA TypeStep == TypeOK /\ [Next]_vars => TypeOK'
<1> SUFFICES ASSUME TypeOK, [Next]_vars PROVE TypeOK' OBVIOUS
<1>1. CASE \E p \in Projects : Environment(p) BY <1>1, EnvironmentType
<1>2. CASE DrainTick BY <1>2 DEF DrainTick, TypeOK, envVars, LoopPcs
<1>3. CASE LoopStep BY <1>3, LoopType
<1>4. CASE \E t \in tasks : JobEnds(t) \/ JoinNext(t) BY <1>4, JobType
<1>5. CASE Leave BY <1>5, LeaveType
<1>6. CASE UNCHANGED vars BY <1>6 DEF vars, envVars, TypeOK
<1> QED BY <1>1, <1>2, <1>3, <1>4, <1>5, <1>6 DEF Next, Stopped

-----------------------------------------------------------------------------
(* The bounds of the pool *)

(***************************************************************************)
(* The inductive invariant of the pool.  PoolBounds alone is not inductive *)
(* where dispatch compares the size of inflight and not the number of      *)
(* threads: the two are equal and finite.                                  *)
(***************************************************************************)
PoolInv ==
    /\ PoolBounds
    /\ IsFiniteSet(inflight) /\ IsFiniteSet(tasks)
    /\ Cardinality(inflight) = Cardinality(tasks)

\* Admitting a job that fits, or deferring it, keeps the bounds.
LEMMA AdmitPool ==
    ASSUME TypeOK, PoolInv, NEW j \in Jobs,
           IF Fits(j.p) THEN Spawn(j) ELSE Defer(j)
    PROVE  PoolInv'
<1> DEFINE u == [job |-> j, res |-> "running"]
<1>1. CASE ~ Fits(j.p) BY <1>1 DEF Defer, PoolInv, PoolBounds
<1>2. CASE Fits(j.p)
  <2>1. /\ inflight' = inflight \cup {j.p} /\ tasks' = tasks \cup {u}
        /\ u.job.p = j.p
    BY <1>2 DEF Spawn
  <2>2. j.p \notin inflight /\ u \notin tasks
    BY <1>2, <2>1 DEF Fits, PoolInv, PoolBounds
  <2> HIDE DEF u
  <2>3. /\ IsFiniteSet(inflight') /\ IsFiniteSet(tasks')
        /\ Cardinality(inflight') = Cardinality(inflight) + 1
        /\ Cardinality(tasks') = Cardinality(tasks) + 1
    BY <2>1, <2>2, FS_AddElement DEF PoolInv
  <2>4. Cardinality(inflight) \in Nat BY FS_CardinalityType DEF PoolInv
  <2>5. Cardinality(tasks') <= Permits
    BY <1>2, <2>3, <2>4, PermitsAssumption DEF Fits, PoolInv
  <2>6. inflight' = {t.job.p : t \in tasks'}
    BY <2>1 DEF PoolInv, PoolBounds
  <2>7. \A t, v \in tasks' : t.job.p = v.job.p => t = v
    BY <2>1, <2>2 DEF PoolInv, PoolBounds
  <2> QED BY <2>3, <2>5, <2>6, <2>7 DEF PoolInv, PoolBounds
<1> QED BY <1>1, <1>2

\* A job that ends keeps its thread's place.
LEMMA EndPool ==
    ASSUME TypeOK, PoolInv, NEW t \in tasks, JobEnds(t)
    PROVE  PoolInv'
<1>1. PICK res \in Results \ {"running"} :
         tasks' = (tasks \ {t}) \cup {[t EXCEPT !.res = res]}
  BY JobEndsShape
<1> DEFINE u == [t EXCEPT !.res = res]
           rest == tasks \ {t}
<1>2. u.job = t.job BY EndedJob DEF TypeOK
<1>3. tasks' = rest \cup {u} /\ inflight' = inflight
  BY <1>1 DEF JobEnds
<1> HIDE DEF u
<1>4. u \notin rest BY <1>2 DEF PoolInv, PoolBounds
<1>5. IsFiniteSet(rest) /\ Cardinality(rest) = Cardinality(tasks) - 1
  BY FS_RemoveElement DEF PoolInv
<1>6. tasks = rest \cup {t} OBVIOUS
<1> HIDE DEF rest
<1>7. IsFiniteSet(tasks') /\ Cardinality(tasks') = Cardinality(rest) + 1
  BY <1>3, <1>4, <1>5, FS_AddElement
<1>8. Cardinality(tasks) \in Nat BY FS_CardinalityType DEF PoolInv
<1>9. Cardinality(tasks') = Cardinality(tasks) BY <1>5, <1>7, <1>8
<1>10. inflight' = {v.job.p : v \in tasks'}
  BY <1>2, <1>3, <1>6 DEF PoolInv, PoolBounds
<1>11. \A v, w \in tasks' : v.job.p = w.job.p => v = w
  BY <1>2, <1>3, <1>4, <1>6 DEF PoolInv, PoolBounds, rest
<1> QED BY <1>3, <1>7, <1>9, <1>10, <1>11 DEF PoolInv, PoolBounds

\* The slot a finished job gives back is its own.
LEMMA JoinPool ==
    ASSUME TypeOK, PoolInv, NEW t \in tasks, JoinNext(t)
    PROVE  PoolInv'
<1>1. tasks' = tasks \ {t} /\ inflight' = inflight \ {t.job.p}
  BY DEF JoinNext
<1>2. t.job.p \in inflight BY DEF PoolInv, PoolBounds
<1>3. /\ IsFiniteSet(inflight') /\ IsFiniteSet(tasks')
      /\ Cardinality(inflight') = Cardinality(inflight) - 1
      /\ Cardinality(tasks') = Cardinality(tasks) - 1
  BY <1>1, <1>2, FS_RemoveElement DEF PoolInv
<1>4. Cardinality(tasks) \in Nat BY FS_CardinalityType DEF PoolInv
<1>5. Cardinality(tasks') <= Permits
  BY <1>3, <1>4, PermitsAssumption DEF PoolInv, PoolBounds
<1>6. inflight' = {v.job.p : v \in tasks'}
  BY <1>1 DEF PoolInv, PoolBounds
<1>7. \A v, w \in tasks' : v.job.p = w.job.p => v = w
  BY <1>1 DEF PoolInv, PoolBounds
<1> QED BY <1>3, <1>5, <1>6, <1>7 DEF PoolInv, PoolBounds

\* Every other step leaves the pool alone.
PoolUnchanged == UNCHANGED <<inflight, tasks>>

\* No step of the run loop, of a job or of a connection task exceeds the permits or starts a
\* second job of a project: the invariant of the pool is inductive.
LEMMA PoolStep == TypeOK /\ PoolInv /\ [Next]_vars => PoolInv'
<1> SUFFICES ASSUME TypeOK, PoolInv, [Next]_vars PROVE PoolInv' OBVIOUS
<1>0. CASE PoolUnchanged
  BY <1>0 DEF PoolUnchanged, PoolInv, PoolBounds
<1>1. CASE \E p \in Projects : Environment(p)
  <2>1. PoolUnchanged
    BY <1>1 DEF Environment, ProjectRegister, ProjectRemove, WatchOn, WatchOff,
                Produce, PoolUnchanged
  <2> QED BY <2>1, <1>0
<1>2. CASE LoopStep
  <2>1. CASE DispatchJob
    <3>1. Head(pass) \in Jobs BY <2>1, ToSetHeadTail DEF DispatchJob, TypeOK
    <3> QED BY <2>1, <3>1, AdmitPool DEF DispatchJob
  <2>2. ASSUME NEW p \in Projects, OwedRecluster(p) PROVE PoolInv'
    <3>1. CASE p \in registered
      <4>1. Recluster(p) \in Jobs /\ Recluster(p).p = p
        BY DEF Recluster, Jobs
      <4>2. IF Fits(p) THEN Spawn(Recluster(p)) ELSE Defer(Recluster(p))
        BY <2>2, <3>1 DEF OwedRecluster
      <4> QED BY <4>1, <4>2, AdmitPool
    <3>2. CASE p \notin registered
      <4>1. PoolUnchanged BY <2>2, <3>2 DEF OwedRecluster, PoolUnchanged
      <4> QED BY <4>1, <1>0
    <3> QED BY <3>1, <3>2
  <2>3. CASE \/ \E p \in Projects : RouteWatcherEvents(p)
             \/ \E l \in Lanes : CollectApplyJob(l)
             \/ Routed \/ Collected \/ Dispatched \/ NothingOwed \/ Select
    <3>1. PoolUnchanged
      BY <2>3 DEF RouteWatcherEvents, CollectApplyJob, Routed, Collected,
                  Dispatched, NothingOwed, Select, PoolUnchanged
    <3> QED BY <3>1, <1>0
  <2> QED BY <1>2, <2>1, <2>2, <2>3 DEF LoopStep
<1>3. CASE \E t \in tasks : JobEnds(t) \/ JoinNext(t)
  BY <1>3, EndPool, JoinPool
<1>4. CASE DrainTick \/ Leave \/ UNCHANGED vars
  <2>1. PoolUnchanged
    BY <1>4 DEF DrainTick, Leave, IdleExit, ShutdownSignal, DropDeferred,
                Teardown, FinalRecluster, vars, PoolUnchanged
  <2> QED BY <2>1, <1>0
<1> QED BY <1>1, <1>2, <1>3, <1>4 DEF Next, Stopped

(***************************************************************************)
(* The worker pool of the daemon (scheduler.rs): at no time do more        *)
(* applies run than there are permits, nor two of one project, and the     *)
(* in-flight set is the set of the projects whose threads run; every       *)
(* variable of the producer lane stays in its domain.                      *)
(***************************************************************************)
THEOREM PoolSafe == Spec => [](TypeOK /\ PoolBounds)
<1>1. Init => TypeOK /\ PoolInv
  <2> SUFFICES ASSUME Init PROVE TypeOK /\ PoolInv OBVIOUS
  <2>1. TypeOK BY EmptySeq DEF Init, TypeOK, LoopPcs
  <2>2. PoolInv
    BY FS_EmptySet, PermitsAssumption DEF Init, PoolInv, PoolBounds
  <2> QED BY <2>1, <2>2
<1>2. TypeOK /\ PoolInv /\ [Next]_vars => (TypeOK /\ PoolInv)'
  BY TypeStep, PoolStep
<1>3. TypeOK /\ PoolInv => TypeOK /\ PoolBounds BY DEF PoolInv
<1> QED BY <1>1, <1>2, <1>3, PTL DEF Spec

-----------------------------------------------------------------------------
(* The recluster debts *)

\* DebtOfJob with the two lists of waiting jobs apart.
HasDebt(p) ==
    \/ p \in owes
    \/ \E t \in tasks : t.job.p = p /\ (t.res = "owes" \/ Owing(t.job))
    \/ Recluster(p) \in ToSet(deferred)
    \/ Recluster(p) \in ToSet(pass)

\* A recluster owed, written with the containers apart: deferred jobs and those of the pass of
\* dispatch are looked at together by the property.
LEMMA DebtForm ==
    ASSUME TypeOK, NEW p
    PROVE  DebtOfJob(p) <=> HasDebt(p)
<1>1. ToSet(deferred \o pass) = ToSet(deferred) \cup ToSet(pass)
  BY ToSetConcat DEF TypeOK
<1> QED BY <1>1 DEF DebtOfJob, HasDebt

(***************************************************************************)
(* The inductive invariant of the debts.  Three things are added to        *)
(* DebtKept: a debt is held for removed projects too, which may come back  *)
(* before it is forgiven; a recluster that has ended has done its work,    *)
(* so that its completion may be forgotten; and jobs are under dispatch    *)
(* only while the loop dispatches, so that no other step overwrites them.  *)
(***************************************************************************)
DebtInv ==
    /\ loop # "dispatch" => pass = <<>>
    /\ Serving => \A p \in unclustered : HasDebt(p)
    /\ \A t \in tasks :
          Owing(t.job) /\ t.res # "running" => t.job.p \notin unclustered
    /\ reason = "idle" =>
          ~ Serving /\ deferred = <<>> /\ tasks = {} /\ unclustered = {}

\* Steps that move the loop and touch neither jobs nor debts.
LEMMA MoveDebt ==
    ASSUME TypeOK, DebtInv,
           UNCHANGED <<pass, deferred, tasks, owes, unclustered, reason>>,
           \/ UNCHANGED loop
           \/ Serving /\ pass = <<>>
    PROVE  DebtInv'
<1>1. \A p : HasDebt(p)' <=> HasDebt(p) BY DEF HasDebt, Recluster
<1> QED BY <1>1 DEF DebtInv, Serving

\* The empty sequence has no element.
LEMMA ToSetEmpty == ToSet(<<>>) = {}
<1> QED BY DEF ToSet

\* Popped jobs, and the whole list, become jobs to dispatch.
LEMMA CollectDebt ==
    ASSUME TypeOK, DebtInv, Collected \/ \E l \in Lanes : CollectApplyJob(l)
    PROVE  DebtInv'
<1>0. loop \in {"routed", "collect"} /\ pass = <<>> /\ Serving
  BY DEF Collected, CollectApplyJob, DebtInv, Serving
<1>1. CASE Collected
  <2>1. \A p : HasDebt(p) => HasDebt(p)'
    BY <1>0, <1>1, ToSetEmpty DEF Collected, HasDebt, Recluster
  <2> QED BY <1>0, <1>1, <2>1 DEF Collected, DebtInv, Serving
<1>2. ASSUME NEW l \in Lanes, CollectApplyJob(l) PROVE DebtInv'
  <2>1. Head(queue[l]) \in Jobs
    BY <1>2, ToSetHeadTail DEF CollectApplyJob, TypeOK
  <2>2. ToSet(deferred) \subseteq ToSet(deferred')
    BY <1>2, <2>1, ToSetAppend DEF CollectApplyJob, TypeOK
  <2>3. \A p : HasDebt(p) => HasDebt(p)'
    BY <1>2, <2>2 DEF CollectApplyJob, HasDebt, Recluster
  <2> QED BY <1>0, <1>2, <2>3 DEF CollectApplyJob, DebtInv, Serving
<1> QED BY <1>1, <1>2

\* A job that is admitted or deferred: a recluster's debt goes with it.
LEMMA AdmitDebt ==
    ASSUME TypeOK, NEW j \in Jobs, Spawn(j) \/ Defer(j)
    PROVE  /\ ToSet(deferred) \subseteq ToSet(deferred')
           /\ tasks \subseteq tasks'
           /\ \A t \in tasks' \ tasks : t.res = "running"
           /\ \A p : j = Recluster(p) =>
                \/ \E t \in tasks' : t.job.p = p /\ Owing(t.job)
                \/ Recluster(p) \in ToSet(deferred')
<1>1. CASE Spawn(j)
  <2> DEFINE u == [job |-> j, res |-> "running"]
  <2>1. /\ tasks' = tasks \cup {u} /\ deferred' = deferred
        /\ u.job = j /\ u.res = "running"
    BY <1>1 DEF Spawn
  <2> HIDE DEF u
  <2>2. \A p : j = Recluster(p) => j.p = p /\ Owing(j)
    BY DEF Recluster, Owing
  <2> QED BY <2>1, <2>2
<1>2. CASE Defer(j)
  <2>1. ToSet(deferred') = ToSet(deferred) \cup {j}
    BY <1>2, ToSetAppend DEF Defer, TypeOK
  <2> QED BY <1>2, <2>1 DEF Defer
<1> QED BY <1>1, <1>2

\* dispatch looking at one job, spawned or deferred, forgets no debt.
LEMMA DispatchDebt ==
    ASSUME TypeOK, DebtInv, DispatchJob
    PROVE  DebtInv'
<1> DEFINE j == Head(pass)
<1>1. /\ pass # <<>> /\ loop = "dispatch" /\ loop' = loop /\ pass' = Tail(pass)
      /\ UNCHANGED <<owes, unclustered, reason>>
  BY DEF DispatchJob
<1>2. j \in Jobs /\ ToSet(pass) = {j} \cup ToSet(pass')
  BY <1>1, ToSetHeadTail DEF TypeOK
<1>3. Spawn(j) \/ Defer(j) BY DEF DispatchJob
<1> HIDE DEF j
<1>4. ASSUME NEW p, HasDebt(p) PROVE HasDebt(p)'
  <2>1. Recluster(p)' = Recluster(p) BY DEF Recluster
  <2>2. CASE Recluster(p) = j
    BY <2>1, <2>2, <1>2, <1>3, AdmitDebt DEF HasDebt
  <2>3. CASE Recluster(p) # j
    BY <2>1, <2>3, <1>1, <1>2, <1>3, <1>4, AdmitDebt DEF HasDebt
  <2> QED BY <2>2, <2>3
<1>5. \A t \in tasks' :
         Owing(t.job) /\ t.res # "running" => t.job.p \notin unclustered'
  BY <1>1, <1>2, <1>3, AdmitDebt DEF DebtInv
<1> QED BY <1>1, <1>4, <1>5 DEF DebtInv, Serving

\* A debt taken out of the owed set becomes a job, spawned or deferred, or is forgiven with its
\* project, which is no longer registered.
LEMMA OwedDebt ==
    ASSUME TypeOK, DebtInv, NEW p \in Projects, OwedRecluster(p)
    PROVE  DebtInv'
<1>1. /\ loop = "owed" /\ loop' = loop /\ owes' = owes \ {p}
      /\ UNCHANGED <<pass, reason>>
  BY DEF OwedRecluster
<1>2. Recluster(p) \in Jobs BY DEF Recluster, Jobs
<1>3. CASE p \in registered
  <2>1. /\ Spawn(Recluster(p)) \/ Defer(Recluster(p))
        /\ UNCHANGED unclustered
    BY <1>3 DEF OwedRecluster
  <2>2. ASSUME NEW q, HasDebt(q) PROVE HasDebt(q)'
    <3>1. Recluster(q)' = Recluster(q) BY DEF Recluster
    <3>2. CASE q = p BY <3>1, <3>2, <1>2, <2>1, AdmitDebt DEF HasDebt
    <3>3. CASE q # p
      BY <3>1, <3>3, <1>1, <1>2, <2>1, <2>2, AdmitDebt DEF HasDebt
    <3> QED BY <3>2, <3>3
  <2>3. \A t \in tasks' :
           Owing(t.job) /\ t.res # "running" => t.job.p \notin unclustered'
    BY <1>2, <2>1, AdmitDebt DEF DebtInv
  <2> QED BY <1>1, <2>1, <2>2, <2>3 DEF DebtInv, Serving
<1>4. CASE p \notin registered
  <2>1. /\ unclustered' = unclustered \ {p}
        /\ UNCHANGED <<deferred, inflight, tasks>>
    BY <1>4 DEF OwedRecluster
  <2>2. \A q : q # p /\ HasDebt(q) => HasDebt(q)'
    BY <1>1, <2>1 DEF HasDebt, Recluster
  <2> QED BY <1>1, <2>1, <2>2 DEF DebtInv, Serving
<1> QED BY <1>3, <1>4

\* An apply that puts off its clustering reports it; a recluster that does
\* not fail has made up for it.
LEMMA EndDebt ==
    ASSUME TypeOK, PoolInv, DebtInv, ~ Faults, NEW t \in tasks, JobEnds(t)
    PROVE  DebtInv'
<1> DEFINE p == t.job.p
<1>1. /\ t.res = "running" /\ t \in [job : Jobs, res : Results]
      /\ UNCHANGED <<deferred, pass, owes, loop, reason>>
  BY DEF JobEnds, TypeOK
<1>2. PICK res \in Results \ {"running"} :
         /\ tasks' = (tasks \ {t}) \cup {[t EXCEPT !.res = res]}
         /\ \/ /\ t.job.op = "apply" /\ res = "owes"
               /\ unclustered' = unclustered \cup {p}
            \/ /\ t.job.op = "apply" /\ unclustered' = unclustered
            \/ /\ t.job.op = "recluster" /\ unclustered' = unclustered \ {p}
  BY DEF JobEnds, Results
<1> DEFINE u == [t EXCEPT !.res = res]
<1>3. u.job = t.job /\ u.res = res BY <1>1, EndedJob
<1>4. tasks' = (tasks \ {t}) \cup {u} BY <1>2
<1> HIDE DEF u
<1>5. \A v \in tasks \ {t} : v.job.p # p BY DEF PoolInv, PoolBounds
<1>6. ASSUME NEW q \in unclustered', Serving PROVE HasDebt(q)'
  <2>1. Recluster(q)' = Recluster(q) BY DEF Recluster
  <2>2. CASE q \in unclustered /\ ~ (q = p /\ t.job.op = "recluster")
    <3>1. HasDebt(q) BY <2>2, <1>6 DEF DebtInv
    <3>2. CASE \E v \in tasks : v.job.p = q /\ (v.res = "owes" \/ Owing(v.job))
      <4>1. PICK v \in tasks : v.job.p = q /\ (v.res = "owes" \/ Owing(v.job))
        BY <3>2
      <4>2. v # t BY <4>1, <2>2, <1>1 DEF Owing
      <4> QED BY <4>1, <4>2, <1>4 DEF HasDebt
    <3> QED BY <3>1, <3>2, <2>1, <1>1 DEF HasDebt
  <2>3. CASE q \notin unclustered
    <3>1. q = p /\ res = "owes" BY <2>3, <1>2
    <3> QED BY <3>1, <1>3, <1>4 DEF HasDebt
  <2>4. CASE q = p /\ t.job.op = "recluster" BY <2>4, <1>2
  <2> QED BY <2>2, <2>3, <2>4
<1>7. ASSUME NEW v \in tasks', Owing(v.job), v.res # "running"
      PROVE  v.job.p \notin unclustered'
  <2>1. CASE v = u BY <2>1, <1>7, <1>2, <1>3 DEF Owing
  <2>2. CASE v # u
    <3>1. v \in tasks /\ v.job.p # p BY <2>2, <1>4, <1>5
    <3> QED BY <3>1, <1>2, <1>7 DEF DebtInv
  <2> QED BY <2>1, <2>2
<1> QED BY <1>1, <1>6, <1>7 DEF DebtInv, Serving

\* The loop notes a debt with the completion that reports it.
LEMMA JoinDebt ==
    ASSUME TypeOK, PoolInv, DebtInv, NEW t \in tasks, JoinNext(t)
    PROVE  DebtInv'
<1>1. /\ loop \in {"select", "drain"} /\ t.res # "running"
      /\ tasks' = tasks \ {t}
      /\ owes' = IF t.res = "owes" THEN owes \cup {t.job.p} ELSE owes
      /\ UNCHANGED <<reason, unclustered>>
  BY DEF JoinNext
<1>2. pass = <<>> BY <1>1 DEF DebtInv
<1>3. \A q : Recluster(q)' = Recluster(q) BY DEF Recluster
<1>4. CASE loop = "select"
  <2>1. loop' = "dispatch" /\ pass' = deferred /\ deferred' = <<>>
    BY <1>4 DEF JoinNext
  <2>2. ASSUME NEW q \in unclustered PROVE HasDebt(q)'
    <3>1. HasDebt(q) BY <1>4, <2>2 DEF DebtInv, Serving
    <3>2. CASE \E v \in tasks : v.job.p = q /\ (v.res = "owes" \/ Owing(v.job))
      <4>1. PICK v \in tasks : v.job.p = q /\ (v.res = "owes" \/ Owing(v.job))
        BY <3>2
      <4>2. CASE v # t BY <4>1, <4>2, <1>1 DEF HasDebt
      <4>3. CASE v = t
        <5>1. t.res = "owes" BY <4>1, <4>3, <1>1 DEF DebtInv
        <5> QED BY <5>1, <4>1, <4>3, <1>1 DEF HasDebt
      <4> QED BY <4>2, <4>3
    <3>3. CASE q \in owes BY <3>3, <1>1 DEF HasDebt
    <3>4. CASE Recluster(q) \in ToSet(deferred) \cup ToSet(pass)
      BY <3>4, <1>2, <1>3, <2>1, ToSetEmpty DEF HasDebt
    <3> QED BY <3>1, <3>2, <3>3, <3>4 DEF HasDebt
  <2>3. reason # "idle" BY <1>4 DEF DebtInv, Serving
  <2> QED BY <1>1, <2>1, <2>2, <2>3 DEF DebtInv
<1>5. CASE loop = "drain"
  <2>1. UNCHANGED <<loop, pass, deferred>> BY <1>5 DEF JoinNext
  <2> QED BY <1>1, <1>5, <2>1 DEF DebtInv, Serving
<1> QED BY <1>1, <1>4, <1>5

\* Idle means that nobody owes anything.
LEMMA LeaveDebt ==
    ASSUME TypeOK, PoolInv, DebtInv, Leave
    PROVE  DebtInv'
<1>1. CASE IdleExit
  <2>1. /\ loop = "idle" /\ loop' = "drain" /\ reason' = "idle"
        /\ deferred = <<>> /\ inflight = {} /\ owes = {}
        /\ UNCHANGED <<deferred, pass, tasks, unclustered>>
    BY <1>1 DEF IdleExit, TrulyIdle
  <2>2. tasks = {} /\ pass = <<>>
    BY <2>1 DEF PoolInv, PoolBounds, DebtInv
  <2>3. \A p : ~ HasDebt(p) BY <2>1, <2>2, ToSetEmpty DEF HasDebt
  <2>4. unclustered = {} BY <2>1, <2>3 DEF DebtInv, Serving
  <2> QED BY <2>1, <2>2, <2>4 DEF DebtInv, Serving
<1>2. CASE ShutdownSignal
  BY <1>2 DEF ShutdownSignal, DebtInv, Serving
<1>3. CASE DropDeferred BY <1>3 DEF DropDeferred, DebtInv, Serving
<1>4. CASE Teardown BY <1>4 DEF Teardown, DebtInv, Serving
<1>5. ASSUME NEW p \in Projects, FinalRecluster(p) PROVE DebtInv'
  <2>1. unclustered' \subseteq unclustered BY <1>5 DEF FinalRecluster
  <2> QED BY <1>5, <2>1 DEF FinalRecluster, DebtInv, Serving
<1> QED BY <1>1, <1>2, <1>3, <1>4, <1>5 DEF Leave

\* As long as no job fails, no step forgets a recluster debt: the invariant of the debts is
\* inductive.
LEMMA DebtStep ==
    ASSUME ~ Faults
    PROVE  TypeOK /\ PoolInv /\ DebtInv /\ [Next]_vars => DebtInv'
<1> SUFFICES ASSUME TypeOK, PoolInv, DebtInv, [Next]_vars PROVE DebtInv'
  OBVIOUS
<1>1. CASE \E p \in Projects : Environment(p)
  BY <1>1, MoveDebt DEF Environment, ProjectRegister, ProjectRemove, WatchOn,
                        WatchOff, Produce
<1>2. CASE DrainTick
  BY <1>2, MoveDebt DEF DrainTick, DebtInv, Serving
<1>3. CASE LoopStep
  <2>1. ASSUME NEW p \in Projects, RouteWatcherEvents(p) PROVE DebtInv'
    BY <2>1, MoveDebt DEF RouteWatcherEvents
  <2>2. CASE Routed \/ Dispatched \/ NothingOwed \/ Select
    <3>1. /\ Serving /\ pass = <<>>
          /\ UNCHANGED <<pass, deferred, tasks, owes, unclustered, reason>>
      BY <2>2 DEF Routed, Dispatched, NothingOwed, Select, DebtInv, Serving
    <3> QED BY <3>1, MoveDebt
  <2> QED
    BY <1>3, <2>1, <2>2, CollectDebt, DispatchDebt, OwedDebt DEF LoopStep
<1>4. CASE \E t \in tasks : JobEnds(t) \/ JoinNext(t)
  BY <1>4, EndDebt, JoinDebt
<1>5. CASE Leave BY <1>5, LeaveDebt
<1>6. CASE UNCHANGED vars BY <1>6, MoveDebt DEF vars
<1> QED BY <1>1, <1>2, <1>3, <1>4, <1>5, <1>6 DEF Next, Stopped

(***************************************************************************)
(* As long as jobs do not fail, no project whose applies put off their     *)
(* clustering is forgotten while the daemon serves, and the idle timeout   *)
(* costs no work (run_inner: "Each gets ONE recluster", "truly idle").     *)
(* With failures the first does not hold: a failed apply notes no debt.    *)
(***************************************************************************)
THEOREM DebtsSafe ==
    ASSUME ~ Faults
    PROVE  Spec => [](DebtKept /\ IdleExitLosesNothing)
<1> DEFINE Inv == TypeOK /\ PoolInv /\ DebtInv
<1>1. Init => Inv
  <2> SUFFICES ASSUME Init PROVE Inv OBVIOUS
  <2>1. TypeOK BY EmptySeq DEF Init, TypeOK, LoopPcs
  <2>2. PoolInv
    BY FS_EmptySet, PermitsAssumption DEF Init, PoolInv, PoolBounds
  <2>3. DebtInv BY DEF Init, DebtInv, Serving
  <2> QED BY <2>1, <2>2, <2>3
<1>2. Inv /\ [Next]_vars => Inv' BY TypeStep, PoolStep, DebtStep
<1>3. Inv => DebtKept /\ IdleExitLosesNothing
  BY DebtForm DEF DebtInv, DebtKept, IdleExitLosesNothing
<1> QED BY <1>1, <1>2, <1>3, PTL DEF Spec


-----------------------------------------------------------------------------
(* Where a recluster may be *)

\* A permit for every project: the pool is never full for a quiet one.
EnoughPermits == IsFiniteSet(Projects) /\ Cardinality(Projects) <= Permits

\* A list without a recluster.
NoOwing(jobs) == \A j \in ToSet(jobs) : ~ Owing(j)

(***************************************************************************)
(* With a permit for every project a recluster never waits: it is admitted *)
(* the moment the loop makes it, so that no list ever holds one; and jobs  *)
(* are under dispatch only while the loop dispatches.                      *)
(***************************************************************************)
PaidAtOnce ==
    /\ NoOwing(deferred) /\ NoOwing(pass)
    /\ \A l \in Lanes : NoOwing(queue[l])
    /\ \A p \in Projects : NoOwing(channel[p])
    /\ loop # "dispatch" => pass = <<>>

\* A quiet project fits the pool when there is a permit for every project.
LEMMA QuietFits ==
    ASSUME EnoughPermits, TypeOK, NEW p \in Projects, Quiet(p)
    PROVE  Fits(p)
<1>1. p \notin inflight /\ inflight \subseteq Projects \ {p}
  BY DEF Quiet, TypeOK
<1>2. /\ IsFiniteSet(Projects \ {p})
      /\ Cardinality(Projects \ {p}) = Cardinality(Projects) - 1
  BY FS_RemoveElement DEF EnoughPermits
<1>3. /\ IsFiniteSet(inflight)
      /\ Cardinality(inflight) <= Cardinality(Projects \ {p})
  BY <1>1, <1>2, FS_Subset
<1>4. Cardinality(Projects) \in Nat /\ Cardinality(inflight) \in Nat
  BY <1>3, FS_CardinalityType DEF EnoughPermits
<1>5. Cardinality(inflight) < Permits
  BY <1>2, <1>3, <1>4, PermitsAssumption DEF EnoughPermits
<1> QED BY <1>1, <1>5 DEF Fits

\* What the loop owes begins to run at once, or is forgiven.
LEMMA OwedRuns ==
    ASSUME EnoughPermits, TypeOK, NEW p \in Projects, OwedRecluster(p)
    PROVE  /\ UNCHANGED <<deferred, pass, queue, channel, loop>>
           /\ tasks' \subseteq
                tasks \cup {[job |-> Recluster(p), res |-> "running"]}
           /\ p \in registered =>
                [job |-> Recluster(p), res |-> "running"] \in tasks'
<1>1. Fits(p) BY QuietFits DEF OwedRecluster
<1> QED BY <1>1 DEF OwedRecluster, Spawn, envVars

\* The steps of producers and connection tasks send no recluster.
LEMMA EnvironmentPaid ==
    ASSUME TypeOK, PaidAtOnce, NEW p \in Projects, Environment(p)
    PROVE  PaidAtOnce'
<1>1. UNCHANGED <<deferred, pass, queue, loop>>
  BY DEF Environment, ProjectRegister, ProjectRemove, WatchOn, WatchOff, Produce
<1>2. CASE channel' = channel \/ channel' = [channel EXCEPT ![p] = <<>>]
  BY <1>1, <1>2, ToSetEmpty DEF PaidAtOnce, NoOwing, TypeOK
<1>3. CASE Produce(p)
  <2> DEFINE j == [p |-> p, op |-> "apply", n |-> produced'[p]]
  <2>1. j \in Jobs /\ ~ Owing(j)
    BY <1>3 DEF Produce, TypeOK, Jobs, Owing
  <2>2. channel' = [channel EXCEPT ![p] = Append(@, j)] BY <1>3 DEF Produce
  <2> HIDE DEF j
  <2>3. channel[p] \in Seq(Jobs) BY DEF TypeOK
  <2>4. ToSet(Append(channel[p], j)) = ToSet(channel[p]) \cup {j}
    BY <2>1, <2>3, ToSetAppend
  <2>5. ASSUME NEW q \in Projects PROVE NoOwing(channel'[q])
    <3>1. CASE q = p BY <3>1, <2>1, <2>2, <2>4 DEF PaidAtOnce, NoOwing, TypeOK
    <3>2. CASE q # p BY <3>2, <2>2 DEF PaidAtOnce, NoOwing, TypeOK
    <3> QED BY <3>1, <3>2
  <2> QED BY <1>1, <2>5 DEF PaidAtOnce, NoOwing
<1> QED
  BY <1>2, <1>3
  DEF Environment, ProjectRegister, ProjectRemove, WatchOn, WatchOff

\* The steps of the loop move applies only.
LEMMA LoopPaid ==
    ASSUME EnoughPermits, TypeOK, PaidAtOnce, LoopStep
    PROVE  PaidAtOnce'
<1>1. ASSUME NEW p \in Projects, RouteWatcherEvents(p) PROVE PaidAtOnce'
  <2> DEFINE l == LaneOf[p]
  <2>1. l \in Lanes BY LaneAssumption
  <2>2. queue[l] \in Seq(Jobs) /\ channel[p] \in Seq(Jobs)
    BY <2>1 DEF TypeOK
  <2>3. /\ queue' = [queue EXCEPT ![l] = queue[l] \o channel[p]]
        /\ channel' = [channel EXCEPT ![p] = <<>>]
        /\ UNCHANGED <<deferred, pass, loop>>
    BY <1>1 DEF RouteWatcherEvents
  <2> HIDE DEF l
  <2>4. ToSet(queue[l] \o channel[p]) = ToSet(queue[l]) \cup ToSet(channel[p])
    BY <2>2, ToSetConcat
  <2>5. \A k \in Lanes : NoOwing(queue'[k])
    BY <2>1, <2>3, <2>4 DEF PaidAtOnce, NoOwing, TypeOK
  <2>6. \A q \in Projects : NoOwing(channel'[q])
    BY <2>3, ToSetEmpty DEF PaidAtOnce, NoOwing, TypeOK
  <2> QED BY <2>3, <2>5, <2>6 DEF PaidAtOnce, NoOwing
<1>2. CASE Collected
  BY <1>2, ToSetEmpty DEF Collected, PaidAtOnce, NoOwing, envVars
<1>3. ASSUME NEW l \in Lanes, CollectApplyJob(l) PROVE PaidAtOnce'
  <2> DEFINE j == Head(queue[l])
  <2>1. /\ queue[l] \in Seq(Jobs) /\ queue[l] # <<>>
        /\ queue' = [queue EXCEPT ![l] = Tail(queue[l])]
        /\ deferred' = Append(deferred, j) \/ deferred' = deferred
        /\ pass = <<>> /\ UNCHANGED <<pass, channel>>
    BY <1>3 DEF CollectApplyJob, TypeOK, PaidAtOnce, envVars
  <2>2. j \in Jobs /\ ToSet(queue[l]) = {j} \cup ToSet(Tail(queue[l]))
    BY <2>1, ToSetHeadTail
  <2> HIDE DEF j
  <2>3. ToSet(deferred') \subseteq ToSet(deferred) \cup {j}
    <3>1. deferred \in Seq(Jobs) BY DEF TypeOK
    <3>2. ToSet(Append(deferred, j)) = ToSet(deferred) \cup {j}
      BY <2>2, <3>1, ToSetAppend
    <3> QED BY <2>1, <3>2
  <2>4. NoOwing(deferred') BY <2>2, <2>3 DEF PaidAtOnce, NoOwing
  <2>5. \A k \in Lanes : NoOwing(queue'[k])
    BY <2>1, <2>2 DEF PaidAtOnce, NoOwing, TypeOK
  <2> QED BY <2>1, <2>4, <2>5 DEF PaidAtOnce, NoOwing
<1>4. CASE DispatchJob
  <2> DEFINE j == Head(pass)
  <2>1. /\ pass \in Seq(Jobs) /\ pass # <<>> /\ pass' = Tail(pass)
        /\ deferred' = Append(deferred, j) \/ deferred' = deferred
        /\ loop = "dispatch" /\ UNCHANGED <<queue, channel, loop>>
    BY <1>4 DEF DispatchJob, TypeOK, Spawn, Defer, envVars
  <2>2. j \in Jobs /\ ToSet(pass) = {j} \cup ToSet(pass')
    BY <2>1, ToSetHeadTail
  <2> HIDE DEF j
  <2>3. ToSet(deferred') \subseteq ToSet(deferred) \cup {j}
    <3>1. deferred \in Seq(Jobs) BY DEF TypeOK
    <3>2. ToSet(Append(deferred, j)) = ToSet(deferred) \cup {j}
      BY <2>2, <3>1, ToSetAppend
    <3> QED BY <2>1, <3>2
  <2> QED BY <2>1, <2>2, <2>3 DEF PaidAtOnce, NoOwing
<1>5. ASSUME NEW p \in Projects, OwedRecluster(p) PROVE PaidAtOnce'
  BY <1>5, OwedRuns DEF PaidAtOnce, NoOwing
<1>6. CASE Routed \/ Dispatched \/ NothingOwed \/ Select
  BY <1>6
  DEF Routed, Dispatched, NothingOwed, Select, PaidAtOnce, NoOwing, envVars
<1> QED BY <1>1, <1>2, <1>3, <1>4, <1>5, <1>6 DEF LoopStep

\* No step makes a recluster wait.
LEMMA PaidStep ==
    ASSUME EnoughPermits
    PROVE  TypeOK /\ PaidAtOnce /\ [Next]_vars => PaidAtOnce'
<1> SUFFICES ASSUME TypeOK, PaidAtOnce, [Next]_vars PROVE PaidAtOnce'
  OBVIOUS
<1>1. CASE \E p \in Projects : Environment(p) BY <1>1, EnvironmentPaid
<1>2. CASE DrainTick
  BY <1>2 DEF DrainTick, PaidAtOnce, NoOwing, envVars
<1>3. CASE LoopStep BY <1>3, LoopPaid
<1>4. CASE \E t \in tasks : JobEnds(t) \/ JoinNext(t)
  <2>1. ASSUME NEW t \in tasks, JobEnds(t) PROVE PaidAtOnce'
    BY <2>1 DEF JobEnds, PaidAtOnce, NoOwing, envVars
  <2>2. ASSUME NEW t \in tasks, JoinNext(t) PROVE PaidAtOnce'
    BY <2>2, ToSetEmpty DEF JoinNext, PaidAtOnce, NoOwing, envVars
  <2> QED BY <1>4, <2>1, <2>2
<1>5. CASE Leave
  <2>1. CASE Teardown
    <3>1. \A p \in Projects : NoOwing(channel'[p])
      BY <2>1, ToSetEmpty DEF Teardown, NoOwing
    <3> QED BY <2>1, <3>1 DEF Teardown, PaidAtOnce, NoOwing
  <2>2. CASE IdleExit \/ ShutdownSignal \/ DropDeferred
    BY <2>2, ToSetEmpty
    DEF IdleExit, ShutdownSignal, DropDeferred, PaidAtOnce, NoOwing, envVars
  <2>3. ASSUME NEW p \in Projects, FinalRecluster(p) PROVE PaidAtOnce'
    BY <2>3 DEF FinalRecluster, PaidAtOnce, NoOwing, envVars
  <2> QED BY <1>5, <2>1, <2>2, <2>3 DEF Leave
<1>6. CASE UNCHANGED vars BY <1>6 DEF vars, envVars, PaidAtOnce, NoOwing
<1> QED BY <1>1, <1>2, <1>3, <1>4, <1>5, <1>6 DEF Next, Stopped

\* At the start nothing waits.
LEMMA PaidInit == Init => TypeOK /\ PaidAtOnce
<1> SUFFICES ASSUME Init PROVE TypeOK /\ PaidAtOnce OBVIOUS
<1>1. TypeOK BY EmptySeq DEF Init, TypeOK, LoopPcs
<1>2. PaidAtOnce BY ToSetEmpty DEF Init, PaidAtOnce, NoOwing
<1> QED BY <1>1, <1>2

\* A job that a step adds to the pool, and that runs, was next in the pass or
\* is the recluster of a quiet project.
LEMMA BeginsQuiet ==
    ASSUME EnoughPermits, TypeOK, PaidAtOnce, [Next]_vars,
           NEW p \in Projects, NEW t \in tasks' \ tasks,
           t.job = Recluster(p), t.res = "running"
    PROVE  /\ OwedRecluster(p)
           /\ UNCHANGED <<deferred, pass, queue>> /\ pass = <<>>
<1>0. Owing(t.job) /\ t.job.p = p BY DEF Owing, Recluster
<1>1. CASE DispatchJob
  <2> DEFINE j == Head(pass)
  <2>1. pass \in Seq(Jobs) /\ pass # <<>> BY <1>1 DEF DispatchJob, TypeOK
  <2>2. j \in ToSet(pass) BY <2>1, ToSetHeadTail
  <2>3. tasks' \subseteq tasks \cup {[job |-> j, res |-> "running"]}
    BY <1>1 DEF DispatchJob, Spawn, Defer
  <2> HIDE DEF j
  <2>4. t = [job |-> j, res |-> "running"] BY <2>3
  <2> QED BY <1>0, <2>2, <2>4 DEF PaidAtOnce, NoOwing
<1>2. ASSUME NEW q \in Projects, OwedRecluster(q)
      PROVE  OwedRecluster(p) /\ UNCHANGED <<deferred, pass, queue>>
             /\ pass = <<>>
  <2>1. /\ UNCHANGED <<deferred, pass, queue>>
        /\ t = [job |-> Recluster(q), res |-> "running"]
    BY <1>2, OwedRuns
  <2>2. q = p BY <2>1, <1>0 DEF Recluster
  <2>3. loop = "owed" BY <1>2 DEF OwedRecluster
  <2> QED BY <1>2, <2>1, <2>2, <2>3 DEF PaidAtOnce
<1>3. ASSUME NEW u \in tasks, JobEnds(u) PROVE FALSE
  <2>1. PICK res \in Results \ {"running"} :
           tasks' = (tasks \ {u}) \cup {[u EXCEPT !.res = res]}
    BY <1>3, JobEndsShape
  <2>2. [u EXCEPT !.res = res].res = res BY EndedJob DEF TypeOK
  <2> QED BY <2>1, <2>2
<1>4. CASE tasks' \subseteq tasks BY <1>4
<1>5. CASE \E q \in Projects : Environment(q)
  BY <1>5, <1>4
  DEF Environment, ProjectRegister, ProjectRemove, WatchOn, WatchOff, Produce
<1>6. CASE LoopStep
  BY <1>1, <1>2, <1>4, <1>6
  DEF LoopStep, RouteWatcherEvents, CollectApplyJob, Routed, Collected,
      Dispatched, NothingOwed, Select
<1>7. CASE \E u \in tasks : JobEnds(u) \/ JoinNext(u)
  BY <1>3, <1>4, <1>7 DEF JoinNext
<1>8. CASE DrainTick \/ Leave \/ UNCHANGED vars
  BY <1>4, <1>8 DEF DrainTick, Leave, IdleExit, ShutdownSignal, DropDeferred,
                    Teardown, FinalRecluster, vars
<1> QED BY <1>5, <1>6, <1>7, <1>8 DEF Next, Stopped

(***************************************************************************)
(* With a permit for every project, a recluster begins to run only when    *)
(* nothing else waits for its project, whatever fails, is removed or comes *)
(* back meanwhile (run_inner: "dispatched only once the project is quiet").*)
(* With fewer permits a recluster that did not fit is dispatched from the  *)
(* deferred jobs, and the next change may already wait behind it.          *)
(***************************************************************************)
THEOREM ReclustersQuietly ==
    ASSUME EnoughPermits
    PROVE  Spec => ReclusterWhenQuiet
<1> DEFINE Inv == TypeOK /\ PaidAtOnce
           Quietly ==
             \A p \in Projects :
               (\E t \in tasks' \ tasks : t.job = Recluster(p) /\ t.res = "running")
                  => /\ Of(deferred', p) = {} /\ Of(pass', p) = {}
                     /\ \A l \in Lanes : Of(queue'[l], p) = {}
<1>1. Init => Inv BY PaidInit
<1>2. Inv /\ [Next]_vars => Inv' BY TypeStep, PaidStep
<1>3. Inv /\ [Next]_vars => [Quietly]_vars
  <2> SUFFICES ASSUME Inv, [Next]_vars, NEW p \in Projects,
                      NEW t \in tasks' \ tasks,
                      t.job = Recluster(p), t.res = "running"
               PROVE  /\ Of(deferred', p) = {} /\ Of(pass', p) = {}
                      /\ \A l \in Lanes : Of(queue'[l], p) = {}
    OBVIOUS
  <2>1. Quiet(p) /\ UNCHANGED <<deferred, pass, queue>> /\ pass = <<>>
    BY BeginsQuiet DEF OwedRecluster
  <2>2. Of(<<>>, p) = {} BY ToSetEmpty DEF Of
  <2> QED BY <2>1, <2>2 DEF Quiet
<1> QED BY <1>1, <1>2, <1>3, PTL DEF Spec, ReclusterWhenQuiet

-----------------------------------------------------------------------------
(* A graceful stop *)

\* Somebody will recluster p without having to wait for it.
DebtHeld(p) ==
    \/ p \in owes
    \/ \E t \in tasks : t.job.p = p /\ (t.res = "owes" \/ Owing(t.job))

(***************************************************************************)
(* The debts up to the very end.  DebtInv speaks of a daemon that serves;  *)
(* here, as no recluster waits, a debt is still held while the pool is     *)
(* drained and the rest is paid, for removed projects too, and the loop    *)
(* goes on to the next phase only when the one before has ended.           *)
(***************************************************************************)
StopInv ==
    /\ \A p \in unclustered : DebtHeld(p)
    /\ loop \in {"reclusters", "stopped"} => tasks = {}
    /\ loop = "stopped" => owes = {}

\* Steps that move the loop short of its last phases.
LEMMA MoveStop ==
    ASSUME StopInv, UNCHANGED <<tasks, owes, unclustered>>,
           loop' \notin {"reclusters", "stopped"} \/ UNCHANGED loop
    PROVE  StopInv'
<1>1. \A p : DebtHeld(p)' <=> DebtHeld(p) BY DEF DebtHeld
<1> QED BY <1>1 DEF StopInv

\* What the loop owes goes on to a job, or is forgiven with its project.
LEMMA OwedStop ==
    ASSUME EnoughPermits, TypeOK, StopInv, NEW p \in Projects, OwedRecluster(p)
    PROVE  StopInv'
<1>1. /\ loop = "owed" /\ loop' = loop /\ owes' = owes \ {p}
      /\ p \in registered => unclustered' = unclustered
      /\ p \notin registered => /\ unclustered' = unclustered \ {p}
                                /\ tasks' = tasks
  BY DEF OwedRecluster
<1> DEFINE u == [job |-> Recluster(p), res |-> "running"]
<1>2. u.job.p = p /\ Owing(u.job) BY DEF Recluster, Owing
<1>3. p \in registered => u \in tasks' BY OwedRuns
<1>4. tasks \subseteq tasks'
  BY DEF OwedRecluster, Spawn, Defer
<1> HIDE DEF u
<1>5. ASSUME NEW q \in unclustered' PROVE DebtHeld(q)'
  <2>1. CASE q = p
    <3>1. p \in registered BY <2>1, <1>1, <1>5
    <3> QED BY <2>1, <3>1, <1>2, <1>3 DEF DebtHeld
  <2>2. CASE q # p
    <3>1. DebtHeld(q) BY <2>2, <1>1, <1>5 DEF StopInv
    <3> QED BY <2>2, <3>1, <1>1, <1>4 DEF DebtHeld
  <2> QED BY <2>1, <2>2
<1> QED BY <1>1, <1>5 DEF StopInv

\* The pass holds applies only: one that begins owes nothing yet.
LEMMA DispatchStop ==
    ASSUME StopInv, DispatchJob
    PROVE  StopInv'
<1>1. /\ loop = "dispatch" /\ UNCHANGED <<loop, owes, unclustered>>
      /\ tasks \subseteq tasks'
  BY DEF DispatchJob, Spawn, Defer
<1>2. \A p : DebtHeld(p) => DebtHeld(p)' BY <1>1 DEF DebtHeld
<1> QED BY <1>1, <1>2 DEF StopInv

\* An apply that ends reports the debt it makes; a recluster pays it.
LEMMA EndStop ==
    ASSUME TypeOK, PoolInv, StopInv, ~ Faults, NEW t \in tasks, JobEnds(t)
    PROVE  StopInv'
<1> DEFINE p == t.job.p
<1>1. /\ t.res = "running" /\ t \in [job : Jobs, res : Results]
      /\ UNCHANGED <<owes, loop>>
  BY DEF JobEnds, TypeOK
<1>2. PICK res \in Results \ {"running"} :
         /\ tasks' = (tasks \ {t}) \cup {[t EXCEPT !.res = res]}
         /\ \/ /\ t.job.op = "apply" /\ res = "owes"
               /\ unclustered' = unclustered \cup {p}
            \/ /\ t.job.op = "apply" /\ unclustered' = unclustered
            \/ /\ t.job.op = "recluster" /\ unclustered' = unclustered \ {p}
  BY DEF JobEnds, Results
<1> DEFINE u == [t EXCEPT !.res = res]
<1>3. u.job = t.job /\ u.res = res BY <1>1, EndedJob
<1>4. tasks' = (tasks \ {t}) \cup {u} BY <1>2
<1> HIDE DEF u
<1>5. ASSUME NEW q \in unclustered' PROVE DebtHeld(q)'
  <2>1. CASE q \in unclustered /\ ~ (q = p /\ t.job.op = "recluster")
    <3>1. DebtHeld(q) BY <2>1 DEF StopInv
    <3>2. CASE \E v \in tasks : v.job.p = q /\ (v.res = "owes" \/ Owing(v.job))
      <4>1. PICK v \in tasks : v.job.p = q /\ (v.res = "owes" \/ Owing(v.job))
        BY <3>2
      <4>2. v # t BY <4>1, <2>1, <1>1 DEF Owing
      <4> QED BY <4>1, <4>2, <1>4 DEF DebtHeld
    <3> QED BY <3>1, <3>2, <1>1 DEF DebtHeld
  <2>2. CASE q \notin unclustered
    <3>1. q = p /\ res = "owes" BY <2>2, <1>2, <1>5
    <3> QED BY <3>1, <1>3, <1>4 DEF DebtHeld
  <2>3. CASE q = p /\ t.job.op = "recluster" BY <2>3, <1>2, <1>5
  <2> QED BY <2>1, <2>2, <2>3
<1>6. loop \notin {"reclusters", "stopped"} BY DEF StopInv
<1> QED BY <1>1, <1>5, <1>6 DEF StopInv

\* A recluster that has ended has done its work; another debt is noted.
LEMMA JoinStop ==
    ASSUME TypeOK, DebtInv, StopInv, NEW t \in tasks, JoinNext(t)
    PROVE  StopInv'
<1>1. /\ t.res # "running" /\ tasks' = tasks \ {t}
      /\ owes' = IF t.res = "owes" THEN owes \cup {t.job.p} ELSE owes
      /\ unclustered' = unclustered
      /\ loop' \notin {"reclusters", "stopped"}
  BY DEF JoinNext
<1>2. ASSUME NEW q \in unclustered PROVE DebtHeld(q)'
  <2>1. DebtHeld(q) BY <1>2 DEF StopInv
  <2>2. CASE \E v \in tasks : v.job.p = q /\ (v.res = "owes" \/ Owing(v.job))
    <3>1. PICK v \in tasks : v.job.p = q /\ (v.res = "owes" \/ Owing(v.job))
      BY <2>2
    <3>2. CASE v # t BY <3>1, <3>2, <1>1 DEF DebtHeld
    <3>3. CASE v = t
      <4>1. t.res = "owes" BY <3>1, <3>3, <1>1, <1>2 DEF DebtInv
      <4> QED BY <4>1, <3>1, <3>3, <1>1 DEF DebtHeld
    <3> QED BY <3>2, <3>3
  <2> QED BY <2>1, <2>2, <1>1 DEF DebtHeld
<1> QED BY <1>1, <1>2 DEF StopInv

\* Each phase of the shutdown begins when the one before it is done.
LEMMA LeaveStop ==
    ASSUME StopInv, ~ Faults, Leave
    PROVE  StopInv'
<1>1. CASE IdleExit \/ ShutdownSignal
  BY <1>1, MoveStop DEF IdleExit, ShutdownSignal
<1>2. CASE DropDeferred
  BY <1>2 DEF DropDeferred, StopInv, DebtHeld
<1>3. CASE Teardown BY <1>3 DEF Teardown, StopInv, DebtHeld
<1>4. ASSUME NEW p \in Projects, FinalRecluster(p) PROVE StopInv'
  <2>1. /\ loop = "reclusters" /\ UNCHANGED <<loop, tasks>>
        /\ owes' = owes \ {p} /\ unclustered' = unclustered \ {p}
    BY <1>4 DEF FinalRecluster
  <2> QED BY <2>1 DEF StopInv, DebtHeld
<1> QED BY <1>1, <1>2, <1>3, <1>4 DEF Leave

\* Every step keeps the debts to the very end.
LEMMA StopStep ==
    ASSUME EnoughPermits, ~ Faults
    PROVE  TypeOK /\ PoolInv /\ DebtInv /\ StopInv /\ [Next]_vars => StopInv'
<1> SUFFICES ASSUME TypeOK, PoolInv, DebtInv, StopInv, [Next]_vars
             PROVE  StopInv'
  OBVIOUS
<1>1. CASE \E p \in Projects : Environment(p)
  BY <1>1, MoveStop DEF Environment, ProjectRegister, ProjectRemove, WatchOn,
                        WatchOff, Produce
<1>2. CASE DrainTick BY <1>2, MoveStop DEF DrainTick
<1>3. CASE LoopStep
  <2>1. ASSUME NEW p \in Projects, RouteWatcherEvents(p) PROVE StopInv'
    BY <2>1, MoveStop DEF RouteWatcherEvents
  <2>2. ASSUME NEW l \in Lanes, CollectApplyJob(l) PROVE StopInv'
    BY <2>2, MoveStop DEF CollectApplyJob
  <2>3. CASE Routed \/ Collected \/ Dispatched \/ NothingOwed \/ Select
    BY <2>3, MoveStop DEF Routed, Collected, Dispatched, NothingOwed, Select
  <2> QED BY <1>3, <2>1, <2>2, <2>3, DispatchStop, OwedStop DEF LoopStep
<1>4. CASE \E t \in tasks : JobEnds(t) \/ JoinNext(t)
  BY <1>4, EndStop, JoinStop
<1>5. CASE Leave BY <1>5, LeaveStop
<1>6. CASE UNCHANGED vars BY <1>6, MoveStop DEF vars
<1> QED BY <1>1, <1>2, <1>3, <1>4, <1>5, <1>6 DEF Next, Stopped

(***************************************************************************)
(* The two orderly ends of the run loop (run_inner) lose nothing: an idle  *)
(* exit leaves no job and no debt behind, and a graceful stop no           *)
(* unclustered project.  The first needs jobs that do not fail, the second *)
(* a permit for every project as well: a recluster that had to wait would  *)
(* be dropped with the deferred jobs, its debt no longer noted.            *)
(***************************************************************************)
THEOREM EndsInOrder ==
    ASSUME EnoughPermits, ~ Faults
    PROVE  Spec => []EndsOrderly
<1> DEFINE Inv == StopInv
<1>1. Init => Inv BY DEF Init, StopInv
<1>2. Init => TypeOK /\ PoolInv /\ DebtInv
  <2> SUFFICES ASSUME Init PROVE PoolInv /\ DebtInv BY PaidInit
  <2>1. PoolInv
    BY FS_EmptySet, PermitsAssumption DEF Init, PoolInv, PoolBounds
  <2>2. DebtInv BY DEF Init, DebtInv, Serving
  <2> QED BY <2>1, <2>2
<1>3. TypeOK /\ PoolInv /\ DebtInv /\ Inv /\ [Next]_vars =>
        (TypeOK /\ PoolInv /\ DebtInv /\ Inv)'
  BY TypeStep, PoolStep, DebtStep, StopStep
<1>4. TypeOK /\ DebtInv /\ Inv => EndsOrderly
  <2> SUFFICES ASSUME DebtInv, Inv
               PROVE  IdleExitLosesNothing /\ StopPaysDebts
    BY DEF EndsOrderly
  <2>1. IdleExitLosesNothing BY DEF DebtInv, IdleExitLosesNothing
  <2>2. StopPaysDebts
    <3>1. ASSUME loop = "stopped" PROVE unclustered = {}
      <4>1. \A p : ~ DebtHeld(p) BY <3>1 DEF StopInv, DebtHeld
      <4> QED BY <4>1 DEF StopInv
    <3> QED BY <3>1 DEF StopPaysDebts
  <2> QED BY <2>1, <2>2
<1> QED BY <1>1, <1>2, <1>3, <1>4, PTL DEF Spec

-----------------------------------------------------------------------------
(* The order of changes *)

\* Two changes of a project, the first of them sent first.
Precedes(i, j) == i.p = j.p /\ ~ Owing(i) /\ ~ Owing(j) => i.n < j.n

\* A list holds the changes of each project in the order they were sent.
Rising(jobs) ==
    \A i, k \in DOMAIN jobs : i < k => Precedes(jobs[i], jobs[k])

\* What one list holds of a project was sent before what another holds.
Ahead(jobs, later) ==
    \A i \in ToSet(jobs) : \A j \in ToSet(later) : Precedes(i, j)

\* A change has the number of one that was sent; a recluster has none.
Known(j, numbers) == IF Owing(j) THEN j.n = 0 ELSE j.n <= numbers[j.p]

\* Nothing in a list is newer than what was sent.
Sent(jobs) == \A j \in ToSet(jobs) : Known(j, produced)

\* Every list of the lane is in order.
ListsRise ==
    /\ Rising(deferred) /\ Rising(pass)
    /\ \A l \in Lanes : Rising(queue[l])
    /\ \A p \in Projects : Rising(channel[p])

\* So are the lists a change goes through, from the last to the first: the
\* channel, the queue, the pass of dispatch and the jobs it has put back.
StagesRise ==
    /\ Ahead(deferred, pass)
    /\ \A l \in Lanes : Ahead(deferred, queue[l]) /\ Ahead(pass, queue[l])
    /\ \A p \in Projects :
          /\ Ahead(deferred, channel[p]) /\ Ahead(pass, channel[p])
          /\ \A l \in Lanes : Ahead(queue[l], channel[p])

\* A channel holds jobs of its project and a lane jobs of its projects, so
\* that two lanes, or two channels, never hold changes of the same one.
InPlace ==
    /\ \A p \in Projects : \A j \in ToSet(channel[p]) : j.p = p
    /\ \A l \in Lanes : \A j \in ToSet(queue[l]) : LaneOf[j.p] = l
    /\ Sent(deferred) /\ Sent(pass)
    /\ \A l \in Lanes : Sent(queue[l])
    /\ \A p \in Projects : Sent(channel[p])

\* A job is put back only while its project, or the pool, is busy, and
\* no slot is given back before the pass is over.
PutBack ==
    /\ loop # "dispatch" => pass = <<>>
    /\ loop = "dispatch" => \A j \in ToSet(deferred) : ~ Fits(j.p)

\* The inductive invariant of the order of changes.
OrderInv == ListsRise /\ StagesRise /\ InPlace /\ PutBack

\* The empty list is in order, whatever comes before or after it.
LEMMA RisingEmpty ==
    /\ Rising(<<>>) /\ Sent(<<>>)
    /\ \A s : Ahead(s, <<>>) /\ Ahead(<<>>, s)
<1> QED BY ToSetEmpty DEF Rising, Ahead, Sent

\* A newer job may be appended.
LEMMA RisingAppend ==
    ASSUME NEW s \in Seq(Jobs), NEW e \in Jobs, Rising(s),
           \A j \in ToSet(s) : Precedes(j, e)
    PROVE  Rising(Append(s, e))
<1>1. /\ Append(s, e) \in Seq(Jobs) /\ Len(Append(s, e)) = Len(s) + 1
      /\ \A i \in 1 .. Len(s) : Append(s, e)[i] = s[i]
      /\ Append(s, e)[Len(s) + 1] = e
  BY AppendProperties
<1>2. /\ Len(s) \in Nat /\ DOMAIN s = 1 .. Len(s)
      /\ DOMAIN Append(s, e) = 1 .. Len(s) + 1
  BY <1>1, LenProperties
<1>3. ASSUME NEW i \in 1 .. Len(s) + 1, NEW k \in 1 .. Len(s) + 1, i < k
      PROVE  Precedes(Append(s, e)[i], Append(s, e)[k])
  <2>1. i \in 1 .. Len(s) BY <1>2, <1>3
  <2>2. s[i] \in ToSet(s) BY <2>1, <1>2 DEF ToSet
  <2>3. CASE k = Len(s) + 1 BY <2>1, <2>2, <2>3, <1>1
  <2>4. CASE k # Len(s) + 1
    <3>1. k \in 1 .. Len(s) BY <2>4, <1>2
    <3> QED BY <3>1, <2>1, <1>1, <1>2, <1>3 DEF Rising
  <2> QED BY <2>3, <2>4
<1> QED BY <1>2, <1>3 DEF Rising

\* The head of a list in order comes before its tail, which is in order.
LEMMA RisingTail ==
    ASSUME NEW s \in Seq(Jobs), s # <<>>, Rising(s)
    PROVE  /\ Rising(Tail(s))
           /\ \A j \in ToSet(Tail(s)) : Precedes(Head(s), j)
<1>1. /\ Head(s) = s[1] /\ Tail(s) \in Seq(Jobs)
      /\ Len(Tail(s)) = Len(s) - 1
      /\ \A i \in 1 .. Len(s) - 1 : Tail(s)[i] = s[i + 1]
  BY HeadTailProperties
<1>2. Len(s) \in Nat \ {0} /\ DOMAIN s = 1 .. Len(s)
      /\ DOMAIN Tail(s) = 1 .. Len(s) - 1
  BY <1>1, LenProperties, EmptySeq
<1>3. ASSUME NEW i \in 1 .. Len(s) - 1
      PROVE  i + 1 \in 1 .. Len(s) /\ 1 \in 1 .. Len(s) /\ 1 < i + 1
  BY <1>2
<1>4. ASSUME NEW i \in 1 .. Len(s) - 1 PROVE Precedes(Head(s), Tail(s)[i])
  BY <1>1, <1>2, <1>3 DEF Rising
<1>5. ASSUME NEW i \in 1 .. Len(s) - 1, NEW k \in 1 .. Len(s) - 1, i < k
      PROVE  Precedes(Tail(s)[i], Tail(s)[k])
  <2>1. i + 1 < k + 1 BY <1>5
  <2> QED BY <2>1, <1>1, <1>2, <1>3 DEF Rising
<1> QED BY <1>2, <1>4, <1>5 DEF Rising, ToSet

\* A list in order may be followed by one it is ahead of.
LEMMA RisingConcat ==
    ASSUME NEW s \in Seq(Jobs), NEW t \in Seq(Jobs), Rising(s), Rising(t),
           Ahead(s, t)
    PROVE  Rising(s \o t)
<1>1. /\ s \o t \in Seq(Jobs) /\ Len(s \o t) = Len(s) + Len(t)
      /\ \A i \in 1 .. Len(s) + Len(t) :
            (s \o t)[i] = IF i <= Len(s) THEN s[i] ELSE t[i - Len(s)]
  BY ConcatProperties
<1>2. /\ Len(s) \in Nat /\ DOMAIN s = 1 .. Len(s)
      /\ Len(t) \in Nat /\ DOMAIN t = 1 .. Len(t)
      /\ DOMAIN (s \o t) = 1 .. Len(s) + Len(t)
  BY <1>1, LenProperties
<1>3. ASSUME NEW i \in 1 .. Len(s) + Len(t), NEW k \in 1 .. Len(s) + Len(t),
             i < k
      PROVE  Precedes((s \o t)[i], (s \o t)[k])
  <2>1. CASE k <= Len(s)
    <3>1. i \in 1 .. Len(s) /\ k \in 1 .. Len(s) BY <2>1, <1>2, <1>3
    <3>2. (s \o t)[i] = s[i] /\ (s \o t)[k] = s[k] BY <3>1, <1>1, <1>2
    <3> QED BY <3>1, <3>2, <1>2, <1>3 DEF Rising
  <2>2. CASE i <= Len(s) /\ k > Len(s)
    <3>1. i \in 1 .. Len(s) /\ k - Len(s) \in 1 .. Len(t) BY <2>2, <1>2
    <3>2. (s \o t)[i] = s[i] /\ (s \o t)[k] = t[k - Len(s)]
      BY <2>2, <1>1, <1>2
    <3>3. s[i] \in ToSet(s) /\ t[k - Len(s)] \in ToSet(t)
      BY <3>1, <1>2 DEF ToSet
    <3> QED BY <3>2, <3>3 DEF Ahead
  <2>3. CASE i > Len(s)
    <3>1. /\ i - Len(s) \in 1 .. Len(t) /\ k - Len(s) \in 1 .. Len(t)
          /\ i - Len(s) < k - Len(s) /\ k > Len(s)
      BY <2>3, <1>2, <1>3
    <3>2. (s \o t)[i] = t[i - Len(s)] /\ (s \o t)[k] = t[k - Len(s)]
      BY <2>3, <3>1, <1>1, <1>2
    <3> QED BY <3>1, <3>2, <1>2 DEF Rising
  <2> QED BY <2>1, <2>2, <2>3, <1>2
<1> QED BY <1>2, <1>3 DEF Rising

\* Steps that move no job but may empty channels.
LEMMA ChannelOrder ==
    ASSUME TypeOK, OrderInv,
           UNCHANGED <<produced, queue, deferred, pass, inflight>>,
           \A p \in Projects : channel'[p] = channel[p] \/ channel'[p] = <<>>,
           UNCHANGED loop \/ (loop' # "dispatch" /\ pass = <<>>)
    PROVE  OrderInv'
<1>1. ListsRise'
  BY RisingEmpty DEF OrderInv, ListsRise
<1>2. StagesRise'
  BY RisingEmpty DEF OrderInv, StagesRise
<1>3. InPlace'
  BY ToSetEmpty DEF OrderInv, InPlace, Sent
<1>4. PutBack'
  BY DEF OrderInv, PutBack, Fits
<1> QED BY <1>1, <1>2, <1>3, <1>4 DEF OrderInv

\* A producer's next change is newer than all it has sent.
LEMMA ProduceOrder ==
    ASSUME TypeOK, OrderInv, ~ Endless, NEW p \in Projects, Produce(p)
    PROVE  OrderInv'
<1> DEFINE j == [p |-> p, op |-> "apply", n |-> produced[p] + 1]
<1>1. /\ UNCHANGED <<queue, deferred, pass, inflight, loop>>
      /\ produced' = [produced EXCEPT ![p] = produced[p] + 1]
      /\ produced \in [Projects -> Nat]
  BY DEF Produce, TypeOK
<1>2. produced'[p] = produced[p] + 1 /\ produced[p] \in Nat BY <1>1
<1>3. channel' = [channel EXCEPT ![p] = Append(channel[p], j)]
  BY <1>2 DEF Produce
<1>4. j \in Jobs /\ j.p = p /\ j.n = produced'[p] /\ ~ Owing(j)
  BY <1>2 DEF Jobs, Owing
<1> HIDE DEF j
<1>5. channel \in [Projects -> Seq(Jobs)] /\ channel[p] \in Seq(Jobs)
  BY DEF TypeOK
<1>6. ToSet(Append(channel[p], j)) = ToSet(channel[p]) \cup {j}
  BY <1>4, <1>5, ToSetAppend
<1>7. ASSUME NEW i \in Jobs, Known(i, produced)
      PROVE  Precedes(i, j) /\ Known(i, produced')
  <2>1. i.p \in Projects /\ i.n \in Nat BY DEF Jobs
  <2>2. produced'[i.p] >= produced[i.p] /\ produced[i.p] \in Nat
        /\ produced'[i.p] \in Nat
    BY <2>1, <1>1
  <2> QED BY <2>1, <2>2, <1>2, <1>4, <1>7 DEF Precedes, Known
<1>8. ASSUME NEW s \in Seq(Jobs), Sent(s)
      PROVE  \A i \in ToSet(s) :
                Precedes(i, j) /\ Known(i, produced')
  <2>1. \A i \in ToSet(s) : i \in Jobs BY DEF ToSet
  <2> QED BY <2>1, <1>7, <1>8 DEF Sent
<1>9. /\ deferred \in Seq(Jobs) /\ pass \in Seq(Jobs)
      /\ \A l \in Lanes : queue[l] \in Seq(Jobs)
      /\ \A q \in Projects : channel[q] \in Seq(Jobs)
  BY DEF TypeOK
<1>10. /\ Sent(deferred) /\ Sent(pass)
       /\ \A l \in Lanes : Sent(queue[l])
       /\ \A q \in Projects : Sent(channel[q])
  BY DEF OrderInv, InPlace
<1>11. \A q \in Projects : channel'[q] =
          IF q = p THEN Append(channel[p], j) ELSE channel[q]
  BY <1>3, <1>5
<1>12. ListsRise'
  <2>1. Rising(Append(channel[p], j))
    BY <1>4, <1>5, <1>8, <1>10, RisingAppend DEF OrderInv, ListsRise
  <2> QED BY <1>1, <1>11, <2>1 DEF OrderInv, ListsRise
<1>13. StagesRise'
  <2>1. ASSUME NEW s \in Seq(Jobs), Sent(s), Ahead(s, channel[p])
        PROVE  Ahead(s, Append(channel[p], j))
    BY <2>1, <1>6, <1>8 DEF Ahead
  <2>2. ASSUME NEW q \in Projects
        PROVE  /\ Ahead(deferred, channel'[q]) /\ Ahead(pass, channel'[q])
               /\ \A l \in Lanes : Ahead(queue[l], channel'[q])
    BY <2>1, <1>9, <1>10, <1>11 DEF OrderInv, StagesRise
  <2> QED BY <1>1, <2>2 DEF OrderInv, StagesRise
<1>14. InPlace'
  <2>1. \A i \in ToSet(Append(channel[p], j)) : i.p = p
    BY <1>4, <1>6 DEF OrderInv, InPlace
  <2>2. \A i \in ToSet(Append(channel[p], j)) :
           Known(i, produced')
    <3>1. \A i \in ToSet(channel[p]) : Known(i, produced')
      BY <1>5, <1>8, <1>10
    <3>2. Known(j, produced') BY <1>1, <1>2, <1>4 DEF Known
    <3> QED BY <3>1, <3>2, <1>6
  <2>3. ASSUME NEW q \in Projects
        PROVE  /\ \A i \in ToSet(channel'[q]) : i.p = q
               /\ \A i \in ToSet(channel'[q]) :
                    Known(i, produced')
    <3>1. CASE q = p BY <3>1, <1>11, <2>1, <2>2
    <3>2. CASE q # p
      <4>1. channel'[q] = channel[q] BY <3>2, <1>11
      <4> QED BY <4>1, <1>8, <1>9, <1>10 DEF OrderInv, InPlace
    <3> QED BY <3>1, <3>2
  <2>4. /\ \A i \in ToSet(deferred) : Known(i, produced')
        /\ \A i \in ToSet(pass) : Known(i, produced')
        /\ \A l \in Lanes : \A i \in ToSet(queue[l]) :
              Known(i, produced')
    BY <1>8, <1>9, <1>10
  <2> QED BY <1>1, <2>3, <2>4 DEF OrderInv, InPlace, Sent
<1>15. PutBack' BY <1>1 DEF OrderInv, PutBack, Fits
<1> QED BY <1>12, <1>13, <1>14, <1>15 DEF OrderInv

\* What a producer sent goes behind what its lane holds already.
LEMMA RouteOrder ==
    ASSUME TypeOK, OrderInv, NEW p \in Projects, RouteWatcherEvents(p)
    PROVE  OrderInv'
<1> DEFINE l == LaneOf[p]
           s == queue[l] \o channel[p]
<1>1. /\ l \in Lanes /\ queue \in [Lanes -> Seq(Jobs)]
      /\ channel \in [Projects -> Seq(Jobs)]
  BY LaneAssumption DEF TypeOK
<1>2. queue[l] \in Seq(Jobs) /\ channel[p] \in Seq(Jobs) BY <1>1
<1>3. /\ queue' = [queue EXCEPT ![l] = s]
      /\ channel' = [channel EXCEPT ![p] = <<>>]
      /\ UNCHANGED <<deferred, pass, produced, inflight, loop>>
  BY DEF RouteWatcherEvents
<1>4. ToSet(s) = ToSet(queue[l]) \cup ToSet(channel[p])
  BY <1>2, ToSetConcat
<1>5. Rising(s)
  BY <1>1, <1>2, RisingConcat DEF OrderInv, ListsRise, StagesRise
<1>6. \A j \in ToSet(channel[p]) : j.p = p /\ LaneOf[j.p] = l
  BY DEF OrderInv, InPlace
<1> HIDE DEF l, s
<1>7. /\ \A k \in Lanes : queue'[k] = IF k = l THEN s ELSE queue[k]
      /\ \A q \in Projects : channel'[q] = IF q = p THEN <<>> ELSE channel[q]
  BY <1>1, <1>3
<1>8. ListsRise' BY <1>3, <1>5, <1>7, RisingEmpty DEF OrderInv, ListsRise
<1>9. StagesRise'
  <2>1. ASSUME NEW k \in Lanes
        PROVE  Ahead(deferred, queue'[k]) /\ Ahead(pass, queue'[k])
    BY <1>1, <1>4, <1>7 DEF OrderInv, StagesRise, Ahead
  <2>2. ASSUME NEW q \in Projects, NEW k \in Lanes
        PROVE  Ahead(queue'[k], channel'[q])
    <3>1. CASE q = p BY <3>1, <1>7, RisingEmpty
    <3>2. CASE q # p
      <4>1. channel'[q] = channel[q] BY <3>2, <1>7
      <4>2. Ahead(queue[k], channel[q]) BY DEF OrderInv, StagesRise
      <4>3. Ahead(channel[p], channel[q])
        <5>1. \A j \in ToSet(channel[q]) : j.p = q BY DEF OrderInv, InPlace
        <5> QED BY <5>1, <3>2, <1>6 DEF Ahead, Precedes
      <4> QED BY <4>1, <4>2, <4>3, <1>4, <1>7 DEF Ahead
    <3> QED BY <3>1, <3>2
  <2>3. ASSUME NEW q \in Projects
        PROVE  Ahead(deferred, channel'[q]) /\ Ahead(pass, channel'[q])
    BY <1>7, RisingEmpty DEF OrderInv, StagesRise
  <2> QED BY <1>3, <2>1, <2>2, <2>3 DEF OrderInv, StagesRise
<1>10. InPlace'
  <2>1. \A q \in Projects : /\ \A j \in ToSet(channel'[q]) : j.p = q
                            /\ Sent(channel'[q])
    BY <1>7, RisingEmpty, ToSetEmpty DEF OrderInv, InPlace
  <2>2. \A k \in Lanes : /\ \A j \in ToSet(queue'[k]) : LaneOf[j.p] = k
                         /\ Sent(queue'[k])
    BY <1>1, <1>4, <1>6, <1>7 DEF OrderInv, InPlace, Sent
  <2> QED BY <1>3, <2>1, <2>2 DEF OrderInv, InPlace, Sent
<1>11. PutBack' BY <1>3 DEF OrderInv, PutBack, Fits
<1> QED BY <1>8, <1>9, <1>10, <1>11 DEF OrderInv

\* The job popped is the oldest its lane holds, and newer than the deferred.
LEMMA CollectOrder ==
    ASSUME TypeOK, OrderInv, NEW l \in Lanes, CollectApplyJob(l)
    PROVE  OrderInv'
<1> DEFINE j == Head(queue[l])
           rest == Tail(queue[l])
<1>1. /\ queue \in [Lanes -> Seq(Jobs)] /\ queue[l] \in Seq(Jobs)
      /\ queue[l] # <<>> /\ deferred \in Seq(Jobs)
      /\ queue' = [queue EXCEPT ![l] = rest]
      /\ deferred' = Append(deferred, j) \/ deferred' = deferred
      /\ pass = <<>> /\ loop' # "dispatch"
      /\ UNCHANGED <<channel, produced, pass>>
  BY DEF CollectApplyJob, TypeOK, OrderInv, PutBack, envVars
<1>2. /\ j \in Jobs /\ rest \in Seq(Jobs)
      /\ ToSet(queue[l]) = {j} \cup ToSet(rest)
  BY <1>1, ToSetHeadTail
<1>3. Rising(rest) /\ \A i \in ToSet(rest) : Precedes(j, i)
  BY <1>1, RisingTail DEF OrderInv, ListsRise
<1>4. LaneOf[j.p] = l /\ Known(j, produced)
  BY <1>2 DEF OrderInv, InPlace, Sent
<1> HIDE DEF j, rest
<1>5. \A k \in Lanes : queue'[k] = IF k = l THEN rest ELSE queue[k]
  BY <1>1
<1>6. ToSet(Append(deferred, j)) = ToSet(deferred) \cup {j}
  BY <1>1, <1>2, ToSetAppend
<1>7. ToSet(deferred') \subseteq ToSet(deferred) \cup {j} BY <1>1, <1>6
<1>8. ListsRise'
  <2>1. \A i \in ToSet(deferred) : Precedes(i, j)
    BY <1>2 DEF OrderInv, StagesRise, Ahead
  <2>2. Rising(deferred')
    BY <1>1, <1>2, <2>1, RisingAppend DEF OrderInv, ListsRise
  <2> QED BY <1>1, <1>3, <1>5, <2>2 DEF OrderInv, ListsRise
<1>9. StagesRise'
  <2>1. ASSUME NEW k \in Lanes
        PROVE  Ahead(deferred', queue'[k]) /\ Ahead(pass, queue'[k])
    <3>1. ToSet(queue'[k]) \subseteq ToSet(queue[k]) BY <1>2, <1>5
    <3>2. \A i \in ToSet(queue'[k]) : Precedes(j, i)
      <4>1. CASE k = l BY <4>1, <1>3, <1>5
      <4>2. CASE k # l
        <5>1. \A i \in ToSet(queue'[k]) : LaneOf[i.p] = k
          BY <3>1 DEF OrderInv, InPlace
        <5> QED BY <5>1, <4>2, <1>4 DEF Precedes
      <4> QED BY <4>1, <4>2
    <3> QED BY <3>1, <3>2, <1>7 DEF OrderInv, StagesRise, Ahead
  <2>2. ASSUME NEW q \in Projects
        PROVE  /\ Ahead(deferred', channel[q]) /\ Ahead(pass, channel[q])
               /\ \A k \in Lanes : Ahead(queue'[k], channel[q])
    BY <1>2, <1>5, <1>7 DEF OrderInv, StagesRise, Ahead
  <2>3. Ahead(deferred', pass) BY <1>1, RisingEmpty
  <2> QED BY <1>1, <2>1, <2>2, <2>3 DEF StagesRise
<1>10. InPlace'
  <2>1. Sent(deferred') BY <1>4, <1>7 DEF OrderInv, InPlace, Sent
  <2>2. \A k \in Lanes : /\ \A i \in ToSet(queue'[k]) : LaneOf[i.p] = k
                         /\ Sent(queue'[k])
    BY <1>2, <1>5 DEF OrderInv, InPlace, Sent
  <2> QED BY <1>1, <2>1, <2>2 DEF OrderInv, InPlace, Sent
<1>11. PutBack' BY <1>1 DEF PutBack
<1> QED BY <1>8, <1>9, <1>10, <1>11 DEF OrderInv

\* The deferred jobs become the pass.
LEMMA PassOrder ==
    ASSUME TypeOK, OrderInv,
           pass' = deferred, deferred' = <<>>,
           loop # "dispatch", loop' = "dispatch",
           UNCHANGED <<queue, channel, produced>>
    PROVE  OrderInv'
<1>1. ListsRise' BY RisingEmpty DEF OrderInv, ListsRise
<1>2. StagesRise' BY RisingEmpty DEF OrderInv, StagesRise
<1>3. InPlace' BY RisingEmpty DEF OrderInv, InPlace, Sent
<1>4. PutBack' BY ToSetEmpty DEF PutBack
<1> QED BY <1>1, <1>2, <1>3, <1>4 DEF OrderInv

\* A job that does not fit goes behind those put back before it.
LEMMA DispatchOrder ==
    ASSUME TypeOK, PoolInv, OrderInv, DispatchJob
    PROVE  OrderInv'
<1>0. PICK j : j = Head(pass) OBVIOUS
<1>1. /\ pass \in Seq(Jobs) /\ pass # <<>> /\ pass' = Tail(pass)
      /\ deferred \in Seq(Jobs)
      /\ loop = "dispatch" /\ loop' = loop
      /\ UNCHANGED <<queue, channel, produced>>
      /\ IF Fits(j.p) THEN Spawn(j) ELSE Defer(j)
  BY <1>0 DEF DispatchJob, TypeOK, envVars
<1>2. /\ j \in Jobs /\ Tail(pass) \in Seq(Jobs)
      /\ ToSet(pass) = {j} \cup ToSet(pass')
  BY <1>0, <1>1, ToSetHeadTail
<1>3. Rising(pass') /\ \A i \in ToSet(pass') : Precedes(j, i)
  BY <1>0, <1>1, RisingTail DEF OrderInv, ListsRise
<1>4. ToSet(Append(deferred, j)) = ToSet(deferred) \cup {j}
  BY <1>1, <1>2, ToSetAppend
<1>5. deferred' = Append(deferred, j) \/ deferred' = deferred
  BY <1>1 DEF Spawn, Defer
<1>6. ToSet(deferred') \subseteq ToSet(deferred) \cup {j} BY <1>4, <1>5
<1>7. ListsRise'
  <2>1. \A i \in ToSet(deferred) : Precedes(i, j)
    BY <1>2 DEF OrderInv, StagesRise, Ahead
  <2>2. Rising(deferred')
    BY <1>1, <1>2, <1>5, <2>1, RisingAppend DEF OrderInv, ListsRise
  <2> QED BY <1>1, <1>3, <2>2 DEF OrderInv, ListsRise
<1>8. StagesRise'
  <2>1. Ahead(deferred', pass')
    BY <1>2, <1>3, <1>6 DEF OrderInv, StagesRise, Ahead
  <2>2. ASSUME NEW s, Ahead(deferred, s), Ahead(pass, s)
        PROVE  Ahead(deferred', s) /\ Ahead(pass', s)
    BY <2>2, <1>2, <1>6 DEF Ahead
  <2>3. \A k \in Lanes : Ahead(deferred', queue[k]) /\ Ahead(pass', queue[k])
    BY <2>2 DEF OrderInv, StagesRise
  <2>4. \A q \in Projects :
           Ahead(deferred', channel[q]) /\ Ahead(pass', channel[q])
    BY <2>2 DEF OrderInv, StagesRise
  <2> QED BY <1>1, <2>1, <2>3, <2>4 DEF OrderInv, StagesRise
<1>9. InPlace' BY <1>1, <1>2, <1>6 DEF OrderInv, InPlace, Sent
<1>10. PutBack'
  <2>1. ASSUME NEW q, ~ Fits(q) PROVE ~ Fits(q)'
    <3>1. CASE ~ Fits(j.p) BY <2>1, <3>1, <1>1 DEF Defer, Fits
    <3>2. CASE Fits(j.p)
      <4>1. inflight' = inflight \cup {j.p} /\ j.p \notin inflight
        BY <3>2, <1>1 DEF Spawn, Fits
      <4>2. /\ Cardinality(inflight') = Cardinality(inflight) + 1
            /\ Cardinality(inflight) \in Nat
        BY <4>1, FS_AddElement, FS_CardinalityType DEF PoolInv
      <4> QED BY <2>1, <4>1, <4>2, PermitsAssumption DEF Fits
    <3> QED BY <3>1, <3>2
  <2>2. \A i \in ToSet(deferred) : ~ Fits(i.p)'
    BY <2>1, <1>1 DEF OrderInv, PutBack
  <2>3. CASE Fits(j.p)
    <3>1. deferred' = deferred BY <2>3, <1>1 DEF Spawn
    <3> QED BY <3>1, <2>2, <1>1 DEF PutBack
  <2>4. CASE ~ Fits(j.p)
    <3>1. ~ Fits(j.p)' BY <2>1, <2>4
    <3> QED BY <3>1, <2>2, <1>1, <1>6 DEF PutBack
  <2> QED BY <2>3, <2>4
<1> QED BY <1>7, <1>8, <1>9, <1>10 DEF OrderInv

\* A recluster that is put back stands in the way of no change.
LEMMA OwedOrder ==
    ASSUME TypeOK, OrderInv, NEW p \in Projects, OwedRecluster(p)
    PROVE  OrderInv'
<1> DEFINE j == Recluster(p)
<1>1. j \in Jobs /\ Owing(j) /\ j.n = 0 BY DEF Recluster, Jobs, Owing
<1>2. /\ loop = "owed" /\ UNCHANGED <<pass, queue, channel, produced, loop>>
      /\ deferred' = Append(deferred, j) \/ deferred' = deferred
      /\ deferred \in Seq(Jobs)
  BY DEF OwedRecluster, Spawn, Defer, envVars, TypeOK
<1> HIDE DEF j
<1>3. ToSet(Append(deferred, j)) = ToSet(deferred) \cup {j}
  BY <1>1, <1>2, ToSetAppend
<1>4. ToSet(deferred') \subseteq ToSet(deferred) \cup {j} BY <1>2, <1>3
<1>5. \A i : Precedes(i, j) /\ Precedes(j, i) BY <1>1 DEF Precedes
<1>6. Rising(deferred')
  BY <1>1, <1>2, <1>5, RisingAppend DEF OrderInv, ListsRise
<1>7. \A s : Ahead(deferred, s) => Ahead(deferred', s)
  BY <1>4, <1>5 DEF Ahead
<1>8. ListsRise' BY <1>2, <1>6 DEF OrderInv, ListsRise
<1>9. StagesRise' BY <1>2, <1>7 DEF OrderInv, StagesRise
<1>10. InPlace' BY <1>1, <1>2, <1>4 DEF OrderInv, InPlace, Sent, Known
<1>11. PutBack' BY <1>2 DEF OrderInv, PutBack
<1> QED BY <1>8, <1>9, <1>10, <1>11 DEF OrderInv

\* Every step keeps the order of the changes.
LEMMA OrderStep ==
    ASSUME ~ Endless
    PROVE  TypeOK /\ PoolInv /\ OrderInv /\ [Next]_vars => OrderInv'
<1> SUFFICES ASSUME TypeOK, PoolInv, OrderInv, [Next]_vars PROVE OrderInv'
  OBVIOUS
<1>0. channel \in [Projects -> Seq(Jobs)] BY DEF TypeOK
<1>1. CASE \E p \in Projects : Environment(p)
  <2>1. ASSUME NEW p \in Projects,
               ProjectRegister(p) \/ ProjectRemove(p) \/ WatchOn(p)
                 \/ WatchOff(p)
        PROVE  OrderInv'
    <3>1. channel' = channel \/ channel' = [channel EXCEPT ![p] = <<>>]
      BY <2>1 DEF ProjectRegister, ProjectRemove, WatchOn, WatchOff
    <3>2. \A q \in Projects : channel'[q] = channel[q] \/ channel'[q] = <<>>
      BY <1>0, <3>1
    <3>3. UNCHANGED <<produced, queue, deferred, pass, inflight, loop>>
      BY <2>1 DEF ProjectRegister, ProjectRemove, WatchOn, WatchOff
    <3> QED BY <3>2, <3>3, ChannelOrder
  <2> QED BY <1>1, <2>1, ProduceOrder DEF Environment
<1>2. CASE DrainTick
  BY <1>2, ChannelOrder DEF DrainTick, envVars, OrderInv, PutBack
<1>3. CASE LoopStep
  <2>1. CASE Collected
    BY <2>1, PassOrder DEF Collected, envVars
  <2>2. CASE Routed \/ Dispatched \/ NothingOwed \/ Select
    <3>1. /\ UNCHANGED <<produced, queue, deferred, pass, inflight, channel>>
          /\ loop' # "dispatch" /\ pass = <<>>
      BY <2>2 DEF Routed, Dispatched, NothingOwed, Select, envVars, OrderInv,
                  PutBack
    <3> QED BY <3>1, ChannelOrder
  <2> QED
    BY <1>3, <2>1, <2>2, RouteOrder, CollectOrder, DispatchOrder, OwedOrder
    DEF LoopStep
<1>4. CASE \E t \in tasks : JobEnds(t) \/ JoinNext(t)
  <2>1. ASSUME NEW t \in tasks, JobEnds(t) PROVE OrderInv'
    BY <2>1, ChannelOrder DEF JobEnds, envVars
  <2>2. ASSUME NEW t \in tasks, JoinNext(t) PROVE OrderInv'
    <3>1. CASE loop = "select"
      BY <2>2, <3>1, PassOrder DEF JoinNext, envVars
    <3>2. CASE loop = "drain"
      <4>1. loop' = "drain" /\ UNCHANGED <<pass, deferred, queue, channel, produced>>
        BY <2>2, <3>2 DEF JoinNext, envVars
      <4> QED BY <3>2, <4>1 DEF OrderInv, ListsRise, StagesRise, InPlace, Sent,
                                PutBack
    <3> QED BY <2>2, <3>1, <3>2 DEF JoinNext
  <2> QED BY <1>4, <2>1, <2>2
<1>5. CASE Leave
  <2>1. CASE DropDeferred
    <3>1. /\ deferred' = <<>> /\ loop' = "reclusters" /\ loop = "drain"
          /\ UNCHANGED <<produced, queue, pass, channel>>
      BY <2>1 DEF DropDeferred, envVars
    <3>2. ListsRise' BY <3>1, RisingEmpty DEF OrderInv, ListsRise
    <3>3. StagesRise' BY <3>1, RisingEmpty DEF OrderInv, StagesRise
    <3>4. InPlace' BY <3>1, RisingEmpty DEF OrderInv, InPlace, Sent
    <3>5. PutBack' BY <3>1 DEF OrderInv, PutBack
    <3> QED BY <3>2, <3>3, <3>4, <3>5 DEF OrderInv
  <2>2. CASE IdleExit \/ ShutdownSignal \/ Teardown
    <3>1. /\ UNCHANGED <<produced, queue, deferred, pass, inflight>>
          /\ \A p \in Projects : channel'[p] = channel[p] \/ channel'[p] = <<>>
          /\ loop' # "dispatch" /\ pass = <<>>
      BY <2>2 DEF IdleExit, ShutdownSignal, Teardown, envVars, OrderInv, PutBack
    <3> QED BY <3>1, ChannelOrder
  <2>3. ASSUME NEW p \in Projects, FinalRecluster(p) PROVE OrderInv'
    BY <2>3, ChannelOrder DEF FinalRecluster, envVars
  <2> QED BY <1>5, <2>1, <2>2, <2>3 DEF Leave
<1>6. CASE UNCHANGED vars BY <1>6, ChannelOrder DEF vars, envVars
<1> QED BY <1>1, <1>2, <1>3, <1>4, <1>5, <1>6 DEF Next, Stopped

\* At the start every list is empty.
LEMMA OrderInit == Init => OrderInv
<1> SUFFICES ASSUME Init PROVE OrderInv OBVIOUS
<1>1. ListsRise BY RisingEmpty DEF Init, ListsRise
<1>2. StagesRise BY RisingEmpty DEF Init, StagesRise
<1>3. InPlace BY RisingEmpty, ToSetEmpty DEF Init, InPlace
<1>4. PutBack BY ToSetEmpty DEF Init, PutBack
<1> QED BY <1>1, <1>2, <1>3, <1>4 DEF OrderInv

-----------------------------------------------------------------------------
(* The lane seen from outside *)

\* The changes of p that wait, in whatever list.
WaitsIn(p) ==
    {j \in ToSet(deferred) \cup ToSet(pass) \cup ToSet(channel[p])
             \cup UNION {ToSet(queue[l]) : l \in Lanes} :
        j.p = p /\ j.op = "apply"}

\* What is on its way for a project, list by list.
LEMMA PendingLists ==
    ASSUME TypeOK, NEW p \in Projects
    PROVE  Pending(p) =
             {j \in ToSet(deferred) \cup ToSet(pass) \cup ToSet(queue["manual"])
                      \cup ToSet(queue["git"]) \cup ToSet(queue["fs"])
                      \cup ToSet(channel[p]) : j.p = p}
<1> DEFINE v == deferred \o pass
           w == v \o queue["manual"]
           x == w \o queue["git"]
           y == x \o queue["fs"]
           z == y \o channel[p]
<1>0. /\ deferred \in Seq(Jobs) /\ pass \in Seq(Jobs)
      /\ channel[p] \in Seq(Jobs)
      /\ queue["manual"] \in Seq(Jobs) /\ queue["git"] \in Seq(Jobs)
      /\ queue["fs"] \in Seq(Jobs)
  BY DEF TypeOK, Lanes
<1>1. Pending(p) = Of(z, p) BY DEF Pending
<1>2. v \in Seq(Jobs) /\ ToSet(v) = ToSet(deferred) \cup ToSet(pass)
  BY <1>0, ToSetConcat
<1> HIDE DEF v
<1>3. w \in Seq(Jobs) /\ ToSet(w) = ToSet(v) \cup ToSet(queue["manual"])
  BY <1>0, <1>2, ToSetConcat
<1> HIDE DEF w
<1>4. x \in Seq(Jobs) /\ ToSet(x) = ToSet(w) \cup ToSet(queue["git"])
  BY <1>0, <1>3, ToSetConcat
<1> HIDE DEF x
<1>5. y \in Seq(Jobs) /\ ToSet(y) = ToSet(x) \cup ToSet(queue["fs"])
  BY <1>0, <1>4, ToSetConcat
<1> HIDE DEF y
<1>6. ToSet(z) = ToSet(y) \cup ToSet(channel[p])
  BY <1>0, <1>5, ToSetConcat
<1> HIDE DEF z
<1> QED BY <1>1, <1>2, <1>3, <1>4, <1>5, <1>6 DEF Of

\* What the lane awaits of a project, list by list.
LEMMA AwaitedNow ==
    TypeOK => Awaited = [p \in Projects |-> {j.n : j \in WaitsIn(p)}]
<1> SUFFICES ASSUME TypeOK, NEW p \in Projects
             PROVE  {k \in Pending(p) : k.op = "apply"} = WaitsIn(p)
  BY DEF Awaited
<1>1. UNION {ToSet(queue[l]) : l \in Lanes} =
        ToSet(queue["manual"]) \cup ToSet(queue["git"]) \cup ToSet(queue["fs"])
  BY DEF Lanes
<1> QED BY <1>1, PendingLists DEF WaitsIn

\* So it is after every step.
LEMMA AwaitedThen ==
    TypeOK' => Awaited' = [p \in Projects |-> {j.n : j \in WaitsIn(p)'}]
<1>1. TypeOK' => (Awaited = [p \in Projects |-> {j.n : j \in WaitsIn(p)}])'
  BY AwaitedNow, PTL
<1> QED BY <1>1

\* Jobs that go from list to list are awaited as before.
LEMMA AwaitedSame ==
    ASSUME TypeOK, TypeOK', \A p \in Projects : WaitsIn(p)' = WaitsIn(p)
    PROVE  Awaited' = Awaited
BY AwaitedNow, AwaitedThen

\* Jobs that are dropped are awaited no more, and no others take their place.
LEMMA AwaitedShrinks ==
    ASSUME TypeOK, TypeOK', NEW p \in Projects, WaitsIn(p)' \subseteq WaitsIn(p)
    PROVE  /\ Awaited'[p] \subseteq Awaited[p]
           /\ WaitsIn(p)' = WaitsIn(p) => Awaited'[p] = Awaited[p]
<1>1. /\ Awaited[p] = {j.n : j \in WaitsIn(p)}
      /\ Awaited'[p] = {j.n : j \in WaitsIn(p)'}
  BY AwaitedNow, AwaitedThen
<1> QED BY <1>1

\* Something runs for the projects that are in flight, and for no other.
LEMMA AppliedBusy ==
    ASSUME TypeOK, PoolBounds
    PROVE  {q \in Projects : Applied[q] # {}} = inflight
<1>1. ASSUME NEW q \in Projects PROVE Applied[q] # {} <=> q \in inflight
  <2>1. Applied[q] = {t.job.n : t \in {u \in tasks : u.job.p = q}}
    BY DEF Applied
  <2>2. CASE q \in inflight
    <3>1. PICK t \in tasks : t.job.p = q BY <2>2 DEF PoolBounds
    <3> QED BY <3>1, <2>1, <2>2
  <2>3. CASE q \notin inflight
    <3>1. {u \in tasks : u.job.p = q} = {} BY <2>3 DEF PoolBounds
    <3> QED BY <3>1, <2>1, <2>3
  <2> QED BY <2>2, <2>3
<1> QED BY <1>1 DEF TypeOK

\* A spawned job is what runs for its project.
LEMMA AppliedSpawn ==
    ASSUME TypeOK, PoolBounds, NEW j \in Jobs, Fits(j.p), Spawn(j)
    PROVE  /\ Applied' = [Applied EXCEPT ![j.p] = {j.n}]
           /\ Applied[j.p] = {}
<1> DEFINE v == [job |-> j, res |-> "running"]
<1>1. tasks' = tasks \cup {v} /\ v.job = j BY DEF Spawn
<1> HIDE DEF v
<1>2. j.p \in Projects BY DEF Jobs
<1>3. {u \in tasks : u.job.p = j.p} = {} BY DEF Fits, PoolBounds
<1>4. ASSUME NEW q \in Projects
      PROVE  {u \in tasks' : u.job.p = q} =
               IF q = j.p THEN {v} ELSE {u \in tasks : u.job.p = q}
  BY <1>1, <1>3
<1>5. \A q \in Projects :
         {t.job.n : t \in {u \in tasks' : u.job.p = q}} =
           IF q = j.p THEN {j.n}
           ELSE {t.job.n : t \in {u \in tasks : u.job.p = q}}
  BY <1>1, <1>4
<1> QED BY <1>2, <1>3, <1>5 DEF Applied

\* What has ended stays in its slot; a slot given back is empty.
LEMMA AppliedEnds ==
    ASSUME TypeOK, PoolBounds, NEW t \in tasks
    PROVE  /\ JobEnds(t) => Applied' = Applied
           /\ JoinNext(t) => /\ Applied' = [Applied EXCEPT ![t.job.p] = {}]
                             /\ Applied[t.job.p] # {}
                             /\ t.job.p \in Projects
<1>1. t.job.p \in Projects BY DEF TypeOK, Jobs
<1>2. ASSUME JobEnds(t) PROVE Applied' = Applied
  <2>1. PICK res \in Results \ {"running"} :
           tasks' = (tasks \ {t}) \cup {[t EXCEPT !.res = res]}
    BY <1>2, JobEndsShape
  <2> DEFINE u == [t EXCEPT !.res = res]
  <2>2. u.job = t.job BY EndedJob DEF TypeOK
  <2>3. tasks' = (tasks \ {t}) \cup {u} BY <2>1
  <2> HIDE DEF u
  <2>4. ASSUME NEW q \in Projects
        PROVE  {v.job.n : v \in {w \in tasks' : w.job.p = q}} =
                 {v.job.n : v \in {w \in tasks : w.job.p = q}}
    BY <2>2, <2>3
  <2> QED BY <2>4 DEF Applied
<1>3. ASSUME JoinNext(t)
      PROVE  /\ Applied' = [Applied EXCEPT ![t.job.p] = {}]
             /\ Applied[t.job.p] # {}
  <2>1. tasks' = tasks \ {t} BY <1>3 DEF JoinNext
  <2>2. ASSUME NEW q \in Projects
        PROVE  {v.job.n : v \in {w \in tasks' : w.job.p = q}} =
                 IF q = t.job.p THEN {}
                 ELSE {v.job.n : v \in {w \in tasks : w.job.p = q}}
    <3>1. {w \in tasks' : w.job.p = q} =
            IF q = t.job.p THEN {} ELSE {w \in tasks : w.job.p = q}
      BY <2>1 DEF PoolBounds
    <3> QED BY <3>1
  <2>3. t.job.n \in {v.job.n : v \in {w \in tasks : w.job.p = t.job.p}}
    OBVIOUS
  <2> QED BY <1>1, <2>2, <2>3 DEF Applied
<1> QED BY <1>1, <1>2, <1>3

-----------------------------------------------------------------------------
(* Every step of the lane is a step of its promise, or none *)

\* A producer's event is a change sent.
LEMMA ProduceSends ==
    ASSUME TypeOK, TypeOK', ~ Endless, NEW p \in Projects, Produce(p)
    PROVE  Promise!Send(p)
<1> DEFINE j == [p |-> p, op |-> "apply", n |-> produced'[p]]
<1>1. /\ p \in watching /\ produced' = [produced EXCEPT ![p] = @ + 1]
      /\ channel' = [channel EXCEPT ![p] = Append(@, j)]
      /\ UNCHANGED <<watching, queue, deferred, pass, tasks, loop>>
  BY DEF Produce
<1>2. produced'[p] \in Nat BY DEF TypeOK
<1>3. j \in Jobs /\ j.p = p /\ j.op = "apply" /\ j.n = produced'[p]
  BY <1>2 DEF Jobs
<1> HIDE DEF j
<1>4. channel \in [Projects -> Seq(Jobs)] /\ channel[p] \in Seq(Jobs)
  BY DEF TypeOK
<1>5. ToSet(Append(channel[p], j)) = ToSet(channel[p]) \cup {j}
  BY <1>3, <1>4, ToSetAppend
<1>6. ASSUME NEW q \in Projects
      PROVE  ToSet(channel'[q]) =
               IF q = p THEN ToSet(channel[p]) \cup {j} ELSE ToSet(channel[q])
  BY <1>1, <1>4, <1>5
<1>7. ASSUME NEW q \in Projects
      PROVE  WaitsIn(q)' = IF q = p THEN WaitsIn(p) \cup {j} ELSE WaitsIn(q)
  BY <1>1, <1>3, <1>6 DEF WaitsIn
<1>8. /\ \A q \in Projects : Awaited[q] = {i.n : i \in WaitsIn(q)}
      /\ Awaited' = [q \in Projects |-> {i.n : i \in WaitsIn(q)'}]
      /\ Awaited = [q \in Projects |-> {i.n : i \in WaitsIn(q)}]
  BY AwaitedNow, AwaitedThen
<1>9. ASSUME NEW q \in Projects
      PROVE  {i.n : i \in WaitsIn(q)'} =
               IF q = p THEN Awaited[p] \cup {produced'[p]} ELSE Awaited[q]
  BY <1>3, <1>7, <1>8
<1>10. Awaited' = [Awaited EXCEPT ![p] = @ \cup {produced'[p]}]
  BY <1>8, <1>9
<1>11. Applied' = Applied BY <1>1 DEF Applied
<1> QED BY <1>1, <1>10, <1>11 DEF Promise!Send, Serving

\* A removed project, or one in manual mode, gives up what its producer holds.
LEMMA RemoveGivesUp ==
    ASSUME TypeOK, TypeOK', OrderInv, NEW p \in Projects,
           ProjectRemove(p) \/ WatchOff(p)
    PROVE  Promise!Unwatch
<1>1. /\ watching' = watching \ {p}
      /\ channel' = [channel EXCEPT ![p] = <<>>]
      /\ UNCHANGED <<produced, queue, deferred, pass, tasks, loop>>
  BY DEF ProjectRemove, WatchOff
<1>2. \A q \in Projects :
         channel'[q] = IF q = p THEN <<>> ELSE channel[q]
  BY <1>1 DEF TypeOK
<1>3. \A q \in Projects : WaitsIn(q)' \subseteq WaitsIn(q)
  BY <1>1, <1>2, ToSetEmpty DEF WaitsIn
<1>4. \A q \in Projects \ {p} : WaitsIn(q)' = WaitsIn(q)
  BY <1>1, <1>2 DEF WaitsIn
<1>5. Applied' = Applied BY <1>1 DEF Applied
<1>6. watching' \subseteq Projects \ {p} BY <1>1 DEF TypeOK
<1>7. \A q \in Projects : Awaited'[q] \subseteq Awaited[q]
  BY <1>3, AwaitedShrinks
<1>8. \A q \in watching' : Awaited'[q] = Awaited[q]
  BY <1>3, <1>4, <1>6, AwaitedShrinks
<1> QED BY <1>1, <1>5, <1>7, <1>8 DEF Promise!Unwatch, Serving

\* A change is collected with its order, or dropped with its project.
LEMMA CollectGivesUp ==
    ASSUME TypeOK, TypeOK', NEW l \in Lanes, CollectApplyJob(l)
    PROVE  Promise!Unwatch
<1> DEFINE j == Head(queue[l])
           rest == Tail(queue[l])
<1>1. /\ queue \in [Lanes -> Seq(Jobs)] /\ queue[l] \in Seq(Jobs)
      /\ queue[l] # <<>> /\ deferred \in Seq(Jobs)
      /\ queue' = [queue EXCEPT ![l] = rest]
      /\ deferred' = IF j.p \in registered THEN Append(deferred, j) ELSE deferred
      /\ loop \in {"routed", "collect"} /\ loop' = "collect"
      /\ UNCHANGED <<channel, produced, pass, watching, tasks>>
  BY DEF CollectApplyJob, TypeOK, envVars
<1>2. /\ j \in Jobs /\ ToSet(queue[l]) = {j} \cup ToSet(rest)
  BY <1>1, ToSetHeadTail
<1> HIDE DEF j, rest
<1>3. \A k \in Lanes : queue'[k] = IF k = l THEN rest ELSE queue[k]
  BY <1>1
<1>4. ToSet(Append(deferred, j)) = ToSet(deferred) \cup {j}
  BY <1>1, <1>2, ToSetAppend
<1> DEFINE Q == UNION {ToSet(queue[k]) : k \in Lanes}
           R == UNION {ToSet(queue'[k]) : k \in Lanes}
<1>5. R \subseteq Q /\ Q \subseteq R \cup {j} /\ j \in Q
  BY <1>2, <1>3
<1>6. \A q \in Projects : WaitsIn(q)' =
         {i \in ToSet(deferred') \cup ToSet(pass) \cup ToSet(channel[q]) \cup R :
             i.p = q /\ i.op = "apply"}
  BY <1>1 DEF WaitsIn
<1>7. \A q \in Projects : WaitsIn(q) =
         {i \in ToSet(deferred) \cup ToSet(pass) \cup ToSet(channel[q]) \cup Q :
             i.p = q /\ i.op = "apply"}
  BY DEF WaitsIn
<1> HIDE DEF Q, R
<1>8. CASE j.p \in registered
  <2>1. ASSUME NEW q \in Projects PROVE WaitsIn(q)' = WaitsIn(q)
    <3>1. ToSet(deferred') = ToSet(deferred) \cup {j} BY <1>1, <1>4, <1>8
    <3>2. ToSet(deferred') \cup ToSet(pass) \cup ToSet(channel[q]) \cup R =
            ToSet(deferred) \cup ToSet(pass) \cup ToSet(channel[q]) \cup Q
      BY <3>1, <1>5
    <3> QED BY <3>2, <1>6, <1>7
  <2>2. Awaited' = Awaited BY <2>1, AwaitedSame
  <2>3. Applied' = Applied BY <1>1 DEF Applied
  <2> QED BY <1>1, <2>2, <2>3 DEF Promise!Unwatch, Serving
<1>9. CASE j.p \notin registered
  <2>1. \A q \in Projects : WaitsIn(q)' \subseteq WaitsIn(q)
    BY <1>1, <1>5, <1>6, <1>7, <1>9
  <2>2. ASSUME NEW q \in Projects \ {j.p} PROVE WaitsIn(q)' = WaitsIn(q)
    <3>1. deferred' = deferred BY <1>1, <1>9
    <3>2. \A i : i.p = q => (i \in R <=> i \in Q) BY <1>5
    <3>3. ASSUME NEW i PROVE i \in WaitsIn(q)' <=> i \in WaitsIn(q)
      BY <3>1, <3>2, <1>6, <1>7
    <3> QED BY <3>3
  <2>3. watching' \subseteq Projects \ {j.p} BY <1>1, <1>9 DEF TypeOK
  <2>4. Applied' = Applied BY <1>1 DEF Applied
  <2>5. \A q \in Projects : Awaited'[q] \subseteq Awaited[q]
    BY <2>1, AwaitedShrinks
  <2>6. \A q \in watching' : Awaited'[q] = Awaited[q]
    BY <2>1, <2>2, <2>3, AwaitedShrinks
  <2> QED BY <1>1, <2>4, <2>5, <2>6 DEF Promise!Unwatch, Serving
<1> QED BY <1>8, <1>9

\* What a tick routes is awaited as before, in another list.
LEMMA RouteKeeps ==
    ASSUME TypeOK, TypeOK', OrderInv, NEW p \in Projects, RouteWatcherEvents(p)
    PROVE  UNCHANGED Promise!vars
<1> DEFINE l == LaneOf[p]
           s == queue[l] \o channel[p]
<1>1. /\ l \in Lanes /\ queue \in [Lanes -> Seq(Jobs)]
      /\ channel \in [Projects -> Seq(Jobs)]
  BY LaneAssumption DEF TypeOK
<1>2. queue[l] \in Seq(Jobs) /\ channel[p] \in Seq(Jobs) BY <1>1
<1>3. /\ queue' = [queue EXCEPT ![l] = s]
      /\ channel' = [channel EXCEPT ![p] = <<>>]
      /\ UNCHANGED <<deferred, pass, produced, watching, tasks, loop>>
  BY DEF RouteWatcherEvents
<1>4. ToSet(s) = ToSet(queue[l]) \cup ToSet(channel[p])
  BY <1>2, ToSetConcat
<1>5. \A j \in ToSet(channel[p]) : j.p = p BY DEF OrderInv, InPlace
<1> HIDE DEF l, s
<1>6. /\ \A k \in Lanes : queue'[k] = IF k = l THEN s ELSE queue[k]
      /\ \A q \in Projects : channel'[q] = IF q = p THEN <<>> ELSE channel[q]
  BY <1>1, <1>3
<1> DEFINE Q == UNION {ToSet(queue[k]) : k \in Lanes}
           R == UNION {ToSet(queue'[k]) : k \in Lanes}
<1>7. R = Q \cup ToSet(channel[p]) BY <1>1, <1>4, <1>6
<1>8. ASSUME NEW q \in Projects PROVE WaitsIn(q)' = WaitsIn(q)
  <2>1. WaitsIn(q)' =
          {i \in ToSet(deferred) \cup ToSet(pass) \cup ToSet(channel'[q]) \cup R :
             i.p = q /\ i.op = "apply"}
    BY <1>3 DEF WaitsIn
  <2>2. WaitsIn(q) =
          {i \in ToSet(deferred) \cup ToSet(pass) \cup ToSet(channel[q]) \cup Q :
             i.p = q /\ i.op = "apply"}
    BY DEF WaitsIn
  <2> HIDE DEF Q, R
  <2>3. CASE q = p BY <2>1, <2>2, <2>3, <1>6, <1>7, ToSetEmpty
  <2>4. CASE q # p BY <2>1, <2>2, <2>4, <1>5, <1>6, <1>7
  <2> QED BY <2>3, <2>4
<1>9. Awaited' = Awaited /\ Applied' = Applied
  BY <1>3, <1>8, AwaitedSame DEF Applied
<1> QED BY <1>3, <1>9 DEF Promise!vars, Serving

\* What is neither spawned nor dropped stays awaited.
LEMMA StaysAwaited ==
    ASSUME TypeOK, TypeOK', Applied' = Applied,
           UNCHANGED <<produced, watching, Serving, queue, channel>>,
           ToSet(deferred') \cup ToSet(pass') = ToSet(deferred) \cup ToSet(pass)
    PROVE  UNCHANGED Promise!vars
<1>1. \A q \in Projects : WaitsIn(q)' = WaitsIn(q) BY DEF WaitsIn
<1> QED BY <1>1, AwaitedSame DEF Promise!vars

\* A job begins in the promise where it is spawned.
LEMMA SpawnBegins ==
    ASSUME TypeOK, PoolBounds, NEW j \in Jobs, Fits(j.p), Spawn(j), Serving,
           UNCHANGED <<produced, watching, Serving>>
    PROVE  j.p \in Projects /\ Promise!Begin(j.p, j.n)
<1>1. j.p \in Projects BY DEF Jobs
<1>2. /\ Applied' = [Applied EXCEPT ![j.p] = {j.n}]
      /\ Applied[j.p] = {}
  BY AppliedSpawn
<1>3. Cardinality({q \in Projects : Applied[q] # {}}) < Permits
  BY AppliedBusy DEF Fits
<1>4. \A S : Promise!Cardinality(S) = Cardinality(S)
  BY DEF Cardinality, Promise!Cardinality
<1> QED BY <1>1, <1>2, <1>3, <1>4 DEF Promise!Begin

(***************************************************************************)
(* The job dispatch spawns is the oldest that waits for its project: those *)
(* put back before it belong to projects that do not fit, and the rest of  *)
(* the pass, the queue and the channel hold newer ones.                    *)
(***************************************************************************)
LEMMA DispatchBegins ==
    ASSUME TypeOK, TypeOK', PoolInv, OrderInv, DispatchJob
    PROVE  \/ \E p \in Projects : Promise!BeginChange(p) \/ Promise!BeginUpkeep(p)
           \/ UNCHANGED Promise!vars
<1>0. PICK j : j = Head(pass) OBVIOUS
<1>1. /\ pass \in Seq(Jobs) /\ pass # <<>> /\ pass' = Tail(pass)
      /\ deferred \in Seq(Jobs) /\ loop = "dispatch"
      /\ UNCHANGED <<queue, channel, produced, watching, loop>>
      /\ IF Fits(j.p) THEN Spawn(j) ELSE Defer(j)
  BY <1>0 DEF DispatchJob, TypeOK, envVars
<1>2. j \in Jobs /\ ToSet(pass) = {j} \cup ToSet(pass')
  BY <1>0, <1>1, ToSetHeadTail
<1>3. \A i \in ToSet(pass') : Precedes(j, i)
  BY <1>0, <1>1, RisingTail DEF OrderInv, ListsRise
<1>4. Serving /\ UNCHANGED Serving BY <1>1 DEF Serving
<1>5. CASE ~ Fits(j.p)
  <2>1. deferred' = Append(deferred, j) /\ tasks' = tasks
    BY <1>1, <1>5 DEF Defer
  <2>2. ToSet(deferred') = ToSet(deferred) \cup {j}
    BY <1>1, <1>2, <2>1, ToSetAppend
  <2>3. Applied' = Applied BY <2>1 DEF Applied
  <2> QED BY <1>1, <1>2, <1>4, <2>2, <2>3, StaysAwaited
<1>6. CASE Fits(j.p)
  <2> DEFINE p == j.p
  <2>1. Spawn(j) /\ deferred' = deferred BY <1>1, <1>6 DEF Spawn
  <2>2. p \in Projects /\ Promise!Begin(p, j.n)
    BY <1>1, <1>2, <1>4, <1>6, <2>1, SpawnBegins DEF PoolInv
  <2>3. CASE j.op = "recluster"
    <3>1. ASSUME NEW q \in Projects PROVE WaitsIn(q)' = WaitsIn(q)
      BY <1>1, <1>2, <2>1, <2>3 DEF WaitsIn
    <3>2. Awaited' = Awaited BY <3>1, AwaitedSame
    <3>3. j.n = 0
      BY <1>2, <2>3 DEF OrderInv, InPlace, Sent, Known, Owing
    <3> QED
      BY <2>2, <3>2, <3>3 DEF Promise!BeginUpkeep, Promise!Upkeep
  <2>4. CASE j.op = "apply"
    <3>1. \A i \in ToSet(deferred) : i.p # p
      BY <1>1, <1>6 DEF OrderInv, PutBack
    <3>2. ASSUME NEW i \in WaitsIn(p)' PROVE j.n < i.n
      <4>1. i.p = p /\ ~ Owing(i) /\ ~ Owing(j) /\ i \notin ToSet(deferred)
        BY <2>4, <3>1 DEF WaitsIn, Owing
      <4>2. Precedes(j, i)
        <5>1. CASE i \in ToSet(pass') BY <5>1, <1>3
        <5>2. CASE i \in ToSet(channel[p])
          BY <5>2, <1>2, <2>2 DEF OrderInv, StagesRise, Ahead
        <5>3. CASE \E l \in Lanes : i \in ToSet(queue[l])
          BY <5>3, <1>2 DEF OrderInv, StagesRise, Ahead
        <5> QED BY <5>1, <5>2, <5>3, <4>1, <1>1, <2>1 DEF WaitsIn
      <4> QED BY <4>1, <4>2 DEF Precedes
    <3>3. ASSUME NEW q \in Projects
          PROVE  WaitsIn(q) = IF q = p THEN WaitsIn(p)' \cup {j} ELSE WaitsIn(q)'
      BY <1>1, <1>2, <2>1, <2>4 DEF WaitsIn
    <3>4. /\ \A q \in Projects : Awaited[q] = {i.n : i \in WaitsIn(q)}
          /\ Awaited' = [q \in Projects |-> {i.n : i \in WaitsIn(q)'}]
          /\ Awaited = [q \in Projects |-> {i.n : i \in WaitsIn(q)}]
      BY AwaitedNow, AwaitedThen
    <3>5. /\ Awaited[p] = {i.n : i \in WaitsIn(p)'} \cup {j.n}
          /\ \A q \in Projects \ {p} : Awaited[q] = {i.n : i \in WaitsIn(q)'}
      BY <2>2, <3>3, <3>4
    <3>6. \A i \in WaitsIn(p)' : i.n \in Nat /\ j.n \in Nat
      <4>1. \A t \in Seq(Jobs) : \A i \in ToSet(t) : i \in Jobs BY DEF ToSet
      <4>2. \A i \in WaitsIn(p)' : i \in Jobs
        BY <4>1, <2>2 DEF WaitsIn, TypeOK
      <4> QED BY <4>2, <1>2 DEF Jobs
    <3>7. j.n \notin {i.n : i \in WaitsIn(p)'} BY <3>2, <3>6
    <3>8. Awaited' = [Awaited EXCEPT ![p] = @ \ {j.n}]
      BY <2>2, <3>4, <3>5, <3>7
    <3>9. j.n \in Awaited[p] /\ \A m \in Awaited[p] : j.n <= m
      <4>1. j.n \in Nat BY <1>2 DEF Jobs
      <4> QED BY <3>2, <3>5, <3>6, <4>1
    <3> QED BY <2>2, <3>8, <3>9 DEF Promise!BeginChange
  <2> QED BY <2>3, <2>4, <1>2 DEF Jobs
<1> QED BY <1>5, <1>6

\* The loop's own job takes the project's turn, or waits unseen.
LEMMA OwedBegins ==
    ASSUME TypeOK, TypeOK', PoolInv, NEW p \in Projects, OwedRecluster(p)
    PROVE  Promise!BeginUpkeep(p) \/ UNCHANGED Promise!vars
<1>0. PICK j : j = Recluster(p) OBVIOUS
<1>1. /\ loop = "owed" /\ deferred \in Seq(Jobs)
      /\ UNCHANGED <<queue, channel, produced, watching, pass, loop>>
      /\ IF p \in registered
         THEN IF Fits(p) THEN Spawn(j) ELSE Defer(j)
         ELSE UNCHANGED <<deferred, tasks>>
  BY <1>0 DEF OwedRecluster, TypeOK, envVars
<1>2. j \in Jobs /\ j.p = p /\ j.n = 0 /\ j.op # "apply"
  BY <1>0 DEF Recluster, Jobs
<1>3. Serving /\ UNCHANGED Serving BY <1>1 DEF Serving
<1>4. CASE p \notin registered
  <2>1. Applied' = Applied BY <1>1, <1>4 DEF Applied
  <2> QED BY <1>1, <1>3, <1>4, <2>1, StaysAwaited
<1>5. CASE p \in registered /\ Fits(p)
  <2>1. Spawn(j) /\ deferred' = deferred BY <1>1, <1>5 DEF Spawn
  <2>2. Promise!Begin(p, 0)
    BY <1>1, <1>2, <1>3, <1>5, <2>1, SpawnBegins DEF PoolInv
  <2>3. \A q \in Projects : WaitsIn(q)' = WaitsIn(q)
    BY <1>1, <2>1 DEF WaitsIn
  <2>4. Awaited' = Awaited BY <2>3, AwaitedSame
  <2> QED BY <2>2, <2>4 DEF Promise!BeginUpkeep, Promise!Upkeep
<1>6. CASE p \in registered /\ ~ Fits(p)
  <2>1. deferred' = Append(deferred, j) /\ tasks' = tasks
    BY <1>1, <1>6 DEF Defer
  <2>2. ToSet(deferred') = ToSet(deferred) \cup {j}
    BY <1>1, <1>2, <2>1, ToSetAppend
  <2>3. \A q \in Projects : WaitsIn(q)' = WaitsIn(q)
    BY <1>1, <1>2, <2>2 DEF WaitsIn
  <2>4. Awaited' = Awaited /\ Applied' = Applied
    BY <2>1, <2>3, AwaitedSame DEF Applied
  <2> QED BY <1>1, <1>3, <2>4 DEF Promise!vars
<1> QED BY <1>4, <1>5, <1>6

\* A slot that is given back ends what ran; a job that has ended and still
\* holds its slot runs on, for the promise.
LEMMA JobKeeps ==
    ASSUME TypeOK, TypeOK', PoolBounds, OrderInv, NEW t \in tasks,
           JobEnds(t) \/ JoinNext(t)
    PROVE  (\E p \in Projects : Promise!End(p)) \/ UNCHANGED Promise!vars
<1>1. CASE JobEnds(t)
  <2>1. UNCHANGED <<envVars, queue, deferred, pass, loop>>
    BY <1>1 DEF JobEnds
  <2>2. UNCHANGED Serving BY <2>1 DEF Serving
  <2>3. Applied' = Applied BY <1>1, AppliedEnds
  <2> QED BY <2>1, <2>2, <2>3, StaysAwaited DEF envVars
<1>2. CASE JoinNext(t)
  <2>1. /\ loop \in {"select", "drain"} /\ pass = <<>>
        /\ UNCHANGED <<produced, watching, queue, channel>>
        /\ \/ loop = "select" /\ loop' = "dispatch"
           \/ loop' = loop
        /\ ToSet(deferred') \cup ToSet(pass') = ToSet(deferred) \cup ToSet(pass)
    BY <1>2, ToSetEmpty DEF JoinNext, envVars, OrderInv, PutBack
  <2>2. UNCHANGED Serving BY <2>1 DEF Serving
  <2>3. \A q \in Projects : WaitsIn(q)' = WaitsIn(q) BY <2>1 DEF WaitsIn
  <2>4. Awaited' = Awaited BY <2>3, AwaitedSame
  <2>5. /\ Applied' = [Applied EXCEPT ![t.job.p] = {}]
        /\ Applied[t.job.p] # {} /\ t.job.p \in Projects
    BY <1>2, AppliedEnds
  <2> QED BY <2>1, <2>2, <2>4, <2>5 DEF Promise!End
<1> QED BY <1>1, <1>2

\* The daemon stops serving, and only then drops what waits.
LEMMA LeaveGivesUp ==
    ASSUME TypeOK, TypeOK', OrderInv, Leave
    PROVE  Promise!Stop \/ Promise!GiveUp \/ UNCHANGED Promise!vars
<1>1. CASE IdleExit \/ ShutdownSignal
  <2>1. /\ loop' = "drain"
        /\ UNCHANGED <<produced, watching, queue, channel, deferred, pass, tasks>>
    BY <1>1 DEF IdleExit, ShutdownSignal, envVars
  <2>2. \A q \in Projects : WaitsIn(q)' = WaitsIn(q) BY <2>1 DEF WaitsIn
  <2>3. Awaited' = Awaited /\ Applied' = Applied
    BY <2>1, <2>2, AwaitedSame DEF Applied
  <2> QED BY <2>1, <2>3 DEF Promise!Stop, Serving
<1>2. CASE DropDeferred \/ Teardown
  <2>1. /\ ~ Serving /\ ~ Serving' /\ watching' \subseteq watching
        /\ UNCHANGED <<produced, queue, pass, tasks>>
        /\ ToSet(deferred') \subseteq ToSet(deferred)
        /\ \A q \in Projects : ToSet(channel'[q]) \subseteq ToSet(channel[q])
    BY <1>2, ToSetEmpty DEF DropDeferred, Teardown, envVars, Serving
  <2>2. \A q \in Projects : WaitsIn(q)' \subseteq WaitsIn(q)
    BY <2>1 DEF WaitsIn
  <2>3. \A q \in Projects : Awaited'[q] \subseteq Awaited[q]
    BY <2>2, AwaitedShrinks
  <2>4. Applied' = Applied BY <2>1 DEF Applied
  <2>5. Serving' = Serving BY <2>1 DEF Serving
  <2> QED BY <2>1, <2>3, <2>4, <2>5 DEF Promise!GiveUp
<1>3. ASSUME NEW p \in Projects, FinalRecluster(p)
      PROVE  UNCHANGED Promise!vars
  <2>1. UNCHANGED <<produced, watching, queue, channel, deferred, pass, tasks,
                    loop>>
    BY <1>3 DEF FinalRecluster, envVars
  <2>2. Applied' = Applied /\ Serving' = Serving
    BY <2>1 DEF Applied, Serving
  <2> QED BY <2>1, <2>2, StaysAwaited
<1> QED BY <1>1, <1>2, <1>3 DEF Leave

\* Every step of the lane is a step of its promise, or leaves it alone.
LEMMA PromiseStep ==
    ASSUME ~ Endless
    PROVE  TypeOK /\ TypeOK' /\ PoolInv /\ OrderInv /\ [Next]_vars
             => [Promise!Next]_(Promise!vars)
<1> SUFFICES ASSUME TypeOK, TypeOK', PoolInv, OrderInv, [Next]_vars
             PROVE  Promise!Next \/ UNCHANGED Promise!vars
  OBVIOUS
<1>0. CASE /\ UNCHANGED <<produced, watching, queue, channel, tasks, Serving>>
           /\ ToSet(deferred') \cup ToSet(pass') =
                ToSet(deferred) \cup ToSet(pass)
  <2>1. Applied' = Applied BY <1>0 DEF Applied
  <2> QED BY <1>0, <2>1, StaysAwaited
<1>1. CASE \E p \in Projects : Environment(p)
  <2> PICK p \in Projects : Environment(p) BY <1>1
  <2>1. CASE ProjectRegister(p)
    BY <2>1, <1>0 DEF ProjectRegister, Serving
  <2>2. CASE ProjectRemove(p) \/ WatchOff(p)
    BY <2>2, RemoveGivesUp DEF Promise!Next
  <2>3. CASE WatchOn(p)
    <3>1. /\ watching' = watching \cup {p}
          /\ UNCHANGED <<produced, queue, channel, deferred, pass, tasks, loop>>
      BY <2>3 DEF WatchOn
    <3>2. \A q \in Projects : WaitsIn(q)' = WaitsIn(q) BY <3>1 DEF WaitsIn
    <3>3. Awaited' = Awaited /\ Applied' = Applied /\ Serving' = Serving
      BY <3>1, <3>2, AwaitedSame DEF Applied, Serving
    <3>4. Promise!Watch(p) BY <3>1, <3>3 DEF Promise!Watch
    <3> QED BY <3>4 DEF Promise!Next
  <2>4. CASE Produce(p)
    BY <2>4, ProduceSends DEF Promise!Next
  <2> QED BY <2>1, <2>2, <2>3, <2>4 DEF Environment
<1>2. CASE DrainTick BY <1>2, <1>0 DEF DrainTick, envVars, Serving
<1>3. CASE LoopStep
  <2>1. CASE Collected
    <3>1. pass = <<>> BY <2>1 DEF Collected, OrderInv, PutBack
    <3> QED BY <2>1, <3>1, <1>0, ToSetEmpty DEF Collected, envVars, Serving
  <2>2. CASE Routed \/ Dispatched \/ NothingOwed \/ Select
    BY <2>2, <1>0
    DEF Routed, Dispatched, NothingOwed, Select, envVars, Serving
  <2> QED
    BY <1>3, <2>1, <2>2, RouteKeeps, CollectGivesUp, DispatchBegins, OwedBegins
    DEF LoopStep, Promise!Next
<1>4. CASE \E t \in tasks : JobEnds(t) \/ JoinNext(t)
  BY <1>4, JobKeeps DEF PoolInv, Promise!Next
<1>5. CASE Leave BY <1>5, LeaveGivesUp DEF Promise!Next
<1>6. CASE UNCHANGED vars BY <1>6, <1>0 DEF vars, envVars, Serving
<1> QED BY <1>1, <1>2, <1>3, <1>4, <1>5, <1>6 DEF Next, Stopped

(***************************************************************************)
(* The producer lane implements its promise: however the tick, the lanes,  *)
(* the deferrals, the removals and the pool's threads interleave, and      *)
(* whatever fails, the changes a project's producer sends are applied one  *)
(* at a time and in the order they were sent, never more at once than      *)
(* there are permits, and given up only for a project nobody watches or by *)
(* a daemon on its way out (scheduler.rs, "one-per-project"; priority.rs,  *)
(* "FIFO within a lane"; dispatch puts a job back behind the older ones).  *)
(***************************************************************************)
THEOREM ChangesInOrder ==
    ASSUME ~ Endless
    PROVE  Spec => AppliedInOrder
<1> DEFINE Inv == TypeOK /\ PoolInv /\ OrderInv
<1>1. Init => Inv
  <2> SUFFICES ASSUME Init PROVE PoolInv BY PaidInit, OrderInit
  <2> QED BY FS_EmptySet, PermitsAssumption DEF Init, PoolInv, PoolBounds
<1>2. Inv /\ [Next]_vars => Inv' BY TypeStep, PoolStep, OrderStep
<1>3. Init => Promise!Init
  <2> SUFFICES ASSUME Init PROVE Promise!Init OBVIOUS
  <2>1. TypeOK BY PaidInit
  <2>2. \A p \in Projects : WaitsIn(p) = {}
    BY ToSetEmpty DEF Init, WaitsIn
  <2>3. Awaited = [p \in Projects |-> {}] BY <2>1, <2>2, AwaitedNow
  <2>4. Applied = [p \in Projects |-> {}] BY DEF Init, Applied
  <2> QED BY <2>3, <2>4 DEF Init, Promise!Init, Serving
<1>4. Inv /\ Inv' /\ [Next]_vars => [Promise!Next]_(Promise!vars)
  BY PromiseStep
<1> QED BY <1>1, <1>2, <1>3, <1>4, PTL DEF Spec, AppliedInOrder, Promise!Spec

=============================================================================
