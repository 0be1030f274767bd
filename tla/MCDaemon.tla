------------------------------ MODULE MCDaemon ------------------------------
(* Instances of four machines of the daemon that share no state, in one run: *)
(* a behaviour follows the producer lane, the write-behind cadence, the life *)
(* cycle or the paging of states by applies that run one at a time.          *)
EXTENDS MCScheduler, FlushCadence, Lifecycle

CONSTANTS d1, d2, c1, c2, w, d, Free

VARIABLES part,   \* the machine this behaviour is about
          graphs, view, order, cacheDirty, disk, dirty, lock, ppc, proj, val, evicted, after, shares,
          latest, acked, phase, ptodo, pfailed, pmarker

Paging == INSTANCE FlusherSafety WITH
            Capacity <- 1, Clients <- {}, Workers <- {w}, Readers <- {}, Driver <- d,
            MaxApplies <- 2, IoFails <- FALSE,
            pc <- ppc, todo <- ptodo, failed <- pfailed, marker <- pmarker

pagingVars == <<graphs, view, order, cacheDirty, disk, dirty, lock, ppc, proj, val, evicted, after, shares,
                latest, acked, phase, ptodo, pfailed, pmarker>>

frameVars == <<part, vars, cadenceVars, lifeVars, pagingVars>>

DaemonInit == /\ part \in {"lane", "cadence", "lifecycle", "paging"}
              /\ Init /\ CadenceInit /\ LifeInit /\ Paging!Init

Lane(step) == part = "lane" /\ step /\ UNCHANGED <<part, cadenceVars, lifeVars, pagingVars>>
Cadence(step) == part = "cadence" /\ step /\ UNCHANGED <<part, vars, lifeVars, pagingVars>>
Life(step) == part = "lifecycle" /\ step /\ UNCHANGED <<part, vars, cadenceVars, pagingVars>>
Alone(step) == part = "paging" /\ step /\ UNCHANGED <<part, vars, cadenceVars, lifeVars>>

DaemonNext == Lane(Next) \/ Cadence(CadenceNext) \/ Life(LifeNext) \/ Alone(Paging!Next)

\* Time does not stop, the driver thread runs, clients go on and the kernel hands their lock around.
DaemonSpec ==
    /\ DaemonInit /\ [][DaemonNext]_frameVars
    /\ WF_frameVars(Cadence(Tick)) /\ WF_frameVars(Cadence(DriverStep))
    /\ \A c \in Clients :
          WF_frameVars(Life(ClientStep(c))) /\ SF_frameVars(Life(ClientLock(c)))

\* Type invariant, of the three machines.
DaemonTypeOK == TypeOK /\ CadenceTypeOK /\ LifeTypeOK

\* With room for one project of two and no query, an apply builds on the newest state of its project,
\* however often that state was paged out and in, and the clean marker is never written over a state
\* that an eviction took along (Flusher::state_of, flush_evicted, Daemon::shutdown).
AloneSafe == Paging!AloneSafe

\* There too, what is not on disk is resident and marked, or in the hands of the write-back, so that
\* a flush that finds its project paged out forgets nothing (Flusher::flush_locked, flush_evicted).
UnsavedIsTracked == Paging!UnsavedIsTracked
=============================================================================
