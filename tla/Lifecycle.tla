----------------------------- MODULE Lifecycle -----------------------------
(***************************************************************************)
(* The life of the daemon on one socket (filigrio-daemon, handshake.rs and *)
(* startup / startup_reconcile / teardown / shutdown of daemon.rs) and the *)
(* clients that start it (filigrio-client-core, autostart.rs): several     *)
(* processes share a lock file, a socket path and the clean-shutdown       *)
(* marker, and any of the daemons may die between two steps.               *)
(*                                                                         *)
(* A flock belongs to the inode a process has open and not to the path,    *)
(* which may have been unlinked since and created anew.  Of the projects   *)
(* this module keeps only whether a daemon holds state that is not on disk *)
(* and whether such state has been lost; module Flusher has the rest.      *)
(***************************************************************************)
EXTENDS Integers, FiniteSets

CONSTANTS
    Daemons,        \* processes of the daemon binary; an ended one may start anew
    Clients,        \* clients that start the daemon when they find none
    None,           \* no file, no owner
    MaxStarts,      \* bound: processes started
    Overlap,        \* a process may start while another one goes down
    ReconcileFails  \* the reconcile at startup may fail (it is only logged)

ASSUME DaemonsAssumption == IsFiniteSet(Daemons) /\ None \notin Daemons
ASSUME NoneAssumption == None \notin Clients /\ None \notin Nat
ASSUME BoundsAssumption == MaxStarts \in Nat /\ Overlap \in BOOLEAN
ASSUME FailsAssumption == ReconcileFails \in BOOLEAN

VARIABLES
    pc,        \* where each daemon process is
    fd,        \* the lock file it has open: an inode
    locked,    \* processes that hold the flock of their inode
    lockPath,  \* the inode the lock path names
    socket,    \* whose listener the socket path names; "stale": nobody's
    marker,    \* the clean-shutdown marker
    deep,      \* processes whose startup reconcile hashes every file
    unflushed, \* processes with resident state that is not on disk
    lost,      \* such state was lost and no deep reconcile has run since
    stuck,     \* processes that could not remove a clean marker and went on
    starts,    \* history: processes started
    client,    \* where each client is
    guard      \* holder of the clients' own lock file, which stays in place

files == <<fd, locked, lockPath, socket, marker>>
clientVars == <<client, guard>>
keptVars == <<deep, unflushed, lost, stuck>>
lifeVars == <<pc, files, keptVars, starts, clientVars>>

Handshake == {"probe", "open", "lock", "reprobe"}
Boot == {"read", "consume", "reconcile", "unstale", "bind"}
TearDown == {"release", "unlink", "unsocket", "flush", "mark", "sign"}
Inodes == 0 .. Cardinality(Daemons)

LifeInit ==
    /\ pc = [d \in Daemons |-> "off"]
    /\ fd = [d \in Daemons |-> None] /\ locked = {} /\ lockPath = None
    /\ socket = None /\ marker = "absent"
    /\ deep = {} /\ unflushed = {} /\ lost = FALSE /\ stuck = {}
    /\ starts = 0
    /\ client = [c \in Clients |-> "idle"] /\ guard = None

Moves(d, from, to) == pc[d] = from /\ pc' = [pc EXCEPT ![d] = to]

\* A connect succeeds: the path names a listener that is still open, which it
\* is until its process has gone.
Reachable == socket \in Daemons /\ pc[socket] \in {"serving"} \cup TearDown

\* The process ends, by itself or not: its files are closed and their locks go,
\* while paths stay.  What a process loses that has failed to remove a clean
\* marker is not counted: "a crash of this daemon may be mistaken for a clean
\* exit", it has logged.
Ends(d) ==
    /\ pc' = [pc EXCEPT ![d] = "off"]
    /\ fd' = [fd EXCEPT ![d] = None]
    /\ locked' = locked \ {d}
    /\ socket' = IF socket = d THEN "stale" ELSE socket
    /\ deep' = deep \ {d} /\ unflushed' = unflushed \ {d}
    /\ stuck' = stuck \ {d}
    /\ lost' = (lost \/ d \in unflushed \ stuck)
    /\ UNCHANGED lockPath

-----------------------------------------------------------------------------
(* perform_handshake *)

MayStart == Overlap \/ \A d \in Daemons : pc[d] \notin TearDown

Start(d) ==
    /\ starts < MaxStarts /\ MayStart
    /\ Moves(d, "off", "probe")
    /\ starts' = starts + 1
    /\ UNCHANGED <<files, keptVars>>

\* A daemon that answers: this process gives up.  cmd_start asks the same just
\* before the handshake does.
Probe(d) ==
    /\ pc[d] = "probe"
    /\ IF Reachable
       THEN Ends(d)
       ELSE /\ Moves(d, "probe", "open")
            /\ UNCHANGED <<fd, locked, lockPath, socket, keptVars>>
    /\ UNCHANGED <<marker, starts, clientVars>>

\* Open, and create the file if the path names none.
OpenLock(d) ==
    /\ Moves(d, "open", "lock")
    /\ \/ lockPath # None /\ UNCHANGED lockPath
       \/ /\ lockPath = None
          /\ lockPath' = CHOOSE i \in Inodes : \A e \in Daemons : fd[e] # i
    /\ fd' = [fd EXCEPT ![d] = lockPath']
    /\ UNCHANGED <<locked, socket, marker, keptVars, starts, clientVars>>

\* Mutation: somebody else's lock is no obstacle.
TryLockShared(d) ==
    /\ Moves(d, "lock", "reprobe")
    /\ locked' = locked \cup {d}
    /\ UNCHANGED <<fd, lockPath, socket, marker, keptVars, starts, clientVars>>

\* LOCK_NB: if somebody holds the lock of this inode, the process gives up.
TryLock(d) ==
    /\ pc[d] = "lock"
    /\ IF \E e \in locked : fd[e] = fd[d]
       THEN Ends(d)
       ELSE /\ Moves(d, "lock", "reprobe")
            /\ locked' = locked \cup {d}
            /\ UNCHANGED <<fd, lockPath, socket, keptVars>>
    /\ UNCHANGED <<marker, starts, clientVars>>

\* Another process may have become the daemon in the meantime.
Reprobe(d) ==
    /\ pc[d] = "reprobe"
    /\ IF Reachable
       THEN Ends(d)
       ELSE /\ Moves(d, "reprobe", "read")
            /\ UNCHANGED <<fd, locked, lockPath, socket, keptVars>>
    /\ UNCHANGED <<marker, starts, clientVars>>

-----------------------------------------------------------------------------
(* startup *)

\* Only a complete marker is a promise: anything else makes the reconcile deep.
ReadMarker(d) ==
    /\ Moves(d, "read", "consume")
    /\ deep' = IF marker = "clean" THEN deep ELSE deep \cup {d}
    /\ UNCHANGED <<files, unflushed, lost, stuck, starts, clientVars>>

\* Before a single project is reconciled.  The file system can refuse to remove
\* the marker, which is logged and no obstacle; only a clean one then lies.
ConsumeMarker(d) ==
    /\ Moves(d, "consume", "reconcile")
    /\ \/ marker' = "absent" /\ UNCHANGED stuck
       \/ /\ marker # "absent" /\ UNCHANGED marker
          /\ stuck' = IF marker = "clean" THEN stuck \cup {d} ELSE stuck
    /\ UNCHANGED <<fd, locked, lockPath, socket, deep, unflushed, lost, starts,
                   clientVars>>

\* startup_reconcile writes through; a deep one finds whatever was lost.  A
\* project whose reconcile fails is logged and served as it is.
Reconcile(d) ==
    /\ Moves(d, "reconcile", "unstale")
    /\ \/ lost' = (lost /\ d \notin deep)
       \/ ReconcileFails /\ UNCHANGED lost
    /\ UNCHANGED <<files, deep, unflushed, stuck, starts, clientVars>>

RemoveStaleSocket(d) ==
    /\ Moves(d, "unstale", "bind")
    /\ socket' = None
    /\ UNCHANGED <<fd, locked, lockPath, marker, keptVars, starts, clientVars>>

\* A path that exists cannot be bound: startup fails and the process ends.
Bind(d) ==
    /\ pc[d] = "bind"
    /\ IF socket = None
       THEN /\ Moves(d, "bind", "serving") /\ socket' = d
            /\ UNCHANGED <<fd, locked, lockPath, keptVars>>
       ELSE Ends(d)
    /\ UNCHANGED <<marker, starts, clientVars>>

-----------------------------------------------------------------------------
(* Serving, and going down *)

\* The producer lane applies, write-behind; later the cadence persists it.
Apply(d) ==
    /\ pc[d] = "serving"
    /\ unflushed' = unflushed \cup {d}
    /\ UNCHANGED <<pc, files, deep, lost, stuck, starts, clientVars>>

Flush(d) ==
    /\ pc[d] = "serving"
    /\ unflushed' = unflushed \ {d}
    /\ UNCHANGED <<pc, files, deep, lost, stuck, starts, clientVars>>

MayStop(d) == Overlap \/ \A e \in Daemons : pc[e] \notin Handshake \cup Boot

\* A signal, a stop request or the idle timeout: the run loop ends.
Stop(d) ==
    /\ MayStop(d)
    /\ Moves(d, "serving", "release")
    /\ UNCHANGED <<files, keptVars, starts, clientVars>>

\* teardown gives up the lock first.
ReleaseLock(d) ==
    /\ Moves(d, "release", "unlink")
    /\ locked' = locked \ {d} /\ fd' = [fd EXCEPT ![d] = None]
    /\ UNCHANGED <<lockPath, socket, marker, keptVars, starts, clientVars>>

\* It removes what the paths name by then, whosever it is.
UnlinkLock(d) ==
    /\ Moves(d, "unlink", "unsocket")
    /\ lockPath' = None
    /\ UNCHANGED <<fd, locked, socket, marker, keptVars, starts, clientVars>>

RemoveSocket(d) ==
    /\ Moves(d, "unsocket", "flush")
    /\ socket' = None
    /\ UNCHANGED <<fd, locked, lockPath, marker, keptVars, starts, clientVars>>

\* Mutation: the marker is written after a final flush that has failed, too.
FlushAllRegardless(d) ==
    /\ Moves(d, "flush", "mark")
    /\ unflushed' = unflushed \ {d} \/ UNCHANGED unflushed
    /\ UNCHANGED <<files, deep, lost, stuck, starts, clientVars>>

\* shutdown: the final flush; after a failed write no marker is written.
FlushAll(d) ==
    /\ pc[d] = "flush"
    /\ \/ /\ Moves(d, "flush", "mark")
          /\ unflushed' = unflushed \ {d}
          /\ UNCHANGED <<fd, locked, lockPath, socket, deep, lost, stuck>>
       \/ d \in unflushed /\ Ends(d)
    /\ UNCHANGED <<marker, starts, clientVars>>

\* The marker is created empty and then written, over one that was left as well.
CreateMarker(d) ==
    /\ Moves(d, "mark", "sign")
    /\ marker' = "torn" /\ stuck' = stuck \ {d}
    /\ UNCHANGED <<fd, locked, lockPath, socket, deep, unflushed, lost, starts,
                   clientVars>>

SignMarker(d) ==
    /\ pc[d] = "sign"
    /\ marker' = "clean"
    /\ Ends(d)
    /\ UNCHANGED <<starts, clientVars>>

\* A kill, or an error of startup, at any moment.
Crash(d) ==
    /\ pc[d] # "off"
    /\ Ends(d)
    /\ UNCHANGED <<marker, starts, clientVars>>

-----------------------------------------------------------------------------
(* AutoStartHandshake: a client makes sure that a daemon answers *)

Goes(c, from, to) ==
    /\ client[c] = from /\ client' = [client EXCEPT ![c] = to]

daemonVars == <<pc, files, keptVars, starts>>

\* Phase 1; a client that finds a daemon is done.
ClientCheck(c) ==
    /\ ~ Reachable /\ Goes(c, "idle", "flock")
    /\ UNCHANGED <<daemonVars, guard>>

\* Phase 2 waits for the other clients.
ClientLock(c) ==
    /\ guard = None /\ guard' = c
    /\ Goes(c, "flock", "recheck")
    /\ UNCHANGED daemonVars

ClientRecheck(c) ==
    /\ client[c] = "recheck"
    /\ IF Reachable
       THEN Goes(c, "recheck", "idle") /\ guard' = None
       ELSE Goes(c, "recheck", "spawn") /\ UNCHANGED guard
    /\ UNCHANGED daemonVars

\* Phase 3 starts a process and does not look after it, or fails to.
ClientSpawn(c) ==
    \/ /\ Goes(c, "spawn", "wait")
       /\ \E d \in Daemons : Start(d)
       /\ UNCHANGED guard
    \/ /\ Goes(c, "spawn", "idle") /\ guard' = None
       /\ UNCHANGED daemonVars

\* Phase 4 polls until the daemon answers or the startup timeout is over.
ClientReady(c) ==
    /\ Reachable
    /\ Goes(c, "wait", "idle") /\ guard' = None
    /\ UNCHANGED daemonVars

\* Mutation: the guard is kept by a client that gives up.
ClientTimeoutHolding(c) ==
    /\ Goes(c, "wait", "idle")
    /\ UNCHANGED <<daemonVars, guard>>

ClientTimeout(c) ==
    /\ Goes(c, "wait", "idle") /\ guard' = None
    /\ UNCHANGED daemonVars

-----------------------------------------------------------------------------
(* Specification *)

StartByHand(d) == Start(d) /\ UNCHANGED clientVars

DaemonStep(d) ==
    \/ StartByHand(d) \/ Probe(d) \/ OpenLock(d) \/ TryLock(d) \/ Reprobe(d)
    \/ ReadMarker(d) \/ ConsumeMarker(d) \/ Reconcile(d) \/ RemoveStaleSocket(d)
    \/ Bind(d) \/ Apply(d) \/ Flush(d) \/ Stop(d) \/ ReleaseLock(d)
    \/ UnlinkLock(d) \/ RemoveSocket(d) \/ FlushAll(d) \/ CreateMarker(d)
    \/ SignMarker(d) \/ Crash(d)

ClientStep(c) ==
    \/ ClientRecheck(c) \/ ClientSpawn(c) \/ ClientReady(c) \/ ClientTimeout(c)

\* With no start left the machine rests when the last daemon has ended.
AtRest ==
    /\ starts = MaxStarts /\ \A d \in Daemons : pc[d] = "off"
    /\ UNCHANGED lifeVars

LifeNext ==
    \/ AtRest
    \/ \E d \in Daemons : DaemonStep(d)
    \/ \E c \in Clients : ClientCheck(c) \/ ClientLock(c) \/ ClientStep(c)

LifeSpec == LifeInit /\ [][LifeNext]_lifeVars

-----------------------------------------------------------------------------
(* Properties *)

\* Type invariant: files and processes are in their domains; whoever holds a
\* lock has its file open.
LifeTypeOK ==
    /\ pc \in [Daemons -> {"off", "serving"} \cup Handshake \cup Boot \cup TearDown]
    /\ fd \in [Daemons -> Inodes \cup {None}]
    /\ locked \subseteq {d \in Daemons : fd[d] # None}
    /\ lockPath \in Inodes \cup {None}
    /\ socket \in Daemons \cup {None, "stale"}
    /\ marker \in {"absent", "torn", "clean"}
    /\ deep \subseteq Daemons /\ unflushed \subseteq Daemons
    /\ lost \in BOOLEAN /\ stuck \subseteq Daemons
    /\ starts \in 0 .. MaxStarts
    /\ client \in [Clients -> {"idle", "flock", "recheck", "spawn", "wait"}]
    /\ guard \in Clients \cup {None}

(***************************************************************************)
(* Of processes that start at the same time, after crashes and with stale  *)
(* files around, at most one becomes the daemon: handshake.rs, "This       *)
(* ensures a single-daemon guarantee".                                     *)
(***************************************************************************)
OneDaemon ==
    \A d, e \in Daemons :
        {pc[d], pc[e]} \subseteq {"serving"} \cup Boot => d = e

(***************************************************************************)
(* Clients find the daemon that serves: no starting process and no process *)
(* that goes down removes or replaces the socket of another (startup,      *)
(* "Clean up stale socket").                                               *)
(***************************************************************************)
ServingIsReachable == \A d \in Daemons : pc[d] = "serving" => socket = d

\* At most one process is the daemon, and its clients find it, whatever starts and ends beside it.
OneReachableDaemon == OneDaemon /\ ServingIsReachable

(***************************************************************************)
(* A marker on disk is a promise to the next start that everything is      *)
(* persisted, wherever a process may die from now on: startup_reconcile,   *)
(* "from this instant until `shutdown` writes it again, no marker exists   *)
(* on disk, so any exit that does not run `shutdown` [...] leaves the      *)
(* absence that means crash".  Excepted are the processes that could not    *)
(* remove the marker they found and have logged what that may lead to:     *)
(* for these the marker vouches only when they write it themselves.        *)
(***************************************************************************)
MarkerVouches == marker = "clean" => ~ lost /\ unflushed \subseteq stuck

(***************************************************************************)
(* A start that believes the marker has nothing to re-hash: while it       *)
(* serves, no state lost earlier waits for a deep reconcile.               *)
(***************************************************************************)
CheapStartsAreSafe ==
    \A d \in Daemons : pc[d] \in (Boot \ {"read"}) \cup {"serving"} =>
        d \in deep \/ ~ lost

(***************************************************************************)
(* A client gets its answer, daemon or error: whatever daemons and other   *)
(* clients do, the guard comes round (autostart.rs, phases 2 and 4).       *)
(***************************************************************************)
ClientReturns == \A c \in Clients : client[c] # "idle" ~> client[c] = "idle"
=============================================================================
