-------------------------- MODULE LifecycleProofs --------------------------
(***************************************************************************)
(* Theorems about module Lifecycle for any sets of processes and clients   *)
(* and any number of starts: the types; that one process at most is the    *)
(* daemon and its socket stays its own; and that the marker tells the      *)
(* truth.  The last two suppose that no process starts while another goes  *)
(* down, without which they do not hold.                                   *)
(***************************************************************************)
EXTENDS Lifecycle, FiniteSetTheorems, TLAPS

\* Where a process holds the lock, and where it has the lock file open.
Holding == {"reprobe", "serving", "release"} \cup Boot
Opened == {"lock"} \cup Holding

FilesOK ==
    \A d \in Daemons : /\ d \in locked <=> pc[d] \in Holding
                       /\ fd[d] # None <=> pc[d] \in Opened

TypeInv == LifeTypeOK /\ FilesOK

-----------------------------------------------------------------------------
(* Type correctness *)

\* There is an inode no process has open.
LEMMA FreshInode == \E i \in Inodes : \A e \in Daemons : fd[e] # i
<1> SUFFICES ASSUME \A i \in Inodes : \E e \in Daemons : fd[e] = i PROVE FALSE
  OBVIOUS
<1> DEFINE n == Cardinality(Daemons)
           opener == [i \in Inodes |-> CHOOSE e \in Daemons : fd[e] = i]
<1>1. n \in Nat BY FS_CardinalityType, DaemonsAssumption
<1>2. IsFiniteSet(Inodes) /\ Cardinality(Inodes) = n + 1
  <2>1. 0 <= n BY <1>1
  <2> QED BY <1>1, <2>1, FS_Interval DEF Inodes
<1>3. \A i \in Inodes : opener[i] \in Daemons /\ fd[opener[i]] = i
  OBVIOUS
<1>4. opener \in [Inodes -> Daemons] BY <1>3
<1> HIDE DEF opener, n
<1>5. PICK i, j \in Inodes : i # j /\ opener[i] = opener[j]
  <2>1. Cardinality(Daemons) < Cardinality(Inodes) BY <1>1, <1>2 DEF n
  <2> QED BY <1>2, <1>4, <2>1, FS_PigeonHole, DaemonsAssumption
<1> QED BY <1>3, <1>5

\* A process that ends leaves the types.
LEMMA EndsType ==
    ASSUME TypeInv, NEW d \in Daemons, Ends(d),
           marker' \in {"absent", "torn", "clean"}, UNCHANGED <<starts, clientVars>>
    PROVE  TypeInv'
BY DEF TypeInv, LifeTypeOK, FilesOK, Ends, clientVars, Opened, Holding, Boot

\* So does one that starts, by hand or by a client.
LEMMA StartType ==
    ASSUME TypeInv, NEW d \in Daemons, Start(d),
           client' \in [Clients -> {"idle", "flock", "recheck", "spawn", "wait"}],
           guard' \in Clients \cup {None}
    PROVE  TypeInv'
<1>1. starts' \in 0 .. MaxStarts BY BoundsAssumption DEF Start, TypeInv, LifeTypeOK
<1> QED
  BY <1>1 DEF Start, Moves, files, keptVars, Handshake, Opened, Holding, Boot, FilesOK, TypeInv, LifeTypeOK

\* And every other step of a process.
LEMMA DaemonType ==
    ASSUME TypeInv, NEW d \in Daemons, DaemonStep(d)
    PROVE  TypeInv'
<1> USE DEF Moves, files, keptVars, clientVars, TypeInv, LifeTypeOK, FilesOK, Opened, Holding, Boot,
            Handshake, TearDown
<1>1. CASE StartByHand(d) BY <1>1, StartType DEF StartByHand
<1>2. CASE Probe(d)
  <2>1. CASE Reachable BY <1>2, <2>1, EndsType DEF Probe
  <2>2. CASE ~ Reachable BY <1>2, <2>2 DEF Probe
  <2> QED BY <2>1, <2>2
<1>3. CASE OpenLock(d)
  <2>1. lockPath' \in Inodes BY <1>3, FreshInode DEF OpenLock
  <2>2. None \notin Inodes
    BY NoneAssumption, FS_CardinalityType, DaemonsAssumption DEF Inodes
  <2> QED BY <1>3, <2>1, <2>2 DEF OpenLock
<1>4. CASE TryLock(d)
  <2>1. CASE \E e \in locked : fd[e] = fd[d]
    BY <1>4, <2>1, EndsType DEF TryLock
  <2>2. CASE ~ \E e \in locked : fd[e] = fd[d]
    BY <1>4, <2>2 DEF TryLock
  <2> QED BY <2>1, <2>2
<1>5. CASE Reprobe(d)
  <2>1. CASE Reachable BY <1>5, <2>1, EndsType DEF Reprobe
  <2>2. CASE ~ Reachable BY <1>5, <2>2 DEF Reprobe
  <2> QED BY <2>1, <2>2
<1>6. CASE ReadMarker(d) BY <1>6 DEF ReadMarker
<1>7. CASE ConsumeMarker(d) BY <1>7 DEF ConsumeMarker
<1>8. CASE Reconcile(d) BY <1>8 DEF Reconcile
<1>9. CASE RemoveStaleSocket(d) BY <1>9 DEF RemoveStaleSocket
<1>10. CASE Bind(d)
  <2>1. CASE socket = None BY <1>10, <2>1 DEF Bind
  <2>2. CASE socket # None BY <1>10, <2>2, EndsType DEF Bind
  <2> QED BY <2>1, <2>2
<1>11. CASE Apply(d) BY <1>11 DEF Apply
<1>12. CASE Flush(d) BY <1>12 DEF Flush
<1>13. CASE Stop(d) BY <1>13 DEF Stop
<1>14. CASE ReleaseLock(d) BY <1>14 DEF ReleaseLock
<1>15. CASE UnlinkLock(d) BY <1>15 DEF UnlinkLock
<1>16. CASE RemoveSocket(d) BY <1>16 DEF RemoveSocket
<1>17. CASE FlushAll(d)
  <2>1. CASE Ends(d) BY <1>17, <2>1, EndsType DEF FlushAll
  <2>2. CASE ~ Ends(d) BY <1>17, <2>2 DEF FlushAll
  <2> QED BY <2>1, <2>2
<1>18. CASE CreateMarker(d) BY <1>18 DEF CreateMarker
<1>19. CASE SignMarker(d) BY <1>19, EndsType DEF SignMarker
<1>20. CASE Crash(d) BY <1>20, EndsType DEF Crash
<1> QED
  BY <1>1, <1>2, <1>3, <1>4, <1>5, <1>6, <1>7, <1>8, <1>9, <1>10, <1>11, <1>12, <1>13, <1>14,
     <1>15, <1>16, <1>17, <1>18, <1>19, <1>20 DEF DaemonStep

\* A client changes what a start of a process changes, if that much.
LEMMA ClientSteps ==
    ASSUME TypeInv, NEW c \in Clients, ClientCheck(c) \/ ClientLock(c) \/ ClientStep(c)
    PROVE  /\ client' \in [Clients -> {"idle", "flock", "recheck", "spawn", "wait"}]
           /\ guard' \in Clients \cup {None}
           /\ UNCHANGED daemonVars \/ \E d \in Daemons : Start(d)
BY DEF TypeInv, LifeTypeOK, ClientCheck, ClientLock, ClientStep, ClientRecheck, ClientSpawn, ClientReady,
       ClientTimeout, Goes

\* Every variable of the daemons, of their files and of the clients that start them stays in its
\* domain; whoever holds a lock has its file open (handshake.rs, daemon.rs, autostart.rs).
THEOREM LifeTypeCorrect == LifeSpec => []TypeInv
<1>1. LifeInit => TypeInv
  <2> SUFFICES ASSUME LifeInit PROVE TypeInv OBVIOUS
  <2>1. 0 \in 0 .. MaxStarts BY BoundsAssumption
  <2> QED
    BY <2>1 DEF LifeInit, TypeInv, LifeTypeOK, FilesOK, Opened, Holding, Boot
<1>2. TypeInv /\ [LifeNext]_lifeVars => TypeInv'
  <2> SUFFICES ASSUME TypeInv, [LifeNext]_lifeVars PROVE TypeInv' OBVIOUS
  <2>1. CASE UNCHANGED lifeVars
    BY <2>1 DEF lifeVars, files, keptVars, clientVars, TypeInv, LifeTypeOK, FilesOK
  <2>2. ASSUME NEW d \in Daemons, DaemonStep(d) PROVE TypeInv' BY <2>2, DaemonType
  <2>3. ASSUME NEW c \in Clients, ClientCheck(c) \/ ClientLock(c) \/ ClientStep(c)
        PROVE  TypeInv'
    <3>1. CASE UNCHANGED daemonVars
      BY <2>3, <3>1, ClientSteps DEF daemonVars, files, keptVars, TypeInv, LifeTypeOK, FilesOK
    <3>2. CASE \E d \in Daemons : Start(d) BY <2>3, <3>2, ClientSteps, StartType
    <3> QED BY <2>3, <3>1, <3>2, ClientSteps
  <2> QED BY <2>1, <2>2, <2>3 DEF LifeNext, AtRest
<1> QED BY <1>1, <1>2, PTL DEF LifeSpec

-----------------------------------------------------------------------------
(* One daemon that clients find *)

\* Files in use are the one the path names, so that one process holds the lock; a process that
\* goes down is alone; and the socket of a daemon that serves is its own.
LockInv ==
    /\ \A d \in Daemons : fd[d] # None => fd[d] = lockPath
    /\ \A d, e \in locked : d = e
    /\ \A d, e \in Daemons : pc[d] \in TearDown /\ d # e => pc[e] = "off"
    /\ ServingIsReachable

\* The lock and the socket outlive the end of any process.
LEMMA EndsLock ==
    ASSUME TypeInv, LockInv, NEW d \in Daemons, Ends(d)
    PROVE  LockInv'
BY DEF TypeInv, LifeTypeOK, LockInv, ServingIsReachable, Ends, TearDown

\* And every step of a process, if none starts while another goes down.
LEMMA DaemonLock ==
    ASSUME ~ Overlap, TypeInv, LockInv, NEW d \in Daemons, DaemonStep(d)
    PROVE  LockInv'
<1> USE DEF Moves, files, keptVars, TypeInv, LifeTypeOK, FilesOK, LockInv, ServingIsReachable, Opened,
            Holding, Boot, Handshake, TearDown
<1>1. CASE StartByHand(d) BY <1>1 DEF StartByHand, Start, MayStart
<1>2. CASE Probe(d)
  <2>1. CASE Ends(d) BY <2>1, EndsLock
  <2>2. CASE ~ Ends(d) BY <1>2, <2>2 DEF Probe
  <2> QED BY <2>1, <2>2
<1>3. CASE OpenLock(d) BY <1>3 DEF OpenLock
<1>4. CASE TryLock(d)
  <2>1. CASE Ends(d) BY <2>1, EndsLock
  <2>2. CASE ~ Ends(d) BY <1>4, <2>2 DEF TryLock
  <2> QED BY <2>1, <2>2
<1>5. CASE Reprobe(d)
  <2>1. CASE Ends(d) BY <2>1, EndsLock
  <2>2. CASE ~ Ends(d) BY <1>5, <2>2 DEF Reprobe
  <2> QED BY <2>1, <2>2
<1>6. CASE ReadMarker(d) BY <1>6 DEF ReadMarker
<1>7. CASE ConsumeMarker(d) BY <1>7 DEF ConsumeMarker
<1>8. CASE Reconcile(d) BY <1>8 DEF Reconcile
<1>9. CASE RemoveStaleSocket(d) BY <1>9 DEF RemoveStaleSocket
<1>10. CASE Bind(d)
  <2>1. CASE Ends(d) BY <2>1, EndsLock
  <2>2. CASE ~ Ends(d) BY <1>10, <2>2 DEF Bind
  <2> QED BY <2>1, <2>2
<1>11. CASE Apply(d) BY <1>11 DEF Apply
<1>12. CASE Flush(d) BY <1>12 DEF Flush
<1>13. CASE Stop(d) BY <1>13 DEF Stop, MayStop
<1>14. CASE ReleaseLock(d) BY <1>14 DEF ReleaseLock
<1>15. CASE UnlinkLock(d) BY <1>15 DEF UnlinkLock
<1>16. CASE RemoveSocket(d) BY <1>16 DEF RemoveSocket
<1>17. CASE FlushAll(d)
  <2>1. CASE Ends(d) BY <2>1, EndsLock
  <2>2. CASE ~ Ends(d) BY <1>17, <2>2 DEF FlushAll
  <2> QED BY <2>1, <2>2
<1>18. CASE CreateMarker(d) BY <1>18 DEF CreateMarker
<1>19. CASE SignMarker(d) BY <1>19, EndsLock DEF SignMarker
<1>20. CASE Crash(d) BY <1>20, EndsLock DEF Crash
<1> QED
  BY <1>1, <1>2, <1>3, <1>4, <1>5, <1>6, <1>7, <1>8, <1>9, <1>10, <1>11, <1>12, <1>13, <1>14,
     <1>15, <1>16, <1>17, <1>18, <1>19, <1>20 DEF DaemonStep

\* So it stays through any step, a client's and one that changes nothing included.
LEMMA LockStep ==
    ASSUME ~ Overlap, TypeInv, LockInv, [LifeNext]_lifeVars
    PROVE  LockInv'
<1>1. ASSUME UNCHANGED daemonVars PROVE LockInv'
  BY <1>1 DEF daemonVars, files, keptVars, LockInv, ServingIsReachable
<1>2. ASSUME NEW d \in Daemons, Start(d) PROVE LockInv'
  BY <1>2 DEF Start, MayStart, Moves, files, keptVars, TypeInv, LifeTypeOK, LockInv, ServingIsReachable,
              TearDown
<1>3. ASSUME NEW c \in Clients, ClientCheck(c) \/ ClientLock(c) \/ ClientStep(c)
      PROVE  LockInv'
  BY <1>1, <1>2, <1>3, ClientSteps
<1>4. ASSUME NEW d \in Daemons, DaemonStep(d) PROVE LockInv' BY <1>4, DaemonLock
<1>5. CASE UNCHANGED lifeVars BY <1>1, <1>5 DEF lifeVars, daemonVars
<1> QED BY <1>3, <1>4, <1>5 DEF LifeNext, AtRest

\* If no process starts while another goes down, then whatever processes start, crash, time out
\* or find stale files, one at most is the daemon, and the socket path names its listener
\* (handshake.rs; startup and teardown of daemon.rs).
THEOREM OneDaemonServes ==
    ASSUME ~ Overlap
    PROVE  LifeSpec => []OneReachableDaemon
<1>1. LifeInit => LockInv
  BY DEF LifeInit, LockInv, ServingIsReachable, TearDown
<1>2. TypeInv /\ LockInv /\ [LifeNext]_lifeVars => LockInv' BY LockStep
<1>3. TypeInv /\ LockInv => OneReachableDaemon
  BY DEF TypeInv, FilesOK, LockInv, OneReachableDaemon, OneDaemon, Holding
<1> QED BY <1>1, <1>2, <1>3, LifeTypeCorrect, PTL DEF LifeSpec

-----------------------------------------------------------------------------
(* The marker tells the truth *)

\* Before it may vouch for anything again, the marker is consumed and what was lost is found; a
\* process that could not consume it is stuck until it writes the marker anew.
MarkerInv ==
    /\ MarkerVouches
    /\ \A d \in Daemons :
        /\ pc[d] \in {"reconcile", "unstale", "bind", "serving"} \cup TearDown =>
               marker # "clean" \/ d \in stuck
        /\ d \in stuck =>
               pc[d] \in {"reconcile", "unstale", "bind", "serving"} \cup (TearDown \ {"sign"})
        /\ d \in unflushed => pc[d] \in {"serving"} \cup (TearDown \ {"mark", "sign"})
        /\ pc[d] \in {"consume", "reconcile"} => d \in deep \/ ~ lost
        /\ pc[d] \in {"unstale", "bind", "serving"} \cup TearDown => ~ lost

\* A process that ends, wherever it is, leaves the marker true.
LEMMA EndsMarker ==
    ASSUME TypeInv, LockInv, MarkerInv, NEW d \in Daemons, Ends(d),
           \/ UNCHANGED marker
           \/ pc[d] = "sign"
    PROVE  MarkerInv'
BY DEF TypeInv, LifeTypeOK, FilesOK, LockInv, MarkerInv, MarkerVouches, Ends, Holding, Boot, TearDown

\* And every step of a process, if a reconcile does its work.
LEMMA DaemonMarker ==
    ASSUME ~ Overlap, ~ ReconcileFails, TypeInv, LockInv, MarkerInv,
           NEW d \in Daemons, DaemonStep(d)
    PROVE  MarkerInv'
<1> USE DEF Moves, files, keptVars, TypeInv, LifeTypeOK, FilesOK, LockInv, MarkerInv, MarkerVouches,
            Holding, Boot, TearDown
<1>1. CASE StartByHand(d) BY <1>1 DEF StartByHand, Start
<1>2. CASE Probe(d)
  <2>1. CASE Ends(d) BY <1>2, <2>1, EndsMarker DEF Probe
  <2>2. CASE ~ Ends(d) BY <1>2, <2>2 DEF Probe
  <2> QED BY <2>1, <2>2
<1>3. CASE OpenLock(d) BY <1>3 DEF OpenLock
<1>4. CASE TryLock(d)
  <2>1. CASE Ends(d) BY <1>4, <2>1, EndsMarker DEF TryLock
  <2>2. CASE ~ Ends(d) BY <1>4, <2>2 DEF TryLock
  <2> QED BY <2>1, <2>2
<1>5. CASE Reprobe(d)
  <2>1. CASE Ends(d) BY <1>5, <2>1, EndsMarker DEF Reprobe
  <2>2. CASE ~ Ends(d) BY <1>5, <2>2 DEF Reprobe
  <2> QED BY <2>1, <2>2
<1>6. CASE ReadMarker(d) BY <1>6 DEF ReadMarker
<1>7. CASE ConsumeMarker(d) BY <1>7 DEF ConsumeMarker
<1>8. CASE Reconcile(d)
  <2>1. d \in deep \/ ~ lost BY <1>8 DEF Reconcile
  <2>2. ~ lost' BY <1>8, <2>1 DEF Reconcile
  <2>3. pc' = [pc EXCEPT ![d] = "unstale"] /\ pc[d] = "reconcile" /\ UNCHANGED <<marker, deep, unflushed, stuck>>
    BY <1>8 DEF Reconcile
  <2> QED BY <2>2, <2>3
<1>9. CASE RemoveStaleSocket(d) BY <1>9 DEF RemoveStaleSocket
<1>10. CASE Bind(d)
  <2>1. CASE Ends(d) BY <1>10, <2>1, EndsMarker DEF Bind
  <2>2. CASE ~ Ends(d) BY <1>10, <2>2 DEF Bind
  <2> QED BY <2>1, <2>2
<1>11. CASE Apply(d) BY <1>11 DEF Apply
<1>12. CASE Flush(d) BY <1>12 DEF Flush
<1>13. CASE Stop(d) BY <1>13 DEF Stop
<1>14. CASE ReleaseLock(d) BY <1>14 DEF ReleaseLock
<1>15. CASE UnlinkLock(d) BY <1>15 DEF UnlinkLock
<1>16. CASE RemoveSocket(d) BY <1>16 DEF RemoveSocket
<1>17. CASE FlushAll(d)
  <2>1. CASE Ends(d) BY <1>17, <2>1, EndsMarker DEF FlushAll
  <2>2. CASE ~ Ends(d) BY <1>17, <2>2 DEF FlushAll
  <2> QED BY <2>1, <2>2
<1>18. CASE CreateMarker(d) BY <1>18 DEF CreateMarker
<1>19. CASE SignMarker(d) BY <1>19, EndsMarker DEF SignMarker
<1>20. CASE Crash(d) BY <1>20, EndsMarker DEF Crash
<1> QED
  BY <1>1, <1>2, <1>3, <1>4, <1>5, <1>6, <1>7, <1>8, <1>9, <1>10, <1>11, <1>12, <1>13, <1>14,
     <1>15, <1>16, <1>17, <1>18, <1>19, <1>20 DEF DaemonStep

\* So it stays through any step.
LEMMA MarkerStep ==
    ASSUME ~ Overlap, ~ ReconcileFails, TypeInv, LockInv, MarkerInv, [LifeNext]_lifeVars
    PROVE  MarkerInv'
<1>1. ASSUME UNCHANGED daemonVars PROVE MarkerInv'
  BY <1>1 DEF daemonVars, files, keptVars, MarkerInv, MarkerVouches
<1>2. ASSUME NEW d \in Daemons, Start(d) PROVE MarkerInv'
  BY <1>2 DEF Start, Moves, files, keptVars, TypeInv, LifeTypeOK, MarkerInv, MarkerVouches, TearDown
<1>3. ASSUME NEW c \in Clients, ClientCheck(c) \/ ClientLock(c) \/ ClientStep(c)
      PROVE  MarkerInv'
  BY <1>1, <1>2, <1>3, ClientSteps
<1>4. ASSUME NEW d \in Daemons, DaemonStep(d) PROVE MarkerInv' BY <1>4, DaemonMarker
<1>5. CASE UNCHANGED lifeVars BY <1>1, <1>5 DEF lifeVars, daemonVars
<1> QED BY <1>3, <1>4, <1>5 DEF LifeNext, AtRest

\* If moreover every reconcile at startup does its work, then a clean marker means that nothing
\* is lost and nothing waits to be written, wherever a process dies, except by a process that could
\* not remove the marker and has logged it; and a start that believes the marker serves no stale
\* file but what such a process left (startup_reconcile and shutdown of daemon.rs).
THEOREM MarkerIsTrue ==
    ASSUME ~ Overlap, ~ ReconcileFails
    PROVE  LifeSpec => [](MarkerVouches /\ CheapStartsAreSafe)
<1>1. LifeInit => LockInv /\ MarkerInv
  BY DEF LifeInit, LockInv, ServingIsReachable, MarkerInv, MarkerVouches, TearDown
<1>2. TypeInv /\ LockInv /\ [LifeNext]_lifeVars => LockInv' BY LockStep
<1>3. TypeInv /\ LockInv /\ MarkerInv /\ [LifeNext]_lifeVars => MarkerInv' BY MarkerStep
<1>4. MarkerInv => MarkerVouches /\ CheapStartsAreSafe
  BY DEF MarkerInv, CheapStartsAreSafe, Boot
<1> QED BY <1>1, <1>2, <1>3, <1>4, LifeTypeCorrect, PTL DEF LifeSpec
=============================================================================
