---------------------------- MODULE HookDelivery ----------------------------
(***************************************************************************)
(* The git hooks' way to the daemon (filigrio-client-cli hook/mod.rs,       *)
(* deliver.rs, spool.rs): try the socket, else spool a job, else drop.     *)
(* Every hook is a process of its own; those of several worktrees share    *)
(* the spool and overlap, and any of them can be killed between two steps.  *)
(* A hook stands for the change set it computes and for the job file that  *)
(* carries it; its stderr report is `reported`.                            *)
(***************************************************************************)
EXTENDS Integers, SequencesExt

CONSTANTS
    Hooks,        \* hook processes
    Foreign,      \* job files this build cannot read
    Waiting,      \* job files of earlier hooks, which it can
    MaxJobs,      \* MAX_JOBS
    Sticky,       \* bound: the jobs a removal of whose file may fail
    MaxFlips,     \* bound: starts and stops of the daemon
    OversizeSets  \* which change sets exceed the wire's frame, per behaviour

ASSUME HooksAssumption ==
    /\ IsFiniteSet(Hooks) /\ IsFiniteSet(Foreign) /\ IsFiniteSet(Waiting)
    /\ Hooks \cap (Foreign \cup Waiting) = {} /\ Foreign \cap Waiting = {}
    /\ MaxJobs \in Nat /\ Cardinality(Foreign \cup Waiting) <= MaxJobs

VARIABLES
    listening, \* a daemon serves the socket
    flips,     \* history: its starts and stops
    oversize,  \* change sets that cannot be framed
    at,        \* where each hook is
    todo,      \* jobs its replay has still to deliver
    names,     \* jobs by their file names, which carry the time: oldest first
    temps,     \* jobs written to their .tmp file only
    spool,     \* jobs in their .json file
    received,  \* history: what reached the socket, every arrival in its order
    submits,   \* history: hooks whose change set was not empty
    placed,    \* history: jobs in the order their files appeared
    capped,    \* history: jobs dropped as the oldest of too many
    unremoved, \* history: jobs a removal of whose file has failed
    reported   \* history: hooks that have reported their change set as dropped

hookVars == <<listening, flips, oversize, at, todo, names, temps, spool, received,
              submits, placed, capped, unremoved, reported>>
history == <<submits, placed, capped, unremoved, reported>>

\* i comes before j in s.  SpoolDir::jobs sorts by name, which is Before(names, _, _).
Before(s, i, j) == \E k, l \in 1 .. Len(s) : k < l /\ s[k] = i /\ s[l] = j

HookInit ==
    /\ listening \in BOOLEAN /\ flips = 0 /\ oversize \in OversizeSets
    /\ at = [h \in Hooks |-> "idle"] /\ todo = [h \in Hooks |-> {}]
    /\ names = SetToSeq(Foreign \cup Waiting) /\ placed = names
    /\ temps = {} /\ spool = Foreign \cup Waiting
    /\ received = <<>> /\ submits = {} /\ capped = {} /\ unremoved = {} /\ reported = {}

Goto(h, place) == at' = [at EXCEPT ![h] = place]

\* fire_and_forget: the bytes are in the socket's buffer.
Sent(j) == listening /\ j \notin oversize
Receive(j) == received' = Append(received, j)

\* SpoolDir::remove and the cap go on when the file cannot be removed.
Unlink(J) ==
    \E K \in SUBSET (J \cap spool \cap Sticky) :
        spool' = spool \ (J \ K) /\ unremoved' = unremoved \cup K

-----------------------------------------------------------------------------
(* Replay *)

\* SpoolDir::sweep removes what it can.
SweepTemps == temps' \in SUBSET temps

\* The opt-out, an unknown event, no repository.
StandDown(h) ==
    /\ at[h] = "idle" /\ Goto(h, "done")
    /\ UNCHANGED <<listening, flips, oversize, todo, names, temps, spool, received, history>>

\* deliver::replay sweeps, then lists the jobs once.
BeginReplay(h) ==
    /\ at[h] = "idle" /\ Goto(h, "replay")
    /\ SweepTemps /\ todo' = [todo EXCEPT ![h] = spool]
    /\ UNCHANGED <<listening, flips, oversize, names, spool, received, history>>

\* The oldest of those left.
Job(h) == CHOOSE j \in todo[h] : \A k \in todo[h] \ {j} : Before(names, j, k)
Readable(j) == j \in spool \ Foreign

\* A job that cannot be read, or that another hook has removed by now.
DiscardJob(h) ==
    /\ at[h] = "replay" /\ todo[h] # {} /\ ~ Readable(Job(h))
    /\ Unlink({Job(h)}) /\ todo' = [todo EXCEPT ![h] = @ \ {Job(h)}]
    /\ UNCHANGED <<listening, flips, oversize, at, names, temps, received, submits, placed,
                   capped, reported>>

\* From here on the job is in memory: another hook may deliver it and remove its file.
LoadJob(h) ==
    /\ at[h] = "replay" /\ todo[h] # {} /\ Readable(Job(h)) /\ Goto(h, "send")
    /\ UNCHANGED <<listening, flips, oversize, todo, names, temps, spool, received, history>>

SendJob(h) ==
    /\ at[h] = "send" /\ Sent(Job(h))
    /\ Receive(Job(h)) /\ Goto(h, "remove")
    /\ UNCHANGED <<listening, flips, oversize, todo, names, temps, spool, history>>

RemoveJob(h) ==
    /\ at[h] = "remove" /\ Goto(h, "replay")
    /\ Unlink({Job(h)}) /\ todo' = [todo EXCEPT ![h] = @ \ {Job(h)}]
    /\ UNCHANGED <<listening, flips, oversize, names, temps, received, submits, placed,
                   capped, reported>>

\* There is no job left, or the socket does not take the one that was read.
ReplayStops(h) ==
    \/ at[h] = "replay" /\ todo[h] = {}
    \/ at[h] = "send" /\ ~ Sent(Job(h))

\* Mutation: a job the socket does not take is passed over, for the next one.
EndReplaySkips(h) ==
    /\ ReplayStops(h) /\ Goto(h, IF todo[h] = {} THEN "diff" ELSE "replay")
    /\ todo' = [todo EXCEPT ![h] = IF @ = {} THEN {} ELSE @ \ {Job(h)}]
    /\ UNCHANGED <<listening, flips, oversize, names, temps, spool, received, history>>

\* Mutation: a job the socket does not take is given up.
EndReplayDrops(h) ==
    /\ ReplayStops(h) /\ Goto(h, "diff")
    /\ spool' = IF todo[h] = {} THEN spool ELSE spool \ {Job(h)}
    /\ todo' = [todo EXCEPT ![h] = {}]
    /\ UNCHANGED <<listening, flips, oversize, names, temps, received, history>>

\* The replay stops at the first job the socket does not take.
EndReplay(h) ==
    /\ ReplayStops(h) /\ Goto(h, "diff")
    /\ todo' = [todo EXCEPT ![h] = {}]
    /\ UNCHANGED <<listening, flips, oversize, names, temps, spool, received, history>>

-----------------------------------------------------------------------------
(* The hook's own change set *)

\* git::changeset_for: git fails, the diff is empty, or there is one to deliver.
Diff(h) ==
    /\ at[h] = "diff"
    /\ \/ Goto(h, "done") /\ UNCHANGED submits
       \/ Goto(h, "deliver") /\ submits' = submits \cup {h}
    /\ UNCHANGED <<listening, flips, oversize, todo, names, temps, spool, received,
                   placed, capped, unremoved, reported>>

\* deliver: the socket, else the spool.
Deliver(h) ==
    /\ at[h] = "deliver"
    /\ IF Sent(h) THEN Receive(h) /\ Goto(h, "done")
       ELSE Goto(h, "write") /\ UNCHANGED received
    /\ UNCHANGED <<listening, flips, oversize, todo, names, temps, spool, history>>

ReportDrop(h) == Goto(h, "done") /\ reported' = reported \cup {h}

\* SpoolDir::push, which takes its name before it writes; the disk can refuse.
WriteTemp(h) ==
    /\ at[h] = "write"
    /\ \/ /\ Goto(h, "rename") /\ UNCHANGED reported
          /\ names' = Append(names, h) /\ temps' = temps \cup {h}
       \/ ReportDrop(h) /\ UNCHANGED <<names, temps>>
    /\ UNCHANGED <<listening, flips, oversize, todo, spool, received, submits, placed, capped,
                   unremoved>>

\* Another hook's sweep can have taken the .tmp file.
Rename(h) ==
    /\ at[h] = "rename"
    /\ IF h \in temps
       THEN /\ Goto(h, "cap") /\ UNCHANGED reported
            /\ temps' = temps \ {h} /\ spool' = spool \cup {h} /\ placed' = Append(placed, h)
       ELSE ReportDrop(h) /\ UNCHANGED <<temps, spool, placed>>
    /\ UNCHANGED <<listening, flips, oversize, todo, names, received, submits, capped, unremoved>>

\* The oldest jobs past the cap.
Excess == {j \in spool : Cardinality({k \in spool : Before(names, j, k)}) >= MaxJobs}

\* enforce_cap.
EnforceCap(h) ==
    /\ at[h] = "cap" /\ Goto(h, "done")
    /\ Unlink(Excess) /\ capped' = capped \cup (Excess \ spool')
    /\ UNCHANGED <<listening, flips, oversize, todo, names, temps, received, submits,
                   placed, reported>>

\* The terminal is closed, the git command interrupted.
Kill(h) ==
    /\ at[h] \notin {"idle", "done", "killed", "cut"}
    /\ Goto(h, IF at[h] = "cap" THEN "cut" ELSE "killed") /\ todo' = [todo EXCEPT ![h] = {}]
    /\ UNCHANGED <<listening, flips, oversize, names, temps, spool, received, history>>

Flip ==
    /\ flips < MaxFlips /\ flips' = flips + 1 /\ listening' = ~ listening
    /\ UNCHANGED <<oversize, at, todo, names, temps, spool, received, history>>

HookStep(h) ==
    \/ StandDown(h) \/ BeginReplay(h) \/ DiscardJob(h) \/ LoadJob(h) \/ SendJob(h)
    \/ RemoveJob(h) \/ EndReplay(h) \/ Diff(h) \/ Deliver(h) \/ WriteTemp(h) \/ Rename(h)
    \/ EnforceCap(h) \/ Kill(h)

HookNext == Flip \/ \E h \in Hooks : HookStep(h)

HookSpec == HookInit /\ [][HookNext]_hookVars

-----------------------------------------------------------------------------
(* Properties *)

\* Type invariant.
HookTypeOK ==
    /\ at \in [Hooks -> {"idle", "replay", "send", "remove", "diff", "deliver", "write",
                         "rename", "cap", "done", "killed", "cut"}]
    /\ spool \subseteq ToSet(placed) /\ ToSet(placed) \subseteq ToSet(names)
    /\ unremoved \subseteq ToSet(placed)
    /\ temps \subseteq ToSet(names) \cap Hooks /\ IsInjective(names)
    /\ \A h \in Hooks : /\ todo[h] \subseteq ToSet(placed)
                        /\ at[h] \in {"send", "remove"} => todo[h] # {}

(***************************************************************************)
(* No change set goes silently: that of a hook that ran to its end, and     *)
(* every job that ever was in the spool, is still there, has reached the    *)
(* socket, made room as one of the oldest, or was reported as dropped, no   *)
(* matter which hooks overlap and which are killed (deliver.rs, the ladder; *)
(* "never silently lost" does not hold for a hook that is killed itself).   *)
(***************************************************************************)
EveryChangeSetAccounted ==
    \A j \in {h \in submits : at[h] = "done"} \cup (ToSet(placed) \ Foreign) :
        j \in spool \cup ToSet(received) \cup capped \cup reported

(***************************************************************************)
(* The spool is capped, except by the hooks that have not come to it yet or *)
(* were killed before, and the files that could not be removed (spool.rs,  *)
(* "the spool is capped").                                                  *)
(***************************************************************************)
SpoolBounded ==
    Cardinality(spool \ unremoved) <=
        MaxJobs + Cardinality({h \in Hooks : at[h] \in {"cap", "cut"}})

\* Overlapping and killed hooks lose no change set silently, and the spool they share stays capped
\* (deliver.rs, spool.rs).
SpoolKeepsJobs == EveryChangeSetAccounted /\ SpoolBounded

\* However often i and j arrived, i was there before the first j.
FirstBefore(i, j) ==
    \A l \in DOMAIN received : received[l] = j => \E k \in 1 .. l - 1 : received[k] = i

(***************************************************************************)
(* Replays deliver in order, however they overlap or are cut short: of two *)
(* jobs that appeared in the order of their names, the older reaches the   *)
(* socket before the newer first does, unless the cap dropped it; and once *)
(* the newer has, the file of the older is gone, unless removing it failed. *)
(* So only a replay that had read it by then can send it again after the   *)
(* newer: less than "stopping at the first failure keeps delivery ordered"  *)
(* of replay, and all that overlapping replays leave of it.                *)
(***************************************************************************)
ReplaysInOrder ==
    \A j \in ToSet(received) \ Foreign, i \in ToSet(placed) \ Foreign :
        Before(names, i, j) /\ Before(placed, i, j) =>
            /\ i \notin capped => FirstBefore(i, j)
            /\ i \notin spool \ unremoved

(***************************************************************************)
(* A change set too large for the wire is dropped, not spooled, where it    *)
(* would stay for ever (deliver.rs, an_over_sized_changeset_is_reported_    *)
(* rather_than_spooled_forever).                                            *)
(***************************************************************************)
SpoolIsDeliverable == spool \cap oversize = {}
=============================================================================
