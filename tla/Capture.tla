------------------------------ MODULE Capture ------------------------------
(***************************************************************************)
(* How a change of the working tree gets into the graph of its project     *)
(* (filigrio-ingest watcher.rs and boundary.rs; filigrio-pipeline lib.rs,  *)
(* reconcile.rs and dedup.rs; the watch mode of filigrio-daemon, plan_watch *)
(* and startup of daemon.rs, watchers.rs, apply.rs).  One project; its      *)
(* applies run one at a time under its lock, but nothing stops the user     *)
(* from editing while one of them reads the tree.                          *)
(*                                                                         *)
(* A text stands for the content of a file and for its hash; the clock is   *)
(* the number of edits, so that mtimes are as exact as their nanoseconds.   *)
(* The graph is, for each file, the text its nodes were extracted from.     *)
(***************************************************************************)
EXTENDS Integers, Sequences, FiniteSets

CONSTANTS
    Files,        \* indexable files of the project
    Texts,        \* contents of a file
    None,         \* no file, no entry, no nodes, no apply
    MaxEdits,     \* bound: edits of the tree
    MaxRestarts,  \* bound: restarts of the daemon
    MaxQueue,     \* bound: changes in the producer lane
    MishapSets    \* which coincidences a behaviour may have, see below

ASSUME BoundsAssumption == {MaxEdits, MaxRestarts, MaxQueue} \subseteq Nat

\* Coincidences that can be excluded:
\*   "apply"    an edit hits a file that a running apply has already gated
\*   "replace"  a file is removed and created anew within one debounced batch
\*   "cancel"   a new file an apply has come across goes before its creation is
\*              reported, and the debouncer reports neither
\*   "stale"    a watcher is stopped while a removal it reported is queued
\*   "boot"     an edit falls between the reconcile at startup and its watchers
\*   "verbs"    `watch off` or a removal while a `watch on` converges
\*   "mtime"    a write that leaves the mtime as it was
Mishaps == {"apply", "replace", "cancel", "stale", "boot",
            "verbs", "mtime"}

VARIABLES
    tree,      \* the working tree
    ignored,   \* files its .gitignore excludes
    edits,     \* the clock
    kept,      \* history: files whose last write left the mtime alone
    raw,       \* kinds of events the debouncer holds, per file
    rawIgnore, \* it holds an event of .gitignore
    boundary,  \* what the watcher's boundary has read of .gitignore, or None
    lane,      \* the producer lane: channel, priority lane, deferred jobs
    job,       \* the apply that holds the project's lock, or None
    converging,\* a `watch on` was planned and has not been answered
    manifest, nodes, \* resident state: file entries, graph
    stored,    \* the same on disk
    known, watch, \* registry, saved with every change
    live,      \* the project has a watcher
    phase,     \* the daemon starts up or serves
    restarts,
    mishaps    \* coincidences of this behaviour

treeVars == <<tree, ignored, edits, kept>>
watcherVars == <<raw, rawIgnore, boundary, live>>
stateVars == <<manifest, nodes, stored>>
modeVars == <<known, watch, phase, restarts, converging, mishaps>>
captureVars == <<treeVars, watcherVars, stateVars, modeVars, lane, job>>

Kinds == {"create", "modify", "remove"}
NoEvents == [f \in Files |-> {}]
Times == 0 .. MaxEdits
FileStates == [text : Texts, mtime : Times]
Stamps == [hash : Texts \cup {None}, mtime : Times \cup {None}]
Entries == Stamps \cup {None}
Clients == {"none", "index", "watch", "submit", "startup"}
ApplyJobs ==
    [index : SUBSET Files, removed : SUBSET Files, deep : BOOLEAN, client : Clients,
     at : {"probe", "read", "stamp"}, edits : Times,
     read : [Files -> Entries] \cup UNION {[S -> Texts] : S \in SUBSET Files}]

\* What stands for absence is nothing else.
ASSUME NoneAssumption ==
    /\ None \notin Texts /\ None \notin Times
    /\ None \notin FileStates /\ None \notin Stamps /\ None \notin ApplyJobs

\* What the walk of the source boundary lists.
InScope(f) == tree[f] # None /\ f \notin ignored

\* What a cold build would have for f.
Fresh(f) == IF InScope(f) THEN tree[f].text ELSE None

CaptureInit ==
    /\ tree \in [Files -> {None} \cup [text : Texts, mtime : {0}]]
    /\ ignored = {} /\ edits = 0 /\ kept = {}
    /\ raw = NoEvents /\ rawIgnore = FALSE /\ boundary = None
    /\ lane = <<>> /\ job = None /\ converging = FALSE
    /\ manifest = [f \in Files |-> None] /\ nodes = [f \in Files |-> None]
    /\ stored = [manifest |-> manifest, nodes |-> nodes]
    /\ known = FALSE /\ watch = FALSE /\ live = FALSE
    /\ phase = "up" /\ restarts = 0
    /\ mishaps \in MishapSets

-----------------------------------------------------------------------------
(* The user *)

\* No coincidence this behaviour excludes.
MayEdit(f) ==
    /\ edits < MaxEdits
    /\ phase \in {"boot", "watchers"} /\ watch => "boot" \in mishaps
    /\ job # None /\ f \in job.index \cup job.removed => "apply" \in mishaps

\* The debouncer takes a file that it holds as created for one it made up.
Cancels(f) == live /\ "create" \in raw[f] /\ "remove" \notin raw[f]

\* The watcher's backend reports a change to the debouncer.  A removal takes
\* earlier events of the file along, also the creation it started with; a
\* modification after a creation is part of it.
Reported(f, kind) ==
    IF ~ live \/ (kind = "modify" /\ Cancels(f)) THEN raw
    ELSE [raw EXCEPT ![f] = IF kind # "remove" THEN @ \cup {kind}
                            ELSE IF Cancels(f) THEN {} ELSE {"remove"}]

Write(f, text, mtime, kind) ==
    /\ MayEdit(f) /\ edits' = edits + 1
    /\ kind = "create" /\ raw[f] # {} => "replace" \in mishaps
    /\ tree' = [tree EXCEPT ![f] = [text |-> text, mtime |-> mtime]]
    /\ raw' = Reported(f, kind)
    /\ UNCHANGED <<ignored, rawIgnore, boundary, live, stateVars, modeVars, lane, job>>

Edit(f, text) ==
    /\ Write(f, text, edits + 1, IF tree[f] = None THEN "create" ELSE "modify")
    /\ kept' = kept \ {f}

\* A restored backup, `touch -r`, `rsync -t`.
EditKeepingTime(f, text) ==
    /\ "mtime" \in mishaps /\ tree[f] # None
    /\ Write(f, text, tree[f].mtime, "modify")
    /\ kept' = kept \cup {f}

Delete(f) ==
    /\ MayEdit(f) /\ tree[f] # None /\ edits' = edits + 1
    /\ Cancels(f) /\ (manifest[f] # None \/ (job # None /\ f \in job.index)) =>
          "cancel" \in mishaps
    /\ tree' = [tree EXCEPT ![f] = None] /\ kept' = kept \ {f}
    /\ raw' = Reported(f, "remove")
    /\ UNCHANGED <<ignored, rawIgnore, boundary, live, stateVars, modeVars, lane, job>>

\* .gitignore excludes a file or lets it in again.
EditIgnore(f) ==
    /\ MayEdit(f) /\ edits' = edits + 1
    /\ ignored' = (ignored \ {f}) \cup ({f} \ ignored)
    /\ rawIgnore' = (rawIgnore \/ live)
    /\ UNCHANGED <<tree, kept, raw, boundary, live, stateVars, modeVars, lane, job>>

UserStep ==
    \/ \E f \in Files, text \in Texts : Edit(f, text) \/ EditKeepingTime(f, text)
    \/ \E f \in Files : Delete(f) \/ EditIgnore(f)

-----------------------------------------------------------------------------
(* The watcher *)

Signal(index, removed) == [op |-> "signal", index |-> index, removed |-> removed]

\* Mutation: a change of .gitignore is one of no file.
RescopeNothing == Signal({}, {})

Rescope == [op |-> "reconcile", index |-> {}, removed |-> {}]

\* classify_events: the files of a batch inside the boundary the watcher has
\* cached, which an event of .gitignore in the same batch renews.
Classified(batch) ==
    {f \in batch : f \notin (IF boundary = None \/ rawIgnore THEN ignored ELSE boundary)}

\* A debounced batch: whatever has been quiet for long enough.  A change of
\* .gitignore asks for a reconcile, before the changes of the files.
Debounce(batch) ==
    LET inside == Classified(batch)
        index == {f \in inside : raw[f] \cap {"create", "modify"} # {}}
        removed == {f \in inside : "remove" \in raw[f]}
    IN  /\ live /\ Len(lane) < MaxQueue
        /\ batch # {} \/ rawIgnore
        /\ raw' = [f \in Files |-> IF f \in batch THEN {} ELSE raw[f]]
        /\ rawIgnore' = FALSE
        /\ boundary' = IF boundary = None \/ rawIgnore THEN ignored ELSE boundary
        /\ lane' = lane \o (IF rawIgnore THEN <<Rescope>> ELSE <<>>)
                          \o (IF index \cup removed = {} THEN <<>>
                              ELSE <<Signal(index, removed)>>)
        /\ UNCHANGED <<treeVars, live, stateVars, modeVars, job>>

-----------------------------------------------------------------------------
(* One apply, under the project's lock *)

\* dedup_file: the mtime of the manifest unless deep, then the hash.
Unchanged(f, deep) ==
    /\ manifest[f] # None /\ tree[f] # None
    /\ \/ ~ deep /\ tree[f].mtime = manifest[f].mtime
       \/ tree[f].text = manifest[f].hash

\* An apply begins: what it indexes and removes was just read off the tree.
Begin(index, removed, deep, client) ==
    /\ job = None
    /\ job' = [index |-> index, removed |-> removed, deep |-> deep, client |-> client,
               at |-> "probe", read |-> manifest, edits |-> edits]

\* gate_changeset: a signal is checked for scope and content; what it removes
\* passes through.
Gated(c) == {f \in c.index : f \notin ignored /\ ~ Unchanged(f, FALSE)}

\* Mutation: only deleted files are drift, not those .gitignore excludes now.
DriftRemovedOfDeleted == {f \in Files : manifest[f] # None /\ tree[f] = None}

\* reconcile: the walk against the manifest.
DriftIndex(deep) == {f \in Files : InScope(f) /\ ~ Unchanged(f, deep)}
DriftRemoved == {f \in Files : manifest[f] # None /\ ~ InScope(f)}

\* The producer lane's next change; that of a project removed since is skipped.
TakeChange ==
    /\ phase = "up" /\ lane # <<>> /\ lane' = Tail(lane)
    /\ LET c == Head(lane) IN
          IF ~ known THEN job = None /\ UNCHANGED job
          ELSE IF c.op = "signal" THEN Begin(Gated(c), c.removed, FALSE, "none")
          ELSE Begin(DriftIndex(FALSE), DriftRemoved, FALSE, "none")
    /\ UNCHANGED <<treeVars, watcherVars, stateVars, modeVars>>

\* `project index`, and the converge of a `watch on`, are deep reconciles.
Index ==
    /\ phase = "up" /\ known
    /\ Begin(DriftIndex(TRUE), DriftRemoved, TRUE, "index")
    /\ UNCHANGED <<treeVars, watcherVars, stateVars, modeVars, lane>>

Converge ==
    /\ phase = "up" /\ converging
    /\ Begin(DriftIndex(TRUE), DriftRemoved, TRUE, "watch")
    /\ UNCHANGED <<treeVars, watcherVars, stateVars, modeVars, lane>>

\* A git hook's change set: the files that differ from an earlier commit, in
\* the state they have now.
Submit ==
    /\ phase = "up" /\ known
    /\ \E c \in [op : {"signal"}, index : SUBSET {f \in Files : tree[f] # None},
                 removed : SUBSET {f \in Files : tree[f] = None}] :
          Begin(Gated(c), c.removed, FALSE, "submit")
    /\ UNCHANGED <<treeVars, watcherVars, stateVars, modeVars, lane>>

\* Nothing to do, or fold_vanished: what has gone meanwhile is a removal.
Probe ==
    /\ job # None /\ job.at = "probe"
    /\ LET gone == {f \in job.index : tree[f] = None} IN
          job' = [job EXCEPT !.at = "read", !.index = @ \ gone, !.removed = @ \cup gone]
    /\ UNCHANGED <<treeVars, watcherVars, stateVars, modeVars, lane>>

\* extract_changed.
Read ==
    /\ job # None /\ job.at = "read"
    /\ \A f \in job.index : tree[f] # None
    /\ job' = [job EXCEPT !.at = "stamp",
                 !.read = [f \in job.index |-> tree[f].text]]
    /\ UNCHANGED <<treeVars, watcherVars, stateVars, modeVars, lane>>

\* A file that went after the probe fails the whole apply; a client is told, a
\* `watch on` keeps the watcher it has started.
ReadFails ==
    /\ job # None /\ job.at = "read"
    /\ \E f \in job.index : tree[f] = None
    /\ job' = None
    /\ converging' = (converging /\ job.client # "watch")
    /\ phase' = IF phase = "boot" THEN "watchers" ELSE phase
    /\ UNCHANGED <<treeVars, watcherVars, stateVars, lane, known, watch, restarts, mishaps>>

\* Mutation: an entry is stamped with what the file was when the apply began.
StampedOld(f) ==
    IF tree[f] = None THEN [hash |-> None, mtime |-> None]
    ELSE [hash |-> IF manifest[f] = None THEN tree[f].text ELSE manifest[f].hash,
          mtime |-> tree[f].mtime]

\* Pipeline::apply stamps an entry with the file as it is now.
Stamped(f) ==
    IF tree[f] = None THEN [hash |-> None, mtime |-> None]
    ELSE [hash |-> tree[f].text, mtime |-> tree[f].mtime]

\* maintain_manifest: entries come before they go.
NewManifest ==
    [f \in Files |-> IF f \in job.removed THEN None
                     ELSE IF f \in job.index THEN Stamped(f) ELSE manifest[f]]

\* The state's nodes of a removed file go, those of an indexed one are new.
NewNodes ==
    [f \in Files |-> IF f \in job.index THEN job.read[f]
                     ELSE IF f \in job.removed THEN None ELSE nodes[f]]

\* Mutation: a project that is not known is marked as watched.
CommittedUnknown ==
    /\ watch' = (watch \/ job.client = "watch")
    /\ UNCHANGED known

\* Exec::run: set_watch fails for a project that is not known any more.
Committed ==
    /\ watch' = (watch \/ (job.client = "watch" /\ known))
    /\ UNCHANGED known

\* The state is recorded; a client's is written through.
Record ==
    /\ job # None /\ job.at = "stamp"
    /\ manifest' = NewManifest /\ nodes' = NewNodes
    /\ stored' = IF job.client # "none"
                 THEN [manifest |-> NewManifest, nodes |-> NewNodes] ELSE stored
    /\ job' = None /\ Committed
    /\ converging' = (converging /\ job.client # "watch")
    /\ phase' = IF phase = "boot" THEN "watchers" ELSE phase
    /\ UNCHANGED <<treeVars, watcherVars, lane, restarts, mishaps>>

ApplyStep == TakeChange \/ Index \/ Converge \/ Submit \/ Probe \/ Read \/ ReadFails \/ Record

-----------------------------------------------------------------------------
(* Watch mode and restarts *)

StopWatcher ==
    /\ live' = FALSE /\ raw' = NoEvents /\ rawIgnore' = FALSE /\ boundary' = None
    /\ \E n \in 0 .. Len(lane) : lane' = SubSeq(lane, 1, n)
    /\ (\E i \in 1 .. Len(lane') : lane'[i].removed # {}) => "stale" \in mishaps

Register ==
    /\ phase = "up" /\ ~ known /\ known' = TRUE /\ watch' = FALSE
    /\ UNCHANGED <<treeVars, watcherVars, stateVars, lane, job, phase, restarts,
                   converging, mishaps>>

\* No `watch on` is under way, or this behaviour has that coincidence.
VerbsMayMeet == converging => "verbs" \in mishaps

Unregister ==
    /\ phase = "up" /\ known /\ VerbsMayMeet
    /\ known' = FALSE /\ watch' = FALSE /\ StopWatcher
    /\ UNCHANGED <<treeVars, stateVars, job, phase, restarts, converging, mishaps>>

\* plan_watch: the watcher starts first, its events wait for the converge.
PlanWatchOn ==
    /\ phase = "up" /\ known /\ ~ live /\ ~ converging
    /\ live' = TRUE /\ converging' = TRUE
    /\ UNCHANGED <<treeVars, raw, rawIgnore, boundary, stateVars, lane, job, phase,
                   restarts, known, watch, mishaps>>

\* Mutation: the flag of the registry stays.
PlanWatchOffKeepsFlag ==
    /\ phase = "up" /\ known /\ live /\ VerbsMayMeet /\ StopWatcher
    /\ UNCHANGED <<treeVars, stateVars, job, phase, restarts, converging, known,
                   watch, mishaps>>

PlanWatchOff ==
    /\ phase = "up" /\ known /\ (live \/ watch) /\ VerbsMayMeet
    /\ watch' = FALSE /\ StopWatcher
    /\ UNCHANGED <<treeVars, stateVars, job, phase, restarts, converging, known,
                   mishaps>>

\* The write-behind driver.
FlushState ==
    /\ phase = "up" /\ job = None
    /\ stored # [manifest |-> manifest, nodes |-> nodes]
    /\ stored' = [manifest |-> manifest, nodes |-> nodes]
    /\ UNCHANGED <<treeVars, watcherVars, manifest, nodes, modeVars, lane, job>>

\* startup_reconcile: cheap when the marker vouches for the last shutdown.
DeepAfter(clean) == ~ clean

\* The daemon stops in an orderly way, which flushes, or dies, and is started
\* again; the project is reconciled if it is watched.
Restart(clean) ==
    /\ phase = "up" /\ restarts < MaxRestarts /\ restarts' = restarts + 1
    /\ clean => job = None /\ lane = <<>> /\ ~ converging
    /\ LET s == IF clean THEN [manifest |-> manifest, nodes |-> nodes] ELSE stored IN
          /\ stored' = s /\ manifest' = s.manifest /\ nodes' = s.nodes
    /\ live' = FALSE /\ raw' = NoEvents /\ rawIgnore' = FALSE /\ boundary' = None
    /\ lane' = <<>> /\ converging' = FALSE /\ job' = None
    /\ phase' = IF watch THEN IF DeepAfter(clean) THEN "deep" ELSE "cheap"
                ELSE "watchers"
    /\ UNCHANGED <<treeVars, known, watch, mishaps>>

StartupReconcile ==
    /\ phase \in {"deep", "cheap"}
    /\ LET deep == phase = "deep" IN Begin(DriftIndex(deep), DriftRemoved, deep, "startup")
    /\ phase' = "boot"
    /\ UNCHANGED <<treeVars, watcherVars, stateVars, lane, known, watch, restarts,
                   converging, mishaps>>

StartAllWatchers ==
    /\ phase = "watchers" /\ phase' = "up" /\ live' = watch
    /\ UNCHANGED <<treeVars, raw, rawIgnore, boundary, stateVars, lane, job, known,
                   watch, restarts, converging, mishaps>>

ModeStep ==
    \/ Register \/ Unregister \/ PlanWatchOn \/ PlanWatchOff \/ FlushState
    \/ \E clean \in BOOLEAN : Restart(clean)
    \/ StartupReconcile \/ StartAllWatchers

CaptureNext ==
    \/ UserStep \/ ApplyStep \/ ModeStep
    \/ \E batch \in SUBSET {f \in Files : raw[f] # {}} : Debounce(batch)

CaptureSpec == CaptureInit /\ [][CaptureNext]_captureVars

-----------------------------------------------------------------------------
(* Properties *)

\* Type invariant.
CaptureTypeOK ==
    /\ tree \in [Files -> FileStates \cup {None}]
    /\ ignored \subseteq Files /\ kept \subseteq Files /\ edits \in 0 .. MaxEdits
    /\ raw \in [Files -> SUBSET Kinds] /\ {rawIgnore, live, watch, known} \subseteq BOOLEAN
    /\ Len(lane) <= MaxQueue + 1
    /\ manifest \in [Files -> Entries] /\ nodes \in [Files -> Texts \cup {None}]
    /\ job \in ApplyJobs \cup {None}
    /\ phase \in {"up", "deep", "cheap", "boot", "watchers"}
    /\ watch => known
    /\ ~ live => raw = NoEvents /\ ~ rawIgnore /\ boundary = None

\* Nothing is on its way into the graph of a watched project.
Settled ==
    /\ phase = "up" /\ live /\ watch /\ ~ converging
    /\ job = None /\ lane = <<>> /\ raw = NoEvents /\ ~ rawIgnore

(***************************************************************************)
(* Once everything the watcher has seen is applied, the graph of a watched *)
(* project is the graph of its tree, whatever was edited before, during    *)
(* and after the converge of its `watch on`, while the daemon was down, or  *)
(* excluded by .gitignore and let in again (daemon.rs plan_watch, "nothing *)
(* written during the converge is lost").                                  *)
(***************************************************************************)
NothingWrittenIsLost == Settled => \A f \in Files \ kept : nodes[f] = Fresh(f)

WatchedIsFresh ==
    mishaps \cap {"apply", "replace", "cancel", "stale", "boot"} = {} => NothingWrittenIsLost

(***************************************************************************)
(* An entry of the manifest vouches for the nodes of its file: they are    *)
(* those of the content it names, so that skipping the file is right       *)
(* (gate_changeset, "its prior nodes stay in place - identical to a cold   *)
(* build").  Every file with nodes has one, without which a reconcile     *)
(* cannot find out that it has gone (the pass over the manifest's keys).   *)
(***************************************************************************)
ManifestVouches ==
    \A f \in Files :
        /\ "apply" \notin mishaps /\ manifest[f] # None => nodes[f] = manifest[f].hash
        /\ "replace" \notin mishaps /\ nodes[f] # None => manifest[f] # None

(***************************************************************************)
(* A deep reconcile converges from any state, mtimes or not: if nobody     *)
(* edits while it runs, the graph it records is that of the tree           *)
(* (reconcile.rs, "deep rehash").                                          *)
(***************************************************************************)
DeepConverges ==
    [][job # None /\ job' = None /\ restarts' = restarts =>
         (job.deep /\ job.at = "stamp" /\ edits = job.edits
              /\ mishaps \cap {"apply", "replace"} = {} =>
            \A f \in Files : nodes'[f] = Fresh(f))]_captureVars

(***************************************************************************)
(* The watch flag of the registry says what the daemon does: a project     *)
(* marked watched has a watcher, and a watcher outlives a restart (daemon.rs *)
(* plan_watch, start_all_watchers).                                        *)
(***************************************************************************)
WatchFlagAgrees ==
    phase = "up" /\ ~ converging /\ mishaps \cap {"verbs", "apply"} = {} =>
        (live <=> watch)
=============================================================================
