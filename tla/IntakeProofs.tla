---------------------------- MODULE IntakeProofs ----------------------------
(***************************************************************************)
(* Theorems about the two ways a change comes into the graph.  Of module   *)
(* Capture, for every set of files and texts, every bound and every choice *)
(* of coincidences: its types, that an entry of the manifest vouches for   *)
(* its nodes, that the watch flag says what the daemon does, that a deep   *)
(* reconcile converges.  Of module HookDelivery, for any hooks, any cap of *)
(* the spool and any job files of other builds: that no job is lost        *)
(* silently or delivered out of order.                                     *)
(***************************************************************************)
EXTENDS Capture, HookDelivery, SequencesExt, FiniteSetTheorems, SequenceTheorems,
        WellFoundedInduction, TLAPS

-----------------------------------------------------------------------------
(* Capture *)

Changes == [op : {"signal", "reconcile"}, index : SUBSET Files, removed : SUBSET Files]
Images == [manifest : [Files -> Entries], nodes : [Files -> Texts \cup {None}]]

\* What CaptureTypeOK leaves open: the lane, the disk, the extraction.
LaneTypeOK ==
    /\ lane \in Seq(Changes) /\ stored \in Images
    /\ boundary \in {None} \cup SUBSET Files
    /\ restarts \in Nat /\ converging \in BOOLEAN
    /\ job # None /\ job.at = "stamp" => job.read \in [job.index -> Texts]
    /\ phase # "up" => ~ live

TypeInv == CaptureTypeOK /\ LaneTypeOK

-----------------------------------------------------------------------------
(* Type correctness *)

\* The manifest and the nodes of a project without any are of their types, as is what an apply makes
\* of them (maintain_manifest).
LEMMA ImageTypes ==
    ASSUME TypeInv
    PROVE  /\ \A f \in Files : Fresh(f) \in Texts \cup {None} /\ Stamped(f) \in Stamps
           /\ job # None => NewManifest \in [Files -> Entries]
           /\ job # None /\ job.at = "stamp" => NewNodes \in [Files -> Texts \cup {None}]
<1>1. \A f \in Files : tree[f] # None => tree[f] \in FileStates
  BY DEF TypeInv, CaptureTypeOK
<1>2. \A f \in Files : Fresh(f) \in Texts \cup {None} /\ Stamped(f) \in Stamps
  BY <1>1 DEF Fresh, InScope, Stamped, FileStates, Stamps
<1>3. ASSUME job # None PROVE NewManifest \in [Files -> Entries]
  BY <1>2, <1>3 DEF NewManifest, TypeInv, CaptureTypeOK, Entries
<1>4. ASSUME job # None, job.at = "stamp" PROVE NewNodes \in [Files -> Texts \cup {None}]
  <2>1. job \in ApplyJobs /\ job.read \in [job.index -> Texts]
    BY <1>4 DEF TypeInv, CaptureTypeOK, LaneTypeOK
  <2> QED BY <2>1 DEF NewNodes, TypeInv, CaptureTypeOK
<1> QED BY <1>2, <1>3, <1>4

\* What an apply is begun with is a set of files.
LEMMA BegunType ==
    ASSUME TypeInv, NEW index \in SUBSET Files, NEW removed \in SUBSET Files,
           NEW deep \in BOOLEAN, NEW client \in Clients, Begin(index, removed, deep, client)
    PROVE  job' \in ApplyJobs /\ job'.at = "probe"
BY DEF Begin, ApplyJobs, TypeInv, CaptureTypeOK, Times

\* The reconciles find files.
LEMMA DriftType ==
    /\ \A deep : DriftIndex(deep) \in SUBSET Files
    /\ DriftRemoved \in SUBSET Files
BY DEF DriftIndex, DriftRemoved

\* The user's edits keep the types.
LEMMA UserType == ASSUME TypeInv, UserStep PROVE TypeInv'
<1> USE BoundsAssumption
<1>1. ASSUME NEW f \in Files, MayEdit(f), edits' = edits + 1
      PROVE  edits' \in Times /\ (edits + 1) \in Times
  BY <1>1 DEF MayEdit, Times, TypeInv, CaptureTypeOK
<1>2. ASSUME NEW f \in Files, NEW kind \in Kinds
      PROVE  /\ Reported(f, kind) \in [Files -> SUBSET Kinds]
             /\ ~ live => Reported(f, kind) = NoEvents
  BY DEF Reported, TypeInv, CaptureTypeOK, Kinds
<1>3. ASSUME NEW f \in Files, NEW text \in Texts, NEW mtime \in Times, NEW kind \in Kinds,
             Write(f, text, mtime, kind), kept' \subseteq Files
      PROVE  TypeInv'
  <2>1. tree' \in [Files -> FileStates \cup {None}]
    BY <1>3 DEF Write, TypeInv, CaptureTypeOK, FileStates
  <2> QED
    BY <1>1, <1>2, <1>3, <2>1 DEF Write, TypeInv, CaptureTypeOK, LaneTypeOK, stateVars, modeVars,
       Times
<1>4. ASSUME NEW f \in Files, NEW text \in Texts, Edit(f, text) PROVE TypeInv'
  <2>1. MayEdit(f) /\ edits' = edits + 1 /\ kept' \subseteq Files
    BY <1>4 DEF Edit, Write, TypeInv, CaptureTypeOK
  <2>2. (IF tree[f] = None THEN "create" ELSE "modify") \in Kinds BY DEF Kinds
  <2> QED BY <1>1, <1>3, <1>4, <2>1, <2>2 DEF Edit
<1>5. ASSUME NEW f \in Files, NEW text \in Texts, EditKeepingTime(f, text) PROVE TypeInv'
  <2>1. tree[f].mtime \in Times /\ kept' \subseteq Files
    BY <1>5 DEF EditKeepingTime, TypeInv, CaptureTypeOK, FileStates
  <2>2. "modify" \in Kinds BY DEF Kinds
  <2> QED BY <1>3, <1>5, <2>1, <2>2 DEF EditKeepingTime
<1>6. ASSUME NEW f \in Files, Delete(f) PROVE TypeInv'
  <2>1. MayEdit(f) /\ edits' = edits + 1 BY <1>6 DEF Delete
  <2>2. "remove" \in Kinds BY DEF Kinds
  <2>3. tree' \in [Files -> FileStates \cup {None}] BY <1>6 DEF Delete, TypeInv, CaptureTypeOK
  <2> QED
    BY <1>1, <1>2, <1>6, <2>1, <2>2, <2>3 DEF Delete, TypeInv, CaptureTypeOK, LaneTypeOK,
       stateVars, modeVars, Times
<1>7. ASSUME NEW f \in Files, EditIgnore(f) PROVE TypeInv'
  <2>1. MayEdit(f) /\ edits' = edits + 1 BY <1>7 DEF EditIgnore
  <2>2. ignored' \subseteq Files /\ rawIgnore' \in BOOLEAN /\ (~ live => ~ rawIgnore')
    BY <1>7 DEF EditIgnore, TypeInv, CaptureTypeOK
  <2> QED
    BY <1>1, <1>7, <2>1, <2>2 DEF EditIgnore, TypeInv, CaptureTypeOK, LaneTypeOK, stateVars,
       modeVars, Times
<1> QED BY <1>4, <1>5, <1>6, <1>7 DEF UserStep

\* So does a batch: the boundary the watcher renews is the ignored files, and the two changes it may
\* send are of files.
LEMMA DebounceType ==
    ASSUME TypeInv, NEW batch \in SUBSET Files, Debounce(batch) PROVE TypeInv'
<1> DEFINE inside == Classified(batch)
           index == {f \in inside : raw[f] \cap {"create", "modify"} # {}}
           removed == {f \in inside : "remove" \in raw[f]}
           first == IF rawIgnore THEN <<Rescope>> ELSE <<>>
           second == IF index \cup removed = {} THEN <<>> ELSE <<Signal(index, removed)>>
<1>1. lane' = lane \o first \o second BY DEF Debounce
<1>2. index \in SUBSET Files /\ removed \in SUBSET Files BY DEF Classified
<1>3. Rescope \in Changes /\ Signal(index, removed) \in Changes
  BY <1>2 DEF Rescope, Signal, Changes
<1>4. first \in Seq(Changes) /\ Len(first) <= 1 BY <1>3
<1>5. second \in Seq(Changes) /\ Len(second) <= 1 BY <1>3
<1>6. lane \in Seq(Changes) /\ Len(lane) < MaxQueue BY DEF Debounce, TypeInv, LaneTypeOK
<1> HIDE DEF first, second
<1>7. lane' \in Seq(Changes) /\ Len(lane') <= MaxQueue + 1
  BY <1>1, <1>4, <1>5, <1>6, BoundsAssumption
<1>8. raw' \in [Files -> SUBSET Kinds] /\ boundary' \in {None} \cup SUBSET Files
  BY DEF Debounce, TypeInv, CaptureTypeOK, LaneTypeOK
<1> QED
  BY <1>7, <1>8 DEF Debounce, TypeInv, CaptureTypeOK, LaneTypeOK, treeVars, stateVars, modeVars

\* So do the steps that begin an apply.
LEMMA BeginType ==
    ASSUME TypeInv, TakeChange \/ Index \/ Converge \/ Submit \/ StartupReconcile
    PROVE  TypeInv'
<1>1. ASSUME job' \in ApplyJobs, job'.at = "probe", lane' \in Seq(Changes),
             Len(lane') <= MaxQueue + 1, phase' \in {"up", "deep", "cheap", "boot", "watchers"},
             phase' # "up" => phase # "up",
             UNCHANGED <<treeVars, watcherVars, stateVars, known, watch, restarts, converging>>
      PROVE  TypeInv'
  BY <1>1 DEF TypeInv, CaptureTypeOK, LaneTypeOK, treeVars, watcherVars, stateVars
<1>2. lane \in Seq(Changes) /\ Len(lane) <= MaxQueue + 1
  BY DEF TypeInv, CaptureTypeOK, LaneTypeOK
<1>3. CASE TakeChange
  <2>1. Head(lane) \in Changes /\ Tail(lane) \in Seq(Changes) /\ Len(Tail(lane)) <= MaxQueue + 1
    BY <1>2, <1>3, BoundsAssumption DEF TakeChange
  <2>2. CASE ~ known
    BY <1>3, <2>1, <2>2 DEF TakeChange, TypeInv, CaptureTypeOK, LaneTypeOK, treeVars, watcherVars,
       stateVars, modeVars
  <2>3. CASE known
    <3>1. Gated(Head(lane)) \in SUBSET Files /\ Head(lane).removed \in SUBSET Files
      BY <2>1 DEF Gated, Changes
    <3>2. job' \in ApplyJobs /\ job'.at = "probe"
      BY <1>3, <2>3, <3>1, BegunType, DriftType DEF TakeChange, Clients
    <3> QED
      BY <1>1, <1>2, <1>3, <2>1, <3>2 DEF TakeChange, modeVars, TypeInv, CaptureTypeOK
  <2> QED BY <2>2, <2>3 DEF TypeInv, CaptureTypeOK
<1>4. CASE Index
  BY <1>1, <1>2, <1>4, BegunType, DriftType DEF Index, modeVars, TypeInv, CaptureTypeOK, Clients
<1>5. CASE Converge
  BY <1>1, <1>2, <1>5, BegunType, DriftType DEF Converge, modeVars, TypeInv, CaptureTypeOK, Clients
<1>6. CASE Submit
  <2>1. PICK c \in [op : {"signal"}, index : SUBSET {f \in Files : tree[f] # None},
                    removed : SUBSET {f \in Files : tree[f] = None}] :
               Begin(Gated(c), c.removed, FALSE, "submit")
    BY <1>6 DEF Submit
  <2>2. Gated(c) \in SUBSET Files /\ c.removed \in SUBSET Files BY DEF Gated
  <2> QED
    BY <1>1, <1>2, <1>6, <2>1, <2>2, BegunType DEF Submit, modeVars, TypeInv, CaptureTypeOK, Clients
<1>7. CASE StartupReconcile
  BY <1>1, <1>2, <1>7, BegunType, DriftType DEF StartupReconcile, TypeInv, CaptureTypeOK, Clients
<1> QED BY <1>3, <1>4, <1>5, <1>6, <1>7

\* An extraction has read a text of every file it was to index.
LEMMA ReadJob ==
    ASSUME TypeInv, Read
    PROVE  job' \in ApplyJobs /\ job' # None /\ job'.read \in [job'.index -> Texts]
<1> DEFINE text == [f \in job.index |-> tree[f].text]
<1>1. job \in ApplyJobs BY DEF TypeInv, CaptureTypeOK, Read
<1>2. text \in [job.index -> Texts]
  BY <1>1 DEF Read, TypeInv, CaptureTypeOK, FileStates, ApplyJobs
<1>3. text \in UNION {[S -> Texts] : S \in SUBSET Files} BY <1>1, <1>2 DEF ApplyJobs
<1>4. job' = [job EXCEPT !.at = "stamp", !.read = text] BY DEF Read
<1> HIDE DEF text
<1>5. job' \in ApplyJobs /\ job'.index = job.index /\ job'.read = text
  BY <1>1, <1>3, <1>4 DEF ApplyJobs
<1> QED BY <1>2, <1>5, NoneAssumption

\* So do the steps an apply takes from there.
LEMMA ApplyType ==
    ASSUME TypeInv, Probe \/ Read \/ ReadFails \/ Record PROVE TypeInv'
<1>1. job \in ApplyJobs BY DEF TypeInv, CaptureTypeOK, Probe, Read, ReadFails, Record
<1>2. CASE Probe
  <2>1. job' \in ApplyJobs /\ job'.at # "stamp" BY <1>1, <1>2 DEF Probe, ApplyJobs
  <2> QED
    BY <1>2, <2>1 DEF Probe, TypeInv, CaptureTypeOK, LaneTypeOK, treeVars, watcherVars, stateVars,
       modeVars
<1>3. CASE Read
  BY <1>3, ReadJob DEF Read, TypeInv, CaptureTypeOK, LaneTypeOK, treeVars, watcherVars, stateVars,
     modeVars
<1>4. CASE ReadFails
  BY <1>4 DEF ReadFails, TypeInv, CaptureTypeOK, LaneTypeOK, treeVars, watcherVars, stateVars
<1>5. CASE Record
  <2>1. NewManifest \in [Files -> Entries] /\ NewNodes \in [Files -> Texts \cup {None}]
    BY <1>5, ImageTypes DEF Record
  <2>2. stored' \in Images BY <1>5, <2>1 DEF Record, Images, TypeInv, LaneTypeOK
  <2>3. watch' \in BOOLEAN /\ (watch' => known)
    BY <1>5 DEF Record, Committed, TypeInv, CaptureTypeOK
  <2> QED
    BY <1>5, <2>1, <2>2, <2>3 DEF Record, Committed, TypeInv, CaptureTypeOK, LaneTypeOK, treeVars,
       watcherVars
<1> QED BY <1>2, <1>3, <1>4, <1>5

\* What is left of the lane when a watcher is stopped.
LEMMA LaneCut ==
    ASSUME TypeInv, StopWatcher
    PROVE  /\ lane' \in Seq(Changes) /\ Len(lane') <= Len(lane)
           /\ \A i \in 1 .. Len(lane') : lane'[i] = lane[i]
<1>1. lane \in Seq(Changes) BY DEF TypeInv, LaneTypeOK
<1>2. PICK n \in 0 .. Len(lane) : lane' = SubSeq(lane, 1, n) BY DEF StopWatcher
<1> QED BY <1>1, <1>2

\* And the steps of watch mode, of the write-behind driver and of a restart.
LEMMA ModeType ==
    ASSUME TypeInv, NEW clean \in BOOLEAN,
           \/ Register \/ Unregister \/ PlanWatchOn \/ PlanWatchOff \/ FlushState
           \/ Restart(clean) \/ StartAllWatchers
    PROVE  TypeInv'
<1>1. CASE Register BY <1>1
      DEF Register, watcherVars, stateVars, TypeInv, CaptureTypeOK, LaneTypeOK, treeVars
<1>2. ASSUME StopWatcher
      PROVE  /\ raw' \in [Files -> SUBSET Kinds] /\ rawIgnore' \in BOOLEAN /\ live' \in BOOLEAN
             /\ raw' = NoEvents /\ rawIgnore' = FALSE /\ boundary' = None
             /\ lane' \in Seq(Changes) /\ Len(lane') <= MaxQueue + 1
  <2>1. lane' \in Seq(Changes) /\ Len(lane') <= Len(lane) BY <1>2, LaneCut
  <2>2. lane \in Seq(Changes) /\ Len(lane) <= MaxQueue + 1 /\ MaxQueue \in Nat
    BY BoundsAssumption DEF TypeInv, CaptureTypeOK, LaneTypeOK
  <2>3. Len(lane') <= MaxQueue + 1 BY <2>1, <2>2
  <2> QED BY <1>2, <2>1, <2>3 DEF StopWatcher, NoEvents
<1>3. CASE Unregister BY <1>2, <1>3
      DEF Unregister, stateVars, TypeInv, CaptureTypeOK, LaneTypeOK, treeVars
<1>4. CASE PlanWatchOn BY <1>4
      DEF PlanWatchOn, stateVars, TypeInv, CaptureTypeOK, LaneTypeOK, treeVars
<1>5. CASE PlanWatchOff BY <1>2, <1>5
      DEF PlanWatchOff, stateVars, TypeInv, CaptureTypeOK, LaneTypeOK, treeVars
<1>6. CASE FlushState BY <1>6
      DEF FlushState, Images, watcherVars, modeVars, TypeInv, CaptureTypeOK, LaneTypeOK, treeVars
<1>7. CASE Restart(clean)
  <2> DEFINE image == IF clean THEN [manifest |-> manifest, nodes |-> nodes] ELSE stored
  <2>1. image \in Images BY DEF Images, TypeInv, CaptureTypeOK, LaneTypeOK
  <2>2. stored' = image /\ manifest' = image.manifest /\ nodes' = image.nodes
    BY <1>7 DEF Restart
  <2> HIDE DEF image
  <2>3. stored' \in Images /\ manifest' \in [Files -> Entries]
           /\ nodes' \in [Files -> Texts \cup {None}]
    BY <2>1, <2>2 DEF Images
  <2>4. lane' \in Seq(Changes) /\ Len(lane') <= MaxQueue + 1 /\ restarts' \in Nat
    BY <1>7, BoundsAssumption DEF Restart, TypeInv, LaneTypeOK
  <2>5. phase' \in {"up", "deep", "cheap", "boot", "watchers"}
    BY <1>7 DEF Restart
  <2>6. job' = None /\ converging' = FALSE /\ raw' = NoEvents /\ rawIgnore' = FALSE
           /\ boundary' = None /\ live' = FALSE
    BY <1>7 DEF Restart
  <2>7. UNCHANGED <<tree, ignored, edits, kept, known, watch>> BY <1>7 DEF Restart, treeVars
  <2>8. raw' \in [Files -> SUBSET Kinds] /\ (~ live' => raw' = NoEvents /\ ~ rawIgnore' /\ boundary' = None)
    BY <2>6 DEF NoEvents
  <2>9. CaptureTypeOK'
    BY <2>3, <2>4, <2>5, <2>6, <2>7, <2>8 DEF TypeInv, CaptureTypeOK
  <2>10. LaneTypeOK' BY <2>3, <2>4, <2>6 DEF LaneTypeOK
  <2> QED BY <2>9, <2>10 DEF TypeInv
<1>8. CASE StartAllWatchers BY <1>8
      DEF StartAllWatchers, stateVars, TypeInv, CaptureTypeOK, LaneTypeOK, treeVars
<1> QED BY <1>1, <1>3, <1>4, <1>5, <1>6, <1>7, <1>8

\* The program starts with values of the types.
LEMMA InitType == ASSUME CaptureInit PROVE TypeInv
<1>1. tree \in [Files -> FileStates \cup {None}] /\ edits \in 0 .. MaxEdits
  BY BoundsAssumption DEF CaptureInit, FileStates, Times
<1>2. lane \in Seq(Changes) /\ Len(lane) <= MaxQueue + 1 /\ restarts \in Nat
  BY BoundsAssumption DEF CaptureInit
<1>3. manifest \in [Files -> Entries] /\ nodes \in [Files -> Texts \cup {None}] /\ stored \in Images
  BY DEF CaptureInit, Entries, Images
<1> QED BY <1>1, <1>2, <1>3 DEF CaptureInit, TypeInv, CaptureTypeOK, LaneTypeOK, NoEvents

\* Every step keeps the types.
LEMMA StepType == ASSUME TypeInv, [CaptureNext]_captureVars PROVE TypeInv'
<1>1. CASE UNCHANGED captureVars
  BY <1>1 DEF TypeInv, CaptureTypeOK, LaneTypeOK, captureVars, treeVars, watcherVars, stateVars, modeVars
<1>2. CASE ApplyStep BY <1>2, BeginType, ApplyType DEF ApplyStep
<1>3. CASE ModeStep BY <1>3, BeginType, ModeType DEF ModeStep
<1>4. ASSUME NEW batch \in SUBSET {f \in Files : raw[f] # {}}, Debounce(batch) PROVE TypeInv'
  BY <1>4, DebounceType
<1> QED BY <1>1, <1>2, <1>3, <1>4, UserType DEF CaptureNext

(***************************************************************************)
(* The types, of the parts of the state and of the changes in the lane and *)
(* the extraction an apply carries from one step to the next.              *)
(***************************************************************************)
THEOREM CaptureTypeCorrect == CaptureSpec => []CaptureTypeOK
<1>1. TypeInv => CaptureTypeOK BY DEF TypeInv
<1> QED BY <1>1, InitType, StepType, PTL DEF CaptureSpec

-----------------------------------------------------------------------------
(* What makes them true, without the coincidences named *)

Without(what) == mishaps \cap what = {}

\* What an apply has probed and read is still so.
Steady ==
    Without({"apply"}) /\ job # None =>
        /\ job.at # "probe" => \A f \in job.index : tree[f] # None
        /\ job.at = "stamp" => \A f \in job.index : job.read[f] = tree[f].text

\* No file is indexed and removed by one change: what is reported as removed has gone.
Disjoint ==
    Without({"replace"}) =>
        /\ \A f \in Files : "remove" \in raw[f] => raw[f] = {"remove"} /\ tree[f] = None
        /\ \A i \in 1 .. Len(lane) : lane[i].index \cap lane[i].removed = {}
        /\ job # None => job.index \cap job.removed = {}

\* The entries of an image of the state, resident or on disk, vouch for its nodes.
Vouches(m, n) ==
    \A f \in Files : /\ Without({"apply"}) /\ m[f] # None => n[f] = m[f].hash
                     /\ Without({"replace"}) /\ n[f] # None => m[f] # None

VouchInv == Steady /\ Disjoint /\ Vouches(manifest, nodes) /\ Vouches(stored.manifest, stored.nodes)

\* A converge runs for a `watch on` that waits for it, of a project with a watcher.
FlagInv ==
    /\ job # None /\ job.client = "watch" => converging
    /\ converging => phase = "up"
    /\ live => known
    /\ Without({"verbs", "apply"}) =>
          /\ converging => live /\ known
          /\ phase = "up" /\ ~ converging => (live <=> watch)

\* A deep reconcile nobody has interfered with is about the drift there is.
DeepInv ==
    job # None =>
        /\ job.edits <= edits
        /\ job.deep /\ edits = job.edits =>
              /\ job.index = DriftIndex(TRUE) /\ job.removed = DriftRemoved
              /\ job.at = "stamp" => \A f \in job.index : job.read[f] = tree[f].text

-----------------------------------------------------------------------------
(* Why a watched project is fresh *)

Coincidences == {"apply", "replace", "cancel", "stale", "boot"}

\* An mtime that is that of the entry vouches for the content, of a file that was not written in a
\* way that leaves it alone.
TimesVouch(m) ==
    \A f \in Files : m[f] # None =>
        /\ m[f].mtime \in 0 .. edits
        /\ tree[f] # None /\ f \notin kept /\ tree[f].mtime = m[f].mtime => m[f].hash = tree[f].text

\* The graph's text of f when the apply that runs has ended.
NodesAfter(f) ==
    IF job # None /\ f \in job.index THEN IF tree[f] = None THEN None ELSE tree[f].text
    ELSE IF job # None /\ f \in job.removed THEN None ELSE nodes[f]

Good(f) == (f \in kept /\ InScope(f)) \/ NodesAfter(f) = Fresh(f)

\* A batch to come has a change that makes f good.
Reporting(f) == rawIgnore \/ (raw[f] # {} /\ f \notin ignored)

\* A change of the lane makes f good, or takes its nodes away though it is there.
Fixes(c, f) ==
    \/ c.op = "reconcile"
    \/ f \in c.index /\ f \notin ignored
    \/ f \in c.removed /\ Fresh(f) = None
Spoils(c, f) == c.op = "signal" /\ f \in c.removed /\ Fresh(f) # None

\* A converge or a reconcile at startup has not begun.
ToConverge ==
    \/ converging /\ ~ (job # None /\ job.client = "watch")
    \/ phase \in {"deep", "cheap"}

LaneMends(f) ==
    live => \/ Reporting(f)
            \/ \A i \in 1 .. Len(lane) : Spoils(lane[i], f) =>
                  \E j \in i + 1 .. Len(lane) : Fixes(lane[j], f)

Coming(f) ==
    live \/ (phase # "up" /\ watch) =>
        \/ Reporting(f) \/ ToConverge \/ Good(f)
        \/ \E i \in 1 .. Len(lane) : Fixes(lane[i], f)

\* The clock has seen every mtime, and the mtime of an entry vouches for its content.
Timely ==
    /\ \A f \in Files : tree[f] # None => tree[f].mtime <= edits
    /\ TimesVouch(manifest) /\ TimesVouch(stored.manifest)

\* What the watcher believes of .gitignore is true, and nothing it had reported as removed is left in
\* the lane when it stops.
Watching ==
    /\ live /\ boundary # None /\ ~ rawIgnore => boundary = ignored
    /\ phase # "up" => lane = <<>>
    /\ ~ live => \A i \in 1 .. Len(lane) : lane[i].removed = {}

FreshInv ==
    Without(Coincidences) =>
        Timely /\ Watching /\ \A f \in Files : LaneMends(f) /\ Coming(f)

-----------------------------------------------------------------------------
(* What steps leave alone *)

\* The coincidences of a behaviour are chosen at its start, and only the user changes the tree.
LEMMA LeftAlone ==
    ASSUME [CaptureNext]_captureVars
    PROVE  /\ mishaps' = mishaps
           /\ ~ UserStep => UNCHANGED treeVars
<1>1. CASE UNCHANGED captureVars BY <1>1 DEF captureVars, modeVars
<1>2. CASE UserStep
  BY <1>2 DEF UserStep, Edit, EditKeepingTime, Write, Delete, EditIgnore, modeVars
<1>3. CASE ApplyStep
  BY <1>3 DEF ApplyStep, TakeChange, Index, Converge, Submit, Probe, Read, ReadFails, Record, modeVars
<1>4. CASE ModeStep
  BY <1>4 DEF ModeStep, Register, Unregister, PlanWatchOn, PlanWatchOff, FlushState, Restart,
     StartupReconcile, StartAllWatchers, modeVars
<1>5. ASSUME NEW batch \in SUBSET {f \in Files : raw[f] # {}}, Debounce(batch)
      PROVE  mishaps' = mishaps /\ UNCHANGED treeVars
  BY <1>5 DEF Debounce, modeVars
<1> QED BY <1>1, <1>2, <1>3, <1>4, <1>5 DEF CaptureNext

\* An edit is of one file: its content, its events, or whether it is ignored.
LEMMA UserEffect ==
    ASSUME TypeInv, UserStep
    PROVE  \E f \in Files :
              /\ MayEdit(f) /\ edits' = edits + 1
              /\ UNCHANGED <<boundary, live, stateVars, modeVars, lane, job>>
              /\ \A g \in Files \ {f} :
                    /\ tree'[g] = tree[g] /\ raw'[g] = raw[g]
                    /\ g \in ignored' <=> g \in ignored
                    /\ g \in kept' <=> g \in kept
              /\ \/ \E text \in Texts : Edit(f, text) \/ EditKeepingTime(f, text)
                 \/ Delete(f) \/ EditIgnore(f)
<1>1. ASSUME NEW f \in Files, NEW kind
      PROVE  \A g \in Files \ {f} : Reported(f, kind)[g] = raw[g]
  BY DEF Reported, TypeInv, CaptureTypeOK
<1>2. ASSUME NEW f \in Files, NEW text \in Texts, NEW mtime, NEW kind, Write(f, text, mtime, kind)
      PROVE  /\ MayEdit(f) /\ edits' = edits + 1 /\ ignored' = ignored
             /\ UNCHANGED <<boundary, live, stateVars, modeVars, lane, job>>
             /\ \A g \in Files \ {f} : tree'[g] = tree[g] /\ raw'[g] = raw[g]
  BY <1>1, <1>2 DEF Write, TypeInv, CaptureTypeOK
<1>3. CASE \E f \in Files, text \in Texts : Edit(f, text) \/ EditKeepingTime(f, text)
  <2>1. PICK f \in Files, text \in Texts : Edit(f, text) \/ EditKeepingTime(f, text) BY <1>3
  <2>2. \A g \in Files \ {f} : g \in kept' <=> g \in kept
    BY <2>1 DEF Edit, EditKeepingTime
  <2>3. \E mtime, kind : Write(f, text, mtime, kind) BY <2>1 DEF Edit, EditKeepingTime
  <2> QED BY <1>2, <2>1, <2>2, <2>3
<1>4. CASE \E f \in Files : Delete(f)
  <2>1. PICK f \in Files : Delete(f) BY <1>4
  <2>2. \A g \in Files \ {f} : tree'[g] = tree[g] /\ (g \in kept' <=> g \in kept)
    BY <2>1 DEF Delete, TypeInv, CaptureTypeOK
  <2>3. \A g \in Files \ {f} : raw'[g] = raw[g] BY <1>1, <2>1 DEF Delete
  <2> QED BY <2>1, <2>2, <2>3 DEF Delete
<1>5. CASE \E f \in Files : EditIgnore(f)
  BY <1>5 DEF EditIgnore
<1> QED BY <1>3, <1>4, <1>5 DEF UserStep

\* The five ways an apply begins: with the job there was none of, or, for a change of a project that
\* is not known, not at all.
Begins == TakeChange \/ Index \/ Converge \/ Submit \/ StartupReconcile

\* What TakeChange, Index, Converge, Submit and StartupReconcile hand to the apply, for the proofs
\* of the phases that follow.
LEMMA BegunJob ==
    ASSUME TypeInv, Begins
    PROVE  /\ job = None
           /\ UNCHANGED <<treeVars, watcherVars, stateVars, known, watch, restarts, converging>>
           /\ \/ TakeChange /\ ~ known /\ job' = None
              \/ /\ job' \in ApplyJobs /\ job' # None /\ job'.at = "probe" /\ job'.edits = edits
                 /\ \/ /\ TakeChange /\ Head(lane).op = "signal" /\ ~ job'.deep
                       /\ job'.index = Gated(Head(lane)) /\ job'.removed = Head(lane).removed
                       /\ job'.client = "none"
                    \/ /\ Submit /\ ~ job'.deep /\ job'.client = "submit"
                       /\ \E c \in [op : {"signal"}, index : SUBSET {f \in Files : tree[f] # None},
                                    removed : SUBSET {f \in Files : tree[f] = None}] :
                             job'.index = Gated(c) /\ job'.removed = c.removed
                    \/ /\ job'.index = DriftIndex(job'.deep) /\ job'.removed = DriftRemoved
                       /\ \/ TakeChange /\ Head(lane).op # "signal" /\ job'.client = "none"
                             /\ ~ job'.deep
                          \/ Index /\ job'.client = "index" /\ job'.deep
                          \/ Converge /\ job'.client = "watch" /\ job'.deep
                          \/ StartupReconcile /\ job'.client = "startup"
<1>1. TypeInv' BY BeginType DEF Begins
<1>2. job' # None => job' \in ApplyJobs BY <1>1 DEF TypeInv, CaptureTypeOK
<1>3. ASSUME NEW index \in SUBSET Files, NEW removed \in SUBSET Files, NEW deep \in BOOLEAN,
             NEW client \in Clients, Begin(index, removed, deep, client)
      PROVE  /\ job = None /\ job' \in ApplyJobs /\ job' # None /\ job'.at = "probe"
             /\ job'.edits = edits /\ job'.index = index /\ job'.removed = removed
             /\ job'.deep = deep /\ job'.client = client
  <2>1. job' \in ApplyJobs BY <1>3, BegunType
  <2> QED BY <1>3, <2>1, NoneAssumption DEF Begin
<1>4. CASE TakeChange
  <2>1. CASE ~ known
    BY <1>4, <2>1 DEF TakeChange, modeVars
  <2>2. CASE known
    <3>1. Head(lane) \in Changes BY <1>4 DEF TakeChange, TypeInv, LaneTypeOK
    <3>2. Gated(Head(lane)) \in SUBSET Files /\ Head(lane).removed \in SUBSET Files
      BY <3>1 DEF Gated, Changes
    <3>3. CASE Head(lane).op = "signal"
      <4>1. Begin(Gated(Head(lane)), Head(lane).removed, FALSE, "none")
        BY <1>4, <2>2, <3>3 DEF TakeChange
      <4> QED BY <1>3, <1>4, <3>2, <3>3, <4>1 DEF TakeChange, modeVars, Clients
    <3>4. CASE Head(lane).op # "signal"
      <4>1. Begin(DriftIndex(FALSE), DriftRemoved, FALSE, "none")
        BY <1>4, <2>2, <3>4 DEF TakeChange
      <4> QED BY <1>3, <1>4, <3>4, <4>1, DriftType DEF TakeChange, modeVars, Clients
    <3> QED BY <3>3, <3>4
  <2> QED BY <2>1, <2>2
<1>5. CASE Index BY <1>3, <1>5, DriftType DEF Index, modeVars, Clients
<1>6. CASE Converge BY <1>3, <1>6, DriftType DEF Converge, modeVars, Clients
<1>7. CASE Submit
  <2>1. PICK c \in [op : {"signal"}, index : SUBSET {f \in Files : tree[f] # None},
                    removed : SUBSET {f \in Files : tree[f] = None}] :
               Begin(Gated(c), c.removed, FALSE, "submit")
    BY <1>7 DEF Submit
  <2>2. Gated(c) \in SUBSET Files /\ c.removed \in SUBSET Files BY DEF Gated
  <2> QED BY <1>3, <1>7, <2>1, <2>2 DEF Submit, modeVars, Clients
<1>8. CASE StartupReconcile
  <2> DEFINE deep == phase = "deep"
  <2>1. Begin(DriftIndex(deep), DriftRemoved, deep, "startup") /\ deep \in BOOLEAN
    BY <1>8 DEF StartupReconcile
  <2>2. UNCHANGED <<treeVars, watcherVars, stateVars, known, watch, restarts, converging>>
    BY <1>8 DEF StartupReconcile
  <2> HIDE DEF deep
  <2>3. "startup" \in Clients BY DEF Clients
  <2> QED BY <1>3, <1>8, <2>1, <2>2, <2>3, DriftType
<1> QED BY <1>4, <1>5, <1>6, <1>7, <1>8 DEF Begins

\* What a batch tells the lane.
BatchIndex(batch) == {f \in Classified(batch) : raw[f] \cap {"create", "modify"} # {}}
BatchRemoved(batch) == {f \in Classified(batch) : "remove" \in raw[f]}
BatchSignal(batch) == Signal(BatchIndex(batch), BatchRemoved(batch))

\* What a debounced batch appends to the lane: a re-scope first if ignore rules changed, then one
\* signal of the net events.
LEMMA DebounceLane ==
    ASSUME TypeInv, NEW batch \in SUBSET Files, Debounce(batch)
    PROVE  /\ Len(lane) \in Nat /\ Len(lane') \in Nat /\ Len(lane') >= Len(lane)
           /\ \A i \in 1 .. Len(lane) : lane'[i] = lane[i]
           /\ \A i \in Len(lane) + 1 .. Len(lane') :
                 \/ rawIgnore /\ i = Len(lane) + 1 /\ lane'[i] = Rescope
                 \/ i = Len(lane') /\ lane'[i] = BatchSignal(batch)
           /\ rawIgnore => Len(lane') > Len(lane) /\ lane'[Len(lane) + 1] = Rescope
           /\ BatchIndex(batch) \cup BatchRemoved(batch) # {} =>
                 Len(lane') > Len(lane) /\ lane'[Len(lane')] = BatchSignal(batch)
<1> DEFINE first == IF rawIgnore THEN <<Rescope>> ELSE <<>>
           second == IF BatchIndex(batch) \cup BatchRemoved(batch) = {} THEN <<>>
                     ELSE <<BatchSignal(batch)>>
<1>1. lane' = lane \o first \o second
  BY DEF Debounce, BatchIndex, BatchRemoved, BatchSignal
<1>2. lane \in Seq(Changes) BY DEF TypeInv, LaneTypeOK
<1>3. Rescope \in Changes /\ BatchSignal(batch) \in Changes
  BY DEF Rescope, BatchSignal, Signal, Changes, BatchIndex, BatchRemoved, Classified
<1>4. CASE rawIgnore /\ BatchIndex(batch) \cup BatchRemoved(batch) # {}
  <2>1. lane' = lane \o <<Rescope>> \o <<BatchSignal(batch)>> BY <1>1, <1>4
  <2>2. lane' = Append(Append(lane, Rescope), BatchSignal(batch)) BY <1>2, <1>3, <2>1
  <2> QED BY <1>2, <1>3, <1>4, <2>2
<1>5. CASE rawIgnore /\ BatchIndex(batch) \cup BatchRemoved(batch) = {}
  <2>1. lane' = lane \o <<Rescope>> \o <<>> BY <1>1, <1>5
  <2>2. lane' = Append(lane, Rescope) BY <1>2, <1>3, <2>1
  <2> QED BY <1>2, <1>3, <1>5, <2>2
<1>6. CASE ~ rawIgnore /\ BatchIndex(batch) \cup BatchRemoved(batch) # {}
  <2>1. lane' = lane \o <<>> \o <<BatchSignal(batch)>> BY <1>1, <1>6
  <2>2. lane' = Append(lane, BatchSignal(batch)) BY <1>2, <1>3, <2>1
  <2> QED BY <1>2, <1>3, <1>6, <2>2
<1>7. CASE ~ rawIgnore /\ BatchIndex(batch) \cup BatchRemoved(batch) = {}
  <2>1. lane' = lane \o <<>> \o <<>> BY <1>1, <1>7
  <2>2. lane' = lane BY <1>2, <2>1
  <2> QED BY <1>2, <1>7, <2>2
<1> QED BY <1>4, <1>5, <1>6, <1>7

-----------------------------------------------------------------------------
(* The manifest vouches *)

\* What an apply has probed and read stays so, unless an edit hits a file it has gated.
LEMMA SteadyStep ==
    ASSUME TypeInv, Steady, [CaptureNext]_captureVars PROVE Steady'
<1> SUFFICES ASSUME Without({"apply"}) PROVE Steady'
  BY LeftAlone DEF Steady, Without
<1>1. ASSUME UNCHANGED <<tree, job>> PROVE Steady' BY <1>1, LeftAlone DEF Steady, Without
<1>2. CASE UserStep
  <2>1. PICK f \in Files : MayEdit(f) /\ UNCHANGED job /\ \A g \in Files \ {f} : tree'[g] = tree[g]
    BY <1>2, UserEffect
  <2>2. job # None => f \notin job.index BY <2>1 DEF MayEdit, Without
  <2>3. job # None => job.index \subseteq Files BY DEF TypeInv, CaptureTypeOK, ApplyJobs
  <2> QED BY <2>1, <2>2, <2>3 DEF Steady
<1>3. CASE Begins BY <1>3, BegunJob DEF Steady
<1>4. CASE Probe
  <2>1. job \in ApplyJobs BY <1>4 DEF Probe, TypeInv, CaptureTypeOK
  <2>2. tree' = tree BY <1>4 DEF Probe, treeVars
  <2>3. job'.at = "read" /\ job'.index = job.index \ {f \in job.index : tree[f] = None}
    BY <1>4, <2>1 DEF Probe, ApplyJobs
  <2> QED BY <2>2, <2>3 DEF Steady
<1>5. CASE Read
  <2>1. job \in ApplyJobs BY <1>5 DEF Read, TypeInv, CaptureTypeOK
  <2>2. job'.index = job.index /\ job'.read = [f \in job.index |-> tree[f].text]
    BY <1>5, <2>1 DEF Read, ApplyJobs
  <2> QED BY <1>5, <2>2 DEF Read, treeVars, Steady
<1>6. CASE ReadFails \/ Record BY <1>6 DEF ReadFails, Record, Steady
<1>7. CASE ModeStep
  BY <1>1, <1>3, <1>7 DEF ModeStep, Begins, Register, Unregister, PlanWatchOn, PlanWatchOff,
     FlushState, Restart, StartAllWatchers, treeVars, Steady
<1>8. ASSUME NEW batch \in SUBSET {f \in Files : raw[f] # {}}, Debounce(batch) PROVE Steady'
  BY <1>1, <1>8 DEF Debounce, treeVars
<1>9. CASE UNCHANGED captureVars BY <1>1, <1>9 DEF captureVars, treeVars
<1> QED
  BY <1>2, <1>3, <1>4, <1>5, <1>6, <1>7, <1>8, <1>9 DEF CaptureNext, ApplyStep, Begins

\* A file whose removal is reported has gone, unless it is made anew within a batch: the user's part.
LEMMA RemovedHasGone ==
    ASSUME TypeInv, Disjoint, Without({"replace"}), UserStep
    PROVE  \A f \in Files : "remove" \in raw'[f] => raw'[f] = {"remove"} /\ tree'[f] = None
<1>1. PICK f \in Files :
         /\ \A g \in Files \ {f} : tree'[g] = tree[g] /\ raw'[g] = raw[g]
         /\ \/ \E text \in Texts : Edit(f, text) \/ EditKeepingTime(f, text)
            \/ Delete(f) \/ EditIgnore(f)
  BY UserEffect
<1>2. raw \in [Files -> SUBSET Kinds] /\ tree \in [Files -> FileStates \cup {None}]
         /\ (~ live => raw = NoEvents)
  BY DEF TypeInv, CaptureTypeOK
<1>3. "remove" \in raw[f] => raw[f] = {"remove"} /\ tree[f] = None BY DEF Disjoint
<1>4. ASSUME NEW text \in Texts, Edit(f, text) \/ EditKeepingTime(f, text)
      PROVE  "remove" \notin raw'[f]
  <2>1. CASE tree[f] = None
    <3>1. raw[f] = {} /\ raw' = Reported(f, "create")
      BY <1>4, <2>1 DEF Edit, EditKeepingTime, Write, Without
    <3> QED BY <1>2, <3>1 DEF Reported
  <2>2. CASE tree[f] # None
    <3>1. raw' = Reported(f, "modify") BY <1>4, <2>2 DEF Edit, EditKeepingTime, Write
    <3> QED BY <1>2, <1>3, <2>2, <3>1 DEF Reported
  <2> QED BY <2>1, <2>2
<1>5. ASSUME Delete(f) PROVE "remove" \in raw'[f] => raw'[f] = {"remove"} /\ tree'[f] = None
  <2>1. tree'[f] = None /\ raw' = Reported(f, "remove") BY <1>2, <1>5 DEF Delete
  <2>2. ~ live => raw[f] = {} BY <1>2 DEF NoEvents
  <2>3. raw'[f] \in {{}, {"remove"}} BY <1>2, <2>1, <2>2 DEF Reported
  <2> QED BY <2>1, <2>3
<1>6. ASSUME EditIgnore(f) PROVE UNCHANGED <<raw, tree>> BY <1>6 DEF EditIgnore
<1>7. "remove" \in raw'[f] => raw'[f] = {"remove"} /\ tree'[f] = None
  BY <1>1, <1>3, <1>4, <1>5, <1>6
<1> QED BY <1>1, <1>7 DEF Disjoint

\* No change of the lane, and no apply, both indexes and removes a file.
LEMMA DisjointStep ==
    ASSUME TypeInv, Disjoint, [CaptureNext]_captureVars PROVE Disjoint'
<1> DEFINE Gone == \A f \in Files : "remove" \in raw[f] => raw[f] = {"remove"} /\ tree[f] = None
           Apart(c) == c.index \cap c.removed = {}
           LaneApart == \A i \in 1 .. Len(lane) : Apart(lane[i])
           JobApart == job # None => Apart(job)
<1> SUFFICES ASSUME Without({"replace"}) PROVE Gone' /\ LaneApart' /\ JobApart'
  BY LeftAlone DEF Disjoint, Without
<1>1. Gone /\ LaneApart /\ JobApart BY DEF Disjoint
<1>2. lane \in Seq(Changes) BY DEF TypeInv, LaneTypeOK
<1>3. CASE UserStep
  <2>1. UNCHANGED <<lane, job>> BY <1>3, UserEffect
  <2> QED BY <1>1, <1>3, <2>1, RemovedHasGone
<1>4. CASE Begins
  <2>1. UNCHANGED <<raw, tree>> BY <1>4, BegunJob DEF treeVars, watcherVars
  <2>2. LaneApart'
    <3>1. lane' = lane \/ (lane # <<>> /\ lane' = Tail(lane))
      BY <1>4 DEF Begins, TakeChange, Index, Converge, Submit, StartupReconcile
    <3> QED BY <1>1, <1>2, <3>1
  <2>4. JobApart'
    <3>1. CASE job' = None BY <3>1
    <3>2. CASE TakeChange /\ job'.index = Gated(Head(lane)) /\ job'.removed = Head(lane).removed
      <4>1. Head(lane) = lane[1] /\ 1 \in 1 .. Len(lane) BY <1>2, <3>2 DEF TakeChange
      <4> QED BY <1>1, <3>2, <4>1 DEF Gated
    <3>3. CASE \E c \in [op : {"signal"}, index : SUBSET {f \in Files : tree[f] # None},
                         removed : SUBSET {f \in Files : tree[f] = None}] :
                  job'.index = Gated(c) /\ job'.removed = c.removed
      BY <3>3 DEF Gated
    <3>4. CASE job'.index = DriftIndex(job'.deep) /\ job'.removed = DriftRemoved
      BY <3>4 DEF DriftIndex, DriftRemoved
    <3> HIDE DEF JobApart
    <3> QED BY <1>4, <3>1, <3>2, <3>3, <3>4, BegunJob
  <2> QED BY <1>1, <2>1, <2>2, <2>4
<1>5. CASE Probe
  <2>1. job \in ApplyJobs BY <1>5 DEF Probe, TypeInv, CaptureTypeOK
  <2>2. PICK gone : job'.index = job.index \ gone /\ job'.removed = job.removed \cup gone
    BY <1>5, <2>1 DEF Probe, ApplyJobs
  <2> QED BY <1>1, <1>5, <2>2 DEF Probe, treeVars, watcherVars
<1>6. CASE Read
  <2>1. job \in ApplyJobs BY <1>6 DEF Read, TypeInv, CaptureTypeOK
  <2>2. job'.index = job.index /\ job'.removed = job.removed BY <1>6, <2>1 DEF Read, ApplyJobs
  <2> QED BY <1>1, <1>6, <2>2 DEF Read, treeVars, watcherVars
<1>7. CASE ReadFails \/ Record
  BY <1>1, <1>7 DEF ReadFails, Record, treeVars, watcherVars
<1>8. ASSUME StopWatcher, UNCHANGED <<tree, job>> PROVE Gone' /\ LaneApart' /\ JobApart'
  <2>1. LaneApart' BY <1>1, <1>2, <1>8, LaneCut
  <2> QED BY <1>1, <1>8, <2>1 DEF StopWatcher, NoEvents
<1>9. CASE ModeStep
  <2>1. CASE Register \/ PlanWatchOn \/ FlushState \/ StartAllWatchers
    BY <1>1, <2>1 DEF Register, PlanWatchOn, FlushState, StartAllWatchers, treeVars, watcherVars
  <2>2. CASE Unregister \/ PlanWatchOff BY <1>8, <2>2 DEF Unregister, PlanWatchOff, treeVars
  <2>3. CASE \E clean \in BOOLEAN : Restart(clean) BY <2>3 DEF Restart, NoEvents
  <2> QED BY <1>4, <1>9, <2>1, <2>2, <2>3 DEF ModeStep, Begins
<1>10. ASSUME NEW batch \in SUBSET {f \in Files : raw[f] # {}}, Debounce(batch)
       PROVE  Gone' /\ LaneApart' /\ JobApart'
  <2>1. UNCHANGED <<tree, job>> /\ \A f \in Files : raw'[f] \in {{}, raw[f]}
    BY <1>10 DEF Debounce, treeVars
  <2>2. Apart(BatchSignal(batch)) /\ Apart(Rescope)
    BY <1>1 DEF BatchSignal, Signal, Rescope, BatchIndex, BatchRemoved, Classified
  <2>3. LaneApart' 
    <3> SUFFICES ASSUME NEW i \in 1 .. Len(lane') PROVE Apart(lane'[i])
      OBVIOUS
    <3>1. i \in 1 .. Len(lane) \/ i \in Len(lane) + 1 .. Len(lane') BY <1>10, DebounceLane
    <3> HIDE DEF Apart
    <3> QED BY <1>1, <1>10, <2>2, <3>1, DebounceLane
  <2> QED BY <1>1, <2>1, <2>3
<1>11. CASE UNCHANGED captureVars BY <1>1, <1>11 DEF captureVars, treeVars, watcherVars
<1> QED
  BY <1>3, <1>4, <1>5, <1>6, <1>7, <1>9, <1>10, <1>11 DEF CaptureNext, ApplyStep, Begins

\* The image an apply records vouches: an entry is stamped with the text its nodes were read from,
\* and comes and goes with them.
LEMMA RecordVouches ==
    ASSUME TypeInv, Steady, Disjoint, Vouches(manifest, nodes), job # None, job.at = "stamp"
    PROVE  Vouches(NewManifest, NewNodes)
<1> SUFFICES ASSUME NEW f \in Files
             PROVE  /\ Without({"apply"}) /\ NewManifest[f] # None => NewNodes[f] = NewManifest[f].hash
                    /\ Without({"replace"}) /\ NewNodes[f] # None => NewManifest[f] # None
  BY DEF Vouches
<1>1. CASE f \in job.removed
  BY <1>1 DEF NewManifest, NewNodes, Disjoint
<1>2. CASE f \notin job.removed /\ f \in job.index
  <2>1. NewManifest[f] = Stamped(f) /\ NewNodes[f] = job.read[f]
    BY <1>2 DEF NewManifest, NewNodes
  <2>2. Stamped(f) # None BY ImageTypes, NoneAssumption
  <2>3. Without({"apply"}) => job.read[f] = tree[f].text /\ tree[f] # None BY <1>2 DEF Steady
  <2>4. Without({"apply"}) => Stamped(f).hash = job.read[f] BY <2>3 DEF Stamped
  <2> QED BY <2>1, <2>2, <2>4
<1>3. CASE f \notin job.removed /\ f \notin job.index
  BY <1>3 DEF NewManifest, NewNodes, Vouches
<1> QED BY <1>1, <1>2, <1>3

\* What a step makes of the resident state and of the disk.
LEMMA ImageEffect ==
    ASSUME [CaptureNext]_captureVars
    PROVE  \/ UNCHANGED stateVars
           \/ /\ Record /\ manifest' = NewManifest /\ nodes' = NewNodes
              /\ \/ stored' = stored
                 \/ stored' = [manifest |-> NewManifest, nodes |-> NewNodes]
           \/ /\ FlushState /\ UNCHANGED <<manifest, nodes>>
              /\ stored' = [manifest |-> manifest, nodes |-> nodes]
           \/ /\ stored' \in {[manifest |-> manifest, nodes |-> nodes], stored}
              /\ manifest' = stored'.manifest /\ nodes' = stored'.nodes
              /\ \E clean \in BOOLEAN : Restart(clean)
<1>1. CASE UNCHANGED captureVars BY <1>1 DEF captureVars, stateVars
<1>2. CASE UserStep
  BY <1>2 DEF UserStep, Edit, EditKeepingTime, Write, Delete, EditIgnore, stateVars
<1>3. CASE ApplyStep
  BY <1>3 DEF ApplyStep, TakeChange, Index, Converge, Submit, Probe, Read, ReadFails, Record, stateVars
<1>4. CASE Register \/ Unregister \/ PlanWatchOn \/ PlanWatchOff \/ StartupReconcile \/ StartAllWatchers
  BY <1>4 DEF Register, Unregister, PlanWatchOn, PlanWatchOff, StartupReconcile, StartAllWatchers,
     stateVars
<1>5. CASE FlushState BY <1>5 DEF FlushState
<1>6. ASSUME NEW clean \in BOOLEAN, Restart(clean)
      PROVE  /\ stored' \in {[manifest |-> manifest, nodes |-> nodes], stored}
             /\ manifest' = stored'.manifest /\ nodes' = stored'.nodes
  BY <1>6 DEF Restart
<1>7. ASSUME NEW batch \in SUBSET {f \in Files : raw[f] # {}}, Debounce(batch)
      PROVE  UNCHANGED stateVars
  BY <1>7 DEF Debounce
<1> QED BY <1>1, <1>2, <1>3, <1>4, <1>5, <1>6, <1>7 DEF CaptureNext, ModeStep

\* Every step keeps what the manifest vouches for, in memory and on disk.
LEMMA VouchStep ==
    ASSUME TypeInv, VouchInv, [CaptureNext]_captureVars PROVE VouchInv'
<1>1. Steady' /\ Disjoint' BY SteadyStep, DisjointStep DEF VouchInv
<1>2. \A m, n : Vouches(m, n) <=>
         \A f \in Files : /\ mishaps' \cap {"apply"} = {} /\ m[f] # None => n[f] = m[f].hash
                          /\ mishaps' \cap {"replace"} = {} /\ n[f] # None => m[f] # None
  BY LeftAlone DEF Vouches, Without
<1>3. Vouches(manifest', nodes') /\ Vouches(stored'.manifest, stored'.nodes)
  <2>1. CASE UNCHANGED stateVars BY <2>1 DEF stateVars, VouchInv
  <2>2. CASE Record /\ manifest' = NewManifest /\ nodes' = NewNodes
               /\ (stored' = stored \/ stored' = [manifest |-> NewManifest, nodes |-> NewNodes])
    BY <2>2, RecordVouches DEF VouchInv, Record
  <2>3. CASE UNCHANGED <<manifest, nodes>> /\ stored' = [manifest |-> manifest, nodes |-> nodes]
    BY <2>3 DEF VouchInv
  <2>4. CASE /\ stored' \in {[manifest |-> manifest, nodes |-> nodes], stored}
             /\ manifest' = stored'.manifest /\ nodes' = stored'.nodes
    BY <2>4 DEF VouchInv
  <2> QED BY <2>1, <2>2, <2>3, <2>4, ImageEffect
<1> QED BY <1>1, <1>2, <1>3 DEF VouchInv, Vouches, Without

\* At the start no entry vouches for anything and nothing is under way.
LEMMA VouchInit == ASSUME CaptureInit PROVE VouchInv
<1>1. lane = <<>> /\ job = None /\ raw = NoEvents BY DEF CaptureInit
<1>2. Steady /\ Disjoint BY <1>1 DEF Steady, Disjoint, NoEvents
<1>3. Vouches(manifest, nodes) /\ Vouches(stored.manifest, stored.nodes)
  BY DEF CaptureInit, Vouches
<1> QED BY <1>2, <1>3 DEF VouchInv

(***************************************************************************)
(* An entry of the manifest vouches for the nodes of its file, so that the *)
(* gate may skip a file whose entry agrees; and every file with nodes has  *)
(* one.  The inductive part is what an apply has read staying so, and that *)
(* no change both indexes and removes a file.                              *)
(***************************************************************************)
THEOREM EntriesVouch == CaptureSpec => []ManifestVouches
<1>1. CaptureInit => TypeInv /\ VouchInv BY InitType, VouchInit
<1>2. TypeInv /\ VouchInv /\ [CaptureNext]_captureVars => TypeInv' /\ VouchInv'
  BY StepType, VouchStep
<1>3. VouchInv => ManifestVouches
  BY DEF VouchInv, Vouches, ManifestVouches, Without
<1> QED BY <1>1, <1>2, <1>3, PTL DEF CaptureSpec

-----------------------------------------------------------------------------
(* The watch flag *)

\* Without edits of what an apply has gated, no apply fails, so that a converge ends by setting the
\* flag; without verbs meanwhile, of a project that is known and has its watcher.
LEMMA FlagStep ==
    ASSUME TypeInv, Steady, FlagInv, [CaptureNext]_captureVars PROVE FlagInv'
<1>1. TypeInv' BY StepType
<1>2. watch \in BOOLEAN /\ known \in BOOLEAN /\ live \in BOOLEAN /\ converging \in BOOLEAN
         /\ watch' \in BOOLEAN /\ known' \in BOOLEAN /\ live' \in BOOLEAN /\ converging' \in BOOLEAN
         /\ (watch => known) /\ (phase # "up" => ~ live)
  BY <1>1 DEF TypeInv, CaptureTypeOK, LaneTypeOK
<1>3. mishaps' = mishaps BY LeftAlone
<1>4. CASE UNCHANGED <<known, watch, live, converging, job, phase>>
  BY <1>3, <1>4 DEF FlagInv, Without
<1>5. CASE UserStep
  BY <1>4, <1>5, UserEffect DEF modeVars
<1>6. CASE Begins
  <2>1. UNCHANGED <<known, watch, live, converging>> BY <1>6, BegunJob DEF watcherVars
  <2>2. job' # None /\ job'.client = "watch" => converging
    BY <1>6, BegunJob DEF Converge
  <2>3. phase' = phase \/ (phase \in {"deep", "cheap"} /\ phase' = "boot")
    BY <1>6 DEF Begins, TakeChange, Index, Converge, Submit, StartupReconcile, modeVars
  <2> QED BY <1>3, <2>1, <2>2, <2>3 DEF FlagInv, Without
<1>7. CASE Probe \/ Read
  <2>1. job # None /\ job'.client = job.client
    BY <1>7 DEF Probe, Read, TypeInv, CaptureTypeOK, ApplyJobs
  <2>2. UNCHANGED <<known, watch, live, converging, phase>>
    BY <1>7 DEF Probe, Read, modeVars, watcherVars
  <2> QED BY <1>3, <2>1, <2>2 DEF FlagInv, Without
<1>8. CASE ReadFails
  <2>1. ~ Without({"apply"}) BY <1>8 DEF ReadFails, Steady
  <2>2. ~ Without({"verbs", "apply"})' BY <1>3, <2>1 DEF Without
  <2>3. job' = None /\ UNCHANGED <<known, live>> /\ (converging' => converging)
           /\ (phase' = phase \/ (phase = "boot" /\ phase' = "watchers"))
    BY <1>8 DEF ReadFails, watcherVars
  <2> QED BY <2>2, <2>3 DEF FlagInv
<1>9. CASE Record
  BY <1>2, <1>3, <1>9 DEF Record, Committed, watcherVars, FlagInv, Without
<1>10. CASE Register BY <1>2, <1>3, <1>10 DEF Register, watcherVars, FlagInv, Without
<1>11. CASE Unregister
  BY <1>2, <1>3, <1>11 DEF Unregister, StopWatcher, VerbsMayMeet, FlagInv, Without
<1>12. CASE PlanWatchOn BY <1>2, <1>3, <1>12 DEF PlanWatchOn, FlagInv, Without
<1>13. CASE PlanWatchOff
  BY <1>2, <1>3, <1>13 DEF PlanWatchOff, StopWatcher, VerbsMayMeet, FlagInv, Without
<1>14. CASE FlushState BY <1>4, <1>14 DEF FlushState, watcherVars, modeVars
<1>15. ASSUME NEW clean \in BOOLEAN, Restart(clean) PROVE FlagInv'
  <2>1. live' = FALSE /\ converging' = FALSE /\ job' = None /\ phase' # "up"
    BY <1>15 DEF Restart
  <2> QED BY <2>1 DEF FlagInv
<1>16. CASE StartAllWatchers
  BY <1>2, <1>3, <1>16 DEF StartAllWatchers, FlagInv, Without
<1>17. ASSUME NEW batch \in SUBSET {f \in Files : raw[f] # {}}, Debounce(batch) PROVE FlagInv'
  BY <1>4, <1>17 DEF Debounce, modeVars
<1>18. CASE UNCHANGED captureVars
  BY <1>4, <1>18 DEF captureVars, modeVars, watcherVars
<1> QED
  BY <1>5, <1>6, <1>7, <1>8, <1>9, <1>10, <1>11, <1>12, <1>13, <1>14, <1>15, <1>16, <1>17, <1>18
  DEF CaptureNext, ApplyStep, ModeStep, Begins

\* At the start the project is unknown and not watched.
LEMMA FlagInit == ASSUME CaptureInit PROVE FlagInv
BY DEF CaptureInit, FlagInv

(***************************************************************************)
(* A project marked as watched has a watcher and the other way round,      *)
(* after every converge, every restart and every verb.                     *)
(***************************************************************************)
THEOREM FlagAgrees == CaptureSpec => []WatchFlagAgrees
<1>1. CaptureInit => TypeInv /\ VouchInv /\ FlagInv BY InitType, VouchInit, FlagInit
<1>2. TypeInv /\ VouchInv /\ FlagInv /\ [CaptureNext]_captureVars =>
         TypeInv' /\ VouchInv' /\ FlagInv'
  BY StepType, VouchStep, FlagStep DEF VouchInv
<1>3. FlagInv => WatchFlagAgrees BY DEF FlagInv, WatchFlagAgrees, Without
<1> QED BY <1>1, <1>2, <1>3, PTL DEF CaptureSpec

-----------------------------------------------------------------------------
(* A deep reconcile *)

\* While nobody edits, the drift an apply begun with stays what it is: neither the tree nor the
\* manifest changes under its lock.
LEMMA DeepStep ==
    ASSUME TypeInv, DeepInv, [CaptureNext]_captureVars PROVE DeepInv'
<1>1. edits \in Nat BY DEF TypeInv, CaptureTypeOK
<1>2. ASSUME UNCHANGED <<treeVars, manifest>>
      PROVE  /\ DriftIndex(TRUE)' = DriftIndex(TRUE) /\ DriftRemoved' = DriftRemoved
             /\ UNCHANGED <<tree, edits>>
  BY <1>2 DEF DriftIndex, DriftRemoved, InScope, Unchanged, treeVars
<1>3. ASSUME UNCHANGED <<treeVars, manifest, job>> PROVE DeepInv'
  BY <1>2, <1>3 DEF DeepInv
<1>4. CASE UserStep
  <2>1. edits' = edits + 1 /\ job' = job BY <1>4, UserEffect
  <2>2. job # None => job.edits \in Nat BY DEF TypeInv, CaptureTypeOK, ApplyJobs, Times
  <2>3. job' # None => job'.edits <= edits' /\ edits' # job'.edits
    <3>1. job # None => job.edits <= edits BY DEF DeepInv
    <3> QED BY <1>1, <2>1, <2>2, <3>1
  <2> QED BY <2>3 DEF DeepInv
<1>5. CASE Begins
  <2>1. UNCHANGED <<treeVars, manifest>> BY <1>5, BegunJob DEF stateVars
  <2>2. job' # None => job'.edits = edits /\ job'.at = "probe" BY <1>5, BegunJob
  <2>3. job' # None /\ job'.deep => job'.index = DriftIndex(TRUE) /\ job'.removed = DriftRemoved
    <3>1. job' # None => job'.deep \in BOOLEAN
      BY <1>5, BegunJob DEF ApplyJobs
    <3> QED BY <1>5, <3>1, BegunJob
  <2>4. edits' = edits /\ edits <= edits BY <1>1, <1>2, <2>1
  <2>5. job' # None => job'.edits <= edits' BY <2>2, <2>4
  <2>6. job' # None => job'.at # "stamp" BY <2>2
  <2>7. job' # None /\ job'.deep =>
           job'.index = DriftIndex(TRUE)' /\ job'.removed = DriftRemoved'
    BY <1>2, <2>1, <2>3
  <2> QED BY <2>5, <2>6, <2>7 DEF DeepInv
<1>6. CASE Probe
  <2>1. job \in ApplyJobs /\ job # None BY <1>6 DEF Probe, TypeInv, CaptureTypeOK
  <2> DEFINE gone == {f \in job.index : tree[f] = None}
  <2>2. job' = [job EXCEPT !.at = "read", !.index = @ \ gone, !.removed = @ \cup gone]
    BY <1>6 DEF Probe
  <2>3. job'.at = "read" /\ job'.deep = job.deep /\ job'.edits = job.edits
           /\ job'.index = job.index \ gone /\ job'.removed = job.removed \cup gone
    BY <2>1, <2>2 DEF ApplyJobs
  <2>4. UNCHANGED <<treeVars, manifest>> BY <1>6 DEF Probe, stateVars
  <2>5. job.index = DriftIndex(TRUE) => gone = {} BY DEF DriftIndex, InScope
  <2> HIDE DEF gone
  <2> QED BY <1>2, <2>1, <2>3, <2>4, <2>5 DEF DeepInv
<1>7. CASE Read
  <2>1. job \in ApplyJobs /\ job # None BY <1>7 DEF Read, TypeInv, CaptureTypeOK
  <2>2. job'.at = "stamp" /\ job'.deep = job.deep /\ job'.edits = job.edits
           /\ job'.index = job.index /\ job'.removed = job.removed
           /\ job'.read = [f \in job.index |-> tree[f].text]
    BY <1>7, <2>1 DEF Read, ApplyJobs
  <2>3. UNCHANGED <<treeVars, manifest>> BY <1>7 DEF Read, stateVars
  <2> QED BY <1>2, <2>1, <2>2, <2>3 DEF DeepInv
<1>8. CASE ReadFails \/ Record BY <1>8 DEF ReadFails, Record, DeepInv
<1>9. CASE ModeStep
  <2>1. CASE \E clean \in BOOLEAN : Restart(clean) BY <2>1 DEF Restart, DeepInv
  <2>2. CASE Register \/ Unregister \/ PlanWatchOn \/ PlanWatchOff \/ FlushState \/ StartAllWatchers
    BY <1>3, <2>2 DEF Register, Unregister, PlanWatchOn, PlanWatchOff, FlushState, StartAllWatchers,
       stateVars
  <2> QED BY <1>5, <1>9, <2>1, <2>2 DEF ModeStep, Begins
<1>10. ASSUME NEW batch \in SUBSET {f \in Files : raw[f] # {}}, Debounce(batch) PROVE DeepInv'
  BY <1>3, <1>10 DEF Debounce, stateVars
<1>11. CASE UNCHANGED captureVars BY <1>3, <1>11 DEF captureVars, stateVars
<1> QED
  BY <1>4, <1>5, <1>6, <1>7, <1>8, <1>9, <1>10, <1>11 DEF CaptureNext, ApplyStep, Begins

\* What such an apply records is the graph of the tree.
LEMMA DeepRecords ==
    ASSUME TypeInv, VouchInv, DeepInv, job # None, job.at = "stamp", job.deep, edits = job.edits,
           Without({"apply", "replace"}), NEW f \in Files
    PROVE  NewNodes[f] = Fresh(f)
<1>1. job.index = DriftIndex(TRUE) /\ job.removed = DriftRemoved
  BY DEF DeepInv
<1>2. Vouches(manifest, nodes) /\ Without({"apply"}) /\ Without({"replace"})
  BY DEF VouchInv, Without
<1>3. CASE f \in job.index
  <2>1. NewNodes[f] = job.read[f] /\ job.read[f] = tree[f].text
    BY <1>3 DEF NewNodes, DeepInv
  <2> QED BY <1>1, <1>3, <2>1 DEF DriftIndex, Fresh
<1>4. CASE f \notin job.index /\ f \in job.removed
  BY <1>1, <1>4 DEF NewNodes, DriftRemoved, Fresh
<1>5. CASE f \notin job.index /\ f \notin job.removed
  <2>1. NewNodes[f] = nodes[f] BY <1>5 DEF NewNodes
  <2>2. CASE InScope(f)
    <3>1. manifest[f] # None /\ tree[f].text = manifest[f].hash
      BY <1>1, <1>5, <2>2 DEF DriftIndex, Unchanged
    <3> QED BY <1>2, <2>1, <2>2, <3>1 DEF Vouches, Fresh
  <2>3. CASE ~ InScope(f)
    BY <1>1, <1>2, <1>5, <2>1, <2>3 DEF DriftRemoved, Vouches, Fresh
  <2> QED BY <2>2, <2>3
<1> QED BY <1>3, <1>4, <1>5

(***************************************************************************)
(* A deep reconcile nobody interferes with records the graph of the tree,  *)
(* whatever the manifest was: a file it skips has an entry that vouches    *)
(* for its text, one it does not remove has none or is there.              *)
(***************************************************************************)
THEOREM DeepReconciles == CaptureSpec => DeepConverges
<1> DEFINE Converges ==
             job # None /\ job' = None /\ restarts' = restarts =>
               (job.deep /\ job.at = "stamp" /\ edits = job.edits
                    /\ mishaps \cap {"apply", "replace"} = {} =>
                  \A f \in Files : nodes'[f] = Fresh(f))
<1>1. CaptureInit => TypeInv /\ VouchInv /\ DeepInv
  BY InitType, VouchInit DEF CaptureInit, DeepInv
<1>2. TypeInv /\ VouchInv /\ DeepInv /\ [CaptureNext]_captureVars =>
         TypeInv' /\ VouchInv' /\ DeepInv'
  BY StepType, VouchStep, DeepStep
<1>3. ASSUME TypeInv, VouchInv, DeepInv, [CaptureNext]_captureVars PROVE [Converges]_captureVars
  <2> SUFFICES ASSUME job # None, job' = None, restarts' = restarts, job.deep, job.at = "stamp",
                      edits = job.edits, Without({"apply", "replace"}), NEW f \in Files
               PROVE  nodes'[f] = Fresh(f)
    BY DEF Without
  <2>1. CASE Record BY <1>3, <2>1, DeepRecords DEF Record
  <2>2. ~ UserStep
    <3> SUFFICES ASSUME UserStep PROVE FALSE OBVIOUS
    <3> QED BY <1>3, UserEffect
  <2>3. ~ Begins
    <3> SUFFICES ASSUME Begins PROVE FALSE OBVIOUS
    <3> QED BY <1>3, BegunJob
  <2>4. ~ (Probe \/ Read)
    BY <1>3 DEF Probe, Read
  <2>5. ~ ReadFails BY DEF ReadFails
  <2>6. ~ (Register \/ Unregister \/ PlanWatchOn \/ PlanWatchOff \/ FlushState \/ StartAllWatchers)
    BY DEF Register, Unregister, PlanWatchOn, PlanWatchOff, FlushState, StartAllWatchers
  <2>7. ~ \E clean \in BOOLEAN : Restart(clean)
    BY <1>3 DEF Restart, TypeInv, LaneTypeOK
  <2>8. ~ \E batch \in SUBSET {g \in Files : raw[g] # {}} : Debounce(batch)
    BY DEF Debounce
  <2>9. ~ UNCHANGED captureVars BY DEF captureVars
  <2> QED
    BY <1>3, <2>1, <2>2, <2>3, <2>4, <2>5, <2>6, <2>7, <2>8, <2>9
    DEF CaptureNext, ApplyStep, ModeStep, Begins
<1> QED BY <1>1, <1>2, <1>3, PTL DEF CaptureSpec, DeepConverges

-----------------------------------------------------------------------------
(* A watched project is fresh *)

\* A run with none of the coincidences has not had any single one.
LEMMA WithoutEach ==
    ASSUME Without(Coincidences)
    PROVE  \A c \in Coincidences : c \notin mishaps /\ Without({c})
BY DEF Without, Coincidences

\* Every step keeps the times.
LEMMA TimesStep ==
    ASSUME TypeInv, Steady, Without(Coincidences), Timely, [CaptureNext]_captureVars
    PROVE  Timely'
<1>1. edits \in Nat /\ \A f \in Files : tree[f] # None => tree[f].mtime \in Nat
  BY DEF TypeInv, CaptureTypeOK, FileStates, Times
<1>2. CASE UserStep
  <2>1. PICK f \in Files :
           /\ edits' = edits + 1 /\ UNCHANGED <<stateVars>>
           /\ \A g \in Files \ {f} : tree'[g] = tree[g] /\ (g \in kept' <=> g \in kept)
           /\ \/ \E text \in Texts : Edit(f, text) \/ EditKeepingTime(f, text)
              \/ Delete(f) \/ EditIgnore(f)
    BY <1>2, UserEffect
  <2>2. f \in DOMAIN tree BY DEF TypeInv, CaptureTypeOK
  <2>3. \/ tree'[f] = None
        \/ tree'[f].mtime = edits + 1
        \/ tree[f] # None /\ tree'[f].mtime = tree[f].mtime
              /\ (f \in kept' \/ (tree'[f] = tree[f] /\ kept' = kept))
    <3>1. CASE \E text \in Texts : Edit(f, text) \/ EditKeepingTime(f, text)
      BY <2>2, <3>1 DEF Edit, EditKeepingTime, Write
    <3>2. CASE Delete(f) BY <2>2, <3>2 DEF Delete
    <3>3. CASE EditIgnore(f) BY <3>3 DEF EditIgnore
    <3> QED BY <2>1, <3>1, <3>2, <3>3
  <2>4. ASSUME NEW m, TimesVouch(m)
        PROVE  \A g \in Files : m[g] # None =>
                  /\ m[g].mtime \in 0 .. edits'
                  /\ tree'[g] # None /\ g \notin kept' /\ tree'[g].mtime = m[g].mtime =>
                        m[g].hash = tree'[g].text
    <3> SUFFICES ASSUME NEW g \in Files, m[g] # None
                 PROVE  /\ m[g].mtime \in 0 .. edits'
                        /\ tree'[g] # None /\ g \notin kept' /\ tree'[g].mtime = m[g].mtime =>
                              m[g].hash = tree'[g].text
      OBVIOUS
    <3>1. /\ m[g].mtime \in 0 .. edits
          /\ tree[g] # None /\ g \notin kept /\ tree[g].mtime = m[g].mtime =>
                m[g].hash = tree[g].text
      BY <2>4 DEF TimesVouch
    <3>2. m[g].mtime \in 0 .. edits' /\ m[g].mtime # edits + 1 BY <1>1, <2>1, <3>1
    <3>3. CASE g = f BY <2>3, <3>1, <3>2, <3>3
    <3>4. CASE g # f BY <2>1, <3>1, <3>2, <3>4
    <3> QED BY <3>3, <3>4
  <2>5. \A g \in Files : tree'[g] # None => tree'[g].mtime <= edits'
    <3> SUFFICES ASSUME NEW g \in Files, tree'[g] # None PROVE tree'[g].mtime <= edits'
      OBVIOUS
    <3>1. tree[g] # None => tree[g].mtime <= edits + 1 BY <1>1 DEF Timely
    <3>2. edits + 1 <= edits + 1 BY <1>1
    <3> QED BY <2>1, <2>3, <3>1, <3>2
  <2>6. manifest' = manifest /\ stored' = stored BY <2>1 DEF stateVars
  <2> QED BY <2>4, <2>5, <2>6 DEF Timely, TimesVouch
<1>3. CASE ~ UserStep
  <2>1. UNCHANGED <<tree, edits, kept>> BY <1>3, LeftAlone DEF treeVars
  <2>2. ASSUME NEW m, TimesVouch(m)
        PROVE  \A g \in Files : m[g] # None =>
                  /\ m[g].mtime \in 0 .. edits'
                  /\ tree'[g] # None /\ g \notin kept' /\ tree'[g].mtime = m[g].mtime =>
                        m[g].hash = tree'[g].text
    BY <2>1, <2>2 DEF TimesVouch
  <2>3. ASSUME job # None, job.at = "stamp" PROVE TimesVouch(NewManifest)
    <3> SUFFICES ASSUME NEW f \in Files, NewManifest[f] # None
                 PROVE  /\ NewManifest[f].mtime \in 0 .. edits
                        /\ tree[f] # None /\ f \notin kept /\ tree[f].mtime = NewManifest[f].mtime =>
                              NewManifest[f].hash = tree[f].text
      BY DEF TimesVouch
    <3>1. CASE f \in job.index
      <4>1. tree[f] # None /\ tree[f].mtime <= edits
        BY <2>3, <3>1, WithoutEach DEF Steady, Timely, Coincidences
      <4>2. NewManifest[f] = Stamped(f) BY <3>1 DEF NewManifest
      <4>3. NewManifest[f].mtime = tree[f].mtime /\ NewManifest[f].hash = tree[f].text
        BY <4>1, <4>2 DEF Stamped
      <4> QED BY <1>1, <4>1, <4>3
    <3>2. CASE f \notin job.index
      <4>1. NewManifest[f] = manifest[f] BY <3>2 DEF NewManifest
      <4> QED BY <4>1 DEF Timely, TimesVouch
    <3> QED BY <3>1, <3>2
  <2>4. \E m, n : TimesVouch(m) /\ TimesVouch(n) /\ manifest' = m /\ stored'.manifest = n
    <3>1. CASE UNCHANGED stateVars BY <3>1 DEF stateVars, Timely
    <3>2. CASE Record /\ manifest' = NewManifest
                 /\ (stored' = stored \/ stored' = [manifest |-> NewManifest, nodes |-> NewNodes])
      BY <2>3, <3>2 DEF Record, Timely
    <3>3. CASE UNCHANGED <<manifest, nodes>> /\ stored' = [manifest |-> manifest, nodes |-> nodes]
      BY <3>3 DEF Timely
    <3>4. CASE /\ stored' \in {[manifest |-> manifest, nodes |-> nodes], stored}
               /\ manifest' = stored'.manifest
      BY <3>4 DEF Timely
    <3> QED BY <3>1, <3>2, <3>3, <3>4, ImageEffect
  <2> QED BY <2>1, <2>2, <2>4 DEF Timely, TimesVouch
<1> QED BY <1>2, <1>3

\* And what the watcher believes.
LEMMA WatchingStep ==
    ASSUME TypeInv, Without(Coincidences), Watching, [CaptureNext]_captureVars
    PROVE  Watching'
<1>1. lane \in Seq(Changes) /\ (~ live => boundary = None /\ ~ rawIgnore) /\ (phase # "up" => ~ live)
         /\ rawIgnore \in BOOLEAN /\ live \in BOOLEAN
  BY DEF TypeInv, CaptureTypeOK, LaneTypeOK
<1>2. ASSUME UNCHANGED <<live, boundary, rawIgnore, ignored, lane>>, phase' # "up" => phase # "up"
      PROVE  Watching'
  BY <1>2 DEF Watching
<1>3. CASE UserStep
  <2>1. UNCHANGED <<boundary, live, lane, phase>>
           /\ \E f \in Files : \/ \E text \in Texts : Edit(f, text) \/ EditKeepingTime(f, text)
                               \/ Delete(f) \/ EditIgnore(f)
    BY <1>3, UserEffect DEF modeVars
  <2>2. (ignored' = ignored /\ rawIgnore' = rawIgnore) \/ rawIgnore' = (rawIgnore \/ live)
    BY <2>1 DEF Edit, EditKeepingTime, Write, Delete, EditIgnore
  <2> QED BY <2>1, <2>2 DEF Watching
<1>4. CASE Begins
  <2>1. UNCHANGED <<live, boundary, rawIgnore, ignored>> BY <1>4, BegunJob DEF watcherVars, treeVars
  <2>2. phase' # "up" => phase # "up"
    BY <1>4 DEF Begins, TakeChange, Index, Converge, Submit, StartupReconcile, modeVars
  <2>3. lane' = lane \/ (TakeChange /\ lane # <<>> /\ lane' = Tail(lane))
    BY <1>4 DEF Begins, TakeChange, Index, Converge, Submit, StartupReconcile
  <2>4. CASE lane' = lane BY <1>2, <2>1, <2>2, <2>4
  <2>5. CASE TakeChange /\ lane # <<>> /\ lane' = Tail(lane)
    <3>1. \A i \in 1 .. Len(lane') : i + 1 \in 1 .. Len(lane) /\ lane'[i] = lane[i + 1]
      BY <1>1, <2>5
    <3>2. phase = "up" BY <2>5 DEF TakeChange
    <3> QED BY <2>1, <2>2, <3>1, <3>2 DEF Watching
  <2> QED BY <2>3, <2>4, <2>5
<1>5. CASE Probe \/ Read \/ ReadFails \/ Record
  BY <1>2, <1>5 DEF Probe, Read, ReadFails, Record, treeVars, watcherVars, modeVars
<1>6. CASE Register \/ FlushState
  BY <1>2, <1>6 DEF Register, FlushState, treeVars, watcherVars, modeVars
<1>7. ASSUME StopWatcher, phase' = "up" PROVE Watching'
  <2>1. \A i \in 1 .. Len(lane') : lane'[i].removed = {}
    BY <1>7, WithoutEach DEF StopWatcher, Coincidences
  <2> QED BY <1>7, <2>1 DEF StopWatcher, Watching
<1>8. CASE Unregister \/ PlanWatchOff BY <1>7, <1>8 DEF Unregister, PlanWatchOff
<1>9. CASE PlanWatchOn BY <1>1, <1>9 DEF PlanWatchOn, Watching
<1>10. ASSUME NEW clean \in BOOLEAN, Restart(clean) PROVE Watching'
  <2>1. live' = FALSE /\ lane' = <<>> BY <1>10 DEF Restart
  <2> QED BY <2>1 DEF Watching
<1>11. CASE StartAllWatchers BY <1>1, <1>11 DEF StartAllWatchers, Watching
<1>12. ASSUME NEW batch \in SUBSET {f \in Files : raw[f] # {}}, Debounce(batch) PROVE Watching'
  BY <1>1, <1>12 DEF Debounce, modeVars, treeVars, Watching
<1>13. CASE UNCHANGED captureVars
  BY <1>2, <1>13 DEF captureVars, treeVars, watcherVars, modeVars
<1> QED
  BY <1>3, <1>4, <1>5, <1>6, <1>8, <1>9, <1>10, <1>11, <1>12, <1>13
  DEF CaptureNext, ApplyStep, ModeStep, Begins

\* A file the gate skips has the nodes of its text, unless a write left its mtime alone.
LEMMA SkippedIsGood ==
    ASSUME TypeInv, VouchInv, Timely, Without(Coincidences), NEW f \in Files, InScope(f),
           NEW deep, Unchanged(f, deep)
    PROVE  f \in kept \/ nodes[f] = Fresh(f)
<1>1. manifest[f] # None /\ nodes[f] = manifest[f].hash
  BY WithoutEach DEF Unchanged, VouchInv, Vouches, Coincidences
<1>2. f \in kept \/ manifest[f].hash = tree[f].text
  BY <1>1 DEF Unchanged, Timely, TimesVouch
<1> QED BY <1>1, <1>2 DEF Fresh

\* What an apply that begins will make of a file: a reconcile makes every file good, a change that
\* fixes it too, and one that does not mention it leaves it.
LEMMA BegunGood ==
    ASSUME TypeInv, VouchInv, Timely, Without(Coincidences), Begins, NEW f \in Files
    PROVE  /\ job' # None /\ job'.index = DriftIndex(job'.deep) /\ job'.removed = DriftRemoved =>
                 Good(f)'
           /\ \A c : job' # None /\ job'.index = Gated(c) /\ job'.removed = c.removed
                        /\ c.op = "signal" /\ (Without({"replace"}) => c.index \cap c.removed = {}) =>
                 /\ Fixes(c, f) => Good(f)'
                 /\ ~ Fixes(c, f) /\ ~ Spoils(c, f) => NodesAfter(f)' = nodes[f]
           /\ Fresh(f)' = Fresh(f)
<1>1. UNCHANGED <<tree, ignored, kept, nodes>> BY BegunJob DEF treeVars, stateVars
<1>2. Fresh(f)' = Fresh(f) /\ (InScope(f)' <=> InScope(f)) BY <1>1 DEF Fresh, InScope
<1>3. Without({"replace"}) BY WithoutEach DEF Coincidences
<1>4. job' # None =>
         NodesAfter(f)' = IF f \in job'.index THEN IF tree[f] = None THEN None ELSE tree[f].text
                          ELSE IF f \in job'.removed THEN None ELSE nodes[f]
  BY <1>1 DEF NodesAfter
<1>5. (f \in kept /\ InScope(f)) \/ NodesAfter(f)' = Fresh(f) => Good(f)'
  BY <1>1, <1>2 DEF Good
<1>6. manifest[f] = None => nodes[f] = None
  BY <1>3 DEF VouchInv, Vouches
<1>7. ASSUME job' # None, job'.index = DriftIndex(job'.deep), job'.removed = DriftRemoved
      PROVE  Good(f)'
  <2>1. CASE f \in job'.index
    BY <1>4, <1>5, <1>7, <2>1 DEF DriftIndex, InScope, Fresh
  <2>2. CASE f \notin job'.index /\ InScope(f)
    <3>1. Unchanged(f, job'.deep) /\ f \notin job'.removed
      BY <1>7, <2>2 DEF DriftIndex, DriftRemoved
    <3> QED BY <1>4, <1>5, <1>7, <2>2, <3>1, SkippedIsGood
  <2>3. CASE f \notin job'.index /\ ~ InScope(f)
    <3>1. NodesAfter(f)' = None BY <1>4, <1>6, <1>7, <2>3 DEF DriftRemoved
    <3> QED BY <1>5, <2>3, <3>1 DEF Fresh
  <2> QED BY <2>1, <2>2, <2>3
<1>8. ASSUME NEW c, job' # None, job'.index = Gated(c), job'.removed = c.removed, c.op = "signal",
             c.index \cap c.removed = {}
      PROVE  /\ Fixes(c, f) => Good(f)'
             /\ ~ Fixes(c, f) /\ ~ Spoils(c, f) => NodesAfter(f)' = nodes[f]
  <2>1. CASE f \in c.index /\ f \notin ignored
    <3>1. CASE Unchanged(f, FALSE)
      <4>1. InScope(f) BY <2>1, <3>1 DEF Unchanged, InScope
      <4>2. NodesAfter(f)' = nodes[f] BY <1>4, <1>8, <2>1, <3>1 DEF Gated
      <4> QED BY <1>5, <2>1, <3>1, <4>1, <4>2, SkippedIsGood DEF Fixes
    <3>2. CASE ~ Unchanged(f, FALSE)
      BY <1>4, <1>5, <1>8, <2>1, <3>2 DEF Gated, Fresh, InScope, Fixes
    <3> QED BY <3>1, <3>2
  <2>2. CASE f \notin c.index /\ f \in c.removed
    BY <1>4, <1>5, <1>8, <2>2 DEF Gated, Fixes, Spoils
  <2>3. CASE ~ (f \in c.index /\ f \notin ignored) /\ f \notin c.removed
    BY <1>4, <1>8, <2>3 DEF Gated, Fixes
  <2> QED BY <1>8, <2>1, <2>2, <2>3
<1> QED BY <1>2, <1>3, <1>7, <1>8

\* The apply for a change of the lane.
LEMMA TakenJob ==
    ASSUME TypeInv, TakeChange, known
    PROVE  /\ job' # None /\ job'.client = "none"
           /\ Head(lane).op = "signal" =>
                 job'.index = Gated(Head(lane)) /\ job'.removed = Head(lane).removed
           /\ Head(lane).op # "signal" =>
                 job'.index = DriftIndex(job'.deep) /\ job'.removed = DriftRemoved
<1>1. job' # None BY BegunJob DEF Begins
<1>2. CASE Head(lane).op = "signal"
  <2>1. Begin(Gated(Head(lane)), Head(lane).removed, FALSE, "none") BY <1>2 DEF TakeChange
  <2> QED BY <1>1, <1>2, <2>1 DEF Begin
<1>3. CASE Head(lane).op # "signal"
  <2>1. Begin(DriftIndex(FALSE), DriftRemoved, FALSE, "none") BY <1>3 DEF TakeChange
  <2> QED BY <1>1, <1>3, <2>1 DEF Begin
<1> QED BY <1>2, <1>3

\* An apply that begins leaves no file without what it waits for.
LEMMA BeginsFresh ==
    ASSUME TypeInv, VouchInv, FlagInv, FreshInv, Without(Coincidences), Begins, NEW f \in Files
    PROVE  LaneMends(f)' /\ Coming(f)'
<1>1. UNCHANGED <<tree, ignored, kept, raw, rawIgnore, live, nodes, watch, converging>> /\ job = None
  BY BegunJob DEF treeVars, watcherVars, stateVars
<1>2. Timely /\ Watching /\ LaneMends(f) /\ Coming(f) BY DEF FreshInv
<1>3. Fresh(f)' = Fresh(f) /\ (Reporting(f)' <=> Reporting(f)) BY <1>1, BegunGood, <1>2 DEF Reporting
<1>4. \A c : (Fixes(c, f)' <=> Fixes(c, f)) /\ (Spoils(c, f)' <=> Spoils(c, f))
  BY <1>1, <1>3 DEF Fixes, Spoils
<1>5. lane \in Seq(Changes) BY DEF TypeInv, LaneTypeOK
<1>6. phase' = phase \/ StartupReconcile
  BY DEF Begins, TakeChange, Index, Converge, Submit, modeVars
<1>7. live' \/ (phase' # "up" /\ watch') => live \/ (phase # "up" /\ watch)
  BY <1>1, <1>6 DEF StartupReconcile
<1>8. ASSUME ~ TakeChange PROVE lane' = lane
  BY <1>8 DEF Begins, Index, Converge, Submit, StartupReconcile
<1>9. NodesAfter(f) = nodes[f] BY <1>1 DEF NodesAfter
<1>10. ASSUME Good(f), NodesAfter(f)' = nodes[f] PROVE Good(f)'
  BY <1>1, <1>3, <1>9, <1>10 DEF Good, InScope
<1>11. ASSUME job' = None \/ job'.client # "watch", phase' = phase, ToConverge PROVE ToConverge'
  BY <1>1, <1>11 DEF ToConverge
<1>12. CASE TakeChange
  <2>1. /\ lane # <<>> /\ lane' = Tail(lane) /\ Head(lane) = lane[1] /\ Len(lane) \in Nat \ {0}
        /\ \A i \in 2 .. Len(lane) : i - 1 \in 1 .. Len(lane') /\ lane'[i - 1] = lane[i]
        /\ \A i \in 1 .. Len(lane') : i + 1 \in 2 .. Len(lane) /\ lane'[i] = lane[i + 1]
    BY <1>5, <1>12 DEF TakeChange
  <2>2. phase = "up" /\ phase' = phase BY <1>12 DEF TakeChange, modeVars
  <2>3. LaneMends(f)'
    <3> SUFFICES ASSUME live, ~ Reporting(f), NEW i \in 1 .. Len(lane'), Spoils(lane'[i], f)
                 PROVE  \E j \in i + 1 .. Len(lane') : Fixes(lane'[j], f)
      BY <1>1, <1>3, <1>4 DEF LaneMends
    <3>1. i + 1 \in 1 .. Len(lane) /\ lane'[i] = lane[i + 1] BY <2>1
    <3>2. PICK j \in i + 2 .. Len(lane) : Fixes(lane[j], f)
      <4>1. \E j \in (i + 1) + 1 .. Len(lane) : Fixes(lane[j], f) BY <1>2, <3>1 DEF LaneMends
      <4> QED BY <4>1
    <3>3. j - 1 \in i + 1 .. Len(lane') /\ lane'[j - 1] = lane[j] BY <2>1
    <3> QED BY <3>2, <3>3
  <2>4. Coming(f)'
    <3> SUFFICES ASSUME live, ~ Reporting(f), ~ ToConverge'
                 PROVE  Good(f)' \/ \E i \in 1 .. Len(lane') : Fixes(lane'[i], f)
      BY <1>1, <1>3, <1>4, <2>2 DEF Coming
    <3>1. known BY DEF FlagInv
    <3>2. CASE Head(lane).op # "signal" BY <1>2, <1>12, <3>1, <3>2, BegunGood, TakenJob
    <3>3. CASE Head(lane).op = "signal"
      <4> DEFINE c == Head(lane)
      <4>1. job' # None /\ job'.client # "watch" /\ job'.index = Gated(c) /\ job'.removed = c.removed
        BY <1>12, <3>1, <3>3, TakenJob
      <4>2. Without({"replace"}) => c.index \cap c.removed = {} BY <2>1 DEF VouchInv, Disjoint
      <4>3. /\ Fixes(c, f) => Good(f)'
            /\ ~ Fixes(c, f) /\ ~ Spoils(c, f) => NodesAfter(f)' = nodes[f]
        <5> HIDE DEF c
        <5> QED BY <1>2, <3>3, <4>1, <4>2, BegunGood DEF c
      <4>4. c = lane[1] /\ 1 \in 1 .. Len(lane) BY <2>1
      <4> HIDE DEF c
      <4>5. ~ ToConverge BY <1>11, <2>2, <4>1
      <4>6. ASSUME NEW i \in 2 .. Len(lane), Fixes(lane[i], f)
            PROVE  \E j \in 1 .. Len(lane') : Fixes(lane'[j], f)
        BY <2>1, <4>6
      <4>7. CASE \E i \in 1 .. Len(lane) : Fixes(lane[i], f)
        <5>1. PICK i \in 1 .. Len(lane) : Fixes(lane[i], f) BY <4>7
        <5>2. i = 1 \/ i \in 2 .. Len(lane) BY <2>1
        <5> QED BY <4>3, <4>4, <4>6, <5>1, <5>2
      <4>8. CASE Good(f)
        <5>1. CASE Spoils(c, f)
          <6>1. \E j \in 1 + 1 .. Len(lane) : Fixes(lane[j], f)
            BY <1>2, <4>4, <5>1 DEF LaneMends
          <6> QED BY <4>6, <6>1
        <5> QED BY <1>10, <4>3, <4>8, <5>1
      <4> QED BY <1>2, <4>5, <4>7, <4>8 DEF Coming
    <3> QED BY <3>2, <3>3
  <2> QED BY <2>3, <2>4
<1>13. CASE ~ TakeChange
  <2>1. LaneMends(f)' BY <1>1, <1>2, <1>3, <1>4, <1>8, <1>13 DEF LaneMends
  <2>2. Coming(f)'
    <3>1. CASE job'.index = DriftIndex(job'.deep) /\ job'.removed = DriftRemoved
      <4>1. job' # None BY <1>13, BegunJob
      <4> QED BY <1>2, <3>1, <4>1, BegunGood DEF Coming
    <3>2. CASE Submit
      <4>1. PICK c \in [op : {"signal"}, index : SUBSET {g \in Files : tree[g] # None},
                        removed : SUBSET {g \in Files : tree[g] = None}] :
                   Begin(Gated(c), c.removed, FALSE, "submit")
        BY <3>2 DEF Submit
      <4>2. c.op = "signal" /\ c.index \cap c.removed = {} OBVIOUS
      <4>3. job' # None BY <1>13, BegunJob
      <4>4. job'.index = Gated(c) /\ job'.removed = c.removed /\ job'.client = "submit"
        BY <4>1 DEF Begin
      <4>5. ~ Spoils(c, f) BY DEF Spoils, Fresh, InScope
      <4>6. Good(f)' \/ NodesAfter(f)' = nodes[f]
        BY <1>2, <4>2, <4>3, <4>4, <4>5, BegunGood
      <4>7. lane' = lane /\ phase' = phase BY <3>2 DEF Submit, modeVars
      <4> QED BY <1>1, <1>2, <1>3, <1>4, <1>10, <1>11, <4>4, <4>6, <4>7 DEF Coming
    <3> QED BY <1>13, <3>1, <3>2, BegunJob
  <2> QED BY <2>1, <2>2
<1> QED BY <1>12, <1>13

\* An edit is reported, or makes no difference to the graph: the file is ignored, or was new and has
\* gone before anything read it.
LEMMA UserFresh ==
    ASSUME TypeInv, VouchInv, FreshInv, Without(Coincidences), UserStep, NEW g \in Files
    PROVE  LaneMends(g)' /\ Coming(g)'
<1>1. PICK f \in Files :
         /\ MayEdit(f)
         /\ UNCHANGED <<boundary, live, stateVars, modeVars, lane, job>>
         /\ \A h \in Files \ {f} :
               /\ tree'[h] = tree[h] /\ raw'[h] = raw[h]
               /\ h \in ignored' <=> h \in ignored
               /\ h \in kept' <=> h \in kept
         /\ \/ \E text \in Texts : Edit(f, text) \/ EditKeepingTime(f, text)
            \/ Delete(f) \/ EditIgnore(f)
  BY UserEffect
<1>2. /\ raw \in [Files -> SUBSET Kinds] /\ tree \in [Files -> FileStates \cup {None}]
      /\ nodes' = nodes /\ phase' = phase /\ watch' = watch /\ converging' = converging
  BY <1>1 DEF TypeInv, CaptureTypeOK, stateVars, modeVars
<1>3. LaneMends(g) /\ Coming(g) BY DEF FreshInv
<1>4. ToConverge' <=> ToConverge BY <1>1, <1>2 DEF ToConverge
<1>5. rawIgnore => rawIgnore'
  BY <1>1 DEF Edit, EditKeepingTime, Write, Delete, EditIgnore
<1>6. CASE g # f
  <2>1. /\ tree'[g] = tree[g] /\ raw'[g] = raw[g]
        /\ g \in ignored' <=> g \in ignored
        /\ g \in kept' <=> g \in kept
    BY <1>1, <1>6
  <2>2. (InScope(g)' <=> InScope(g)) /\ Fresh(g)' = Fresh(g)
    BY <2>1 DEF InScope, Fresh
  <2>3. NodesAfter(g)' = NodesAfter(g) BY <1>1, <1>2, <2>1 DEF NodesAfter
  <2>4. (Good(g)' <=> Good(g)) /\ (Reporting(g) => Reporting(g)')
    BY <1>5, <2>1, <2>2, <2>3 DEF Good, Reporting
  <2>5. \A c : (Fixes(c, g)' <=> Fixes(c, g)) /\ (Spoils(c, g)' <=> Spoils(c, g))
    BY <2>1, <2>2 DEF Fixes, Spoils
  <2> QED BY <1>1, <1>2, <1>3, <1>4, <2>4, <2>5 DEF LaneMends, Coming
<1>7. CASE g = f
  <2>1. CASE ~ live
    <3>1. phase # "up" /\ watch => phase \in {"deep", "cheap"}
      BY <1>1, WithoutEach DEF MayEdit, Coincidences, TypeInv, CaptureTypeOK
    <3> QED BY <1>1, <1>2, <2>1, <3>1 DEF LaneMends, Coming, ToConverge
  <2>2. CASE live
    <3>1. job # None => f \notin job.index /\ f \notin job.removed
      BY <1>1, WithoutEach DEF MayEdit, Coincidences
    <3>2. NodesAfter(f) = nodes[f] /\ NodesAfter(f)' = nodes[f]
      BY <1>1, <1>2, <3>1 DEF NodesAfter
    <3>3. \/ Reporting(f)'
          \/ f \in ignored /\ ignored' = ignored
          \/ tree'[f] = None /\ nodes[f] = None
      <4>1. CASE \E text \in Texts : Edit(f, text) \/ EditKeepingTime(f, text)
        <5>1. PICK kind \in {"create", "modify"} : raw' = Reported(f, kind) /\ ignored' = ignored
          BY <4>1 DEF Edit, EditKeepingTime, Write
        <5>2. raw'[f] # {} BY <1>2, <2>2, <5>1 DEF Reported, Cancels
        <5> QED BY <5>1, <5>2 DEF Reporting
      <4>2. CASE Delete(f)
        <5>1. raw' = Reported(f, "remove") /\ ignored' = ignored /\ tree'[f] = None
          BY <1>2, <4>2 DEF Delete
        <5>2. CASE Cancels(f)
          <6>1. manifest[f] = None BY <4>2, <5>2, WithoutEach DEF Delete, Coincidences
          <6>2. nodes[f] = None BY <6>1, WithoutEach DEF VouchInv, Vouches, Coincidences
          <6> QED BY <5>1, <6>2
        <5>3. CASE ~ Cancels(f)
          <6>1. raw'[f] # {} BY <1>2, <2>2, <5>1, <5>3 DEF Reported
          <6> QED BY <5>1, <6>1 DEF Reporting
        <5> QED BY <5>2, <5>3
      <4>3. CASE EditIgnore(f) BY <2>2, <4>3 DEF EditIgnore, Reporting
      <4> QED BY <1>1, <4>1, <4>2, <4>3
    <3>4. CASE Reporting(f)' BY <1>7, <3>4 DEF LaneMends, Coming
    <3>5. CASE f \in ignored /\ ignored' = ignored
      <4>1. Fresh(f) = None /\ Fresh(f)' = None /\ ~ InScope(f)
        BY <3>5 DEF Fresh, InScope
      <4>2. Good(f) => Good(f)' BY <3>2, <4>1 DEF Good
      <4>3. \A c : (Fixes(c, f) => Fixes(c, f)') /\ ~ Spoils(c, f)'
        BY <3>5, <4>1 DEF Fixes, Spoils
      <4>4. Reporting(f) => Reporting(f)' BY <1>5, <3>5 DEF Reporting
      <4> QED
        BY <1>1, <1>2, <1>3, <1>4, <1>7, <2>2, <4>2, <4>3, <4>4 DEF LaneMends, Coming
    <3>6. CASE tree'[f] = None /\ nodes[f] = None
      <4>1. Fresh(f)' = None BY <3>6 DEF Fresh, InScope
      <4>2. Good(f)' BY <3>2, <3>6, <4>1 DEF Good
      <4>3. \A c : ~ Spoils(c, f)' BY <4>1 DEF Spoils
      <4> QED BY <1>7, <4>2, <4>3 DEF LaneMends, Coming
    <3> QED BY <3>3, <3>4, <3>5, <3>6
  <2> QED BY <2>1, <2>2 DEF TypeInv, CaptureTypeOK
<1> QED BY <1>6, <1>7

\* An apply makes of a file what it was going to.
LEMMA ApplyFresh ==
    ASSUME TypeInv, VouchInv, FlagInv, FreshInv, Without(Coincidences),
           Probe \/ Read \/ ReadFails \/ Record, NEW f \in Files
    PROVE  LaneMends(f)' /\ Coming(f)'
<1>1. /\ job # None /\ job \in ApplyJobs
      /\ UNCHANGED <<tree, ignored, kept, raw, rawIgnore, live, lane>>
  BY DEF Probe, Read, ReadFails, Record, TypeInv, CaptureTypeOK, treeVars, watcherVars
<1>2. LaneMends(f) /\ Coming(f) BY DEF FreshInv
<1>3. Fresh(f)' = Fresh(f) /\ (InScope(f)' <=> InScope(f)) /\ (Reporting(f)' <=> Reporting(f))
  BY <1>1 DEF Fresh, InScope, Reporting
<1>4. \A c : (Fixes(c, f)' <=> Fixes(c, f)) /\ (Spoils(c, f)' <=> Spoils(c, f))
  BY <1>1, <1>3 DEF Fixes, Spoils
<1>5. LaneMends(f)' BY <1>1, <1>2, <1>3, <1>4 DEF LaneMends
<1>6. ASSUME NodesAfter(f)' = NodesAfter(f), ToConverge => ToConverge',
             live' \/ (phase' # "up" /\ watch') => live \/ (phase # "up" /\ watch)
      PROVE  Coming(f)'
  <2>1. Good(f) => Good(f)' BY <1>1, <1>3, <1>6 DEF Good
  <2> QED BY <1>1, <1>2, <1>3, <1>4, <1>6, <2>1 DEF Coming
<1>7. CASE Probe
  <2> DEFINE gone == {g \in job.index : tree[g] = None}
  <2>1. job' = [job EXCEPT !.at = "read", !.index = @ \ gone, !.removed = @ \cup gone]
    BY <1>7 DEF Probe
  <2>2. job'.index = job.index \ gone /\ job'.removed = job.removed \cup gone
           /\ job'.client = job.client /\ job' \in ApplyJobs
    BY <1>1, <2>1 DEF ApplyJobs
  <2>3. job' # None BY <2>2, NoneAssumption
  <2>4. UNCHANGED <<nodes, phase, watch, converging>> BY <1>7 DEF Probe, stateVars, modeVars
  <2>5. NodesAfter(f)' = NodesAfter(f) BY <1>1, <2>2, <2>3, <2>4 DEF NodesAfter
  <2>6. ToConverge => ToConverge' BY <1>1, <2>2, <2>3, <2>4 DEF ToConverge
  <2> QED BY <1>1, <1>5, <1>6, <2>4, <2>5, <2>6
<1>8. CASE Read
  <2>1. job' = [job EXCEPT !.at = "stamp", !.read = [g \in job.index |-> tree[g].text]]
    BY <1>8 DEF Read
  <2>2. job'.index = job.index /\ job'.removed = job.removed /\ job'.client = job.client
    BY <1>1, <2>1 DEF ApplyJobs
  <2>3. job' # None BY <1>8, ReadJob
  <2>4. UNCHANGED <<nodes, phase, watch, converging>> BY <1>8 DEF Read, stateVars, modeVars
  <2>5. NodesAfter(f)' = NodesAfter(f) BY <1>1, <2>2, <2>3, <2>4 DEF NodesAfter
  <2>6. ToConverge => ToConverge' BY <1>1, <2>2, <2>3, <2>4 DEF ToConverge
  <2> QED BY <1>1, <1>5, <1>6, <2>4, <2>5, <2>6
<1>9. CASE ReadFails
  <2>1. \A g \in job.index : tree[g] # None
    BY <1>1, <1>9, WithoutEach DEF ReadFails, VouchInv, Steady, Coincidences
  <2> QED BY <1>9, <2>1 DEF ReadFails
<1>10. CASE Record
  <2>1. job.at = "stamp" /\ job' = None /\ nodes' = NewNodes BY <1>10 DEF Record
  <2>2. \A g \in job.index : tree[g] # None /\ job.read[g] = tree[g].text
    BY <1>1, <2>1, WithoutEach DEF VouchInv, Steady, Coincidences
  <2>3. NodesAfter(f)' = NodesAfter(f) BY <1>1, <2>1, <2>2 DEF NodesAfter, NewNodes
  <2>4. job.client = "watch" => phase = "up" BY <1>1 DEF FlagInv
  <2>5. phase' = IF phase = "boot" THEN "watchers" ELSE phase BY <1>10 DEF Record
  <2>6. watch' = (watch \/ (job.client = "watch" /\ known)) BY <1>10 DEF Record, Committed
  <2>7. live' \/ (phase' # "up" /\ watch') => live \/ (phase # "up" /\ watch)
    BY <1>1, <2>4, <2>5, <2>6
  <2>8. ToConverge => ToConverge'
    BY <1>10, <2>1, <2>5 DEF ToConverge, Record
  <2> QED BY <1>5, <1>6, <2>3, <2>7, <2>8
<1> QED BY <1>7, <1>8, <1>9, <1>10

\* A watcher that starts finds nothing spoiling in the lane and is followed by a converge, or was
\* preceded by the reconcile of the startup.
LEMMA ModeFresh ==
    ASSUME TypeInv, FlagInv, FreshInv, Without(Coincidences), NEW f \in Files, NEW clean \in BOOLEAN,
           \/ Register \/ Unregister \/ PlanWatchOn \/ PlanWatchOff \/ FlushState
           \/ Restart(clean) \/ StartAllWatchers
    PROVE  LaneMends(f)' /\ Coming(f)'
<1>1. Watching /\ LaneMends(f) /\ Coming(f) BY DEF FreshInv
<1>2. phase # "up" => ~ live BY DEF TypeInv, LaneTypeOK
<1>3. CASE Register
  <2>1. ~ live' /\ phase' = "up" BY <1>3 DEF Register, FlagInv, watcherVars
  <2> QED BY <2>1 DEF LaneMends, Coming
<1>4. CASE Unregister \/ PlanWatchOff
  <2>1. ~ live' /\ phase' = "up" BY <1>4 DEF Unregister, PlanWatchOff, StopWatcher
  <2> QED BY <2>1 DEF LaneMends, Coming
<1>5. CASE PlanWatchOn
  <2>1. ToConverge' BY <1>5 DEF PlanWatchOn, FlagInv, ToConverge
  <2>2. \A i \in 1 .. Len(lane) : lane[i].removed = {} BY <1>1, <1>5 DEF PlanWatchOn, Watching
  <2>3. lane' = lane BY <1>5 DEF PlanWatchOn
  <2>4. \A c : c.removed = {} => ~ Spoils(c, f)' BY DEF Spoils
  <2> QED BY <2>1, <2>2, <2>3, <2>4 DEF LaneMends, Coming
<1>6. CASE FlushState
  <2>1. UNCHANGED <<treeVars, watcherVars, nodes, modeVars, lane, job>> BY <1>6 DEF FlushState
  <2> QED
    BY <1>1, <2>1 DEF treeVars, watcherVars, modeVars, LaneMends, Coming, Reporting, ToConverge,
       Good, NodesAfter, Fresh, InScope, Fixes, Spoils
<1>7. CASE Restart(clean)
  <2>1. ~ live' /\ (watch' => phase' \in {"deep", "cheap"}) BY <1>7 DEF Restart
  <2> QED BY <2>1 DEF LaneMends, Coming, ToConverge
<1>8. CASE StartAllWatchers
  <2>1. /\ phase = "watchers" /\ phase' = "up" /\ live' = watch
        /\ UNCHANGED <<tree, ignored, kept, raw, rawIgnore, nodes, lane, job>>
    BY <1>8 DEF StartAllWatchers, treeVars, stateVars
  <2>2. lane = <<>> /\ ~ ToConverge
    BY <1>1, <2>1 DEF Watching, FlagInv, ToConverge
  <2>3. (Good(f)' <=> Good(f)) /\ (Reporting(f)' <=> Reporting(f))
    BY <2>1 DEF Good, Reporting, NodesAfter, Fresh, InScope
  <2>4. lane' = <<>> BY <2>1, <2>2
  <2> QED BY <1>1, <2>1, <2>2, <2>3, <2>4 DEF LaneMends, Coming
<1> QED BY <1>3, <1>4, <1>5, <1>6, <1>7, <1>8

\* What a batch holds goes into the lane as a change that fixes it.
LEMMA DebounceFresh ==
    ASSUME TypeInv, VouchInv, FreshInv, Without(Coincidences),
           NEW batch \in SUBSET {f \in Files : raw[f] # {}}, Debounce(batch), NEW f \in Files
    PROVE  LaneMends(f)' /\ Coming(f)'
<1>1. /\ UNCHANGED <<tree, ignored, kept, nodes, job, live, watch, phase, converging>>
      /\ live /\ ~ rawIgnore' /\ raw'[f] = IF f \in batch THEN {} ELSE raw[f]
  BY DEF Debounce, treeVars, stateVars, modeVars
<1>2. Watching /\ LaneMends(f) /\ Coming(f) BY DEF FreshInv
<1>3. Classified(batch) = batch \ ignored BY <1>1, <1>2 DEF Classified, Watching
<1>4. Fresh(f)' = Fresh(f) /\ (Good(f)' <=> Good(f)) /\ (ToConverge' <=> ToConverge)
  BY <1>1 DEF Fresh, InScope, Good, NodesAfter, ToConverge
<1>5. \A c : (Fixes(c, f)' <=> Fixes(c, f)) /\ (Spoils(c, f)' <=> Spoils(c, f))
  BY <1>1, <1>4 DEF Fixes, Spoils
<1>6. "remove" \in raw[f] => tree[f] = None
  BY WithoutEach DEF VouchInv, Disjoint, Coincidences
<1>7. raw[f] \subseteq Kinds BY DEF TypeInv, CaptureTypeOK
<1> DEFINE c == BatchSignal(batch)
<1>8. ~ Spoils(c, f)
  BY <1>6 DEF Spoils, BatchSignal, Signal, BatchRemoved, Fresh, InScope
<1>9. ~ Spoils(Rescope, f) /\ Fixes(Rescope, f) BY DEF Spoils, Fixes, Rescope
<1>10. f \in batch /\ f \notin ignored =>
          Fixes(c, f) /\ BatchIndex(batch) \cup BatchRemoved(batch) # {}
  <2> SUFFICES ASSUME f \in batch, f \notin ignored
               PROVE  Fixes(c, f) /\ f \in BatchIndex(batch) \cup BatchRemoved(batch)
    OBVIOUS
  <2>1. raw[f] # {} OBVIOUS
  <2>2. f \in BatchIndex(batch) \/ (f \in BatchRemoved(batch) /\ tree[f] = None)
    BY <1>3, <1>6, <1>7, <2>1 DEF BatchIndex, BatchRemoved, Kinds
  <2> QED BY <2>2 DEF Fixes, BatchSignal, Signal, Fresh, InScope
<1> HIDE DEF c
<1> DEFINE Lane(i) == lane'[i]
<1>11. /\ Len(lane) \in Nat /\ Len(lane') \in Nat /\ Len(lane') >= Len(lane)
       /\ \A i \in 1 .. Len(lane) : lane'[i] = lane[i]
       /\ \A i \in Len(lane) + 1 .. Len(lane') : lane'[i] = Rescope \/ lane'[i] = c
       /\ rawIgnore => Len(lane') > Len(lane) /\ lane'[Len(lane) + 1] = Rescope
       /\ BatchIndex(batch) \cup BatchRemoved(batch) # {} =>
             Len(lane') > Len(lane) /\ lane'[Len(lane')] = c
  BY DebounceLane DEF c
<1>12. ASSUME Reporting(f), ~ Reporting(f)'
       PROVE  \E j \in Len(lane) + 1 .. Len(lane') : Fixes(lane'[j], f)
  <2>1. CASE rawIgnore
    BY <1>9, <1>11, <2>1
  <2>2. CASE ~ rawIgnore
    <3>1. raw[f] # {} /\ f \notin ignored BY <1>12, <2>2 DEF Reporting
    <3>2. f \in batch BY <1>1, <1>12, <3>1 DEF Reporting
    <3> QED BY <1>10, <1>11, <3>1, <3>2
  <2> QED BY <2>1, <2>2
<1>13. LaneMends(f)'
  <2> SUFFICES ASSUME ~ Reporting(f)', NEW i \in 1 .. Len(lane'), Spoils(lane'[i], f)
               PROVE  \E j \in i + 1 .. Len(lane') : Fixes(lane'[j], f)
    BY <1>5 DEF LaneMends
  <2>1. i \in 1 .. Len(lane) /\ lane'[i] = lane[i] BY <1>8, <1>9, <1>11
  <2>2. CASE Reporting(f)
    <3>1. PICK j \in Len(lane) + 1 .. Len(lane') : Fixes(lane'[j], f) BY <1>12, <2>2
    <3>2. j \in i + 1 .. Len(lane') BY <1>11, <2>1
    <3> QED BY <3>1, <3>2
  <2>3. CASE ~ Reporting(f)
    <3>1. PICK j \in i + 1 .. Len(lane) : Fixes(lane[j], f)
      BY <1>1, <1>2, <2>1, <2>3 DEF LaneMends
    <3>2. j \in i + 1 .. Len(lane') /\ lane'[j] = lane[j] BY <1>11, <2>1
    <3> QED BY <3>1, <3>2
  <2> QED BY <2>2, <2>3
<1>14. Coming(f)'
  <2> SUFFICES ASSUME ~ Reporting(f)', ~ ToConverge, ~ Good(f)
               PROVE  \E i \in 1 .. Len(lane') : Fixes(lane'[i], f)
    BY <1>4, <1>5 DEF Coming
  <2>1. CASE Reporting(f)
    <3>1. PICK j \in Len(lane) + 1 .. Len(lane') : Fixes(lane'[j], f) BY <1>12, <2>1
    <3>2. j \in 1 .. Len(lane') BY <1>11
    <3> QED BY <3>1, <3>2
  <2>2. CASE ~ Reporting(f)
    <3>1. PICK j \in 1 .. Len(lane) : Fixes(lane[j], f) BY <1>1, <1>2, <2>2 DEF Coming
    <3>2. j \in 1 .. Len(lane') /\ lane'[j] = lane[j] BY <1>11
    <3> QED BY <3>1, <3>2
  <2> QED BY <2>1, <2>2
<1> QED BY <1>13, <1>14

\* Every step keeps what makes a watched project fresh.
LEMMA FreshStep ==
    ASSUME TypeInv, VouchInv, FlagInv, FreshInv, [CaptureNext]_captureVars PROVE FreshInv'
<1> SUFFICES ASSUME Without(Coincidences)
             PROVE  Timely' /\ Watching' /\ \A f \in Files : LaneMends(f)' /\ Coming(f)'
  BY LeftAlone DEF FreshInv, Without
<1>1. Timely' /\ Watching' BY TimesStep, WatchingStep DEF FreshInv, VouchInv
<1>2. ASSUME NEW f \in Files PROVE LaneMends(f)' /\ Coming(f)'
  <2>1. CASE UserStep BY <2>1, UserFresh
  <2>2. CASE ApplyStep BY <2>2, BeginsFresh, ApplyFresh DEF ApplyStep, Begins
  <2>3. CASE ModeStep BY <2>3, BeginsFresh, ModeFresh DEF ModeStep, Begins
  <2>4. CASE \E batch \in SUBSET {g \in Files : raw[g] # {}} : Debounce(batch)
    BY <2>4, DebounceFresh
  <2>5. CASE UNCHANGED captureVars
    <3>1. UNCHANGED <<treeVars, watcherVars, nodes, modeVars, lane, job>>
      BY <2>5 DEF captureVars, stateVars
    <3>2. LaneMends(f) /\ Coming(f) BY DEF FreshInv
    <3> QED
      BY <3>1, <3>2 DEF treeVars, watcherVars, modeVars, LaneMends, Coming, Reporting, ToConverge,
         Good, NodesAfter, Fresh, InScope, Fixes, Spoils
  <2> QED BY <2>1, <2>2, <2>3, <2>4, <2>5 DEF CaptureNext
<1> QED BY <1>1, <1>2

\* At the start no file is watched and none is stamped.
LEMMA FreshInit == ASSUME CaptureInit PROVE FreshInv
<1>1. Timely
  BY DEF CaptureInit, Timely, TimesVouch
<1>2. ~ live /\ phase = "up" /\ lane = <<>> BY DEF CaptureInit
<1> QED BY <1>1, <1>2 DEF FreshInv, Watching, LaneMends, Coming

(***************************************************************************)
(* Once everything a watcher has seen is applied, the graph of a watched   *)
(* project is that of its tree, whatever was edited, ignored or restarted  *)
(* before: of every file it holds at all times that an event, a converge   *)
(* or a change of the lane is to come which makes it good, or that it is.  *)
(***************************************************************************)
THEOREM NothingIsLost == CaptureSpec => []WatchedIsFresh
<1>1. CaptureInit => TypeInv /\ VouchInv /\ FlagInv /\ FreshInv
  BY InitType, VouchInit, FlagInit, FreshInit
<1>2. TypeInv /\ VouchInv /\ FlagInv /\ FreshInv /\ [CaptureNext]_captureVars =>
         TypeInv' /\ VouchInv' /\ FlagInv' /\ FreshInv'
  BY StepType, VouchStep, FlagStep, FreshStep DEF VouchInv
<1>3. FreshInv => WatchedIsFresh
  <2> SUFFICES ASSUME FreshInv, Without(Coincidences), Settled, NEW f \in Files \ kept
               PROVE  nodes[f] = Fresh(f)
    BY DEF WatchedIsFresh, NothingWrittenIsLost, Without, Coincidences
  <2>1. Coming(f) BY DEF FreshInv
  <2>2. ~ Reporting(f) BY DEF Settled, Reporting, NoEvents
  <2>3. ~ ToConverge BY DEF Settled, ToConverge
  <2>4. live /\ Len(lane) = 0 BY DEF Settled
  <2>5. Good(f) BY <2>1, <2>2, <2>3, <2>4 DEF Coming
  <2> QED BY <2>5 DEF Good, NodesAfter, Settled
<1> QED BY <1>1, <1>2, <1>3, PTL DEF CaptureSpec

-----------------------------------------------------------------------------
(* HookDelivery *)

Places == {"idle", "replay", "send", "remove", "diff", "deliver", "write", "rename",
           "cap", "done", "killed", "cut"}

-----------------------------------------------------------------------------
(* Sequences without duplicates *)

\* A non-empty set of naturals has a least element.
LEMMA LeastOf ==
    ASSUME NEW I \in SUBSET Nat, I # {}
    PROVE  \E i \in I : \A j \in I : i <= j
<1>1. PICK i \in I : \A j \in I : ~ (<<j, i>> \in OpToRel(<, Nat))
  BY NatLessThanWellFounded, WFMin, Zenon
<1>2. \A j \in I : ~ (j < i) BY <1>1 DEF OpToRel
<1> QED BY <1>2

\* The elements of a listing are those it is made of.
LEMMA Elements == ASSUME NEW S, NEW s \in Seq(S) PROVE ToSet(s) \subseteq S
BY LenProperties, ElementOfSeq DEF ToSet

\* What appending a new element does to a listing, its elements and their order.
LEMMA Appended ==
    ASSUME NEW S, NEW s \in Seq(S), NEW e \in S, IsInjective(s), e \notin ToSet(s)
    PROVE  /\ Append(s, e) \in Seq(S) /\ IsInjective(Append(s, e))
           /\ ToSet(Append(s, e)) = ToSet(s) \cup {e}
           /\ \A i \in ToSet(s) : Before(Append(s, e), i, e)
           /\ \A i : ~ Before(Append(s, e), e, i)
           /\ \A i, j : j # e => (Before(Append(s, e), i, j) <=> Before(s, i, j))
<1> DEFINE t == Append(s, e)
<1>1. /\ Len(s) \in Nat /\ DOMAIN s = 1 .. Len(s) /\ t \in Seq(S) /\ Len(t) = Len(s) + 1
      /\ DOMAIN t = 1 .. Len(s) + 1
      /\ \A i \in 1 .. Len(s) : t[i] = s[i] /\ s[i] # e
      /\ t[Len(s) + 1] = e
  BY LenProperties, AppendProperties DEF ToSet
<1> HIDE DEF t
<1>2. IsInjective(t) BY <1>1 DEF IsInjective
<1>3. ToSet(t) = ToSet(s) \cup {e}
  <2>1. ASSUME NEW x \in ToSet(s) PROVE x \in ToSet(t)
    <3>1. PICK i \in 1 .. Len(s) : x = s[i] BY <1>1 DEF ToSet
    <3> QED BY <3>1, <1>1 DEF ToSet
  <2>2. e \in ToSet(t) BY <1>1 DEF ToSet
  <2>3. ASSUME NEW x \in ToSet(t) PROVE x \in ToSet(s) \cup {e}
    <3>1. PICK i \in 1 .. Len(s) + 1 : x = t[i] BY <1>1 DEF ToSet
    <3>2. i \in 1 .. Len(s) \/ i = Len(s) + 1 BY <1>1
    <3> QED BY <3>1, <3>2, <1>1 DEF ToSet
  <2> QED BY <2>1, <2>2, <2>3
<1>4. ASSUME NEW i \in ToSet(s) PROVE Before(t, i, e)
  <2>1. PICK k \in 1 .. Len(s) : i = s[k] BY <1>1 DEF ToSet
  <2>2. k \in 1 .. Len(t) /\ Len(t) \in 1 .. Len(t) /\ k < Len(t) BY <1>1
  <2> QED BY <2>1, <2>2, <1>1 DEF Before
<1>5. ASSUME NEW i PROVE ~ Before(t, e, i) BY <1>1 DEF Before
<1>6. ASSUME NEW i, NEW j, j # e PROVE Before(t, i, j) <=> Before(s, i, j)
  BY <1>6, <1>1 DEF Before
<1> QED BY <1>1, <1>2, <1>3, <1>4, <1>5, <1>6 DEF t

\* Without duplicates the order is total and has no cycles.
LEMMA TotalOrder ==
    ASSUME NEW S, NEW s \in Seq(S), IsInjective(s)
    PROVE  /\ \A i, j : Before(s, i, j) => i \in ToSet(s) /\ j \in ToSet(s) /\ i # j /\ ~ Before(s, j, i)
           /\ \A i, j \in ToSet(s) : i # j => Before(s, i, j) \/ Before(s, j, i)
<1>1. Len(s) \in Nat /\ DOMAIN s = 1 .. Len(s) BY LenProperties
<1>2. ASSUME NEW i, NEW j, Before(s, i, j)
      PROVE  i \in ToSet(s) /\ j \in ToSet(s) /\ i # j /\ ~ Before(s, j, i)
  <2>1. PICK k, l \in 1 .. Len(s) : k < l /\ s[k] = i /\ s[l] = j BY <1>2 DEF Before
  <2>2. i \in ToSet(s) /\ j \in ToSet(s) BY <2>1, <1>1 DEF ToSet
  <2>3. i # j BY <2>1, <1>1 DEF IsInjective
  <2>4. ASSUME Before(s, j, i) PROVE FALSE
    <3>1. PICK m, n \in 1 .. Len(s) : m < n /\ s[m] = j /\ s[n] = i BY <2>4 DEF Before
    <3>2. m = l /\ n = k BY <2>1, <3>1, <1>1 DEF IsInjective
    <3> QED BY <2>1, <3>1, <3>2, <1>1
  <2> QED BY <2>2, <2>3, <2>4
<1>3. ASSUME NEW i \in ToSet(s), NEW j \in ToSet(s), i # j
      PROVE  Before(s, i, j) \/ Before(s, j, i)
  <2>1. PICK k \in 1 .. Len(s) : s[k] = i BY <1>1 DEF ToSet
  <2>2. PICK l \in 1 .. Len(s) : s[l] = j BY <1>1 DEF ToSet
  <2>3. k < l \/ l < k BY <2>1, <2>2, <1>3, <1>1
  <2> QED BY <2>1, <2>2, <2>3 DEF Before
<1> QED BY <1>2, <1>3

\* Of some elements of a listing one comes first.
LEMMA FirstOf ==
    ASSUME NEW S, NEW s \in Seq(S), IsInjective(s), NEW T \in SUBSET ToSet(s), T # {}
    PROVE  \E j \in T : \A k \in T \ {j} : Before(s, j, k)
<1> DEFINE I == {i \in 1 .. Len(s) : s[i] \in T}
<1>1. Len(s) \in Nat /\ DOMAIN s = 1 .. Len(s) BY LenProperties
<1>2. I \in SUBSET Nat /\ I # {} BY <1>1 DEF ToSet
<1> HIDE DEF I
<1>3. PICK i \in I : \A l \in I : i <= l BY <1>2, LeastOf
<1>4. i \in 1 .. Len(s) /\ s[i] \in T BY <1>3 DEF I
<1>5. ASSUME NEW k \in T \ {s[i]} PROVE Before(s, s[i], k)
  <2>1. PICK l \in 1 .. Len(s) : s[l] = k BY <1>1, <1>5 DEF ToSet
  <2>2. l \in I /\ l # i BY <2>1, <1>5 DEF I
  <2>3. i < l BY <2>2, <1>3, <1>1, <2>1, <1>4
  <2> QED BY <2>1, <2>3, <1>4 DEF Before
<1> QED BY <1>4, <1>5

\* SetToSeq lists a finite set, each element once.
LEMMA ListedOnce ==
    ASSUME NEW S, IsFiniteSet(S)
    PROVE  SetToSeq(S) \in Seq(S) /\ IsInjective(SetToSeq(S)) /\ ToSet(SetToSeq(S)) = S
<1> DEFINE n == Cardinality(S)
<1>1. n \in Nat /\ ExistsBijection(1 .. n, S) BY FS_CardinalityType
<1>2. PICK f \in Bijection(1 .. n, S) : TRUE BY <1>1 DEF ExistsBijection
<1>3. f \in [1 .. n -> S] /\ IsInjective(f)
  BY <1>2 DEF Bijection, Injection, IsInjective
<1>4. SetToSeq(S) \in [1 .. n -> S] /\ IsInjective(SetToSeq(S))
  BY <1>3, Zenon DEF SetToSeq
<1> DEFINE g == SetToSeq(S)
<1> HIDE DEF g
<1>5. g \in [1 .. n -> S] /\ IsInjective(g) BY <1>4 DEF g
<1>6. g \in Injection(1 .. n, S) BY <1>5 DEF Injection, IsInjective
<1>7. IsFiniteSet(1 .. n) /\ Cardinality(1 .. n) = n BY <1>1, FS_Interval
<1>8. g \in Surjection(1 .. n, S) BY <1>6, <1>7, FS_Injection
<1>9. ToSet(g) = S BY <1>8, <1>5 DEF Surjection, ToSet
<1>10. g \in Seq(S) BY <1>5, <1>1
<1> QED BY <1>5, <1>9, <1>10 DEF g

-----------------------------------------------------------------------------
(* Types *)

Jobs == Hooks \cup Foreign \cup Waiting

\* Every listing is without duplicates, and only files that have appeared are replayed.
HookInv ==
    /\ HookTypeOK
    /\ todo \in [Hooks -> SUBSET Jobs]
    /\ names \in Seq(Jobs) /\ placed \in Seq(Jobs) /\ received \in Seq(Jobs)
    /\ IsInjective(placed)

\* How far a hook has got: its change set is known from "deliver" on, its job has its name from
\* "rename" on and its file from "cap" on, and only then can it reach the socket by a replay.
Unnamed == {"idle", "replay", "send", "remove", "diff", "deliver", "write"}

Stages ==
    \A h \in Hooks :
        /\ at[h] \in Unnamed => h \notin ToSet(names)
        /\ at[h] \in Unnamed \cup {"rename"} => h \notin ToSet(placed) \cup ToSet(received)

\* j is what a replay of h turns to next.
First(h, j) == j \in todo[h] /\ \A k \in todo[h] \ {j} : Before(names, j, k)

\* A replay that is not at its end has a next job, and only one.
LEMMA NextJob ==
    ASSUME HookInv, NEW h \in Hooks, todo[h] # {}
    PROVE  /\ First(h, Job(h)) /\ Job(h) \in Jobs
           /\ \A j : First(h, j) => j = Job(h)
           /\ \A k \in todo[h] : ~ Before(names, k, Job(h))
<1>1. /\ names \in Seq(Jobs) /\ IsInjective(names) /\ todo[h] \in SUBSET ToSet(names)
      /\ todo[h] \in SUBSET Jobs
  BY DEF HookInv, HookTypeOK
<1>2. \E j \in todo[h] : \A k \in todo[h] \ {j} : Before(names, j, k) BY <1>1, FirstOf
<1>3. First(h, Job(h)) BY <1>2, Zenon DEF Job, First
<1>4. \A i, j : Before(names, i, j) => i # j /\ ~ Before(names, j, i) BY <1>1, TotalOrder
<1> QED BY <1>1, <1>3, <1>4 DEF First

\* What arrives comes after all that has, and leaves the first arrivals as they are.
LEMMA Received ==
    ASSUME HookInv, NEW j \in Jobs, Receive(j)
    PROVE  /\ received' \in Seq(Jobs)
           /\ ToSet(received') = ToSet(received) \cup {j}
           /\ \A a, b : FirstBefore(a, b) /\ (b = j => a \in ToSet(received)) => FirstBefore(a, b)'
<1>1. /\ received' \in Seq(Jobs) /\ Len(received) \in Nat
      /\ DOMAIN received = 1 .. Len(received) /\ DOMAIN received' = 1 .. Len(received) + 1
      /\ \A i \in 1 .. Len(received) : received'[i] = received[i]
      /\ received'[Len(received) + 1] = j
  BY LenProperties, AppendProperties DEF HookInv, Receive
<1>2. ToSet(received') = ToSet(received) \cup {j}
  <2>1. ASSUME NEW x \in ToSet(received') PROVE x \in ToSet(received) \cup {j}
    <3>1. PICK i \in 1 .. Len(received) + 1 : x = received'[i] BY <1>1, <2>1 DEF ToSet
    <3>2. i \in 1 .. Len(received) \/ i = Len(received) + 1 BY <1>1
    <3> QED BY <3>1, <3>2, <1>1 DEF ToSet
  <2>2. ASSUME NEW x \in ToSet(received) PROVE x \in ToSet(received')
    <3>1. PICK i \in 1 .. Len(received) : x = received[i] BY <1>1, <2>2 DEF ToSet
    <3> QED BY <3>1, <1>1 DEF ToSet
  <2>3. j \in ToSet(received') BY <1>1 DEF ToSet
  <2> QED BY <2>1, <2>2, <2>3
<1>3. ASSUME NEW a, NEW b, FirstBefore(a, b), b = j => a \in ToSet(received)
      PROVE  FirstBefore(a, b)'
  <2> SUFFICES ASSUME NEW l \in 1 .. Len(received) + 1, received'[l] = b
               PROVE  \E k \in 1 .. l - 1 : received'[k] = a
    BY <1>1 DEF FirstBefore
  <2>1. CASE l \in 1 .. Len(received)
    <3>1. PICK k \in 1 .. l - 1 : received[k] = a BY <1>1, <1>3, <2>1 DEF FirstBefore
    <3>2. k \in 1 .. Len(received) BY <1>1, <2>1
    <3> QED BY <3>1, <3>2, <1>1
  <2>2. CASE l = Len(received) + 1
    <3>1. PICK k \in 1 .. Len(received) : received[k] = a BY <1>1, <1>3, <2>2 DEF ToSet
    <3>2. k \in 1 .. l - 1 BY <1>1, <2>2
    <3> QED BY <3>1, <3>2, <1>1
  <2> QED BY <1>1, <2>1, <2>2
<1> QED BY <1>1, <1>2, <1>3

\* A removal leaves all it is not about, and marks what it fails to remove.
LEMMA Unlinked ==
    ASSUME NEW J, Unlink(J)
    PROVE  /\ spool' \subseteq spool /\ spool \ J \subseteq spool' /\ spool' \cap J \subseteq unremoved'
           /\ unremoved \subseteq unremoved' /\ unremoved' \subseteq unremoved \cup spool
           /\ spool' \ unremoved' \subseteq spool \ unremoved
BY DEF Unlink

\* The name a hook takes is later than all others.
LEMMA NextName ==
    ASSUME HookInv, Stages, NEW h \in Hooks, at[h] = "write", names' = Append(names, h)
    PROVE  /\ h \notin ToSet(names)
           /\ names' \in Seq(Jobs) /\ IsInjective(names') /\ ToSet(names') = ToSet(names) \cup {h}
           /\ \A i, j : j # h => (Before(names', i, j) <=> Before(names, i, j))
<1>1. names \in Seq(Jobs) /\ IsInjective(names) /\ h \notin ToSet(names) /\ h \in Jobs
  BY DEF Jobs, HookInv, HookTypeOK, Stages, Unnamed
<1> QED BY <1>1, Appended

\* The file of a hook that renames it is the last to appear.
LEMMA NextFile ==
    ASSUME HookInv, Stages, NEW h \in Hooks, at[h] = "rename", placed' = Append(placed, h)
    PROVE  /\ h \notin ToSet(placed) \cup ToSet(received)
           /\ placed' \in Seq(Jobs) /\ IsInjective(placed') /\ ToSet(placed') = ToSet(placed) \cup {h}
           /\ \A i : ~ Before(placed', h, i)
           /\ \A i, j : j # h => (Before(placed', i, j) <=> Before(placed, i, j))
<1>1. placed \in Seq(Jobs) /\ IsInjective(placed) /\ h \notin ToSet(placed) \cup ToSet(received) /\ h \in Jobs
  BY DEF Jobs, HookInv, Stages, Unnamed
<1> QED BY <1>1, Appended

\* The initial spool holds the job files of other builds.
LEMMA HookInitType == ASSUME HookInit PROVE HookInv /\ Stages
<1> DEFINE F == Foreign \cup Waiting
<1>0. IsFiniteSet(F) BY FS_Union, HooksAssumption
<1>1. /\ names \in Seq(F) /\ IsInjective(names) /\ ToSet(names) = F
      /\ placed = names
  BY <1>0, ListedOnce DEF HookInit
<1>2. ToSet(received) = {} /\ received \in Seq(Jobs)
  BY EmptySeq DEF HookInit, ToSet
<1>3. names \in Seq(Jobs) BY <1>1, SeqMonotonic DEF Jobs
<1>4. HookTypeOK BY <1>1 DEF HookInit, HookTypeOK
<1>5. HookInv BY <1>1, <1>2, <1>3, <1>4 DEF HookInv, HookInit
<1>6. Stages BY <1>1, <1>2, HooksAssumption DEF Stages, HookInit
<1> QED BY <1>5, <1>6

\* No step takes a variable out of its domain, repeats a name or gives a file to an earlier stage.
LEMMA TypeStep ==
    ASSUME HookInv, Stages, [HookNext]_hookVars
    PROVE  HookInv' /\ Stages'
<1> USE DEF history, Goto
<1>1. CASE UNCHANGED hookVars
  <2>1. HookTypeOK' BY <1>1 DEF hookVars, HookInv, HookTypeOK
  <2> QED BY <1>1, <2>1 DEF hookVars, HookInv, Stages
<1>2. CASE Flip
  <2>1. HookTypeOK' BY <1>2 DEF Flip, HookInv, HookTypeOK
  <2> QED BY <1>2, <2>1 DEF Flip, HookInv, Stages
<1>3. ASSUME NEW h \in Hooks, HookStep(h) PROVE HookInv' /\ Stages'
  <2> USE DEF HookTypeOK, Unnamed
  <2>0. at \in [Hooks -> Places] BY DEF HookInv, Places
  <2>1. CASE StandDown(h) BY <2>1 DEF StandDown, HookInv, Stages
  <2>2. CASE BeginReplay(h)
    <3>1. spool \in SUBSET Jobs
      <4>1. ToSet(placed) \subseteq Jobs BY Elements DEF HookInv
      <4> QED BY <4>1 DEF HookInv
    <3> QED BY <2>2, <3>1 DEF BeginReplay, SweepTemps, HookInv, Stages
  <2>3. CASE DiscardJob(h) BY <2>3, Unlinked DEF DiscardJob, HookInv, Stages
  <2>13. CASE LoadJob(h) BY <2>13 DEF LoadJob, HookInv, Stages
  <2>4. CASE SendJob(h)
    <3>1. Job(h) \in Jobs /\ Job(h) \in ToSet(placed)
      BY <2>4, NextJob DEF SendJob, First, HookInv
    <3>2. /\ received' \in Seq(Jobs)
          /\ ToSet(received') = ToSet(received) \cup {Job(h)}
      BY <2>4, <3>1, Received DEF SendJob
    <3> QED BY <2>4, <3>1, <3>2 DEF SendJob, HookInv, Stages
  <2>5. CASE RemoveJob(h) BY <2>5, Unlinked DEF RemoveJob, HookInv, Stages
  <2>6. CASE EndReplay(h) BY <2>6 DEF EndReplay, ReplayStops, HookInv, Stages
  <2>7. CASE Diff(h) BY <2>7 DEF Diff, HookInv, Stages
  <2>8. CASE Deliver(h)
    <3>1. CASE Sent(h)
      <4>1. /\ received' \in Seq(Jobs)
            /\ ToSet(received') = ToSet(received) \cup {h}
        BY <2>8, <3>1, Received DEF Deliver, Jobs
      <4> QED BY <2>8, <3>1, <4>1 DEF Deliver, HookInv, Stages
    <3>2. CASE ~ Sent(h) BY <2>8, <3>2 DEF Deliver, HookInv, Stages
    <3> QED BY <3>1, <3>2
  <2>9. CASE WriteTemp(h)
    <3>1. CASE names' = Append(names, h) /\ at' = [at EXCEPT ![h] = "rename"] /\ temps' = temps \cup {h}
      <4>1. /\ names' \in Seq(Jobs) /\ IsInjective(names') /\ ToSet(names') = ToSet(names) \cup {h}
        BY <2>9, <3>1, NextName DEF WriteTemp
      <4> QED BY <2>9, <3>1, <4>1 DEF WriteTemp, HookInv, Stages
    <3>2. CASE ReportDrop(h) /\ UNCHANGED <<names, temps>>
      BY <2>9, <3>2 DEF WriteTemp, ReportDrop, HookInv, Stages
    <3> QED BY <2>9, <3>1, <3>2 DEF WriteTemp
  <2>10. CASE Rename(h)
    <3>1. CASE h \in temps
      <4>1. /\ placed' \in Seq(Jobs) /\ IsInjective(placed') /\ ToSet(placed') = ToSet(placed) \cup {h}
        BY <2>10, <3>1, NextFile DEF Rename
      <4>2. HookInv' BY <2>10, <3>1, <4>1 DEF Rename, HookInv
      <4>3. Stages' BY <2>0, <2>10, <3>1, <4>1 DEF Rename, Stages
      <4> QED BY <4>2, <4>3
    <3>2. CASE h \notin temps BY <2>10, <3>2 DEF Rename, ReportDrop, HookInv, Stages
    <3> QED BY <3>1, <3>2
  <2>11. CASE EnforceCap(h) BY <2>11, Unlinked DEF EnforceCap, HookInv, Stages
  <2>12. CASE Kill(h) BY <2>12 DEF Kill, HookInv, Stages
  <2> QED BY <1>3, <2>1, <2>2, <2>3, <2>4, <2>5, <2>6, <2>7, <2>8, <2>9, <2>10, <2>11, <2>12,
           <2>13 DEF HookStep
<1> QED BY <1>1, <1>2, <1>3 DEF HookNext

(***************************************************************************)
(* Every variable stays in its domain: a job file has a name of its own,   *)
(* is replayed only after it has appeared, and a hook that is to delete    *)
(* one has one in hand, however hooks overlap and are killed.              *)
(***************************************************************************)
THEOREM HookTypeCorrect == HookSpec => []HookTypeOK
<1>1. HookInit => HookInv /\ Stages BY HookInitType
<1>2. HookInv /\ Stages /\ [HookNext]_hookVars => HookInv' /\ Stages' BY TypeStep
<1>3. HookInv => HookTypeOK BY DEF HookInv
<1> QED BY <1>1, <1>2, <1>3, PTL DEF HookSpec

-----------------------------------------------------------------------------
(* What a step leaves alone *)

\* What has been received, has appeared, made room or been reported stays so.
LEMMA Grows ==
    ASSUME HookInv, Stages, NEW h \in Hooks, HookStep(h)
    PROVE  /\ ToSet(received) \subseteq ToSet(received)' /\ ToSet(placed) \subseteq ToSet(placed)'
           /\ capped \subseteq capped' /\ reported \subseteq reported'
<1> USE DEF history, Goto
<1>1. ASSUME NEW j \in Jobs, Receive(j) PROVE ToSet(received) \subseteq ToSet(received)'
  BY <1>1, Received
<1>2. CASE SendJob(h)
  <2>1. Job(h) \in Jobs BY <1>2, NextJob DEF SendJob, HookInv, HookTypeOK
  <2> QED BY <1>2, <2>1, <1>1 DEF SendJob
<1>3. CASE Deliver(h)
  <2>1. h \in Jobs BY DEF Jobs
  <2> QED BY <1>3, <2>1, <1>1 DEF Deliver
<1>4. CASE Rename(h) BY <1>4, NextFile DEF Rename, ReportDrop
<1>5. CASE WriteTemp(h) BY <1>5 DEF WriteTemp, ReportDrop
<1>6. CASE EnforceCap(h) BY <1>6 DEF EnforceCap
<1>7. CASE \/ StandDown(h) \/ BeginReplay(h) \/ DiscardJob(h) \/ LoadJob(h) \/ RemoveJob(h)
           \/ EndReplay(h) \/ Diff(h) \/ Kill(h)
  BY <1>7 DEF StandDown, BeginReplay, DiscardJob, LoadJob, RemoveJob, EndReplay, Diff, Kill
<1> QED BY <1>2, <1>3, <1>4, <1>5, <1>6, <1>7 DEF HookStep

\* The names taken while a replay runs do not change which of its jobs is next.
LEMMA NextStays ==
    ASSUME HookInv, Stages, NEW g \in Hooks, todo'[g] = todo[g],
           \/ names' = names
           \/ \E h \in Hooks : at[h] = "write" /\ names' = Append(names, h)
    PROVE  \A j : First(g, j)' <=> First(g, j)
<1>1. todo[g] \subseteq ToSet(names) BY DEF HookInv, HookTypeOK
<1>2. CASE names' = names BY <1>2 DEF First, Before
<1>3. ASSUME NEW h \in Hooks, at[h] = "write", names' = Append(names, h)
      PROVE  \A j : First(g, j)' <=> First(g, j)
  <2>1. /\ h \notin ToSet(names)
        /\ \A i, j : j # h => (Before(names', i, j) <=> Before(names, i, j))
    BY <1>3, NextName
  <2> QED BY <2>1, <1>1 DEF First
<1> QED BY <1>2, <1>3

\* A hook's step leaves the others where they are, with the same job next.
LEMMA Others ==
    ASSUME HookInv, Stages, NEW h \in Hooks, HookStep(h), NEW g \in Hooks, g # h
    PROVE  at'[g] = at[g] /\ todo'[g] = todo[g] /\ \A j : First(g, j)' <=> First(g, j)
<1> USE DEF history, Goto, HookInv, HookTypeOK
<1>1. CASE WriteTemp(h)
  BY <1>1, NextStays DEF WriteTemp, ReportDrop
<1>2. CASE \/ StandDown(h) \/ BeginReplay(h) \/ DiscardJob(h) \/ LoadJob(h) \/ SendJob(h)
           \/ RemoveJob(h) \/ EndReplay(h) \/ Diff(h)
  <2>1. at'[g] = at[g] /\ todo'[g] = todo[g] /\ names' = names
    BY <1>2 DEF StandDown, BeginReplay, DiscardJob, LoadJob, SendJob, RemoveJob, EndReplay, Diff
  <2> QED BY <2>1, NextStays
<1>3. CASE Deliver(h) \/ Rename(h) \/ EnforceCap(h) \/ Kill(h)
  <2>1. at'[g] = at[g] /\ todo'[g] = todo[g] /\ names' = names
    BY <1>3 DEF Deliver, Rename, ReportDrop, EnforceCap, Kill
  <2> QED BY <2>1, NextStays
<1> QED BY <1>1, <1>2, <1>3 DEF HookStep

-----------------------------------------------------------------------------
(* No change set goes silently *)

\* A job that was in the spool is there, has reached the socket or has made room; a replay that is
\* to delete a job has delivered it.
Accounts ==
    /\ \A j \in ToSet(placed) \ Foreign : j \in spool \cup ToSet(received) \cup capped
    /\ \A h \in Hooks : at[h] = "remove" => \A j \in todo[h] : First(h, j) => j \in ToSet(received)

\* A hook has a change set from "deliver" on and is done with it where it has left it.
Ladder ==
    /\ submits \subseteq Hooks
    /\ \A h \in Hooks :
          /\ at[h] \in {"idle", "replay", "send", "remove", "diff"} => h \notin submits
          /\ at[h] = "cap" => h \in ToSet(placed)
          /\ at[h] = "done" /\ h \in submits =>
                h \in ToSet(received) \cup ToSet(placed) \cup reported

\* At the start the spool has only job files of other builds.
LEMMA AccountsInit == ASSUME HookInit PROVE Accounts /\ Ladder
<1>1. IsFiniteSet(Foreign \cup Waiting) BY FS_Union, HooksAssumption
<1>2. ToSet(placed) = Foreign \cup Waiting BY <1>1, ListedOnce DEF HookInit
<1> QED BY <1>2 DEF HookInit, Accounts, Ladder

\* Every step moves a job only to where it is accounted for.
LEMMA AccountsStep ==
    ASSUME HookInv, Stages, Accounts, [HookNext]_hookVars
    PROVE  Accounts'
<1> USE DEF history, Goto, HookInv, HookTypeOK
<1>1. CASE UNCHANGED hookVars \/ Flip
  <2>1. UNCHANGED <<at, todo, names, spool, received, placed, capped>>
    BY <1>1 DEF hookVars, Flip
  <2> QED BY <2>1 DEF Accounts, First
<1>2. ASSUME NEW h \in Hooks, HookStep(h) PROVE Accounts'
  <2>1. /\ ToSet(received) \subseteq ToSet(received)' /\ ToSet(placed) \subseteq ToSet(placed)'
        /\ capped \subseteq capped'
    BY <1>2, Grows
  <2>2. ASSUME NEW g \in Hooks, g # h, at'[g] = "remove", NEW j, First(g, j)'
        PROVE  j \in ToSet(received)'
    <3>1. First(g, j) /\ j \in todo[g]
      <4>1. First(g, j) BY <1>2, <2>2, Others
      <4> QED BY <4>1 DEF First
    <3> QED BY <1>2, <2>1, <2>2, <3>1, Others DEF Accounts
  <2>3. ASSUME at'[h] = "remove", NEW j, First(h, j)' PROVE j \in ToSet(received)'
    <3>1. SendJob(h)
      BY <1>2, <2>3 DEF HookStep, StandDown, BeginReplay, DiscardJob, LoadJob, RemoveJob, EndReplay,
         Diff, Deliver, WriteTemp, Rename, ReportDrop, EnforceCap, Kill
    <3>2. First(h, j) /\ Job(h) \in Jobs /\ j = Job(h)
      BY <3>1, <2>3, NextStays, NextJob DEF SendJob
    <3> QED BY <3>1, <3>2, Received DEF SendJob
  <2>4. ASSUME NEW j \in ToSet(placed)' \ Foreign
        PROVE  j \in spool' \cup ToSet(received)' \cup capped'
    <3>1. CASE DiscardJob(h) BY <3>1, <2>1, <2>4, Unlinked DEF DiscardJob, Readable, Accounts
    <3>2. CASE RemoveJob(h)
      <4>1. Job(h) \in todo[h] /\ First(h, Job(h)) BY <3>2, NextJob DEF RemoveJob, First
      <4>2. Job(h) \in ToSet(received) BY <3>2, <4>1 DEF RemoveJob, Accounts
      <4> QED BY <3>2, <4>2, <2>1, <2>4, Unlinked DEF RemoveJob, Accounts
    <3>3. CASE Rename(h) BY <3>3, <2>1, <2>4, NextFile DEF Rename, ReportDrop, Accounts
    <3>4. CASE EnforceCap(h) BY <3>4, <2>1, <2>4, Unlinked DEF EnforceCap, Accounts
    <3>5. CASE \/ StandDown(h) \/ BeginReplay(h) \/ LoadJob(h) \/ SendJob(h) \/ EndReplay(h)
      BY <3>5, <2>1, <2>4 DEF StandDown, BeginReplay, LoadJob, SendJob, EndReplay, Accounts
    <3>6. CASE \/ Diff(h) \/ Deliver(h) \/ WriteTemp(h) \/ Kill(h)
      BY <3>6, <2>1, <2>4 DEF Diff, Deliver, WriteTemp, ReportDrop, Kill, Accounts
    <3> QED BY <1>2, <3>1, <3>2, <3>3, <3>4, <3>5, <3>6 DEF HookStep
  <2> QED BY <2>2, <2>3, <2>4 DEF Accounts
<1> QED BY <1>1, <1>2 DEF HookNext

\* Every hook gets down the ladder of socket, spool and report.
LEMMA LadderStep ==
    ASSUME HookInv, Stages, Ladder, [HookNext]_hookVars
    PROVE  Ladder'
<1> USE DEF history, Goto, HookInv, HookTypeOK
<1>1. CASE UNCHANGED hookVars \/ Flip
  <2>1. UNCHANGED <<at, submits, received, placed, reported>> BY <1>1 DEF hookVars, Flip
  <2> QED BY <2>1 DEF Ladder
<1>2. ASSUME NEW h \in Hooks, HookStep(h) PROVE Ladder'
  <2>1. /\ ToSet(received) \subseteq ToSet(received)' /\ ToSet(placed) \subseteq ToSet(placed)'
        /\ reported \subseteq reported'
    BY <1>2, Grows
  <2>2. \/ submits' = submits
        \/ submits' = submits \cup {h} /\ at'[h] = "deliver"
    <3>1. CASE Diff(h)
      <4>1. at \in [Hooks -> Places] BY DEF Places
      <4> HIDE DEF HookInv, HookTypeOK
      <4> QED BY <3>1, <4>1 DEF Diff
    <3>2. ASSUME ~ Diff(h) PROVE submits' = submits
      BY <1>2, <3>2 DEF HookStep, StandDown, BeginReplay, DiscardJob, LoadJob, SendJob, RemoveJob, EndReplay,
         Deliver, WriteTemp, Rename, ReportDrop, EnforceCap, Kill
    <3> QED BY <3>1, <3>2
  <2>3. ASSUME NEW g \in Hooks, g # h
        PROVE  /\ at'[g] \in {"idle", "replay", "send", "remove", "diff"} => g \notin submits'
               /\ at'[g] = "cap" => g \in ToSet(placed)'
               /\ at'[g] = "done" /\ g \in submits' =>
                     g \in ToSet(received)' \cup ToSet(placed)' \cup reported'
    BY <1>2, <2>1, <2>2, <2>3, Others DEF Ladder
  <2>4. at'[h] \in {"idle", "replay", "send", "remove", "diff"} => h \notin submits'
    BY <1>2, <2>2 DEF Ladder, HookStep, StandDown, BeginReplay, DiscardJob, LoadJob, SendJob, RemoveJob,
       EndReplay, ReplayStops, Diff, Deliver, WriteTemp, Rename, ReportDrop, EnforceCap, Kill
  <2>5. at'[h] = "cap" => h \in ToSet(placed)'
    BY <1>2, NextFile DEF HookStep, StandDown, BeginReplay, DiscardJob, LoadJob, SendJob, RemoveJob,
       EndReplay, Diff, Deliver, WriteTemp, Rename, ReportDrop, EnforceCap, Kill
  <2>6. ASSUME at'[h] = "done", h \in submits'
        PROVE  h \in ToSet(received)' \cup ToSet(placed)' \cup reported'
    <3>1. submits' = submits BY <2>2, <2>6
    <3>2. CASE StandDown(h) \/ Diff(h) BY <3>1, <3>2, <2>6 DEF StandDown, Diff, Ladder
    <3>3. CASE Deliver(h)
      <4>1. h \in Jobs BY DEF Jobs
      <4>2. Sent(h) /\ Receive(h) BY <3>3, <2>6 DEF Deliver
      <4> QED BY <4>1, <4>2, Received
    <3>4. CASE WriteTemp(h) BY <3>4, <2>6 DEF WriteTemp, ReportDrop
    <3>5. CASE Rename(h) BY <3>5, <2>6 DEF Rename, ReportDrop
    <3>6. CASE EnforceCap(h) BY <3>6, <2>1 DEF EnforceCap, Ladder
    <3> QED BY <1>2, <2>6, <3>2, <3>3, <3>4, <3>5, <3>6
            DEF HookStep, BeginReplay, DiscardJob, LoadJob, SendJob, RemoveJob, EndReplay, Kill
  <2> QED BY <2>2, <2>3, <2>4, <2>5, <2>6 DEF Ladder
<1> QED BY <1>1, <1>2 DEF HookNext

-----------------------------------------------------------------------------
(* The spool stays capped *)

\* The hooks that have put a job in the spool and not come to the cap, or never will.
Overdue == {h \in Hooks : at[h] \in {"cap", "cut"}}

\* Of the elements of a listing fewer than n + 1 have fewer than n later ones.
LEMMA NewestOf ==
    ASSUME NEW U, NEW s \in Seq(U), IsInjective(s), NEW T \in SUBSET ToSet(s), IsFiniteSet(T),
           NEW n \in Nat,
           NEW K, K = {j \in T : Cardinality({k \in T : Before(s, j, k)}) < n}
    PROVE  IsFiniteSet(K) /\ Cardinality(K) \in Nat /\ Cardinality(K) <= n
<1>1. IsFiniteSet(K) BY FS_Subset
<1>2. CASE K = {}
  <2>1. Cardinality(K) = 0 BY <1>1, <1>2, FS_EmptySet
  <2> QED BY <1>1, <2>1
<1>3. CASE K # {}
  <2>1. PICK j \in K : \A k \in K \ {j} : Before(s, j, k) BY <1>3, FirstOf
  <2> DEFINE L == {k \in T : Before(s, j, k)}
  <2>2. IsFiniteSet(L) /\ Cardinality(L) \in Nat /\ Cardinality(L) < n
    BY <2>1, FS_Subset, FS_CardinalityType
  <2>3. K \ {j} \subseteq L BY <2>1
  <2>4. Cardinality(K \ {j}) <= Cardinality(L) BY <2>2, <2>3, FS_Subset
  <2>5. Cardinality(K \ {j}) = Cardinality(K) - 1 /\ Cardinality(K) \in Nat
    BY <1>1, <2>1, FS_RemoveElement, FS_CardinalityType
  <2> QED BY <1>1, <2>2, <2>4, <2>5
<1> QED BY <1>2, <1>3

\* The files that could be removed.
Removable == spool \ unremoved

\* enforce_cap leaves no more of them than the cap.
LEMMA CapHolds ==
    ASSUME HookInv, NEW h \in Hooks, EnforceCap(h)
    PROVE  Cardinality(Removable') <= MaxJobs
<1>1. /\ names \in Seq(Jobs) /\ IsInjective(names) /\ spool \in SUBSET ToSet(names)
      /\ ToSet(names) \subseteq Jobs
  BY Elements DEF HookInv, HookTypeOK
<1>2. IsFiniteSet(Jobs) BY FS_Union, HooksAssumption DEF Jobs
<1>3. IsFiniteSet(spool) BY <1>1, <1>2, FS_Subset
<1>4. \A j \in spool : Cardinality({k \in spool : Before(names, j, k)}) \in Nat
  BY <1>3, FS_Subset, FS_CardinalityType
<1> DEFINE New == {j \in spool : Cardinality({k \in spool : Before(names, j, k)}) < MaxJobs}
<1>5. New = spool \ Excess BY <1>4, HooksAssumption DEF Excess
<1>6. Removable' \subseteq New BY <1>5, Unlinked DEF EnforceCap, Removable
<1> HIDE DEF New
<1>7. IsFiniteSet(New) /\ Cardinality(New) \in Nat /\ Cardinality(New) <= MaxJobs
  BY <1>1, <1>3, NewestOf, HooksAssumption DEF New
<1>8. Cardinality(Removable') \in Nat /\ Cardinality(Removable') <= Cardinality(New)
  BY <1>6, <1>7, FS_Subset, FS_CardinalityType
<1> QED BY <1>7, <1>8, HooksAssumption

\* A job is added only by a hook that then comes to the cap, which leaves no more than that.
LEMMA BoundStep ==
    ASSUME HookInv, Stages, SpoolBounded, [HookNext]_hookVars
    PROVE  SpoolBounded'
<1> USE DEF history, Goto
<1>0. /\ IsFiniteSet(Removable) /\ Cardinality(Removable) \in Nat
      /\ IsFiniteSet(Overdue) /\ Cardinality(Overdue) \in Nat /\ MaxJobs \in Nat
      /\ Cardinality(Removable) <= MaxJobs + Cardinality(Overdue)
      /\ at \in [Hooks -> Places]
  <2>1. ToSet(placed) \subseteq Jobs BY Elements DEF HookInv
  <2>2. Removable \subseteq Jobs BY <2>1 DEF HookInv, HookTypeOK, Removable
  <2>3. IsFiniteSet(Jobs) BY FS_Union, HooksAssumption DEF Jobs
  <2>4. IsFiniteSet(Overdue) BY FS_Subset, HooksAssumption DEF Overdue
  <2> QED BY <2>2, <2>3, <2>4, FS_Subset, FS_CardinalityType, HooksAssumption
          DEF SpoolBounded, Overdue, Removable, HookInv, HookTypeOK, Places
<1>1. ASSUME Overdue' = Overdue, Removable' \subseteq Removable PROVE SpoolBounded'
  <2>1. Cardinality(Removable') \in Nat /\ Cardinality(Removable') <= Cardinality(Removable)
    BY <1>1, <1>0, FS_Subset, FS_CardinalityType
  <2> QED BY <1>1, <2>1, <1>0 DEF SpoolBounded, Overdue, Removable
<1>2. CASE UNCHANGED hookVars \/ Flip
  BY <1>1, <1>2 DEF hookVars, Flip, Overdue, Removable
<1>3. ASSUME NEW h \in Hooks, HookStep(h) PROVE SpoolBounded'
  <2>1. CASE \/ StandDown(h) \/ BeginReplay(h) \/ DiscardJob(h) \/ LoadJob(h) \/ SendJob(h)
             \/ RemoveJob(h) \/ EndReplay(h) \/ Diff(h)
    <3>1. Overdue' = Overdue
      BY <2>1, <1>0 DEF StandDown, BeginReplay, DiscardJob, LoadJob, SendJob, RemoveJob, EndReplay,
         ReplayStops, Diff, Overdue
    <3>2. Removable' \subseteq Removable
      BY <2>1, Unlinked DEF StandDown, BeginReplay, DiscardJob, LoadJob, SendJob, RemoveJob,
         EndReplay, Diff, Removable
    <3> QED BY <3>1, <3>2, <1>1
  <2>2. CASE Deliver(h) \/ WriteTemp(h) \/ Kill(h) \/ (Rename(h) /\ h \notin temps)
    <3>1. Overdue' = Overdue /\ Removable' = Removable
      BY <2>2, <1>0 DEF Deliver, WriteTemp, ReportDrop, Kill, Rename, Overdue, Removable
    <3> QED BY <3>1, <1>1
  <2>3. CASE Rename(h) /\ h \in temps
    <3>1. Overdue' = Overdue \cup {h} /\ h \notin Overdue BY <2>3, <1>0 DEF Rename, Overdue
    <3>2. Removable' \subseteq Removable \cup {h} BY <2>3 DEF Rename, Removable
    <3>3. Cardinality(Overdue') = Cardinality(Overdue) + 1 BY <3>1, <1>0, FS_AddElement
    <3>4. /\ IsFiniteSet(Removable \cup {h})
          /\ Cardinality(Removable \cup {h}) <= Cardinality(Removable) + 1
          /\ Cardinality(Removable \cup {h}) \in Nat
      <4>1. CASE h \in Removable
        <5>1. Removable \cup {h} = Removable BY <4>1
        <5>2. Cardinality(Removable) <= Cardinality(Removable) + 1 BY <1>0
        <5> QED BY <5>1, <5>2, <1>0, Zenon
      <4>2. CASE h \notin Removable BY <4>2, <1>0, FS_AddElement
      <4> QED BY <4>1, <4>2
    <3>5. Cardinality(Removable') \in Nat /\ Cardinality(Removable') <= Cardinality(Removable \cup {h})
      BY <3>2, <3>4, FS_Subset, FS_CardinalityType
    <3> QED BY <3>3, <3>4, <3>5, <1>0 DEF SpoolBounded, Overdue, Removable
  <2>4. CASE EnforceCap(h)
    <3>1. Cardinality(Removable') <= MaxJobs BY <2>4, CapHolds
    <3>2. Removable' \subseteq Removable BY <2>4, Unlinked DEF EnforceCap, Removable
    <3>3. Cardinality(Removable') \in Nat BY <3>2, <1>0, FS_Subset, FS_CardinalityType
    <3>4. IsFiniteSet(Overdue') BY FS_Subset, HooksAssumption DEF Overdue
    <3>5. Cardinality(Overdue') \in Nat BY <3>4, FS_CardinalityType
    <3> QED BY <3>1, <3>3, <3>5, <1>0 DEF SpoolBounded, Overdue, Removable
  <2> QED BY <1>3, <2>1, <2>2, <2>3, <2>4 DEF HookStep
<1> QED BY <1>2, <1>3 DEF HookNext

\* The job files there are at the start fit into the spool.
LEMMA BoundInit == ASSUME HookInit PROVE SpoolBounded
<1>1. IsFiniteSet(Overdue) BY FS_Subset, HooksAssumption DEF Overdue
<1>2. Cardinality(Overdue) \in Nat BY <1>1, FS_CardinalityType
<1>3. IsFiniteSet(Foreign \cup Waiting) BY FS_Union, HooksAssumption
<1>4. Cardinality(Foreign \cup Waiting) \in Nat BY <1>3, FS_CardinalityType
<1>5. spool \ unremoved = Foreign \cup Waiting BY DEF HookInit
<1> QED BY <1>2, <1>4, <1>5, HooksAssumption DEF SpoolBounded, Overdue

(***************************************************************************)
(* No change set goes silently and the spool stays capped, however hooks   *)
(* overlap, wherever they are killed and whenever the daemon goes: the     *)
(* ladder of deliver accounts for each, replay deletes only what the       *)
(* socket took, and who adds a job comes to the cap after it.              *)
(***************************************************************************)
THEOREM NothingGoesSilently == HookSpec => []SpoolKeepsJobs
<1>1. HookInit => HookInv /\ Stages /\ Accounts /\ Ladder /\ SpoolBounded
  BY HookInitType, AccountsInit, BoundInit
<1>2. HookInv /\ Stages /\ Accounts /\ Ladder /\ SpoolBounded /\ [HookNext]_hookVars =>
         HookInv' /\ Stages' /\ Accounts' /\ Ladder' /\ SpoolBounded'
  BY TypeStep, AccountsStep, LadderStep, BoundStep
<1>3. HookInv /\ Accounts /\ Ladder /\ SpoolBounded => SpoolKeepsJobs
  <2> SUFFICES ASSUME HookInv, Accounts, Ladder,
                      NEW j \in {h \in submits : at[h] = "done"} \cup (ToSet(placed) \ Foreign)
               PROVE  j \in spool \cup ToSet(received) \cup capped \cup reported
    BY DEF SpoolKeepsJobs, EveryChangeSetAccounted
  <2>1. j \in submits => j \notin Foreign BY HooksAssumption DEF Ladder
  <2> QED BY <2>1 DEF Accounts, Ladder
<1> QED BY <1>1, <1>2, <1>3, PTL DEF HookSpec

-----------------------------------------------------------------------------
(* Replays deliver in order *)

\* An older job that a replay does not list, or has done with, has reached the socket or made room,
\* and its file is gone: of what is before a job it still has, in name and in time, only its own
\* list is left.
Backlog ==
    \A g \in Hooks : \A j \in todo[g] : \A i \in ToSet(placed) \ Foreign :
        Before(names, i, j) /\ Before(placed, i, j) /\ i \notin todo[g]
            => i \in (ToSet(received) \cup capped) \ (spool \ unremoved)

\* No step changes what is before a job that has appeared.
LEMMA OrderStays ==
    ASSUME HookInv, Stages, NEW h \in Hooks, HookStep(h), NEW j \in ToSet(placed)
    PROVE  \A i : /\ Before(names', i, j) <=> Before(names, i, j)
                  /\ Before(placed', i, j) <=> Before(placed, i, j)
                  /\ Before(placed, i, j) => i \in ToSet(placed)
<1> USE DEF history
<1>1. j \in ToSet(names) BY DEF HookInv, HookTypeOK
<1>2. \A i : Before(placed, i, j) => i \in ToSet(placed) BY TotalOrder DEF HookInv
<1>3. CASE WriteTemp(h)
  <2>1. placed' = placed BY <1>3 DEF WriteTemp
  <2>2. CASE names' = names BY <1>2, <2>1, <2>2
  <2>3. CASE at[h] = "write" /\ names' = Append(names, h)
    <3>1. j # h BY <2>3, <1>1, NextName
    <3> QED BY <1>2, <2>1, <2>3, <3>1, NextName
  <2> QED BY <1>3, <2>2, <2>3 DEF WriteTemp
<1>4. CASE Rename(h)
  <2>1. names' = names BY <1>4 DEF Rename
  <2>2. CASE placed' = placed BY <1>2, <2>1, <2>2
  <2>3. CASE at[h] = "rename" /\ placed' = Append(placed, h)
    <3>1. j # h BY <2>3, NextFile
    <3> QED BY <1>2, <2>1, <2>3, <3>1, NextFile
  <2> QED BY <1>4, <2>2, <2>3 DEF Rename
<1>5. CASE ~ WriteTemp(h) /\ ~ Rename(h)
  <2>1. names' = names /\ placed' = placed
    BY <1>5 DEF HookStep, StandDown, BeginReplay, DiscardJob, LoadJob, SendJob, RemoveJob, EndReplay, Diff,
       Deliver, EnforceCap, Kill
  <2> QED BY <1>2, <2>1
<1> QED BY <1>3, <1>4, <1>5

\* A file appears in the spool once, as the last.
LEMMA SpoolGrows ==
    ASSUME HookInv, Stages, NEW h \in Hooks, HookStep(h), NEW i \in ToSet(placed)
    PROVE  i \in spool' \ unremoved' => i \in spool \ unremoved
<1> USE DEF history
<1>1. CASE Rename(h) BY <1>1, NextFile DEF Rename
<1>2. CASE DiscardJob(h) \/ RemoveJob(h) \/ EnforceCap(h)
  BY <1>2, Unlinked DEF DiscardJob, RemoveJob, EnforceCap
<1>3. CASE ~ Rename(h) /\ ~ (DiscardJob(h) \/ RemoveJob(h) \/ EnforceCap(h))
  BY <1>3 DEF HookStep, StandDown, BeginReplay, LoadJob, SendJob, EndReplay, Diff, Deliver, WriteTemp,
     Kill
<1> QED BY <1>1, <1>2, <1>3

\* A replay lists what is in the spool and passes over nothing but what is gone or delivered.
LEMMA BacklogStep ==
    ASSUME HookInv, Stages, Accounts, Backlog, [HookNext]_hookVars
    PROVE  Backlog'
<1> USE DEF history, Goto
<1>1. CASE UNCHANGED hookVars \/ Flip
  <2>1. UNCHANGED <<todo, names, placed, received, capped, spool, unremoved>> BY <1>1 DEF hookVars, Flip
  <2> QED BY <2>1 DEF Backlog
<1>2. ASSUME NEW h \in Hooks, HookStep(h) PROVE Backlog'
  <2> SUFFICES ASSUME NEW g \in Hooks, NEW j \in todo'[g], NEW i \in ToSet(placed)' \ Foreign,
                      Before(names', i, j), Before(placed', i, j), i \notin todo'[g]
               PROVE  i \in (ToSet(received)' \cup capped') \ (spool' \ unremoved')
    BY DEF Backlog
  <2>1. todo \in [Hooks -> SUBSET Jobs] /\ \A k \in Hooks : todo[k] \subseteq ToSet(placed)
    BY DEF HookInv, HookTypeOK
  <2>2. spool \subseteq ToSet(placed) BY DEF HookInv, HookTypeOK
  <2>3. ToSet(received) \subseteq ToSet(received)' /\ capped \subseteq capped' BY <1>2, Grows
  <2>4. \/ j \in todo[g]
        \/ BeginReplay(h) /\ g = h /\ j \in spool
    BY <1>2, <2>1 DEF HookStep, StandDown, BeginReplay, DiscardJob, LoadJob, SendJob, RemoveJob,
       EndReplay, Diff, Deliver, WriteTemp, Rename, EnforceCap, Kill
  <2>5. j \in ToSet(placed) BY <2>1, <2>2, <2>4
  <2>6. Before(names, i, j) /\ Before(placed, i, j) /\ i \in ToSet(placed) \ Foreign
    BY <1>2, <2>5, OrderStays
  <2>7. i \in spool' \ unremoved' => i \in spool \ unremoved BY <1>2, <2>6, SpoolGrows
  <2>8. CASE BeginReplay(h) /\ g = h
    <3>1. i \notin spool BY <2>1, <2>8 DEF BeginReplay
    <3> QED BY <3>1, <2>3, <2>6, <2>7 DEF Accounts
  <2>9. CASE j \in todo[g] /\ i \notin todo[g] BY <2>3, <2>6, <2>7, <2>9 DEF Backlog
  <2>10. CASE j \in todo[g] /\ i \in todo[g] /\ ~ (BeginReplay(h) /\ g = h)
    <3>1. g = h /\ (DiscardJob(h) \/ RemoveJob(h) \/ EndReplay(h) \/ Kill(h))
      BY <1>2, <2>1, <2>10 DEF HookStep, StandDown, BeginReplay, DiscardJob, LoadJob, SendJob,
         RemoveJob, EndReplay, Diff, Deliver, WriteTemp, Rename, EnforceCap, Kill
    <3>2. ~ EndReplay(h) /\ ~ Kill(h) BY <2>1, <3>1 DEF EndReplay, Kill
    <3>3. i = Job(h) BY <2>1, <2>10, <3>1, <3>2 DEF DiscardJob, RemoveJob
    <3>4. CASE DiscardJob(h)
      <4>1. i \notin spool BY <2>6, <3>3, <3>4 DEF DiscardJob, Readable
      <4> QED BY <4>1, <2>3, <2>6, <2>7 DEF Accounts
    <3>5. CASE RemoveJob(h)
      <4>1. First(h, i) /\ i \in todo[h] BY <2>10, <3>1, <3>3, NextJob
      <4>2. i \in ToSet(received) BY <4>1, <3>5 DEF RemoveJob, Accounts
      <4>3. i \notin spool' \ unremoved' BY <3>3, <3>5, Unlinked DEF RemoveJob
      <4> QED BY <4>2, <4>3, <2>3
    <3> QED BY <3>1, <3>2, <3>4, <3>5
  <2> QED BY <2>4, <2>8, <2>9, <2>10
<1> QED BY <1>1, <1>2 DEF HookNext

\* What is sent next is the oldest on the list, before which nothing is left.
LEMMA InOrderStep ==
    ASSUME HookInv, Stages, Accounts, Backlog, ReplaysInOrder, [HookNext]_hookVars
    PROVE  ReplaysInOrder'
<1> USE DEF history, Goto
<1>1. CASE UNCHANGED hookVars \/ Flip
  <2>1. UNCHANGED <<names, placed, received, capped, spool, unremoved>> BY <1>1 DEF hookVars, Flip
  <2> QED BY <2>1 DEF ReplaysInOrder, FirstBefore
<1>2. ASSUME NEW h \in Hooks, HookStep(h) PROVE ReplaysInOrder'
  <2> SUFFICES ASSUME NEW i \in ToSet(placed)' \ Foreign, NEW j \in ToSet(received)' \ Foreign,
                      Before(names', i, j), Before(placed', i, j)
               PROVE  /\ i \notin capped' => FirstBefore(i, j)'
                      /\ i \notin spool' \ unremoved'
    BY DEF ReplaysInOrder
  <2>0. j \in ToSet(placed)' BY TypeStep, TotalOrder DEF HookInv
  <2>1. capped \subseteq capped' BY <1>2, Grows
  <2>2. CASE j \notin ToSet(placed)
    <3>1. Rename(h)
      BY <1>2, <2>0, <2>2 DEF HookStep, StandDown, BeginReplay, DiscardJob, LoadJob, SendJob,
         RemoveJob, EndReplay, Diff, Deliver, WriteTemp, EnforceCap, Kill
    <3>2. j = h /\ received' = received /\ h \notin ToSet(received)
      BY <2>0, <2>2, <3>1, NextFile DEF Rename
    <3> QED BY <3>2
  <2>3. CASE j \in ToSet(placed)
    <3>1. Before(names, i, j) /\ Before(placed, i, j) /\ i \in ToSet(placed) \ Foreign
      BY <1>2, <2>3, OrderStays
    <3>2. i \in spool' \ unremoved' => i \in spool \ unremoved BY <1>2, <3>1, SpoolGrows
    <3>3. /\ i \notin capped => FirstBefore(i, j)
          /\ j \in ToSet(received) => i \notin spool \ unremoved
      BY <3>1 DEF ReplaysInOrder, FirstBefore, ToSet
    <3>4. CASE SendJob(h)
      <4>1. /\ Job(h) \in Jobs /\ Job(h) \in todo[h]
            /\ \A k \in todo[h] : ~ Before(names, k, Job(h))
        BY <3>4, NextJob DEF SendJob, First, HookInv, HookTypeOK
      <4>2. /\ ToSet(received') = ToSet(received) \cup {Job(h)}
            /\ FirstBefore(i, j) /\ (j = Job(h) => i \in ToSet(received)) => FirstBefore(i, j)'
        BY <3>4, <4>1, Received DEF SendJob
      <4>3. j = Job(h) => i \in (ToSet(received) \cup capped) \ (spool \ unremoved)
        BY <3>1, <4>1 DEF Backlog
      <4> QED BY <2>1, <3>2, <3>3, <4>2, <4>3
    <3>5. CASE Deliver(h) /\ Sent(h)
      <4>1. h \in Jobs /\ j # h BY <2>3, <3>5 DEF Deliver, Jobs, Stages, Unnamed
      <4>2. /\ ToSet(received') = ToSet(received) \cup {h}
            /\ FirstBefore(i, j) => FirstBefore(i, j)'
        BY <3>5, <4>1, Received DEF Deliver
      <4> QED BY <2>1, <3>2, <3>3, <4>1, <4>2
    <3>6. CASE ~ SendJob(h) /\ ~ (Deliver(h) /\ Sent(h))
      <4>1. received' = received
        BY <1>2, <3>6 DEF HookStep, StandDown, BeginReplay, DiscardJob, LoadJob, RemoveJob, EndReplay,
           Diff, Deliver, WriteTemp, Rename, EnforceCap, Kill
      <4>2. FirstBefore(i, j)' <=> FirstBefore(i, j) BY <4>1 DEF FirstBefore
      <4> QED BY <2>1, <3>2, <3>3, <4>1, <4>2
    <3> QED BY <3>4, <3>5, <3>6
  <2> QED BY <2>2, <2>3
<1> QED BY <1>1, <1>2 DEF HookNext

(***************************************************************************)
(* Replays deliver in order, although several of them may run at a time,   *)
(* each over the list it has read, and any may be cut short: one that      *)
(* sends a job has nothing older left, and what it does not list has been  *)
(* delivered or has made room, and is deleted unless that failed.  An      *)
(* older job can follow a newer one only from a replay that has it in      *)
(* hand by then.                                                           *)
(***************************************************************************)
THEOREM DeliveredInOrder == HookSpec => []ReplaysInOrder
<1>1. HookInit => HookInv /\ Stages /\ Accounts /\ Backlog /\ ReplaysInOrder
  <2> SUFFICES ASSUME HookInit PROVE Backlog /\ ReplaysInOrder BY HookInitType, AccountsInit
  <2>1. ToSet(received) = {} /\ DOMAIN received = {} BY EmptySeq DEF HookInit, ToSet
  <2> QED BY <2>1 DEF HookInit, Backlog, ReplaysInOrder, FirstBefore
<1>2. HookInv /\ Stages /\ Accounts /\ Backlog /\ ReplaysInOrder /\ [HookNext]_hookVars =>
         HookInv' /\ Stages' /\ Accounts' /\ Backlog' /\ ReplaysInOrder'
  BY TypeStep, AccountsStep, BacklogStep, InOrderStep
<1> QED BY <1>1, <1>2, PTL DEF HookSpec
=============================================================================
