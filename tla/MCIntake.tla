------------------------------ MODULE MCIntake ------------------------------
(* Instances of two machines on the way of a change into the graph, which   *)
(* share no state, in one run: a behaviour follows the working tree of one  *)
(* project, or the git hooks.                                               *)
EXTENDS Capture, HookDelivery

CONSTANTS f1, f2, h3, y

VARIABLE part   \* the machine this behaviour is about

intakeVars == <<part, captureVars, hookVars>>

\* A machine a behaviour is not about has one initial state.
IntakeInit ==
    /\ part \in {"tree", "hooks"} /\ CaptureInit /\ HookInit
    /\ part # "tree" => \A f \in Files : tree[f] = None /\ mishaps = {"apply"}
    /\ part # "hooks" => listening /\ oversize = {}

Tree == part = "tree" /\ CaptureNext /\ UNCHANGED <<part, hookVars>>
Hook == part = "hooks" /\ HookNext /\ UNCHANGED <<part, captureVars>>

\* When every hook has ended, the system may stop.
HooksOver ==
    /\ part = "hooks" /\ \A h \in Hooks : at[h] \in {"done", "killed", "cut"}
    /\ UNCHANGED intakeVars

IntakeNext == Tree \/ Hook \/ HooksOver

IntakeSpec == IntakeInit /\ [][IntakeNext]_intakeVars

\* Files are alike, texts are, and hooks but one (a larger group takes TLC longer).
IntakeSymmetry == Permutations({f1, f2}) \cup Permutations(Texts) \cup Permutations(Hooks \ {h3})

\* Type invariant, of the two machines.
IntakeTypeOK == CaptureTypeOK /\ HookTypeOK

-----------------------------------------------------------------------------
MCMishapSets == {{"mtime", "verbs"}, {"apply"}, {"replace", "cancel", "stale", "boot"}}
MCOversizeSets == {{}, {y}}
=============================================================================
