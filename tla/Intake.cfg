\* Working tree: two files, two edits.
\* Hooks: three, a spool of two, one job of another version and one of this, which may be too
\* large to be framed and whose file may not be removable.
CONSTANTS
    f1 = f1
    f2 = f2
    Files = {f1, f2}
    Texts = {t1, t2}
    None = None
    MaxEdits = 2
    MaxRestarts = 1
    MaxQueue = 2
    MishapSets <- MCMishapSets
    h3 = h3
    y = y
    Hooks = {h1, h2, h3}
    Foreign = {x}
    Waiting = {y}
    MaxJobs = 2
    Sticky = {y}
    MaxFlips = 1
    OversizeSets <- MCOversizeSets
SPECIFICATION IntakeSpec
SYMMETRY IntakeSymmetry
INVARIANTS IntakeTypeOK WatchedIsFresh ManifestVouches WatchFlagAgrees
           SpoolKeepsJobs ReplaysInOrder
PROPERTIES DeepConverges
