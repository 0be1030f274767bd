\* An edit may hit a file that a running apply has already gated.
CONSTANTS
    Files = {f1}
    Texts = {t1, t2}
    None = None
    MaxEdits = 3
    MaxRestarts = 0
    MaxQueue = 2
    MishapSets = {{"apply"}}
SPECIFICATION CaptureSpec
INVARIANTS NothingWrittenIsLost
