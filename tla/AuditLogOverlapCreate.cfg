\* A rollout that starts a second gateway while the file is still empty.
CONSTANTS
    p1 = p1
    p2 = p2
    e1 = e1
    e2 = e2
    Procs = {p1, p2}
    Entry = {e1, e2}
    Oversized = {}
    Overlap = TRUE
    StatFails = FALSE
    CrashParts = {}
    ErrorParts = {}
    MaxChunks = 4
SPECIFICATION Spec
INVARIANT VerifiedMeansComplete
