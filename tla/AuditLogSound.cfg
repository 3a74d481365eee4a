\* One process at a time: crashes and errors inside writes, oversized lines.
CONSTANTS
    p1 = p1
    p2 = p2
    e1 = e1
    e2 = e2
    Procs = {p1, p2}
    Entry = {e1, e2}
    Oversized = {e2}
    Overlap = FALSE
    StatFails = FALSE
    CrashParts = {"torn", "unterminated"}
    ErrorParts = {"torn", "unterminated"}
    MaxChunks = 5
SPECIFICATION Spec
INVARIANTS
    TypeOK
    ResumedAtTail
    AckedReadable
    AckedDistinct
    VerifiedMeansComplete
PROPERTY LogSpec
