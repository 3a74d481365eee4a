\* A directory in which nothing but a define has happened.
CONSTANTS
    tight = tight
    loose = loose
    accented = accented
    build = build
    capSlot = capSlot
    buildSlot = buildSlot
    Docs = {tight, loose, accented, build}
    Slots = {capSlot, buildSlot}
    SlotOf <- MCSlotOf
    Escaped = {accented}
    NumFiles = 1
    MaxChanges = 1
    Absent = Absent
    Torn = Torn
    Nothing = Nothing
    NoWrite = NoWrite
SPECIFICATION Spec
INVARIANT SignedIsAccepted
