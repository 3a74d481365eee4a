\* Three files, three documents for one slot and one for another.
CONSTANTS
    tight = tight
    loose = loose
    accented = accented
    build = build
    capSlot = capSlot
    buildSlot = buildSlot
    Docs = {tight, loose, accented, build}
    Slots = {capSlot, buildSlot}
    SlotOf <- MCSlotOf
    Escaped = {accented}
    NumFiles = 3
    MaxChanges = 4
    Absent = Absent
    Torn = Torn
    Nothing = Nothing
    NoWrite = NoWrite
SPECIFICATION Spec
INVARIANTS
    TypeOK
    LoadedWhole
PROPERTIES
    SignedPolicySpec
