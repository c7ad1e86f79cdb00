CONSTANTS
    h1 = h1
    h2 = h2
    s1 = s1
    s2 = s2
    Hosts = {h1, h2}
    Slots = {s1, s2}
    SlotOf <- MCSlotOf
    Attempts = {a1, a2}
    NoAttempt = NoAttempt
    Readers = {r1}
    ReaderSlot <- MCReaderSlot
    Free = Free
SPECIFICATION FairReaderSpec
INVARIANTS
    ProjectionLag
    HonestFailure
    ReadersSeePublished
PROPERTIES
    ReportedIsFinal
    OnlyUnrevoked
    RegistrySpec
    ReadsUnderScope
    LockIsReleased
CHECK_DEADLOCK FALSE
