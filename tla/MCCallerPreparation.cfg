SPECIFICATION Spec
CONSTANTS
    h1 = h1
    h2 = h2
    h3 = h3
    s1 = s1
    s2 = s2
    Hosts = {h1, h2, h3}
    Slots = {s1, s2}
    SlotOf <- MCSlotOf
    Attempts = {a1, a2, a3}
    NoAttempt = NoAttempt
    Readers = {r1}
    Free = Free
INVARIANTS
    AcknowledgedIsEarned
    HonestOutcome
PROPERTIES
    RegistrySpec
