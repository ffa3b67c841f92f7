SPECIFICATION Spec
CONSTANTS
    Logs = {l1, l2}
    Pages = 3
    BUFFER_SIZE = 2
    Faults = 4
    Settings <- Usual
INVARIANTS
    ArchivedIsWhole
    NoTornLog
    RollforwardGetsAll
PROPERTIES
    EventuallyArchived
