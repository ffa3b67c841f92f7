SPECIFICATION MonitorSpec
CONSTANTS
    m1 = m1
    m2 = m2
    m3 = m3
    bad = bad
    Messages <- MCMessages
    RowsOf <- MCRowsOf
    Bad = {bad}
    Tables = {1, 2, 3}
    DbOf <- MCDbOf
    Listeners = 2
    MayBreak = TRUE
INVARIANTS EveryRowCounted LinesSorted
PROPERTIES EventuallyShown StopsWhenQuiet
