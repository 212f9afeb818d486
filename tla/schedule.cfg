SPECIFICATION FairSpec
CONSTANTS
    None = None
    Items = {a, b}
    Periods = {1, 2}
    Delays <- MCDelays
    Factor = 3
    MaxLate = 1
    MaxEntries = 3
INVARIANT NothingForgotten
INVARIANT OneEntryEach
PROPERTY PeriodKept
PROPERTY KeepsPolling
PROPERTY RemovedExpires
