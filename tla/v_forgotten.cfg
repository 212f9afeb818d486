SPECIFICATION Spec
CONSTANTS
    None = None
    Items = {a, b}
    Periods = {0, 1}
    Delays <- MCDelays
    Factor = 3
    MaxLate = 1
    MaxEntries = 3
INVARIANT NothingForgotten
