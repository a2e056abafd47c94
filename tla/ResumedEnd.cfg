SPECIFICATION EasySpec
CONSTANTS
    None = None
    Keys = {k1}
    MaxTransitions = 2
    MaxAuthorizations = 2
    MaxGeneration = 1
    MaxKeyset = 0
    Procs = {p1, p2}
    Callers = {p1}
    OpenOverlaps = FALSE
    MaxEnds = 2
    MaxStray = 0
INVARIANTS
    EndsOnlyWhatItFound
