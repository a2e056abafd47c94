SPECIFICATION Spec
CONSTANTS
    None = None
    Workers = {w1, w2}
    Slots = {s1, s2}
INVARIANTS
    TypeOK
    OwnAnswer
    OnlyRealTimeouts
    ReadIsExclusive
PROPERTIES
    PostReturns
    SlotsComeBack
