SPECIFICATION Spec
CONSTANTS
    None = None
    Procs = {p1, p2, p3}
    Values = {v1, v2}
    Damaged = Damaged
INVARIANTS
    TypeOK
    FileStaysUnderRead
PROPERTY
    IsAtomicStore
