SPECIFICATION Spec
CONSTANTS
    None = None
    Procs = {p1, p2, p3}
    MaxKeys = 3
INVARIANTS
    TypeOK
    OneWriter
    ForgottenStaysForgotten
PROPERTIES
    FileKeepsItsKey
    ForgetSparesLease
