CONSTANTS
    None = None
    Error = Error
    Contents = {c1, c2}
    Versions = {1, 2}
    Setups <- MCSetups
SPECIFICATION Spec
INVARIANTS
    TypeOK
    EachPairOnce
    ReportIsCurrent
    CertIsOwn
CHECK_DEADLOCK FALSE
