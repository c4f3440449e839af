CONSTANTS
    None = None
    Error = Error
    Contents = {c1, c2}
    Versions = {1, 2}
    Setups <- PythonSetups
SPECIFICATION Spec
INVARIANT
    ReportIsCurrent
CHECK_DEADLOCK FALSE
