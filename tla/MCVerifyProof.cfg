CONSTANTS
    None = None
    MaxSteps = 4
    Formulas <- MCFormulas
    Steps <- MCSteps
SPECIFICATION Spec
INVARIANTS
    TypeOK
    Conservative
    ValidIsUnsat
PROPERTY
    PrefixOnlyGrows
CHECK_DEADLOCK FALSE
