CONSTANT Circuits <- MCCircuitSet
SPECIFICATION Spec
INVARIANTS TypeOK LabelsExact DepthAsBuilt BmcExact IndInvExact PecRefutes ProgEquivExact OptimaExact
CHECK_DEADLOCK FALSE
