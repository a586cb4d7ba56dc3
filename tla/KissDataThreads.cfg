SPECIFICATION Spec
CONSTANTS
    Connections = {c1, c2}
    Controls <- MCControls
    InitialParameters <- Initial
    Hold = 0
    RandomBytes = {63}
    Capacity = 2
    RequestTimeout = 2
    RawSamples = {83, 90}
    MaxTime = 3
    MaxMessages = 3
    MaxGeneration = 1
SYMMETRY Symmetry
INVARIANTS
    CountersBalance
    NoTimeRejection
    ReadsOwnUpdates
    AttemptUsesCapturedPolicy
PROPERTIES
    ImplementsService
CHECK_DEADLOCK FALSE
