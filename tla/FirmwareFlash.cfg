SPECIFICATION OperatorSpec
CONSTANTS
    Dirs = {d1, d2}
    MaxRuns = 2
    Invocations = {i1, i2}
    MaxFailures = 1
SYMMETRY Symmetry
INVARIANTS RollbackFirst LeavesAsFound ServiceUsesFile
PROPERTIES PassMeansDeployed ServiceRestored
CHECK_DEADLOCK FALSE
