SPECIFICATION Spec
CONSTANTS
    None = None
    Runs = {1, 2}
    MaxActions = 1
    MaxIP = 3
    MaxFailures = 2
    MaxChanges = 2
INVARIANTS
    MachinesCanBeFound
PROPERTIES
    LastPairStays
    DrainedIsTornDown
