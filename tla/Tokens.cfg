SPECIFICATION Spec
CONSTANTS
    Tokens = {1, 2}
    Capacity = 3
    MaxEdits = 4
    MaxChecks = 1
    NoMachine = NoMachine
    VmNames = {"a"}
    Slots = {1, 2}
    MaxCreations = 3
    MaxInstalls = 2
    MaxDeletions = 1
    NoVm = NoVm
    NoJob = NoJob
INVARIANTS
    TokensMatch
CHECK_DEADLOCK FALSE
