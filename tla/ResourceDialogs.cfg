SPECIFICATION Spec
CONSTANTS
    Subjects = {"networkForm", "poolForm", "volumeForm", "pool", "network"}
    MaxEdits = 5
    MaxActs = 2
    MaxFails = 1
    MaxOutside = 1
    NoDocument = NoDocument
    NoDialog = NoDialog
    NoJob = NoJob
INVARIANTS
    
    
    ListIsCurrent
PROPERTIES
    DoneIsSo
    
CHECK_DEADLOCK FALSE
