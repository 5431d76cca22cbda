SPECIFICATION Spec
CONSTANTS
    Subjects = {"nic"}
    External = TRUE
    MaxId = 3
    MaxDialogs = 4
    MaxFails = 0
    MaxOutside = 0
    NoDialog = NoDialog
    NoJob = NoJob
PROPERTIES
    OnlyTheChosenIsTouched
CHECK_DEADLOCK FALSE
