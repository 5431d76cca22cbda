SPECIFICATION Spec
CONSTANTS
    Subjects = {"disk", "media", "nic", "hostdev", "filesystem", "watchdog", "snapshot", "machine"}
    External = TRUE
    MaxId = 2
    MaxDialogs = 2
    MaxFails = 1
    MaxOutside = 1
    NoDialog = NoDialog
    NoJob = NoJob
INVARIANTS
    CanBeRepeated
    SnapshotsShownExist
PROPERTIES
    OthersAreKept
    DevicesAreDone
    DoneIsSo
    DeletedImageIsUnused
CHECK_DEADLOCK FALSE
