SPECIFICATION Spec
CONSTANTS
    Subjects = {"memory", "cpu", "boot", "vsock"}
    MiB = 2
    GiB = 4
    MinMemory = 2
    NodeMaxMemory = 5
    MaxVcpu = 6
    Disks <- MCDisks
    Ifaces <- MCIfaces
    Redirs <- MCRedirs
    Hosts <- MCHosts
    OsBoots <- MCOsBoots
    Cids = {3, 4, 5, 6}
    Typed = {1, 3, 5}
    NoForm = NoForm
    NoJob = NoJob
INVARIANTS
    MemoryIsLegal
    TopologyMatches
    SuggestionIsFree
PROPERTIES
    ClosesOnlyWhenSaved
