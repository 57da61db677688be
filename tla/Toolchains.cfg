CONSTANTS
    Versions = {"v1", "v2"}
    Bundled = "v1"
    MaxOps = 4
    MaxFaults = 2
    MaxReleases = 3
SPECIFICATION Spec
INVARIANTS Consistent NotLost UpgradeOrder Selection
PROPERTIES PublishedWhole
CHECK_DEADLOCK FALSE
