CONSTANTS
    Root = "root"
    Parent <- MCParent
    Excluded = {"target"}
    Names <- MCNames
    Canonical <- MCCanonical
    LockName <- MCLockName
    Temporaries <- MCTemporaries
    GivenIndex <- MCGivenIndex
    GivenArtifacts <- MCGivenArtifacts
    Paths <- MCPaths
    MaxChanges = 2
SPECIFICATION Spec
INVARIANTS UsersFilesRecorded QuietTreeSameScan
