CONSTANTS
    Cases <- MCCases
    Documents <- MCDocuments
    NoRoot = NoRoot
    Unknown = Unknown
    NoSnapshot = NoSnapshot
SPECIFICATION Spec
CHECK_DEADLOCK FALSE
INVARIANTS SavedIsLoaded PolicyFailsClosed StatusTrue
