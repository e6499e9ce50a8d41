CONSTANTS
    Cases <- MCLineBreaks
    Documents <- NoDocuments
    NoRoot = NoRoot
    Unknown = Unknown
    NoSnapshot = NoSnapshot
SPECIFICATION Spec
CHECK_DEADLOCK FALSE
INVARIANT UntouchedTreeUnchanged
