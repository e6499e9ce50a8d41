CONSTANTS
    Writers = {w1, w2}
    Readers = {}
    Roots = {root1, root2}
    NoRoot = NoRoot
    Policies = {none, excl}
    Unknown = Unknown
    DefaultPolicy = none
    NoRequest = NoRequest
    Nobody = Nobody
    Inodes = {f1, f2, f3}
    NoFile = NoFile
    Attempts = 1
    MaxId = 0
    MaxVersion = 1
    ForeignNames <- MCForeignNames
    Absent = Absent
    Malformed = Malformed
    Partial = Partial
    Free = Free
    NotOpened = NotOpened
    NoView = NoView
SPECIFICATION Spec
SYMMETRY MCSymmetry
INVARIANTS WriterExclusion PublishedComplete TemporariesAccounted PublishedTruthful
PROPERTIES NoLostUpdate KnownScopeKept
