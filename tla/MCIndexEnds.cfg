CONSTANTS
    Writers = {w1, w2}
    Readers = {r1}
    Roots = {root1}
    NoRoot = NoRoot
    Policies = {none}
    Unknown = Unknown
    DefaultPolicy = none
    NoRequest = NoRequest
    Nobody = Nobody
    Inodes = {f1, f2}
    NoFile = NoFile
    Attempts = 2
    MaxId = 1
    MaxVersion = 0
    ForeignNames <- NoForeign
    Absent = Absent
    Malformed = Malformed
    Partial = Partial
    Free = Free
    NotOpened = NotOpened
    NoView = NoView
SPECIFICATION FairSpec
PROPERTIES OperationsEnd ImplementsAtomicIndex OthersTemporariesKept
