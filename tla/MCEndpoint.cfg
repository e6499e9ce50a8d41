CONSTANTS
    Servers = {s1, s2, s3}
    Bares = {b1}
    StatePaths = {h1, h2}
    Sockets = {i1, i2}
    NoSocket = NoSocket
    File = File
    NoRecord = NoRecord
    Torn = Torn
    Nobody = Nobody
    NoState = NoState
SPECIFICATION Spec
SYMMETRY MCSymmetry
INVARIANTS ServingReachable RecordedRecoverable GracefulLeavesFree
PROPERTIES ListenerKept ForeignKept
