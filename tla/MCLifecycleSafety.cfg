CONSTANTS
    Clis = {c1, c2}
    Children = {g1, g2}
    Indexes = {i1}
    Endpoints = {e1, e2}
    Configs <- AllConfigs
    NoConfig = NoConfig
    Commands = {"status", "stop", "start"}
    Rounds = 1
    Backlog = 2
    Nobody = Nobody
    External = External
    NoChild = NoChild
    AnyChild = AnyChild
SPECIFICATION Spec
SYMMETRY MCSymmetry
INVARIANTS OneService OnlyRecordedCloses StoppedMeansGone StaleMeansGone FailedStartLeavesNothing
PROPERTIES LiveRecordKept StartAnswersTruly
