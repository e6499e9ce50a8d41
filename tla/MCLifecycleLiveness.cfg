CONSTANTS
    Clis = {c1, c2}
    Children = {g1}
    Indexes = {i1}
    Endpoints = {e1}
    Configs <- AllConfigs
    NoConfig = NoConfig
    Commands = {"status", "stop", "start"}
    Rounds = 1
    Backlog = 2
    Nobody = Nobody
    External = External
    NoChild = NoChild
    AnyChild = AnyChild
SPECIFICATION FairSpec
PROPERTIES CommandsEnd ShutdownTakesEffect
