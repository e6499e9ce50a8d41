CONSTANTS
    Commands = {c1, c2}
    short = short
    full = full
    large = large
    States <- MCStates
    Size <- MCSize
    Limit = 3
    Attempts = 2
    MaxKills = 2
    NoFile = NoFile
    Stray = Stray
    Absent = Absent
    Bad = Bad
    Unopened = Unopened
    Nobody = Nobody
SPECIFICATION FairSpec
INVARIANTS SuccessIsReadable
PROPERTIES ChangesOnlyWhatItSaw TemporariesHarmless ImplementsStateRecord
