CONSTANTS
    MaxRequest = 3
    MaxResponse = 3
    BufferBytes = 2
    Capacity = 2
    letter = letter
    return = return
    newline = newline
    broken = broken
    Bytes = {letter, return, newline, broken}
    Newline = newline
    Return = return
    Invalid = {broken}
    Requests <- MCRequests
    Responses <- MCResponses
    MaxRaw = 5
    Nothing = Nothing
SPECIFICATION FairSpec
CHECK_DEADLOCK FALSE
INVARIANTS ExecutedWhole AnsweredTruly RefusedJustly
PROPERTIES DeadlinesKept
