CONSTANTS
    Clients = {c1, c2}
    Requests = {"work", "shutdown", "other", "torn", "junk", "unreadable"}
    MaxRequests = 2
    NoClient = NoClient
    NoAnswer = NoAnswer
SPECIFICATION FairSpec
CHECK_DEADLOCK FALSE
INVARIANTS AnswersAreItsOwn
PROPERTIES ConnectionsEnd EndsAsAsked
