SPECIFICATION FairSpec
CONSTANTS
    Requests = {"createHashed"}
    MaxList = 1
    Cap = 2
    MaxRequests = 1
PROPERTIES HashReturned
CHECK_DEADLOCK FALSE
