SPECIFICATION Spec
CONSTANTS
    Particles = {p1}
    Calls <- MCCalls
    MaxRequestId = 2
    Sizes <- MCSizes
    SizeLimit = 1
    MaxFailures = 2
INVARIANTS RequestsAreStored LimitsAreKept
PROPERTY NothingStoredIsLost
CHECK_DEADLOCK FALSE
