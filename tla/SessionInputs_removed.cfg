SPECIFICATION FairSpec
CONSTANTS
    i1 = i1  i2 = i2  o1 = o1  o2 = o2
    Input = {i1, i2}
    None = None
    Op = {o1, o2}
    Limit = 2
    MaxTranscripts = 2
    MaxRestarts = 1
    MaxDisturbances = 2
    Kind <- Kinds
ACTION_CONSTRAINT Bounded
CHECK_DEADLOCK FALSE
PROPERTIES
    RemovedStaysRemoved
