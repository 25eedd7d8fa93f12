SPECIFICATION FairSpec
CONSTANTS
    a1 = a1  a2 = a2  d1 = d1  d2 = d2  t1 = t1  s1 = s1  s2 = s2  m1 = m1  m2 = m2
    Automation = {a1, a2}
    Fact = {f1}
    Slots = 1  DisableAfter = 2  MaxAttempts = 1
    MaxTime = 2  MaxRuns = 2  MaxGenerations = 2  MaxStarts = 3  MaxFaults = 1
    MaxDisturbances = 4
    Result = {d1, d2}
    Router = {r1, r2}  Survivor = r2  NoRouter = NoRouter
    MaxTries = 2  MaxRetries = 1
    Task = {t1}
    Slot = {s1, s2}
    NoTask = NoTask
    MaxFailures = 2  MaxClaims = 2  MaxChanges = 2
    Message = {m1, m2}
    Watcher = {w1, w2}  Keeper = w2  NoMessage = NoMessage
    MaxRefusals = 1  MaxTakes = 3  MaxEnqueues = 2
ACTION_CONSTRAINT Shape
CHECK_DEADLOCK FALSE
INVARIANTS BackgroundTypeOK OneRunPerAutomation FinishedIsAnnounced OccurrenceOnce
    DeliveryFollowsRun BoundedTries
PROPERTIES FreedByItsOwnRun CancelIsKept DueRuns DeliveriesAreClaimedWork ResultsSettle
    AllocationsAreClaimedWork AssignedAsJudged AllocationEnds
    MessagesAreClaimedWork MessagesAreProcessed
