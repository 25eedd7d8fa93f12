SPECIFICATION Spec
CONSTANTS
    t1 = t1  r1 = r1  r2 = r2  w1 = w1  w2 = w2  s1 = s1  s2 = s2
    Task <- OneTask
    Run = {r1}
    Wait = {w1, w2}
    Slot = {s1}
    NoRun = NoRun  NoWait = NoWait  NoSlot = NoSlot
    TaskOf <- TaskOfRun
    WaitOf <- TaskOfWait
    MaxAttempts = 2
    MaxContract = 1
    MaxManual = 0
    MaxRestarts = 0
    MaxInputs = 1
    MaxChats = 1
    MaxReopens = 0
    MoveTargets <- Moves
SYMMETRY Symmetry
VIEW View
CHECK_DEADLOCK FALSE
INVARIANTS
    RequiredDecisionParks
