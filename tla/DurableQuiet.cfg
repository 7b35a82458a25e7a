SPECIFICATION QuietSpec
CONSTANTS
    t1 = t1
    t2 = t2
    p1 = p1
    p2 = p2
    j1 = j1
    j2 = j2
    None = None
    w = w
    g1 = g1
    g2 = g2
    r1 = r1
    r2 = r2
    Record = {w, g1, g2}
    Workflow = w
    Generation <- OneRecord
    Stamp = {s1}
    RcatOverwrites = FALSE
    DiskSurvives = FALSE
    WorkerBase = "outputs/"
    Render = {r1, r2}
    Job = {j1}
    Process = {p1, p2}
    Task = {t1, t2}
    ProcessOf <- TwoProcesses
    JobOf <- SameRequest
    SweepBase = "outputs/"
    MarkerUnreadable = TRUE
    DeletesRefused = TRUE
    ControlDies = TRUE
    MaxDay = 2
    FailedPeriod = 1
    DeliverablePeriod = 2
INVARIANT RivalInv
PROPERTIES
    DeliverableKeepsItsPeriod
    MarkerGoesLastUnlessRefused
    CleanSweepFollowsItsClasses
    DescribedIsKept
SYMMETRY RivalSymmetry
