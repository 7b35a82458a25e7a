SPECIFICATION SweptSpec
CONSTANTS
    t1 = t1
    t2 = t2
    p1 = p1
    p2 = p2
    j1 = j1
    j2 = j2
    None = None
    w = w
    g1 = g1
    g2 = g2
    r1 = r1
    r2 = r2
    Record = {w, g1, g2}
    Workflow = w
    Generation <- OneRecord
    Stamp = {s1}
    RcatOverwrites = FALSE
    DiskSurvives = FALSE
    WorkerBase = "outputs/"
    Render = {r1}
    Job = {j1, j2}
    Process = {p1}
    Task = {t1, t2}
    ProcessOf <- TwoTasks
    JobOf <- TwoRequests
    SweepBase = "outputs/"
    MarkerUnreadable = FALSE
    DeletesRefused = FALSE
    ControlDies = FALSE
    MaxDay = 2
    FailedPeriod = 1
    DeliverablePeriod = 2
PROPERTIES
    ToldIsWhole
    ExpiredGo
