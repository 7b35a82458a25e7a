SPECIFICATION DestructiveSpec
CONSTANTS
    t1 = t1
    t2 = t2
    p1 = p1
    p2 = p2
    j1 = j1
    j2 = j2
    None = None
    w = w
    g1 = g1
    g2 = g2
    r1 = r1
    r2 = r2
    Record = {w, g1, g2}
    Workflow = w
    Generation <- OneRecord
    Stamp = {s1}
    DiskSurvives = FALSE
    WorkerBase = "outputs/"
    RcatOverwrites = FALSE
    Render = {r1, r2}
    Job = {j1}
    Process = {p1}
    Task = {t1}
    ProcessOf <- OneTask
    JobOf <- ItsRequest
    SweepBase = "outputs/"
    MarkerUnreadable = FALSE
    DeletesRefused = FALSE
    ControlDies = FALSE
    MaxDay = 1
    FailedPeriod = 1
    DeliverablePeriod = 1
INVARIANTS
    DurableInv
SYMMETRY Symmetry
