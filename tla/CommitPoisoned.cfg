SPECIFICATION RetrySpec
CONSTANTS
    t1 = t1
    t2 = t2
    t3 = t3
    p1 = p1
    p2 = p2
    j1 = j1
    None = None
    w = w
    g1 = g1
    g2 = g2
    r1 = r1
    r2 = r2
    Record = {w, g1, g2}
    Workflow = w
    Generation <- OneRecord
    Job = {j1}
    Render = {r1, r2}
    Stamp = {s1, s2}
    Process = {p1, p2}
    Task = {t1, t2}
    ProcessOf <- RivalProcesses
    JobOf <- OneRequest
    RcatOverwrites = FALSE
    DiskSurvives = FALSE
    MaxDay = 0
PROPERTIES
    MismatchesRecover
