SPECIFICATION MCSpec
CONSTANTS
    Blob = {"m", "w1", "w2"}
    ModelSet = {"s1", "s2"}
    Streamed = {"m"}
    Artifacts <- MCArtifacts
    Target <- MCTarget
    Size <- MCSize
    Age <- MCAge
    Prefetcher = {p}
    Disk = 7
    Safety = 0
    HighWater = 3
    MaxLeases = 1
    MaxOrphans = 3
    Startup = Startup
    None = None
INVARIANTS CacheInv
PROPERTIES DiskIsKept EvictsLeast StartupEnds
