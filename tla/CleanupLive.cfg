\* A report that one vote resolves, cleaned up in the end, with one fault.
CONSTANTS
    d1 = d1
    r1 = r1
    s1 = s1
    k1 = k1
    k2 = k2
    w1 = w1
    w2 = w2
    None = None
    Gone = Gone
    Reports <- MCReports
    LongLived = {}
    Devices <- MCDevices
    Complainers = {}
    Images <- MCImages
    Sessions <- MCSessions
    Workers <- OneWorker
    StaleAfter = 1
    TTL = 1
    FacilityStaleAfter = 1
    FacilityTTL = 1
    ResolveThreshold = 1
    AutoHideThreshold = 2
    MaxPerDevicePerHour = 1
    Hour = 1
    OrphanRetention = 1
    ResolvedRetention = 1
    BatchSize = 1
    MaxFaults = 1
    MaxTime = 2
SPECIFICATION CleanupFairSpec
PROPERTIES
    EndedReportsLoseImages
    OrphansGo
