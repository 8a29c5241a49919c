\* One report that two votes of three resolve and two complaints hide.
CONSTANTS
    d1 = d1
    d2 = d2
    d3 = d3
    r1 = r1
    s1 = s1
    s2 = s2
    None = None
    Reports <- MCReports
    LongLived = {}
    Devices <- MCDevices
    Complainers <- MCComplainers
    Images <- NoImages
    Sessions <- MCSessions
    StaleAfter = 1
    TTL = 2
    FacilityStaleAfter = 2
    FacilityTTL = 2
    ResolveThreshold = 2
    AutoHideThreshold = 2
    MaxPerDevicePerHour = 1
    Hour = 1
    MaxTime = 1
SYMMETRY MCSymmetry
SPECIFICATION Spec
INVARIANTS
    ResolvedByVotes
    ShownBelowThreshold
    HistoryTellsTheState
PROPERTIES
    DecisionsStand
