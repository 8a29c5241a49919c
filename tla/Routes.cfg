\* Two reports from fresh to expired, resolved, reopened and hidden, seen by
\* the maps and by the planner in every state.
CONSTANTS
    d1 = d1
    r1 = r1
    r2 = r2
    s1 = s1
    None = None
    Reports <- MCReports
    LongLived <- MCLongLived
    Devices <- MCDevices
    Complainers <- Nobody
    Images <- Nobody
    Sessions <- MCSessions
    StaleAfter = 1
    TTL = 2
    FacilityStaleAfter = 2
    FacilityTTL = 3
    ResolveThreshold = 1
    AutoHideThreshold = 2
    MaxPerDevicePerHour = 1
    Hour = 1
    MaxTime = 2
    Conditions <- MCConditions
    MaxListLimit = 1
    MaxDuplicates = 1
    MaxCells = 2
    Trips <- MCTrips
    Vehicles <- MCVehicles
    PadShort = 1
    MaxCorridorBoxes = 4
    CorridorReportLimit = 2
SPECIFICATION RouteSpec
INVARIANTS
    NoReportIsMissed
    VerdictIsHonest
