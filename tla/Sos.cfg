\* Two requests, two helpers, two concurrent calls, at most one assignment.
CONSTANTS
    d1 = d1
    d2 = d2
    h1 = h1
    h2 = h2
    r1 = r1
    r2 = r2
    s1 = s1
    s2 = s2
    near = near
    None = None
    Devices <- MCDevices
    Requests <- MCRequests
    DeviceOf <- MCDeviceOf
    Volunteers <- MCVolunteers
    TypeOf <- MCTypeOf
    Places <- OnePlace
    Profiles <- Boats
    MaxActive = 1
    Sessions <- MCSessions
SYMMETRY MCSymmetry
SPECIFICATION Spec
INVARIANTS
    AssignmentsBounded
PROPERTIES
    NeverTakenOver
    OnlyTheAssignedHelperActs
