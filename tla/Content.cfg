SPECIFICATION Spec
CONSTANTS
  k1 = k1
  Kinds = {"event", "announcement", "place"}
  Rows = {r1, r2}
  Users = {u1, u2}
  Calls = {c1, c2}
  Keys = {k1}
  Requests <- MCRequests
  MaxImages = 1
  MaxDuration = 2
  MaxLeadTime = 1
  MaxUpcoming = 1
  Retention = 0
  Limit = 1
  BatchSize = 1
  Unsent = Unsent
  None = None
  MaxTime = 1
SYMMETRY Alike
INVARIANTS RowsStayValid ListsAreTrue
PROPERTIES DeletedStaysDeleted ObjectsGoFirst
