SPECIFICATION Spec
CONSTANTS
  c1 = c1
  c2 = c2
  b1 = b1
  p1 = p1
  p2 = p2
  Users = {u1, u2}
  Calls = {c1, c2}
  Browsers = {b1}
  BrowserOf <- MCBrowserOf
  Tokens = {t1, t2}
  Places = {p1, p2}
  Older <- MCOlder
  MaxPlaces = 1
  SessionTTL = 1
  None = None
  MaxTime = 1
SYMMETRY Alike
PROPERTY OwnedPlacesAreNotClaimed
