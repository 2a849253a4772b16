SPECIFICATION FairSpec
CONSTANTS
  Jobs = {j1}
  Ifaces = {e0, e1}
  None = None
  Limits = {a, b}
  Cuts = {b}
  MaxEdits = 2
  MaxEvents = 1
PROPERTIES AppliedInForce
