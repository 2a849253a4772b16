SPECIFICATION FairSpec
CONSTANTS
  Jobs = {j1}
  Ifaces = {e0, e1}
  None = None
  Limits = {a, b}
  Cuts = {b}
  MaxEdits = 1
  MaxEvents = 0
PROPERTIES PanelComesBack
