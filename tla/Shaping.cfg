SPECIFICATION MCSpec
CONSTANTS
  Jobs = {j1, j2}
  Ifaces = {e0, e1}
  None = None
  Limits = {a, b}
  Cuts = {b}
  MaxEdits = 1
  MaxEvents = 2
INVARIANTS TypeOK FloorUnderRedirect
PROPERTIES ForeignKept KernelSettles PanelComesBackUnlessSpoiled
