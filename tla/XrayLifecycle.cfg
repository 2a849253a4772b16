SPECIFICATION Spec
CONSTANTS
  Consumers = {c1}
  Admin = admin
  Slots <- MCSlots
  None = None
  Edits <- MCEdits
  MaxEdits = 2
  MaxEvents = 1
INVARIANTS TypeOK SnapshotFaithful NoUnattendedCore PlanAccepted
PROPERTIES SameGenSameRouting ServesAsPromised
