SPECIFICATION FairSpec
CONSTANTS
  Consumers = {c1}
  Admin = admin
  Slots <- MCSlots
  None = None
  Edits <- MCFewEdits
  MaxEdits = 1
  MaxEvents = 2
PROPERTIES Converges
