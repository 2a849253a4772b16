SPECIFICATION FairSpec
CONSTANTS
  Consumers = {c1}
  Admin = admin
  Slots <- MCSlots
  None = None
  Edits <- MCFewEdits
  MaxEdits = 0
  MaxEvents = 1
PROPERTIES SettingsTakeEffect
