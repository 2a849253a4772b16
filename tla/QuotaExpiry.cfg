SPECIFICATION FairSpec
CONSTANTS
  Inbounds = {i1}
  None = None
  Total = 2
  Cycle = 2
  Start = 2
  MaxNow = 3
  MaxUsed = 2
  MaxRequests = 1
  MaxErrors = 1
  Rows <- MCRows
  Expiries <- MCExpiries
  RenewalDays <- MCRenewalDays
PROPERTIES InvalidLeavesCore
