SPECIFICATION Spec
CONSTANTS
  Fields <- MCOneField
  GetMaxK = 2
  Budget = 2
  Period = 2
  Latenesses = {4}
  WaitModes = {TRUE}
  MaxPuts = 5
  MaxTime = 8
INVARIANTS SafeLastK
