SPECIFICATION Spec
CONSTANTS
  Fields <- MCOneField
  GetMaxK = 3
  Budget = 2
  Period = 2
  Latenesses = {1, 7}
  WaitModes = {TRUE, FALSE}
  MaxPuts = 6
  MaxTime = 11
INVARIANTS PublishedIntact NeverTooFast SafeRead LookaheadUntouched SafeShortRead
