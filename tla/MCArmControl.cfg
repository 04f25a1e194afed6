SPECIFICATION Spec
CONSTANTS
  MaxSpeed <- MCMaxSpeed
  Values <- MCValues
  Home <- MCHome
  Alpha <- MCAlpha
  Dt = 1
  MaxTarget = 4
  MaxNow = 6
  MaxRequests = 3
INVARIANTS NeverRaises InterpWithinSpeed Settled
PROPERTIES CommandStep
CHECK_DEADLOCK FALSE
