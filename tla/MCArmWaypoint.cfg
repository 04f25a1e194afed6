SPECIFICATION Spec
CONSTANTS
  MaxSpeed <- MCMaxSpeed
  Values <- MCValues
  Home <- MCHome
  Alpha <- MCAlpha
  Dt = 1
  MaxTarget = 4
  MaxNow = 6
  MaxRequests = 2
INVARIANTS LastWaypointKnown
CHECK_DEADLOCK FALSE
