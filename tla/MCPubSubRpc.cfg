SPECIFICATION FairSpec
CONSTANTS
  a = a
  b = b
  Callers <- MCCallers
  MaxCalls = 2
  MaxExecuted = 2
INVARIANTS AnswerIsOwn NoLeak
PROPERTIES ApiSpec EveryCallEnds
CHECK_DEADLOCK FALSE
