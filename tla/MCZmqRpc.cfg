SPECIFICATION FairSpec
CONSTANTS
  main = main
  second = second
  other = other
  c1 = c1
  c2 = c2
  Clients <- MCClients
  Threads <- MCThreads
  Owner <- MCOwner
  Interruptible <- MCInterruptible
  MaxCalls = 2
INVARIANTS ExactlyInOrder AnswerLags
PROPERTIES EveryCallEnds
CHECK_DEADLOCK FALSE
