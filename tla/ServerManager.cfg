\* Two servers: one can hang, fail or be killed in a wait while the other waits at the
\* barrier with the main process, or for an event.
SPECIFICATION FairSpec
CONSTANTS
  Workers = {w1, w2}
  Main = main
INVARIANTS TypeOK StartMeansServing Halts
PROPERTIES StartEnds WorkersEnd
CHECK_DEADLOCK FALSE
