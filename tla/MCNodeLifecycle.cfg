\* Every node of the repository.
SPECIFICATION FairCallSpec
CONSTANT Catalogue <- AllNodes
\* The system stops when start() failed or stop() returned.
CHECK_DEADLOCK FALSE
INVARIANTS
  ReadyMeansServing
  Released
  PutUndisturbed
  ReadyAnswers
PROPERTIES
  NodeStartEnds
  LoopsEnd
  CallEnds
