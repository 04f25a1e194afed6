\* The queue of a subscription overflows with its second message, the ring buffer with
\* its third snapshot; two states go through islice.
SPECIFICATION Spec
CONSTANTS
  FieldOrder <- MCFieldOrder
  qos_depth = 1
  max_buffer_size = 2
  max_queue_size = 1
  Small = 1
  Ks = {1, 2, 3}
  MaxPuts = 3
  MaxReads = 2
INVARIANTS ReadIsWindow CatchesUp
PROPERTIES NeverBackwards
CHECK_DEADLOCK FALSE
