SPECIFICATION FairSpec
CONSTANTS
  Keys <- MCKeys
  Shift = "shift"
  Shifted <- MCShifted
  Charless = {"fn"}
  Kinds = {"pynput", "ssh", "evdev"}
  KeyCode <- MCKeyCode
  Tapped = "w"
  Rollovers = {1, 2}
  Width = 2
  max_buffer_size = 1
  MaxPending = 2
  MaxEvents = 4
  Positions = 3
  max_queue_size = 1
INVARIANTS ShownIsRegular TapsSeenOnce
PROPERTIES ComesToRest
CHECK_DEADLOCK FALSE
