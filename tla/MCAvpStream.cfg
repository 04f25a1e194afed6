\* The node whose pub loop sets req_ready_event although it has none.
SPECIFICATION CallSpec
CONSTANT Catalogue <- Avp
CHECK_DEADLOCK FALSE
INVARIANT PubLoopPuts
