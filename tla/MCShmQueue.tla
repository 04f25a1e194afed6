------------------------------ MODULE MCShmQueue ------------------------------
(* A queue of two slots, three accepted requests: both counters pass the end *)
(* of the arrays and a batch of two wraps around.  "arg" is a field only some *)
(* requests carry, "extra" a key the node declared no array for.             *)
EXTENDS ShmQueue

CONSTANTS v1, v2, blank

MCFields == {"type", "arg"}
MCKeySets == {{"type", "arg"}, {"type"}, {"type", "extra"}}
MCValues == {v1, v2}
=============================================================================
