---------------------------- MODULE MCShmRingBuffer ----------------------------
(* One field: an element read late shows whatever field it is of. *)
EXTENDS ShmRingBuffer
MCOneField == {"pose"}
=============================================================================
