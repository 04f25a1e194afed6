------------------------------- MODULE MCRclpyState -------------------------------
(* A state of two fields. *)
EXTENDS RclpyState
MCFieldOrder == <<"joint_q", "timestamp">>
=============================================================================
