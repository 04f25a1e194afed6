------------------------------ MODULE MCPubSubRpc ------------------------------
(* Two threads share a client.                                                *)
EXTENDS PubSubRpc
CONSTANTS a, b
MCCallers == {a, b}
=============================================================================
