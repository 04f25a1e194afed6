----------------------------- MODULE MCNodeLifecycle -----------------------------
(* Every node of the repository in threads and in a child process, the templates  *)
(* under every middleware.                                                        *)
EXTENDS NodeCalls

Avp == {AvpStream}
=============================================================================
