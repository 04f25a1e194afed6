------------------------------- MODULE MCZmqRpc -------------------------------
(* A client with two threads, one of them its main thread, and a client with  *)
(* one.                                                                       *)
EXTENDS ZmqRpc
CONSTANTS main, second, other, c1, c2
MCClients == {c1, c2}
MCThreads == {main, second, other}
MCOwner == [t \in MCThreads |-> IF t = other THEN c2 ELSE c1]
MCInterruptible == {main}
=============================================================================
