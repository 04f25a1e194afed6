--------------------------------- MODULE NodeCalls ---------------------------------
(***************************************************************************)
(* A client in another process that calls get_state() of a node once, at   *)
(* any time of the life the node leads in NodeLifecycle.  How calls cross  *)
(* each other is the matter of ZmqRpc and PubSubRpc; here a call meets a   *)
(* server that is not there yet, is about to go or never goes.             *)
(*                                                                         *)
(*   zmq           the call waits at the bound socket, with no time limit  *)
(*   grpc          a call without a server fails at once, others have no   *)
(*                 time limit                                              *)
(*   zenoh         a call that no queryable takes fails                    *)
(*   all but zmq and grpc time out                                         *)
(*   rclpy         is not here: get_state() of its client reads a copy in  *)
(*                 the client itself, which is empty until a message came  *)
(*                 (module RclpyState)                                     *)
(***************************************************************************)
EXTENDS NodeLifecycle

VARIABLES
  call,     \* "none" | "sent" | "executing" | "state" | "empty" | "error" | "timeout"
  asked     \* history: the node was ready when the call was made

calls == <<call, asked>>

CallInit == NodeInit /\ call = "none" /\ asked = FALSE

\* Their clients send get_state() to the server.
Forwarding == Serving \ {"rclpy"}

Becomes(x) == call' = x /\ UNCHANGED <<asked, nodevars>>

Call ==
  /\ middleware \in Forwarding /\ call = "none" /\ call' = "sent"
  /\ asked' = (caller = "running" /\ timed_out = {})
  /\ UNCHANGED nodevars

Take == call = "sent" /\ node_server = "serving" /\ Becomes("executing")

\* The client of zmq is left without an answer when the socket is closed.
Reply ==
  /\ call = "executing"
  /\ IF node_server = "closed" THEN middleware \in {"zenoh", "grpc"} /\ Becomes("error")
     ELSE IF caller = "building" THEN Becomes("error")
     ELSE Becomes(IF stored THEN "state" ELSE "empty")

Refuse ==
  /\ call = "sent"
  /\ \/ middleware = "grpc" /\ node_server \in {"none", "closed"}
     \/ middleware = "zenoh" /\ node_server \in {"ended", "closed"}
  /\ Becomes("error")

\* zenoh reports it as RuntimeError.
CallTimesOut ==
  /\ call \in {"sent", "executing"} /\ middleware \notin {"zmq", "grpc"}
  /\ Becomes("timeout")

NodeStep == NodeNext /\ UNCHANGED calls
CallNext == NodeStep \/ Call \/ Take \/ Reply \/ Refuse \/ CallTimesOut
callvars == <<nodevars, calls>>
CallSpec == CallInit /\ [][CallNext]_callvars

\* As FairNodeSpec; a server takes and answers, a client's time passes.
FairCallSpec ==
  /\ CallSpec
  /\ WF_callvars(UNCHANGED calls /\ CallerStep)
  /\ WF_callvars(UNCHANGED calls /\ ServerEnds) /\ WF_callvars(UNCHANGED calls /\ ChildStep)
  /\ \A t \in Loops : WF_callvars(UNCHANGED calls /\ (LoopStep(t) \/ Raise(t)))
  /\ WF_callvars(Take) /\ WF_callvars(Reply) /\ WF_callvars(Refuse) /\ WF_callvars(CallTimesOut)

-----------------------------------------------------------------------------
(* Properties *)

\* A call sent after start() returned in time is answered with a state, or times out,
\* until the node is told to exit: it meets a server, a built node and a first put.
ReadyAnswers == call \in {"empty", "error"} => ~asked \/ exit_event

\* A call ends.  Over ZeroMQ it may hang only when start() failed or the node was told
\* to exit.
CallEnds ==
  call = "sent" ~> \/ call \notin {"sent", "executing"}
                   \/ middleware = "zmq" /\ (caller = "failed" \/ exit_event)
=============================================================================
