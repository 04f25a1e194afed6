------------------------------- MODULE PubSubRpc -------------------------------
(***************************************************************************)
(* API calls over publish/subscribe topics, as LcmServer/LcmClient and     *)
(* RclpyServer/RclpyClient make them: a caller registers a fresh id with   *)
(* an event, publishes the request and waits; the receive thread files the *)
(* response under the id and sets the event; a caller that waited too long *)
(* withdraws.  stop() wakes everybody who still waits.                     *)
(*                                                                         *)
(* Callers are the threads of one client process.  The code between "with  *)
(* self._pending_lock" and its end touches nothing else that is shared, so *)
(* each such block is one step.  Messages are UDP multicast (LCM) or       *)
(* best-effort topics: they may be lost, reordered and delivered twice.    *)
(*                                                                         *)
(* A response carries a result or the text of an exception; which of the   *)
(* two makes no difference to the protocol.                                *)
(*                                                                         *)
(* SameId, FiledUnasked, FiledToAll and WaitForever are faulty variants of *)
(* the definitions below them.                                             *)
(***************************************************************************)
EXTENDS Naturals, Sequences

CONSTANTS
  Callers,     \* threads that call API methods through one client
  MaxCalls,    \* bound: calls, all threads together
  MaxExecuted  \* bound: requests the server executes, duplicates included

ASSUME BoundsAssumption == MaxCalls \in Nat /\ MaxExecuted \in Nat

VARIABLES
  pending,      \* ids registered in _pending
  fired,        \* ids whose event is set
  results,      \* _results: id -> response
  pc,           \* per caller: where it is in _rpc_call
  request_id,   \* per caller: the id of its current or last call
  issued,       \* calls made, which makes ids fresh (uuid4)
  outcome,      \* per caller: how its last call ended
  stopping,     \* client: "no" | "asked" | "done"
  receiving,    \* the receive thread has not left its loop
  requests,     \* requests in flight
  responses,    \* responses in flight
  serving,      \* the server's request thread: "idle" | "executing" |
                \* "publishing" | "ended"
  current,      \* the request it serves
  executed      \* ids in the order the server executed them

client == <<pending, fired, results, stopping, receiving>>
callers == <<pc, request_id, issued, outcome>>
server == <<serving, current, executed>>
vars == <<client, callers, server, requests, responses>>

Ids == 1 .. MaxCalls
NoId == 0
Response == [id : Ids, answer : 1 .. MaxExecuted]
Outcome == [kind : {"none", "answer", "TimeoutError", "KeyError", "TypeError"},
            answer : 0 .. MaxExecuted]
NoOutcome == [kind |-> "none", answer |-> 0]

Init ==
  /\ pending = {} /\ fired = {} /\ results = << >>
  /\ pc = [c \in Callers |-> "idle"]
  /\ request_id = [c \in Callers |-> NoId] /\ issued = 0
  /\ outcome = [c \in Callers |-> NoOutcome]
  /\ stopping = "no" /\ receiving = TRUE
  /\ requests = {} /\ responses = {}
  /\ serving = "idle" /\ current = NoId /\ executed = << >>

Drop(f, id) == [i \in DOMAIN f \ {id} |-> f[i]]

-----------------------------------------------------------------------------
(* _rpc_call *)

SameId(c) == IF request_id[c] = NoId THEN issued + 1 ELSE request_id[c]
FreshId(c) == issued + 1

Register(c) ==
  /\ pc[c] = "idle" /\ issued < MaxCalls
  /\ pc' = [pc EXCEPT ![c] = "registered"]
  /\ issued' = issued + 1
  /\ request_id' = [request_id EXCEPT ![c] = FreshId(c)]
  /\ pending' = pending \cup {FreshId(c)}
  /\ outcome' = [outcome EXCEPT ![c] = NoOutcome]
  /\ UNCHANGED <<fired, results, stopping, receiving, server, requests,
                 responses>>

Publish(c) ==
  /\ pc[c] = "registered"
  /\ pc' = [pc EXCEPT ![c] = "waiting"]
  /\ requests' = requests \cup {request_id[c]}
  /\ UNCHANGED <<client, request_id, issued, outcome, server, responses>>

\* The arguments cannot be serialised: pack raises out of _rpc_call, and the id
\* stays in _pending.
PublishRaises(c) ==
  /\ pc[c] = "registered"
  /\ pc' = [pc EXCEPT ![c] = "idle"]
  /\ outcome' = [outcome EXCEPT ![c] = [kind |-> "TypeError", answer |-> 0]]
  /\ UNCHANGED <<client, request_id, issued, server, requests, responses>>

EventSet(c) == request_id[c] \in fired

WaitWoken(c) ==
  /\ pc[c] = "waiting" /\ EventSet(c)
  /\ pc' = [pc EXCEPT ![c] = "woken"]
  /\ UNCHANGED <<client, request_id, issued, outcome, server, requests, responses>>

WaitForever(c) == FALSE /\ UNCHANGED vars
WaitTimeout(c) ==
  /\ pc[c] = "waiting" /\ ~EventSet(c)
  /\ pc' = [pc EXCEPT ![c] = "timedout"]
  /\ UNCHANGED <<client, request_id, issued, outcome, server, requests, responses>>

Ends(c, how) ==
  /\ pc' = [pc EXCEPT ![c] = "idle"]
  /\ outcome' = [outcome EXCEPT ![c] = how]
  /\ pending' = pending \ {request_id[c]}
  /\ results' = Drop(results, request_id[c])
  /\ UNCHANGED <<request_id, issued, fired, stopping, receiving, server,
                 requests, responses>>

Withdraw(c) ==
  /\ pc[c] = "timedout"
  /\ Ends(c, [kind |-> "TimeoutError", answer |-> 0])

Collect(c) ==
  /\ pc[c] = "woken" /\ request_id[c] \in DOMAIN results
  /\ Ends(c, [kind |-> "answer", answer |-> results[request_id[c]].answer])

\* Woken by stop(): _results.pop(request_id) has no default.
CollectNothing(c) ==
  /\ pc[c] = "woken" /\ request_id[c] \notin DOMAIN results
  /\ Ends(c, [kind |-> "KeyError", answer |-> 0])

-----------------------------------------------------------------------------
(* The client's receive thread and stop() *)

FiledUnasked(id) == {id}
FiledToAll(id) == pending
Filed(id) == {id} \cap pending

\* _on_api_response: a response nobody waits for is ignored.
OnApiResponse(m) ==
  /\ receiving /\ m \in responses
  /\ responses' \in {responses, responses \ {m}}
  /\ results' = [i \in DOMAIN results \cup Filed(m.id) |->
                   IF i \in Filed(m.id) THEN m ELSE results[i]]
  /\ fired' = fired \cup Filed(m.id)
  /\ UNCHANGED <<pending, stopping, receiving, callers, server, requests>>

StopAsked ==
  /\ stopping = "no"
  /\ stopping' = "asked"
  /\ UNCHANGED <<pending, fired, results, receiving, callers, server, requests,
                 responses>>

\* The loop looks at _recv_running between two messages.
ReceiverExits ==
  /\ stopping # "no" /\ receiving
  /\ receiving' = FALSE
  /\ UNCHANGED <<pending, fired, results, stopping, callers, server, requests,
                 responses>>

\* join(timeout) may give up on the receive thread before this.
StopWakes ==
  /\ stopping = "asked"
  /\ stopping' = "done"
  /\ fired' = fired \cup pending
  /\ UNCHANGED <<pending, results, receiving, callers, server, requests,
                 responses>>

-----------------------------------------------------------------------------
(* The server's request thread, and the network *)

TakeRequest(id) ==
  /\ serving = "idle" /\ id \in requests
  /\ Len(executed) < MaxExecuted
  /\ serving' = "executing" /\ current' = id
  /\ requests' \in {requests, requests \ {id}}
  /\ UNCHANGED <<client, callers, executed, responses>>

\* getattr(self, fn_name)(*args, **kwargs); an exception becomes the response.
Execute ==
  /\ serving = "executing"
  /\ serving' = "publishing"
  /\ executed' = Append(executed, current)
  /\ UNCHANGED <<client, callers, current, requests, responses>>

Respond ==
  /\ serving = "publishing"
  /\ responses' = responses \cup
                    {[id |-> current, answer |-> Len(executed)]}
  /\ serving' = "idle" /\ current' = NoId
  /\ UNCHANGED <<client, callers, executed, requests>>

\* The result cannot be serialised, and RclpyServer goes on without answering.
RespondFails ==
  /\ serving = "publishing"
  /\ serving' = "idle" /\ current' = NoId
  /\ UNCHANGED <<client, callers, executed, requests, responses>>

\* LcmServer packs the response outside the try block, and the exception ends
\* its thread.  Or exit_event is set.
ServerEnds ==
  /\ serving \in {"publishing", "idle"}
  /\ serving' = "ended" /\ current' = NoId
  /\ UNCHANGED <<client, callers, executed, requests, responses>>

Lose ==
  /\ \/ \E id \in requests : requests' = requests \ {id} /\ UNCHANGED responses
     \/ \E m \in responses : responses' = responses \ {m} /\ UNCHANGED requests
  /\ UNCHANGED <<client, callers, server>>

-----------------------------------------------------------------------------
CallStep(c) ==
  Publish(c) \/ PublishRaises(c) \/ WaitWoken(c) \/ WaitTimeout(c) \/ Withdraw(c)
  \/ Collect(c) \/ CollectNothing(c)

Receive == \E m \in responses : OnApiResponse(m)
Stop == StopAsked \/ ReceiverExits \/ StopWakes
Serve == (\E id \in requests : TakeRequest(id)) \/ Execute \/ Respond
         \/ RespondFails \/ ServerEnds

Next ==
  \/ \E c \in Callers : Register(c) \/ CallStep(c)
  \/ Receive \/ Stop \/ Serve \/ Lose

Spec == Init /\ [][Next]_vars

\* A thread in _rpc_call runs on, and its wait ends at the latest by timeout.
\* Nothing is assumed of the server, the network or stop().
FairSpec == Spec /\ \A c \in Callers : WF_vars(CallStep(c))

-----------------------------------------------------------------------------
(* Properties *)

TypeOK ==
  /\ pending \subseteq Ids /\ fired \subseteq Ids
  /\ DOMAIN results \subseteq Ids
  /\ \A i \in DOMAIN results : results[i] \in Response
  /\ pc \in [Callers -> {"idle", "registered", "waiting", "woken", "timedout"}]
  /\ request_id \in [Callers -> 0 .. issued] /\ issued \in 0 .. MaxCalls
  /\ outcome \in [Callers -> Outcome]
  /\ stopping \in {"no", "asked", "done"} /\ receiving \in BOOLEAN
  /\ requests \subseteq Ids /\ responses \subseteq Response
  /\ serving \in {"idle", "executing", "publishing", "ended"}
  /\ current \in Ids \cup {NoId}
  /\ executed \in Seq(Ids) /\ Len(executed) <= MaxExecuted

Active(c) == pc[c] # "idle"

\* A call that gets an answer gets the outcome of an execution of its own
\* request, one that happened before it returned, whatever the network lost, reordered or
\* delivered twice and whoever else was waiting.
AnswerIsOwn ==
  \A c \in Callers :
    outcome[c].kind = "answer" =>
      /\ outcome[c].answer \in 1 .. Len(executed)
      /\ executed[outcome[c].answer] = request_id[c]

\* A call under way stays registered until it ends itself, and _results holds
\* nothing but answers to calls under way: late and repeated responses leave no
\* trace.
NoLeak ==
  LET open == {request_id[c] : c \in {d \in Callers : Active(d)}}
  IN  open \subseteq pending /\ DOMAIN results \subseteq open

\* A woken caller finds its result, unless stop() is what woke it; ApiSpec implies it.
NoKeyErrorBeforeStop ==
  stopping = "no" => \A c \in Callers : outcome[c].kind # "KeyError"

\* Requests that were published: their call waits or has left _pending.
Sent ==
  {i \in 1 .. issued :
    \/ i \notin pending
    \/ \E c \in Callers : pc[c] \in {"waiting", "woken", "timedout"} /\ request_id[c] = i}

Api == INSTANCE ApiCalls WITH
  calling <- {c \in Callers : Active(c)}, sent <- Sent, closed <- stopping = "done"

\* Calls over topics implement ApiCalls: an answer is the outcome of an execution since
\* the call was made, TypeError means that nothing was or will be executed, TimeoutError
\* and (after stop()) KeyError mean that nobody knows, and nothing is executed unasked.
ApiSpec == Api!Spec

\* Every call ends, also when the server has died or stop() runs meanwhile.
EveryCallEnds == \A c \in Callers : Active(c) ~> ~Active(c)
=============================================================================
