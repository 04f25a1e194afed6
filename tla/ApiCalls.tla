------------------------------- MODULE ApiCalls -------------------------------
(***************************************************************************)
(* What a client whose server it reaches by messages promises to the       *)
(* threads that call API methods.  A call gets an identity of its own and  *)
(* returns once: with the outcome of an execution of its request, one      *)
(* that happened since it was made, or with an error that tells how far    *)
(* the request came.  A request that was never sent is never executed; one *)
(* that was sent may be executed any number of times, also after the call  *)
(* gave up on it.  PubSubRpc is shown to implement this.                   *)
(***************************************************************************)
EXTENDS Naturals, Sequences

CONSTANTS
  Callers,     \* threads that call API methods through one client
  MaxCalls,    \* bound: calls, all threads together
  MaxExecuted  \* bound: executions

VARIABLES
  calling,     \* threads with a call under way
  request_id,  \* per caller: the id of its current or last call
  issued,      \* calls made
  outcome,     \* per caller: how its last call ended
  sent,        \* ids of the requests that were sent
  executed,    \* ids in the order the server executed them
  closed       \* stop() has run

vars == <<calling, request_id, issued, outcome, sent, executed, closed>>
channel == <<request_id, issued, sent, executed, closed>>

NoId == 0
NoOutcome == [kind |-> "none", answer |-> 0]

Init ==
  /\ calling = {} /\ sent = {} /\ executed = << >> /\ closed = FALSE
  /\ request_id = [c \in Callers |-> NoId] /\ issued = 0
  /\ outcome = [c \in Callers |-> NoOutcome]

Call(c) ==
  /\ c \notin calling /\ issued < MaxCalls
  /\ calling' = calling \cup {c}
  /\ issued' = issued + 1
  /\ request_id' = [request_id EXCEPT ![c] = issued + 1]
  /\ outcome' = [outcome EXCEPT ![c] = NoOutcome]
  /\ UNCHANGED <<sent, executed, closed>>

Send(c) ==
  /\ c \in calling /\ request_id[c] \notin sent
  /\ sent' = sent \cup {request_id[c]}
  /\ UNCHANGED <<calling, request_id, issued, outcome, executed, closed>>

Execute ==
  /\ Len(executed) < MaxExecuted
  /\ \E id \in sent : executed' = Append(executed, id)
  /\ UNCHANGED <<calling, request_id, issued, outcome, sent, closed>>

Close ==
  /\ ~closed /\ closed' = TRUE
  /\ UNCHANGED <<calling, request_id, issued, outcome, sent, executed>>

Return(c, how) ==
  /\ c \in calling
  /\ calling' = calling \ {c}
  /\ outcome' = [outcome EXCEPT ![c] = how]
  /\ UNCHANGED channel

Answer(c) ==
  \E k \in 1 .. Len(executed) :
    executed[k] = request_id[c] /\ Return(c, [kind |-> "answer", answer |-> k])

\* The request was not sent: it will not be executed.
Refuse(c) ==
  request_id[c] \notin sent /\ Return(c, [kind |-> "TypeError", answer |-> 0])

\* The request was sent: whether it is executed nobody knows.
GiveUp(c) ==
  request_id[c] \in sent /\ Return(c, [kind |-> "TimeoutError", answer |-> 0])

\* The same, because of stop().
Abandon(c) ==
  closed /\ request_id[c] \in sent /\ Return(c, [kind |-> "KeyError", answer |-> 0])

Next ==
  \/ \E c \in Callers : Call(c) \/ Send(c) \/ Answer(c) \/ Refuse(c) \/ GiveUp(c) \/ Abandon(c)
  \/ Execute \/ Close

Spec == Init /\ [][Next]_vars
=============================================================================
