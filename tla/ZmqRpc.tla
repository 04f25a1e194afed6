--------------------------------- MODULE ZmqRpc ---------------------------------
(***************************************************************************)
(* API calls over ZeroMQ (middlewares/zmq.py).  A client has one DEALER    *)
(* socket that its threads share under _lock: a call sends a request and   *)
(* takes the next response that arrives, whatever request it answers.  The *)
(* server has one ROUTER socket and one request thread that executes the   *)
(* requests of all clients, one after the other.                           *)
(*                                                                         *)
(* Each connection delivers in order and loses nothing while both ends     *)
(* live.  Ctrl-C reaches the main thread of a client only: it raises       *)
(* KeyboardInterrupt in recv_multipart and leaves the response to come.    *)
(*                                                                         *)
(* Unlocked, ExecutesAgain and NoReply are faulty variants.                *)
(***************************************************************************)
EXTENDS Naturals, Sequences, SequencesExt

CONSTANTS
  Clients, Threads,
  Owner,        \* the client a thread belongs to
  Interruptible,\* the threads Ctrl-C reaches
  MaxCalls      \* bound: calls of a thread

ASSUME ZmqAssumption ==
  /\ Owner \in [Threads -> Clients] /\ Interruptible \subseteq Threads
  /\ MaxCalls \in Nat

VARIABLES
  pc,           \* of a thread: "idle" | "locked" | "receiving"
  calls,        \* calls a thread has made
  lock,         \* who holds _lock of a client, {} or one thread
  requests,     \* from a client's socket to the ROUTER
  responses,    \* from the ROUTER to a client's socket
  outcome,      \* what a thread's last call returned: the request it answers, with
                \* the interrupted calls of the client so far; or NoCall
  server,       \* the request thread: "testing" exit_event | "polling" | "executing" |
                \* "replying" | "ended"
  serving,      \* the client and the request being served
  exit_event,
  sent, executed, returned,  \* history, per client: requests in order
  abandoned     \* history, per client: calls interrupted in recv_multipart

client == <<pc, calls, lock, outcome>>
wire == <<requests, responses>>
request_thread == <<server, serving>>
history == <<sent, executed, returned, abandoned>>
vars == <<client, wire, request_thread, exit_event, history>>

NoCall == <<>>
Call(t) == <<t, calls[t]>>
Calls == Threads \X (1 .. MaxCalls)

Init ==
  /\ pc = [t \in Threads |-> "idle"] /\ calls = [t \in Threads |-> 0]
  /\ lock = [c \in Clients |-> {}] /\ outcome = [t \in Threads |-> NoCall]
  /\ requests = [c \in Clients |-> << >>] /\ responses = [c \in Clients |-> << >>]
  /\ server = "testing" /\ serving = NoCall /\ exit_event = FALSE
  /\ sent = [c \in Clients |-> << >>] /\ executed = [c \in Clients |-> << >>]
  /\ returned = [c \in Clients |-> << >>] /\ abandoned = [c \in Clients |-> 0]

-----------------------------------------------------------------------------
(* fn_wrapper *)

Unlocked(c) == TRUE
Free(c) == lock[c] = {}

Acquire(t) ==
  /\ pc[t] = "idle" /\ calls[t] < MaxCalls /\ Free(Owner[t])
  /\ lock' = [lock EXCEPT ![Owner[t]] = {t}]
  /\ pc' = [pc EXCEPT ![t] = "locked"]
  /\ calls' = [calls EXCEPT ![t] = @ + 1]
  /\ outcome' = [outcome EXCEPT ![t] = NoCall]
  /\ UNCHANGED <<wire, request_thread, exit_event, history>>

Release(t) == lock' = [lock EXCEPT ![Owner[t]] = {}]

SendRequest(t) ==
  /\ pc[t] = "locked"
  /\ pc' = [pc EXCEPT ![t] = "receiving"]
  /\ requests' = [requests EXCEPT ![Owner[t]] = Append(@, Call(t))]
  /\ sent' = [sent EXCEPT ![Owner[t]] = Append(@, Call(t))]
  /\ UNCHANGED <<calls, lock, outcome, responses, request_thread, exit_event,
                 executed, returned, abandoned>>

\* The arguments cannot be serialised: nothing is sent.
PackRaises(t) ==
  /\ pc[t] = "locked"
  /\ pc' = [pc EXCEPT ![t] = "idle"] /\ Release(t)
  /\ UNCHANGED <<calls, outcome, wire, request_thread, exit_event, history>>

Receive(t) ==
  LET c == Owner[t]
  IN  /\ pc[t] = "receiving" /\ responses[c] # << >>
      /\ responses' = [responses EXCEPT ![c] = Tail(@)]
      /\ outcome' = [outcome EXCEPT ![t] = <<Head(responses[c]), abandoned[c]>>]
      /\ returned' = [returned EXCEPT ![c] = Append(@, Head(responses[c]))]
      /\ pc' = [pc EXCEPT ![t] = "idle"] /\ Release(t)
      /\ UNCHANGED <<calls, requests, request_thread, exit_event, sent, executed,
                     abandoned>>

Interrupt(t) ==
  /\ t \in Interruptible /\ pc[t] # "idle"
  /\ pc' = [pc EXCEPT ![t] = "idle"] /\ Release(t)
  /\ abandoned' = IF pc[t] = "receiving"
                  THEN [abandoned EXCEPT ![Owner[t]] = @ + 1] ELSE abandoned
  /\ UNCHANGED <<calls, outcome, wire, request_thread, exit_event, sent, executed,
                 returned>>

-----------------------------------------------------------------------------
(* _request_loop *)

\* exit_event is read before a poll of 100 ms, which may still bring a request.
TestExit ==
  /\ server = "testing"
  /\ server' = IF exit_event THEN "ended" ELSE "polling"
  /\ UNCHANGED <<client, wire, serving, exit_event, history>>

PollTimesOut ==
  /\ server = "polling" /\ \A c \in Clients : requests[c] = << >>
  /\ server' = "testing"
  /\ UNCHANGED <<client, wire, serving, exit_event, history>>

TakeRequest(c) ==
  /\ server = "polling" /\ requests[c] # << >>
  /\ server' = "executing" /\ serving' = <<c, Head(requests[c])>>
  /\ requests' = [requests EXCEPT ![c] = Tail(@)]
  /\ UNCHANGED <<client, responses, exit_event, history>>

Execute ==
  /\ server = "executing"
  /\ server' = "replying"
  /\ executed' = [executed EXCEPT ![serving[1]] = Append(@, serving[2])]
  /\ UNCHANGED <<client, wire, serving, exit_event, sent, returned, abandoned>>

\* The request cannot be unpacked, or the method raises.
ExecuteRaises ==
  /\ server = "executing"
  /\ server' = "ended" /\ serving' = NoCall
  /\ UNCHANGED <<client, wire, exit_event, history>>

ExecutesAgain ==
  /\ server = "replying"
  /\ server' = "executing"
  /\ responses' = [responses EXCEPT ![serving[1]] = Append(@, serving[2])]
  /\ UNCHANGED <<client, requests, serving, exit_event, history>>

NoReply ==
  /\ server = "replying"
  /\ server' = "testing" /\ serving' = NoCall
  /\ UNCHANGED <<client, wire, exit_event, history>>

Reply ==
  /\ server = "replying"
  /\ server' = "testing" /\ serving' = NoCall
  /\ responses' = [responses EXCEPT ![serving[1]] = Append(@, serving[2])]
  /\ UNCHANGED <<client, requests, exit_event, history>>

\* The result cannot be serialised.
ReplyRaises ==
  /\ server = "replying"
  /\ server' = "ended" /\ serving' = NoCall
  /\ UNCHANGED <<client, wire, exit_event, history>>

StopServer ==
  /\ ~exit_event /\ exit_event' = TRUE
  /\ UNCHANGED <<client, wire, request_thread, history>>

CallStep(t) == SendRequest(t) \/ PackRaises(t) \/ Receive(t)
Serve == TestExit \/ PollTimesOut \/ (\E c \in Clients : TakeRequest(c))
         \/ Execute \/ ExecuteRaises \/ Reply \/ ReplyRaises
Next ==
  \/ \E t \in Threads : Acquire(t) \/ CallStep(t) \/ Interrupt(t)
  \/ Serve \/ StopServer
Spec == Init /\ [][Next]_vars

\* Threads run, and the ROUTER takes from every connection in turn.
FairSpec ==
  /\ Spec
  /\ \A t \in Threads : WF_vars(CallStep(t))
  /\ \A c \in Clients : SF_vars(TakeRequest(c))
  /\ WF_vars(Serve)

-----------------------------------------------------------------------------
(* Properties *)

\* The requests of a client are executed in the order they were sent, none left out
\* and none twice, and the responses its threads take come in that order too.  An
\* interrupted call keeps its place: its request may be executed after it ended.
ExactlyInOrder ==
  \A c \in Clients : IsPrefix(returned[c], executed[c]) /\ IsPrefix(executed[c], sent[c])

\* A call returns the answer to its own request, unless earlier calls of its
\* client were interrupted: then the answer to the request as many before it,
\* and so for good.
AnswerLags ==
  \A t \in Threads : outcome[t] # NoCall =>
    LET mine == sent[Owner[t]]
    IN  \E n \in 1 .. Len(mine) :
          mine[n] = Call(t) /\ outcome[t][2] < n /\ outcome[t][1] = mine[n - outcome[t][2]]

\* A call that got the lock ends, by answer, exception or Ctrl-C, as long as the
\* request thread lives.
EveryCallEnds ==
  \A t \in Threads : pc[t] # "idle" ~> pc[t] = "idle" \/ server = "ended"
=============================================================================
