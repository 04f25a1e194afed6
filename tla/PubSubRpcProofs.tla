---------------------------- MODULE PubSubRpcProofs ----------------------------
(***************************************************************************)
(* AnswerIsOwn, NoLeak and NoKeyErrorBeforeStop for any number of callers, *)
(* calls and executions.  The inductive invariant IInv says, besides the   *)
(* types, that ids are fresh (IdsFresh), that an id is heard of only after *)
(* its request is published (Unpublished), that every response anywhere    *)
(* tells of an execution of the request it names (Truthful), that only     *)
(* calls under way have results (Registered), and that before stop() an    *)
(* event is set only together with a result (FiredMeansFiled).             *)
(*                                                                         *)
(* From the same invariant follows that these calls implement ApiCalls.    *)
(***************************************************************************)
EXTENDS PubSubRpc, TLAPS

Tells(m) == m.answer \in 1 .. Len(executed) /\ executed[m.answer] = m.id

IdsFresh ==
  /\ \A c, d \in Callers :
       c # d /\ request_id[c] # NoId => request_id[c] # request_id[d]
  /\ \A c \in Callers : Active(c) => request_id[c] # NoId
  /\ \A i \in pending \cup requests \cup fired : i <= issued
  /\ current <= issued
  /\ \A k \in 1 .. Len(executed) : executed[k] <= issued

Unheard(i) ==
  i \notin requests /\ i # current /\ \A k \in 1 .. Len(executed) : executed[k] # i

Unpublished ==
  /\ \A c \in Callers : pc[c] = "registered" => Unheard(request_id[c])
  /\ \A i \in pending :
       Unheard(i) \/ \E c \in Callers : Active(c) /\ request_id[c] = i

Truthful ==
  /\ \A m \in responses : Tells(m)
  /\ \A i \in DOMAIN results : results[i].id = i /\ Tells(results[i])
  /\ serving \in {"executing", "publishing"} => current \in Ids
  /\ serving = "executing" => Len(executed) < MaxExecuted
  /\ serving = "publishing" =>
       Len(executed) > 0 /\ executed[Len(executed)] = current

Registered ==
  /\ \A c \in Callers : Active(c) => request_id[c] \in pending
  /\ \A i \in DOMAIN results : \E c \in Callers : Active(c) /\ request_id[c] = i

FiredMeansFiled ==
  stopping # "done" =>
    /\ \A i \in fired \cap pending : i \in DOMAIN results
    /\ \A c \in Callers : pc[c] = "woken" => request_id[c] \in fired

IInv ==
  /\ TypeOK /\ IdsFresh /\ Unpublished /\ Truthful /\ Registered
  /\ FiredMeansFiled /\ AnswerIsOwn /\ NoKeyErrorBeforeStop

LEMMA Outcomes ==
  /\ NoOutcome \in Outcome /\ NoOutcome.kind = "none"
  /\ \A n \in 1 .. MaxExecuted : [kind |-> "answer", answer |-> n] \in Outcome
  /\ \A k \in {"TimeoutError", "KeyError", "TypeError"} :
       [kind |-> k, answer |-> 0] \in Outcome
BY BoundsAssumption DEF Outcome, NoOutcome

LEMMA InitIInv == Init => IInv
BY BoundsAssumption, Outcomes DEF Init, IInv, TypeOK, IdsFresh, Unpublished, Truthful,
   Registered, FiredMeansFiled, AnswerIsOwn, NoKeyErrorBeforeStop, Active, Ids,
   NoId, Response, Tells, Unheard

\* A call that ends, however it does, keeps Unpublished: what nobody has heard of stays
\* so, and the id it withdraws is its own.
LEMMA EndsUnpublished ==
  ASSUME IInv, NEW c \in Callers, Active(c), NEW how, Ends(c, how) PROVE Unpublished'
<1>1. /\ UNCHANGED <<request_id, requests, current, executed>>
      /\ pending' = pending \ {request_id[c]}
      /\ pc' = [pc EXCEPT ![c] = "idle"]
  BY DEF Ends, server
<1>2. pc \in [Callers -> {"idle", "registered", "waiting", "woken", "timedout"}]
  BY DEF IInv, TypeOK
<1>3. \A d \in Callers : pc'[d] = IF d = c THEN "idle" ELSE pc[d]
  BY <1>1, <1>2
<1>4. \A i : Unheard(i) => Unheard(i)'
  BY <1>1 DEF Unheard
<1>5. ASSUME NEW d \in Callers, pc'[d] = "registered" PROVE Unheard(request_id[d])'
  <2>1. PICK i : i = request_id[d]
    OBVIOUS
  <2>2. Unheard(i)
    BY <1>3, <1>5, <2>1 DEF IInv, Unpublished
  <2>3. Unheard(i)'
    BY <1>4, <2>2
  <2> QED BY <1>1, <2>1, <2>3 DEF Unheard
<1>6. ASSUME NEW i \in pending', ~Unheard(i)'
      PROVE  \E d \in Callers : Active(d)' /\ request_id'[d] = i
  <2>1. i \in pending /\ i # request_id[c] /\ ~Unheard(i)
    BY <1>1, <1>4, <1>6
  <2>2. PICK d \in Callers : Active(d) /\ request_id[d] = i
    BY <2>1 DEF IInv, Unpublished
  <2>3. d # c /\ Active(d)'
    BY <1>3, <2>1, <2>2 DEF Active
  <2> QED BY <1>1, <2>2, <2>3
<1> QED BY <1>5, <1>6 DEF Unpublished

LEMMA StepIInv == IInv /\ [Next]_vars => IInv'
<1> SUFFICES ASSUME IInv, [Next]_vars PROVE IInv'
  OBVIOUS
<1> USE BoundsAssumption, Outcomes DEF IInv, TypeOK, IdsFresh, Unpublished, Truthful,
    Registered, FiredMeansFiled, AnswerIsOwn, NoKeyErrorBeforeStop, Ids, NoId,
    Response, Tells, Unheard, Active, client, callers, server
<1>1. ASSUME NEW c \in Callers, Register(c) PROVE IInv'
  <2>1. TypeOK'
    <3>1. issued + 1 \in Ids /\ issued' = issued + 1
      BY <1>1 DEF Register, FreshId
    <3>2. outcome' \in [Callers -> Outcome]
      BY <1>1 DEF Register, FreshId
    <3>3. request_id' \in [Callers -> 0 .. issued']
      BY <1>1, <3>1 DEF Register, FreshId
    <3> QED BY <1>1, <3>1, <3>2, <3>3 DEF Register, FreshId
  <2>2. IdsFresh'
    BY <1>1 DEF Register, FreshId
  <2>3. Unpublished'
    BY <1>1 DEF Register, FreshId
  <2>4. Truthful'
    BY <1>1 DEF Register, FreshId
  <2>5. Registered'
    BY <1>1 DEF Register, FreshId
  <2>6. FiredMeansFiled'
    BY <1>1 DEF Register, FreshId
  <2>7. AnswerIsOwn'
    BY <1>1 DEF Register, FreshId
  <2>8. NoKeyErrorBeforeStop'
    BY <1>1 DEF Register, FreshId
  <2> QED BY <2>1, <2>2, <2>3, <2>4, <2>5, <2>6, <2>7, <2>8
<1>2. ASSUME NEW c \in Callers, Publish(c) PROVE IInv'
  <2>1. TypeOK'
    BY <1>2 DEF Publish
  <2>2. IdsFresh'
    BY <1>2 DEF Publish
  <2>3. Unpublished'
    <3>1. \A d \in Callers : d # c => pc'[d] = pc[d]
      BY <1>2 DEF Publish
    <3>2. Active(c)' /\ Active(c) /\ pc'[c] = "waiting"
      BY <1>2 DEF Publish
    <3>3. /\ requests' = requests \cup {request_id[c]}
          /\ UNCHANGED <<pending, server, request_id>>
      BY <1>2 DEF Publish
    <3>4. ASSUME NEW d \in Callers, pc'[d] = "registered"
          PROVE  Unheard(request_id[d])'
      <4>1. d # c /\ pc[d] = "registered"
        BY <3>1, <3>2, <3>4
      <4> QED BY <4>1, <3>2, <3>3
    <3>5. ASSUME NEW i \in pending
          PROVE  Unheard(i)' \/ \E d \in Callers : Active(d)' /\ request_id'[d] = i
      BY <3>1, <3>2, <3>3
    <3> QED BY <3>3, <3>4, <3>5
  <2>4. Truthful'
    BY <1>2 DEF Publish
  <2>5. Registered'
    BY <1>2 DEF Publish
  <2>6. FiredMeansFiled'
    BY <1>2 DEF Publish
  <2>7. AnswerIsOwn'
    BY <1>2 DEF Publish
  <2>8. NoKeyErrorBeforeStop'
    BY <1>2 DEF Publish
  <2> QED BY <2>1, <2>2, <2>3, <2>4, <2>5, <2>6, <2>7, <2>8
<1>3. ASSUME NEW c \in Callers, PublishRaises(c) PROVE IInv'
  <2>1. TypeOK'
    BY <1>3 DEF PublishRaises
  <2>2. IdsFresh'
    BY <1>3 DEF PublishRaises
  <2>3. Unpublished'
    BY <1>3 DEF PublishRaises
  <2>4. Truthful'
    BY <1>3 DEF PublishRaises
  <2>5. Registered'
    BY <1>3 DEF PublishRaises
  <2>6. FiredMeansFiled'
    BY <1>3 DEF PublishRaises
  <2>7. AnswerIsOwn'
    BY <1>3 DEF PublishRaises
  <2>8. NoKeyErrorBeforeStop'
    BY <1>3 DEF PublishRaises
  <2> QED BY <2>1, <2>2, <2>3, <2>4, <2>5, <2>6, <2>7, <2>8
<1>4. ASSUME NEW c \in Callers, WaitWoken(c) PROVE IInv'
  BY <1>4 DEF WaitWoken, EventSet
<1>5. ASSUME NEW c \in Callers, WaitTimeout(c) PROVE IInv'
  BY <1>5 DEF WaitTimeout
<1>6. ASSUME NEW c \in Callers, Withdraw(c) PROVE IInv'
  <2>1. TypeOK'
    <3>1. [kind |-> "TimeoutError", answer |-> 0] \in Outcome
      BY <1>6 DEF Withdraw, Outcome
    <3>2. outcome' \in [Callers -> Outcome]
      BY <1>6, <3>1 DEF Withdraw, Ends
    <3>3. /\ DOMAIN results' \subseteq DOMAIN results
          /\ \A i \in DOMAIN results' : results'[i] = results[i]
      BY <1>6 DEF Withdraw, Ends, Drop
    <3> HIDE DEF Outcome
    <3> QED BY <1>6, <3>2, <3>3 DEF Withdraw, Ends, Outcome
  <2>2. IdsFresh'
    BY <1>6 DEF Withdraw, Ends, Drop
  <2>3. Unpublished'
    BY <1>6, EndsUnpublished DEF Withdraw, Active
  <2>4. Truthful'
    BY <1>6 DEF Withdraw, Ends, Drop
  <2>5. Registered'
    BY <1>6 DEF Withdraw, Ends, Drop
  <2>6. FiredMeansFiled'
    BY <1>6 DEF Withdraw, Ends, Drop
  <2>7. AnswerIsOwn'
    BY <1>6 DEF Withdraw, Ends, Drop
  <2>8. NoKeyErrorBeforeStop'
    BY <1>6 DEF Withdraw, Ends, Drop
  <2> QED BY <2>1, <2>2, <2>3, <2>4, <2>5, <2>6, <2>7, <2>8
<1>7. ASSUME NEW c \in Callers, Collect(c) PROVE IInv'
  <2>1. TypeOK'
    <3>1. [kind |-> "answer", answer |-> results[request_id[c]].answer] \in Outcome
      BY <1>7 DEF Collect, Outcome
    <3>2. outcome' \in [Callers -> Outcome]
      BY <1>7, <3>1 DEF Collect, Ends
    <3>3. /\ DOMAIN results' \subseteq DOMAIN results
          /\ \A i \in DOMAIN results' : results'[i] = results[i]
      BY <1>7 DEF Collect, Ends, Drop
    <3> HIDE DEF Outcome
    <3> QED BY <1>7, <3>2, <3>3 DEF Collect, Ends, Outcome
  <2>2. IdsFresh'
    BY <1>7 DEF Collect, Ends, Drop
  <2>3. Unpublished'
    BY <1>7, EndsUnpublished DEF Collect, Active
  <2>4. Truthful'
    BY <1>7 DEF Collect, Ends, Drop
  <2>5. Registered'
    BY <1>7 DEF Collect, Ends, Drop
  <2>6. FiredMeansFiled'
    BY <1>7 DEF Collect, Ends, Drop
  <2>7. AnswerIsOwn'
    BY <1>7 DEF Collect, Ends, Drop
  <2>8. NoKeyErrorBeforeStop'
    BY <1>7 DEF Collect, Ends, Drop
  <2> QED BY <2>1, <2>2, <2>3, <2>4, <2>5, <2>6, <2>7, <2>8
<1>8. ASSUME NEW c \in Callers, CollectNothing(c) PROVE IInv'
  <2>1. TypeOK'
    <3>1. [kind |-> "KeyError", answer |-> 0] \in Outcome
      BY <1>8 DEF CollectNothing, Outcome
    <3>2. outcome' \in [Callers -> Outcome]
      BY <1>8, <3>1 DEF CollectNothing, Ends
    <3>3. /\ DOMAIN results' \subseteq DOMAIN results
          /\ \A i \in DOMAIN results' : results'[i] = results[i]
      BY <1>8 DEF CollectNothing, Ends, Drop
    <3> HIDE DEF Outcome
    <3> QED BY <1>8, <3>2, <3>3 DEF CollectNothing, Ends, Outcome
  <2>2. IdsFresh'
    BY <1>8 DEF CollectNothing, Ends, Drop
  <2>3. Unpublished'
    BY <1>8, EndsUnpublished DEF CollectNothing, Active
  <2>4. Truthful'
    BY <1>8 DEF CollectNothing, Ends, Drop
  <2>5. Registered'
    BY <1>8 DEF CollectNothing, Ends, Drop
  <2>6. FiredMeansFiled'
    BY <1>8 DEF CollectNothing, Ends, Drop
  <2>7. AnswerIsOwn'
    BY <1>8 DEF CollectNothing, Ends, Drop
  <2>8. NoKeyErrorBeforeStop'
    BY <1>8 DEF CollectNothing, Ends, Drop
  <2> QED BY <2>1, <2>2, <2>3, <2>4, <2>5, <2>6, <2>7, <2>8
<1>9. ASSUME NEW m \in responses, OnApiResponse(m) PROVE IInv'
  <2>1. TypeOK'
    BY <1>9 DEF OnApiResponse, Filed
  <2>2. IdsFresh'
    BY <1>9 DEF OnApiResponse, Filed
  <2>3. Unpublished'
    BY <1>9 DEF OnApiResponse, Filed
  <2>4. Truthful'
    BY <1>9 DEF OnApiResponse, Filed
  <2>5. Registered'
    <3>1. DOMAIN results' = DOMAIN results \cup Filed(m.id)
      BY <1>9 DEF OnApiResponse
    <3> QED BY <1>9, <3>1 DEF OnApiResponse, Filed
  <2>6. FiredMeansFiled'
    BY <1>9 DEF OnApiResponse, Filed
  <2>7. AnswerIsOwn'
    BY <1>9 DEF OnApiResponse, Filed
  <2>8. NoKeyErrorBeforeStop'
    BY <1>9 DEF OnApiResponse, Filed
  <2> QED BY <2>1, <2>2, <2>3, <2>4, <2>5, <2>6, <2>7, <2>8
<1>10. ASSUME StopAsked PROVE IInv'
  BY <1>10 DEF StopAsked
<1>11. ASSUME ReceiverExits PROVE IInv'
  BY <1>11 DEF ReceiverExits
<1>12. ASSUME StopWakes PROVE IInv'
  <2>1. TypeOK'
    BY <1>12 DEF StopWakes
  <2>2. IdsFresh'
    BY <1>12 DEF StopWakes
  <2>3. Unpublished'
    BY <1>12 DEF StopWakes
  <2>4. Truthful'
    BY <1>12 DEF StopWakes
  <2>5. Registered'
    BY <1>12 DEF StopWakes
  <2>6. FiredMeansFiled'
    BY <1>12 DEF StopWakes
  <2>7. AnswerIsOwn'
    BY <1>12 DEF StopWakes
  <2>8. NoKeyErrorBeforeStop'
    BY <1>12 DEF StopWakes
  <2> QED BY <2>1, <2>2, <2>3, <2>4, <2>5, <2>6, <2>7, <2>8
<1>13. ASSUME NEW id \in requests, TakeRequest(id) PROVE IInv'
  <2>1. TypeOK'
    BY <1>13 DEF TakeRequest
  <2>2. IdsFresh'
    BY <1>13 DEF TakeRequest
  <2>3. Unpublished'
    BY <1>13 DEF TakeRequest
  <2>4. Truthful'
    BY <1>13 DEF TakeRequest
  <2>5. Registered'
    BY <1>13 DEF TakeRequest
  <2>6. FiredMeansFiled'
    BY <1>13 DEF TakeRequest
  <2>7. AnswerIsOwn'
    BY <1>13 DEF TakeRequest
  <2>8. NoKeyErrorBeforeStop'
    BY <1>13 DEF TakeRequest
  <2> QED BY <2>1, <2>2, <2>3, <2>4, <2>5, <2>6, <2>7, <2>8
<1>14. ASSUME Execute PROVE IInv'
  <2>1. TypeOK'
    <3>1. current \in Ids
      BY <1>14 DEF Execute
    <3>2. executed' \in Seq(Ids) /\ Len(executed') = Len(executed) + 1
      BY <1>14, <3>1 DEF Execute
    <3>3. Len(executed') <= MaxExecuted
      BY <1>14, <3>2 DEF Execute
    <3> QED BY <1>14, <3>1, <3>2, <3>3 DEF Execute
  <2>2. IdsFresh'
    BY <1>14 DEF Execute
  <2>3. Unpublished'
    BY <1>14 DEF Execute
  <2>4. Truthful'
    BY <1>14 DEF Execute
  <2>5. Registered'
    BY <1>14 DEF Execute
  <2>6. FiredMeansFiled'
    BY <1>14 DEF Execute
  <2>7. AnswerIsOwn'
    BY <1>14 DEF Execute
  <2>8. NoKeyErrorBeforeStop'
    BY <1>14 DEF Execute
  <2> QED BY <2>1, <2>2, <2>3, <2>4, <2>5, <2>6, <2>7, <2>8
<1>15. ASSUME Respond PROVE IInv'
  <2>1. TypeOK'
    BY <1>15 DEF Respond
  <2>2. IdsFresh'
    BY <1>15 DEF Respond
  <2>3. Unpublished'
    BY <1>15 DEF Respond
  <2>4. Truthful'
    BY <1>15 DEF Respond
  <2>5. Registered'
    BY <1>15 DEF Respond
  <2>6. FiredMeansFiled'
    BY <1>15 DEF Respond
  <2>7. AnswerIsOwn'
    BY <1>15 DEF Respond
  <2>8. NoKeyErrorBeforeStop'
    BY <1>15 DEF Respond
  <2> QED BY <2>1, <2>2, <2>3, <2>4, <2>5, <2>6, <2>7, <2>8
<1>16. ASSUME RespondFails PROVE IInv'
  <2>1. TypeOK'
    BY <1>16 DEF RespondFails
  <2>2. IdsFresh'
    BY <1>16 DEF RespondFails
  <2>3. Unpublished'
    BY <1>16 DEF RespondFails
  <2>4. Truthful'
    BY <1>16 DEF RespondFails
  <2>5. Registered'
    BY <1>16 DEF RespondFails
  <2>6. FiredMeansFiled'
    BY <1>16 DEF RespondFails
  <2>7. AnswerIsOwn'
    BY <1>16 DEF RespondFails
  <2>8. NoKeyErrorBeforeStop'
    BY <1>16 DEF RespondFails
  <2> QED BY <2>1, <2>2, <2>3, <2>4, <2>5, <2>6, <2>7, <2>8
<1>17. ASSUME ServerEnds PROVE IInv'
  BY <1>17 DEF ServerEnds
<1>18. ASSUME Lose PROVE IInv'
  BY <1>18 DEF Lose
<1>19. ASSUME UNCHANGED vars PROVE IInv'
  BY <1>19 DEF vars
<1> QED
  BY <1>1, <1>2, <1>3, <1>4, <1>5, <1>6, <1>7, <1>8, <1>9, <1>10,
     <1>11, <1>12, <1>13, <1>14, <1>15, <1>16, <1>17, <1>18, <1>19
  DEF Next, CallStep, Receive, Stop, Serve

\* IInv holds in every reachable state.
THEOREM Invariance == Spec => []IInv
BY InitIInv, StepIInv, PTL DEF Spec

\* A call returns the outcome of an execution of its own request.
THEOREM Answers == Spec => []AnswerIsOwn
<1>1. IInv => AnswerIsOwn
  BY DEF IInv
<1> QED BY <1>1, Invariance, PTL

\* Late, repeated and foreign responses leave nothing behind in _results, and a
\* call under way stays registered.
THEOREM NothingLeaks == Spec => []NoLeak
<1>1. IInv => NoLeak
  BY DEF IInv, Registered, NoLeak
<1> QED BY <1>1, Invariance, PTL

\* Before stop(), _results.pop(request_id) never raises KeyError.
THEOREM NoKeyError == Spec => []NoKeyErrorBeforeStop
<1>1. IInv => NoKeyErrorBeforeStop
  BY DEF IInv
<1> QED BY <1>1, Invariance, PTL
-----------------------------------------------------------------------------
(* The calls implement ApiCalls *)

Calling == {c \in Callers : Active(c)}
Closed == stopping = "done"
Seen == <<Calling, request_id, issued, outcome, Sent, executed, Closed>>

LEMMA ApiInit == Init => Api!Init
BY DEF Init, Api!Init, Sent, Active, NoOutcome, NoId, Api!NoOutcome, Api!NoId

\* What is published shows in who waits and in what is registered.
LEMMA SentStays ==
  ASSUME UNCHANGED <<issued, pending, request_id>>,
         \A c \in Callers :
           pc'[c] \in {"waiting", "woken", "timedout"} <=> pc[c] \in {"waiting", "woken", "timedout"}
  PROVE  Sent' = Sent
BY DEF Sent

\* Of a call under way: its request is published as soon as it waits.
LEMMA SentOf ==
  ASSUME IInv, NEW c \in Callers, Active(c)
  PROVE  request_id[c] \in Sent <=> pc[c] # "registered"
<1>1. request_id[c] \in pending /\ request_id[c] \in 1 .. issued
  BY DEF IInv, TypeOK, Registered, IdsFresh, NoId
<1>2. pc[c] \in {"registered", "waiting", "woken", "timedout"}
  BY DEF IInv, TypeOK, Active
<1>3. \A d \in Callers : request_id[d] = request_id[c] => d = c
  BY <1>1 DEF IInv, IdsFresh, NoId
<1> QED
  BY <1>1, <1>2, <1>3 DEF Sent

\* What the server executes was published.
LEMMA CurrentSent ==
  ASSUME IInv, serving = "executing" PROVE current \in Sent
<1>1. current \in 1 .. issued
  BY DEF IInv, Truthful, IdsFresh, Ids, TypeOK
<1>2. CASE current \notin pending
  BY <1>1, <1>2 DEF Sent
<1>3. CASE current \in pending
  <2>1. PICK c \in Callers : Active(c) /\ request_id[c] = current
    BY <1>3 DEF IInv, Unpublished, Unheard
  <2>2. pc[c] # "registered"
    BY <2>1 DEF IInv, Unpublished, Unheard
  <2> QED
    BY <2>1, <2>2, SentOf
<1> QED
  BY <1>2, <1>3

\* A call that is made is not published yet, and nothing else changes that.
LEMMA ApiCall ==
  ASSUME IInv, NEW c \in Callers, Register(c) PROVE Api!Call(c)
<1>1. /\ pc[c] = "idle" /\ issued < MaxCalls /\ issued' = issued + 1
      /\ pc' = [pc EXCEPT ![c] = "registered"]
      /\ request_id' = [request_id EXCEPT ![c] = issued + 1]
      /\ pending' = pending \cup {issued + 1}
      /\ outcome' = [outcome EXCEPT ![c] = NoOutcome]
      /\ UNCHANGED <<executed, stopping>>
  BY DEF Register, FreshId, server
<1>2. /\ pc \in [Callers -> {"idle", "registered", "waiting", "woken", "timedout"}]
      /\ request_id \in [Callers -> 0 .. issued] /\ issued \in Nat
  BY DEF IInv, TypeOK
<1>3. Calling' = Calling \cup {c} /\ c \notin Calling
  BY <1>1, <1>2 DEF Calling, Active
<1>4. ASSUME NEW i \in 1 .. issued PROVE i \in Sent' <=> i \in Sent
  <2>1. i # issued + 1 /\ i \in 1 .. issued'
    BY <1>1, <1>2
  <2>2. \A d \in Callers : pc[d] \in {"waiting", "woken", "timedout"} => d # c
    BY <1>1
  <2>3. \A d \in Callers : pc'[d] \in {"waiting", "woken", "timedout"} => d # c
    BY <1>1, <1>2
  <2>4. \A d \in Callers : d # c => pc'[d] = pc[d] /\ request_id'[d] = request_id[d]
    BY <1>1, <1>2
  <2>5. i \in pending' <=> i \in pending
    BY <1>1, <2>1
  <2> QED
    BY <2>1, <2>2, <2>3, <2>4, <2>5 DEF Sent
<1>5. issued + 1 \notin Sent'
  <2>1. issued + 1 \in pending'
    BY <1>1
  <2>2. \A d \in Callers : pc'[d] \in {"waiting", "woken", "timedout"} => request_id'[d] # issued + 1
    BY <1>1, <1>2
  <2> QED
    BY <2>1, <2>2 DEF Sent
<1>6. Sent' = Sent
  <2>1. Sent \subseteq 1 .. issued /\ Sent' \subseteq 1 .. (issued + 1)
    BY <1>1 DEF Sent
  <2>2. \A i \in Sent' : i \in 1 .. issued
    BY <1>2, <1>5, <2>1
  <2> QED
    BY <1>4, <2>1, <2>2
<1> QED
  BY <1>1, <1>3, <1>6 DEF Api!Call, Api!NoOutcome, NoOutcome, Calling

LEMMA ApiSend ==
  ASSUME IInv, NEW c \in Callers, Publish(c) PROVE Api!Send(c)
<1>1. /\ pc[c] = "registered" /\ pc' = [pc EXCEPT ![c] = "waiting"]
      /\ UNCHANGED <<pending, stopping, request_id, issued, outcome, executed>>
  BY DEF Publish, client, server
<1>2. pc \in [Callers -> {"idle", "registered", "waiting", "woken", "timedout"}]
  BY DEF IInv, TypeOK
<1>3. Active(c) /\ request_id[c] \notin Sent
  BY <1>1, SentOf DEF Active
<1>4. Calling' = Calling /\ c \in Calling
  BY <1>1, <1>2 DEF Calling, Active
<1>5. request_id[c] \in 1 .. issued
  BY <1>3 DEF IInv, TypeOK, IdsFresh, NoId
<1>6. Sent' = Sent \cup {request_id[c]}
  <2>1. \A d \in Callers : pc'[d] = IF d = c THEN "waiting" ELSE pc[d]
    BY <1>1, <1>2
  <2> QED
    BY <1>1, <1>5, <2>1 DEF Sent
<1> QED
  BY <1>1, <1>3, <1>4, <1>6 DEF Api!Send, Calling

\* A call that returns leaves what was published as it was.
LEMMA ApiReturn ==
  ASSUME IInv, NEW c \in Callers, NEW how, Ends(c, how), pc[c] \in {"woken", "timedout"}
  PROVE  Api!Return(c, how) /\ request_id[c] \in Sent
<1>1. /\ pc' = [pc EXCEPT ![c] = "idle"]
      /\ pending' = pending \ {request_id[c]}
      /\ outcome' = [outcome EXCEPT ![c] = how]
      /\ UNCHANGED <<stopping, request_id, issued, executed>>
  BY DEF Ends, server
<1>2. pc \in [Callers -> {"idle", "registered", "waiting", "woken", "timedout"}]
  BY DEF IInv, TypeOK
<1>3. Calling' = Calling \ {c} /\ c \in Calling
  BY <1>1, <1>2 DEF Calling, Active
<1>4. request_id[c] \in Sent
  BY SentOf DEF Active
<1>5. Sent' = Sent
  <2>1. \A d \in Callers : pc'[d] = IF d = c THEN "idle" ELSE pc[d]
    BY <1>1, <1>2
  <2>2. \A i : i # request_id[c] => (i \in Sent' <=> i \in Sent)
    BY <1>1, <2>1 DEF Sent
  <2>3. request_id[c] \in Sent'
    BY <1>1, <1>4 DEF Sent
  <2> QED
    BY <1>4, <2>2, <2>3
<1> QED
  BY <1>1, <1>3, <1>4, <1>5 DEF Api!Return, Api!channel, Calling

\* The arguments could not be serialised: the id stays registered, so the request
\* stays unpublished.
LEMMA ApiRefuse ==
  ASSUME IInv, NEW c \in Callers, PublishRaises(c) PROVE Api!Refuse(c)
<1>1. /\ pc[c] = "registered" /\ pc' = [pc EXCEPT ![c] = "idle"]
      /\ outcome' = [outcome EXCEPT ![c] = [kind |-> "TypeError", answer |-> 0]]
      /\ UNCHANGED <<pending, stopping, request_id, issued, executed>>
  BY DEF PublishRaises, client, server
<1>2. pc \in [Callers -> {"idle", "registered", "waiting", "woken", "timedout"}]
  BY DEF IInv, TypeOK
<1>3. Calling' = Calling \ {c} /\ c \in Calling
  BY <1>1, <1>2 DEF Calling, Active
<1>4. request_id[c] \notin Sent
  BY <1>1, SentOf DEF Active
<1>5. Sent' = Sent
  BY <1>1, <1>2, SentStays
<1> QED
  BY <1>1, <1>3, <1>4, <1>5 DEF Api!Refuse, Api!Return, Api!channel, Calling

\* A woken caller without a result was woken by stop().
LEMMA ApiAbandon ==
  ASSUME IInv, NEW c \in Callers, CollectNothing(c) PROVE Api!Abandon(c)
<1>1. /\ pc[c] = "woken" /\ request_id[c] \notin DOMAIN results
      /\ Ends(c, [kind |-> "KeyError", answer |-> 0])
  BY DEF CollectNothing
<1>2. Closed
  BY <1>1 DEF Closed, IInv, FiredMeansFiled, Registered, Active
<1> QED
  BY <1>1, <1>2, ApiReturn DEF Api!Abandon, Closed

LEMMA ApiAnswer ==
  ASSUME IInv, NEW c \in Callers, Collect(c) PROVE Api!Answer(c)
<1> DEFINE k == results[request_id[c]].answer
<1>1. k \in 1 .. Len(executed) /\ executed[k] = request_id[c]
  BY DEF Collect, IInv, Truthful, Tells
<1>2. Api!Return(c, [kind |-> "answer", answer |-> k])
  BY ApiReturn DEF Collect
<1> QED
  BY <1>1, <1>2 DEF Api!Answer

\* Every step of a call, of the server or of stop() is one of ApiCalls or invisible.
LEMMA ApiNext == IInv /\ [Next]_vars => [Api!Next]_Seen
<1> SUFFICES ASSUME IInv, [Next]_vars PROVE [Api!Next]_Seen
  OBVIOUS
<1>1. ASSUME NEW c \in Callers, Register(c) PROVE Api!Next
  BY <1>1, ApiCall DEF Api!Next
<1>2. ASSUME NEW c \in Callers, Publish(c) PROVE Api!Next
  BY <1>2, ApiSend DEF Api!Next
<1>3. ASSUME NEW c \in Callers, PublishRaises(c) PROVE Api!Next
  BY <1>3, ApiRefuse DEF Api!Next
<1>4. ASSUME NEW c \in Callers, Withdraw(c) PROVE Api!Next
  <2>1. Api!GiveUp(c)
    BY <1>4, ApiReturn DEF Withdraw, Api!GiveUp
  <2> QED
    BY <2>1 DEF Api!Next
<1>5. ASSUME NEW c \in Callers, Collect(c) PROVE Api!Next
  BY <1>5, ApiAnswer DEF Api!Next
<1>6. ASSUME NEW c \in Callers, CollectNothing(c) PROVE Api!Next
  BY <1>6, ApiAbandon DEF Api!Next
<1>7. ASSUME NEW c \in Callers, WaitWoken(c) \/ WaitTimeout(c) PROVE UNCHANGED Seen
  <2>1. /\ pc[c] = "waiting"
        /\ pc' = [pc EXCEPT ![c] = "woken"] \/ pc' = [pc EXCEPT ![c] = "timedout"]
        /\ UNCHANGED <<pending, stopping, request_id, issued, outcome, executed>>
    BY <1>7 DEF WaitWoken, WaitTimeout, client, server
  <2>2. pc \in [Callers -> {"idle", "registered", "waiting", "woken", "timedout"}]
    BY DEF IInv, TypeOK
  <2>3. Sent' = Sent
    BY <2>1, <2>2, SentStays
  <2>4. Calling' = Calling
    BY <2>1, <2>2 DEF Calling, Active
  <2> QED
    BY <2>1, <2>3, <2>4 DEF Seen, Closed
<1>8. ASSUME Execute PROVE Api!Next
  <2>1. /\ serving = "executing" /\ executed' = Append(executed, current)
        /\ UNCHANGED <<pc, pending, stopping, request_id, issued, outcome>>
    BY <1>8 DEF Execute, client, callers
  <2>2. current \in Sent /\ Len(executed) < MaxExecuted
    BY <2>1, CurrentSent DEF IInv, Truthful
  <2>3. Sent' = Sent /\ Calling' = Calling
    BY <2>1, SentStays DEF Calling, Active
  <2>4. Api!Execute
    BY <2>1, <2>2, <2>3 DEF Api!Execute, Calling
  <2> QED
    BY <2>4 DEF Api!Next
<1>9. ASSUME StopWakes PROVE Api!Next
  <2>1. /\ stopping = "asked" /\ stopping' = "done"
        /\ UNCHANGED <<pc, pending, request_id, issued, outcome, executed>>
    BY <1>9 DEF StopWakes, callers, server
  <2>2. Sent' = Sent /\ Calling' = Calling
    BY <2>1, SentStays DEF Calling, Active
  <2>3. Api!Close
    BY <2>1, <2>2 DEF Api!Close, Calling
  <2> QED
    BY <2>3 DEF Api!Next
<1>10. CASE \/ Receive \/ StopAsked \/ ReceiverExits
            \/ \E id \in requests : TakeRequest(id)
            \/ Respond \/ RespondFails \/ ServerEnds \/ Lose \/ UNCHANGED vars
  <2>1. UNCHANGED <<pc, pending, request_id, issued, outcome, executed, Closed>>
    BY <1>10 DEF Receive, OnApiResponse, StopAsked, ReceiverExits, TakeRequest, Respond,
       RespondFails, ServerEnds, Lose, vars, client, callers, server, Closed
  <2>2. Sent' = Sent /\ Calling' = Calling
    BY <2>1, SentStays DEF Calling, Active
  <2> QED
    BY <2>1, <2>2 DEF Seen
<1> QED
  BY <1>1, <1>2, <1>3, <1>4, <1>5, <1>6, <1>7, <1>8, <1>9, <1>10
     DEF Next, CallStep, Stop, Serve

\* Calls over LCM and ROS 2 topics implement ApiCalls, for any number of callers, calls,
\* executions and network faults.
THEOREM ImplementsApi == Spec => ApiSpec
<1>1. IInv /\ [Next]_vars => [Api!Next]_Seen
  BY ApiNext
<1> QED
  BY ApiInit, <1>1, Invariance, PTL
     DEF Spec, ApiSpec, Api!Spec, Api!vars, Seen, Calling, Closed
=============================================================================
