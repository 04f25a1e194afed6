----------------------------- MODULE ZmqRpcProofs -----------------------------
(***************************************************************************)
(* ExactlyInOrder and AnswerLags for any number of clients, threads and    *)
(* calls.  The inductive invariant IInv follows a request of client c      *)
(* through positions of sent[c]: what was executed is a beginning of it,   *)
(* what waits at the ROUTER its end, and the request being executed lies   *)
(* between them (Requested); what was returned and what waits at the       *)
(* client are a beginning of executed[c] (Answered).  _lock lets a single  *)
(* thread of a client be between send and receive (Locked), so the         *)
(* requests without an answer taken are the interrupted ones and perhaps   *)
(* one more, and that one is the last (Counted).                           *)
(***************************************************************************)
EXTENDS ZmqRpc, TLAPS

TypeOK ==
  /\ pc \in [Threads -> {"idle", "locked", "receiving"}]
  /\ calls \in [Threads -> 0 .. MaxCalls]
  /\ lock \in [Clients -> SUBSET Threads]
  /\ requests \in [Clients -> Seq(Calls)] /\ responses \in [Clients -> Seq(Calls)]
  /\ server \in {"testing", "polling", "executing", "replying", "ended"}
  /\ server \in {"executing", "replying"} => serving \in Clients \X Calls
  /\ sent \in [Clients -> Seq(Calls)] /\ executed \in [Clients -> Seq(Calls)]
  /\ returned \in [Clients -> Seq(Calls)] /\ abandoned \in [Clients -> Nat]
  /\ outcome \in [Threads -> (Calls \X Nat) \cup {NoCall}]

\* The request thread is at work on a request of c.
At(c, place) == server = place /\ serving[1] = c
One(b) == IF b THEN 1 ELSE 0

Locked ==
  \A t \in Threads :
    pc[t] # "idle" => lock[Owner[t]] = {t} /\ calls[t] > 0

Requested ==
  \A c \in Clients :
    LET taken == Len(executed[c]) + One(At(c, "executing")) IN
    /\ \A i \in 1 .. Len(executed[c]) : executed[c][i] = sent[c][i]
    /\ At(c, "executing") => serving[2] = sent[c][taken]
    /\ Len(executed[c]) <= Len(sent[c])
    /\ server # "ended" =>
         /\ Len(sent[c]) = taken + Len(requests[c])
         /\ \A i \in 1 .. Len(requests[c]) : requests[c][i] = sent[c][taken + i]

Answered ==
  \A c \in Clients :
    LET answered == Len(returned[c]) + Len(responses[c]) IN
    /\ answered <= Len(executed[c])
    /\ \A i \in 1 .. Len(returned[c]) : returned[c][i] = executed[c][i]
    /\ \A i \in 1 .. Len(responses[c]) :
         responses[c][i] = executed[c][Len(returned[c]) + i]
    /\ server # "ended" => Len(executed[c]) = answered + One(At(c, "replying"))
    /\ At(c, "replying") => serving[2] = executed[c][answered + 1]

Waits(c) == \E t \in Threads : Owner[t] = c /\ pc[t] = "receiving"
Counted ==
  /\ \A c \in Clients :
       Len(sent[c]) = Len(returned[c]) + abandoned[c] + One(Waits(c))
  /\ \A t \in Threads :
       pc[t] = "receiving" => sent[Owner[t]][Len(sent[Owner[t]])] = Call(t)

\* A thread whose call is under way has no answer yet.
Silent == \A t \in Threads : pc[t] # "idle" => outcome[t] = NoCall

IInv ==
  TypeOK /\ Locked /\ Requested /\ Answered /\ Counted /\ Silent /\ AnswerLags

\* What a queue per client looks like after one of them got a message ...
LEMMA AppendAt ==
  ASSUME NEW I, NEW S, NEW f \in [I -> Seq(S)], NEW i \in I, NEW x \in S,
         NEW g, g = [f EXCEPT ![i] = Append(@, x)]
  PROVE  /\ g \in [I -> Seq(S)]
         /\ Len(g[i]) = Len(f[i]) + 1 /\ g[i][Len(g[i])] = x
         /\ \A k \in 1 .. Len(f[i]) : g[i][k] = f[i][k]
         /\ \A j \in I \ {i} : g[j] = f[j]
<1>1. g[i] = Append(f[i], x) /\ f[i] \in Seq(S)
  OBVIOUS
<1>2. Append(f[i], x) \in Seq(S) /\ Len(Append(f[i], x)) = Len(f[i]) + 1
  BY <1>1
<1> QED BY <1>1, <1>2

\* ... and after one of them lost its first message.
LEMMA TailAt ==
  ASSUME NEW I, NEW S, NEW f \in [I -> Seq(S)], NEW i \in I, f[i] # << >>,
         NEW g, g = [f EXCEPT ![i] = Tail(@)]
  PROVE  /\ g \in [I -> Seq(S)]
         /\ Len(f[i]) > 0 /\ Head(f[i]) = f[i][1] /\ Head(f[i]) \in S
         /\ Len(g[i]) = Len(f[i]) - 1
         /\ \A k \in 1 .. Len(g[i]) : g[i][k] = f[i][k + 1]
         /\ \A j \in I \ {i} : g[j] = f[j]
<1>1. g[i] = Tail(f[i]) /\ f[i] \in Seq(S)
  OBVIOUS
<1>2. Tail(f[i]) \in Seq(S) /\ Len(Tail(f[i])) = Len(f[i]) - 1 /\ Len(f[i]) > 0
  BY <1>1
<1> QED BY <1>1, <1>2

\* A sequence keeps what it holds when it grows.
LEMMA Earlier ==
  ASSUME NEW S, NEW s \in Seq(S), NEW r \in Seq(S), Len(s) <= Len(r),
         \A k \in 1 .. Len(s) : r[k] = s[k],
         NEW d \in Nat, NEW n \in 1 .. Len(s), d < n
  PROVE  n \in 1 .. Len(r) /\ r[n] = s[n] /\ r[n - d] = s[n - d]
<1>1. Len(s) \in Nat /\ Len(r) \in Nat
  OBVIOUS
<1>2. n \in 1 .. Len(r) /\ n - d \in 1 .. Len(s)
  BY <1>1
<1> QED BY <1>2

LEMMA InitIInv == Init => IInv
BY ZmqAssumption DEF Init, IInv, TypeOK, Locked, Requested, Answered, Counted, AnswerLags, Silent,
   Waits, At, One, NoCall

LEMMA NextIInv == IInv /\ [Next]_vars => IInv'
<1>0. SUFFICES ASSUME IInv, [Next]_vars PROVE IInv'
  OBVIOUS
<1> USE ZmqAssumption DEF IInv, TypeOK, client, wire, request_thread, history
<1>t. /\ sent \in [Clients -> Seq(Calls)] /\ executed \in [Clients -> Seq(Calls)]
      /\ returned \in [Clients -> Seq(Calls)] /\ requests \in [Clients -> Seq(Calls)]
      /\ responses \in [Clients -> Seq(Calls)]
  BY <1>0
<1>r. Requested
  BY <1>0
<1>a. Answered
  BY <1>0
<1>c. Counted
  BY <1>0
<1>1. ASSUME NEW t \in Threads, Acquire(t) PROVE IInv'
  <2>1. TypeOK'
    BY <1>0, <1>1 DEF Acquire
  <2>2. Locked'
    <3>1. \A u \in Threads : u # t /\ pc'[u] # "idle" => Owner[u] # Owner[t]
      BY <1>0, <1>1 DEF Acquire, Free, Locked
    <3>2. lock'[Owner[t]] = {t} /\ calls'[t] > 0
      BY <1>0, <1>1 DEF Acquire
    <3> QED BY <1>0, <1>1, <3>1, <3>2 DEF Acquire, Locked
  <2>3. Requested'
    BY <1>0, <1>1 DEF Acquire, Requested, At, One
  <2>4. Answered'
    BY <1>0, <1>1 DEF Acquire, Answered, Requested, At, One
  <2>5. Counted'
    BY <1>0, <1>1 DEF Acquire, Counted, Waits, Locked, One, Call
  <2>6. Silent'
    BY <1>0, <1>1 DEF Acquire, Silent
  <2>7. AnswerLags'
    BY <1>0, <1>1 DEF Acquire, AnswerLags, Call
  <2> QED
    BY <2>1, <2>2, <2>3, <2>4, <2>5, <2>6, <2>7
<1>2. ASSUME NEW t \in Threads, SendRequest(t) PROVE IInv'
  <2> DEFINE o == Owner[t]
  <2>c. o \in Clients /\ Call(t) \in Calls
    <3>1. calls[t] \in 0 .. MaxCalls /\ calls[t] > 0
      BY <1>0, <1>2 DEF SendRequest, Locked
    <3>2. calls[t] \in 1 .. MaxCalls
      BY <3>1
    <3> QED BY <3>2 DEF Call, Calls
  <2>a. /\ requests' \in [Clients -> Seq(Calls)]
        /\ Len(requests'[o]) = Len(requests[o]) + 1
        /\ requests'[o][Len(requests'[o])] = Call(t)
        /\ \A k \in 1 .. Len(requests[o]) : requests'[o][k] = requests[o][k]
        /\ \A c \in Clients \ {o} : requests'[c] = requests[c]
    BY <1>0, <1>2, <2>c, AppendAt DEF SendRequest
  <2>b. /\ sent' \in [Clients -> Seq(Calls)]
        /\ Len(sent'[o]) = Len(sent[o]) + 1 /\ sent'[o][Len(sent'[o])] = Call(t)
        /\ \A k \in 1 .. Len(sent[o]) : sent'[o][k] = sent[o][k]
        /\ \A c \in Clients \ {o} : sent'[c] = sent[c]
    BY <1>0, <1>2, <2>c, AppendAt DEF SendRequest
  <2>1. TypeOK'
    BY <1>0, <1>2, <2>a, <2>b DEF SendRequest
  <2>2. Locked'
    BY <1>0, <1>2 DEF SendRequest, Locked
  <2>3. Requested'
    <3>1. UNCHANGED <<server, serving, executed>>
      BY <1>0, <1>2 DEF SendRequest
    <3>2. ASSUME NEW c \in Clients, c # o
          PROVE  sent'[c] = sent[c] /\ requests'[c] = requests[c]
      BY <2>a, <2>b, <3>2
    <3>3. Len(sent[o]) \in Nat /\ Len(requests[o]) \in Nat /\ Len(executed[o]) \in Nat
      BY <2>c
    <3>4. /\ \A i \in 1 .. Len(executed[o]) : executed[o][i] = sent'[o][i]
          /\ Len(executed[o]) <= Len(sent'[o])
      BY <1>t, <1>r, <2>b, <2>c, <3>3 DEF Requested
    <3>5. ASSUME At(o, "executing") PROVE serving[2] = sent'[o][Len(executed[o]) + 1]
      <4>1. server # "ended" /\ One(At(o, "executing")) = 1
        BY <3>5 DEF At, One
      <4>2. /\ serving[2] = sent[o][Len(executed[o]) + 1]
            /\ Len(sent[o]) = (Len(executed[o]) + 1) + Len(requests[o])
        BY <1>t, <1>r, <2>c, <3>5, <4>1 DEF Requested
      <4>3. Len(executed[o]) + 1 \in 1 .. Len(sent[o])
        BY <1>t, <3>3, <4>2
      <4> QED BY <2>b, <4>2, <4>3
    <3>6. ASSUME server # "ended"
          PROVE  LET taken == Len(executed[o]) + One(At(o, "executing"))
                 IN  /\ Len(sent'[o]) = taken + Len(requests'[o])
                     /\ \A i \in 1 .. Len(requests'[o]) : requests'[o][i] = sent'[o][taken + i]
      <4> DEFINE taken == Len(executed[o]) + One(At(o, "executing"))
      <4>1. taken \in Nat
        <5>1. One(At(o, "executing")) \in {0, 1}
          BY DEF One
        <5> QED BY <3>3, <5>1
      <4>2. /\ Len(sent[o]) = taken + Len(requests[o])
            /\ \A i \in 1 .. Len(requests[o]) : requests[o][i] = sent[o][taken + i]
        BY <1>t, <1>r, <2>c, <3>6 DEF Requested
      <4> HIDE DEF taken
      <4>3. ASSUME NEW i \in 1 .. Len(requests'[o])
            PROVE  requests'[o][i] = sent'[o][taken + i]
        <5>1. CASE i = Len(requests'[o])
          BY <2>a, <2>b, <3>3, <4>1, <4>2, <5>1
        <5>2. CASE i # Len(requests'[o])
          <6>1. i \in 1 .. Len(requests[o]) /\ taken + i \in 1 .. Len(sent[o])
            BY <2>a, <3>3, <4>1, <4>2, <5>2
          <6> QED BY <2>a, <2>b, <4>2, <6>1
        <5> QED BY <5>1, <5>2
      <4>4. Len(sent'[o]) = taken + Len(requests'[o])
        BY <2>a, <2>b, <3>3, <4>1, <4>2
      <4> QED BY <4>3, <4>4 DEF taken
    <3>7. ASSUME NEW c \in Clients
          PROVE  LET taken == Len(executed[c]) + One(At(c, "executing"))
                 IN  /\ \A i \in 1 .. Len(executed[c]) : executed[c][i] = sent'[c][i]
                     /\ At(c, "executing") => serving[2] = sent'[c][taken]
                     /\ Len(executed[c]) <= Len(sent'[c])
                     /\ server # "ended" =>
                          /\ Len(sent'[c]) = taken + Len(requests'[c])
                          /\ \A i \in 1 .. Len(requests'[c]) :
                               requests'[c][i] = sent'[c][taken + i]
      <4>1. CASE c = o
        <5>1. At(o, "executing") => One(At(o, "executing")) = 1
          BY DEF One
        <5> QED BY <3>4, <3>5, <3>6, <4>1, <5>1
      <4>2. CASE c # o
        <5>1. sent'[c] = sent[c] /\ requests'[c] = requests[c]
          BY <3>2, <4>2
        <5> QED BY <1>t, <1>r, <5>1 DEF Requested
      <4> QED BY <4>1, <4>2
    <3> QED BY <3>1, <3>7 DEF Requested, At
  <2>4. Answered'
    BY <1>0, <1>2 DEF SendRequest, Answered, Requested, At, One
  <2>5. Counted'
    <3>1. /\ \A u \in Threads \ {t} : pc'[u] = pc[u]
          /\ \A u \in Threads \ {t} : pc[u] # "idle" => Owner[u] # o
          /\ pc'[t] = "receiving" /\ pc[t] = "locked"
      BY <1>0, <1>2 DEF SendRequest, Locked
    <3>2. Waits(o)' /\ ~Waits(o) /\ \A c \in Clients \ {o} : Waits(c)' = Waits(c)
      BY <3>1 DEF Waits
    <3>3. /\ \A c \in Clients : Len(sent[c]) \in Nat /\ Len(returned[c]) \in Nat
          /\ \A c \in Clients : abandoned[c] \in Nat
          /\ UNCHANGED <<returned, abandoned, calls>>
      <4>1. abandoned \in [Clients -> Nat]
        BY <1>0
      <4>2. UNCHANGED <<returned, abandoned, calls>>
        BY <1>2 DEF SendRequest
      <4> QED BY <1>t, <4>1, <4>2
    <3>4. ASSUME NEW c \in Clients
          PROVE  Len(sent'[c]) = Len(returned'[c]) + abandoned'[c] + One(Waits(c)')
      <4>1. CASE c = o
        BY <1>t, <1>c, <2>b, <3>2, <3>3, <4>1 DEF Counted, One
      <4>2. CASE c # o
        BY <1>t, <1>c, <2>b, <3>2, <3>3, <4>2 DEF Counted, One
      <4> QED BY <4>1, <4>2
    <3>5. ASSUME NEW u \in Threads, pc'[u] = "receiving"
          PROVE  sent'[Owner[u]][Len(sent'[Owner[u]])] = Call(u)'
      <4>1. CASE u = t
        BY <2>b, <3>3, <4>1 DEF Call
      <4>2. CASE u # t
        <5>1. pc[u] = "receiving" /\ Owner[u] \in Clients \ {o}
          BY <3>1, <3>5, <4>2
        <5> QED BY <1>t, <1>c, <2>b, <3>3, <5>1 DEF Counted, Call
      <4> QED BY <4>1, <4>2
    <3> QED BY <3>4, <3>5 DEF Counted
  <2>6. Silent'
    BY <1>0, <1>2 DEF SendRequest, Silent
  <2>7. AnswerLags'
    <3> SUFFICES ASSUME NEW u \in Threads, outcome[u] # NoCall
                 PROVE  \E n \in 1 .. Len(sent'[Owner[u]]) :
                          /\ sent'[Owner[u]][n] = Call(u) /\ outcome[u][2] < n
                          /\ outcome[u][1] = sent'[Owner[u]][n - outcome[u][2]]
      BY <1>0, <1>2 DEF SendRequest, AnswerLags, Call
    <3>1. PICK n \in 1 .. Len(sent[Owner[u]]) :
                 /\ sent[Owner[u]][n] = Call(u) /\ outcome[u][2] < n
                 /\ outcome[u][1] = sent[Owner[u]][n - outcome[u][2]]
      BY <1>0 DEF AnswerLags
    <3>2. /\ outcome[u][2] \in Nat /\ Owner[u] \in Clients
          /\ sent[Owner[u]] \in Seq(Calls) /\ sent'[Owner[u]] \in Seq(Calls)
      BY <1>0, <2>b
    <3>3. /\ Len(sent[Owner[u]]) <= Len(sent'[Owner[u]])
          /\ \A k \in 1 .. Len(sent[Owner[u]]) : sent'[Owner[u]][k] = sent[Owner[u]][k]
      <4>1. CASE Owner[u] = o
        BY <2>b, <2>c, <4>1
      <4>2. CASE Owner[u] # o
        BY <2>b, <3>2, <4>2
      <4> QED BY <4>1, <4>2
    <3>4. /\ n \in 1 .. Len(sent'[Owner[u]]) /\ sent'[Owner[u]][n] = sent[Owner[u]][n]
          /\ sent'[Owner[u]][n - outcome[u][2]] = sent[Owner[u]][n - outcome[u][2]]
      <4> DEFINE s == sent[Owner[u]]  r == sent'[Owner[u]]  d == outcome[u][2]
      <4>1. /\ s \in Seq(Calls) /\ r \in Seq(Calls) /\ Len(s) <= Len(r)
            /\ \A k \in 1 .. Len(s) : r[k] = s[k]
            /\ d \in Nat /\ n \in 1 .. Len(s) /\ d < n
        BY <3>1, <3>2, <3>3
      <4> HIDE DEF s, r, d
      <4>2. n \in 1 .. Len(r) /\ r[n] = s[n] /\ r[n - d] = s[n - d]
        BY <4>1, Earlier
      <4> QED BY <4>2 DEF s, r, d
    <3> QED BY <3>1, <3>4
  <2> QED
    BY <2>1, <2>2, <2>3, <2>4, <2>5, <2>6, <2>7
<1>3. ASSUME NEW t \in Threads, PackRaises(t) PROVE IInv'
  <2>1. TypeOK'
    BY <1>0, <1>3 DEF PackRaises, Release, NoCall
  <2>2. Locked'
    BY <1>0, <1>3 DEF PackRaises, Release, Locked
  <2>3. Requested'
    BY <1>0, <1>3 DEF PackRaises, Release, Requested, At, One
  <2>4. Answered'
    BY <1>0, <1>3 DEF PackRaises, Release, Answered, Requested, At, One
  <2>5. Counted'
    BY <1>0, <1>3 DEF PackRaises, Release, Counted, Waits, Locked, One, Call
  <2>6. Silent'
    BY <1>0, <1>3 DEF PackRaises, Release, Silent
  <2>7. AnswerLags'
    BY <1>0, <1>3 DEF PackRaises, Release, AnswerLags, Call
  <2> QED
    BY <2>1, <2>2, <2>3, <2>4, <2>5, <2>6, <2>7
<1>4. ASSUME NEW t \in Threads, Receive(t) PROVE IInv'
  <2> DEFINE o == Owner[t]
  <2>c. /\ o \in Clients /\ pc[t] = "receiving" /\ pc'[t] = "idle"
        /\ Len(sent[o]) \in Nat /\ Len(executed[o]) \in Nat
        /\ Len(responses[o]) \in Nat /\ Len(returned[o]) \in Nat /\ abandoned[o] \in Nat
        /\ UNCHANGED <<calls, server, serving, sent, executed, abandoned>>
    BY <1>0, <1>4 DEF Receive
  <2>a. /\ responses' \in [Clients -> Seq(Calls)]
        /\ Len(responses[o]) > 0 /\ Head(responses[o]) = responses[o][1]
        /\ Head(responses[o]) \in Calls
        /\ Len(responses'[o]) = Len(responses[o]) - 1
        /\ \A k \in 1 .. Len(responses'[o]) : responses'[o][k] = responses[o][k + 1]
        /\ \A c \in Clients \ {o} : responses'[c] = responses[c]
        /\ Len(responses'[o]) \in Nat
    BY <1>0, <1>4, <2>c, TailAt DEF Receive
  <2>b. /\ returned' \in [Clients -> Seq(Calls)]
        /\ Len(returned'[o]) = Len(returned[o]) + 1
        /\ returned'[o][Len(returned'[o])] = Head(responses[o])
        /\ \A k \in 1 .. Len(returned[o]) : returned'[o][k] = returned[o][k]
        /\ \A c \in Clients \ {o} : returned'[c] = returned[c]
        /\ Len(returned'[o]) \in Nat
    BY <1>0, <1>4, <2>a, <2>c, AppendAt DEF Receive
  <2>d. /\ Len(returned[o]) + Len(responses[o]) <= Len(executed[o])
        /\ Head(responses[o]) = executed[o][Len(returned[o]) + 1]
    BY <1>t, <1>a, <2>a, <2>c DEF Answered
  <2>1. TypeOK'
    <3>1. outcome' \in [Threads -> (Calls \X Nat) \cup {NoCall}]
      BY <1>0, <1>4, <2>a, <2>c DEF Receive
    <3>2. /\ pc' \in [Threads -> {"idle", "locked", "receiving"}]
          /\ lock' \in [Clients -> SUBSET Threads]
      BY <1>0, <1>4 DEF Receive, Release
    <3> QED BY <1>0, <1>4, <2>a, <2>b, <3>1, <3>2 DEF Receive
  <2>2. Locked'
    BY <1>0, <1>4 DEF Receive, Release, Locked
  <2>3. Requested'
    BY <1>0, <1>4 DEF Receive, Release, Requested, At, One
  <2>4. Answered'
    <3>1. Len(returned'[o]) + Len(responses'[o]) = Len(returned[o]) + Len(responses[o])
      BY <1>t, <2>a, <2>b, <2>c
    <3>2. ASSUME NEW i \in 1 .. Len(returned'[o]) PROVE returned'[o][i] = executed[o][i]
      <4>1. CASE i = Len(returned'[o])
        BY <2>b, <2>d, <4>1
      <4>2. CASE i # Len(returned'[o])
        <5>1. i \in 1 .. Len(returned[o])
          BY <2>b, <2>c, <4>2
        <5> QED BY <1>t, <1>a, <2>b, <2>c, <5>1 DEF Answered
      <4> QED BY <4>1, <4>2
    <3>3. ASSUME NEW i \in 1 .. Len(responses'[o])
          PROVE  responses'[o][i] = executed[o][Len(returned'[o]) + i]
      <4>1. i + 1 \in 1 .. Len(responses[o]) /\ responses'[o][i] = responses[o][i + 1]
        BY <2>a, <2>c
      <4>2. responses[o][i + 1] = executed[o][Len(returned[o]) + (i + 1)]
        BY <1>t, <1>a, <2>c, <4>1 DEF Answered
      <4>3. Len(returned[o]) + (i + 1) = Len(returned'[o]) + i
        BY <1>t, <2>a, <2>b, <2>c
      <4> QED BY <4>1, <4>2, <4>3
    <3>4. ASSUME NEW c \in Clients
          PROVE  LET answered == Len(returned'[c]) + Len(responses'[c])
                 IN  /\ answered <= Len(executed[c])
                     /\ \A i \in 1 .. Len(returned'[c]) : returned'[c][i] = executed[c][i]
                     /\ \A i \in 1 .. Len(responses'[c]) :
                          responses'[c][i] = executed[c][Len(returned'[c]) + i]
                     /\ server # "ended" =>
                          Len(executed[c]) = answered + One(At(c, "replying"))
                     /\ At(c, "replying") => serving[2] = executed[c][answered + 1]
      <4>1. CASE c = o
        BY <1>t, <1>a, <2>c, <3>1, <3>2, <3>3, <4>1 DEF Answered
      <4>2. CASE c # o
        <5>1. returned'[c] = returned[c] /\ responses'[c] = responses[c]
          BY <2>a, <2>b, <4>2
        <5> QED BY <1>t, <1>a, <5>1 DEF Answered
      <4> QED BY <4>1, <4>2
    <3> QED BY <1>0, <2>c, <3>4 DEF Answered, At
  <2>5. Counted'
    <3>1. \A u \in Threads \ {t} : pc'[u] = pc[u] /\ (pc[u] # "idle" => Owner[u] # o)
      BY <1>0, <1>4 DEF Receive, Locked
    <3>2. ~Waits(o)' /\ Waits(o) /\ \A c \in Clients \ {o} : Waits(c)' = Waits(c)
      BY <2>c, <3>1 DEF Waits
    <3>3. ASSUME NEW c \in Clients
          PROVE  Len(sent[c]) = Len(returned'[c]) + abandoned[c] + One(Waits(c)')
      <4>1. CASE c = o
        BY <1>t, <1>c, <2>b, <2>c, <3>2, <4>1 DEF Counted, One
      <4>2. CASE c # o
        BY <1>t, <1>c, <2>b, <3>2, <4>2 DEF Counted, One
      <4> QED BY <4>1, <4>2
    <3>4. ASSUME NEW u \in Threads, pc'[u] = "receiving"
          PROVE  sent[Owner[u]][Len(sent[Owner[u]])] = Call(u)
      BY <1>t, <1>c, <2>c, <3>1, <3>4 DEF Counted
    <3> QED BY <1>0, <2>c, <3>3, <3>4 DEF Counted, Call
  <2>6. Silent'
    BY <1>0, <1>4 DEF Receive, Release, Silent
  <2>7. AnswerLags'
    <3>1. ASSUME NEW u \in Threads, outcome'[u] # NoCall
          PROVE  \E n \in 1 .. Len(sent[Owner[u]]) :
                   /\ sent[Owner[u]][n] = Call(u) /\ outcome'[u][2] < n
                   /\ outcome'[u][1] = sent[Owner[u]][n - outcome'[u][2]]
      <4>1. CASE u # t
        BY <1>0, <1>4, <3>1, <4>1 DEF Receive, AnswerLags
      <4>2. CASE u = t
        <5>1. outcome'[t] = <<Head(responses[o]), abandoned[o]>>
          BY <1>0, <1>4 DEF Receive
        <5>2. Len(sent[o]) = Len(returned[o]) + abandoned[o] + 1
          <6>1. Waits(o)
            BY <2>c DEF Waits
          <6> QED BY <1>t, <1>c, <2>c, <6>1 DEF Counted, One
        <5>3. sent[o][Len(sent[o])] = Call(t)
          BY <1>t, <1>c, <2>c DEF Counted
        <5>4. /\ Len(sent[o]) \in 1 .. Len(sent[o]) /\ abandoned[o] < Len(sent[o])
              /\ Len(sent[o]) - abandoned[o] = Len(returned[o]) + 1
              /\ Len(returned[o]) + 1 \in 1 .. Len(executed[o])
          <6> DEFINE s == Len(sent[o])  e == Len(executed[o])  p == Len(responses[o])
                     r == Len(returned[o])  a == abandoned[o]
          <6>1. /\ s \in Nat /\ e \in Nat /\ p \in Nat /\ r \in Nat /\ a \in Nat
                /\ p > 0 /\ r + p <= e /\ s = r + a + 1
            BY <2>a, <2>c, <2>d, <5>2
          <6> HIDE DEF s, e, p, r, a
          <6>2. s \in 1 .. s /\ a < s /\ s - a = r + 1 /\ r + 1 \in 1 .. e
            BY <6>1
          <6> QED BY <6>2 DEF s, e, p, r, a
        <5>5. executed[o][Len(returned[o]) + 1] = sent[o][Len(returned[o]) + 1]
          BY <1>t, <1>r, <2>c, <5>4 DEF Requested
        <5>6. outcome'[t][1] = sent[o][Len(sent[o]) - abandoned[o]]
          BY <2>d, <5>1, <5>4, <5>5
        <5> QED BY <4>2, <5>1, <5>3, <5>4, <5>6
      <4> QED BY <4>1, <4>2
    <3> QED BY <1>0, <2>c, <3>1 DEF AnswerLags, Call
  <2> QED
    BY <2>1, <2>2, <2>3, <2>4, <2>5, <2>6, <2>7
<1>5. ASSUME NEW t \in Threads, Interrupt(t) PROVE IInv'
  <2>1. TypeOK'
    BY <1>0, <1>5 DEF Interrupt, Release, NoCall
  <2>2. Locked'
    BY <1>0, <1>5 DEF Interrupt, Release, Locked
  <2>3. Requested'
    BY <1>0, <1>5 DEF Interrupt, Release, Requested, At, One
  <2>4. Answered'
    BY <1>0, <1>5 DEF Interrupt, Release, Answered, Requested, At, One
  <2>5. Counted'
    <3> DEFINE o == Owner[t]
    <3>1. /\ o \in Clients /\ UNCHANGED <<sent, returned, calls>>
          /\ pc'[t] = "idle" /\ pc[t] # "idle"
          /\ \A u \in Threads \ {t} : pc'[u] = pc[u] /\ (pc[u] # "idle" => Owner[u] # o)
      BY <1>0, <1>5 DEF Interrupt, Locked
    <3>2. ~Waits(o)' /\ \A c \in Clients \ {o} : Waits(c)' = Waits(c)
      BY <3>1 DEF Waits
    <3>3. Waits(o) <=> pc[t] = "receiving"
      BY <3>1 DEF Waits
    <3>4. abandoned'[o] = abandoned[o] + One(Waits(o))
      BY <1>0, <1>5, <3>1, <3>3 DEF Interrupt, One
    <3>5. \A c \in Clients \ {o} : abandoned'[c] = abandoned[c]
      BY <1>0, <1>5 DEF Interrupt
    <3>6. ASSUME NEW c \in Clients
          PROVE  Len(sent[c]) = Len(returned[c]) + abandoned'[c] + One(Waits(c)')
      <4>1. CASE c = o
        <5>1. abandoned[o] \in Nat /\ Len(returned[o]) \in Nat
          BY <1>0, <3>1
        <5> QED BY <1>t, <1>c, <3>2, <3>4, <4>1, <5>1 DEF Counted, One
      <4>2. CASE c # o
        BY <1>t, <1>c, <3>2, <3>5, <4>2 DEF Counted, One
      <4> QED BY <4>1, <4>2
    <3>7. ASSUME NEW u \in Threads, pc'[u] = "receiving"
          PROVE  sent[Owner[u]][Len(sent[Owner[u]])] = Call(u)
      BY <1>t, <1>c, <3>1, <3>7 DEF Counted
    <3> QED BY <1>0, <3>1, <3>6, <3>7 DEF Counted, Call
  <2>6. Silent'
    BY <1>0, <1>5 DEF Interrupt, Release, Silent
  <2>7. AnswerLags'
    BY <1>0, <1>5 DEF Interrupt, Release, AnswerLags, Call
  <2> QED
    BY <2>1, <2>2, <2>3, <2>4, <2>5, <2>6, <2>7
<1>6. ASSUME NEW c \in Clients, TakeRequest(c) PROVE IInv'
  <2>1. TypeOK'
    BY <1>0, <1>6 DEF TakeRequest, NoCall
  <2>2. Locked'
    BY <1>0, <1>6 DEF TakeRequest, Locked
  <2>3. Requested'
    <3>1. /\ Len(requests[c]) > 0 /\ Head(requests[c]) = requests[c][1]
          /\ Len(requests'[c]) = Len(requests[c]) - 1
          /\ \A k \in 1 .. Len(requests'[c]) : requests'[c][k] = requests[c][k + 1]
          /\ \A d \in Clients \ {c} : requests'[d] = requests[d]
          /\ requests' \in [Clients -> Seq(Calls)]
      BY <1>0, <1>6, TailAt DEF TakeRequest
    <3>2. /\ \A d \in Clients : ~At(d, "executing") /\ (At(d, "executing")' <=> d = c)
          /\ \A d \in Clients : One(At(d, "executing")) = 0
          /\ \A d \in Clients : One(At(d, "executing")') = IF d = c THEN 1 ELSE 0
          /\ serving'[2] = requests[c][1] /\ server # "ended"
          /\ UNCHANGED <<sent, executed>>
      BY <1>0, <1>6, <3>1 DEF TakeRequest, At, One
    <3>3. Len(sent[c]) \in Nat /\ Len(executed[c]) \in Nat /\ Len(requests[c]) \in Nat
      BY <1>0
    <3>4. /\ Len(sent[c]) = Len(executed[c]) + Len(requests[c])
          /\ \A i \in 1 .. Len(requests[c]) : requests[c][i] = sent[c][Len(executed[c]) + i]
      BY <1>t, <1>r, <3>2, <3>3 DEF Requested
    <3>5. /\ Len(sent[c]) = (Len(executed[c]) + 1) + Len(requests'[c])
          /\ serving'[2] = sent[c][Len(executed[c]) + 1]
      <4>1. 1 \in 1 .. Len(requests[c])
        BY <3>1, <3>3
      <4>2. Len(sent[c]) = (Len(executed[c]) + 1) + Len(requests'[c])
        BY <1>t, <3>1, <3>3, <3>4
      <4> QED BY <3>2, <3>4, <4>1, <4>2
    <3>6. ASSUME NEW i \in 1 .. Len(requests'[c])
          PROVE  requests'[c][i] = sent[c][(Len(executed[c]) + 1) + i]
      <4>1. i + 1 \in 1 .. Len(requests[c]) /\ requests'[c][i] = requests[c][i + 1]
        BY <3>1, <3>3
      <4>2. Len(executed[c]) + (i + 1) = (Len(executed[c]) + 1) + i
        BY <1>t, <3>1, <3>3
      <4> QED BY <3>4, <4>1, <4>2
    <3>7. ASSUME NEW d \in Clients
          PROVE  LET taken == Len(executed[d]) + One(At(d, "executing")')
                 IN  /\ \A i \in 1 .. Len(executed[d]) : executed[d][i] = sent[d][i]
                     /\ At(d, "executing")' => serving'[2] = sent[d][taken]
                     /\ Len(executed[d]) <= Len(sent[d])
                     /\ Len(sent[d]) = taken + Len(requests'[d])
                     /\ \A i \in 1 .. Len(requests'[d]) :
                          requests'[d][i] = sent[d][taken + i]
      <4>1. CASE d = c
        <5>1. /\ One(At(d, "executing")') = 1 /\ Len(executed[c]) <= Len(sent[c])
              /\ \A i \in 1 .. Len(executed[c]) : executed[c][i] = sent[c][i]
          BY <1>t, <1>r, <3>2, <4>1 DEF Requested
        <5> QED BY <3>2, <3>5, <3>6, <4>1, <5>1
      <4>2. CASE d # c
        <5>1. One(At(d, "executing")') = One(At(d, "executing")) /\ requests'[d] = requests[d]
          BY <3>1, <3>2, <4>2
        <5> QED BY <1>t, <1>r, <3>2, <4>2, <5>1 DEF Requested
      <4> QED BY <4>1, <4>2
    <3> QED BY <1>t, <1>r, <3>2, <3>7 DEF Requested
  <2>4. Answered'
    BY <1>0, <1>6 DEF TakeRequest, Answered, Requested, At, One
  <2>5. Counted'
    BY <1>0, <1>6 DEF TakeRequest, Counted, Waits, Locked, One, Call
  <2>6. Silent'
    BY <1>0, <1>6 DEF TakeRequest, Silent
  <2>7. AnswerLags'
    BY <1>0, <1>6 DEF TakeRequest, AnswerLags, Call
  <2> QED
    BY <2>1, <2>2, <2>3, <2>4, <2>5, <2>6, <2>7
<1>7. ASSUME Execute PROVE IInv'
  <2> DEFINE c == serving[1]
  <2>c. /\ c \in Clients /\ serving[2] \in Calls
        /\ Len(sent[c]) \in Nat /\ Len(executed[c]) \in Nat /\ Len(requests[c]) \in Nat
        /\ Len(returned[c]) \in Nat /\ Len(responses[c]) \in Nat
        /\ UNCHANGED <<serving, sent, requests, responses, returned>>
    BY <1>0, <1>7 DEF Execute
  <2>a. /\ executed' \in [Clients -> Seq(Calls)]
        /\ Len(executed'[c]) = Len(executed[c]) + 1
        /\ executed'[c][Len(executed'[c])] = serving[2]
        /\ \A k \in 1 .. Len(executed[c]) : executed'[c][k] = executed[c][k]
        /\ \A d \in Clients \ {c} : executed'[d] = executed[d]
        /\ Len(executed'[c]) \in Nat
    BY <1>0, <1>7, <2>c, AppendAt DEF Execute
  <2>b. /\ \A d \in Clients : (At(d, "executing") <=> d = c) /\ ~At(d, "executing")'
        /\ \A d \in Clients : ~At(d, "replying") /\ (At(d, "replying")' <=> d = c)
        /\ \A d \in Clients :
             /\ One(At(d, "executing")) = (IF d = c THEN 1 ELSE 0)
             /\ One(At(d, "executing")') = 0
             /\ One(At(d, "replying")) = 0
             /\ One(At(d, "replying")') = (IF d = c THEN 1 ELSE 0)
        /\ server # "ended" /\ server' # "ended"
    BY <1>0, <1>7, <2>c DEF Execute, At, One
  <2>1. TypeOK'
    BY <1>0, <1>7 DEF Execute, NoCall
  <2>2. Locked'
    BY <1>0, <1>7 DEF Execute, Locked
  <2>3. Requested'
    <3>1. /\ Len(sent[c]) = (Len(executed[c]) + 1) + Len(requests[c])
          /\ \A i \in 1 .. Len(requests[c]) :
               requests[c][i] = sent[c][(Len(executed[c]) + 1) + i]
          /\ serving[2] = sent[c][Len(executed[c]) + 1]
      <4>1. One(At(c, "executing")) = 1 /\ At(c, "executing") /\ server # "ended"
        BY <2>b, <2>c
      <4> QED BY <1>t, <1>r, <2>c, <4>1 DEF Requested
    <3>2. ASSUME NEW i \in 1 .. Len(executed'[c]) PROVE executed'[c][i] = sent[c][i]
      <4>1. CASE i = Len(executed'[c])
        BY <2>a, <3>1, <4>1
      <4>2. CASE i # Len(executed'[c])
        <5>1. i \in 1 .. Len(executed[c])
          BY <2>a, <2>c, <4>2
        <5> QED BY <1>t, <1>r, <2>a, <2>c, <5>1 DEF Requested
      <4> QED BY <4>1, <4>2
    <3>3. Len(executed'[c]) <= Len(sent[c])
      BY <1>t, <2>a, <2>c, <3>1
    <3>4. ASSUME NEW d \in Clients
          PROVE  /\ \A i \in 1 .. Len(executed'[d]) : executed'[d][i] = sent[d][i]
                 /\ Len(executed'[d]) <= Len(sent[d])
                 /\ Len(sent[d]) = Len(executed'[d]) + Len(requests[d])
                 /\ \A i \in 1 .. Len(requests[d]) :
                      requests[d][i] = sent[d][Len(executed'[d]) + i]
      <4>1. CASE d = c
        BY <2>a, <3>1, <3>2, <3>3, <4>1
      <4>2. CASE d # c
        <5>1. Len(executed[d]) \in Nat
          BY <1>0
        <5>2. One(At(d, "executing")) = 0 /\ executed'[d] = executed[d]
          BY <2>a, <2>b, <4>2
        <5>3. Len(executed[d]) + 0 = Len(executed[d])
          BY <5>1
        <5>4. /\ \A i \in 1 .. Len(executed[d]) : executed[d][i] = sent[d][i]
              /\ Len(executed[d]) <= Len(sent[d])
          BY <1>r DEF Requested
        <5>5. LET taken == Len(executed[d]) + One(At(d, "executing"))
              IN  /\ Len(sent[d]) = taken + Len(requests[d])
                  /\ \A i \in 1 .. Len(requests[d]) : requests[d][i] = sent[d][taken + i]
          BY <1>r, <2>b DEF Requested
        <5> QED BY <5>2, <5>3, <5>4, <5>5
      <4> QED BY <4>1, <4>2
    <3>5. \A d \in Clients : Len(executed'[d]) \in Nat
      BY <2>a
    <3>6. \A d \in Clients : Len(executed'[d]) + One(At(d, "executing")') = Len(executed'[d])
      BY <2>b, <3>5
    <3>7. ASSUME NEW d \in Clients
          PROVE  LET taken == Len(executed'[d]) + One(At(d, "executing")')
                 IN  /\ ~At(d, "executing")'
                     /\ \A i \in 1 .. Len(executed'[d]) : executed'[d][i] = sent[d][i]
                     /\ Len(executed'[d]) <= Len(sent[d])
                     /\ Len(sent[d]) = taken + Len(requests[d])
                     /\ \A i \in 1 .. Len(requests[d]) :
                          requests[d][i] = sent[d][taken + i]
      BY <1>t, <2>a, <2>b, <3>4, <3>6
    <3> QED BY <2>c, <3>7 DEF Requested
  <2>4. Answered'
    <3>1. Len(executed[c]) = Len(returned[c]) + Len(responses[c])
      <4>1. Len(executed[c]) = (Len(returned[c]) + Len(responses[c])) + 0
        BY <1>t, <1>a, <2>b, <2>c DEF Answered
      <4> QED BY <2>c, <4>1
    <3>2. ASSUME NEW d \in Clients
          PROVE  LET answered == Len(returned[d]) + Len(responses[d])
                 IN  /\ answered <= Len(executed'[d])
                     /\ \A i \in 1 .. Len(returned[d]) : returned[d][i] = executed'[d][i]
                     /\ \A i \in 1 .. Len(responses[d]) :
                          responses[d][i] = executed'[d][Len(returned[d]) + i]
                     /\ Len(executed'[d]) = answered + One(At(d, "replying")')
                     /\ At(d, "replying")' => serving[2] = executed'[d][answered + 1]
      <4>1. CASE d = c
        <5>1. ASSUME NEW i \in 1 .. Len(returned[c]) PROVE returned[c][i] = executed'[c][i]
          <6>1. i \in 1 .. Len(executed[c])
            BY <1>t, <2>c, <3>1
          <6> QED BY <1>t, <1>a, <2>a, <2>c, <6>1 DEF Answered
        <5>2. ASSUME NEW i \in 1 .. Len(responses[c])
              PROVE  responses[c][i] = executed'[c][Len(returned[c]) + i]
          <6>1. Len(returned[c]) + i \in 1 .. Len(executed[c])
            BY <1>t, <2>c, <3>1
          <6> QED BY <1>t, <1>a, <2>a, <2>c, <6>1 DEF Answered
        <5>3. Len(executed'[c]) = (Len(returned[c]) + Len(responses[c])) + 1
          BY <2>a, <3>1
        <5>4. One(At(d, "replying")') = 1
          BY <2>b, <4>1
        <5>5. Len(returned[c]) + Len(responses[c]) <= Len(executed'[c])
          BY <1>t, <2>a, <2>c, <5>3
        <5>6. executed'[c][(Len(returned[c]) + Len(responses[c])) + 1] = serving[2]
          BY <2>a, <5>3
        <5>7. /\ Len(executed'[d])
                   = (Len(returned[d]) + Len(responses[d])) + One(At(d, "replying")')
              /\ serving[2] = executed'[d][(Len(returned[d]) + Len(responses[d])) + 1]
          BY <4>1, <5>3, <5>4, <5>6
        <5>8. \A i \in 1 .. Len(returned[d]) : returned[d][i] = executed'[d][i]
          BY <4>1, <5>1
        <5>9. \A i \in 1 .. Len(responses[d]) :
                responses[d][i] = executed'[d][Len(returned[d]) + i]
          BY <4>1, <5>2
        <5>10. Len(returned[d]) + Len(responses[d]) <= Len(executed'[d])
          BY <4>1, <5>5
        <5> QED BY <5>7, <5>8, <5>9, <5>10
      <4>2. CASE d # c
        <5>1. One(At(d, "replying")') = One(At(d, "replying")) /\ executed'[d] = executed[d]
          BY <2>a, <2>b, <4>2
        <5> QED BY <1>t, <1>a, <2>b, <4>2, <5>1 DEF Answered
      <4> QED BY <4>1, <4>2
    <3> QED BY <1>t, <1>a, <2>c, <3>2 DEF Answered
  <2>5. Counted'
    BY <1>0, <1>7 DEF Execute, Counted, Waits, Locked, One, Call
  <2>6. Silent'
    BY <1>0, <1>7 DEF Execute, Silent
  <2>7. AnswerLags'
    BY <1>0, <1>7 DEF Execute, AnswerLags, Call
  <2> QED
    BY <2>1, <2>2, <2>3, <2>4, <2>5, <2>6, <2>7
<1>8. ASSUME ExecuteRaises PROVE IInv'
  <2>1. TypeOK'
    BY <1>0, <1>8 DEF ExecuteRaises, NoCall
  <2>2. Locked'
    BY <1>0, <1>8 DEF ExecuteRaises, Locked
  <2>3. Requested'
    BY <1>0, <1>8 DEF ExecuteRaises, Requested, At, One
  <2>4. Answered'
    BY <1>0, <1>8 DEF ExecuteRaises, Answered, Requested, At, One
  <2>5. Counted'
    BY <1>0, <1>8 DEF ExecuteRaises, Counted, Waits, Locked, One, Call
  <2>6. Silent'
    BY <1>0, <1>8 DEF ExecuteRaises, Silent
  <2>7. AnswerLags'
    BY <1>0, <1>8 DEF ExecuteRaises, AnswerLags, Call
  <2> QED
    BY <2>1, <2>2, <2>3, <2>4, <2>5, <2>6, <2>7
<1>9. ASSUME Reply PROVE IInv'
  <2>1. TypeOK'
    BY <1>0, <1>9 DEF Reply, NoCall
  <2>2. Locked'
    BY <1>0, <1>9 DEF Reply, Locked
  <2>3. Requested'
    BY <1>0, <1>9 DEF Reply, Requested, At, One
  <2>4. Answered'
    <3> DEFINE c == serving[1]
    <3>1. /\ c \in Clients /\ serving[2] \in Calls
          /\ Len(executed[c]) \in Nat /\ Len(returned[c]) \in Nat
          /\ Len(responses[c]) \in Nat
          /\ UNCHANGED <<returned, executed>>
      BY <1>0, <1>9 DEF Reply
    <3>2. /\ Len(responses'[c]) = Len(responses[c]) + 1
          /\ responses'[c][Len(responses'[c])] = serving[2]
          /\ \A k \in 1 .. Len(responses[c]) : responses'[c][k] = responses[c][k]
          /\ \A d \in Clients \ {c} : responses'[d] = responses[d]
          /\ responses' \in [Clients -> Seq(Calls)]
      BY <1>0, <1>9, <3>1, AppendAt DEF Reply
    <3>3. /\ \A d \in Clients : (At(d, "replying") <=> d = c) /\ ~At(d, "replying")'
          /\ \A d \in Clients : One(At(d, "replying")) = (IF d = c THEN 1 ELSE 0)
          /\ \A d \in Clients : One(At(d, "replying")') = 0
          /\ server # "ended"
      BY <1>0, <1>9, <3>1 DEF Reply, At, One
    <3>4. /\ Len(executed[c]) = Len(returned[c]) + Len(responses[c]) + 1
          /\ serving[2] = executed[c][Len(returned[c]) + Len(responses[c]) + 1]
      BY <1>t, <1>a, <3>1, <3>3 DEF Answered
    <3>5. ASSUME NEW i \in 1 .. Len(responses'[c])
          PROVE  responses'[c][i] = executed[c][Len(returned[c]) + i]
      <4>1. CASE i = Len(responses'[c])
        <5>1. Len(returned[c]) + i = Len(returned[c]) + Len(responses[c]) + 1
          BY <1>t, <3>1, <3>2, <4>1
        <5> QED BY <3>2, <3>4, <4>1, <5>1
      <4>2. CASE i # Len(responses'[c])
        <5>1. i \in 1 .. Len(responses[c])
          BY <3>1, <3>2, <4>2
        <5> QED BY <1>t, <1>a, <3>1, <3>2, <5>1 DEF Answered
      <4> QED BY <4>1, <4>2
    <3>6. ASSUME NEW d \in Clients
          PROVE  LET answered == Len(returned[d]) + Len(responses'[d])
                 IN  /\ Len(executed[d]) = answered /\ answered <= Len(executed[d])
                     /\ \A i \in 1 .. Len(returned[d]) : returned[d][i] = executed[d][i]
                     /\ \A i \in 1 .. Len(responses'[d]) :
                          responses'[d][i] = executed[d][Len(returned[d]) + i]
      <4>1. CASE d = c
        <5>1. Len(executed[c]) = Len(returned[c]) + Len(responses'[c])
          BY <1>t, <3>1, <3>2, <3>4
        <5>2. \A i \in 1 .. Len(returned[c]) : returned[c][i] = executed[c][i]
          BY <1>t, <1>a, <3>1 DEF Answered
        <5>3. Len(executed[c]) <= Len(executed[c])
          BY <3>1
        <5> QED BY <3>5, <4>1, <5>1, <5>2, <5>3
      <4>2. CASE d # c
        <5>1. Len(returned[d]) \in Nat /\ Len(responses[d]) \in Nat
          BY <1>0
        <5>2. One(At(d, "replying")) = 0 /\ responses'[d] = responses[d]
          BY <3>2, <3>3, <4>2
        <5>3. (Len(returned[d]) + Len(responses[d])) + 0 = Len(returned[d]) + Len(responses[d])
          BY <5>1
        <5> QED BY <1>t, <1>a, <3>3, <5>2, <5>3 DEF Answered
      <4> QED BY <4>1, <4>2
    <3>7. \A d \in Clients : Len(returned[d]) + Len(responses'[d]) \in Nat
      <4>1. responses' \in [Clients -> Seq(Calls)]
        BY <1>0, <1>9, <3>1, AppendAt DEF Reply
      <4> QED BY <4>1
    <3>8. \A d \in Clients : (Len(returned[d]) + Len(responses'[d])) + One(At(d, "replying")')
                             = Len(returned[d]) + Len(responses'[d])
      <4>1. ASSUME NEW d \in Clients
            PROVE  (Len(returned[d]) + Len(responses'[d])) + One(At(d, "replying")')
                     = Len(returned[d]) + Len(responses'[d])
        <5>1. One(At(d, "replying")') = 0
          BY <3>3
        <5>2. Len(returned[d]) + Len(responses'[d]) \in Nat
          BY <3>7
        <5> QED BY <1>t, <3>2, <5>1, <5>2
      <4> QED BY <4>1
    <3> QED BY <1>t, <1>a, <3>1, <3>3, <3>6, <3>8 DEF Answered
  <2>5. Counted'
    BY <1>0, <1>9 DEF Reply, Counted, Waits, Locked, One, Call
  <2>6. Silent'
    BY <1>0, <1>9 DEF Reply, Silent
  <2>7. AnswerLags'
    BY <1>0, <1>9 DEF Reply, AnswerLags, Call
  <2> QED
    BY <2>1, <2>2, <2>3, <2>4, <2>5, <2>6, <2>7
<1>10. ASSUME ReplyRaises PROVE IInv'
  <2>1. TypeOK'
    BY <1>0, <1>10 DEF ReplyRaises, NoCall
  <2>2. Locked'
    BY <1>0, <1>10 DEF ReplyRaises, Locked
  <2>3. Requested'
    BY <1>0, <1>10 DEF ReplyRaises, Requested, At, One
  <2>4. Answered'
    BY <1>0, <1>10 DEF ReplyRaises, Answered, Requested, At, One
  <2>5. Counted'
    BY <1>0, <1>10 DEF ReplyRaises, Counted, Waits, Locked, One, Call
  <2>6. Silent'
    BY <1>0, <1>10 DEF ReplyRaises, Silent
  <2>7. AnswerLags'
    BY <1>0, <1>10 DEF ReplyRaises, AnswerLags, Call
  <2> QED
    BY <2>1, <2>2, <2>3, <2>4, <2>5, <2>6, <2>7
<1>11. ASSUME StopServer PROVE IInv'
  <2>1. TypeOK'
    BY <1>0, <1>11 DEF StopServer, NoCall
  <2>2. Locked'
    BY <1>0, <1>11 DEF StopServer, Locked
  <2>3. Requested'
    BY <1>0, <1>11 DEF StopServer, Requested, At, One
  <2>4. Answered'
    BY <1>0, <1>11 DEF StopServer, Answered, Requested, At, One
  <2>5. Counted'
    BY <1>0, <1>11 DEF StopServer, Counted, Waits, Locked, One, Call
  <2>6. Silent'
    BY <1>0, <1>11 DEF StopServer, Silent
  <2>7. AnswerLags'
    BY <1>0, <1>11 DEF StopServer, AnswerLags, Call
  <2> QED
    BY <2>1, <2>2, <2>3, <2>4, <2>5, <2>6, <2>7
<1>12. ASSUME TestExit PROVE IInv'
  <2>1. TypeOK'
    BY <1>0, <1>12 DEF TestExit, NoCall
  <2>2. Locked'
    BY <1>0, <1>12 DEF TestExit, Locked
  <2>3. Requested'
    BY <1>0, <1>12 DEF TestExit, Requested, At, One
  <2>4. Answered'
    BY <1>0, <1>12 DEF TestExit, Answered, Requested, At, One
  <2>5. Counted'
    BY <1>0, <1>12 DEF TestExit, Counted, Waits, Locked, One, Call
  <2>6. Silent'
    BY <1>0, <1>12 DEF TestExit, Silent
  <2>7. AnswerLags'
    BY <1>0, <1>12 DEF TestExit, AnswerLags, Call
  <2> QED
    BY <2>1, <2>2, <2>3, <2>4, <2>5, <2>6, <2>7
<1>14. ASSUME PollTimesOut PROVE IInv'
  <2>1. TypeOK'
    BY <1>0, <1>14 DEF PollTimesOut, NoCall
  <2>2. Locked'
    BY <1>0, <1>14 DEF PollTimesOut, Locked
  <2>3. Requested'
    BY <1>0, <1>14 DEF PollTimesOut, Requested, At, One
  <2>4. Answered'
    BY <1>0, <1>14 DEF PollTimesOut, Answered, Requested, At, One
  <2>5. Counted'
    BY <1>0, <1>14 DEF PollTimesOut, Counted, Waits, Locked, One, Call
  <2>6. Silent'
    BY <1>0, <1>14 DEF PollTimesOut, Silent
  <2>7. AnswerLags'
    BY <1>0, <1>14 DEF PollTimesOut, AnswerLags, Call
  <2> QED
    BY <2>1, <2>2, <2>3, <2>4, <2>5, <2>6, <2>7
<1>13. CASE UNCHANGED vars
  <2>1. TypeOK'
    BY <1>0, <1>13 DEF vars, NoCall
  <2>2. Locked'
    BY <1>0, <1>13 DEF vars, Locked
  <2>3. Requested'
    BY <1>0, <1>13 DEF vars, Requested, At, One
  <2>4. Answered'
    BY <1>0, <1>13 DEF vars, Answered, Requested, At, One
  <2>5. Counted'
    BY <1>0, <1>13 DEF vars, Counted, Waits, Locked, One, Call
  <2>6. Silent'
    BY <1>0, <1>13 DEF vars, Silent
  <2>7. AnswerLags'
    BY <1>0, <1>13 DEF vars, AnswerLags, Call
  <2> QED
    BY <2>1, <2>2, <2>3, <2>4, <2>5, <2>6, <2>7
<1> QED
  BY <1>0, <1>1, <1>2, <1>3, <1>4, <1>5, <1>6, <1>7, <1>8, <1>9, <1>10, <1>11, <1>12, <1>13, <1>14
     DEF Next, CallStep, Serve

\* IInv holds throughout, however many clients, threads and calls there are.
THEOREM Invariance == Spec => []IInv
<1>1. IInv /\ [Next]_vars => IInv'
  BY NextIInv
<1> QED BY InitIInv, <1>1, PTL DEF Spec

-----------------------------------------------------------------------------
\* A sequence that agrees with another as far as it goes is a prefix of it.
LEMMA Begins ==
  ASSUME NEW S, NEW s \in Seq(S), NEW r \in Seq(S), Len(s) <= Len(r),
         \A i \in 1 .. Len(s) : s[i] = r[i]
  PROVE  IsPrefix(s, r)
<1>1. SubSeq(r, 1, Len(s)) = [i \in 1 .. Len(s) |-> r[i]]
  OBVIOUS
<1>2. s = [i \in 1 .. Len(s) |-> s[i]]
  OBVIOUS
<1>3. s = SubSeq(r, 1, Len(s))
  BY <1>1, <1>2
<1> QED BY <1>3 DEF IsPrefix

\* Requests are executed once at most and in the order they were sent, and the
\* responses are taken in that order (fn_wrapper, _request_loop).
THEOREM InOrder == Spec => []ExactlyInOrder
<1>1. IInv => ExactlyInOrder
  <2> SUFFICES ASSUME IInv, NEW c \in Clients
               PROVE  IsPrefix(returned[c], executed[c]) /\ IsPrefix(executed[c], sent[c])
    BY DEF ExactlyInOrder
  <2>1. /\ returned[c] \in Seq(Calls) /\ executed[c] \in Seq(Calls)
        /\ sent[c] \in Seq(Calls) /\ responses[c] \in Seq(Calls)
    BY DEF IInv, TypeOK
  <2>2. Len(executed[c]) <= Len(sent[c]) /\ Len(returned[c]) <= Len(executed[c])
    <3>1. Len(returned[c]) \in Nat /\ Len(responses[c]) \in Nat /\ Len(executed[c]) \in Nat
      BY <2>1
    <3>2. Len(returned[c]) + Len(responses[c]) <= Len(executed[c])
      BY DEF IInv, Answered
    <3>3. Len(executed[c]) <= Len(sent[c])
      BY DEF IInv, Requested
    <3>4. /\ returned \in [Clients -> Seq(Calls)] /\ executed \in [Clients -> Seq(Calls)]
          /\ responses \in [Clients -> Seq(Calls)] /\ sent \in [Clients -> Seq(Calls)]
      BY DEF IInv, TypeOK
    <3> QED BY <3>1, <3>2, <3>3, <3>4
  <2>3. /\ \A i \in 1 .. Len(executed[c]) : executed[c][i] = sent[c][i]
        /\ \A i \in 1 .. Len(returned[c]) : returned[c][i] = executed[c][i]
    BY DEF IInv, Requested, Answered
  <2> QED BY <2>1, <2>2, <2>3, Begins
<1> QED BY <1>1, Invariance, PTL

\* A call returns the answer to the request that lies as many before its own as
\* calls of its client were interrupted in recv_multipart: its own, if none was.
THEOREM Lags == Spec => []AnswerLags
<1>1. IInv => AnswerLags
  BY DEF IInv
<1> QED BY <1>1, Invariance, PTL
=============================================================================
