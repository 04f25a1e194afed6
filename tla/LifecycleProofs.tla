----------------------------- MODULE LifecycleProofs -----------------------------
(***************************************************************************)
(* start() and stop(), of the servers of a manager and of a node.          *)
(*                                                                         *)
(* ServerManager: start() returns only when every server was started, and  *)
(* their workers then stop them, for any number of servers.  The invariant *)
(* rests on the barrier: who is counted in it has started its server, it   *)
(* opens only when everyone is counted, and once it is open only Ctrl-C in *)
(* the process that opens it breaks it.                                    *)
(*                                                                         *)
(* NodeLifecycle and NodeCalls: what start() promises of a node, what      *)
(* stop() and the loops leave behind and what a client gets, for every     *)
(* node whose programs are well-formed.  Every node of the repository is   *)
(* (CatalogueWellFormed).  The invariant relates the place of a loop in    *)
(* its program to the events, to the ring buffer and to its device.        *)
(***************************************************************************)
EXTENDS ServerManager, NodeCalls, Sequences, FiniteSetTheorems, TLAPS

-----------------------------------------------------------------------------
(* The servers of a manager *)

Unbuilt ==
  /\ main = "init" =>
       interrupts = {} /\ quitting = {} /\ \A w \in Workers : worker[w] = "created"
  /\ \A w \in Workers : worker[w] \in {"created", "building"} => server[w] = "none"

WasStarted(w) == server[w] \notin {"none", "built"}
Opened == {"opening", "checking", "running", "stopping", "halting", "joining", "stopped"}

Arrivals ==
  \A w \in Workers :
    w \in arrived => worker[w] \in {"waiting", "opening", "killed"} /\ WasStarted(w)

Open == main \in Opened \/ barrier = "draining" => \A w \in Workers : WasStarted(w)

Passed == {"waiting", "opening", "passed", "parked", "finally"} \cup Gone
ReadyRecorded ==
  ~ctrl_c => /\ interrupts = {} /\ quitting = {}
             /\ main \in Opened => barrier = "draining"
             /\ barrier = "draining" =>
                  \A w \in Workers :
                    /\ worker[w] \in Passed
                    /\ worker[w] \in {"parked", "finally"} => ready[w]
                    /\ worker[w] = "ended" => server[w] \in {"stopped", "half_stopped"}

IInv == TypeOK /\ Unbuilt /\ Arrivals /\ Open /\ ReadyRecorded

-----------------------------------------------------------------------------
\* The barrier opens only when every process is counted in it.
LEMMA AllArrived ==
  ASSUME NEW S, S \subseteq Processes, Cardinality(S) >= Parties
  PROVE  S = Processes
<1>1. IsFiniteSet(Processes) /\ Cardinality(Processes) = Parties
  BY ManagerAssumption, FS_AddElement DEF Processes, Parties
<1>2. IsFiniteSet(S) /\ Cardinality(S) <= Cardinality(Processes)
  BY <1>1, FS_Subset
<1>3. Cardinality(S) = Cardinality(Processes)
  BY <1>1, <1>2, FS_CardinalityType
<1> QED
  BY <1>1, <1>3, FS_Subset

LEMMA InitIInv == Init => IInv
BY DEF Init, IInv, TypeOK, Unbuilt, Arrivals, Open, ReadyRecorded, Opened, Processes, Gone

\* What a step does to the conditions keeps their types.
Waiting ==
  /\ lock \in [Conditions -> SUBSET Processes] /\ lost \in [Conditions -> SUBSET Workers]
  /\ asleep \subseteq Processes /\ quitting \subseteq Processes

LEMMA ConditionType == \A p \in Processes : Condition(p) \in Conditions
BY DEF Condition, Conditions

LEMMA NotifyingKeeps ==
  ASSUME Waiting, NEW p \in Processes, NEW c \in Conditions,
         StartsNotifying(p, c) \/ EndsNotifying(p, c)
  PROVE  Waiting' /\ quitting' = quitting
BY DEF Waiting, StartsNotifying, EndsNotifying

LEMMA SleepingKeeps ==
  ASSUME Waiting, NEW p \in Processes, FallsAsleep(p) \/ Acknowledges(p)
  PROVE  Waiting' /\ quitting' = quitting
BY DEF Waiting, FallsAsleep, Acknowledges

LEMMA WaitingStep == TypeOK /\ [Next]_vars => Waiting'
<1> SUFFICES ASSUME TypeOK, [Next]_vars PROVE Waiting'
  OBVIOUS
<1>t. Waiting /\ Main \in Processes /\ Workers \subseteq Processes
  BY DEF TypeOK, Waiting, Processes
<1>c. {"start", "barrier", "stop"} = Conditions
  BY DEF Conditions
<1>u. CASE UNCHANGED waits
  BY <1>t, <1>u DEF Waiting, waits
<1>1. CASE SpawnAll \/ MainLeaves \/ CheckAlive \/ Stop \/ Joined \/ CtrlC
  BY <1>u, <1>1 DEF SpawnAll, MainLeaves, CheckAlive, Stop, Joined, CtrlC
<1>2. CASE SetStart \/ StartIsSet \/ MainOpens \/ MainTimesOut \/ MainBreaks \/ Halt \/ StopIsSet
  BY <1>t, <1>c, <1>2, NotifyingKeeps
  DEF SetStart, StartIsSet, MainOpens, MainTimesOut, MainBreaks, Halt, StopIsSet
<1>3. CASE MainArrives
  BY <1>t, <1>c, <1>u, <1>3, NotifyingKeeps, SleepingKeeps DEF MainArrives, Enters
<1>4. CASE MainWakes
  BY <1>t, <1>4, SleepingKeeps DEF MainWakes
<1>5. CASE Exit
  BY <1>t, <1>5 DEF Exit, Waiting
<1>6. CASE InterruptMain
  BY <1>t, <1>6 DEF InterruptMain, Rouses, NoneRoused, Waiting
<1>7. CASE MainQuits
  BY <1>t, <1>7 DEF MainQuits, Waiting
<1>8. ASSUME NEW w \in Workers,
             Passes(w) \/ SeesBroken(w) \/ SetReady(w) \/ Finally(w) \/ Build(w)
             \/ Start(w) \/ Raises(w)
      PROVE  Waiting'
  BY <1>u, <1>8 DEF Passes, SeesBroken, SetReady, Finally, Build, Start, Raises
<1>9. ASSUME NEW w \in Workers, Wakes(w) \/ AwaitsStart(w) \/ AwaitsStop(w)
      PROVE  Waiting'
  BY <1>t, <1>u, <1>9, SleepingKeeps DEF Wakes, AwaitsStart, AwaitsStop
<1>10. ASSUME NEW w \in Workers, Arrives(w) \/ Opens(w)
       PROVE  Waiting'
  BY <1>t, <1>c, <1>u, <1>10, NotifyingKeeps, SleepingKeeps DEF Arrives, Opens, Enters
<1>11. ASSUME NEW w \in Workers, Quits(w)
       PROVE  Waiting'
  BY <1>t, <1>11 DEF Quits, Waiting
<1>12. ASSUME NEW w \in Workers, Killed(w)
       PROVE  Waiting'
  <2>1. Condition(w) \in Conditions /\ w \in Processes
    BY <1>t, ConditionType
  <2> QED
    BY <1>t, <1>12, <2>1 DEF Killed, DiesLocking, Waiting
<1>13. ASSUME NEW w \in Workers, InterruptWorker(w)
       PROVE  Waiting'
  <2>1. Condition(w) \in Conditions /\ w \in Processes
    BY <1>t, ConditionType
  <2>2. lost' = lost /\ asleep' \subseteq Processes /\ quitting' \subseteq Processes
    BY <1>t, <1>13, <2>1 DEF InterruptWorker, Rouses, NoneRoused, Waiting
  <2>3. lock' \in [Conditions -> SUBSET Processes]
    BY <1>t, <1>13, <2>1 DEF InterruptWorker, Waiting
  <2> QED
    BY <1>t, <2>2, <2>3 DEF Waiting
<1>14. CASE UNCHANGED vars
  BY <1>u, <1>14 DEF vars
<1> QED
  BY <1>1, <1>2, <1>3, <1>4, <1>5, <1>6, <1>7, <1>8, <1>9, <1>10, <1>11, <1>12, <1>13, <1>14
  DEF Next, MainStep, WorkerStep

LEMMA NextIInv == IInv /\ [Next]_vars => IInv'
<1> SUFFICES ASSUME IInv, [Next]_vars PROVE IInv'
  OBVIOUS
<1>w. Waiting'
  BY WaitingStep DEF IInv
<1> USE DEF IInv, TypeOK, Unbuilt, Arrivals, Open, ReadyRecorded, Opened, WasStarted, Passed,
            Gone, Processes, Waiting, meeting, events, signal, To, MainOnly, WorkerOnly, Leaves,
            Departs
<1>1. CASE SpawnAll
  BY <1>w, <1>1 DEF SpawnAll, waits
<1>2. CASE SetStart \/ StartIsSet
  BY <1>w, <1>2 DEF SetStart, StartIsSet, StartsNotifying, EndsNotifying
<1>3. CASE MainArrives
  <2>1. CASE barrier = "broken"
    BY <1>w, <1>3, <2>1 DEF MainArrives, waits
  <2>2. CASE barrier = "filling" /\ ~Completes(Main)
    BY <1>w, <1>3, <2>2, ManagerAssumption DEF MainArrives, Enters, Inside, FallsAsleep
  <2>3. CASE barrier = "filling" /\ Completes(Main)
    <3>1. /\ main = "arriving" /\ main' = "opening" /\ barrier' = "draining"
          /\ arrived' = arrived \cup {Main} /\ quitting' = quitting
          /\ MainOnly /\ UNCHANGED events
      BY <1>3, <2>3 DEF MainArrives, Enters, Inside, StartsNotifying
    <3>2. arrived \cup {Main} = Processes
      BY <2>3, AllArrived DEF Completes
    <3>3. Workers \subseteq arrived
      BY <3>2, ManagerAssumption
    <3> QED
      BY <1>w, <3>1, <3>3, ManagerAssumption
  <2> QED
    BY <1>3, <2>1, <2>2, <2>3 DEF MainArrives
<1>4. CASE MainOpens \/ MainBreaks
  BY <1>w, <1>4 DEF MainOpens, MainBreaks, EndsNotifying
<1>5. CASE MainWakes \/ MainLeaves
  BY <1>w, <1>5 DEF MainWakes, MainLeaves, Acknowledges, waits
<1>6. CASE MainTimesOut
  BY <1>w, <1>6 DEF MainTimesOut, StartsNotifying
<1>7. CASE CheckAlive \/ Joined \/ Stop
  BY <1>w, <1>7 DEF CheckAlive, Joined, Stop, waits
<1>8. CASE Halt \/ StopIsSet
  BY <1>w, <1>8 DEF Halt, StopIsSet, SetStop, StartsNotifying, EndsNotifying
<1>9. CASE Exit
  BY <1>w, <1>9 DEF Exit
<1>10. CASE CtrlC
  BY <1>w, <1>10 DEF CtrlC, waits
<1>11. CASE InterruptMain
  <2>1. ctrl_c /\ ctrl_c'
    BY <1>11 DEF InterruptMain
  <2>2. /\ barrier' \in {barrier, "broken"} /\ arrived' \subseteq arrived
        /\ main' \in {main, "stopping", "stopped", "failed"} /\ main' # "init"
        /\ main' \in Opened => main \in Opened
        /\ interrupts' \subseteq interrupts
        /\ UNCHANGED <<worker, ready, server, events>>
    BY <1>11 DEF InterruptMain, Rouses, NoneRoused, Aborts
  <2>3. TypeOK' /\ Unbuilt' /\ ReadyRecorded'
    BY <1>w, <2>1, <2>2
  <2>4. Arrivals' /\ Open'
    BY <2>2
  <2> QED
    BY <2>3, <2>4
<1>12. CASE MainQuits
  BY <1>w, <1>12 DEF MainQuits
<1>13. ASSUME NEW w \in Workers, Wakes(w) \/ AwaitsStart(w) PROVE IInv'
  BY <1>w, <1>13 DEF Wakes, AwaitsStart, Acknowledges, FallsAsleep, waits
<1>14. ASSUME NEW w \in Workers, Arrives(w) PROVE IInv'
  <2>1. CASE barrier = "broken"
    BY <1>w, <1>14, <2>1 DEF Arrives, waits
  <2>2. CASE barrier = "filling"
    <3>1. /\ worker[w] = "arriving" /\ server[w] = "started"
          /\ worker' = [worker EXCEPT ![w] = Inside(w)] /\ Inside(w) \in {"waiting", "opening"}
          /\ arrived' = arrived \cup {w} /\ arrived' \subseteq Processes
          /\ quitting' = quitting
          /\ WorkerOnly /\ UNCHANGED <<ready, server>>
      BY <1>14, <2>2 DEF Arrives, Enters, Inside, StartsNotifying, FallsAsleep
    <3>2. barrier' = IF Completes(w) THEN "draining" ELSE "filling"
      BY <1>14, <2>2 DEF Arrives, Enters
    <3>3. TypeOK' /\ Unbuilt' /\ Arrivals'
      BY <1>w, <3>1, <3>2
    <3>4. CASE ~Completes(w)
      <4>1. barrier' = barrier
        BY <2>2, <3>2, <3>4
      <4>2. Open' /\ ReadyRecorded'
        BY <2>2, <3>1, <4>1
      <4> QED
        BY <3>3, <4>2
    <3>5. CASE Completes(w)
      <4>1. arrived' = Processes
        BY <3>1, <3>5, AllArrived DEF Completes
      <4>2. \A v \in Workers : worker'[v] \in {"waiting", "opening", "killed"} /\ WasStarted(v)'
        BY <3>3, <4>1
      <4>3. Open' /\ ReadyRecorded'
        BY <3>1, <3>2, <3>5, <4>2
      <4> QED
        BY <3>3, <4>3
    <3> QED
      BY <3>4, <3>5
  <2> QED
    BY <1>14, <2>1, <2>2 DEF Arrives
<1>15. ASSUME NEW w \in Workers, Opens(w) PROVE IInv'
  BY <1>w, <1>15 DEF Opens, EndsNotifying
<1>16. ASSUME NEW w \in Workers, Passes(w) PROVE IInv'
  BY <1>w, <1>16 DEF Passes, waits
<1>17. ASSUME NEW w \in Workers, SeesBroken(w) PROVE IInv'
  BY <1>w, <1>17 DEF SeesBroken, waits
<1>18. ASSUME NEW w \in Workers, SetReady(w) PROVE IInv'
  BY <1>w, <1>18 DEF SetReady, waits
<1>19. ASSUME NEW w \in Workers, AwaitsStop(w) PROVE IInv'
  BY <1>w, <1>19 DEF AwaitsStop, FallsAsleep, waits
<1>20. ASSUME NEW w \in Workers, Finally(w) PROVE IInv'
  BY <1>w, <1>20 DEF Finally, waits
<1>21. ASSUME NEW w \in Workers, Build(w) PROVE IInv'
  BY <1>w, <1>21 DEF Build, waits
<1>22. ASSUME NEW w \in Workers, Start(w) PROVE IInv'
  BY <1>w, <1>22 DEF Start, waits
<1>23. ASSUME NEW w \in Workers, Raises(w) PROVE IInv'
  BY <1>w, <1>23 DEF Raises, waits
<1>24. ASSUME NEW w \in Workers, Killed(w) PROVE IInv'
  BY <1>w, <1>24 DEF Killed
<1>25. ASSUME NEW w \in Workers, Quits(w) PROVE IInv'
  <2>1. ctrl_c /\ ctrl_c' /\ main # "init" /\ main' = main
    BY <1>25 DEF Quits
  <2>2. /\ worker' = [worker EXCEPT ![w] = "finally"] /\ arrived' = arrived \ {w}
        /\ UNCHANGED <<ready, server, barrier, events, interrupts>>
    BY <1>25 DEF Quits
  <2>3. TypeOK' /\ Unbuilt' /\ ReadyRecorded'
    BY <1>w, <2>1, <2>2
  <2>4. Arrivals' /\ Open'
    BY <2>1, <2>2
  <2> QED
    BY <2>3, <2>4
<1>26. ASSUME NEW w \in Workers, InterruptWorker(w) PROVE IInv'
  <2>1. /\ ctrl_c /\ ctrl_c' /\ main # "init" /\ main' = main
        /\ interrupts' \subseteq interrupts /\ UNCHANGED <<ready, events>>
    BY <1>26 DEF InterruptWorker
  <2>2. CASE UNCHANGED <<worker, server, meeting>>
    BY <1>w, <2>1, <2>2
  <2>3. CASE /\ worker[w] = "finally" /\ worker' = [worker EXCEPT ![w] = "ended"]
             /\ server' \in {server, [server EXCEPT ![w] = "half_stopped"]}
             /\ UNCHANGED meeting
    <3>1. WasStarted(w) => WasStarted(w)'
      BY <2>3
    <3>2. TypeOK' /\ Unbuilt' /\ ReadyRecorded'
      BY <1>w, <2>1, <2>3
    <3>3. Arrivals' /\ Open'
      BY <2>1, <2>3, <3>1
    <3> QED
      BY <3>2, <3>3
  <2>4. CASE /\ worker' = [worker EXCEPT ![w] = "finally"] /\ arrived' = arrived \ {w}
             /\ barrier' \in {barrier, "broken"} /\ UNCHANGED server
    <3>1. TypeOK' /\ Unbuilt' /\ ReadyRecorded'
      BY <1>w, <2>1, <2>4
    <3>2. Arrivals'
      BY <2>4
    <3>3. Open'
      BY <2>1, <2>4
    <3> QED
      BY <3>1, <3>2, <3>3
  <2> QED
    BY <1>26, <2>2, <2>3, <2>4 DEF InterruptWorker, Aborts
<1>27. CASE UNCHANGED vars
  BY <1>w, <1>27 DEF vars, waits
<1> QED
  BY <1>1, <1>2, <1>3, <1>4, <1>5, <1>6, <1>7, <1>8, <1>9, <1>10, <1>11, <1>12, <1>13,
     <1>14, <1>15, <1>16, <1>17, <1>18, <1>19, <1>20, <1>21, <1>22, <1>23, <1>24, <1>25,
     <1>26, <1>27
     DEF Next, MainStep, WorkerStep

\* The barrier counts only workers whose server was started, and opens only when it
\* counts them all.
THEOREM Invariance == Spec => []IInv
BY InitIInv, NextIInv, PTL DEF Spec

\* The variables have their types, and a worker from the barrier to its finally block
\* has a started server, for any number of servers.
THEOREM TypeCorrect == Spec => []TypeOK
<1>1. IInv => TypeOK
  BY DEF IInv
<1> QED
  BY <1>1, Invariance, PTL

\* For any number of servers: when start() has returned, all were started.
THEOREM AllServing == Spec => []StartMeansServing
<1>1. IInv => StartMeansServing
  BY DEF IInv, Open, StartMeansServing, HasStarted, Opened, WasStarted
<1> QED
  BY <1>1, Invariance, PTL

\* For any number of servers: without Ctrl-C, a worker that ended after start()
\* returned has stopped its server.
THEOREM AllHalt == Spec => []Halts
<1>1. IInv => Halts
  BY DEF IInv, ReadyRecorded, Halts, HasStarted, Opened
<1> QED
  BY <1>1, Invariance, PTL

-----------------------------------------------------------------------------
(* The life of a node *)

Parts == {"before", "try", "loop", "finally"}
Steps ==
  {"open", "close", "use", "await", "forever", "frame", "grab", "drain", "put", "put_now",
   "pub_ready", "req_ready", "requests", "try_use", "try_close"}

Programs == [before : Seq(Steps), try : Seq(Steps), loop : Seq(Steps), finally : Seq(Steps)]
Has(p, part, k, steps) == k \in 1 .. Len(p[part]) /\ p[part][k] \in steps

\* A program without rounds never comes to test exit_event.
Runs(p) == p.loop = <<>> => p.try # <<>> /\ p.try[Len(p.try)] = "forever"

\* Only a round is left out, or a part of it that does not end before a ready event.
Jumps(p) ==
  \A part \in Parts, k \in Nat :
    /\ Has(p, part, k, {"frame", "grab"}) => part = "loop"
    /\ Has(p, part, k, {"grab"}) =>
         k + 3 \in 1 .. Len(p.loop) /\ p.loop[k + 3] # "pub_ready"

\* pub_ready_event is set right after a put.
PutsFirst(p) ==
  \A part \in Parts, k \in Nat :
    Has(p, part, k, {"pub_ready"}) => Has(p, part, k - 1, {"put", "put_now"})

\* Only the loop that serves requests sets req_ready_event, when its setup is over.
ReadyLast(n, t) ==
  \A part \in Parts, k \in Nat :
    n.req /\ Has(n[t], part, k, {"req_ready"}) =>
      /\ \A u \in Loops \ {t} : ~Serves(n[u])
      /\ part \in {"before", "try"} => k = Len(n[t][part])
      /\ part = "before" => n[t].try = <<>>

\* The finally block closes what is opened.
OpensDevice(p) == \E part \in Parts, k \in Nat : Has(p, part, k, {"open"})
Shuts(p) ==
  OpensDevice(p) => /\ \E k \in Nat : Has(p, "finally", k, {"close", "try_close"})
              /\ \A k \in Nat : ~Has(p, "finally", k, {"open"})

WellFormed(n) ==
  /\ n.req \in BOOLEAN
  /\ Runs(n.main) /\ (n.worker # NoLoop => Runs(n.worker))
  /\ \A t \in Loops :
       /\ n[t] \in Programs /\ Jumps(n[t]) /\ PutsFirst(n[t]) /\ ReadyLast(n, t)
       /\ Serves(n[t]) => n.req
       /\ n.name \notin NeverClosed => Shuts(n[t])

-----------------------------------------------------------------------------
(* The inductive invariant *)

Places == [part : Parts \cup {"idle", "test", "ended"}, k : Nat]
Past == {"test", "loop", "finally", "ended"}
PutSteps == {"put", "put_now"}

\* A place x of loop t, and the step there.
Placed(n, t, x) ==
  /\ x \in Places
  /\ IF x.part \in Parts THEN x.k \in 1 .. Len(n[t][x.part]) ELSE x.k = 0
  /\ x.part \in {"test", "loop"} => n[t].loop # <<>>
  /\ x # Idle => Runs(n[t])
StepAt(n, t, x) == IF x.part \in Parts THEN n[t][x.part][x.k] ELSE x.part

Raised ==
  SUBSET [part : Parts \cup {"test", "killed"},
          step : Steps \cup {"test", "interrupt", "killed"}]

NodeTypes ==
  /\ WellFormed(node)
  /\ at \in [Loops -> Places]
  /\ raised \in [Loops -> Raised]
  /\ opened \in [Loops -> BOOLEAN] /\ stored \in BOOLEAN
  /\ pub_ready_event \in BOOLEAN /\ req_ready_event \in BOOLEAN /\ exit_event \in BOOLEAN
  /\ \A t \in Loops : Placed(node, t, at[t])

Unbegun ==
  /\ child # "none" => middleware = "shm"
  /\ caller \in {"building", "new"} =>
       child = "none" /\ \A t \in Loops : at[t] = Idle
  /\ caller = "starting" => middleware # "shm" /\ at["main"] = Idle
  /\ child \in {"building", "sent"} => \A t \in Loops : at[t] = Idle
  /\ child = "started" => at["main"] = Idle

PutBefore ==
  /\ \A t \in Loops : StepAt(node, t, at[t]) = "pub_ready" => stored
  /\ pub_ready_event => stored

SetUp ==
  \A t \in Loops :
    req_ready_event /\ Serves(node[t]) => at[t].part \in Past

StartReturned == {"running", "joining", "closing", "stopped"}
Waited ==
  /\ caller \in {"req_wait", "checking", "launching"} \cup StartReturned
     /\ "pub" \notin timed_out => pub_ready_event
  /\ caller \in {"checking", "launching"} \cup StartReturned
     /\ "req" \notin timed_out => ~node.req \/ req_ready_event

Told ==
  /\ caller \in {"joining", "closing", "stopped"} => exit_event
  /\ caller = "running" /\ middleware \in Serving /\ ~exit_event
       => node_server = "serving"
  /\ node_server = "ended" => exit_event
  /\ node_server = "closed" => caller = "stopped"

Quiet ==
  middleware \in {"zmq", "rclpy"} /\ "join" \notin timed_out
  /\ (caller = "closing" \/ node_server = "closed")
    => \A t \in Loops : ~Alive(t)

\* The close of the finally block lies behind x.
Behind(n, t, x) ==
  \/ x.part = "ended"
  \/ x.part = "finally"
     /\ \E k \in Nat : k < x.k /\ Has(n[t], "finally", k, {"close", "try_close"})
Cleanly(raises) == \A r \in raises : r.part \notin {"before", "finally", "killed"}
Closed(n, t, x, open, raises) ==
  n.name \notin NeverClosed =>
    /\ open => OpensDevice(n[t])
    /\ Behind(n, t, x) /\ Cleanly(raises) => ~open

NodeInv ==
  /\ NodeTypes /\ Unbegun /\ PutBefore /\ SetUp /\ Waited /\ Told /\ Quiet
  /\ \A t \in Loops : Closed(node, t, at[t], opened[t], raised[t])
  /\ PutUndisturbed

-----------------------------------------------------------------------------
(* Programs *)

LEMMA StepIsStepAt ==
  ASSUME NEW t \in Loops
  PROVE  Step(t) = StepAt(node, t, at[t])
BY DEF Step, InProgram, StepAt, Parts

\* Where a well-formed program goes on after a step at x.
LEMMA Onward ==
  ASSUME NEW n, NEW t \in Loops, WellFormed(n), NEW x, Placed(n, t, x), x.part \in Parts,
         StepAt(n, t, x) # "forever", NEW y, y = Then(n[t], x)
  PROVE  /\ Placed(n, t, y) /\ y # Idle
         /\ x.part \in Past => y.part \in Past
         /\ StepAt(n, t, y) = "pub_ready" => StepAt(n, t, x) \in PutSteps
         /\ n.req /\ StepAt(n, t, x) = "req_ready" => y.part \in Past
         /\ y.part = "finally" => x.part = "finally" /\ y.k = x.k + 1
         /\ y.part = "ended" => x.part = "finally" /\ x.k = Len(n[t].finally)
<1> DEFINE p == n[t]
<1>1. /\ p \in Programs /\ PutsFirst(p) /\ ReadyLast(n, t) /\ Runs(p)
      /\ x \in Places /\ x.k \in 1 .. Len(p[x.part]) /\ StepAt(n, t, x) = p[x.part][x.k]
  BY DEF WellFormed, Placed, StepAt, Idle, Place, Parts
<1>2. \A part \in Parts : p[part] \in Seq(Steps) /\ Len(p[part]) \in Nat
  BY <1>1 DEF Programs, Parts
<1>r. n.req /\ StepAt(n, t, x) = "req_ready" =>
        /\ x.part \in {"before", "try"} => x.k = Len(p[x.part])
        /\ x.part = "before" => p.try = <<>>
  <2> SUFFICES ASSUME n.req, StepAt(n, t, x) = "req_ready"
               PROVE  /\ x.part \in {"before", "try"} => x.k = Len(p[x.part])
                      /\ x.part = "before" => p.try = <<>>
    OBVIOUS
  <2>1. x.part \in Parts /\ x.k \in Nat /\ Has(n[t], x.part, x.k, {"req_ready"})
    BY <1>1 DEF Has, Places
  <2> QED
    BY <2>1, <1>1 DEF ReadyLast
<1>3. CASE x.k < Len(p[x.part])
  <2>1. y = [part |-> x.part, k |-> x.k + 1]
    BY <1>3 DEF Then, Place
  <2>2. Placed(n, t, y) /\ y # Idle
    BY <1>1, <1>2, <1>3, <2>1 DEF Placed, Places, Idle, Place, Parts
  <2>3. StepAt(n, t, y) = "pub_ready" => StepAt(n, t, x) \in PutSteps
    BY <1>1, <1>2, <1>3, <2>1 DEF StepAt, PutsFirst, Has, PutSteps, Places
  <2>4. n.req /\ StepAt(n, t, x) = "req_ready" => y.part \in Past
    BY <1>1, <1>2, <1>r, <1>3, <2>1 DEF Past, Places, Parts
  <2> QED
    BY <2>1, <2>2, <2>3, <2>4 DEF Parts
<1>4. CASE ~(x.k < Len(p[x.part]))
  <2>0. x.k = Len(p[x.part])
    BY <1>1, <1>2, <1>4
  <2>1. /\ x.part = "before" => y = InTry(p)
        /\ x.part \in {"try", "loop"} => y = Test
        /\ x.part = "finally" => y = Ended
    BY <1>4 DEF Then
  <2>2. \/ /\ y = [part |-> "try", k |-> 1] /\ p.try # <<>> /\ x.part = "before"
        \/ /\ y = [part |-> "test", k |-> 0] /\ x.part \in {"before", "try", "loop"}
           /\ (x.part = "before" => p.try = <<>>)
        \/ /\ y = [part |-> "ended", k |-> 0] /\ x.part = "finally"
    BY <2>1 DEF InTry, Test, Ended, Place, Parts
  <2>3. y.part = "test" => p.loop # <<>>
    BY <1>1, <1>2, <2>0, <2>2 DEF Runs, Parts
  <2>4. y.part = "try" => Len(p.try) >= 1
    BY <1>2, <2>2 DEF Parts
  <2>5. Placed(n, t, y) /\ y # Idle
    BY <1>1, <2>2, <2>3, <2>4 DEF Placed, Places, Idle, Place, Parts
  <2>6. StepAt(n, t, y) # "pub_ready"
    BY <1>1, <2>2, <2>4 DEF StepAt, PutsFirst, Has, Parts
  <2>7. n.req /\ StepAt(n, t, x) = "req_ready" => y.part \in Past
    BY <1>r, <2>2 DEF Past
  <2> QED
    BY <2>0, <2>2, <2>5, <2>6, <2>7 DEF Past
<1> QED
  BY <1>3, <1>4

\* Where an exception leads from a place x that a loop stands at.
LEMMA Away ==
  ASSUME NEW n, NEW t \in Loops, WellFormed(n), NEW x, Placed(n, t, x),
         x # Idle, NEW y, y = Escape(n[t], x)
  PROVE  /\ Placed(n, t, y) /\ y # Idle /\ y.part \in Past
         /\ StepAt(n, t, y) # "pub_ready"
         /\ y.part = "finally" => y.k = 1
         /\ y.part = "ended" => x.part \in {"before", "finally", "ended"} \/ n[t].finally = <<>>
<1> DEFINE p == n[t]
<1>1. /\ p \in Programs /\ PutsFirst(p) /\ Runs(p) /\ x \in Places
  BY DEF WellFormed, Placed
<1>2. p.finally \in Seq(Steps) /\ Len(p.finally) \in Nat
  BY <1>1 DEF Programs
<1>3. \/ /\ y = [part |-> "finally", k |-> 1] /\ p.finally # <<>>
      \/ /\ y = [part |-> "ended", k |-> 0]
         /\ p.finally = <<>> \/ x.part \notin {"try", "test", "loop"}
  BY DEF Escape, InFinally, Ended, Place
<1>4. y.part = "finally" => Len(p.finally) >= 1
  BY <1>2, <1>3
<1>5. Placed(n, t, y) /\ y # Idle
  BY <1>1, <1>3, <1>4 DEF Placed, Places, Idle, Place, Parts
<1>6. StepAt(n, t, y) # "pub_ready"
  BY <1>1, <1>3, <1>4 DEF StepAt, PutsFirst, Has, Parts
<1>7. x.part \notin {"try", "test", "loop"} => x.part \in {"before", "finally", "ended"}
  BY <1>1 DEF Placed, Places, Parts, Idle, Place
<1> QED
  BY <1>3, <1>5, <1>6, <1>7 DEF Past

\* Where a loop begins.
LEMMA Beginning ==
  ASSUME NEW n, NEW t \in Loops, WellFormed(n), Runs(n[t]), NEW y, y = Entry(n[t])
  PROVE  /\ Placed(n, t, y) /\ y # Idle /\ y.part \notin {"finally", "ended"}
         /\ StepAt(n, t, y) # "pub_ready"
<1> DEFINE p == n[t]
<1>1. p \in Programs /\ PutsFirst(p)
  BY DEF WellFormed
<1>2. \A part \in Parts : p[part] \in Seq(Steps) /\ Len(p[part]) \in Nat
  BY <1>1 DEF Programs, Parts
<1>3. \/ y = [part |-> "before", k |-> 1] /\ p.before # <<>>
      \/ y = [part |-> "try", k |-> 1] /\ p.try # <<>>
      \/ y = [part |-> "test", k |-> 0] /\ p.try = <<>>
  BY DEF Entry, InTry, Test, Place
<1>4. y.part \in Parts => Len(p[y.part]) >= 1 /\ y.k = 1
  BY <1>2, <1>3 DEF Parts
<1>5. y.part = "test" => p.loop # <<>>
  BY <1>3 DEF Runs
<1>6. Placed(n, t, y)
  BY <1>2, <1>3, <1>4, <1>5 DEF Placed, Places, Parts
<1>7. StepAt(n, t, y) # "pub_ready"
  BY <1>1, <1>3, <1>4 DEF StepAt, PutsFirst, Has, Parts
<1> QED
  BY <1>3, <1>6, <1>7 DEF Idle, Place

\* Only a close leads behind the close of the finally block, and nothing opens there.
LEMMA OnwardBehind ==
  ASSUME NEW n, NEW t \in Loops, WellFormed(n), NEW x, Placed(n, t, x), x.part \in Parts,
         StepAt(n, t, x) # "forever", NEW y, y = Then(n[t], x),
         OpensDevice(n[t]), Shuts(n[t]), Behind(n, t, y)
  PROVE  /\ x.part = "finally" /\ StepAt(n, t, x) # "open"
         /\ Behind(n, t, x) \/ StepAt(n, t, x) \in {"close", "try_close"}
<1>1. x \in Places /\ x.k \in 1 .. Len(n[t][x.part]) /\ StepAt(n, t, x) = n[t][x.part][x.k]
  BY DEF Placed, StepAt
<1>2. /\ y.part = "finally" => x.part = "finally" /\ y.k = x.k + 1
      /\ y.part = "ended" => x.part = "finally" /\ x.k = Len(n[t].finally)
  BY Onward
<1>3. PICK k \in Nat : Has(n[t], "finally", k, {"close", "try_close"}) /\ k <= x.k
  <2>1. CASE y.part = "ended"
    BY <2>1, <1>1, <1>2 DEF Shuts, Has, Places
  <2>2. CASE y.part # "ended"
    BY <2>2, <1>1, <1>2 DEF Behind, Places
  <2> QED
    BY <2>1, <2>2
<1>4. x.part = "finally"
  BY <1>2 DEF Behind
<1>5. ~Has(n[t], "finally", x.k, {"open"})
  BY <1>1 DEF Shuts, Places
<1>6. k = x.k \/ k < x.k
  BY <1>1, <1>3 DEF Places
<1>7. Behind(n, t, x) \/ StepAt(n, t, x) \in {"close", "try_close"}
  BY <1>1, <1>3, <1>4, <1>6 DEF Behind, Has
<1> QED
  BY <1>1, <1>4, <1>5, <1>7 DEF Has

\* A step can only open what its program opens.
LEMMA OpensAt ==
  ASSUME NEW n, NEW t \in Loops, NEW x, Placed(n, t, x), StepAt(n, t, x) = "open",
         x.part \in Parts
  PROVE  OpensDevice(n[t])
BY DEF OpensDevice, Has, Placed, Places, StepAt

\* An exception leads behind it only from before the try block or from finally itself.
LEMMA AwayBehind ==
  ASSUME NEW n, NEW t \in Loops, WellFormed(n), NEW x, Placed(n, t, x),
         x # Idle, x.part # "ended", NEW y, y = Escape(n[t], x),
         OpensDevice(n[t]), Shuts(n[t]), Behind(n, t, y)
  PROVE  x.part \in {"before", "finally"}
<1>1. y.part = "finally" => y.k = 1
  BY Away
<1>2. y.part = "ended"
  BY <1>1 DEF Behind, Has
<1>3. n[t].finally # <<>>
  BY DEF Shuts, Has
<1> QED
  BY <1>2, <1>3, Away

-----------------------------------------------------------------------------
(* The steps of a loop *)

PutRaised(raises) == \E r \in raises : r.step \in PutSteps

\* What every step of a loop from its place to y has to show.
LEMMA Moved ==
  ASSUME NodeInv, NEW t \in Loops, NEW y, at' = [at EXCEPT ![t] = y],
         at[t] \notin {Idle, Ended}, Placed(node, t, y), y # Idle,
         UNCHANGED <<node, middleware, caller, node_server, child, timed_out>>,
         raised' \in [Loops -> Raised], opened' \in [Loops -> BOOLEAN],
         {stored', pub_ready_event', req_ready_event', exit_event'} \subseteq BOOLEAN,
         \A u \in Loops \ {t} : raised'[u] = raised[u] /\ opened'[u] = opened[u],
         stored => stored', exit_event => exit_event',
         pub_ready_event => pub_ready_event', req_ready_event => req_ready_event',
         pub_ready_event' \/ StepAt(node, t, y) = "pub_ready" => stored',
         at[t].part \in Past => y.part \in Past,
         req_ready_event' # req_ready_event =>
           /\ y.part \in Past
           /\ \A u \in Loops \ {t} : ~Serves(node[u]),
         Closed(node, t, y, opened'[t], raised'[t]),
         middleware \in {"zmq", "rclpy"} /\ PutRaised(raised'[t])
           => PutRaised(raised[t]) \/ "join" \in timed_out
  PROVE  NodeInv'
<1>1. /\ at'[t] = y /\ at \in [Loops -> Places] /\ y \in Places
      /\ \A u \in Loops \ {t} : at'[u] = at[u]
  BY DEF NodeInv, NodeTypes, Placed
<1>2. NodeTypes'
  BY <1>1 DEF NodeInv, NodeTypes, Raised
<1>3. Unbegun'
  BY <1>1 DEF NodeInv, Unbegun, Loops
<1>4. PutBefore'
  BY <1>1 DEF NodeInv, PutBefore
<1>5. SetUp'
  BY <1>1 DEF NodeInv, SetUp
<1>6. Waited' /\ Told'
  BY DEF NodeInv, Waited, Told
<1>7. Quiet'
  BY <1>1 DEF NodeInv, Quiet, Alive
<1>8. (\A u \in Loops : Closed(node, u, at[u], opened[u], raised[u]))'
  BY <1>1 DEF NodeInv
<1>9. PutUndisturbed'
  BY DEF NodeInv, PutUndisturbed, PutRaised, PutSteps
<1> QED
  BY <1>2, <1>3, <1>4, <1>5, <1>6, <1>7, <1>8, <1>9 DEF NodeInv

\* Where a loop stands that takes a step.
LEMMA Standing ==
  ASSUME NodeInv, NEW t \in Loops
  PROVE  /\ WellFormed(node) /\ Placed(node, t, at[t]) /\ Step(t) = StepAt(node, t, at[t])
         /\ at \in [Loops -> Places]
         /\ Step(t) \in Steps \cup {"idle", "test", "ended"}
         /\ Step(t) = "idle" <=> at[t] = Idle
         /\ Step(t) = "test" <=> at[t].part = "test"
         /\ Step(t) = "ended" <=> at[t] = Ended
         /\ Step(t) \in Steps <=> at[t].part \in Parts
         /\ Alive(t) <=> Step(t) \in Steps \cup {"test"}
         /\ Closed(node, t, at[t], opened[t], raised[t])
         /\ StepAt(node, t, at[t]) = "pub_ready" => stored
<1>1. /\ WellFormed(node) /\ Placed(node, t, at[t]) /\ at \in [Loops -> Places]
      /\ Closed(node, t, at[t], opened[t], raised[t])
      /\ StepAt(node, t, at[t]) = "pub_ready" => stored
  BY DEF NodeInv, NodeTypes, PutBefore
<1>2. Step(t) = StepAt(node, t, at[t])
  BY StepIsStepAt
<1>3. CASE at[t].part \in Parts
  <2>1. node[t][at[t].part] \in Seq(Steps)
    BY <1>1, <1>3 DEF WellFormed, Programs, Parts
  <2>2. Step(t) \in Steps
    BY <1>1, <1>2, <1>3, <2>1 DEF Placed, StepAt
  <2> QED
    BY <1>1, <1>2, <1>3, <2>2
       DEF Steps, Parts, Idle, Ended, Place, Alive
<1>4. CASE at[t].part \notin Parts
  <2>1. /\ at[t].part \in {"idle", "test", "ended"} /\ at[t] = [part |-> at[t].part, k |-> 0]
        /\ Step(t) = at[t].part
    BY <1>1, <1>2, <1>4 DEF Placed, Places, StepAt
  <2> QED
    BY <1>1, <1>2, <1>4, <2>1 DEF Steps, Idle, Ended, Place, Alive
<1> QED
  BY <1>3, <1>4

\* What is left to show of a step that goes on in the program.
LEMMA Proceeding ==
  ASSUME NodeInv, NEW t \in Loops, Proceeds(t), Step(t) \in Steps \ {"forever"},
         LoopOnly,
         raised' \in [Loops -> Raised], opened' \in [Loops -> BOOLEAN],
         {stored', pub_ready_event', req_ready_event', exit_event'} \subseteq BOOLEAN,
         \A u \in Loops \ {t} : raised'[u] = raised[u] /\ opened'[u] = opened[u],
         stored => stored', exit_event => exit_event',
         pub_ready_event => pub_ready_event', req_ready_event => req_ready_event',
         raised[t] \subseteq raised'[t], PutRaised(raised'[t]) => PutRaised(raised[t]),
         opened'[t] => opened[t] \/ Step(t) = "open",
         Step(t) \in {"close", "try_close"} =>
           ~opened'[t] \/ ~Cleanly(raised'[t]) \/ at[t].part # "finally",
         Step(t) \in PutSteps => stored',
         pub_ready_event' => pub_ready_event \/ Step(t) = "pub_ready",
         req_ready_event' => req_ready_event \/ (node.req /\ Step(t) = "req_ready")
  PROVE  NodeInv'
<1> DEFINE x == at[t]
           y == Then(node[t], at[t])
<1>1. /\ WellFormed(node) /\ Placed(node, t, x) /\ Step(t) = StepAt(node, t, x)
      /\ x.part \in Parts /\ x \notin {Idle, Ended}
      /\ Closed(node, t, x, opened[t], raised[t])
      /\ Step(t) = "pub_ready" => stored
  BY Standing, Step(t) \notin {"idle", "ended"} DEF Steps
<1>2. at' = [at EXCEPT ![t] = y]
  BY DEF Proceeds, Moves
<1>3. /\ Placed(node, t, y) /\ y # Idle
      /\ x.part \in Past => y.part \in Past
      /\ StepAt(node, t, y) = "pub_ready" => Step(t) \in PutSteps
      /\ node.req /\ Step(t) = "req_ready" => y.part \in Past
  BY <1>1, Onward
<1>4. Closed(node, t, y, opened'[t], raised'[t])
  <2> SUFFICES ASSUME node.name \notin NeverClosed, opened'[t]
               PROVE  OpensDevice(node[t]) /\ ~(Behind(node, t, y) /\ Cleanly(raised'[t]))
    BY DEF Closed
  <2>1. Shuts(node[t])
    BY <1>1 DEF WellFormed
  <2>2. OpensDevice(node[t])
    BY <1>1, OpensAt DEF Closed
  <2>3. ASSUME Behind(node, t, y), Cleanly(raised'[t]) PROVE FALSE
    <3>1. /\ x.part = "finally" /\ StepAt(node, t, x) # "open"
          /\ Behind(node, t, x) \/ StepAt(node, t, x) \in {"close", "try_close"}
      BY <1>1, <2>1, <2>2, <2>3, OnwardBehind
    <3>2. Cleanly(raised[t])
      BY <2>3 DEF Cleanly
    <3> QED
      BY <1>1, <2>3, <3>1, <3>2 DEF Closed
  <2> QED
    BY <2>2, <2>3
<1>5. pub_ready_event' \/ StepAt(node, t, y) = "pub_ready" => stored'
  BY <1>1, <1>3 DEF NodeInv, PutBefore
<1>6. req_ready_event' # req_ready_event =>
        y.part \in Past /\ \A u \in Loops \ {t} : ~Serves(node[u])
  <2> SUFFICES ASSUME req_ready_event' # req_ready_event
               PROVE  y.part \in Past /\ \A u \in Loops \ {t} : ~Serves(node[u])
    OBVIOUS
  <2>1. node.req /\ Step(t) = "req_ready"
    BY DEF NodeInv, NodeTypes
  <2>2. x.k \in Nat /\ Has(node[t], x.part, x.k, {"req_ready"})
    BY <1>1, <2>1 DEF Placed, Places, StepAt, Has
  <2>3. ReadyLast(node, t)
    BY <1>1 DEF WellFormed
  <2> QED
    BY <1>1, <1>3, <2>1, <2>2, <2>3 DEF ReadyLast
<1>7. UNCHANGED <<node, middleware, caller, node_server, child, timed_out>>
  BY DEF LoopOnly
<1> QED
  BY <1>1, <1>2, <1>3, <1>4, <1>5, <1>6, <1>7, Moved

LEMMA RaisedMore ==
  ASSUME raised \in [Loops -> Raised], NEW t \in Loops,
         NEW part \in Parts \cup {"test", "killed"},
         NEW step \in Steps \cup {"test", "interrupt", "killed"},
         raised' = [raised EXCEPT ![t] = @ \cup {[part |-> part, step |-> step]}]
  PROVE  /\ raised' \in [Loops -> Raised]
         /\ \A u \in Loops \ {t} : raised'[u] = raised[u]
         /\ raised'[t] = raised[t] \cup {[part |-> part, step |-> step]}
<1>1. {[part |-> part, step |-> step]} \in Raised
  BY DEF Raised
<1>2. raised[t] \cup {[part |-> part, step |-> step]} \in Raised
  BY <1>1 DEF Raised
<1> QED
  BY <1>2

LEMMA RaisedOnce ==
  ASSUME NEW raises, NEW part, NEW step, NEW more,
         more = raises \cup {[part |-> part, step |-> step]}
  PROVE  /\ Cleanly(more) => Cleanly(raises) /\ part \notin {"before", "finally", "killed"}
         /\ PutRaised(more) => PutRaised(raises) \/ step \in PutSteps
<1>1. [part |-> part, step |-> step] \in more /\ raises \subseteq more
  OBVIOUS
<1>2. Cleanly(more) => Cleanly(raises)
  BY <1>1 DEF Cleanly
<1>3. Cleanly(more) => [part |-> part, step |-> step].part \notin {"before", "finally", "killed"}
  BY <1>1 DEF Cleanly
<1>4. ASSUME NEW r \in more, r.step \in PutSteps PROVE PutRaised(raises) \/ step \in PutSteps
  <2>1. CASE r \in raises
    BY <1>4, <2>1 DEF PutRaised
  <2>2. CASE r = [part |-> part, step |-> step]
    BY <1>4, <2>2
  <2> QED
    BY <2>1, <2>2
<1> QED
  BY <1>2, <1>3, <1>4 DEF PutRaised

LEMMA LoopKeeps ==
  ASSUME NodeInv, NEW t \in Loops,
         LoopStep(t) \/ Await(t) \/ Raise(t) \/ Swallow(t)
  PROVE  NodeInv'
<1>0. /\ raised \in [Loops -> Raised] /\ opened \in [Loops -> BOOLEAN]
      /\ {stored, pub_ready_event, req_ready_event, exit_event} \subseteq BOOLEAN
      /\ WellFormed(node) /\ Placed(node, t, at[t]) /\ Step(t) = StepAt(node, t, at[t])
  BY Standing DEF NodeInv, NodeTypes, Raised
<1> USE DEF loops, node_events
<1>1. CASE TestExit(t)
  <2> DEFINE y == IF exit_event THEN InFinally(node[t]) ELSE Place("loop", 1)
  <2>1. /\ at[t].part = "test" /\ at[t] \notin {Idle, Ended}
        /\ at' = [at EXCEPT ![t] = y]
        /\ Closed(node, t, at[t], opened[t], raised[t])
    BY <1>1, Standing DEF TestExit, Moves, Idle, Ended, Place
  <2>2. CASE exit_event
    <3>1. y = Escape(node[t], at[t])
      BY <2>1, <2>2 DEF Escape
    <3>2. /\ Placed(node, t, y) /\ y # Idle /\ y.part \in Past
          /\ StepAt(node, t, y) # "pub_ready"
      BY <1>0, <2>1, <3>1, Away
    <3>3. Closed(node, t, y, opened[t], raised[t])
      BY <1>0, <2>1, <3>1, AwayBehind DEF Closed, WellFormed
    <3> QED
      BY <1>0, <1>1, <2>1, <3>2, <3>3, Moved
         DEF TestExit, LoopOnly, NodeInv, PutBefore
  <2>3. CASE ~exit_event
    <3>1. /\ node[t].loop # <<>> /\ node[t].loop \in Seq(Steps) /\ Runs(node[t])
          /\ PutsFirst(node[t])
      BY <1>0, <2>1 DEF Placed, WellFormed, Programs
    <3>2. y = [part |-> "loop", k |-> 1] /\ Len(node[t].loop) \in Nat /\ Len(node[t].loop) >= 1
      BY <2>3, <3>1 DEF Place
    <3>3. Placed(node, t, y) /\ y # Idle /\ StepAt(node, t, y) # "pub_ready"
      BY <3>1, <3>2 DEF Placed, Places, StepAt, PutsFirst, Has, Parts, Idle, Place
    <3>4. Closed(node, t, y, opened[t], raised[t])
      BY <2>1, <3>2 DEF Closed, Behind
    <3> QED
      BY <1>0, <1>1, <2>1, <3>2, <3>3, <3>4, Moved
         DEF TestExit, LoopOnly, NodeInv, PutBefore, Past
  <2> QED
    BY <2>2, <2>3
<1>2. CASE Use(t)
  BY <1>0, <1>2, Proceeding DEF Use, LoopOnly, Steps, PutSteps
<1>3. CASE Connect(t)
  BY <1>0, <1>3, Proceeding DEF Connect, LoopOnly, Steps, PutSteps
<1>4. CASE Await(t)
  BY <1>0, <1>4, Proceeding DEF Await, LoopOnly, Steps, PutSteps
<1>5. CASE Frame(t)
  <2>1. CASE Proceeds(t)
    BY <1>0, <1>5, <2>1, Proceeding DEF Frame, NextFrame, LoopOnly, Steps, PutSteps
  <2>2. CASE ~Proceeds(t)
    <3>1. PICK y \in {Test, Place("loop", at[t].k + 3)} :
            /\ at' = [at EXCEPT ![t] = y]
            /\ Step(t) \in {"frame", "grab"}
            /\ y # Test => Step(t) = "grab"
      BY <1>5, <2>2 DEF Frame, NextFrame, Moves
    <3>2. /\ at[t].part \in Parts /\ at[t].k \in Nat /\ at[t] \notin {Idle, Ended}
          /\ Has(node[t], at[t].part, at[t].k, {"frame", "grab"})
          /\ Closed(node, t, at[t], opened[t], raised[t])
      BY <1>0, <3>1, Standing DEF Placed, Places, StepAt, Has, Steps
    <3>3. Jumps(node[t]) /\ Runs(node[t])
      BY <1>0, <3>2 DEF WellFormed, Placed
    <3>4. at[t].part = "loop" /\ node[t].loop # <<>>
      BY <1>0, <3>2, <3>3 DEF Jumps, Placed
    <3>5. y # Test => at[t].k + 3 \in 1 .. Len(node[t].loop)
                           /\ node[t].loop[at[t].k + 3] # "pub_ready"
      BY <1>0, <3>1, <3>2, <3>3, <3>4 DEF Jumps, Has, StepAt
    <3>6. /\ Placed(node, t, y) /\ y # Idle /\ StepAt(node, t, y) # "pub_ready"
          /\ y.part \in {"test", "loop"}
      BY <3>1, <3>2, <3>3, <3>4, <3>5
         DEF Placed, Places, StepAt, Parts, Idle, Test, Place
    <3>7. Closed(node, t, y, opened[t], raised[t])
      BY <3>2, <3>6 DEF Closed, Behind
    <3> QED
      BY <1>0, <1>5, <3>1, <3>2, <3>6, <3>7, Moved
         DEF Frame, LoopOnly, NodeInv, PutBefore, Past
  <2> QED
    BY <2>1, <2>2
<1>6. CASE Drain(t)
  <2>1. /\ Proceeds(t) /\ Step(t) = "drain" /\ LoopOnly
        /\ UNCHANGED <<raised, opened, stored, pub_ready_event, req_ready_event>>
    BY <1>6 DEF Drain
  <2>2. exit_event' = exit_event \/ exit_event' = TRUE
    BY <1>6 DEF Drain
  <2>3. exit_event' \in BOOLEAN /\ (exit_event => exit_event')
    <3>1. CASE exit_event' = exit_event
      BY <1>0, <3>1
    <3>2. CASE exit_event' = TRUE
      BY <3>2
    <3> QED
      BY <2>2, <3>1, <3>2
  <2> QED
    BY <1>0, <2>1, <2>3, Proceeding DEF Steps, PutSteps
<1>7. CASE Put(t)
  <2>1. Proceeds(t) /\ Step(t) \in PutSteps /\ stored' = TRUE /\ LoopOnly
        /\ UNCHANGED <<raised, opened, pub_ready_event, req_ready_event, exit_event>>
    BY <1>7 DEF Put, Puts, PutSteps
  <2>2. Step(t) \in
          Steps \ {"forever", "open", "close", "try_close", "pub_ready", "req_ready"}
    BY <2>1 DEF PutSteps, Steps
  <2> QED
    BY <1>0, <2>1, <2>2, Proceeding
<1>8. CASE SetReadyEvent(t)
  <2>1. /\ Proceeds(t) /\ LoopOnly /\ UNCHANGED <<raised, opened, stored, exit_event>>
        /\ \/ /\ Step(t) = "pub_ready" /\ pub_ready_event' = TRUE
              /\ req_ready_event' = req_ready_event
           \/ /\ Step(t) = "req_ready" /\ node.req /\ req_ready_event' = TRUE
              /\ pub_ready_event' = pub_ready_event
    BY <1>8 DEF SetReadyEvent
  <2>2. Step(t) \in Steps \ {"forever", "open", "close", "try_close", "put", "put_now"}
    BY <2>1 DEF Steps
  <2>3. {pub_ready_event', req_ready_event'} \subseteq BOOLEAN
    BY <1>0, <2>1
  <2> QED
    BY <1>0, <2>1, <2>2, <2>3, Proceeding DEF PutSteps
<1>9. CASE Swallow(t)
  <2>1. raised' = [raised EXCEPT ![t] = @ \cup {[part |-> at[t].part, step |-> Step(t)]}]
    BY <1>9 DEF Swallow, RaisesAt
  <2>2. Step(t) \in {"try_use", "try_close"} /\ Proceeds(t) /\ LoopOnly
        /\ UNCHANGED <<opened, stored, node_events>>
    BY <1>9 DEF Swallow
  <2>3. at[t].part \in Parts /\ Step(t) \in Steps
    BY <2>2, Standing DEF Steps
  <2>4. /\ raised' \in [Loops -> Raised]
        /\ \A u \in Loops \ {t} : raised'[u] = raised[u]
        /\ raised'[t] = raised[t] \cup {[part |-> at[t].part, step |-> Step(t)]}
    BY <1>0, <2>1, <2>3, RaisedMore
  <2>5. PutRaised(raised'[t]) => PutRaised(raised[t])
    <3>1. Step(t) \notin PutSteps
      BY <2>2 DEF PutSteps
    <3> QED
      BY <2>4, <3>1, RaisedOnce
  <2>6. Cleanly(raised'[t]) => at[t].part # "finally"
    BY <2>4, RaisedOnce
  <2> QED
    BY <1>0, <2>2, <2>4, <2>5, <2>6, Proceeding DEF Steps, PutSteps
<1>10. CASE Raise(t)
  <2> DEFINE y == Escape(node[t], at[t])
  <2>1. /\ raised' = [raised EXCEPT ![t] = @ \cup {[part |-> at[t].part, step |-> Step(t)]}]
        /\ at' = [at EXCEPT ![t] = y] /\ MayRaise(t) /\ LoopOnly
        /\ stored' = (stored \/ (Puts(t) /\ PublisherClosed))
        /\ UNCHANGED <<opened, node_events>>
    BY <1>10 DEF Raise, RaisesAt, Moves
  <2>2. Step(t) \in Steps
    BY <2>1 DEF MayRaise, Device, Puts, Steps
  <2>3. /\ at[t].part \in Parts /\ at[t] \notin {Idle, Ended} /\ Alive(t)
        /\ Closed(node, t, at[t], opened[t], raised[t])
    BY <2>2, Standing DEF Steps
  <2>4. /\ raised' \in [Loops -> Raised]
        /\ \A u \in Loops \ {t} : raised'[u] = raised[u]
        /\ raised'[t] = raised[t] \cup {[part |-> at[t].part, step |-> Step(t)]}
    BY <1>0, <2>1, <2>2, <2>3, RaisedMore
  <2>5. /\ stored' \in BOOLEAN
        /\ Cleanly(raised'[t]) => Cleanly(raised[t]) /\ at[t].part \notin {"before", "finally"}
        /\ PutRaised(raised'[t]) => PutRaised(raised[t]) \/ Step(t) \in PutSteps
    BY <1>0, <2>1, <2>4, RaisedOnce
  <2>6. /\ Placed(node, t, y) /\ y # Idle /\ y.part \in Past
        /\ StepAt(node, t, y) # "pub_ready"
    BY <1>0, <2>3, Away
  <2>7. Closed(node, t, y, opened[t], raised'[t])
    BY <1>0, <2>3, <2>5, AwayBehind DEF Closed, WellFormed, Parts
  <2>8. middleware \in {"zmq", "rclpy"} /\ Step(t) \in PutSteps => "join" \in timed_out
    BY <2>1, <2>3 DEF MayRaise, Device, Puts, PutSteps, PublisherClosed,
                      NodeInv, Quiet
  <2>9. UNCHANGED <<node, middleware, caller, node_server, child, timed_out, opened,
                    pub_ready_event, req_ready_event, exit_event>>
    BY <2>1 DEF LoopOnly
  <2>10. (stored => stored') /\ (pub_ready_event => stored')
    BY <1>0, <2>1 DEF NodeInv, PutBefore
  <2>11. {stored', pub_ready_event', req_ready_event', exit_event'} \subseteq BOOLEAN
    BY <1>0, <2>5, <2>9
  <2>12. /\ opened' \in [Loops -> BOOLEAN]
         /\ \A u \in Loops \ {t} : opened'[u] = opened[u]
    BY <1>0, <2>9
  <2>13. Closed(node, t, y, opened'[t], raised'[t])
    BY <2>7, <2>9
  <2>14. middleware \in {"zmq", "rclpy"} /\ PutRaised(raised'[t])
           => PutRaised(raised[t]) \/ "join" \in timed_out
    BY <2>5, <2>8
  <2>15. pub_ready_event' \/ StepAt(node, t, y) = "pub_ready" => stored'
    BY <2>6, <2>9, <2>10
  <2> HIDE DEF y
  <2>16. at' = [at EXCEPT ![t] = y] /\ at[t] \notin {Idle, Ended}
    BY <2>1, <2>3
  <2>17. UNCHANGED <<node, middleware, caller, node_server, child, timed_out>>
    BY <2>9
  <2>18. \A u \in Loops \ {t} : raised'[u] = raised[u] /\ opened'[u] = opened[u]
    BY <2>4, <2>12
  <2>19. /\ stored => stored'
         /\ exit_event => exit_event'
         /\ pub_ready_event => pub_ready_event'
         /\ req_ready_event => req_ready_event'
    BY <2>9, <2>10
  <2>20. req_ready_event' # req_ready_event =>
           /\ y.part \in Past
           /\ \A u \in Loops \ {t} : ~Serves(node[u])
    BY <2>9
  <2>21. Placed(node, t, y) /\ y # Idle /\ (at[t].part \in Past => y.part \in Past)
    BY <2>6
  <2> QED
    BY <2>4, <2>11, <2>12, <2>13, <2>14, <2>15, <2>16, <2>17, <2>18, <2>19, <2>20, <2>21, Moved
<1> QED
  BY <1>1, <1>2, <1>3, <1>4, <1>5, <1>6, <1>7, <1>8, <1>9, <1>10 DEF LoopStep

-----------------------------------------------------------------------------
(* The steps of the processes *)

\* What a step that leaves the loops where they are has to show.
LEMMA Aside ==
  ASSUME NodeInv,
         UNCHANGED <<node, middleware, at, raised, opened, stored, pub_ready_event,
                     req_ready_event>>,
         exit_event' \in BOOLEAN, timed_out \subseteq timed_out',
         Unbegun', Waited', Told', Quiet'
  PROVE  NodeInv'
<1>1. NodeTypes'
  BY DEF NodeInv, NodeTypes
<1>2. PutBefore' /\ SetUp'
  BY DEF NodeInv, PutBefore, SetUp
<1>3. (\A t \in Loops : Closed(node, t, at[t], opened[t], raised[t]))'
  BY DEF NodeInv
<1>4. PutUndisturbed'
  BY DEF NodeInv, PutUndisturbed
<1> QED
  BY <1>1, <1>2, <1>3, <1>4 DEF NodeInv

\* What a step that begins loop t has to show.
LEMMA Begun ==
  ASSUME NodeInv, NEW t \in Loops, at[t] = Idle, Runs(node[t]), Begins(t),
         UNCHANGED <<node, middleware, raised, opened, stored, pub_ready_event,
                     req_ready_event, exit_event, timed_out>>,
         Unbegun', Waited', Told', Quiet'
  PROVE  NodeInv'
<1> DEFINE y == Entry(node[t])
<1>1. /\ WellFormed(node) /\ at \in [Loops -> Places]
      /\ Closed(node, t, at[t], opened[t], raised[t])
  BY DEF NodeInv, NodeTypes
<1>2. /\ Placed(node, t, y) /\ y.part \notin {"finally", "ended"}
      /\ StepAt(node, t, y) # "pub_ready"
  BY <1>1, Beginning
<1>3. at' = [at EXCEPT ![t] = y]
  BY DEF Begins
<1> HIDE DEF y
<1>4. at'[t] = y /\ y \in Places /\ \A u \in Loops \ {t} : at'[u] = at[u]
  BY <1>1, <1>2, <1>3 DEF Placed
<1>5. NodeTypes'
  BY <1>1, <1>2, <1>3, <1>4 DEF NodeInv, NodeTypes
<1>6. PutBefore'
  BY <1>2, <1>4 DEF NodeInv, PutBefore
<1>7. SetUp'
  BY <1>4 DEF NodeInv, SetUp, Past, Idle, Place
<1>8. (\A u \in Loops : Closed(node, u, at[u], opened[u], raised[u]))'
  <2>1. Closed(node, t, y, opened[t], raised[t])
    BY <1>1, <1>2 DEF Closed, Behind
  <2> QED
    BY <2>1, <1>4 DEF NodeInv
<1>9. PutUndisturbed'
  BY DEF NodeInv, PutUndisturbed
<1> QED
  BY <1>5, <1>6, <1>7, <1>8, <1>9 DEF NodeInv

LEMMA CallerKeeps ==
  ASSUME NodeInv, CallerStep \/ StopNode \/ ServerEnds
  PROVE  NodeInv'
<1>0. /\ WellFormed(node) /\ exit_event \in BOOLEAN
      /\ Unbegun /\ Waited /\ Told /\ Quiet
  BY DEF NodeInv, NodeTypes
<1> USE DEF CallerOnly, node_events, StartReturned
<1>1. CASE Built
  BY <1>0, <1>1, Aside DEF Built, Unbegun, Waited, Told, Quiet, Alive
<1>2. CASE StartWorker
  <2>1. CASE HasWorker
    <3>1. Runs(node.worker) /\ "worker" \in Loops
      BY <1>0, <2>1 DEF WellFormed, HasWorker, Loops
    <3>2. at["worker"] = Idle /\ Begins("worker")
      BY <1>0, <1>2, <2>1 DEF Unbegun, StartWorker, Loops
    <3>3. Unbegun'
      BY <1>0, <1>2, <3>2 DEF Unbegun, StartWorker, Loops, Begins
    <3>4. Waited' /\ Told' /\ Quiet'
      BY <1>0, <1>2 DEF Waited, Told, Quiet, StartWorker
    <3> QED
      BY <1>2, <3>1, <3>2, <3>3, <3>4, Begun DEF StartWorker
  <2>2. CASE ~HasWorker
    BY <1>0, <1>2, <2>2, Aside
       DEF StartWorker, Unbegun, Waited, Told, Quiet, Alive, Loops
  <2> QED
    BY <2>1, <2>2
<1>3. CASE StartMain
  <2>1. Runs(node.main) /\ "main" \in Loops /\ at["main"] = Idle
    BY <1>0, <1>3 DEF WellFormed, Loops, Unbegun, StartMain
  <2>2. Unbegun'
    BY <1>0, <1>3 DEF Unbegun, StartMain
  <2>3. Waited' /\ Told' /\ Quiet'
    BY <1>0, <1>3 DEF Waited, Told, Quiet, StartMain
  <2> QED
    BY <1>3, <2>1, <2>2, <2>3, Begun DEF StartMain
<1>4. CASE StartChild
  BY <1>0, <1>4, Aside DEF StartChild, Unbegun, Waited, Told, Quiet, Alive
<1>5. CASE Receive
  BY <1>0, <1>5, Aside DEF Receive, Unbegun, Waited, Told, Quiet, Alive
<1>6. CASE WaitPub
  BY <1>0, <1>6, Aside
     DEF WaitPub, TimesOut, Unbegun, Waited, Told, Quiet, Alive
<1>7. CASE WaitReq
  BY <1>0, <1>7, Aside
     DEF WaitReq, TimesOut, Unbegun, Waited, Told, Quiet, Alive
<1>8. CASE AssertAlive
  BY <1>0, <1>8, Aside
     DEF AssertAlive, Unbegun, Waited, Told, Quiet, Alive
<1>9. CASE StartServer
  BY <1>0, <1>9, Aside
     DEF StartServer, Unbegun, Waited, Told, Quiet, Alive
<1>10. CASE LoopsJoined
  BY <1>0, <1>10, Aside
     DEF LoopsJoined, TimesOut, Serving, Unbegun, Waited, Told, Quiet, Alive
<1>11. CASE CloseServer
  BY <1>0, <1>11, Aside
     DEF CloseServer, Unbegun, Waited, Told, Quiet, Alive
<1>12. CASE StopNode
  BY <1>0, <1>12, Aside
     DEF StopNode, Unbegun, Waited, Told, Quiet, Alive
<1>13. CASE ServerEnds
  BY <1>0, <1>13, Aside
     DEF ServerEnds, Unbegun, Waited, Told, Quiet, Alive
<1> QED
  BY <1>1, <1>2, <1>3, <1>4, <1>5, <1>6, <1>7, <1>8, <1>9, <1>10, <1>11, <1>12, <1>13
     DEF CallerStep

LEMMA ChildEndsKeeps ==
  ASSUME NodeInv, ChildEnds, middleware = "shm", caller \notin {"building", "new"},
         UNCHANGED <<node, middleware, caller, node_server, opened, stored, pub_ready_event,
                     req_ready_event, exit_event, timed_out>>
  PROVE  NodeInv'
<1> DEFINE t == "worker"
           y == IF at[t] = Idle THEN Idle ELSE Ended
<1>0. /\ t \in Loops /\ WellFormed(node) /\ at \in [Loops -> Places]
      /\ raised \in [Loops -> Raised] /\ Placed(node, t, at[t])
      /\ Closed(node, t, at[t], opened[t], raised[t])
  BY DEF NodeInv, NodeTypes, Loops
<1>1. at' = [at EXCEPT ![t] = y]
  BY DEF ChildEnds
<1>2. Placed(node, t, y) /\ StepAt(node, t, y) # "pub_ready" /\ y \in Places
  BY <1>0 DEF Placed, StepAt, Places, Idle, Ended, Place, Parts
<1>3. at'[t] = y /\ \A u \in Loops \ {t} : at'[u] = at[u]
  BY <1>0, <1>1
<1>4. /\ raised' \in [Loops -> Raised]
      /\ \A u \in Loops \ {t} : raised'[u] = raised[u]
      /\ \/ raised'[t] = raised[t] /\ y = at[t]
         \/ ~Cleanly(raised'[t]) /\ y = Ended
  <2>1. CASE Alive(t)
    <3>1. raised' = [raised EXCEPT ![t] = @ \cup {[part |-> "killed", step |-> "killed"]}]
      BY <2>1 DEF ChildEnds, RaisesAt
    <3>2. /\ raised' \in [Loops -> Raised]
          /\ \A u \in Loops \ {t} : raised'[u] = raised[u]
          /\ raised'[t] = raised[t] \cup {[part |-> "killed", step |-> "killed"]}
      BY <1>0, <3>1, RaisedMore
    <3>3. ~Cleanly(raised'[t])
      BY <3>2, RaisedOnce
    <3> QED
      BY <2>1, <3>2, <3>3 DEF Alive
  <2>2. CASE ~Alive(t)
    BY <1>0, <2>2 DEF ChildEnds, Alive
  <2> QED
    BY <2>1, <2>2
<1>5. Closed(node, t, y, opened[t], raised'[t])
  BY <1>0, <1>4 DEF Closed
<1>6. NodeTypes'
  BY <1>1, <1>2, <1>3, <1>4 DEF NodeInv, NodeTypes
<1>7. Unbegun'
  BY <1>3 DEF NodeInv, Unbegun, ChildEnds
<1>8. PutBefore'
  BY <1>2, <1>3 DEF NodeInv, PutBefore
<1>9. SetUp'
  BY <1>3 DEF NodeInv, SetUp, Past, Idle, Ended, Place
<1>10. Waited' /\ Told' /\ Quiet'
  BY DEF NodeInv, Waited, Told, Quiet
<1>11. (\A u \in Loops : Closed(node, u, at[u], opened[u], raised[u]))'
  BY <1>3, <1>4, <1>5 DEF NodeInv
<1>12. PutUndisturbed'
  BY DEF PutUndisturbed
<1> QED
  BY <1>6, <1>7, <1>8, <1>9, <1>10, <1>11, <1>12 DEF NodeInv

LEMMA ChildKeeps ==
  ASSUME NodeInv, ChildStep
  PROVE  NodeInv'
<1>0. /\ WellFormed(node) /\ exit_event \in BOOLEAN
      /\ Unbegun /\ Waited /\ Told /\ Quiet
  BY DEF NodeInv, NodeTypes
<1> USE DEF ChildOnly, node_events
<1>1. CASE BuildShared
  BY <1>0, <1>1, Aside DEF BuildShared, Unbegun, Waited, Told, Quiet, Alive
<1>2. CASE ChildStartsWorker
  <2>1. CASE HasWorker
    <3>1. Runs(node.worker) /\ "worker" \in Loops
      BY <1>0, <2>1 DEF WellFormed, HasWorker, Loops
    <3>2. at["worker"] = Idle /\ Begins("worker")
      BY <1>0, <1>2, <2>1 DEF Unbegun, ChildStartsWorker, Loops
    <3>3. Unbegun'
      BY <1>0, <1>2, <3>2 DEF Unbegun, ChildStartsWorker, Loops, Begins
    <3>4. Waited' /\ Told' /\ Quiet'
      BY <1>0, <1>2 DEF Waited, Told, Quiet, ChildStartsWorker, Unbegun
    <3> QED
      BY <1>2, <3>1, <3>2, <3>3, <3>4, Begun DEF ChildStartsWorker
  <2>2. CASE ~HasWorker
    BY <1>0, <1>2, <2>2, Aside
       DEF ChildStartsWorker, Unbegun, Waited, Told, Quiet, Alive, Loops
  <2> QED
    BY <2>1, <2>2
<1>3. CASE ChildRuns
  <2>1. CASE HasWorker => Alive("worker")
    <3>1. Runs(node.main) /\ "main" \in Loops /\ at["main"] = Idle
      BY <1>0, <1>3 DEF WellFormed, Loops, Unbegun, ChildRuns
    <3>2. Unbegun'
      BY <1>0, <1>3, <2>1 DEF Unbegun, ChildRuns
    <3>3. Waited' /\ Told' /\ Quiet'
      BY <1>0, <1>3, <2>1 DEF Waited, Told, Quiet, ChildRuns, Unbegun
    <3> QED
      BY <1>3, <2>1, <3>1, <3>2, <3>3, Begun DEF ChildRuns
  <2>2. CASE ~(HasWorker => Alive("worker"))
    BY <1>0, <1>3, <2>2, ChildEndsKeeps DEF ChildRuns, Unbegun
  <2> QED
    BY <2>1, <2>2
<1>4. CASE ChildStops
  BY <1>0, <1>4, Aside DEF ChildStops, Unbegun, Waited, Told, Quiet, Alive
<1>5. CASE ChildJoined
  BY <1>0, <1>5, ChildEndsKeeps DEF ChildJoined, Unbegun
<1> QED
  BY <1>1, <1>2, <1>3, <1>4, <1>5 DEF ChildStep

LEMMA InterruptKeeps ==
  ASSUME NodeInv, InterruptCaller \/ InterruptChild
  PROVE  NodeInv'
<1>0. /\ WellFormed(node) /\ exit_event \in BOOLEAN
      /\ Unbegun /\ Waited /\ Told /\ Quiet
  BY DEF NodeInv, NodeTypes
<1>1. CASE InterruptCaller
  <2>1. UNCHANGED <<node, middleware, node_server, child, at, raised, opened, stored,
                    pub_ready_event, req_ready_event, timed_out>>
    BY <1>1 DEF InterruptCaller, loops
  <2>2. \/ caller = "running" /\ caller' = "joining" /\ exit_event' = TRUE
        \/ caller \in {"joining", "closing"} /\ caller' = "stopped" /\ exit_event' = exit_event
        \/ /\ caller \in
                {"starting", "receiving", "pub_wait", "req_wait", "checking", "launching"}
           /\ caller' = "failed" /\ exit_event' = exit_event
    BY <1>1 DEF InterruptCaller
  <2>3. Unbegun' /\ Waited' /\ Told' /\ Quiet' /\ exit_event' \in BOOLEAN
    BY <1>0, <2>1, <2>2 DEF Unbegun, Waited, Told, Quiet, Alive, StartReturned
  <2> QED
    BY <2>1, <2>3, Aside
<1>2. CASE InterruptChild
  <2>0. UNCHANGED <<node, middleware, caller, node_server, opened, stored, timed_out,
                    pub_ready_event, req_ready_event, exit_event>>
    BY <1>2 DEF InterruptChild, ChildOnly, node_events
  <2>1. CASE child = "building" /\ child' = "failed" /\ UNCHANGED <<at, raised>>
    BY <1>0, <2>0, <2>1, Aside DEF Unbegun, Waited, Told, Quiet, Alive
  <2>2. CASE child \in {"sent", "started", "joining"} /\ ChildEnds
    BY <1>0, <2>0, <2>2, ChildEndsKeeps DEF Unbegun
  <2>3. CASE /\ child = "running" \/ middleware = "shmf"
             /\ Alive("main") /\ UNCHANGED child
             /\ Moves("main", Escape(node.main, at["main"]))
             /\ RaisesAt("main", at["main"].part, "interrupt")
    <3> DEFINE t == "main"
               y == Escape(node[t], at[t])
    <3>1. /\ t \in Loops /\ Placed(node, t, at[t]) /\ at[t] \notin {Idle, Ended}
          /\ Closed(node, t, at[t], opened[t], raised[t])
          /\ at[t].part \in Parts \cup {"test"}
      BY <2>3, Standing DEF Loops, Alive
    <3>2. raised \in [Loops -> Raised] /\ opened \in [Loops -> BOOLEAN]
          /\ {stored, pub_ready_event, req_ready_event, exit_event} \subseteq BOOLEAN
          /\ (pub_ready_event => stored)
      BY DEF NodeInv, NodeTypes, PutBefore
    <3>3. at' = [at EXCEPT ![t] = y]
      BY <2>3 DEF Moves
    <3>4. /\ raised' \in [Loops -> Raised]
          /\ \A u \in Loops \ {t} : raised'[u] = raised[u]
          /\ raised'[t] = raised[t] \cup {[part |-> at[t].part, step |-> "interrupt"]}
      BY <2>3, <3>1, <3>2, RaisedMore DEF RaisesAt
    <3>5. /\ Cleanly(raised'[t]) => Cleanly(raised[t]) /\ at[t].part \notin {"before", "finally"}
          /\ PutRaised(raised'[t]) => PutRaised(raised[t])
      <4>1. "interrupt" \notin PutSteps
        BY DEF PutSteps
      <4> QED
        BY <3>4, <4>1, RaisedOnce
    <3>6. /\ Placed(node, t, y) /\ y # Idle /\ y.part \in Past
          /\ StepAt(node, t, y) # "pub_ready"
      BY <1>0, <3>1, Away
    <3>7. Closed(node, t, y, opened[t], raised'[t])
      BY <1>0, <3>1, <3>5, AwayBehind DEF Closed, WellFormed, Ended, Parts
    <3> HIDE DEF y, t
    <3> QED
      BY <2>0, <2>3, <3>1, <3>2, <3>3, <3>4, <3>5, <3>6, <3>7, Moved
  <2> QED
    BY <1>2, <2>1, <2>2, <2>3 DEF InterruptChild
<1> QED
  BY <1>1, <1>2

LEMMA InitNode ==
  ASSUME \A n \in Catalogue : WellFormed(n), NodeInit
  PROVE  NodeInv
<1>1. /\ WellFormed(node) /\ at = [t \in Loops |-> Idle]
      /\ raised = [t \in Loops |-> {}] /\ opened = [t \in Loops |-> FALSE]
      /\ stored = FALSE /\ pub_ready_event = FALSE /\ req_ready_event = FALSE
      /\ exit_event = FALSE /\ timed_out = {}
      /\ child = "none" /\ caller \in {"building", "new"}
      /\ node_server \in {"none", "bound", "serving"}
  BY DEF NodeInit
<1>2. Idle = [part |-> "idle", k |-> 0]
  BY DEF Idle, Place
<1>3. NodeTypes
  BY <1>1, <1>2 DEF NodeTypes, Places, Placed, Parts, Raised
<1>4. Unbegun
  BY <1>1 DEF Unbegun
<1>5. PutBefore
  BY <1>1, <1>2 DEF PutBefore, StepAt, Parts
<1>6. SetUp /\ Waited /\ Told /\ Quiet
  BY <1>1 DEF SetUp, Waited, Told, Quiet, StartReturned
<1>7. \A t \in Loops : Closed(node, t, at[t], opened[t], raised[t])
  BY <1>1, <1>2 DEF Closed, Behind
<1>8. PutUndisturbed
  BY <1>1 DEF PutUndisturbed
<1> QED
  BY <1>3, <1>4, <1>5, <1>6, <1>7, <1>8 DEF NodeInv

LEMMA NextNode == NodeInv /\ [NodeNext]_nodevars => NodeInv'
<1> SUFFICES ASSUME NodeInv, [NodeNext]_nodevars PROVE NodeInv'
  OBVIOUS
<1>1. CASE CallerStep \/ StopNode \/ ServerEnds
  BY <1>1, CallerKeeps
<1>2. CASE ChildStep
  BY <1>2, ChildKeeps
<1>3. CASE InterruptCaller \/ InterruptChild
  BY <1>3, InterruptKeeps
<1>4. ASSUME NEW t \in Loops,
             LoopStep(t) \/ Await(t) \/ Raise(t) \/ Swallow(t)
      PROVE  NodeInv'
  BY <1>4, LoopKeeps
<1>5. CASE UNCHANGED nodevars
  <2>1. UNCHANGED <<node, middleware, caller, node_server, child, at, raised, opened, stored,
                    pub_ready_event, req_ready_event, exit_event, timed_out>>
    BY <1>5 DEF nodevars, loops, node_events
  <2>2. exit_event' \in BOOLEAN /\ timed_out \subseteq timed_out'
    BY <2>1 DEF NodeInv, NodeTypes
  <2>3. Unbegun' /\ Waited' /\ Told' /\ Quiet'
    BY <2>1 DEF NodeInv, Unbegun, Waited, Told, Quiet, Alive
  <2> QED
    BY <2>1, <2>2, <2>3, Aside
<1> QED
  BY <1>1, <1>2, <1>3, <1>4, <1>5 DEF NodeNext, OtherStep

-----------------------------------------------------------------------------
(* Theorems about the life of a node *)

LEMMA ReadyMeans == NodeInv => ReadyMeansServing
<1> SUFFICES ASSUME NodeInv, caller \in StartReturned, timed_out \subseteq {"join"}
             PROVE  /\ stored
                    /\ \A t \in Loops : Serves(node[t]) =>
                         at[t].part \in {"test", "loop", "finally", "ended"}
  BY DEF ReadyMeansServing, StartReturned
<1>1. pub_ready_event /\ (~node.req \/ req_ready_event)
  BY DEF NodeInv, Waited
<1>2. stored
  BY <1>1 DEF NodeInv, PutBefore
<1>3. ASSUME NEW t \in Loops, Serves(node[t]) PROVE at[t].part \in Past
  BY <1>1, <1>3 DEF NodeInv, NodeTypes, WellFormed, SetUp
<1> QED
  BY <1>2, <1>3 DEF Past

LEMMA ReleasedAtEnd == NodeInv => Released
<1> SUFFICES ASSUME NodeInv, NEW t \in Loops, at[t] = Ended,
                    node.name \notin NeverClosed,
                    \A r \in raised[t] : r.part \notin {"before", "finally", "killed"}
             PROVE  ~opened[t]
  BY DEF Released
<1>1. Closed(node, t, at[t], opened[t], raised[t])
  BY DEF NodeInv
<1>2. Behind(node, t, at[t]) /\ Cleanly(raised[t])
  BY DEF Behind, Cleanly, Ended, Place
<1> QED
  BY <1>1, <1>2 DEF Closed

\* A loop stands at a place of its program, an event that is set says what it means,
\* and a loop behind the close of its finally block that did not raise on the way holds
\* no device, for every catalogue of well-formed nodes.
THEOREM NodeIsInv == (\A n \in Catalogue : WellFormed(n)) /\ NodeSpec => []NodeInv
<1>1. (\A n \in Catalogue : WellFormed(n)) /\ NodeInit => NodeInv
  BY InitNode
<1>2. NodeInv /\ [NodeNext]_nodevars => NodeInv'
  BY NextNode
<1> QED
  BY <1>1, <1>2, PTL DEF NodeSpec

\* When start() returned and gave up on neither event, the ring buffer holds a state
\* and the loop that serves requests is past its setup, for every well-formed node under
\* every middleware.
THEOREM ReadyServes ==
  (\A n \in Catalogue : WellFormed(n)) /\ NodeSpec => []ReadyMeansServing
BY NodeIsInv, ReadyMeans, PTL

\* A loop of a well-formed node that ended by itself has closed its device, unless it
\* raised before its try block or in its finally block.
THEOREM LoopsRelease ==
  (\A n \in Catalogue : WellFormed(n)) /\ NodeSpec => []Released
BY NodeIsInv, ReleasedAtEnd, PTL

\* Under zmq and rclpy no put of a loop fails because stop() closed what it publishes
\* on, unless the join was given up.
THEOREM PutsUndisturbed ==
  (\A n \in Catalogue : WellFormed(n)) /\ NodeSpec => []PutUndisturbed
<1>1. NodeInv => PutUndisturbed
  BY DEF NodeInv
<1> QED
  BY <1>1, NodeIsInv, PTL

-----------------------------------------------------------------------------
(* Calls *)

Answers ==
  /\ NodeInv
  /\ asked => /\ middleware \in Serving /\ caller \in StartReturned /\ stored
  /\ call = "none" => ~asked
  /\ ReadyAnswers

LEMMA CallStepIsStep == CallNext => [NodeNext]_nodevars
BY DEF CallNext, NodeStep, Call, Take, Reply, Refuse, CallTimesOut, Becomes

LEMMA InitCalls ==
  (\A n \in Catalogue : WellFormed(n)) /\ CallInit => Answers
BY InitNode DEF CallInit, Answers, ReadyAnswers

\* A node that was ready serves until it is told to exit.
LEMMA StillAnswers ==
  ASSUME Answers, asked, ~exit_event
  PROVE  node_server = "serving" /\ caller = "running" /\ stored
BY DEF Answers, NodeInv, Told, StartReturned

\* No step takes back a state, an exit_event or the return of start().
LEMMA Lasting ==
  ASSUME NodeNext
  PROVE  /\ middleware' = middleware
         /\ stored => stored'
         /\ exit_event => exit_event'
         /\ caller \in StartReturned => caller' \in StartReturned
<1> USE DEF CallerOnly, ChildOnly, LoopOnly, node_events, loops, StartReturned
<1>1. CASE CallerStep
  <2>1. UNCHANGED <<middleware, stored, exit_event>>
    BY <1>1 DEF CallerStep, Built, StartWorker, StartMain, StartChild,
                Receive, WaitPub, WaitReq, AssertAlive, StartServer,
                LoopsJoined, CloseServer
  <2>2. caller \in StartReturned => caller' \in StartReturned
    BY <1>1 DEF CallerStep, Built, StartWorker, StartMain, StartChild,
                Receive, WaitPub, WaitReq, AssertAlive, StartServer,
                LoopsJoined, CloseServer
  <2> QED
    BY <2>1, <2>2
<1>2. CASE StopNode \/ ServerEnds \/ InterruptCaller \/ InterruptChild
  BY <1>2 DEF StopNode, ServerEnds, InterruptCaller, InterruptChild
<1>3. CASE ChildStep
  BY <1>3 DEF ChildStep, BuildShared, ChildStartsWorker, ChildRuns,
              ChildStops, ChildJoined
<1>4. ASSUME NEW t \in Loops,
             LoopStep(t) \/ Await(t) \/ Raise(t) \/ Swallow(t)
      PROVE  /\ middleware' = middleware /\ caller' = caller
             /\ stored => stored'
             /\ exit_event => exit_event'
  <2>1. CASE \/ TestExit(t) \/ Use(t) \/ Connect(t) \/ Frame(t)
             \/ SetReadyEvent(t) \/ Await(t) \/ Swallow(t)
    BY <2>1 DEF TestExit, Use, Connect, Frame, SetReadyEvent, Await,
                Swallow
  <2>2. CASE Drain(t)
    <3>1. \/ exit_event' = exit_event
          \/ exit_event' = TRUE
      BY <2>2 DEF Drain
    <3>2. exit_event => exit_event'
      BY <3>1, Zenon
    <3> QED
      BY <2>2, <3>2 DEF Drain
  <2>3. CASE Put(t)
    BY <2>3 DEF Put
  <2>4. CASE Raise(t)
    BY <2>4 DEF Raise
  <2> QED
    BY <1>4, <2>1, <2>2, <2>3, <2>4 DEF LoopStep
<1> QED
  BY <1>1, <1>2, <1>3, <1>4 DEF NodeNext, OtherStep

LEMMA NextCalls == Answers /\ [CallNext]_(callvars) => Answers'
<1> SUFFICES ASSUME Answers, [CallNext]_(callvars) PROVE Answers'
  OBVIOUS
<1>0. NodeInv'
  BY CallStepIsStep, NextNode DEF Answers, callvars
<1>1. CASE NodeStep
  <2>1. UNCHANGED <<call, asked>> /\ NodeNext
    BY <1>1 DEF NodeStep, calls
  <2> QED
    BY <1>0, <2>1, Lasting DEF Answers, ReadyAnswers
<1>2. CASE Call
  <2>1. /\ call = "none" /\ call' = "sent" /\ middleware \in Serving /\ UNCHANGED nodevars
        /\ asked' = (caller = "running" /\ timed_out = {})
    BY <1>2 DEF Call, Forwarding
  <2>2. asked' => stored
    BY <2>1, ReadyMeans DEF Answers, ReadyMeansServing
  <2> QED
    BY <1>0, <2>1, <2>2 DEF Answers, ReadyAnswers, StartReturned, nodevars, node_events
<1>3. CASE Take \/ Reply \/ Refuse \/ CallTimesOut
  <2>1. call # "none" /\ call' # "none" /\ UNCHANGED <<asked, nodevars>>
    BY <1>3 DEF Take, Reply, Refuse, CallTimesOut, Becomes
  <2>2. asked /\ ~exit_event => call' \notin {"empty", "error"}
    BY <1>3, StillAnswers DEF Take, Reply, Refuse, CallTimesOut, Becomes
  <2> QED
    BY <1>0, <2>1, <2>2 DEF Answers, ReadyAnswers, nodevars, node_events
<1>4. CASE UNCHANGED callvars
  BY <1>0, <1>4 DEF Answers, ReadyAnswers, callvars, calls, nodevars, node_events
<1> QED
  BY <1>1, <1>2, <1>3, <1>4 DEF CallNext

\* A call sent after start() of a well-formed node returned in time is answered with a
\* state, or times out, until the node is told to exit.
THEOREM ReadyNodeAnswers ==
  (\A n \in Catalogue : WellFormed(n)) /\ CallSpec => []ReadyAnswers
<1>1. (\A n \in Catalogue : WellFormed(n)) /\ CallInit => Answers
  BY InitCalls
<1>2. Answers /\ [CallNext]_(callvars) => Answers'
  BY NextCalls
<1>3. Answers => ReadyAnswers
  BY DEF Answers
<1> QED
  BY <1>1, <1>2, <1>3, PTL DEF CallSpec

-----------------------------------------------------------------------------
(* The nodes of the repository are well-formed *)

\* The parts of programs, in the form in which one that is written down is checked.
Setup(s) ==
  /\ s \in Seq(Steps)
  /\ \A k \in 1 .. Len(s) :
       s[k] \notin {"frame", "grab", "pub_ready"} /\ (s[k] = "req_ready" => k = Len(s))
Round(s) ==
  /\ s \in Seq(Steps) /\ s # <<>>
  /\ \A k \in 1 .. Len(s) :
       /\ s[k] = "grab" => k + 3 <= Len(s) /\ s[k + 3] # "pub_ready"
       /\ s[k] = "pub_ready" => k > 1 /\ s[k - 1] \in PutSteps
Without(s, step) == \A k \in 1 .. Len(s) : s[k] # step
Final(s) ==
  Setup(s) /\ Without(s, "open") /\ \E k \in 1 .. Len(s) : s[k] \in {"close", "try_close"}

Lawful(p) == p \in Programs /\ Runs(p) /\ Jumps(p) /\ PutsFirst(p)
ReadyInTime(p) ==
  \A part \in {"before", "try"}, k \in Nat :
    Has(p, part, k, {"req_ready"}) =>
      k = Len(p[part]) /\ (part = "before" => p.try = <<>>)
Unready(p) == \A part \in Parts, k \in Nat : ~Has(p, part, k, {"req_ready"})

LEMMA Sound ==
  ASSUME NEW b, NEW t, NEW l, NEW f, Setup(b), Setup(t), Round(l), Setup(f) \/ Final(f),
         t = <<>> \/ Without(b, "req_ready"), NEW p, p = Program(b, t, l, f)
  PROVE  /\ Lawful(p) /\ ReadyInTime(p)
         /\ Final(f) \/ (\A s \in {b, t, l, f} : Without(s, "open")) => Shuts(p)
         /\ Without(l, "requests") => ~Serves(p)
         /\ (\A s \in {b, t, l, f} : Without(s, "req_ready")) => Unready(p)
<1>1. /\ p.before = b /\ p["before"] = b /\ p.try = t /\ p["try"] = t
      /\ p.loop = l /\ p["loop"] = l /\ p.finally = f /\ p["finally"] = f
      /\ Setup(f)
  BY DEF Program, Final
<1>2. p \in Programs /\ Runs(p)
  BY <1>1 DEF Program, Programs, Setup, Round, Runs
<1>3. Jumps(p)
  <2> SUFFICES ASSUME NEW part \in Parts, NEW k \in Nat, Has(p, part, k, {"frame", "grab"})
               PROVE  /\ part = "loop"
                      /\ Has(p, part, k, {"grab"}) =>
                           k + 3 \in 1 .. Len(p.loop) /\ p.loop[k + 3] # "pub_ready"
    BY DEF Jumps, Has
  <2>1. part = "loop"
    BY <1>1 DEF Has, Parts, Setup
  <2> QED
    BY <1>1, <2>1 DEF Has, Round
<1>4. PutsFirst(p)
  <2> SUFFICES ASSUME NEW part \in Parts, NEW k \in Nat, Has(p, part, k, {"pub_ready"})
               PROVE  Has(p, part, k - 1, {"put", "put_now"})
    BY DEF PutsFirst
  <2>1. part = "loop"
    BY <1>1 DEF Has, Parts, Setup
  <2> QED
    BY <1>1, <2>1 DEF Has, Round, PutSteps
<1>5. ReadyInTime(p)
  <2> SUFFICES ASSUME NEW part \in {"before", "try"}, NEW k \in Nat,
                      Has(p, part, k, {"req_ready"})
               PROVE  k = Len(p[part]) /\ (part = "before" => p.try = <<>>)
    BY DEF ReadyInTime
  <2>1. k = Len(p[part])
    BY <1>1 DEF Has, Setup
  <2>2. part = "before" => p.try = <<>>
    BY <1>1 DEF Has, Without
  <2> QED
    BY <2>1, <2>2
<1>6. Final(f) => Shuts(p)
  BY <1>1 DEF Final, Shuts, Has, Without
<1>7. (\A s \in {b, t, l, f} : Without(s, "open")) => Shuts(p)
  BY <1>1 DEF Shuts, OpensDevice, Has, Without, Parts
<1>8. Without(l, "requests") => ~Serves(p)
  BY <1>1 DEF Serves, Without
<1>9. (\A s \in {b, t, l, f} : Without(s, "req_ready")) => Unready(p)
  BY <1>1 DEF Unready, Has, Without, Parts
<1> QED
  BY <1>2, <1>3, <1>4, <1>5, <1>6, <1>7, <1>8, <1>9 DEF Lawful

\* Nodes with one loop.
LEMMA OneLoop ==
  ASSUME NEW p, Lawful(p), ReadyInTime(p), NEW name, NEW req \in BOOLEAN,
         name \in NeverClosed \/ Shuts(p), Serves(p) => req
  PROVE  WellFormed(Node(name, req, p, NoLoop))
<1> DEFINE n == Node(name, req, p, NoLoop)
<1>1. /\ n.name = name /\ n.req = req /\ n.main = p /\ n["main"] = p
      /\ n.worker = NoLoop /\ n["worker"] = NoLoop
  BY DEF Node
<1>2. /\ NoLoop \in Programs /\ Jumps(NoLoop) /\ PutsFirst(NoLoop)
      /\ Shuts(NoLoop) /\ ~Serves(NoLoop) /\ Unready(NoLoop)
  <2>1. \A part \in Parts : NoLoop[part] = <<>>
    BY DEF NoLoop, Program, Parts
  <2>2. \A part \in Parts : \A k, steps : ~Has(NoLoop, part, k, steps)
    BY <2>1 DEF Has
  <2>3. NoLoop \in Programs /\ NoLoop.loop = <<>>
    BY DEF NoLoop, Program, Programs
  <2> QED
    BY <2>2, <2>3 DEF Jumps, PutsFirst, Shuts, OpensDevice, Unready, Serves, Parts
<1> HIDE DEF n
<1>3. ReadyLast(n, "main") /\ ReadyLast(n, "worker")
  BY <1>1, <1>2 DEF ReadyLast, ReadyInTime, Unready, Loops, Parts
<1> QED
  BY <1>1, <1>2, <1>3 DEF WellFormed, Lawful, Loops, n

LEMMA Alone ==
  ASSUME NEW b, NEW t, NEW l, NEW f, Setup(b), Setup(t), Round(l), Setup(f) \/ Final(f),
         t = <<>> \/ Without(b, "req_ready"), NEW name, NEW req \in BOOLEAN,
         \/ name \in NeverClosed \/ Final(f)
         \/ \A s \in {b, t, l, f} : Without(s, "open"),
         req \/ Without(l, "requests")
  PROVE  WellFormed(Node(name, req, Program(b, t, l, f), NoLoop))
<1> DEFINE p == Program(b, t, l, f)
<1>1. /\ Lawful(p) /\ ReadyInTime(p)
      /\ name \notin NeverClosed => Shuts(p)
      /\ Serves(p) => req
  BY Sound
<1> HIDE DEF p
<1> QED
  BY <1>1, OneLoop DEF p

\* Nodes with two loops, one of which serves requests.
LEMMA Paired ==
  ASSUME NEW p, NEW q, Lawful(p), ReadyInTime(p), Shuts(p),
         Lawful(q), Unready(q), ~Serves(q), Shuts(q), NEW name,
         NEW n, n = Node(name, TRUE, p, q) \/ n = Node(name, TRUE, q, p)
  PROVE  WellFormed(n)
<1>1. /\ n.req = TRUE
      /\ \/ /\ n.main = p /\ n["main"] = p /\ n.worker = q /\ n["worker"] = q
         \/ /\ n.main = q /\ n["main"] = q /\ n.worker = p /\ n["worker"] = p
  BY DEF Node
<1>2. ReadyLast(n, "main") /\ ReadyLast(n, "worker")
  BY <1>1 DEF ReadyLast, ReadyInTime, Unready, Loops, Parts
<1> QED
  BY <1>1, <1>2 DEF WellFormed, Lawful, Loops

-----------------------------------------------------------------------------
(* The programs of the repository *)

\* What comes before the rounds, and finally blocks that close nothing.
LEMMA Setups ==
  /\ Setup(<<>>) /\ Without(<<>>, "req_ready")
  /\ Setup(<<"open">>) /\ Without(<<"open">>, "req_ready")
  /\ Setup(<<"use">>) /\ Without(<<"use">>, "req_ready")
  /\ Setup(<<"open", "use">>) /\ Without(<<"open", "use">>, "req_ready")
  /\ Setup(<<"use", "open">>) /\ Without(<<"use", "open">>, "req_ready")
  /\ Setup(<<"use", "open", "use">>) /\ Without(<<"use", "open", "use">>, "req_ready")
  /\ Setup(<<"open", "await">>) /\ Without(<<"open", "await">>, "req_ready")
<1>1. Setup(<<>>) /\ Without(<<>>, "req_ready")
  BY DEF Setup, Without, Steps
<1>2. Setup(<<"open">>) /\ Without(<<"open">>, "req_ready")
  BY DEF Setup, Without, Steps
<1>3. Setup(<<"use">>) /\ Without(<<"use">>, "req_ready")
  BY DEF Setup, Without, Steps
<1>4. Setup(<<"open", "use">>) /\ Without(<<"open", "use">>, "req_ready")
  BY DEF Setup, Without, Steps
<1>5. Setup(<<"use", "open">>) /\ Without(<<"use", "open">>, "req_ready")
  BY DEF Setup, Without, Steps
<1>6. Setup(<<"use", "open", "use">>) /\ Without(<<"use", "open", "use">>, "req_ready")
  BY DEF Setup, Without, Steps
<1>7. Setup(<<"open", "await">>) /\ Without(<<"open", "await">>, "req_ready")
  BY DEF Setup, Without, Steps
<1> QED
  BY <1>1, <1>2, <1>3, <1>4, <1>5, <1>6, <1>7

\* What ends with req_ready_event, puts a first state or waits.
LEMMA Readies ==
  /\ Setup(<<"open", "use", "req_ready">>)
  /\ Setup(<<"req_ready">>)
  /\ Setup(<<"use", "req_ready">>)
  /\ Setup(<<"await", "req_ready">>)
  /\ Setup(<<"await", "use", "req_ready">>)
  /\ Setup(<<"put">>)
  /\ Setup(<<"await">>)
<1>1. Setup(<<"open", "use", "req_ready">>)
  BY DEF Setup, Steps
<1>2. Setup(<<"req_ready">>)
  BY DEF Setup, Steps
<1>3. Setup(<<"use", "req_ready">>)
  BY DEF Setup, Steps
<1>4. Setup(<<"await", "req_ready">>)
  BY DEF Setup, Steps
<1>5. Setup(<<"await", "use", "req_ready">>)
  BY DEF Setup, Steps
<1>6. Setup(<<"put">>)
  BY DEF Setup, Steps
<1>7. Setup(<<"await">>)
  BY DEF Setup, Steps
<1> QED
  BY <1>1, <1>2, <1>3, <1>4, <1>5, <1>6, <1>7

\* Finally blocks that close the device.
LEMMA Finals ==
  /\ Final(<<"close">>)
  /\ Final(<<"try_close">>)
  /\ Final(<<"try_use", "try_close">>)
  /\ Final(<<"use", "close">>)
  /\ Final(<<"await", "close">>)
  /\ Final(<<"try_use", "close">>)
  /\ Final(<<"close", "await">>)
<1>1. Final(<<"close">>)
  BY DEF Final, Setup, Without, Steps
<1>2. Final(<<"try_close">>)
  BY DEF Final, Setup, Without, Steps
<1>3. Final(<<"try_use", "try_close">>)
  BY DEF Final, Setup, Without, Steps
<1>4. Final(<<"use", "close">>)
  BY DEF Final, Setup, Without, Steps
<1>5. Final(<<"await", "close">>)
  BY DEF Final, Setup, Without, Steps
<1>6. Final(<<"try_use", "close">>)
  BY DEF Final, Setup, Without, Steps
<1>7. Final(<<"close", "await">>)
  BY DEF Final, Setup, Without, Steps
<1> QED
  BY <1>1, <1>2, <1>3, <1>4, <1>5, <1>6, <1>7

\* Rounds that serve no requests.
LEMMA PubRounds ==
  /\ Round(Publish) /\ Without(Publish, "requests")
  /\ Round(PublishNow) /\ Without(PublishNow, "requests")
  /\ Round(ReadLoop) /\ Without(ReadLoop, "requests")
  /\ Round(<<"frame">> \o Publish) /\ Without(<<"frame">> \o Publish, "requests")
  /\ Round(<<"await", "frame">> \o PublishNow)
  /\ Without(<<"await", "frame">> \o PublishNow, "requests")
  /\ Round(<<"drain">> \o Publish) /\ Without(<<"drain">> \o Publish, "requests")
<1>1. Round(Publish) /\ Without(Publish, "requests")
  BY DEF Round, Without, PutSteps, Steps, Publish, PublishNow
<1>2. Round(PublishNow) /\ Without(PublishNow, "requests")
  BY DEF Round, Without, PutSteps, Steps, Publish, PublishNow
<1>3. Round(ReadLoop) /\ Without(ReadLoop, "requests")
  BY DEF Round, Without, PutSteps, Steps, Publish, PublishNow, ReadLoop
<1>4. Round(<<"frame">> \o Publish) /\ Without(<<"frame">> \o Publish, "requests")
  BY DEF Round, Without, PutSteps, Steps, Publish, PublishNow
<1>5. /\ Round(<<"await", "frame">> \o PublishNow)
      /\ Without(<<"await", "frame">> \o PublishNow, "requests")
  BY DEF Round, Without, PutSteps, Steps, Publish, PublishNow
<1>6. Round(<<"drain">> \o Publish) /\ Without(<<"drain">> \o Publish, "requests")
  BY DEF Round, Without, PutSteps, Steps, Publish, PublishNow
<1> QED
  BY <1>1, <1>2, <1>3, <1>4, <1>5, <1>6

\* Rounds that do.
LEMMA ReqRounds ==
  /\ Round(ControlLoop)
  /\ Round(<<"grab">> \o Publish \o <<"requests", "use">>)
  /\ Round(<<"use", "grab">> \o Publish \o <<"requests">>)
  /\ Round(<<"await">> \o Publish \o <<"requests">>)
  /\ Round(ControlLoop \o <<"use">>)
  /\ Round(FrameLoop)
  /\ Round(<<"await">> \o PublishNow \o <<"requests">>)
  /\ Round(<<"grab">> \o PublishNow \o <<"requests">>)
  /\ Round(Publish \o <<"requests">>)
  /\ Round(<<"requests", "use">>)
  /\ Round(<<"use", "requests">>)
  /\ Round(<<"requests">>)
<1>1. Round(ControlLoop)
  BY DEF Round, PutSteps, Steps, Publish, PublishNow, ControlLoop
<1>2. Round(<<"grab">> \o Publish \o <<"requests", "use">>)
  BY DEF Round, PutSteps, Steps, Publish, PublishNow
<1>3. Round(<<"use", "grab">> \o Publish \o <<"requests">>)
  BY DEF Round, PutSteps, Steps, Publish, PublishNow
<1>4. Round(<<"await">> \o Publish \o <<"requests">>)
  BY DEF Round, PutSteps, Steps, Publish, PublishNow
<1>5. Round(ControlLoop \o <<"use">>)
  BY DEF Round, PutSteps, Steps, Publish, PublishNow, ControlLoop
<1>6. Round(FrameLoop)
  BY DEF Round, PutSteps, Steps, Publish, PublishNow, FrameLoop
<1>7. Round(<<"await">> \o PublishNow \o <<"requests">>)
  BY DEF Round, PutSteps, Steps, Publish, PublishNow
<1>8. Round(<<"grab">> \o PublishNow \o <<"requests">>)
  BY DEF Round, PutSteps, Steps, Publish, PublishNow
<1>9. Round(Publish \o <<"requests">>)
  BY DEF Round, PutSteps, Steps, Publish, PublishNow
<1>10. Round(<<"requests", "use">>)
  BY DEF Round, PutSteps, Steps
<1>11. Round(<<"use", "requests">>)
  BY DEF Round, PutSteps, Steps
<1>12. Round(<<"requests">>)
  BY DEF Round, PutSteps, Steps
<1> QED
  BY <1>1, <1>2, <1>3, <1>4, <1>5, <1>6, <1>7, <1>8, <1>9, <1>10, <1>11, <1>12

LEMMA RobotsAlone ==
  \A n \in Robots \ {SoArm, XarmArm} : WellFormed(n)
<1>1. /\ WellFormed(AgGripper) /\ WellFormed(FrankaArm)
      /\ WellFormed(FrankaGripper) /\ WellFormed(RobotiqGripper)
      /\ WellFormed(UrArm) /\ WellFormed(WavesharePiperGripper)
      /\ WellFormed(XarmGripper)
  BY Setups, Readies, Finals, ReqRounds, Alone
     DEF PubReq, AgGripper, FrankaArm, FrankaGripper, RobotiqGripper,
         UrArm, WavesharePiperGripper, XarmGripper
<1>2. /\ WellFormed(KinovaArm) /\ WellFormed(PiperArm)
      /\ WellFormed(WsgGripper) /\ WellFormed(YamArm)
  BY Setups, Readies, Finals, ReqRounds, Alone
     DEF PubReq, KinovaArm, PiperArm, WsgGripper, YamArm
<1>3. WellFormed(BoosterT1) /\ WellFormed(UnitreeG1)
  BY Setups, Readies, Finals, ReqRounds, Alone
     DEF PubReq, BoosterT1, UnitreeG1, NeverClosed
<1> QED
  BY <1>1, <1>2, <1>3 DEF Robots

LEMMA CamerasAlone == \A n \in Cameras : WellFormed(n)
<1>1. /\ WellFormed(Oak) /\ WellFormed(Orbbec) /\ WellFormed(Uvc)
      /\ WellFormed(Zed)
  BY Setups, Readies, Finals, ReqRounds, Alone
     DEF PubReq, Oak, Orbbec, Uvc, Zed
<1>2. WellFormed(Realsense)
  BY Setups, Readies, Finals, ReqRounds, Alone
     DEF PubReq, Realsense, NeverClosed
<1>3. WellFormed(Record3d)
  BY Setups, Finals, PubRounds, Alone DEF PubOnly, Record3d
<1>4. WellFormed(Qrcode)
  <2>1. \A s \in {<<>>, PublishNow} : Without(s, "open")
    BY DEF Without, PublishNow
  <2> QED
    BY <2>1, Setups, PubRounds, Alone DEF PubOnly, Qrcode
<1> QED
  BY <1>1, <1>2, <1>3, <1>4 DEF Cameras

LEMMA InterfacesAlone == \A n \in Interfaces \ {Vuer} : WellFormed(n)
<1>1. /\ WellFormed(AvpStream) /\ WellFormed(Keyboard)
      /\ WellFormed(OculusReader) /\ WellFormed(Vicon)
      /\ WellFormed(XRobotoolkit)
  BY Setups, Readies, PubRounds, Alone
     DEF PubOnly, AvpStream, Keyboard, OculusReader, Vicon,
         XRobotoolkit, NeverClosed
<1>2. /\ WellFormed(EvdevKeyboard) /\ WellFormed(Gamepad)
      /\ WellFormed(Gello) /\ WellFormed(Spacemouse)
      /\ WellFormed(SshKeyboard)
  BY Setups, Readies, Finals, PubRounds, Alone
     DEF PubOnly, EvdevKeyboard, Gamepad, Gello, Spacemouse,
         SshKeyboard
<1>3. WellFormed(Joycon)
  BY Setups, Readies, Finals, ReqRounds, Alone DEF PubReq, Joycon
<1> QED
  BY <1>1, <1>2, <1>3 DEF Interfaces

LEMMA Pairs ==
  /\ WellFormed(SoArm) /\ WellFormed(XarmArm)
  /\ \A n \in Templates : WellFormed(n)
<1>1. /\ Without(<<"requests">>, "open") /\ Without(<<"req_ready">>, "open")
      /\ Without(<<>>, "open") /\ Without(Publish, "open")
      /\ Without(Publish, "req_ready")
      /\ Without(Publish \o <<"requests">>, "open")
  BY DEF Without, Publish
<1>2. /\ Without(ReadLoop, "req_ready") /\ Without(<<"close">>, "req_ready")
      /\ Without(<<"frame">> \o Publish, "req_ready")
  BY DEF Without, Publish, ReadLoop
<1>3. WellFormed(SoArm)
  <2>1. Lawful(SoArmReq) /\ ReadyInTime(SoArmReq) /\ Shuts(SoArmReq)
    BY Setups, Readies, Finals, ReqRounds, Sound DEF SoArmReq
  <2>2. /\ Lawful(SoArmPub) /\ Unready(SoArmPub) /\ Shuts(SoArmPub)
        /\ ~Serves(SoArmPub)
    BY <1>2, Setups, Finals, PubRounds, Sound DEF SoArmPub, ReadLoop
  <2> QED
    BY <2>1, <2>2, Paired DEF SoArm
<1>4. WellFormed(XarmArm)
  <2>1. Lawful(XarmReq) /\ ReadyInTime(XarmReq) /\ Shuts(XarmReq)
    BY Setups, Readies, Finals, ReqRounds, Sound DEF XarmReq
  <2>2. /\ Lawful(XarmPub) /\ Unready(XarmPub) /\ Shuts(XarmPub)
        /\ ~Serves(XarmPub)
    BY <1>2, Setups, Finals, PubRounds, Sound DEF XarmPub
  <2> QED
    BY <2>1, <2>2, Paired DEF XarmArm
<1>5. /\ WellFormed(Node("template_pub_in_worker", TRUE, TemplateReq, TemplatePub))
      /\ WellFormed(Node("template_req_in_worker", TRUE, TemplatePub, TemplateReq))
  <2>1. /\ Lawful(TemplateReq) /\ ReadyInTime(TemplateReq)
        /\ Shuts(TemplateReq)
    BY <1>1, Setups, Readies, ReqRounds, Sound DEF TemplateReq
  <2>2. /\ Lawful(TemplatePub) /\ Unready(TemplatePub) /\ Shuts(TemplatePub)
        /\ ~Serves(TemplatePub)
    BY <1>1, Setups, PubRounds, Sound DEF TemplatePub
  <2> QED
    BY <2>1, <2>2, Paired
<1>6. WellFormed(PubReq("template_pubreq", TemplatePubReq))
  BY <1>1, Setups, Readies, ReqRounds, Alone DEF PubReq, TemplatePubReq
<1>7. WellFormed(PubOnly("template_pub", TemplatePub))
  BY <1>1, Setups, PubRounds, Alone DEF PubOnly, TemplatePub
<1> QED
  BY <1>3, <1>4, <1>5, <1>6, <1>7 DEF Templates

LEMMA VuerAlone == WellFormed(Vuer)
<1> DEFINE p == Vuer.main
           t == <<"await", "try_use">> \o Publish \o <<"forever">>
<1>1. Vuer = PubReq("vuer", p) /\ p = Program(<<"use">>, t, <<>>, <<>>)
  BY DEF Vuer, PubReq, Node
<1>2. /\ t \in Seq(Steps) /\ Len(t) = 5 /\ t[1] = "await" /\ t[2] = "try_use"
      /\ t[3] = "put" /\ t[4] = "pub_ready" /\ t[5] = "forever"
  BY DEF Publish, Steps
<1> HIDE DEF p, t
<1>3. /\ p.before = <<"use">> /\ p["before"] = <<"use">> /\ p.try = t /\ p["try"] = t
      /\ p.loop = <<>> /\ p["loop"] = <<>> /\ p.finally = <<>> /\ p["finally"] = <<>>
  BY <1>1 DEF Program
<1>4. p \in Programs
  BY <1>1, <1>2 DEF Program, Programs, Steps
<1>5. Runs(p)
  <2>1. t # <<>>
    BY <1>2
  <2>2. t[Len(t)] = "forever"
    BY <1>2
  <2> QED
    BY <1>3, <2>1, <2>2 DEF Runs
<1>6. Jumps(p) /\ Unready(p) /\ ~Serves(p)
  BY <1>2, <1>3 DEF Jumps, Unready, Serves, Has, Parts
<1>7. PutsFirst(p)
  BY <1>2, <1>3 DEF PutsFirst, Has, Parts
<1>8. Lawful(p) /\ ReadyInTime(p) /\ "vuer" \in NeverClosed
  BY <1>4, <1>5, <1>6, <1>7 DEF Lawful, ReadyInTime, Unready, Parts, NeverClosed
<1> QED
  BY <1>1, <1>6, <1>8, OneLoop DEF PubReq

\* Every node of the repository is well-formed.
THEOREM CatalogueWellFormed == \A n \in AllNodes : WellFormed(n)
BY RobotsAlone, CamerasAlone, InterfacesAlone, Pairs, VuerAlone DEF AllNodes
=============================================================================
