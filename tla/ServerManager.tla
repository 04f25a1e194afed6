------------------------------ MODULE ServerManager ------------------------------
(***************************************************************************)
(* ServerManager of middleware.py: one process per server.  Each worker    *)
(* builds its server, waits for start_event, starts it and meets the main  *)
(* process at ready_barrier; after stop_event it stops the server.  A      *)
(* server may fail or hang while it is built or started, a worker may be   *)
(* killed at any time, Ctrl-C reaches every process once, and the main     *)
(* process gives up waiting after its timeout, which breaks the barrier    *)
(* for all.  When the main process exits, its workers, daemons, are killed.*)
(*                                                                         *)
(* The events and the barrier are multiprocessing's, each built on a       *)
(* Condition.  Who waits counts itself asleep and lets the lock go; who    *)
(* notifies holds the lock until every sleeper has acknowledged; then the  *)
(* woken take the lock again, one by one.  A worker killed asleep never    *)
(* acknowledges, and its notifier keeps the lock for ever; one killed in   *)
(* the moment it holds the lock keeps it, too.  Ctrl-C wakes a sleeper,    *)
(* which still needs the lock to get out, and a notifier, which gives up.  *)
(*                                                                         *)
(* WorkersOnly, NoTimeout, ForgetsReady, ArrivesFirst and NoStopEvent are  *)
(* faulty variants.                                                        *)
(***************************************************************************)
EXTENDS FiniteSets, Naturals

CONSTANTS Workers, Main

ASSUME ManagerAssumption == IsFiniteSet(Workers) /\ Main \notin Workers

VARIABLES
  main,         \* "init" | "spawned" | "setting" start_event | "arriving" | "waiting" |
                \* "opening" or "breaking" the barrier | "checking" | "running" |
                \* "stopping" | "halting", in stop_event.set() | "joining" | "stopped" |
                \* "failed" | "exited"
  worker,       \* "created" | "building" | "built", in start_event.wait() | "starting" |
                \* "arriving" | "waiting" | "opening" the barrier | "passed" |
                \* "parked", in stop_event.wait() | "finally" | "ended" | "killed"
  ready,        \* the local variable of a worker
  server,       \* "none" | "built" | "started" | "stopped" | "half_stopped"
  start_event, stop_event,
  barrier,      \* "filling" | "draining" | "broken"
  arrived,      \* the parties that entered the barrier and have not left it
  lock,         \* per condition: who keeps its lock, notifying or dead; {} or one process
  asleep,       \* processes that have not yet acknowledged in a wait()
  lost,         \* per condition: workers killed asleep in it
  quitting,     \* processes that take KeyboardInterrupt out of a wait()
  ctrl_c,       \* Ctrl-C was pressed
  interrupts    \* the processes it has yet to reach

events == <<start_event, stop_event>>
meeting == <<barrier, arrived>>
waits == <<lock, asleep, lost, quitting>>
signal == <<ctrl_c, interrupts>>
vars == <<main, worker, ready, server, events, meeting, waits, signal>>

Processes == Workers \cup {Main}
Conditions == {"start", "barrier", "stop"}
Gone == {"ended", "killed"}

Init ==
  /\ main = "init" /\ worker = [w \in Workers |-> "created"]
  /\ ready = [w \in Workers |-> FALSE] /\ server = [w \in Workers |-> "none"]
  /\ start_event = FALSE /\ stop_event = FALSE
  /\ barrier = "filling" /\ arrived = {}
  /\ lock = [c \in Conditions |-> {}] /\ lost = [c \in Conditions |-> {}]
  /\ asleep = {} /\ quitting = {}
  /\ ctrl_c = FALSE /\ interrupts = {}

To(w, phase) == worker' = [worker EXCEPT ![w] = phase]

-----------------------------------------------------------------------------
(* Condition *)

\* The condition whose lock a process next takes, or in which it sleeps.
Condition(p) ==
  IF p = Main \/ worker[p] \in {"arriving", "waiting", "opening"} THEN "barrier"
  ELSE IF worker[p] = "built" THEN "start" ELSE "stop"

Free(c) == lock[c] = {}
Awake(p) == p \notin asleep \cup quitting
Sleepers(c) == {p \in asleep : Condition(p) = c} \cup lost[c]

\* set(), or the barrier's notify_all(): the sleepers may wake from now on.
Called(c) ==
  \/ c = "start" /\ start_event
  \/ c = "barrier" /\ barrier # "filling"
  \/ c = "stop" /\ stop_event

StartsNotifying(p, c) ==
  /\ Free(c) /\ lock' = [lock EXCEPT ![c] = {p}]
  /\ UNCHANGED <<asleep, lost, quitting>>
EndsNotifying(p, c) ==
  /\ Sleepers(c) = {} /\ lock' = [lock EXCEPT ![c] = @ \ {p}]
  /\ UNCHANGED <<asleep, lost, quitting>>

FallsAsleep(p) == asleep' = asleep \cup {p} /\ UNCHANGED <<lock, lost, quitting>>
Acknowledges(p) ==
  p \in asleep /\ asleep' = asleep \ {p} /\ UNCHANGED <<lock, lost, quitting>>

-----------------------------------------------------------------------------
(* ready_barrier *)

WorkersOnly == Cardinality(Workers)
Parties == Cardinality(Workers) + 1

\* The last party to enter opens the barrier, the others wait for it.
Completes(p) == Cardinality(arrived \cup {p}) >= Parties
Enters(p) ==
  /\ arrived' = arrived \cup {p}
  /\ IF Completes(p)
     THEN barrier' = "draining" /\ StartsNotifying(p, "barrier")
     ELSE UNCHANGED barrier /\ FallsAsleep(p)
Inside(p) == IF Completes(p) THEN "opening" ELSE "waiting"

\* A party that passes or gives up.
Departs(p) == arrived' = arrived \ {p}

-----------------------------------------------------------------------------
(* start() and stop() in the main process *)

MainOnly == UNCHANGED <<worker, ready, server, signal>>

SpawnAll ==
  /\ main = "init" /\ main' = "spawned"
  /\ worker' = [w \in Workers |-> "building"]
  /\ UNCHANGED <<ready, server, events, meeting, waits, signal>>

SetStart ==
  /\ main = "spawned" /\ main' = "setting" /\ start_event' = TRUE
  /\ StartsNotifying(Main, "start")
  /\ MainOnly /\ UNCHANGED <<stop_event, meeting>>

\* ValueError, if somebody else has released the lock.
StartIsSet ==
  /\ main = "setting" /\ EndsNotifying(Main, "start")
  /\ \/ main' = "arriving"
     \/ lock["start"] = {} /\ main' = "failed"
  /\ MainOnly /\ UNCHANGED <<events, meeting>>

MainArrives ==
  /\ main = "arriving" /\ Free("barrier") /\ barrier # "draining"
  /\ IF barrier = "broken"
     THEN main' = "failed" /\ UNCHANGED <<meeting, waits>>
     ELSE main' = Inside(Main) /\ Enters(Main)
  /\ MainOnly /\ UNCHANGED events

MainOpens ==
  /\ main = "opening" /\ EndsNotifying(Main, "barrier")
  /\ main' = "checking" /\ Departs(Main)
  /\ MainOnly /\ UNCHANGED <<events, barrier>>

NoTimeout == FALSE
Expires == TRUE

MainWakes ==
  /\ main = "waiting" /\ (Called("barrier") \/ Expires) /\ Acknowledges(Main)
  /\ MainOnly /\ UNCHANGED <<main, events, meeting>>

MainLeaves ==
  /\ main = "waiting" /\ Awake(Main) /\ Free("barrier") /\ barrier # "filling"
  /\ main' = IF barrier = "draining" THEN "checking" ELSE "failed"
  /\ Departs(Main)
  /\ MainOnly /\ UNCHANGED <<events, barrier, waits>>

MainTimesOut ==
  /\ main = "waiting" /\ Awake(Main) /\ barrier = "filling"
  /\ main' = "breaking" /\ barrier' = "broken" /\ StartsNotifying(Main, "barrier")
  /\ MainOnly /\ UNCHANGED <<events, arrived>>

MainBreaks ==
  /\ main = "breaking" /\ EndsNotifying(Main, "barrier")
  /\ main' = "failed" /\ Departs(Main)
  /\ MainOnly /\ UNCHANGED <<events, barrier>>

\* assert proc.is_alive()
CheckAlive ==
  /\ main = "checking"
  /\ main' = IF \E w \in Workers : worker[w] \in Gone THEN "failed" ELSE "running"
  /\ MainOnly /\ UNCHANGED <<events, meeting, waits>>

Stop ==
  /\ main = "running" /\ main' = "stopping"
  /\ MainOnly /\ UNCHANGED <<events, meeting, waits>>

NoStopEvent == stop_event' = stop_event
SetStop == stop_event' = TRUE

Halt ==
  /\ main = "stopping" /\ main' = "halting" /\ SetStop
  /\ StartsNotifying(Main, "stop")
  /\ MainOnly /\ UNCHANGED <<start_event, meeting>>

StopIsSet ==
  /\ main = "halting" /\ EndsNotifying(Main, "stop")
  /\ \/ main' = "joining"
     \/ lock["stop"] = {} /\ main' = "stopped"
  /\ MainOnly /\ UNCHANGED <<events, meeting>>

\* Each join returns when the worker has ended or its timeout is over.
Joined ==
  /\ main = "joining" /\ main' = "stopped"
  /\ MainOnly /\ UNCHANGED <<events, meeting, waits>>

Exit ==
  /\ main \in {"stopped", "failed"} /\ main' = "exited"
  /\ worker' = [w \in Workers |-> IF worker[w] = "ended" THEN "ended" ELSE "killed"]
  /\ asleep' = {} /\ quitting' = {}
  /\ UNCHANGED <<ready, server, events, meeting, lock, lost, signal>>

-----------------------------------------------------------------------------
(* _worker *)

WorkerOnly == UNCHANGED <<main, events, signal>>

\* What leads out of the try block ends in its finally block.
Leaves(w) == To(w, "finally")

\* A woken worker of any of the three waits.
Wakes(w) ==
  /\ Called(Condition(w)) /\ Acknowledges(w)
  /\ WorkerOnly /\ UNCHANGED <<worker, ready, server, meeting>>

Build(w) ==
  /\ worker[w] = "building" /\ To(w, "built")
  /\ server' = [server EXCEPT ![w] = "built"]
  /\ WorkerOnly /\ UNCHANGED <<ready, meeting, waits>>

AwaitsStart(w) ==
  /\ worker[w] = "built" /\ Awake(w) /\ Free("start")
  /\ IF start_event THEN To(w, "starting") /\ UNCHANGED waits
     ELSE FallsAsleep(w) /\ UNCHANGED worker
  /\ WorkerOnly /\ UNCHANGED <<ready, server, meeting>>

ArrivesFirst(w) ==
  /\ worker[w] = "starting" /\ To(w, "arriving")
  /\ WorkerOnly /\ UNCHANGED <<ready, server, meeting, waits>>

Start(w) ==
  /\ worker[w] = "starting" /\ To(w, "arriving")
  /\ server' = [server EXCEPT ![w] = "started"]
  /\ WorkerOnly /\ UNCHANGED <<ready, meeting, waits>>

\* The server raises in its constructor or in start().
Raises(w) ==
  /\ worker[w] \in {"building", "starting"} /\ Leaves(w)
  /\ WorkerOnly /\ UNCHANGED <<ready, server, meeting, waits>>

Arrives(w) ==
  /\ worker[w] = "arriving" /\ Free("barrier") /\ barrier # "draining"
  /\ IF barrier = "broken"
     THEN Leaves(w) /\ UNCHANGED <<meeting, waits>>
     ELSE To(w, Inside(w)) /\ Enters(w)
  /\ WorkerOnly /\ UNCHANGED <<ready, server>>

Opens(w) ==
  /\ worker[w] = "opening" /\ EndsNotifying(w, "barrier")
  /\ To(w, "passed") /\ Departs(w)
  /\ WorkerOnly /\ UNCHANGED <<ready, server, barrier>>

Passes(w) ==
  /\ worker[w] = "waiting" /\ Awake(w) /\ Free("barrier") /\ barrier = "draining"
  /\ To(w, "passed") /\ Departs(w)
  /\ WorkerOnly /\ UNCHANGED <<ready, server, barrier, waits>>

SeesBroken(w) ==
  /\ worker[w] = "waiting" /\ Awake(w) /\ Free("barrier") /\ barrier = "broken"
  /\ Leaves(w) /\ Departs(w)
  /\ WorkerOnly /\ UNCHANGED <<ready, server, barrier, waits>>

ForgetsReady(w) ==
  /\ worker[w] = "passed" /\ To(w, "parked")
  /\ WorkerOnly /\ UNCHANGED <<ready, server, meeting, waits>>

SetReady(w) ==
  /\ worker[w] = "passed" /\ To(w, "parked")
  /\ ready' = [ready EXCEPT ![w] = TRUE]
  /\ WorkerOnly /\ UNCHANGED <<server, meeting, waits>>

AwaitsStop(w) ==
  /\ worker[w] = "parked" /\ Awake(w) /\ Free("stop")
  /\ IF stop_event THEN Leaves(w) /\ UNCHANGED waits
     ELSE FallsAsleep(w) /\ UNCHANGED worker
  /\ WorkerOnly /\ UNCHANGED <<ready, server, meeting>>

\* server.stop() may raise as well.
Finally(w) ==
  /\ worker[w] = "finally" /\ To(w, "ended")
  /\ IF ready[w]
     THEN \E s \in {"stopped", "half_stopped"} : server' = [server EXCEPT ![w] = s]
     ELSE UNCHANGED server
  /\ WorkerOnly /\ UNCHANGED <<ready, meeting, waits>>

\* A driver crashes its process.  The barrier and the count of sleepers still have
\* it, and it may have held a lock for the moment that it looks at an event or the
\* barrier.
DiesLocking(w) ==
  /\ worker[w] \in {"built", "arriving", "waiting", "parked"} /\ w \notin asleep
  /\ Free(Condition(w)) /\ lock' = [lock EXCEPT ![Condition(w)] = {w}]
Killed(w) ==
  /\ worker[w] \notin Gone \cup {"created"} /\ To(w, "killed")
  /\ asleep' = asleep \ {w} /\ quitting' = quitting \ {w}
  /\ lost' = IF w \in asleep THEN [lost EXCEPT ![Condition(w)] = @ \cup {w}] ELSE lost
  /\ UNCHANGED lock \/ DiesLocking(w)
  /\ WorkerOnly /\ UNCHANGED <<ready, server, meeting>>

-----------------------------------------------------------------------------
(* Ctrl-C *)

CtrlC ==
  /\ ~ctrl_c /\ main \notin {"init", "exited"} /\ ctrl_c' = TRUE /\ interrupts' = Processes
  /\ UNCHANGED <<main, worker, ready, server, events, meeting, waits>>

\* A sleeper acknowledges and needs the lock to raise.
Rouses(p) == asleep' = asleep \ {p} /\ quitting' = quitting \cup {p}
NoneRoused == UNCHANGED <<asleep, quitting>>

\* Out of the barrier; who was opening it breaks it.
Aborts(p, phase) ==
  /\ Departs(p) /\ barrier' = IF phase = "opening" THEN "broken" ELSE barrier

InterruptMain ==
  /\ Main \in interrupts /\ interrupts' = interrupts \ {Main}
  /\ \/ Main \in asleep /\ Rouses(Main) /\ UNCHANGED <<main, meeting>>
     \/ /\ Main \notin asleep /\ NoneRoused
        /\ \/ main = "running" /\ main' = "stopping" /\ UNCHANGED meeting
           \/ main \in {"stopping", "halting", "joining"} /\ main' = "stopped"
              /\ UNCHANGED meeting
           \/ main \in {"stopped", "failed", "exited"} /\ UNCHANGED <<main, meeting>>
           \/ /\ main \in {"spawned", "setting", "arriving", "waiting", "opening",
                            "breaking", "checking"}
              /\ main' = "failed" /\ Aborts(Main, main)
  /\ lock' = [c \in Conditions |-> lock[c] \ {Main}]
  /\ UNCHANGED <<worker, ready, server, events, lost, ctrl_c>>

MainQuits ==
  /\ Main \in quitting /\ Free("barrier")
  /\ main' = "failed" /\ Departs(Main) /\ quitting' = quitting \ {Main}
  /\ MainOnly /\ UNCHANGED <<events, barrier, lock, asleep, lost>>

\* Who is on its way back from an event's wait() leaves without the lock and releases
\* it all the same.  In the finally block Ctrl-C interrupts server.stop().
InterruptWorker(w) ==
  /\ w \in interrupts /\ interrupts' = interrupts \ {w}
  /\ \/ /\ worker[w] \in Gone
        /\ NoneRoused /\ UNCHANGED <<worker, server, meeting, lock>>
     \/ w \in asleep /\ Rouses(w) /\ UNCHANGED <<worker, server, meeting, lock>>
     \/ /\ worker[w] = "finally" /\ To(w, "ended")
        /\ server' = IF ready[w] THEN [server EXCEPT ![w] = "half_stopped"] ELSE server
        /\ NoneRoused /\ UNCHANGED <<meeting, lock>>
     \/ /\ worker[w] \notin Gone \cup {"finally"} /\ w \notin asleep
        /\ Leaves(w) /\ Aborts(w, worker[w])
        /\ \/ lock' = [c \in Conditions |-> lock[c] \ {w}]
           \/ /\ worker[w] \in {"built", "parked"} /\ Called(Condition(w))
              /\ lock' = [lock EXCEPT ![Condition(w)] = {}]
        /\ NoneRoused /\ UNCHANGED server
  /\ UNCHANGED <<main, ready, events, lost, ctrl_c>>

Quits(w) ==
  /\ w \in quitting /\ Free(Condition(w))
  /\ Leaves(w) /\ Departs(w) /\ quitting' = quitting \ {w}
  /\ WorkerOnly /\ UNCHANGED <<ready, server, barrier, lock, asleep, lost>>

-----------------------------------------------------------------------------
MainStep ==
  \/ SpawnAll \/ SetStart \/ StartIsSet \/ MainArrives \/ MainOpens \/ MainWakes
  \/ MainLeaves \/ MainTimesOut \/ MainBreaks \/ CheckAlive
  \/ Halt \/ StopIsSet \/ Joined \/ MainQuits
WorkerStep(w) ==
  \/ Wakes(w) \/ AwaitsStart(w) \/ Arrives(w) \/ Opens(w) \/ Passes(w) \/ SeesBroken(w)
  \/ SetReady(w) \/ AwaitsStop(w) \/ Finally(w) \/ Quits(w)

Next ==
  \/ MainStep \/ Stop \/ Exit \/ CtrlC \/ InterruptMain
  \/ \E w \in Workers : \/ WorkerStep(w) \/ Build(w) \/ Start(w) \/ Raises(w)
                        \/ Killed(w) \/ InterruptWorker(w)
Spec == Init /\ [][Next]_vars

\* Processes run.  A server may take for ever to be built or started, and the
\* program in the with statement may never leave it.
FairSpec ==
  /\ Spec
  /\ WF_vars(MainStep) /\ WF_vars(InterruptMain)
  /\ \A w \in Workers : WF_vars(WorkerStep(w)) /\ WF_vars(InterruptWorker(w))

-----------------------------------------------------------------------------
(* Properties *)

TypeOK ==
  /\ main \in {"init", "spawned", "setting", "arriving", "waiting", "opening", "breaking",
              "checking", "running", "stopping", "halting", "joining", "stopped", "failed",
              "exited"}
  /\ worker \in [Workers -> {"created", "building", "built", "starting", "arriving",
                            "waiting", "opening", "passed", "parked", "finally"} \cup Gone]
  /\ ready \in [Workers -> BOOLEAN]
  /\ server \in [Workers -> {"none", "built", "started", "stopped", "half_stopped"}]
  /\ {start_event, stop_event, ctrl_c} \subseteq BOOLEAN
  /\ barrier \in {"filling", "draining", "broken"}
  /\ arrived \subseteq Processes /\ interrupts \subseteq Processes
  /\ lock \in [Conditions -> SUBSET Processes] /\ lost \in [Conditions -> SUBSET Workers]
  /\ asleep \subseteq Processes /\ quitting \subseteq Processes
  /\ \A w \in Workers :
       worker[w] \in {"arriving", "waiting", "opening", "passed", "parked"} =>
         server[w] = "started"

\* When start() has returned, every server was started: no worker is still on its
\* way, however the arrivals, the timeout and Ctrl-C fell.
HasStarted == main \in {"running", "stopping", "halting", "joining", "stopped"}
StartMeansServing ==
  HasStarted => \A w \in Workers : server[w] \notin {"none", "built"}

\* A server whose worker ended by itself was stopped, if start() returned and
\* nobody pressed Ctrl-C: no robot is left moving.
Halts ==
  \A w \in Workers :
    HasStarted /\ ~ctrl_c /\ worker[w] = "ended" =>
      server[w] \in {"stopped", "half_stopped"}

\* A worker was killed asleep, or keeps the lock of one of the conditions for ever.
Orphaned(cs) ==
  \E c \in cs : lost[c] # {} \/ \E w \in Workers \cap lock[c] : worker[w] = "killed"

\* start() returns or raises, even when a worker fails, hangs or is killed, unless it
\* is killed in start_event.wait() or ready_barrier.wait(): then the set(), the
\* opening or the breaking that is to wake it may never return.
StartEnds ==
  main = "init" ~> HasStarted \/ main \in {"failed", "exited"}
                   \/ Orphaned({"start", "barrier"})

\* After stop(), a broken barrier or Ctrl-C every worker whose server has started
\* ends: it is left waiting neither at the barrier nor for stop_event, unless a
\* worker was killed in a wait.
Over ==
  main \in {"stopping", "halting", "joining", "stopped"} \/ barrier = "broken" \/ ctrl_c
WorkersEnd ==
  \A w \in Workers :
    Over /\ worker[w] \notin {"created", "building", "built", "starting"}
      ~> worker[w] \in Gone \/ Orphaned(Conditions)
=============================================================================
