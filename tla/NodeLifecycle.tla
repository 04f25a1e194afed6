------------------------------ MODULE NodeLifecycle ------------------------------
(***************************************************************************)
(* start() and stop() of a node and the loops they run, under every        *)
(* middleware:                                                             *)
(*                                                                         *)
(*   "thread"  the worker and the main loop are threads of the starting    *)
(*             process                                                     *)
(*   "shmf"    the main loop is a child process                            *)
(*   "shm"     both run in a child process, which first builds the shared  *)
(*             memory and sends it to the starting process through a pipe  *)
(*   Serving   threads again, and a server that answers API calls:         *)
(*     "zmq", "lcm"           bound when the node is built, so that calls  *)
(*                            wait; a thread serves them from start() to   *)
(*                            exit_event                                   *)
(*     "rclpy"                alike, but shut down by stop()               *)
(*     "zenoh"                serves before ring_buffer is built           *)
(*     "grpc"                 made by start(), shut down by stop()         *)
(*     "portal", "zerorpc"    bound by a thread of start() that nobody     *)
(*                            stops                                        *)
(*                                                                         *)
(* A loop follows its program in module Nodes.  Steps on the device may    *)
(* raise, start() waits for the ready events with a timeout that it does   *)
(* not report, stop() joins with a timeout, and Ctrl-C may strike once.    *)
(*                                                                         *)
(* WhileTrue, SkipsTooFar, KeepsPipe, ClosesBeforeJoins, NeverServes and   *)
(* WaitsForNothing are faulty variants.                                    *)
(***************************************************************************)
EXTENDS Nodes, Naturals

CONSTANT Catalogue   \* the nodes; the templates among them run under every middleware

VARIABLES
  node, middleware,   \* fixed at the start
  caller,             \* the process of start() and stop(): "building" | "new" |
                      \* "receiving" | "starting" | "pub_wait" | "req_wait" |
                      \* "checking" | "launching" | "running" | "joining" |
                      \* "closing" | "stopped" | "failed"
  node_server,        \* what answers API calls: "none" | "bound" | "serving" |
                      \* "ended" | "closed"
  child,              \* "none" | "building" | "failed" | "sent" | "started" |
                      \* "running" | "joining" | "ended"
  at,                 \* where each loop stands in its program
  raised,             \* where a loop raised: the parts and steps of its program
  opened,             \* whether the device of a loop is open
  stored,             \* the ring buffer holds a state
  pub_ready_event, req_ready_event, exit_event,
  timed_out,          \* what was given up on: the ready events, the joins
  node_interrupts     \* the processes that Ctrl-C may still reach

loops == <<at, raised, opened>>
node_events == <<pub_ready_event, req_ready_event, exit_event>>
nodevars == <<node, middleware, caller, node_server, child, loops, stored, node_events,
              timed_out, node_interrupts>>

Loops == {"main", "worker"}
HasWorker == node.worker # NoLoop
Serving == {"zmq", "lcm", "rclpy", "zenoh", "grpc", "portal", "zerorpc"}
Middlewares == {"thread", "shm", "shmf"} \cup Serving

-----------------------------------------------------------------------------
(* Places in a program *)

Place(part, k) == [part |-> part, k |-> k]
Idle == Place("idle", 0)
Test == Place("test", 0)      \* while not self.exit_event.is_set()
Ended == Place("ended", 0)

InFinally(p) == IF p.finally = <<>> THEN Ended ELSE Place("finally", 1)
InTry(p) == IF p.try = <<>> THEN Test ELSE Place("try", 1)
Entry(p) == IF p.before = <<>> THEN InTry(p) ELSE Place("before", 1)

WhileTrue(p, x) ==
  IF x.k < Len(p[x.part]) THEN Place(x.part, x.k + 1)
  ELSE CASE x.part = "before" -> InTry(p)
         [] x.part \in {"try", "loop"} -> Place("loop", 1)
         [] x.part = "finally" -> Ended
Then(p, x) ==
  IF x.k < Len(p[x.part]) THEN Place(x.part, x.k + 1)
  ELSE CASE x.part = "before" -> InTry(p)
         [] x.part \in {"try", "loop"} -> Test
         [] x.part = "finally" -> Ended

\* Where an exception leads from x.
Escape(p, x) == IF x.part \in {"try", "test", "loop"} THEN InFinally(p) ELSE Ended

InProgram(x) == x.part \in {"before", "try", "loop", "finally"}
Step(t) == IF InProgram(at[t]) THEN node[t][at[t].part][at[t].k] ELSE at[t].part
Moves(t, x) == at' = [at EXCEPT ![t] = x]
Proceeds(t) == Moves(t, Then(node[t], at[t]))

-----------------------------------------------------------------------------
(* The steps of a loop *)

LoopOnly ==
  UNCHANGED <<node, middleware, caller, node_server, child, timed_out, node_interrupts>>

TestExit(t) ==
  /\ Step(t) = "test"
  /\ Moves(t, IF exit_event THEN InFinally(node[t]) ELSE Place("loop", 1))
  /\ LoopOnly /\ UNCHANGED <<raised, opened, stored, node_events>>

Use(t) ==
  /\ Step(t) \in {"use", "try_use", "requests"} /\ Proceeds(t)
  /\ LoopOnly /\ UNCHANGED <<raised, opened, stored, node_events>>

Connect(t) ==
  /\ Step(t) \in {"open", "close", "try_close"} /\ Proceeds(t)
  /\ opened' = [opened EXCEPT ![t] = Step(t) = "open"]
  /\ LoopOnly /\ UNCHANGED <<raised, stored, node_events>>

\* It may never happen.
Await(t) ==
  /\ Step(t) = "await" /\ Proceeds(t)
  /\ LoopOnly /\ UNCHANGED <<raised, opened, stored, node_events>>

SkipsTooFar(t) ==
  \/ Step(t) = "frame" /\ (Proceeds(t) \/ Moves(t, Test))
  \/ Step(t) = "grab" /\ (Proceeds(t) \/ Moves(t, Place("loop", at[t].k + 4)))
NextFrame(t) ==
  \/ Step(t) = "frame" /\ (Proceeds(t) \/ Moves(t, Test))
  \/ Step(t) = "grab" /\ (Proceeds(t) \/ Moves(t, Place("loop", at[t].k + 3)))
Frame(t) ==
  /\ NextFrame(t)
  /\ LoopOnly /\ UNCHANGED <<raised, opened, stored, node_events>>

Drain(t) ==
  /\ Step(t) = "drain" /\ Proceeds(t)
  /\ exit_event' \in {exit_event, TRUE}
  /\ LoopOnly /\ UNCHANGED <<raised, opened, stored, pub_ready_event, req_ready_event>>

\* The put of zmq and rclpy publishes too.
Puts(t) == Step(t) \in {"put", "put_now"}
PublisherClosed == middleware \in {"zmq", "rclpy"} /\ node_server = "closed"
Put(t) ==
  /\ Puts(t) /\ ~PublisherClosed /\ Proceeds(t) /\ stored' = TRUE
  /\ LoopOnly /\ UNCHANGED <<raised, opened, node_events>>

SetReadyEvent(t) ==
  /\ \/ Step(t) = "pub_ready" /\ pub_ready_event' = TRUE /\ UNCHANGED req_ready_event
     \/ Step(t) = "req_ready" /\ node.req /\ req_ready_event' = TRUE /\ UNCHANGED pub_ready_event
  /\ Proceeds(t)
  /\ LoopOnly /\ UNCHANGED <<raised, opened, stored, exit_event>>

\* The steps an exception can come out of.  put(wait=False) raises TimeoutError on
\* a shared ring buffer; req_ready_event is None without __req__.
Device == {"open", "use", "requests", "close", "await", "forever", "frame", "grab"}
MayRaise(t) ==
  \/ Step(t) \in Device
  \/ Step(t) = "put_now" /\ middleware \in {"shm", "shmf"}
  \/ Puts(t) /\ PublisherClosed
  \/ Step(t) = "req_ready" /\ ~node.req

RaisesAt(t, part, step) ==
  raised' = [raised EXCEPT ![t] = @ \cup {[part |-> part, step |-> step]}]

Raise(t) ==
  /\ MayRaise(t) /\ Moves(t, Escape(node[t], at[t])) /\ RaisesAt(t, at[t].part, Step(t))
  /\ stored' = (stored \/ (Puts(t) /\ PublisherClosed))
  /\ LoopOnly /\ UNCHANGED <<opened, node_events>>

\* except Exception: pass
Swallow(t) ==
  /\ Step(t) \in {"try_use", "try_close"} /\ Proceeds(t) /\ RaisesAt(t, at[t].part, Step(t))
  /\ LoopOnly /\ UNCHANGED <<opened, stored, node_events>>

-----------------------------------------------------------------------------
(* start() and stop() of the starting process *)

CallerOnly == UNCHANGED <<node, middleware, raised, opened, stored, node_interrupts>>

Begins(t) == at' = [at EXCEPT ![t] = Entry(node[t])]
Alive(t) == at[t] \notin {Idle, Ended}

\* __post_init__ of zenoh after declare_queryable.
Built ==
  /\ caller = "building" /\ caller' = "new"
  /\ CallerOnly /\ UNCHANGED <<node_server, at, child, node_events, timed_out>>

StartWorker ==
  /\ caller = "new" /\ middleware # "shm" /\ caller' = "starting"
  /\ IF HasWorker THEN Begins("worker") ELSE UNCHANGED at
  /\ CallerOnly /\ UNCHANGED <<node_server, child, node_events, timed_out>>

StartMain ==
  /\ caller = "starting" /\ caller' = "pub_wait" /\ Begins("main")
  /\ CallerOnly /\ UNCHANGED <<node_server, child, node_events, timed_out>>

StartChild ==
  /\ caller = "new" /\ middleware = "shm" /\ caller' = "receiving" /\ child' = "building"
  /\ CallerOnly /\ UNCHANGED <<node_server, at, node_events, timed_out>>

\* recv() raises EOFError when the child ended before it sent, for no other process
\* holds the sending end of the pipe.
KeepsPipe == FALSE
EndOfFile == child = "failed"
Receive ==
  /\ caller = "receiving"
  /\ \/ child \in {"sent", "started", "running", "joining", "ended"} /\ caller' = "pub_wait"
     \/ EndOfFile /\ caller' = "failed"
  /\ CallerOnly /\ UNCHANGED <<node_server, at, child, node_events, timed_out>>

TimesOut(event, name) ==
  timed_out' = IF event THEN timed_out ELSE timed_out \cup {name}

WaitsForNothing ==
  /\ caller = "pub_wait" /\ caller' = "req_wait" /\ UNCHANGED timed_out
  /\ CallerOnly /\ UNCHANGED <<node_server, at, child, node_events>>
WaitPub ==
  /\ caller = "pub_wait" /\ caller' = "req_wait" /\ TimesOut(pub_ready_event, "pub")
  /\ CallerOnly /\ UNCHANGED <<node_server, at, child, node_events>>

WaitReq ==
  /\ caller = "req_wait" /\ caller' = "checking"
  /\ TimesOut(~node.req \/ req_ready_event, "req")
  /\ CallerOnly /\ UNCHANGED <<node_server, at, child, node_events>>

AssertAlive ==
  /\ caller = "checking"
  /\ caller' = IF IF middleware = "shm" THEN child # "ended"
                   ELSE Alive("main") /\ (HasWorker => Alive("worker"))
               THEN IF middleware \in Serving THEN "launching" ELSE "running"
               ELSE "failed"
  /\ CallerOnly /\ UNCHANGED <<node_server, at, child, node_events, timed_out>>

\* The server's thread starts; a grpc server may not get its port.
NeverServes ==
  /\ caller = "launching" /\ caller' = "running" /\ UNCHANGED node_server
  /\ CallerOnly /\ UNCHANGED <<at, child, node_events, timed_out>>
StartServer ==
  /\ caller = "launching"
  /\ \/ caller' = "running" /\ node_server' = "serving"
     \/ middleware = "grpc" /\ caller' = "failed" /\ UNCHANGED node_server
  /\ CallerOnly /\ UNCHANGED <<at, child, node_events, timed_out>>

ClosesBeforeJoins ==
  /\ caller = "running" /\ caller' = "joining" /\ exit_event' = TRUE
  /\ node_server' = IF middleware \in {"zmq", "rclpy"} THEN "closed" ELSE node_server
  /\ CallerOnly /\ UNCHANGED <<at, child, pub_ready_event, req_ready_event, timed_out>>
StopNode ==
  /\ caller = "running" /\ caller' = "joining" /\ exit_event' = TRUE
  /\ CallerOnly
  /\ UNCHANGED <<node_server, at, child, pub_ready_event, req_ready_event, timed_out>>

\* The joins return when the loops have ended or their timeout is over.
LoopsJoined ==
  /\ caller = "joining"
  /\ caller' = IF middleware \in Serving THEN "closing" ELSE "stopped"
  /\ TimesOut(\A t \in Loops : ~Alive(t), "join")
  /\ CallerOnly /\ UNCHANGED <<node_server, at, child, node_events>>

\* stop() of lcm, portal and zerorpc leaves the server to itself.
CloseServer ==
  /\ caller = "closing" /\ caller' = "stopped"
  /\ node_server' = IF middleware \in {"zmq", "rclpy", "zenoh", "grpc"}
                    THEN "closed" ELSE node_server
  /\ CallerOnly /\ UNCHANGED <<at, child, node_events, timed_out>>

\* It takes no more calls: _request_loop leaves its loop, the thread of zenoh
\* undeclares the queryables.
ServerEnds ==
  /\ middleware \in {"zmq", "lcm", "zenoh"} /\ exit_event
  /\ node_server = "serving" /\ node_server' = "ended"
  /\ CallerOnly /\ UNCHANGED <<caller, at, child, node_events, timed_out>>

-----------------------------------------------------------------------------
(* mp_run of the child process *)

ChildOnly == UNCHANGED <<node, middleware, caller, node_server, opened, stored, timed_out>>

\* The process exits and takes the worker thread, a daemon, along.
ChildEnds ==
  /\ child' = "ended"
  /\ at' = [at EXCEPT !["worker"] = IF @ = Idle THEN Idle ELSE Ended]
  /\ IF Alive("worker") THEN RaisesAt("worker", "killed", "killed") ELSE UNCHANGED raised

BuildShared ==
  /\ child = "building" /\ child' \in {"sent", "failed"}
  /\ ChildOnly /\ UNCHANGED <<at, raised, node_events, node_interrupts>>

ChildStartsWorker ==
  /\ child = "sent" /\ child' = "started"
  /\ IF HasWorker THEN Begins("worker") ELSE UNCHANGED at
  /\ ChildOnly /\ UNCHANGED <<raised, node_events, node_interrupts>>

ChildRuns ==
  /\ child = "started"
  /\ IF HasWorker => Alive("worker")
     THEN child' = "running" /\ Begins("main") /\ UNCHANGED raised
     ELSE ChildEnds
  /\ ChildOnly /\ UNCHANGED <<node_events, node_interrupts>>

ChildStops ==
  /\ child = "running" /\ at["main"] = Ended /\ child' = "joining" /\ exit_event' = TRUE
  /\ ChildOnly /\ UNCHANGED <<at, raised, pub_ready_event, req_ready_event, node_interrupts>>

ChildJoined ==
  /\ child = "joining" /\ ChildEnds
  /\ ChildOnly /\ UNCHANGED <<node_events, node_interrupts>>

-----------------------------------------------------------------------------
(* Ctrl-C *)

InterruptCaller ==
  /\ "caller" \in node_interrupts /\ node_interrupts' = node_interrupts \ {"caller"}
  /\ \/ caller = "running" /\ caller' = "joining" /\ exit_event' = TRUE
     \/ caller \in {"joining", "closing"} /\ caller' = "stopped" /\ UNCHANGED exit_event
     \/ /\ caller \in {"starting", "receiving", "pub_wait", "req_wait", "checking", "launching"}
        /\ caller' = "failed" /\ UNCHANGED exit_event
  /\ UNCHANGED <<node, middleware, node_server, child, loops, stored,
                 pub_ready_event, req_ready_event, timed_out>>

\* mp_run and the loops let it end them; before and after they run nothing does.
\* The main loop of shmf is a child process too.
InterruptChild ==
  /\ "child" \in node_interrupts /\ node_interrupts' = node_interrupts \ {"child"}
  /\ \/ child = "building" /\ child' = "failed" /\ UNCHANGED <<at, raised>>
     \/ child \in {"sent", "started", "joining"} /\ ChildEnds
     \/ /\ child = "running" \/ middleware = "shmf"
        /\ Alive("main") /\ UNCHANGED child
        /\ Moves("main", Escape(node.main, at["main"]))
        /\ RaisesAt("main", at["main"].part, "interrupt")
  /\ ChildOnly /\ UNCHANGED node_events

-----------------------------------------------------------------------------
NodeInit ==
  /\ node \in Catalogue
  /\ middleware \in IF node \in Templates THEN Middlewares ELSE {"thread", "shm"}
  /\ caller = IF middleware = "zenoh" THEN "building" ELSE "new"
  /\ node_server = CASE middleware \in {"zmq", "lcm", "rclpy"} -> "bound"
                [] middleware = "zenoh" -> "serving"
                [] OTHER -> "none"
  /\ child = "none"
  /\ at = [t \in Loops |-> Idle] /\ raised = [t \in Loops |-> {}]
  /\ opened = [t \in Loops |-> FALSE] /\ stored = FALSE
  /\ pub_ready_event = FALSE /\ req_ready_event = FALSE /\ exit_event = FALSE
  /\ timed_out = {} /\ node_interrupts = {"caller", "child"}

\* What a loop does when its device neither raises nor keeps it waiting.
LoopStep(t) ==
  TestExit(t) \/ Use(t) \/ Connect(t) \/ Frame(t) \/ Drain(t) \/ Put(t) \/ SetReadyEvent(t)
CallerStep ==
  Built \/ StartWorker \/ StartMain \/ StartChild \/ Receive \/ WaitPub \/ WaitReq
  \/ AssertAlive \/ StartServer \/ LoopsJoined \/ CloseServer
ChildStep == BuildShared \/ ChildStartsWorker \/ ChildRuns \/ ChildStops \/ ChildJoined

OtherStep ==
  \/ StopNode \/ ServerEnds \/ ChildStep \/ InterruptCaller \/ InterruptChild
  \/ \E t \in Loops : LoopStep(t) \/ Await(t) \/ Raise(t) \/ Swallow(t)
NodeNext == CallerStep \/ OtherStep
NodeSpec == NodeInit /\ [][NodeNext]_nodevars

\* Threads and processes run, and a call on a device returns or raises; only what is
\* awaited may never come, and stop() may never be called.
FairNodeSpec ==
  /\ NodeSpec
  /\ WF_nodevars(CallerStep) /\ WF_nodevars(ServerEnds) /\ WF_nodevars(ChildStep)
  /\ \A t \in Loops : WF_nodevars(LoopStep(t) \/ Raise(t))

-----------------------------------------------------------------------------
(* Properties *)

\* When start() returned and gave up on neither event, the ring buffer holds a state
\* and the loop that serves requests is past its setup: get_state() has an answer
\* and a command is carried out.
Serves(p) == \E k \in 1 .. Len(p.loop) : p.loop[k] = "requests"
ReadyMeansServing ==
  caller \in {"running", "joining", "closing", "stopped"} /\ timed_out \subseteq {"join"} =>
    /\ stored
    /\ \A t \in Loops : Serves(node[t]) => at[t].part \in {"test", "loop", "finally", "ended"}

\* A loop that ended by itself has closed its device, unless it raised before its try
\* block or in its finally block; some nodes never close it.
NeverClosed ==
  {"booster_t1", "unitree_g1", "realsense", "avp_stream", "keyboard", "oculus_reader",
   "vicon", "vuer", "x_robotoolkit"}
Released ==
  \A t \in Loops :
    /\ at[t] = Ended /\ node.name \notin NeverClosed
    /\ \A r \in raised[t] : r.part \notin {"before", "finally", "killed"}
    => ~opened[t]

\* start() returns or raises, even when the child process dies.
NodeStartEnds == caller = "new" ~> caller \in {"running", "joining", "stopped", "failed"}

\* Once exit_event is set every loop ends, unless it awaits its device: a camera
\* without frames, a failing device or a dead worker do not keep a node alive.
LoopsEnd ==
  \A t \in Loops : exit_event ~> at[t] \in {Idle, Ended} \/ Step(t) \in {"await", "forever"}

\* stop() closes the socket or node a loop publishes on only after it joined the
\* loops: no put of a loop fails for it, unless a join was given up.
PutUndisturbed ==
  middleware \in {"zmq", "rclpy"} =>
    \A t \in Loops : (\E r \in raised[t] : r.step \in {"put", "put_now"}) => "join" \in timed_out

\* What the README says of a pub loop: it puts a state into the ring buffer before it
\* ends, unless it was told to exit, was interrupted or its device failed.
PubLoopPuts ==
  at["main"] = Ended /\ ~exit_event
  /\ (\A r \in raised["main"] : r.step \notin Device \cup {"interrupt"})
    => stored
=============================================================================
