# Verification of rio-hw

TLA+ models of rio-hw, their TLC configurations, and machine-checked proofs. Paths are relative to `src/rio_hw/`.

rio-hw wraps robots, cameras and input devices as *nodes*. A node runs one or two loops that publish states and carry
out requests; a *middleware* it is combined with at run time (`middleware.py`, `ServerFactory` and `ClientFactory`)
decides in which thread or process the loops run, where states and requests are kept, and how a client calls the
node's API (`__api__`). What is hard here is in the middlewares and at the seams between loop, middleware and client:
two processes that share memory without locks, answers that come late, processes that die during start, loops that end
with a device open, and waypoint requests that arrive too late.

## 1. The system

| component | state it keeps | operations | talks to | what makes it correct |
|---|---|---|---|---|
| `Node` (`node.py`, `_template/`) | readiness and exit events, ring buffer, request queue | `pub`, `req`, `pubreq`, API methods | its middleware | ready means that a state and a serving loop are there |
| `SharedMemoryQueue` | read and write counter, arrays | `put`, `get`, `get_k`, `get_all`, `clear` | API of a client process, control loop | bounded FIFO, nothing torn |
| `SharedMemoryRingBuffer` | counter, arrays, timestamps | `put`, `get`, `get_last_k`, `get_all` | pub loop, client processes | a read returns whole, latest states |
| `RingBuffer`, `Queue` (`_storage.py`) | deques and locks | the same | threads of one process | a read is a window of one instant; the newest request is kept |
| `Rate`, clock (`time.py`) | start time | `sleep`, `precise_sleep` | every loop | the period is kept |
| thread middleware (`thread.py`) | two threads, three events | `start`, `stop` | the loops | start ends, stop ends the loops |
| shared-memory middlewares (`shm.py`, `shmf.py`) | child process, pipe, shared memory manager | `start`, `stop`, `mp_run` | the loops in a child, in `shmf` only the main loop | the same, and the death of the child is noticed |
| LCM, ROS 2 calls (`lcm.py`, `rclpy.py`) | `_pending`, `_results`, topics | API call, response, `stop` | server loop by messages | a call gets its own answer or ends |
| ROS 2 states (`rclpy.py`) | a topic per field, the client's latest state and copy | put, discovery, snapshot, read | pub loop, spin thread, reading threads | no field goes back or stays missing |
| ZeroMQ (`zmq.py`) | DEALER, ROUTER, PUB sockets, `_lock` | API call, request loop | server loop by messages | requests are executed and answered in order |
| zenoh, gRPC, portal, zerorpc | the library's client and server | API call | the library | a ready node answers; the rest is the library's |
| `ServerManager` (`middleware.py`) | processes, two events, a barrier | `start`, `stop`, `_worker` | one server per process | all servers are up, or start fails; none is left running |
| interpolators (`interpolators.py`) | times and values | `trim`, `schedule_waypoint`, call | control loops | defined for all requests, within the speed limits |
| arms and grippers (`robots/`) | trajectory, `last_waypoint_time` | `moveL`, `moveJ`, `moveG`, loop | device drivers | the loop survives late requests, commands stay within the limits |
| humanoids, yam arm | last command | loop | device SDK | the life of the loop |
| cameras (`cameras/`) | last frame | loop, option requests | device SDK | a missing frame stops nothing |
| interfaces (`interfaces/`) | pressed keys, counters, poses | loop, device callbacks | device SDK | published codes were pressed, no tap is lost or counted twice |
| drivers (`robots/utils/`) | connection, mode | send, receive, switch mode | the device | answers belong to commands |
| filters (`filters.py`) | previous value | filter | arms and grippers in joint mode | the command follows the trajectory |
| serializers, requests | none | pure functions | middlewares, loops | decode undoes encode |
| teleoperation (`../examples/`) | target pose, mode | poll, `moveL`, `moveG` | keyboard node, arm, gripper | the arm comes to rest when the keys are let go |
| setup scripts, tests | | | | not part of the running system |

How a request travels: a client calls an API method; over a network middleware the call becomes a message and is
executed in the server's request thread, with shared memory it is executed in the client; either way the method puts a
request into the request queue; the control loop fetches all requests once per period, schedules waypoints and
commands the device. How a state travels: the pub loop puts it into the ring buffer, and `get_state` and
`get_all_state` read it there, again by a call over the network or directly from shared memory.

The hazards this leads to, with the line where each bites and the property that would notice, are listed in
`PROJECT.json`; a hazard without a property says why.

## 2. Modules

| module | models | uses |
|---|---|---|
| `FifoQueue` | the abstract request queue: a bounded FIFO channel | |
| `ShmQueue` | `SharedMemoryQueue`, single accesses of shared memory as steps | refines `FifoQueue` |
| `ShmRingBuffer` | `SharedMemoryRingBuffer`, with time and the paced loop | |
| `Storage` | `RingBuffer` and `Queue` of `_storage.py`, as operators | |
| `RclpyState` | the state of a node over ROS 2 topics and the client's copy of it | `Storage` |
| `ApiCalls` | what a call returns to its caller and says of its request | |
| `PubSubRpc` | API calls of `lcm.py` and `rclpy.py` | refines `ApiCalls` |
| `ZmqRpc` | API calls of `zmq.py` | |
| `TrajectoryInterpolator` | `trim`, `schedule_waypoint` of both interpolators | |
| `ArmControl` | the control loops of twelve arms and grippers | `TrajectoryInterpolator` |
| `ServerManager` | `ServerManager` of `middleware.py` | |
| `Nodes` | the loops of every node, as programs | |
| `NodeLifecycle` | `start`, `stop`, the loops and the server, under all ten middlewares | `Nodes` |
| `NodeCalls` | a client's call at any time of that life | `NodeLifecycle` |
| `Keyboards` | the three keyboard nodes and a reader of their press counter | `Storage` |
| `Teleop` | `teleop_eef.py` between a keyboard node and an arm | `Keyboards` |
| `LifecycleProofs` | the theorems about `ServerManager`, `NodeLifecycle` and `NodeCalls` | these |
| `*Proofs` | the theorems about the module of that name (section 5) | that module |
| `MC*` | constants for TLC | |

Variables have the names of the code's attributes and locals; a control variable (`ppc`, `pc`, `phase`, `caller`, `at`)
says where a thread or process stands. Definitions that a module's header calls *faulty variants* are used by nothing:
they are ways the code could be wrong, and for each property `PROJECT.json` names one that the property notices.

**`ShmQueue`.** One process puts, one gets. Loading a counter, writing a field of a slot, copying one element and
advancing a counter are steps. A counter's `add` is one step because each counter has a single writer
(`shared_memory_util.py` makes the same assumption in its comment). Requests carry the key sets the API methods build:
all declared keys, some of them, or a key without an array, which makes `put` raise `KeyError` half-way. Field contents
nobody wrote are read as anything. `clear` is loaded and stored in two steps. Between two loops the queue appears as
the sequence `request_queue` of `ArmControl`: `FifoSpec` is what allows that.

**`ShmRingBuffer`.** Time is a tick counter, contents are the number of the put that wrote them, one element of one
field is copied or written per step. `Lateness` bounds how late an iteration begins; the loop then catches up as
`Rate.precise_sleep` does, which adds the period to its schedule and never moves it. `get` and `get_last_k` return only
if the copy took no longer than the budget. Before the first put, `get` returns unwritten memory, and `SafeRead` says
nothing of that case.

**`PubSubRpc`.** The blocks under `_pending_lock` are single steps, for nothing else shared is touched in them.
Messages may be lost, repeated and reordered; the server's thread may end; `stop` runs once, at any time, sets the
events of all calls under way and leaves the table as it is. Ids are fresh numbers, as `uuid4` makes them. The
difference between a result and an error text is left out: both are answers. `ApiCalls` says the same without ids in
tables, events and messages: a call is made under a fresh id, its request is sent at most once and then executed any
number of times, also after the caller gave up, and the call returns the outcome of one of those executions or an
error. `TypeError` says that the request was not sent and never will be executed; `TimeoutError`, and `KeyError` once
`stop` has run, say that it was sent and nothing more. `Sent` reads from `_pending` what was published: the id of a
request that could not be packed is never taken out of it.

**`ZmqRpc`.** A connection delivers in order and loses nothing while both ends live. Ctrl-C reaches the client's main
thread in `recv_multipart` and leaves the response for the next call; the request of the interrupted call is executed
all the same, if later. An API method that raises ends the request thread. That thread tests `exit_event` before it polls
for up to 100 ms, so it may take one more request after `stop` was called.

**`TrajectoryInterpolator`, `ArmControl`.** A trajectory maps waypoint times to values with a position and a rotation.
Numbers are exact fractions, times whole ticks; a duration forced by a speed limit is rounded up to a tick, where the
code has a float. A rotation is its angle, so interpolation on the sphere becomes linear. The robots' loops differ in
order (send first or schedule first), lead (`t_now + dt` or `t_now`), what they do with a late request, pacing, and
what the API does with a past time, and whether values pass the low-pass filter before they are sent, as joints do and
those of one gripper; each robot is one record of these choices, arms with both modes are two. `value` is what the
trajectory gave the filter, `command` what was sent: `alpha` of the value and `1 - alpha` of the command before, as an
exact fraction. `SendFails` is a device that refuses a command, which ends the loop. Reading the state, gripper forces,
joint limits and the quantisation of commands are left out, and so are kinova's poses: they go through inverse
kinematics, and on from there, or from the filter's previous value when it fails, through the filter.

**`ServerManager`.** Workers, main process, the two events and `multiprocessing.Barrier` with its filling, draining and
broken states. Each of the three is built on a `Condition`, whose protocol is modelled: who waits counts itself asleep
and lets the lock go (`lock`, `asleep`); who notifies holds the lock until every sleeper has acknowledged, and only then
do the woken, one by one, take the lock again. So `start_event.set()`, the opening and the breaking of the barrier and
`stop_event.set()` are calls that may take long, or for ever: a worker killed asleep never acknowledges (`lost`). A
server may fail or hang when it is built or started; a worker may be killed anywhere; Ctrl-C is sent to all processes,
reaches each at its own time, and gets sleepers and notifiers out of their calls (`quitting`); the wait of the main
process may time out at any time, which is how the ten seconds look when nothing bounds the time a server takes.

**`Storage`, `RclpyState`.** Under the interpreter lock `append`, `clear` and the copies of a deque are steps.
`get_last_k` counts in one, makes an iterator in the next if it goes through `islice` (above `Small` states), and copies
in another. `clear` is kept out by `read_lock`, `put` is not: an append after the iterator was made makes the copy raise
`RuntimeError`, an append before it shifts the window.
The server creates one publisher per field; each becomes visible to the client, is subscribed to and matched at a time
of its own, and keeps the last `qos_depth` messages. `start` takes the first look that finds anything. The spin thread
updates one field of the latest state per message and files a snapshot into the client's ring buffer, and goes on after
a `start` that failed. A value stands for the put it comes from. Conversions keep it.

**`Keyboards`, `Teleop`.** Presses, releases and repeats are events of a user, read by a listener thread (pynput, ssh) or
by the loop (evdev). What the sets hold are codes. Under ssh and evdev a key has one; pynput gives the character the key
types at that moment, so with Shift held a release discards another code than the press added (`Shifted`), and a key with
neither a character nor a name makes the callback raise, which ends the listener thread (`Charless`, `ListenerDies`);
the loop goes on with the sets as they are. Characters outside ASCII and keys of virtual code 0, which the callback
ignores, are left out. The listener may change a set between two keys of the loop's iteration, which then raises
`RuntimeError` at its next key if the size has changed, and `IndexError` if there are more keys than
`n_key_rollover`. `Teleop` adds the example's loop: the newest state gives a mode, a motion and a grip, the target moves
by one unit and is requested; the arm takes all requests and goes to the last one. Positions are taken modulo a small
number, directions stand for speeds, time is left out.

**`Nodes`, `NodeLifecycle`, `NodeCalls`.** A loop is a program of steps before `try`, in `try`, in the `while` and in
`finally`. The steps are in the code's order, and each is one of a few kinds (open, use, await, frame, put, ready,
requests, close), with the data left out. Every step on a device may raise, awaited devices may stay silent, `start`
gives up waiting at any time without telling, `stop` stops joining at any time, Ctrl-C reaches each process once.
`NodeLifecycle` runs any node in threads and in a child process with a pipe, and the templates under every middleware:
`shmf` with its main loop in a forked process, and the network middlewares with their server, which is bound when the
node is built (zmq, lcm, rclpy), serves before the ring buffer exists (zenoh), or is made by `start` (gRPC, portal,
zerorpc); some stop it, some leave it. The puts of zmq and rclpy publish, and raise once the socket or node is closed.
`NodeCalls` adds a client that calls `get_state` once: it may wait, be refused, time out, or be answered with a
state, with nothing (`[]`), or with an error. Clients over rclpy do not call: their `get_state` reads the client's own
copy, which is `RclpyState`.

## 3. Runs

| run | question | bounds | result |
|---|---|---|---|
| `queue` | does the lock-free queue behave as a FIFO channel, down to single accesses, and is it drained? | 2 slots, 3 puts, 3 key sets, 2 values | holds, 342 k states |
| `ring` | on time, are reads whole and does `put` never wait? what still holds when the loop stalls and catches up? | k up to 3, budget 2, period 2, lateness 1 or 7, 6 puts, 11 ticks | holds, 21 M states |
| `ring_burst` | does the comment's promise for k = `get_max_k` hold after a stall? | k = 2, budget 2, lateness 4 | violated |
| `pubsub_rpc` | does a call get its own answer, does nothing stay behind, do errors tell the truth? | 2 threads, 2 calls, 2 executions | holds, 224 k states |
| `zmq_rpc` | are requests executed and answered in order, and what does Ctrl-C do? | 2 clients, 3 threads, 2 calls each | holds, with a lag after Ctrl-C, 103 k states |
| `rclpy_state` | is a read one instant of the client's copy, and does the copy follow the server? | 2 fields, 3 puts, 2 reads, queue of 1, ring of 2 | holds, 4.1 M states |
| `arm_control` | do the loops survive any requests, within the speed limits, and reach the target? | 3 requests, times 1 to 4, 6 ticks, all robots, alpha 1/2 | holds, 11.4 M states |
| `arm_waypoint` | is `last_waypoint_time` the time of the last scheduled waypoint? | the same, 2 requests | violated |
| `server_manager` | is start all or nothing, is every server stopped, and do start and every worker end? | 2 servers | holds, but for what a worker killed in a wait leaves behind, 23 k states |
| `node` | does every node start, announce itself, answer, end and close its device? | all nodes, 10 middlewares, 1 call | holds, 386 k states |
| `avp_stream` | does the pub loop put a state, as the README says? | the same | violated for `avp_stream` |
| `teleop` | do published keys and press counters tell the truth, and does the arm come to rest? | 4 keys, 4 events, rollover 1 and 2, counter of width 2 | holds, 2.0 M states |

Why the bounds are enough. The queue of two slots goes through three puts, so both counters pass the end of the arrays
and a batch wraps; a full queue needs two of them. The ring is filled and wraps
once, so that one slot is overwritten: that takes `BufferSize + 1` puts, time for a read that spans the budget, and a
stall long enough for a burst that laps the lookahead slot. Two threads, two calls and two executions are what a
response needs to be late, repeated, or to meet another call of the same and of the other thread. Three requests are
what it takes to schedule a waypoint, cut it off by a second one and put a third one against the leftover. With two
servers and the main process, one of them can fail, hang or be killed asleep while the other two are at the barrier; the
safety properties are proved for any number, and TLC finds all five to hold with three servers, too, on 560 k states,
which takes minutes. The catalogue of nodes is complete
and the programs are finite, so `node` bounds nothing but the number of calls; the other nodes than the templates run
in threads and in a child process, which is all their steps can tell apart. A subscription's queue of one overflows
with the second message, a ring of two with the third snapshot, and with `Small = 1` reads of two states already go
through `islice`. A motion, a mode key and Shift fall into both key sets, and three events press a key, Shift, and let
the key go under another code; a fourth key has no character. Two keys in one set exceed a rollover of one, and three
presses wrap a counter of width two.

Fairness. A thread or process that can run does so, and nothing else is assumed: `WF` on the steps of a thread; a
waiting call that has a timeout returns by it. The control loop of `ShmQueue` calls `get_all` again and again whatever
else is called in between (`SF`), because every control loop does so once per period. ZeroMQ's ROUTER takes from its
connections in turn (`SF` per client). The loops of keyboard, teleoperation and arm are polled, the listener thread
delivers what happened, or dies of it. A gRPC or zmq call has no time limit and gets no fairness but its server's. No
fairness is given to networks, devices, servers that are being built, awaited frames, Ctrl-C, timeouts of `start` and
`stop`, or to a program that may never call `stop`.

`CHECK_DEADLOCK FALSE` is set where the modelled programs end: calls used up, processes ended, time over.

## 4. What the runs found

Three runs end in a counterexample to what a comment or document says; `PROJECT.json` quotes them.

1. `ring_burst`: the ring buffer compares the time budget with the time since the look-ahead slot was *written*. When
   the loop stalls and then catches up, the slots around it are written in one burst, and a `get_last_k(get_max_k)`
   that began at the end of the stall returns a state overwritten during the copy, without `TimeoutError`. Two states
   fewer than `get_max_k` are always safe (`SafeShortRead`).
2. `arm_waypoint`: the loops remember the *requested* time of the last waypoint. When the request was ignored as late,
   or the speed limit put its waypoint later, the next request cuts the trajectory elsewhere. No assertion fails and no
   limit is exceeded: `arm_control` shows that.
3. `avp_stream`: `pub` sets `req_ready_event`, which is `None` for a node without requests, and ends before the first
   state.

Facts the passing runs and the modelling show that are worth knowing, though no document denies them.

- *Calls.* After Ctrl-C in a ZeroMQ call every later call of that client returns the answer to an earlier one, and one
  API method that raises ends the request thread for all clients, who wait for ever. So does a call to a zmq node whose
  `start` failed: its socket is bound already and nobody serves it (`CallEnds` allows just that). A call made before
  `start` returned may be answered with `[]`, over zenoh even with an error because `ring_buffer` is not built. Over
  rclpy `get_state` is local to the client and gives `[]` until its first message, also when the node is ready.
- *Nodes.* A failing `start` leaves the loop that still runs commanding its device. These nodes never close their
  device: booster_t1, unitree_g1, realsense, avp_stream, keyboard, oculus_reader, vicon, vuer, x_robotoolkit;
  `Released` leaves them out, and it allows a device to stay open when the loop raised before its `try` block, as
  several loops do that open the device there. oak, record3d, so_arm, piper_arm, xarm_arm, keyboard, ssh_keyboard and
  vuer await a device or a listener without looking at `exit_event`; `LoopsEnd` allows that. vuer never sets
  `req_ready_event`, so `start` always waits out its time, and under shared memory its loop looks for a key `type` that
  its requests do not have.
- *Server manager.* A worker killed inside `start_event.wait()`, `ready_barrier.wait()` or `stop_event.wait()` makes the
  call that is to wake it hang, with the lock held: `start` or `stop` does not return, and the other workers do not leave
  their waits. The ten seconds do not help, as breaking the barrier notifies too. `StartEnds` and `WorkersEnd` leave these
  histories out (`Orphaned`). With a broken barrier, or Ctrl-C just behind it, a started server is not stopped.
- *Arms.* With the low-pass filter the robot approaches the end of the trajectory and is never sent there. The filter
  counts rounds, not time: after a stall, each command of the burst that catches up may step further than the limits
  allow in the time since the one before, though never further than they allow in the longest time between two commands.
- *Ring buffers in threads.* A state put while `get_last_k` copies makes the reader raise `RuntimeError`.
- *Keyboards.* Under pynput, a key let go under Shift that was pressed without it stays in the published state for ever,
  and in `teleop_eef` the arm goes on moving. A key with neither character nor name (Fn, some media keys) ends the
  listener thread and freezes the published keys.
- *States over ROS 2.* A topic that discovery shows after the first look is never subscribed to, and its field is
  missing from every snapshot; `CatchesUp` is about the others. A snapshot may mix fields of two puts while messages
  are under way.
- *Teleoperation.* `teleop_eef` can poll `Keyboard`, `Gamepad` and `Spacemouse`; the other two keyboards raise
  `AttributeError`. evdev's table has no `[` or `]`. When the keyboard's loop raised, its last state is read for ever
  and a key that was down then goes on moving the arm: `ComesToRest` assumes that loop alive, and that no code is left
  when all keys are let go (`LeftPressed`). `teleop_leadfollow` logs
  `lead2_joint_q` in its first round also with one arm, where it has no value.

## 5. Proofs

TLAPS checks each theorem for all values of the constants, under the assumptions the modules name. They say no more
than that constants have their kinds: bounds are natural numbers and the queue has at least one slot
(`BufferSizeAssumption`, `MaxPutsAssumption`, `BoundsAssumption`); `get_max_k`, the time budget and the period of the
ring buffer are positive (`RingAssumption`); every ZeroMQ thread belongs to a client (`ZmqAssumption`); a ROS 2 node
has at least one field, none twice, and its queues and buffers have a length (`RclpyAssumption`); rollover, counter
width, buffer and queue of the keyboards and the teleoperation are positive (`KeyboardAssumption`,
`TeleopAssumption`); workers are a finite set without the main process (`ManagerAssumption`); speed limits and the
loop's period are positive and values are values (`SpeedAssumption`, `ControlAssumption`), and the filter's `alpha`
lies between zero and one.

| module | theorem | establishes |
|---|---|---|
| `ShmQueueProofs` | `TypeCorrect` | every variable keeps its type |
| | `Exclusion` | a put and a get under way never use the same slot |
| | `Integrity`, `Copies` | accepted requests and what a get has copied are intact |
| | `Implements` | the queue implements `FifoQueue` |
| `ShmRingBufferProofs` | `Publishes` | a published state is whole until the loop writes the one that replaces it |
| | `LooksAhead` | one old timestamp tells the age of all slots up to it |
| | `KeepsPace` | a loop on time never waits in `put`, nor dies of its `TimeoutError` |
| | `ReadsIntact` | while the loop is on time, what a read returns is whole |
| | `ShortReadsIntact` | a read of two states less than `get_max_k` is whole however late the loop is |
| `PubSubRpcProofs` | `Answers`, `NothingLeaks`, `NoKeyError` | a call gets its own answer; no leftovers; no `KeyError` before `stop` |
| | `ImplementsApi` | the calls implement `ApiCalls` |
| `ZmqRpcProofs` | `InOrder` | requests are executed, and answers taken, in the order of sending, none left out, each once |
| | `Lags` | an answer lags behind by the calls of its client that Ctrl-C interrupted |
| `RclpyStateProofs` | `ReadsWindow` | a read that returns is consecutive latest states of one instant |
| | `ReadsForward` | no field goes back from one read to the next (action property) |
| | `Converges` | when all is delivered, the newest snapshot holds the last state |
| `ArmControlProofs` | `Window` | the assertions of `schedule_waypoint` hold whenever it has an effect |
| | `ScheduleWaypointDefined` | it returns a trajectory for all arguments |
| | `LoopNeverRaises` | no list of requests makes it fail in any of the loops |
| | `SpeedLimits` | no leg of a trajectory asks for more than the speed limits |
| | `CommandsWithinSpeed` | neither does the stream of commands, but for the lead and the lag of the filter (action property) |
| | `LoopSettles` | a loop on schedule has handed on the end of the trajectory a period after it and the last request |
| `TeleopProofs` | `ListenersShow` | a state of the pynput and ssh keyboards shows codes pressed in its round, and all pressed throughout |
| | `CountsTaps` | a reader of the evdev press counter counts each tap once, for every width |
| `LifecycleProofs` | `TypeCorrect` | every variable of `ServerManager` keeps its type |
| | `AllServing`, `AllHalt` | start is all or nothing; without Ctrl-C, a worker that ends has stopped its server |
| | `ReadyServes` | when `start` returned in time, a state is there and the serving loop is past its setup |
| | `LoopsRelease` | a loop that ended by itself has closed its device |
| | `PutsUndisturbed` | `stop` closes no socket or ROS 2 node under a loop that puts |
| | `ReadyNodeAnswers` | a call sent after that `start` gets a state or times out, until the node is told to exit |
| | `CatalogueWellFormed` | every node of the repository satisfies the hypothesis of these four |

Each proof module defines an inductive invariant (`IInv`; `LimitInv` and `FilterInv` for the speed limits, `SettleInv`
for settling, `NodeInv` for nodes and `Answers` for their callers), shows that it holds at first and that every action
keeps it, and derives the properties from it. The properties alone are not inductive; what was missing is this.

- *Queue.* A counter only grows, so the stale copy a side decides on errs on the safe side: `PutFrame` and `GetFrame`
  say what each side may still rely on however long ago it loaded. With `Counters` (at most `BufferSize` unread
  requests) the slots used by the two sides are less than `BufferSize` apart, and `ModDistinct` keeps their
  remainders apart. `SlotExclusion` alone is not inductive: nothing in it bounds the counters. The refinement
  maps `queue` to the requests between the counters; put's and get's last steps are the channel's steps, every other
  step is invisible.
- *Ring buffer.* Positions count slots without wrapping, and a window of `BufferSize` positions, which moves on when
  `put` begins to write, says which state is in which slot (`Content`). While the window has not left the oldest
  position a reader asked for (`Fresh`), all it has copied is whole (`Copied`). `Fresh` has two reasons. A loop on time
  (`OnTime`) writes at most one state per period, and the constructor's margin covers the budget. Without a schedule,
  timestamps do not fall along the window (`Ordered`), `put` has seen an old one ahead of it (`LookedAhead`), and slots
  written since the read began carry later times (`StampedSince`); that protects reads of two states less than
  `get_max_k`. It could not protect all of them: `ring_burst` shows a read of `get_max_k` states torn.
- *Calls over topics.* That an answer is one's own needs to know that every response in flight or on file tells of an
  execution of the request it names (`Truthful`), that ids are fresh (`IdsFresh`) and that nobody has heard of an id
  before its request is published (`Unpublished`). The refinement of `ApiCalls` needs no more: `publish` is its `Send`,
  for the id of a call under way is in `Sent` exactly if the call has left the line before `publish` (`SentOf`); what the
  server executes is in `Sent` because somebody has heard of it (`CurrentSent`); filing, waking and the network are
  invisible.
- *Calls over ZeroMQ.* Requests are followed as positions in what a client sent: executed is a beginning of it, waiting
  at the ROUTER its end, the request in execution between them (`Requested`), and answers likewise (`Answered`). `_lock`
  admits one thread per client (`Locked`), so the requests without an answer taken are the interrupted ones and at most
  one more (`Counted`), which is the lag.
- *States over ROS 2.* The ring buffer is the end of all that was filed since the last `clear` (`Suffix`). Between the
  count and the iterator of `get_last_k` the spin thread may append and drop; `Counting` says that the counted states are
  still there or newer ones are, and that the copied window ends no earlier than the read began. Values do not fall
  along a topic, into the latest state (`Forward`) and from snapshot to snapshot (`Monotone`), so neither do they from
  read to read. `Arrives` follows the last value of a topic: dropped from a full queue are only older ones.
- *Waypoints.* An order argument over the times shows that the kept part ends before the new waypoint; then trimming
  keeps a trajectory discrete with a first and a last time, and appending one later waypoint does too.
- *Speed limits.* `WithinSpeed` speaks of neighbouring waypoints; to follow it through a trim one would have to add up
  the legs, by an induction. `Lipschitz` bounds the distance of any two waypoints by the time between them instead, from
  which the same bound follows for any two values (`AtNear`, with the nonlinear arithmetic of fractions in
  `BetweenClose` and `CloseTriangle`); a trimmed trajectory takes its values from the old one, and the new waypoint is
  late enough by `MinDuration`. For the commands, `Reach` says that every later value of the trajectory can be reached
  from the last command in the time until then or until the last point up to which the trajectory can have been changed,
  which is a lead after the last reading of the clock (`Timely`).
- *Filter.* The lag behind the value handed on is at most `(1 - alpha) / alpha` of what the limits allow in the longest
  time between two values so far (`Lag`): a new value adds at most that allowance to it, and the filter steps by the
  share `alpha` of the sum, which is at most the allowance and leaves the lag within its bound (`LagTriangle`,
  `FilterBounds`, `FilterStep`). All is stated for fractions multiplied out, since the provers know no division.
- *Settling.* A trajectory that ended before the loop took a value from it has handed on its end (`Arrived`), whatever
  was scheduled in the order of that loop. A loop that sleeps and is not yet due began its last round at most a period
  before it is due, handed on a value since, and what is left in the queue was requested after that round fetched
  (`Punctual`). So a period after the last request and the end of the trajectory there is nothing left.
- *Keyboards.* While the loop iterates over a set that the listener thread changes, a code pressed all the round is
  already shown, still due, or belongs to the part still to come (`Covered`); a code that may come up is pressed at that
  moment. Neither depends on the size check that ends an iteration, which is what makes it safe to add and remove a code
  between two checks. The press counter is the number of taps modulo its width in the node, in the newest state and at the
  reader (`Counting`), and a difference of two remainders less than the width is exact (`ModDifference`).
- *Server manager.* The barrier counts only processes that arrived, each of which started its server (`Arrivals`), and
  a subset of all processes as large as their number is all of them; `Open` keeps that after they leave. `ReadyRecorded`
  says that without Ctrl-C a worker beyond an open barrier has recorded that it is ready.
- *Nodes.* The theorems are about programs, not about the catalogue: `WellFormed` says that `pub_ready_event` follows a
  put, that only the loop that serves sets `req_ready_event` and only behind its setup, that a jump stays in its round
  and passes over no such event whose put it has left out, that a program without rounds stays in its `try` block, and
  that what opens a device closes it in `finally`, but for the nodes known not to. For every such node under every
  middleware `NodeInv` relates the place of each loop to the events (`PutBefore`, `SetUp`; `Waited` for what `start` has
  seen of them), to how far `start` and `stop` have come (`Unbegun`, `Told`; `Quiet`: no loop is alive once the
  publisher is closed, unless the join was given up) and to its device (`Closed`, which looks at where the loop raised).
  One lemma per kind of step says where a loop goes next. `Answers` adds what a call made after `start` can rely on.
  `CatalogueWellFormed` goes through the programs one by one, which are composed of a few kinds of rounds.

Only model-checked:

- all that must eventually happen (`Drained`, `EveryCallEnds`, `StartEnds`, `WorkersEnd`, `NodeStartEnds`, `LoopsEnd`,
  `CallEnds`, `ComesToRest`): liveness under fairness is outside the prover's reach;
- `ShownIsRegular` for the evdev keyboard: its codes come out of a fold over the events and a sort, and what those compute
  would need an induction over data.

## 6. What is not modelled

- Device drivers (`robots/utils/`): byte framing over a serial line, the answer matching of the WSG protocol and the
  controller switching of Franka. To the loops they are steps that may raise. The hazards list names the two lines
  where their order of steps matters.
- `RingBuffer` and `Queue` operations without a caller in the loops: `get`, `get_k`, `empty` and `clear` of `Queue`,
  `clear` of the shared ring buffer.
- The PUB socket of `zmq.py` as a channel, for nothing in the repository subscribes to it; that it is closed after the
  loops is `PutUndisturbed`. How zenoh, gRPC, portal and zerorpc match answers to calls.
- The process of the shared memory manager of `shm.py` and `shmf.py`.
- Poses, axes, buttons and images of the other interfaces and cameras; record3d's frames one by one.
- `teleop_leadfollow.py`, gamepad and spacemouse in `teleop_eef.py`, a second arm.
- Kinova's poses, which go through inverse kinematics before the filter.
- Serializers, shared arrays, setup scripts, tests. Floating point: fractions stand for it, so rounding is not
  in the models.

## 7. Plan

Built so far, in the order of importance: the lock-free buffers (they carry everything with shared memory), the calls
over messages, the control loops with their interpolator, the server manager, the life of the nodes under every
middleware with a calling client, the in-process storage in use by the ROS 2 client and the keyboards, teleoperation.

Worth proving next: `Teleop`'s target as the sum of the motions requested.

Models worth adding: the WSG protocol with pending and unsolicited answers, Franka's controllers, record3d's event.
