-------------------------------- MODULE RclpyState --------------------------------
(***************************************************************************)
(* The state of a node over ROS 2 topics, one topic for each field         *)
(* (middlewares/rclpy.py), and the client's copy of it in in-process       *)
(* storage.                                                                *)
(*                                                                         *)
(* The server creates one publisher per field when it is built, and a put  *)
(* publishes the fields one after the other.  Discovery shows the client   *)
(* each publisher at a time of its own; start() subscribes to what the     *)
(* first look that finds anything finds.  A subscription is matched later  *)
(* and gets what is published from then on, in order; its queue keeps the  *)
(* last qos_depth messages.  The spin thread puts each value into the      *)
(* latest state and files a snapshot of it, which other threads read.      *)
(*                                                                         *)
(* A value is the number of the put it comes from.  Conversions to and     *)
(* from messages keep it (to_msg, from_msg).                               *)
(*                                                                         *)
(* ClearsUnderWriteLock, MultiThreadedExecutor and LooksAtOneTopic are     *)
(* faulty variants of the definitions below them.                          *)
(***************************************************************************)
EXTENDS Storage

CONSTANTS
  FieldOrder,       \* example_data.items(), the fields in order
  qos_depth,
  max_buffer_size, max_queue_size,
  Small,            \* up to so many states get_last_k slices the list (100)
  Ks,               \* the k's asked of get_state(k)
  MaxPuts, MaxReads \* bounds

ASSUME RclpyAssumption ==
  /\ FieldOrder \in Seq(ToSet(FieldOrder)) \ {<< >>}
  /\ \A i, j \in DOMAIN FieldOrder : i # j => FieldOrder[i] # FieldOrder[j]
  /\ {qos_depth, max_buffer_size, max_queue_size} \subseteq Nat \ {0}
  /\ {Small, MaxPuts, MaxReads} \cup Ks \subseteq Nat

Fields == ToSet(FieldOrder)
Ignored == -1

VARIABLES
  created,        \* publishers the server has created
  puts,           \* states put by the server's loop
  publishing,     \* the field that _put publishes next, 0 outside _put
  announced,      \* the fields whose topics the client can see
  since,          \* per field: values published before its subscription was matched
  topic,          \* per field: values that wait in the subscription's queue
  start_state,    \* start() of the client: "new" | "discovering" | "subscribing" |
                  \* "first_state" | "matching" | "started" | "failed" | "stopped"
  found, subscribed,
  latest_state,
  spin,           \* per thread that spins: the snapshot it is about to file, or Nothing
  ring_buffer, request_queue,
  reading,        \* get_last_k between count and copy, or Nothing
  iterator,       \* its iterator over the deque: the appends it has seen, or Nothing
  result, reads,  \* what the last read returned, with what it had to; how many
  known,          \* history: the topics that could be seen when start() was called
  filed           \* history: every snapshot filed

server == <<created, puts, publishing>>
discovery == <<announced, since>>
start == <<start_state, found, subscribed, known>>
copy == <<latest_state, spin, ring_buffer, request_queue, filed>>
app == <<reading, iterator, result, reads>>
vars == <<server, discovery, topic, start, copy, app>>

Nothing == << >>
NoRead == [states |-> << >>, from |-> 0, n |-> 0]

\* SingleThreadedExecutor
MultiThreadedExecutor == 1 .. 2
Spinners == 1 .. 1

Init ==
  /\ created = 0 /\ puts = 0 /\ publishing = 0
  /\ announced = {} /\ since = [f \in Fields |-> Ignored]
  /\ topic = [f \in Fields |-> << >>]
  /\ start_state = "new" /\ found = {} /\ subscribed = {} /\ known = {}
  /\ latest_state = << >> /\ spin = [s \in Spinners |-> Nothing]
  /\ ring_buffer = << >> /\ request_queue = << >> /\ filed = << >>
  /\ reading = Nothing /\ iterator = Nothing /\ result = NoRead /\ reads = 0

-----------------------------------------------------------------------------
(* Server *)

CreatePublisher ==
  /\ created < Len(FieldOrder) /\ created' = created + 1
  /\ UNCHANGED <<puts, publishing, discovery, topic, start, copy, app>>

Put ==
  /\ created = Len(FieldOrder) /\ publishing = 0 /\ puts < MaxPuts
  /\ puts' = puts + 1 /\ publishing' = 1
  /\ UNCHANGED <<created, discovery, topic, start, copy, app>>

Publish ==
  /\ publishing > 0
  /\ LET f == FieldOrder[publishing]
     IN topic' = IF since[f] = Ignored THEN topic
                 ELSE [topic EXCEPT ![f] = Appended(@, puts, qos_depth)]
  /\ publishing' = IF publishing = Len(FieldOrder) THEN 0 ELSE publishing + 1
  /\ UNCHANGED <<created, puts, discovery, start, copy, app>>

-----------------------------------------------------------------------------
(* Discovery *)

Announce ==
  /\ \E i \in 1 .. created : /\ FieldOrder[i] \notin announced
                             /\ announced' = announced \cup {FieldOrder[i]}
  /\ UNCHANGED <<server, since, topic, start, copy, app>>

Published(f) ==
  IF publishing > 0 /\ \E i \in publishing .. Len(FieldOrder) : FieldOrder[i] = f
  THEN puts - 1 ELSE puts

Match ==
  /\ \E f \in subscribed : /\ since[f] = Ignored
                           /\ since' = [since EXCEPT ![f] = Published(f)]
  /\ UNCHANGED <<server, announced, topic, start, copy, app>>

-----------------------------------------------------------------------------
(* start() and stop() of the client *)

StartOnly == UNCHANGED <<server, discovery, topic, copy, app>>

StartSpin ==
  /\ start_state = "new" /\ start_state' = "discovering" /\ known' = announced
  /\ StartOnly /\ UNCHANGED <<found, subscribed>>

LooksAtOneTopic ==
  /\ start_state = "discovering"
  /\ \/ \E f \in announced : found' = {f} /\ start_state' = "subscribing"
     \/ announced = {} /\ start_state' = "failed" /\ UNCHANGED found
  /\ StartOnly /\ UNCHANGED <<subscribed, known>>
\* A look that finds nothing is repeated until the deadline.
Look ==
  /\ start_state = "discovering"
  /\ \/ announced # {} /\ found' = announced /\ start_state' = "subscribing"
     \/ start_state' = "failed" /\ UNCHANGED found
  /\ StartOnly /\ UNCHANGED <<subscribed, known>>

CreateSubscription ==
  /\ start_state = "subscribing"
  /\ \E f \in found \ subscribed : subscribed' = subscribed \cup {f}
  /\ start_state' = IF subscribed' = found THEN "first_state" ELSE "subscribing"
  /\ StartOnly /\ UNCHANGED <<found, known>>

\* Whether a state came or the time is over makes no difference.
FirstState ==
  /\ start_state = "first_state" /\ start_state' = "matching"
  /\ StartOnly /\ UNCHANGED <<found, subscribed, known>>

WaitForDiscovery ==
  /\ start_state = "matching" /\ start_state' \in {"started", "failed"}
  /\ StartOnly /\ UNCHANGED <<found, subscribed, known>>

\* executor.shutdown() waits for the callback that runs.
Stop ==
  /\ start_state = "started" /\ start_state' = "stopped"
  /\ \A s \in Spinners : spin[s] = Nothing
  /\ StartOnly /\ UNCHANGED <<found, subscribed, known>>

-----------------------------------------------------------------------------
(* The spin thread.  It goes on after a start() that failed. *)

UpdateField(s) ==
  /\ start_state \notin {"new", "stopped"} /\ spin[s] = Nothing
  /\ \E f \in Fields :
       /\ topic[f] # << >> /\ topic' = [topic EXCEPT ![f] = Tail(@)]
       /\ latest_state' = [g \in DOMAIN latest_state \cup {f} |->
                             IF g = f THEN Head(topic[f]) ELSE latest_state[g]]
  /\ spin' = [spin EXCEPT ![s] = <<latest_state'>>]
  /\ UNCHANGED <<server, discovery, start, ring_buffer, request_queue, filed, app>>

FileSnapshot(s) ==
  /\ spin[s] # Nothing /\ spin' = [spin EXCEPT ![s] = Nothing]
  /\ ring_buffer' = Appended(ring_buffer, spin[s][1], max_buffer_size)
  /\ request_queue' = Appended(request_queue, spin[s][1], max_queue_size)
  /\ filed' = Append(filed, spin[s][1])
  /\ UNCHANGED <<server, discovery, topic, start, latest_state, app>>

-----------------------------------------------------------------------------
(* Threads that read the client's copy *)

AppOnly == UNCHANGED <<server, discovery, topic, start, latest_state, spin,
                       request_queue, filed>>
Returns(states, from, n) == result' = [states |-> states, from |-> from, n |-> n]
Reads == reads < MaxReads /\ reading = Nothing /\ reads' = reads + 1

GetState ==
  /\ Reads /\ Returns(Newest(ring_buffer), Len(filed), Min({1, Len(ring_buffer)}))
  /\ AppOnly /\ UNCHANGED <<ring_buffer, reading, iterator>>

GetAllState ==
  /\ Reads /\ Returns(ring_buffer, Len(filed), Len(ring_buffer))
  /\ AppOnly /\ UNCHANGED <<ring_buffer, reading, iterator>>

GetLastK ==
  /\ Reads
  /\ \E k \in Ks : reading' = <<CountLastK(ring_buffer, k), Len(filed)>>
  /\ AppOnly /\ UNCHANGED <<ring_buffer, iterator, result>>

\* islice(...): more than Small states are copied through an iterator.
TakesIterator ==
  /\ reading # Nothing /\ reading[1].k > Small /\ iterator = Nothing
  /\ iterator' = <<Len(filed)>>
  /\ AppOnly /\ UNCHANGED <<ring_buffer, reading, result, reads>>

Mutated == iterator # <<Len(filed)>>

CopiesLastK ==
  /\ reading # Nothing
  /\ reading[1].k > Small => ~Mutated
  /\ reading' = Nothing /\ iterator' = Nothing
  /\ Returns(CopyLastK(ring_buffer, reading[1], Small), reading[2], reading[1].k)
  /\ AppOnly /\ UNCHANGED <<ring_buffer, reads>>

\* RuntimeError: deque mutated during iteration.
CopyRaises ==
  /\ iterator # Nothing /\ Mutated
  /\ reading' = Nothing /\ iterator' = Nothing
  /\ AppOnly /\ UNCHANGED <<ring_buffer, result, reads>>

\* clear() takes write_lock, which put holds for a single step, and read_lock.
ClearsUnderWriteLock == TRUE
MayClear == reading = Nothing
Clear ==
  /\ MayClear /\ ring_buffer # << >> /\ ring_buffer' = << >>
  /\ AppOnly /\ UNCHANGED app

-----------------------------------------------------------------------------
Next ==
  \/ CreatePublisher \/ Put \/ Publish
  \/ Announce \/ Match
  \/ StartSpin \/ Look \/ CreateSubscription \/ FirstState \/ WaitForDiscovery \/ Stop
  \/ \E s \in Spinners : UpdateField(s) \/ FileSnapshot(s)
  \/ GetState \/ GetAllState \/ GetLastK \/ TakesIterator \/ CopiesLastK \/ CopyRaises \/ Clear
Spec == Init /\ [][Next]_vars

-----------------------------------------------------------------------------
(* Properties *)

\* What a read returns stood together at the end of the ring buffer at some time
\* between its begin and its end, and is as long as it could be when it began: a
\* put between the count of get_last_k and its copy or its iterator shifts the
\* window and tears nothing, a put between iterator and copy lets nothing be
\* returned (RuntimeError), and a clear does not come between.
ReadIsWindow ==
  LET r == result IN
  r = NoRead \/ \E i \in r.from .. Len(filed) :
                  r.states = SubSeq(filed, i - r.n + 1, i)

\* A thread that reads again sees no field older than before and misses none it has
\* seen, although every field comes by a topic of its own.
NoNewer(s, t) == DOMAIN s \subseteq DOMAIN t /\ \A f \in DOMAIN s : s[f] <= t[f]
NeverBackwards ==
  [][result.states # << >> /\ result'.states # << >>
     => NoNewer(Last(result.states), Last(result'.states))]_result

\* When everything published has been delivered and filed, the newest snapshot holds
\* the server's last state: in every field whose topic could be seen when start()
\* was called and whose subscription was matched before that state.  The snapshot
\* is not a mixture for longer than messages are under way, and no field is missing
\* for good unless discovery was late.
Delivered ==
  /\ publishing = 0 /\ \A f \in Fields : topic[f] = << >>
  /\ \A s \in Spinners : spin[s] = Nothing
CatchesUp ==
  Delivered /\ start_state \in {"first_state", "matching", "started"} =>
    \A f \in known :
      /\ f \in subscribed
      /\ since[f] # Ignored /\ since[f] < puts =>
           filed # << >> /\ f \in DOMAIN Last(filed) /\ Last(filed)[f] = puts
=============================================================================
