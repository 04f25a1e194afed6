------------------------------- MODULE ShmQueue -------------------------------
(***************************************************************************)
(* SharedMemoryQueue: the lock-free queue that carries requests from the   *)
(* client process of a shared-memory node (Shm, Shmf) to its control loop. *)
(* One process puts, one process gets; nothing is locked, the two counters *)
(* are the only synchronisation.                                           *)
(*                                                                         *)
(* Every access to shared memory another process may interleave with is a  *)
(* step of its own: loading a counter, writing one field of a slot,        *)
(* copying one element of one field, advancing a counter.  A counter has a *)
(* single writer, so its add() (a load and a store) is one step.           *)
(*                                                                         *)
(* FullOffByOne, EmptyOffByOne, SliceNoOffset and ClearToZero are faulty   *)
(* variants of the definitions that follow them, used to show that the     *)
(* properties notice such a fault; nothing else refers to them.            *)
(***************************************************************************)
EXTENDS Integers, Sequences

CONSTANTS
  BufferSize,  \* slots in each shared array
  Fields,      \* the arrays: the keys of the node's example_request
  KeySets,     \* the key sets of the requests its API methods build
  Values,      \* field contents
  Blank,       \* contents of memory nobody wrote
  MaxPuts      \* bound: accepted requests

ASSUME BufferSizeAssumption == BufferSize \in Nat \ {0}
ASSUME MaxPutsAssumption == MaxPuts \in Nat

VARIABLES
  read_counter, write_counter, shared_arrays,
  ppc,        \* producer: "idle" | "loaded" | "writing"
  p_data,     \* the request being put
  p_read,     \* put's local read_count
  p_write,    \* put's local write_count
  p_todo,     \* keys of the request not written yet
  cpc,        \* consumer: "idle" | "loaded" | "copying" | "clearing"
  c_op,       \* "get" | "get_k" | "get_all"
  c_k,        \* get_k's argument
  c_write,    \* local write_count
  c_read,     \* local read_count
  c_n,        \* items this call returns
  c_todo,     \* <<field, position>> pairs not copied yet
  out,        \* the result under construction
  accepted,   \* history: requests whose put returned
  delivered   \* history: requests returned to the control loop

producer == <<ppc, p_data, p_read, p_write, p_todo>>
consumer == <<cpc, c_op, c_k, c_write, c_read, c_n, c_todo, out>>
vars == <<read_counter, write_counter, shared_arrays, producer, consumer,
          accepted, delivered>>

Index == 0 .. BufferSize - 1
Requests == UNION {[ks -> Values] : ks \in KeySets}
NoRequest == << >>
Uninitialised == [f \in Fields |-> [i \in Index |-> Blank]]

Init ==
  /\ read_counter = 0 /\ write_counter = 0
  /\ shared_arrays = Uninitialised
  /\ ppc = "idle" /\ p_data = NoRequest
  /\ p_read = 0 /\ p_write = 0 /\ p_todo = {}
  /\ cpc = "idle" /\ c_op = "get" /\ c_k = 1
  /\ c_write = 0 /\ c_read = 0 /\ c_n = 0 /\ c_todo = {}
  /\ out = Uninitialised
  /\ accepted = << >> /\ delivered = << >>

-----------------------------------------------------------------------------
(* put(data) *)

\* The call ends, normally or by an exception: its locals are gone.
PutEnd ==
  /\ ppc' = "idle" /\ p_data' = NoRequest
  /\ p_read' = 0 /\ p_write' = 0 /\ p_todo' = {}

PutCall(data) ==
  /\ ppc = "idle"
  /\ Len(accepted) < MaxPuts
  /\ ppc' = "loaded"
  /\ p_data' = data
  /\ p_read' = read_counter
  /\ UNCHANGED <<read_counter, write_counter, shared_arrays, p_write, p_todo,
                 consumer, accepted, delivered>>

FullOffByOne(n_data) == n_data > BufferSize
IsFull(n_data) == n_data >= BufferSize

PutFull ==
  /\ ppc = "loaded"
  /\ IsFull(write_counter - p_read)
  /\ PutEnd
  /\ UNCHANGED <<read_counter, write_counter, shared_arrays, consumer,
                 accepted, delivered>>

PutAdmit ==
  /\ ppc = "loaded"
  /\ ~IsFull(write_counter - p_read)
  /\ ppc' = "writing"
  /\ p_write' = write_counter
  /\ p_todo' = DOMAIN p_data
  /\ UNCHANGED <<read_counter, write_counter, shared_arrays, p_data, p_read,
                 consumer, accepted, delivered>>

PutWrite(key) ==
  /\ ppc = "writing"
  /\ key \in p_todo \cap Fields
  /\ shared_arrays' =
       [shared_arrays EXCEPT ![key][p_write % BufferSize] = p_data[key]]
  /\ p_todo' = p_todo \ {key}
  /\ UNCHANGED <<read_counter, write_counter, ppc, p_data, p_read, p_write,
                 consumer, accepted, delivered>>

\* A key the node declared no array for: shared_arrays[key] raises KeyError
\* with some of the slot's fields already overwritten.
PutKeyError ==
  /\ ppc = "writing"
  /\ p_todo \ Fields # {}
  /\ PutEnd
  /\ UNCHANGED <<read_counter, write_counter, shared_arrays, consumer,
                 accepted, delivered>>

PutCommit ==
  /\ ppc = "writing"
  /\ p_todo = {}
  /\ PutEnd
  /\ write_counter' = write_counter + 1
  /\ accepted' = Append(accepted, p_data)
  /\ UNCHANGED <<read_counter, shared_arrays, consumer, delivered>>

-----------------------------------------------------------------------------
(* get(), get_k(k), get_all() *)

GetEnd ==
  /\ cpc' = "idle" /\ c_op' = "get" /\ c_k' = 1
  /\ c_write' = 0 /\ c_read' = 0 /\ c_n' = 0 /\ c_todo' = {}
  /\ out' = Uninitialised

\* Where target position j comes from: the slice from curr_idx to the end of
\* the array, then the slice that wraps around to its start.
SliceNoOffset(curr_idx, k, j) ==
  IF curr_idx + j < BufferSize THEN curr_idx + j ELSE j
SliceIndex(curr_idx, k, j) ==
  LET end == IF curr_idx + k <= BufferSize THEN curr_idx + k ELSE BufferSize
      head == end - curr_idx
  IN  IF j < head THEN curr_idx + j ELSE j - head

GetCall(op, k) ==
  /\ cpc = "idle"
  /\ cpc' = "loaded"
  /\ c_op' = op /\ c_k' = k
  /\ c_write' = write_counter
  /\ UNCHANGED <<read_counter, write_counter, shared_arrays, producer, c_read,
                 c_n, c_todo, out, accepted, delivered>>

EmptyOffByOne(n_data) == n_data <= 1
IsEmpty(n_data) == n_data <= 0

\* Empty is raised, or get_k's "assert k <= n_data" fails.
GetRefuse ==
  /\ cpc = "loaded"
  /\ \/ IsEmpty(c_write - read_counter)
     \/ c_op = "get_k" /\ c_k > c_write - read_counter
  /\ GetEnd
  /\ UNCHANGED <<read_counter, write_counter, shared_arrays, producer, accepted,
                 delivered>>

BatchSize(op, k, n_data) ==
  IF op = "get" THEN 1 ELSE IF op = "get_k" THEN k ELSE n_data

GetAdmit ==
  LET n_data == c_write - read_counter
      n == BatchSize(c_op, c_k, n_data)
  IN  /\ cpc = "loaded"
      /\ ~IsEmpty(n_data)
      /\ c_op = "get_k" => c_k <= n_data
      /\ cpc' = "copying"
      /\ c_read' = read_counter
      /\ c_n' = n
      /\ c_todo' = Fields \X (0 .. n - 1)
      /\ UNCHANGED <<read_counter, write_counter, shared_arrays, producer,
                     c_op, c_k, c_write, out, accepted, delivered>>

GetCopy(f, j) ==
  /\ cpc = "copying"
  /\ <<f, j>> \in c_todo
  /\ out' = [out EXCEPT ![f][j] =
               shared_arrays[f][SliceIndex(c_read % BufferSize, c_n, j)]]
  /\ c_todo' = c_todo \ {<<f, j>>}
  /\ UNCHANGED <<read_counter, write_counter, shared_arrays, producer, cpc,
                 c_op, c_k, c_write, c_read, c_n, accepted, delivered>>

\* What the control loop makes of position j: it looks only at the keys its
\* request type has.
Received(j) ==
  [key \in DOMAIN accepted[c_read + j] |-> out[key][j - 1]]

GetReturn ==
  /\ cpc = "copying"
  /\ c_todo = {}
  /\ GetEnd
  /\ read_counter' = read_counter + c_n
  /\ delivered' = delivered \o [j \in 1 .. c_n |-> Received(j)]
  /\ UNCHANGED <<write_counter, shared_arrays, producer, accepted>>

-----------------------------------------------------------------------------
(* clear(): it stores the read counter, which belongs to the reading side. *)

ClearCall ==
  /\ cpc = "idle"
  /\ cpc' = "clearing"
  /\ c_write' = write_counter
  /\ UNCHANGED <<read_counter, write_counter, shared_arrays, producer, c_op,
                 c_k, c_read, c_n, c_todo, out, accepted, delivered>>

ClearToZero ==
  /\ cpc = "clearing"
  /\ GetEnd
  /\ read_counter' = 0
  /\ UNCHANGED <<write_counter, shared_arrays, producer, accepted, delivered>>

ClearStore ==
  /\ cpc = "clearing"
  /\ GetEnd
  /\ read_counter' = c_write
  /\ UNCHANGED <<write_counter, shared_arrays, producer, accepted, delivered>>

-----------------------------------------------------------------------------
Put ==
  \/ \E data \in Requests : PutCall(data)
  \/ PutFull
  \/ PutAdmit
  \/ \E key \in Fields : PutWrite(key)
  \/ PutKeyError
  \/ PutCommit

Copy == \E f \in Fields, j \in Index : GetCopy(f, j)

Get ==
  \/ GetCall("get", 1)
  \/ \E k \in 1 .. BufferSize : GetCall("get_k", k)
  \/ GetCall("get_all", 1)
  \/ GetRefuse
  \/ GetAdmit
  \/ Copy
  \/ GetReturn

Clear == ClearCall \/ ClearStore

Next == Put \/ Get \/ Clear

Spec == Init /\ [][Next]_vars

\* Every control loop calls get_all() once per cycle, whatever else it calls
\* in between, and a call that began goes on.
ConsumerFairness ==
  /\ SF_vars(GetCall("get_all", 1))
  /\ WF_vars(GetRefuse \/ GetAdmit \/ Copy \/ GetReturn)
  /\ WF_vars(ClearStore)

FairSpec == Spec /\ ConsumerFairness

-----------------------------------------------------------------------------
(* Properties *)

Cell == Values \cup {Blank}

\* Every variable of the queue and of the two local frames has its type.
TypeOK ==
  /\ read_counter \in Nat /\ write_counter \in Nat
  /\ shared_arrays \in [Fields -> [Index -> Cell]]
  /\ ppc \in {"idle", "loaded", "writing"}
  /\ p_data \in Requests \cup {NoRequest}
  /\ p_read \in Nat /\ p_write \in Nat
  /\ p_todo \subseteq UNION KeySets
  /\ cpc \in {"idle", "loaded", "copying", "clearing"}
  /\ c_op \in {"get", "get_k", "get_all"} /\ c_k \in 1 .. BufferSize
  /\ c_write \in Nat /\ c_read \in Nat /\ c_n \in Nat
  /\ c_todo \subseteq Fields \X Index
  /\ out \in [Fields -> [Index -> Cell]]
  /\ accepted \in Seq(Requests)
  /\ delivered \in Seq(Requests)

\* The slots a get is copying from and the slot a put is writing to are never
\* the same, although put decides on a read_counter it loaded earlier and get
\* on a write_counter it loaded earlier.
SlotExclusion ==
  (ppc = "writing" /\ cpc = "copying") =>
     \A j \in 0 .. c_n - 1 :
       SliceIndex(c_read % BufferSize, c_n, j) # p_write % BufferSize

\* A request put accepted and no get has taken stays in its slot, field by
\* field, until the read counter passes it.
UnreadIntact ==
  \A i \in read_counter + 1 .. write_counter :
    \A key \in DOMAIN accepted[i] :
      /\ key \in Fields
      /\ shared_arrays[key][(i - 1) % BufferSize] = accepted[i][key]

\* What a get, get_k or get_all has copied of position j is the j-th oldest
\* request nobody took, also when the batch wraps around the end of the array.
CopiedIntact ==
  cpc = "copying" =>
    \A f \in Fields, j \in 0 .. c_n - 1 :
      (<<f, j>> \notin c_todo /\ f \in DOMAIN accepted[c_read + j + 1])
        => out[f][j] = accepted[c_read + j + 1][f]

Unread == SubSeq(accepted, read_counter + 1, write_counter)

Fifo == INSTANCE FifoQueue
          WITH Capacity <- BufferSize, Item <- Requests, queue <- Unread

\* The queue of two counters and raw arrays behaves as a bounded FIFO channel:
\* a put appends, a get hands over the oldest requests exactly as they were
\* put, a clear discards from the head, and nothing else is visible.
FifoSpec == Fifo!Spec

\* A request put accepted is eventually taken or cleared by the control loop.
Drained ==
  \A i \in 1 .. MaxPuts : (write_counter >= i) ~> (read_counter >= i)
=============================================================================
