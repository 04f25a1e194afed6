----------------------------- MODULE ShmRingBuffer -----------------------------
(***************************************************************************)
(* SharedMemoryRingBuffer: the lock-free buffer a shared-memory node       *)
(* publishes its state in, written by the node's pub loop and read by its  *)
(* clients with get, get_last_k and get_all.  Nothing stops the loop from  *)
(* overwriting a slot a client is copying; put's look at an old timestamp  *)
(* and the client's own deadline are to make that impossible.              *)
(*                                                                         *)
(* Time is counted in ticks.  The loop is paced by Rate.precise_sleep,     *)
(* whose schedule never moves: an iteration that comes late is followed by *)
(* iterations without any sleep until the loop has caught up.  lateness    *)
(* bounds how late an iteration may be, in a run of the program.           *)
(*                                                                         *)
(* The published states are numbered: slot contents are the number of the  *)
(* put that wrote them.  A step reads or writes one element of one field.  *)
(* clear() has no caller and is left out.                                  *)
(*                                                                         *)
(* NoMarginBufferSize, ShortModulusNextIdx, NoLookaheadIdx and             *)
(* LookbehindIdx are faulty variants of the definitions below them; the    *)
(* properties must notice each.                                            *)
(***************************************************************************)
EXTENDS Integers

CONSTANTS
  Fields,      \* the arrays: the keys of the node's example_data
  GetMaxK,     \* get_max_k: most states one call may ask for
  Budget,      \* get_time_budget
  Period,      \* 1 / put_desired_frequency, the period of the pub loop
  Latenesses,  \* environment: how late an iteration of the loop may be
  WaitModes,   \* values of put's argument "wait" the node's loop passes
  MaxPuts,     \* bound: states published
  MaxTime      \* bound: ticks

ASSUME RingAssumption ==
  /\ GetMaxK \in Nat \ {0} /\ Budget \in Nat \ {0} /\ Period \in Nat \ {0}
  /\ Latenesses \subseteq Nat /\ WaitModes \subseteq BOOLEAN
  /\ MaxPuts \in Nat /\ MaxTime \in Nat

VARIABLES
  lateness,    \* the member of Latenesses that bounds this run
  now,         \* time.monotonic()
  counter, shared_arrays, timestamp_array,
  wpc,         \* "idle" | "sleeping" | "writing" | "stamped" | "dead"
  w_wake,      \* when the sleep in put ends
  w_todo,      \* fields put has not written yet
  rpc,         \* "idle" | "called" | "copying"
  r_single,    \* the call is get(), not get_last_k()
  r_k, r_start, r_count,
  r_todo,      \* <<field, position>> pairs not copied yet
  out          \* the result under construction

writer == <<wpc, w_wake, w_todo>>
reader == <<rpc, r_single, r_k, r_start, r_count, r_todo, out>>
vars == <<lateness, now, counter, shared_arrays, timestamp_array, writer, reader>>

Unwritten == 0

NoMarginBufferSize == Budget \div Period + GetMaxK

\* ceil(put_desired_frequency * get_time_budget * 1.5)
Margin == (3 * Budget + 2 * Period - 1) \div (2 * Period)
BufferSize == Margin + GetMaxK

Index == 0 .. BufferSize - 1
Slot(n) == n % BufferSize

\* -inf: older than any budget
LongAgo == 0 - Budget

Init ==
  /\ lateness \in Latenesses
  /\ now = 0 /\ counter = 0
  /\ shared_arrays = [f \in Fields |-> [i \in Index |-> Unwritten]]
  /\ timestamp_array = [i \in Index |-> LongAgo]
  /\ wpc = "idle" /\ w_wake = 0 /\ w_todo = {}
  /\ rpc = "idle" /\ r_single = FALSE /\ r_k = 0 /\ r_start = 0
  /\ r_count = 0 /\ r_todo = {}
  /\ out = [f \in Fields |-> [j \in 0 .. GetMaxK - 1 |-> Unwritten]]

-----------------------------------------------------------------------------
(* The pub loop: rate.precise_sleep(), then put(data, wait) *)

ShortModulusNextIdx == counter % (BufferSize - 1)
NextIdx == Slot(counter)

NoLookaheadIdx == NextIdx
LookbehindIdx == Slot(NextIdx + BufferSize - 1)
TimestampLookaheadIdx == Slot(NextIdx + GetMaxK - 1)

\* The state the lookahead slot holds was written less than a budget ago.
TooFast == now - timestamp_array[TimestampLookaheadIdx] < Budget

\* The iteration that publishes state number counter + 1 may begin.
Due == now >= counter * Period

PutCall ==
  /\ wpc = "idle" /\ Due /\ counter < MaxPuts /\ ~TooFast
  /\ wpc' = "writing" /\ w_todo' = Fields
  /\ UNCHANGED <<lateness, now, counter, shared_arrays, timestamp_array, w_wake, reader>>

\* time.sleep(get_time_budget - deltat)
PutSleep ==
  /\ wpc = "idle" /\ Due /\ counter < MaxPuts /\ TooFast
  /\ TRUE \in WaitModes
  /\ wpc' = "sleeping"
  /\ w_wake' = timestamp_array[TimestampLookaheadIdx] + Budget
  /\ UNCHANGED <<lateness, now, counter, shared_arrays, timestamp_array, w_todo, reader>>

\* wait=False: TimeoutError, which the loops do not catch.
PutTimeoutError ==
  /\ wpc = "idle" /\ Due /\ counter < MaxPuts /\ TooFast
  /\ FALSE \in WaitModes
  /\ wpc' = "dead"
  /\ UNCHANGED <<lateness, now, counter, shared_arrays, timestamp_array, w_wake, w_todo,
                 reader>>

PutWake ==
  /\ wpc = "sleeping" /\ now >= w_wake
  /\ wpc' = "writing" /\ w_todo' = Fields
  /\ UNCHANGED <<lateness, now, counter, shared_arrays, timestamp_array, w_wake, reader>>

PutWrite(f) ==
  /\ wpc = "writing" /\ f \in w_todo
  /\ shared_arrays' = [shared_arrays EXCEPT ![f][NextIdx] = counter + 1]
  /\ w_todo' = w_todo \ {f}
  /\ UNCHANGED <<lateness, now, counter, timestamp_array, wpc, w_wake, reader>>

PutStamp ==
  /\ wpc = "writing" /\ w_todo = {}
  /\ wpc' = "stamped"
  /\ timestamp_array' = [timestamp_array EXCEPT ![NextIdx] = now]
  /\ UNCHANGED <<lateness, now, counter, shared_arrays, w_wake, w_todo, reader>>

PutCommit ==
  /\ wpc = "stamped"
  /\ wpc' = "idle" /\ w_wake' = 0
  /\ counter' = counter + 1
  /\ UNCHANGED <<lateness, now, shared_arrays, timestamp_array, w_todo, reader>>

-----------------------------------------------------------------------------
(* get(), get_last_k(k), get_all() *)

\* Where target position j comes from: the slots up to curr_idx fill the end
\* of the result; what is missing at its start comes from the array's end.
SourceIdx(curr_idx, k, j) ==
  LET end == curr_idx + 1
      start == IF end - k >= 0 THEN end - k ELSE 0
      target_start == k - (end - start)
  IN  IF j >= target_start
      THEN start + (j - target_start)
      ELSE BufferSize - target_start + j

Call(single, k) ==
  /\ rpc = "idle"
  /\ rpc' = "called"
  /\ r_single' = single /\ r_k' = k /\ r_start' = now
  /\ UNCHANGED <<lateness, now, counter, shared_arrays, timestamp_array, writer,
                 r_count, r_todo, out>>

Get == Call(TRUE, 1)
GetLastK(k) == Call(FALSE, k)
GetAll == Call(FALSE, IF counter < GetMaxK THEN counter ELSE GetMaxK)

\* The call ends, normally or by an exception: its locals are gone.
GetEnd ==
  /\ rpc' = "idle" /\ r_single' = FALSE /\ r_k' = 0 /\ r_start' = 0
  /\ r_count' = 0 /\ r_todo' = {}
  /\ out' = [f \in Fields |-> [j \in 0 .. GetMaxK - 1 |-> Unwritten]]
  /\ UNCHANGED <<lateness, now, counter, shared_arrays, timestamp_array, writer>>

\* "assert k <= count" in get_last_k; get has no such check.
GetAssertionError ==
  /\ rpc = "called" /\ ~r_single /\ r_k > counter
  /\ GetEnd

GetLoad ==
  /\ rpc = "called" /\ (r_single \/ r_k <= counter)
  /\ rpc' = "copying"
  /\ r_count' = counter
  /\ r_todo' = Fields \X (0 .. r_k - 1)
  /\ UNCHANGED <<lateness, now, counter, shared_arrays, timestamp_array, writer,
                 r_single, r_k, r_start, out>>

GetCopy(f, j) ==
  /\ rpc = "copying" /\ <<f, j>> \in r_todo
  /\ out' = [out EXCEPT ![f][j] =
               shared_arrays[f][SourceIdx(Slot(r_count - 1), r_k, j)]]
  /\ r_todo' = r_todo \ {<<f, j>>}
  /\ UNCHANGED <<lateness, now, counter, shared_arrays, timestamp_array, writer, rpc,
                 r_single, r_k, r_start, r_count>>

WithinBudget == now - r_start <= Budget

GetReturn ==
  /\ rpc = "copying" /\ r_todo = {} /\ WithinBudget
  /\ GetEnd

GetTimeoutError ==
  /\ rpc = "copying" /\ r_todo = {} /\ ~WithinBudget
  /\ GetEnd

-----------------------------------------------------------------------------
\* Time passes, but no iteration of the loop falls further behind than
\* lateness allows, unless put itself put it to sleep.
Deadline ==
  IF w_wake > counter * Period + lateness
  THEN w_wake ELSE counter * Period + lateness

Tick ==
  /\ wpc = "dead" \/ now < Deadline
  /\ now < MaxTime
  /\ now' = now + 1
  /\ UNCHANGED <<lateness, counter, shared_arrays, timestamp_array, writer, reader>>

Write == \E f \in Fields : PutWrite(f)
Put == PutCall \/ PutSleep \/ PutTimeoutError \/ PutWake \/ Write \/ PutStamp
       \/ PutCommit
Copy == \E f \in Fields, j \in 0 .. GetMaxK - 1 : GetCopy(f, j)
Read == \/ Get \/ (\E k \in 0 .. GetMaxK : GetLastK(k)) \/ GetAll
        \/ GetAssertionError \/ GetLoad \/ Copy \/ GetReturn \/ GetTimeoutError

Next == Put \/ Read \/ Tick

Spec == Init /\ [][Next]_vars

-----------------------------------------------------------------------------
(* Properties *)

\* The loop keeps its schedule: no iteration is so late that the margin of the buffer
\* is gone before a call's budget is.
OnSchedule == lateness + Budget < Period * Margin

\* The number of the state that belongs at position j of the result.
Wanted(j) == r_count - r_k + 1 + j

\* What the client has copied so far is the states it asked for.
Intact ==
  \A f \in Fields, j \in 0 .. r_k - 1 :
    <<f, j>> \notin r_todo => out[f][j] = Wanted(j)

Returning == rpc = "copying" /\ r_todo = {} /\ WithinBudget

\* While the loop keeps its schedule, a get, get_last_k or get_all that returns, returns the latest states, each
\* of them whole: no slot was overwritten while it was copied.  (A get before
\* the first put has no state to return and hands out unwritten memory.)
SafeRead == (OnSchedule /\ Returning /\ r_count > 0) => Intact

\* "... so that get_last_k can safely read k elements from any count location":
\* the same for calls of get_last_k that take less than the budget.
SafeLastK ==
  (Returning /\ ~r_single /\ now - r_start < Budget) => Intact

\* The same for calls that ask for at least two states less than get_max_k:
\* put's timestamp check alone protects them, however the loop's iterations
\* are bunched.
SafeShortRead ==
  (Returning /\ r_k + 2 <= GetMaxK /\ now - r_start < Budget) => Intact

\* A state put published is in its slot, whole, until the loop begins to write
\* the state that is to replace it.
PublishedIntact ==
  \A n \in 1 .. counter, f \in Fields :
    (n + BufferSize > counter + (IF wpc \in {"writing", "stamped"} THEN 1 ELSE 0))
      => shared_arrays[f][Slot(n - 1)] = n

\* While put writes a slot, neither it nor the get_max_k - 1 slots after it
\* have been written for get_time_budget.
LookaheadUntouched ==
  (wpc = "writing" /\ w_todo = Fields) =>
    \A i \in 0 .. GetMaxK - 1 : now - timestamp_array[Slot(NextIdx + i)] >= Budget

\* The buffer is large enough that a loop on schedule never has to wait in
\* put, nor dies of TimeoutError when it asked not to wait.
NeverTooFast == OnSchedule => wpc \notin {"dead", "sleeping"}
=============================================================================
