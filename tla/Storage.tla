---------------------------------- MODULE Storage ----------------------------------
(***************************************************************************)
(* RingBuffer and Queue of middlewares/_storage.py, the storage of a node  *)
(* under every middleware but the shared-memory ones: deques with a        *)
(* maximal length.                                                         *)
(*                                                                         *)
(* Under the interpreter lock append, list(deque), clear and popleft are   *)
(* single steps.  get_last_k counts the deque and then copies it, up to    *)
(* 100 items in one step, more through an iterator, which an append makes  *)
(* useless.  It holds read_lock, which clear takes and put does not, so    *)
(* these are operators of their own.  get_all of the queue copies and      *)
(* clears it under the mutex that put takes, so its two steps exclude put. *)
(***************************************************************************)
EXTENDS Integers, Sequences, SequencesExt, FiniteSetsExt

\* deque(maxlen=maxsize).append: the oldest item makes room.
Appended(buffer, item, maxsize) ==
  IF Len(buffer) < maxsize THEN Append(buffer, item) ELSE Append(Tail(buffer), item)

LastOf(buffer, k) == SubSeq(buffer, Max({1, Len(buffer) - k + 1}), Len(buffer))

\* RingBuffer.get, [] when there is nothing.
Newest(buffer) == LastOf(buffer, 1)

\* get_last_k, first what it counts and then what it copies: up to small items by
\* list(buffer)[-k:], more by list(islice(buffer, n - k, n)), if no append came
\* between the making of its iterator and the copy.
CountLastK(buffer, k) == [n |-> Len(buffer), k |-> Min({k, Len(buffer)})]
CopyLastK(buffer, counted, small) ==
  IF counted.k = 0 THEN << >>
  ELSE IF counted.k <= small THEN LastOf(buffer, counted.k)
  ELSE SubSeq(buffer, counted.n - counted.k + 1, Min({counted.n, Len(buffer)}))
=============================================================================
