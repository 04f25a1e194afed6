---------------------------- MODULE ShmQueueProofs ----------------------------
(***************************************************************************)
(* Proofs about SharedMemoryQueue for every buffer size, every set of      *)
(* fields and any number of requests.  The argument: each side decides on  *)
(* a stale copy of the other side's counter, and because a counter only    *)
(* grows the stale copy errs on the safe side (Counters, PutFrame,         *)
(* GetFrame).  Hence the slots in use by the two sides are less than       *)
(* BufferSize apart, and ModDistinct keeps them distinct.                  *)
(***************************************************************************)
EXTENDS ShmQueue, TLAPS

\* The two counters bound the number of unread requests.
Counters ==
  /\ read_counter <= write_counter
  /\ write_counter <= read_counter + BufferSize
  /\ Len(accepted) = write_counter

\* What a put under way may rely on, however long ago it loaded the counters.
PutFrame ==
  /\ ppc # "idle" => p_data \in Requests /\ p_read <= read_counter
  /\ ppc = "writing" =>
       /\ p_write = write_counter
       /\ write_counter < read_counter + BufferSize
       /\ p_todo \subseteq DOMAIN p_data
       /\ \A key \in DOMAIN p_data \ p_todo :
            /\ key \in Fields
            /\ shared_arrays[key][p_write % BufferSize] = p_data[key]

\* What a get or clear under way may rely on.
GetFrame ==
  /\ cpc \in {"loaded", "clearing"} =>
       read_counter <= c_write /\ c_write <= write_counter
  /\ cpc = "copying" =>
       /\ c_read = read_counter
       /\ c_n \in 1 .. BufferSize
       /\ c_read + c_n <= write_counter
       /\ c_todo \subseteq Fields \X (0 .. c_n - 1)

IInv ==
  TypeOK /\ Counters /\ PutFrame /\ GetFrame /\ UnreadIntact /\ CopiedIntact

-----------------------------------------------------------------------------
(* Remainders.  The modulus is a constant of the specification, so the provers *)
(* need to be led by the defining equation of division.                        *)

\* Division with remainder, and that the remainder is unique.
LEMMA DivMod ==
  ASSUME NEW a \in Nat, NEW B \in Nat \ {0}
  PROVE  /\ a % B \in 0 .. B - 1
         /\ a \div B \in Int
         /\ a = B * (a \div B) + (a % B)
OBVIOUS

LEMMA ModUnique ==
  ASSUME NEW B \in Nat \ {0}, NEW a \in Int, NEW q \in Int, NEW r \in 0 .. B - 1,
         a = B * q + r
  PROVE  a % B = r
OBVIOUS

\* Where a run of fewer than B slots that starts at a % B continues.
LEMMA ModAdd ==
  ASSUME NEW B \in Nat \ {0}, NEW a \in Nat, NEW j \in 0 .. B - 1
  PROVE  (a + j) % B = IF (a % B) + j < B THEN (a % B) + j ELSE (a % B) + j - B
<1> DEFINE q == a \div B
           r == a % B
           s == a + j
<1>1. q \in Int /\ r \in 0 .. B - 1 /\ a = B * q + r
  BY DivMod
<1> HIDE DEF q, r
<1>2. s = B * q + (r + j) /\ s = B * (q + 1) + (r + j - B)
  BY <1>1
<1>3. s \in Int /\ (r + j < B => r + j \in 0 .. B - 1) /\ (r + j >= B => r + j - B \in 0 .. B - 1)
  BY <1>1
<1> HIDE DEF s
<1>4. s % B = IF r + j < B THEN r + j ELSE r + j - B
  <2>1. CASE r + j < B
    <3>1. s % B = r + j
      BY <1>1, <1>2, <1>3, <2>1, ModUnique
    <3> QED
      BY <2>1, <3>1
  <2>2. CASE r + j >= B
    <3> DEFINE t == r + j - B
    <3>1. t \in 0 .. B - 1 /\ q + 1 \in Int /\ s = B * (q + 1) + t
      BY <1>1, <1>2, <1>3, <2>2
    <3> HIDE DEF t
    <3>2. s % B = t
      BY <1>3, <3>1, ModUnique
    <3> QED
      BY <1>1, <2>2, <3>2 DEF t
  <2> QED
    BY <1>1, <2>1, <2>2
<1> QED
  BY <1>4 DEF r, s

\* Two numbers less than B apart have different remainders.
LEMMA ModDistinct ==
  ASSUME NEW B \in Nat \ {0}, NEW a \in Nat, NEW b \in Nat, a < b, b < a + B
  PROVE  a % B # b % B
<1> DEFINE j == b - a
           r == a % B
<1>1. j \in 0 .. B - 1 /\ j # 0 /\ b = a + j /\ r \in 0 .. B - 1
  BY DivMod
<1>2. (a + j) % B = IF r + j < B THEN r + j ELSE r + j - B
  BY <1>1, ModAdd
<1> HIDE DEF j, r
<1> QED
  BY <1>1, <1>2 DEF r

-----------------------------------------------------------------------------

\* A request maps the keys of one of the key sets to values.
LEMMA RequestType ==
  ASSUME NEW d \in Requests
  PROVE  /\ DOMAIN d \subseteq UNION KeySets
         /\ \A key \in DOMAIN d : d[key] \in Values
  BY DEF Requests

\* The two slices of _get_k_impl visit the slots of consecutive requests.
LEMMA SliceIndexIsMod ==
  ASSUME NEW c \in Nat, NEW n \in 1 .. BufferSize, NEW j \in 0 .. n - 1
  PROVE  /\ SliceIndex(c % BufferSize, n, j) = (c + j) % BufferSize
         /\ SliceIndex(c % BufferSize, n, j) \in Index
  <1> USE BufferSizeAssumption
  <1>1. c % BufferSize \in 0 .. BufferSize - 1  BY DivMod
  <1>2. j \in 0 .. BufferSize - 1  OBVIOUS
  <1>3. (c + j) % BufferSize =
          IF (c % BufferSize) + j < BufferSize
          THEN (c % BufferSize) + j ELSE (c % BufferSize) + j - BufferSize
    BY <1>2, ModAdd
  <1> DEFINE r == c % BufferSize
  <1> HIDE DEF r
  <1>4. SliceIndex(r, n, j) =
          IF r + j < BufferSize THEN r + j ELSE r + j - BufferSize
    BY <1>1 DEF SliceIndex, r
  <1> QED  BY <1>1, <1>2, <1>3, <1>4 DEF r, Index

\* The initial state satisfies the inductive invariant.
LEMMA InitIInv == Init => IInv
  <1> USE BufferSizeAssumption
  <1> SUFFICES ASSUME Init PROVE IInv  OBVIOUS
  <1>1. TypeOK
    BY DEF Init, TypeOK, Cell, Uninitialised, Index, NoRequest
  <1>2. Counters /\ PutFrame /\ GetFrame  BY DEF Init, Counters, PutFrame, GetFrame
  <1>3. UnreadIntact /\ CopiedIntact  BY DEF Init, UnreadIntact, CopiedIntact
  <1> QED  BY <1>1, <1>2, <1>3 DEF IInv

\* A put and a get under way never touch the same slot.
LEMMA IInvExclusion == IInv => SlotExclusion
  <1> USE BufferSizeAssumption
  <1> SUFFICES ASSUME IInv, ppc = "writing", cpc = "copying",
                      NEW j \in 0 .. c_n - 1
               PROVE  SliceIndex(c_read % BufferSize, c_n, j)
                        # p_write % BufferSize
    BY DEF SlotExclusion
  <1>1. /\ c_read \in Nat /\ p_write \in Nat /\ c_n \in 1 .. BufferSize
        /\ c_read + c_n <= p_write /\ p_write < c_read + BufferSize
    BY DEF IInv, TypeOK, PutFrame, GetFrame
  <1>2. SliceIndex(c_read % BufferSize, c_n, j) = (c_read + j) % BufferSize
    BY <1>1, SliceIndexIsMod
  <1> DEFINE a == c_read + j
  <1>3. a \in Nat /\ a < p_write /\ p_write < a + BufferSize  BY <1>1
  <1> HIDE DEF a
  <1>4. a % BufferSize # p_write % BufferSize  BY <1>1, <1>3, ModDistinct
  <1> QED  BY <1>2, <1>4 DEF a

-----------------------------------------------------------------------------
(* put *)

\* Steps of put that write neither an array nor a history.
LEMMA PutControlStep ==
  ASSUME IInv, (\E data \in Requests : PutCall(data)) \/ PutFull \/ PutAdmit
               \/ PutKeyError
  PROVE  IInv'
  <1> USE BufferSizeAssumption DEF IInv, producer, consumer
  <1>1. /\ UNCHANGED <<read_counter, write_counter, shared_arrays, consumer,
                       accepted, delivered>>
    BY DEF PutCall, PutFull, PutAdmit, PutKeyError
  <1>2. CASE \E data \in Requests : PutCall(data)
    <2>1. TypeOK' /\ PutFrame'  BY <1>2 DEF PutCall, TypeOK, PutFrame
    <2> QED  BY <1>1, <2>1
             DEF Counters, GetFrame, UnreadIntact, CopiedIntact
  <1>3. CASE PutFull \/ PutKeyError
    <2>1. TypeOK' /\ PutFrame'
      BY <1>3 DEF PutFull, PutKeyError, PutEnd, TypeOK, PutFrame
    <2> QED  BY <1>1, <2>1
             DEF Counters, GetFrame, UnreadIntact, CopiedIntact
  <1>4. CASE PutAdmit
    <2>1. p_data \in Requests /\ DOMAIN p_data \subseteq UNION KeySets
      BY <1>4, RequestType DEF PutAdmit, PutFrame
    <2>2. TypeOK'  BY <1>4, <2>1 DEF PutAdmit, TypeOK
    <2>3. PutFrame'
      BY <1>4 DEF PutAdmit, PutFrame, IsFull, TypeOK, Counters
    <2> QED  BY <1>1, <2>2, <2>3
             DEF Counters, GetFrame, UnreadIntact, CopiedIntact
  <1> QED  BY <1>2, <1>3, <1>4

\* Writing a field of the new slot disturbs no unread request.
LEMMA PutWriteStep ==
  ASSUME IInv, NEW key \in Fields, PutWrite(key)
  PROVE  IInv'
  <1> USE BufferSizeAssumption DEF IInv, producer, consumer
  <1> DEFINE slot == p_write % BufferSize
  <1>1. /\ key \in p_todo
        /\ shared_arrays' = [shared_arrays EXCEPT ![key][slot] = p_data[key]]
        /\ p_todo' = p_todo \ {key}
        /\ UNCHANGED <<read_counter, write_counter, ppc, p_data, p_read,
                       p_write, consumer, accepted, delivered>>
    BY DEF PutWrite
  <1>2. /\ ppc = "writing" /\ p_data \in Requests /\ p_write = write_counter
        /\ write_counter < read_counter + BufferSize
        /\ p_todo \subseteq DOMAIN p_data /\ p_write \in Nat
    BY DEF PutWrite, PutFrame, TypeOK
  <1>3. slot \in Index  BY <1>2, DivMod DEF Index
  <1>4. p_data[key] \in Values  BY <1>1, <1>2, RequestType
  <1>5. TypeOK'  BY <1>1, <1>3, <1>4 DEF TypeOK, Cell
  <1>6. \A f \in Fields, i \in Index :
          shared_arrays'[f][i] = IF f = key /\ i = slot
                                 THEN p_data[key] ELSE shared_arrays[f][i]
    BY <1>1, <1>3 DEF TypeOK
  <1>7. PutFrame'
    <2>1. \A k \in DOMAIN p_data \ p_todo' :
            k \in Fields /\ shared_arrays'[k][slot] = p_data[k]
      <3> SUFFICES ASSUME NEW k \in DOMAIN p_data \ p_todo'
                   PROVE  k \in Fields /\ shared_arrays'[k][slot] = p_data[k]
        OBVIOUS
      <3>1. CASE k = key  BY <3>1, <1>3, <1>6
      <3>2. CASE k # key
        <4>1. k \in Fields /\ shared_arrays[k][slot] = p_data[k]
          BY <3>2, <1>1, <1>2 DEF PutFrame
        <4> QED  BY <4>1, <3>2, <1>3, <1>6
      <3> QED  BY <3>1, <3>2
    <2> QED  BY <2>1, <1>1, <1>2 DEF PutFrame
  <1>8. UnreadIntact'
    <2> SUFFICES ASSUME NEW i \in read_counter + 1 .. write_counter,
                        NEW k \in DOMAIN accepted[i]
                 PROVE  /\ k \in Fields
                        /\ shared_arrays'[k][(i - 1) % BufferSize]
                             = accepted[i][k]
      BY <1>1 DEF UnreadIntact
    <2> DEFINE n == i - 1
    <2>1. n \in Nat /\ n < p_write /\ p_write < n + BufferSize
      BY <1>2 DEF TypeOK
    <2> HIDE DEF n
    <2>2. n % BufferSize # slot /\ n % BufferSize \in Index
      BY <2>1, <1>2, ModDistinct, DivMod DEF Index
    <2>3. k \in Fields /\ shared_arrays[k][n % BufferSize] = accepted[i][k]
      BY DEF UnreadIntact, n
    <2> QED  BY <2>2, <2>3, <1>6 DEF n
  <1> QED  BY <1>1, <1>5, <1>7, <1>8 DEF Counters, GetFrame, CopiedIntact

\* Advancing the write counter publishes a slot that is completely written.
LEMMA PutCommitStep ==
  ASSUME IInv, PutCommit
  PROVE  IInv'
  <1> USE BufferSizeAssumption DEF IInv, producer, consumer
  <1>1. /\ p_todo = {} /\ PutEnd
        /\ write_counter' = write_counter + 1
        /\ accepted' = Append(accepted, p_data)
        /\ UNCHANGED <<read_counter, shared_arrays, consumer, delivered>>
    BY DEF PutCommit
  <1>2. /\ p_data \in Requests /\ p_write = write_counter
        /\ write_counter < read_counter + BufferSize
        /\ \A key \in DOMAIN p_data :
             /\ key \in Fields
             /\ shared_arrays[key][write_counter % BufferSize] = p_data[key]
    BY <1>1 DEF PutCommit, PutFrame
  <1>3. /\ accepted \in Seq(Requests) /\ Len(accepted) = write_counter
        /\ read_counter \in Nat /\ write_counter \in Nat
    BY DEF TypeOK, Counters
  <1>4. /\ accepted' \in Seq(Requests) /\ Len(accepted') = write_counter + 1
        /\ accepted'[write_counter + 1] = p_data
        /\ \A i \in 1 .. write_counter : accepted'[i] = accepted[i]
    BY <1>1, <1>2, <1>3
  <1>5. TypeOK'  BY <1>1, <1>4, <1>3 DEF TypeOK, PutEnd
  <1>6. Counters'  BY <1>1, <1>2, <1>3, <1>4 DEF Counters
  <1>7. PutFrame'  BY <1>1 DEF PutFrame, PutEnd
  <1>8. GetFrame'  BY <1>1, <1>3 DEF GetFrame, TypeOK
  <1>9. UnreadIntact'
    <2> SUFFICES ASSUME NEW i \in read_counter + 1 .. write_counter + 1,
                        NEW key \in DOMAIN accepted'[i]
                 PROVE  /\ key \in Fields
                        /\ shared_arrays[key][(i - 1) % BufferSize]
                             = accepted'[i][key]
      BY <1>1 DEF UnreadIntact
    <2>1. CASE i = write_counter + 1
      <3>1. i - 1 = write_counter  BY <2>1, <1>3
      <3> QED  BY <2>1, <3>1, <1>2, <1>4
    <2>2. CASE i \in read_counter + 1 .. write_counter
      BY <2>2, <1>4, <1>3 DEF UnreadIntact
    <2> QED  BY <2>1, <2>2, <1>3
  <1>10. CopiedIntact'
    <2> SUFFICES ASSUME cpc = "copying", NEW f \in Fields,
                        NEW j \in 0 .. c_n - 1, <<f, j>> \notin c_todo,
                        f \in DOMAIN accepted'[c_read + j + 1]
                 PROVE  out[f][j] = accepted'[c_read + j + 1][f]
      BY <1>1 DEF CopiedIntact
    <2>1. c_read + j + 1 \in 1 .. write_counter  BY <1>3 DEF GetFrame, TypeOK
    <2>2. accepted'[c_read + j + 1] = accepted[c_read + j + 1]
      BY <2>1, <1>4
    <2> QED  BY <2>2 DEF CopiedIntact
  <1> QED  BY <1>5, <1>6, <1>7, <1>8, <1>9, <1>10

-----------------------------------------------------------------------------
(* get, get_k, get_all, clear *)

\* Steps of the reading side that only load counters or give up.
LEMMA GetControlStep ==
  ASSUME IInv, \/ \E k \in 1 .. BufferSize :
                    \E op \in {"get", "get_k", "get_all"} : GetCall(op, k)
               \/ ClearCall \/ GetRefuse
  PROVE  IInv'
  <1> USE BufferSizeAssumption DEF IInv, producer, consumer
  <1>1. /\ UNCHANGED <<read_counter, write_counter, shared_arrays, producer,
                       accepted, delivered>>
        /\ cpc' # "copying"
    BY DEF GetCall, ClearCall, GetRefuse, GetEnd
  <1>2. CASE \E k \in 1 .. BufferSize :
               \E op \in {"get", "get_k", "get_all"} : GetCall(op, k)
    <2>1. TypeOK' /\ GetFrame'
      BY <1>2 DEF GetCall, TypeOK, GetFrame, Counters
    <2> QED  BY <1>1, <2>1 DEF Counters, PutFrame, UnreadIntact, CopiedIntact
  <1>3. CASE ClearCall
    <2>1. TypeOK' /\ GetFrame'  BY <1>3 DEF ClearCall, TypeOK, GetFrame, Counters
    <2> QED  BY <1>1, <2>1 DEF Counters, PutFrame, UnreadIntact, CopiedIntact
  <1>4. CASE GetRefuse
    <2>1. TypeOK' /\ GetFrame'
      BY <1>4 DEF GetRefuse, GetEnd, TypeOK, GetFrame, Uninitialised, Cell
    <2> QED  BY <1>1, <2>1 DEF Counters, PutFrame, UnreadIntact, CopiedIntact
  <1> QED  BY <1>2, <1>3, <1>4

\* A get that goes ahead takes at most what it saw, and at least one request.
LEMMA GetAdmitStep ==
  ASSUME IInv, GetAdmit
  PROVE  IInv'
  <1> USE BufferSizeAssumption DEF IInv, producer, consumer
  <1> DEFINE n == BatchSize(c_op, c_k, c_write - read_counter)
  <1>1. /\ cpc = "loaded" /\ cpc' = "copying" /\ c_read' = read_counter
        /\ c_n' = n /\ c_todo' = Fields \X (0 .. n - 1)
        /\ UNCHANGED <<read_counter, write_counter, shared_arrays, producer,
                       c_op, c_k, c_write, out, accepted, delivered>>
    BY DEF GetAdmit
  <1>2. /\ read_counter \in Nat /\ write_counter \in Nat /\ c_write \in Nat
        /\ c_write <= write_counter /\ write_counter <= read_counter + BufferSize
        /\ read_counter <= c_write
    BY <1>1 DEF TypeOK, Counters, GetFrame
  <1>3. n \in 1 .. c_write - read_counter
    BY <1>2 DEF GetAdmit, IsEmpty, BatchSize, TypeOK
  <1>4. n \in 1 .. BufferSize /\ read_counter + n <= write_counter
    BY <1>2, <1>3
  <1> HIDE DEF n
  <1>5. TypeOK'  BY <1>1, <1>2, <1>4 DEF TypeOK, Index
  <1>6. GetFrame'  BY <1>1, <1>4 DEF GetFrame
  <1>7. CopiedIntact'  BY <1>1 DEF CopiedIntact
  <1> QED  BY <1>1, <1>5, <1>6, <1>7 DEF Counters, PutFrame, UnreadIntact

\* A copied element is the request's, because its slot is intact.
LEMMA GetCopyStep ==
  ASSUME IInv, NEW f \in Fields, NEW j \in Index, GetCopy(f, j)
  PROVE  IInv'
  <1> USE BufferSizeAssumption DEF IInv, producer, consumer
  <1> DEFINE slot == SliceIndex(c_read % BufferSize, c_n, j)
  <1>1. /\ cpc = "copying" /\ <<f, j>> \in c_todo
        /\ out' = [out EXCEPT ![f][j] = shared_arrays[f][slot]]
        /\ c_todo' = c_todo \ {<<f, j>>}
        /\ UNCHANGED <<read_counter, write_counter, shared_arrays, producer,
                       cpc, c_op, c_k, c_write, c_read, c_n, accepted,
                       delivered>>
    BY DEF GetCopy
  <1>2. /\ c_read = read_counter /\ c_n \in 1 .. BufferSize
        /\ c_read + c_n <= write_counter /\ j \in 0 .. c_n - 1
        /\ c_read \in Nat /\ write_counter \in Nat
    BY <1>1 DEF GetFrame, TypeOK
  <1>3. slot = (c_read + j) % BufferSize /\ slot \in Index
    BY <1>2, SliceIndexIsMod
  <1> HIDE DEF slot
  <1>4. shared_arrays[f][slot] \in Cell  BY <1>3 DEF TypeOK
  <1>5. TypeOK'  BY <1>1, <1>4 DEF TypeOK
  <1>6. GetFrame'  BY <1>1 DEF GetFrame
  <1>7. CopiedIntact'
    <2> SUFFICES ASSUME NEW g \in Fields, NEW m \in 0 .. c_n - 1,
                        <<g, m>> \notin c_todo',
                        g \in DOMAIN accepted[c_read + m + 1]
                 PROVE  out'[g][m] = accepted[c_read + m + 1][g]
      BY <1>1 DEF CopiedIntact
    <2>1. m \in Index  BY <1>2 DEF Index
    <2>2. CASE g = f /\ m = j
      <3>1. out'[g][m] = shared_arrays[f][slot]
        BY <2>1, <2>2, <1>1 DEF TypeOK
      <3> DEFINE i == c_read + j + 1
      <3>2. i \in read_counter + 1 .. write_counter /\ i - 1 = c_read + j
        BY <1>2
      <3> HIDE DEF i
      <3>3. shared_arrays[f][(i - 1) % BufferSize] = accepted[i][f]
        BY <3>2, <2>2 DEF UnreadIntact, i
      <3> QED  BY <3>1, <3>2, <3>3, <2>2, <1>3 DEF i
    <2>3. CASE ~(g = f /\ m = j)
      <3>1. out'[g][m] = out[g][m]  BY <2>1, <2>3, <1>1 DEF TypeOK
      <3>2. <<g, m>> \notin c_todo  BY <2>3, <1>1
      <3> QED  BY <3>1, <3>2, <1>1 DEF CopiedIntact
    <2> QED  BY <2>2, <2>3
  <1> QED  BY <1>1, <1>5, <1>6, <1>7 DEF Counters, PutFrame, UnreadIntact

\* What the control loop receives is the next c_n accepted requests.
LEMMA ReceivedIsAccepted ==
  ASSUME IInv, GetReturn, NEW j \in 1 .. c_n
  PROVE  Received(j) = accepted[c_read + j] /\ accepted[c_read + j] \in Requests
  <1> USE BufferSizeAssumption DEF IInv
  <1>1. /\ cpc = "copying" /\ c_todo = {} /\ c_read = read_counter
        /\ c_read \in Nat /\ c_n \in 1 .. BufferSize
        /\ c_read + c_n <= write_counter /\ write_counter \in Nat
        /\ accepted \in Seq(Requests) /\ Len(accepted) = write_counter
    BY DEF GetReturn, GetFrame, TypeOK, Counters
  <1> DEFINE i == c_read + j
             d == accepted[i]
  <1>2. i \in read_counter + 1 .. write_counter /\ i \in 1 .. Len(accepted)
    BY <1>1
  <1>3. d \in Requests  BY <1>1, <1>2
  <1>4. \A key \in DOMAIN d : key \in Fields  BY <1>2 DEF UnreadIntact
  <1>5. \A key \in DOMAIN d : out[key][j - 1] = d[key]
    <2> SUFFICES ASSUME NEW key \in DOMAIN d PROVE out[key][j - 1] = d[key]
      OBVIOUS
    <2> DEFINE m == j - 1
    <2>1. m \in 0 .. c_n - 1 /\ c_read + m + 1 = i  BY <1>1
    <2> HIDE DEF m, i
    <2>2. out[key][m] = accepted[c_read + m + 1][key]
      BY <2>1, <1>1, <1>4 DEF CopiedIntact
    <2> QED  BY <2>1, <2>2 DEF m
  <1>6. d = [key \in DOMAIN d |-> d[key]]  BY <1>3 DEF Requests
  <1> QED  BY <1>3, <1>5, <1>6 DEF Received

\* Advancing the read counter frees slots nobody needs any more.
LEMMA GetReturnStep ==
  ASSUME IInv, GetReturn
  PROVE  IInv'
  <1> USE BufferSizeAssumption DEF IInv, producer, consumer
  <1>1. /\ GetEnd /\ read_counter' = read_counter + c_n
        /\ delivered' = delivered \o [j \in 1 .. c_n |-> Received(j)]
        /\ UNCHANGED <<write_counter, shared_arrays, producer, accepted>>
    BY DEF GetReturn
  <1>2. /\ c_read = read_counter /\ c_n \in 1 .. BufferSize
        /\ read_counter + c_n <= write_counter
        /\ read_counter \in Nat /\ write_counter \in Nat
    BY DEF GetReturn, GetFrame, TypeOK
  <1>3. delivered' \in Seq(Requests)
    <2>1. [j \in 1 .. c_n |-> Received(j)] \in Seq(Requests)
      BY <1>2, ReceivedIsAccepted
    <2> QED  BY <1>1, <2>1 DEF TypeOK
  <1>4. TypeOK'
    BY <1>1, <1>2, <1>3 DEF TypeOK, GetEnd, Uninitialised, Cell
  <1>5. Counters'  BY <1>1, <1>2 DEF Counters
  <1>6. PutFrame'  BY <1>1, <1>2 DEF PutFrame, TypeOK
  <1>7. GetFrame' /\ CopiedIntact'  BY <1>1 DEF GetFrame, CopiedIntact, GetEnd
  <1>8. UnreadIntact'  BY <1>1, <1>2 DEF UnreadIntact
  <1> QED  BY <1>4, <1>5, <1>6, <1>7, <1>8

\* clear drops what was there when it loaded the write counter.
LEMMA ClearStoreStep ==
  ASSUME IInv, ClearStore
  PROVE  IInv'
  <1> USE BufferSizeAssumption DEF IInv, producer, consumer
  <1>1. /\ cpc = "clearing" /\ GetEnd /\ read_counter' = c_write
        /\ UNCHANGED <<write_counter, shared_arrays, producer, accepted,
                       delivered>>
    BY DEF ClearStore
  <1>2. /\ read_counter <= c_write /\ c_write <= write_counter
        /\ read_counter \in Nat /\ write_counter \in Nat /\ c_write \in Nat
        /\ write_counter <= read_counter + BufferSize
    BY <1>1 DEF GetFrame, TypeOK, Counters
  <1>3. TypeOK'  BY <1>1, <1>2 DEF TypeOK, GetEnd, Uninitialised, Cell
  <1>4. Counters'  BY <1>1, <1>2 DEF Counters
  <1>5. PutFrame'  BY <1>1, <1>2 DEF PutFrame, TypeOK
  <1>6. GetFrame' /\ CopiedIntact'  BY <1>1 DEF GetFrame, CopiedIntact, GetEnd
  <1>7. UnreadIntact'  BY <1>1, <1>2 DEF UnreadIntact
  <1> QED  BY <1>3, <1>4, <1>5, <1>6, <1>7

-----------------------------------------------------------------------------
(* The theorems *)

\* Every step of either side preserves the inductive invariant.
LEMMA NextIInv == IInv /\ [Next]_vars => IInv'
  <1> SUFFICES ASSUME IInv, [Next]_vars PROVE IInv'  OBVIOUS
  <1>1. CASE Put
    BY <1>1, PutControlStep, PutWriteStep, PutCommitStep DEF Put
  <1>2. CASE Get
    <2>1. CASE GetCall("get", 1) \/ GetCall("get_all", 1)
               \/ \E k \in 1 .. BufferSize : GetCall("get_k", k)
      BY <2>1, GetControlStep, BufferSizeAssumption
    <2>2. CASE GetRefuse  BY <2>2, GetControlStep
    <2>3. CASE GetAdmit  BY <2>3, GetAdmitStep
    <2>4. CASE Copy  BY <2>4, GetCopyStep DEF Copy
    <2>5. CASE GetReturn  BY <2>5, GetReturnStep
    <2> QED  BY <1>2, <2>1, <2>2, <2>3, <2>4, <2>5 DEF Get
  <1>3. CASE Clear  BY <1>3, GetControlStep, ClearStoreStep DEF Clear
  <1>4. CASE UNCHANGED vars
    BY <1>4 DEF vars, producer, consumer, IInv, TypeOK, Counters, PutFrame,
                GetFrame, UnreadIntact, CopiedIntact
  <1> QED  BY <1>1, <1>2, <1>3, <1>4 DEF Next

\* The inductive invariant holds in every reachable state.
THEOREM Invariance == Spec => []IInv
  BY InitIInv, NextIInv, PTL DEF Spec

\* Every variable of the queue keeps its type.
THEOREM TypeCorrect == Spec => []TypeOK
  <1>1. IInv => TypeOK  BY DEF IInv
  <1> QED  BY <1>1, Invariance, PTL

\* A put and a get under way never use the same slot, for any buffer size.
THEOREM Exclusion == Spec => []SlotExclusion
  BY IInvExclusion, Invariance, PTL

\* No accepted request is overwritten before it is read, and what a get has
\* copied of it is what was put.
THEOREM Integrity == Spec => [](UnreadIntact /\ CopiedIntact)
  <1>1. IInv => UnreadIntact /\ CopiedIntact  BY DEF IInv
  <1> QED  BY <1>1, Invariance, PTL

\* What get or get_all has copied so far are the oldest unread requests, however
\* many clients put meanwhile.
THEOREM Copies == Spec => []CopiedIntact
  <1>1. IInv => CopiedIntact  BY DEF IInv
  <1> QED  BY <1>1, Invariance, PTL

-----------------------------------------------------------------------------
(* The queue implements a bounded FIFO channel *)

\* The unread requests, element by element.
LEMMA UnreadElements ==
  ASSUME NEW s \in Seq(Requests), NEW r \in Nat, NEW w \in Nat,
         r <= w, w <= Len(s)
  PROVE  /\ SubSeq(s, r + 1, w) \in Seq(Requests)
         /\ Len(SubSeq(s, r + 1, w)) = w - r
         /\ \A i \in 1 .. w - r : SubSeq(s, r + 1, w)[i] = s[r + i]
  OBVIOUS

\* Appending a request extends the unread ones.
LEMMA UnreadAppend ==
  ASSUME NEW s \in Seq(Requests), NEW e \in Requests, NEW r \in Nat, r <= Len(s)
  PROVE  SubSeq(Append(s, e), r + 1, Len(s) + 1) = Append(SubSeq(s, r + 1, Len(s)), e)
  <1> DEFINE n == Len(s)
             u == Append(s, e)
             q == SubSeq(s, r + 1, n)
             t == SubSeq(u, r + 1, n + 1)
  <1>1. /\ u \in Seq(Requests) /\ Len(u) = n + 1 /\ u[n + 1] = e /\ n \in Nat
        /\ \A i \in 1 .. n : u[i] = s[i]
    OBVIOUS
  <1>2. q \in Seq(Requests) /\ Len(q) = n - r /\ \A i \in 1 .. n - r : q[i] = s[r + i]
    BY UnreadElements
  <1> HIDE DEF u, n
  <1>3. /\ t \in Seq(Requests) /\ Len(t) = (n + 1) - r
        /\ \A i \in 1 .. (n + 1) - r : t[i] = u[r + i]
    <2>1. n + 1 \in Nat /\ r <= n + 1 /\ n + 1 <= Len(u)
      BY <1>1 DEF n
    <2> QED  BY <1>1, <2>1, UnreadElements
  <1> HIDE DEF q, t
  <1>4. r <= n  BY DEF n
  <1>5. ASSUME NEW i \in 1 .. n - r PROVE t[i] = q[i]
    <2>1. r + i \in 1 .. n /\ i \in 1 .. (n + 1) - r  BY <1>1, <1>4
    <2>2. t[i] = u[r + i]  BY <1>3, <2>1
    <2>3. u[r + i] = s[r + i]  BY <1>1, <2>1
    <2>4. q[i] = s[r + i]  BY <1>2
    <2> QED  BY <2>2, <2>3, <2>4
  <1>6. t[(n + 1) - r] = e  BY <1>1, <1>3, <1>4
  <1>7. t = Append(q, e)  BY <1>1, <1>2, <1>3, <1>4, <1>5, <1>6
  <1> QED  BY <1>7 DEF q, t, u, n

\* Dropping n from the head of the unread requests moves the lower end.
LEMMA UnreadSuffix ==
  ASSUME NEW s \in Seq(Requests), NEW r \in Nat, NEW w \in Nat, NEW n \in Nat,
         r + n <= w, w <= Len(s)
  PROVE  SubSeq(SubSeq(s, r + 1, w), n + 1, Len(SubSeq(s, r + 1, w)))
           = SubSeq(s, r + n + 1, w)
  <1> DEFINE q == SubSeq(s, r + 1, w)
  <1>1. /\ q \in Seq(Requests) /\ Len(q) = w - r
        /\ \A i \in 1 .. w - r : q[i] = s[r + i]
    BY UnreadElements
  <1> HIDE DEF q
  <1>2. SubSeq(q, n + 1, Len(q)) = SubSeq(s, r + n + 1, w)
    BY <1>1
  <1> QED  BY <1>2 DEF q

\* The initial queue is an empty channel.
LEMMA FifoInit == Init => Fifo!Init
  BY BufferSizeAssumption DEF Init, Fifo!Init, Unread

\* put's last step appends; every other step of put is invisible.
LEMMA FifoPut ==
  ASSUME IInv, PutCommit
  PROVE  Fifo!Put
  <1> USE BufferSizeAssumption DEF IInv
  <1>1. /\ accepted \in Seq(Requests) /\ Len(accepted) = write_counter
        /\ read_counter \in Nat /\ write_counter \in Nat
        /\ read_counter <= write_counter
        /\ p_data \in Requests
        /\ write_counter < read_counter + BufferSize
    BY DEF TypeOK, Counters, PutFrame, PutCommit
  <1>2. /\ accepted' = Append(accepted, p_data)
        /\ write_counter' = write_counter + 1
        /\ UNCHANGED <<read_counter, delivered>>
    BY DEF PutCommit
  <1>3. Len(Unread) < BufferSize  BY <1>1, UnreadElements DEF Unread
  <1>4. Unread' = Append(Unread, p_data)
    <2>1. SubSeq(Append(accepted, p_data), read_counter + 1, Len(accepted) + 1)
            = Append(SubSeq(accepted, read_counter + 1, Len(accepted)), p_data)
      BY <1>1, UnreadAppend
    <2> QED  BY <1>1, <1>2, <2>1 DEF Unread
  <1> QED  BY <1>1, <1>2, <1>3, <1>4 DEF Fifo!Put

\* get's last step hands over a prefix of the unread requests, unaltered.
LEMMA FifoTake ==
  ASSUME IInv, GetReturn
  PROVE  Fifo!Take
  <1> USE BufferSizeAssumption DEF IInv
  <1>1. /\ accepted \in Seq(Requests) /\ Len(accepted) = write_counter
        /\ read_counter \in Nat /\ write_counter \in Nat
        /\ c_read = read_counter /\ c_n \in 1 .. BufferSize
        /\ read_counter + c_n <= write_counter
    BY DEF TypeOK, Counters, GetFrame, GetReturn
  <1>2. /\ read_counter' = read_counter + c_n
        /\ delivered' = delivered \o [j \in 1 .. c_n |-> Received(j)]
        /\ UNCHANGED <<write_counter, accepted>>
    BY DEF GetReturn
  <1>3. /\ Unread \in Seq(Requests) /\ Len(Unread) = write_counter - read_counter
        /\ \A i \in 1 .. write_counter - read_counter :
             Unread[i] = accepted[read_counter + i]
    BY <1>1, UnreadElements DEF Unread
  <1>4. c_n \in 1 .. Len(Unread)  BY <1>1, <1>3
  <1>5. [j \in 1 .. c_n |-> Received(j)] = SubSeq(Unread, 1, c_n)
    <2>1. \A j \in 1 .. c_n : Received(j) = Unread[j]
      BY <1>1, <1>3, ReceivedIsAccepted
    <2> QED  BY <2>1, <1>3, <1>4
  <1>6. Unread' = SubSeq(Unread, c_n + 1, Len(Unread))
    BY <1>1, <1>2, UnreadSuffix DEF Unread
  <1> QED  BY <1>2, <1>4, <1>5, <1>6 DEF Fifo!Take

\* clear drops a prefix of the unread requests.
LEMMA FifoDiscard ==
  ASSUME IInv, ClearStore
  PROVE  Fifo!Discard
  <1> USE BufferSizeAssumption DEF IInv
  <1> DEFINE n == c_write - read_counter
  <1>1. /\ accepted \in Seq(Requests) /\ Len(accepted) = write_counter
        /\ read_counter \in Nat /\ write_counter \in Nat /\ c_write \in Nat
        /\ read_counter <= c_write /\ c_write <= write_counter
    BY DEF TypeOK, Counters, GetFrame, ClearStore
  <1>2. n \in Nat /\ read_counter + n <= write_counter
        /\ read_counter + n + 1 = c_write + 1
    BY <1>1
  <1>3. /\ read_counter' = c_write
        /\ UNCHANGED <<write_counter, accepted, delivered>>
    BY DEF ClearStore
  <1>4. n \in 0 .. Len(Unread)  BY <1>1, <1>2, UnreadElements DEF Unread
  <1> HIDE DEF n
  <1>5. Unread' = SubSeq(Unread, n + 1, Len(Unread))
    BY <1>1, <1>2, <1>3, UnreadSuffix DEF Unread
  <1> QED  BY <1>3, <1>4, <1>5 DEF Fifo!Discard

\* The other steps change nothing the channel shows.
LEMMA FifoStutter ==
  ASSUME UNCHANGED <<read_counter, write_counter, accepted, delivered>>
  PROVE  UNCHANGED <<Unread, delivered>>
  BY DEF Unread

\* Every step of the queue is a step of the channel or invisible.
LEMMA FifoNext == IInv /\ [Next]_vars => [Fifo!Next]_<<Unread, delivered>>
  <1> SUFFICES ASSUME IInv, [Next]_vars
               PROVE  [Fifo!Next]_<<Unread, delivered>>
    OBVIOUS
  <1>1. CASE PutCommit  BY <1>1, FifoPut DEF Fifo!Next
  <1>2. CASE GetReturn  BY <1>2, FifoTake DEF Fifo!Next
  <1>3. CASE ClearStore  BY <1>3, FifoDiscard DEF Fifo!Next
  <1>4. CASE \/ \E data \in Requests : PutCall(data)
             \/ PutFull \/ PutAdmit \/ \E key \in Fields : PutWrite(key)
             \/ PutKeyError
    <2>1. UNCHANGED <<read_counter, write_counter, accepted, delivered>>
      BY <1>4 DEF PutCall, PutFull, PutAdmit, PutWrite, PutKeyError
    <2> QED  BY <2>1, FifoStutter
  <1>5. CASE \/ \E k \in 1 .. BufferSize : GetCall("get_k", k)
             \/ GetCall("get", 1) \/ GetCall("get_all", 1)
             \/ GetRefuse \/ GetAdmit \/ Copy \/ ClearCall
    <2>1. UNCHANGED <<read_counter, write_counter, accepted, delivered>>
      BY <1>5 DEF GetCall, GetRefuse, GetAdmit, Copy, GetCopy, ClearCall
    <2> QED  BY <2>1, FifoStutter
  <1>6. CASE UNCHANGED vars
    <2>1. UNCHANGED <<read_counter, write_counter, accepted, delivered>>
      BY <1>6 DEF vars
    <2> QED  BY <2>1, FifoStutter
  <1> QED  BY <1>1, <1>2, <1>3, <1>4, <1>5, <1>6 DEF Next, Put, Get, Clear

\* SharedMemoryQueue implements the bounded FIFO channel of FifoQueue, for
\* every buffer size, request format and number of requests.
THEOREM Implements == Spec => FifoSpec
  <1>1. Init => Fifo!Init  BY FifoInit
  <1>2. IInv /\ [Next]_vars => [Fifo!Next]_<<Unread, delivered>>  BY FifoNext
  <1> QED  BY <1>1, <1>2, Invariance, PTL DEF Spec, FifoSpec, Fifo!Spec
=============================================================================
