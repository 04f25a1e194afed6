-------------------------- MODULE ShmRingBufferProofs --------------------------
(***************************************************************************)
(* The slots of the ring buffer for any size, period, budget and lateness: *)
(* what a slot holds (PublishedIntact), what put's look at an old          *)
(* timestamp buys (LookaheadUntouched, SafeShortRead) and what a loop that *)
(* keeps its schedule buys (NeverTooFast, SafeRead).                       *)
(*                                                                         *)
(* Positions p count slots without wrapping: the slot of position p, in    *)
(* a window of BufferSize positions that starts at counter, holds state    *)
(* number p - BufferSize + 1.  The window moves on while put writes.  The  *)
(* heart of the proof is Fresh: the window has not left the oldest         *)
(* position a reader asked for.  While that is so everything it copied is  *)
(* intact (Copied); both guards of the code are shown to imply Fresh.      *)
(***************************************************************************)
EXTENDS ShmRingBuffer, TLAPS

Busy == IF wpc \in {"writing", "stamped"} THEN 1 ELSE 0
Stamped == IF wpc = "stamped" THEN 1 ELSE 0
Spots == 0 .. GetMaxK - 1

TypeOK ==
  /\ lateness \in Latenesses /\ now \in Nat /\ counter \in Nat
  /\ shared_arrays \in [Fields -> [Index -> Nat]]
  /\ timestamp_array \in [Index -> Int]
  /\ wpc \in {"idle", "sleeping", "writing", "stamped", "dead"}
  /\ w_wake \in Int /\ w_todo \subseteq Fields
  /\ wpc = "stamped" => w_todo = {}
  /\ rpc \in {"idle", "called", "copying"} /\ r_single \in BOOLEAN
  /\ r_k \in 0 .. GetMaxK /\ r_start \in Nat /\ r_count \in Nat
  /\ r_todo \subseteq Fields \X Spots
  /\ out \in [Fields -> [Spots -> Nat]]

Held(p) == IF p >= BufferSize THEN p - BufferSize + 1 ELSE Unwritten

Content ==
  /\ \A p \in counter + Busy .. counter + BufferSize - 1, f \in Fields :
       shared_arrays[f][Slot(p)] = Held(p)
  /\ Busy = 1 => \A f \in Fields \ w_todo :
                   shared_arrays[f][NextIdx] = counter + 1

\* The timestamps of the window, oldest first, and none of the future.
Window == counter + Stamped .. counter + Stamped + BufferSize - 1
Ordered ==
  /\ \A p, q \in Window :
       p <= q => timestamp_array[Slot(p)] <= timestamp_array[Slot(q)]
  /\ \A p \in Window : timestamp_array[Slot(p)] <= now
  /\ \A p \in Window : p < BufferSize => timestamp_array[Slot(p)] = LongAgo

\* What put has made sure of before it writes.
Ahead == timestamp_array[Slot(counter + (GetMaxK - 1))]
LookedAhead ==
  /\ wpc = "writing" /\ w_todo = Fields => now - Ahead >= Budget
  /\ wpc = "sleeping" => w_wake = Ahead + Budget

OnTime ==
  OnSchedule =>
    /\ wpc \notin {"dead", "sleeping"} /\ w_wake = 0
    /\ now <= counter * Period + lateness
    /\ Busy = 1 => now >= counter * Period
    /\ counter > 0 => now >= (counter - 1) * Period
    /\ \A p \in Window :
         p >= BufferSize =>
           timestamp_array[Slot(p)] <= (p - BufferSize) * Period + lateness
    /\ rpc = "copying" => r_start <= r_count * Period + lateness

Asked ==
  /\ rpc = "called" => r_start <= now
  /\ rpc \in {"idle", "called"} => r_count = 0 /\ r_todo = {}
  /\ r_single => r_k = 1
  /\ rpc = "copying" =>
       /\ r_start <= now /\ r_count <= counter
       /\ r_single \/ r_k <= r_count
       /\ r_todo \subseteq Fields \X (0 .. r_k - 1)

\* State r_count + 1 may be stamped when counter is read, later ones are not.
StampedSince ==
  rpc = "copying" =>
    \A p \in Window :
      p - BufferSize + 1 >= r_count + 2 => timestamp_array[Slot(p)] >= r_start

Fresh == counter + Busy <= r_count - r_k + BufferSize
Copied == rpc = "copying" /\ Fresh => Intact

ShortFresh ==
  rpc = "copying" /\ r_k + 2 <= GetMaxK /\ now - r_start < Budget => Fresh

IInv ==
  /\ TypeOK /\ Content /\ Ordered /\ LookedAhead /\ OnTime /\ Asked
  /\ StampedSince /\ Copied /\ ShortFresh

-----------------------------------------------------------------------------
(* Remainders.  The modulus is a constant of the specification, so the provers *)
(* need to be led by the defining equation of division.                        *)

\* Division with remainder, and that the remainder is unique.
LEMMA DivMod ==
  ASSUME NEW a \in Nat, NEW B \in Nat \ {0}
  PROVE  /\ a % B \in 0 .. B - 1
         /\ a \div B \in Int
         /\ a = B * (a \div B) + (a % B)
OBVIOUS

LEMMA ModUnique ==
  ASSUME NEW B \in Nat \ {0}, NEW a \in Int, NEW q \in Int, NEW r \in 0 .. B - 1,
         a = B * q + r
  PROVE  a % B = r
OBVIOUS

\* Where a run of fewer than B slots that starts at a % B continues.
LEMMA ModAdd ==
  ASSUME NEW B \in Nat \ {0}, NEW a \in Nat, NEW j \in 0 .. B - 1
  PROVE  (a + j) % B = IF (a % B) + j < B THEN (a % B) + j ELSE (a % B) + j - B
<1> DEFINE q == a \div B
           r == a % B
           s == a + j
<1>1. q \in Int /\ r \in 0 .. B - 1 /\ a = B * q + r
  BY DivMod
<1> HIDE DEF q, r
<1>2. s = B * q + (r + j) /\ s = B * (q + 1) + (r + j - B)
  BY <1>1
<1>3. s \in Int /\ (r + j < B => r + j \in 0 .. B - 1) /\ (r + j >= B => r + j - B \in 0 .. B - 1)
  BY <1>1
<1> HIDE DEF s
<1>4. s % B = IF r + j < B THEN r + j ELSE r + j - B
  <2>1. CASE r + j < B
    <3>1. s % B = r + j
      BY <1>1, <1>2, <1>3, <2>1, ModUnique
    <3> QED
      BY <2>1, <3>1
  <2>2. CASE r + j >= B
    <3> DEFINE t == r + j - B
    <3>1. t \in 0 .. B - 1 /\ q + 1 \in Int /\ s = B * (q + 1) + t
      BY <1>1, <1>2, <1>3, <2>2
    <3> HIDE DEF t
    <3>2. s % B = t
      BY <1>3, <3>1, ModUnique
    <3> QED
      BY <1>1, <2>2, <3>2 DEF t
  <2> QED
    BY <1>1, <2>1, <2>2
<1> QED
  BY <1>4 DEF r, s

\* Two numbers less than B apart have different remainders.
LEMMA ModDistinct ==
  ASSUME NEW B \in Nat \ {0}, NEW a \in Nat, NEW b \in Nat, a < b, b < a + B
  PROVE  a % B # b % B
<1> DEFINE j == b - a
           r == a % B
<1>1. j \in 0 .. B - 1 /\ j # 0 /\ b = a + j /\ r \in 0 .. B - 1
  BY DivMod
<1>2. (a + j) % B = IF r + j < B THEN r + j ELSE r + j - B
  BY <1>1, ModAdd
<1> HIDE DEF j, r
<1> QED
  BY <1>1, <1>2 DEF r

-----------------------------------------------------------------------------
(* The size of the buffer and the slots of positions *)

LEMMA SizeType == Margin \in Nat /\ BufferSize \in Nat \ {0} /\ BufferSize = Margin + GetMaxK
<1> DEFINE a == 3 * Budget + 2 * Period - 1
           b == 2 * Period
<1>1. a \in Nat /\ b \in Nat \ {0}
  BY RingAssumption
<1>2. a \div b \in Int /\ a = b * (a \div b) + (a % b) /\ a % b \in 0 .. b - 1
  BY <1>1, DivMod
<1> HIDE DEF a, b
<1>3. a \div b >= 0
  <2>1. CASE a \div b <= 0 - 1
    <3>1. b * (a \div b) <= 0 - b
      BY <1>1, <1>2, <2>1
    <3> QED BY <1>1, <1>2, <3>1
  <2> QED BY <1>2, <2>1
<1>4. Margin = a \div b
  BY DEF Margin, a, b
<1> QED BY <1>2, <1>3, <1>4, RingAssumption DEF BufferSize

LEMMA SlotFacts ==
  /\ \A p \in Nat : Slot(p) \in Index
  /\ \A p, q \in Nat : p < q /\ q < p + BufferSize => Slot(p) # Slot(q)
  /\ \A p \in Nat : Slot(p + BufferSize) = Slot(p)
<1>1. \A p \in Nat : Slot(p) \in Index
  BY SizeType, DivMod DEF Slot, Index
<1>2. \A p, q \in Nat : p < q /\ q < p + BufferSize => Slot(p) # Slot(q)
  BY SizeType, ModDistinct DEF Slot
<1>3. ASSUME NEW p \in Nat PROVE Slot(p + BufferSize) = Slot(p)
  <2> DEFINE B == BufferSize
             d == p \div B
             r == p % B
  <2>1. p = B * d + r /\ d \in Int /\ r \in 0 .. B - 1 /\ B \in Nat \ {0}
    BY SizeType, DivMod
  <2> HIDE DEF B, d, r
  <2>2. p + B = B * (d + 1) + r /\ d + 1 \in Int /\ p + B \in Nat
    BY <2>1
  <2>3. (p + B) % B = r
    BY <2>1, <2>2, ModUnique
  <2> QED BY <2>3 DEF B, r, Slot
<1> QED BY <1>1, <1>2, <1>3

\* The slot i places after a slot.
LEMMA SlotAfter ==
  ASSUME NEW p \in Nat, NEW i \in 0 .. BufferSize - 1
  PROVE  Slot(Slot(p) + i) = Slot(p + i)
<1> DEFINE B == BufferSize
           r == p % B
<1>1. B \in Nat \ {0} /\ r \in 0 .. B - 1 /\ i \in 0 .. B - 1
  BY SizeType, DivMod
<1>2. r % B = r
  <2>1. r \in Nat /\ r = B * 0 + r
    BY <1>1
  <2> QED BY <1>1, <2>1, ModUnique
<1>3. (p + i) % B = IF r + i < B THEN r + i ELSE r + i - B
  BY <1>1, ModAdd
<1>4. (r + i) % B = IF (r % B) + i < B THEN (r % B) + i ELSE (r % B) + i - B
  <2>1. r \in Nat
    BY <1>1
  <2> QED BY <1>1, <2>1, ModAdd
<1> QED BY <1>2, <1>3, <1>4 DEF Slot

\* The lookahead slot, by position.
LEMMA LookaheadSlot ==
  ASSUME counter \in Nat
  PROVE  TimestampLookaheadIdx = Slot(counter + (GetMaxK - 1))
<1>1. GetMaxK - 1 \in 0 .. BufferSize - 1 /\ NextIdx \in Nat
  <2>1. Slot(counter) \in Index
    BY SlotFacts
  <2> QED BY <2>1, SizeType, RingAssumption DEF Index, NextIdx
<1>2. NextIdx + GetMaxK - 1 = NextIdx + (GetMaxK - 1)
  BY <1>1, RingAssumption
<1>3. Slot(Slot(counter) + (GetMaxK - 1)) = Slot(counter + (GetMaxK - 1))
  BY <1>1, SlotAfter
<1> QED BY <1>2, <1>3 DEF TimestampLookaheadIdx, NextIdx

\* Where get copies position j of its result from, for a count c of states.  With
\* no state at all, get takes the last slot.
LEMMA SourceSlot ==
  ASSUME NEW c \in Nat, NEW k \in 1 .. GetMaxK, NEW j \in 0 .. k - 1, k <= c \/ k = 1
  PROVE  SourceIdx(Slot(c - 1), k, j) = Slot(c - k + j + BufferSize)
<1> DEFINE B == BufferSize
           p == c - k + j + B
           d == k - 1 - j
<1>1. B \in Nat \ {0} /\ k <= B /\ d \in 0 .. B - 1 /\ p \in Nat /\ p + d = (c - 1) + B
  BY SizeType, RingAssumption
<1>2. Slot(c - 1) = Slot(p + d)
  <2>1. CASE c >= 1
    <3>1. c - 1 \in Nat
      BY <2>1
    <3> QED BY <1>1, <3>1, SlotFacts
  <2>2. CASE c = 0
    <3>1. Slot(0 - 1) = B - 1
      <4>1. B - 1 \in 0 .. B - 1 /\ 0 - 1 = B * (0 - 1) + (B - 1)
        BY <1>1
      <4> QED BY <1>1, <4>1, ModUnique DEF Slot
    <3>2. (B - 1) % B = B - 1
      <4>1. B - 1 \in Nat /\ B - 1 = B * 0 + (B - 1) /\ B - 1 \in 0 .. B - 1
        BY <1>1
      <4> QED BY <1>1, <4>1, ModUnique
    <3>3. p + d = B - 1
      BY <1>1, <2>2
    <3> QED BY <2>2, <3>1, <3>2, <3>3 DEF Slot
  <2> QED BY <2>1, <2>2
<1>3. Slot(p) \in 0 .. B - 1
  BY <1>1, SlotFacts DEF Index
<1>4. Slot(p + d) = IF Slot(p) + d < B THEN Slot(p) + d ELSE Slot(p) + d - B
  BY <1>1, ModAdd DEF Slot
<1> HIDE DEF B, p, d
<1> DEFINE i == Slot(c - 1)
           s == Slot(p)
<1>5. i = IF s + d < B THEN s + d ELSE s + d - B
  BY <1>2, <1>4
<1>6. /\ s \in 0 .. B - 1 /\ d = k - 1 - j /\ k \in 1 .. B /\ j \in 0 .. k - 1
      /\ B \in Nat
  BY <1>1, <1>3 DEF d
<1> HIDE DEF i, s
<1>7. SourceIdx(i, k, j)
        = IF i + 1 - k >= 0 THEN i + 1 - k + j
          ELSE IF j >= k - (i + 1) THEN j - (k - (i + 1)) ELSE B - (k - (i + 1)) + j
  <2>1. i \in 0 .. B - 1
    BY <1>5, <1>6
  <2>2. CASE i + 1 - k >= 0
    BY <1>6, <2>1, <2>2 DEF SourceIdx, B
  <2>3. CASE ~(i + 1 - k >= 0)
    BY <1>6, <2>1, <2>3 DEF SourceIdx, B
  <2> QED BY <2>2, <2>3
<1>8. SourceIdx(i, k, j) = s
  BY <1>5, <1>6, <1>7
<1> QED BY <1>8 DEF i, s, p, B

-----------------------------------------------------------------------------
(* Who changes what *)

LEMMA ReadOnly ==
  ASSUME Read
  PROVE  UNCHANGED <<lateness, now, counter, shared_arrays, timestamp_array, writer>>
BY DEF Read, Get, GetLastK, GetAll, Call, GetAssertionError, GetEnd, GetLoad, Copy, GetCopy,
       GetReturn, GetTimeoutError

LEMMA WriteOnly ==
  ASSUME Put \/ Tick
  PROVE  UNCHANGED <<lateness, reader>>
BY DEF Put, PutCall, PutSleep, PutTimeoutError, PutWake, Write, PutWrite, PutStamp, PutCommit,
       Tick

\* The steps of put by what they do to the window: they may open a slot, write a field,
\* stamp the slot, move on, or nothing of these.
Opens == PutCall \/ PutWake
Pauses == PutSleep \/ PutTimeoutError \/ Tick

LEMMA Moves ==
  ASSUME IInv, [Next]_vars
  PROVE  \/ Opens \/ Pauses \/ Write \/ PutStamp \/ PutCommit \/ Read \/ UNCHANGED vars
BY DEF Next, Put, Opens, Pauses

LEMMA InitIInv == Init => IInv
<1> SUFFICES ASSUME Init PROVE IInv
  OBVIOUS
<1>1. counter = 0 /\ Busy = 0 /\ Stamped = 0 /\ now = 0 /\ wpc = "idle" /\ rpc = "idle"
  BY DEF Init, Busy, Stamped
<1>2. TypeOK
  <2>1. LongAgo \in Int /\ Latenesses \subseteq Nat
    BY RingAssumption DEF LongAgo
  <2>2. /\ shared_arrays \in [Fields -> [Index -> Nat]] /\ timestamp_array \in [Index -> Int]
        /\ out \in [Fields -> [Spots -> Nat]]
    BY <2>1 DEF Init, Unwritten, Spots
  <2>3. /\ lateness \in Latenesses /\ w_todo = {} /\ r_todo = {} /\ r_single \in BOOLEAN
        /\ r_k \in 0 .. GetMaxK /\ r_start \in Nat /\ r_count \in Nat /\ w_wake \in Int
    <3>1. GetMaxK \in Nat
      BY RingAssumption
    <3>2. lateness \in Latenesses /\ w_todo = {} /\ r_todo = {} /\ r_single = FALSE
      BY DEF Init
    <3>3. r_k = 0 /\ r_start = 0 /\ r_count = 0 /\ w_wake = 0
      BY DEF Init
    <3>4. r_single \in BOOLEAN
      BY <3>2
    <3>5. r_k \in 0 .. GetMaxK /\ r_start \in Nat /\ r_count \in Nat /\ w_wake \in Int
      BY <3>1, <3>3
    <3> QED BY <3>2, <3>4, <3>5
  <2> QED BY <1>1, <2>2, <2>3 DEF TypeOK
<1>3. Content
  <2> SUFFICES ASSUME NEW p \in counter + Busy .. counter + BufferSize - 1, NEW f \in Fields
               PROVE  shared_arrays[f][Slot(p)] = Held(p)
    BY <1>1 DEF Content
  <2>1. p \in Nat /\ p < BufferSize
    BY <1>1, SizeType
  <2>2. Slot(p) \in Index
    BY <2>1, SlotFacts
  <2> QED BY <2>1, <2>2, SizeType DEF Init, Held
<1>4. Ordered
  <2>1. ASSUME NEW p \in Window PROVE timestamp_array[Slot(p)] = LongAgo
    <3>1. p \in Nat
      BY <1>1, SizeType DEF Window
    <3>2. Slot(p) \in Index
      BY <3>1, SlotFacts
    <3> QED BY <3>2 DEF Init
  <2>2. LongAgo \in Int /\ LongAgo <= 0
    BY RingAssumption DEF LongAgo
  <2> QED BY <1>1, <2>1, <2>2 DEF Ordered
<1>5. LookedAhead
  BY <1>1 DEF LookedAhead
<1>6. OnTime
  <2>1. counter * Period = 0 /\ lateness \in Nat
    BY <1>1, RingAssumption DEF Init
  <2>2. \A p \in Window : ~(p >= BufferSize)
    BY <1>1, SizeType DEF Window
  <2> QED BY <1>1, <2>1, <2>2 DEF OnTime, Init
<1>7. Asked
  BY DEF Init, Asked
<1>8. StampedSince /\ Copied /\ ShortFresh
  BY <1>1 DEF StampedSince, Copied, ShortFresh
<1> QED BY <1>2, <1>3, <1>4, <1>5, <1>6, <1>7, <1>8 DEF IInv

-----------------------------------------------------------------------------
(* A step keeps each part *)

LEMMA TypeStep ==
  ASSUME IInv, [Next]_vars
  PROVE  TypeOK'
<1> USE RingAssumption DEF TypeOK, IInv, writer, reader
<1>1. ASSUME Opens PROVE TypeOK'
  BY <1>1 DEF Opens, PutCall, PutWake
<1>2. ASSUME Pauses PROVE TypeOK'
  <2>1. CASE PutSleep
    <3>1. Slot(counter + (GetMaxK - 1)) \in Index
      BY SlotFacts
    <3>2. w_wake' \in Int
      BY <2>1, <3>1, LookaheadSlot DEF PutSleep
    <3> QED BY <2>1, <3>2 DEF PutSleep
  <2>2. CASE PutTimeoutError
    BY <2>2 DEF PutTimeoutError
  <2>3. CASE Tick
    <3>1. now' \in Nat
      BY <2>3 DEF Tick
    <3> QED BY <2>3, <3>1 DEF Tick
  <2> QED BY <1>2, <2>1, <2>2, <2>3 DEF Pauses
<1>3. ASSUME Write PROVE TypeOK'
  <2>1. PICK f \in Fields : PutWrite(f)
    BY <1>3 DEF Write
  <2>2. NextIdx \in Index /\ counter + 1 \in Nat
    BY SlotFacts DEF NextIdx
  <2>3. shared_arrays' \in [Fields -> [Index -> Nat]]
    BY <2>1, <2>2 DEF PutWrite
  <2> QED BY <2>1, <2>3 DEF PutWrite
<1>4. ASSUME PutStamp PROVE TypeOK'
  <2>1. NextIdx \in Index
    BY SlotFacts DEF NextIdx
  <2> QED BY <1>4, <2>1 DEF PutStamp
<1>5. ASSUME PutCommit PROVE TypeOK'
  BY <1>5 DEF PutCommit
<1>6. ASSUME Read PROVE TypeOK'
  <2>1. CASE Get \/ (\E k \in 0 .. GetMaxK : GetLastK(k)) \/ GetAll
    <3>1. PICK single \in BOOLEAN, k \in 0 .. GetMaxK : Call(single, k)
      <4>1. 1 \in 0 .. GetMaxK /\ (IF counter < GetMaxK THEN counter ELSE GetMaxK) \in 0 .. GetMaxK
        OBVIOUS
      <4> QED BY <2>1, <4>1 DEF Get, GetLastK, GetAll
    <3> QED BY <3>1 DEF Call
  <2>2. CASE GetAssertionError \/ GetReturn \/ GetTimeoutError
    <3>1. GetEnd
      BY <2>2 DEF GetAssertionError, GetReturn, GetTimeoutError
    <3>2. out' \in [Fields -> [Spots -> Nat]]
      BY <3>1 DEF GetEnd, Spots, Unwritten
    <3>3. r_k' \in 0 .. GetMaxK /\ r_start' \in Nat /\ r_count' \in Nat /\ r_todo' = {}
      BY <3>1 DEF GetEnd
    <3> QED BY <3>1, <3>2, <3>3 DEF GetEnd
  <2>3. CASE GetLoad
    <3>1. r_todo' \subseteq Fields \X Spots
      BY <2>3 DEF GetLoad, Spots
    <3> QED BY <2>3, <3>1 DEF GetLoad
  <2>4. ASSUME NEW f \in Fields, NEW j \in Spots, GetCopy(f, j) PROVE TypeOK'
    <3> DEFINE i == SourceIdx(Slot(r_count - 1), r_k, j)
    <3>1. r_k \in 1 .. GetMaxK /\ j \in 0 .. r_k - 1 /\ (r_k <= r_count \/ r_k = 1)
      BY <2>4 DEF GetCopy, Asked, Spots
    <3>2. r_count - r_k + j + BufferSize \in Nat
      BY <3>1, SizeType
    <3>3. i \in Index
      BY <3>1, <3>2, SourceSlot, SlotFacts
    <3> HIDE DEF i
    <3>4. shared_arrays[f][i] \in Nat
      BY <3>3
    <3>5. out' = [out EXCEPT ![f][j] = shared_arrays[f][i]]
      BY <2>4 DEF GetCopy, i
    <3>6. out' \in [Fields -> [Spots -> Nat]]
      BY <3>4, <3>5
    <3> QED BY <2>4, <3>6 DEF GetCopy
  <2> QED BY <1>6, <2>1, <2>2, <2>3, <2>4 DEF Read, Copy, Spots
<1>7. CASE UNCHANGED vars
  BY <1>7 DEF vars
<1> QED BY <1>1, <1>2, <1>3, <1>4, <1>5, <1>6, <1>7, Moves

LEMMA ContentStep ==
  ASSUME IInv, [Next]_vars
  PROVE  Content'
<1>t. /\ counter \in Nat /\ shared_arrays \in [Fields -> [Index -> Nat]]
      /\ w_todo \subseteq Fields /\ Content
      /\ wpc \in {"idle", "sleeping", "writing", "stamped", "dead"}
  BY DEF IInv, TypeOK
<1>1. ASSUME Opens PROVE Content'
  <2>1. /\ UNCHANGED <<counter, shared_arrays>> /\ w_todo' = Fields
        /\ Busy = 0 /\ Busy' = 1
    BY <1>1 DEF Opens, PutCall, PutWake, Busy
  <2>2. \A p \in counter + 1 .. counter + BufferSize - 1 :
          p \in counter + 0 .. counter + BufferSize - 1
    BY <1>t, SizeType
  <2> QED BY <1>t, <2>1, <2>2 DEF Content, Held, NextIdx
<1>2. ASSUME Pauses PROVE Content'
  <2>1. UNCHANGED <<counter, shared_arrays, w_todo, Busy>>
    BY <1>2 DEF Pauses, PutSleep, PutTimeoutError, Tick, Busy, writer
  <2> QED BY <1>t, <2>1 DEF Content, Held, NextIdx
<1>3. ASSUME Write PROVE Content'
  <2>1. PICK g \in Fields : PutWrite(g)
    BY <1>3 DEF Write
  <2>2. /\ counter' = counter /\ w_todo' = w_todo \ {g} /\ Busy = 1 /\ Busy' = 1
        /\ shared_arrays' = [shared_arrays EXCEPT ![g][NextIdx] = counter + 1]
    BY <2>1 DEF PutWrite, Busy
  <2>3. NextIdx = Slot(counter) /\ NextIdx' = NextIdx /\ NextIdx \in Index
    BY <1>t, <2>2, SlotFacts DEF NextIdx
  <2>4. ASSUME NEW p \in counter + 1 .. counter + BufferSize - 1, NEW f \in Fields
        PROVE  shared_arrays'[f][Slot(p)] = Held(p)
    <3>1. p \in Nat /\ counter < p /\ p < counter + BufferSize
      BY <1>t, SizeType
    <3>2. Slot(p) # NextIdx /\ Slot(p) \in Index
      BY <1>t, <2>3, <3>1, SlotFacts
    <3>3. shared_arrays'[f][Slot(p)] = shared_arrays[f][Slot(p)]
      BY <1>t, <2>2, <3>2
    <3> QED BY <1>t, <2>2, <3>3 DEF Content
  <2>5. ASSUME NEW f \in Fields, f \notin w_todo'
        PROVE  shared_arrays'[f][NextIdx] = counter + 1
    <3>1. CASE f = g
      BY <1>t, <2>2, <2>3, <3>1
    <3>2. CASE f # g
      BY <1>t, <2>2, <2>3, <2>5, <3>2 DEF Content
    <3> QED BY <3>1, <3>2
  <2> QED BY <2>2, <2>3, <2>4, <2>5 DEF Content, Held
<1>4. ASSUME PutStamp PROVE Content'
  <2>1. UNCHANGED <<counter, shared_arrays, w_todo, Busy>>
    BY <1>4 DEF PutStamp, Busy
  <2> QED BY <1>t, <2>1 DEF Content, Held, NextIdx
<1>5. ASSUME PutCommit PROVE Content'
  <2>1. /\ counter' = counter + 1 /\ UNCHANGED <<shared_arrays, w_todo>>
        /\ Busy = 1 /\ Busy' = 0 /\ w_todo = {}
    BY <1>5 DEF PutCommit, Busy, IInv, TypeOK
  <2>2. ASSUME NEW p \in counter + 1 .. counter + BufferSize, NEW f \in Fields
        PROVE  shared_arrays[f][Slot(p)] = Held(p)
    <3>1. CASE p = counter + BufferSize
      <4>1. Slot(p) = NextIdx /\ Held(p) = counter + 1
        BY <1>t, <3>1, SlotFacts, SizeType DEF NextIdx, Held
      <4> QED BY <1>t, <2>1, <4>1 DEF Content
    <3>2. CASE p # counter + BufferSize
      <4>1. p \in counter + 1 .. counter + BufferSize - 1
        BY <1>t, <3>2, SizeType
      <4> QED BY <1>t, <2>1, <4>1 DEF Content
    <3> QED BY <3>1, <3>2
  <2>3. /\ (counter + 1) + 0 = counter + 1
        /\ (counter + 1) + BufferSize - 1 = counter + BufferSize
    BY <1>t, SizeType
  <2> QED BY <2>1, <2>2, <2>3 DEF Content, Held
<1>6. CASE Read \/ UNCHANGED vars
  <2>1. UNCHANGED <<counter, shared_arrays, w_todo, wpc>>
    BY <1>6, ReadOnly DEF vars, writer
  <2> QED BY <1>t, <2>1 DEF Content, Held, NextIdx, Busy
<1> QED BY <1>1, <1>2, <1>3, <1>4, <1>5, <1>6, Moves

LEMMA OrderedStep ==
  ASSUME IInv, [Next]_vars
  PROVE  Ordered'
<1>t. /\ counter \in Nat /\ now \in Nat /\ timestamp_array \in [Index -> Int] /\ Ordered
      /\ wpc \in {"idle", "sleeping", "writing", "stamped", "dead"}
  BY DEF IInv, TypeOK
<1>w. \A p \in Window : p \in Nat
  BY <1>t, SizeType DEF Window, Stamped
<1>1. CASE Opens \/ Pauses \/ Write \/ Read \/ UNCHANGED vars
  <2>1. UNCHANGED <<counter, timestamp_array, Stamped>> /\ now' \in Nat /\ now <= now'
    <3>1. CASE Opens
      BY <1>t, <3>1 DEF Opens, PutCall, PutWake, Stamped
    <3>2. CASE Pauses
      <4>1. CASE PutSleep \/ PutTimeoutError
        <5>1. UNCHANGED <<now, counter, timestamp_array>>
          BY <4>1 DEF PutSleep, PutTimeoutError
        <5>2. wpc = "idle" /\ wpc' \in {"sleeping", "dead"}
          BY <4>1 DEF PutSleep, PutTimeoutError
        <5> QED BY <1>t, <5>1, <5>2 DEF Stamped
      <4>2. CASE Tick
        BY <1>t, <4>2 DEF Tick, Stamped, writer
      <4> QED BY <3>2, <4>1, <4>2 DEF Pauses
    <3>3. CASE Write
      BY <1>t, <3>3 DEF Write, PutWrite, Stamped
    <3>4. CASE Read \/ UNCHANGED vars
      BY <1>t, <3>4, ReadOnly DEF Stamped, writer, vars
    <3> QED BY <1>1, <3>1, <3>2, <3>3, <3>4
  <2>2. \A p \in Window : timestamp_array[Slot(p)] \in Int
    BY <1>t, <1>w, SlotFacts
  <2>3. \A p \in Window : timestamp_array[Slot(p)] <= now'
    BY <1>t, <2>1, <2>2 DEF Ordered
  <2> QED BY <1>t, <2>1, <2>3 DEF Ordered, Window, LongAgo
<1>2. CASE PutStamp
  <2>1. /\ UNCHANGED <<counter, now>> /\ Stamped = 0 /\ Stamped' = 1
        /\ timestamp_array' = [timestamp_array EXCEPT ![Slot(counter)] = now]
    BY <1>2 DEF PutStamp, Stamped, NextIdx
  <2>2. ASSUME NEW p \in Window'
        PROVE  \/ p = counter + BufferSize /\ timestamp_array'[Slot(p)] = now
               \/ p \in Window /\ timestamp_array'[Slot(p)] = timestamp_array[Slot(p)]
    <3>1. p \in counter + 1 .. counter + BufferSize
      BY <1>t, <2>1, SizeType DEF Window
    <3>2. CASE p = counter + BufferSize
      <4>1. Slot(p) = Slot(counter) /\ Slot(counter) \in Index
        BY <1>t, <3>2, SlotFacts
      <4> QED BY <1>t, <2>1, <3>2, <4>1
    <3>3. CASE p # counter + BufferSize
      <4>1. p \in Nat /\ counter < p /\ p < counter + BufferSize
        BY <1>t, <3>1, <3>3, SizeType
      <4>2. Slot(p) # Slot(counter) /\ Slot(p) \in Index
        BY <1>t, <4>1, SlotFacts
      <4>3. p \in Window
        BY <1>t, <2>1, <4>1, SizeType DEF Window
      <4> QED BY <1>t, <2>1, <4>2, <4>3
    <3> QED BY <3>2, <3>3
  <2>3. \A p \in Window : p < counter + BufferSize
    BY <1>t, <2>1, SizeType DEF Window
  <2>4. counter + BufferSize >= BufferSize /\ BufferSize \in Nat /\ now <= now
    BY <1>t, SizeType
  <2>5. ASSUME NEW p \in Window', NEW q \in Window', p <= q
        PROVE  timestamp_array'[Slot(p)] <= timestamp_array'[Slot(q)]
    <3>1. CASE q = counter + BufferSize /\ timestamp_array'[Slot(q)] = now
      <4>1. timestamp_array'[Slot(p)] <= now
        BY <1>t, <2>2, <2>4 DEF Ordered
      <4> QED BY <3>1, <4>1
    <3>2. CASE q \in Window /\ timestamp_array'[Slot(q)] = timestamp_array[Slot(q)]
      <4>1. p # counter + BufferSize
        <5>1. q \in Nat /\ q < counter + BufferSize /\ counter + BufferSize \in Nat
          BY <1>t, <1>w, <2>3, <2>4, <3>2
        <5> QED BY <2>5, <5>1
      <4>2. p \in Window /\ timestamp_array'[Slot(p)] = timestamp_array[Slot(p)]
        BY <2>2, <4>1
      <4> QED BY <1>t, <2>5, <3>2, <4>2 DEF Ordered
    <3> QED BY <2>2, <3>1, <3>2
  <2>6. ASSUME NEW p \in Window'
        PROVE  /\ timestamp_array'[Slot(p)] <= now'
               /\ p < BufferSize => timestamp_array'[Slot(p)] = LongAgo
    BY <1>t, <2>1, <2>2, <2>4 DEF Ordered
  <2> QED BY <2>5, <2>6 DEF Ordered, LongAgo
<1>3. CASE PutCommit
  <2>1. /\ counter' = counter + 1 /\ Stamped = 1 /\ Stamped' = 0
        /\ UNCHANGED <<now, timestamp_array>>
    BY <1>3 DEF PutCommit, Stamped
  <2>2. Window' = Window
    <3>1. (counter + 1) + 0 = counter + 1
      BY <1>t
    <3> QED BY <2>1, <3>1 DEF Window
  <2> QED BY <1>t, <2>1, <2>2 DEF Ordered, LongAgo
<1> QED BY <1>1, <1>2, <1>3, Moves

LEMMA LookedAheadStep ==
  ASSUME IInv, [Next]_vars
  PROVE  LookedAhead'
<1>t. /\ counter \in Nat /\ now \in Nat /\ timestamp_array \in [Index -> Int]
      /\ LookedAhead /\ w_todo \subseteq Fields /\ w_wake \in Int
      /\ wpc \in {"idle", "sleeping", "writing", "stamped", "dead"}
      /\ wpc = "stamped" => w_todo = {}
  BY DEF IInv, TypeOK
<1>b. Budget \in Nat \ {0} /\ GetMaxK \in Nat \ {0}
  BY RingAssumption
<1>a. Ahead \in Int /\ Ahead = timestamp_array[TimestampLookaheadIdx]
  <2>1. Slot(counter + (GetMaxK - 1)) \in Index
    BY <1>t, <1>b, SlotFacts
  <2> QED BY <1>t, <2>1, LookaheadSlot DEF Ahead
<1>1. CASE PutCall
  <2>1. wpc' = "writing" /\ UNCHANGED <<now, Ahead>> /\ ~(now - Ahead < Budget)
    BY <1>1, <1>a DEF PutCall, TooFast, Ahead
  <2> QED BY <1>t, <1>a, <1>b, <2>1 DEF LookedAhead
<1>2. CASE PutWake
  <2>1. /\ wpc' = "writing" /\ UNCHANGED <<now, Ahead>> /\ now >= w_wake
        /\ w_wake = Ahead + Budget
    BY <1>2, <1>t DEF PutWake, LookedAhead, Ahead
  <2> QED BY <1>t, <1>a, <1>b, <2>1 DEF LookedAhead
<1>3. CASE PutSleep
  <2>1. wpc' = "sleeping" /\ w_wake' = Ahead + Budget /\ Ahead' = Ahead
    BY <1>3, <1>a DEF PutSleep, Ahead
  <2> QED BY <2>1 DEF LookedAhead
<1>4. CASE PutTimeoutError \/ PutStamp \/ PutCommit
  BY <1>4 DEF PutTimeoutError, PutStamp, PutCommit, LookedAhead
<1>5. CASE Tick
  <2>1. now' = now + 1 /\ UNCHANGED <<wpc, w_todo, w_wake, Ahead>>
    BY <1>5 DEF Tick, writer, Ahead
  <2> QED BY <1>t, <1>a, <1>b, <2>1 DEF LookedAhead
<1>6. CASE Write
  <2>1. PICK f \in Fields : PutWrite(f)
    BY <1>6 DEF Write
  <2>2. wpc' = "writing" /\ w_todo' # Fields
    BY <2>1 DEF PutWrite
  <2> QED BY <2>2 DEF LookedAhead
<1>7. CASE Read \/ UNCHANGED vars
  <2>1. UNCHANGED <<now, wpc, w_todo, w_wake, Ahead>>
    BY <1>7, ReadOnly DEF vars, writer, Ahead
  <2> QED BY <1>t, <2>1 DEF LookedAhead
<1> QED BY <1>1, <1>2, <1>3, <1>4, <1>5, <1>6, <1>7, Moves DEF Opens, Pauses

LEMMA AskedStep ==
  ASSUME IInv, [Next]_vars
  PROVE  Asked'
<1>t. /\ counter \in Nat /\ now \in Nat /\ r_start \in Nat /\ r_count \in Nat /\ Asked
      /\ r_single \in BOOLEAN /\ r_k \in 0 .. GetMaxK
      /\ rpc \in {"idle", "called", "copying"}
  BY DEF IInv, TypeOK
<1>1. CASE Put \/ Tick \/ UNCHANGED vars
  <2>1. UNCHANGED reader
    BY <1>1, WriteOnly DEF vars
  <2>2. now' \in Nat /\ now <= now' /\ counter' \in Nat /\ counter <= counter'
    <3>1. CASE Put
      <4>1. now' = now /\ (counter' = counter \/ counter' = counter + 1)
        BY <3>1 DEF Put, PutCall, PutSleep, PutTimeoutError, PutWake, Write, PutWrite,
                    PutStamp, PutCommit
      <4> QED BY <1>t, <4>1
    <3>2. CASE Tick \/ UNCHANGED vars
      BY <1>t, <3>2 DEF Tick, vars
    <3> QED BY <1>1, <3>1, <3>2
  <2> QED BY <1>t, <2>1, <2>2 DEF Asked, reader
<1>2. CASE Read
  <2>1. counter' = counter /\ now' = now
    BY <1>2, ReadOnly
  <2>2. ASSUME NEW single, NEW k, single => k = 1, Call(single, k) PROVE Asked'
    BY <1>t, <2>1, <2>2 DEF Call, Asked
  <2>3. CASE GetAssertionError \/ GetReturn \/ GetTimeoutError
    <3>1. GetEnd
      BY <2>3 DEF GetAssertionError, GetReturn, GetTimeoutError
    <3> QED BY <3>1 DEF GetEnd, Asked
  <2>4. CASE GetLoad
    BY <1>t, <2>1, <2>4 DEF GetLoad, Asked
  <2>5. CASE Copy
    <3>1. UNCHANGED <<rpc, r_single, r_k, r_start, r_count>> /\ r_todo' \subseteq r_todo
          /\ rpc = "copying"
      BY <2>5 DEF Copy, GetCopy
    <3> QED BY <1>t, <2>1, <3>1 DEF Asked
  <2> QED BY <1>2, <2>2, <2>3, <2>4, <2>5 DEF Read, Get, GetLastK, GetAll
<1> QED BY <1>1, <1>2 DEF Next

LEMMA StampedSinceStep ==
  ASSUME IInv, [Next]_vars
  PROVE  StampedSince'
<1>t. /\ counter \in Nat /\ now \in Nat /\ timestamp_array \in [Index -> Int]
      /\ r_start \in Nat /\ r_count \in Nat /\ StampedSince /\ Asked
      /\ wpc \in {"idle", "sleeping", "writing", "stamped", "dead"}
      /\ rpc \in {"idle", "called", "copying"}
  BY DEF IInv, TypeOK
<1>1. CASE PutStamp
  <2>1. /\ UNCHANGED <<counter, rpc, r_start, r_count>> /\ Stamped = 0 /\ Stamped' = 1
        /\ timestamp_array' = [timestamp_array EXCEPT ![Slot(counter)] = now]
    BY <1>1 DEF PutStamp, Stamped, NextIdx, reader
  <2>2. ASSUME NEW p \in Window', rpc = "copying", p - BufferSize + 1 >= r_count + 2
        PROVE  timestamp_array'[Slot(p)] >= r_start
    <3>1. p \in counter + 1 .. counter + BufferSize
      BY <1>t, <2>1, SizeType DEF Window
    <3>2. CASE p = counter + BufferSize
      <4>1. Slot(p) = Slot(counter) /\ Slot(counter) \in Index
        BY <1>t, <3>2, SlotFacts
      <4> QED BY <1>t, <2>1, <2>2, <4>1 DEF Asked
    <3>3. CASE p # counter + BufferSize
      <4>1. p \in Nat /\ counter < p /\ p < counter + BufferSize
        BY <1>t, <3>1, <3>3, SizeType
      <4>2. Slot(p) # Slot(counter) /\ Slot(p) \in Index
        BY <1>t, <4>1, SlotFacts
      <4>3. p \in Window
        BY <1>t, <2>1, <4>1, SizeType DEF Window
      <4>4. timestamp_array'[Slot(p)] = timestamp_array[Slot(p)]
        BY <1>t, <2>1, <4>2
      <4> QED BY <1>t, <2>2, <4>3, <4>4 DEF StampedSince
    <3> QED BY <3>2, <3>3
  <2> QED BY <2>1, <2>2 DEF StampedSince
<1>2. CASE PutCommit
  <2>1. /\ counter' = counter + 1 /\ Stamped = 1 /\ Stamped' = 0
        /\ UNCHANGED <<timestamp_array, rpc, r_start, r_count>>
    BY <1>2 DEF PutCommit, Stamped, reader
  <2>2. Window' = Window
    <3>1. (counter + 1) + 0 = counter + 1
      BY <1>t
    <3> QED BY <2>1, <3>1 DEF Window
  <2> QED BY <1>t, <2>1, <2>2 DEF StampedSince
<1>3. CASE Opens \/ Pauses \/ Write \/ UNCHANGED vars
  <2>1. UNCHANGED <<counter, timestamp_array, Stamped, rpc, r_start, r_count>>
    BY <1>3 DEF Opens, PutCall, PutWake, Pauses, PutSleep, PutTimeoutError, Tick, Write, PutWrite,
                Stamped, reader, writer, vars
  <2> QED BY <1>t, <2>1 DEF StampedSince, Window
<1>4. CASE Read
  <2>1. UNCHANGED <<counter, timestamp_array, Stamped>>
    BY <1>4, ReadOnly DEF Stamped, writer
  <2>2. CASE GetLoad
    <3>1. r_count' = counter
      BY <2>2 DEF GetLoad
    <3>2. \A p \in Window : ~(p - BufferSize + 1 >= counter + 2)
      BY <1>t, SizeType DEF Window, Stamped
    <3> QED BY <2>1, <3>1, <3>2 DEF StampedSince, Window
  <2>3. CASE Copy
    <3>1. UNCHANGED <<rpc, r_start, r_count>>
      BY <2>3 DEF Copy, GetCopy
    <3> QED BY <1>t, <2>1, <3>1 DEF StampedSince, Window
  <2>4. CASE Read /\ ~GetLoad /\ ~Copy
    <3>1. rpc' # "copying"
      BY <2>4 DEF Read, Get, GetLastK, GetAll, Call, GetAssertionError, GetReturn,
                  GetTimeoutError, GetEnd
    <3> QED BY <3>1 DEF StampedSince
  <2> QED BY <1>4, <2>2, <2>3, <2>4
<1> QED BY <1>1, <1>2, <1>3, <1>4, Moves

\* A window that has left the oldest position asked for does not come back to it.
LEMMA FreshBefore ==
  ASSUME IInv, Put \/ Tick, Fresh'
  PROVE  Fresh
<1>1. /\ counter \in Nat /\ r_count \in Nat /\ r_k \in Nat
      /\ wpc \in {"idle", "sleeping", "writing", "stamped", "dead"}
  BY RingAssumption DEF IInv, TypeOK
<1>2. r_count' = r_count /\ r_k' = r_k
  BY WriteOnly DEF reader
<1>3. counter + Busy \in Nat /\ r_count - r_k + BufferSize \in Int
  BY <1>1, SizeType DEF Busy
<1>4. CASE PutCommit
  <2>1. counter' = counter + 1 /\ Busy = 1 /\ Busy' = 0
    BY <1>4 DEF PutCommit, Busy
  <2>2. (counter + 1) + 0 <= r_count - r_k + BufferSize
    BY <1>2, <2>1 DEF Fresh
  <2> QED BY <1>1, <1>3, <2>1, <2>2 DEF Fresh
<1>5. CASE ~PutCommit
  <2>1. /\ counter' = counter
        /\ \/ wpc' = wpc \/ wpc \in {"idle", "sleeping"}
           \/ wpc = "writing" /\ wpc' = "stamped"
    BY <1>5 DEF Put, PutCall, PutSleep, PutTimeoutError, PutWake, Write, PutWrite, PutStamp, Tick,
                writer
  <2>2. Busy' = Busy \/ (Busy = 0 /\ Busy' \in {0, 1})
    BY <2>1 DEF Busy
  <2>3. CASE Busy' = Busy
    BY <1>2, <2>1, <2>3 DEF Fresh
  <2>4. CASE Busy = 0 /\ Busy' \in {0, 1}
    <3>1. counter + 0 <= r_count - r_k + BufferSize \/ counter + 1 <= r_count - r_k + BufferSize
      BY <1>2, <2>1, <2>4 DEF Fresh
    <3> QED BY <1>1, <1>3, <2>4, <3>1 DEF Fresh
  <2> QED BY <2>2, <2>3, <2>4
<1> QED BY <1>4, <1>5

LEMMA CopiedStep ==
  ASSUME IInv, [Next]_vars
  PROVE  Copied'
<1>t. /\ counter \in Nat /\ shared_arrays \in [Fields -> [Index -> Nat]]
      /\ r_count \in Nat /\ r_k \in 0 .. GetMaxK /\ Copied /\ Content /\ Asked
      /\ r_todo \subseteq Fields \X Spots /\ out \in [Fields -> [Spots -> Nat]]
      /\ r_single \in BOOLEAN
      /\ rpc \in {"idle", "called", "copying"}
  BY DEF IInv, TypeOK
<1>1. CASE Put \/ Tick
  <2>1. UNCHANGED <<rpc, out, r_todo, r_k, r_count>>
    BY <1>1, WriteOnly DEF reader
  <2> QED BY <1>1, <1>t, <2>1, FreshBefore DEF Copied, Intact, Wanted
<1>2. CASE UNCHANGED vars
  BY <1>t, <1>2 DEF vars, reader, writer, Copied, Fresh, Busy, Intact, Wanted
<1>3. CASE Read
  <2>1. UNCHANGED <<counter, shared_arrays, Busy>>
    BY <1>3, ReadOnly DEF Busy, writer
  <2>2. CASE GetLoad
    <3>1. r_todo' = Fields \X (0 .. r_k' - 1)
      BY <2>2 DEF GetLoad
    <3> QED BY <3>1 DEF Copied, Intact
  <2>3. ASSUME NEW g \in Fields, NEW i \in Spots, GetCopy(g, i) PROVE Copied'
    <3> DEFINE s == SourceIdx(Slot(r_count - 1), r_k, i)
               p == r_count - r_k + i + BufferSize
    <3>1. /\ UNCHANGED <<rpc, r_single, r_k, r_count>> /\ rpc = "copying"
          /\ r_todo' = r_todo \ {<<g, i>>} /\ <<g, i>> \in r_todo
          /\ out' = [out EXCEPT ![g][i] = shared_arrays[g][s]]
      BY <2>3 DEF GetCopy
    <3>2. /\ r_k \in 1 .. GetMaxK /\ i \in 0 .. r_k - 1 /\ (r_k <= r_count \/ r_k = 1)
          /\ r_count <= counter
      BY <1>t, <3>1 DEF Asked, Spots
    <3>3. s = Slot(p) /\ p \in Nat /\ p < counter + BufferSize
      <4>1. s = Slot(p)
        BY <1>t, <3>2, SourceSlot
      <4>2. p \in Nat /\ p < counter + BufferSize
        <5>1. r_count - r_k + i + 1 <= r_count /\ r_count - r_k + i + 1 >= 0
          BY <1>t, <3>2
        <5>2. BufferSize \in Nat /\ BufferSize >= 1
          BY SizeType
        <5>3. r_count \in Nat /\ counter \in Nat /\ r_k \in Int /\ i \in Int /\ r_count <= counter
          BY <1>t, <3>2
        <5> HIDE DEF s
        <5> QED BY <5>1, <5>2, <5>3
      <4> QED BY <4>1, <4>2
    <3>4. ASSUME Fresh PROVE out'[g][i] = Wanted(i)
      <4>1. p \in counter + Busy .. counter + BufferSize - 1
        BY <1>t, <3>2, <3>3, <3>4, SizeType DEF Fresh, Busy
      <4>2. shared_arrays[g][s] = Held(p)
        BY <1>t, <3>3, <4>1 DEF Content
      <4>3. Held(p) = Wanted(i)
        <5>1. CASE r_count - r_k + i >= 0
          <6>1. p >= BufferSize /\ p - BufferSize + 1 = r_count - r_k + 1 + i
            BY <1>t, <3>2, <5>1, SizeType
          <6> QED BY <6>1 DEF Held, Wanted
        <5>2. CASE ~(r_count - r_k + i >= 0)
          <6>1. ~(p >= BufferSize) /\ r_count - r_k + 1 + i = 0
            BY <1>t, <3>2, <5>2, SizeType
          <6> QED BY <6>1 DEF Held, Wanted, Unwritten
        <5> QED BY <5>1, <5>2
      <4>4. out'[g][i] = shared_arrays[g][s]
        BY <1>t, <3>1
      <4> QED BY <4>2, <4>3, <4>4
    <3>5. ASSUME Fresh, NEW f \in Fields, NEW j \in 0 .. r_k - 1, <<f, j>> \notin r_todo'
          PROVE  out'[f][j] = Wanted(j)
      <4>1. CASE f = g /\ j = i
        BY <3>4, <3>5, <4>1
      <4>2. CASE ~(f = g /\ j = i)
        <5>1. <<f, j>> \notin r_todo /\ j \in Spots
          <6>1. <<f, j>> # <<g, i>>
            BY <4>2
          <6>2. j \in Spots
            <7>1. r_k \in 0 .. GetMaxK /\ GetMaxK \in Nat
              BY <1>t, RingAssumption
            <7> QED BY <7>1 DEF Spots
          <6> QED BY <3>1, <3>5, <6>1, <6>2
        <5>2. out'[f][j] = out[f][j]
          BY <1>t, <3>1, <4>2, <5>1
        <5>3. out[f][j] = Wanted(j)
          BY <1>t, <3>1, <3>5, <5>1 DEF Copied, Intact
        <5> QED BY <5>2, <5>3
      <4> QED BY <4>1, <4>2
    <3> QED BY <2>1, <3>1, <3>5 DEF Copied, Fresh, Intact, Wanted
  <2>4. CASE Read /\ ~GetLoad /\ ~Copy
    <3>1. rpc' # "copying"
      BY <2>4 DEF Read, Get, GetLastK, GetAll, Call, GetAssertionError, GetReturn,
                  GetTimeoutError, GetEnd
    <3> QED BY <3>1 DEF Copied
  <2> QED BY <1>3, <2>2, <2>3, <2>4 DEF Copy, Spots
<1> QED BY <1>1, <1>2, <1>3 DEF Next

LEMMA ShortFreshStep ==
  ASSUME IInv, [Next]_vars
  PROVE  ShortFresh'
<1>t. /\ counter \in Nat /\ now \in Nat /\ timestamp_array \in [Index -> Int]
      /\ r_count \in Nat /\ r_k \in 0 .. GetMaxK /\ r_start \in Nat /\ w_wake \in Int
      /\ ShortFresh /\ StampedSince /\ LookedAhead /\ Asked
      /\ wpc \in {"idle", "sleeping", "writing", "stamped", "dead"}
  BY DEF IInv, TypeOK
<1>b. /\ Budget \in Nat \ {0} /\ GetMaxK \in Nat \ {0} /\ Margin \in Nat
      /\ BufferSize \in Nat \ {0} /\ BufferSize = Margin + GetMaxK
  BY RingAssumption, SizeType
<1>1. ASSUME Opens PROVE ShortFresh'
  <2>1. /\ UNCHANGED <<counter, now, reader>> /\ wpc \in {"idle", "sleeping"}
        /\ wpc' = "writing"
    BY <1>1 DEF Opens, PutCall, PutWake
  <2>2. Busy = 0 /\ Busy' = 1 /\ Stamped = 0
    BY <2>1 DEF Busy, Stamped
  <2>3. Ahead \in Int /\ now - Ahead >= Budget
    <3>1. Ahead \in Int /\ Ahead = timestamp_array[TimestampLookaheadIdx]
      <4>1. Slot(counter + (GetMaxK - 1)) \in Index
        BY <1>t, <1>b, SlotFacts
      <4> QED BY <1>t, <4>1, LookaheadSlot DEF Ahead
    <3>2. CASE PutCall
      BY <1>t, <1>b, <3>1, <3>2 DEF PutCall, TooFast
    <3>3. CASE PutWake
      BY <1>t, <1>b, <3>1, <3>3 DEF PutWake, LookedAhead
    <3> QED BY <1>1, <3>1, <3>2, <3>3 DEF Opens
  <2>4. ASSUME rpc = "copying", r_k + 2 <= GetMaxK, now - r_start < Budget
        PROVE  counter + 1 <= r_count - r_k + BufferSize
    <3>1. counter <= r_count - r_k + BufferSize
      BY <1>t, <2>2, <2>4 DEF ShortFresh, Fresh
    <3> SUFFICES ASSUME counter = r_count - r_k + BufferSize PROVE FALSE
      BY <1>t, <1>b, <3>1
    <3> DEFINE p == counter + (GetMaxK - 1)
    <3>2. p \in Window
      BY <1>t, <1>b, <2>2 DEF Window
    <3>3. p - BufferSize + 1 >= r_count + 2
      BY <1>t, <1>b, <2>4
    <3>4. Ahead >= r_start
      BY <1>t, <2>4, <3>2, <3>3 DEF StampedSince, Ahead
    <3> QED BY <1>t, <1>b, <2>3, <2>4, <3>4
  <2> QED BY <2>1, <2>2, <2>4 DEF ShortFresh, Fresh, reader
<1>2. CASE PutCommit
  <2>1. /\ counter' = counter + 1 /\ Busy = 1 /\ Busy' = 0 /\ UNCHANGED <<now, reader>>
    BY <1>2 DEF PutCommit, Busy
  <2>2. (counter + 1) + 0 = counter + 1
    BY <1>t
  <2> QED BY <1>t, <2>1, <2>2 DEF ShortFresh, Fresh, reader
<1>3. CASE PutSleep \/ PutTimeoutError \/ Write \/ PutStamp
  <2>1. /\ UNCHANGED <<now, counter, reader>>
        /\ \/ wpc = "idle" /\ wpc' \in {"sleeping", "dead"}
           \/ wpc = "writing" /\ wpc' \in {"writing", "stamped"}
    BY <1>3 DEF PutSleep, PutTimeoutError, Write, PutWrite, PutStamp
  <2>2. Busy' = Busy
    BY <2>1 DEF Busy
  <2> QED BY <1>t, <2>1, <2>2 DEF ShortFresh, Fresh, reader
<1>4. CASE Tick
  <2>1. now' = now + 1 /\ UNCHANGED <<counter, Busy, reader>>
    BY <1>4 DEF Tick, Busy, writer
  <2>2. now + 1 - r_start < Budget => now - r_start < Budget
    BY <1>t, <1>b
  <2> QED BY <1>t, <2>1, <2>2 DEF ShortFresh, Fresh, reader
<1>5. CASE Read
  <2>1. UNCHANGED <<now, counter, Busy>>
    BY <1>5, ReadOnly DEF Busy, writer
  <2>2. CASE GetLoad
    <3>1. r_count' = counter /\ r_k' = r_k
      BY <2>2 DEF GetLoad
    <3>2. r_k + 2 <= GetMaxK => counter + Busy <= counter - r_k + BufferSize
      BY <1>t, <1>b DEF Busy
    <3> QED BY <2>1, <3>1, <3>2 DEF ShortFresh, Fresh
  <2>3. CASE Copy
    <3>1. UNCHANGED <<rpc, r_start, r_count, r_k>>
      BY <2>3 DEF Copy, GetCopy
    <3> QED BY <1>t, <2>1, <3>1 DEF ShortFresh, Fresh
  <2>4. CASE Read /\ ~GetLoad /\ ~Copy
    <3>1. rpc' # "copying"
      BY <2>4 DEF Read, Get, GetLastK, GetAll, Call, GetAssertionError, GetReturn,
                  GetTimeoutError, GetEnd
    <3> QED BY <3>1 DEF ShortFresh
  <2> QED BY <1>5, <2>2, <2>3, <2>4
<1>6. CASE UNCHANGED vars
  BY <1>t, <1>6 DEF vars, reader, writer, ShortFresh, Fresh, Busy
<1> QED BY <1>1, <1>2, <1>3, <1>4, <1>5, <1>6, Moves DEF Pauses

-----------------------------------------------------------------------------
(* The schedule of the loop *)

\* A loop on schedule finds the lookahead slot stamped long enough ago.
LEMMA NotTooFast ==
  ASSUME IInv, OnSchedule, wpc = "idle", Due
  PROVE  ~TooFast
<1>t. /\ counter \in Nat /\ now \in Nat /\ timestamp_array \in [Index -> Int]
      /\ Ordered /\ OnTime /\ lateness \in Nat
  BY RingAssumption DEF IInv, TypeOK
<1>b. /\ Budget \in Nat \ {0} /\ GetMaxK \in Nat \ {0} /\ Margin \in Nat
      /\ Period \in Nat \ {0} /\ BufferSize \in Nat \ {0} /\ BufferSize = Margin + GetMaxK
  BY RingAssumption, SizeType
<1> DEFINE p == counter + (GetMaxK - 1)
           x == timestamp_array[Slot(p)]
<1>1. p \in Window /\ p \in Nat
  BY <1>t, <1>b DEF Window, Stamped
<1>2. x \in Int /\ x = timestamp_array[TimestampLookaheadIdx]
  <2>1. Slot(p) \in Index
    BY <1>1, SlotFacts
  <2> QED BY <1>t, <2>1, LookaheadSlot
<1>3. CASE p < BufferSize
  <2>1. x = LongAgo
    BY <1>t, <1>1, <1>3 DEF Ordered
  <2> QED BY <1>t, <1>b, <1>2, <2>1 DEF TooFast, LongAgo
<1>4. CASE p >= BufferSize
  <2>1. x <= (p - BufferSize) * Period + lateness
    BY <1>t, <1>1, <1>4 DEF OnTime
  <2>2. p - BufferSize = counter - Margin - 1
    BY <1>t, <1>b
  <2>3. (counter - Margin - 1) * Period = counter * Period - Margin * Period - Period
    BY <1>t, <1>b
  <2>4. Margin * Period = Period * Margin
    BY <1>b
  <2>5. counter * Period \in Int /\ Period * Margin \in Int
    BY <1>t, <1>b
  <2>6. now >= counter * Period /\ lateness + Budget < Period * Margin
    BY DEF Due, OnSchedule
  <2>7. x <= counter * Period - Period * Margin - Period + lateness
    BY <2>1, <2>2, <2>3, <2>4
  <2> DEFINE a == counter * Period  m == Period * Margin
  <2>8. /\ a \in Int /\ m \in Int /\ x \in Int /\ now >= a /\ lateness + Budget < m
        /\ x <= a - m - Period + lateness
    BY <1>2, <2>5, <2>6, <2>7
  <2> HIDE DEF a, m, x
  <2>9. ~(now - x < Budget)
    BY <1>t, <1>b, <2>8
  <2> QED BY <1>2, <2>9 DEF TooFast, x
<1> QED BY <1>1, <1>3, <1>4, <1>b

LEMMA OnTimeStep ==
  ASSUME IInv, [Next]_vars
  PROVE  OnTime'
<1> SUFFICES ASSUME OnSchedule
             PROVE  /\ wpc' \notin {"dead", "sleeping"} /\ w_wake' = 0
                    /\ now' <= counter' * Period + lateness
                    /\ Busy' = 1 => now' >= counter' * Period
                    /\ counter' > 0 => now' >= (counter' - 1) * Period
                    /\ \A p \in Window' :
                         p >= BufferSize =>
                           timestamp_array'[Slot(p)] <= (p - BufferSize) * Period + lateness
                    /\ rpc' = "copying" => r_start' <= r_count' * Period + lateness
  <2>1. lateness' = lateness
    BY ReadOnly, WriteOnly DEF Next, vars
  <2> QED BY <2>1 DEF OnTime, OnSchedule
<1>t. /\ counter \in Nat /\ now \in Nat /\ timestamp_array \in [Index -> Int]
      /\ OnTime /\ lateness \in Nat /\ Asked /\ r_start \in Nat /\ r_count \in Nat
      /\ wpc \in {"idle", "sleeping", "writing", "stamped", "dead"}
  BY RingAssumption DEF IInv, TypeOK
<1>b. /\ Period \in Nat \ {0} /\ BufferSize \in Nat \ {0}
      /\ counter * Period \in Int
  BY <1>t, RingAssumption, SizeType
<1>o. /\ wpc \notin {"dead", "sleeping"} /\ w_wake = 0
      /\ now <= counter * Period + lateness
      /\ Busy = 1 => now >= counter * Period
      /\ counter > 0 => now >= (counter - 1) * Period
      /\ \A p \in Window :
           p >= BufferSize =>
             timestamp_array[Slot(p)] <= (p - BufferSize) * Period + lateness
      /\ rpc = "copying" => r_start <= r_count * Period + lateness
  BY <1>t DEF OnTime
<1>1. CASE PutCall
  <2>1. /\ UNCHANGED <<counter, now, timestamp_array, Stamped, w_wake, reader>>
        /\ wpc' = "writing" /\ now >= counter * Period
    BY <1>1 DEF PutCall, Due, Stamped
  <2> QED BY <1>o, <2>1 DEF Window, reader
<1>2. CASE PutWake \/ PutSleep \/ PutTimeoutError
  <2>1. FALSE
    BY <1>2, <1>o, NotTooFast DEF PutWake, PutSleep, PutTimeoutError
  <2> QED BY <2>1
<1>3. CASE Write
  <2>1. /\ UNCHANGED <<counter, now, timestamp_array, Stamped, Busy, wpc, w_wake, reader>>
    BY <1>3 DEF Write, PutWrite, Stamped, Busy
  <2> QED BY <1>o, <2>1 DEF Window, reader
<1>4. CASE PutStamp
  <2>1. /\ UNCHANGED <<counter, now, w_wake, reader>> /\ wpc' = "stamped"
        /\ Stamped = 0 /\ Stamped' = 1 /\ Busy = 1 /\ Busy' = 1
        /\ timestamp_array' = [timestamp_array EXCEPT ![Slot(counter)] = now]
    BY <1>4 DEF PutStamp, Stamped, Busy, NextIdx
  <2>2. ASSUME NEW p \in Window', p >= BufferSize
        PROVE  timestamp_array'[Slot(p)] <= (p - BufferSize) * Period + lateness
    <3>1. p \in counter + 1 .. counter + BufferSize
      BY <1>t, <1>b, <2>1 DEF Window
    <3>2. CASE p = counter + BufferSize
      <4>1. Slot(p) = Slot(counter) /\ Slot(counter) \in Index
        BY <1>t, <3>2, SlotFacts
      <4>2. timestamp_array'[Slot(p)] = now /\ p - BufferSize = counter
        BY <1>t, <1>b, <2>1, <3>2, <4>1
      <4> QED BY <1>o, <4>2
    <3>3. CASE p # counter + BufferSize
      <4>1. p \in Nat /\ counter < p /\ p < counter + BufferSize
        BY <1>t, <1>b, <3>1, <3>3
      <4>2. Slot(p) # Slot(counter) /\ Slot(p) \in Index
        BY <1>t, <4>1, SlotFacts
      <4>3. p \in Window
        BY <1>t, <1>b, <2>1, <4>1 DEF Window
      <4>4. timestamp_array'[Slot(p)] = timestamp_array[Slot(p)]
        BY <1>t, <2>1, <4>2
      <4> QED BY <1>o, <2>2, <4>3, <4>4
    <3> QED BY <3>2, <3>3
  <2> QED BY <1>o, <2>1, <2>2 DEF reader
<1>5. CASE PutCommit
  <2>1. /\ counter' = counter + 1 /\ Stamped = 1 /\ Stamped' = 0 /\ Busy = 1 /\ Busy' = 0
        /\ wpc' = "idle" /\ w_wake' = 0
        /\ UNCHANGED <<now, timestamp_array, reader>>
    BY <1>5 DEF PutCommit, Stamped, Busy
  <2>2. Window' = Window
    <3>1. (counter + 1) + 0 = counter + 1
      BY <1>t
    <3> QED BY <2>1, <3>1 DEF Window
  <2>3. (counter + 1) * Period = counter * Period + Period /\ (counter + 1) - 1 = counter
    BY <1>t, <1>b
  <2>4. now <= (counter + 1) * Period + lateness
    BY <1>t, <1>b, <1>o, <2>3
  <2>5. now >= ((counter + 1) - 1) * Period
    BY <1>o, <2>1, <2>3
  <2> QED BY <1>o, <2>1, <2>2, <2>4, <2>5 DEF reader
<1>6. CASE Tick
  <2>1. now' = now + 1 /\ UNCHANGED <<counter, timestamp_array, Stamped, Busy, wpc, w_wake, reader>>
    BY <1>6 DEF Tick, writer, Stamped, Busy
  <2>2. now < counter * Period + lateness
    BY <1>6, <1>o, <1>t, <1>b DEF Tick, Deadline
  <2>3. now + 1 <= counter * Period + lateness
    BY <1>t, <1>b, <2>2
  <2>4. Busy = 1 => now + 1 >= counter * Period
    BY <1>t, <1>b, <1>o
  <2>5. counter > 0 => now + 1 >= (counter - 1) * Period
    <3>1. (counter - 1) * Period \in Int
      BY <1>t, <1>b
    <3> QED BY <1>t, <1>o, <3>1
  <2> QED BY <1>o, <2>1, <2>3, <2>4, <2>5 DEF reader, Window
<1>7. CASE Read
  <2>1. UNCHANGED <<now, counter, timestamp_array, Stamped, Busy, wpc, w_wake>>
    BY <1>7, ReadOnly DEF Busy, Stamped, writer
  <2>2. rpc' = "copying" => r_start' <= r_count' * Period + lateness
    <3>1. CASE GetLoad
      <4>1. r_count' = counter /\ r_start' = r_start /\ r_start <= now
        BY <1>t, <3>1 DEF GetLoad, Asked
      <4>2. r_start <= counter * Period + lateness
        BY <1>t, <1>b, <1>o, <4>1
      <4> QED BY <4>1, <4>2
    <3>2. CASE Copy
      <4>1. UNCHANGED <<rpc, r_start, r_count>>
        BY <3>2 DEF Copy, GetCopy
      <4> QED BY <1>o, <4>1
    <3>3. CASE Read /\ ~GetLoad /\ ~Copy
      BY <3>3 DEF Read, Get, GetLastK, GetAll, Call, GetAssertionError, GetReturn,
                  GetTimeoutError, GetEnd
    <3> QED BY <1>7, <3>1, <3>2, <3>3
  <2> QED BY <1>o, <2>1, <2>2 DEF Window
<1>8. CASE UNCHANGED vars
  <2>1. UNCHANGED <<now, counter, timestamp_array, Stamped, Busy, wpc, w_wake, reader>>
    BY <1>8 DEF vars, writer, Busy, Stamped
  <2> QED BY <1>o, <2>1 DEF Window, reader
<1> QED BY <1>1, <1>2, <1>3, <1>4, <1>5, <1>6, <1>7, <1>8, Moves DEF Opens, Pauses

\* ... and overtakes no reader within its budget.
LEMMA TimelyFresh ==
  ASSUME IInv, OnSchedule, rpc = "copying", WithinBudget
  PROVE  Fresh
<1>t. /\ counter \in Nat /\ now \in Nat /\ r_start \in Nat /\ r_count \in Nat
      /\ r_k \in 0 .. GetMaxK /\ OnTime /\ lateness \in Nat
  BY RingAssumption DEF IInv, TypeOK
<1>b. /\ Budget \in Nat \ {0} /\ GetMaxK \in Nat \ {0} /\ Margin \in Nat
      /\ Period \in Nat \ {0} /\ BufferSize = Margin + GetMaxK
  BY RingAssumption, SizeType
<1> DEFINE n == counter + Busy - 1
<1>1. n \in Int /\ (counter > 0 \/ Busy = 1 => now >= n * Period)
  <2>1. CASE Busy = 1
    <3>1. n = counter
      BY <1>t, <2>1
    <3> QED BY <1>t, <2>1, <3>1 DEF OnTime
  <2>2. CASE Busy = 0
    <3>1. n = counter - 1
      BY <1>t, <2>2
    <3> QED BY <1>t, <2>2, <3>1 DEF OnTime
  <2> QED BY <2>1, <2>2 DEF Busy
<1>2. Busy \in {0, 1}
  BY DEF Busy
<1>3. CASE ~(counter > 0 \/ Busy = 1)
  <2>1. counter = 0 /\ Busy = 0
    BY <1>t, <1>2, <1>3
  <2> QED BY <1>t, <1>b, <2>1 DEF Fresh
<1>4. CASE counter > 0 \/ Busy = 1
  <2>1. now <= r_start + Budget /\ r_start <= r_count * Period + lateness
    BY <1>t, <1>b DEF WithinBudget, OnTime
  <2>2. (r_count + Margin) * Period = r_count * Period + Period * Margin
    BY <1>t, <1>b
  <2>3. r_count * Period \in Int /\ Period * Margin \in Int /\ n * Period \in Int
    BY <1>t, <1>b, <1>1
  <2>4. n * Period < (r_count + Margin) * Period
    <3> DEFINE a == r_count * Period  m == Period * Margin  x == n * Period
               y == (r_count + Margin) * Period
    <3>1. /\ a \in Int /\ m \in Int /\ x \in Int /\ y = a + m
          /\ now >= x /\ now <= r_start + Budget /\ r_start <= a + lateness
          /\ lateness + Budget < m
      BY <1>1, <1>4, <2>1, <2>2, <2>3 DEF OnSchedule
    <3> HIDE DEF a, m, x, y
    <3>2. x < y
      BY <1>t, <1>b, <3>1
    <3> QED BY <3>2 DEF x, y
  <2>5. n < r_count + Margin
    <3> DEFINE y == r_count + Margin
    <3>1. n \in Int /\ y \in Int /\ n * Period < y * Period
      BY <1>t, <1>b, <1>1, <2>4
    <3> HIDE DEF n, y
    <3>2. ASSUME n >= y PROVE FALSE
      <4>1. PICK e \in Nat : n = y + e
        BY <3>1, <3>2
      <4>2. n * Period = y * Period + e * Period /\ e * Period >= 0 /\ y * Period \in Int
        BY <1>b, <3>1, <4>1
      <4>3. e * Period \in Int
        BY <1>b
      <4> DEFINE a == n * Period  b == y * Period  c == e * Period
      <4>4. b \in Int /\ c \in Int /\ c >= 0 /\ a = b + c /\ a < b
        BY <3>1, <4>2, <4>3
      <4> HIDE DEF a, b, c
      <4> QED BY <4>4
    <3>3. n < y
      BY <3>1, <3>2
    <3> QED BY <3>3 DEF n, y
  <2>6. counter + Busy <= r_count + Margin
    BY <1>t, <1>b, <1>2, <2>5
  <2> QED BY <1>t, <1>b, <1>2, <2>6 DEF Fresh
<1> QED BY <1>3, <1>4

-----------------------------------------------------------------------------
LEMMA NextIInv == IInv /\ [Next]_vars => IInv'
BY TypeStep, ContentStep, OrderedStep, LookedAheadStep, OnTimeStep, AskedStep, StampedSinceStep,
   CopiedStep, ShortFreshStep DEF IInv

\* What the parts of IInv say of slots, timestamps and copies holds throughout, for
\* every size of the buffer, and with it every type.
THEOREM Invariance == Spec => []IInv
BY InitIInv, NextIInv, PTL DEF Spec

\* For any size of the buffer: a published state stays whole in its slot until put
\* begins to write the state that replaces it.
THEOREM Publishes == Spec => []PublishedIntact
<1>1. IInv => PublishedIntact
  <2> SUFFICES ASSUME IInv, NEW n \in 1 .. counter, NEW f \in Fields,
                      n + BufferSize > counter + Busy
               PROVE  shared_arrays[f][Slot(n - 1)] = n
    BY DEF PublishedIntact, Busy
  <2> DEFINE p == n - 1 + BufferSize
  <2>1. counter \in Nat /\ n - 1 \in Nat /\ Busy \in {0, 1}
    BY DEF IInv, TypeOK, Busy
  <2>2. p \in counter + Busy .. counter + BufferSize - 1 /\ p >= BufferSize
        /\ p - BufferSize + 1 = n
    BY <2>1, SizeType
  <2>3. Slot(p) = Slot(n - 1)
    BY <2>1, SlotFacts
  <2>4. shared_arrays[f][Slot(p)] = Held(p)
    BY <2>2 DEF IInv, Content
  <2> QED BY <2>2, <2>3, <2>4 DEF Held
<1> QED BY <1>1, Invariance, PTL

\* put's single look at the timestamp get_max_k - 1 slots ahead tells the age of all
\* slots up to there.
THEOREM LooksAhead == Spec => []LookaheadUntouched
<1>1. IInv => LookaheadUntouched
  <2> SUFFICES ASSUME IInv, wpc = "writing", w_todo = Fields, NEW i \in 0 .. GetMaxK - 1
               PROVE  now - timestamp_array[Slot(NextIdx + i)] >= Budget
    BY DEF LookaheadUntouched
  <2>t. /\ counter \in Nat /\ now \in Nat /\ timestamp_array \in [Index -> Int]
        /\ Ordered /\ LookedAhead
    BY DEF IInv, TypeOK
  <2>b. /\ GetMaxK \in Nat \ {0} /\ Margin \in Nat /\ BufferSize \in Nat \ {0}
        /\ BufferSize = Margin + GetMaxK /\ Budget \in Nat
    BY RingAssumption, SizeType
  <2>1. Slot(NextIdx + i) = Slot(counter + i)
    <3>1. i \in 0 .. BufferSize - 1
      BY <2>b
    <3> QED BY <2>t, <3>1, SlotAfter DEF NextIdx
  <2>2. /\ counter + i \in Window /\ counter + (GetMaxK - 1) \in Window
        /\ counter + i <= counter + (GetMaxK - 1)
    BY <2>t, <2>b DEF Window, Stamped
  <2>3. timestamp_array[Slot(counter + i)] <= Ahead
    BY <2>t, <2>2 DEF Ordered, Ahead
  <2>4. Ahead \in Int /\ timestamp_array[Slot(counter + i)] \in Int
    <3>1. Slot(counter + i) \in Index /\ Slot(counter + (GetMaxK - 1)) \in Index
      BY <2>t, <2>b, SlotFacts
    <3> QED BY <2>t, <3>1 DEF Ahead
  <2>5. now - Ahead >= Budget
    BY <2>t DEF LookedAhead
  <2> DEFINE x == timestamp_array[Slot(counter + i)]
  <2>6. x \in Int /\ x <= Ahead
    BY <2>3, <2>4
  <2> HIDE DEF x
  <2>7. now - x >= Budget
    BY <2>t, <2>b, <2>4, <2>5, <2>6
  <2> QED BY <2>1, <2>7 DEF x
<1> QED BY <1>1, Invariance, PTL

\* A loop on schedule never waits in put, nor dies of put's TimeoutError.
THEOREM KeepsPace == Spec => []NeverTooFast
<1>1. IInv => NeverTooFast
  BY DEF IInv, OnTime, NeverTooFast
<1> QED BY <1>1, Invariance, PTL

\* While the loop keeps its schedule, what get, get_last_k and get_all return within
\* the budget is whole, at any size, rate and budget.
THEOREM ReadsIntact == Spec => []SafeRead
<1>1. IInv => SafeRead
  <2> SUFFICES ASSUME IInv, OnSchedule, Returning PROVE Intact
    BY DEF SafeRead
  <2>1. rpc = "copying" /\ Fresh
    BY TimelyFresh DEF Returning
  <2> QED BY <2>1 DEF IInv, Copied
<1> QED BY <1>1, Invariance, PTL

\* A call for at least two states less than get_max_k needs no schedule: what it returns
\* in less than the budget is whole.
THEOREM ShortReadsIntact == Spec => []SafeShortRead
<1>1. IInv => SafeShortRead
  <2> SUFFICES ASSUME IInv, Returning, r_k + 2 <= GetMaxK, now - r_start < Budget
               PROVE  Intact
    BY DEF SafeShortRead
  <2>1. rpc = "copying" /\ Fresh
    BY DEF Returning, IInv, ShortFresh
  <2> QED BY <2>1 DEF IInv, Copied
<1> QED BY <1>1, Invariance, PTL
=============================================================================
