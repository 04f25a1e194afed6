----------------------------- MODULE RclpyStateProofs -----------------------------
(***************************************************************************)
(* ReadIsWindow, NeverBackwards and CatchesUp for any fields, queues,      *)
(* buffers, puts and reads.  The inductive invariant IInv says, besides    *)
(* the types:                                                              *)
(*                                                                         *)
(*   Suffix    the ring buffer is the end of what was filed, up to where   *)
(*             it was last cleared                                         *)
(*   Counting  get_last_k before its copy still finds what it               *)
(*             counted, and what it will copy is no older than its begin   *)
(*   Returned  the last read returned a window of what was filed, with an  *)
(*             end between its begin and the begin of the read under way   *)
(*   Forward   along a topic, and from there into the latest state, the    *)
(*             values of a field do not fall                               *)
(*   Monotone  neither do they in the snapshots, in the order filed        *)
(*   Snapshot  the newest snapshot is the latest state, or the spin thread *)
(*             is about to file it                                         *)
(*   Matched   start() subscribes to what could be seen when it was called *)
(*   Arrives   the last value published on a topic after its subscription  *)
(*             was matched waits last in its queue or is the latest state  *)
(***************************************************************************)
EXTENDS RclpyState, TLAPS

States == UNION {[S -> Nat] : S \in SUBSET Fields}
StartStates == {"new", "discovering", "subscribing", "first_state", "matching",
                "started", "failed", "stopped"}

TypeOK ==
  /\ created \in 0 .. Len(FieldOrder) /\ puts \in Nat
  /\ publishing \in 0 .. Len(FieldOrder)
  /\ announced \subseteq Fields /\ since \in [Fields -> Nat \cup {Ignored}]
  /\ topic \in [Fields -> Seq(Nat)]
  /\ start_state \in StartStates
  /\ found \subseteq Fields /\ subscribed \subseteq Fields /\ known \subseteq Fields
  /\ latest_state \in States
  /\ spin \in [Spinners -> {Nothing} \cup {<<x>> : x \in States}]
  /\ ring_buffer \in Seq(States) /\ filed \in Seq(States)
  /\ reading = Nothing \/ \E n, k, from \in Nat : reading = <<[n |-> n, k |-> k], from>>
  /\ iterator \in {Nothing} \cup {<<n>> : n \in Nat}
  /\ result \in [states : Seq(States), from : Nat, n : Nat]

Suffix ==
  /\ Len(ring_buffer) <= max_buffer_size /\ Len(ring_buffer) <= Len(filed)
  /\ \A i \in 1 .. Len(ring_buffer) :
       ring_buffer[i] = filed[Len(filed) - Len(ring_buffer) + i]

Counting ==
  reading # Nothing =>
    /\ reading[1].k <= reading[1].n /\ reading[1].n <= Len(ring_buffer)
    /\ reading[2] <= Len(filed) - Len(ring_buffer) + reading[1].n

Now == IF reading = Nothing THEN Len(filed) ELSE reading[2]
Returned ==
  \E i \in result.from .. Now :
    result.n <= i /\ result.states = SubSeq(filed, i - result.n + 1, i)

Forward ==
  /\ \A f \in Fields : \A i, j \in 1 .. Len(topic[f]) :
       i <= j => topic[f][i] <= topic[f][j]
  /\ \A f \in Fields : \A i \in 1 .. Len(topic[f]) :
       /\ topic[f][i] <= Published(f)
       /\ f \in DOMAIN latest_state => latest_state[f] <= topic[f][i]
  /\ \A f \in DOMAIN latest_state : latest_state[f] <= Published(f)

Monotone ==
  /\ \A i \in 1 .. Len(filed) : NoNewer(filed[i], latest_state)
  /\ \A i, j \in 1 .. Len(filed) : i <= j => NoNewer(filed[i], filed[j])

Snapshot ==
  IF spin[1] # Nothing THEN spin[1] = <<latest_state>>
  ELSE IF filed = << >> THEN latest_state = << >> ELSE Last(filed) = latest_state

Matched ==
  /\ known \subseteq announced
  /\ start_state \notin {"new", "discovering", "failed"} => known \subseteq found
  /\ start_state \in {"first_state", "matching", "started", "stopped"} => subscribed = found

Arrives ==
  \A f \in Fields :
    since[f] # Ignored =>
      /\ since[f] <= Published(f)
      /\ since[f] < Published(f) =>
           IF topic[f] # << >> THEN Last(topic[f]) = Published(f)
           ELSE f \in DOMAIN latest_state /\ latest_state[f] = Published(f)

IInv ==
  /\ TypeOK /\ Suffix /\ Counting /\ Returned
  /\ Forward /\ Monotone /\ Snapshot /\ Matched /\ Arrives

-----------------------------------------------------------------------------
(* Snapshots and buffers *)

LEMMA FieldsOfStates ==
  ASSUME NEW x \in States
  PROVE  DOMAIN x \subseteq Fields /\ \A f \in DOMAIN x : x[f] \in Nat
BY DEF States

LEMMA NoFields == << >> \in States /\ DOMAIN << >> = {}
<1>1. << >> \in [{} -> Nat]
  OBVIOUS
<1> QED
  BY <1>1 DEF States

LEMMA Updates ==
  ASSUME NEW x \in States, NEW f \in Fields, NEW v \in Nat,
         NEW y, y = [g \in DOMAIN x \cup {f} |-> IF g = f THEN v ELSE x[g]]
  PROVE  y \in States
<1>1. DOMAIN x \cup {f} \in SUBSET Fields /\ y \in [DOMAIN x \cup {f} -> Nat]
  BY FieldsOfStates
<1> QED
  BY <1>1 DEF States

\* A snapshot is as new as itself and as any that one as new is as new as.
LEMMA NoNewerIsOrder ==
  /\ \A x \in States : NoNewer(x, x)
  /\ \A x, y, z \in States : NoNewer(x, y) /\ NoNewer(y, z) => NoNewer(x, z)
<1>1. ASSUME NEW x \in States
      PROVE  NoNewer(x, x)
  BY FieldsOfStates DEF NoNewer
<1>2. ASSUME NEW x \in States, NEW y \in States, NEW z \in States,
             NoNewer(x, y), NoNewer(y, z)
      PROVE  NoNewer(x, z)
  <2>1. \A f \in DOMAIN x : x[f] \in Nat /\ y[f] \in Nat /\ z[f] \in Nat
    BY <1>2, FieldsOfStates DEF NoNewer
  <2> QED
    BY <1>2, <2>1 DEF NoNewer
<1> QED
  BY <1>1, <1>2

\* A deque that has got an item: it is one longer, or as long as before and has lost
\* its oldest.
LEMMA AppendedIs ==
  ASSUME NEW S, NEW s \in Seq(S), NEW e \in S, NEW m \in Nat \ {0},
         NEW t, t = Appended(s, e, m)
  PROVE  /\ t \in Seq(S)
         /\ Len(t) = IF Len(s) < m THEN Len(s) + 1 ELSE Len(s)
         /\ Len(t) > 0 /\ t[Len(t)] = e
         /\ \A i \in 1 .. Len(t) - 1 : t[i] = s[i + (Len(s) + 1 - Len(t))]
<1>1. CASE Len(s) < m
  BY <1>1 DEF Appended
<1>2. CASE ~(Len(s) < m)
  <2>1. Len(s) > 0
    BY <1>2
  <2>2. s # << >> /\ Tail(s) \in Seq(S) /\ Len(Tail(s)) = Len(s) - 1
    BY <2>1
  <2>3. \A i \in 1 .. Len(s) - 1 : Tail(s)[i] = s[i + 1]
    BY <2>1
  <2>4. t = Append(Tail(s), e)
    BY <1>2 DEF Appended
  <2>5. t \in Seq(S) /\ Len(t) = Len(s) /\ t[Len(t)] = e
    BY <2>2, <2>4
  <2>6. ASSUME NEW i \in 1 .. Len(s) - 1
        PROVE  t[i] = s[i + 1]
    BY <2>2, <2>3, <2>4
  <2> QED
    BY <1>2, <2>1, <2>5, <2>6
<1> QED
  BY <1>1, <1>2

LEMMA MinOfTwo ==
  ASSUME NEW a \in Int, NEW b \in Int
  PROVE  Min({a, b}) = IF a <= b THEN a ELSE b
<1>1. ASSUME NEW c \in {a, b}, \A d \in {a, b} : c <= d
      PROVE  Min({a, b}) = c
  <2>1. Min({a, b}) \in {a, b} /\ \A d \in {a, b} : Min({a, b}) <= d
    BY <1>1 DEF Min
  <2> QED
    BY <1>1, <2>1
<1> QED
  BY <1>1

LEMMA MaxOfTwo ==
  ASSUME NEW a \in Int, NEW b \in Int
  PROVE  Max({a, b}) = IF a >= b THEN a ELSE b
<1>1. ASSUME NEW c \in {a, b}, \A d \in {a, b} : c >= d
      PROVE  Max({a, b}) = c
  <2>1. Max({a, b}) \in {a, b} /\ \A d \in {a, b} : Max({a, b}) >= d
    BY <1>1 DEF Max
  <2> QED
    BY <1>1, <2>1
<1> QED
  BY <1>1

\* RingBuffer.get, and the two steps of get_last_k.
LEMMA NewestIs ==
  ASSUME NEW S, NEW b \in Seq(S), NEW n, n = Min({1, Len(b)})
  PROVE  n \in Nat /\ n <= Len(b) /\ Newest(b) = SubSeq(b, Len(b) - n + 1, Len(b))
<1> DEFINE l == Len(b)
           m == l - 1 + 1
<1>1. l \in Nat /\ n = Min({1, l})
  OBVIOUS
<1>2. Newest(b) = SubSeq(b, Max({1, m}), l)
  BY DEF Newest, LastOf
<1>3. m \in Int /\ m = l
  BY <1>1
<1> HIDE DEF l, m
<1>4. Max({1, m}) = IF 1 >= m THEN 1 ELSE m
  BY <1>3, MaxOfTwo
<1>5. n = IF 1 <= l THEN 1 ELSE l
  BY <1>1, MinOfTwo
<1>6. n \in Nat /\ n <= l /\ Max({1, m}) = l - n + 1
  BY <1>1, <1>3, <1>4, <1>5
<1> QED
  BY <1>2, <1>6 DEF l

LEMMA CountIs ==
  ASSUME NEW S, NEW b \in Seq(S), NEW k \in Nat
  PROVE  \E m \in Nat : m <= Len(b) /\ CountLastK(b, k) = [n |-> Len(b), k |-> m]
<1> DEFINE l == Len(b)
<1>1. l \in Nat /\ CountLastK(b, k) = [n |-> l, k |-> Min({k, l})]
  BY DEF CountLastK
<1> HIDE DEF l
<1>2. Min({k, l}) = IF k <= l THEN k ELSE l
  BY <1>1, MinOfTwo
<1>3. Min({k, l}) \in Nat /\ Min({k, l}) <= l
  BY <1>1, <1>2
<1> QED
  BY <1>1, <1>3 DEF l

LEMMA CopyIs ==
  ASSUME NEW S, NEW b \in Seq(S), NEW n \in Nat, NEW k \in Nat, NEW small \in Nat,
         k <= n, n <= Len(b)
  PROVE  \E i \in n .. Len(b) :
           CopyLastK(b, [n |-> n, k |-> k], small) = SubSeq(b, i - k + 1, i)
<1> DEFINE l == Len(b)
           m == l - k + 1
           copied == CopyLastK(b, [n |-> n, k |-> k], small)
<1>1. l \in Nat /\ n <= l /\ m \in Int /\ m = l - k + 1
  OBVIOUS
<1>2. /\ k = 0 => copied = << >>
      /\ k # 0 /\ k <= small => copied = SubSeq(b, Max({1, m}), l)
      /\ k # 0 /\ ~(k <= small) => copied = SubSeq(b, n - k + 1, Min({n, l}))
  BY DEF CopyLastK, LastOf
<1> HIDE DEF l, m, copied
<1>3. Max({1, m}) = IF 1 >= m THEN 1 ELSE m
  BY <1>1, MaxOfTwo
<1>4. Min({n, l}) = IF n <= l THEN n ELSE l
  BY <1>1, MinOfTwo
<1>5. Max({1, m}) = m /\ Min({n, l}) = n
  BY <1>1, <1>3, <1>4
<1>6. n \in n .. l /\ l \in n .. l
  BY <1>1
<1>7. CASE k = 0
  <2>1. SubSeq(b, n - k + 1, n) = << >>
    BY <1>7
  <2> QED
    BY <1>2, <1>6, <1>7, <2>1 DEF l, copied
<1>8. CASE k # 0 /\ k <= small
  <2>1. copied = SubSeq(b, m, l)
    BY <1>2, <1>5, <1>8
  <2> QED
    BY <1>6, <2>1 DEF l, m, copied
<1>9. CASE k # 0 /\ ~(k <= small)
  <2>1. copied = SubSeq(b, n - k + 1, n)
    BY <1>2, <1>5, <1>9
  <2> QED
    BY <1>6, <2>1 DEF l, copied
<1> QED
  BY <1>7, <1>8, <1>9, Zenon

\* What was filed later does not touch what a window holds.
LEMMA WindowStays ==
  ASSUME NEW S, NEW s \in Seq(S), NEW e \in S,
         NEW n \in Nat, NEW i \in Nat, n <= i, i <= Len(s)
  PROVE  SubSeq(Append(s, e), i - n + 1, i) = SubSeq(s, i - n + 1, i)
<1>1. \A j \in 1 .. Len(s) : Append(s, e)[j] = s[j]
  OBVIOUS
<1>2. \A j \in 1 .. n : i - n + j \in 1 .. Len(s)
  OBVIOUS
<1> QED
  BY <1>1, <1>2

\* A window of the end of a sequence is a window of the sequence.
LEMMA WindowOfEnd ==
  ASSUME NEW S, NEW s \in Seq(S), NEW b \in Seq(S), Len(b) <= Len(s),
         \A i \in 1 .. Len(b) : b[i] = s[Len(s) - Len(b) + i],
         NEW n \in Nat, NEW i \in Nat, n <= i, i <= Len(b)
  PROVE  SubSeq(b, i - n + 1, i)
           = SubSeq(s, Len(s) - Len(b) + i - n + 1, Len(s) - Len(b) + i)
<1> DEFINE o == Len(s) - Len(b)
<1>1. \A j \in 1 .. n : b[i - n + j] = s[o + i - n + j]
  OBVIOUS
<1>2. SubSeq(b, i - n + 1, i) = [j \in 1 .. n |-> b[i - n + j]]
  OBVIOUS
<1>3. SubSeq(s, o + i - n + 1, o + i) = [j \in 1 .. n |-> s[o + i - n + j]]
  OBVIOUS
<1> QED
  BY <1>1, <1>2, <1>3

LEMMA LastOfWindow ==
  ASSUME NEW S, NEW s \in Seq(S), NEW n \in Nat, NEW i \in Nat, n <= i, i <= Len(s),
         SubSeq(s, i - n + 1, i) # << >>
  PROVE  i > 0 /\ Last(SubSeq(s, i - n + 1, i)) = s[i]
<1> DEFINE t == SubSeq(s, i - n + 1, i)
<1>1. n > 0
  <2>1. n = 0 => t = << >>
    OBVIOUS
  <2> QED
    BY <2>1
<1>2. Len(t) = n /\ t[n] = s[i]
  BY <1>1
<1>3. i > 0
  BY <1>1
<1>4. Last(t) = t[Len(t)]
  BY DEF Last
<1> HIDE DEF t
<1>5. Last(t) = s[i]
  BY <1>2, <1>4
<1> QED
  BY <1>3, <1>5 DEF t

-----------------------------------------------------------------------------
(* The invariant holds at the start *)

LEMMA Names ==
  /\ FieldOrder \in Seq(Fields) /\ Len(FieldOrder) \in Nat \ {0}
  /\ \A i \in 1 .. Len(FieldOrder) : FieldOrder[i] \in Fields
  /\ \A f \in Fields : \E i \in 1 .. Len(FieldOrder) : FieldOrder[i] = f
  /\ \A i, j \in 1 .. Len(FieldOrder) : i # j => FieldOrder[i] # FieldOrder[j]
<1>1. FieldOrder \in Seq(Fields) /\ FieldOrder # << >>
  BY RclpyAssumption DEF Fields
<1>2. DOMAIN FieldOrder = 1 .. Len(FieldOrder) /\ Len(FieldOrder) \in Nat \ {0}
  BY <1>1
<1>3. Fields = {FieldOrder[i] : i \in 1 .. Len(FieldOrder)}
  BY <1>2 DEF Fields, ToSet
<1> QED
  BY <1>1, <1>2, <1>3, RclpyAssumption

LEMMA Sizes ==
  /\ qos_depth \in Nat \ {0} /\ max_buffer_size \in Nat \ {0}
  /\ Small \in Nat /\ Ks \subseteq Nat
BY RclpyAssumption

LEMMA PublishedType ==
  ASSUME TypeOK, NEW f \in Fields
  PROVE  Published(f) \in Int /\ Published(f) <= puts
BY DEF TypeOK, Published

LEMMA InitIInv == Init => IInv
<1> SUFFICES ASSUME Init PROVE IInv
  OBVIOUS
<1>1. TypeOK
  <2>1. << >> \in Seq(States) /\ << >> \in Seq(Nat)
    OBVIOUS
  <2> QED
    BY <2>1, NoFields, Names DEF Init, TypeOK, StartStates, NoRead, Ignored
<1>2. Suffix
  BY Sizes DEF Init, Suffix
<1>3. Counting /\ Matched /\ Arrives
  BY DEF Init, Counting, Matched, Arrives
<1>4. Returned
  <2>1. << >> = SubSeq(<< >>, 1, 0)
    OBVIOUS
  <2> QED
    BY <2>1 DEF Init, Returned, Now, NoRead
<1>5. Forward /\ Monotone
  <2>1. DOMAIN latest_state = {} /\ Len(filed) = 0 /\ \A f \in Fields : Len(topic[f]) = 0
    BY NoFields DEF Init
  <2> QED
    BY <2>1 DEF Forward, Monotone
<1>6. Snapshot
  BY DEF Init, Snapshot, Spinners
<1> QED
  BY <1>1, <1>2, <1>3, <1>4, <1>5, <1>6 DEF IInv

-----------------------------------------------------------------------------
(* Types *)

LEMMA TypeStep == TypeOK /\ Counting /\ [Next]_vars => TypeOK'
<1> SUFFICES ASSUME TypeOK, Counting, [Next]_vars PROVE TypeOK'
  OBVIOUS
<1> USE DEF TypeOK
<1>1. CASE CreatePublisher
  BY <1>1 DEF CreatePublisher, discovery, start, copy, app
<1>2. CASE Put
  BY <1>2, Names DEF Put, discovery, start, copy, app
<1>3. CASE Publish
  <2> DEFINE f == FieldOrder[publishing]
             t == Appended(topic[f], puts, qos_depth)
  <2>1. publishing \in 1 .. Len(FieldOrder) /\ f \in Fields
    <3>1. publishing \in 0 .. Len(FieldOrder) /\ publishing > 0
      BY <1>3 DEF Publish
    <3>2. publishing \in 1 .. Len(FieldOrder)
      BY ONLY <3>1, Names
    <3> QED
      BY <3>2, Names
  <2>2. t \in Seq(Nat)
    BY <2>1, Sizes, AppendedIs
  <2>3. topic' \in [Fields -> Seq(Nat)]
    BY <1>3, <2>1, <2>2 DEF Publish
  <2>4. publishing' \in 0 .. Len(FieldOrder)
    BY <1>3, <2>1 DEF Publish
  <2> QED
    BY <1>3, <2>3, <2>4 DEF Publish, discovery, start, copy, app
<1>4. CASE Announce
  <2>1. PICK i \in 1 .. created : announced' = announced \cup {FieldOrder[i]}
    BY <1>4 DEF Announce
  <2>2. i \in 1 .. Len(FieldOrder)
    BY Names
  <2>3. announced' \subseteq Fields
    BY <2>1, <2>2, Names
  <2> QED
    BY <1>4, <2>3 DEF Announce, server, start, copy, app
<1>5. CASE Match
  <2>1. PICK f \in subscribed : since' = [since EXCEPT ![f] = Published(f)]
    BY <1>5 DEF Match
  <2>2. Published(f) \in Nat \cup {Ignored}
    BY DEF Published, Ignored
  <2>3. since' \in [Fields -> Nat \cup {Ignored}]
    BY <2>1, <2>2
  <2> QED
    BY <1>5, <2>3 DEF Match, server, start, copy, app
<1>6. CASE StartSpin \/ Look \/ CreateSubscription \/ FirstState \/ WaitForDiscovery \/ Stop
  <2>1. start_state' \in StartStates
    BY <1>6 DEF StartSpin, Look, CreateSubscription, FirstState, WaitForDiscovery, Stop,
      StartStates
  <2>2. found' \subseteq Fields /\ subscribed' \subseteq Fields /\ known' \subseteq Fields
    BY <1>6 DEF StartSpin, Look, CreateSubscription, FirstState, WaitForDiscovery, Stop
  <2>3. UNCHANGED <<server, discovery, topic, copy, app>>
    BY <1>6 DEF StartSpin, Look, CreateSubscription, FirstState, WaitForDiscovery, Stop,
      StartOnly
  <2> QED
    BY <2>1, <2>2, <2>3 DEF server, discovery, copy, app
<1>7. ASSUME NEW s \in Spinners, UpdateField(s)
      PROVE  TypeOK'
  <2>1. PICK f \in Fields :
          /\ topic[f] # << >> /\ topic' = [topic EXCEPT ![f] = Tail(@)]
          /\ latest_state' = [g \in DOMAIN latest_state \cup {f} |->
                                IF g = f THEN Head(topic[f]) ELSE latest_state[g]]
    BY <1>7 DEF UpdateField
  <2>2. Head(topic[f]) \in Nat /\ Tail(topic[f]) \in Seq(Nat)
    BY <2>1
  <2>3. topic' \in [Fields -> Seq(Nat)]
    BY <2>1, <2>2
  <2> DEFINE v == Head(topic[f])
  <2>a. /\ latest_state \in States /\ v \in Nat
        /\ latest_state' = [g \in DOMAIN latest_state \cup {f} |->
                              IF g = f THEN v ELSE latest_state[g]]
    BY <2>1, <2>2
  <2> HIDE DEF v
  <2>4. latest_state' \in States
    BY ONLY <2>a, f \in Fields, Updates
  <2>5. spin' \in [Spinners -> {Nothing} \cup {<<x>> : x \in States}]
    BY <1>7, <2>4 DEF UpdateField
  <2> QED
    BY <1>7, <2>3, <2>4, <2>5 DEF UpdateField, server, discovery, start, app
<1>8. ASSUME NEW s \in Spinners, FileSnapshot(s)
      PROVE  TypeOK'
  <2>1. PICK x \in States : spin[s] = <<x>>
    BY <1>8 DEF FileSnapshot
  <2>2. spin[s][1] = x
    BY <2>1
  <2>3. ring_buffer' \in Seq(States) /\ filed' \in Seq(States)
    BY <1>8, <2>2, Sizes, AppendedIs DEF FileSnapshot
  <2>4. spin' \in [Spinners -> {Nothing} \cup {<<y>> : y \in States}]
    BY <1>8 DEF FileSnapshot
  <2> QED
    BY <1>8, <2>3, <2>4 DEF FileSnapshot, server, discovery, start, app
<1>9. CASE GetState
  <2> DEFINE n == Min({1, Len(ring_buffer)})
  <2>1. ring_buffer \in Seq(States)
    OBVIOUS
  <2>2. n \in Nat /\ n <= Len(ring_buffer)
        /\ Newest(ring_buffer) = SubSeq(ring_buffer, Len(ring_buffer) - n + 1, Len(ring_buffer))
    BY <2>1, NewestIs
  <2> HIDE DEF n
  <2>3. Newest(ring_buffer) \in Seq(States)
    BY <2>1, <2>2
  <2>4. result' = [states |-> Newest(ring_buffer), from |-> Len(filed), n |-> n]
    BY <1>9 DEF GetState, Returns, n
  <2>5. result' \in [states : Seq(States), from : Nat, n : Nat]
    BY <2>2, <2>3, <2>4
  <2> QED
    BY <1>9, <2>5 DEF GetState, AppOnly, server, discovery, start
<1>10. CASE GetAllState
  BY <1>10 DEF GetAllState, Returns, AppOnly, server, discovery, start
<1>11. CASE GetLastK
  <2>1. PICK k \in Ks : reading' = <<CountLastK(ring_buffer, k), Len(filed)>>
    BY <1>11 DEF GetLastK
  <2>2. k \in Nat /\ ring_buffer \in Seq(States)
    BY Sizes
  <2>3. PICK m \in Nat : CountLastK(ring_buffer, k) = [n |-> Len(ring_buffer), k |-> m]
    BY <2>2, CountIs
  <2>4. Len(ring_buffer) \in Nat /\ Len(filed) \in Nat
    OBVIOUS
  <2>5. \E n, j, from \in Nat : reading' = <<[n |-> n, k |-> j], from>>
    BY <2>1, <2>3, <2>4
  <2> QED
    BY <1>11, <2>5 DEF GetLastK, AppOnly, server, discovery, start
<1>12. CASE Clear
  BY <1>12 DEF Clear, AppOnly, server, discovery, start, app
<1>13. CASE UNCHANGED vars
  BY <1>13 DEF vars, server, discovery, start, copy, app
<1>14. CASE CopiesLastK
  <2>1. PICK n, k, from \in Nat : reading = <<[n |-> n, k |-> k], from>>
    BY <1>14 DEF CopiesLastK
  <2>2. reading[1] = [n |-> n, k |-> k] /\ reading[2] = from
    BY <2>1
  <2>3. k <= n /\ n <= Len(ring_buffer) /\ ring_buffer \in Seq(States)
    BY <1>14, <2>2 DEF CopiesLastK, Counting
  <2>4. PICK i \in n .. Len(ring_buffer) :
          CopyLastK(ring_buffer, [n |-> n, k |-> k], Small) = SubSeq(ring_buffer, i - k + 1, i)
    <3>1. Small \in Nat /\ n \in Nat /\ k \in Nat
      BY Sizes
    <3> QED
      BY ONLY <2>3, <3>1, CopyIs, Zenon
  <2>5. SubSeq(ring_buffer, i - k + 1, i) \in Seq(States)
    BY <2>3
  <2>6. result' \in [states : Seq(States), from : Nat, n : Nat]
    <3>1. result' = [states |-> CopyLastK(ring_buffer, [n |-> n, k |-> k], Small),
                     from |-> from, n |-> k]
      BY <1>14, <2>2 DEF CopiesLastK, Returns
    <3> QED
      BY <2>4, <2>5, <3>1
  <2> QED
    BY <1>14, <2>6 DEF CopiesLastK, AppOnly, server, discovery, start
<1>15. CASE TakesIterator
  <2>1. iterator' \in {<<n>> : n \in Nat}
    BY <1>15 DEF TakesIterator
  <2> QED
    BY <1>15, <2>1 DEF TakesIterator, AppOnly, server, discovery, start
<1>16. CASE CopyRaises
  BY <1>16 DEF CopyRaises, AppOnly, server, discovery, start
<1> QED
  BY <1>1, <1>2, <1>3, <1>4, <1>5, <1>6, <1>7, <1>8, <1>9, <1>10, <1>11, <1>12, <1>13, <1>14,
     <1>15, <1>16 DEF Next

-----------------------------------------------------------------------------
(* The ring buffer and who reads it *)

\* What is filed and what clears: nothing else touches the ring buffer.
LEMMA BufferFrame ==
  [Next]_vars =>
    \/ UNCHANGED <<ring_buffer, filed>>
    \/ \E s \in Spinners : FileSnapshot(s)
    \/ Clear
<1> SUFFICES ASSUME [Next]_vars,
                    ~(\E s \in Spinners : FileSnapshot(s)), ~Clear
             PROVE  UNCHANGED <<ring_buffer, filed>>
  BY Zenon
<1>1. CASE CreatePublisher \/ Put \/ Publish \/ Announce \/ Match
  BY <1>1 DEF CreatePublisher, Put, Publish, Announce, Match, copy
<1>2. CASE StartSpin \/ Look \/ CreateSubscription \/ FirstState \/ WaitForDiscovery \/ Stop
  BY <1>2 DEF StartSpin, Look, CreateSubscription, FirstState, WaitForDiscovery, Stop,
    StartOnly, copy
<1>3. CASE \E s \in Spinners : UpdateField(s)
  BY <1>3 DEF UpdateField
<1>4. CASE GetState \/ GetAllState \/ GetLastK \/ TakesIterator \/ CopiesLastK \/ CopyRaises
  BY <1>4 DEF GetState, GetAllState, GetLastK, TakesIterator, CopiesLastK, CopyRaises, AppOnly
<1>5. CASE UNCHANGED vars
  BY <1>5 DEF vars, copy
<1> QED
  BY <1>1, <1>2, <1>3, <1>4, <1>5 DEF Next

\* The same for the reads.
LEMMA ReadFrame ==
  [Next]_vars =>
    \/ UNCHANGED <<reading, result>>
    \/ GetState \/ GetAllState \/ GetLastK \/ CopiesLastK \/ CopyRaises
<1> SUFFICES ASSUME [Next]_vars,
                    ~(GetState \/ GetAllState \/ GetLastK \/ CopiesLastK \/ CopyRaises)
             PROVE  UNCHANGED <<reading, result>>
  BY Zenon
<1>1. CASE CreatePublisher \/ Put \/ Publish \/ Announce \/ Match
  BY <1>1 DEF CreatePublisher, Put, Publish, Announce, Match, app
<1>2. CASE StartSpin \/ Look \/ CreateSubscription \/ FirstState \/ WaitForDiscovery \/ Stop
  BY <1>2 DEF StartSpin, Look, CreateSubscription, FirstState, WaitForDiscovery, Stop,
    StartOnly, app
<1>3. CASE \E s \in Spinners : UpdateField(s) \/ FileSnapshot(s)
  BY <1>3 DEF UpdateField, FileSnapshot, app
<1>4. CASE Clear \/ TakesIterator
  BY <1>4 DEF Clear, TakesIterator, app
<1>5. CASE UNCHANGED vars
  BY <1>5 DEF vars, app
<1> QED
  BY <1>1, <1>2, <1>3, <1>4, <1>5 DEF Next

\* Filing appends the one snapshot to what was filed and to the ring buffer.
LEMMA Files ==
  ASSUME TypeOK, NEW s \in Spinners, FileSnapshot(s)
  PROVE  /\ ring_buffer \in Seq(States) /\ filed \in Seq(States)
         /\ UNCHANGED <<reading, result>>
         /\ \E x \in States :
              /\ spin[s] = <<x>>
              /\ ring_buffer' = Appended(ring_buffer, x, max_buffer_size)
              /\ filed' = Append(filed, x)
<1>1. PICK x \in States : spin[s] = <<x>>
  BY DEF FileSnapshot, TypeOK
<1>2. spin[s][1] = x
  BY <1>1
<1> QED
  BY <1>1, <1>2 DEF FileSnapshot, TypeOK, app

LEMMA SuffixStep == TypeOK /\ Suffix /\ [Next]_vars => Suffix'
<1> SUFFICES ASSUME TypeOK, Suffix, [Next]_vars PROVE Suffix'
  OBVIOUS
<1>1. CASE UNCHANGED <<ring_buffer, filed>>
  BY <1>1 DEF Suffix
<1>2. CASE Clear
  <2>1. ring_buffer' = << >> /\ filed' = filed /\ filed \in Seq(States)
    BY <1>2 DEF Clear, AppOnly, TypeOK
  <2>2. Len(ring_buffer') = 0 /\ Len(filed) \in Nat
    BY <2>1
  <2> QED
    BY <2>1, <2>2, Sizes DEF Suffix
<1>3. ASSUME NEW s \in Spinners, FileSnapshot(s)
      PROVE  Suffix'
  <2>1. PICK x \in States :
          /\ ring_buffer' = Appended(ring_buffer, x, max_buffer_size)
          /\ filed' = Append(filed, x)
    BY <1>3, Files
  <2> DEFINE b == ring_buffer
             c == ring_buffer'
             o == Len(filed) - Len(b)
  <2>2. b \in Seq(States) /\ filed \in Seq(States)
    BY DEF TypeOK
  <2>3. /\ c \in Seq(States)
        /\ Len(c) = IF Len(b) < max_buffer_size THEN Len(b) + 1 ELSE Len(b)
        /\ Len(c) > 0 /\ c[Len(c)] = x
        /\ \A i \in 1 .. Len(c) - 1 : c[i] = b[i + (Len(b) + 1 - Len(c))]
    <3>1. max_buffer_size \in Nat \ {0} /\ c = Appended(b, x, max_buffer_size)
      BY <2>1, Sizes
    <3> HIDE DEF b, c
    <3> QED
      BY ONLY <2>2, <3>1, AppendedIs, x \in States
  <2>4. /\ Len(filed') = Len(filed) + 1 /\ filed'[Len(filed) + 1] = x
        /\ \A i \in 1 .. Len(filed) : filed'[i] = filed[i]
    BY <2>1, <2>2
  <2>5. Len(b) <= max_buffer_size /\ Len(b) <= Len(filed)
        /\ \A i \in 1 .. Len(b) : b[i] = filed[Len(filed) - Len(b) + i]
    BY DEF Suffix
  <2>6. Len(b) \in Nat /\ Len(filed) \in Nat /\ Len(c) \in Nat /\ max_buffer_size \in Nat
    BY <2>2, <2>3, Sizes
  <2>7. Len(c) <= max_buffer_size /\ Len(c) <= Len(filed) + 1
        /\ (Len(c) = Len(b) + 1 \/ Len(c) = Len(b))
    BY <2>3, <2>5, <2>6, Sizes
  <2> HIDE DEF b, c
  <2>8. ASSUME NEW i \in 1 .. Len(c)
        PROVE  c[i] = filed'[Len(filed) + 1 - Len(c) + i]
    <3>1. CASE i = Len(c)
      BY <2>3, <2>4, <2>6, <3>1
    <3>2. CASE i # Len(c)
      <4> DEFINE j == i + (Len(b) + 1 - Len(c))
      <4>1. i \in 1 .. Len(c) - 1 /\ j \in 1 .. Len(b)
        BY <2>6, <2>7, <3>2
      <4>2. c[i] = b[j]
        BY <2>3, <4>1
      <4>3. b[j] = filed[Len(filed) - Len(b) + j]
        BY <2>5, <4>1
      <4>4. Len(filed) - Len(b) + j = Len(filed) + 1 - Len(c) + i
            /\ Len(filed) - Len(b) + j \in 1 .. Len(filed)
        BY <2>5, <2>6, <4>1
      <4> QED
        BY <2>4, <4>2, <4>3, <4>4
    <3> QED
      BY <3>1, <3>2
  <2> QED
    BY <2>4, <2>7, <2>8 DEF Suffix, c
<1> QED
  BY <1>1, <1>2, <1>3, BufferFrame

LEMMA CountingStep == TypeOK /\ Suffix /\ Counting /\ [Next]_vars => Counting'
<1> SUFFICES ASSUME TypeOK, Suffix, Counting, [Next]_vars PROVE Counting'
  OBVIOUS
<1>t. ring_buffer \in Seq(States) /\ filed \in Seq(States)
  BY DEF TypeOK
<1>l. Len(ring_buffer) \in Nat /\ Len(filed) \in Nat
  BY <1>t
<1>1. CASE GetState \/ GetAllState
  BY <1>1 DEF GetState, GetAllState, Reads, Counting
<1>2. CASE CopiesLastK \/ CopyRaises
  BY <1>2 DEF CopiesLastK, CopyRaises, Counting
<1>3. CASE GetLastK
  <2>1. PICK k \in Ks : reading' = <<CountLastK(ring_buffer, k), Len(filed)>>
    BY <1>3 DEF GetLastK
  <2>2. PICK m \in Nat :
          m <= Len(ring_buffer) /\ CountLastK(ring_buffer, k) = [n |-> Len(ring_buffer), k |-> m]
    BY <1>t, Sizes, CountIs
  <2>3. reading'[1].n = Len(ring_buffer) /\ reading'[1].k = m /\ reading'[2] = Len(filed)
    BY <2>1, <2>2
  <2>4. UNCHANGED <<ring_buffer, filed>>
    BY <1>3 DEF GetLastK, AppOnly
  <2>5. Len(filed) <= Len(filed) - Len(ring_buffer) + Len(ring_buffer)
    BY <1>l
  <2> QED
    BY <1>l, <2>2, <2>3, <2>4, <2>5 DEF Counting
<1>4. CASE UNCHANGED <<reading, result>> /\ UNCHANGED <<ring_buffer, filed>>
  BY <1>4 DEF Counting
<1>5. CASE Clear
  BY <1>5 DEF Clear, MayClear, Counting, app
<1>6. ASSUME NEW s \in Spinners, FileSnapshot(s), reading # Nothing
      PROVE  Counting'
  <2>1. PICK x \in States :
          /\ ring_buffer' = Appended(ring_buffer, x, max_buffer_size)
          /\ filed' = Append(filed, x)
    BY <1>6, Files
  <2>2. reading' = reading
    BY <1>6, Files
  <2>3. Len(filed') = Len(filed) + 1
    BY <1>t, <2>1
  <2>4. Len(ring_buffer') = IF Len(ring_buffer) < max_buffer_size THEN Len(ring_buffer) + 1
                            ELSE Len(ring_buffer)
    BY ONLY <1>t, <2>1, AppendedIs, Sizes, x \in States
  <2>5. PICK n \in Nat, k \in Nat, from \in Nat : reading = <<[n |-> n, k |-> k], from>>
    BY <1>6 DEF TypeOK
  <2>6. reading[1].n = n /\ reading[1].k = k /\ reading[2] = from
    BY <2>5
  <2>7. k <= n /\ n <= Len(ring_buffer) /\ from <= Len(filed) - Len(ring_buffer) + n
    BY <1>6, <2>6 DEF Counting
  <2>8. n <= Len(ring_buffer') /\ from <= Len(filed') - Len(ring_buffer') + n
    BY <1>l, <2>3, <2>4, <2>7
  <2> QED
    BY <2>2, <2>6, <2>7, <2>8 DEF Counting
<1>7. CASE reading = Nothing /\ reading' = reading
  BY <1>7 DEF Counting
<1> QED
  <2>1. CASE UNCHANGED <<reading, result>>
    BY <1>4, <1>5, <1>6, <1>7, <2>1, BufferFrame
  <2> QED
    BY <1>1, <1>2, <1>3, <2>1, ReadFrame

\* The time a read ends is not before its begin.
LEMMA NowIs ==
  ASSUME TypeOK, Suffix, Counting
  PROVE  Now \in Nat /\ Now <= Len(filed)
<1>1. Len(ring_buffer) \in Nat /\ Len(filed) \in Nat
  BY DEF TypeOK
<1>2. CASE reading = Nothing
  BY <1>1, <1>2 DEF Now
<1>3. CASE reading # Nothing
  <2>1. PICK n \in Nat, k \in Nat, from \in Nat : reading = <<[n |-> n, k |-> k], from>>
    BY <1>3 DEF TypeOK
  <2>2. reading[1].n = n /\ reading[2] = from
    BY <2>1
  <2>3. n <= Len(ring_buffer) /\ from <= Len(filed) - Len(ring_buffer) + n
    BY <1>3, <2>2 DEF Counting
  <2>4. from <= Len(filed)
    BY <1>1, <2>3
  <2> QED
    BY <1>3, <2>2, <2>4 DEF Now
<1> QED
  BY <1>2, <1>3

\* What a read returns: from is when it began.
LEMMA ReadReturns ==
  ASSUME TypeOK, Suffix, Counting, GetState \/ GetAllState \/ CopiesLastK
  PROVE  /\ UNCHANGED <<ring_buffer, filed>> /\ reading' = Nothing
         /\ result'.from = Now
         /\ \E i \in Now .. Len(filed) :
              /\ result'.n \in Nat /\ result'.n <= i
              /\ result'.states = SubSeq(filed, i - result'.n + 1, i)
<1> DEFINE b == ring_buffer
           o == Len(filed) - Len(b)
           Right == /\ result'.from = Now
                    /\ \E i \in Now .. Len(filed) :
                         /\ result'.n \in Nat /\ result'.n <= i
                         /\ result'.states = SubSeq(filed, i - result'.n + 1, i)
<1>t. b \in Seq(States) /\ filed \in Seq(States)
  BY DEF TypeOK
<1>l. Len(b) \in Nat /\ Len(filed) \in Nat
  BY <1>t
<1>s. Len(b) <= Len(filed) /\ \A i \in 1 .. Len(b) : b[i] = filed[Len(filed) - Len(b) + i]
  BY DEF Suffix
<1>u. UNCHANGED <<ring_buffer, filed>> /\ reading' = Nothing
  BY DEF GetState, GetAllState, CopiesLastK, AppOnly, Reads
<1>n. Now \in Nat /\ Now <= Len(filed)
  BY NowIs
<1>w. ASSUME NEW n \in Nat, NEW i \in Nat, n <= i, i <= Len(b), Now <= o + i,
             result' = [states |-> SubSeq(b, i - n + 1, i), from |-> Now, n |-> n]
      PROVE  Right
  <2> DEFINE j == o + i
  <2>1. result'.from = Now /\ result'.n = n /\ result'.states = SubSeq(b, i - n + 1, i)
    BY <1>w
  <2>2. j \in Now .. Len(filed) /\ n <= j
    BY <1>l, <1>n, <1>s, <1>w
  <2>3. SubSeq(b, i - n + 1, i) = SubSeq(filed, j - n + 1, j)
    BY ONLY <1>t, <1>s, <1>w, n \in Nat, i \in Nat, WindowOfEnd
  <2> HIDE DEF j
  <2> QED
    BY <2>1, <2>2, <2>3
<1> HIDE DEF Right
<1>1. ASSUME GetState
      PROVE  Right
  <2> DEFINE n == Min({1, Len(b)})
  <2>1. n \in Nat /\ n <= Len(b) /\ Newest(b) = SubSeq(b, Len(b) - n + 1, Len(b))
    BY <1>t, NewestIs
  <2>2. Now = Len(filed)
    BY <1>1 DEF GetState, Reads, Now
  <2>3. result' = [states |-> SubSeq(b, Len(b) - n + 1, Len(b)), from |-> Now, n |-> n]
    BY <1>1, <2>1, <2>2 DEF GetState, Returns
  <2> HIDE DEF n
  <2>4. Now <= o + Len(b) /\ Len(b) <= Len(b)
    BY <1>l, <2>2
  <2> QED
    BY <1>l, <1>w, <2>1, <2>3, <2>4
<1>2. ASSUME GetAllState
      PROVE  Right
  <2>1. Now = Len(filed)
    BY <1>2 DEF GetAllState, Reads, Now
  <2>2. b = SubSeq(b, Len(b) - Len(b) + 1, Len(b))
    BY <1>t, <1>l
  <2>3. result' = [states |-> b, from |-> Now, n |-> Len(b)]
    BY <1>2, <2>1 DEF GetAllState, Returns
  <2>4. Now <= o + Len(b) /\ Len(b) <= Len(b)
    BY <1>l, <2>1
  <2> QED
    BY <1>l, <1>w, <2>2, <2>3, <2>4
<1>3. ASSUME CopiesLastK
      PROVE  Right
  <2>1. PICK n \in Nat, k \in Nat, from \in Nat : reading = <<[n |-> n, k |-> k], from>>
    BY <1>3 DEF CopiesLastK, TypeOK
  <2>2. reading[1] = [n |-> n, k |-> k] /\ reading[2] = from /\ reading # Nothing
    BY <1>3, <2>1 DEF CopiesLastK
  <2>3. k <= n /\ n <= Len(b) /\ from <= o + n /\ Now = from
    BY <2>2 DEF Counting, Now
  <2>4. PICK i \in n .. Len(b) :
          CopyLastK(b, [n |-> n, k |-> k], Small) = SubSeq(b, i - k + 1, i)
    <3>1. Small \in Nat /\ n \in Nat /\ k \in Nat
      BY Sizes
    <3> QED
      BY ONLY <1>t, <2>3, <3>1, CopyIs, Zenon
  <2>5. result' = [states |-> SubSeq(b, i - k + 1, i), from |-> Now, n |-> k]
    <3>1. reading[1].k = k
      BY <2>2
    <3>2. result' = [states |-> CopyLastK(b, reading[1], Small), from |-> reading[2],
                     n |-> reading[1].k]
      BY <1>3 DEF CopiesLastK, Returns
    <3>3. CopyLastK(b, reading[1], Small) = SubSeq(b, i - k + 1, i)
      BY <2>2, <2>4
    <3>4. reading[2] = Now
      BY <2>2, <2>3
    <3> QED
      BY ONLY <3>1, <3>2, <3>3, <3>4
  <2>6. i \in Nat /\ k <= i /\ i <= Len(b) /\ Now <= o + i
    BY <1>l, <2>3
  <2> QED
    BY <1>w, <2>5, <2>6
<1> QED
  BY <1>1, <1>2, <1>3, <1>u DEF Right

LEMMA ReturnedStep ==
  TypeOK /\ Suffix /\ Counting /\ Returned /\ [Next]_vars => Returned'
<1> SUFFICES ASSUME TypeOK, Suffix, Counting, Returned, [Next]_vars PROVE Returned'
  OBVIOUS
<1>n. Now \in Nat /\ Now <= Len(filed) /\ filed \in Seq(States) /\ Len(filed) \in Nat
  BY NowIs DEF TypeOK
<1>r. result \in [states : Seq(States), from : Nat, n : Nat]
  BY DEF TypeOK
<1>i. PICK i \in result.from .. Now :
        result.n <= i /\ result.states = SubSeq(filed, i - result.n + 1, i)
  BY DEF Returned
<1>1. CASE GetState \/ GetAllState \/ CopiesLastK
  <2>1. PICK j \in Now .. Len(filed) :
          /\ result'.n <= j /\ result'.states = SubSeq(filed, j - result'.n + 1, j)
    BY <1>1, ReadReturns
  <2>2. UNCHANGED filed /\ result'.from = Now /\ Now' = Len(filed)
    BY <1>1, ReadReturns DEF Now
  <2> QED
    BY <2>1, <2>2 DEF Returned
<1>2. CASE GetLastK
  <2>1. UNCHANGED <<filed, result>> /\ Now = Len(filed) /\ Now' = Len(filed)
    BY <1>2 DEF GetLastK, AppOnly, Reads, Now, Nothing
  <2> QED
    BY <1>i, <2>1 DEF Returned
<1>3. ASSUME NEW s \in Spinners, FileSnapshot(s)
      PROVE  Returned'
  <2>1. PICK x \in States : filed' = Append(filed, x)
    BY <1>3, Files
  <2>2. UNCHANGED <<reading, result>>
    BY <1>3, Files
  <2>3. Len(filed') = Len(filed) + 1
    BY <1>n, <2>1
  <2>4. Now' \in Nat /\ Now <= Now'
    BY <1>n, <2>2, <2>3 DEF Now
  <2>5. result.n \in Nat /\ i \in Nat /\ i <= Len(filed) /\ i \in result.from .. Now'
    BY <1>n, <1>r, <2>4
  <2>6. SubSeq(filed', i - result.n + 1, i) = SubSeq(filed, i - result.n + 1, i)
    <3> DEFINE n == result.n
    <3>1. n \in Nat /\ i \in Nat /\ n <= i /\ i <= Len(filed) /\ filed \in Seq(States)
      BY <1>n, <1>i, <2>5
    <3> HIDE DEF n
    <3>2. SubSeq(Append(filed, x), i - n + 1, i) = SubSeq(filed, i - n + 1, i)
      BY ONLY <3>1, x \in States, WindowStays
    <3> QED
      BY <2>1, <3>2 DEF n
  <2> QED
    BY <1>i, <2>2, <2>5, <2>6 DEF Returned
<1>4. CASE UNCHANGED <<reading, result>> /\ UNCHANGED filed
  BY <1>4 DEF Returned, Now
<1>5. CASE Clear
  BY <1>5 DEF Clear, AppOnly, app, Returned, Now
<1>6. CASE CopyRaises
  <2>1. UNCHANGED <<filed, result>> /\ Now' = Len(filed)
    BY <1>6 DEF CopyRaises, AppOnly, Now
  <2>2. i \in result.from .. Len(filed)
    BY <1>n, <1>r
  <2> QED
    BY <1>i, <2>1, <2>2 DEF Returned
<1> QED
  <2>1. CASE UNCHANGED <<reading, result>>
    BY <1>3, <1>4, <1>5, <2>1, BufferFrame
  <2> QED
    BY <1>1, <1>2, <1>6, <2>1, ReadFrame

-----------------------------------------------------------------------------
(* Values on their way *)

\* The last value published on a topic changes with the Publish of that topic only.
LEMMA PublishedStays ==
  ASSUME TypeOK, [Next]_vars, ~Publish, NEW f \in Fields
  PROVE  Published(f)' = Published(f)
<1>1. CASE Put
  <2>1. publishing = 0 /\ publishing' = 1 /\ puts' = puts + 1 /\ puts \in Nat
    BY <1>1 DEF Put, TypeOK
  <2>2. \E i \in 1 .. Len(FieldOrder) : FieldOrder[i] = f
    BY Names
  <2>3. Published(f) = puts
    BY <2>1 DEF Published
  <2>4. Published(f)' = puts' - 1
    BY <2>1, <2>2 DEF Published
  <2> QED
    BY <2>1, <2>3, <2>4
<1>2. CASE UNCHANGED <<puts, publishing>>
  BY <1>2 DEF Published
<1>3. CASE CreatePublisher \/ Announce \/ Match
  BY <1>2, <1>3 DEF CreatePublisher, Announce, Match, server
<1>4. CASE StartSpin \/ Look \/ CreateSubscription \/ FirstState \/ WaitForDiscovery \/ Stop
  BY <1>2, <1>4 DEF StartSpin, Look, CreateSubscription, FirstState, WaitForDiscovery, Stop,
    StartOnly, server
<1>5. CASE \E s \in Spinners : UpdateField(s) \/ FileSnapshot(s)
  BY <1>2, <1>5 DEF UpdateField, FileSnapshot, server
<1>6. CASE GetState \/ GetAllState \/ GetLastK \/ TakesIterator \/ CopiesLastK \/ CopyRaises \/ Clear
  BY <1>2, <1>6 DEF GetState, GetAllState, GetLastK, TakesIterator, CopiesLastK,
    CopyRaises, Clear, AppOnly, server
<1>7. CASE UNCHANGED vars
  BY <1>2, <1>7 DEF vars, server
<1> QED
  BY <1>1, <1>3, <1>4, <1>5, <1>6, <1>7 DEF Next

LEMMA PublishedNext ==
  ASSUME TypeOK, Publish, NEW f \in Fields
  PROVE  /\ publishing \in 1 .. Len(FieldOrder)
         /\ FieldOrder[publishing] = f =>
              Published(f) = puts - 1 /\ Published(f)' = puts
         /\ FieldOrder[publishing] # f => Published(f)' = Published(f)
<1> DEFINE p == publishing
           l == Len(FieldOrder)
<1>1. p \in 0 .. l /\ p > 0 /\ puts' = puts /\ puts \in Nat
  BY DEF Publish, TypeOK, server
<1>2. l \in Nat /\ p \in 1 .. l
  BY ONLY <1>1, Names
<1>3. publishing' = IF p = l THEN 0 ELSE p + 1
  BY DEF Publish
<1>4. ASSUME NEW i \in 1 .. l, NEW j \in 1 .. l, FieldOrder[i] = FieldOrder[j]
      PROVE  i = j
  BY ONLY <1>4, Names
<1>5. CASE FieldOrder[p] = f
  <2>1. \E i \in p .. l : FieldOrder[i] = f
    BY <1>2, <1>5
  <2>2. ~\E i \in p + 1 .. l : FieldOrder[i] = f
    BY <1>2, <1>4, <1>5
  <2>3. Published(f) = puts - 1
    BY <1>1, <2>1 DEF Published
  <2>4. Published(f)' = puts
    BY <1>1, <1>3, <2>2 DEF Published
  <2> QED
    BY <1>2, <1>5, <2>3, <2>4
<1>6. CASE FieldOrder[p] # f
  <2>1. (\E i \in p .. l : FieldOrder[i] = f) <=> (\E i \in p + 1 .. l : FieldOrder[i] = f)
    BY <1>2, <1>6
  <2>2. CASE p = l
    <3>1. ~\E i \in p + 1 .. l : FieldOrder[i] = f
      BY <1>2, <2>2
    <3> QED
      BY <1>1, <1>2, <1>3, <1>6, <2>1, <2>2, <3>1 DEF Published
  <2>3. CASE p # l
    <3>1. publishing' = p + 1 /\ publishing' > 0
      BY <1>2, <1>3, <2>3
    <3> QED
      BY <1>1, <1>2, <1>6, <2>1, <3>1 DEF Published
  <2> QED
    BY <2>2, <2>3
<1> QED
  BY <1>5, <1>6

\* A topic, the latest state and what was filed change with these steps only.
LEMMA ValueFrame ==
  [Next]_vars =>
    \/ Publish \/ \E s \in Spinners : UpdateField(s) \/ FileSnapshot(s)
    \/ UNCHANGED <<topic, latest_state, spin, filed>>
<1> SUFFICES ASSUME [Next]_vars, ~Publish,
                    ~\E s \in Spinners : UpdateField(s) \/ FileSnapshot(s)
             PROVE  UNCHANGED <<topic, latest_state, spin, filed>>
  BY Zenon
<1>1. CASE CreatePublisher \/ Put \/ Announce \/ Match
  BY <1>1 DEF CreatePublisher, Put, Announce, Match, copy
<1>2. CASE StartSpin \/ Look \/ CreateSubscription \/ FirstState \/ WaitForDiscovery \/ Stop
  BY <1>2 DEF StartSpin, Look, CreateSubscription, FirstState, WaitForDiscovery, Stop,
    StartOnly, copy
<1>3. CASE GetState \/ GetAllState \/ GetLastK \/ TakesIterator \/ CopiesLastK \/ CopyRaises \/ Clear
  BY <1>3 DEF GetState, GetAllState, GetLastK, TakesIterator, CopiesLastK,
    CopyRaises, Clear, AppOnly
<1>4. CASE UNCHANGED vars
  BY <1>4 DEF vars, copy
<1> QED
  BY <1>1, <1>2, <1>3, <1>4 DEF Next

\* What Publish does to the topics.
LEMMA Publishes ==
  ASSUME TypeOK, Publish
  PROVE  /\ UNCHANGED <<latest_state, spin, filed, since>>
         /\ \A f \in Fields :
              IF FieldOrder[publishing] = f /\ since[f] # Ignored
              THEN topic'[f] = Appended(topic[f], puts, qos_depth)
              ELSE topic'[f] = topic[f]
<1> DEFINE h == FieldOrder[publishing]
<1>1. topic \in [Fields -> Seq(Nat)]
  BY DEF TypeOK
<1>2. topic' = IF since[h] = Ignored THEN topic
               ELSE [topic EXCEPT ![h] = Appended(@, puts, qos_depth)]
  BY DEF Publish
<1>3. UNCHANGED <<latest_state, spin, filed, since>>
  BY DEF Publish, copy, discovery
<1> QED
  BY <1>1, <1>2, <1>3

\* What a callback does to a topic and the latest state.
LEMMA Callback ==
  ASSUME TypeOK, NEW s \in Spinners, UpdateField(s)
  PROVE  /\ UNCHANGED <<filed, since>> /\ spin[s] = Nothing
         /\ latest_state \in States /\ latest_state' \in States
         /\ spin'[s] = <<latest_state'>>
         /\ \E f \in Fields :
              /\ topic[f] \in Seq(Nat) /\ topic[f] # << >> /\ topic'[f] = Tail(topic[f])
              /\ DOMAIN latest_state' = DOMAIN latest_state \cup {f}
              /\ latest_state'[f] = Head(topic[f])
              /\ \A g \in Fields \ {f} : topic'[g] = topic[g]
              /\ \A g \in DOMAIN latest_state \ {f} : latest_state'[g] = latest_state[g]
<1>1. PICK f \in Fields :
        /\ topic[f] # << >> /\ topic' = [topic EXCEPT ![f] = Tail(@)]
        /\ latest_state' = [g \in DOMAIN latest_state \cup {f} |->
                              IF g = f THEN Head(topic[f]) ELSE latest_state[g]]
  BY DEF UpdateField
<1>2. topic \in [Fields -> Seq(Nat)] /\ latest_state \in States
  BY DEF TypeOK
<1>3. Head(topic[f]) \in Nat
  BY <1>1, <1>2
<1> DEFINE v == Head(topic[f])
<1>4. /\ v \in Nat
      /\ latest_state' = [g \in DOMAIN latest_state \cup {f} |->
                            IF g = f THEN v ELSE latest_state[g]]
  BY <1>1, <1>3
<1>5. latest_state' \in States
  <2> HIDE DEF v
  <2> QED
    BY ONLY <1>2, <1>4, f \in Fields, Updates
<1>6. UNCHANGED <<filed, since>> /\ spin[s] = Nothing /\ spin'[s] = <<latest_state'>>
  BY DEF UpdateField, TypeOK, discovery
<1> QED
  BY <1>1, <1>2, <1>4, <1>5, <1>6

LEMMA ForwardStep == TypeOK /\ Forward /\ [Next]_vars => Forward'
<1> SUFFICES ASSUME TypeOK, Forward, [Next]_vars PROVE Forward'
  OBVIOUS
<1>t. /\ topic \in [Fields -> Seq(Nat)] /\ latest_state \in States /\ puts \in Nat
      /\ \A f \in Fields : topic[f] \in Seq(Nat)
  BY DEF TypeOK
<1>a. \A f \in Fields : \A i, j \in 1 .. Len(topic[f]) : i <= j => topic[f][i] <= topic[f][j]
  BY DEF Forward
<1>b. \A f \in Fields : \A i \in 1 .. Len(topic[f]) :
        /\ topic[f][i] <= Published(f)
        /\ f \in DOMAIN latest_state => latest_state[f] <= topic[f][i]
  BY DEF Forward
<1>c. \A f \in DOMAIN latest_state : latest_state[f] <= Published(f)
  BY DEF Forward
<1>d. DOMAIN latest_state \subseteq Fields /\ \A f \in DOMAIN latest_state : latest_state[f] \in Nat
  BY <1>t, FieldsOfStates
<1>e. \A f \in Fields : Published(f) \in Int /\ Published(f) <= puts
  BY PublishedType
<1>1. CASE Publish
  <2>1. UNCHANGED latest_state
    BY <1>1, Publishes
  <2>2. ASSUME NEW f \in Fields
        PROVE  /\ Published(f) <= Published(f)'
               /\ \A i, j \in 1 .. Len(topic'[f]) : i <= j => topic'[f][i] <= topic'[f][j]
               /\ \A i \in 1 .. Len(topic'[f]) :
                    /\ topic'[f][i] <= Published(f)'
                    /\ f \in DOMAIN latest_state => latest_state[f] <= topic'[f][i]
    <3> DEFINE s == topic[f]
               t == topic'[f]
               P == Published(f)
               Q == Published(f)'
    <3>1. s \in Seq(Nat) /\ Len(s) \in Nat /\ P \in Int
      BY <1>t, <1>e
    <3>2. \A i \in 1 .. Len(s) : s[i] \in Nat /\ s[i] <= P
      BY <1>b, <3>1
    <3>3. \A i, j \in 1 .. Len(s) : i <= j => s[i] <= s[j]
      BY <1>a
    <3>4. f \in DOMAIN latest_state =>
            /\ latest_state[f] \in Nat /\ latest_state[f] <= P
            /\ \A i \in 1 .. Len(s) : latest_state[f] <= s[i]
      BY <1>b, <1>c, <1>d
    <3>5. CASE FieldOrder[publishing] = f
      <4>1. P = puts - 1 /\ Q = puts
        BY <1>1, <3>5, PublishedNext
      <4>2. CASE t = s
        <5> HIDE DEF s, t, P, Q
        <5>1. P <= Q /\ \A i \in 1 .. Len(s) : s[i] <= Q
          BY <1>t, <3>1, <3>2, <4>1
        <5> QED
          BY <3>3, <3>4, <4>2, <5>1 DEF s, t, P, Q
      <4>3. CASE t = Appended(s, puts, qos_depth)
        <5> DEFINE k == Len(s) + 1 - Len(t)
        <5> HIDE DEF s, t, P, Q
        <5>1. /\ t \in Seq(Nat) /\ Len(t) = IF Len(s) < qos_depth THEN Len(s) + 1 ELSE Len(s)
              /\ Len(t) > 0 /\ t[Len(t)] = puts
              /\ \A i \in 1 .. Len(t) - 1 : t[i] = s[i + k]
          <6> DEFINE S == Nat
          <6>1. s \in Seq(S) /\ puts \in S /\ qos_depth \in Nat \ {0}
            BY <1>t, <3>1, Sizes
          <6> HIDE DEF S
          <6>2. /\ t \in Seq(S) /\ Len(t) = IF Len(s) < qos_depth THEN Len(s) + 1 ELSE Len(s)
                /\ Len(t) > 0 /\ t[Len(t)] = puts
                /\ \A i \in 1 .. Len(t) - 1 : t[i] = s[i + (Len(s) + 1 - Len(t))]
            BY ONLY <4>3, <6>1, AppendedIs
          <6> QED
            BY <6>2 DEF S
        <5>2. Len(t) \in Nat /\ k \in {0, 1} /\ Len(t) - 1 + k = Len(s)
          <6>1. Len(t) \in Nat /\ (Len(t) = Len(s) + 1 \/ Len(t) = Len(s))
            BY <5>1
          <6> QED
            BY <3>1, <6>1
        <5> HIDE DEF k
        <5>3. \A i \in 1 .. Len(t) - 1 : i + k \in 1 .. Len(s)
          BY <3>1, <5>2
        <5>4. ASSUME NEW i \in 1 .. Len(t)
              PROVE  t[i] \in Nat /\ t[i] <= puts
          <6>1. CASE i = Len(t)
            BY <1>t, <5>1, <6>1
          <6>2. CASE i # Len(t)
            <7>1. i \in 1 .. Len(t) - 1
              BY <5>2, <6>2
            <7>2. t[i] \in Nat /\ t[i] <= P
              BY <3>2, <5>1, <5>3, <7>1
            <7> QED
              BY <1>t, <3>1, <4>1, <7>2
          <6> QED
            BY <6>1, <6>2
        <5>5. ASSUME NEW i \in 1 .. Len(t), NEW j \in 1 .. Len(t), i <= j
              PROVE  t[i] <= t[j]
          <6>1. CASE j = Len(t)
            BY <5>1, <5>4, <6>1
          <6>2. CASE j # Len(t)
            <7>1. i \in 1 .. Len(t) - 1 /\ j \in 1 .. Len(t) - 1 /\ i + k <= j + k
              BY <5>2, <5>5, <6>2
            <7> QED
              BY <3>3, <5>1, <5>3, <7>1
          <6> QED
            BY <6>1, <6>2
        <5>6. ASSUME NEW i \in 1 .. Len(t), f \in DOMAIN latest_state
              PROVE  latest_state[f] <= t[i]
          <6>1. CASE i = Len(t)
            BY <1>t, <3>1, <3>4, <4>1, <5>1, <5>6, <6>1
          <6>2. CASE i # Len(t)
            <7>1. i \in 1 .. Len(t) - 1
              BY <5>2, <6>2
            <7> QED
              BY <3>4, <5>1, <5>3, <5>6, <7>1
          <6> QED
            BY <6>1, <6>2
        <5>7. P <= Q
          BY <1>t, <4>1
        <5> QED
          BY <4>1, <5>4, <5>5, <5>6, <5>7 DEF s, t, P, Q
      <4> QED
        BY <1>1, <3>5, <4>2, <4>3, Publishes
    <3>6. CASE FieldOrder[publishing] # f
      <4>1. Q = P /\ t = s
        BY <1>1, <3>6, PublishedNext, Publishes
      <4> HIDE DEF s, t, P, Q
      <4>2. P <= Q
        BY <3>1, <4>1
      <4> QED
        BY <3>2, <3>3, <3>4, <4>1, <4>2 DEF s, t, P, Q
    <3> QED
      BY <3>5, <3>6
  <2>3. ASSUME NEW f \in DOMAIN latest_state
        PROVE  latest_state[f] <= Published(f)'
    <3>1. f \in Fields /\ latest_state[f] <= Published(f) /\ Published(f) <= Published(f)'
      BY <1>c, <1>d, <2>2
    <3>2. Published(f)' = Published(f) \/ Published(f)' = puts
      BY <1>1, <3>1, PublishedNext
    <3> QED
      BY <1>d, <1>e, <1>t, <3>1, <3>2
  <2> QED
    BY <2>1, <2>2, <2>3 DEF Forward
<1>2. ASSUME NEW s \in Spinners, UpdateField(s)
      PROVE  Forward'
  <2>1. PICK f \in Fields :
          /\ topic[f] \in Seq(Nat) /\ topic[f] # << >> /\ topic'[f] = Tail(topic[f])
          /\ DOMAIN latest_state' = DOMAIN latest_state \cup {f}
          /\ latest_state'[f] = Head(topic[f])
          /\ \A g \in Fields \ {f} : topic'[g] = topic[g]
          /\ \A g \in DOMAIN latest_state \ {f} : latest_state'[g] = latest_state[g]
    BY <1>2, Callback
  <2> DEFINE q == topic[f]
             t == topic'[f]
  <2>2. /\ t \in Seq(Nat) /\ Len(q) \in Nat \ {0} /\ Len(t) = Len(q) - 1
        /\ \A i \in 1 .. Len(t) : t[i] = q[i + 1]
        /\ latest_state'[f] = q[1]
    BY <2>1
  <2>3. ~Publish
    <3>1. publishing \in Int /\ publishing' = publishing
      BY <1>2 DEF UpdateField, server, TypeOK
    <3> QED
      BY <3>1 DEF Publish
  <2>4. \A g \in Fields : Published(g)' = Published(g)
    BY <2>3, PublishedStays
  <2>5. /\ \A i, j \in 1 .. Len(q) : i <= j => q[i] <= q[j]
        /\ \A i \in 1 .. Len(q) : q[i] <= Published(f)
    BY <1>a, <1>b
  <2> HIDE DEF q, t
  <2>6. /\ \A i, j \in 1 .. Len(t) : i <= j => t[i] <= t[j]
        /\ \A i \in 1 .. Len(t) : t[i] <= Published(f) /\ q[1] <= t[i]
        /\ q[1] <= Published(f)
    <3>1. \A i \in 1 .. Len(t) : i + 1 \in 1 .. Len(q) /\ 1 <= i + 1
      BY <2>2
    <3>2. 1 \in 1 .. Len(q)
      BY <2>2
    <3>3. ASSUME NEW i \in 1 .. Len(t), NEW j \in 1 .. Len(t), i <= j
          PROVE  t[i] <= t[j]
      <4>1. i + 1 <= j + 1
        BY <3>3
      <4> QED
        BY <2>2, <2>5, <3>1, <4>1
    <3>4. ASSUME NEW i \in 1 .. Len(t)
          PROVE  t[i] <= Published(f) /\ q[1] <= t[i]
      BY <2>2, <2>5, <3>1, <3>2
    <3> QED
      BY <2>5, <3>2, <3>3, <3>4
  <2>7. ASSUME NEW g \in Fields
        PROVE  /\ \A i, j \in 1 .. Len(topic'[g]) : i <= j => topic'[g][i] <= topic'[g][j]
               /\ \A i \in 1 .. Len(topic'[g]) :
                    /\ topic'[g][i] <= Published(g)
                    /\ g \in DOMAIN latest_state' => latest_state'[g] <= topic'[g][i]
               /\ g \in DOMAIN latest_state' => latest_state'[g] <= Published(g)
    <3>1. CASE g = f
      BY <2>2, <2>6, <3>1 DEF t
    <3>2. CASE g # f
      BY <1>a, <1>b, <1>c, <2>1, <3>2
    <3> QED
      BY <3>1, <3>2
  <2>8. DOMAIN latest_state' \subseteq Fields
    BY <1>d, <2>1
  <2> QED
    BY <2>4, <2>7, <2>8 DEF Forward
<1>3. CASE ~Publish /\ UNCHANGED <<topic, latest_state>>
  <2>1. \A g \in Fields : Published(g)' = Published(g)
    BY <1>3, PublishedStays
  <2> QED
    BY <1>3, <1>a, <1>b, <1>c, <1>d, <2>1 DEF Forward
<1>4. ASSUME NEW s \in Spinners, FileSnapshot(s), ~Publish
      PROVE  Forward'
  BY <1>3, <1>4 DEF FileSnapshot
<1> QED
  BY <1>1, <1>2, <1>3, <1>4, ValueFrame

LEMMA SnapshotStep == TypeOK /\ Snapshot /\ [Next]_vars => Snapshot'
<1> SUFFICES ASSUME TypeOK, Snapshot, [Next]_vars PROVE Snapshot'
  OBVIOUS
<1>1. CASE UNCHANGED <<latest_state, spin, filed>>
  BY <1>1 DEF Snapshot
<1>2. CASE Publish
  BY <1>1, <1>2, Publishes
<1>3. ASSUME NEW s \in Spinners, UpdateField(s)
      PROVE  Snapshot'
  <2>1. s = 1 /\ spin'[s] = <<latest_state'>>
    BY <1>3, Callback DEF Spinners
  <2> QED
    BY <2>1 DEF Snapshot, Nothing
<1>4. ASSUME NEW s \in Spinners, FileSnapshot(s)
      PROVE  Snapshot'
  <2>1. PICK x \in States : spin[s] = <<x>> /\ filed' = Append(filed, x)
    BY <1>4, Files
  <2>2. s = 1 /\ spin[1] # Nothing /\ spin'[1] = Nothing /\ UNCHANGED latest_state
    BY <1>4 DEF Spinners, FileSnapshot, TypeOK
  <2>3. spin[1] = <<latest_state>>
    BY <2>2 DEF Snapshot
  <2>4. x = latest_state
    BY <2>1, <2>2, <2>3
  <2>5. filed \in Seq(States)
    BY DEF TypeOK
  <2>6. filed' # << >> /\ Last(filed') = x
    BY <2>1, <2>5 DEF Last
  <2> QED
    BY <2>2, <2>4, <2>6 DEF Snapshot
<1> QED
  BY <1>1, <1>2, <1>3, <1>4, ValueFrame

LEMMA MonotoneStep ==
  TypeOK /\ Forward /\ Snapshot /\ Monotone /\ [Next]_vars => Monotone'
<1> SUFFICES ASSUME TypeOK, Forward, Snapshot, Monotone, [Next]_vars PROVE Monotone'
  OBVIOUS
<1>t. /\ filed \in Seq(States) /\ Len(filed) \in Nat /\ latest_state \in States
      /\ \A i \in 1 .. Len(filed) : filed[i] \in States
  BY DEF TypeOK
<1>a. \A i \in 1 .. Len(filed) : NoNewer(filed[i], latest_state)
  BY DEF Monotone
<1>b. \A i, j \in 1 .. Len(filed) : i <= j => NoNewer(filed[i], filed[j])
  BY DEF Monotone
<1>1. CASE UNCHANGED <<latest_state, filed>>
  BY <1>1, <1>a, <1>b DEF Monotone
<1>2. CASE Publish
  BY <1>1, <1>2, Publishes
<1>3. ASSUME NEW s \in Spinners, UpdateField(s)
      PROVE  Monotone'
  <2>1. PICK f \in Fields :
          /\ topic[f] \in Seq(Nat) /\ topic[f] # << >>
          /\ DOMAIN latest_state' = DOMAIN latest_state \cup {f}
          /\ latest_state'[f] = Head(topic[f])
          /\ \A g \in DOMAIN latest_state \ {f} : latest_state'[g] = latest_state[g]
    BY <1>3, Callback
  <2>2. latest_state' \in States /\ filed' = filed
    BY <1>3, Callback
  <2>3. Head(topic[f]) = topic[f][1] /\ 1 \in 1 .. Len(topic[f])
    BY <2>1
  <2>4. f \in DOMAIN latest_state => latest_state[f] <= latest_state'[f]
    BY <2>1, <2>3 DEF Forward
  <2>5. \A g \in DOMAIN latest_state : latest_state[g] \in Nat
    BY <1>t, FieldsOfStates
  <2>6. NoNewer(latest_state, latest_state')
    BY <2>1, <2>4, <2>5 DEF NoNewer
  <2>7. \A i \in 1 .. Len(filed) : NoNewer(filed[i], latest_state')
    BY <1>t, <1>a, <2>2, <2>6, NoNewerIsOrder
  <2> QED
    BY <1>b, <2>2, <2>7 DEF Monotone
<1>4. ASSUME NEW s \in Spinners, FileSnapshot(s)
      PROVE  Monotone'
  <2>1. PICK x \in States : spin[s] = <<x>> /\ filed' = Append(filed, x)
    BY <1>4, Files
  <2>2. s = 1 /\ spin[1] # Nothing /\ UNCHANGED latest_state
    BY <1>4 DEF Spinners, FileSnapshot
  <2>3. x = latest_state
    BY <2>1, <2>2 DEF Snapshot
  <2>4. /\ Len(filed') = Len(filed) + 1 /\ filed'[Len(filed) + 1] = latest_state
        /\ \A i \in 1 .. Len(filed) : filed'[i] = filed[i]
    BY <1>t, <2>1, <2>3
  <2>5. NoNewer(latest_state, latest_state)
    BY <1>t, NoNewerIsOrder
  <2>6. \A i \in 1 .. Len(filed') : NoNewer(filed'[i], latest_state)
    <3>1. \A i \in 1 .. Len(filed') : i \in 1 .. Len(filed) \/ i = Len(filed) + 1
      BY <1>t, <2>4
    <3> QED
      BY <1>a, <2>4, <2>5, <3>1
  <2>7. ASSUME NEW i \in 1 .. Len(filed'), NEW j \in 1 .. Len(filed'), i <= j
        PROVE  NoNewer(filed'[i], filed'[j])
    <3>1. CASE j = Len(filed) + 1
      BY <2>4, <2>6, <3>1
    <3>2. CASE j # Len(filed) + 1
      <4>1. i \in 1 .. Len(filed) /\ j \in 1 .. Len(filed)
        BY <1>t, <2>4, <2>7, <3>2
      <4> QED
        BY <1>b, <2>4, <2>7, <4>1
    <3> QED
      BY <3>1, <3>2
  <2> QED
    BY <2>2, <2>6, <2>7 DEF Monotone
<1> QED
  BY <1>1, <1>2, <1>3, <1>4, ValueFrame

LEMMA MatchedStep == TypeOK /\ Matched /\ [Next]_vars => Matched'
<1> SUFFICES ASSUME TypeOK, Matched, [Next]_vars PROVE Matched'
  OBVIOUS
<1> USE DEF Matched
<1>1. CASE UNCHANGED <<start, announced>>
  BY <1>1 DEF start
<1>2. CASE CreatePublisher \/ Put \/ Publish \/ Match
  BY <1>1, <1>2 DEF CreatePublisher, Put, Publish, Match, discovery
<1>3. CASE Announce
  BY <1>3 DEF Announce, start
<1>4. CASE StartSpin \/ Look \/ CreateSubscription \/ FirstState \/ WaitForDiscovery \/ Stop
  <2>1. UNCHANGED announced
    BY <1>4 DEF StartSpin, Look, CreateSubscription, FirstState, WaitForDiscovery, Stop,
      StartOnly, discovery
  <2>2. CASE StartSpin
    BY <2>1, <2>2 DEF StartSpin
  <2>3. CASE Look
    BY <2>1, <2>3 DEF Look
  <2>4. CASE CreateSubscription
    BY <2>1, <2>4 DEF CreateSubscription
  <2>5. CASE FirstState \/ WaitForDiscovery \/ Stop
    BY <2>1, <2>5 DEF FirstState, WaitForDiscovery, Stop
  <2> QED
    BY <1>4, <2>2, <2>3, <2>4, <2>5
<1>5. CASE \E s \in Spinners : UpdateField(s) \/ FileSnapshot(s)
  BY <1>1, <1>5 DEF UpdateField, FileSnapshot, discovery
<1>6. CASE GetState \/ GetAllState \/ GetLastK \/ TakesIterator \/ CopiesLastK \/ CopyRaises \/ Clear
  BY <1>1, <1>6 DEF GetState, GetAllState, GetLastK, TakesIterator, CopiesLastK,
    CopyRaises, Clear, AppOnly, discovery
<1>7. CASE UNCHANGED vars
  BY <1>1, <1>7 DEF vars, discovery
<1> QED
  BY <1>2, <1>3, <1>4, <1>5, <1>6, <1>7 DEF Next

LEMMA ArrivesStep == TypeOK /\ Arrives /\ [Next]_vars => Arrives'
<1> SUFFICES ASSUME TypeOK, Arrives, [Next]_vars PROVE Arrives'
  OBVIOUS
<1>t. /\ topic \in [Fields -> Seq(Nat)] /\ since \in [Fields -> Nat \cup {Ignored}]
      /\ puts \in Nat /\ Ignored = -1 /\ subscribed \subseteq Fields
  BY DEF TypeOK, Ignored
<1>p. \A f \in Fields : Published(f) \in Int
  BY PublishedType
<1>s. \A f \in Fields : since[f] \in Int
  BY <1>t
<1>1. CASE ~Publish /\ UNCHANGED <<topic, latest_state, since>>
  <2>1. \A f \in Fields : Published(f)' = Published(f)
    BY <1>1, PublishedStays
  <2> QED
    BY <1>1, <2>1 DEF Arrives
<1>2. CASE Publish
  <2>1. UNCHANGED <<latest_state, since>>
    BY <1>2, Publishes
  <2>2. ASSUME NEW f \in Fields, since[f] # Ignored
        PROVE  /\ since[f] <= Published(f)'
               /\ since[f] < Published(f)' =>
                    IF topic'[f] # << >> THEN Last(topic'[f]) = Published(f)'
                    ELSE f \in DOMAIN latest_state /\ latest_state[f] = Published(f)'
    <3>1. since[f] <= Published(f) /\ since[f] \in Int
      BY <1>s, <2>2 DEF Arrives
    <3>2. CASE FieldOrder[publishing] = f
      <4>1. Published(f) = puts - 1 /\ Published(f)' = puts
        BY <1>2, <3>2, PublishedNext
      <4>2. topic'[f] = Appended(topic[f], puts, qos_depth)
        BY <1>2, <2>2, <3>2, Publishes
      <4>3. topic'[f] # << >> /\ Last(topic'[f]) = puts
        <5> DEFINE S == Nat
                   s == topic[f]
                   t == topic'[f]
        <5>1. s \in Seq(S) /\ puts \in S /\ qos_depth \in Nat \ {0}
          BY <1>t, Sizes
        <5> HIDE DEF S, s, t
        <5>2. t = Appended(s, puts, qos_depth)
          BY <4>2 DEF s, t
        <5>3. t \in Seq(S) /\ Len(t) > 0 /\ t[Len(t)] = puts
          BY ONLY <5>1, <5>2, AppendedIs
        <5> QED
          BY <5>3 DEF Last, t
      <4> QED
        BY <1>t, <3>1, <4>1, <4>3
    <3>3. CASE FieldOrder[publishing] # f
      <4>1. Published(f)' = Published(f) /\ topic'[f] = topic[f]
        BY <1>2, <3>3, PublishedNext, Publishes
      <4> QED
        BY <2>2, <4>1 DEF Arrives
    <3> QED
      BY <3>2, <3>3
  <2> QED
    BY <2>1, <2>2 DEF Arrives
<1>3. CASE Match
  <2>1. PICK g \in subscribed : since' = [since EXCEPT ![g] = Published(g)]
    BY <1>3 DEF Match
  <2>2. UNCHANGED <<topic, latest_state>> /\ ~Publish
    <3>1. publishing \in Int /\ publishing' = publishing
      BY <1>3 DEF Match, server, TypeOK
    <3> QED
      BY <1>3, <3>1 DEF Match, copy, Publish
  <2>3. \A f \in Fields : Published(f)' = Published(f)
    BY <2>2, PublishedStays
  <2>4. g \in Fields /\ since'[g] = Published(g)
    BY <1>t, <2>1
  <2>5. \A f \in Fields \ {g} : since'[f] = since[f]
    BY <1>t, <2>1
  <2>6. ASSUME NEW f \in Fields, since'[f] # Ignored
        PROVE  /\ since'[f] <= Published(f)
               /\ since'[f] < Published(f) =>
                    IF topic[f] # << >> THEN Last(topic[f]) = Published(f)
                    ELSE f \in DOMAIN latest_state /\ latest_state[f] = Published(f)
    <3>1. CASE f = g
      BY <1>p, <2>4, <3>1
    <3>2. CASE f # g
      BY <2>5, <2>6, <3>2 DEF Arrives
    <3> QED
      BY <3>1, <3>2
  <2> QED
    BY <2>2, <2>3, <2>6 DEF Arrives
<1>4. ASSUME NEW s \in Spinners, UpdateField(s)
      PROVE  Arrives'
  <2>1. PICK g \in Fields :
          /\ topic[g] \in Seq(Nat) /\ topic[g] # << >> /\ topic'[g] = Tail(topic[g])
          /\ DOMAIN latest_state' = DOMAIN latest_state \cup {g}
          /\ latest_state'[g] = Head(topic[g])
          /\ \A f \in Fields \ {g} : topic'[f] = topic[f]
          /\ \A f \in DOMAIN latest_state \ {g} : latest_state'[f] = latest_state[f]
    BY <1>4, Callback
  <2>2. UNCHANGED since /\ ~Publish
    <3>1. publishing \in Int /\ publishing' = publishing
      BY <1>4 DEF UpdateField, server, TypeOK
    <3> QED
      BY <1>4, <3>1, Callback DEF Publish
  <2>3. \A f \in Fields : Published(f)' = Published(f)
    BY <2>2, PublishedStays
  <2>4. /\ Tail(topic[g]) # << >> => Last(Tail(topic[g])) = Last(topic[g])
        /\ Tail(topic[g]) = << >> => Head(topic[g]) = Last(topic[g])
    <3> DEFINE q == topic[g]
    <3>1. q \in Seq(Nat) /\ q # << >>
      BY <2>1
    <3> DEFINE r == Tail(q)
    <3> HIDE DEF q
    <3>2. /\ Len(q) \in Nat \ {0} /\ Len(r) = Len(q) - 1 /\ Head(q) = q[1]
          /\ r \in Seq(Nat) /\ \A i \in 1 .. Len(q) - 1 : r[i] = q[i + 1]
      BY <3>1
    <3> HIDE DEF r
    <3>3. CASE Len(q) = 1
      <4>1. r = << >>
        BY <3>2, <3>3
      <4> QED
        BY <3>2, <3>3, <4>1 DEF Last, q, r
    <3>4. CASE Len(q) # 1
      <4>1. Len(q) - 1 \in 1 .. Len(q) - 1 /\ Len(q) - 1 + 1 = Len(q)
        BY <3>2, <3>4
      <4>2. r # << >> /\ r[Len(r)] = q[Len(q)]
        BY <3>2, <4>1
      <4> QED
        BY <4>2 DEF Last, q, r
    <3> QED
      BY <3>3, <3>4
  <2>5. ASSUME NEW f \in Fields, since[f] # Ignored
        PROVE  /\ since[f] <= Published(f)
               /\ since[f] < Published(f) =>
                    IF topic'[f] # << >> THEN Last(topic'[f]) = Published(f)
                    ELSE f \in DOMAIN latest_state' /\ latest_state'[f] = Published(f)
    <3>1. CASE f = g
      BY <2>1, <2>4, <2>5, <3>1 DEF Arrives
    <3>2. CASE f # g
      BY <2>1, <2>5, <3>2 DEF Arrives
    <3> QED
      BY <3>1, <3>2
  <2> QED
    BY <2>2, <2>3, <2>5 DEF Arrives
<1>5. CASE CreatePublisher \/ Put \/ Announce
  <2>1. UNCHANGED <<topic, latest_state, since>>
    BY <1>5 DEF CreatePublisher, Put, Announce, copy, discovery
  <2> QED
    BY <1>1, <1>2, <2>1
<1>6. CASE StartSpin \/ Look \/ CreateSubscription \/ FirstState \/ WaitForDiscovery \/ Stop
  <2>1. UNCHANGED <<topic, latest_state, since>>
    BY <1>6 DEF StartSpin, Look, CreateSubscription, FirstState, WaitForDiscovery, Stop,
      StartOnly, copy, discovery
  <2> QED
    BY <1>1, <1>2, <2>1
<1>7. CASE \E s \in Spinners : FileSnapshot(s)
  <2>1. UNCHANGED <<topic, latest_state, since>>
    BY <1>7 DEF FileSnapshot, discovery
  <2> QED
    BY <1>1, <1>2, <2>1
<1>8. CASE GetState \/ GetAllState \/ GetLastK \/ TakesIterator \/ CopiesLastK \/ CopyRaises \/ Clear
  <2>1. UNCHANGED <<topic, latest_state, since>>
    BY <1>8 DEF GetState, GetAllState, GetLastK, TakesIterator, CopiesLastK,
    CopyRaises, Clear, AppOnly, discovery
  <2> QED
    BY <1>1, <1>2, <2>1
<1>9. CASE UNCHANGED vars
  <2>1. UNCHANGED <<topic, latest_state, since>>
    BY <1>9 DEF vars, copy, discovery
  <2> QED
    BY <1>1, <1>2, <2>1
<1> QED
  BY <1>2, <1>3, <1>4, <1>5, <1>6, <1>7, <1>8, <1>9 DEF Next

-----------------------------------------------------------------------------
(* Theorems *)

\* The inductive invariant holds in every state of the client's copy, whatever
\* discovery, the queues of the subscriptions and the readers do.
THEOREM Invariance == Spec => []IInv
<1>1. IInv /\ [Next]_vars => IInv'
  BY TypeStep, SuffixStep, CountingStep, ReturnedStep, ForwardStep, MonotoneStep,
    SnapshotStep, MatchedStep, ArrivesStep DEF IInv
<1> QED
  BY InitIInv, <1>1, PTL DEF Spec

\* A read returns states that stood together at the end of the ring buffer between
\* its begin and its end: get_state, get_all_state, and get_last_k, whose copy a put
\* of the spin thread may come before (_storage.py, get_last_k).
THEOREM ReadsWindow == Spec => []ReadIsWindow
<1>1. IInv => ReadIsWindow
  <2> SUFFICES ASSUME IInv PROVE ReadIsWindow
    OBVIOUS
  <2>1. Now \in Nat /\ Now <= Len(filed) /\ Len(filed) \in Nat /\ result.from \in Nat
    BY NowIs DEF IInv, TypeOK
  <2>2. PICK i \in result.from .. Now : result.states = SubSeq(filed, i - result.n + 1, i)
    BY DEF IInv, Returned
  <2>3. i \in result.from .. Len(filed)
    BY <2>1
  <2> QED
    BY <2>2, <2>3 DEF ReadIsWindow
<1> QED
  BY Invariance, <1>1, PTL

\* A thread that reads twice never sees a field go back or vanish, although the
\* fields arrive by topics of their own (rclpy.py, the callbacks of the subscriptions).
THEOREM ReadsForward == Spec => NeverBackwards
<1>1. IInv /\ IInv' /\ [Next]_vars =>
        [result.states # << >> /\ result'.states # << >>
           => NoNewer(Last(result.states), Last(result'.states))]_result
  <2> SUFFICES ASSUME IInv, IInv', [Next]_vars, result' # result,
                      result.states # << >>, result'.states # << >>
               PROVE  NoNewer(Last(result.states), Last(result'.states))
    BY Zenon
  <2>i. TypeOK /\ Suffix /\ Counting /\ Returned /\ Monotone
    BY DEF IInv
  <2>t. /\ filed \in Seq(States) /\ Len(filed) \in Nat
        /\ result.from \in Nat /\ result.n \in Nat
    BY <2>i DEF TypeOK
  <2>n. Now \in Nat /\ Now <= Len(filed)
    BY <2>i, NowIs
  <2>1. GetState \/ GetAllState \/ CopiesLastK
    BY ReadFrame DEF GetLastK, CopyRaises, AppOnly
  <2>2. PICK i \in result.from .. Now :
          result.n <= i /\ result.states = SubSeq(filed, i - result.n + 1, i)
    BY <2>i DEF Returned
  <2>3. PICK j \in Now .. Len(filed) :
          /\ result'.n \in Nat /\ result'.n <= j
          /\ result'.states = SubSeq(filed, j - result'.n + 1, j)
    BY <2>i, <2>1, ReadReturns
  <2>4. i > 0 /\ Last(result.states) = filed[i]
    <3> DEFINE n == result.n
    <3>1. /\ n \in Nat /\ i \in Nat /\ n <= i /\ i <= Len(filed)
          /\ result.states = SubSeq(filed, i - n + 1, i) /\ SubSeq(filed, i - n + 1, i) # << >>
      BY <2>t, <2>n, <2>2
    <3>0. filed \in Seq(States)
      BY <2>t
    <3> HIDE DEF n
    <3>2. i > 0 /\ Last(SubSeq(filed, i - n + 1, i)) = filed[i]
      BY ONLY <3>0, <3>1, LastOfWindow
    <3> QED
      BY <3>1, <3>2
  <2>5. j > 0 /\ Last(result'.states) = filed[j]
    <3> DEFINE n == result'.n
    <3>1. /\ n \in Nat /\ j \in Nat /\ n <= j /\ j <= Len(filed)
          /\ result'.states = SubSeq(filed, j - n + 1, j) /\ SubSeq(filed, j - n + 1, j) # << >>
      BY <2>t, <2>n, <2>3
    <3>0. filed \in Seq(States)
      BY <2>t
    <3> HIDE DEF n
    <3>2. j > 0 /\ Last(SubSeq(filed, j - n + 1, j)) = filed[j]
      BY ONLY <3>0, <3>1, LastOfWindow
    <3> QED
      BY <3>1, <3>2
  <2>6. i \in 1 .. Len(filed) /\ j \in 1 .. Len(filed) /\ i <= j
    BY <2>t, <2>n, <2>4, <2>5
  <2> QED
    BY <2>i, <2>4, <2>5, <2>6 DEF Monotone
<1> QED
  BY Invariance, <1>1, PTL DEF Spec, NeverBackwards

\* When all that was published is delivered and filed, the newest snapshot holds the
\* last state in every field that could be seen when start() was called and whose
\* subscription was matched before that state.
THEOREM Converges == Spec => []CatchesUp
<1>1. IInv => CatchesUp
  <2> SUFFICES ASSUME IInv, Delivered,
                      start_state \in {"first_state", "matching", "started"},
                      NEW f \in known
               PROVE  /\ f \in subscribed
                      /\ since[f] # Ignored /\ since[f] < puts =>
                           filed # << >> /\ f \in DOMAIN Last(filed) /\ Last(filed)[f] = puts
    BY DEF CatchesUp
  <2>1. f \in subscribed /\ f \in Fields
    BY DEF IInv, Matched, TypeOK
  <2>2. ASSUME since[f] # Ignored, since[f] < puts
        PROVE  filed # << >> /\ f \in DOMAIN Last(filed) /\ Last(filed)[f] = puts
    <3>1. Published(f) = puts /\ topic[f] = << >>
      BY <2>1 DEF Delivered, Published
    <3>2. f \in DOMAIN latest_state /\ latest_state[f] = puts
      BY <2>1, <2>2, <3>1 DEF IInv, Arrives
    <3>3. spin[1] = Nothing
      BY DEF Delivered, Spinners
    <3>4. IF filed = << >> THEN latest_state = << >> ELSE Last(filed) = latest_state
      BY <3>3 DEF IInv, Snapshot
    <3>5. filed # << >>
      BY <3>2, <3>4, NoFields
    <3> QED
      BY <3>2, <3>4, <3>5
  <2> QED
    BY <2>1, <2>2
<1> QED
  BY Invariance, <1>1, PTL
=============================================================================
