------------------------------ MODULE TeleopProofs ------------------------------
(***************************************************************************)
(* What the keyboards publish, for any keys, number of events, rollover,   *)
(* buffer and counter width.                                               *)
(*                                                                         *)
(* Listeners follow the loop of the pynput and ssh keyboards through its   *)
(* iterations without a lock.  While a part is iterated over, a code that  *)
(* has been pressed all along is still due or already shown, whatever the     *)
(* listener thread adds and removes in between (Covered).  evdev's keys    *)
(* come out of a fold over the events and a sort, which TLC evaluates.     *)
(*                                                                         *)
(* Counting is about the press counter of evdev: it is the number of taps  *)
(* modulo its width, in the node, in the newest state and at the reader.   *)
(***************************************************************************)
EXTENDS Teleop, FiniteSetTheorems, TLAPS

Event == Codes \X (0 .. 2)

\* A code pressed all the round is shown, still to come, or of the part still to come.
Covered ==
  \A part \in Parts, key \in during.always :
    PartOf(key) = part =>
      \/ key \in ToSet(shown[part])
      \/ loop = part /\ key \in iterating.due
      \/ loop = "alphanumeric" /\ part = "special"

Listeners ==
  kind # "evdev" =>
    /\ held \subseteq Codes /\ held = as_read
    /\ shown \in [Parts -> Seq(Codes)]
    /\ {"due", "fresh"} \subseteq DOMAIN iterating
    /\ loop \in Parts =>
         \A key \in iterating.due \cup iterating.fresh : key \in held /\ PartOf(key) = loop
    /\ loop \in Parts \cup {"put"} =>
         /\ during.always \subseteq held /\ held \subseteq during.some
         /\ \A part \in Parts : ToSet(shown[part]) \subseteq during.some
         /\ Covered

Unread == kind # "evdev" => reader.sum = reader.taps

Counting ==
  kind = "evdev" =>
    /\ press_count = taps % Width
    /\ reader.seen = reader.taps % Width
    /\ reader.taps \in Nat /\ reader.taps <= taps
    /\ reader.in_time \in BOOLEAN
    /\ reader.in_time => reader.sum = reader.taps
    /\ ring_buffer = << >> => reader.taps = 0
    /\ ring_buffer # << >> =>
         LET state == Last(ring_buffer)
         IN  /\ state.press_count = state.taps % Width
             /\ state.taps \in Nat /\ reader.taps <= state.taps /\ state.taps <= taps

Types ==
  /\ kind \in Kinds /\ down \subseteq Keys
  /\ pending \in Seq(Event) /\ taps \in Nat
  /\ \E S : ring_buffer \in Seq(S)

IInv == Types /\ Listeners /\ Unread /\ Counting

-----------------------------------------------------------------------------
(* Remainders *)

LEMMA ModUnique ==
  ASSUME NEW B \in Nat \ {0}, NEW a \in Int, NEW q \in Int, NEW r \in 0 .. B - 1,
         a = B * q + r
  PROVE  a % B = r
OBVIOUS

LEMMA DivMod ==
  ASSUME NEW a \in Int, NEW B \in Nat \ {0}
  PROVE  a % B \in 0 .. B - 1 /\ a \div B \in Int /\ a = B * (a \div B) + (a % B)
OBVIOUS

\* Adding to a remainder.
LEMMA ModSum ==
  ASSUME NEW B \in Nat \ {0}, NEW a \in Nat, NEW k \in Nat
  PROVE  ((a % B) + k) % B = (a + k) % B
<1> DEFINE x == (a % B) + k
           y == a + k
           q == a \div B
           p == x \div B
           r == x % B
<1>1. q \in Int /\ x \in Int /\ y \in Int /\ y = B * q + x
  BY DivMod
<1> HIDE DEF q, x, y
<1>2. p \in Int /\ r \in 0 .. B - 1 /\ x = B * p + r
  BY <1>1, DivMod
<1> HIDE DEF p, r
<1>3. y = B * (q + p) + r
  BY <1>1, <1>2
<1>4. y % B = r
  BY <1>1, <1>2, <1>3, ModUnique
<1> QED
  BY <1>4 DEF x, y, r

\* The reader's difference: what was added, if it was less than the width.
LEMMA ModDifference ==
  ASSUME NEW B \in Nat \ {0}, NEW a \in Nat, NEW b \in Nat, a <= b, b - a < B
  PROVE  ((b % B) - (a % B)) % B = b - a
<1> DEFINE r == a % B
           s == b % B
           q == a \div B
           p == b \div B
           d == s - r
           n == q - p
<1>1. /\ r \in Int /\ s \in Int /\ q \in Int /\ p \in Int
      /\ a = B * q + r /\ b = B * p + s
  BY DivMod
<1> HIDE DEF r, s, q, p
<1>2. d \in Int /\ n \in Int /\ b - a \in 0 .. B - 1 /\ d = B * n + (b - a)
  BY <1>1
<1> HIDE DEF d, n
<1>3. d % B = b - a
  BY <1>2, ModUnique
<1> QED
  BY <1>3 DEF d, r, s

-----------------------------------------------------------------------------
(* Sequences and keys *)

LEMMA ToSetAppend ==
  ASSUME NEW S, NEW s \in Seq(S), NEW e \in S
  PROVE  ToSet(Append(s, e)) = ToSet(s) \cup {e}
<1> DEFINE t == Append(s, e)
<1>1. t \in Seq(S) /\ Len(t) = Len(s) + 1 /\ t[Len(t)] = e
  OBVIOUS
<1>2. \A i \in 1 .. Len(s) : t[i] = s[i]
  OBVIOUS
<1>3. DOMAIN t = 1 .. Len(s) + 1 /\ DOMAIN s = 1 .. Len(s) /\ Len(s) \in Nat
  BY <1>1
<1> HIDE DEF t
<1>4. ToSet(t) = ToSet(s) \cup {e}
  BY <1>1, <1>2, <1>3 DEF ToSet
<1> QED
  BY <1>4 DEF t

LEMMA LastOfAppended ==
  ASSUME NEW S, NEW s \in Seq(S), NEW e, NEW m \in Nat \ {0}
  PROVE  /\ \E T : Appended(s, e, m) \in Seq(T)
         /\ Appended(s, e, m) # << >> /\ Last(Appended(s, e, m)) = e
<1> DEFINE T == S \cup {e}
<1>1. s \in Seq(T) /\ e \in T
  OBVIOUS
<1>2. \E u \in Seq(T) : Appended(s, e, m) = Append(u, e)
  <2>1. CASE Len(s) < m
    BY <1>1, <2>1 DEF Appended
  <2>2. CASE ~(Len(s) < m)
    <3>1. s # << >>
      BY <1>1, <2>2
    <3>2. Tail(s) \in Seq(T)
      BY <1>1, <3>1
    <3> QED
      BY <2>2, <3>2 DEF Appended
  <2> QED
    BY <2>1, <2>2
<1> HIDE DEF T
<1>3. PICK u \in Seq(T) : Appended(s, e, m) = Append(u, e)
  BY <1>2
<1>4. /\ Append(u, e) \in Seq(T) /\ Append(u, e) # << >>
      /\ Append(u, e)[Len(Append(u, e))] = e
  BY <1>1
<1> QED
  BY <1>3, <1>4 DEF Last

\* The number of events of a kind.
LEMMA NumberType ==
  ASSUME NEW s \in Seq(Event), NEW I, I \subseteq DOMAIN s
  PROVE  Cardinality(I) \in Nat
<1>1. IsFiniteSet(1 .. Len(s)) /\ DOMAIN s = 1 .. Len(s)
  BY FS_Interval
<1>2. IsFiniteSet(I)
  BY <1>1, FS_Subset
<1> QED
  BY <1>2, FS_CardinalityType

LEMMA PressedType ==
  ASSUME NEW s \in Seq(Event)
  PROVE  Pressed(s) \in Nat
BY NumberType DEF Pressed

LEMMA PartOfType == \A key : PartOf(key) \in Parts
BY DEF PartOf, Parts

LEMMA SamePart ==
  ASSUME UNCHANGED kind
  PROVE  \A key : PartOf(key)' = PartOf(key)
BY DEF PartOf

-----------------------------------------------------------------------------
(* The steps.  Quiet stands for the teleoperation and the arm. *)

Quiet == UNCHANGED <<fixed, user, pending, node, round, ring_buffer, reader>>

LEMMA Steps ==
  ASSUME [Next]_vars
  PROVE  \/ Press \/ Release \/ Repeat \/ Listen \/ ListenerDies \/ Unplugged \/ Drain \/ Ends \/ Round
         \/ NextKey \/ LastKey \/ SizeChanged \/ Put \/ CountTaps \/ Quiet
<1>1. CASE KeyboardStep(KeyboardNext)
  BY <1>1 DEF KeyboardStep, KeyboardNext, LoopSteps
<1>2. CASE Enter \/ Sample \/ Raises \/ Requests \/ UNCHANGED vars
  BY <1>2 DEF Enter, Sample, Raises, Requests, vars, keyboard, Quiet
<1>3. CASE Interrupt
  BY <1>3 DEF Interrupt, Quiet
<1> QED
  BY <1>1, <1>2, <1>3 DEF Next

\* An event joins those the node has not read, unless the listener is dead.
LEMMA HappensKeeps ==
  ASSUME Types, NEW key \in Keys, NEW value \in 0 .. 2, Happens(key, value)
  PROVE  /\ UNCHANGED <<fixed, node, round, exit_event, ring_buffer, reader>>
         /\ pending' \in Seq(Event)
<1>1. <<CodeOf(key), value>> \in Event
  BY DEF CodeOf, Codes, Event
<1> QED
  BY <1>1 DEF Happens, Types

LEMMA UserStep ==
  ASSUME Types, Press \/ Release \/ Repeat
  PROVE  /\ UNCHANGED <<fixed, node, round, exit_event, ring_buffer, reader>>
         /\ down' \subseteq Keys
         /\ pending' \in Seq(Event)
<1>1. CASE Press
  BY <1>1, HappensKeeps DEF Press, Types
<1>2. CASE Release
  BY <1>2, HappensKeeps DEF Release, Types
<1>3. CASE Repeat
  BY <1>3, HappensKeeps DEF Repeat, Types
<1> QED
  BY <1>1, <1>2, <1>3

\* Steps of the loop without events.
LEMMA LoopStep ==
  ASSUME Ends \/ Round \/ NextKey \/ LastKey \/ SizeChanged
  PROVE  /\ UNCHANGED <<fixed, user, pending, held, press_count, as_read, taps, reader>>
         /\ UNCHANGED <<listening, exit_event, ring_buffer>>
BY DEF Ends, Round, NextKey, LastKey, SizeChanged, LoopOnly

LEMMA SameKeyboard ==
  ASSUME Types, [Next]_vars
  PROVE  kind' = kind
<1>1. CASE Press \/ Release \/ Repeat
  BY <1>1, UserStep DEF fixed
<1>2. CASE Ends \/ Round \/ NextKey \/ LastKey \/ SizeChanged
  BY <1>2, LoopStep DEF fixed
<1>3. CASE Listen \/ ListenerDies \/ Unplugged \/ Drain
  BY <1>3 DEF Listen, ListenerDies, Unplugged, Drain, fixed
<1>4. CASE Put \/ CountTaps \/ Quiet
  BY <1>4 DEF Put, LoopOnly, CountTaps, Quiet, fixed
<1> QED
  BY <1>1, <1>2, <1>3, <1>4, Steps

LEMMA ListenReads ==
  ASSUME Types, Listen
  PROVE  Head(pending) \in Event /\ pending' \in Seq(Event)
BY DEF Types, Listen

LEMMA InitTypes == Init => Types
<1> SUFFICES ASSUME Init PROVE Types
  OBVIOUS
<1>1. << >> \in Seq({})
  OBVIOUS
<1> QED
  BY <1>1 DEF Init, KeyboardInit, Types

LEMMA TypesStep == Types /\ [Next]_vars => Types'
<1> SUFFICES ASSUME Types, [Next]_vars PROVE Types'
  OBVIOUS
<1>1. CASE Press \/ Release \/ Repeat
  BY <1>1, UserStep DEF Types, fixed, node
<1>2. CASE Ends \/ Round \/ NextKey \/ LastKey \/ SizeChanged
  BY <1>2, LoopStep DEF Types, fixed, user
<1>3. CASE Listen
  <2> DEFINE event == Head(pending)
  <2>1. event \in Event /\ pending' \in Seq(Event)
    BY <1>3, ListenReads
  <2>2. <<event>> \in Seq(Event)
    BY <2>1
  <2> HIDE DEF event
  <2>3. Pressed(<<event>>) \in Nat
    BY <2>2, PressedType
  <2>4. taps' = taps + Pressed(<<event>>) /\ UNCHANGED <<fixed, user, ring_buffer>>
    BY <1>3 DEF Listen, event
  <2> QED
    BY <2>1, <2>3, <2>4 DEF Types, fixed, user
<1>4. CASE Drain
  <2>1. Pressed(pending) \in Nat
    BY PressedType DEF Types
  <2>2. /\ taps' = taps + Pressed(pending) /\ pending' = << >>
        /\ UNCHANGED <<fixed, user, ring_buffer>>
    BY <1>4 DEF Drain
  <2> QED
    BY <2>1, <2>2 DEF Types, fixed, user
<1>5. CASE Unplugged
  BY <1>5 DEF Unplugged, Types, fixed, user
<1>6. CASE Put
  <2>1. UNCHANGED <<fixed, user, pending, taps>>
    BY <1>6 DEF Put, LoopOnly
  <2>2. \E S : ring_buffer' \in Seq(S)
    BY <1>6, LastOfAppended, KeyboardAssumption DEF Put, Types
  <2> QED
    BY <2>1, <2>2 DEF Types, fixed, user
<1>7. CASE CountTaps
  BY <1>7 DEF CountTaps, Types, fixed, user, node
<1>8. CASE Quiet
  BY <1>8 DEF Quiet, Types, fixed, user, node
<1>9. CASE ListenerDies
  BY <1>9 DEF ListenerDies, Types, fixed, user
<1> QED
  BY <1>1, <1>2, <1>3, <1>4, <1>5, <1>6, <1>7, <1>8, <1>9, Steps

-----------------------------------------------------------------------------
(* The press counter *)

LEMMA InitCounting == Init => Counting
<1> SUFFICES ASSUME Init PROVE Counting
  OBVIOUS
<1>1. 0 % Width = 0
  <2>1. 0 = Width * 0 + 0 /\ 0 \in 0 .. Width - 1
    BY KeyboardAssumption
  <2> QED
    BY <2>1, ModUnique, KeyboardAssumption
<1> QED
  BY <1>1 DEF Init, KeyboardInit, Counting

LEMMA CountingStep == Types /\ Counting /\ [Next]_vars => Counting'
<1> SUFFICES ASSUME Types, Counting, [Next]_vars, kind = "evdev", kind' = "evdev"
             PROVE  Counting'
  BY SameKeyboard DEF Counting
<1>w. Width \in Nat \ {0} /\ max_buffer_size \in Nat \ {0}
  BY KeyboardAssumption
<1>c. /\ press_count = taps % Width /\ reader.seen = reader.taps % Width
      /\ reader.taps \in Nat /\ reader.taps <= taps /\ taps \in Nat
      /\ reader.in_time \in BOOLEAN /\ (reader.in_time => reader.sum = reader.taps)
      /\ ring_buffer = << >> => reader.taps = 0
  BY DEF Counting, Types
<1> DEFINE state == Last(ring_buffer)
<1>s. ring_buffer # << >> =>
        /\ state.press_count = state.taps % Width
        /\ state.taps \in Nat /\ reader.taps <= state.taps /\ state.taps <= taps
  BY DEF Counting
<1> HIDE DEF state
<1>1. CASE UNCHANGED <<press_count, taps, reader, ring_buffer>>
  BY <1>1, <1>c, <1>s DEF Counting, state
<1>2. CASE Drain
  <2> DEFINE n == Pressed(pending)
  <2>1. n \in Nat /\ n = Cardinality({i \in DOMAIN pending : Counts(pending[i])})
    <3>1. \A i \in DOMAIN pending : pending[i] \in Event
      BY DEF Types
    <3>2. \A i \in DOMAIN pending : Counts(pending[i]) <=> pending[i] = <<Tapped, 1>>
      BY <3>1 DEF Counts, Event
    <3>3. {i \in DOMAIN pending : Counts(pending[i])}
            = {i \in DOMAIN pending : pending[i] = <<Tapped, 1>>}
      BY <3>2
    <3> QED
      BY <3>3, PressedType DEF Pressed, Types
  <2>2. /\ press_count' = (press_count + n) % Width /\ taps' = taps + n
        /\ UNCHANGED <<ring_buffer, reader>>
    BY <1>2, <2>1 DEF Drain
  <2> HIDE DEF n
  <2>3. press_count' = taps' % Width
    BY <1>w, <1>c, <2>1, <2>2, ModSum
  <2>4. reader.taps <= taps' /\ taps <= taps'
    BY <1>c, <2>1, <2>2
  <2>5. ring_buffer # << >> => state.taps <= taps'
    BY <1>c, <1>s, <2>1, <2>2
  <2> QED
    BY <1>c, <1>s, <2>2, <2>3, <2>4, <2>5 DEF Counting, state
<1>3. CASE Put
  <2> DEFINE new == [shown |-> shown, press_count |-> press_count, taps |-> taps]
  <2>1. new.press_count = press_count /\ new.taps = taps
    OBVIOUS
  <2>2. UNCHANGED <<press_count, taps, reader>> /\ ring_buffer' = Appended(ring_buffer, new, max_buffer_size)
    BY <1>3 DEF Put, LoopOnly
  <2> HIDE DEF new
  <2>3. ring_buffer' # << >> /\ Last(ring_buffer') = new
    BY <1>w, <2>2, LastOfAppended DEF Types
  <2> QED
    BY <1>c, <2>1, <2>2, <2>3 DEF Counting
<1>4. CASE CountTaps
  <2> DEFINE d == (state.press_count - reader.seen) % Width
             next == [seen |-> state.press_count, sum |-> reader.sum + d,
                      taps |-> state.taps,
                      in_time |-> reader.in_time /\ state.taps - reader.taps < Width]
  <2>1. ring_buffer # << >> /\ UNCHANGED <<press_count, taps, ring_buffer>> /\ reader' = next
    BY <1>4 DEF CountTaps, node, state
  <2>2. state.taps - reader.taps < Width => d = state.taps - reader.taps
    <3> DEFINE a == reader.taps
               b == state.taps
    <3>1. /\ a \in Nat /\ b \in Nat /\ a <= b
          /\ d = ((b % Width) - (a % Width)) % Width
      BY <1>c, <1>s, <2>1
    <3> HIDE DEF a, b, d
    <3>2. b - a < Width => d = b - a
      BY <1>w, <3>1, ModDifference
    <3> QED
      BY <3>2 DEF a, b
  <2>3. /\ next.seen = state.press_count /\ next.sum = reader.sum + d /\ next.taps = state.taps
        /\ next.in_time \in BOOLEAN
        /\ next.in_time => reader.in_time /\ state.taps - reader.taps < Width
    OBVIOUS
  <2> HIDE DEF d, next
  <2>4. next.in_time => next.sum = next.taps
    BY <1>c, <1>s, <2>1, <2>2, <2>3
  <2>5. /\ next.seen = next.taps % Width /\ next.taps \in Nat /\ next.taps <= taps
    BY <1>s, <2>1, <2>3
  <2> QED
    BY <1>c, <1>s, <2>1, <2>3, <2>4, <2>5 DEF Counting, state
<1>5. CASE ~Drain /\ ~Put /\ ~CountTaps
  <2>1. ~Listen /\ ~ListenerDies /\ ~Round
    BY DEF Listen, ListenerDies, CallbackRaises, Round
  <2>2. UNCHANGED <<press_count, taps, reader, ring_buffer>>
    BY <1>5, <2>1, Steps, UserStep, LoopStep DEF Unplugged, Quiet, node
  <2> QED
    BY <1>1, <2>2
<1> QED
  BY <1>2, <1>3, <1>4, <1>5

\* Nobody reads a press counter of the other keyboards.
LEMMA UnreadStep == Types /\ Unread /\ [Next]_vars => Unread'
<1> SUFFICES ASSUME Types, Unread, [Next]_vars, kind # "evdev", kind' # "evdev"
             PROVE  UNCHANGED reader
  BY SameKeyboard DEF Unread
<1>1. ~CountTaps
  BY DEF CountTaps
<1> QED
  BY <1>1, Steps, UserStep, LoopStep
     DEF Listen, ListenerDies, Unplugged, Drain, Put, LoopOnly, Quiet

-----------------------------------------------------------------------------
(* The keys of a state *)

LEMMA InitListeners == Init => Listeners
<1> SUFFICES ASSUME Init PROVE Listeners
  OBVIOUS
<1>1. shown \in [Parts -> Seq(Codes)]
  BY DEF Init, KeyboardInit, NothingShown
<1> QED
  BY <1>1 DEF Init, KeyboardInit, Listeners, NoIteration, Parts

\* A listener's callback, in the middle of an iteration or between two.
LEMMA ListenKeeps ==
  ASSUME Types, Listeners, Listen
  PROVE  Listeners'
<1> DEFINE event == Head(pending)
           key == event[1]
<1>1. event \in Event /\ key \in Codes /\ event[2] \in {0, 1, 2} /\ event = <<key, event[2]>>
  BY ListenReads DEF Event
<1>2. /\ kind # "evdev" /\ kind' = kind
      /\ held' = AfterEvent(held, event) /\ as_read' = ReadAs(as_read, event)
      /\ during' = [some |-> during.some \cup as_read', always |-> during.always \cap as_read']
      /\ iterating' =
           IF PartOf(key) # loop THEN iterating
           ELSE [iterating EXCEPT !.due = @ \cap held',
                                  !.fresh = (@ \cap held') \cup (held' \ held)]
      /\ UNCHANGED <<loop, shown>>
  BY DEF Listen, fixed
<1>3. /\ held \subseteq Codes /\ held = as_read /\ shown \in [Parts -> Seq(Codes)]
      /\ {"due", "fresh"} \subseteq DOMAIN iterating
  BY <1>2 DEF Listeners
<1> HIDE DEF event, key
<1>4. /\ held' = as_read' /\ held' \subseteq Codes
      /\ held' = held \cup {key} \/ held' = held \ {key}
  BY <1>1, <1>2, <1>3 DEF AfterEvent, ReadAs, key
<1>5. {"due", "fresh"} \subseteq DOMAIN iterating'
  BY <1>2, <1>3
<1>6. /\ during'.always = during.always \cap held' /\ during'.some = during.some \cup held'
  BY <1>2, <1>4
<1>7. /\ PartOf(key) # loop => iterating' = iterating
      /\ PartOf(key) = loop =>
           /\ iterating'.due = iterating.due \cap held'
           /\ iterating'.fresh \subseteq (iterating.fresh \cap held') \cup (held' \ held)
  BY <1>2, <1>3
<1>8. \A k : PartOf(k)' = PartOf(k)
  BY <1>2, SamePart
<1>9. ASSUME loop \in Parts, NEW k \in iterating'.due \cup iterating'.fresh
      PROVE  k \in held' /\ PartOf(k) = loop
  <2>1. \A j \in iterating.due \cup iterating.fresh : j \in held /\ PartOf(j) = loop
    BY <1>2, <1>9 DEF Listeners
  <2>2. CASE PartOf(key) # loop
    BY <1>4, <1>7, <1>9, <2>1, <2>2
  <2>3. CASE PartOf(key) = loop
    BY <1>4, <1>7, <1>9, <2>1, <2>3
  <2> QED
    BY <2>2, <2>3
<1>10. ASSUME loop \in Parts \cup {"put"}
       PROVE  /\ during'.always \subseteq held' /\ held' \subseteq during'.some
              /\ \A part \in Parts : ToSet(shown[part]) \subseteq during'.some
              /\ Covered'
  <2>1. /\ \A part \in Parts : ToSet(shown[part]) \subseteq during.some
        /\ Covered
    BY <1>2, <1>10 DEF Listeners
  <2>2. ASSUME NEW part \in Parts, NEW k \in during'.always, PartOf(k) = part
        PROVE  \/ k \in ToSet(shown[part])
               \/ loop = part /\ k \in iterating'.due
               \/ loop = "alphanumeric" /\ part = "special"
    <3>1. k \in during.always /\ k \in held'
      BY <1>6, <2>2
    <3>2. \/ k \in ToSet(shown[part])
          \/ loop = part /\ k \in iterating.due
          \/ loop = "alphanumeric" /\ part = "special"
      BY <2>1, <2>2, <3>1 DEF Covered
    <3>3. k \in iterating.due => k \in iterating'.due
      BY <1>7, <3>1
    <3> QED
      BY <3>2, <3>3
  <2>3. Covered'
    BY <1>2, <1>8, <2>2 DEF Covered
  <2> QED
    BY <1>6, <2>1, <2>3
<1> QED
  BY <1>2, <1>3, <1>4, <1>5, <1>8, <1>9, <1>10 DEF Listeners

\* An iteration begins with the keys held.
LEMMA IterationBegins ==
  ASSUME NEW part
  PROVE  LET it == IterationOver(part)
         IN  /\ {"due", "fresh"} \subseteq DOMAIN it
             /\ it.due = HeldIn(part) /\ it.fresh = {}
BY DEF IterationOver

LEMMA RoundKeeps ==
  ASSUME Listeners, Round
  PROVE  Listeners'
<1>1. /\ kind # "evdev" /\ kind' = kind /\ held' = held /\ as_read' = as_read
      /\ loop' = "alphanumeric" /\ iterating' = IterationOver("alphanumeric")
      /\ shown' = NothingShown /\ during' = [some |-> as_read, always |-> as_read]
  BY DEF Round, LoopOnly, fixed
<1>2. held \subseteq Codes /\ held = as_read
  BY <1>1 DEF Listeners
<1>3. /\ shown' \in [Parts -> Seq(Codes)] /\ \A part \in Parts : shown'[part] = << >>
  BY <1>1 DEF NothingShown
<1>4. ToSet(<< >>) = {}
  BY DEF ToSet
<1>5. /\ {"due", "fresh"} \subseteq DOMAIN iterating' /\ iterating'.due = HeldIn("alphanumeric")
      /\ iterating'.fresh = {}
  BY <1>1, IterationBegins
<1>6. \A k : PartOf(k)' = PartOf(k)
  BY <1>1, SamePart
<1>7. Covered'
  BY <1>1, <1>2, <1>5, <1>6 DEF Covered, HeldIn, Parts
<1> QED
  BY <1>1, <1>2, <1>3, <1>4, <1>5, <1>6, <1>7 DEF Listeners, HeldIn

LEMMA NextKeyKeeps ==
  ASSUME Listeners, NextKey, kind # "evdev"
  PROVE  Listeners'
<1>1. PICK key \in iterating.due \cup iterating.fresh :
        /\ iterating' = [iterating EXCEPT !.due = @ \ {key}, !.fresh = @ \ {key}]
        /\ IF Len(shown[loop]) < n_key_rollover
           THEN shown' = [shown EXCEPT ![loop] = Append(@, key)] /\ UNCHANGED loop
           ELSE loop' = "raised" /\ UNCHANGED shown
  BY DEF NextKey
<1>2. /\ kind' = kind /\ held' = held /\ as_read' = as_read /\ during' = during
      /\ loop \in Parts
  BY DEF NextKey, LoopOnly, fixed
<1>3. /\ held \subseteq Codes /\ held = as_read /\ shown \in [Parts -> Seq(Codes)]
      /\ {"due", "fresh"} \subseteq DOMAIN iterating
      /\ \A k \in iterating.due \cup iterating.fresh : k \in held /\ PartOf(k) = loop
      /\ during.always \subseteq held /\ held \subseteq during.some
      /\ \A part \in Parts : ToSet(shown[part]) \subseteq during.some
      /\ Covered
  BY <1>2 DEF Listeners
<1>4. key \in Codes /\ key \in held
  BY <1>3
<1>5. /\ {"due", "fresh"} \subseteq DOMAIN iterating'
      /\ iterating'.due = iterating.due \ {key} /\ iterating'.fresh = iterating.fresh \ {key}
  BY <1>1, <1>3
<1>6. \A k : PartOf(k)' = PartOf(k)
  BY <1>2, SamePart
<1>7. CASE UNCHANGED loop
  <2>1. shown' = [shown EXCEPT ![loop] = Append(@, key)]
    BY <1>1, <1>2, <1>7 DEF Parts
  <2>2. /\ shown' \in [Parts -> Seq(Codes)]
        /\ shown'[loop] = Append(shown[loop], key)
        /\ \A part \in Parts \ {loop} : shown'[part] = shown[part]
    BY <1>2, <1>3, <1>4, <2>1
  <2>3. ToSet(shown'[loop]) = ToSet(shown[loop]) \cup {key}
    BY <1>2, <1>3, <1>4, <2>2, ToSetAppend
  <2>4. \A part \in Parts : /\ ToSet(shown'[part]) \subseteq during.some
                            /\ ToSet(shown[part]) \subseteq ToSet(shown'[part])
    BY <1>3, <1>4, <2>2, <2>3
  <2>5. Covered'
    BY <1>2, <1>3, <1>5, <1>6, <1>7, <2>3, <2>4 DEF Covered
  <2> QED
    BY <1>2, <1>3, <1>5, <1>6, <1>7, <2>2, <2>4, <2>5 DEF Listeners
<1>8. CASE loop' = "raised" /\ UNCHANGED shown
  BY <1>2, <1>3, <1>5, <1>8 DEF Listeners, Parts
<1> QED
  BY <1>1, <1>7, <1>8

LEMMA LastKeyKeeps ==
  ASSUME Listeners, LastKey, kind # "evdev"
  PROVE  Listeners'
<1>1. /\ kind' = kind /\ held' = held /\ as_read' = as_read /\ during' = during
      /\ shown' = shown /\ loop \in Parts /\ iterating.due = {}
  BY DEF LastKey, LoopOnly, fixed
<1>2. /\ held \subseteq Codes /\ held = as_read /\ shown \in [Parts -> Seq(Codes)]
      /\ during.always \subseteq held /\ held \subseteq during.some
      /\ \A part \in Parts : ToSet(shown[part]) \subseteq during.some
      /\ Covered
  BY <1>1 DEF Listeners
<1>3. \A k : PartOf(k)' = PartOf(k)
  BY <1>1, SamePart
<1>4. CASE loop = "alphanumeric"
  <2>1. loop' = "special" /\ iterating' = IterationOver("special")
    BY <1>4 DEF LastKey
  <2>2. /\ {"due", "fresh"} \subseteq DOMAIN iterating' /\ iterating'.due = HeldIn("special")
        /\ iterating'.fresh = {}
    BY <2>1, IterationBegins
  <2>3. Covered'
    BY <1>1, <1>2, <1>3, <1>4, <2>1, <2>2 DEF Covered, HeldIn, Parts
  <2> QED
    BY <1>1, <1>2, <1>3, <2>1, <2>2, <2>3 DEF Listeners, HeldIn
<1>5. CASE loop = "special"
  <2>1. loop' = "put" /\ iterating' = NoIteration
    BY <1>5 DEF LastKey
  <2>2. Covered'
    BY <1>1, <1>2, <1>3, <1>5 DEF Covered, Parts
  <2> QED
    BY <1>1, <1>2, <1>3, <2>1, <2>2 DEF Listeners, NoIteration, Parts
<1> QED
  BY <1>1, <1>4, <1>5 DEF Parts

LEMMA ListenersStep == Types /\ Listeners /\ [Next]_vars => Listeners'
<1> SUFFICES ASSUME Types, Listeners, [Next]_vars, kind # "evdev", kind' # "evdev"
             PROVE  Listeners'
  BY SameKeyboard DEF Listeners
<1>k. \A k : PartOf(k)' = PartOf(k)
  BY SameKeyboard, SamePart
<1>1. CASE Press \/ Release \/ Repeat \/ CountTaps \/ Quiet
  <2>1. UNCHANGED <<node, round>>
    BY <1>1, UserStep DEF CountTaps, Quiet
  <2> QED
    BY <1>k, <2>1 DEF Listeners, Covered, node, round
<1>2. CASE Ends \/ SizeChanged \/ Put
  <2>1. /\ UNCHANGED <<held, as_read, shown, iterating>>
        /\ loop' \notin Parts \cup {"put"}
    BY <1>2 DEF Ends, SizeChanged, Put, LoopOnly, Parts
  <2> QED
    BY <2>1 DEF Listeners
<1>3. CASE Unplugged \/ Drain
  BY <1>3 DEF Unplugged, Drain
<1>4. CASE ListenerDies
  BY <1>4, <1>k DEF ListenerDies, Listeners, Covered, round
<1> QED
  BY <1>1, <1>2, <1>3, <1>4, Steps, ListenKeeps, RoundKeeps, NextKeyKeeps, LastKeyKeeps

-----------------------------------------------------------------------------

LEMMA InitIInv == Init => IInv
<1>1. Init => Unread
  BY DEF Init, KeyboardInit, Unread
<1> QED
  BY <1>1, InitTypes, InitListeners, InitCounting DEF IInv

LEMMA NextIInv == IInv /\ [Next]_vars => IInv'
BY TypesStep, ListenersStep, UnreadStep, CountingStep DEF IInv

\* The inductive invariant holds throughout.
THEOREM Invariance == Spec => []IInv
BY InitIInv, NextIInv, PTL DEF Spec

\* The pynput and ssh keyboards iterate over sets that their listener thread changes
\* without a lock (keyboard.py, ssh_keyboard.py); still a state shows only codes that
\* were pressed in its round, by the presses and releases of these codes the listener
\* heard of, and misses none that was pressed throughout, for any keys.
THEOREM ListenersShow == Spec => [](kind # "evdev" => ShownIsRegular)
<1>1. IInv => (kind # "evdev" => ShownIsRegular)
  <2> SUFFICES ASSUME IInv, kind # "evdev", loop = "put", NEW part \in Parts
               PROVE  /\ ToSet(shown[part]) \subseteq during.some
                      /\ \A key \in during.always :
                           PartOf(key) = part => key \in ToSet(shown[part])
    BY DEF ShownIsRegular
  <2> QED
    BY DEF IInv, Listeners, Covered, Parts
<1> QED
  BY <1>1, Invariance, PTL

\* A reader of the evdev keyboard's press counter that is in time has counted each tap
\* exactly once, for any width of the counter (evdev_keyboard.py, drain_events).
THEOREM CountsTaps == Spec => []TapsSeenOnce
<1>1. IInv => TapsSeenOnce
  <2> SUFFICES ASSUME IInv, reader.in_time PROVE reader.sum = reader.taps
    BY DEF TapsSeenOnce
  <2> QED
    BY DEF IInv, Types, Unread, Counting
<1> QED
  BY <1>1, Invariance, PTL
=============================================================================
