--------------------------------- MODULE Keyboards ---------------------------------
(***************************************************************************)
(* The keyboard nodes and what they publish (interfaces/keyboard.py with   *)
(* pynput, interfaces/ssh_keyboard.py, interfaces/evdev_keyboard.py).      *)
(*                                                                         *)
(* "pynput", "ssh"  a listener thread changes two sets of pressed keys;    *)
(*                  the loop iterates over them, one key after the other   *)
(*                  and without a lock.  An iteration raises RuntimeError  *)
(*                  at its next key when the size of the set has changed,  *)
(*                  and IndexError with more keys than n_key_rollover.     *)
(*                  The callbacks of ssh come one at a time too, from a    *)
(*                  pool of one thread.                                    *)
(* "evdev"          the loop itself reads the events of the device, counts *)
(*                  presses modulo 2^16 and shows the lowest n_key_rollover*)
(*                  keys.  An unplugged device sets exit_event.            *)
(*                                                                         *)
(* What is pressed are codes.  Under ssh and evdev a key has one; pynput's *)
(* is the character the key types when the event happens, with Shift or    *)
(* without, so a release may carry another code than the press: it         *)
(* discards a code that is not there, and the first stays.  A key that     *)
(* types nothing and has no name makes the callback raise, which ends      *)
(* pynput's listener thread, and the sets stay as they are.                *)
(*                                                                         *)
(* A code added while its set is iterated over may come up or not; one that*)
(* comes back may come up again.  A reader follows the press counter of    *)
(* one key as EvdevKeyboard asks of consumers: it adds up differences      *)
(* modulo the counter's width.                                             *)
(*                                                                         *)
(* Uncounted fields: the time stamp, and keycode_state, which joins the    *)
(* other two.  ReleasesOther and CountsRepeats are faulty variants.        *)
(***************************************************************************)
EXTENDS Storage, FiniteSets, TLC

CONSTANTS
  Keys,
  Shift, Shifted,         \* a modifier, and what keys type while it is held
  Charless,               \* keys with neither a character nor a name
  Kinds,                  \* the nodes to choose from
  KeyCode,                \* the order evdev shows keys in
  Tapped,                 \* the key whose press counter is followed
  Rollovers,              \* values of n_key_rollover
  Width,                  \* 2^16, the counter's modulus
  max_buffer_size,
  MaxPending, MaxEvents   \* bounds: events not yet read, events in all

Codes == Keys \cup {Shifted[key] : key \in DOMAIN Shifted}

ASSUME KeyboardAssumption ==
  /\ DOMAIN Shifted \subseteq Keys /\ \A key \in DOMAIN Shifted : Shifted[key] \notin Keys
  /\ KeyCode \in [Keys -> Nat] /\ Tapped \in Keys /\ Kinds \subseteq {"pynput", "ssh", "evdev"}
  /\ Rollovers \subseteq Nat \ {0} /\ {Width, max_buffer_size} \subseteq Nat \ {0}
  /\ {MaxPending, MaxEvents} \subseteq Nat

VARIABLES
  kind, n_key_rollover,   \* fixed at the start
  down,                   \* keys the user holds
  happened,               \* events so far
  pending,                \* events the node has not read yet
  listening,              \* the listener thread, or the device, delivers events
  held,                   \* alphanumeric_keys and special_keys, or held_keys
  press_count,            \* of the key Tapped
  loop,                   \* "test" | "alphanumeric" | "special" | "put" | "ended" |
                          \* "raised"
  iterating,              \* size of the set, keys still to come, keys that may come
  shown,                  \* the keys of the state in the making
  exit_event,
  ring_buffer,            \* published states, with their taps as history
  as_read,                \* history: codes pressed, as the events read so far tell
  during,                 \* history: codes pressed some of the round, all of the round
  taps,                   \* history: presses of Tapped among the events read
  reader                  \* the counter it saw last and its sum; the taps by then,
                          \* and whether it always was in time

user == <<down, happened>>
fixed == <<kind, n_key_rollover>>
node == <<listening, held, press_count, as_read, taps, during>>
round == <<loop, iterating, shown>>
keyboard == <<fixed, user, pending, node, round, exit_event, ring_buffer, reader>>

Parts == {"alphanumeric", "special"}
LettersAndDigits == {"w", "s", "a", "d", "q", "e", "i", "k", "j", "l", "u", "o",
                     "0", "1", "2", "3"}
\* ord(key.char) against key.value.vk; KEYCODE_TO_CHAR has letters and digits only.
PartOf(code) ==
  IF \/ code \in LettersAndDigits \/ code \notin Keys
     \/ kind # "evdev" /\ code \in {"[", "]"}
  THEN "alphanumeric" ELSE "special"
HeldIn(part) == {code \in held : PartOf(code) = part}

NoIteration == [size |-> 0, due |-> {}, fresh |-> {}]
NothingShown == [part \in Parts |-> << >>]

KeyboardInit ==
  /\ kind \in Kinds /\ n_key_rollover \in Rollovers
  /\ down = {} /\ happened = 0 /\ pending = << >>
  /\ listening = TRUE /\ held = {} /\ press_count = 0
  /\ loop = "test" /\ iterating = NoIteration /\ shown = NothingShown
  /\ exit_event = FALSE /\ ring_buffer = << >>
  /\ as_read = {} /\ during = [some |-> {}, always |-> {}] /\ taps = 0
  /\ reader = [seen |-> 0, sum |-> 0, taps |-> 0, in_time |-> TRUE]

-----------------------------------------------------------------------------
(* The user and the device.  An event has a code and a value: 1 for a press, 0 for a  *)
(* release and 2 for a repeat.                                                        *)

CodeOf(key) ==
  IF kind = "pynput" /\ Shift \in down /\ key \in DOMAIN Shifted THEN Shifted[key] ELSE key

Happens(key, value) ==
  /\ happened < MaxEvents /\ Len(pending) < MaxPending
  /\ happened' = happened + 1
  /\ pending' = IF listening THEN Append(pending, <<CodeOf(key), value>>) ELSE pending
  /\ UNCHANGED <<fixed, node, round, exit_event, ring_buffer, reader>>

Press == \E key \in Keys \ down : down' = down \cup {key} /\ Happens(key, 1)
Release == \E key \in down : down' = down \ {key} /\ Happens(key, 0)
Repeat == \E key \in down : Happens(key, 2) /\ UNCHANGED down

-----------------------------------------------------------------------------
(* Events the node reads *)

\* on_press and on_release, or one turn of the loop in drain_events.
ReleasesOther(codes, event) ==
  IF event[2] = 1 THEN codes \cup {event[1]}
  ELSE IF event[2] = 0 /\ PartOf(event[1]) = "special" THEN codes \ {event[1]} ELSE codes
AfterEvent(codes, event) ==
  IF event[2] = 1 \/ (event[2] = 2 /\ kind # "evdev") THEN codes \cup {event[1]}
  ELSE IF event[2] = 0 THEN codes \ {event[1]} ELSE codes

CountsRepeats(event) == event[1] = Tapped /\ event[2] # 0
Counts(event) == event[1] = Tapped /\ event[2] = 1

\* A code is pressed until it is released itself.
ReadAs(codes, event) ==
  IF event[2] = 0 THEN codes \ {event[1]} ELSE codes \cup {event[1]}
Pressed(events) == Cardinality({i \in DOMAIN events : events[i] = <<Tapped, 1>>})

\* The listener thread, in the middle of a round of the loop.
CallbackRaises == kind = "pynput" /\ Head(pending)[1] \in Charless
Listen ==
  /\ kind # "evdev" /\ pending # << >> /\ ~CallbackRaises /\ pending' = Tail(pending)
  /\ LET event == Head(pending) IN
     /\ held' = AfterEvent(held, event) /\ as_read' = ReadAs(as_read, event)
     /\ taps' = taps + Pressed(<<event>>)
     /\ during' = [some |-> during.some \cup as_read', always |-> during.always \cap as_read']
     /\ iterating' =
          IF PartOf(event[1]) # loop THEN iterating
          ELSE [iterating EXCEPT !.due = @ \cap held',
                                 !.fresh = (@ \cap held') \cup (held' \ held)]
  /\ UNCHANGED <<fixed, user, listening, press_count, loop, shown, exit_event, ring_buffer,
                 reader>>

\* get_key asks a KeyCode for its value.
ListenerDies ==
  /\ pending # << >> /\ CallbackRaises /\ listening' = FALSE /\ pending' = << >>
  /\ UNCHANGED <<fixed, user, held, press_count, as_read, taps, during, round, exit_event,
                 ring_buffer, reader>>

SortedIn(part, keys) ==
  SetToSortSeq({key \in keys : PartOf(key) = part}, LAMBDA a, b : KeyCode[a] < KeyCode[b])
FirstOf(s, n) == SubSeq(s, 1, Min({n, Len(s)}))

\* drain_events and the arrays made of what it leaves.
Drain ==
  /\ kind = "evdev" /\ loop = "test" /\ ~exit_event /\ loop' = "put"
  /\ pending' = << >>
  /\ held' = FoldLeft(AfterEvent, held, pending)
  /\ as_read' = FoldLeft(ReadAs, as_read, pending)
  /\ during' = [some |-> as_read', always |-> as_read']
  /\ press_count' =
       (press_count + Cardinality({i \in DOMAIN pending : Counts(pending[i])})) % Width
  /\ taps' = taps + Pressed(pending)
  /\ shown' = [part \in Parts |-> FirstOf(SortedIn(part, held'), n_key_rollover)]
  /\ UNCHANGED <<fixed, user, listening, iterating, exit_event, ring_buffer, reader>>

\* The read after the device was unplugged fails; the round goes on.
Unplugged ==
  /\ kind = "evdev" /\ loop = "test" /\ ~exit_event /\ loop' = "put" /\ exit_event' = TRUE
  /\ during' = [some |-> as_read, always |-> as_read]
  /\ shown' = [part \in Parts |-> FirstOf(SortedIn(part, held), n_key_rollover)]
  /\ UNCHANGED <<fixed, user, pending, listening, held, press_count, as_read, taps,
                 iterating, ring_buffer, reader>>

-----------------------------------------------------------------------------
(* The loop *)

LoopOnly ==
  UNCHANGED <<fixed, user, pending, listening, held, press_count, as_read, taps, reader>>

Ends ==
  /\ loop = "test" /\ exit_event /\ loop' = "ended"
  /\ LoopOnly /\ UNCHANGED <<iterating, shown, exit_event, ring_buffer, during>>

IterationOver(part) ==
  [size |-> Cardinality(HeldIn(part)), due |-> HeldIn(part), fresh |-> {}]

Round ==
  /\ kind # "evdev" /\ loop = "test" /\ ~exit_event /\ loop' = "alphanumeric"
  /\ iterating' = IterationOver("alphanumeric") /\ shown' = NothingShown
  /\ during' = [some |-> as_read, always |-> as_read]
  /\ LoopOnly /\ UNCHANGED <<exit_event, ring_buffer>>

SameSize == Cardinality(HeldIn(loop)) = iterating.size

NextKey ==
  /\ loop \in Parts /\ SameSize
  /\ \E key \in iterating.due \cup iterating.fresh :
       /\ iterating' = [iterating EXCEPT !.due = @ \ {key}, !.fresh = @ \ {key}]
       /\ IF Len(shown[loop]) < n_key_rollover
          THEN shown' = [shown EXCEPT ![loop] = Append(@, key)] /\ UNCHANGED loop
          ELSE loop' = "raised" /\ UNCHANGED shown
  /\ LoopOnly /\ UNCHANGED <<exit_event, ring_buffer, during>>

LastKey ==
  /\ loop \in Parts /\ SameSize /\ iterating.due = {}
  /\ IF loop = "alphanumeric"
     THEN loop' = "special" /\ iterating' = IterationOver("special")
     ELSE loop' = "put" /\ iterating' = NoIteration
  /\ LoopOnly /\ UNCHANGED <<shown, exit_event, ring_buffer, during>>

\* RuntimeError: Set changed size during iteration
SizeChanged ==
  /\ loop \in Parts /\ ~SameSize /\ loop' = "raised"
  /\ LoopOnly /\ UNCHANGED <<iterating, shown, exit_event, ring_buffer, during>>

Put ==
  /\ loop = "put" /\ loop' = "test"
  /\ ring_buffer' =
       Appended(ring_buffer, [shown |-> shown, press_count |-> press_count, taps |-> taps],
                max_buffer_size)
  /\ LoopOnly /\ UNCHANGED <<iterating, shown, exit_event, during>>

-----------------------------------------------------------------------------
(* A reader of the press counter *)

CountTaps ==
  /\ kind = "evdev" /\ ring_buffer # << >>
  /\ LET state == Last(ring_buffer) IN
     reader' = [seen |-> state.press_count,
                sum |-> reader.sum + ((state.press_count - reader.seen) % Width),
                taps |-> state.taps,
                in_time |-> reader.in_time /\ state.taps - reader.taps < Width]
  /\ UNCHANGED <<fixed, user, pending, node, round, exit_event, ring_buffer>>

LoopSteps == Drain \/ Ends \/ Round \/ NextKey \/ LastKey \/ SizeChanged \/ Put
KeyboardNext ==
  \/ Press \/ Release \/ Repeat \/ Listen \/ ListenerDies \/ Unplugged \/ LoopSteps \/ CountTaps

-----------------------------------------------------------------------------
(* Properties *)

\* A state about to be published shows only codes that were pressed at some time of the
\* round, and every code that was pressed all the time, unless evdev had no room for it.
\* The iteration without a lock and the events between two rounds blur it no more.  A
\* code is pressed from its press to its release, so far as the node heard of them:
\* under evdev and ssh that is while the key is down; under pynput a key stays pressed
\* when it is let go under another code or after the listener died.
ShownIsRegular ==
  loop = "put" =>
    \A part \in Parts :
      /\ ToSet(shown[part]) \subseteq during.some
      /\ \/ \A code \in during.always : PartOf(code) = part => code \in ToSet(shown[part])
         \/ kind = "evdev" /\ Len(shown[part]) = n_key_rollover

\* A reader of the press counter that looks before 2^16 taps have passed counts each
\* tap exactly once, whatever came between two looks: several taps of one period, a
\* key that repeats, a counter that wrapped.
TapsSeenOnce == reader.in_time => reader.sum = reader.taps
=============================================================================
