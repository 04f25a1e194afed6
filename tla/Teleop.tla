----------------------------------- MODULE Teleop -----------------------------------
(***************************************************************************)
(* Teleoperation of an arm and its gripper with a keyboard                 *)
(* (examples/teleop_eef.py) over in-process storage: the keyboard node     *)
(* publishes its keys, the loop turns the newest state into a target and   *)
(* requests it, the arm drains its request queue and goes to the last      *)
(* request.                                                                *)
(*                                                                         *)
(* A step of the target is one unit on an axis; positions are taken modulo *)
(* Positions, which keeps them few.  The loop works out the keys of a      *)
(* state in their order, so the last of two that contradict each other     *)
(* counts.  There are polls for "Keyboard" (pynput), "Gamepad" and         *)
(* "Spacemouse" only.                                                      *)
(***************************************************************************)
EXTENDS Keyboards

CONSTANTS Positions, max_queue_size

ASSUME TeleopAssumption == {Positions, max_queue_size} \subseteq Nat \ {0}

VARIABLES
  teleop,         \* "start" | "running" | "ended" | "raised"
  teleop_mode,
  target,         \* target_pose, and target_pos of the gripper
  request_queue,  \* of the arm
  arm             \* the request the arm carried out last

vars == <<keyboard, teleop, teleop_mode, target, request_queue, arm>>

Axes == 1 .. 6
Still == [axis \in Axes |-> 0]
Home == [pose |-> Still, gripper |-> 0]

Init ==
  /\ KeyboardInit
  /\ teleop = "start" /\ teleop_mode = "TRANSLATION_2D" /\ target = Home
  /\ request_queue = << >> /\ arm = Home

-----------------------------------------------------------------------------
(* poll_keyboard and move_arm *)

Motion ==
  [w |-> <<1, 1>>, s |-> <<1, -1>>, a |-> <<2, -1>>, d |-> <<2, 1>>, q |-> <<3, -1>>,
   e |-> <<3, 1>>, i |-> <<4, 1>>, k |-> <<4, -1>>, j |-> <<5, 1>>, l |-> <<5, -1>>,
   u |-> <<6, 1>>, o |-> <<6, -1>>]
Grip == ("[" :> 0) @@ ("]" :> 1)
Mode == ("0" :> "TRANSLATION_2D") @@ ("1" :> "TRANSLATION") @@ ("2" :> "ROTATION")
        @@ ("3" :> "TRANSLATION_ROTATION")

\* What the last key of the state that bears on it says, or default.
Says(keys, table, default) ==
  LET said == SelectSeq(keys, LAMBDA key : key \in DOMAIN table)
  IN IF said = << >> THEN default ELSE table[Last(said)]
KeyMotion(keys, axis) ==
  LET on == SelectSeq(keys, LAMBDA key : key \in DOMAIN Motion /\ Motion[key][1] = axis)
  IN IF on = << >> THEN 0 ELSE Motion[Last(on)][2]

Moving(mode) ==
  CASE mode = "TRANSLATION_2D" -> {1, 2}
    [] mode = "TRANSLATION" -> {1, 2, 3}
    [] mode = "ROTATION" -> {4, 5, 6}
    [] mode = "TRANSLATION_ROTATION" -> Axes

MovedBy(keys, mode) ==
  [pose |-> [axis \in Axes |->
               IF axis \in Moving(mode)
               THEN (target.pose[axis] + KeyMotion(keys, axis)) % Positions
               ELSE target.pose[axis]],
   gripper |-> Says(keys, Grip, target.gripper)]

-----------------------------------------------------------------------------
(* teleop_eef.  input() may wait for ever. *)

Enter ==
  /\ teleop = "start" /\ teleop' = "running"
  /\ UNCHANGED <<keyboard, teleop_mode, target, request_queue, arm>>

Sample ==
  /\ teleop = "running" /\ kind = "pynput" /\ ring_buffer # << >>
  /\ LET keys == Last(ring_buffer).shown["alphanumeric"] IN
     /\ teleop_mode' = Says(keys, Mode, teleop_mode)
     /\ target' = MovedBy(keys, teleop_mode')
  /\ request_queue' = Appended(request_queue, target', max_queue_size)
  /\ UNCHANGED <<keyboard, teleop, arm>>

\* No poll for this interface, or no state yet.
Raises ==
  /\ teleop = "running" /\ (kind # "pynput" \/ ring_buffer = << >>)
  /\ teleop' = "raised"
  /\ UNCHANGED <<keyboard, teleop_mode, target, request_queue, arm>>

\* Ctrl-C ends the loop and then the servers.
Interrupt ==
  /\ teleop = "running" /\ teleop' = "ended" /\ exit_event' = TRUE
  /\ UNCHANGED <<fixed, user, pending, node, round, ring_buffer, reader, teleop_mode,
                 target, request_queue, arm>>

\* The arm's loop: every request of get_all, in order.
Requests ==
  /\ request_queue # << >> /\ arm' = Last(request_queue) /\ request_queue' = << >>
  /\ UNCHANGED <<keyboard, teleop, teleop_mode, target>>

-----------------------------------------------------------------------------
KeyboardStep(A) == A /\ UNCHANGED <<teleop, teleop_mode, target, request_queue, arm>>
Next ==
  \/ KeyboardStep(KeyboardNext)
  \/ Enter \/ Sample \/ Raises \/ Interrupt \/ Requests
Spec == Init /\ [][Next]_vars

\* The threads run: the listener, the keyboard's loop, the teleoperation, the arm.
FairSpec ==
  /\ Spec
  /\ WF_vars(KeyboardStep(Listen \/ ListenerDies)) /\ WF_vars(KeyboardStep(LoopSteps))
  /\ WF_vars(Sample) /\ WF_vars(Requests)

\* When the user lets go of all keys for good while the keyboard's loop is alive, the
\* target comes to rest and the arm arrives at it, unless a code is left: a key was let
\* go under another code than it was pressed under, or after the listener died.  A
\* loop that raised leaves its last state to be read for ever.
LeftPressed == FoldLeft(ReadAs, as_read, pending)
LetGo == down = {} /\ LeftPressed = {} /\ loop \notin {"raised", "ended"}
ComesToRest == <>[]LetGo => <>[](arm = target) /\ <>[][target' = target]_vars
=============================================================================
