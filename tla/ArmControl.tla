------------------------------- MODULE ArmControl -------------------------------
(***************************************************************************)
(* The control loops of the robots that interpolate waypoints: moveL,      *)
(* moveJ and moveG put a target value and time into the request queue, and *)
(* every period the loop sends the trajectory's value at the current time, *)
(* fetches the requests and schedules them.  Values of joints, and those   *)
(* of one gripper, go through a low-pass filter first, so that the command *)
(* that is sent lags behind.                                               *)
(*                                                                         *)
(* The loops of the robots differ in a few respects, recorded as a robot:  *)
(*   first   what an iteration does first, "send" or "schedule";           *)
(*   lead    how long after t_now the new trajectory may begin;            *)
(*   late    what the loop does with a target_time before t_now + lead:    *)
(*           "pass" it to schedule_waypoint or "skip" it;                  *)
(*   pacing  "precise_sleep" keeps the schedule, "sleep" restarts it after *)
(*           an overrun;                                                   *)
(*   past    what the API does with a target_time that is not after now:   *)
(*           "refuse" (AssertionError, or so_arm's silent return) or       *)
(*           "clamp" it to just after now;                                 *)
(*   filtered  whether there is a filter, as in joint mode.                *)
(*                                                                         *)
(* kinova_arm's poses go through inverse kinematics and then the filter;   *)
(* that mode is left out.                                                  *)
(*                                                                         *)
(* Time passes between any two steps, so the loop may be late.             *)
(* PreviousTime and BackDated are faulty variants.                         *)
(***************************************************************************)
EXTENDS Integers, Sequences, TrajectoryInterpolator

CONSTANTS
  Dt,           \* period of the loop, in ticks
  Values,       \* targets of requests
  Home,         \* where the robot is when the loop begins
  Alpha,        \* of the low-pass filter
  MaxNow,       \* bound: ticks
  MaxTarget,    \* bound: target times
  MaxRequests   \* bound: requests

ASSUME ControlAssumption ==
  /\ Dt \in Nat \ {0} /\ {MaxNow, MaxTarget, MaxRequests} \subseteq Nat
  /\ Home \in Value /\ Values \subseteq Value
  /\ Alpha \in Fraction /\ 0 < Alpha[1] /\ Alpha[1] < Alpha[2]

VARIABLES
  robot,
  now,
  phase,              \* "sleeping" | "send" | "fetch" | "clock" | "schedule" |
                      \* "pace" | "stopped" | "refused" | "raised"
  wake,               \* start_time of the Rate, once it has slept
  t_now,
  request_queue,
  reqs,               \* the requests fetched in this iteration
  requested,          \* requests made
  interp,
  last_waypoint_time,
  value,              \* the trajectory's value handed on last, to the robot or filter
  command,            \* sent last to the robot
  sent,               \* when the iteration that sent it read the clock
  longest             \* history: the longest allowance between two values so far

loop == <<phase, wake, t_now>>
trajectory == <<interp, last_waypoint_time>>
output == <<value, command, sent, longest>>
queue == <<request_queue, reqs, requested>>
vars == <<robot, now, loop, trajectory, output, queue>>

-----------------------------------------------------------------------------
(* The robots *)

Robot(first, lead, late, pacing, past, filtered) ==
  [first |-> first, lead |-> lead, late |-> late, pacing |-> pacing, past |-> past,
   filtered |-> filtered]

\* Of an arm with both modes: joints tells which.
XArm(joints) == Robot("send", Dt, "pass", "precise_sleep", "refuse", joints)
UrArm(joints) == XArm(joints)
PiperArm(joints) == Robot("send", Dt, "skip", "precise_sleep", "refuse", joints)
SoArm(joints) == Robot("schedule", Dt, "skip", "precise_sleep", "refuse", joints)
FrankaArm(joints) == Robot("send", Dt, "pass", "sleep", "clamp", joints)
KinovaArm == PiperArm(TRUE)
RobotiqGripper == Robot("send", Dt, "pass", "precise_sleep", "refuse", TRUE)
XArmGripper == Robot("send", Dt, "pass", "precise_sleep", "refuse", FALSE)
AgGripper == XArmGripper
WavesharePiperGripper == XArmGripper
FrankaGripper == XArmGripper
WsgGripper == Robot("send", 0, "pass", "precise_sleep", "refuse", FALSE)

Robots ==
  (UNION {{XArm(j), UrArm(j), PiperArm(j), SoArm(j), FrankaArm(j)} : j \in BOOLEAN})
  \cup {KinovaArm, RobotiqGripper, XArmGripper, AgGripper, WavesharePiperGripper,
        FrankaGripper, WsgGripper}

Init ==
  /\ robot \in Robots
  /\ now = 0 /\ phase = "sleeping" /\ wake = 0 /\ t_now = 0
  /\ request_queue = << >> /\ reqs = << >> /\ requested = 0
  /\ interp = [t \in {0} |-> Home] /\ value = Home /\ command = Home
  /\ last_waypoint_time = 0 /\ sent = 0 /\ longest = 0

-----------------------------------------------------------------------------
(* moveL, moveJ, moveG *)

Accepted(time) == IF robot.past = "clamp" THEN Larger(time, now + 1) ELSE time

Move(target, time) ==
  /\ requested < MaxRequests
  /\ Accepted(time) > now /\ Accepted(time) <= MaxTarget
  /\ request_queue' = Append(request_queue, [value |-> target, time |-> Accepted(time)])
  /\ requested' = requested + 1
  /\ UNCHANGED <<robot, now, loop, trajectory, output, reqs>>

-----------------------------------------------------------------------------
(* The loop *)

Begin ==
  /\ phase = "sleeping" /\ now >= wake
  /\ IF robot.first = "send"
     THEN phase' = "send" /\ t_now' = now
     ELSE phase' = "fetch" /\ UNCHANGED t_now
  /\ UNCHANGED <<robot, now, wake, trajectory, output, queue>>

PreviousTime == sent
SendTime == t_now

\* A fraction equal to p, of which TLC takes the one with the least denominator.
Simplified(p) ==
  LET d == CHOOSE d \in 1 .. p[2] : (p[1] * d) % p[2] = 0
  IN  <<(p[1] * d) \div p[2], d>>

\* LowPassFilter: alpha * x + (1 - alpha) * s_prev
Mixed(x, s_prev) ==
  <<Alpha[1] * x[1] * s_prev[2] + (Alpha[2] - Alpha[1]) * s_prev[1] * x[2],
    Alpha[2] * x[2] * s_prev[2]>>
Filtered(x, s_prev) == [c \in Components |-> Simplified(Mixed(x[c], s_prev[c]))]

\* The time between two values for which the trajectory may have moved: a loop that
\* catches up sends its first value up to the lead ahead of the last, one that
\* schedules before it sends may jump by the lead once more.
Elapsed == t_now - sent
Allowance ==
  IF robot.first = "send" THEN Larger(Elapsed, robot.lead) ELSE Elapsed + robot.lead

Send ==
  /\ phase = "send"
  /\ value' = At(interp, SendTime)
  /\ command' = IF robot.filtered THEN Filtered(value', command) ELSE value'
  /\ sent' = t_now /\ longest' = Larger(longest, Allowance)
  /\ phase' = IF robot.first = "send" THEN "fetch" ELSE "pace"
  /\ UNCHANGED <<robot, now, wake, t_now, trajectory, queue>>

\* The robot refuses the command (code # 0, not connected, e-stop).
SendFails ==
  /\ phase = "send"
  /\ phase' = "refused"
  /\ UNCHANGED <<robot, now, wake, t_now, trajectory, output, queue>>

BackDated(t) == t - Dt
CurrTime(t) == t + robot.lead

Fetch ==
  /\ phase = "fetch"
  /\ phase' = IF robot.first = "send" THEN "schedule" ELSE "clock"
  /\ reqs' = request_queue /\ request_queue' = << >>
  /\ UNCHANGED <<robot, now, wake, t_now, trajectory, output, requested>>

\* so_arm reads the clock after the fetch.
ReadClock ==
  /\ phase = "clock"
  /\ phase' = "schedule" /\ t_now' = now
  /\ UNCHANGED <<robot, now, wake, trajectory, output, queue>>

Skips(r) == robot.late = "skip" /\ r.time < CurrTime(t_now)

\* for r in reqs: ...
Schedule ==
  LET r == Head(reqs)
  IN  /\ phase = "schedule" /\ reqs # << >>
      /\ reqs' = Tail(reqs)
      /\ IF Skips(r)
         THEN UNCHANGED <<phase, trajectory>>
         ELSE IF ScheduleRaises(interp, r.value, r.time, CurrTime(t_now), last_waypoint_time)
         THEN phase' = "raised" /\ UNCHANGED trajectory
         ELSE /\ interp' = ScheduleWaypoint(interp, r.value, r.time, CurrTime(t_now),
                                            last_waypoint_time)
              /\ last_waypoint_time' = r.time
              /\ UNCHANGED phase
      /\ UNCHANGED <<robot, now, wake, t_now, output, request_queue, requested>>

AllScheduled ==
  /\ phase = "schedule" /\ reqs = << >>
  /\ phase' = IF robot.first = "send" THEN "pace" ELSE "send"
  /\ UNCHANGED <<robot, now, wake, t_now, trajectory, output, queue>>

\* rate.precise_sleep() or rate.sleep()
Pace ==
  /\ phase = "pace"
  /\ phase' = "sleeping"
  /\ wake' = IF robot.pacing = "sleep" /\ now >= wake + Dt THEN now ELSE wake + Dt
  /\ UNCHANGED <<robot, now, t_now, trajectory, output, queue>>

\* exit_event is seen between two iterations.
Stop ==
  /\ phase = "sleeping"
  /\ phase' = "stopped"
  /\ UNCHANGED <<robot, now, wake, t_now, trajectory, output, queue>>

Tick ==
  /\ now < MaxNow
  /\ now' = now + 1
  /\ UNCHANGED <<robot, loop, trajectory, output, queue>>

LoopStep ==
  \/ Begin \/ Send \/ SendFails \/ Fetch \/ ReadClock \/ Schedule \/ AllScheduled
  \/ Pace \/ Stop

Next ==
  \/ \E v \in Values, t \in 0 .. MaxTarget : Move(v, t)
  \/ LoopStep \/ Tick

Spec == Init /\ [][Next]_vars

-----------------------------------------------------------------------------
(* Properties *)

\* No sequence of accepted requests, however late the loop sees them, makes an
\* assertion of schedule_waypoint fail or repeats a time in the trajectory.
NeverRaises == phase # "raised"

\* The trajectory never asks for more than the speed limits, whatever was cut
\* off and appended.
InterpWithinSpeed == WithinSpeed(interp)

\* Nor does the stream of commands: from one to the next the robot moves no further
\* than the limits allow in the time between them (Allowance).  A filtered command
\* lags, and after a stall each command of the burst that catches up may step further
\* than the time since the one before allows, but never further than the limits allow
\* in the longest time between two commands so far.
CommandStep ==
  [][\A c \in Components :
       Leq(AbsDiff(command'[c], command[c]),
           Whole(MaxSpeed[c] * (IF robot.filtered THEN longest' ELSE Allowance)))]_output

\* A loop that keeps its schedule has handed on the end of its trajectory a period
\* after the trajectory ended and the last request can have been made: no request and
\* no waypoint is left hanging.  Without a filter the robot was sent there; with one
\* the command never quite arrives, and goes on approaching as long as the loop runs.
Settled ==
  /\ phase = "sleeping" /\ now < wake
  /\ Larger(MaxTarget, LastTime(interp)) + Dt <= now + 1
  => /\ request_queue = << >> /\ value = interp[LastTime(interp)]
     /\ ~robot.filtered => command = value

\* "last_waypoint_time: Time of last scheduled waypoint", says the interpolator
\* of the argument the loops pass.
LastWaypointKnown == last_waypoint_time = LastTime(interp)
=============================================================================
