------------------------- MODULE TrajectoryInterpolator -------------------------
(***************************************************************************)
(* TrajectoryInterpolator and PoseTrajectoryInterpolator of                *)
(* interpolators.py: piecewise linear trajectories and schedule_waypoint   *)
(* as the control loops of the robots call it, with curr_time and          *)
(* last_waypoint_time.                                                     *)
(*                                                                         *)
(* A trajectory is a function from the times of its waypoints to values.   *)
(* A value has a position and a rotation, each one number, which is what   *)
(* norms and rotation angles leave of them along a line; a                 *)
(* TrajectoryInterpolator is the case where rot does not move.  Numbers    *)
(* are exact fractions <<n, d>>; times are whole ticks, and the duration   *)
(* a speed limit asks for is rounded up to the next tick.                  *)
(*                                                                         *)
(* EndAtLast and IgnoreSpeed are faulty variants.                          *)
(***************************************************************************)
EXTENDS Integers

CONSTANT MaxSpeed  \* per component, in units per tick

(* Fractions *)
Whole(n) == <<n, 1>>
Minus(p, q) == <<p[1] * q[2] - q[1] * p[2], p[2] * q[2]>>
Leq(p, q) == p[1] * q[2] <= q[1] * p[2]
AbsDiff(p, q) == IF Leq(q, p) THEN Minus(p, q) ELSE Minus(q, p)
CeilDiv(p, n) == (p[1] + p[2] * n - 1) \div (p[2] * n)

Components == {"pos", "rot"}
Fraction == Int \X (Nat \ {0})
Value == [Components -> Fraction]

\* assert max_pos_speed > 0 and assert max_rot_speed > 0
ASSUME SpeedAssumption == MaxSpeed \in [Components -> Nat \ {0}]

Larger(m, n) == IF m >= n THEN m ELSE n
Smaller(m, n) == IF m <= n THEN m ELSE n

-----------------------------------------------------------------------------
Times(traj) == DOMAIN traj
FirstTime(traj) == CHOOSE t \in Times(traj) : \A u \in Times(traj) : t <= u
LastTime(traj) == CHOOSE t \in Times(traj) : \A u \in Times(traj) : u <= t

\* Linear between p at time t0 and q at time t1.
Between(p, q, t0, t1, t) ==
  IF p = q THEN p
  ELSE <<p[1] * q[2] * (t1 - t) + q[1] * p[2] * (t - t0), p[2] * q[2] * (t1 - t0)>>

\* __call__ clips t to the trajectory's times.
Clip(traj, t) == Smaller(Larger(t, FirstTime(traj)), LastTime(traj))
Before(traj, t) == CHOOSE u \in Times(traj) : u < t /\ \A w \in Times(traj) : w < t => w <= u
After(traj, t) == CHOOSE u \in Times(traj) : u > t /\ \A w \in Times(traj) : w > t => w >= u

Within(traj, t) ==
  IF t \in Times(traj) THEN traj[t]
  ELSE [c \in Components |->
          Between(traj[Before(traj, t)][c], traj[After(traj, t)][c],
                  Before(traj, t), After(traj, t), t)]
At(traj, t) == Within(traj, Clip(traj, t))

TrimTimes(traj, start_t, end_t) ==
  {start_t, end_t} \cup {u \in Times(traj) : start_t < u /\ u < end_t}

IgnoreSpeed(from, to) == 0
MinDuration(from, to) ==
  Larger(CeilDiv(AbsDiff(from.pos, to.pos), MaxSpeed.pos),
         CeilDiv(AbsDiff(from.rot, to.rot), MaxSpeed.rot))

\* The old trajectory is kept between StartTime and EndTime.
EndAtLast(time, curr_time, last_waypoint_time) ==
  IF time <= last_waypoint_time THEN last_waypoint_time
  ELSE Larger(last_waypoint_time, curr_time)
EndTime(time, curr_time, last_waypoint_time) ==
  Smaller(IF time <= last_waypoint_time THEN curr_time
          ELSE Larger(last_waypoint_time, curr_time),
          time)

StartTime(first, curr_time, end_time) ==
  Smaller(Larger(curr_time, first), end_time)

\* The assertions schedule_waypoint makes before it trims.
WindowAsserted(start_time, end_time, time, curr_time, last_waypoint_time) ==
  /\ start_time <= end_time /\ end_time <= time
  /\ IF time <= last_waypoint_time THEN end_time = curr_time
     ELSE end_time = Larger(last_waypoint_time, curr_time)
  /\ curr_time <= start_time /\ curr_time <= time

NoEffect(time, curr_time) == time <= curr_time

Duration(traj, value, time, end_time) ==
  Larger(time - end_time, MinDuration(At(traj, end_time), value))

\* The trajectory trimmed to the window, and the new waypoint after it.
Appended(traj, start_time, end_time, value, waypoint) ==
  [t \in TrimTimes(traj, start_time, end_time) \cup {waypoint} |->
     IF t = waypoint THEN value ELSE At(traj, t)]

ScheduleWaypoint(traj, value, time, curr_time, last_waypoint_time) ==
  LET end_time == EndTime(time, curr_time, last_waypoint_time)
  IN  IF NoEffect(time, curr_time) THEN traj
      ELSE Appended(traj, StartTime(FirstTime(traj), curr_time, end_time), end_time,
                    value, end_time + Duration(traj, value, time, end_time))

\* An assertion fails, or the new waypoint falls on the last kept one, which
\* Slerp refuses.
ScheduleRaises(traj, value, time, curr_time, last_waypoint_time) ==
  LET end_time == EndTime(time, curr_time, last_waypoint_time)
  IN  /\ ~NoEffect(time, curr_time)
      /\ \/ ~WindowAsserted(StartTime(FirstTime(traj), curr_time, end_time), end_time,
                            time, curr_time, last_waypoint_time)
         \/ Duration(traj, value, time, end_time) <= 0

\* Every leg keeps the speed limits.
WithinSpeed(traj) ==
  \A t0, t1 \in Times(traj) :
    t0 < t1 /\ (\A u \in Times(traj) : u <= t0 \/ t1 <= u) =>
      \A c \in Components :
        Leq(AbsDiff(traj[t0][c], traj[t1][c]), Whole(MaxSpeed[c] * (t1 - t0)))
=============================================================================
