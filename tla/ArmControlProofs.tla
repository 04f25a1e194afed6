---------------------------- MODULE ArmControlProofs ----------------------------
(***************************************************************************)
(* schedule_waypoint never fails.  The comments of interpolators.py call   *)
(* the order of start_time, end_time, time and curr_time "proven"; Window  *)
(* is that proof, for the arguments of every call.  The rest carries it to *)
(* the control loops: a trajectory stays one (its times have neighbours,   *)
(* so that clipping and interpolating are defined), and so NeverRaises     *)
(* holds for every period, every speed limit and every list of requests.   *)
(*                                                                         *)
(* The second part is about the speed limits.  They bound the distance of  *)
(* any two waypoints of a trajectory by the time between them, so they     *)
(* bound that of any two of its values; cutting it off and appending a     *)
(* waypoint in good time keeps that.  Such values are sent to the robot,   *)
(* or to its low-pass filter; a filtered command follows them with a lag   *)
(* that stays bounded, though by the longest stall so far.                 *)
(*                                                                         *)
(* The last part is about a loop that keeps its schedule: a period after   *)
(* the last request and the end of the trajectory nothing is left to do.   *)
(***************************************************************************)
EXTENDS ArmControl, TLAPS

\* What CHOOSE needs of the times of a trajectory.
Discrete(S) ==
  /\ S \subseteq Int
  /\ \E m \in S : \A u \in S : m <= u
  /\ \E m \in S : \A u \in S : u <= m
  /\ \A t \in Int : (\E u \in S : u < t) =>
       \E u \in S : u < t /\ \A w \in S : w < t => w <= u
  /\ \A t \in Int : (\E u \in S : u > t) =>
       \E u \in S : u > t /\ \A w \in S : w > t => w >= u

Trajectory(f) == Discrete(DOMAIN f) /\ f \in [DOMAIN f -> Value]

-----------------------------------------------------------------------------
(* The window *)

\* The assertions of schedule_waypoint hold whenever it has an effect, and the
\* kept part of the trajectory ends before the waypoint's time.
THEOREM Window ==
  ASSUME NEW first \in Int, NEW time \in Int, NEW curr_time \in Int,
         NEW last_time \in Int, ~NoEffect(time, curr_time)
  PROVE  LET end == EndTime(time, curr_time, last_time)
             start == StartTime(first, curr_time, end)
         IN  /\ end \in Int /\ start \in Int
             /\ WindowAsserted(start, end, time, curr_time, last_time)
             /\ end < time
BY DEF NoEffect, EndTime, StartTime, WindowAsserted, Larger, Smaller

-----------------------------------------------------------------------------
(* Values *)

LEMMA PositiveProduct ==
  ASSUME NEW a \in Nat \ {0}, NEW b \in Nat \ {0}
  PROVE  a * b \in Nat \ {0}
BY SMT

\* A quotient by a positive number.
LEMMA CeilDivType ==
  ASSUME NEW p \in Fraction, NEW n \in Nat \ {0}
  PROVE  CeilDiv(p, n) \in Int
<1>1. p[2] * n \in Nat \ {0}
  BY PositiveProduct DEF Fraction
<1>2. p[1] + p[2] * n - 1 \in Int
  BY <1>1 DEF Fraction
<1> QED
  BY <1>1, <1>2 DEF CeilDiv

LEMMA AbsDiffType ==
  ASSUME NEW p \in Fraction, NEW q \in Fraction
  PROVE  AbsDiff(p, q) \in Fraction
<1>1. p[2] * q[2] \in Nat \ {0} /\ q[2] * p[2] \in Nat \ {0}
  BY PositiveProduct DEF Fraction
<1>2. p[1] * q[2] \in Int /\ q[1] * p[2] \in Int
  BY DEF Fraction
<1> QED
  BY <1>1, <1>2 DEF AbsDiff, Minus, Fraction

LEMMA MinDurationType ==
  ASSUME NEW v \in Value, NEW w \in Value
  PROVE  MinDuration(v, w) \in Int
<1>1. \A c \in Components : AbsDiff(v[c], w[c]) \in Fraction /\ MaxSpeed[c] \in Nat \ {0}
  BY AbsDiffType, SpeedAssumption DEF Value
<1>2. \A c \in Components : CeilDiv(AbsDiff(v[c], w[c]), MaxSpeed[c]) \in Int
  BY <1>1, CeilDivType
<1>3. /\ CeilDiv(AbsDiff(v.pos, w.pos), MaxSpeed.pos) \in Int
      /\ CeilDiv(AbsDiff(v.rot, w.rot), MaxSpeed.rot) \in Int
  BY <1>2 DEF Components
<1> QED
  BY <1>3 DEF MinDuration, Larger

LEMMA BetweenType ==
  ASSUME NEW p \in Fraction, NEW q \in Fraction,
         NEW t0 \in Int, NEW t1 \in Int, NEW t \in Int, t0 < t1
  PROVE  Between(p, q, t0, t1, t) \in Fraction
<1>1. t1 - t0 \in Nat \ {0} /\ p[2] * q[2] \in Nat \ {0}
  BY PositiveProduct DEF Fraction
<1>2. p[2] * q[2] * (t1 - t0) \in Nat \ {0}
  BY <1>1, PositiveProduct
<1>3. p[1] * q[2] \in Int /\ q[1] * p[2] \in Int
  BY DEF Fraction
<1>4. p[1] * q[2] * (t1 - t) + q[1] * p[2] * (t - t0) \in Int
  BY <1>3
<1> QED
  BY <1>2, <1>4 DEF Between, Fraction

-----------------------------------------------------------------------------
(* Trajectories *)

LEMMA Ends ==
  ASSUME NEW f, Trajectory(f)
  PROVE  /\ FirstTime(f) \in Times(f) /\ LastTime(f) \in Times(f)
         /\ Times(f) \subseteq Int
         /\ \A u \in Times(f) : FirstTime(f) <= u /\ u <= LastTime(f)
BY DEF Trajectory, Discrete, Times, FirstTime, LastTime

LEMMA Neighbours ==
  ASSUME NEW f, Trajectory(f), NEW t \in Int, FirstTime(f) < t, t < LastTime(f)
  PROVE  /\ Before(f, t) \in Times(f) /\ Before(f, t) < t
         /\ After(f, t) \in Times(f) /\ t < After(f, t)
<1>1. FirstTime(f) \in Times(f) /\ LastTime(f) \in Times(f) /\ Times(f) \subseteq Int
  BY Ends
<1>2. /\ \E u \in Times(f) : u < t /\ \A w \in Times(f) : w < t => w <= u
      /\ \E u \in Times(f) : u > t /\ \A w \in Times(f) : w > t => w >= u
  BY <1>1 DEF Trajectory, Discrete, Times
<1>3. Before(f, t) \in Times(f) /\ Before(f, t) < t
  BY <1>2 DEF Before
<1>4. After(f, t) \in Times(f) /\ After(f, t) > t
  BY <1>2 DEF After
<1> QED
  BY <1>1, <1>3, <1>4

\* A trajectory has a value at every time.
LEMMA AtType ==
  ASSUME NEW f, Trajectory(f), NEW t \in Int
  PROVE  At(f, t) \in Value
<1> DEFINE c == Clip(f, t)
<1>1. c \in Int /\ FirstTime(f) <= c /\ c <= LastTime(f)
  BY Ends DEF Clip, Larger, Smaller
<1>2. CASE c \in Times(f)
  BY <1>2 DEF At, Within, Trajectory, Times
<1>3. CASE c \notin Times(f)
  <2>1. FirstTime(f) < c /\ c < LastTime(f)
    BY <1>1, <1>3, Ends
  <2> DEFINE b == Before(f, c)
             a == After(f, c)
  <2>2. b \in Times(f) /\ a \in Times(f) /\ b \in Int /\ a \in Int /\ b < a
    <3> HIDE DEF c
    <3>1. b < c /\ c < a /\ b \in Times(f) /\ a \in Times(f)
      BY <1>1, <2>1, Neighbours
    <3>2. b \in Int /\ a \in Int
      BY <3>1, Ends
    <3> QED
      BY <1>1, <3>1, <3>2
  <2>3. f[b] \in Value /\ f[a] \in Value
    BY <2>2 DEF Trajectory, Times
  <2> HIDE DEF a, b, c
  <2>4. \A k \in Components : Between(f[b][k], f[a][k], b, a, c) \in Fraction
    BY <1>1, <2>2, <2>3, BetweenType DEF Value
  <2>5. At(f, t) = [k \in Components |-> Between(f[b][k], f[a][k], b, a, c)]
    BY <1>3 DEF At, Within, a, b, c
  <2> QED
    BY <2>4, <2>5 DEF Value
<1> QED
  BY <1>2, <1>3

LEMMA DurationType ==
  ASSUME NEW f, Trajectory(f), NEW target \in Value, NEW time \in Int, NEW end \in Int,
         end < time
  PROVE  Duration(f, target, time, end) \in Nat \ {0}
<1>1. MinDuration(At(f, end), target) \in Int
  BY AtType, MinDurationType
<1> QED
  BY <1>1 DEF Duration, Larger

\* Trimming keeps the times discrete, and so does a waypoint after the end.
LEMMA TrimDiscrete ==
  ASSUME NEW f, Trajectory(f), NEW start \in Int, NEW end \in Int, NEW waypoint \in Int,
         start <= end, end < waypoint
  PROVE  Discrete(TrimTimes(f, start, end) \cup {waypoint})
<1> DEFINE S == TrimTimes(f, start, end) \cup {waypoint}
<1>1. S \subseteq Int /\ start \in S /\ end \in S /\ waypoint \in S
  BY Ends DEF TrimTimes
<1>2. \A u \in S : /\ start <= u /\ u <= waypoint
                   /\ u = start \/ u >= end \/ u \in Times(f)
                   /\ u <= end \/ u = waypoint
  BY <1>1 DEF TrimTimes
<1>3. \A u \in Times(f) : start <= u /\ u <= end => u \in S
  BY Ends DEF TrimTimes
<1> HIDE DEF S
<1>4. ASSUME NEW t \in Int, \E u \in S : u < t
      PROVE  \E u \in S : u < t /\ \A w \in S : w < t => w <= u
  <2>1. start < t
    BY <1>1, <1>2, <1>4
  <2>2. CASE waypoint < t
    BY <1>1, <1>2, <2>2
  <2>3. CASE end < t /\ t <= waypoint
    BY <1>1, <1>2, <2>3
  <2>4. CASE t <= end
    <3>1. CASE \E u \in Times(f) : start < u /\ u < t
      <4>1. PICK u \in Times(f) : u < t /\ \A w \in Times(f) : w < t => w <= u
        BY <3>1 DEF Trajectory, Discrete, Times
      <4>2. u \in Int /\ start < u /\ u \in S
        BY <3>1, <4>1, <1>3, <2>4, Ends
      <4> QED
        BY <1>1, <1>2, <2>4, <4>1, <4>2
    <3>2. CASE ~\E u \in Times(f) : start < u /\ u < t
      <4>1. \A w \in S : w < t => w <= start
        BY <1>1, <1>2, <2>4, <3>2, Ends
      <4> QED
        BY <1>1, <2>1, <4>1
    <3> QED
      BY <3>1, <3>2
  <2> QED
    BY <2>2, <2>3, <2>4
<1>5. ASSUME NEW t \in Int, \E u \in S : u > t
      PROVE  \E u \in S : u > t /\ \A w \in S : w > t => w >= u
  <2>1. t < waypoint
    BY <1>1, <1>2, <1>5
  <2>2. CASE t < start
    BY <1>1, <1>2, <2>2
  <2>3. CASE end <= t
    BY <1>1, <1>2, <2>1, <2>3
  <2>4. CASE start <= t /\ t < end
    <3>1. CASE \E u \in Times(f) : t < u /\ u < end
      <4>1. PICK u \in Times(f) : u > t /\ \A w \in Times(f) : w > t => w >= u
        BY <3>1 DEF Trajectory, Discrete, Times
      <4>2. u \in Int /\ u < end /\ u \in S
        BY <3>1, <4>1, <1>3, <2>4, Ends
      <4> QED
        BY <1>1, <1>2, <2>4, <4>1, <4>2
    <3>2. CASE ~\E u \in Times(f) : t < u /\ u < end
      <4>1. \A w \in S : w > t => w >= end
        BY <1>1, <1>2, <2>4, <3>2, Ends
      <4> QED
        BY <1>1, <2>4, <4>1
    <3> QED
      BY <3>1, <3>2
  <2> QED
    BY <2>2, <2>3, <2>4
<1>6. (\E m \in S : \A u \in S : m <= u) /\ (\E m \in S : \A u \in S : u <= m)
  BY <1>1, <1>2
<1>7. Discrete(S)
  BY <1>1, <1>4, <1>5, <1>6 DEF Discrete
<1> QED
  BY <1>7 DEF S

-----------------------------------------------------------------------------
(* schedule_waypoint *)

\* For every trajectory and arguments schedule_waypoint raises nothing and
\* returns a trajectory.
THEOREM ScheduleWaypointDefined ==
  ASSUME NEW f, Trajectory(f), NEW target \in Value, NEW time \in Int,
         NEW curr_time \in Int, NEW last_time \in Int
  PROVE  /\ ~ScheduleRaises(f, target, time, curr_time, last_time)
         /\ Trajectory(ScheduleWaypoint(f, target, time, curr_time, last_time))
<1>1. CASE NoEffect(time, curr_time)
  BY <1>1 DEF ScheduleRaises, ScheduleWaypoint
<1>2. CASE ~NoEffect(time, curr_time)
  <2> DEFINE first == FirstTime(f)
             end == EndTime(time, curr_time, last_time)
             start == StartTime(first, curr_time, end)
             waypoint == end + Duration(f, target, time, end)
             g == Appended(f, start, end, target, waypoint)
  <2>1. first \in Int
    BY Ends
  <2>2. /\ end \in Int /\ start \in Int /\ end < time
        /\ WindowAsserted(start, end, time, curr_time, last_time)
    <3> HIDE DEF first
    <3> QED
      BY <1>2, <2>1, Window
  <2>3. start <= end
    BY <2>2 DEF WindowAsserted
  <2> HIDE DEF first, end, start
  <2>4. Duration(f, target, time, end) \in Nat \ {0}
    BY <2>2, DurationType
  <2>5. waypoint \in Int /\ end < waypoint
    BY <2>2, <2>4
  <2> HIDE DEF waypoint
  <2>6. DOMAIN g = TrimTimes(f, start, end) \cup {waypoint}
    BY DEF Appended
  <2>7. Discrete(DOMAIN g)
    BY <2>2, <2>3, <2>5, <2>6, TrimDiscrete
  <2>8. \A t \in DOMAIN g : t \in Int
    BY <2>7 DEF Discrete
  <2>9. \A t \in DOMAIN g : At(f, t) \in Value
    BY <2>8, AtType
  <2>10. g \in [DOMAIN g -> Value]
    BY <2>6, <2>9 DEF Appended
  <2>11. ScheduleWaypoint(f, target, time, curr_time, last_time) = g
    BY <1>2 DEF ScheduleWaypoint, g, waypoint, end, start, first
  <2>12. ~ScheduleRaises(f, target, time, curr_time, last_time)
    <3>1. ~(Duration(f, target, time, end) <= 0)
      BY <2>4
    <3> QED
      BY <2>2, <3>1 DEF ScheduleRaises, end, start, first
  <2> QED
    BY <2>7, <2>10, <2>11, <2>12 DEF Trajectory
<1> QED
  BY <1>1, <1>2

-----------------------------------------------------------------------------
(* The loops *)

Request == [value : Value, time : Int]

IInv ==
  /\ robot \in Robots /\ now \in Int /\ t_now \in Int
  /\ Trajectory(interp) /\ last_waypoint_time \in Int
  /\ request_queue \in Seq(Request) /\ reqs \in Seq(Request)
  /\ phase # "raised"

LEMMA InitIInv == Init => IInv
<1> SUFFICES ASSUME Init PROVE IInv
  OBVIOUS
<1>1. Discrete({0})
  BY DEF Discrete
<1>2. Trajectory(interp)
  BY <1>1, ControlAssumption DEF Init, Trajectory
<1> QED
  BY <1>2 DEF Init, IInv

LEMMA RobotType == \A r \in Robots : r.lead \in Nat /\ r.first \in {"send", "schedule"}
<1>1. \A j \in BOOLEAN : \A r \in {XArm(j), UrArm(j), PiperArm(j), SoArm(j), FrankaArm(j)} :
        r.lead \in Nat /\ r.first \in {"send", "schedule"}
  BY ControlAssumption DEF Robot, XArm, UrArm, PiperArm, SoArm, FrankaArm
<1>2. \A r \in {KinovaArm, RobotiqGripper, XArmGripper, AgGripper, WavesharePiperGripper,
                FrankaGripper, WsgGripper} :
        r.lead \in Nat /\ r.first \in {"send", "schedule"}
  BY ControlAssumption
     DEF Robot, KinovaArm, PiperArm, RobotiqGripper, XArmGripper, AgGripper,
         WavesharePiperGripper, FrankaGripper, WsgGripper
<1>3. \A r \in Robots :
        \/ \E j \in BOOLEAN : r \in {XArm(j), UrArm(j), PiperArm(j), SoArm(j), FrankaArm(j)}
        \/ r \in {KinovaArm, RobotiqGripper, XArmGripper, AgGripper, WavesharePiperGripper,
                  FrankaGripper, WsgGripper}
  BY DEF Robots
<1> QED
  BY <1>1, <1>2, <1>3

LEMMA NextIInv == IInv /\ [Next]_vars => IInv'
<1> SUFFICES ASSUME IInv, [Next]_vars PROVE IInv'
  OBVIOUS
<1> USE DEF IInv
<1>1. ASSUME NEW v \in Values, NEW t \in 0 .. MaxTarget, Move(v, t) PROVE IInv'
  <2>1. t \in Int
    BY ControlAssumption
  <2>2. [value |-> v, time |-> Accepted(t)] \in Request
    BY <2>1, ControlAssumption DEF Accepted, Larger, Request
  <2>3. request_queue' \in Seq(Request)
    BY <1>1, <2>2 DEF Move
  <2> QED
    BY <1>1, <2>3 DEF Move, loop, trajectory, output
<1>2. CASE Begin
  BY <1>2 DEF Begin, trajectory, output, queue
<1>3. CASE Send
  BY <1>3 DEF Send, trajectory, queue
<1>4. CASE SendFails
  BY <1>4 DEF SendFails, trajectory, output, queue
<1>5. CASE Fetch
  BY <1>5 DEF Fetch, trajectory, output
<1>6. CASE ReadClock
  BY <1>6 DEF ReadClock, trajectory, output, queue
<1>7. CASE Schedule
  <2> DEFINE r == Head(reqs)
  <2>1. reqs # << >> /\ reqs' = Tail(reqs) /\ phase = "schedule"
    BY <1>7 DEF Schedule
  <2>2. r \in Request /\ reqs' \in Seq(Request)
    BY <2>1
  <2>3. r.value \in Value /\ r.time \in Int /\ CurrTime(t_now) \in Int
    BY <2>2, RobotType DEF Request, CurrTime
  <2> HIDE DEF r
  <2>4. /\ ~ScheduleRaises(interp, r.value, r.time, CurrTime(t_now), last_waypoint_time)
        /\ Trajectory(ScheduleWaypoint(interp, r.value, r.time, CurrTime(t_now),
                                       last_waypoint_time))
    BY <2>3, ScheduleWaypointDefined
  <2>5. /\ UNCHANGED <<robot, now, wake, t_now, output, request_queue, requested>>
        /\ UNCHANGED phase
        /\ \/ UNCHANGED trajectory
           \/ /\ interp' = ScheduleWaypoint(interp, r.value, r.time, CurrTime(t_now),
                                            last_waypoint_time)
              /\ last_waypoint_time' = r.time
    BY <1>7, <2>4 DEF Schedule, r
  <2>6. Trajectory(interp)' /\ last_waypoint_time' \in Int
    BY <2>3, <2>4, <2>5 DEF trajectory
  <2> QED
    BY <2>2, <2>5, <2>6
<1>8. CASE AllScheduled
  BY <1>8 DEF AllScheduled, trajectory, output, queue
<1>9. CASE Pace
  BY <1>9 DEF Pace, trajectory, output, queue
<1>10. CASE Stop
  BY <1>10 DEF Stop, trajectory, output, queue
<1>11. CASE Tick
  BY <1>11 DEF Tick, loop, trajectory, output, queue
<1>12. CASE UNCHANGED vars
  BY <1>12 DEF vars, loop, trajectory, output, queue
<1> QED
  BY <1>1, <1>2, <1>3, <1>4, <1>5, <1>6, <1>7, <1>8, <1>9, <1>10, <1>11, <1>12
     DEF Next, LoopStep

\* No list of requests, however late the loop sees them, makes schedule_waypoint
\* fail, for every robot, period and speed limit.
THEOREM LoopNeverRaises == Spec => []NeverRaises
<1>1. IInv => NeverRaises
  BY DEF IInv, NeverRaises
<1> QED
  BY <1>1, InitIInv, NextIInv, PTL DEF Spec

-----------------------------------------------------------------------------
(* Distances.  p and q are at most m apart: the order of fractions without the *)
(* case distinction of AbsDiff.                                                *)

Close(p, q, m) ==
  /\ p[1] * q[2] - q[1] * p[2] <= m * (p[2] * q[2])
  /\ q[1] * p[2] - p[1] * q[2] <= m * (p[2] * q[2])

LEMMA MultiplyOrder ==
  ASSUME NEW a \in Int, NEW b \in Int, NEW k \in Nat, a <= b
  PROVE  a * k <= b * k
<1>1. (b - a) * k >= 0
  BY SMT
<1> QED
  BY <1>1, SMT

LEMMA CancelOrder ==
  ASSUME NEW a \in Int, NEW b \in Int, NEW k \in Nat \ {0}, a * k <= b * k
  PROVE  a <= b
<1> SUFFICES ASSUME b + 1 <= a PROVE FALSE
  OBVIOUS
<1>1. (b + 1) * k <= a * k
  BY MultiplyOrder
<1>2. (b + 1) * k = b * k + k
  BY SMT
<1> QED
  BY <1>1, <1>2, SMT

LEMMA CloseIs ==
  ASSUME NEW p \in Fraction, NEW q \in Fraction, NEW m \in Nat
  PROVE  Leq(AbsDiff(p, q), Whole(m)) <=> Close(p, q, m)
<1> DEFINE x == p[1] * q[2]
           y == q[1] * p[2]
           d == p[2] * q[2]
<1>1. x \in Int /\ y \in Int /\ d \in Nat \ {0} /\ q[2] * p[2] = d
  BY PositiveProduct DEF Fraction
<1>2. m * d \in Nat
  BY <1>1, PositiveProduct
<1>3. Leq(q, p) <=> y <= x
  BY DEF Leq
<1>4. Leq(AbsDiff(p, q), Whole(m)) <=> IF y <= x THEN (x - y) * 1 <= m * d
                                       ELSE (y - x) * 1 <= m * d
  BY <1>1, <1>3 DEF AbsDiff, Minus, Whole, Leq
<1>5. Close(p, q, m) <=> x - y <= m * d /\ y - x <= m * d
  BY DEF Close
<1> HIDE DEF x, y, d
<1> DEFINE k == m * d
<1>6. k \in Nat
  BY <1>2
<1> HIDE DEF k
<1>7. (IF y <= x THEN (x - y) * 1 <= k ELSE (y - x) * 1 <= k) <=> x - y <= k /\ y - x <= k
  BY <1>1, <1>6
<1> QED
  BY <1>4, <1>5, <1>7 DEF k

LEMMA CloseTo ==
  ASSUME NEW p \in Fraction, NEW q \in Fraction, NEW m \in Nat, NEW n \in Nat, m <= n,
         Close(p, q, m)
  PROVE  Close(p, q, n) /\ Close(q, p, m)
<1> DEFINE x == p[1] * q[2]
           y == q[1] * p[2]
           d == p[2] * q[2]
<1>1. x \in Int /\ y \in Int /\ d \in Nat \ {0} /\ q[2] * p[2] = d
  BY PositiveProduct DEF Fraction
<1>2. x - y <= m * d /\ y - x <= m * d
  BY DEF Close
<1> HIDE DEF x, y, d
<1>3. m * d <= n * d /\ m * d \in Int /\ n * d \in Int
  BY <1>1, MultiplyOrder
<1>4. x - y <= n * d /\ y - x <= n * d
  BY <1>1, <1>2, <1>3
<1> QED
  BY <1>1, <1>2, <1>4 DEF Close, x, y, d

\* The triangle inequality for a/b, c/d and e/f, one direction.
LEMMA Triangle ==
  ASSUME NEW a \in Int, NEW c \in Int, NEW e \in Int,
         NEW b \in Nat \ {0}, NEW d \in Nat \ {0}, NEW f \in Nat \ {0},
         NEW m \in Nat, NEW n \in Nat,
         a * d - c * b <= m * (b * d), c * f - e * d <= n * (d * f)
  PROVE  a * f - e * b <= (m + n) * (b * f)
<1>1. (a * d - c * b) * f <= (m * (b * d)) * f
  <2>1. a * d - c * b \in Int /\ m * (b * d) \in Int
    BY SMT
  <2> QED
    BY <2>1, MultiplyOrder
<1>2. (c * f - e * d) * b <= (n * (d * f)) * b
  <2>1. c * f - e * d \in Int /\ n * (d * f) \in Int
    BY SMT
  <2> QED
    BY <2>1, MultiplyOrder
<1>3. (a * f - e * b) * d = (a * d - c * b) * f + (c * f - e * d) * b
  BY SMT
<1>4. ((m + n) * (b * f)) * d = (m * (b * d)) * f + (n * (d * f)) * b
  BY SMT
<1>5. (a * f - e * b) * d <= ((m + n) * (b * f)) * d
  <2> DEFINE u == (a * d - c * b) * f
             v == (c * f - e * d) * b
             w == (m * (b * d)) * f
             x == (n * (d * f)) * b
  <2>1. u \in Int /\ v \in Int /\ w \in Int /\ x \in Int /\ u <= w /\ v <= x
    BY <1>1, <1>2
  <2> HIDE DEF u, v, w, x
  <2>2. u + v <= w + x
    BY <2>1
  <2> QED
    BY <1>3, <1>4, <2>2 DEF u, v, w, x
<1>6. a * f - e * b \in Int /\ (m + n) * (b * f) \in Int
  BY SMT
<1> QED
  BY <1>5, <1>6, CancelOrder

LEMMA CloseTriangle ==
  ASSUME NEW p \in Fraction, NEW q \in Fraction, NEW r \in Fraction,
         NEW m \in Nat, NEW n \in Nat, Close(p, q, m), Close(q, r, n)
  PROVE  Close(p, r, m + n)
<1>1. /\ p[1] \in Int /\ q[1] \in Int /\ r[1] \in Int
      /\ p[2] \in Nat \ {0} /\ q[2] \in Nat \ {0} /\ r[2] \in Nat \ {0}
  BY DEF Fraction
<1>2. /\ p[1] * q[2] - q[1] * p[2] <= m * (p[2] * q[2])
      /\ q[1] * r[2] - r[1] * q[2] <= n * (q[2] * r[2])
  BY DEF Close
<1>3. /\ r[1] * q[2] - q[1] * r[2] <= n * (r[2] * q[2])
      /\ q[1] * p[2] - p[1] * q[2] <= m * (q[2] * p[2])
  BY <1>1 DEF Close
<1>4. p[1] * r[2] - r[1] * p[2] <= (m + n) * (p[2] * r[2])
  BY ONLY <1>1, <1>2, m \in Nat, n \in Nat, Triangle
<1>5. r[1] * p[2] - p[1] * r[2] <= (n + m) * (r[2] * p[2])
  BY ONLY <1>1, <1>3, m \in Nat, n \in Nat, Triangle
<1>6. (n + m) * (r[2] * p[2]) = (m + n) * (p[2] * r[2])
  BY <1>1
<1> QED
  BY <1>4, <1>5, <1>6 DEF Close

-----------------------------------------------------------------------------
(* A leg of a trajectory, from p = a/b at t0 to q = c/d at t1 *)

Leg(p, q, t0, t1, t) ==
  <<p[1] * q[2] * (t1 - t) + q[1] * p[2] * (t - t0), p[2] * q[2] * (t1 - t0)>>

LEMMA LegType ==
  ASSUME NEW p \in Fraction, NEW q \in Fraction,
         NEW t0 \in Int, NEW t1 \in Int, NEW t \in Int, t0 < t1
  PROVE  Leg(p, q, t0, t1, t) \in Fraction
<1>1. t1 - t0 \in Nat \ {0} /\ p[2] * q[2] \in Nat \ {0}
  BY PositiveProduct DEF Fraction
<1>2. p[2] * q[2] * (t1 - t0) \in Nat \ {0}
  BY <1>1, PositiveProduct
<1>3. p[1] * q[2] \in Int /\ q[1] * p[2] \in Int
  BY DEF Fraction
<1>4. p[1] * q[2] * (t1 - t) + q[1] * p[2] * (t - t0) \in Int
  BY <1>3
<1> QED
  BY <1>2, <1>4 DEF Leg, Fraction

\* The leg begins at p and ends at q, and a leg from p to p stays there.
LEMMA LegEnds ==
  ASSUME NEW p \in Fraction, NEW q \in Fraction,
         NEW t0 \in Int, NEW t1 \in Int, t0 < t1
  PROVE  /\ Close(p, Leg(p, q, t0, t1, t0), 0)
         /\ Close(Leg(p, q, t0, t1, t1), q, 0)
         /\ p = q => \A t \in Int : Close(p, Leg(p, q, t0, t1, t), 0)
<1> DEFINE a == p[1]
           b == p[2]
           c == q[1]
           d == q[2]
           l == t1 - t0
<1>1. a \in Int /\ b \in Nat \ {0} /\ c \in Int /\ d \in Nat \ {0} /\ l \in Nat \ {0}
  BY DEF Fraction
<1>2. /\ Leg(p, q, t0, t1, t0)[1] = a * d * (t1 - t0) + c * b * (t0 - t0)
      /\ Leg(p, q, t0, t1, t1)[1] = a * d * (t1 - t1) + c * b * (t1 - t0)
      /\ \A t \in Int : Leg(p, q, t0, t1, t)[1] = a * d * (t1 - t) + c * b * (t - t0)
      /\ \A t \in Int : Leg(p, q, t0, t1, t)[2] = b * d * l
  BY DEF Leg
<1>3. \A t \in Int : (t1 - t) + (t - t0) = l
  OBVIOUS
<1> HIDE DEF a, b, c, d
<1>4. Leg(p, q, t0, t1, t0)[1] = a * d * l /\ Leg(p, q, t0, t1, t1)[1] = c * b * l
  BY <1>1, <1>2
<1> HIDE DEF l
<1>5. a * (b * d * l) = (a * d * l) * b /\ c * (b * d * l) = (c * b * l) * d
  BY <1>1
<1>6. Close(p, Leg(p, q, t0, t1, t0), 0)
  <2> DEFINE x == (a * d * l) * b
             y == b * (b * d * l)
  <2>1. x \in Int /\ y \in Int
    BY <1>1
  <2>2. /\ p[1] * Leg(p, q, t0, t1, t0)[2] = x /\ Leg(p, q, t0, t1, t0)[1] * p[2] = x
        /\ p[2] * Leg(p, q, t0, t1, t0)[2] = y
    BY <1>2, <1>4, <1>5 DEF a, b
  <2> HIDE DEF x, y
  <2>3. x - x <= 0 * y
    BY <2>1
  <2> QED
    BY <2>2, <2>3 DEF Close
<1>7. Close(Leg(p, q, t0, t1, t1), q, 0)
  <2> DEFINE x == (c * b * l) * d
             y == (b * d * l) * d
  <2>1. x \in Int /\ y \in Int
    BY <1>1
  <2>2. /\ q[1] * Leg(p, q, t0, t1, t1)[2] = x /\ Leg(p, q, t0, t1, t1)[1] * q[2] = x
        /\ Leg(p, q, t0, t1, t1)[2] * q[2] = y
    BY <1>2, <1>4, <1>5 DEF c, d
  <2> HIDE DEF x, y
  <2>3. x - x <= 0 * y
    BY <2>1
  <2> QED
    BY <2>2, <2>3 DEF Close
<1>8. ASSUME p = q, NEW t \in Int
      PROVE  Close(p, Leg(p, q, t0, t1, t), 0)
  <2>1. c = a /\ d = b
    BY <1>8 DEF a, b, c, d
  <2>2. a * b * (t1 - t) + a * b * (t - t0) = a * b * l
    <3> DEFINE k == a * b
    <3>1. k \in Int
      BY <1>1
    <3> HIDE DEF k
    <3>2. k * (t1 - t) + k * (t - t0) = k * ((t1 - t) + (t - t0))
      BY <3>1
    <3>3. k * (t1 - t) + k * (t - t0) = k * l
      BY <1>3, <3>2
    <3> QED
      BY <3>3 DEF k
  <2> DEFINE x == (a * b * l) * b
             y == b * (b * b * l)
  <2>3. x \in Int /\ y \in Int /\ a * (b * b * l) = x
    BY <1>1
  <2>4. /\ p[1] * Leg(p, q, t0, t1, t)[2] = x /\ Leg(p, q, t0, t1, t)[1] * p[2] = x
        /\ p[2] * Leg(p, q, t0, t1, t)[2] = y
    BY <1>2, <2>1, <2>2, <2>3 DEF a, b
  <2> HIDE DEF x, y
  <2>5. x - x <= 0 * y
    BY <2>3
  <2> QED
    BY <2>4, <2>5 DEF Close
<1> QED
  BY <1>6, <1>7, <1>8

\* The distance covered on a leg grows with the time: with u = a * d, v = c * b, one
\* direction.
LEMMA LegSlope ==
  ASSUME NEW u \in Int, NEW v \in Int, NEW d \in Nat \ {0}, NEW l \in Nat \ {0},
         NEW m \in Nat, NEW k \in Nat, v - u <= (m * l) * d
  PROVE  ((v - u) * k) * (d * l) <= (m * k) * ((d * l) * (d * l))
<1>1. (v - u) * k <= ((m * l) * d) * k
  <2>1. v - u \in Int /\ (m * l) * d \in Int
    BY SMT
  <2> QED
    BY <2>1, MultiplyOrder
<1>2. ((m * l) * d) * k = (m * k) * (d * l)
  BY SMT
<1> DEFINE e == d * l
           x == (v - u) * k
           y == m * k
<1>3. e \in Nat /\ x \in Int /\ y \in Int /\ x <= y * e
  BY <1>1, <1>2
<1> HIDE DEF e, x, y
<1>4. y * e \in Int
  BY <1>3
<1>5. x * e <= (y * e) * e
  BY <1>3, <1>4, MultiplyOrder
<1>6. (y * e) * e = y * (e * e)
  BY <1>3
<1> QED
  BY <1>5, <1>6 DEF e, x, y

LEMMA LegClose ==
  ASSUME NEW p \in Fraction, NEW q \in Fraction, NEW t0 \in Int, NEW t1 \in Int, t0 < t1,
         NEW m \in Nat, Close(p, q, m * (t1 - t0)),
         NEW s \in Int, NEW t \in Int, s <= t
  PROVE  Close(Leg(p, q, t0, t1, s), Leg(p, q, t0, t1, t), m * (t - s))
<1> DEFINE u == p[1] * q[2]
           v == q[1] * p[2]
           d == p[2] * q[2]
           l == t1 - t0
           k == t - s
           x == u * (t1 - s) + v * (s - t0)
           y == u * (t1 - t) + v * (t - t0)
<1>1. u \in Int /\ v \in Int /\ d \in Nat \ {0} /\ l \in Nat \ {0} /\ k \in Nat
  BY PositiveProduct DEF Fraction
<1>2. u - v <= (m * l) * d /\ v - u <= (m * l) * d
  BY DEF Close
<1>3. /\ Leg(p, q, t0, t1, s)[1] = x /\ Leg(p, q, t0, t1, t)[1] = y
      /\ Leg(p, q, t0, t1, s)[2] = d * l /\ Leg(p, q, t0, t1, t)[2] = d * l
  BY DEF Leg
<1> HIDE DEF u, v, d
<1>4. x \in Int /\ y \in Int /\ d * l \in Int
  BY <1>1
<1>5. y - x = (v - u) * k /\ x - y = (u - v) * k
  BY <1>1
<1> HIDE DEF l, k, x, y
<1>6. ((v - u) * k) * (d * l) <= (m * k) * ((d * l) * (d * l))
  BY <1>1, <1>2, LegSlope
<1>7. ((u - v) * k) * (d * l) <= (m * k) * ((d * l) * (d * l))
  BY <1>1, <1>2, LegSlope
<1>8. x * (d * l) - y * (d * l) = ((u - v) * k) * (d * l)
  <2> DEFINE e == d * l
             w == (u - v) * k
  <2>1. e \in Int /\ w \in Int /\ x - y = w
    BY <1>1, <1>4, <1>5
  <2> HIDE DEF e, w
  <2>2. x * e - y * e = w * e
    <3>1. (x - y) * e = x * e - y * e
      BY <1>4, <2>1
    <3> QED
      BY <2>1, <3>1
  <2> QED
    BY <2>2 DEF e, w
<1>9. y * (d * l) - x * (d * l) = ((v - u) * k) * (d * l)
  <2> DEFINE e == d * l
             w == (v - u) * k
  <2>1. e \in Int /\ w \in Int /\ y - x = w
    BY <1>1, <1>4, <1>5
  <2> HIDE DEF e, w
  <2>2. y * e - x * e = w * e
    <3>1. (y - x) * e = y * e - x * e
      BY <1>4, <2>1
    <3> QED
      BY <2>1, <3>1
  <2> QED
    BY <2>2 DEF e, w
<1> QED
  BY <1>3, <1>6, <1>7, <1>8, <1>9 DEF Close, k

LEMMA BetweenClose ==
  ASSUME NEW p \in Fraction, NEW q \in Fraction, NEW t0 \in Int, NEW t1 \in Int, t0 < t1,
         NEW m \in Nat, Close(p, q, m * (t1 - t0)), NEW t \in Int
  PROVE  /\ \A s \in Int : s <= t =>
              Close(Between(p, q, t0, t1, s), Between(p, q, t0, t1, t), m * (t - s))
         /\ t0 <= t => Close(p, Between(p, q, t0, t1, t), m * (t - t0))
         /\ t <= t1 => Close(Between(p, q, t0, t1, t), q, m * (t1 - t))
<1> DEFINE P(s) == Leg(p, q, t0, t1, s)
<1>m. \A s, u \in Int : s <= u => m * (u - s) \in Nat
  BY PositiveProduct
<1>1. CASE p = q
  <2>1. Close(p, p, 0)
    <3> DEFINE x == p[1] * p[2]
               y == p[2] * p[2]
    <3>1. x \in Int /\ y \in Int
      BY DEF Fraction
    <3> HIDE DEF x, y
    <3>2. x - x <= 0 * y
      BY <3>1
    <3> QED
      BY <3>2 DEF Close, x, y
  <2>2. \A n \in Nat : Close(p, p, n)
    BY <2>1, CloseTo
  <2>3. \A s \in Int : Between(p, q, t0, t1, s) = p
    BY <1>1 DEF Between
  <2> QED
    BY <1>1, <1>m, <2>2, <2>3
<1>2. CASE p # q
  <2>1. \A s \in Int : Between(p, q, t0, t1, s) = P(s)
    BY <1>2 DEF Between, Leg
  <2>2. \A s \in Int : P(s) \in Fraction
    BY LegType
  <2>3. \A s, u \in Int : s <= u => Close(P(s), P(u), m * (u - s))
    BY LegClose
  <2>4. Close(p, P(t0), 0) /\ Close(P(t1), q, 0)
    BY LegEnds
  <2> HIDE DEF P
  <2>5. ASSUME t0 <= t
        PROVE  Close(p, P(t), m * (t - t0))
    <3> DEFINE n == m * (t - t0)
    <3>1. n \in Nat /\ Close(P(t0), P(t), n)
      BY <1>m, <2>3, <2>5
    <3> HIDE DEF n
    <3>2. Close(p, P(t), 0 + n)
      BY <2>2, <2>4, <3>1, CloseTriangle
    <3>3. 0 + n = n
      BY <3>1
    <3> QED
      BY <3>2, <3>3 DEF n
  <2>6. ASSUME t <= t1
        PROVE  Close(P(t), q, m * (t1 - t))
    <3> DEFINE n == m * (t1 - t)
    <3>1. n \in Nat /\ Close(P(t), P(t1), n)
      BY <1>m, <2>3, <2>6
    <3> HIDE DEF n
    <3>2. Close(P(t), q, n + 0)
      BY <2>2, <2>4, <3>1, CloseTriangle
    <3>3. n + 0 = n
      BY <3>1
    <3> QED
      BY <3>2, <3>3 DEF n
  <2> QED
    BY <2>1, <2>3, <2>5, <2>6
<1> QED
  BY <1>1, <1>2

-----------------------------------------------------------------------------
(* Values that the speed limits let the robot reach from each other in d ticks *)

Near(v, w, d) ==
  \A c \in Components : Leq(AbsDiff(v[c], w[c]), Whole(MaxSpeed[c] * d))

LEMMA NearIs ==
  ASSUME NEW v \in Value, NEW w \in Value, NEW d \in Nat
  PROVE  /\ Near(v, w, d) <=> \A c \in Components : Close(v[c], w[c], MaxSpeed[c] * d)
         /\ \A c \in Components : /\ v[c] \in Fraction /\ w[c] \in Fraction
                                  /\ MaxSpeed[c] \in Nat /\ MaxSpeed[c] * d \in Nat
<1>1. \A c \in Components : /\ v[c] \in Fraction /\ w[c] \in Fraction
                            /\ MaxSpeed[c] \in Nat
  BY SpeedAssumption DEF Value
<1>2. \A c \in Components : MaxSpeed[c] * d \in Nat
  BY <1>1
<1>3. \A c \in Components :
        Leq(AbsDiff(v[c], w[c]), Whole(MaxSpeed[c] * d)) <=> Close(v[c], w[c], MaxSpeed[c] * d)
  BY <1>1, <1>2, CloseIs
<1> QED
  BY <1>1, <1>2, <1>3 DEF Near

LEMMA NearTo ==
  ASSUME NEW v \in Value, NEW w \in Value, NEW d \in Nat, NEW e \in Nat, d <= e,
         Near(v, w, d)
  PROVE  Near(v, w, e) /\ Near(w, v, d)
<1>1. ASSUME NEW c \in Components
      PROVE  Close(v[c], w[c], MaxSpeed[c] * e) /\ Close(w[c], v[c], MaxSpeed[c] * d)
  <2>1. Close(v[c], w[c], MaxSpeed[c] * d)
    BY NearIs
  <2> DEFINE k == MaxSpeed[c]
  <2>2. k \in Nat /\ v[c] \in Fraction /\ w[c] \in Fraction
    BY NearIs
  <2> HIDE DEF k
  <2>3. k * d \in Nat /\ k * e \in Nat /\ k * d <= k * e
    <3>1. d * k <= e * k
      BY <2>2, MultiplyOrder
    <3> QED
      BY <2>2, <3>1
  <2>4. Close(v[c], w[c], k * d)
    BY <2>1 DEF k
  <2>5. Close(v[c], w[c], k * e) /\ Close(w[c], v[c], k * d)
    BY <2>2, <2>3, <2>4, CloseTo
  <2> QED
    BY <2>5 DEF k
<1>2. Near(v, w, e)
  BY <1>1, NearIs
<1>3. Near(w, v, d)
  BY <1>1, NearIs
<1> QED
  BY <1>2, <1>3

LEMMA NearItself ==
  ASSUME NEW v \in Value, NEW d \in Nat
  PROVE  Near(v, v, d)
<1>1. ASSUME NEW c \in Components
      PROVE  Close(v[c], v[c], MaxSpeed[c] * d)
  <2> DEFINE p == v[c]
             n == MaxSpeed[c] * d
  <2>1. p \in Fraction /\ n \in Nat
    BY NearIs
  <2> HIDE DEF p, n
  <2> DEFINE x == p[1] * p[2]
             y == p[2] * p[2]
  <2>2. x \in Int /\ y \in Nat \ {0}
    BY <2>1, PositiveProduct DEF Fraction
  <2>3. n * y \in Nat
    BY <2>1, <2>2
  <2> HIDE DEF x, y
  <2>4. x - x <= n * y
    BY <2>2, <2>3
  <2> QED
    BY <2>4 DEF Close, x, y, p, n
<1> QED
  BY <1>1, NearIs

LEMMA NearTriangle ==
  ASSUME NEW u \in Value, NEW v \in Value, NEW w \in Value, NEW d \in Nat, NEW e \in Nat,
         Near(u, v, d), Near(v, w, e)
  PROVE  Near(u, w, d + e)
<1>1. ASSUME NEW c \in Components
      PROVE  Close(u[c], w[c], MaxSpeed[c] * (d + e))
  <2> DEFINE k == MaxSpeed[c]
             m == k * d
             n == k * e
  <2>1. Close(u[c], v[c], m) /\ Close(v[c], w[c], n)
    BY NearIs
  <2>2. /\ u[c] \in Fraction /\ v[c] \in Fraction /\ w[c] \in Fraction
        /\ k \in Nat /\ m \in Nat /\ n \in Nat
    BY NearIs
  <2>3. k * (d + e) = m + n
    <3> HIDE DEF k
    <3> QED
      BY <2>2
  <2> HIDE DEF m, n
  <2>4. Close(u[c], w[c], m + n)
    BY <2>1, <2>2, CloseTriangle
  <2> QED
    BY <2>3, <2>4
<1> QED
  BY <1>1, NearIs

-----------------------------------------------------------------------------
(* Trajectories within the speed limits.  Lipschitz speaks of any two waypoints *)
(* and not of neighbours only, so that no induction along the waypoints is      *)
(* needed.                                                                      *)

Lipschitz(f) ==
  \A t0, t1 \in Times(f) : t0 <= t1 => Near(f[t0], f[t1], t1 - t0)

LEMMA LipschitzWithinSpeed ==
  ASSUME NEW f, Trajectory(f), Lipschitz(f)
  PROVE  WithinSpeed(f)
<1> SUFFICES ASSUME NEW t0 \in Times(f), NEW t1 \in Times(f), t0 < t1
             PROVE  Near(f[t0], f[t1], t1 - t0)
  BY DEF WithinSpeed, Near
<1>1. t0 <= t1
  BY Ends
<1> QED
  BY <1>1 DEF Lipschitz

\* Between two waypoints: one leg, as the lemmas above see it.
LEMMA WithinIs ==
  ASSUME NEW f, Trajectory(f), NEW t \in Int, t \notin Times(f),
         FirstTime(f) < t, t < LastTime(f)
  PROVE  LET b == Before(f, t)
             a == After(f, t)
         IN  /\ b \in Times(f) /\ a \in Times(f) /\ b \in Int /\ a \in Int
             /\ b < t /\ t < a
             /\ \A u \in Times(f) : u <= b \/ a <= u
             /\ f[b] \in Value /\ f[a] \in Value
             /\ Within(f, t) = [c \in Components |-> Between(f[b][c], f[a][c], b, a, t)]
<1> DEFINE b == Before(f, t)
           a == After(f, t)
<1>1. FirstTime(f) \in Times(f) /\ LastTime(f) \in Times(f) /\ Times(f) \subseteq Int
  BY Ends
<1>2. /\ \E u \in Times(f) : u < t /\ \A w \in Times(f) : w < t => w <= u
      /\ \E u \in Times(f) : u > t /\ \A w \in Times(f) : w > t => w >= u
  BY <1>1 DEF Trajectory, Discrete, Times
<1>3. b \in Times(f) /\ b < t /\ \A w \in Times(f) : w < t => w <= b
  BY <1>2 DEF Before
<1>4. a \in Times(f) /\ a > t /\ \A w \in Times(f) : w > t => w >= a
  BY <1>2 DEF After
<1>5. Within(f, t) = [c \in Components |-> Between(f[b][c], f[a][c], b, a, t)]
  BY DEF Within
<1> HIDE DEF a, b
<1>6. \A u \in Times(f) : u <= b \/ a <= u
  BY <1>1, <1>3, <1>4
<1>7. f[b] \in Value /\ f[a] \in Value
  BY <1>3, <1>4 DEF Trajectory, Times
<1>8. b \in Int /\ a \in Int /\ t < a
  BY <1>1, <1>3, <1>4
<1> QED
  BY <1>3, <1>4, <1>5, <1>6, <1>7, <1>8 DEF a, b

LEMMA LegNear ==
  ASSUME NEW v \in Value, NEW w \in Value, NEW b \in Int, NEW a \in Int, b < a,
         Near(v, w, a - b), NEW t \in Int, b <= t, t <= a,
         NEW x, x = [c \in Components |-> Between(v[c], w[c], b, a, t)]
  PROVE  /\ x \in Value /\ Near(v, x, t - b) /\ Near(x, w, a - t)
         /\ \A s \in Int : b <= s /\ s <= t =>
              Near([c \in Components |-> Between(v[c], w[c], b, a, s)], x, t - s)
<1>v. \A s \in Int : [c \in Components |-> Between(v[c], w[c], b, a, s)] \in Value
  <2>1. \A c \in Components : v[c] \in Fraction /\ w[c] \in Fraction
    BY DEF Value
  <2>2. \A s \in Int : \A c \in Components : Between(v[c], w[c], b, a, s) \in Fraction
    BY <2>1, BetweenType
  <2> QED
    BY <2>2 DEF Value
<1>d. a - b \in Nat /\ t - b \in Nat /\ a - t \in Nat
  OBVIOUS
<1>1. ASSUME NEW c \in Components
      PROVE  /\ v[c] \in Fraction /\ w[c] \in Fraction /\ MaxSpeed[c] \in Nat
             /\ Close(v[c], w[c], MaxSpeed[c] * (a - b))
  BY <1>d, NearIs
<1>2. ASSUME NEW c \in Components
      PROVE  /\ Close(v[c], Between(v[c], w[c], b, a, t), MaxSpeed[c] * (t - b))
             /\ Close(Between(v[c], w[c], b, a, t), w[c], MaxSpeed[c] * (a - t))
             /\ \A s \in Int : s <= t =>
                  Close(Between(v[c], w[c], b, a, s), Between(v[c], w[c], b, a, t),
                        MaxSpeed[c] * (t - s))
  <2> DEFINE p == v[c]
             q == w[c]
             m == MaxSpeed[c]
  <2>1. p \in Fraction /\ q \in Fraction /\ m \in Nat /\ Close(p, q, m * (a - b))
    BY <1>1
  <2> HIDE DEF p, q, m
  <2>2. /\ Close(p, Between(p, q, b, a, t), m * (t - b))
        /\ Close(Between(p, q, b, a, t), q, m * (a - t))
        /\ \A s \in Int : s <= t =>
             Close(Between(p, q, b, a, s), Between(p, q, b, a, t), m * (t - s))
    BY <2>1, BetweenClose
  <2> QED
    BY <2>2 DEF p, q, m
<1>3. x \in Value /\ \A c \in Components : x[c] = Between(v[c], w[c], b, a, t)
  BY <1>v
<1>4. Near(v, x, t - b)
  BY <1>d, <1>2, <1>3, NearIs
<1>5. Near(x, w, a - t)
  BY <1>d, <1>2, <1>3, NearIs
<1>6. ASSUME NEW s \in Int, b <= s, s <= t
      PROVE  Near([c \in Components |-> Between(v[c], w[c], b, a, s)], x, t - s)
  <2> DEFINE y == [c \in Components |-> Between(v[c], w[c], b, a, s)]
  <2>1. y \in Value /\ t - s \in Nat
    BY <1>v, <1>6
  <2>2. \A c \in Components : y[c] = Between(v[c], w[c], b, a, s)
    OBVIOUS
  <2> HIDE DEF y
  <2>3. \A c \in Components : Close(y[c], x[c], MaxSpeed[c] * (t - s))
    BY <1>2, <1>3, <1>6, <2>2
  <2>4. Near(y, x, t - s)
    BY <1>3, <2>1, <2>3, NearIs
  <2> QED
    BY <2>4 DEF y
<1> QED
  BY <1>3, <1>4, <1>5, <1>6

\* Any value of the trajectory and the waypoints around it.
LEMMA Around ==
  ASSUME NEW f, Trajectory(f), Lipschitz(f), NEW t \in Int,
         FirstTime(f) <= t, t <= LastTime(f)
  PROVE  \E b, a \in Times(f) :
           /\ b <= t /\ t <= a /\ \A u \in Times(f) : u <= b \/ a <= u
           /\ (t \in Times(f) => b = t /\ a = t)
           /\ Near(f[b], Within(f, t), t - b) /\ Near(Within(f, t), f[a], a - t)
<1>1. CASE t \in Times(f)
  <2>1. Within(f, t) = f[t] /\ f[t] \in Value
    BY <1>1 DEF Within, Trajectory, Times
  <2>2. t - t = 0 /\ t <= t /\ \A u \in Times(f) : u <= t \/ t <= u
    BY Ends
  <2>3. Near(f[t], f[t], t - t)
    BY <2>1, <2>2, NearItself
  <2> QED
    BY <1>1, <2>1, <2>2, <2>3
<1>2. CASE t \notin Times(f)
  <2> DEFINE b == Before(f, t)
             a == After(f, t)
  <2>1. FirstTime(f) < t /\ t < LastTime(f)
    BY <1>2, Ends
  <2>2. /\ b \in Times(f) /\ a \in Times(f) /\ b \in Int /\ a \in Int /\ b < t /\ t < a
        /\ \A u \in Times(f) : u <= b \/ a <= u
        /\ f[b] \in Value /\ f[a] \in Value
        /\ Within(f, t) = [c \in Components |-> Between(f[b][c], f[a][c], b, a, t)]
    BY <1>2, <2>1, WithinIs
  <2> HIDE DEF a, b
  <2>3. b < a /\ b <= a /\ b <= t /\ t <= a
    BY <2>2
  <2>4. Near(f[b], f[a], a - b)
    BY <2>2, <2>3 DEF Lipschitz
  <2>5. Near(f[b], Within(f, t), t - b) /\ Near(Within(f, t), f[a], a - t)
    BY <2>2, <2>3, <2>4, LegNear
  <2> QED
    BY <1>2, <2>2, <2>3, <2>5
<1> QED
  BY <1>1, <1>2

LEMMA WithinType ==
  ASSUME NEW f, Trajectory(f), NEW t \in Int, FirstTime(f) <= t, t <= LastTime(f)
  PROVE  Within(f, t) \in Value
<1>1. Clip(f, t) = t
  BY Ends DEF Clip, Larger, Smaller
<1> QED
  BY <1>1, AtType DEF At

LEMMA WithinNear ==
  ASSUME NEW f, Trajectory(f), Lipschitz(f), NEW s \in Int, NEW t \in Int, s <= t,
         FirstTime(f) <= s, t <= LastTime(f)
  PROVE  Near(Within(f, s), Within(f, t), t - s)
<1>i. Times(f) \subseteq Int /\ FirstTime(f) \in Int /\ LastTime(f) \in Int
  BY Ends
<1>o. FirstTime(f) <= t /\ s <= LastTime(f)
  BY <1>i
<1>v. Within(f, s) \in Value /\ Within(f, t) \in Value
  BY <1>o, WithinType
<1>1. CASE \E k \in Times(f) : s <= k /\ k <= t
  <2>1. PICK k \in Times(f) : s <= k /\ k <= t
    BY <1>1
  <2>2. PICK b \in Times(f), a \in Times(f) :
          /\ b <= t /\ t <= a /\ \A u \in Times(f) : u <= b \/ a <= u
          /\ (t \in Times(f) => b = t /\ a = t)
          /\ Near(f[b], Within(f, t), t - b)
    BY <1>o, Around
  <2>3. PICK c \in Times(f), d \in Times(f) :
          /\ c <= s /\ s <= d /\ \A u \in Times(f) : u <= c \/ d <= u
          /\ (s \in Times(f) => c = s /\ d = s)
          /\ Near(Within(f, s), f[d], d - s)
    BY <1>o, Around
  <2>4. d \in Int /\ b \in Int /\ c \in Int /\ a \in Int /\ k \in Int
    BY <1>i
  <2>5. d <= k
    <3>1. CASE k <= c
      <4>1. k = s
        BY <2>1, <2>3, <2>4, <3>1
      <4> QED
        BY <2>3, <4>1, <2>4
    <3>2. CASE d <= k
      BY <3>2
    <3> QED
      BY <2>3, <3>1, <3>2
  <2>6. k <= b
    <3>1. CASE a <= k
      <4>1. k = t
        BY <2>1, <2>2, <2>4, <3>1
      <4> QED
        BY <2>2, <4>1, <2>4
    <3>2. CASE k <= b
      BY <3>2
    <3> QED
      BY <2>2, <3>1, <3>2
  <2>7. d <= b /\ d - s \in Nat /\ b - d \in Nat /\ t - b \in Nat
    BY <2>2, <2>3, <2>4, <2>5, <2>6
  <2>8. f[d] \in Value /\ f[b] \in Value /\ Near(f[d], f[b], b - d)
    BY <2>7 DEF Lipschitz, Trajectory, Times
  <2>9. Near(Within(f, s), f[b], (d - s) + (b - d))
    BY <1>v, <2>3, <2>7, <2>8, NearTriangle
  <2>10. (d - s) + (b - d) \in Nat
    BY <2>7
  <2>11. Near(Within(f, s), Within(f, t), ((d - s) + (b - d)) + (t - b))
    BY <1>v, <2>2, <2>7, <2>8, <2>9, <2>10, NearTriangle
  <2>12. ((d - s) + (b - d)) + (t - b) = t - s
    BY <2>4
  <2> QED
    BY <2>11, <2>12
<1>2. CASE ~\E k \in Times(f) : s <= k /\ k <= t
  <2>1. s \notin Times(f) /\ t \notin Times(f)
    BY <1>2
  <2>2. FirstTime(f) < s /\ s < LastTime(f) /\ FirstTime(f) < t /\ t < LastTime(f)
    BY <1>i, <1>o, <2>1, Ends
  <2> DEFINE b == Before(f, t)
             a == After(f, t)
             c == Before(f, s)
             d == After(f, s)
  <2>3. /\ b \in Times(f) /\ a \in Times(f) /\ b \in Int /\ a \in Int /\ b < t /\ t < a
        /\ \A u \in Times(f) : u <= b \/ a <= u
        /\ f[b] \in Value /\ f[a] \in Value
        /\ Within(f, t) = [i \in Components |-> Between(f[b][i], f[a][i], b, a, t)]
    BY <2>1, <2>2, WithinIs
  <2>4. /\ c \in Times(f) /\ d \in Times(f) /\ c \in Int /\ d \in Int /\ c < s /\ s < d
        /\ \A u \in Times(f) : u <= c \/ d <= u
        /\ Within(f, s) = [i \in Components |-> Between(f[c][i], f[d][i], c, d, s)]
    BY <2>1, <2>2, WithinIs
  <2> HIDE DEF a, b, c, d
  <2>5. \A u \in Times(f) : ~(s <= u /\ u <= t)
    BY <1>2
  <2>6. b < s /\ t < d
    BY <2>3, <2>4, <2>5
  <2>7. c = b /\ d = a
    BY <2>3, <2>4, <2>6
  <2>8. b < a /\ b <= a /\ b <= t /\ t <= a /\ b <= s
    BY <2>3, <2>6
  <2>9. Near(f[b], f[a], a - b)
    BY <2>3, <2>8 DEF Lipschitz
  <2>10. \A r \in Int : b <= r /\ r <= t =>
           Near([i \in Components |-> Between(f[b][i], f[a][i], b, a, r)], Within(f, t), t - r)
    <3> DEFINE v == f[b]
               w == f[a]
               x == Within(f, t)
    <3>1. /\ v \in Value /\ w \in Value /\ Near(v, w, a - b)
          /\ x = [i \in Components |-> Between(v[i], w[i], b, a, t)]
      BY <2>3, <2>9
    <3>2. /\ b \in Int /\ a \in Int /\ t \in Int
          /\ b < a /\ b <= t /\ t <= a
      BY <2>3, <2>8
    <3> HIDE DEF v, w, x
    <3>3. \A r \in Int : b <= r /\ r <= t =>
            Near([i \in Components |-> Between(v[i], w[i], b, a, r)], x, t - r)
      BY ONLY <3>1, <3>2, LegNear
    <3> QED
      BY <3>3 DEF v, w, x
  <2> QED
    BY <2>4, <2>7, <2>8, <2>10
<1> QED
  BY <1>1, <1>2

\* What the interpolator returns keeps the limits too, also before the first and
\* after the last waypoint.
LEMMA AtNear ==
  ASSUME NEW f, Trajectory(f), Lipschitz(f), NEW s \in Int, NEW t \in Int, s <= t
  PROVE  Near(At(f, s), At(f, t), t - s)
<1> DEFINE x == Clip(f, s)
           y == Clip(f, t)
<1>1. /\ x \in Int /\ y \in Int /\ x <= y /\ FirstTime(f) <= x /\ y <= LastTime(f)
      /\ y - x \in Nat /\ t - s \in Nat /\ y - x <= t - s
      /\ FirstTime(f) <= y /\ x <= LastTime(f)
  BY Ends DEF Clip, Larger, Smaller
<1>2. At(f, s) = Within(f, x) /\ At(f, t) = Within(f, y)
  BY DEF At
<1> HIDE DEF x, y
<1>3. Near(Within(f, x), Within(f, y), y - x)
  BY <1>1, WithinNear
<1>4. Within(f, x) \in Value /\ Within(f, y) \in Value
  BY <1>1, WithinType
<1> QED
  BY <1>1, <1>2, <1>3, <1>4, NearTo

-----------------------------------------------------------------------------
(* schedule_waypoint keeps the limits *)

\* The rounded-up duration is long enough.
LEMMA CeilDivSuffices ==
  ASSUME NEW p \in Fraction, NEW n \in Nat \ {0}, NEW k \in Nat, CeilDiv(p, n) <= k
  PROVE  Leq(p, Whole(n * k))
<1> DEFINE a == p[1]
           b == p[2]
           e == b * n
           q == (a + e - 1) \div e
<1>1. a \in Int /\ b \in Nat \ {0} /\ e \in Nat \ {0}
  BY PositiveProduct DEF Fraction
<1>2. q <= k
  BY DEF CeilDiv
<1>3. e * k = (n * k) * b
  <2> HIDE DEF b
  <2> QED
    BY <1>1
<1> HIDE DEF a, b, e
<1> DEFINE y == a + e - 1
<1>4. y \in Int
  BY <1>1
<1> HIDE DEF y
<1>5. y \div e \in Int /\ y < e * (y \div e) + e
  BY <1>1, <1>4
<1>6. q = y \div e
  BY DEF y
<1> HIDE DEF q
<1>7. q * e <= k * e
  BY <1>1, <1>2, <1>5, <1>6, MultiplyOrder
<1>8. a <= e * k
  <2> DEFINE x == e * q
             z == e * k
  <2>1. x \in Int /\ z \in Int /\ x <= z /\ y < x + e
    BY <1>1, <1>5, <1>6, <1>7
  <2> HIDE DEF x, z
  <2>2. a <= z
    BY <1>1, <2>1 DEF y
  <2> QED
    BY <2>2 DEF z
<1>9. p[1] * 1 <= (n * k) * p[2]
  BY <1>1, <1>3, <1>8 DEF a, b
<1> QED
  BY <1>9 DEF Leq, Whole

LEMMA MinDurationSuffices ==
  ASSUME NEW v \in Value, NEW w \in Value, NEW d \in Nat, MinDuration(v, w) <= d
  PROVE  Near(v, w, d)
<1>1. /\ "pos" \in Components /\ "rot" \in Components
      /\ \A c \in Components : c = "pos" \/ c = "rot"
  BY DEF Components
<1>2. ASSUME NEW c \in Components
      PROVE  /\ MaxSpeed[c] \in Nat \ {0} /\ AbsDiff(v[c], w[c]) \in Fraction
             /\ CeilDiv(AbsDiff(v[c], w[c]), MaxSpeed[c]) \in Int
  <2>1. MaxSpeed[c] \in Nat \ {0} /\ AbsDiff(v[c], w[c]) \in Fraction
    BY AbsDiffType, SpeedAssumption DEF Value
  <2> QED
    BY <2>1, CeilDivType
<1> DEFINE i == CeilDiv(AbsDiff(v.pos, w.pos), MaxSpeed.pos)
           j == CeilDiv(AbsDiff(v.rot, w.rot), MaxSpeed.rot)
<1>3. i \in Int /\ j \in Int
  BY <1>1, <1>2
<1>4. Larger(i, j) <= d
  BY DEF MinDuration
<1>5. i <= d /\ j <= d
  <2> HIDE DEF i, j
  <2> QED
    BY <1>3, <1>4 DEF Larger
<1>6. \A c \in Components : CeilDiv(AbsDiff(v[c], w[c]), MaxSpeed[c]) <= d
  BY <1>1, <1>5
<1> QED
  BY <1>2, <1>6, CeilDivSuffices DEF Near

\* Trimming to start .. end and appending a waypoint in good time.
LEMMA AppendedLipschitz ==
  ASSUME NEW f, Trajectory(f), Lipschitz(f), NEW start \in Int, NEW end \in Int,
         NEW target \in Value, NEW waypoint \in Int, start <= end, end < waypoint,
         Near(At(f, end), target, waypoint - end),
         NEW g, g = Appended(f, start, end, target, waypoint)
  PROVE  /\ Lipschitz(g) /\ FirstTime(g) = start /\ start \in Times(g)
         /\ g[start] = At(f, start)
<1>1. Times(g) = TrimTimes(f, start, end) \cup {waypoint}
  BY DEF Appended, Times
<1>2. \A t \in Times(g) : t \in Int /\ start <= t /\ (t # waypoint => t <= end)
  BY <1>1, Ends DEF TrimTimes
<1>3. start \in Times(g) /\ start # waypoint
  BY <1>1 DEF TrimTimes
<1>4. \A t \in Times(g) : g[t] = IF t = waypoint THEN target ELSE At(f, t)
  BY <1>1 DEF Appended
<1>5. FirstTime(g) = start
  <2>1. \E t \in Times(g) : \A u \in Times(g) : t <= u
    BY <1>2, <1>3
  <2>2. FirstTime(g) \in Times(g) /\ \A u \in Times(g) : FirstTime(g) <= u
    BY <2>1 DEF FirstTime
  <2>3. FirstTime(g) <= start /\ start <= FirstTime(g) /\ FirstTime(g) \in Int
    BY <1>2, <1>3, <2>2
  <2> QED
    BY <2>3
<1>6. \A t \in Times(g) : At(f, t) \in Value
  BY <1>2, AtType
<1>7. ASSUME NEW t0 \in Times(g), NEW t1 \in Times(g), t0 <= t1
      PROVE  Near(g[t0], g[t1], t1 - t0)
  <2>1. t0 \in Int /\ t1 \in Int /\ t1 - t0 \in Nat
    BY <1>2, <1>7
  <2>2. CASE t0 = waypoint
    <3>1. t1 = waypoint
      BY <1>2, <1>7, <2>1, <2>2
    <3>2. g[t0] = target /\ g[t1] = target
      BY <1>4, <2>2, <3>1
    <3> QED
      BY <2>1, <3>2, NearItself
  <2>3. CASE t0 # waypoint /\ t1 # waypoint
    <3>1. g[t0] = At(f, t0) /\ g[t1] = At(f, t1)
      BY <1>4, <2>3
    <3> QED
      BY <1>7, <2>1, <3>1, AtNear
  <2>4. CASE t0 # waypoint /\ t1 = waypoint
    <3>1. g[t0] = At(f, t0) /\ g[t1] = target /\ t0 <= end
      BY <1>2, <1>4, <2>4
    <3>2. Near(At(f, t0), At(f, end), end - t0)
      BY <2>1, <3>1, AtNear
    <3>3. end - t0 \in Nat /\ waypoint - end \in Nat /\ (end - t0) + (waypoint - end) = t1 - t0
      BY <2>1, <2>4, <3>1
    <3>4. At(f, t0) \in Value /\ At(f, end) \in Value
      BY <2>1, AtType
    <3>5. Near(At(f, t0), target, (end - t0) + (waypoint - end))
      BY <3>2, <3>3, <3>4, NearTriangle
    <3> QED
      BY <3>1, <3>3, <3>5
  <2> QED
    BY <2>2, <2>3, <2>4
<1> QED
  BY <1>3, <1>4, <1>5, <1>7 DEF Lipschitz

LEMMA ScheduleKeepsLimits ==
  ASSUME NEW f, Trajectory(f), Lipschitz(f), NEW target \in Value, NEW time \in Int,
         NEW curr_time \in Int, NEW last_time \in Int, FirstTime(f) <= curr_time,
         NEW g, g = ScheduleWaypoint(f, target, time, curr_time, last_time)
  PROVE  \/ g = f
         \/ /\ Lipschitz(g) /\ FirstTime(g) = curr_time
            /\ curr_time \in Times(g) /\ g[curr_time] = At(f, curr_time)
<1>1. CASE NoEffect(time, curr_time)
  BY <1>1 DEF ScheduleWaypoint
<1>2. CASE ~NoEffect(time, curr_time)
  <2> DEFINE first == FirstTime(f)
             end == EndTime(time, curr_time, last_time)
             start == StartTime(first, curr_time, end)
             waypoint == end + Duration(f, target, time, end)
  <2>1. first \in Int
    BY Ends
  <2>2. /\ end \in Int /\ start \in Int /\ end < time
        /\ WindowAsserted(start, end, time, curr_time, last_time)
    <3> HIDE DEF first
    <3> QED
      BY <1>2, <2>1, Window
  <2>3. start <= end /\ curr_time <= start
    BY <2>2 DEF WindowAsserted
  <2>4. start = curr_time
    <3> HIDE DEF end
    <3>1. Larger(curr_time, first) = curr_time
      BY <2>1 DEF Larger
    <3>2. start = Smaller(curr_time, end)
      BY <3>1 DEF StartTime
    <3>3. curr_time <= end
      BY <2>2, <2>3
    <3> QED
      BY <2>2, <3>2, <3>3 DEF Smaller
  <2> HIDE DEF first, end, start
  <2>5. Duration(f, target, time, end) \in Nat \ {0}
    BY <2>2, DurationType
  <2>6. waypoint \in Int /\ end < waypoint /\ waypoint - end = Duration(f, target, time, end)
    BY <2>2, <2>5
  <2>7. MinDuration(At(f, end), target) <= Duration(f, target, time, end)
    <3>1. MinDuration(At(f, end), target) \in Int
      BY <2>2, AtType, MinDurationType
    <3> QED
      BY <2>2, <3>1 DEF Duration, Larger
  <2>8. Near(At(f, end), target, waypoint - end)
    <3>1. At(f, end) \in Value
      BY <2>2, AtType
    <3> QED
      BY <2>5, <2>6, <2>7, <3>1, MinDurationSuffices
  <2>9. g = Appended(f, start, end, target, waypoint)
    BY <1>2 DEF ScheduleWaypoint, waypoint, end, start, first
  <2> HIDE DEF waypoint
  <2>10. /\ Lipschitz(g) /\ FirstTime(g) = start /\ start \in Times(g)
         /\ g[start] = At(f, start)
    BY <2>2, <2>3, <2>6, <2>8, <2>9, AppendedLipschitz
  <2> QED
    BY <2>4, <2>10
<1> QED
  BY <1>1, <1>2

-----------------------------------------------------------------------------
(* The loops keep the limits.  Reach is what CommandStep needs: from the value *)
(* handed on last the limits let the robot reach every later value of the      *)
(* trajectory in the time until then, or until the trajectory can last have    *)
(* been changed.                                                               *)

Timely ==
  /\ sent \in Int /\ sent <= t_now /\ t_now <= now
  /\ robot.first = "send" => phase # "clock"
  /\ robot.first = "send" /\ phase \notin {"send", "refused"} => sent = t_now
  /\ FirstTime(interp) <= t_now + robot.lead

\* When the loop last read the clock, unless it is about to send.
Base == IF robot.first = "send" THEN sent ELSE t_now

Reach ==
  /\ value \in Value
  /\ \A t \in Int :
       t >= sent => Near(value, At(interp, t), Larger(t, Base + robot.lead) - sent)

LimitInv == IInv /\ Timely /\ Lipschitz(interp) /\ Reach

LEMMA InitLimitInv == Init => LimitInv
<1> SUFFICES ASSUME Init PROVE LimitInv
  OBVIOUS
<1>1. IInv /\ Trajectory(interp)
  BY InitIInv DEF IInv
<1>2. Times(interp) = {0} /\ interp[0] = Home /\ Home \in Value
  BY ControlAssumption DEF Init, Times
<1>3. FirstTime(interp) = 0 /\ LastTime(interp) = 0
  BY <1>1, <1>2, Ends
<1>4. Lipschitz(interp)
  <2>1. Near(Home, Home, 0)
    BY <1>2, NearItself
  <2> QED
    BY <1>2, <2>1 DEF Lipschitz
<1>5. robot.lead \in Nat
  BY RobotType DEF Init
<1>6. Timely
  BY <1>3, <1>5 DEF Init, Timely
<1>7. Reach
  <2>1. At(interp, 0) = Home
    BY <1>2, <1>3 DEF At, Clip, Within, Larger, Smaller
  <2>2. sent = 0 /\ value = Home /\ Base = 0
    BY DEF Init, Base
  <2>3. ASSUME NEW t \in Int, t >= 0
        PROVE  Near(Home, At(interp, t), Larger(t, 0 + robot.lead) - 0)
    <3>1. Near(Home, At(interp, t), t - 0)
      BY <1>1, <1>4, <2>1, <2>3, AtNear
    <3>2. /\ t - 0 \in Nat /\ Larger(t, 0 + robot.lead) - 0 \in Nat
          /\ t - 0 <= Larger(t, 0 + robot.lead) - 0
      BY <1>5, <2>3 DEF Larger
    <3>3. At(interp, t) \in Value
      BY <1>1, <2>3, AtType
    <3> QED
      BY <1>2, <3>1, <3>2, <3>3, NearTo
  <2> QED
    BY <1>2, <2>2, <2>3 DEF Reach
<1> QED
  BY <1>1, <1>4, <1>6, <1>7 DEF LimitInv

\* What scheduling a request does to the trajectory.
LEMMA ScheduleEffect ==
  ASSUME IInv, Timely, Lipschitz(interp), Schedule
  PROVE  /\ UNCHANGED <<robot, now, phase, t_now, output>>
         /\ \/ UNCHANGED interp
            \/ /\ Lipschitz(interp') /\ FirstTime(interp') = CurrTime(t_now)
               /\ CurrTime(t_now) \in Times(interp')
               /\ interp'[CurrTime(t_now)] = At(interp, CurrTime(t_now))
<1> DEFINE r == Head(reqs)
           curr == CurrTime(t_now)
<1>1. r \in Request
  BY DEF IInv, Schedule
<1>2. r.value \in Value /\ r.time \in Int /\ curr \in Int /\ last_waypoint_time \in Int
  BY <1>1, RobotType DEF IInv, Request, CurrTime
<1>3. Trajectory(interp) /\ FirstTime(interp) <= curr
  BY DEF IInv, Timely, CurrTime
<1>4. /\ UNCHANGED <<robot, now, t_now, output>>
      /\ \/ UNCHANGED <<phase, trajectory>>
         \/ ScheduleRaises(interp, r.value, r.time, curr, last_waypoint_time)
         \/ /\ interp' = ScheduleWaypoint(interp, r.value, r.time, curr, last_waypoint_time)
            /\ UNCHANGED phase
  BY DEF Schedule
<1> HIDE DEF r, curr
<1>5. ~ScheduleRaises(interp, r.value, r.time, curr, last_waypoint_time)
  BY <1>2, <1>3, ScheduleWaypointDefined
<1>6. CASE interp' = ScheduleWaypoint(interp, r.value, r.time, curr, last_waypoint_time)
  <2>1. \/ interp' = interp
        \/ /\ Lipschitz(interp') /\ FirstTime(interp') = curr
           /\ curr \in Times(interp') /\ interp'[curr] = At(interp, curr)
    BY <1>2, <1>3, <1>6, ScheduleKeepsLimits
  <2> QED
    BY <1>4, <1>5, <2>1 DEF trajectory, curr
<1> QED
  BY <1>4, <1>5, <1>6 DEF trajectory

LEMMA LimitStep ==
  ASSUME IInv, Timely, Lipschitz(interp), [Next]_vars
  PROVE  Lipschitz(interp)'
<1>1. CASE Schedule
  BY <1>1, ScheduleEffect
<1>2. CASE ~Schedule
  <2>1. UNCHANGED interp
    BY <1>2 DEF Next, LoopStep, Move, Begin, Send, SendFails, Fetch, ReadClock, AllScheduled,
                Pace, Stop, Tick, vars, trajectory
  <2> QED
    BY <2>1
<1> QED
  BY <1>1, <1>2

LEMMA TimelyStep ==
  ASSUME IInv, Timely, Lipschitz(interp), [Next]_vars
  PROVE  Timely'
<1>1. /\ robot.lead \in Nat /\ now \in Int /\ t_now \in Int /\ sent \in Int
      /\ FirstTime(interp) \in Int
  BY RobotType, Ends DEF IInv, Timely
<1>2. CASE Schedule
  <2>1. UNCHANGED <<robot, now, phase, t_now, sent>>
    BY <1>2, ScheduleEffect DEF output
  <2>2. FirstTime(interp') <= t_now + robot.lead
    BY <1>1, <1>2, ScheduleEffect DEF Timely, CurrTime
  <2> QED
    BY <2>1, <2>2 DEF Timely
<1>3. CASE Begin
  BY <1>1, <1>3 DEF Begin, trajectory, output, Timely
<1>4. CASE Send
  BY <1>1, <1>4 DEF Send, trajectory, Timely
<1>5. CASE SendFails
  BY <1>5 DEF SendFails, trajectory, output, Timely
<1>6. CASE Fetch
  BY <1>6 DEF Fetch, trajectory, output, Timely
<1>7. CASE ReadClock
  BY <1>1, <1>7 DEF ReadClock, trajectory, output, Timely
<1>8. CASE AllScheduled
  BY <1>8 DEF AllScheduled, trajectory, output, Timely
<1>9. CASE Pace
  BY <1>9 DEF Pace, trajectory, output, Timely
<1>10. CASE Stop
  BY <1>10 DEF Stop, trajectory, output, Timely
<1>11. CASE Tick
  BY <1>1, <1>11 DEF Tick, loop, trajectory, output, Timely
<1>12. ASSUME NEW v \in Values, NEW t \in 0 .. MaxTarget, Move(v, t) PROVE Timely'
  BY <1>12 DEF Move, loop, trajectory, output, Timely
<1>13. CASE UNCHANGED vars
  BY <1>13 DEF vars, loop, trajectory, output, Timely
<1> QED
  BY <1>2, <1>3, <1>4, <1>5, <1>6, <1>7, <1>8, <1>9, <1>10, <1>11, <1>12, <1>13
     DEF Next, LoopStep

\* A trajectory that begins at start has its first value at every earlier time.
LEMMA AtBeginning ==
  ASSUME NEW f, Trajectory(f), NEW t \in Int, t <= FirstTime(f)
  PROVE  At(f, t) = f[FirstTime(f)]
<1>1. FirstTime(f) \in Times(f) /\ FirstTime(f) \in Int /\ LastTime(f) \in Int
      /\ FirstTime(f) <= LastTime(f)
  BY Ends
<1>2. Clip(f, t) = FirstTime(f)
  BY <1>1 DEF Clip, Larger, Smaller
<1> QED
  BY <1>1, <1>2 DEF At, Within

\* The trajectory is changed no earlier than a lead after the last reading of the
\* clock.
LEMMA ReachSchedule ==
  ASSUME LimitInv, IInv', Schedule
  PROVE  Reach'
<1>i. IInv /\ Timely /\ Lipschitz(interp) /\ Reach
  BY DEF LimitInv
<1>1. /\ robot.lead \in Nat /\ t_now \in Int /\ sent \in Int /\ sent <= t_now
      /\ Base = t_now /\ value \in Value
  BY <1>i, RobotType DEF IInv, Timely, Base, Reach, Schedule
<1>2. UNCHANGED <<robot, t_now, value, sent, Base>>
  BY <1>i, ScheduleEffect DEF output, Base
<1>3. CASE UNCHANGED interp
  BY <1>i, <1>2, <1>3 DEF Reach
<1>4. CASE ~UNCHANGED interp
  <2> DEFINE curr == CurrTime(t_now)
             f == interp
             g == interp'
  <2>1. /\ Lipschitz(g) /\ FirstTime(g) = curr /\ curr \in Times(g)
        /\ g[curr] = At(f, curr) /\ Trajectory(f) /\ Trajectory(g)
    BY <1>i, <1>4, ScheduleEffect DEF IInv
  <2>2. curr \in Int /\ sent <= curr /\ curr = t_now + robot.lead /\ curr - sent \in Nat
    BY <1>1 DEF CurrTime
  <2>3. Near(value, At(f, curr), curr - sent)
    <3>1. Larger(curr, Base + robot.lead) = curr
      BY <1>1, <2>2 DEF Larger
    <3> QED
      BY <1>i, <2>2, <3>1 DEF Reach
  <2> HIDE DEF curr, f, g
  <2>4. At(f, curr) \in Value
    BY <2>1, <2>2, AtType
  <2>5. ASSUME NEW t \in Int, t >= sent
        PROVE  Near(value, At(g, t), Larger(t, curr) - sent)
    <3>1. CASE t <= curr
      <4>1. At(g, t) = At(f, curr)
        BY <2>1, <3>1, AtBeginning
      <4>2. Larger(t, curr) = curr
        BY <2>2, <2>5, <3>1 DEF Larger
      <4> QED
        BY <2>3, <4>1, <4>2
    <3>2. CASE curr < t
      <4>1. At(g, curr) = At(f, curr)
        BY <2>1, <2>2, AtBeginning
      <4>2. curr <= t /\ t - curr \in Nat /\ (curr - sent) + (t - curr) = t - sent
            /\ Larger(t, curr) = t
        BY <1>1, <2>2, <2>5, <3>2 DEF Larger
      <4>3. Near(At(g, curr), At(g, t), t - curr)
        BY <2>1, <2>2, <2>5, <4>2, AtNear
      <4>4. At(g, t) \in Value
        BY <2>1, <2>5, AtType
      <4>5. Near(value, At(g, t), (curr - sent) + (t - curr))
        BY <1>1, <2>2, <2>3, <2>4, <4>1, <4>2, <4>3, <4>4, NearTriangle
      <4> QED
        BY <4>2, <4>5
    <3> QED
      BY <2>2, <2>5, <3>1, <3>2
  <2>6. Base' + robot'.lead = curr
    BY <1>1, <1>2, <2>2
  <2> QED
    BY <1>1, <1>2, <2>5, <2>6 DEF Reach, g
<1> QED
  BY <1>3, <1>4

LEMMA ReachStep ==
  ASSUME LimitInv, IInv', [Next]_vars
  PROVE  Reach'
<1>i. IInv /\ Timely /\ Lipschitz(interp) /\ Reach
  BY DEF LimitInv
<1>1. /\ robot.lead \in Nat /\ t_now \in Int /\ now \in Int /\ sent \in Int
      /\ sent <= t_now /\ t_now <= now /\ value \in Value /\ Trajectory(interp)
  BY <1>i, RobotType DEF IInv, Timely, Reach
<1>2. CASE Schedule
  BY <1>2, ReachSchedule
<1>3. CASE Send
  <2>1. /\ UNCHANGED <<robot, t_now, interp>>
        /\ value' = At(interp, t_now) /\ sent' = t_now /\ Base' = t_now
    BY <1>3 DEF Send, SendTime, Base, trajectory
  <2>2. At(interp, t_now) \in Value
    BY <1>1, AtType
  <2>3. ASSUME NEW t \in Int, t >= t_now
        PROVE  Near(At(interp, t_now), At(interp, t), Larger(t, t_now + robot.lead) - t_now)
    <3> DEFINE d == t - t_now
               e == Larger(t, t_now + robot.lead) - t_now
    <3>1. d \in Nat /\ e \in Nat /\ d <= e
      BY <1>1, <2>3 DEF Larger
    <3>2. Near(At(interp, t_now), At(interp, t), d)
      BY <1>i, <1>1, <2>3, AtNear
    <3>3. At(interp, t) \in Value
      BY <1>1, <2>3, AtType
    <3> HIDE DEF d, e
    <3>4. Near(At(interp, t_now), At(interp, t), e)
      BY <2>2, <3>1, <3>2, <3>3, NearTo
    <3> QED
      BY <3>4 DEF e
  <2> QED
    BY <2>1, <2>2, <2>3 DEF Reach
<1>4. CASE ~Schedule /\ ~Send
  <2>1. /\ UNCHANGED <<robot, interp, value, sent>>
        /\ Base' \in Int /\ Base <= Base'
    <3>1. /\ UNCHANGED <<robot, interp, value, sent>>
          /\ t_now' = t_now \/ t_now' = now
      BY <1>4 DEF Next, LoopStep, Move, Begin, SendFails, Fetch, ReadClock, AllScheduled,
                  Pace, Stop, Tick, vars, loop, trajectory, output
    <3> QED
      BY <1>1, <3>1 DEF Base
  <2>2. Base \in Int
    BY <1>1 DEF Base
  <2>3. ASSUME NEW t \in Int, t >= sent
        PROVE  Near(value, At(interp, t), Larger(t, Base' + robot.lead) - sent)
    <3> DEFINE d == Larger(t, Base + robot.lead) - sent
               e == Larger(t, Base' + robot.lead) - sent
    <3>1. d \in Nat /\ e \in Nat /\ d <= e
      BY <1>1, <2>1, <2>2, <2>3 DEF Larger
    <3>2. Near(value, At(interp, t), d)
      BY <1>i, <2>3 DEF Reach
    <3>3. At(interp, t) \in Value
      BY <1>1, <2>3, AtType
    <3> HIDE DEF d, e
    <3>4. Near(value, At(interp, t), e)
      BY <1>1, <3>1, <3>2, <3>3, NearTo
    <3> QED
      BY <3>4 DEF e
  <2> QED
    BY <1>1, <2>1, <2>3 DEF Reach
<1> QED
  BY <1>2, <1>3, <1>4

LEMMA NextLimitInv == LimitInv /\ [Next]_vars => LimitInv'
<1> SUFFICES ASSUME LimitInv, [Next]_vars PROVE LimitInv'
  OBVIOUS
<1>1. IInv /\ Timely /\ Lipschitz(interp)
  BY DEF LimitInv
<1>2. IInv'
  BY <1>1, NextIInv
<1>3. Timely' /\ Lipschitz(interp)'
  BY <1>1, TimelyStep, LimitStep
<1>4. Reach'
  BY <1>2, ReachStep
<1> QED
  BY <1>2, <1>3, <1>4 DEF LimitInv

\* Whatever was cut off and appended, and however late, no leg of the trajectory
\* asks for more than the speed limits, for every robot, period and limit.
THEOREM SpeedLimits == Spec => []InterpWithinSpeed
<1>1. LimitInv => InterpWithinSpeed
  BY LipschitzWithinSpeed DEF LimitInv, IInv, InterpWithinSpeed
<1> QED
  BY <1>1, InitLimitInv, NextLimitInv, PTL DEF Spec

-----------------------------------------------------------------------------
(* The filter.  n times the distance of p and q is at most m: the order of     *)
(* fractions once more, for a bound that is a fraction itself.                 *)

Scaled(p, q, n, m) ==
  /\ n * (p[1] * q[2] - q[1] * p[2]) <= m * (p[2] * q[2])
  /\ n * (q[1] * p[2] - p[1] * q[2]) <= m * (p[2] * q[2])

Equal(p, q) == p[1] * q[2] = q[1] * p[2]

\* A simplified fraction is the fraction it simplifies.
LEMMA SimplifiedIs ==
  ASSUME NEW p \in Fraction
  PROVE  Simplified(p) \in Fraction /\ Equal(p, Simplified(p))
<1> DEFINE D == {d \in 1 .. p[2] : (p[1] * d) % p[2] = 0}
           d == CHOOSE d \in 1 .. p[2] : (p[1] * d) % p[2] = 0
<1>1. p[1] \in Int /\ p[2] \in Nat \ {0}
  BY DEF Fraction
<1>2. (p[1] * p[2]) % p[2] = 0
  <2> DEFINE n == p[2]
             k == p[1]
  <2>1. n \in Nat \ {0} /\ k \in Int
    BY <1>1
  <2> HIDE DEF n, k
  <2>2. (k * n) % n = 0
    BY <2>1
  <2> QED
    BY <2>2 DEF n, k
<1>3. d \in 1 .. p[2] /\ (p[1] * d) % p[2] = 0
  BY <1>1, <1>2
<1>4. Simplified(p) = <<(p[1] * d) \div p[2], d>>
  BY DEF Simplified
<1> HIDE DEF d
<1>5. d \in Nat \ {0}
  BY <1>1, <1>3
<1> DEFINE k == p[1] * d
           n == p[2]
<1>6. k \in Int /\ n \in Nat \ {0} /\ k % n = 0
  BY <1>1, <1>3, <1>5
<1> HIDE DEF k, n
<1>7. k \div n \in Int /\ k = (k \div n) * n
  BY <1>6
<1> QED
  BY <1>4, <1>5, <1>7 DEF k, n, Fraction, Equal

LEMMA MixedType ==
  ASSUME NEW x \in Fraction, NEW s \in Fraction
  PROVE  Mixed(x, s) \in Fraction
<1>1. Alpha[1] \in Int /\ Alpha[2] \in Nat \ {0}
  BY ControlAssumption DEF Fraction
<1>2. /\ x[1] \in Int /\ s[1] \in Int
      /\ x[2] \in Nat \ {0} /\ s[2] \in Nat \ {0} /\ x[2] * s[2] \in Nat \ {0}
  BY PositiveProduct DEF Fraction
<1>3. Alpha[2] * x[2] * s[2] \in Nat \ {0}
  <2>1. Alpha[2] * x[2] \in Nat \ {0}
    BY <1>1, <1>2, PositiveProduct
  <2> QED
    BY <1>2, <2>1, PositiveProduct
<1>4. Alpha[1] * x[1] * s[2] + (Alpha[2] - Alpha[1]) * s[1] * x[2] \in Int
  BY <1>1, <1>2
<1> QED
  BY <1>3, <1>4 DEF Mixed, Fraction

\* An equal fraction is at the same distance.
LEMMA ScaledEqual ==
  ASSUME NEW p \in Fraction, NEW q \in Fraction, NEW r \in Fraction,
         NEW n \in Nat, NEW m \in Nat, Equal(p, q), Scaled(p, r, n, m)
  PROVE  Scaled(q, r, n, m) /\ Scaled(r, q, n, m)
<1> DEFINE a == p[1]
           b == p[2]
           c == q[1]
           d == q[2]
           e == r[1]
           f == r[2]
<1>1. /\ a \in Int /\ c \in Int /\ e \in Int
      /\ b \in Nat \ {0} /\ d \in Nat \ {0} /\ f \in Nat \ {0}
  BY DEF Fraction
<1>2. a * d = c * b
  BY DEF Equal
<1>3. n * (a * f - e * b) <= m * (b * f) /\ n * (e * b - a * f) <= m * (b * f)
  BY DEF Scaled
<1> HIDE DEF a, b, c, d, e, f
<1> DEFINE u == n * (a * f - e * b)
           v == n * (e * b - a * f)
           w == m * (b * f)
           x == n * (c * f - e * d)
           y == n * (e * d - c * f)
           z == m * (d * f)
<1>4. u \in Int /\ v \in Int /\ w \in Int /\ x \in Int /\ y \in Int /\ z \in Int
  BY <1>1
<1>5. u * d = x * b /\ v * d = y * b /\ w * d = z * b
  <2>1. u * d = (n * f) * (a * d) - (n * e) * (b * d)
    BY <1>1
  <2>2. x * b = (n * f) * (c * b) - (n * e) * (b * d)
    BY <1>1
  <2>3. v * d = (n * e) * (b * d) - (n * f) * (a * d)
    BY <1>1
  <2>4. y * b = (n * e) * (b * d) - (n * f) * (c * b)
    BY <1>1
  <2>5. w * d = z * b
    BY <1>1
  <2> HIDE DEF u, v, w, x, y, z
  <2> QED
    BY <1>2, <2>1, <2>2, <2>3, <2>4, <2>5
<1>6. u <= w /\ v <= w
  BY <1>3
<1> HIDE DEF u, v, w, x, y, z
<1>7. u * d <= w * d /\ v * d <= w * d
  BY <1>1, <1>4, <1>6, MultiplyOrder
<1>8. x <= z /\ y <= z
  BY <1>1, <1>4, <1>5, <1>7, CancelOrder
<1>9. r[2] * q[2] = q[2] * r[2]
  BY <1>1 DEF d, f
<1> QED
  BY <1>8, <1>9 DEF x, y, z, c, d, e, f, Scaled

LEMMA ScaledTo ==
  ASSUME NEW p \in Fraction, NEW q \in Fraction, NEW m \in Nat, NEW n \in Nat, n <= m,
         Scaled(p, q, Alpha[1], (Alpha[2] - Alpha[1]) * n)
  PROVE  Scaled(p, q, Alpha[1], (Alpha[2] - Alpha[1]) * m)
<1> DEFINE a == Alpha[1]
           e == Alpha[2] - Alpha[1]
           u == a * (p[1] * q[2] - q[1] * p[2])
           v == a * (q[1] * p[2] - p[1] * q[2])
           d == p[2] * q[2]
<1>1. /\ a \in Int /\ e \in Nat /\ d \in Nat \ {0}
      /\ p[1] \in Int /\ q[1] \in Int /\ p[2] \in Int /\ q[2] \in Int
  BY ControlAssumption, PositiveProduct DEF Fraction
<1>2. u <= (e * n) * d /\ v <= (e * n) * d
  BY DEF Scaled
<1>3. u \in Int /\ v \in Int
  <2> HIDE DEF a
  <2> QED
    BY <1>1
<1> HIDE DEF a, e, u, v, d
<1>4. e * d \in Nat
  BY <1>1
<1>5. n * (e * d) <= m * (e * d)
  BY <1>4, MultiplyOrder
<1>6. n * (e * d) = (e * n) * d /\ m * (e * d) = (e * m) * d
  BY <1>1
<1>7. (e * n) * d \in Int /\ (e * m) * d \in Int
  BY <1>1
<1>8. (e * n) * d <= (e * m) * d
  BY <1>5, <1>6
<1>9. u <= (e * m) * d /\ v <= (e * m) * d
  BY <1>2, <1>3, <1>7, <1>8
<1> QED
  BY <1>9 DEF a, e, u, v, d, Scaled

\* The new value x is at most m from the one before, which the command s followed
\* within e/a of m.  Then s is within (a+e)/a of m from x, one direction.
LEMMA LagTriangle ==
  ASSUME NEW a \in Nat, NEW e \in Nat, NEW m \in Nat,
         NEW x1 \in Int, NEW v1 \in Int, NEW s1 \in Int,
         NEW x2 \in Nat \ {0}, NEW v2 \in Nat \ {0}, NEW s2 \in Nat \ {0},
         x1 * v2 - v1 * x2 <= m * (x2 * v2),
         a * (v1 * s2 - s1 * v2) <= (e * m) * (v2 * s2)
  PROVE  a * (x1 * s2 - s1 * x2) <= ((a + e) * m) * (x2 * s2)
<1>1. /\ a * x1 \in Int /\ a * v1 \in Int /\ a * s1 \in Int
      /\ a * m \in Nat /\ e * m \in Nat
  BY SMT
<1>2. (a * x1) * v2 - (a * v1) * x2 <= (a * m) * (x2 * v2)
  <2>1. (x1 * v2 - v1 * x2) * a <= (m * (x2 * v2)) * a
    <3>1. x1 * v2 - v1 * x2 \in Int /\ m * (x2 * v2) \in Int
      BY SMT
    <3> QED
      BY <3>1, MultiplyOrder
  <2>2. (x1 * v2 - v1 * x2) * a = (a * x1) * v2 - (a * v1) * x2
    BY SMT
  <2>3. (m * (x2 * v2)) * a = (a * m) * (x2 * v2)
    BY SMT
  <2> QED
    BY <2>1, <2>2, <2>3
<1>3. (a * v1) * s2 - (a * s1) * v2 <= (e * m) * (v2 * s2)
  <2>1. a * (v1 * s2 - s1 * v2) = (a * v1) * s2 - (a * s1) * v2
    BY SMT
  <2> QED
    BY <2>1
<1>4. (a * x1) * s2 - (a * s1) * x2 <= (a * m + e * m) * (x2 * s2)
  BY ONLY <1>1, <1>2, <1>3, x2 \in Nat \ {0}, v2 \in Nat \ {0}, s2 \in Nat \ {0}, Triangle
<1>5. (a * x1) * s2 - (a * s1) * x2 = a * (x1 * s2 - s1 * x2)
  BY SMT
<1>6. (a * m + e * m) * (x2 * s2) = ((a + e) * m) * (x2 * s2)
  BY SMT
<1> QED
  BY <1>4, <1>5, <1>6

\* u is the distance of x and s: what it says of the filtered command, which is
\* a/(a+e) of it away from s and e/(a+e) of it from x.
LEMMA FilterBounds ==
  ASSUME NEW a \in Nat, NEW e \in Nat, NEW m \in Nat, NEW u \in Int,
         NEW x2 \in Nat \ {0}, NEW s2 \in Nat \ {0},
         a * u <= ((a + e) * m) * (x2 * s2)
  PROVE  /\ a * s2 * u <= m * (((a + e) * x2 * s2) * s2)
         /\ a * (e * x2 * u) <= (e * m) * (x2 * ((a + e) * x2 * s2))
<1> DEFINE l == a * u
           h == ((a + e) * m) * (x2 * s2)
<1>1. l \in Int /\ h \in Int /\ l <= h /\ e * x2 \in Nat /\ s2 \in Nat
  BY SMT
<1>2. l * s2 = a * s2 * u /\ l * (e * x2) = a * (e * x2 * u)
  BY SMT
<1>3. h * s2 = m * (((a + e) * x2 * s2) * s2)
  BY SMT
<1>4. h * (e * x2) = (e * m) * (x2 * ((a + e) * x2 * s2))
  BY SMT
<1> HIDE DEF l, h
<1>5. l * s2 <= h * s2 /\ l * (e * x2) <= h * (e * x2)
  BY <1>1, MultiplyOrder
<1> QED
  BY <1>2, <1>3, <1>4, <1>5

\* One step of the filter: the command moves no further than m, and lags as before.
LEMMA FilterStep ==
  ASSUME NEW x \in Fraction, NEW v \in Fraction, NEW s \in Fraction, NEW m \in Nat,
         Close(x, v, m), Scaled(v, s, Alpha[1], (Alpha[2] - Alpha[1]) * m)
  PROVE  LET y == Simplified(Mixed(x, s))
         IN  /\ y \in Fraction /\ Close(y, s, m)
             /\ Scaled(x, y, Alpha[1], (Alpha[2] - Alpha[1]) * m)
<1> DEFINE a == Alpha[1]
           e == Alpha[2] - Alpha[1]
           x1 == x[1]
           x2 == x[2]
           v1 == v[1]
           v2 == v[2]
           s1 == s[1]
           s2 == s[2]
           y == Mixed(x, s)
<1>1. /\ a \in Nat /\ e \in Nat /\ Alpha[2] = a + e
      /\ x1 \in Int /\ v1 \in Int /\ s1 \in Int
      /\ x2 \in Nat \ {0} /\ v2 \in Nat \ {0} /\ s2 \in Nat \ {0}
  BY ControlAssumption DEF Fraction
<1>2. /\ x1 * v2 - v1 * x2 <= m * (x2 * v2) /\ v1 * x2 - x1 * v2 <= m * (x2 * v2)
      /\ a * (v1 * s2 - s1 * v2) <= (e * m) * (v2 * s2)
      /\ a * (s1 * v2 - v1 * s2) <= (e * m) * (v2 * s2)
  BY DEF Close, Scaled
<1>3. y[1] = a * x1 * s2 + e * s1 * x2 /\ y[2] = (a + e) * x2 * s2
  BY <1>1 DEF Mixed
<1>4. y \in Fraction /\ e * m \in Nat
  BY <1>1, MixedType
<1> HIDE DEF a, e, x1, x2, v1, v2, s1, s2, y
<1> DEFINE d == x1 * s2 - s1 * x2
           f == s1 * x2 - x1 * s2
<1>5. a * d <= ((a + e) * m) * (x2 * s2)
  BY <1>1, <1>2, LagTriangle
<1>6. a * f <= ((a + e) * m) * (x2 * s2)
  <2>1. (0 - x1) * v2 - (0 - v1) * x2 <= m * (x2 * v2)
    BY <1>1, <1>2
  <2>2. a * ((0 - v1) * s2 - (0 - s1) * v2) <= (e * m) * (v2 * s2)
    BY <1>1, <1>2
  <2>3. 0 - x1 \in Int /\ 0 - v1 \in Int /\ 0 - s1 \in Int
    BY <1>1
  <2>4. a * ((0 - x1) * s2 - (0 - s1) * x2) <= ((a + e) * m) * (x2 * s2)
    BY <1>1, <2>1, <2>2, <2>3, LagTriangle
  <2>5. (0 - x1) * s2 - (0 - s1) * x2 = f
    BY <1>1
  <2> QED
    BY <2>4, <2>5
<1>7. d \in Int /\ f \in Int
  BY <1>1
<1>8. /\ y[1] * s2 - s1 * y[2] = a * s2 * d /\ s1 * y[2] - y[1] * s2 = a * s2 * f
      /\ x1 * y[2] - y[1] * x2 = e * x2 * d /\ y[1] * x2 - x1 * y[2] = e * x2 * f
  <2>1. (a * x1 * s2 + e * s1 * x2) * s2 - s1 * ((a + e) * x2 * s2) = a * s2 * d
    BY <1>1
  <2>2. s1 * ((a + e) * x2 * s2) - (a * x1 * s2 + e * s1 * x2) * s2 = a * s2 * f
    BY <1>1
  <2>3. x1 * ((a + e) * x2 * s2) - (a * x1 * s2 + e * s1 * x2) * x2 = e * x2 * d
    BY <1>1
  <2>4. (a * x1 * s2 + e * s1 * x2) * x2 - x1 * ((a + e) * x2 * s2) = e * x2 * f
    BY <1>1
  <2> QED
    BY <1>3, <2>1, <2>2, <2>3, <2>4
<1> HIDE DEF d, f
<1>9. /\ a * s2 * d <= m * (((a + e) * x2 * s2) * s2)
      /\ a * (e * x2 * d) <= (e * m) * (x2 * ((a + e) * x2 * s2))
  BY <1>1, <1>5, <1>7, FilterBounds
<1>10. /\ a * s2 * f <= m * (((a + e) * x2 * s2) * s2)
       /\ a * (e * x2 * f) <= (e * m) * (x2 * ((a + e) * x2 * s2))
  BY <1>1, <1>6, <1>7, FilterBounds
<1>11. Scaled(y, s, 1, m)
  <2>1. a * s2 * d \in Int /\ a * s2 * f \in Int
    BY <1>1, <1>7
  <2>2. 1 * (y[1] * s2 - s1 * y[2]) = a * s2 * d /\ 1 * (s1 * y[2] - y[1] * s2) = a * s2 * f
    BY <1>8, <2>1
  <2> QED
    BY <1>3, <1>9, <1>10, <2>2 DEF Scaled, s1, s2
<1>12. Scaled(y, x, a, e * m)
  <2>1. y[2] * x2 = x2 * ((a + e) * x2 * s2)
    BY <1>1, <1>3
  <2> QED
    BY <1>8, <1>9, <1>10, <2>1 DEF Scaled, x1, x2
<1> DEFINE z == Simplified(y)
<1>13. z \in Fraction /\ Equal(y, z)
  BY <1>4, SimplifiedIs
<1> HIDE DEF z
<1>14. Scaled(z, s, 1, m) /\ Scaled(x, z, a, e * m)
  BY <1>1, <1>4, <1>11, <1>12, <1>13, ScaledEqual
<1>15. Close(z, s, m)
  <2>1. z[1] * s[2] - s[1] * z[2] \in Int /\ s[1] * z[2] - z[1] * s[2] \in Int
    BY <1>13 DEF Fraction
  <2> QED
    BY <1>14, <2>1 DEF Scaled, Close
<1> QED
  BY <1>13, <1>14, <1>15 DEF z, y, a, e

-----------------------------------------------------------------------------
(* The commands.  Reach bounds the values handed on; a filtered command lags   *)
(* behind them by no more than (1 - alpha) / alpha of what the limits allow in *)
(* the longest time between two values so far, and keeps that lag by moving as *)
(* far as they allow in that time.                                             *)

Lag ==
  /\ longest \in Nat /\ command \in Value
  /\ ~robot.filtered => command = value
  /\ robot.filtered => \A c \in Components :
       Scaled(value[c], command[c], Alpha[1], (Alpha[2] - Alpha[1]) * (MaxSpeed[c] * longest))

FilterInv == LimitInv /\ Lag

LEMMA InitLag == Init => Lag
<1> SUFFICES ASSUME Init PROVE Lag
  OBVIOUS
<1>1. value = Home /\ command = Home /\ Home \in Value /\ longest = 0
  BY ControlAssumption DEF Init
<1>2. ASSUME NEW c \in Components
      PROVE  Scaled(Home[c], Home[c], Alpha[1], (Alpha[2] - Alpha[1]) * (MaxSpeed[c] * 0))
  <2> DEFINE h == Home[c][1] * Home[c][2]
             k == Home[c][2] * Home[c][2]
  <2>1. h \in Int /\ k \in Int
    BY <1>1 DEF Value, Fraction
  <2>2. Alpha[1] \in Int /\ (Alpha[2] - Alpha[1]) * (MaxSpeed[c] * 0) = 0
    BY ControlAssumption, SpeedAssumption DEF Fraction
  <2> HIDE DEF h, k
  <2>3. Alpha[1] * (h - h) <= 0 * k
    BY <2>1, <2>2
  <2> QED
    BY <2>2, <2>3 DEF Scaled, h, k
<1> QED
  BY <1>1, <1>2 DEF Lag

\* The time the trajectory may have moved for between two values.
LEMMA NextValue ==
  ASSUME LimitInv, Send
  PROVE  /\ value \in Value /\ value' \in Value /\ Allowance \in Nat
         /\ Near(value', value, Allowance)
<1>1. IInv /\ Timely /\ Reach
  BY DEF LimitInv
<1>2. value' = At(interp, t_now)
  BY DEF Send, SendTime
<1>3. /\ robot.lead \in Nat /\ t_now \in Int /\ sent \in Int /\ t_now >= sent
      /\ value \in Value /\ Trajectory(interp)
  BY <1>1, RobotType DEF IInv, Timely, Reach
<1>4. value' \in Value
  BY <1>2, <1>3, AtType
<1> DEFINE d == Larger(t_now, Base + robot.lead) - sent
<1>5. Near(value, value', d)
  BY <1>1, <1>2, <1>3 DEF Reach
<1>6. d \in Nat /\ d = Allowance
  BY <1>3 DEF Base, Allowance, Elapsed, Larger
<1> HIDE DEF d
<1> QED
  BY <1>3, <1>4, <1>5, <1>6, NearTo

\* The command after a step of the loop that sends one.
LEMMA NextCommand ==
  ASSUME LimitInv, Lag, Send
  PROVE  /\ Lag'
         /\ Near(command', command, IF robot.filtered THEN longest' ELSE Allowance)
<1>1. /\ longest \in Nat /\ command \in Value
      /\ ~robot.filtered => command = value
      /\ robot.filtered => \A c \in Components :
           Scaled(value[c], command[c], Alpha[1],
                  (Alpha[2] - Alpha[1]) * (MaxSpeed[c] * longest))
  BY DEF Lag
<1>2. /\ value \in Value /\ value' \in Value /\ Allowance \in Nat
      /\ Near(value', value, Allowance)
  BY NextValue
<1>3. /\ longest' \in Nat /\ Allowance <= longest' /\ longest <= longest' /\ robot' = robot
      /\ command' = IF robot.filtered THEN Filtered(value', command) ELSE value'
  BY <1>1, <1>2 DEF Send, Larger
<1>4. CASE ~robot.filtered
  BY <1>1, <1>2, <1>3, <1>4 DEF Lag
<1>5. CASE robot.filtered
  <2>1. Near(value', value, longest')
    BY <1>2, <1>3, NearTo
  <2>2. ASSUME NEW c \in Components
        PROVE  /\ command'[c] \in Fraction
               /\ Close(command'[c], command[c], MaxSpeed[c] * longest')
               /\ Scaled(value'[c], command'[c], Alpha[1],
                         (Alpha[2] - Alpha[1]) * (MaxSpeed[c] * longest'))
    <3> DEFINE m == MaxSpeed[c] * longest'
               l == MaxSpeed[c] * longest
    <3>1. /\ value'[c] \in Fraction /\ value[c] \in Fraction /\ command[c] \in Fraction
          /\ MaxSpeed[c] \in Nat
      BY <1>1, <1>2, SpeedAssumption DEF Value
    <3>2. m \in Nat /\ l \in Nat /\ l <= m
      <4>1. longest * MaxSpeed[c] <= longest' * MaxSpeed[c]
        BY <1>1, <1>3, <3>1, MultiplyOrder
      <4> QED
        BY <1>1, <1>3, <3>1, <4>1
    <3>3. Close(value'[c], value[c], m)
      BY <1>2, <1>3, <2>1, NearIs
    <3>4. Scaled(value[c], command[c], Alpha[1], (Alpha[2] - Alpha[1]) * l)
      BY <1>1, <1>5
    <3>5. command'[c] = Simplified(Mixed(value'[c], command[c]))
      BY <1>3, <1>5 DEF Filtered
    <3> HIDE DEF m, l
    <3>6. Scaled(value[c], command[c], Alpha[1], (Alpha[2] - Alpha[1]) * m)
      BY <3>1, <3>2, <3>4, ScaledTo
    <3>7. /\ command'[c] \in Fraction /\ Close(command'[c], command[c], m)
          /\ Scaled(value'[c], command'[c], Alpha[1], (Alpha[2] - Alpha[1]) * m)
      BY <3>1, <3>2, <3>3, <3>5, <3>6, FilterStep
    <3> QED
      BY <3>7 DEF m
  <2>3. command' \in Value
    BY <1>3, <1>5, <2>2 DEF Filtered, Value
  <2>4. Near(command', command, longest')
    BY <1>1, <1>3, <2>2, <2>3, NearIs
  <2> QED
    BY <1>3, <1>5, <2>2, <2>3, <2>4 DEF Lag
<1> QED
  BY <1>4, <1>5

LEMMA NextFilterInv == FilterInv /\ [Next]_vars => FilterInv'
<1> SUFFICES ASSUME FilterInv, [Next]_vars PROVE FilterInv'
  OBVIOUS
<1>1. LimitInv'
  BY NextLimitInv DEF FilterInv
<1>2. CASE Send
  BY <1>1, <1>2, NextCommand DEF FilterInv
<1>3. CASE ~Send
  <2>1. UNCHANGED <<robot, output>>
    BY <1>3 DEF Next, LoopStep, Move, Begin, SendFails, Fetch, ReadClock, Schedule,
                AllScheduled, Pace, Stop, Tick, vars
  <2> QED
    BY <1>1, <2>1 DEF FilterInv, Lag, output
<1> QED
  BY <1>2, <1>3

\* Nor does one command ask for more than the limits allow since the one before it,
\* but for the lead; a filtered one asks for no more than they allow in the longest
\* time between two commands so far, for every robot, filter, period and limit.
THEOREM CommandsWithinSpeed == Spec => CommandStep
<1> DEFINE Bound == IF robot.filtered THEN longest' ELSE Allowance
           Step == \A c \in Components :
                     Leq(AbsDiff(command'[c], command[c]), Whole(MaxSpeed[c] * Bound))
<1>1. ASSUME FilterInv, [Next]_vars PROVE [Step]_output
  <2>1. CASE Send
    BY <1>1, <2>1, NextCommand DEF FilterInv, Near
  <2>2. CASE ~Send
    <3>1. UNCHANGED output
      BY <1>1, <2>2 DEF Next, LoopStep, Move, Begin, SendFails, Fetch, ReadClock, Schedule,
                        AllScheduled, Pace, Stop, Tick, vars
    <3> QED
      BY <3>1
  <2> QED
    BY <2>1, <2>2
<1>2. Init => FilterInv
  BY InitLimitInv, InitLag DEF FilterInv
<1> QED
  BY <1>1, <1>2, NextFilterInv, PTL DEF Spec, CommandStep

-----------------------------------------------------------------------------
(* The loops settle.  A waypoint is scheduled later than the lead after the    *)
(* last reading of the clock, so a trajectory that ended before a value was    *)
(* handed on has had its end handed on; and a loop that is ahead of its        *)
(* schedule began its last round no longer than a period ago.                  *)

Arrived == LastTime(interp) <= sent => value = interp[LastTime(interp)]

Begun == phase \in {"send", "fetch", "clock", "schedule", "pace"}
HasSent == phase = "pace" \/ (robot.first = "send" /\ phase \in {"fetch", "schedule"})
HasFetched ==
  phase \in {"clock", "schedule", "pace"} \/ (phase = "send" /\ robot.first = "schedule")
Punctual ==
  /\ wake \in Int /\ wake <= now + Dt
  /\ Begun => wake <= now
  /\ phase \in {"send", "schedule"} => wake <= t_now
  /\ HasSent => wake <= sent
  /\ HasFetched /\ request_queue # << >> => wake < MaxTarget
  /\ phase = "sleeping" /\ now < wake =>
       wake - Dt <= sent /\ (request_queue # << >> => wake - Dt < MaxTarget)

SettleInv == FilterInv /\ Arrived /\ Punctual

\* From the end of a trajectory on its value is its last.
LEMMA AtEnd ==
  ASSUME NEW f, Trajectory(f), NEW t \in Int, LastTime(f) <= t
  PROVE  At(f, t) = f[LastTime(f)]
<1>1. FirstTime(f) \in Int /\ LastTime(f) \in Times(f) /\ LastTime(f) \in Int
      /\ FirstTime(f) <= LastTime(f)
  BY Ends
<1>2. Clip(f, t) = LastTime(f)
  BY <1>1 DEF Clip, Larger, Smaller
<1> QED
  BY <1>1, <1>2 DEF At, Within

\* A trajectory that is changed ends after the current time.
LEMMA ScheduleLasts ==
  ASSUME NEW f, Trajectory(f), NEW target \in Value, NEW time \in Int,
         NEW curr_time \in Int, NEW last_time \in Int,
         NEW g, g = ScheduleWaypoint(f, target, time, curr_time, last_time)
  PROVE  g = f \/ curr_time < LastTime(g)
<1>1. CASE NoEffect(time, curr_time)
  BY <1>1 DEF ScheduleWaypoint
<1>2. CASE ~NoEffect(time, curr_time)
  <2> DEFINE first == FirstTime(f)
             end == EndTime(time, curr_time, last_time)
             start == StartTime(first, curr_time, end)
             waypoint == end + Duration(f, target, time, end)
  <2>1. first \in Int
    BY Ends
  <2>2. /\ end \in Int /\ start \in Int /\ end < time
        /\ WindowAsserted(start, end, time, curr_time, last_time)
    <3> HIDE DEF first
    <3> QED
      BY <1>2, <2>1, Window
  <2>3. curr_time <= end
    BY <2>2 DEF WindowAsserted
  <2>4. g = Appended(f, start, end, target, waypoint)
    BY <1>2 DEF ScheduleWaypoint
  <2> HIDE DEF first, end, start
  <2>5. Duration(f, target, time, end) \in Nat \ {0}
    BY <2>2, DurationType
  <2>6. waypoint \in Int /\ curr_time < waypoint
    BY <2>2, <2>3, <2>5
  <2> HIDE DEF waypoint
  <2>7. waypoint \in Times(g)
    BY <2>4 DEF Appended, Times
  <2>8. Trajectory(g)
    BY ScheduleWaypointDefined
  <2>9. waypoint <= LastTime(g) /\ LastTime(g) \in Int
    BY <2>7, <2>8, Ends
  <2> QED
    BY <2>6, <2>9
<1> QED
  BY <1>1, <1>2

LEMMA ArrivedStep ==
  ASSUME LimitInv, Arrived, IInv', [Next]_vars
  PROVE  Arrived'
<1>i. IInv /\ Timely /\ Lipschitz(interp)
  BY DEF LimitInv
<1>1. /\ robot.lead \in Nat /\ t_now \in Int /\ sent \in Int /\ sent <= t_now
      /\ Trajectory(interp) /\ last_waypoint_time \in Int
  BY <1>i, RobotType DEF IInv, Timely
<1>2. CASE Schedule
  <2> DEFINE r == Head(reqs)
             curr == CurrTime(t_now)
  <2>1. r \in Request
    BY <1>2 DEF IInv, Schedule, LimitInv
  <2>2. r.value \in Value /\ r.time \in Int /\ curr \in Int /\ sent <= curr
    BY <1>1, <2>1 DEF Request, CurrTime
  <2>3. UNCHANGED output
    BY <1>2 DEF Schedule
  <2>4. \/ interp' = interp
        \/ interp' = ScheduleWaypoint(interp, r.value, r.time, curr, last_waypoint_time)
    BY <1>2 DEF Schedule, trajectory
  <2> HIDE DEF r, curr
  <2>5. interp' = interp \/ curr < LastTime(interp')
    BY <1>1, <2>2, <2>4, ScheduleLasts
  <2>6. LastTime(interp') \in Int
    BY Ends DEF IInv
  <2> QED
    BY <1>1, <2>2, <2>3, <2>5, <2>6 DEF Arrived, output
<1>3. CASE Send
  <2>1. /\ interp' = interp /\ value' = At(interp, t_now) /\ sent' = t_now
    BY <1>3 DEF Send, SendTime, trajectory
  <2> QED
    BY <1>1, <2>1, AtEnd DEF Arrived
<1>4. CASE ~Schedule /\ ~Send
  <2>1. UNCHANGED <<interp, value, sent>>
    BY <1>4 DEF Next, LoopStep, Move, Begin, SendFails, Fetch, ReadClock, AllScheduled,
                Pace, Stop, Tick, vars, trajectory, output
  <2> QED
    BY <2>1 DEF Arrived
<1> QED
  BY <1>2, <1>3, <1>4

LEMMA PunctualStep ==
  ASSUME LimitInv, Punctual, [Next]_vars
  PROVE  Punctual'
<1>i. IInv /\ Timely /\ Lipschitz(interp)
  BY DEF LimitInv
<1>1. /\ now \in Int /\ t_now \in Int /\ sent \in Int /\ wake \in Int
      /\ sent <= t_now /\ t_now <= now
      /\ robot.first \in {"send", "schedule"} /\ Dt \in Nat \ {0} /\ MaxTarget \in Nat
      /\ robot.first = "send" => phase # "clock"
  BY <1>i, RobotType, ControlAssumption DEF IInv, Timely, Punctual
<1> USE DEF Begun, HasSent, HasFetched
<1>2. CASE Schedule
  <2>1. UNCHANGED <<robot, now, phase, t_now, sent>>
    BY <1>i, <1>2, ScheduleEffect DEF output
  <2>2. UNCHANGED <<wake, request_queue>>
    BY <1>2 DEF Schedule
  <2> QED
    BY <2>1, <2>2 DEF Punctual
<1>3. CASE Begin
  BY <1>1, <1>3 DEF Begin, trajectory, output, queue, Punctual
<1>4. CASE Send
  BY <1>1, <1>4 DEF Send, trajectory, queue, Punctual
<1>5. CASE SendFails
  BY <1>1, <1>5 DEF SendFails, trajectory, output, queue, Punctual
<1>6. CASE Fetch
  BY <1>1, <1>6 DEF Fetch, trajectory, output, Punctual
<1>7. CASE ReadClock
  BY <1>1, <1>7 DEF ReadClock, trajectory, output, queue, Punctual
<1>8. CASE AllScheduled
  BY <1>1, <1>8 DEF AllScheduled, trajectory, output, queue, Punctual
<1>9. CASE Pace
  BY <1>1, <1>9 DEF Pace, trajectory, output, queue, Punctual
<1>10. CASE Stop
  BY <1>1, <1>10 DEF Stop, trajectory, output, queue, Punctual
<1>11. CASE Tick
  BY <1>1, <1>11 DEF Tick, loop, trajectory, output, queue, Punctual
<1>12. ASSUME NEW v \in Values, NEW t \in 0 .. MaxTarget, Move(v, t) PROVE Punctual'
  <2>1. UNCHANGED <<robot, now, phase, wake, t_now, sent>>
    BY <1>12 DEF Move, loop, output
  <2>2. now < MaxTarget
    BY <1>1, <1>12 DEF Move, Accepted, Larger
  <2> QED
    BY <1>1, <2>1, <2>2 DEF Punctual
<1>13. CASE UNCHANGED vars
  BY <1>13 DEF vars, loop, trajectory, output, queue, Punctual
<1> QED
  BY <1>2, <1>3, <1>4, <1>5, <1>6, <1>7, <1>8, <1>9, <1>10, <1>11, <1>12, <1>13
     DEF Next, LoopStep

LEMMA InitSettle == Init => SettleInv
<1> SUFFICES ASSUME Init PROVE SettleInv
  OBVIOUS
<1>1. LimitInv /\ Trajectory(interp)
  BY InitLimitInv, InitIInv DEF IInv
<1>2. Times(interp) = {0} /\ interp[0] = Home
  BY DEF Init, Times
<1>3. LastTime(interp) = 0
  BY <1>1, <1>2, Ends
<1>4. Arrived
  BY <1>2, <1>3 DEF Init, Arrived
<1>5. Punctual
  BY ControlAssumption DEF Init, Punctual, Begun, HasSent, HasFetched
<1> QED
  BY <1>1, <1>4, <1>5, InitLag DEF SettleInv, FilterInv

LEMMA SettleImplies == SettleInv => Settled
<1> SUFFICES ASSUME SettleInv, phase = "sleeping", now < wake,
                    Larger(MaxTarget, LastTime(interp)) + Dt <= now + 1
             PROVE  /\ request_queue = << >> /\ value = interp[LastTime(interp)]
                    /\ ~robot.filtered => command = value
  BY DEF Settled
<1>1. /\ now \in Int /\ sent \in Int /\ wake \in Int /\ Dt \in Nat /\ MaxTarget \in Nat
      /\ LastTime(interp) \in Int
  BY Ends, ControlAssumption DEF SettleInv, FilterInv, LimitInv, IInv, Timely, Punctual
<1>2. MaxTarget + Dt <= now + 1 /\ LastTime(interp) + Dt <= now + 1
  BY <1>1 DEF Larger
<1>3. wake - Dt <= sent /\ (request_queue # << >> => wake - Dt < MaxTarget)
  BY DEF SettleInv, Punctual
<1>4. LastTime(interp) <= sent /\ ~(wake - Dt < MaxTarget)
  BY <1>1, <1>2, <1>3
<1> QED
  BY <1>3, <1>4 DEF SettleInv, FilterInv, Lag, Arrived

\* A loop that keeps its schedule has handed on the end of its trajectory, to the robot
\* or to its filter, a period after the trajectory ended and the last request can have
\* been made, for every robot, period, speed limit and list of requests.
THEOREM LoopSettles == Spec => []Settled
<1>1. SettleInv /\ [Next]_vars => SettleInv'
  <2> SUFFICES ASSUME SettleInv, [Next]_vars PROVE SettleInv'
    OBVIOUS
  <2>1. LimitInv /\ FilterInv' /\ IInv'
    BY NextFilterInv DEF SettleInv, FilterInv, LimitInv
  <2>2. Arrived' /\ Punctual'
    BY <2>1, ArrivedStep, PunctualStep DEF SettleInv
  <2> QED
    BY <2>1, <2>2 DEF SettleInv
<1> QED
  BY <1>1, InitSettle, SettleImplies, PTL DEF Spec
=============================================================================
