---------------------------------- MODULE Nodes ----------------------------------
(***************************************************************************)
(* The pub, req and pubreq loops of the nodes, one program for each.  A    *)
(* program keeps the control of the function: what it does before its try  *)
(* block, in the block before `while not self.exit_event.is_set()`, in one *)
(* round of that loop and in its finally block, as sequences of steps:     *)
(*                                                                         *)
(*   open, close          the connection to the device                     *)
(*   use                  reads, commands or sets up the device            *)
(*   await                waits for the device (or a listener of its) with *)
(*                        no time limit and no look at exit_event          *)
(*   forever              runs an event loop that nobody stops              *)
(*   frame                next frame of the device; without one the round  *)
(*                        ends (`continue`)                                *)
(*   grab                 next frame; without one the put is left out      *)
(*   drain                reads events; an unplugged device sets exit_event*)
(*   put, put_now         ring_buffer.put with wait=True, wait=False       *)
(*   pub_ready, req_ready sets the event                                   *)
(*   requests             drains the request queue and carries them out    *)
(*   try_use, try_close   the same with `except Exception: pass`           *)
(*                                                                         *)
(* Steps that cannot fail and only compute are left out, and so is what a  *)
(* step does with its data.  XarmPubReadyFirst and XarmReqLeaks are faulty   *)
(* variants.                                                               *)
(***************************************************************************)
EXTENDS Sequences

Program(before, try, loop, finally) ==
  [before |-> before, try |-> try, loop |-> loop, finally |-> finally]

\* self.worker = None
NoLoop == Program(<<>>, <<>>, <<>>, <<>>)

\* __req__ and the functions run by the main loop and by the worker thread.
Node(name, req, main, worker) ==
  [name |-> name, req |-> req, main |-> main, worker |-> worker]
PubReq(name, main) == Node(name, TRUE, main, NoLoop)
PubOnly(name, main) == Node(name, FALSE, main, NoLoop)

Publish == <<"put", "pub_ready">>
PublishNow == <<"put_now", "pub_ready">>
ReadyFirst == <<"pub_ready", "put">>

\* The loop of a robot or gripper: command, read, publish, serve.
ControlLoop == <<"use">> \o Publish \o <<"requests">>

-----------------------------------------------------------------------------
(* Robots and grippers *)

AgGripper == PubReq("ag_gripper",
  Program(<<"open", "use">>, <<"use", "req_ready">>, ControlLoop, <<"close">>))

\* No try block: an exception ends the loop where it stands.
BoosterT1 == PubReq("booster_t1",
  Program(<<"open", "use", "req_ready">>, <<>>,
          <<"grab">> \o Publish \o <<"requests", "use">>, <<>>))

FrankaArm == PubReq("franka_arm",
  Program(<<"open">>, <<"use", "req_ready">>, ControlLoop, <<"close">>))

FrankaGripper == PubReq("franka_gripper",
  Program(<<"open">>, <<"use", "req_ready">>, ControlLoop, <<"close">>))

KinovaArm == PubReq("kinova_arm",
  Program(<<"open", "use">>, <<"req_ready">>, ControlLoop, <<"try_use", "try_close">>))

PiperArm == PubReq("piper_arm",
  Program(<<"open">>, <<"await", "use", "req_ready">>, ControlLoop,
          <<"try_use", "try_close">>))

RobotiqGripper == PubReq("robotiq_gripper",
  Program(<<"open", "use">>, <<"use", "req_ready">>, ControlLoop, <<"use", "close">>))

SoArmPub == Program(<<>>, <<"open", "await">>, <<"use">> \o Publish, <<"close">>)
SoArmReq ==
  Program(<<>>, <<"open", "use", "req_ready">>, <<"requests", "use">>, <<"close">>)
SoArm == Node("so_arm", TRUE, SoArmReq, SoArmPub)

UnitreeG1 == PubReq("unitree_g1",
  Program(<<"open", "use">>, <<"req_ready">>,
          <<"use", "grab">> \o Publish \o <<"requests">>, <<>>))

\* The second of its connections may fail with the first open.  The finally block
\* halts the arm before it closes them.
UrArm == PubReq("ur_arm",
  Program(<<"open", "use">>, <<"use", "req_ready">>, ControlLoop, <<"use", "close">>))

WavesharePiperGripper == PubReq("waveshare_piper_gripper",
  Program(<<"open">>, <<"use", "req_ready">>, ControlLoop, <<"close">>))

\* The driver waits for the gripper's answer with no time limit, and a closed
\* connection keeps it looking for the head of a message.
WsgGripper == PubReq("wsg_gripper",
  Program(<<"open">>, <<"await", "req_ready">>, <<"await">> \o Publish \o <<"requests">>,
          <<"await", "close">>))

\* A closed connection delivers nothing: the header is awaited for ever, a
\* packet is a frame that does not come.
XarmPubReadyFirst ==
  Program(<<>>, <<"open", "await">>, <<"frame">> \o ReadyFirst, <<"close">>)
XarmPub == Program(<<>>, <<"open", "await">>, <<"frame">> \o Publish, <<"close">>)
XarmReqLeaks ==
  Program(<<"open", "use">>, <<"use", "req_ready">>, <<"use", "requests">>, <<"use">>)
XarmReq ==
  Program(<<"open", "use">>, <<"use", "req_ready">>, <<"use", "requests">>,
          <<"use", "close">>)
XarmArm == Node("xarm_arm", TRUE, XarmReq, XarmPub)

XarmGripper == PubReq("xarm_gripper",
  Program(<<"open">>, <<"use", "req_ready">>, ControlLoop, <<"close">>))

YamArm == PubReq("yam_arm",
  Program(<<"open", "use">>, <<"req_ready">>, ControlLoop \o <<"use">>, <<"try_close">>))

Robots ==
  {AgGripper, BoosterT1, FrankaArm, FrankaGripper, KinovaArm, PiperArm, RobotiqGripper,
   SoArm, UnitreeG1, UrArm, WavesharePiperGripper, WsgGripper, XarmArm, XarmGripper, YamArm}

-----------------------------------------------------------------------------
(* Cameras *)

FrameLoop == <<"frame">> \o PublishNow \o <<"requests">>

Oak == PubReq("oak",
  Program(<<"open">>, <<"use", "req_ready">>, <<"await">> \o PublishNow \o <<"requests">>,
          <<"close">>))

Orbbec == PubReq("orbbec",
  Program(<<"use">>, <<"open", "use", "req_ready">>, FrameLoop, <<"close">>))

Qrcode == PubOnly("qrcode", Program(<<>>, <<>>, PublishNow, <<>>))

\* The pipeline is started and never stopped.
Realsense == PubReq("realsense",
  Program(<<"use", "open", "use">>, <<"req_ready">>, FrameLoop, <<"use">>))

Record3d == PubOnly("record3d",
  Program(<<"use", "open", "use">>, <<>>, <<"await", "frame">> \o PublishNow, <<"close">>))

Uvc == PubReq("uvc",
  Program(<<"open", "use">>, <<"req_ready">>, FrameLoop, <<"close">>))

Zed == PubReq("zed",
  Program(<<"open">>, <<"req_ready">>, <<"grab">> \o PublishNow \o <<"requests">>,
          <<"close">>))

Cameras == {Oak, Orbbec, Qrcode, Realsense, Record3d, Uvc, Zed}

-----------------------------------------------------------------------------
(* Interfaces *)

ReadLoop == <<"use">> \o Publish

AvpStream == PubOnly("avp_stream",
  Program(<<"open">>, <<"req_ready">>, ReadLoop, <<>>))

EvdevKeyboard == PubOnly("evdev_keyboard",
  Program(<<"open">>, <<>>, <<"drain">> \o Publish, <<"try_use", "close">>))

\* Errors of the device are caught: a round reads nothing.
Gamepad == PubOnly("gamepad",
  Program(<<"open", "use">>, <<"put">>, Publish, <<"close">>))

Gello == PubOnly("gello", Program(<<"open">>, <<>>, ReadLoop, <<"close">>))

Joycon == PubReq("joycon",
  Program(<<"open", "use">>, <<"req_ready">>, ControlLoop, <<"close">>))

\* The listener is joined but not told to stop.
Keyboard == PubOnly("keyboard", Program(<<"open">>, <<>>, ReadLoop, <<"await">>))

OculusReader == PubOnly("oculus_reader", Program(<<>>, <<"open">>, ReadLoop, <<>>))

Spacemouse == PubOnly("spacemouse",
  Program(<<"use", "open">>, <<>>, ReadLoop, <<"close">>))

SshKeyboard == PubOnly("ssh_keyboard",
  Program(<<"open">>, <<>>, ReadLoop, <<"close", "await">>))

\* The web server's event loop: a session, if one connects, drains the requests and
\* catches what that raises, a controller moves, and exit_event ends a session only.
Vuer == PubReq("vuer",
  Program(<<"use">>, <<"await", "try_use">> \o Publish \o <<"forever">>, <<>>, <<>>))

Vicon == PubOnly("vicon", Program(<<"open", "use">>, <<>>, ReadLoop, <<>>))

XRobotoolkit == PubOnly("x_robotoolkit", Program(<<"open">>, <<>>, ReadLoop, <<>>))

Interfaces ==
  {AvpStream, EvdevKeyboard, Gamepad, Gello, Joycon, Keyboard, OculusReader, Spacemouse,
   SshKeyboard, Vicon, Vuer, XRobotoolkit}

-----------------------------------------------------------------------------
(* The template new nodes are written from, in its three forms. *)

TemplatePub == Program(<<>>, <<>>, Publish, <<>>)
TemplateReq == Program(<<>>, <<"req_ready">>, <<"requests">>, <<>>)
TemplatePubReq == Program(<<>>, <<"req_ready">>, Publish \o <<"requests">>, <<>>)
Templates ==
  {PubReq("template_pubreq", TemplatePubReq), PubOnly("template_pub", TemplatePub),
   Node("template_pub_in_worker", TRUE, TemplateReq, TemplatePub),
   Node("template_req_in_worker", TRUE, TemplatePub, TemplateReq)}

AllNodes == Robots \cup Cameras \cup Interfaces \cup Templates
=============================================================================
