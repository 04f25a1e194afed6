------------------------------ MODULE MCArmControl ------------------------------
(* One unit of position or half a unit of rotation takes a tick.              *)
EXTENDS ArmControl
MCMaxSpeed == [pos |-> 1, rot |-> 2]
Pose(pos, rot) == [pos |-> Whole(pos), rot |-> Whole(rot)]
MCHome == Pose(0, 0)
MCValues == {Pose(5, 0), Pose(0, 3)}
MCAlpha == <<1, 2>>
=============================================================================
