------------------------------ MODULE Commands ------------------------------
(***************************************************************************)
(* What a tactic asks of a robot.  Executing a skill ends in a call of     *)
(* Comm::sendCommand, which overwrites the wheel speeds of the robot in    *)
(* the simulator's environment (HAL/comm.cpp); with no call the wheels     *)
(* keep their last speeds.  A command is the skill and the reason its      *)
(* parameters were chosen; the coordinates themselves are abstracted.      *)
(***************************************************************************)
EXTENDS Sequences

Command == [skill : {"Stop", "GoToPoint", "GoToPointDW", "DefendPoint", "Spin",
                     "Velocity", "TestSkill"},
            role : {"ball", "line", "box", "guard", "defend", "swarm", "wait",
                    "post", "ahead", "cw", "ccw", "home", "cover", "chase",
                    "speeds", "circle", "clear", "none"}]

Do(skill, role) == [skill |-> skill, role |-> role]

GoToPoint(role) == Do("GoToPoint", role)

\* The commands of a frame in the order they were sent; only the last counts.
Silence == <<>>

Final(sent) == sent[Len(sent)]

AsksFor(sent, roles) == \E i \in DOMAIN sent : sent[i].role \in roles
=============================================================================
