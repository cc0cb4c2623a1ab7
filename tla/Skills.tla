------------------------------- MODULE Skills -------------------------------
(***************************************************************************)
(* The skills that work out where a robot goes, or how fast: GoToPoint for *)
(* one robot, GoToPointDW and TestSkill, whose state all robots share, and *)
(* GoalKeeping; and the planner that GoToPoint calls, LocalAvoidance.      *)
(* They share no state with each other, so a behaviour here follows one of *)
(* them and the others stay as they start.                                 *)
(***************************************************************************)
EXTENDS Field

CONSTANTS
  PI, botID, Scenes, Params, Changes, Views, Period, Cycle, Balls, Formations,
  Obstacles, MaxObstacles

ASSUME ParamsAssumption ==
  /\ PI \in Nat /\ PI >= 2 /\ botID \in Bots
  /\ \A s \in Scenes : /\ s.ball \in Point
                       /\ s.home \in [Bots -> Point] /\ s.away \in [Bots -> Point]
  /\ \A p \in Params : /\ p.dest \in Point
                       /\ p.finalslope \in 1 - PI .. PI /\ p.finalVelocity \in Nat

ASSUME ChangesAssumption == Changes \subseteq -15 .. 15

ASSUME SwingAssumption ==
  Views \subseteq Scene /\ Period \in Nat \ {0} /\ Cycle \in Nat \ {0}

ASSUME HistoryAssumption ==
  /\ Balls \subseteq Point
  /\ \A f \in Formations :
       /\ f.home \in [Bots -> Point] /\ f.away \in [Bots -> Point]
       /\ f.heading \in [Bots -> Heading] /\ f.aligned \in [Bots -> BOOLEAN]

VARIABLES
  followed,                                            \* which of the five
  scene, heading, param, obstacles, wheels, counter,   \* GoToPoint's
  ramp, speeds,                                        \* GoToPointDW's
  view, point, saves, ticks, flag, held,               \* GoalKeeping's
  recent, pos, count, dests, played, run,                  \* TestSkill's
  seen, invalidSet, thetaDD                                \* LocalAvoidance's

Go   == INSTANCE GoToPoint
DW   == INSTANCE GoToPointDW
Goal == INSTANCE GoalKeeping
Test == INSTANCE TestSkill
Plan == INSTANCE LocalAvoidance

ASSUME ObstaclesAssumption == Obstacles \subseteq Plan!Obstacle

goVars   == <<scene, heading, param, obstacles, wheels, counter>>
dwVars   == <<ramp, speeds>>
goalVars == <<view, point, saves, ticks, flag, held>>
testVars == <<recent, pos, count, dests, played, run>>
planVars == <<seen, invalidSet, thetaDD>>
vars     == <<followed, goVars, dwVars, goalVars, testVars, planVars>>

GoRests ==
  /\ scene = CHOOSE s \in Scenes : TRUE
  /\ heading = 0
  /\ param = CHOOSE p \in Params : TRUE

Init ==
  /\ Go!Init /\ DW!Init /\ Goal!Init /\ Test!Init /\ Plan!Init
  /\ followed \in {"GoToPoint", "GoToPointDW", "GoalKeeping", "TestSkill",
                   "LocalAvoidance"}
  /\ followed # "GoToPoint" => GoRests

Next ==
  /\ UNCHANGED followed
  /\ \/ /\ followed = "GoToPoint" /\ Go!Next
        /\ UNCHANGED <<dwVars, goalVars, testVars, planVars>>
     \/ /\ followed = "GoToPointDW" /\ DW!Next
        /\ UNCHANGED <<goVars, goalVars, testVars, planVars>>
     \/ /\ followed = "GoalKeeping" /\ Goal!Next
        /\ UNCHANGED <<goVars, dwVars, testVars, planVars>>
     \/ /\ followed = "TestSkill" /\ Test!Next
        /\ UNCHANGED <<goVars, dwVars, goalVars, planVars>>
     \/ /\ followed = "LocalAvoidance" /\ Plan!Next
        /\ UNCHANGED <<goVars, dwVars, goalVars, testVars>>

Spec == Init /\ [][Next]_vars

\* The simulator calls the strategy for every frame.
FairSpec == Spec /\ (followed = "GoToPoint" => WF_counter(Go!Tick))

-----------------------------------------------------------------------------
(* Properties *)

\* No run of GoToPointDW frames gets a wheel beyond 156 ticks.
TopSpeed == DW!TopSpeed

\* A robot that is kept near its destination and told to stop there does stop
\* in _goToPoint, facing the slope with either end.
TurnSettles == followed = "GoToPoint" => Go!TurnSettles

\* A robot that goes for the ball is never made by _goToPoint to avoid a robot
\* at the ball.
BallStaysReachable == Go!BallStaysReachable

\* A shot passes within the radius of a robot of the point the goalkeeper is
\* sent to, but from a corner or far out.
CoversTheShot == Goal!CoversTheShot

\* With the ball far out the goalkeeper changes sides after Period frames, but
\* for one where its count starts again.
SwingsEvenly == Goal!SwingsEvenly

\* Three frames with calls after a gap, TestSkill has forgotten what it kept
\* before it, whichever robots called.
HistoryHeals == Test!HistoryHeals

\* TestSkill then leads a ball slower than 3 m/s by at most 6 mm.
FollowsBall == Test!FollowsBall

\* Merging intervals never invalidates a direction that no obstacle covers.
NeverOverblocks == Plan!NeverOverblocks

\* While the obstacles leave a gap, setInvalid loses none of what they cover.
GapCoverExact == Plan!GapCoverExact

\* While the obstacles leave a gap, no clear direction is nearer than the one plan
\* takes, which with up to three of them is never into an obstacle.
TakesNearestClear == followed = "LocalAvoidance" => Plan!TakesNearestClear

\* The comment of intersection.cpp:185: setInvalid invalidates the smaller of the
\* two sectors.
SmallerSector == Plan!SmallerSector

\* The comment of skillSet.cpp:156: a robot the destination is close to is not
\* added as an obstacle.
DestinationIsFree == Go!DestinationIsFree
=============================================================================
