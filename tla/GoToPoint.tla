----------------------------- MODULE GoToPoint -----------------------------
(***************************************************************************)
(* The skill GoToPoint: SkillSet::_goToPoint (Skills/skillSet.cpp) and     *)
(* SkillSet::turnToAngle (Skills/sTurnToAngle.cpp), to which it leaves a   *)
(* robot that has come near its destination.  A destination further away   *)
(* is left to LocalAvoidance, with the robots of both teams that are in    *)
(* the way; what it makes of them is the module of that name.              *)
(***************************************************************************)
EXTENDS Field, Angles

CONSTANTS
  botID,   \* the robot
  Scenes,  \* where the ball and the robots may be
  Params   \* what the robot may be told: dest, finalslope, finalVelocity

VARIABLES
  scene, heading,  \* where the robots are, and the way the robot faces
  param,           \* what it was told last
  obstacles,       \* the robots the planner was given last
  wheels,          \* the two wheel speeds that came to, or Planned
  counter          \* the parity of the frame counter of Strategy.cpp

vars == <<scene, heading, param, obstacles, wheels, counter>>

COLLISION_DIST == 7 * BOT_RADIUS

\* 0.1 rad and half of it, in parts of the half turn, rounded down.
DRIBBLER_BALL_ANGLE_RANGE == (10 * PI) \div 314
HalfRange                 == (5 * PI) \div 314

-----------------------------------------------------------------------------
(* The obstacles: robots in reach, but for those around the ball *)

InTheWay(s, p) ==
  Within(s.home[botID], p, COLLISION_DIST) /\ Beyond(s.ball, p, 3 * BOT_RADIUS)

HomeObstacles(s, dest) ==
  {s.home[i] : i \in {j \in Bots \ {botID} :
     InTheWay(s, s.home[j]) /\ Beyond(dest, s.home[j], BOT_RADIUS)}}

\* Mutant: the ball is looked for near our robot of the same number.
AwayObstaclesMixed(s, dest) ==
  {s.away[i] : i \in {j \in Bots :
     /\ Within(s.home[botID], s.away[j], COLLISION_DIST)
     /\ Beyond(s.ball, s.home[j], 3 * BOT_RADIUS)
     /\ Beyond(dest, s.home[j], BOT_RADIUS)}}

\* An opponent is left out if our robot of the same number is near dest.
AwayObstacles(s, dest) ==
  {s.away[i] : i \in {j \in Bots :
     InTheWay(s, s.away[j]) /\ Beyond(dest, s.home[j], BOT_RADIUS)}}

-----------------------------------------------------------------------------
(* turnToAngle *)

\* Either end of the robot may come to face the slope.
TurnLeft(h, slope) ==
  LET turn == normalizeAngle(slope - h)
  IN IF 2 * turn > PI THEN turn - PI ELSE IF 2 * turn < -PI THEN turn + PI ELSE turn

\* Mutant: the wheel speeds the other way round, as in the other #if branch.
turnToAngleSwapped(h, slope) ==
  LET turn == TurnLeft(h, slope)
  IN IF AbsOf(turn) > HalfRange THEN <<SGN(turn), -SGN(turn)>> ELSE <<0, 0>>

\* The wheel speeds are proportional to the turn; their size is left out.
turnToAngle(h, slope) ==
  LET turn == TurnLeft(h, slope)
  IN IF AbsOf(turn) > HalfRange THEN <<-SGN(turn), SGN(turn)>> ELSE <<0, 0>>

-----------------------------------------------------------------------------
(* _goToPoint *)

firaNormalizeAngle(a) ==
  LET turn == normalizeAngle(a)
  IN IF 2 * turn > PI THEN turn - PI ELSE IF 2 * turn <= -PI THEN turn + PI ELSE turn

Aligned(h, slope) ==
  AbsOf(firaNormalizeAngle(h - slope)) <= DRIBBLER_BALL_ANGLE_RANGE

\* LocalAvoidance chooses the wheel speeds.
Planned == <<>>

goToPoint(s, h, p) ==
  IF Within(p.dest, s.home[botID], BOT_POINT_THRESH)
    THEN /\ obstacles' = {}
         /\ wheels' = IF Aligned(h, p.finalslope)
                        THEN <<p.finalVelocity, p.finalVelocity>>
                        ELSE turnToAngle(h, p.finalslope)
    ELSE /\ obstacles' = HomeObstacles(s, p.dest) \cup AwayObstacles(s, p.dest)
         /\ wheels' = Planned

-----------------------------------------------------------------------------
(***************************************************************************)
(* Between two frames the simulator turns the robot the way of its faster  *)
(* wheel, by one or two parts of the half turn; a planned way may leave it *)
(* facing any way.                                                         *)
(***************************************************************************)
TurnedTo ==
  IF wheels = Planned THEN Directions
  ELSE {normalizeAngle(heading + k * SGN(wheels[2] - wheels[1])) : k \in {1, 2}}

Init ==
  /\ scene \in Scenes /\ heading \in Directions /\ param \in Params
  /\ obstacles = {} /\ wheels = <<0, 0>> /\ counter = 0

Frame(s, h, p) ==
  /\ scene' = s /\ heading' = h /\ param' = p
  /\ goToPoint(s, h, p)

Tick == counter' = 1 - counter

Next == Tick /\ \E s \in Scenes, h \in TurnedTo, p \in Params : Frame(s, h, p)

-----------------------------------------------------------------------------
(* Properties *)

Arrives(p) == \A s \in Scenes : Within(p.dest, s.home[botID], BOT_POINT_THRESH)

Facing(slope) == {h \in Directions : Aligned(h, slope)}

\* A robot that is kept near its destination and told to stop there does stop,
\* facing the slope with either end: turnToAngle, which has its own folding of
\* the turn and its own threshold, always leaves it where _goToPoint stops it.
TurnSettles ==
  \A p \in Params :
    Arrives(p) /\ p.finalVelocity = 0 =>
      (<>[](param = p) => <>[](wheels = <<0, 0>> /\ heading \in Facing(p.finalslope)))

\* A robot that goes for the ball is never made to avoid a robot at the ball,
\* of either team: what _goToPoint leaves out around the ball covers what it
\* leaves out around the destination.
BallStaysReachable ==
  \A o \in obstacles :
    Within(param.dest, o, BOT_RADIUS) => Beyond(param.dest, scene.ball, 2 * BOT_RADIUS)

\* The comment of line 156: a robot the destination is close to is not added
\* as an obstacle.
DestinationIsFree ==
  \A o \in obstacles : Beyond(param.dest, o, BOT_RADIUS)
=============================================================================
