----------------------------- MODULE DirectPlay -----------------------------
(***************************************************************************)
(* The parts of the play that keep no state the other parts can tell: the  *)
(* goalkeeper (Skills/sGoalKeeping.cpp, all that the tactic of robot 0     *)
(* executes), the receiver of passes (Tactics/tReceiveBall.hpp, robot 3)   *)
(* and TestSkill (Skills/sTestSkill.cpp), which Tester::run executes for a *)
(* robot in front of the ball.  Each is given as the commands it sends in  *)
(* a frame, in order; FIELD_IS_INVERTED is false in the program.           *)
(***************************************************************************)
EXTENDS BallLocation, Commands

\* Close enough to hit the ball by turning.
InHittingReach(s, b) == Within(s.ball, s.home[b], (6 * BOT_BALL_THRESH) \div 5)

\* A robot turns on the spot to hit a ball beside it.
SpinAt(ball, p) == Do("Spin", IF ball.y > p.y THEN "cw" ELSE "ccw")

-----------------------------------------------------------------------------
(* The goalkeeper *)

\* The ball beside our goal, level with the goalkeeper's line.
InCorner(s) ==
  /\ s.ball.x > -HALF_FIELD_MAXX + GOAL_DEPTH - 5
  /\ s.ball.x < -HALF_FIELD_MAXX + GOAL_DEPTH + (17 * BOT_RADIUS) \div 10
  /\ AbsOf(s.ball.y) < HALF_FIELD_MAXY /\ AbsOf(s.ball.y) > OUR_GOAL_MAXY

\* Inside the goal by the post on the ball's side.
Post(s) ==
  At(-HALF_FIELD_MAXX + GOAL_DEPTH - BOT_RADIUS \div 2,
     IF s.ball.y > OUR_GOAL_MAXY THEN OUR_GOAL_MAXY - 50 ELSE OUR_GOAL_MINY + 50)

\* The goalkeeper only closes the angle at the post, and stays there.
HoldsPost(s) ==
  InCorner(s) /\ Within(s.away[s.oppNear], s.ball, 3 * BOT_BALL_THRESH)

AtPost(s) == HoldsPost(s) /\ ~Beyond(s.home[0], Post(s), BOT_BALL_THRESH)

\* An opponent in our half whose direction from the goalkeeper is within 45
\* degrees of the long axis, before the goalkeeper or behind it.
Facing(s) ==
  {i \in Bots :
     /\ s.away[i].x < -(HALF_FIELD_MAXX \div 2) + 2 * BOT_RADIUS
     /\ AbsOf(s.home[0].y - s.away[i].y) < AbsOf(s.home[0].x - s.away[i].x)}

\* The ball is before our goal and nobody could return the shot.
MayClear(s) ==
  /\ s.ball.x < -HALF_FIELD_MAXX + DBOX_WIDTH + (5 * BOT_RADIUS) \div 2
  /\ AbsOf(s.ball.y) < OUR_GOAL_MAXY + BOT_RADIUS \div 2
  /\ Facing(s) = {} /\ AbsOf(s.vel.y) < 900

\* Far out the goalkeeper goes home at once.
OutOfArea(s) == s.home[0].x > -HALF_FIELD_MAXX + DBOX_WIDTH + 2 * BOT_RADIUS

\* Mutant: the return comes after the test for an opponent, not inside it.
goalKeepingReturns(s) ==
  IF InCorner(s)
  THEN (IF Beyond(s.home[0], Post(s), BOT_BALL_THRESH) THEN <<GoToPoint("post")>> ELSE Silence)
  ELSE <<GoToPoint("line")>>

goalKeeping(s) ==
  IF HoldsPost(s) THEN (IF AtPost(s) THEN Silence ELSE <<GoToPoint("post")>>)
  ELSE <<GoToPoint("line")>>
       \o (IF InHittingReach(s, 0) THEN <<SpinAt(s.ball, s.home[0])>> ELSE <<>>)
       \o (IF MayClear(s)
           THEN <<GoToPoint("clear")>>
                \o (IF OutOfArea(s) THEN <<GoToPoint("line")>> ELSE <<>>)
           ELSE <<>>)

-----------------------------------------------------------------------------
(* The receiver *)

\* The point to wait for a pass at; GoToPointDW, chosen for some of them, is
\* never run.
Wait == GoToPoint("wait")

ReceiveBall(s, b) ==
  IF InHittingReach(s, b) /\ s.ball.x > s.home[b].x + BOT_RADIUS \div 10
  THEN <<SpinAt(s.ball, s.home[b])>>
  ELSE <<Wait>>

-----------------------------------------------------------------------------
(* TestSkill *)

\* The robot comes to the ball from far in front of it or from behind it;
\* otherwise it circles it.
ComesTo(s, b) ==
  \/ Beyond(s.ball, s.home[b], 2 * BOT_BALL_THRESH) /\ s.home[b].x > s.ball.x
  \/ s.home[b].x < s.ball.x - (2 * BOT_RADIUS) \div 5

\* The ball beside the robot, or before it.
HitsFromBehind(s, b) ==
  InHittingReach(s, b) /\ s.home[b].x < s.ball.x + BOT_BALL_THRESH \div 5

\* While the robot comes to the ball a spin would need it both farther than
\* twice BOT_BALL_THRESH, or behind the ball, and before it in reach: the code
\* has that case, and nothing reaches it.
testSkill(s, b) ==
  IF ComesTo(s, b) THEN <<GoToPoint("ball")>>
  ELSE <<Do("Velocity", "circle")>>
       \o (IF HitsFromBehind(s, b) THEN <<SpinAt(s.ball, s.home[b])>> ELSE <<>>)
=============================================================================
