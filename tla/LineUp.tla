------------------------------- MODULE LineUp -------------------------------
(***************************************************************************)
(* Which tactic or skill Tester::run (Core/tester.hpp) gives robots 1, 2   *)
(* and 4 in a frame, as far as it depends on the belief of the frame       *)
(* alone, and with that which robots execute TestSkill in it.              *)
(***************************************************************************)
EXTENDS DirectPlay

\* Robot i is nearer to the ball than robot j by the distances the code
\* compares, which it has truncated to whole millimetres: there is a square in
\* between.  Squares up to that of 12000 are less than 24000 apart.
Closer(s, i, j) ==
  LET di == DistSq(s.home[i], s.ball)
      dj == DistSq(s.home[j], s.ball)
  IN di < dj /\ \/ dj - di >= 24000
                \/ \E n \in 1 .. 12000 : di < n * n /\ n * n <= dj

\* Along a side wall.
Wide(p) == 2 * AbsOf(p.y) > 2 * HALF_FIELD_MAXY - 3 * BOT_RADIUS

\* Robot 1 leaves the defence: the ball is at a wall or at their goal line, or
\* the robot is the nearest to it, and behind it.
GoesForward(s) ==
  \/ Wide(s.ball) \/ s.ball.x > HALF_FIELD_MAXX - GOAL_DEPTH - 2 * BOT_RADIUS
  \/ s.ourNear = 1 /\ s.ball.x > s.home[1].x

\* A robot before the ball, away from both goals, circles it.
Circles(s, b) ==
  /\ s.home[b].x > s.ball.x
  /\ s.home[b].x > -HALF_FIELD_MAXX + GOAL_DEPTH + 3 * BOT_BALL_THRESH
  /\ s.home[b].x < HALF_FIELD_MAXX - GOAL_DEPTH - 2 * BOT_BALL_THRESH

\* What TCoverGoal makes of the frame: robot 1, before the ball in our half,
\* executes TestSkill, unless a rule at the end of execute sends it elsewhere.
Presses(s) ==
  /\ ~GoesForward(s)
  /\ s.home[1].x > s.ball.x /\ s.home[1].x < 0
  /\ ~InOurBox(s.ball) /\ s.home[1].x >= s.home[0].x + BOT_RADIUS

\* The one of robots 2 and 4 that is nearer to the ball.
Leader(s) == IF Closer(s, 2, 4) THEN {2} ELSE IF Closer(s, 4, 2) THEN {4} ELSE {}

\* The robots that execute TestSkill, in order: the defender, then the leader.
Callers(s) ==
  (IF Presses(s) THEN <<1>> ELSE <<>>)
    \o (IF \E b \in Leader(s) : Circles(s, b)
       THEN <<CHOOSE b \in Leader(s) : TRUE>> ELSE <<>>)
=============================================================================
