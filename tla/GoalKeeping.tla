---------------------------- MODULE GoalKeeping ----------------------------
(***************************************************************************)
(* Where SkillSet::goalKeeping (Skills/sGoalKeeping.cpp) sends the         *)
(* goalkeeper: to the point of its line where the ball would cross it, to  *)
(* a post, or, with the ball in our half but far out to a side, to and fro *)
(* by a count of frames that survives between them.  DirectPlay gives the  *)
(* commands of the frame; the first is to go to this point.                *)
(***************************************************************************)
EXTENDS DirectPlay

CONSTANTS
  Views,   \* the scenes a frame may show
  Period,  \* 15: the frames the goalkeeper stays on a side
  Cycle    \* 1500: where the count of frames starts again

VARIABLES
  view,         \* the belief of the last frame
  point,        \* where it sent the goalkeeper
  saves,        \* the commands of that frame
  ticks, flag,  \* the static variables of oscillation
  held          \* the frames that came to the same flag since it changed

vars == <<view, point, saves, ticks, flag, held>>

-----------------------------------------------------------------------------
\* Where the goalkeeper stands, and where it stands inside the goal.
LINE   == -HALF_FIELD_MAXX + GOAL_DEPTH + (7 * BOT_RADIUS) \div 10
INSIDE == -HALF_FIELD_MAXX + GOAL_DEPTH - BOT_RADIUS \div 2

\* n / d as the code's conversion to int leaves it.
Truncated(n, d) == SGN(n) * SGN(d) * (AbsOf(n) \div AbsOf(d))

\* Where the ball's way meets the line at x; a slow ball comes straight.
MeetsAt(s, x) ==
  IF AbsOf(s.vel.x) < 10 THEN s.ball.y
  ELSE Truncated(s.ball.y * s.vel.x - (s.ball.x - x) * s.vel.y, s.vel.x)

\* Mutant: the half below the middle is not kept between the posts.
BetweenPostsAbove(y, margin) ==
  IF y >= OUR_GOAL_MAXY THEN OUR_GOAL_MAXY - margin ELSE y

BetweenPosts(y, margin) ==
  IF y >= OUR_GOAL_MAXY THEN OUR_GOAL_MAXY - margin
  ELSE IF y <= OUR_GOAL_MINY THEN OUR_GOAL_MINY + margin ELSE y

\* The ball in their half: its way is followed to the edge of our goal area,
\* 597 mm before the line the goalkeeper stands on.
FarPoint(s) ==
  LET y == MeetsAt(s, -HALF_FIELD_MAXX + DBOX_WIDTH)
  IN At(LINE, BetweenPosts(IF AbsOf(y) > OUR_GOAL_MAXY THEN s.ball.y ELSE y, 60))

\* The ball in our half and not far out: its way is followed to the line; a
\* ball from outside the post that would meet the line there is awaited inside.
NearPoint(s) ==
  LET y == MeetsAt(s, LINE)
      grazes == AbsOf(y) > OUR_GOAL_MAXY /\ AbsOf(y) < OUR_GOAL_MAXY + BOT_RADIUS \div 2
      outside == AbsOf(s.ball.y) > OUR_GOAL_MAXY
  IN IF grazes /\ outside THEN At(INSIDE, SGN(s.ball.y) * (OUR_GOAL_MAXY - 50))
     ELSE At(LINE, BetweenPosts(IF AbsOf(y) > OUR_GOAL_MAXY + BOT_RADIUS
                                THEN s.ball.y ELSE y, 50))

\* The ball in our half, far out to a side.
FarOut(s) ==
  /\ s.ball.x < 0 /\ ~InCorner(s)
  /\ AbsOf(s.ball.y) >= OUR_GOAL_MAXY + 4 * BOT_RADIUS

\* A robot's width to either side of the post.
SwingPoint(s, f) ==
  At(LINE, SGN(s.ball.y) * (OUR_GOAL_MAXY + BOT_RADIUS \div 2) + f * BOT_RADIUS)

Target(s, f) ==
  CASE s.ball.x >= 0 -> FarPoint(s)
    [] InCorner(s)   -> Post(s)
    [] FarOut(s)     -> SwingPoint(s, f)
    [] OTHER         -> NearPoint(s)

\* Mutant: the frame is counted before the test.
oscillationCountsFirst ==
  LET n == ticks + 1
  IN /\ flag' = IF n % Period = 0 THEN -flag ELSE flag
     /\ ticks' = IF n > Cycle THEN 0 ELSE n
     /\ held' = IF flag' = flag THEN held + 1 ELSE 1

\* The sides change at every multiple of Period; the count is set back after
\* Cycle, a multiple itself, so the sides change in two frames running there.
oscillation ==
  /\ flag' = IF ticks % Period = 0 THEN -flag ELSE flag
  /\ ticks' = IF ticks + 1 > Cycle THEN 0 ELSE ticks + 1
  /\ held' = IF flag' = flag THEN held + 1 ELSE 1

-----------------------------------------------------------------------------
Init ==
  /\ view = BeliefOf(CHOOSE s \in Views : TRUE)
  /\ point = At(LINE, 0) /\ saves = Silence
  /\ ticks = 0 /\ flag = 1 /\ held = 0

Frame(s) ==
  /\ view' = s
  /\ IF FarOut(s) THEN oscillation ELSE UNCHANGED <<ticks, flag, held>>
  /\ point' = IF AtPost(s) THEN point ELSE Target(s, flag')
  /\ saves' = goalKeeping(s)

Next == \E s \in Views : Frame(BeliefOf(s))

-----------------------------------------------------------------------------
(* Properties *)

\* The ball rolls into our goal no steeper than one to two.
Shot(s) ==
  /\ s.vel.x <= -10 /\ 2 * AbsOf(s.vel.y) <= -s.vel.x
  /\ s.ball.x > LINE
  /\ AbsOf(MeetsAt(s, -HALF_FIELD_MAXX + GOAL_DEPTH)) <= OUR_GOAL_MAXY

\* A shot, from whichever half, passes within the radius of a robot of the
\* point the goalkeeper is sent to, although the ball's way is followed to
\* three different lines and the point is then moved by four rules; unless the
\* ball is in a corner or far out, where its way is not looked at, or the
\* goalkeeper has a later command in that frame: to hit the ball or to clear it.
CoversTheShot ==
  Shot(view) /\ ~InCorner(view) /\ ~FarOut(view) /\ Len(saves) = 1 =>
    AbsOf(MeetsAt(view, point.x) - point.y) <= BOT_RADIUS

\* The goalkeeper never stays on a side for more than Period frames with the
\* ball far out, however they are broken up by others, nor for fewer, except
\* before its first frame of the count and after its last, where one side gets
\* a single frame.
SwingsEvenly ==
  [][/\ held' <= Period
     /\ flag' # flag => held = Period \/ ticks = 0]_vars
=============================================================================
