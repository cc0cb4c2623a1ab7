----------------------------- MODULE TCoverGoal -----------------------------
(***************************************************************************)
(* The tactic of Tactics/tCoverGoal.hpp for one robot.  It executes one    *)
(* skill a frame, but not every branch that chooses one assigns both the   *)
(* skill and its parameters: what a branch leaves alone is what an earlier *)
(* frame left in the members sID and sParam.  sParam is a union, so the    *)
(* point to go to and the wheel speeds of Velocity are the same memory.    *)
(***************************************************************************)
EXTENDS Tactic

VARIABLES
  charge,   \* called off at the head of a frame, before the only test of it
  sID,      \* the skill
  aim,      \* what sParam was last assigned for: "speeds" for Velocity,
            \* otherwise the reason for a point; "none" before the first
  pPoint    \* where the last frame predicted the ball

vars == <<state, charge, sID, aim, pPoint, sent, counter>>

-----------------------------------------------------------------------------
\* The factors of a prediction, in millionths, by the signed speed: a ball coming
\* toward our goal, however fast, has that of a slow one.
Factor(v) ==
  CASE v < 200  -> 12  [] v < 500  -> 15  [] v < 800  -> 18  [] v < 1200 -> 26
    [] v < 1400 -> 45  [] v < 1800 -> 65  [] v < 2200 -> 90  [] v < 2600 -> 130
    [] v < 3000 -> 150 [] v < 3400 -> 160 [] v < 3800 -> 180 [] OTHER    -> 200

\* from + v * factor * d, converted to an int.
Ahead(from, v, d) ==
  LET n == v * Factor(v) * d
      q == from + n \div 1000000
  IN IF q >= 0 \/ n % 1000000 = 0 THEN q ELSE q + 1

\* The distance of two points in whole millimetres, found by its hundreds first.
Distances(p, q) ==
  LET hundreds == {h \in 0 .. (AbsOf(p.x - q.x) + AbsOf(p.y - q.y)) \div 100 :
                     ~Within(p, q, 100 * h) /\ Within(p, q, 100 * h + 100)}
  IN {d \in UNION {100 * h .. 100 * h + 99 : h \in hundreds} :
        ~Within(p, q, d) /\ Within(p, q, d + 1)}

\* Where the ball is predicted: the further ahead, the further the robot is from
\* it.  Less than a millimetre of that distance is left out.
Predictions ==
  [s \in Beliefs |->
    {At(Ahead(s.ball.x, s.vel.x, d), Ahead(s.ball.y, s.vel.y, d)) :
       d \in Distances(Self(s), s.ball)}]

clearing_chance(s) == s.ball.x < 0

isPossible(s) == clearing_chance(s) /\ ~Within(s.ball, Self(s), 10 * BOT_RADIUS)

\* Level with the goalkeeper, or behind it.
BesideKeeper(s) == s.home[0].x + BOT_RADIUS > Self(s).x

\* The edge of their goal area.
OppArea == HALF_FIELD_MAXX - DBOX_WIDTH - BOT_RADIUS

-----------------------------------------------------------------------------
ExecuteSkill(skill, role) ==
  sID' = skill /\ aim' = role /\ sent' = <<Do(skill, role)>>

\* Mutant: the guard of the goalkeeper comes before the other rules only for a
\* robot that a branch has sent to a point.
FinishPoint(s, skill, role) ==
  IF InOurBox(s.ball) THEN ExecuteSkill("GoToPoint", "box")
  ELSE IF BesideKeeper(s) /\ skill = "GoToPoint" THEN ExecuteSkill("GoToPoint", "guard")
  ELSE ExecuteSkill(skill, role)

\* The end of execute: the rules that may overrule what a branch has chosen.
\* The point alone may also be moved to the edge of our goal area, whoever has
\* chosen it.
Finish(s, skill, role) ==
  IF InOurBox(s.ball) THEN ExecuteSkill("GoToPoint", "box")
  ELSE IF BesideKeeper(s) THEN ExecuteSkill("GoToPoint", "guard")
  ELSE ExecuteSkill(skill, role)

\* A charge is called off at the head of the frame when the ball leaves our half.
StillCharges(s) == charge /\ clearing_chance(s)

\* In front of the ball in our half: TestSkill has no parameters.
Pressed(s) == Self(s).x > s.ball.x /\ Self(s).x < 0

Press(s) ==
  /\ Pressed(s)
  /\ charge' = StillCharges(s)
  /\ Finish(s, "TestSkill", aim)

\* The ball in their half.  Beyond OppArea the parameters are assigned and the
\* skill is not; exactly there, neither.
CoverHome(s, p) ==
  /\ ~Pressed(s) /\ ~StillCharges(s) /\ ~clearing_chance(s)
  /\ charge' = FALSE
  /\ Finish(s, IF p.x < OppArea THEN "GoToPoint" ELSE sID,
               CASE p.x > OppArea -> "home"
                 [] p.x < OppArea -> "cover"
                 [] p.x = OppArea -> aim)

\* The points of our half in which the robot is given a point to go to: those
\* it can come to from behind the ball, those it can turn round to, and those
\* beside the goal.
ComesFromBehind(s, p) ==
  p.x >= Self(s).x /\ p.x >= -HALF_FIELD_MAXX + (3 * DBOX_WIDTH) \div 2

TurnsRound(s, p) ==
  p.x <= Self(s).x /\ p.x >= -HALF_FIELD_MAXX + (6 * DBOX_WIDTH) \div 5

BesideGoal(p) ==
  /\ p.x <= -HALF_FIELD_MAXX + GOAL_DEPTH + 2 * BOT_RADIUS
  /\ AbsOf(p.y) >= OUR_GOAL_MAXY + (9 * BOT_RADIUS) \div 5

\* Mutant: no point for a ball behind the robot.
GivesPointAhead(s, p) == ComesFromBehind(s, p)

GivesPoint(s, p) == ComesFromBehind(s, p) \/ TurnsRound(s, p) \/ BesideGoal(p)

\* The ball in our half and predicted to stay there; near the ball any point
\* will do.
Chase(s, p) ==
  /\ ~Pressed(s) /\ clearing_chance(s) /\ p.x < 0
  /\ charge' = charge
  /\ Finish(s, "GoToPoint",
            IF Within(s.ball, Self(s), 2 * BOT_BALL_THRESH) \/ GivesPoint(s, p)
            THEN "chase" ELSE aim)

\* The robot stands in the lane of the goal with the ball beside or before it,
\* and is not in the goal behind the goalkeeper.
StandsInLane(s, p) ==
  /\ p.x <= Self(s).x + 100 /\ Within(s.ball, Self(s), 3 * BOT_BALL_THRESH)
  /\ AbsOf(Self(s).y) < OUR_GOAL_MAXY + BOT_RADIUS
  /\ ~(BesideKeeper(s) /\ Self(s).x < -HALF_FIELD_MAXX + GOAL_DEPTH)

\* Mutant: the return after Velocity is lost.
LeaveNoReturn(s, p) ==
  /\ ~Pressed(s) /\ clearing_chance(s) /\ p.x >= 0
  /\ charge' = (charge \/ isPossible(s))
  /\ sID' = "GoToPoint" /\ aim' = "post"
  /\ sent' = IF StandsInLane(s, p)
             THEN <<Do("Velocity", "speeds"), GoToPoint("post")>>
             ELSE <<GoToPoint("post")>>

\* The ball in our half and predicted to leave it: along the goal line at full
\* speed, which the rules of Finish do not overrule, or to a point before our
\* goal.
Leave(s, p) ==
  /\ ~Pressed(s) /\ clearing_chance(s) /\ p.x >= 0
  /\ charge' = (charge \/ isPossible(s))
  /\ \/ StandsInLane(s, p) /\ ExecuteSkill("Velocity", "speeds")
     \/ ~StandsInLane(s, p) /\ Finish(s, "GoToPoint", "post")

Execute(s, p) ==
  Press(s) \/ CoverHome(s, p) \/ Chase(s, p) \/ Leave(s, p)

Init ==
  /\ state \in Beliefs
  /\ charge = FALSE
  /\ sID = "Stop"
  /\ aim = "none"
  /\ pPoint = state.ball
  /\ sent = Silence
  /\ counter = 0

Next ==
  /\ Tick
  /\ state' \in Beliefs
  /\ pPoint' \in Predictions[state']
  /\ Execute(state', pPoint')

Spec == Init /\ [][Next]_vars

-----------------------------------------------------------------------------
(* Properties *)

TypeOK ==
  /\ state \in Beliefs
  /\ charge \in BOOLEAN
  /\ sID \in {"Stop", "GoToPoint", "Velocity", "TestSkill"}
  /\ aim \in {"none", "home", "cover", "chase", "speeds", "post", "guard", "box"}
  /\ pPoint \in Point
  /\ sent \in {Silence} \cup {<<c>> : c \in Command}
  /\ counter \in {0, 1}

\* What the robot is told fits where the ball is and will be.
FitsBall(c) ==
  \/ c.skill = "TestSkill"
  \/ c = GoToPoint("box") /\ InOurBox(state.ball)
  \/ c = GoToPoint("guard") /\ BesideKeeper(state)
  \/ c = GoToPoint("cover") /\ state.ball.x >= 0
  \/ c = GoToPoint("chase") /\ state.ball.x < 0 /\ pPoint.x < 0
  \/ c \in {GoToPoint("post"), Do("Velocity", "speeds")} /\ state.ball.x < 0 /\ pPoint.x >= 0

\* A skill or a point of an earlier frame is used only with the ball predicted
\* at one of the ends of the field: any frame with a prediction between the two
\* lines assigns both anew, whatever frames came before it.
StaleOnlyAtEnds ==
  sent # Silence =>
    \/ FitsBall(Final(sent))
    \/ state.ball.x >= 0 /\ pPoint.x >= OppArea
    \/ state.ball.x < 0 /\ pPoint.x < -HALF_FIELD_MAXX + (3 * DBOX_WIDTH) \div 2

\* tCoverGoal.hpp:616, "Defender will not disturb GoalKeeper from the back":
\* level with the goalkeeper or behind it the robot is sent away, except for
\* the early return, which takes a goalkeeper who has left our goal area.
GuardHolds ==
  sent # Silence /\ BesideKeeper(state) /\ Final(sent).role \notin {"guard", "box"} =>
    /\ Final(sent).skill = "Velocity"
    /\ state.home[0].x > -HALF_FIELD_MAXX + GOAL_DEPTH + DBOX_WIDTH

\* tactic.h:169, sParam holds the "Parameters of the selected skill to be
\* executed": wheel speeds for Velocity, a point for GoToPoint.
ParamsFitSkill ==
  sent # Silence =>
    /\ Final(sent).skill = "Velocity" => Final(sent).role = "speeds"
    /\ Final(sent).skill = "GoToPoint" => Final(sent).role # "speeds"
=============================================================================
