---------------------------- MODULE BeliefState ----------------------------
(***************************************************************************)
(* The belief of Core/beliefState.cpp.  Strategy (Strategy.cpp) fills it   *)
(* from the simulator's environment once per frame and calls               *)
(* BeliefState::update, which recomputes the predicates the tactics        *)
(* branch on and keeps the score.  One frame is one step, Update(s), for   *)
(* the scene s the filter produced.                                        *)
(***************************************************************************)
EXTENDS BallLocation

CONSTANTS
  Scenes,    \* the scenes the simulator may present
  MaxGoals   \* bound on each goal counter; the code has none

ASSUME ScenesAssumption == Scenes \subseteq Scene
ASSUME GoalsAssumption == MaxGoals \in Nat

VARIABLES
  scene,                 \* the scene of the last frame
  ourBotNearestToBall, oppBotNearestToBall,
  owner,                 \* pr_looseBall, pr_ourBall, pr_oppBall as one value
  pr_ballOurSide, pr_ballOppSide,
  ourGoalCount, oppGoalCount,
  ballOppGoal, ballOurGoal

nearest == <<ourBotNearestToBall, oppBotNearestToBall, owner>>
sides   == <<pr_ballOurSide, pr_ballOppSide>>
score   == <<ourGoalCount, oppGoalCount, ballOppGoal, ballOurGoal>>
vars    == <<scene, nearest, sides, score>>

-----------------------------------------------------------------------------
(* computeBallLocation *)

ComputeBallLocation(s) ==
  /\ ourBotNearestToBall' = OurNearest(s)
  /\ oppBotNearestToBall' = OppNearest(s)
  /\ owner' = OwnerIn(s)

-----------------------------------------------------------------------------
(* computeBallOurSide, then computeBallOppSide *)

\* No code assigns fieldCentre or opp_goalpoints: both keep the value of the
\* default constructor.
fieldCentre == At(-INF, -INF)
oppGoalMid  == At(-INF, -INF)

\* computeBallOurSide comes first and may clear the flag of the other side.
OurSideTaken(s, own) ==
  s.ball.x < fieldCentre.x - MID_FIELD_THRESH /\ own = "opp"

OppSideTaken(s, own) ==
  \/ s.ball.x > fieldCentre.x + MID_FIELD_THRESH /\ own = "our"
  \/ s.vel.x * (oppGoalMid.x - fieldCentre.x) > 0

ComputeBallSides(s) ==
  /\ pr_ballOurSide' = (pr_ballOurSide \/ OurSideTaken(s, owner'))
  /\ pr_ballOppSide' =
       IF s.ball.x > 0 THEN OppSideTaken(s, owner')
       ELSE pr_ballOppSide /\ ~OurSideTaken(s, owner')

-----------------------------------------------------------------------------
(* checkForGoal *)

InOppGoal(p) ==
  /\ p.x > HALF_FIELD_MAXX - GOAL_DEPTH
  /\ OPP_GOAL_MINY < p.y /\ p.y < OPP_GOAL_MAXY

InOurGoal(p) ==
  /\ p.x < -HALF_FIELD_MAXX + GOAL_DEPTH
  /\ OUR_GOAL_MINY < p.y /\ p.y < OUR_GOAL_MAXY

\* Mutant: the release lines are swapped.
ReleaseLatchAcross(p) ==
  /\ ballOppGoal \/ ballOurGoal
  /\ ballOppGoal' = (ballOppGoal /\ ~(p.x < -(HALF_FIELD_MAXX \div 2)))
  /\ ballOurGoal' = (ballOurGoal /\ ~(p.x > HALF_FIELD_MAXX \div 2))
  /\ UNCHANGED <<ourGoalCount, oppGoalCount>>

\* A latched goal is only released, and that is all such a frame does.
ReleaseLatch(p) ==
  /\ ballOppGoal \/ ballOurGoal
  /\ IF ballOppGoal
       THEN /\ ballOppGoal' = ~(p.x < HALF_FIELD_MAXX \div 2)
            /\ UNCHANGED ballOurGoal
       ELSE /\ ballOurGoal' = ~(p.x > -(HALF_FIELD_MAXX \div 2))
            /\ UNCHANGED ballOppGoal
  /\ UNCHANGED <<ourGoalCount, oppGoalCount>>

\* Mutant: the latch is not set.
CountOurGoalUnlatched(p) ==
  /\ ~ballOppGoal /\ ~ballOurGoal
  /\ InOppGoal(p)
  /\ ourGoalCount < MaxGoals
  /\ ourGoalCount' = ourGoalCount + 1
  /\ UNCHANGED <<oppGoalCount, ballOppGoal, ballOurGoal>>

CountOurGoal(p) ==
  /\ ~ballOppGoal /\ ~ballOurGoal
  /\ InOppGoal(p)
  /\ ourGoalCount < MaxGoals
  /\ ourGoalCount' = ourGoalCount + 1
  /\ ballOppGoal' = TRUE
  /\ UNCHANGED <<oppGoalCount, ballOurGoal>>

\* Mutant: the latch of the other goal is set.
CountOppGoalCrossed(p) ==
  /\ ~ballOppGoal /\ ~ballOurGoal
  /\ InOurGoal(p)
  /\ oppGoalCount < MaxGoals
  /\ oppGoalCount' = oppGoalCount + 1
  /\ ballOppGoal' = TRUE
  /\ UNCHANGED <<ourGoalCount, ballOurGoal>>

CountOppGoal(p) ==
  /\ ~ballOppGoal /\ ~ballOurGoal
  /\ InOurGoal(p)
  /\ oppGoalCount < MaxGoals
  /\ oppGoalCount' = oppGoalCount + 1
  /\ ballOurGoal' = TRUE
  /\ UNCHANGED <<ourGoalCount, ballOppGoal>>

\* The ball is in play, or out of it beside a goal: both latches stay down.
NoGoal(p) ==
  /\ ~ballOppGoal /\ ~ballOurGoal
  /\ ~InOppGoal(p) /\ ~InOurGoal(p)
  /\ UNCHANGED score

CheckForGoal(p) ==
  ReleaseLatch(p) \/ CountOurGoal(p) \/ CountOppGoal(p) \/ NoGoal(p)

-----------------------------------------------------------------------------
(***************************************************************************)
(* BeliefState::update.  computeBallInDBox and computeBallInStrips are left *)
(* out: they set flags that are functions of the scene and that no code    *)
(* reads.  The belief starts with everything cleared.                      *)
(***************************************************************************)
Update(s) ==
  /\ scene' = s
  /\ ComputeBallLocation(s)
  /\ ComputeBallSides(s)
  /\ CheckForGoal(s.ball)

Init ==
  /\ scene \in Scenes
  /\ ourBotNearestToBall = 0 /\ oppBotNearestToBall = 0 /\ owner = "loose"
  /\ pr_ballOurSide = FALSE /\ pr_ballOppSide = FALSE
  /\ ourGoalCount = 0 /\ oppGoalCount = 0
  /\ ballOppGoal = FALSE /\ ballOurGoal = FALSE

Next == \E s \in Scenes : Update(s)

Spec == Init /\ [][Next]_vars

-----------------------------------------------------------------------------
(* Properties *)

\* Every belief the frames build has the shape the tactics rely on.
TypeOK ==
  /\ scene \in Scenes
  /\ ourBotNearestToBall \in Bots /\ oppBotNearestToBall \in Bots
  /\ owner \in {"loose", "our", "opp"}
  /\ pr_ballOurSide \in BOOLEAN /\ pr_ballOppSide \in BOOLEAN
  /\ ourGoalCount \in Nat /\ oppGoalCount \in Nat
  /\ ballOppGoal \in BOOLEAN /\ ballOurGoal \in BOOLEAN

\* A goal is latched only while the ball has not come back over the line a
\* quarter of the field from that goal, so never for both goals at once
\* (checkForGoal holds its latches across any number of frames).
LatchFollowsBall ==
  /\ ballOppGoal => scene.ball.x >= HALF_FIELD_MAXX \div 2
  /\ ballOurGoal => scene.ball.x <= -(HALF_FIELD_MAXX \div 2)

\* checkForGoal keeps the score as the abstract board does: a goal is counted
\* once however many frames the ball stays in it or returns to it, and never
\* with a latch still set.
Board == INSTANCE ScoreBoard WITH
  our <- ourGoalCount, opp <- oppGoalCount,
  armed <- ~(ballOppGoal \/ ballOurGoal)

KeepsTheScore == Board!Spec

\* A goal can be missed for one frame only, the frame that releases the latch
\* of the other goal: a ball seen twice running in a goal has been counted.
SecondFrameCounts ==
  [][/\ InOppGoal(scene.ball) /\ InOppGoal(scene'.ball) => ballOppGoal'
     /\ InOurGoal(scene.ball) /\ InOurGoal(scene'.ball) => ballOurGoal']_vars

\* The scans of computeBallLocation stop at the first robot that has the ball
\* (lines 91-95, 108-112), so the "nearest" robot may not be the nearest; but
\* then it is within reach of the ball, and the ball belongs to its team
\* unless the other team has it too.
NearestOrInReach ==
  [][LET ourD == DistSq(scene'.ball, scene'.home[ourBotNearestToBall'])
         oppD == DistSq(scene'.ball, scene'.away[oppBotNearestToBall'])
     IN /\ \/ \A i \in Bots : ourD <= DistSq(scene'.ball, scene'.home[i])
           \/ /\ ourD < BOT_BALL_THRESH_FOR_PR * BOT_BALL_THRESH_FOR_PR
              /\ owner' # "loose"
        /\ \/ \A i \in Bots : oppD <= DistSq(scene'.ball, scene'.away[i])
           \/ oppD < BOT_BALL_THRESH * BOT_BALL_THRESH /\ owner' = "opp"]_vars
=============================================================================
