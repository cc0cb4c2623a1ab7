-------------------------- MODULE TCoverGoalProofs --------------------------
(***************************************************************************)
(* Proofs about TCoverGoal for every robot and every set of beliefs: its   *)
(* type invariant, where stale skills and points can be used, and that the *)
(* goalkeeper is given way.                                                *)
(***************************************************************************)
EXTENDS TCoverGoal, TLAPS

Skill == {"Stop", "GoToPoint", "Velocity", "TestSkill"}

Aim == {"none", "home", "cover", "chase", "speeds", "post", "guard", "box"}

-----------------------------------------------------------------------------
(* One frame *)

\* The coordinates that decisions depend on are integers.
LEMMA BeliefType ==
  ASSUME NEW s \in Beliefs
  PROVE  /\ s.ball.x \in Int /\ s.ball.y \in Int
         /\ Self(s).x \in Int /\ Self(s).y \in Int /\ s.home[0].x \in Int
<1>1. s \in Belief /\ botID \in Bots /\ 0 \in Bots
  BY TacticAssumption DEF Bots
<1>2. s.ball \in Point /\ s.home[botID] \in Point /\ s.home[0] \in Point
  BY <1>1 DEF Belief
<1> QED
  BY <1>2 DEF Point, Self

\* A coordinate moved by whole millimetres stays an integer.
LEMMA AheadType ==
  ASSUME NEW from \in Int, NEW v \in Int, NEW d \in Int
  PROVE  Ahead(from, v, d) \in Int
<1>1. Factor(v) \in Int
  BY DEF Factor
<1>2. v * Factor(v) * d \in Int
  BY <1>1
<1>3. \A n \in Int : n \div 1000000 \in Int
  OBVIOUS
<1> HIDE DEF Factor
<1> QED
  BY <1>2, <1>3 DEF Ahead

\* So the coordinates of a prediction are integers too.
LEMMA PredictionType ==
  ASSUME NEW s \in Beliefs, NEW p \in Predictions[s]
  PROVE  p \in Point /\ p.x \in Int
<1>1. s \in Belief
  BY TacticAssumption
<1>2. s.ball.x \in Int /\ s.ball.y \in Int /\ s.vel.x \in Int /\ s.vel.y \in Int
  BY <1>1 DEF Belief, Point
<1>3. PICK d \in Distances(Self(s), s.ball) :
        p = At(Ahead(s.ball.x, s.vel.x, d), Ahead(s.ball.y, s.vel.y, d))
  BY DEF Predictions
<1>4. d \in Int
  BY <1>3 DEF Distances
<1> QED
  BY <1>2, <1>3, <1>4, AheadType DEF At, Point

\* A frame that executes a skill sends its command and no other.
LEMMA ExecutesOne ==
  ASSUME NEW skill \in Skill, NEW role \in Aim, ExecuteSkill(skill, role)
  PROVE  /\ sID' \in Skill /\ aim' \in Aim
         /\ sent' = <<Do(skill, role)>> /\ Do(skill, role) \in Command
         /\ sent' # Silence /\ Final(sent') = Do(skill, role)
BY DEF ExecuteSkill, Skill, Aim, Do, Command, Silence, Final

\* What the rules at the end of execute make of a branch's choice.
LEMMA FinishEffect ==
  ASSUME NEW s, NEW skill \in Skill, NEW role \in Aim, Finish(s, skill, role)
  PROVE  /\ sID' \in Skill /\ aim' \in Aim
         /\ \E c \in Command :
              /\ sent' = <<c>> /\ sent' # Silence /\ Final(sent') = c
              /\ \/ c = GoToPoint("box") /\ InOurBox(s.ball)
                 \/ c = GoToPoint("guard") /\ BesideKeeper(s)
                 \/ c = Do(skill, role) /\ ~BesideKeeper(s)
<1>1. CASE InOurBox(s.ball)
  <2>1. ExecuteSkill("GoToPoint", "box")
    BY <1>1 DEF Finish
  <2> QED
    BY <1>1, <2>1, ExecutesOne DEF GoToPoint, Skill, Aim
<1>2. CASE ~InOurBox(s.ball) /\ BesideKeeper(s)
  <2>1. ExecuteSkill("GoToPoint", "guard")
    BY <1>2 DEF Finish
  <2> QED
    BY <1>2, <2>1, ExecutesOne DEF GoToPoint, Skill, Aim
<1>3. CASE ~InOurBox(s.ball) /\ ~BesideKeeper(s)
  <2>1. ExecuteSkill(skill, role)
    BY <1>3 DEF Finish
  <2> QED
    BY <1>3, <2>1, ExecutesOne
<1> QED
  BY <1>1, <1>2, <1>3

\* The goalkeeper has come out to a robot that stands in the lane of the goal
\* with the ball predicted to leave our half.
LEMMA KeeperCameOut ==
  ASSUME NEW s \in Beliefs, NEW p \in Predictions[s], p.x >= 0,
         StandsInLane(s, p), BesideKeeper(s)
  PROVE  s.home[0].x > -HALF_FIELD_MAXX + GOAL_DEPTH + DBOX_WIDTH
<1>1. p.x <= Self(s).x + 100 /\ s.home[0].x + BOT_RADIUS > Self(s).x
  BY DEF StandsInLane, BesideKeeper
<1> QED
  BY <1>1, BeliefType, PredictionType
     DEF HALF_FIELD_MAXX, GOAL_DEPTH, DBOX_WIDTH, BOT_RADIUS

\* A branch for the ball in our half gives a point unless the prediction is
\* near the goal: elsewhere it is ahead of the robot or behind it.
LEMMA PointGiven ==
  ASSUME NEW s \in Beliefs, NEW p \in Predictions[s],
         p.x >= -HALF_FIELD_MAXX + (3 * DBOX_WIDTH) \div 2
  PROVE  GivesPoint(s, p)
<1>1. p.x \in Int /\ Self(s).x \in Int
  BY BeliefType, PredictionType
<1>2. p.x >= -HALF_FIELD_MAXX + (6 * DBOX_WIDTH) \div 5
  BY <1>1 DEF HALF_FIELD_MAXX, DBOX_WIDTH
<1>3. p.x >= Self(s).x \/ p.x <= Self(s).x
  BY <1>1
<1> QED
  BY <1>2, <1>3 DEF GivesPoint, ComesFromBehind, TurnsRound

-----------------------------------------------------------------------------
(* Every frame *)

\* What a frame with belief s and prediction p leaves behind, seen together.
FrameInv(s, p) ==
  /\ sID' \in Skill /\ aim' \in Aim /\ charge' \in BOOLEAN
  /\ \E c \in Command :
       /\ sent' = <<c>> /\ Final(sent') = c
       /\ \/ c.skill = "TestSkill"
          \/ c = GoToPoint("box") /\ InOurBox(s.ball)
          \/ c = GoToPoint("guard") /\ BesideKeeper(s)
          \/ c = GoToPoint("cover") /\ s.ball.x >= 0
          \/ c = GoToPoint("chase") /\ s.ball.x < 0 /\ p.x < 0
          \/ /\ c \in {GoToPoint("post"), Do("Velocity", "speeds")}
             /\ s.ball.x < 0 /\ p.x >= 0
          \/ s.ball.x >= 0 /\ p.x >= OppArea
          \/ s.ball.x < 0 /\ p.x < -HALF_FIELD_MAXX + (3 * DBOX_WIDTH) \div 2
       /\ \/ c.role \in {"guard", "box"}
          \/ ~BesideKeeper(s)
          \/ /\ c.skill = "Velocity"
             /\ s.home[0].x > -HALF_FIELD_MAXX + GOAL_DEPTH + DBOX_WIDTH

\* Whichever of its branches a frame runs.
LEMMA FrameEffect ==
  ASSUME NEW s \in Beliefs, NEW p \in Predictions[s], Execute(s, p),
         sID \in Skill, aim \in Aim, charge \in BOOLEAN
  PROVE  FrameInv(s, p)
<1> DEFINE Choice(skill, role) ==
      \E c \in Command :
        /\ sent' = <<c>> /\ sent' # Silence /\ Final(sent') = c
        /\ \/ c = GoToPoint("box") /\ InOurBox(s.ball)
           \/ c = GoToPoint("guard") /\ BesideKeeper(s)
           \/ c = Do(skill, role) /\ ~BesideKeeper(s)
<1>t. s.ball.x \in Int /\ p.x \in Int /\ OppArea \in Int
  BY BeliefType, PredictionType DEF OppArea, HALF_FIELD_MAXX, DBOX_WIDTH, BOT_RADIUS
<1>r. /\ \A r : GoToPoint(r).role = r /\ GoToPoint(r) = Do("GoToPoint", r)
      /\ \A k, r : Do(k, r).skill = k
  BY DEF GoToPoint, Do
<1>1. CASE Press(s)
  <2>1. /\ sID' \in Skill /\ aim' \in Aim /\ Choice("TestSkill", aim)
    BY <1>1, FinishEffect DEF Press, Skill
  <2>2. charge' \in BOOLEAN
    BY <1>1 DEF Press, StillCharges, clearing_chance
  <2> QED
    BY <1>r, <2>1, <2>2 DEF FrameInv
<1>2. CASE CoverHome(s, p)
  <2> DEFINE skill == IF p.x < OppArea THEN "GoToPoint" ELSE sID
             role == CASE p.x > OppArea -> "home"
                       [] p.x < OppArea -> "cover"
                       [] p.x = OppArea -> aim
  <2>1. /\ skill \in Skill /\ role \in Aim
        /\ p.x < OppArea => skill = "GoToPoint" /\ role = "cover"
    <3>1. CASE p.x > OppArea
      BY <1>t, <3>1 DEF Aim
    <3>2. CASE p.x < OppArea
      BY <1>t, <3>2 DEF Aim, Skill
    <3>3. CASE p.x = OppArea
      BY <1>t, <3>3
    <3> QED
      BY <1>t, <3>1, <3>2, <3>3
  <2>2. Finish(s, skill, role) /\ s.ball.x >= 0 /\ charge' = FALSE
    BY <1>2, <1>t DEF CoverHome, clearing_chance
  <2> HIDE DEF skill, role
  <2>3. sID' \in Skill /\ aim' \in Aim /\ Choice(skill, role)
    BY <2>1, <2>2, FinishEffect
  <2>4. p.x >= OppArea \/ Do(skill, role) = GoToPoint("cover")
    BY <1>t, <1>r, <2>1
  <2> QED
    BY <1>r, <2>2, <2>3, <2>4 DEF FrameInv
<1>3. CASE Chase(s, p)
  <2> DEFINE role == IF Within(s.ball, Self(s), 2 * BOT_BALL_THRESH) \/ GivesPoint(s, p)
                     THEN "chase" ELSE aim
  <2>1. role \in Aim /\ (GivesPoint(s, p) => role = "chase")
    BY DEF Aim
  <2>2. /\ Finish(s, "GoToPoint", role) /\ s.ball.x < 0 /\ p.x < 0
        /\ charge' = charge
    BY <1>3 DEF Chase, clearing_chance
  <2> HIDE DEF role
  <2>3. sID' \in Skill /\ aim' \in Aim /\ Choice("GoToPoint", role)
    BY <2>1, <2>2, FinishEffect DEF Skill
  <2>4. \/ p.x < -HALF_FIELD_MAXX + (3 * DBOX_WIDTH) \div 2
        \/ Do("GoToPoint", role) = GoToPoint("chase")
    <3>1. -HALF_FIELD_MAXX + (3 * DBOX_WIDTH) \div 2 \in Int
      BY DEF HALF_FIELD_MAXX, DBOX_WIDTH
    <3> QED
      BY <1>t, <1>r, <2>1, <3>1, PointGiven
  <2> QED
    BY <1>r, <2>2, <2>3, <2>4 DEF FrameInv
<1>4. CASE Leave(s, p)
  <2>1. s.ball.x < 0 /\ p.x >= 0 /\ charge' \in BOOLEAN
    BY <1>4 DEF Leave, clearing_chance, isPossible
  <2>2. CASE StandsInLane(s, p) /\ ExecuteSkill("Velocity", "speeds")
    <3>1. /\ sID' \in Skill /\ aim' \in Aim /\ Do("Velocity", "speeds") \in Command
          /\ sent' = <<Do("Velocity", "speeds")>> /\ Final(sent') = Do("Velocity", "speeds")
      BY <2>2, ExecutesOne DEF Skill, Aim
    <3>2. BesideKeeper(s) => s.home[0].x > -HALF_FIELD_MAXX + GOAL_DEPTH + DBOX_WIDTH
      BY <2>1, <2>2, KeeperCameOut
    <3> QED
      BY <1>r, <2>1, <3>1, <3>2 DEF FrameInv
  <2>3. CASE Finish(s, "GoToPoint", "post")
    <3>1. sID' \in Skill /\ aim' \in Aim /\ Choice("GoToPoint", "post")
      BY <2>3, FinishEffect DEF Skill, Aim
    <3> QED
      BY <1>r, <2>1, <3>1 DEF FrameInv
  <2> QED
    BY <1>4, <2>2, <2>3 DEF Leave
<1> QED
  BY <1>1, <1>2, <1>3, <1>4 DEF Execute

-----------------------------------------------------------------------------
(* The invariant *)

IInv == TypeOK /\ StaleOnlyAtEnds /\ GuardHolds

\* Before the first frame nothing has been sent.
LEMMA InitInv == Init => IInv
<1> SUFFICES ASSUME Init
             PROVE  IInv
  OBVIOUS
<1>1. state \in Belief
  BY TacticAssumption DEF Init
<1>2. pPoint \in Point
  BY <1>1 DEF Init, Belief
<1>3. TypeOK
  BY <1>2 DEF Init, TypeOK
<1> QED
  BY <1>3 DEF Init, IInv, StaleOnlyAtEnds, GuardHolds

\* Every frame, with any belief and prediction, preserves the invariant.
LEMMA NextInv == IInv /\ [Next]_vars => IInv'
<1> SUFFICES ASSUME IInv, [Next]_vars
             PROVE  IInv'
  OBVIOUS
<1>1. CASE Next
  <2>1. /\ state' \in Beliefs /\ pPoint' \in Predictions[state']
        /\ counter' \in {0, 1}
    BY <1>1 DEF Next, Tick, IInv, TypeOK
  <2>2. FrameInv(state', pPoint')
    BY <1>1, <2>1, FrameEffect DEF Next, IInv, TypeOK, Skill, Aim
  <2>3. pPoint' \in Point
    BY <2>1, PredictionType
  <2>4. TypeOK'
    BY <2>1, <2>2, <2>3 DEF FrameInv, TypeOK, Skill, Aim
  <2>5. StaleOnlyAtEnds'
    BY <2>2 DEF FrameInv, StaleOnlyAtEnds, FitsBall
  <2>6. GuardHolds'
    BY <2>2 DEF FrameInv, GuardHolds
  <2> QED
    BY <2>4, <2>5, <2>6 DEF IInv
<1>2. CASE UNCHANGED vars
  BY <1>2 DEF vars, IInv, TypeOK, StaleOnlyAtEnds, FitsBall, GuardHolds
<1> QED
  BY <1>1, <1>2

\* The invariant holds in every frame.
LEMMA Correct == Spec => []IInv
BY InitInv, NextInv, PTL DEF Spec

-----------------------------------------------------------------------------
(* The theorems *)

\* The tactic keeps a skill and an aim, and sends one command in every frame.
THEOREM TypeCorrect == Spec => []TypeOK
<1>1. IInv => TypeOK
  BY DEF IInv
<1> QED
  BY <1>1, Correct, PTL

\* A skill or a point of an earlier frame is used only with the ball predicted
\* at an end of the field, however fast the ball and far the robot.
THEOREM StaleCorrect == Spec => []StaleOnlyAtEnds
<1>1. IInv => StaleOnlyAtEnds
  BY DEF IInv
<1> QED
  BY <1>1, Correct, PTL

\* Level with the goalkeeper or behind it the robot is sent away, or the
\* goalkeeper has left our goal area.
THEOREM GuardCorrect == Spec => []GuardHolds
<1>1. IInv => GuardHolds
  BY DEF IInv
<1> QED
  BY <1>1, Correct, PTL
=============================================================================
