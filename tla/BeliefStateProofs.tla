------------------------- MODULE BeliefStateProofs -------------------------
(***************************************************************************)
(* Proofs about BeliefState for every set of scenes and every bound on the *)
(* score: its type invariant, the meaning of the goal latches, the score   *)
(* as a ScoreBoard, and what "nearest" means when a scan stops early.      *)
(***************************************************************************)
EXTENDS BeliefState, TLAPS

-----------------------------------------------------------------------------
(* The nearest robot *)

\* i is the first robot of T at the least of the distances d.
Least(d, T, i) ==
  i \in T /\ \A j \in T : d[i] < d[j] \/ (d[i] = d[j] /\ i <= j)

\* Comparing one more robot, as the scan does, keeps a least one.
LEMMA LeastStep ==
  ASSUME NEW d \in [Bots -> Int], NEW T \in SUBSET Bots, NEW n \in Bots,
         \A j \in T : j < n,
         T = {} \/ \E i \in T : Least(d, T, i)
  PROVE  \E i \in T \cup {n} : Least(d, T \cup {n}, i)
<1>1. CASE T = {}
  <2>1. d[n] \in Int
    OBVIOUS
  <2> QED
    BY <1>1, <2>1 DEF Least, Bots
<1>2. CASE T # {}
  <2>1. PICK i \in T : Least(d, T, i)
    BY <1>2
  <2>2. \A j \in Bots : d[j] \in Int /\ j \in Int
    BY DEF Bots
  <2>3. CASE d[n] < d[i]
    <3>1. \A j \in T : d[n] < d[j]
      BY <2>1, <2>2, <2>3 DEF Least
    <3>2. Least(d, T \cup {n}, n)
      BY <2>2, <3>1 DEF Least
    <3> QED
      BY <3>2
  <2>4. CASE ~(d[n] < d[i])
    <3>1. Least(d, T \cup {n}, i)
      BY <2>1, <2>2, <2>4 DEF Least
    <3> QED
      BY <2>1, <3>1
  <2> QED
    BY <2>3, <2>4
<1> QED
  BY <1>1, <1>2

\* A nonempty set of robots has a first one at the least distance.
LEMMA LeastExists ==
  ASSUME NEW d \in [Bots -> Int], NEW S \in SUBSET Bots, S # {}
  PROVE  \E i \in S : Least(d, S, i)
<1> DEFINE Done(T) == T = {} \/ \E i \in T : Least(d, T, i)
<1>1. ASSUME NEW n \in Bots, NEW T \in SUBSET Bots,
             \A j \in T : j < n, Done(S \cap T)
      PROVE  Done(S \cap (T \cup {n}))
  <2>1. CASE n \in S
    <3>1. S \cap (T \cup {n}) = (S \cap T) \cup {n}
      BY <2>1
    <3>2. \E i \in (S \cap T) \cup {n} : Least(d, (S \cap T) \cup {n}, i)
      BY <1>1, LeastStep
    <3> QED
      BY <3>1, <3>2
  <2>2. CASE n \notin S
    <3>1. S \cap (T \cup {n}) = S \cap T
      BY <2>2
    <3> QED
      BY <1>1, <3>1
  <2> QED
    BY <2>1, <2>2
<1>2. Done(S \cap {})
  OBVIOUS
<1> HIDE DEF Done
<1>3. Done(S \cap ({} \cup {0}))
  BY <1>1, <1>2 DEF Bots
<1>4. Done(S \cap ({0} \cup {1}))
  <2>1. {} \cup {0} = {0}
    OBVIOUS
  <2> QED
    BY <1>1, <1>3, <2>1 DEF Bots
<1>5. Done(S \cap ({0, 1} \cup {2}))
  <2>1. {0} \cup {1} = {0, 1}
    OBVIOUS
  <2>2. {0, 1} \in SUBSET Bots /\ 2 \in Bots /\ \A j \in {0, 1} : j < 2
    BY DEF Bots
  <2> QED
    BY <1>1, <1>4, <2>1, <2>2
<1>6. Done(S \cap ({0, 1, 2} \cup {3}))
  <2>1. {0, 1} \cup {2} = {0, 1, 2}
    OBVIOUS
  <2>2. {0, 1, 2} \in SUBSET Bots /\ 3 \in Bots /\ \A j \in {0, 1, 2} : j < 3
    BY DEF Bots
  <2> QED
    BY <1>1, <1>5, <2>1, <2>2
<1>7. Done(S \cap ({0, 1, 2, 3} \cup {4}))
  <2>1. {0, 1, 2} \cup {3} = {0, 1, 2, 3}
    OBVIOUS
  <2>2. {0, 1, 2, 3} \in SUBSET Bots /\ 4 \in Bots /\ \A j \in {0, 1, 2, 3} : j < 4
    BY DEF Bots
  <2> QED
    BY <1>1, <1>6, <2>1, <2>2
<1>8. Bots = {0, 1, 2, 3} \cup {4}
  BY DEF Bots
<1>9. S \cap ({0, 1, 2, 3} \cup {4}) = S
  BY <1>8
<1> QED
  BY <1>7, <1>9 DEF Done

\* The distance of the ball from robot i of a team that stands at pos.
SqDistances(s, pos) == [i \in Bots |-> DistSq(s.ball, pos[i])]

\* Squared distances are integers.
LEMMA SqDistancesType ==
  ASSUME NEW s \in Scene, NEW pos \in [Bots -> Point]
  PROVE  SqDistances(s, pos) \in [Bots -> Int]
<1> SUFFICES ASSUME NEW i \in Bots PROVE DistSq(s.ball, pos[i]) \in Int
  BY DEF SqDistances
<1>1. s.ball \in Point /\ pos[i] \in Point
  BY DEF Scene
<1>2. s.ball.x - pos[i].x \in Int /\ s.ball.y - pos[i].y \in Int
  BY <1>1 DEF Point
<1> QED
  BY <1>2 DEF DistSq

\* What NearestOf picks is in the set it scans, and nothing there is nearer.
LEMMA NearestOfSpec ==
  ASSUME NEW s \in Scene, NEW pos \in [Bots -> Point],
         NEW S \in SUBSET Bots, S # {}
  PROVE  /\ NearestOf(pos, s, S) \in S
         /\ \A j \in S : DistSq(s.ball, pos[NearestOf(pos, s, S)])
                           <= DistSq(s.ball, pos[j])
<1> DEFINE P(i) == \A j \in S :
                     \/ DistSq(s.ball, pos[i]) < DistSq(s.ball, pos[j])
                     \/ DistSq(s.ball, pos[i]) = DistSq(s.ball, pos[j]) /\ i <= j
<1>1. \E i \in S : P(i)
  <2>1. PICK i \in S : Least(SqDistances(s, pos), S, i)
    BY LeastExists, SqDistancesType
  <2>2. \A j \in S : SqDistances(s, pos)[j] = DistSq(s.ball, pos[j])
    BY DEF SqDistances
  <2> QED
    BY <2>1, <2>2 DEF Least
<1>2. NearestOf(pos, s, S) = CHOOSE i \in S : P(i)
  BY DEF NearestOf
<1>3. NearestOf(pos, s, S) \in S /\ P(NearestOf(pos, s, S))
  BY <1>1, <1>2
<1>4. \A j \in Bots : DistSq(s.ball, pos[j]) \in Int
  BY SqDistancesType DEF SqDistances
<1> QED
  BY <1>3, <1>4

\* Robot 0 is always scanned.
LEMMA ScannedNotEmpty ==
  ASSUME NEW H \in SUBSET Bots
  PROVE  Scanned(H) \in SUBSET Bots /\ Scanned(H) # {}
<1>1. 0 \in Bots /\ \A j \in H : 0 <= j
  BY DEF Bots
<1> QED
  BY <1>1 DEF Scanned

\* The robots that end a scan are robots.
LEMMA HoldersType ==
  ASSUME NEW s
  PROVE  HomeHolders(s) \in SUBSET Bots /\ AwayHolders(s) \in SUBSET Bots
BY DEF HomeHolders, AwayHolders

\* The scans find a robot of each team.
LEMMA NearestType ==
  ASSUME NEW s \in Scene
  PROVE  OurNearest(s) \in Bots /\ OppNearest(s) \in Bots
<1>1. s.home \in [Bots -> Point] /\ s.away \in [Bots -> Point]
  BY DEF Scene
<1>2. OurNearest(s) \in Scanned(HomeHolders(s))
  BY <1>1, NearestOfSpec, ScannedNotEmpty, HoldersType DEF OurNearest
<1>3. OppNearest(s) \in Scanned(AwayHolders(s))
  BY <1>1, NearestOfSpec, ScannedNotEmpty, HoldersType DEF OppNearest
<1> QED
  BY <1>2, <1>3, ScannedNotEmpty, HoldersType

-----------------------------------------------------------------------------
(* The invariants *)

\* The belief is well typed for whatever scenes the simulator presents.
THEOREM TypeCorrect == Spec => []TypeOK
<1>1. Init => TypeOK
  <2>1. 0 \in Bots /\ 0 \in Nat
    BY DEF Bots
  <2> QED
    BY <2>1, Zenon DEF Init, TypeOK
<1>2. TypeOK /\ [Next]_vars => TypeOK'
  <2> SUFFICES ASSUME TypeOK, [Next]_vars PROVE TypeOK'
    OBVIOUS
  <2>1. ASSUME NEW s \in Scenes, Update(s) PROVE TypeOK'
    <3>1. s \in Scene
      BY ScenesAssumption
    <3>2. /\ scene' \in Scenes
          /\ ourBotNearestToBall' \in Bots /\ oppBotNearestToBall' \in Bots
          /\ owner' \in {"loose", "our", "opp"}
      BY <2>1, <3>1, NearestType DEF Update, ComputeBallLocation, OwnerIn
    <3>3. OurSideTaken(s, owner') \in BOOLEAN /\ OppSideTaken(s, owner') \in BOOLEAN
      BY DEF OurSideTaken, OppSideTaken
    <3>4. pr_ballOurSide' \in BOOLEAN /\ pr_ballOppSide' \in BOOLEAN
      BY <2>1, <3>3 DEF Update, ComputeBallSides, TypeOK
    <3>5. CheckForGoal(s.ball)
      BY <2>1 DEF Update
    <3>6. ourGoalCount' \in Nat /\ oppGoalCount' \in Nat
      BY <3>5 DEF CheckForGoal, ReleaseLatch, CountOurGoal, CountOppGoal,
                  NoGoal, TypeOK, score
    <3>7. ballOppGoal' \in BOOLEAN /\ ballOurGoal' \in BOOLEAN
      <4>1. /\ (~(s.ball.x < HALF_FIELD_MAXX \div 2)) \in BOOLEAN
            /\ (~(s.ball.x > -(HALF_FIELD_MAXX \div 2))) \in BOOLEAN
        BY Zenon
      <4> QED
        BY <3>5, <4>1, Zenon DEF CheckForGoal, ReleaseLatch, CountOurGoal,
                                 CountOppGoal, NoGoal, TypeOK, score
    <3> QED
      BY <3>2, <3>4, <3>6, <3>7 DEF TypeOK
  <2>2. CASE UNCHANGED vars
    BY <2>2 DEF TypeOK, vars, nearest, sides, score
  <2> QED
    BY <2>1, <2>2 DEF Next
<1> QED
  BY <1>1, <1>2, PTL DEF Spec

\* A latched goal means the ball has not yet come back to the release line,
\* so the two goals are never latched together.
THEOREM LatchCorrect == Spec => []LatchFollowsBall
<1>1. Init => LatchFollowsBall
  BY DEF Init, LatchFollowsBall
<1>2. TypeOK /\ TypeOK' /\ LatchFollowsBall /\ [Next]_vars => LatchFollowsBall'
  <2> SUFFICES ASSUME TypeOK, TypeOK', LatchFollowsBall, [Next]_vars
               PROVE  LatchFollowsBall'
    OBVIOUS
  <2>1. ASSUME NEW s \in Scenes, Update(s) PROVE LatchFollowsBall'
    <3>1. scene' = s /\ s.ball.x \in Int /\ s.ball.y \in Int
      BY <2>1, ScenesAssumption DEF Update, Scene, Point
    <3>2. ReleaseLatch(s.ball) => LatchFollowsBall'
      <4> SUFFICES ASSUME ReleaseLatch(s.ball) PROVE LatchFollowsBall'
        OBVIOUS
      <4> DEFINE half == HALF_FIELD_MAXX \div 2
      <4>1. half \in Int /\ half > 0
        BY DEF HALF_FIELD_MAXX
      <4> HIDE DEF half
      <4>2. CASE ballOppGoal
        <5>1. ~ballOurGoal
          BY <4>2, <4>1, ScenesAssumption
             DEF LatchFollowsBall, TypeOK, Scene, Point, half
        <5>2. (ballOppGoal' => ~(s.ball.x < half)) /\ ~ballOurGoal'
          BY <4>2, <5>1, Zenon DEF ReleaseLatch, half
        <5>3. ballOppGoal' => scene'.ball.x >= half
          BY <5>2, <4>1, <3>1
        <5> QED
          BY <5>2, <5>3, Zenon DEF LatchFollowsBall, half
      <4>3. CASE ~ballOppGoal
        <5>1. (ballOurGoal' => ~(s.ball.x > -half)) /\ ~ballOppGoal'
          BY <4>3, Zenon DEF ReleaseLatch, half
        <5>2. ballOurGoal' => scene'.ball.x <= -half
          BY <5>1, <4>1, <3>1
        <5> QED
          BY <5>1, <5>2, Zenon DEF LatchFollowsBall, half
      <4> QED
        BY <4>2, <4>3
    <3>3. CountOurGoal(s.ball) => LatchFollowsBall'
      BY <3>1 DEF CountOurGoal, InOppGoal, LatchFollowsBall, HALF_FIELD_MAXX,
                  GOAL_DEPTH
    <3>4. CountOppGoal(s.ball) => LatchFollowsBall'
      BY <3>1 DEF CountOppGoal, InOurGoal, LatchFollowsBall, HALF_FIELD_MAXX,
                  GOAL_DEPTH
    <3>5. NoGoal(s.ball) => LatchFollowsBall'
      BY DEF NoGoal, score, LatchFollowsBall
    <3> QED
      BY <2>1, <3>2, <3>3, <3>4, <3>5 DEF Update, CheckForGoal
  <2>2. CASE UNCHANGED vars
    BY <2>2 DEF LatchFollowsBall, vars, score
  <2> QED
    BY <2>1, <2>2 DEF Next
<1> QED
  BY <1>1, <1>2, TypeCorrect, PTL DEF Spec

-----------------------------------------------------------------------------
(* The score *)

\* checkForGoal implements the abstract board: every frame counts one goal
\* and disarms it, arms it again, or leaves it alone.
THEOREM ScoreCorrect == Spec => KeepsTheScore
<1>1. Init => Board!Init
  BY DEF Init, Board!Init
<1>2. TypeOK /\ LatchFollowsBall /\ [Next]_vars => [Board!Next]_(Board!vars)
  <2> SUFFICES ASSUME TypeOK, LatchFollowsBall, [Next]_vars
               PROVE  [Board!Next]_(Board!vars)
    OBVIOUS
  <2> USE DEF Board!Next, Board!Count, Board!Rearm, Board!vars
  <2>1. ASSUME NEW s \in Scenes, Update(s) PROVE [Board!Next]_(Board!vars)
    <3>1. ~(ballOppGoal /\ ballOurGoal) /\ scene.ball.x \in Int
      BY ScenesAssumption DEF TypeOK, LatchFollowsBall, HALF_FIELD_MAXX, Scene, Point
    <3>2. ReleaseLatch(s.ball) => [Board!Next]_(Board!vars)
      BY <3>1 DEF ReleaseLatch, TypeOK
    <3>3. CountOurGoal(s.ball) => Board!Count
      BY DEF CountOurGoal
    <3>4. CountOppGoal(s.ball) => Board!Count
      BY DEF CountOppGoal
    <3>5. NoGoal(s.ball) => UNCHANGED Board!vars
      BY DEF NoGoal, score
    <3> QED
      BY <2>1, <3>2, <3>3, <3>4, <3>5 DEF Update, CheckForGoal
  <2>2. CASE UNCHANGED vars
    BY <2>2 DEF vars, score
  <2> QED
    BY <2>1, <2>2 DEF Next
<1> QED
  BY <1>1, <1>2, TypeCorrect, LatchCorrect, PTL DEF Spec, KeepsTheScore, Board!Spec

\* A ball seen in a goal for two frames running has been counted: only the
\* release of the other latch can hide a goal, and for one frame.
THEOREM SecondFrameCorrect == Spec => SecondFrameCounts
<1> DEFINE Counted ==
      /\ InOppGoal(scene.ball) /\ InOppGoal(scene'.ball) => ballOppGoal'
      /\ InOurGoal(scene.ball) /\ InOurGoal(scene'.ball) => ballOurGoal'
<1>1. TypeOK /\ TypeOK' /\ LatchFollowsBall /\ [Next]_vars => [Counted]_vars
  <2> SUFFICES ASSUME TypeOK, TypeOK', LatchFollowsBall,
                      NEW s \in Scenes, Update(s)
               PROVE  Counted
    BY DEF Next
  <2>1. /\ scene' = s
        /\ scene.ball.x \in Int /\ scene'.ball.x \in Int
    BY ScenesAssumption DEF TypeOK, Scene, Point, Update
  <2>2. /\ InOppGoal(scene.ball) => ~ballOurGoal
        /\ InOurGoal(scene.ball) => ~ballOppGoal
    BY <2>1 DEF LatchFollowsBall, InOppGoal, InOurGoal, HALF_FIELD_MAXX, GOAL_DEPTH
  <2>3. CASE InOppGoal(scene.ball) /\ InOppGoal(s.ball)
    <3>1. ~(s.ball.x < HALF_FIELD_MAXX \div 2) /\ ~InOurGoal(s.ball)
      BY <2>1, <2>3 DEF InOppGoal, InOurGoal, HALF_FIELD_MAXX, GOAL_DEPTH
    <3>2. ballOppGoal'
      BY <2>2, <2>3, <3>1, Zenon
         DEF Update, CheckForGoal, ReleaseLatch, CountOurGoal, CountOppGoal, NoGoal
    <3> QED
      BY <2>1, <2>3, <3>1, <3>2
  <2>4. CASE InOurGoal(scene.ball) /\ InOurGoal(s.ball)
    <3>1. ~(s.ball.x > -(HALF_FIELD_MAXX \div 2)) /\ ~InOppGoal(s.ball)
      BY <2>1, <2>4 DEF InOppGoal, InOurGoal, HALF_FIELD_MAXX, GOAL_DEPTH
    <3>2. ballOurGoal'
      BY <2>2, <2>4, <3>1, Zenon
         DEF Update, CheckForGoal, ReleaseLatch, CountOurGoal, CountOppGoal, NoGoal
    <3> QED
      BY <2>1, <2>4, <3>1, <3>2
  <2> QED
    BY <2>1, <2>3, <2>4
<1> QED
  BY <1>1, TypeCorrect, LatchCorrect, PTL DEF Spec, SecondFrameCounts

-----------------------------------------------------------------------------
(* What "nearest" means when a scan has stopped early *)

\* The robot a scan picks is the nearest of all, or a robot of the team has the
\* ball and the robot picked is no farther from the ball than that one.
LEMMA ScanPicks ==
  ASSUME NEW s \in Scene, NEW pos \in [Bots -> Point], NEW R \in Int,
         NEW H \in SUBSET Bots,
         \A i \in H : DistSq(s.ball, pos[i]) < R
  PROVE  LET n == NearestOf(pos, s, Scanned(H))
         IN \/ \A i \in Bots : DistSq(s.ball, pos[n]) <= DistSq(s.ball, pos[i])
            \/ DistSq(s.ball, pos[n]) < R /\ H # {}
<1> DEFINE S == Scanned(H)
           n == NearestOf(pos, s, S)
           D(i) == DistSq(s.ball, pos[i])
<1>1. S \in SUBSET Bots /\ S # {}
  BY ScannedNotEmpty
<1>2. n \in S /\ \A j \in S : D(n) <= D(j)
  BY <1>1, NearestOfSpec
<1>3. \A j \in Bots : D(j) \in Int
  BY SqDistancesType DEF SqDistances
<1>4. CASE H = {}
  BY <1>2, <1>4 DEF Scanned
<1>5. CASE H # {}
  <2>1. PICK i \in H : \A j \in H : i <= j
    <3>1. \A j \in H : j = 0 \/ j = 1 \/ j = 2 \/ j = 3 \/ j = 4
      BY DEF Bots
    <3>2. 0 \in H \/ 1 \in H \/ 2 \in H \/ 3 \in H \/ 4 \in H
      BY <1>5, <3>1
    <3> QED
      BY <3>1, <3>2
  <2>2. i \in S /\ i \in Bots
    BY <2>1 DEF Scanned
  <2>3. D(n) <= D(i) /\ D(i) < R /\ D(n) \in Int /\ D(i) \in Int
    BY <1>1, <1>2, <1>3, <2>1, <2>2
  <2>4. D(n) < R
    BY <2>3
  <2> QED
    BY <1>5, <2>4, Zenon
<1> QED
  BY <1>4, <1>5

\* ourBotNearestToBall and oppBotNearestToBall name the nearest robot of the
\* team, or one within reach of a ball the team has: the early exits of
\* computeBallLocation can do no worse.
THEOREM NearestCorrect == Spec => NearestOrInReach
<1> DEFINE ourD == DistSq(scene'.ball, scene'.home[ourBotNearestToBall'])
           oppD == DistSq(scene'.ball, scene'.away[oppBotNearestToBall'])
           OurOK == \/ \A i \in Bots : ourD <= DistSq(scene'.ball, scene'.home[i])
                    \/ /\ ourD < BOT_BALL_THRESH_FOR_PR * BOT_BALL_THRESH_FOR_PR
                       /\ owner' # "loose"
           OppOK == \/ \A i \in Bots : oppD <= DistSq(scene'.ball, scene'.away[i])
                    \/ oppD < BOT_BALL_THRESH * BOT_BALL_THRESH /\ owner' = "opp"
<1>1. ASSUME NEW s \in Scenes, Update(s) PROVE OurOK /\ OppOK
  <2>1. /\ s \in Scene /\ s.home \in [Bots -> Point] /\ s.away \in [Bots -> Point]
        /\ scene' = s
    BY <1>1, ScenesAssumption DEF Scene, Update
  <2>2. /\ BOT_BALL_THRESH_FOR_PR * BOT_BALL_THRESH_FOR_PR \in Int
        /\ BOT_BALL_THRESH * BOT_BALL_THRESH \in Int
    BY DEF BOT_BALL_THRESH_FOR_PR, BOT_BALL_THRESH
  <2>3. OurOK
    <3>1. \A i \in HomeHolders(s) :
            DistSq(s.ball, s.home[i]) < BOT_BALL_THRESH_FOR_PR * BOT_BALL_THRESH_FOR_PR
      BY DEF HomeHolders, Within
    <3>2. ourBotNearestToBall' = NearestOf(s.home, s, Scanned(HomeHolders(s)))
      BY <1>1 DEF Update, ComputeBallLocation, OurNearest
    <3>3. HomeHolders(s) # {} => owner' # "loose"
      BY <1>1 DEF Update, ComputeBallLocation, OwnerIn
    <3> QED
      BY <2>1, <2>2, <3>1, <3>2, <3>3, ScanPicks, HoldersType
  <2>4. OppOK
    <3>1. \A i \in AwayHolders(s) :
            DistSq(s.ball, s.away[i]) < BOT_BALL_THRESH * BOT_BALL_THRESH
      BY DEF AwayHolders, Within
    <3>2. oppBotNearestToBall' = NearestOf(s.away, s, Scanned(AwayHolders(s)))
      BY <1>1 DEF Update, ComputeBallLocation, OppNearest
    <3>3. AwayHolders(s) # {} => owner' = "opp"
      BY <1>1 DEF Update, ComputeBallLocation, OwnerIn
    <3> QED
      BY <2>1, <2>2, <3>1, <3>2, <3>3, ScanPicks, HoldersType
  <2> QED
    BY <2>3, <2>4
<1>2. [Next]_vars => [OurOK /\ OppOK]_vars
  BY <1>1 DEF Next
<1> QED
  BY <1>2, PTL DEF Spec, NearestOrInReach
=============================================================================
