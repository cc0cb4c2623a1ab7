------------------------------ MODULE MCSkills ------------------------------
(***************************************************************************)
(* GoToPoint for a robot that stays where it is, told to go to where it is *)
(* or to the ball or beside an opponent, with the robots of both teams     *)
(* around the ball or away from it.  GoToPointDW with the largest changes  *)
(* of the wheels' speeds, a small one and none.  Shots from both halves,   *)
(* balls far out and in the corner for the goalkeeper.  For TestSkill a    *)
(* ball at three places a slow move apart and at one that only a jump of   *)
(* the measurement reaches, with calls of no robot, of one and of two.     *)
(* Obstacles for the planner in eight directions, that subtend 45 or 135   *)
(* degrees, so that their edges coincide or leave a gap of directions; the *)
(* code gives them 33 degrees to almost 180.                               *)
(***************************************************************************)
EXTENDS Skills

MCChanges == {-15, -4, 0, 15}

Here == At(0, 0)
Ball == At(1500, 0)
Mark == At(0, 1500)

Far == At(-4000, 3000)

Robots(p1, p2, p3) == <<p1, p2, p3, Far>>

Team(own, ps) == [i \in Bots |-> IF i = 0 THEN own ELSE ps[i]]

SceneOf(h, a) == [ball |-> Ball, home |-> Team(Here, h), away |-> Team(Far, a)]

MCScenes ==
  {SceneOf(Robots(Far, Far, At(0, -1000)), Robots(At(1500, 200), Far, Mark)),
   SceneOf(Robots(At(1800, 0), Mark, Far), Robots(At(1500, 200), Far, Mark)),
   SceneOf(Robots(At(1800, 0), Mark, Far), Robots(At(0, 1600), Far, At(900, 900)))}

Slopes == {0, PI, -(PI \div 3)}

MCParams ==
  [dest : {At(200, 0)}, finalslope : Slopes, finalVelocity : {0}] \cup
  [dest : {At(200, 0)}, finalslope : {PI}, finalVelocity : {20}] \cup
  [dest : {Ball, Mark}, finalslope : {0}, finalVelocity : {0}]

-----------------------------------------------------------------------------
(* The goalkeeper in its goal or at its post, with an opponent that keeps it  *)
(* from clearing the ball.                                                    *)

View(ball, vel, keeper, opp) ==
  [ball |-> ball, vel |-> vel,
   home |-> [b \in Bots |-> IF b = 0 THEN keeper ELSE Far],
   away |-> [b \in Bots |-> IF b = 1 THEN At(-2500, 200)
                                ELSE IF b = 2 THEN opp ELSE At(4000, 0)],
   heading |-> [b \in Bots |-> "otherwise"],
   aligned |-> [b \in Bots |-> FALSE]]

Goalie == At(-4200, 0)

MCViews ==
  {View(At(x, y), At(-1000, vy), Goalie, Far) :
     x \in {2500, 0, -1200, -3400}, y \in {-1800, -600, 0, 850, 2100},
     vy \in {-490, 0, 150, 400}} \cup
  {View(At(x, 500), At(-5, 400), Goalie, Far) : x \in {1000, -3600}} \cup
  {View(At(-4000, y), At(0, 0), At(-4400, 700), opp) :
     y \in {900, -1200}, opp \in {At(-3900, 900), Far}}

-----------------------------------------------------------------------------
Formation(h1, h2, h4) ==
  [home |-> [b \in Bots |-> CASE b = 0 -> Goalie [] b = 1 -> h1 [] b = 2 -> h2
               [] b = 3 -> At(2000, 0) [] b = 4 -> h4],
   away |-> [b \in Bots |-> At(4000, 0)],
   heading |-> [b \in Bots |-> "otherwise"], aligned |-> [b \in Bots |-> FALSE]]

MCBalls == {At(-1000, 2500), At(-951, 2549), At(-902, 2598), At(-840, 2960)}

Ahead  == At(-600, 2600)
Behind == At(-1300, 2600)

MCFormations ==
  {Formation(At(-2000, 0), Behind, At(-2500, -2000)),    \* none
   Formation(At(-2000, 0), Ahead, At(-2500, -2000)),     \* 2
   Formation(At(-300, 1000), At(-2500, -2000), Ahead)}   \* 1 and 4

-----------------------------------------------------------------------------
Facing == {a \in 1 - PI .. PI : a % 8 = 0}

MCObstacles == [dir : Facing, half : {4, 12}]

\* An obstacle at SAFE_RADIUS, or further away.
EdgeObstacles == [dir : Facing, half : {0, 4}]
=============================================================================
