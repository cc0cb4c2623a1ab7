----------------------------- MODULE MCMidField -----------------------------
(***************************************************************************)
(* TMidField for robot 2.  The ball is put on both sides of every line the *)
(* cases compare it with, and the robots that matter (the goalkeeper, the  *)
(* robot itself, a team mate and one opponent) near to it and far from it. *)
(***************************************************************************)
EXTENDS TMidField

Balls == {At(1500, 0), At(0, 0), At(-1500, 400), At(-1500, 1500), At(-3900, 900)}

\* mate and opp are the distances of robot 3 and of opponent o from the ball.
SceneOf(ball, bot, mate, o, opp, keeper) ==
  [ball |-> ball, vel |-> At(0, 0),
   home |-> [i \in Bots |-> CASE i = 0 -> At(keeper, 0)
                              [] i = 2 -> bot
                              [] i = 3 -> At(ball.x, ball.y - mate)
                              [] OTHER -> At(2000, 3400)],
   away |-> [i \in Bots |-> IF i = o THEN At(ball.x, ball.y + opp)
                            ELSE At(4000, 3400)],
   heading |-> [i \in Bots |-> "otherwise"],
   aligned |-> [i \in Bots |-> i = 2]]

MCBeliefs ==
  {BeliefOf(SceneOf(ball, bot, mate, o, opp, keeper)) :
     ball \in Balls,
     bot \in {At(-4200, 100), At(1000, 2500), At(4000, 0)},
     mate \in {200, 1000}, o \in {1, 2}, opp \in {200, 1000},
     keeper \in {-4250, -4500}}
=============================================================================
