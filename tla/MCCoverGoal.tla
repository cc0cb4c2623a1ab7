---------------------------- MODULE MCCoverGoal ----------------------------
(***************************************************************************)
(* TCoverGoal for robot 1, as Tester::run makes it.  The ball is in each   *)
(* part of our half that the branches tell apart and in theirs, before, at *)
(* and past the edge of their goal area and near the halfway line, which   *)
(* it is predicted to cross if it is fast and the robot is not too near,   *)
(* at rest or on its way to either goal; the robot is beside it, behind    *)
(* it, past the halfway line, or far; and the goalkeeper is in its goal or *)
(* has come out as far as the halfway line.                                *)
(***************************************************************************)
EXTENDS TCoverGoal

BeliefWith(ball, vx, self, keeper) ==
  BeliefOf([ball |-> ball, vel |-> At(vx, 0),
            home |-> [i \in Bots |-> CASE i = 0 -> keeper
                                       [] i = 1 -> self
                                       [] OTHER -> At(1000, 3000)],
            away |-> [i \in Bots |-> At(2000, -3000)],
            heading |-> [i \in Bots |-> "otherwise"],
            aligned |-> [i \in Bots |-> FALSE]])

Balls == {At(-4000, 1000), At(-4000, 2500), At(-3500, 0), At(-3000, 0),
          At(-1000, 200), At(-50, 200), At(10, 200), At(300, 0), At(3224, 0),
          At(3600, 0)}

Places == {At(-4500, 300), At(-3200, 0), At(-20, 100), At(200, 0), At(2000, 100)}

MCBeliefs ==
  {BeliefWith(ball, vx, self, At(-4250, 0)) :
     ball \in Balls, vx \in {0, 2000}, self \in Places}
  \cup {BeliefWith(ball, -2000, self, At(-4250, 0)) :
          ball \in {At(-3000, 0), At(-1000, 200), At(10, 200)}, self \in Places}
  \cup {BeliefWith(ball, 2000, self, At(-200, 0)) :
          ball \in Balls \cup {At(-10, 200)}, self \in {At(-20, 100), At(200, 0)}}

\* The ball about to leave our half, or in theirs.
BallsUpfield == {s \in MCBeliefs : s.ball.x >= -50}
=============================================================================
