--------------------------- MODULE MCAttackLingo ---------------------------
(***************************************************************************)
(* TAttackLingo for robot 4, with robot 3 as the team mate.  The ball is   *)
(* at a side wall in each part of the field the cases tell apart (nearer   *)
(* to our goal than either swarm, between the limits of the two, and       *)
(* beyond), in a corner of theirs, in front of our goal and in the open;   *)
(* the robot is ahead of the team mate or not, off the strip, in it or     *)
(* exactly on its edge, and behind the goalkeeper or not.                  *)
(***************************************************************************)
EXTENDS TAttackLingo

InField(p) == AbsOf(p.x) <= HALF_FIELD_MAXX /\ AbsOf(p.y) <= HALF_FIELD_MAXY

Shift(p, x, y) == At(p.x + x, p.y + y)

\* The opponents' robot nearest to the ball has number opp, so 3 makes the
\* team mate pass for it.
BeliefWith(ball, vx, self, mate, opp) ==
  BeliefOf([ball |-> ball, vel |-> At(vx, 0),
            home |-> [i \in Bots |-> CASE i = 0 -> At(-4250, 0)
                                       [] i = 4 -> self
                                       [] i = 3 -> mate
                                       [] OTHER -> At(4000, 0)],
            away |-> [i \in Bots |-> IF i = opp THEN ball ELSE At(0, -3000)],
            heading |-> [i \in Bots |-> "otherwise"],
            aligned |-> [i \in Bots |-> FALSE]])

\* The places of the robot around a ball in the strip: ahead, off the strip, in
\* it and on its edge; behind the ball but ahead of the team mate; alone.
Places(ball) ==
  {p \in {Shift(ball, 700, -900), Shift(ball, 500, 0), At(ball.x + 500, 2929),
          Shift(ball, -150, -450), Shift(ball, -90, -20)} : InField(p)}

OnWall(x) ==
  LET ball == At(x, 3300)
  IN {BeliefWith(ball, vx, self, Shift(ball, mx, 0), opp) :
        vx \in {-100, 0}, self \in Places(ball), mx \in {-200}, opp \in {0, 3}}

InOpen(ball) ==
  {BeliefWith(ball, 0, self, Shift(ball, -1200, 0), 0) :
     self \in {p \in {Shift(ball, -700, 300), Shift(ball, 200, -500),
                      At(-4300, -600)} : InField(p)}}

MCBeliefs ==
  UNION {OnWall(-4400), OnWall(-3400), OnWall(-2700), OnWall(-1000), OnWall(1000),
         InOpen(At(4250, 1500)), InOpen(At(4250, -1500)), InOpen(At(500, 0)),
         {BeliefWith(At(-3900, 1000), -50, self, At(-2000, 1000), 0) :
            self \in {At(-4300, 500), At(-1000, 0)}}}
=============================================================================
