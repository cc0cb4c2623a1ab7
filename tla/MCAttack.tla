------------------------------ MODULE MCAttack ------------------------------
(***************************************************************************)
(* TAttack for robot 1, who alone forms the defenders' swarm (the robots   *)
(* Tester gives the tactic to are in MCTester).  The ball is along a wall, *)
(* in a corner of theirs, at our goal and in the open; the robot is close  *)
(* to it, behind the team mate who plays it, ahead of him inside the field *)
(* or in the strip, or level.                                              *)
(***************************************************************************)
EXTENDS TAttack

InField(p) == AbsOf(p.x) <= HALF_FIELD_MAXX /\ AbsOf(p.y) <= HALF_FIELD_MAXY

Shift(p, x, y) == At(p.x + x, p.y + y)

\* Robot 3 is the team mate; the opponents' nearest is the one numbered opp.
BeliefWith(ball, vy, self, mate, opp, heading) ==
  [ball |-> ball, vel |-> At(0, vy),
   home |-> [i \in Bots |-> CASE i = 0 -> At(-4250, 0)
                              [] i = botID -> self
                              [] i = 3 -> mate
                              [] OTHER -> At(-2000, 0)],
   away |-> [i \in Bots |-> IF i = opp THEN ball ELSE At(0, -3000)],
   heading |-> [i \in Bots |-> IF i = botID THEN heading ELSE "otherwise"],
   aligned |-> [i \in Bots |-> FALSE],
   ourNear |-> IF DistSq(ball, self) < DistSq(ball, mate) THEN botID ELSE 3,
   oppNear |-> opp]

\* A team mate on the ball, the robot somewhere around him.
Escort(ball, vy) ==
  {BeliefWith(ball, vy, self, Shift(ball, -100, 0), opp, "otherwise") :
     self \in {p \in {Shift(ball, -400, -1000), Shift(ball, 800, -1000),
                      Shift(ball, 200, -200), Shift(ball, -90, -200)} : InField(p)},
     opp \in {0, 3}}

\* The robot alone on the ball.
Alone(ball) ==
  {BeliefWith(ball, 0, self, At(-3000, -500), 0, heading) :
     self \in {Shift(ball, -200, 0), Shift(ball, -300, 0), Shift(ball, -500, -90)},
     heading \in {"across", "otherwise"}}

MCBeliefs ==
  UNION {Escort(At(0, 3300), 0), Escort(At(4250, 1500), 200),
         Escort(At(4250, -1500), 0), Escort(At(-3500, 500), 0),
         Alone(At(500, 500)), Alone(At(500, -3300))}

\* The beliefs above name the nearest robots as the belief would.
ASSUME \A s \in MCBeliefs : s.ourNear = OurNearest(s) /\ s.oppNear = OppNearest(s)
=============================================================================
