------------------------------ MODULE MCTester ------------------------------
(***************************************************************************)
(* A match of Tester over a handful of beliefs chosen so that every robot  *)
(* is given each of its tactics, some of them only in some of the frames:  *)
(* robot 2 or robot 4 nearer to the ball, or both equally; the nearer one  *)
(* before the ball, behind it or on it; the ball deep in our half, in the  *)
(* middle, along a wall, in a corner of theirs and before our goal.        *)
(***************************************************************************)
EXTENDS Tester

Positions(h0, h1, h2, h3, h4) ==
  [i \in Bots |-> CASE i = 0 -> h0 [] i = 1 -> h1 [] i = 2 -> h2
                    [] i = 3 -> h3 [] i = 4 -> h4]

\* No robot of theirs at the ball.
Nobody == 5

Keeper == At(-4250, 0)

BeliefWith(ball, vel, home, opp, heading) ==
  BeliefOf([ball |-> ball, vel |-> vel, home |-> home,
            away |-> [i \in Bots |-> IF i = opp THEN ball ELSE At(2000, -3000)],
            heading |-> [i \in Bots |-> heading],
            aligned |-> [i \in Bots |-> FALSE]])

MCBeliefs ==
  { \* In the open: 2 circles, 4 plays on; then the other way round.
    BeliefWith(At(0, 0), At(0, 0),
               Positions(Keeper, At(-2000, 0), At(300, 100), At(2000, 0), At(-1500, 500)),
               0, "otherwise"),
    BeliefWith(At(0, 0), At(0, 0),
               Positions(Keeper, At(-2000, 0), At(-1500, 500), At(2000, 0), At(300, 100)),
               0, "otherwise"),
    \* 2, then 4, on the ball and across it.
    BeliefWith(At(0, 0), At(0, 0),
               Positions(Keeper, At(-2000, 0), At(-200, 0), At(2000, 0), At(-1500, 500)),
               0, "across"),
    BeliefWith(At(0, 0), At(0, 0),
               Positions(Keeper, At(-2000, 0), At(-1500, 500), At(2000, 0), At(-200, 0)),
               0, "across"),
    \* Both equally near.
    BeliefWith(At(0, 0), At(0, 0),
               Positions(Keeper, At(-2000, 0), At(-700, 0), At(100, 0), At(-700, 0)),
               0, "otherwise"),
    \* Deep in our half, before our goal, with none near or one.
    BeliefWith(At(-3500, 0), At(0, 0),
               Positions(Keeper, At(-3000, 1000), At(-2300, 0), At(0, 0), At(-2000, 0)),
               0, "otherwise"),
    BeliefWith(At(-3800, 300), At(-100, 0),
               Positions(At(-4000, 200), At(-4300, 1000), At(-2000, 0), At(0, 0), At(-3500, 300)),
               4, "otherwise"),
    \* In the corner by our post, the goalkeeper there or not.
    BeliefWith(At(-4000, 900), At(0, 0),
               Positions(At(-4400, 700), At(-3000, 0), At(-2000, 0), At(0, 0), At(-2500, 0)),
               0, "otherwise"),
    BeliefWith(At(-4000, 900), At(0, 0),
               Positions(At(-4300, 0), At(-3000, 0), At(-2500, 0), At(0, 0), At(-2000, 0)),
               0, "otherwise"),
    \* The goalkeeper out of its area with the ball.
    BeliefWith(At(-2800, 100), At(0, 0),
               Positions(At(-2900, 0), At(-3200, 0), At(-2500, 0), At(0, 0), At(-2000, 0)),
               0, "otherwise"),
    \* Along the wall, 3 with the ball, 2 and 4 ahead of it and behind.
    BeliefWith(At(0, 3300), At(0, 0),
               Positions(Keeper, At(-700, 2500), At(700, 2400), At(-100, 3300), At(-600, 2500)),
               3, "otherwise"),
    BeliefWith(At(0, 3300), At(0, 0),
               Positions(Keeper, At(-90, 2500), At(-1000, 2500), At(-100, 3300), At(500, 2400)),
               3, "otherwise"),
    \* The same with the goalkeeper at the post and no opponent near.
    BeliefWith(At(-4000, 900), At(0, 0),
               Positions(At(-4400, 700), At(-3000, 0), At(-2000, 0), At(0, 0), At(-2500, 0)),
               Nobody, "otherwise"),
    \* Leaving our half past robot 1, and with robot 1 behind it.
    BeliefWith(At(-50, 200), At(2000, 0),
               Positions(Keeper, At(200, 0), At(-1500, 0), At(2000, 0), At(-1200, 300)),
               2, "otherwise"),
    BeliefWith(At(500, 200), At(900, 0),
               Positions(Keeper, At(300, 200), At(-1500, 0), At(2000, 0), At(-1200, 300)),
               1, "otherwise"),
    \* Along the other wall in our half, 3 behind the ball, 4 then 2 in the strip.
    BeliefWith(At(-1500, -3300), At(-200, 0),
               Positions(Keeper, At(-3000, -500), At(-2200, -2500), At(-1700, -3300), At(-1000, -3300)),
               3, "otherwise"),
    BeliefWith(At(-1500, -3300), At(-200, 0),
               Positions(Keeper, At(-3000, -500), At(-1000, -3300), At(-1700, -3300), At(-2200, -2500)),
               3, "otherwise"),
    \* In a corner of theirs.
    BeliefWith(At(4250, 1500), At(0, 200),
               Positions(Keeper, At(0, 0), At(4200, 1400), At(4150, 1500), At(3000, 500)),
               0, "otherwise") }
=============================================================================
