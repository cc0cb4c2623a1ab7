------------------------------ MODULE MCBelief ------------------------------
(***************************************************************************)
(* BeliefState on a handful of ball positions - in either goal, beside a   *)
(* goal, on the latch release lines, on either side of the middle - with   *)
(* the robots placed around the ball in each of the ways a scan can end.   *)
(***************************************************************************)
EXTENDS BeliefState

Balls == {At(4400, 0), At(4400, 900), At(2362, 0), At(2361, 0), At(0, 0),
          At(-100, 500), At(-2362, 0), At(-4400, 900), At(-4400, 0)}

\* Distance to the ball of each robot of a team, number 0 first.
Apart == <<1500, 1200, 900, 1000, 1100>>
Chase == <<1500, 380, 200, 1000, 1100>>   \* 1 has it, 2 is nearer
Tight == <<900, 800, 250, 250, 1000>>

\* The robots are on the ball's line, toward the middle of the field.
Placed(ball, apart) ==
  LET back == IF ball.x < 0 THEN -1 ELSE 1
  IN [i \in Bots |-> At(ball.x - back * apart[i + 1], ball.y)]

Formation(ball, vx, ours, theirs, holder) ==
  [ball |-> ball, vel |-> At(vx, 0),
   home |-> Placed(ball, ours), away |-> Placed(ball, theirs),
   heading |-> [i \in Bots |-> IF i = holder THEN "toward" ELSE "otherwise"],
   aligned |-> [i \in Bots |-> i = 2]]

MCScenes ==
  UNION {{Formation(b, 0, Apart, Apart, 1), Formation(b, -40, Chase, Apart, 1),
          Formation(b, 40, Tight, Tight, 4), Formation(b, 0, Chase, Tight, 1)}
         : b \in Balls}
=============================================================================
