------------------------------- MODULE Field -------------------------------
(***************************************************************************)
(* The playing field as the strategy sees it: the dimensions of            *)
(* common/include/config.cpp (the SELECT macro keeps their second          *)
(* argument, and an int constant truncates it), the geometry of            *)
(* common/include/geometry.hpp that decisions depend on, and the scene a   *)
(* frame starts from.  All lengths are millimetres; our goal is at         *)
(* negative x.  The code compares square roots; comparing the squares      *)
(* decides the same way.                                                   *)
(***************************************************************************)
EXTENDS Integers

GOAL_DEPTH      == 393
HALF_FIELD_MAXX == 4724
HALF_FIELD_MAXY == 3529
OUR_GOAL_MAXY   == 787
OUR_GOAL_MINY   == -787
OPP_GOAL_MAXY   == 787
OPP_GOAL_MINY   == -787
DBOX_WIDTH      == 1200
MID_FIELD_THRESH == 10
BOT_RADIUS      == 300
BOT_BALL_THRESH == 300
BOT_BALL_THRESH_FOR_PR == 400
BOT_POINT_THRESH == 300
STRIP_WIDTH     == 450

\* The value geometry.hpp gives a coordinate nobody has set.
INF == 9999999

Bots == 0 .. 4

Point == [x : Int, y : Int]

At(x, y) == [x |-> x, y |-> y]

AbsOf(n) == IF n < 0 THEN -n ELSE n

SGN(n) == IF n > 0 THEN 1 ELSE IF n < 0 THEN -1 ELSE 0

DistSq(p, q) == (p.x - q.x) * (p.x - q.x) + (p.y - q.y) * (p.y - q.y)

Within(p, q, d) == DistSq(p, q) < d * d

Beyond(p, q, d) == DistSq(p, q) > d * d

\* The goal box, wider than the goal by four robots, where only one may defend.
InOurBox(p) ==
  /\ p.x < -HALF_FIELD_MAXX + GOAL_DEPTH + 2 * BOT_RADIUS
  /\ AbsOf(p.y) < OUR_GOAL_MAXY + 4 * BOT_RADIUS

(***************************************************************************)
(* A scene is what kFilter.update leaves in the belief before any          *)
(* predicate is computed.  An angle matters only through the tests made of *)
(* it: a home robot heads toward the ball (within 0.2 rad), across the     *)
(* line to the ball (within PI/20 of a right angle), or otherwise; an away *)
(* robot's angle is or is not within 0.1 rad of the direction it is        *)
(* compared with.  Angles are independent of positions, so every           *)
(* combination can occur.                                                  *)
(***************************************************************************)
Heading == {"toward", "across", "otherwise"}

Scene == [ball : Point, vel : Point,
          home : [Bots -> Point], away : [Bots -> Point],
          heading : [Bots -> Heading], aligned : [Bots -> BOOLEAN]]
=============================================================================
