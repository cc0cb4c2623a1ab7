----------------------------- MODULE TestSkill -----------------------------
(***************************************************************************)
(* Where SkillSet::testSkill (Skills/sTestSkill.cpp) expects the ball.  It *)
(* keeps the last three places of the ball it was called with in static    *)
(* variables, which all robots share: in a frame it may be called for      *)
(* robot 1 and for robot 2 or 4, for one of them, or for none.             *)
(***************************************************************************)
EXTENDS LineUp

CONSTANTS
  Balls,      \* where the ball may be
  Formations  \* where the robots may be: home, away, heading, aligned

VARIABLES
  recent,  \* the ball of the last three frames, the last one last
  pos, count,  \* the places kept (pos), and the number of them (i)
  dests,   \* where the robots of the last frame's calls were sent, in order
  played,  \* the belief of the last frame
  run      \* the frames in a row with a call, up to three

vars == <<recent, pos, count, dests, played, run>>

-----------------------------------------------------------------------------
\* The factors of a prediction, in units of 0.000005, by the signed speed.
Factor(v, fastest) ==
  CASE v < 500  -> 3
    [] v < 1000 -> 4
    [] v < 1500 -> 5
    [] v < 2000 -> 7
    [] v < 3000 -> 8
    [] OTHER    -> fastest

factorx(s) == Factor(s.vel.x, 60)
factory(s) == Factor(s.vel.y, 0)

\* Mutant: the two moves are added and not averaged.
AheadAdded(from, move, f, v) ==
  LET n == move * f * v
      q == from + n \div 200000
  IN IF q >= 0 \/ n % 200000 = 0 THEN q ELSE q + 1

\* from + move / 2 * f * v, converted to an int.
Ahead(from, move, f, v) ==
  LET n == move * f * v
      q == from + n \div 400000
  IN IF q >= 0 \/ n % 400000 = 0 THEN q ELSE q + 1

\* Mutant: the oldest place is never given up.
RememberedFirst(h, b) ==
  IF h.i = 0 THEN [pos |-> [k \in 0 .. 2 |-> b], i |-> 1]
  ELSE IF h.i <= 2 THEN [pos |-> [h.pos EXCEPT ![h.i] = b], i |-> h.i + 1]
  ELSE [pos |-> [h.pos EXCEPT ![1] = h.pos[2], ![2] = b], i |-> 3]

\* A call keeps the ball; the first one keeps it in all places.
Remembered(h, b) ==
  IF h.i = 0 THEN [pos |-> [k \in 0 .. 2 |-> b], i |-> 1]
  ELSE IF h.i <= 2 THEN [pos |-> [h.pos EXCEPT ![h.i] = b], i |-> h.i + 1]
  ELSE [pos |-> [k \in 0 .. 2 |-> IF k = 2 THEN b ELSE h.pos[k + 1]], i |-> 3]

-----------------------------------------------------------------------------
(* The destination, rule by rule *)

\* At a wall a ball expected to come back is followed a little faster.
Expected(s, p) ==
  LET moveX == p[2].x - p[0].x
      x == Ahead(s.ball.x, moveX, factorx(s), s.vel.x)
      y == Ahead(s.ball.y, p[2].y - p[0].y, factory(s), s.vel.y)
      back == /\ AbsOf(s.ball.y) > HALF_FIELD_MAXY - (8 * BOT_RADIUS) \div 5
              /\ x < s.ball.x /\ AbsOf(y) > HALF_FIELD_MAXY - 2 * BOT_BALL_THRESH
  IN At(IF back THEN Ahead(s.ball.x, moveX, factorx(s) + 2, s.vel.x) ELSE x, y)

\* A place beyond a side wall is moved half a field, to the middle.
Folded(p) ==
  IF AbsOf(p.y) > HALF_FIELD_MAXY THEN At(p.x, p.y - SGN(p.y) * HALF_FIELD_MAXY) ELSE p

\* A robot ahead of the one nearest to the ball, which plays it along a wall,
\* makes room: behind that one with an opponent near (asked, again, of our robot
\* of its number), or beside it.
MakesRoom(s, b, p) ==
  LET mate == s.home[s.ourNear]
      edge == HALF_FIELD_MAXY - 2 * BOT_RADIUS
      ahead == s.home[b].x > mate.x /\ AbsOf(s.ball.y) > edge
      y == AbsOf(s.home[b].y)
  IN CASE ahead /\ y < edge /\ Within(s.ball, s.home[s.oppNear], 2 * BOT_BALL_THRESH) ->
            At(mate.x - 3 * BOT_RADIUS, mate.y - SGN(mate.y) * 2 * BOT_RADIUS)
       [] ahead /\ y > edge ->
            At(s.home[b].x, mate.y - SGN(mate.y) * ((5 * BOT_RADIUS) \div 2))
       [] OTHER -> p

\* Our goal area is kept clear.
OutOfBox(s, p) ==
  LET x == -HALF_FIELD_MAXX + GOAL_DEPTH + DBOX_WIDTH
  IN IF p.x < x /\ AbsOf(p.y) < OUR_GOAL_MAXY + 4 * BOT_BALL_THRESH
     THEN At(x, -AbsOf(s.ball.y)) ELSE p

Destination(s, b, p) == OutOfBox(s, MakesRoom(s, b, Folded(Expected(s, p))))

-----------------------------------------------------------------------------
\* The velocity the filter reports is the last move of the ball, in 1/60 s.
Scenery(f, b, last) ==
  BeliefOf([ball |-> b, vel |-> At(60 * (b.x - last.x), 60 * (b.y - last.y)),
            home |-> f.home, away |-> f.away,
            heading |-> f.heading, aligned |-> f.aligned])

\* The calls of the frame's robots, one after the other.
Call(s) ==
  LET h1 == Remembered([pos |-> pos, i |-> count], s.ball)
      h2 == Remembered(h1, s.ball)
      who == Callers(s)
  IN CASE Len(who) = 0 -> UNCHANGED <<pos, count>> /\ dests' = <<>> /\ run' = 0
       [] Len(who) = 1 ->
            /\ pos' = h1.pos /\ count' = h1.i
            /\ dests' = <<Destination(s, who[1], h1.pos)>>
            /\ run' = IF run = 3 THEN 3 ELSE run + 1
       [] Len(who) = 2 ->
            /\ pos' = h2.pos /\ count' = h2.i
            /\ dests' = <<Destination(s, who[1], h1.pos), Destination(s, who[2], h2.pos)>>
            /\ run' = IF run = 3 THEN 3 ELSE run + 1

Frame(f, b) ==
  LET s == Scenery(f, b, recent[3])
  IN recent' = <<recent[2], recent[3], b>> /\ played' = s /\ Call(s)

Init ==
  LET b == CHOOSE b \in Balls : TRUE
  IN /\ recent = <<b, b, b>> /\ played = Scenery(CHOOSE f \in Formations : TRUE, b, b)
     /\ pos = [k \in 0 .. 2 |-> b] /\ count = 0 /\ dests = <<>> /\ run = 0

Next == \E f \in Formations, b \in Balls : Frame(f, b)

-----------------------------------------------------------------------------
(* Properties *)

\* Whatever was kept before, and whichever robots call: after three frames with
\* a call each the places kept are the ball of this frame and, in order, of one
\* or two frames before, so a gap in the calls is forgotten.  A frame with two
\* calls keeps its ball twice, so it may be one frame and not two.
HistoryHeals ==
  run = 3 => \E j, k \in 1 .. 3 :
               /\ j <= k /\ j <= 2
               /\ pos[0] = recent[j] /\ pos[1] = recent[k] /\ pos[2] = recent[3]

\* The last two moves of the ball were slower than 3 m/s.
Slow == \A k \in 1 .. 2 : /\ AbsOf(recent[k + 1].x - recent[k].x) < 50
                          /\ AbsOf(recent[k + 1].y - recent[k].y) < 50

\* With its history healed, and off the walls and our goal area, TestSkill leads
\* a ball slower than 3 m/s by at most 6 mm: the prediction sends the robot to
\* the ball itself.  What it does with a history older than that is not bounded,
\* nor with a ball so near our goal area that the lead gets into it.
FollowsBall ==
  /\ run = 3 /\ Slow
  /\ AbsOf(played.ball.y) < HALF_FIELD_MAXY - 3 * BOT_RADIUS
  /\ played.ball.x > -HALF_FIELD_MAXX + GOAL_DEPTH + DBOX_WIDTH + 6
  => \A k \in DOMAIN dests : /\ AbsOf(dests[k].x - played.ball.x) <= 6
                             /\ AbsOf(dests[k].y - played.ball.y) <= 6
=============================================================================
