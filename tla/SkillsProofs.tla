---------------------------- MODULE SkillsProofs ----------------------------
(***************************************************************************)
(* Proofs about the skills.  GoToPointDW for every set of changes of the   *)
(* wheel speeds that _goToPointDW can choose from, whose kept speeds, in   *)
(* static variables that all robots share, stay bounded though no test     *)
(* bounds them there; the swing of the goalkeeper for every period and its *)
(* saves for every shot; the obstacles of GoToPoint for every scene and    *)
(* destination, the directions LocalAvoidance::plan takes them to block    *)
(* and the one it takes; the history and the lead of TestSkill for every   *)
(* ball and every formation.                                               *)
(***************************************************************************)
EXTENDS Skills, SequenceTheorems, FiniteSetTheorems, WellFoundedInduction, TLAPS


\* The speeds kept add up to less than 2 * 156 ticks.
RampBounded == ramp \in Int /\ AbsOf(ramp) <= 3103

SpeedsBounded == speeds \in Int \X Int /\ TopSpeed

IInv == RampBounded /\ SpeedsBounded

-----------------------------------------------------------------------------
(* The conversions *)

\* An absolute value is a natural number.
LEMMA AbsOfType ==
  ASSUME NEW n \in Int
  PROVE  AbsOf(n) \in Nat
BY DEF AbsOf

\* The velocity of wheels that differ from the last by c ticks in all is off
\* by at most 1.107 cm/s for every tick.
LEMMA ChangeInCmS ==
  ASSUME NEW c \in -30 .. 30
  PROVE  /\ DW!ticksToCmS(10 * c) \in Int
         /\ 100 * AbsOf(DW!ticksToCmS(10 * c)) <= 1107 * AbsOf(c)
<1> DEFINE q == (10 * AbsOf(c) * 1107) \div 1000
<1>1. q \in Int /\ 0 <= q /\ 100 * q <= 1107 * AbsOf(c)
  BY DEF AbsOf
<1>2. DW!ticksToCmS(10 * c) = IF c < 0 THEN -q ELSE q
  <2>1. CASE c < 0
    <3>1. DW!SGN(10 * c) = -1 /\ DW!AbsOf(10 * c) = 10 * AbsOf(c)
      BY <2>1 DEF DW!SGN, DW!AbsOf, AbsOf
    <3> QED
      BY <1>1, <2>1, <3>1 DEF DW!ticksToCmS, DW!Scaled
  <2>2. CASE c >= 0
    <3>1. DW!SGN(10 * c) \in {0, 1} /\ (DW!SGN(10 * c) = 0 <=> c = 0)
      BY <2>2 DEF DW!SGN
    <3>2. DW!AbsOf(10 * c) = 10 * AbsOf(c)
      BY <2>2 DEF DW!AbsOf, AbsOf
    <3>3. c = 0 => q = 0
      BY DEF AbsOf
    <3> QED
      BY <1>1, <2>2, <3>1, <3>2, <3>3 DEF DW!ticksToCmS, DW!Scaled
  <2> QED
    BY <2>1, <2>2
<1> HIDE DEF q
<1> QED
  BY <1>1, <1>2 DEF AbsOf

\* Keeping a velocity in ticks that was computed from ticks loses a tenth.
LEMMA KeepingLoses ==
  ASSUME NEW v \in Int
  PROVE  /\ DW!cmSToTicks(v) \in Int
         /\ 1107 * AbsOf(DW!cmSToTicks(v)) <= 1000 * AbsOf(v)
<1> DEFINE q == (AbsOf(v) * 1000) \div 1107
<1>1. q \in Int /\ 0 <= q /\ 1107 * q <= 1000 * AbsOf(v)
  BY DEF AbsOf
<1>2. DW!cmSToTicks(v) = IF v < 0 THEN -q ELSE q
  <2>1. CASE v < 0
    <3>1. DW!SGN(v) = -1 /\ DW!AbsOf(v) = AbsOf(v)
      BY <2>1 DEF DW!SGN, DW!AbsOf, AbsOf
    <3> QED
      BY <1>1, <2>1, <3>1 DEF DW!cmSToTicks, DW!Scaled
  <2>2. CASE v >= 0
    <3>1. DW!SGN(v) \in {0, 1} /\ (DW!SGN(v) = 0 <=> v = 0)
      BY <2>2 DEF DW!SGN
    <3>2. DW!AbsOf(v) = AbsOf(v)
      BY <2>2 DEF DW!AbsOf, AbsOf
    <3>3. v = 0 => q = 0
      BY DEF AbsOf
    <3> QED
      BY <1>1, <2>2, <3>1, <3>2, <3>3 DEF DW!cmSToTicks, DW!Scaled
  <2> QED
    BY <2>1, <2>2
<1> HIDE DEF q
<1> QED
  BY <1>1, <1>2 DEF AbsOf

\* What is kept after changes c in all: a tenth less than before, and c.
LEMMA NextRamp ==
  ASSUME RampBounded, NEW c \in -30 .. 30, NEW r, r = DW!Kept(DW!Doubled(c))
  PROVE  r \in Int /\ AbsOf(r) <= 2803 + 10 * AbsOf(c)
<1> DEFINE t == DW!ticksToCmS(10 * c)
           v == ramp + t
<1>1. t \in Int /\ 100 * AbsOf(t) <= 1107 * AbsOf(c)
  BY ChangeInCmS
<1>2. v \in Int /\ 100 * AbsOf(v) <= 310300 + 1107 * AbsOf(c)
  BY <1>1 DEF RampBounded, AbsOf
<1>3. r = DW!cmSToTicks(v)
  BY DEF DW!Kept, DW!Doubled
<1> HIDE DEF v
<1>4. r \in Int /\ 1107 * AbsOf(r) <= 1000 * AbsOf(v)
  BY <1>2, <1>3, KeepingLoses
<1> QED
  BY <1>2, <1>4 DEF AbsOf

-----------------------------------------------------------------------------
(* The invariant *)

\* Both wheels start at rest, and so do the speeds kept.
LEMMA InitBounded == Init => IInv
<1> SUFFICES ASSUME ramp = 0, speeds = <<0, 0>>
             PROVE  IInv
  BY DEF Init, DW!Init
<1>1. TopSpeed
  BY DEF TopSpeed, DW!TopSpeed, DW!AbsOf
<1> QED
  BY <1>1 DEF IInv, RampBounded, SpeedsBounded, AbsOf

\* A wheel's speed from the speeds kept and from the difference of the two
\* changes, which is the smaller the larger their sum is.
LEMMA DriveBounded == IInv /\ DW!Drive => IInv'
<1> SUFFICES ASSUME IInv, DW!Drive
             PROVE  IInv'
  OBVIOUS
<1>1. PICK l \in Changes, r \in Changes :
        /\ ramp' = DW!Kept(DW!Doubled(l + r))
        /\ speeds' = <<(ramp' - 10 * (r - l)) \div 2, (ramp' + 10 * (r - l)) \div 2>>
  BY DEF DW!Drive
<1>2. l \in -15 .. 15 /\ r \in -15 .. 15
  BY ChangesAssumption
<1>3. /\ l + r \in -30 .. 30 /\ r - l \in Int
      /\ AbsOf(r - l) + AbsOf(l + r) <= 30
  BY <1>2 DEF AbsOf
<1>4. ramp' \in Int /\ AbsOf(ramp') <= 2803 + 10 * AbsOf(l + r)
  BY <1>1, <1>3, NextRamp DEF IInv
<1>5. AbsOf(ramp') + 10 * AbsOf(r - l) <= 3103 /\ AbsOf(ramp') <= 3103
  <2>1. AbsOf(r - l) \in Nat /\ AbsOf(l + r) \in Nat /\ AbsOf(ramp') \in Nat
    BY <1>3, <1>4, AbsOfType
  <2> QED
    BY <1>3, <1>4, <2>1
<1>6. speeds' \in Int \X Int /\ AbsOf(speeds'[1]) <= 1560 /\ AbsOf(speeds'[2]) <= 1560
  <2> DEFINE d == r - l
             w1 == (ramp' - 10 * d) \div 2
             w2 == (ramp' + 10 * d) \div 2
  <2>1. /\ w1 \in Int /\ 2 * w1 <= ramp' - 10 * d /\ ramp' - 10 * d <= 2 * w1 + 1
        /\ w2 \in Int /\ 2 * w2 <= ramp' + 10 * d /\ ramp' + 10 * d <= 2 * w2 + 1
    BY <1>3, <1>4
  <2>2. AbsOf(w1) <= 1560 /\ AbsOf(w2) <= 1560
    <3> HIDE DEF w1, w2
    <3> QED
      BY <1>3, <1>4, <1>5, <2>1 DEF AbsOf
  <2> QED
    BY <1>1, <2>1, <2>2
<1> QED
  <2>1. RampBounded'
    BY <1>4, <1>5 DEF RampBounded
  <2>2. TopSpeed'
    BY <1>6 DEF TopSpeed, DW!TopSpeed, DW!AbsOf, AbsOf
  <2> QED
    BY <1>6, <2>1, <2>2 DEF IInv, SpeedsBounded

\* Every step of the composition is one of GoToPointDW or leaves its speeds.
LEMMA NextBounded == IInv /\ [Next]_vars => IInv'
<1> SUFFICES ASSUME IInv, [Next]_vars
             PROVE  IInv'
  OBVIOUS
<1>1. CASE DW!Drive
  BY <1>1, DriveBounded
<1>2. CASE DW!Arrive
  <2>1. ramp' = ramp /\ speeds' = <<0, 0>>
    BY <1>2 DEF DW!Arrive
  <2>2. TopSpeed'
    BY <2>1 DEF TopSpeed, DW!TopSpeed, DW!AbsOf
  <2> QED
    BY <2>1, <2>2 DEF IInv, RampBounded, SpeedsBounded
<1>3. CASE UNCHANGED dwVars
  BY <1>3 DEF dwVars, IInv, RampBounded, SpeedsBounded, TopSpeed, DW!TopSpeed
<1> QED
  BY <1>1, <1>2, <1>3 DEF Next, DW!Next, vars, dwVars

-----------------------------------------------------------------------------
(* The theorem *)

\* In every run of frames of _goToPointDW, whatever changes of the wheels'
\* speeds it finds the best, no wheel is told to turn faster than 156 ticks,
\* though the code's own limits would allow eight times the speed of a robot.
THEOREM TopSpeedCorrect == Spec => []TopSpeed
<1>1. IInv => TopSpeed
  BY DEF IInv, SpeedsBounded
<1> QED
  BY InitBounded, NextBounded, <1>1, PTL DEF Spec

-----------------------------------------------------------------------------
(* The swing of the goalkeeper *)

\* What is held is the place of the count in its period.
SwingInv ==
  /\ ticks \in 0 .. Cycle /\ flag \in {1, -1} /\ held \in 0 .. Period
  /\ ticks # 0 => held = 1 + ((ticks - 1) % Period)

\* A multiple of p less than p away from 0 is 0.
LEMMA NoMultiple ==
  ASSUME NEW p \in Nat \ {0}, NEW d \in Int, d * p < p, -p < d * p
  PROVE  d = 0
<1>1. CASE d >= 1
  <2>1. (d - 1) * p >= 0
    BY <1>1
  <2> QED
    BY <2>1
<1>2. CASE d <= -1
  <2>1. (-1 - d) * p >= 0
    BY <1>2
  <2> QED
    BY <2>1
<1> QED
  BY <1>1, <1>2

\* What is left of n when n - 1 is divided by p, and what of n.
LEMMA OneBefore ==
  ASSUME NEW p \in Nat \ {0}, NEW n \in Nat \ {0}
  PROVE  /\ n % p \in 0 .. p - 1 /\ (n - 1) % p \in 0 .. p - 1
         /\ n % p = 0 => (n - 1) % p = p - 1
         /\ n % p # 0 => (n - 1) % p = (n % p) - 1
<1> DEFINE a == n \div p
           b == (n - 1) \div p
           r == n % p
           s == (n - 1) % p
<1>1. /\ a \in Int /\ r \in 0 .. p - 1 /\ n = p * a + r
      /\ b \in Int /\ s \in 0 .. p - 1 /\ n - 1 = p * b + s
  OBVIOUS
<1> HIDE DEF a, b, r, s
<1>2. (a - b) * p = s - r + 1
  BY <1>1
<1>3. ASSUME r # 0 PROVE s = r - 1
  <2>1. a - b = 0
    BY <1>1, <1>2, <1>3, NoMultiple
  <2> QED
    BY <1>1, <1>2, <1>3, <2>1
<1>4. ASSUME r = 0 PROVE s = p - 1
  <2>1. (a - b - 1) * p = s - r + 1 - p
    BY <1>1, <1>2
  <2>2. a - b - 1 = 0
    BY <1>1, <1>4, <2>1, NoMultiple
  <2> QED
    BY <1>1, <1>4, <2>1, <2>2
<1>5. r \in 0 .. p - 1 /\ s \in 0 .. p - 1
  BY <1>1
<1> QED
  BY <1>3, <1>4, <1>5 DEF r, s

\* The count starts with nothing held.
LEMMA SwingInit == Init => SwingInv
  BY SwingAssumption DEF Init, Goal!Init, SwingInv

\* What a step may do to the sides.
Even ==
  held' <= Period /\ (flag' # flag => held = Period \/ ticks = 0)

\* A frame of oscillation keeps the count in step with what is held.
LEMMA SwingStep == SwingInv /\ Goal!oscillation => SwingInv' /\ Even
<1> SUFFICES ASSUME SwingInv, Goal!oscillation
             PROVE  SwingInv' /\ Even
  OBVIOUS
<1> USE SwingAssumption DEF SwingInv, Goal!oscillation, Even
<1>1. CASE ticks = 0
  <2>1. 0 % Period = 0
    OBVIOUS
  <2> QED
    BY <1>1, <2>1
<1>2. CASE ticks # 0
  <2>1. /\ ticks % Period \in 0 .. Period - 1
        /\ ticks % Period = 0 => held = Period
        /\ ticks % Period # 0 => held = ticks % Period
    <3>1. ticks \in Nat \ {0} /\ Period \in Nat \ {0}
      BY <1>2
    <3>2. held = 1 + ((ticks - 1) % Period)
      BY <1>2
    <3> HIDE DEF SwingInv, Goal!oscillation
    <3>3. /\ ticks % Period \in 0 .. Period - 1
          /\ ticks % Period = 0 => (ticks - 1) % Period = Period - 1
          /\ ticks % Period # 0 => (ticks - 1) % Period = (ticks % Period) - 1
      BY <3>1, OneBefore
    <3> QED
      BY <3>1, <3>2, <3>3
  <2>2. held' = 1 + (ticks % Period)
    BY <2>1
  <2> QED
    BY <1>2, <2>1, <2>2
<1> QED
  BY <1>1, <1>2

\* Every step of the composition is one of oscillation or leaves its count.
LEMMA SwingNext == SwingInv /\ [Next]_vars => SwingInv' /\ Even
<1> SUFFICES ASSUME SwingInv, [Next]_vars
             PROVE  SwingInv' /\ Even
  OBVIOUS
<1>1. Goal!oscillation \/ UNCHANGED <<ticks, flag, held>>
  BY DEF Next, vars, goalVars, Goal!Next, Goal!Frame
<1>2. CASE UNCHANGED <<ticks, flag, held>>
  BY <1>2 DEF SwingInv, Even
<1> QED
  BY <1>1, <1>2, SwingStep

\* For every period and every cycle the goalkeeper stays on a side for a period
\* of frames with the ball far out, but for a single frame where the count
\* starts again.
THEOREM SwingCorrect == Spec => SwingsEvenly
<1>1. SwingInv /\ [Next]_vars => [Even]_(Goal!vars)
  BY SwingNext
<1> QED
  BY SwingInit, SwingNext, <1>1, PTL DEF Spec, SwingsEvenly, Goal!SwingsEvenly, Even

-----------------------------------------------------------------------------
(* The obstacles of _goToPoint *)

\* What is nearer than a robot's radius to a point three of them from the ball
\* is further than two of them from the ball: the triangle inequality for the
\* two legs, coordinate by coordinate.
LEMMA ThreeRadii ==
  \A a, b, c, d \in Int :
    /\ a * a + b * b < 300 * 300 /\ c * c + d * d > 900 * 900
    => (c - a) * (c - a) + (d - b) * (d - b) > 600 * 600
<1>1. ASSUME NEW a \in Int, NEW c \in Int
      PROVE  /\ 2 * (c * c) <= 6 * (a * a) + 3 * ((c - a) * (c - a))
             /\ a * a \in Int /\ c * c \in Int /\ (c - a) * (c - a) \in Int
  <2>1. ASSUME NEW n \in Int PROVE n * n >= 0
    OBVIOUS
  <2>2. (3 * a - c) * (3 * a - c) >= 0
    BY <2>1
  <2>3. (3 * a - c) * (3 * a - c) = 9 * (a * a) - 6 * (a * c) + c * c
    OBVIOUS
  <2>4. (c - a) * (c - a) = c * c - 2 * (a * c) + a * a
    OBVIOUS
  <2> QED
    BY <2>2, <2>3, <2>4
<1> SUFFICES ASSUME NEW a \in Int, NEW b \in Int, NEW c \in Int, NEW d \in Int,
                    a * a + b * b < 300 * 300, c * c + d * d > 900 * 900
             PROVE  (c - a) * (c - a) + (d - b) * (d - b) > 600 * 600
  OBVIOUS
<1>2. /\ 2 * (c * c) <= 6 * (a * a) + 3 * ((c - a) * (c - a))
      /\ a * a \in Int /\ c * c \in Int /\ (c - a) * (c - a) \in Int
      /\ 2 * (d * d) <= 6 * (b * b) + 3 * ((d - b) * (d - b))
      /\ b * b \in Int /\ d * d \in Int /\ (d - b) * (d - b) \in Int
  BY <1>1
<1> QED
  BY <1>2

\* The places the planner was given last are away from the ball.
ObstaclesInv ==
  /\ scene \in Scenes /\ param \in Params
  /\ \A o \in obstacles : o \in Point /\ Go!Beyond(scene.ball, o, 3 * BOT_RADIUS)

\* The planner starts without obstacles.
LEMMA ObstaclesInit == Init => ObstaclesInv
  BY DEF Init, Go!Init, ObstaclesInv

\* Both teams' robots are left out around the ball.
LEMMA ObstaclesNext == ObstaclesInv /\ [Next]_vars => ObstaclesInv'
<1> SUFFICES ASSUME ObstaclesInv, [Next]_vars PROVE ObstaclesInv'
  OBVIOUS
<1>1. CASE UNCHANGED goVars
  BY <1>1 DEF goVars, ObstaclesInv
<1>2. CASE Go!Next
  <2>1. PICK s \in Scenes, h \in Go!TurnedTo, p \in Params : Go!Frame(s, h, p)
    BY <1>2 DEF Go!Next
  <2>2. /\ scene' = s /\ param' = p
        /\ obstacles' = {} \/ obstacles' = Go!HomeObstacles(s, p.dest)
                                             \cup Go!AwayObstacles(s, p.dest)
    BY <2>1 DEF Go!Frame, Go!goToPoint
  <2>3. s.home \in [Bots -> Point] /\ s.away \in [Bots -> Point]
    BY ParamsAssumption DEF ParamsAssumption
  <2>4. ASSUME NEW o \in obstacles'
        PROVE  o \in Point /\ Go!Beyond(s.ball, o, 3 * BOT_RADIUS)
    <3>1. \E j \in Bots : o \in {s.home[j], s.away[j]} /\ Go!InTheWay(s, o)
      BY <2>2, <2>4 DEF Go!HomeObstacles, Go!AwayObstacles, Go!Bots, Bots
    <3> QED
      BY <2>3, <3>1 DEF Go!InTheWay, Go!BOT_RADIUS, BOT_RADIUS
  <2> QED
    BY <2>2, <2>4 DEF ObstaclesInv
<1> QED
  BY <1>1, <1>2 DEF Next, vars

\* Whatever the scenes and the destinations, a robot that goes for the ball is
\* never made by _goToPoint to avoid a robot at the ball.
THEOREM ReachableCorrect == Spec => []BallStaysReachable
<1>1. ObstaclesInv => BallStaysReachable
  <2> SUFFICES ASSUME ObstaclesInv, NEW o \in obstacles,
                      Go!Within(param.dest, o, Go!BOT_RADIUS)
               PROVE  Go!Beyond(param.dest, scene.ball, 2 * Go!BOT_RADIUS)
    BY DEF BallStaysReachable, Go!BallStaysReachable
  <2> DEFINE a == param.dest.x - o.x
             b == param.dest.y - o.y
             c == scene.ball.x - o.x
             d == scene.ball.y - o.y
  <2>1. o \in Point /\ param.dest \in Point /\ scene.ball \in Point
    BY ParamsAssumption DEF ParamsAssumption, ObstaclesInv
  <2>2. a \in Int /\ b \in Int /\ c \in Int /\ d \in Int
    BY <2>1 DEF Point
  <2>3. /\ param.dest.x - scene.ball.x = a - c /\ param.dest.y - scene.ball.y = b - d
        /\ a * a + b * b < 300 * 300 /\ c * c + d * d > 900 * 900
    BY <2>1 DEF ObstaclesInv, Point, Go!Within, Go!Beyond, Go!DistSq, Go!BOT_RADIUS,
       BOT_RADIUS
  <2> HIDE DEF a, b, c, d
  <2>4. (c - a) * (c - a) + (d - b) * (d - b) > 600 * 600
    BY <2>2, <2>3, ThreeRadii
  <2>5. (a - c) * (a - c) = (c - a) * (c - a) /\ (b - d) * (b - d) = (d - b) * (d - b)
    BY <2>2
  <2> QED
    BY <2>3, <2>4, <2>5 DEF Go!Beyond, Go!DistSq, Go!BOT_RADIUS
<1> QED
  BY ObstaclesInit, ObstaclesNext, <1>1, PTL DEF Spec

-----------------------------------------------------------------------------
(* The history of TestSkill *)

\* Two robots call at most: the defender and the leader.
LEMMA CallersFew ==
  ASSUME NEW s
  PROVE  Len(Test!Callers(s)) \in 0 .. 2
<1>1. PICK c : c = CHOOSE b \in Test!Leader(s) : TRUE
  OBVIOUS
<1>2. <<1>> \in Seq({1, c}) /\ <<c>> \in Seq({1, c}) /\ <<>> \in Seq({1, c})
  OBVIOUS
<1>3. PICK p \in {<<1>>, <<>>}, q \in {<<c>>, <<>>} : Test!Callers(s) = p \o q
  BY <1>1 DEF Test!Callers
<1>4. Len(p \o q) = Len(p) + Len(q)
  BY <1>2, <1>3, ConcatProperties
<1> QED
  BY <1>3, <1>4

\* What a call keeps, place by place.
Shifts(i, p, j, q, b) ==
  /\ i = 0 => j = 1 /\ q[0] = b /\ q[1] = b /\ q[2] = b
  /\ i = 1 => j = 2 /\ q[0] = p[0] /\ q[1] = b /\ q[2] = p[2]
  /\ i = 2 => j = 3 /\ q[0] = p[0] /\ q[1] = p[1] /\ q[2] = b
  /\ i = 3 => j = 3 /\ q[0] = p[1] /\ q[1] = p[2] /\ q[2] = b

\* Every count has its own rule.
LEMMA Remembers ==
  ASSUME NEW h, h.i \in 0 .. 3, DOMAIN h.pos = 0 .. 2, h.pos = [k \in 0 .. 2 |-> h.pos[k]],
         NEW b
  PROVE  LET r == Test!Remembered(h, b)
         IN /\ Shifts(h.i, h.pos, r.i, r.pos, b)
            /\ r.i \in 1 .. 3 /\ DOMAIN r.pos = 0 .. 2
            /\ r.pos = [k \in 0 .. 2 |-> r.pos[k]]
<1>1. CASE h.i = 0
  BY <1>1 DEF Test!Remembered, Shifts
<1>2. CASE h.i = 1
  BY <1>2 DEF Test!Remembered, Shifts
<1>3. CASE h.i = 2
  BY <1>3 DEF Test!Remembered, Shifts
<1>4. CASE h.i = 3
  BY <1>4 DEF Test!Remembered, Shifts
<1> QED
  BY <1>1, <1>2, <1>3, <1>4

\* How far the places kept are healed after n frames with calls, where r holds
\* the balls of the last three frames.
Healed(n, i, p, r) ==
  /\ n = 1 => \/ i = 1 /\ p[0] = r[3] /\ p[1] = r[3] /\ p[2] = r[3]
              \/ i = 2 /\ p[1] = r[3]
              \/ i = 3 /\ p[2] = r[3]
  /\ n = 2 => \/ i = 2 /\ p[0] = r[2] /\ p[1] = r[3]
              \/ i = 3 /\ p[1] \in {r[2], r[3]} /\ p[2] = r[3]
  /\ n = 3 => /\ i = 3 /\ p[2] = r[3]
              /\ \/ p[0] = r[1] /\ p[1] \in {r[2], r[3]}
                 \/ p[0] = r[2] /\ p[1] \in {r[2], r[3]}

HistoryTypes ==
  /\ run \in 0 .. 3 /\ count \in 0 .. 3
  /\ DOMAIN pos = 0 .. 2 /\ pos = [k \in 0 .. 2 |-> pos[k]]

HistoryInv == HistoryTypes /\ Healed(run, count, pos, recent)

\* A frame with one call heals by one; so does a second call in the frame.
LEMMA CallHeals ==
  ASSUME NEW n \in 0 .. 3, NEW i \in 0 .. 3, NEW p, NEW r, NEW t, NEW b,
         t[1] = r[2], t[2] = r[3], t[3] = b,
         NEW j, NEW q, Shifts(i, p, j, q, b), Healed(n, i, p, r)
  PROVE  LET m == IF n = 3 THEN 3 ELSE n + 1
         IN /\ Healed(m, j, q, t)
            /\ \A l, w : Shifts(j, q, l, w, b) => Healed(m, l, w, t)
<1>1. CASE n = 0
  BY <1>1 DEF Shifts, Healed
<1>2. CASE n = 1
  BY <1>2 DEF Shifts, Healed
<1>3. CASE n = 2
  BY <1>3 DEF Shifts, Healed
<1>4. CASE n = 3
  BY <1>4 DEF Shifts, Healed
<1> QED
  BY <1>1, <1>2, <1>3, <1>4

\* A frame heals by one, and each of its calls is made with a history so healed.
LEMMA FrameHeals ==
  ASSUME HistoryInv, NEW f, NEW b, Test!Frame(f, b)
  PROVE  /\ HistoryInv'
         /\ \A k \in DOMAIN dests' :
              \E i, p, c : /\ Healed(run', i, p, recent')
                           /\ dests'[k] = Test!Destination(played', c, p)
<1> DEFINE s == Test!Scenery(f, b, recent[3])
           h1 == Test!Remembered([pos |-> pos, i |-> count], b)
           h2 == Test!Remembered(h1, b)
           who == Test!Callers(s)
           m == IF run = 3 THEN 3 ELSE run + 1
<1>1. recent' = <<recent[2], recent[3], b>> /\ played' = s /\ Test!Call(s)
  BY DEF Test!Frame
<1>2. s.ball = b
  BY DEF Test!Scenery, Test!BeliefOf
<1>3. HistoryTypes /\ Healed(run, count, pos, recent)
  BY DEF HistoryInv
<1>4. /\ Shifts(count, pos, h1.i, h1.pos, b)
      /\ h1.i \in 1 .. 3 /\ DOMAIN h1.pos = 0 .. 2 /\ h1.pos = [k \in 0 .. 2 |-> h1.pos[k]]
  <2> DEFINE h == [pos |-> pos, i |-> count]
  <2>1. /\ h.i \in 0 .. 3 /\ DOMAIN h.pos = 0 .. 2 /\ h.pos = [k \in 0 .. 2 |-> h.pos[k]]
        /\ h.i = count /\ h.pos = pos
    BY <1>3 DEF HistoryTypes
  <2> HIDE DEF h
  <2>2. LET r == Test!Remembered(h, b)
        IN /\ Shifts(h.i, h.pos, r.i, r.pos, b)
           /\ r.i \in 1 .. 3 /\ DOMAIN r.pos = 0 .. 2
           /\ r.pos = [k \in 0 .. 2 |-> r.pos[k]]
    BY <2>1, Remembers
  <2> QED
    BY <2>1, <2>2 DEF h
<1> HIDE DEF h1
<1>5. /\ Shifts(h1.i, h1.pos, h2.i, h2.pos, b)
      /\ h2.i \in 1 .. 3 /\ DOMAIN h2.pos = 0 .. 2 /\ h2.pos = [k \in 0 .. 2 |-> h2.pos[k]]
  <2>1. h1.i \in 0 .. 3
    BY <1>4
  <2> QED
    BY <1>4, <2>1, Remembers
<1>6. run \in 0 .. 3 /\ count \in 0 .. 3 /\ m \in 0 .. 3
  BY <1>3 DEF HistoryTypes
<1> HIDE DEF h2, s
<1>7. Healed(m, h1.i, h1.pos, recent') /\ Healed(m, h2.i, h2.pos, recent')
  <2>1. recent'[1] = recent[2] /\ recent'[2] = recent[3] /\ recent'[3] = b
    BY <1>1
  <2>2. LET mm == IF run = 3 THEN 3 ELSE run + 1
        IN /\ Healed(mm, h1.i, h1.pos, recent')
           /\ \A l, w : Shifts(h1.i, h1.pos, l, w, b) => Healed(mm, l, w, recent')
    BY <1>3, <1>4, <1>6, <2>1, CallHeals
  <2> QED
    BY <1>5, <2>2
<1> HIDE DEF m
<1>8. Len(who) \in {0, 1, 2}
  BY CallersFew
<1>9. CASE Len(who) = 0
  <2>1. UNCHANGED <<pos, count>> /\ dests' = <<>> /\ run' = 0
    BY <1>1, <1>9 DEF Test!Call
  <2> QED
    BY <1>3, <2>1 DEF HistoryInv, HistoryTypes, Healed
<1>10. CASE Len(who) = 1
  <2>1. /\ pos' = h1.pos /\ count' = h1.i /\ run' = m
        /\ dests' = <<Test!Destination(s, who[1], h1.pos)>>
    BY <1>1, <1>2, <1>10 DEF Test!Call, h1, m
  <2> QED
    BY <1>1, <1>4, <1>6, <1>7, <2>1 DEF HistoryInv, HistoryTypes
<1>11. CASE Len(who) = 2
  <2>1. /\ pos' = h2.pos /\ count' = h2.i /\ run' = m
        /\ dests' = <<Test!Destination(s, who[1], h1.pos),
                      Test!Destination(s, who[2], h2.pos)>>
    BY <1>1, <1>2, <1>11 DEF Test!Call, h1, h2, m
  <2>2. HistoryInv'
    BY <1>1, <1>5, <1>6, <1>7, <2>1 DEF HistoryInv, HistoryTypes
  <2>3. ASSUME NEW k \in DOMAIN dests'
        PROVE  \E i, p, c : /\ Healed(run', i, p, recent')
                            /\ dests'[k] = Test!Destination(played', c, p)
    <3>1. k \in {1, 2}
      BY <2>1
    <3> QED
      BY <1>1, <1>7, <2>1, <3>1
  <2> QED
    BY <2>2, <2>3
<1> QED
  BY <1>8, <1>9, <1>10, <1>11

-----------------------------------------------------------------------------
(* The lead of TestSkill *)

\* A product is bounded by the product of the bounds of its factors.
LEMMA ProductBounded ==
  \A m, n \in Nat, a, b \in Int :
    -m <= a /\ a <= m /\ -n <= b /\ b <= n
    => a * b \in Int /\ -(m * n) <= a * b /\ a * b <= m * n
<1>1. ASSUME NEW m \in Nat, NEW n \in Nat, NEW a \in -m .. m, NEW b \in 0 .. n
      PROVE  a * b \in Int /\ -(m * n) <= a * b /\ a * b <= m * n
  <2>1. (m - a) * b >= 0 /\ (m + a) * b >= 0 /\ m * (n - b) >= 0
    <3>1. ASSUME NEW x \in Nat, NEW y \in Nat PROVE x * y >= 0
      OBVIOUS
    <3>2. m - a \in Nat /\ m + a \in Nat /\ b \in Nat /\ n - b \in Nat
      OBVIOUS
    <3> QED
      BY <3>1, <3>2
  <2>2. /\ (m - a) * b = m * b - a * b /\ (m + a) * b = m * b + a * b
        /\ m * (n - b) = m * n - m * b
    OBVIOUS
  <2>3. a * b \in Int /\ m * b \in Int /\ m * n \in Int
    OBVIOUS
  <2> QED
    BY <2>1, <2>2, <2>3
<1> SUFFICES ASSUME NEW m \in Nat, NEW n \in Nat, NEW a \in -m .. m, NEW b \in -n .. n
             PROVE  a * b \in Int /\ -(m * n) <= a * b /\ a * b <= m * n
  OBVIOUS
<1>2. CASE b >= 0
  BY <1>1, <1>2
<1>3. CASE b < 0
  <2>1. -a \in -m .. m /\ -b \in 0 .. n /\ (-a) * (-b) = a * b
    BY <1>3
  <2> QED
    BY <1>1, <2>1
<1> QED
  BY <1>2, <1>3

\* What a prediction is made of off the healed history of a slow ball.
Mild(move, f, v) ==
  /\ move \in Int /\ -98 <= move /\ move <= 98
  /\ f \in Int /\ 0 <= f /\ f <= 8
  /\ v \in Int /\ -2999 <= v /\ v <= 2999

\* Within 6 mm.
Near(n, m) == n \in Int /\ m - 6 <= n /\ n <= m + 6

\* Of a move of less than 10 cm in two frames the prediction makes 6 mm at most.
LEMMA AheadBounded ==
  \A from, move, f, v :
    from \in Int /\ Mild(move, f, v) => Near(Test!Ahead(from, move, f, v), from)
<1> SUFFICES ASSUME NEW from \in Int, NEW move \in Int, -98 <= move, move <= 98,
                    NEW f \in Int, 0 <= f, f <= 8, NEW v \in Int, -2999 <= v, v <= 2999
             PROVE  Near(Test!Ahead(from, move, f, v), from)
  BY DEF Mild
<1> DEFINE g == move * f
           n == g * v
           q == n \div 400000
<1>1. g \in Int /\ -784 <= g /\ g <= 784
  <2>1. 98 \in Nat /\ 8 \in Nat /\ f \in Int /\ -8 <= f /\ f <= 8
    OBVIOUS
  <2>2. g \in Int /\ -(98 * 8) <= g /\ g <= 98 * 8
    BY <2>1, ProductBounded
  <2> HIDE DEF g
  <2> QED
    BY <2>2
<1> HIDE DEF g
<1>2. n \in Int /\ -2351216 <= n /\ n <= 2351216
  <2>1. 784 \in Nat /\ 2999 \in Nat
    OBVIOUS
  <2>2. n \in Int /\ -(784 * 2999) <= n /\ n <= 784 * 2999
    BY <1>1, <2>1, ProductBounded
  <2> HIDE DEF n
  <2> QED
    BY <2>2
<1> HIDE DEF n
<1>3. q \in Int /\ -6 <= q /\ q <= 5
  BY <1>2
<1>4. Test!Ahead(from, move, f, v) =
        IF from + q >= 0 \/ n % 400000 = 0 THEN from + q ELSE from + q + 1
  BY DEF Test!Ahead, n, g
<1> HIDE DEF q
<1> QED
  BY <1>3, <1>4 DEF Near

\* The last two moves of the ball, in either direction.
SlowIn(r) ==
  \A k \in 1 .. 2 :
    /\ AbsOf(r[k + 1].x - r[k].x) < 50 /\ AbsOf(r[k + 1].y - r[k].y) < 50

\* None of the rules about the walls, the robots at them and our goal area has
\* a say there, so what is left is the prediction.
LEMMA Follows ==
  ASSUME NEW r, \A k \in 1 .. 3 : r[k] \in Point, SlowIn(r),
         NEW s, s.ball = r[3],
         s.vel = [x |-> 60 * (r[3].x - r[2].x), y |-> 60 * (r[3].y - r[2].y)],
         AbsOf(s.ball.y) < 2629, s.ball.x > -3125,
         NEW p, p[2] = r[3], p[0] \in {r[1], r[2]}, NEW c
  PROVE  LET d == Test!Destination(s, c, p)
         IN AbsOf(d.x - s.ball.x) <= 6 /\ AbsOf(d.y - s.ball.y) <= 6
<1> DEFINE mx == p[2].x - p[0].x
           my == p[2].y - p[0].y
<1>1. /\ s.ball.x \in Int /\ s.ball.y \in Int /\ mx \in Int /\ my \in Int
      /\ s.vel.x \in Int /\ s.vel.y \in Int
      /\ -98 <= mx /\ mx <= 98 /\ -98 <= my /\ my <= 98
      /\ -2999 <= s.vel.x /\ s.vel.x <= 2999 /\ -2999 <= s.vel.y /\ s.vel.y <= 2999
  <2>1. /\ r[1].x \in Int /\ r[2].x \in Int /\ r[3].x \in Int
        /\ r[1].y \in Int /\ r[2].y \in Int /\ r[3].y \in Int
    BY DEF Point
  <2>2. /\ AbsOf(r[2].x - r[1].x) < 50 /\ AbsOf(r[2].y - r[1].y) < 50
        /\ AbsOf(r[3].x - r[2].x) < 50 /\ AbsOf(r[3].y - r[2].y) < 50
    BY DEF SlowIn
  <2>3. /\ s.ball.x \in Int /\ s.ball.y \in Int
        /\ s.vel.x = 60 * (r[3].x - r[2].x) /\ s.vel.y = 60 * (r[3].y - r[2].y)
    BY <2>1
  <2>4. /\ p[2].x = r[3].x /\ p[2].y = r[3].y
        /\ \/ p[0].x = r[1].x /\ p[0].y = r[1].y
           \/ p[0].x = r[2].x /\ p[0].y = r[2].y
    OBVIOUS
  <2> QED
    BY <2>1, <2>2, <2>3, <2>4 DEF AbsOf
<1>2. /\ Test!factorx(s) \in Int /\ 0 <= Test!factorx(s) /\ Test!factorx(s) <= 8
      /\ Test!factory(s) \in Int /\ 0 <= Test!factory(s) /\ Test!factory(s) <= 8
  BY <1>1 DEF Test!factorx, Test!factory, Test!Factor
<1> DEFINE x == Test!Ahead(s.ball.x, mx, Test!factorx(s), s.vel.x)
           y == Test!Ahead(s.ball.y, my, Test!factory(s), s.vel.y)
<1> HIDE DEF mx, my
<1>3. Near(x, s.ball.x) /\ Near(y, s.ball.y)
  <2>1. Mild(mx, Test!factorx(s), s.vel.x) /\ Mild(my, Test!factory(s), s.vel.y)
    BY <1>1, <1>2 DEF Mild
  <2> QED
    BY <1>1, <2>1, AheadBounded
<1>4. Test!Expected(s, p) = [x |-> x, y |-> y]
  <2>1. ~(Test!AbsOf(s.ball.y) > Test!HALF_FIELD_MAXY - (8 * Test!BOT_RADIUS) \div 5)
    BY <1>1 DEF AbsOf, Test!AbsOf, Test!HALF_FIELD_MAXY, Test!BOT_RADIUS
  <2> QED
    BY <2>1 DEF Test!Expected, Test!At, mx, my
<1> HIDE DEF x, y
<1> DEFINE e == [x |-> x, y |-> y]
<1>5. Test!Folded(e) = e
  BY <1>1, <1>3 DEF Near, Test!Folded, Test!AbsOf, AbsOf, Test!HALF_FIELD_MAXY
<1>6. Test!MakesRoom(s, c, e) = e
  <2>1. ~(Test!AbsOf(s.ball.y) > Test!HALF_FIELD_MAXY - 2 * Test!BOT_RADIUS)
    BY <1>1 DEF AbsOf, Test!AbsOf, Test!HALF_FIELD_MAXY, Test!BOT_RADIUS
  <2> QED
    BY <2>1 DEF Test!MakesRoom
<1>7. Test!OutOfBox(s, e) = e
  BY <1>1, <1>3 DEF Near, Test!OutOfBox, Test!HALF_FIELD_MAXX, Test!GOAL_DEPTH,
     Test!DBOX_WIDTH
<1>8. Test!Destination(s, c, p) = e
  BY <1>4, <1>5, <1>6, <1>7 DEF Test!Destination
<1> QED
  BY <1>1, <1>3, <1>8 DEF Near, AbsOf

-----------------------------------------------------------------------------
(* The theorems about TestSkill *)

\* With no ball to choose from there is no frame.
TestInv ==
  /\ HistoryInv /\ FollowsBall
  /\ Balls # {} => \A k \in 1 .. 3 : recent[k] \in Point

\* TestSkill starts with nothing kept and nobody sent anywhere.
LEMMA TestInit == Init => TestInv
<1> SUFFICES ASSUME Init PROVE TestInv
  OBVIOUS
<1> DEFINE b == CHOOSE b \in Balls : TRUE
<1>1. /\ recent = <<b, b, b>> /\ pos = [k \in 0 .. 2 |-> b]
      /\ count = 0 /\ dests = <<>> /\ run = 0
  BY DEF Init, Test!Init
<1>2. HistoryInv
  BY <1>1 DEF HistoryInv, HistoryTypes, Healed
<1>3. Balls # {} => b \in Point
  BY HistoryAssumption DEF HistoryAssumption
<1> QED
  BY <1>1, <1>2, <1>3 DEF TestInv, FollowsBall, Test!FollowsBall

\* Every step of the composition is a frame of TestSkill or leaves its history.
LEMMA TestNext == TestInv /\ [Next]_vars => TestInv'
<1> SUFFICES ASSUME TestInv, [Next]_vars PROVE TestInv'
  OBVIOUS
<1>1. CASE UNCHANGED testVars
  BY <1>1 DEF testVars, TestInv, HistoryInv, HistoryTypes, Healed, FollowsBall,
     Test!FollowsBall, Test!Slow
<1>2. CASE Test!Next
  <2>1. PICK f \in Formations, b \in Balls : Test!Frame(f, b)
    BY <1>2 DEF Test!Next
  <2>2. HistoryInv
    BY DEF TestInv
  <2>3. /\ HistoryInv'
        /\ \A k \in DOMAIN dests' :
             \E i, p, c : /\ Healed(run', i, p, recent')
                          /\ dests'[k] = Test!Destination(played', c, p)
    BY <2>1, <2>2, FrameHeals
  <2>4. /\ recent' = <<recent[2], recent[3], b>>
        /\ played'.ball = b
        /\ played'.vel = [x |-> 60 * (b.x - recent[3].x), y |-> 60 * (b.y - recent[3].y)]
    BY <2>1 DEF Test!Frame, Test!Scenery, Test!BeliefOf, Test!At
  <2>5. \A k \in 1 .. 3 : recent'[k] \in Point
    BY <2>4, HistoryAssumption DEF HistoryAssumption, TestInv
  <2>6. FollowsBall'
    <3> SUFFICES ASSUME run' = 3, Test!Slow',
                        Test!AbsOf(played'.ball.y) < Test!HALF_FIELD_MAXY - 3 * Test!BOT_RADIUS,
                        played'.ball.x > -Test!HALF_FIELD_MAXX + Test!GOAL_DEPTH
                                           + Test!DBOX_WIDTH + 6,
                        NEW k \in DOMAIN dests'
                 PROVE  /\ Test!AbsOf(dests'[k].x - played'.ball.x) <= 6
                        /\ Test!AbsOf(dests'[k].y - played'.ball.y) <= 6
      BY DEF FollowsBall, Test!FollowsBall
    <3>1. PICK i, p, c : /\ Healed(3, i, p, recent')
                         /\ dests'[k] = Test!Destination(played', c, p)
      BY <2>3
    <3>2. p[2] = recent'[3] /\ p[0] \in {recent'[1], recent'[2]}
      BY <3>1 DEF Healed
    <3>3. SlowIn(recent')
      BY DEF SlowIn, Test!Slow, Test!AbsOf, AbsOf
    <3>4. AbsOf(played'.ball.y) < 2629 /\ played'.ball.x > -3125
      BY DEF AbsOf, Test!AbsOf, Test!HALF_FIELD_MAXY, Test!BOT_RADIUS,
         Test!HALF_FIELD_MAXX, Test!GOAL_DEPTH, Test!DBOX_WIDTH
    <3>5. /\ played'.ball = recent'[3]
          /\ played'.vel = [x |-> 60 * (recent'[3].x - recent'[2].x),
                            y |-> 60 * (recent'[3].y - recent'[2].y)]
      BY <2>4
    <3>6. LET d == Test!Destination(played', c, p)
          IN AbsOf(d.x - played'.ball.x) <= 6 /\ AbsOf(d.y - played'.ball.y) <= 6
      BY <2>5, <3>2, <3>3, <3>4, <3>5, Follows
    <3> QED
      BY <3>1, <3>6 DEF AbsOf, Test!AbsOf
  <2> QED
    BY <2>3, <2>5, <2>6 DEF TestInv
<1> QED
  BY <1>1, <1>2 DEF Next, vars

\* Whatever the robots and whichever of them call, after three frames with calls
\* TestSkill has forgotten what it kept before.
THEOREM HistoryCorrect == Spec => []HistoryHeals
<1>1. TestInv => HistoryHeals
  <2> SUFFICES ASSUME TestInv, run = 3
               PROVE  \E j, k \in 1 .. 3 :
                        /\ j <= k /\ j <= 2
                        /\ pos[0] = recent[j] /\ pos[1] = recent[k] /\ pos[2] = recent[3]
    BY DEF HistoryHeals, Test!HistoryHeals
  <2>1. /\ pos[0] = recent[1] \/ pos[0] = recent[2]
        /\ pos[1] = recent[2] \/ pos[1] = recent[3]
        /\ pos[2] = recent[3]
    BY DEF TestInv, HistoryInv, Healed
  <2> QED
    BY <2>1
<1> QED
  BY TestInit, TestNext, <1>1, PTL DEF Spec

\* For every ball and every formation: with its history healed TestSkill leads a
\* slow ball in the open by 6 mm at most, that is, it sends the robot to the
\* ball itself.
THEOREM FollowsCorrect == Spec => []FollowsBall
<1>1. TestInv => FollowsBall
  BY DEF TestInv
<1> QED
  BY TestInit, TestNext, <1>1, PTL DEF Spec

-----------------------------------------------------------------------------
(* The shot at our goal *)

\* The quotient of n by d, d > 0, without its fraction.
Rounds(m, n, d) ==
  /\ m \in Int
  /\ n >= 0 => 0 <= m /\ m * d <= n /\ n < (m + 1) * d
  /\ n <= 0 => m <= 0 /\ n <= m * d /\ (m - 1) * d < n

\* A factor common to two products can be cancelled, and kept.
LEMMA Ordered ==
  \A a, b, c \in Int : c > 0 =>
    /\ a * c < b * c => a < b
    /\ a <= b => a * c <= b * c
<1>1. ASSUME NEW a \in Int, NEW b \in Int, NEW c \in Int, c > 0, a * c < b * c
      PROVE  a < b
  BY <1>1
<1>2. ASSUME NEW a \in Int, NEW b \in Int, NEW c \in Int, c > 0, a <= b
      PROVE  a * c <= b * c
  BY <1>2
<1> QED
  BY <1>1, <1>2

\* A conversion to int.
LEMMA TruncatedRounds ==
  \A n, d \in Int : d > 0 => Rounds(Goal!Truncated(-n, -d), n, d)
<1>1. ASSUME NEW a \in Int, NEW b \in Int, b > 0
      PROVE  a \div b \in Int /\ (a \div b) * b <= a
  <2>1. a \div b \in Int
    BY <1>1
  <2> QED
    BY <1>1, <2>1
<1>2. ASSUME NEW a \in Int, NEW b \in Int, b > 0
      PROVE  a < (a \div b + 1) * b
  BY <1>2
<1> SUFFICES ASSUME NEW n \in Int, NEW d \in Int, d > 0
             PROVE  Rounds(Goal!Truncated(-n, -d), n, d)
  OBVIOUS
<1> DEFINE a == IF n < 0 THEN -n ELSE n
           q == a \div d
<1>3. Goal!Truncated(-n, -d) = IF n < 0 THEN -q ELSE q
  <2>1. Goal!SGN(-d) = -1 /\ Goal!AbsOf(-d) = d /\ Goal!AbsOf(-n) = a
    BY DEF Goal!SGN, Goal!AbsOf
  <2>2. Goal!SGN(-n) = IF n > 0 THEN -1 ELSE IF n < 0 THEN 1 ELSE 0
    BY DEF Goal!SGN
  <2>3. q \in Int /\ (n = 0 => q = 0)
    <3>1. a \in Int
      OBVIOUS
    <3>2. 0 \div d = 0
      OBVIOUS
    <3>3. q \in Int
      BY <1>1, <3>1
    <3> QED
      BY <3>2, <3>3
  <2> HIDE DEF q, a
  <2> QED
    BY <2>1, <2>2, <2>3 DEF Goal!Truncated, q
<1>4. a \in Int /\ a >= 0 /\ (n < 0 => a = -n) /\ (n >= 0 => a = n)
  OBVIOUS
<1> HIDE DEF a
<1>5. q \in Int /\ q * d <= a /\ a < (q + 1) * d
  BY <1>1, <1>2, <1>4
<1> HIDE DEF q
<1>6. q >= 0
  <2>1. 0 * d < (q + 1) * d
    BY <1>4, <1>5
  <2>2. 0 < q + 1
    BY <1>5, <2>1, Ordered
  <2> QED
    BY <1>5, <2>2
<1>7. q * d \in Int /\ (q + 1) * d = q * d + d /\ (-q) * d = -(q * d)
      /\ (-q - 1) * d = -(q * d) - d /\ (q - 1) * d = q * d - d
  BY <1>5
<1>8. CASE n < 0
  BY <1>3, <1>4, <1>5, <1>6, <1>7, <1>8 DEF Rounds
<1>9. CASE n = 0
  <2>1. q * d <= 0 * d
    BY <1>4, <1>5, <1>9
  <2>2. q = 0
    <3>1. SUFFICES ASSUME q > 0 PROVE FALSE
      BY <1>5, <1>6
    <3>2. 1 * d <= q * d
      BY <1>5, <3>1, Ordered
    <3> QED
      BY <2>1, <3>2, <1>7
  <2> QED
    BY <1>3, <1>9, <2>2 DEF Rounds
<1>10. CASE n > 0
  BY <1>3, <1>4, <1>5, <1>6, <1>7, <1>10 DEF Rounds
<1> QED
  BY <1>8, <1>9, <1>10

\* A converted number is compared with a whole one as the number itself is.
LEMMA Compares ==
  \A m, n, d, c \in Int : d > 0 /\ c >= 0 /\ Rounds(m, n, d) =>
    /\ m > c <=> n >= (c + 1) * d
    /\ m < -c <=> n <= -((c + 1) * d)
<1> SUFFICES ASSUME NEW m \in Int, NEW n \in Int, NEW d \in Int, NEW c \in Int,
                    d > 0, c >= 0, Rounds(m, n, d)
             PROVE  /\ m > c <=> n >= (c + 1) * d
                    /\ m < -c <=> n <= -((c + 1) * d)
  OBVIOUS
<1>1. (c + 1) * d >= d
  <2>1. 1 * d <= (c + 1) * d
    BY Ordered
  <2> QED
    BY <2>1
<1>2. m * d \in Int /\ (c + 1) * d \in Int /\ (m + 1) * d \in Int /\ (m - 1) * d \in Int
      /\ (-(c + 1)) * d = -((c + 1) * d)
  OBVIOUS
<1>3. ASSUME m > c PROVE n >= (c + 1) * d
  <2>1. (c + 1) * d <= m * d
    BY <1>3, Ordered
  <2> QED
    BY <1>2, <1>3, <2>1 DEF Rounds
<1>4. ASSUME n >= (c + 1) * d PROVE m > c
  <2>1. (c + 1) * d < (m + 1) * d
    BY <1>1, <1>2, <1>4 DEF Rounds
  <2>2. c + 1 < m + 1
    BY <2>1, Ordered
  <2> QED
    BY <2>2
<1>5. ASSUME m < -c PROVE n <= -((c + 1) * d)
  <2>1. m * d <= (-(c + 1)) * d
    BY <1>5, Ordered
  <2> QED
    BY <1>2, <1>5, <2>1 DEF Rounds
<1>6. ASSUME n <= -((c + 1) * d) PROVE m < -c
  <2>1. (m - 1) * d < (-(c + 1)) * d
    BY <1>1, <1>2, <1>6 DEF Rounds
  <2>2. m - 1 < -(c + 1)
    BY <2>1, Ordered
  <2> QED
    BY <2>2
<1> QED
  BY <1>3, <1>4, <1>5, <1>6

\* Two converted numbers differ by less than the numbers and two.
LEMMA Differ ==
  ASSUME NEW d \in Int, d > 0, NEW m \in Int, NEW n \in Int, NEW k \in Int, NEW l \in Int,
         Rounds(m, n, d), Rounds(k, l, d), 2 * (n - l) <= 597 * d
  PROVE  m - k <= 300
<1>1. m * d \in Int /\ k * d \in Int /\ (k + 1) * d = k * d + d /\ (m - 1) * d = m * d - d
      /\ (m - k) * d = m * d - k * d
  OBVIOUS
<1>2. m * d < n + d /\ l < k * d + d
  BY <1>1 DEF Rounds
<1>3. (m - k) * d < 301 * d
  BY <1>1, <1>2
<1>4. m - k < 301
  BY <1>3, Ordered
<1> QED
  BY <1>4

\* A ball is y from the axis and k before a line, and moves w along it while it
\* comes d nearer; at the line it is n / d from the axis.
Line(y, k, w, d, n) ==
  /\ y \in Int /\ k \in Int /\ k > 0 /\ w \in Int /\ d \in Int /\ d > 0
  /\ n \in Int /\ n = y * d + k * w

\* A ball that rolls outwards and is off the goal at a line was off it before it.
LEMMA RollsIn ==
  \A y, k, w, d, n : Line(y, k, w, d, n) =>
    /\ n >= 788 * d /\ w < 0 => y > 788
    /\ n <= -(788 * d) /\ w > 0 => y < -788
<1> SUFFICES ASSUME NEW y, NEW k, NEW w, NEW d, NEW n, Line(y, k, w, d, n)
             PROVE  /\ n >= 788 * d /\ w < 0 => y > 788
                    /\ n <= -(788 * d) /\ w > 0 => y < -788
  OBVIOUS
<1>0. /\ y \in Int /\ k \in Int /\ k > 0 /\ w \in Int /\ d \in Int /\ d > 0
      /\ n = y * d + k * w
  BY DEF Line
<1>1. /\ y * d \in Int /\ k * w \in Int /\ 788 * d \in Int /\ (-788) * d = -(788 * d)
      /\ w * k = k * w
  BY <1>0
<1>2. ASSUME n >= 788 * d, w < 0 PROVE y > 788
  <2>1. w * k < 0
    <3>1. w * k <= (-1) * k
      BY <1>0, <1>2, Ordered
    <3> QED
      BY <1>0, <3>1
  <2>2. 788 * d < y * d
    BY <1>0, <1>1, <1>2, <2>1
  <2> QED
    BY <1>0, <2>2, Ordered
<1>3. ASSUME n <= -(788 * d), w > 0 PROVE y < -788
  <2>1. w * k > 0
    <3>1. 1 * k <= w * k
      BY <1>0, <1>3, Ordered
    <3> QED
      BY <1>0, <3>1
  <2>2. y * d < (-788) * d
    BY <1>0, <1>1, <1>3, <2>1
  <2> QED
    BY <1>0, <2>2, Ordered
<1> QED
  BY <1>2, <1>3

\* What a comparison of a conversion with one of the code's constants says.
LEMMA Beyonds ==
  ASSUME NEW d \in Int, d > 0, NEW m, NEW n \in Int, Rounds(m, n, d)
  PROVE  /\ m > 436 <=> n >= 437 * d
         /\ m < -436 <=> n <= -(437 * d)
         /\ m > 787 <=> n >= 788 * d
         /\ m < -787 <=> n <= -(788 * d)
         /\ m > 892 <=> n >= 893 * d
         /\ m < -892 <=> n <= -(893 * d)
<1>1. m \in Int
  BY DEF Rounds
<1>2. ASSUME NEW c \in Nat
      PROVE  (m > c <=> n >= (c + 1) * d) /\ (m < -c <=> n <= -((c + 1) * d))
  BY <1>1, Compares
<1>3. (m > 436 <=> n >= (436 + 1) * d) /\ (m < -436 <=> n <= -((436 + 1) * d))
  BY <1>2
<1>4. (m > 787 <=> n >= (787 + 1) * d) /\ (m < -787 <=> n <= -((787 + 1) * d))
  BY <1>2
<1>5. (m > 892 <=> n >= (892 + 1) * d) /\ (m < -892 <=> n <= -((892 + 1) * d))
  BY <1>2
<1> QED
  BY <1>3, <1>4, <1>5

\* A point kept between the posts.
Kept(t, margin) ==
  IF t >= 787 THEN 787 - margin ELSE IF t <= -787 THEN margin - 787 ELSE t

\* A ball that comes in no steeper than one to two.
Rolls(d, w, y, k, n) ==
  Line(y, k, w, d, n) /\ -d <= 2 * w /\ 2 * w <= d

\* From their half: f is where the ball crosses the edge of our goal area, m where
\* it crosses the goalkeeper's line, g the goal line.
FromFar(d, w, y, k, n, f, m, g) ==
  /\ Rolls(d, w, y, k, n)
  /\ Rounds(f, n, d) /\ Rounds(m, n + 597 * w, d) /\ Rounds(g, n + 807 * w, d)
  /\ -787 <= g /\ g <= 787

\* The point is 300 mm off at most.
LEMMA ShotFromFar ==
  ASSUME NEW d, NEW w, NEW y, NEW k, NEW n, NEW f, NEW m, NEW g,
         FromFar(d, w, y, k, n, f, m, g)
  PROVE  LET p == Kept(IF f > 787 \/ f < -787 THEN y ELSE f, 60)
         IN -300 <= m - p /\ m - p <= 300
<1>0. /\ d \in Int /\ d > 0 /\ w \in Int /\ -d <= 2 * w /\ 2 * w <= d
      /\ y \in Int /\ n \in Int /\ Line(y, k, w, d, n)
      /\ Rounds(f, n, d) /\ Rounds(m, n + 597 * w, d) /\ Rounds(g, n + 807 * w, d)
      /\ -787 <= g /\ g <= 787
  BY DEF FromFar, Rolls, Line
<1>1. f \in Int /\ m \in Int /\ g \in Int /\ n + 597 * w \in Int /\ n + 807 * w \in Int
  BY <1>0 DEF Rounds
<1>2. n + 807 * w < 788 * d /\ n + 807 * w > -(788 * d)
  <2>1. /\ g > 787 <=> n + 807 * w >= 788 * d
        /\ g < -787 <=> n + 807 * w <= -(788 * d)
    BY <1>0, <1>1, Beyonds
  <2> QED
    BY <1>0, <1>1, <2>1
<1>3. -892 <= m /\ m <= 892
  <2>1. /\ m > 892 <=> n + 597 * w >= 893 * d
        /\ m < -892 <=> n + 597 * w <= -(893 * d)
    BY <1>0, <1>1, Beyonds
  <2> QED
    BY <1>0, <1>1, <1>2, <2>1
<1>4. m - f <= 300 /\ f - m <= 300
  BY <1>0, <1>1, Differ
<1>5. CASE f > 787
  <2>1. n >= 788 * d
    BY <1>0, <1>1, <1>5, Beyonds
  <2>2. w < 0
    BY <1>0, <1>2, <2>1
  <2>3. y > 788
    BY <1>0, <2>1, <2>2, RollsIn
  <2> QED
    BY <1>0, <1>1, <1>3, <1>4, <1>5, <2>3 DEF Kept
<1>6. CASE f < -787
  <2>1. n <= -(788 * d)
    BY <1>0, <1>1, <1>6, Beyonds
  <2>2. w > 0
    BY <1>0, <1>2, <2>1
  <2>3. y < -788
    BY <1>0, <2>1, <2>2, RollsIn
  <2> QED
    BY <1>0, <1>1, <1>3, <1>4, <1>6, <2>3 DEF Kept
<1>7. CASE -787 <= f /\ f <= 787
  BY <1>0, <1>1, <1>3, <1>4, <1>7 DEF Kept
<1> QED
  BY <1>0, <1>1, <1>5, <1>6, <1>7

\* From our half: m is where the ball crosses the goalkeeper's line, i the line
\* inside the goal, g the goal line.
FromNear(d, w, y, k, n, m, i, g) ==
  /\ Rolls(d, w, y, k, n)
  /\ Rounds(m, n, d) /\ Rounds(i, n + 360 * w, d) /\ Rounds(g, n + 210 * w, d)
  /\ -787 <= g /\ g <= 787

\* The point is 300 mm off at most, on either line.
LEMMA ShotFromNear ==
  ASSUME NEW d, NEW w, NEW y, NEW k, NEW n, NEW m, NEW i, NEW g,
         FromNear(d, w, y, k, n, m, i, g)
  PROVE  /\ m > 787 => -300 <= i - 737 /\ i - 737 <= 300 /\ y > 787
         /\ m < -787 => -300 <= i + 737 /\ i + 737 <= 300 /\ y < -787
         /\ -892 <= m /\ m <= 892
         /\ -300 <= m - Kept(m, 50) /\ m - Kept(m, 50) <= 300
<1>0. /\ d \in Int /\ d > 0 /\ w \in Int /\ -d <= 2 * w /\ 2 * w <= d
      /\ y \in Int /\ n \in Int /\ Line(y, k, w, d, n)
      /\ Rounds(m, n, d) /\ Rounds(i, n + 360 * w, d) /\ Rounds(g, n + 210 * w, d)
      /\ -787 <= g /\ g <= 787
  BY DEF FromNear, Rolls, Line
<1>1. i \in Int /\ m \in Int /\ g \in Int /\ n + 360 * w \in Int /\ n + 210 * w \in Int
  BY <1>0 DEF Rounds
<1>2. n + 210 * w < 788 * d /\ n + 210 * w > -(788 * d)
  <2>1. /\ g > 787 <=> n + 210 * w >= 788 * d
        /\ g < -787 <=> n + 210 * w <= -(788 * d)
    BY <1>0, <1>1, Beyonds
  <2> QED
    BY <1>0, <1>1, <2>1
<1>3. -892 <= m /\ m <= 892
  <2>1. (m > 892 <=> n >= 893 * d) /\ (m < -892 <=> n <= -(893 * d))
    BY <1>0, Beyonds
  <2> QED
    BY <1>0, <1>1, <1>2, <2>1
<1>4. /\ i > 436 <=> n + 360 * w >= 437 * d
      /\ i < -436 <=> n + 360 * w <= -(437 * d)
      /\ i > 892 <=> n + 360 * w >= 893 * d
      /\ i < -892 <=> n + 360 * w <= -(893 * d)
  BY <1>0, <1>1, Beyonds
<1>5. ASSUME m > 787 PROVE -300 <= i - 737 /\ i - 737 <= 300 /\ y > 787
  <2>1. n >= 788 * d
    BY <1>0, <1>5, Beyonds
  <2>2. w < 0
    BY <1>0, <1>2, <2>1
  <2>3. y > 788
    BY <1>0, <2>1, <2>2, RollsIn
  <2>4. i > 436 /\ ~(i > 892)
    BY <1>0, <1>2, <1>4, <2>1
  <2> QED
    BY <1>0, <1>1, <2>3, <2>4
<1>6. ASSUME m < -787 PROVE -300 <= i + 737 /\ i + 737 <= 300 /\ y < -787
  <2>1. n <= -(788 * d)
    BY <1>0, <1>6, Beyonds
  <2>2. w > 0
    BY <1>0, <1>2, <2>1
  <2>3. y < -788
    BY <1>0, <2>1, <2>2, RollsIn
  <2>4. i < -436 /\ ~(i < -892)
    BY <1>0, <1>2, <1>4, <2>1
  <2> QED
    BY <1>0, <1>1, <2>3, <2>4
<1> QED
  BY <1>0, <1>1, <1>3, <1>5, <1>6 DEF Kept

\* Where a ball that rolls in meets a line.
LEMMA Meets ==
  ASSUME NEW s, s.ball \in Point, s.vel \in Point, s.vel.x <= -10, NEW x \in Int
  PROVE  Rounds(Goal!MeetsAt(s, x),
                s.ball.y * (-s.vel.x) + (s.ball.x - x) * s.vel.y, -s.vel.x)
<1> DEFINE d == -s.vel.x
           n == s.ball.y * d + (s.ball.x - x) * s.vel.y
<1>1. /\ s.ball.x \in Int /\ s.ball.y \in Int /\ s.vel.x \in Int /\ s.vel.y \in Int
      /\ d \in Int /\ d > 0 /\ s.vel.x = -d
  BY DEF Point
<1>2. n \in Int /\ s.ball.y * s.vel.x - (s.ball.x - x) * s.vel.y = -n
  <2> DEFINE a == s.ball.y
             b == s.ball.x - x
             c == s.vel.y
  <2>1. a \in Int /\ b \in Int /\ c \in Int /\ d \in Int /\ s.vel.x = -d
    BY <1>1
  <2> HIDE DEF a, b, c, d
  <2>2. a * d + b * c \in Int /\ a * (-d) - b * c = -(a * d + b * c)
    BY <2>1
  <2>3. a * d + b * c \in Int /\ a * s.vel.x - b * c = -(a * d + b * c)
    BY <2>1, <2>2
  <2> QED
    BY <2>3 DEF a, b, c
<1>3. ~(Goal!AbsOf(s.vel.x) < 10)
  BY <1>1 DEF Goal!AbsOf
<1>4. Goal!MeetsAt(s, x) = Goal!Truncated(-n, -d)
  BY <1>1, <1>2, <1>3 DEF Goal!MeetsAt
<1> HIDE DEF n, d
<1> QED
  BY <1>1, <1>2, <1>4, TruncatedRounds DEF n, d

\* How far off the goalkeeper's axis the ball is when it meets the lines.
LEMMA Lines ==
  ASSUME NEW s, s.ball \in Point, s.vel \in Point, s.vel.x <= -10, NEW x \in Int, x < s.ball.x
  PROVE  LET d == -s.vel.x
             w == s.vel.y
             n == s.ball.y * d + (s.ball.x - x) * w
         IN /\ Line(s.ball.y, s.ball.x - x, w, d, n)
            /\ \A z \in Int : Rounds(Goal!MeetsAt(s, z), n + (x - z) * w, d)
<1> DEFINE d == -s.vel.x
           w == s.vel.y
           b == s.ball.x
           n == s.ball.y * d + (b - x) * w
<1>1. s.ball.y \in Int /\ b \in Int /\ w \in Int /\ d \in Int /\ d > 0
  BY DEF Point
<1>2. ASSUME NEW z \in Int PROVE Rounds(Goal!MeetsAt(s, z), n + (x - z) * w, d)
  <2>1. Rounds(Goal!MeetsAt(s, z), s.ball.y * d + (b - z) * w, d)
    BY Meets
  <2>2. s.ball.y * d + (b - z) * w = n + (x - z) * w
    <3> HIDE DEF d, w, b
    <3>1. s.ball.y * d \in Int /\ b - x \in Int /\ x - z \in Int
      BY <1>1
    <3>2. (b - z) * w = (b - x) * w + (x - z) * w
      BY <1>1
    <3>3. (b - x) * w \in Int /\ (x - z) * w \in Int
      BY <1>1
    <3> QED
      BY <3>1, <3>2, <3>3
  <2> QED
    BY <2>1, <2>2
<1>3. b - x \in Int /\ b - x > 0
  BY <1>1
<1>4. Line(s.ball.y, b - x, w, d, n)
  <2> DEFINE k == b - x
  <2>1. k \in Int /\ k > 0
    BY <1>3
  <2> HIDE DEF d, w, k
  <2> QED
    BY <1>1, <2>1 DEF Line, k
<1> QED
  BY <1>2, <1>4

\* Where the last frame sent the goalkeeper, if it sends it anywhere but to the
\* post and away from the far corners.
CoverInv ==
  Len(saves) = 1 =>
    /\ view.ball \in Point /\ view.vel \in Point
    /\ ~Goal!InCorner(view) /\ ~Goal!FarOut(view) =>
         point = IF view.ball.x >= 0 THEN Goal!FarPoint(view) ELSE Goal!NearPoint(view)

\* No frame has sent a command yet.
LEMMA CoverInit == Init => CoverInv
<1> SUFFICES ASSUME Init PROVE CoverInv
  OBVIOUS
<1>1. saves = <<>>
  BY DEF Init, Goal!Init, Goal!Silence
<1>2. Len(saves) = 0
  BY <1>1
<1> QED
  BY <1>2 DEF CoverInv

\* Only at the post does the goalkeeper keep its point.
LEMMA CoverNext == CoverInv /\ [Next]_vars => CoverInv'
<1> SUFFICES ASSUME CoverInv, [Next]_vars PROVE CoverInv'
  OBVIOUS
<1>1. CASE UNCHANGED goalVars
  BY <1>1 DEF goalVars, CoverInv, Goal!InCorner, Goal!FarOut, Goal!FarPoint,
     Goal!NearPoint, Goal!MeetsAt
<1>2. CASE Goal!Next
  <2>1. PICK v \in Views : Goal!Frame(Goal!BeliefOf(v))
    BY <1>2 DEF Goal!Next
  <2> DEFINE s == Goal!BeliefOf(v)
  <2>2. s.ball \in Point /\ s.vel \in Point
    BY SwingAssumption DEF SwingAssumption, Scene, Goal!BeliefOf
  <2> HIDE DEF s
  <2>3. view' = s /\ point' = IF Goal!AtPost(s) THEN point ELSE Goal!Target(s, flag')
    BY <2>1 DEF Goal!Frame, s
  <2>4. ASSUME ~Goal!InCorner(s), ~Goal!FarOut(s)
        PROVE  point' = IF s.ball.x >= 0 THEN Goal!FarPoint(s) ELSE Goal!NearPoint(s)
    <3>1. ~Goal!AtPost(s)
      BY <2>4 DEF Goal!AtPost, Goal!HoldsPost
    <3>2. CASE s.ball.x >= 0
      BY <2>3, <2>4, <3>1, <3>2 DEF Goal!Target
    <3>3. CASE ~(s.ball.x >= 0)
      BY <2>3, <2>4, <3>1, <3>3 DEF Goal!Target
    <3> QED
      BY <3>2, <3>3
  <2>5. (view.ball \in Point /\ view.vel \in Point)'
    BY <2>2, <2>3
  <2>6. (~Goal!InCorner(view) /\ ~Goal!FarOut(view) =>
           point = IF view.ball.x >= 0 THEN Goal!FarPoint(view) ELSE Goal!NearPoint(view))'
    BY <2>3, <2>4 DEF Goal!InCorner, Goal!FarOut, Goal!FarPoint, Goal!NearPoint, Goal!MeetsAt
  <2> QED
    BY <2>5, <2>6 DEF CoverInv
<1> QED
  BY <1>1, <1>2 DEF Next, vars

\* The point the goalkeeper is sent to is within a robot's radius of the way of
\* a shot, from their half and from ours.
LEMMA Covers == CoverInv => CoversTheShot
<1> SUFFICES ASSUME CoverInv, Goal!Shot(view), ~Goal!InCorner(view), ~Goal!FarOut(view),
                    Len(saves) = 1
             PROVE  Goal!AbsOf(Goal!MeetsAt(view, point.x) - point.y) <= Goal!BOT_RADIUS
  BY DEF CoversTheShot, Goal!CoversTheShot
<1> DEFINE b == view.ball
           d == -view.vel.x
           w == view.vel.y
           g == Goal!MeetsAt(view, -4331)
           m == Goal!MeetsAt(view, -4121)
<1>1. /\ view.ball \in Point /\ view.vel \in Point
      /\ point = IF view.ball.x >= 0 THEN Goal!FarPoint(view) ELSE Goal!NearPoint(view)
  BY DEF CoverInv
<1>2. /\ Goal!LINE = -4121 /\ Goal!INSIDE = -4481
      /\ -Goal!HALF_FIELD_MAXX + Goal!GOAL_DEPTH = -4331
      /\ -Goal!HALF_FIELD_MAXX + Goal!DBOX_WIDTH = -3524
  BY DEF Goal!LINE, Goal!INSIDE, Goal!HALF_FIELD_MAXX, Goal!GOAL_DEPTH, Goal!BOT_RADIUS,
     Goal!DBOX_WIDTH
<1>3. /\ b.x \in Int /\ b.y \in Int /\ d \in Int /\ d > 0 /\ w \in Int
      /\ -d <= 2 * w /\ 2 * w <= d /\ view.vel.x <= -10 /\ b.x > -4121
  BY <1>1, <1>2 DEF Goal!Shot, Goal!AbsOf, Point
<1>4. /\ Goal!AbsOf(g) <= 787
      /\ g \in Int => -787 <= g /\ g <= 787
  BY <1>2 DEF Goal!Shot, Goal!AbsOf, Goal!OUR_GOAL_MAXY
<1>5. \A t \in Int, q \in Int : Goal!BetweenPosts(t, q) = Kept(t, q)
  BY DEF Goal!BetweenPosts, Kept, Goal!OUR_GOAL_MAXY, Goal!OUR_GOAL_MINY
<1>6. CASE b.x >= 0
  <2> DEFINE n == b.y * d + (b.x - (-3524)) * w
             f == Goal!MeetsAt(view, -3524)
             t == IF f > 787 \/ f < -787 THEN b.y ELSE f
  <2>1. /\ Line(b.y, b.x - (-3524), w, d, n)
        /\ \A z \in Int : Rounds(Goal!MeetsAt(view, z), n + (-3524 - z) * w, d)
    BY <1>1, <1>3, <1>6, Lines
  <2>2. Line(b.y, b.x - (-3524), w, d, n) /\ n \in Int
    BY <2>1 DEF Line
  <2> HIDE DEF n
  <2>3. /\ Rounds(f, n + (-3524 - (-3524)) * w, d) /\ Rounds(m, n + (-3524 - (-4121)) * w, d)
        /\ Rounds(g, n + (-3524 - (-4331)) * w, d)
    BY <2>1
  <2> HIDE DEF b, d, w, f, m, g
  <2>4. Rounds(f, n, d) /\ Rounds(m, n + 597 * w, d) /\ Rounds(g, n + 807 * w, d)
    <3>1. /\ n + (-3524 - (-3524)) * w = n /\ -3524 - (-4121) = 597
          /\ -3524 - (-4331) = 807
      BY <1>3, <2>2
    <3> QED
      BY <2>3, <3>1
  <2>5. f \in Int /\ m \in Int /\ g \in Int
    BY <2>4 DEF Rounds
  <2>6. -300 <= m - Kept(t, 60) /\ m - Kept(t, 60) <= 300
    <3> DEFINE y == b.y
               k == b.x - (-3524)
    <3>1. /\ y \in Int /\ d \in Int /\ d > 0 /\ w \in Int /\ -d <= 2 * w /\ 2 * w <= d
          /\ n \in Int /\ Line(y, k, w, d, n)
          /\ Rounds(f, n, d) /\ Rounds(m, n + 597 * w, d) /\ Rounds(g, n + 807 * w, d)
          /\ -787 <= g /\ g <= 787
      BY <1>3, <1>4, <2>2, <2>4, <2>5
    <3> HIDE DEF y, k
    <3>2. FromFar(d, w, y, k, n, f, m, g)
      BY <3>1 DEF FromFar, Rolls
    <3>3. LET p == Kept(IF f > 787 \/ f < -787 THEN y ELSE f, 60)
          IN -300 <= m - p /\ m - p <= 300
      BY <3>2, ShotFromFar
    <3> QED
      BY <3>3 DEF y
  <2>7. point.x = -4121 /\ point.y = Kept(t, 60)
    <3>1. Goal!AbsOf(f) > Goal!OUR_GOAL_MAXY <=> f > 787 \/ f < -787
      BY <2>5 DEF Goal!AbsOf, Goal!OUR_GOAL_MAXY
    <3>2. Goal!FarPoint(view) = [x |-> -4121, y |-> Goal!BetweenPosts(t, 60)]
      BY <1>2, <3>1 DEF Goal!FarPoint, Goal!At, f, b
    <3>3. t \in Int
      BY <1>3, <2>5
    <3> QED
      BY <1>1, <1>5, <1>6, <3>2, <3>3 DEF b
  <2>8. Kept(t, 60) \in Int
    BY <1>3, <2>5 DEF Kept
  <2> QED
    BY <2>5, <2>6, <2>7, <2>8 DEF m, Goal!AbsOf, Goal!BOT_RADIUS
<1>7. CASE b.x < 0
  <2> DEFINE n == b.y * d + (b.x - (-4121)) * w
             i == Goal!MeetsAt(view, -4481)
  <2>1. /\ Line(b.y, b.x - (-4121), w, d, n)
        /\ \A z \in Int : Rounds(Goal!MeetsAt(view, z), n + (-4121 - z) * w, d)
    BY <1>1, <1>3, Lines
  <2>2. Line(b.y, b.x - (-4121), w, d, n) /\ n \in Int
    BY <2>1 DEF Line
  <2> HIDE DEF n
  <2>3. /\ Rounds(m, n + (-4121 - (-4121)) * w, d) /\ Rounds(i, n + (-4121 - (-4481)) * w, d)
        /\ Rounds(g, n + (-4121 - (-4331)) * w, d)
    BY <2>1
  <2> HIDE DEF b, d, w, m, i, g
  <2>4. Rounds(m, n, d) /\ Rounds(i, n + 360 * w, d) /\ Rounds(g, n + 210 * w, d)
    <3>1. /\ n + (-4121 - (-4121)) * w = n /\ -4121 - (-4481) = 360
          /\ -4121 - (-4331) = 210
      BY <1>3, <2>2
    <3> QED
      BY <2>3, <3>1
  <2>5. i \in Int /\ m \in Int /\ g \in Int
    BY <2>4 DEF Rounds
  <2>6. /\ m > 787 => -300 <= i - 737 /\ i - 737 <= 300 /\ b.y > 787
        /\ m < -787 => -300 <= i + 737 /\ i + 737 <= 300 /\ b.y < -787
        /\ -892 <= m /\ m <= 892
        /\ -300 <= m - Kept(m, 50) /\ m - Kept(m, 50) <= 300
    <3> DEFINE y == b.y
               k == b.x - (-4121)
    <3>1. /\ y \in Int /\ d \in Int /\ d > 0 /\ w \in Int /\ -d <= 2 * w /\ 2 * w <= d
          /\ n \in Int /\ Line(y, k, w, d, n)
          /\ Rounds(m, n, d) /\ Rounds(i, n + 360 * w, d) /\ Rounds(g, n + 210 * w, d)
          /\ -787 <= g /\ g <= 787
      BY <1>3, <1>4, <2>2, <2>4, <2>5
    <3> HIDE DEF y, k
    <3>2. FromNear(d, w, y, k, n, m, i, g)
      BY <3>1 DEF FromNear, Rolls
    <3>3. /\ m > 787 => -300 <= i - 737 /\ i - 737 <= 300 /\ y > 787
          /\ m < -787 => -300 <= i + 737 /\ i + 737 <= 300 /\ y < -787
          /\ -892 <= m /\ m <= 892
          /\ -300 <= m - Kept(m, 50) /\ m - Kept(m, 50) <= 300
      BY <3>2, ShotFromNear
    <3> QED
      BY <3>3 DEF y
  <2>7. point = Goal!NearPoint(view)
    BY <1>1, <1>3, <1>7 DEF b
  <2>8. CASE (m > 787 \/ m < -787) /\ (b.y > 787 \/ b.y < -787)
    <3>1. /\ Goal!AbsOf(m) > Goal!OUR_GOAL_MAXY
          /\ Goal!AbsOf(m) < Goal!OUR_GOAL_MAXY + Goal!BOT_RADIUS \div 2
          /\ Goal!AbsOf(b.y) > Goal!OUR_GOAL_MAXY
      BY <1>3, <2>5, <2>6, <2>8 DEF Goal!AbsOf, Goal!OUR_GOAL_MAXY, Goal!BOT_RADIUS
    <3>2. point = [x |-> -4481, y |-> Goal!SGN(b.y) * (Goal!OUR_GOAL_MAXY - 50)]
      BY <1>2, <2>7, <3>1 DEF Goal!NearPoint, Goal!At, m, b
    <3>3. point.x = -4481 /\ point.y = IF b.y > 0 THEN 737 ELSE -737
      BY <1>3, <2>8, <3>2 DEF Goal!SGN, Goal!OUR_GOAL_MAXY
    <3> QED
      BY <1>3, <2>5, <2>6, <2>8, <3>3 DEF i, Goal!AbsOf, Goal!BOT_RADIUS
  <2>9. CASE ~((m > 787 \/ m < -787) /\ (b.y > 787 \/ b.y < -787))
    <3>1. /\ ~(/\ Goal!AbsOf(m) > Goal!OUR_GOAL_MAXY
               /\ Goal!AbsOf(b.y) > Goal!OUR_GOAL_MAXY)
          /\ ~(Goal!AbsOf(m) > Goal!OUR_GOAL_MAXY + Goal!BOT_RADIUS)
      BY <1>3, <2>5, <2>6, <2>9 DEF Goal!AbsOf, Goal!OUR_GOAL_MAXY, Goal!BOT_RADIUS
    <3>2. point = [x |-> -4121, y |-> Goal!BetweenPosts(m, 50)]
      BY <1>2, <2>7, <3>1 DEF Goal!NearPoint, Goal!At, m, b
    <3>3. point.x = -4121 /\ point.y = Kept(m, 50) /\ Kept(m, 50) \in Int
      BY <1>5, <2>5, <3>2 DEF Kept
    <3> QED
      BY <2>5, <2>6, <3>3 DEF m, Goal!AbsOf, Goal!BOT_RADIUS
  <2> QED
    BY <2>8, <2>9
<1> QED
  BY <1>3, <1>6, <1>7

\* For every set of views: a shot at our goal passes within the radius of a robot
\* of the point the goalkeeper is sent to, unless the ball is in a corner or far
\* out or the goalkeeper has a later command.
THEOREM CoverCorrect == Spec => []CoversTheShot
<1> QED
  BY CoverInit, CoverNext, Covers, PTL DEF Spec

-----------------------------------------------------------------------------
(* Least and greatest numbers *)

\* A set of natural numbers has a least one.
LEMMA Least ==
  ASSUME NEW T, T \subseteq Nat, T # {}
  PROVE  \E n \in T : \A m \in T : n <= m
<1>1. PICK n \in T : \A m \in T : ~ (<<m, n>> \in OpToRel(<, Nat))
  BY WFMin, NatLessThanWellFounded
<1>2. \A m \in Nat : m < n => <<m, n>> \in OpToRel(<, Nat)
  BY DEF OpToRel
<1>3. ASSUME NEW m \in T
      PROVE  n <= m
  <2>1. m \in Nat /\ n \in Nat
    OBVIOUS
  <2>2. ~(m < n)
    BY <1>1, <1>2, <2>1
  <2> QED
    BY <2>1, <2>2
<1> QED
  BY <1>3

\* Max picks the greatest number of a set that has one.
LEMMA Greatest ==
  ASSUME NEW T, NEW n \in T, n \in Int, \A x \in T : x \in Int /\ x <= n
  PROVE  Plan!Max(T) = n
<1> DEFINE m == Plan!Max(T)
<1>1. n \in T /\ \A y \in T : n >= y
  OBVIOUS
<1>2. m \in T /\ \A y \in T : m >= y
  BY <1>1, Zenon DEF Plan!Max
<1>3. m \in T /\ m >= n
  BY <1>2
<1> HIDE DEF m
<1>4. m \in Int /\ m <= n
  BY <1>3
<1>5. m = n
  BY <1>3, <1>4
<1> QED
  BY <1>5 DEF m

\* An interval is inserted before the intervals that are not before it, or last.
LEMMA InsertedAt ==
  ASSUME NEW q, Len(q) \in Nat, NEW i, i \notin Plan!Range(q)
  PROVE  \E n \in 0 .. Len(q) :
           /\ Plan!Inserted(q, i) = Plan!InsertAt(q, n + 1, i)
           /\ n > 0 => Plan!Before(q[n], i)
           /\ \A k \in n + 1 .. Len(q) : ~Plan!Before(q[k], i)
<1> DEFINE T == {k \in 1 .. Len(q) : Plan!Before(q[k], i)}
           place == IF T # {} THEN Plan!Max(T) ELSE 0
           Above == {n \in Nat : \A x \in T : x <= n}
<1>1. Plan!Inserted(q, i) = Plan!InsertAt(q, place + 1, i)
  BY DEF Plan!Inserted, Plan!SelectLastInSeq
<1>2. ASSUME T # {}
      PROVE  Plan!Max(T) \in T /\ \A x \in T : x <= Plan!Max(T)
  <2>1. Len(q) \in Above
    OBVIOUS
  <2>2. PICK n \in Above : \A m \in Above : n <= m
    <3>1. Above \subseteq Nat /\ Above # {}
      BY <2>1
    <3> HIDE DEF Above
    <3> QED
      BY <3>1, Least
  <2>3. PICK x \in T : n - 1 < x
    <3>1. n \in Nat /\ \A x \in T : x \in Nat /\ x >= 1
      OBVIOUS
    <3>2. CASE n = 0
      BY <1>2, <3>1, <3>2
    <3>3. CASE n # 0
      <4>1. n - 1 \in Nat /\ n - 1 \notin Above
        BY <2>2, <3>1, <3>3
      <4> QED
        BY <4>1, <3>1
    <3> QED
      BY <3>2, <3>3
  <2>4. x = n
    BY <2>2, <2>3
  <2>5. n \in T /\ n \in Int /\ \A y \in T : y \in Int /\ y <= n
    BY <2>3, <2>4
  <2> HIDE DEF T
  <2> QED
    BY <2>5, Greatest
<1>3. /\ place \in 0 .. Len(q)
      /\ place > 0 => place \in T
      /\ \A x \in T : x <= place
  <2>1. \A x \in T : x \in 1 .. Len(q)
    OBVIOUS
  <2> HIDE DEF T
  <2> QED
    BY <1>2, <2>1
<1> HIDE DEF place
<1>4. \A k \in place + 1 .. Len(q) : ~Plan!Before(q[k], i)
  BY <1>3
<1> QED
  BY <1>1, <1>3, <1>4

-----------------------------------------------------------------------------
(* Directions *)

\* The directions of an interval, and of the intervals of a set.
Of(i) == {a \in Plan!Directions : Plan!insideInterval(i, a)}

Marked(q) == {a \in Plan!Directions : Plan!isInvalid(q, a)}

\* What m holds of n: all of it, or a part where n is every direction.
Holds(m, n) ==
  m \subseteq n /\ n \subseteq Plan!Directions /\ (n # Plan!Directions => m = n)

\* Both are sets of directions.
LEMMA AreDirections ==
  \A x : Of(x) \subseteq Plan!Directions /\ Marked(x) \subseteq Plan!Directions
BY DEF Of, Marked

\* The set holds itself.
LEMMA HoldsItself ==
  ASSUME NEW m, m \subseteq Plan!Directions
  PROVE  Holds(m, m)
BY DEF Holds

\* What holds a set that holds a third holds the third.
LEMMA HoldsOn ==
  ASSUME NEW l, NEW m, NEW n, Holds(l, m), Holds(m, n)
  PROVE  Holds(l, n)
BY DEF Holds

\* More directions on both sides change nothing.
LEMMA HoldsWith ==
  ASSUME NEW m, NEW n, NEW r, Holds(m, n), r \subseteq Plan!Directions
  PROVE  Holds(m \cup r, n \cup r)
BY DEF Holds

\* The edges of an obstacle make an interval.
LEMMA SectorType ==
  ASSUME NEW o \in Plan!Obstacle
  PROVE  Plan!Sector(Plan!Edge(o, 1), Plan!Edge(o, -1)) \in Plan!Interval
<1>1. PICK d \in Plan!Directions, h \in Nat : o.dir = d /\ o.half = h /\ 2 * h < PI
  BY DEF Plan!Obstacle
<1>2. /\ Plan!Edge(o, 1) = Plan!normalizeAngle(d + h)
      /\ Plan!Edge(o, -1) = Plan!normalizeAngle(d - h)
  BY <1>1 DEF Plan!Edge, Plan!Directions
<1>3. Plan!Edge(o, 1) \in Plan!Directions /\ Plan!Edge(o, -1) \in Plan!Directions
  BY <1>1, <1>2, ParamsAssumption DEF Plan!Directions, Plan!normalizeAngle
<1> QED
  BY <1>3 DEF Plan!Sector, Plan!Interval

\* The sector an obstacle subtends is the interval setInvalid makes of it.
LEMMA SectorExact ==
  ASSUME NEW o \in Plan!Obstacle, o.half > 0
  PROVE  LET s == Plan!Sector(Plan!Edge(o, 1), Plan!Edge(o, -1))
         IN /\ s \in Plan!Interval
            /\ Of(s) = {a \in Plan!Directions : Plan!Covers(o, a)}
<1> DEFINE l == Plan!Edge(o, 1)
           r == Plan!Edge(o, -1)
           s == Plan!Sector(l, r)
<1>1. PICK d \in Plan!Directions, h \in Nat : o.dir = d /\ o.half = h /\ 2 * h < PI
  BY DEF Plan!Obstacle
<1>2. l = Plan!normalizeAngle(d + h) /\ r = Plan!normalizeAngle(d - h)
  BY <1>1 DEF Plan!Edge, Plan!Directions
<1>3. l \in Plan!Directions /\ r \in Plan!Directions
  BY <1>1, <1>2, ParamsAssumption DEF Plan!Directions, Plan!normalizeAngle
<1>4. /\ l - r = 2 * h \/ l - r = 2 * h - 2 * PI
      /\ l \in Int /\ r \in Int /\ 1 - PI <= l /\ l <= PI /\ 1 - PI <= r /\ r <= PI
  BY <1>1, <1>2, ParamsAssumption DEF Plan!Directions, Plan!normalizeAngle
<1> HIDE DEF l, r
<1>5. s = [start |-> r, end |-> l]
  BY <1>1, <1>4, ParamsAssumption DEF Plan!Sector
<1>6. ASSUME NEW a \in Plan!Directions
      PROVE  Plan!insideInterval(s, a) <=> Plan!Covers(o, a)
  <2>1. Plan!insideInterval(s, a) <=> IF r < l THEN r <= a /\ a <= l ELSE r <= a \/ a <= l
    BY <1>5 DEF Plan!insideInterval
  <2>2. Plan!Covers(o, a) <=> Plan!angleDifference(r, a) <= 2 * h
    BY <1>1 DEF Plan!Covers, r
  <2> QED
    BY <1>1, <1>4, <2>1, <2>2, ParamsAssumption DEF Plan!angleDifference, Plan!Directions
<1>7. s \in Plan!Interval
  BY <1>3, <1>5 DEF Plan!Interval
<1> HIDE DEF s
<1>8. Of(s) = {a \in Plan!Directions : Plan!Covers(o, a)}
  BY <1>6 DEF Of
<1> QED
  BY <1>7, <1>8 DEF s, l, r

\* Extending an interval by one that starts in it holds both.
LEMMA ExtendedHolds ==
  ASSUME NEW i \in Plan!Interval, NEW j \in Plan!Interval, Plan!insideInterval(i, j.start)
  PROVE  /\ Plan!Extended(i, j) \in Plan!Interval
         /\ Holds(Of(Plan!Extended(i, j)), Of(i) \cup Of(j))
<1>1. PICK b \in Plan!Directions, c \in Plan!Directions : i = [start |-> b, end |-> c]
  BY DEF Plan!Interval
<1>2. PICK d \in Plan!Directions, e \in Plan!Directions : j = [start |-> d, end |-> e]
  BY DEF Plan!Interval
<1>3. i.start = b /\ i.end = c /\ j.start = d /\ j.end = e
  BY <1>1, <1>2
<1> DEFINE x == Plan!Extended(i, j)
<1>4. /\ x \in Plan!Interval
      /\ x.start = b
      /\ x.end = IF Plan!angleDifference(b, c) > Plan!angleDifference(b, e) THEN c ELSE e
  BY <1>1, <1>3 DEF Plan!Extended, Plan!Interval
<1> HIDE DEF x
<1>5. ASSUME NEW a \in Plan!Directions, Plan!insideInterval(x, a)
      PROVE  Plan!insideInterval(i, a) \/ Plan!insideInterval(j, a)
  BY <1>3, <1>4, <1>5, ParamsAssumption, SMTT(60)
     DEF Plan!Directions, Plan!insideInterval, Plan!angleDifference
<1>6. ASSUME NEW g \in Plan!Directions, ~Plan!insideInterval(i, g), ~Plan!insideInterval(j, g),
             NEW a \in Plan!Directions, Plan!insideInterval(i, a) \/ Plan!insideInterval(j, a)
      PROVE  Plan!insideInterval(x, a)
  BY <1>3, <1>4, <1>6, ParamsAssumption, SMTT(60)
     DEF Plan!Directions, Plan!insideInterval, Plan!angleDifference
<1>7. Holds(Of(x), Of(i) \cup Of(j))
  BY <1>5, <1>6 DEF Holds, Of
<1> QED
  BY <1>4, <1>7 DEF x

-----------------------------------------------------------------------------
(* Sequences of intervals *)

\* A sequence of one.
LEMMA MarkedOne ==
  ASSUME NEW i \in Plan!Interval
  PROVE  <<i>> \in Seq(Plan!Interval) /\ Len(<<i>>) = 1 /\ Marked(<<i>>) = Of(i)
BY DEF Marked, Of, Plan!isInvalid

\* A concatenation marks what its parts mark.
LEMMA MarkedJoin ==
  ASSUME NEW q \in Seq(Plan!Interval), NEW r \in Seq(Plan!Interval)
  PROVE  /\ q \o r \in Seq(Plan!Interval)
         /\ Len(q \o r) = Len(q) + Len(r)
         /\ Marked(q \o r) = Marked(q) \cup Marked(r)
<1> DEFINE m == Len(q)
           n == Len(r)
           s == q \o r
<1>1. /\ s \in Seq(Plan!Interval) /\ Len(s) = m + n
      /\ \A k \in 1 .. m + n : s[k] = IF k <= m THEN q[k] ELSE r[k - m]
  BY ConcatProperties
<1>2. /\ m \in Nat /\ n \in Nat
      /\ DOMAIN q = 1 .. m /\ DOMAIN r = 1 .. n /\ DOMAIN s = 1 .. m + n
  BY <1>1
<1> HIDE DEF m, n, s
<1>3. ASSUME NEW a
      PROVE  Plan!isInvalid(s, a) <=> Plan!isInvalid(q, a) \/ Plan!isInvalid(r, a)
  <2>1. ASSUME NEW k \in DOMAIN s, Plan!insideInterval(s[k], a)
        PROVE  Plan!isInvalid(q, a) \/ Plan!isInvalid(r, a)
    <3>1. CASE k <= m
      BY <1>1, <1>2, <2>1, <3>1 DEF Plan!isInvalid
    <3>2. CASE ~(k <= m)
      <4>1. k - m \in DOMAIN r /\ s[k] = r[k - m]
        BY <1>1, <1>2, <3>2
      <4> QED
        BY <2>1, <4>1 DEF Plan!isInvalid
    <3> QED
      BY <3>1, <3>2
  <2>2. ASSUME NEW k \in DOMAIN q, Plan!insideInterval(q[k], a)
        PROVE  Plan!isInvalid(s, a)
    <3>1. k \in DOMAIN s /\ s[k] = q[k]
      BY <1>1, <1>2
    <3> QED
      BY <2>2, <3>1 DEF Plan!isInvalid
  <2>3. ASSUME NEW k \in DOMAIN r, Plan!insideInterval(r[k], a)
        PROVE  Plan!isInvalid(s, a)
    <3>1. m + k \in DOMAIN s /\ s[m + k] = r[k]
      BY <1>1, <1>2
    <3> QED
      BY <2>3, <3>1 DEF Plan!isInvalid
  <2> QED
    BY <2>1, <2>2, <2>3 DEF Plan!isInvalid
<1>4. Marked(s) = Marked(q) \cup Marked(r)
  BY <1>3 DEF Marked
<1> QED
  BY <1>1, <1>4 DEF m, n, s

\* A sequence is its front and its last.
LEMMA MarkedFront ==
  ASSUME NEW q \in Seq(Plan!Interval), q # <<>>
  PROVE  /\ Plan!Front(q) \in Seq(Plan!Interval)
         /\ Plan!Last(q) \in Plan!Interval
         /\ Marked(q) = Marked(Plan!Front(q)) \cup Of(Plan!Last(q))
<1>1. Len(q) \in Nat /\ Len(q) >= 1 /\ q[Len(q)] \in Plan!Interval
  OBVIOUS
<1>2. SubSeq(q, 1, Len(q) - 1) \in Seq(Plan!Interval)
  BY <1>1, SubSeqProperties
<1>3. q = SubSeq(q, 1, Len(q) - 1) \o <<q[Len(q)]>>
  BY <1>1, SubSeqFull, SubSeqRecursiveSecond
<1>4. Marked(q) = Marked(SubSeq(q, 1, Len(q) - 1)) \cup Of(q[Len(q)])
  BY <1>1, <1>2, <1>3, MarkedJoin, MarkedOne
<1> QED
  BY <1>1, <1>2, <1>4 DEF Plan!Front, Plan!Last

-----------------------------------------------------------------------------
(* setInvalid *)

\* An interval is inserted once.
LEMMA InsertedMarks ==
  ASSUME NEW q \in Seq(Plan!Interval), NEW i \in Plan!Interval
  PROVE  LET r == Plan!Inserted(q, i)
         IN /\ r \in Seq(Plan!Interval) /\ r # <<>>
            /\ Marked(r) = Marked(q) \cup Of(i)
<1>1. Len(q) \in Nat
  OBVIOUS
<1>2. CASE i \in Plan!Range(q)
  <2>1. PICK k \in DOMAIN q : q[k] = i
    BY <1>2 DEF Plan!Range
  <2>2. Of(i) \subseteq Marked(q)
    BY <2>1 DEF Of, Marked, Plan!isInvalid
  <2>3. q # <<>>
    BY <2>1
  <2> QED
    BY <1>2, <2>2, <2>3 DEF Plan!Inserted
<1>3. CASE i \notin Plan!Range(q)
  <2>0. PICK n \in 0 .. Len(q) : Plan!Inserted(q, i) = Plan!InsertAt(q, n + 1, i)
    BY <1>1, <1>3, InsertedAt
  <2> DEFINE u == SubSeq(q, 1, n)
             v == SubSeq(q, n + 1, Len(q))
  <2>1. Plan!Inserted(q, i) = u \o <<i>> \o v
    <3> DEFINE k == n + 1
    <3>1. k - 1 = n
      BY <1>1
    <3>2. Plan!Inserted(q, i) = Plan!InsertAt(q, k, i)
      BY <2>0
    <3> HIDE DEF k
    <3>3. Plan!InsertAt(q, k, i) = SubSeq(q, 1, k - 1) \o <<i>> \o SubSeq(q, k, Len(q))
      BY DEF Plan!InsertAt
    <3> QED
      BY <3>1, <3>2, <3>3 DEF k
  <2>2. u \in Seq(Plan!Interval) /\ Len(u) = n
    BY <1>1, SubSeqProperties
  <2>3. v \in Seq(Plan!Interval)
    BY <1>1, SubSeqProperties
  <2>4. q = u \o v
    <3>1. /\ Len(v) = Len(q) - n
          /\ \A k \in 1 .. n : u[k] = q[k]
          /\ \A k \in 1 .. Len(q) - n : v[k] = q[n + k]
      BY <1>1, SubSeqProperties
    <3> HIDE DEF u, v
    <3>2. /\ u \o v \in Seq(Plan!Interval)
          /\ Len(u \o v) = Len(q)
          /\ \A k \in 1 .. Len(q) : (u \o v)[k] = IF k <= n THEN u[k] ELSE v[k - n]
      <4>1. /\ u \o v \in Seq(Plan!Interval)
            /\ Len(u \o v) = Len(u) + Len(v)
            /\ \A k \in 1 .. Len(u) + Len(v) :
                 (u \o v)[k] = IF k <= Len(u) THEN u[k] ELSE v[k - Len(u)]
        BY <2>2, <2>3, ConcatProperties
      <4>2. Len(u) + Len(v) = Len(q)
        BY <1>1, <2>2, <3>1
      <4> QED
        BY <2>2, <4>1, <4>2
    <3>3. \A k \in 1 .. Len(q) : (u \o v)[k] = q[k]
      BY <1>1, <3>1, <3>2
    <3> QED
      BY <3>2, <3>3, SeqEqual
  <2> HIDE DEF u, v
  <2>5. Marked(q) = Marked(u) \cup Marked(v)
    BY <2>2, <2>3, <2>4, MarkedJoin
  <2>6. /\ u \o <<i>> \in Seq(Plan!Interval) /\ Len(u \o <<i>>) = n + 1
        /\ Marked(u \o <<i>>) = Marked(u) \cup Of(i)
    BY <2>2, MarkedOne, MarkedJoin
  <2>7. /\ u \o <<i>> \o v \in Seq(Plan!Interval)
        /\ Len(u \o <<i>> \o v) = n + 1 + Len(v)
        /\ Marked(u \o <<i>> \o v) = Marked(u) \cup Of(i) \cup Marked(v)
    BY <2>3, <2>6, MarkedJoin
  <2>8. u \o <<i>> \o v # <<>>
    BY <1>1, <2>3, <2>7
  <2> QED
    BY <2>1, <2>5, <2>7, <2>8
<1> QED
  BY <1>2, <1>3

\* Merging two intervals holds both.
LEMMA MergedHolds ==
  ASSUME NEW i \in Plan!Interval, NEW j \in Plan!Interval
  PROVE  LET r == Plan!Merged(i, j)
         IN /\ r \in Seq(Plan!Interval) /\ Len(r) \in {1, 2}
            /\ Holds(Marked(r), Of(i) \cup Of(j))
<1>1. CASE Plan!insideInterval(i, j.start)
  <2> DEFINE x == Plan!Extended(i, j)
  <2>1. x \in Plan!Interval /\ Holds(Of(x), Of(i) \cup Of(j))
    BY <1>1, ExtendedHolds
  <2>2. Plan!Merged(i, j) = <<x>>
    BY <1>1 DEF Plan!Merged
  <2> HIDE DEF x
  <2> QED
    BY <2>1, <2>2, MarkedOne
<1>2. CASE ~Plan!insideInterval(i, j.start) /\ Plan!insideInterval(j, i.start)
  <2> DEFINE x == Plan!Extended(j, i)
  <2>1. x \in Plan!Interval /\ Holds(Of(x), Of(j) \cup Of(i))
    BY <1>2, ExtendedHolds
  <2>2. Plan!Merged(i, j) = <<x>>
    BY <1>2 DEF Plan!Merged
  <2>3. Of(j) \cup Of(i) = Of(i) \cup Of(j)
    OBVIOUS
  <2> HIDE DEF x
  <2> QED
    BY <2>1, <2>2, <2>3, MarkedOne
<1>3. CASE ~Plan!insideInterval(i, j.start) /\ ~Plan!insideInterval(j, i.start)
  <2>1. Plan!Merged(i, j) = <<i, j>>
    BY <1>3 DEF Plan!Merged
  <2>2. <<i, j>> \in Seq(Plan!Interval) /\ Len(<<i, j>>) = 2
    OBVIOUS
  <2>3. Marked(<<i, j>>) = Of(i) \cup Of(j)
    BY DEF Marked, Of, Plan!isInvalid
  <2>4. Holds(Of(i) \cup Of(j), Of(i) \cup Of(j))
    BY AreDirections, HoldsItself
  <2> QED
    BY <2>1, <2>2, <2>3, <2>4
<1> QED
  BY <1>1, <1>2, <1>3

\* A step of the pass over the set: what is kept so far takes in an interval.
Taking(kept, i) == Plan!Front(kept) \o Plan!Merged(Plan!Last(kept), i)

LEMMA TakingHolds ==
  ASSUME NEW kept \in Seq(Plan!Interval), kept # <<>>, NEW i \in Plan!Interval
  PROVE  /\ Taking(kept, i) \in Seq(Plan!Interval) /\ Taking(kept, i) # <<>>
         /\ Holds(Marked(Taking(kept, i)), Marked(kept) \cup Of(i))
<1> DEFINE f == Plan!Front(kept)
           l == Plan!Last(kept)
           m == Plan!Merged(l, i)
<1>1. /\ f \in Seq(Plan!Interval) /\ l \in Plan!Interval
      /\ Marked(kept) = Marked(f) \cup Of(l)
  BY MarkedFront
<1>2. /\ m \in Seq(Plan!Interval) /\ Len(m) \in {1, 2}
      /\ Holds(Marked(m), Of(l) \cup Of(i))
  BY <1>1, MergedHolds
<1>3. Taking(kept, i) = f \o m
  BY DEF Taking
<1> HIDE DEF f, l, m
<1>4. /\ f \o m \in Seq(Plan!Interval) /\ Len(f \o m) = Len(f) + Len(m)
      /\ Marked(f \o m) = Marked(f) \cup Marked(m)
  BY <1>1, <1>2, MarkedJoin
<1>5. f \o m # <<>>
  <2>1. Len(f) \in Nat
    BY <1>1, LenProperties
  <2>2. Len(m) = 1 \/ Len(m) = 2
    BY <1>2
  <2>3. Len(f \o m) = Len(f) + Len(m)
    BY <1>4
  <2>4. Len(f \o m) >= 1
    BY <2>1, <2>2, <2>3
  <2> QED
    BY <2>4, EmptySeq
<1>6. Holds(Marked(m) \cup Marked(f), (Of(l) \cup Of(i)) \cup Marked(f))
  BY <1>2, AreDirections, HoldsWith
<1>7. /\ Marked(m) \cup Marked(f) = Marked(f \o m)
      /\ (Of(l) \cup Of(i)) \cup Marked(f) = Marked(kept) \cup Of(i)
  BY <1>1, <1>4
<1> QED
  BY <1>3, <1>4, <1>5, <1>6, <1>7

\* The definition FoldLeft gives the pass over the places 1 .. n of q.
Passes(g, base, q, n) ==
  g = [s \in SUBSET (1 .. n) |->
         IF s = {} THEN base ELSE LET k == Plan!Max(s) IN Taking(g[s \ {k}], q[k])]

\* There is such a function for every n: one for the places before the last
\* is extended to the sets that have the last.
LEMMA PassExists ==
  ASSUME NEW base, NEW q
  PROVE  \A n \in Nat : \E g : Passes(g, base, q, n)
<1> DEFINE Lacks == {n \in Nat : ~ \E g : Passes(g, base, q, n)}
<1> SUFFICES ASSUME Lacks # {} PROVE FALSE
  OBVIOUS
<1>1. PICK n \in Lacks : \A m \in Lacks : n <= m
  BY Least
<1>2. n # 0
  <2> DEFINE g == [s \in SUBSET (1 .. 0) |-> base]
  <2>1. SUBSET (1 .. 0) = {{}}
    OBVIOUS
  <2>2. Passes(g, base, q, 0)
    BY <2>1 DEF Passes
  <2> QED
    BY <2>2
<1>3. PICK k \in Nat : n = k + 1
  <2>1. n \in Nat
    OBVIOUS
  <2> QED
    BY <1>2, <2>1
<1>4. k \notin Lacks
  BY <1>1, <1>3
<1>5. PICK g : Passes(g, base, q, k)
  BY <1>4
<1> DEFINE h == [s \in SUBSET (1 .. n) |->
                   IF n \in s THEN Taking(g[s \ {n}], q[n]) ELSE g[s]]
<1>6. ASSUME NEW s \in SUBSET (1 .. n)
      PROVE  h[s] = IF s = {} THEN base
                    ELSE LET x == Plan!Max(s) IN Taking(h[s \ {x}], q[x])
  <2>1. \A r \in SUBSET (1 .. k) : r \in SUBSET (1 .. n) /\ n \notin r
    BY <1>3
  <2>2. CASE n \in s
    <3>1. n \in Int /\ \A x \in s : x \in Int /\ x <= n
      BY <1>3
    <3>2. Plan!Max(s) = n
      BY <2>2, <3>1, Greatest
    <3>3. s \ {n} \in SUBSET (1 .. k)
      BY <1>3
    <3>4. h[s \ {n}] = g[s \ {n}]
      BY <2>1, <3>3
    <3>5. h[s] = Taking(g[s \ {n}], q[n])
      BY <2>2
    <3> HIDE DEF h
    <3> QED
      BY <2>2, <3>2, <3>4, <3>5
  <2>3. CASE n \notin s
    <3>1. s \in SUBSET (1 .. k)
      BY <1>3, <2>3
    <3>2. g[s] = IF s = {} THEN base ELSE LET x == Plan!Max(s) IN Taking(g[s \ {x}], q[x])
      BY <1>5, <3>1 DEF Passes
    <3>3. h[s] = g[s]
      BY <2>3
    <3>4. \A x : s \ {x} \in SUBSET (1 .. k)
      BY <3>1
    <3>5. \A x : h[s \ {x}] = g[s \ {x}]
      BY <2>1, <3>4
    <3> HIDE DEF h
    <3> QED
      BY <3>2, <3>3, <3>5
  <2> QED
    BY <2>2, <2>3
<1>7. Passes(h, base, q, n)
  <2>1. h = [s \in SUBSET (1 .. n) |-> h[s]]
    OBVIOUS
  <2> HIDE DEF h
  <2>2. [s \in SUBSET (1 .. n) |-> h[s]]
          = [s \in SUBSET (1 .. n) |->
               IF s = {} THEN base ELSE LET x == Plan!Max(s) IN Taking(h[s \ {x}], q[x])]
    BY <1>6
  <2> QED
    BY <2>1, <2>2 DEF Passes
<1> HIDE DEF h
<1> QED
  BY <1>1, <1>7

\* So the pass is what its definition says.
LEMMA SweptPasses ==
  ASSUME NEW set, NEW n \in Nat, DOMAIN Tail(set) = 1 .. n
  PROVE  \E g : /\ Passes(g, <<Head(set)>>, Tail(set), n)
                /\ Plan!Swept(set) = g[1 .. n]
<1> DEFINE S == 1 .. n
           base == <<Head(set)>>
           q == Tail(set)
           iter[s \in SUBSET S] ==
             IF s = {} THEN base ELSE LET k == Plan!Max(s) IN Taking(iter[s \ {k}], q[k])
<1>1. iter = CHOOSE g : Passes(g, base, q, n)
  BY DEF Passes
<1>2. \E g : Passes(g, base, q, n)
  BY PassExists
<1>3. Plan!Swept(set) = iter[S]
  BY DEF Plan!Swept, Plan!FoldLeft, Plan!MapThenFoldSet, Taking
<1> HIDE DEF iter, S, base, q
<1>4. Passes(iter, base, q, n)
  BY <1>1, <1>2
<1> QED
  BY <1>3, <1>4 DEF S, base, q

\* The pass over the set keeps what the set marks.
LEMMA SweptHolds ==
  ASSUME NEW set \in Seq(Plan!Interval), set # <<>>
  PROVE  /\ Plan!Swept(set) \in Seq(Plan!Interval) /\ Plan!Swept(set) # <<>>
         /\ Holds(Marked(Plan!Swept(set)), Marked(set))
<1> DEFINE n == Len(set) - 1
           base == <<Head(set)>>
           q == Tail(set)
           upTo(k) == SubSeq(set, 1, k + 1)
<1>1. /\ n \in Nat /\ Len(set) = n + 1
      /\ DOMAIN q = 1 .. n
      /\ \A k \in 1 .. n : q[k] = set[k + 1] /\ q[k] \in Plan!Interval
      /\ Head(set) = set[1] /\ Head(set) \in Plan!Interval
  OBVIOUS
<1>2. upTo(0) = base /\ upTo(n) = set
  <2>1. SubSeq(set, 1, 1) = SubSeq(set, 1, 0) \o <<set[1]>> /\ SubSeq(set, 1, 0) = <<>>
    BY <1>1, SubSeqRecursiveSecond, SubSeqEmpty
  <2>2. <<>> \o <<set[1]>> = <<set[1]>>
    BY <1>1, ConcatEmptySeq
  <2>3. SubSeq(set, 1, n + 1) = set
    BY <1>1, SubSeqFull
  <2>4. SubSeq(set, 1, 0 + 1) = base
    <3>1. 0 + 1 = 1
      OBVIOUS
    <3> QED
      BY <1>1, <2>1, <2>2, <3>1
  <2> QED
    BY <2>3, <2>4
<1>3. ASSUME NEW k \in 1 .. n
      PROVE  Marked(upTo(k)) = Marked(upTo(k - 1)) \cup Of(q[k])
  <2>1. k + 1 \in 1 .. Len(set) /\ 1 \in 1 .. Len(set) /\ k + 1 \in 1 .. k + 1
        /\ k + 1 - 1 = k - 1 + 1
    BY <1>1
  <2>2. SubSeq(set, 1, k + 1) = SubSeq(set, 1, k - 1 + 1) \o <<set[k + 1]>>
    BY <1>1, <2>1, SubSeqRecursiveSecond
  <2>3. SubSeq(set, 1, k - 1 + 1) \in Seq(Plan!Interval)
    BY <1>1, SubSeqProperties
  <2>4. <<set[k + 1]>> \in Seq(Plan!Interval) /\ Marked(<<set[k + 1]>>) = Of(q[k])
    BY <1>1, MarkedOne
  <2> QED
    BY <2>2, <2>3, <2>4, MarkedJoin
<1>4. base \in Seq(Plan!Interval) /\ base # <<>>
  BY <1>1, MarkedOne
<1>5. PICK g : Passes(g, base, q, n) /\ Plan!Swept(set) = g[1 .. n]
  BY <1>1, SweptPasses
<1> HIDE DEF n, base, q, upTo
<1> DEFINE Keeps(k) == /\ g[1 .. k] \in Seq(Plan!Interval) /\ g[1 .. k] # <<>>
                       /\ Holds(Marked(g[1 .. k]), Marked(upTo(k)))
           Loses == {k \in 0 .. n : ~Keeps(k)}
<1>6. Loses = {}
  <2> SUFFICES ASSUME Loses # {} PROVE FALSE
    OBVIOUS
  <2>1. Loses \subseteq Nat
    BY <1>1
  <2>2. PICK k \in Loses : \A m \in Loses : k <= m
    <3> HIDE DEF Loses
    <3> QED
      BY <2>1, Least
  <2>3. k \in 0 .. n /\ ~Keeps(k)
    BY <2>2
  <2>4. g[1 .. k] = IF 1 .. k = {} THEN base
                    ELSE LET x == Plan!Max(1 .. k) IN Taking(g[(1 .. k) \ {x}], q[x])
    <3>1. 1 .. k \in SUBSET (1 .. n)
      BY <1>1, <2>3
    <3> QED
      BY <1>5, <3>1 DEF Passes
  <2>5. CASE k = 0
    <3>1. 1 .. k = {}
      BY <2>5
    <3>2. g[1 .. k] = base /\ upTo(k) = base
      BY <1>2, <2>4, <2>5, <3>1
    <3>3. Holds(Marked(base), Marked(base))
      BY AreDirections, HoldsItself
    <3> QED
      BY <1>4, <2>3, <3>2, <3>3
  <2>6. CASE k # 0
    <3>1. k \in 1 .. n /\ k - 1 \in 0 .. n /\ k - 1 < k
      BY <1>1, <2>3, <2>6
    <3>2. Keeps(k - 1)
      BY <2>2, <3>1
    <3>3. k \in 1 .. k /\ k \in Int /\ \A x \in 1 .. k : x \in Int /\ x <= k
      BY <3>1
    <3>4. Plan!Max(1 .. k) = k
      BY <3>3, Greatest
    <3>5. (1 .. k) \ {k} = 1 .. (k - 1)
      BY <3>1
    <3> DEFINE kept == g[1 .. (k - 1)]
    <3>6. g[1 .. k] = Taking(kept, q[k])
      BY <2>4, <3>3, <3>4, <3>5
    <3>7. /\ Taking(kept, q[k]) \in Seq(Plan!Interval) /\ Taking(kept, q[k]) # <<>>
          /\ Holds(Marked(Taking(kept, q[k])), Marked(kept) \cup Of(q[k]))
      BY <1>1, <3>1, <3>2, TakingHolds
    <3>8. Holds(Marked(kept) \cup Of(q[k]), Marked(upTo(k - 1)) \cup Of(q[k]))
      BY <3>2, AreDirections, HoldsWith
    <3>9. Holds(Marked(Taking(kept, q[k])), Marked(upTo(k)))
      BY <1>3, <3>1, <3>7, <3>8, HoldsOn
    <3> QED
      BY <2>3, <3>6, <3>7, <3>9
  <2> QED
    BY <2>5, <2>6
<1>7. Keeps(n)
  BY <1>1, <1>6
<1> QED
  BY <1>2, <1>5, <1>7

\* Comparing the last interval with the first keeps what the set marks.
LEMMA ClosedHolds ==
  ASSUME NEW set \in Seq(Plan!Interval), set # <<>>
  PROVE  /\ Plan!Closed(set) \in Seq(Plan!Interval)
         /\ Holds(Marked(Plan!Closed(set)), Marked(set))
<1> DEFINE n == Len(set)
           first == Head(set)
           last == Plan!Last(set)
           between == SubSeq(set, 2, n - 1)
<1>1. n \in Nat /\ n >= 1 /\ first = set[1] /\ last = set[n]
  BY DEF Plan!Last
<1>2. first \in Plan!Interval /\ last \in Plan!Interval
  BY <1>1
<1>3. CASE n <= 1
  <2>1. Plan!Closed(set) = set
    BY <1>3 DEF Plan!Closed
  <2> QED
    BY <2>1, AreDirections, HoldsItself
<1>4. CASE n > 1
  <2>1. between \in Seq(Plan!Interval)
    BY <1>1, <1>4, SubSeqProperties
  <2>2. Marked(set) = Of(first) \cup Marked(between) \cup Of(last)
    <3> DEFINE rest == SubSeq(set, 2, n)
    <3>1. 1 \in 1 .. n /\ n \in 1 .. n /\ 2 \in 1 .. n /\ n \in 2 .. n /\ 1 + 1 = 2
      BY <1>1, <1>4
    <3>2. set = <<set[1]>> \o rest
      <4>1. SubSeq(set, 1, n) = <<set[1]>> \o SubSeq(set, 1 + 1, n)
        BY <3>1, SubSeqRecursiveFirst
      <4> QED
        BY <3>1, <4>1, SubSeqFull
    <3>3. rest = between \o <<set[n]>>
      BY <3>1, SubSeqRecursiveSecond
    <3> HIDE DEF rest, between, first, last, n
    <3>4. <<set[1]>> \in Seq(Plan!Interval) /\ Marked(<<set[1]>>) = Of(first)
      BY <1>1, <1>2, MarkedOne
    <3>5. <<set[n]>> \in Seq(Plan!Interval) /\ Marked(<<set[n]>>) = Of(last)
      BY <1>1, <1>2, MarkedOne
    <3>6. /\ rest \in Seq(Plan!Interval)
          /\ Marked(rest) = Marked(between) \cup Of(last)
      BY <2>1, <3>3, <3>5, MarkedJoin
    <3>7. Marked(<<set[1]>> \o rest) = Of(first) \cup Marked(rest)
      BY <3>4, <3>6, MarkedJoin
    <3> QED
      BY <3>2, <3>6, <3>7
  <2>3. CASE Plan!insideInterval(last, first.start)
    <3> DEFINE x == Plan!Extended(last, first)
    <3>1. Plan!Closed(set) = between \o <<x>>
      BY <1>4, <2>3 DEF Plan!Closed
    <3> HIDE DEF between, first, last
    <3>2. x \in Plan!Interval /\ Holds(Of(x), Of(last) \cup Of(first))
      BY <1>2, <2>3, ExtendedHolds
    <3> HIDE DEF x
    <3>3. <<x>> \in Seq(Plan!Interval) /\ Marked(<<x>>) = Of(x)
      BY <3>2, MarkedOne
    <3>4. /\ between \o <<x>> \in Seq(Plan!Interval)
          /\ Marked(between \o <<x>>) = Marked(between) \cup Of(x)
      BY <2>1, <3>3, MarkedJoin
    <3>5. Holds(Of(x) \cup Marked(between), (Of(last) \cup Of(first)) \cup Marked(between))
      BY <3>2, AreDirections, HoldsWith
    <3>6. /\ Of(x) \cup Marked(between) = Marked(between \o <<x>>)
          /\ (Of(last) \cup Of(first)) \cup Marked(between) = Marked(set)
      BY <2>2, <3>4
    <3> QED
      BY <3>1, <3>4, <3>5, <3>6
  <2>4. CASE ~Plan!insideInterval(last, first.start) /\ Plan!insideInterval(first, last.start)
    <3> DEFINE x == Plan!Extended(first, last)
    <3>1. Plan!Closed(set) = <<x>> \o between
      BY <1>4, <2>4 DEF Plan!Closed
    <3> HIDE DEF between, first, last
    <3>2. x \in Plan!Interval /\ Holds(Of(x), Of(first) \cup Of(last))
      BY <1>2, <2>4, ExtendedHolds
    <3> HIDE DEF x
    <3>3. <<x>> \in Seq(Plan!Interval) /\ Marked(<<x>>) = Of(x)
      BY <3>2, MarkedOne
    <3>4. /\ <<x>> \o between \in Seq(Plan!Interval)
          /\ Marked(<<x>> \o between) = Of(x) \cup Marked(between)
      BY <2>1, <3>3, MarkedJoin
    <3>5. Holds(Of(x) \cup Marked(between), (Of(first) \cup Of(last)) \cup Marked(between))
      BY <3>2, AreDirections, HoldsWith
    <3>6. /\ Of(x) \cup Marked(between) = Marked(<<x>> \o between)
          /\ (Of(first) \cup Of(last)) \cup Marked(between) = Marked(set)
      BY <2>2, <3>4
    <3> QED
      BY <3>1, <3>4, <3>5, <3>6
  <2>5. CASE ~Plan!insideInterval(last, first.start) /\ ~Plan!insideInterval(first, last.start)
    <3>1. Plan!Closed(set) = set
      BY <1>4, <2>5 DEF Plan!Closed
    <3> QED
      BY <3>1, AreDirections, HoldsItself
  <2> QED
    BY <2>3, <2>4, <2>5
<1> QED
  BY <1>1, <1>3, <1>4

\* setInvalid adds the sector to what the set marks.
LEMMA setInvalidHolds ==
  ASSUME NEW set \in Seq(Plan!Interval), NEW a, NEW b,
         Plan!Sector(a, b) \in Plan!Interval
  PROVE  LET r == Plan!setInvalid(set, a, b)
         IN /\ r \in Seq(Plan!Interval)
            /\ Holds(Marked(r), Marked(set) \cup Of(Plan!Sector(a, b)))
<1> DEFINE i == Plan!Sector(a, b)
           inserted == Plan!Inserted(set, i)
           swept == Plan!Swept(inserted)
           closed == Plan!Closed(swept)
<1>1. Plan!setInvalid(set, a, b) = closed
  BY DEF Plan!setInvalid
<1>2. i \in Plan!Interval
  OBVIOUS
<1> HIDE DEF i
<1>3. /\ inserted \in Seq(Plan!Interval) /\ inserted # <<>>
      /\ Marked(inserted) = Marked(set) \cup Of(i)
  BY <1>2, InsertedMarks
<1> HIDE DEF inserted
<1>4. /\ swept \in Seq(Plan!Interval) /\ swept # <<>>
      /\ Holds(Marked(swept), Marked(inserted))
  BY <1>3, SweptHolds
<1> HIDE DEF swept
<1>5. closed \in Seq(Plan!Interval) /\ Holds(Marked(closed), Marked(swept))
  BY <1>4, ClosedHolds
<1> HIDE DEF closed
<1>6. Holds(Marked(closed), Marked(set) \cup Of(i))
  BY <1>3, <1>4, <1>5, HoldsOn
<1> QED
  BY <1>1, <1>5, <1>6 DEF i

-----------------------------------------------------------------------------
(* Two intervals *)

\* An interval contains its ends.
LEMMA EndsInside ==
  ASSUME NEW i \in Plan!Interval
  PROVE  /\ i.start \in Of(i) /\ i.end \in Of(i)
         /\ i.start \in Plan!Directions /\ i.end \in Plan!Directions
         /\ i = [start |-> i.start, end |-> i.end]
<1>1. PICK b \in Plan!Directions, c \in Plan!Directions : i = [start |-> b, end |-> c]
  BY DEF Plan!Interval
<1>2. i.start = b /\ i.end = c
  BY <1>1
<1>3. b \in Int /\ c \in Int
  BY ParamsAssumption DEF Plan!Directions
<1>4. Plan!insideInterval(i, b) /\ Plan!insideInterval(i, c)
  BY <1>2, <1>3 DEF Plan!insideInterval
<1> QED
  BY <1>1, <1>2, <1>4 DEF Of

\* Both intervals are apart.
Disjoint(i, j) == Of(i) \cap Of(j) = {}

\* Two intervals of which neither contains the start of the other are apart.
LEMMA NeitherStart ==
  ASSUME NEW i \in Plan!Interval, NEW j \in Plan!Interval,
         ~Plan!insideInterval(i, j.start), ~Plan!insideInterval(j, i.start)
  PROVE  Disjoint(i, j)
<1>1. /\ i.start \in Plan!Directions /\ i.end \in Plan!Directions
      /\ j.start \in Plan!Directions /\ j.end \in Plan!Directions
  BY EndsInside
<1>2. ASSUME NEW a \in Plan!Directions, Plan!insideInterval(i, a), Plan!insideInterval(j, a)
      PROVE  FALSE
  BY <1>1, <1>2, ParamsAssumption DEF Plan!insideInterval, Plan!Directions
<1> QED
  BY <1>2 DEF Disjoint, Of

\* Intervals apart do not contain the start of each other.
LEMMA StartsApart ==
  ASSUME NEW i \in Plan!Interval, NEW j \in Plan!Interval, Disjoint(i, j)
  PROVE  ~Plan!insideInterval(i, j.start) /\ ~Plan!insideInterval(j, i.start)
BY EndsInside DEF Disjoint, Of

\* Extending an interval where some direction is left makes the union of both.
LEMMA ExtendedJoins ==
  ASSUME NEW i \in Plan!Interval, NEW j \in Plan!Interval, Plan!insideInterval(i, j.start),
         Of(i) \cup Of(j) # Plan!Directions
  PROVE  LET x == Plan!Extended(i, j)
         IN x \in Plan!Interval /\ Of(x) = Of(i) \cup Of(j) /\ x.start = i.start
<1> DEFINE x == Plan!Extended(i, j)
<1>1. x \in Plan!Interval /\ Holds(Of(x), Of(i) \cup Of(j))
  BY ExtendedHolds
<1>2. x.start = i.start
  BY EndsInside DEF Plan!Extended
<1> HIDE DEF x
<1>3. Of(x) = Of(i) \cup Of(j)
  BY <1>1 DEF Holds
<1> QED
  BY <1>1, <1>2, <1>3 DEF x

\* Interval m is the union of i and j and starts with one of them.
Joins(m, i, j) ==
  /\ m \in Plan!Interval /\ Of(m) = Of(i) \cup Of(j)
  /\ m.start = i.start \/ m.start = j.start

\* Two intervals that leave some direction are merged into their union, or apart.
LEMMA MergedJoins ==
  ASSUME NEW i \in Plan!Interval, NEW j \in Plan!Interval,
         Of(i) \cup Of(j) # Plan!Directions
  PROVE  \/ \E m : Plan!Merged(i, j) = <<m>> /\ Joins(m, i, j)
         \/ Plan!Merged(i, j) = <<i, j>> /\ Disjoint(i, j)
<1>1. CASE Plan!insideInterval(i, j.start)
  <2>1. Plan!Merged(i, j) = <<Plan!Extended(i, j)>>
    BY <1>1 DEF Plan!Merged
  <2>2. Joins(Plan!Extended(i, j), i, j)
    BY <1>1, ExtendedJoins DEF Joins
  <2> QED
    BY <2>1, <2>2
<1>2. CASE ~Plan!insideInterval(i, j.start) /\ Plan!insideInterval(j, i.start)
  <2>1. Plan!Merged(i, j) = <<Plan!Extended(j, i)>>
    BY <1>2 DEF Plan!Merged
  <2>2. Of(j) \cup Of(i) = Of(i) \cup Of(j)
    OBVIOUS
  <2>3. Joins(Plan!Extended(j, i), i, j)
    BY <1>2, <2>2, ExtendedJoins DEF Joins
  <2> QED
    BY <2>1, <2>3
<1>3. CASE ~Plan!insideInterval(i, j.start) /\ ~Plan!insideInterval(j, i.start)
  <2>1. Plan!Merged(i, j) = <<i, j>>
    BY <1>3 DEF Plan!Merged
  <2> QED
    BY <1>3, <2>1, NeitherStart
<1> QED
  BY <1>1, <1>2, <1>3

\* An interval takes in one within it without a change, whichever comes first.
LEMMA MergedWithin ==
  ASSUME NEW i \in Plan!Interval, NEW j \in Plan!Interval,
         Of(j) \subseteq Of(i), Of(i) # Plan!Directions
  PROVE  /\ Plan!insideInterval(i, j.start) /\ Plan!Extended(i, j) = i
         /\ Plan!Merged(i, j) = <<i>> /\ Plan!Merged(j, i) = <<i>>
<1> DEFINE b == i.start
           c == i.end
           d == j.start
           e == j.end
<1>1. /\ b \in Plan!Directions /\ c \in Plan!Directions
      /\ d \in Plan!Directions /\ e \in Plan!Directions
      /\ i = [start |-> b, end |-> c] /\ j = [start |-> d, end |-> e]
      /\ d \in Of(j) /\ e \in Of(j)
  BY EndsInside
<1>2. Plan!insideInterval(i, d) /\ Plan!insideInterval(i, e)
  BY <1>1 DEF Of
<1>3. \A a \in Plan!Directions : Plan!insideInterval(j, a) => Plan!insideInterval(i, a)
  BY DEF Of
<1>4. PICK g \in Plan!Directions : ~Plan!insideInterval(i, g)
  BY DEF Of
<1>5. ~Plan!insideInterval(j, g)
  BY <1>3, <1>4
<1> HIDE DEF b, c, d, e
<1>6. i.start = b /\ i.end = c /\ j.start = d /\ j.end = e
  BY DEF b, c, d, e
<1>7. \/ Plan!angleDifference(b, c) > Plan!angleDifference(b, e)
      \/ c = e
  BY <1>1, <1>2, <1>4, <1>5, <1>6, ParamsAssumption, SMTT(60)
     DEF Plan!insideInterval, Plan!Directions, Plan!angleDifference
<1>8. Plan!Extended(i, j) = i
  <2>1. Plan!Extended(i, j) =
          [start |-> b,
           end |-> IF Plan!angleDifference(b, c) > Plan!angleDifference(b, e) THEN c ELSE e]
    BY <1>1, <1>6 DEF Plan!Extended
  <2> QED
    BY <1>1, <1>7, <2>1
<1>9. Plan!Merged(i, j) = <<i>>
  BY <1>2, <1>6, <1>8 DEF Plan!Merged
<1>10. Plan!Merged(j, i) = <<i>>
  <2>1. CASE Plan!insideInterval(j, i.start)
    <3>1. b = d
      BY <1>1, <1>2, <1>4, <1>5, <1>6, <2>1, ParamsAssumption, SMTT(60)
         DEF Plan!insideInterval, Plan!Directions
    <3>2. ~(Plan!angleDifference(d, e) > Plan!angleDifference(d, c)) \/ c = e
      BY <1>1, <1>7, <3>1, ParamsAssumption DEF Plan!Directions, Plan!angleDifference
    <3>3. Plan!Extended(j, i) =
            [start |-> d,
             end |-> IF Plan!angleDifference(d, e) > Plan!angleDifference(d, c) THEN e ELSE c]
      BY <1>1, <1>6 DEF Plan!Extended
    <3>4. Plan!Extended(j, i) = i
      BY <1>1, <3>1, <3>2, <3>3
    <3> QED
      BY <2>1, <3>4 DEF Plan!Merged
  <2>2. CASE ~Plan!insideInterval(j, i.start)
    BY <1>2, <1>6, <1>8, <2>2 DEF Plan!Merged
  <2> QED
    BY <2>1, <2>2
<1> QED
  BY <1>2, <1>6, <1>8, <1>9, <1>10

-----------------------------------------------------------------------------
(* setInvalid with few intervals *)

\* Nothing is joined with one.
LEMMA JoinOne ==
  ASSUME NEW x \in Plan!Interval
  PROVE  /\ <<>> \o <<x>> = <<x>>
         /\ <<x>> \o <<>> = <<x>>
<1>1. <<x>> \in Seq(Plan!Interval)
  OBVIOUS
<1>2. <<>> \o <<x>> = <<x>>
  BY <1>1, ConcatEmptySeq
<1>3. <<x>> \o <<>> = <<x>>
  BY <1>1, ConcatEmptySeq
<1> QED
  BY <1>2, <1>3

\* Sequences of two in all.
LEMMA JoinTwo ==
  ASSUME NEW x \in Plan!Interval, NEW y \in Plan!Interval
  PROVE  <<x>> \o <<y>> = <<x, y>>
<1>1. <<x>> \in Seq(Plan!Interval) /\ <<y>> \in Seq(Plan!Interval)
      /\ <<x, y>> \in Seq(Plan!Interval)
  OBVIOUS
<1> DEFINE r == <<x>> \o <<y>>
<1>2. r \in Seq(Plan!Interval) /\ Len(r) = 2 /\ r[1] = x /\ r[2] = y
  BY <1>1, ConcatProperties
<1> HIDE DEF r
<1>3. r = <<x, y>>
  BY <1>1, <1>2, SeqEqual
<1> QED
  BY <1>3 DEF r

\* Sequences of three in all.
LEMMA JoinThree ==
  ASSUME NEW x \in Plan!Interval, NEW y \in Plan!Interval, NEW z \in Plan!Interval
  PROVE  /\ <<x>> \o <<y, z>> = <<x, y, z>>
         /\ <<x, y>> \o <<z>> = <<x, y, z>>
<1>1. /\ <<x>> \in Seq(Plan!Interval)
      /\ <<y, z>> \in Seq(Plan!Interval)
      /\ <<x, y, z>> \in Seq(Plan!Interval)
      /\ <<x, y>> \in Seq(Plan!Interval)
      /\ <<z>> \in Seq(Plan!Interval)
  OBVIOUS
<1>2. <<x>> \o <<y, z>> = <<x, y, z>>
  <2> DEFINE r == <<x>> \o <<y, z>>
  <2>1. r \in Seq(Plan!Interval) /\ Len(r) = 3 /\ r[1] = x /\ r[2] = y /\ r[3] = z
    BY <1>1, ConcatProperties
  <2> HIDE DEF r
  <2>2. r = <<x, y, z>>
    BY <1>1, <2>1, SeqEqual
  <2> QED
    BY <2>2 DEF r
<1>3. <<x, y>> \o <<z>> = <<x, y, z>>
  <2> DEFINE r == <<x, y>> \o <<z>>
  <2>1. r \in Seq(Plan!Interval) /\ Len(r) = 3 /\ r[1] = x /\ r[2] = y /\ r[3] = z
    BY <1>1, ConcatProperties
  <2> HIDE DEF r
  <2>2. r = <<x, y, z>>
    BY <1>1, <2>1, SeqEqual
  <2> QED
    BY <2>2 DEF r
<1> QED
  BY <1>2, <1>3

\* Two pairs.
LEMMA JoinFour ==
  ASSUME NEW x \in Plan!Interval,
         NEW y \in Plan!Interval,
         NEW z \in Plan!Interval,
         NEW i \in Plan!Interval
  PROVE  <<x, y>> \o <<z, i>> = <<x, y, z, i>>
<1>1. /\ <<x, y>> \in Seq(Plan!Interval)
      /\ <<z, i>> \in Seq(Plan!Interval)
      /\ <<x, y, z, i>> \in Seq(Plan!Interval)
  OBVIOUS
<1>2. <<x, y>> \o <<z, i>> = <<x, y, z, i>>
  <2> DEFINE r == <<x, y>> \o <<z, i>>
  <2>1. r \in Seq(Plan!Interval) /\ Len(r) = 4 /\ r[1] = x /\ r[2] = y /\ r[3] = z /\ r[4] = i
    BY <1>1, ConcatProperties
  <2> HIDE DEF r
  <2>2. r = <<x, y, z, i>>
    BY <1>1, <2>1, SeqEqual
  <2> QED
    BY <2>2 DEF r
<1> QED
  BY <1>2

\* The front of one.
LEMMA PartOne ==
  ASSUME NEW x \in Plan!Interval
  PROVE  SubSeq(<<x>>, 1, 0) = <<>>
<1>1. <<x>> \in Seq(Plan!Interval)
  OBVIOUS
<1>2. SubSeq(<<x>>, 1, 0) = <<>>
  BY <1>1, SubSeqEmpty
<1> QED
  BY <1>2

\* The front of two, and what is between them.
LEMMA PartTwo ==
  ASSUME NEW x \in Plan!Interval, NEW y \in Plan!Interval
  PROVE  /\ SubSeq(<<x, y>>, 1, 1) = <<x>>
         /\ SubSeq(<<x, y>>, 2, 1) = <<>>
<1>1. /\ <<x, y>> \in Seq(Plan!Interval)
      /\ <<x>> \in Seq(Plan!Interval)
  OBVIOUS
<1>2. SubSeq(<<x, y>>, 1, 1) = <<x>>
  <2> DEFINE r == SubSeq(<<x, y>>, 1, 1)
  <2>1. r \in Seq(Plan!Interval) /\ Len(r) = 1 /\ r[1] = x
    BY <1>1, SubSeqProperties
  <2> HIDE DEF r
  <2>2. r = <<x>>
    BY <1>1, <2>1, SeqEqual
  <2> QED
    BY <2>2 DEF r
<1>3. SubSeq(<<x, y>>, 2, 1) = <<>>
  BY <1>1, SubSeqEmpty
<1> QED
  BY <1>2, <1>3

\* The front of three, and what is between the outer ones.
LEMMA PartThree ==
  ASSUME NEW x \in Plan!Interval, NEW y \in Plan!Interval, NEW z \in Plan!Interval
  PROVE  /\ SubSeq(<<x, y, z>>, 1, 2) = <<x, y>>
         /\ SubSeq(<<x, y, z>>, 2, 2) = <<y>>
<1>1. /\ <<x, y, z>> \in Seq(Plan!Interval)
      /\ <<x, y>> \in Seq(Plan!Interval)
      /\ <<y>> \in Seq(Plan!Interval)
  OBVIOUS
<1>2. SubSeq(<<x, y, z>>, 1, 2) = <<x, y>>
  <2> DEFINE r == SubSeq(<<x, y, z>>, 1, 2)
  <2>1. r \in Seq(Plan!Interval) /\ Len(r) = 2 /\ r[1] = x /\ r[2] = y
    BY <1>1, SubSeqProperties
  <2> HIDE DEF r
  <2>2. r = <<x, y>>
    BY <1>1, <2>1, SeqEqual
  <2> QED
    BY <2>2 DEF r
<1>3. SubSeq(<<x, y, z>>, 2, 2) = <<y>>
  <2> DEFINE r == SubSeq(<<x, y, z>>, 2, 2)
  <2>1. r \in Seq(Plan!Interval) /\ Len(r) = 1 /\ r[1] = y
    BY <1>1, SubSeqProperties
  <2> HIDE DEF r
  <2>2. r = <<y>>
    BY <1>1, <2>1, SeqEqual
  <2> QED
    BY <2>2 DEF r
<1> QED
  BY <1>2, <1>3

\* What is between the outer ones of four.
LEMMA PartFour ==
  ASSUME NEW x \in Plan!Interval,
         NEW y \in Plan!Interval,
         NEW z \in Plan!Interval,
         NEW i \in Plan!Interval
  PROVE  SubSeq(<<x, y, z, i>>, 2, 3) = <<y, z>>
<1>1. /\ <<x, y, z, i>> \in Seq(Plan!Interval)
      /\ <<y, z>> \in Seq(Plan!Interval)
  OBVIOUS
<1>2. SubSeq(<<x, y, z, i>>, 2, 3) = <<y, z>>
  <2> DEFINE r == SubSeq(<<x, y, z, i>>, 2, 3)
  <2>1. r \in Seq(Plan!Interval) /\ Len(r) = 2 /\ r[1] = y /\ r[2] = z
    BY <1>1, SubSeqProperties
  <2> HIDE DEF r
  <2>2. r = <<y, z>>
    BY <1>1, <2>1, SeqEqual
  <2> QED
    BY <2>2 DEF r
<1> QED
  BY <1>2

\* The pass takes the intervals in one after the other.
LEMMA SweptInOrder ==
  ASSUME NEW set \in Seq(Plan!Interval), NEW n \in Nat, Len(set) = n + 1
  PROVE  \E f : /\ f[0] = <<set[1]>> /\ f[n] = Plan!Swept(set)
                /\ \A k \in 1 .. n : f[k] = Taking(f[k - 1], set[k + 1])
<1> DEFINE base == <<Head(set)>>
           q == Tail(set)
<1>1. /\ DOMAIN q = 1 .. n /\ base = <<set[1]>>
      /\ \A k \in 1 .. n : q[k] = set[k + 1]
  OBVIOUS
<1>2. PICK g : Passes(g, base, q, n) /\ Plan!Swept(set) = g[1 .. n]
  BY <1>1, SweptPasses
<1> HIDE DEF base, q
<1> DEFINE f == [k \in 0 .. n |-> g[1 .. k]]
<1>3. ASSUME NEW s \in SUBSET (1 .. n)
      PROVE  g[s] = IF s = {} THEN base ELSE LET k == Plan!Max(s) IN Taking(g[s \ {k}], q[k])
  BY <1>2 DEF Passes
<1>4. f[0] = base
  <2>1. 1 .. 0 = {} /\ {} \in SUBSET (1 .. n) /\ 0 \in 0 .. n
    OBVIOUS
  <2>2. g[{}] = base
    BY <1>3, <2>1
  <2> QED
    BY <2>1, <2>2
<1>5. ASSUME NEW k \in 1 .. n
      PROVE  f[k] = Taking(f[k - 1], set[k + 1])
  <2>1. /\ 1 .. k \in SUBSET (1 .. n) /\ k - 1 \in 0 .. n /\ k \in 0 .. n
        /\ (1 .. k) \ {k} = 1 .. (k - 1)
    OBVIOUS
  <2>2. k \in 1 .. k /\ k \in Int /\ \A x \in 1 .. k : x \in Int /\ x <= k
    OBVIOUS
  <2>3. Plan!Max(1 .. k) = k
    BY <2>2, Greatest
  <2>4. g[1 .. k] = Taking(g[1 .. (k - 1)], q[k])
    BY <1>3, <2>1, <2>2, <2>3
  <2> QED
    BY <1>1, <2>1, <2>4
<1>6. f[n] = Plan!Swept(set)
  BY <1>2
<1> QED
  BY <1>1, <1>4, <1>5, <1>6

\* One interval.
LEMMA SweptOne ==
  ASSUME NEW a \in Plan!Interval
  PROVE  Plan!Swept(<<a>>) = <<a>>
<1>1. <<a>> \in Seq(Plan!Interval) /\ Len(<<a>>) = 0 + 1 /\ <<a>>[1] = a
  OBVIOUS
<1> QED
  BY <1>1, SweptInOrder

\* Two intervals.
LEMMA SweptTwo ==
  ASSUME NEW a \in Plan!Interval, NEW b \in Plan!Interval
  PROVE  Plan!Swept(<<a, b>>) = Taking(<<a>>, b)
<1> DEFINE s == <<a, b>>
<1>1. s \in Seq(Plan!Interval) /\ Len(s) = 1 + 1 /\ s[1] = a /\ s[2] = b
  OBVIOUS
<1> HIDE DEF s
<1>2. PICK f : /\ f[0] = <<s[1]>> /\ f[1] = Plan!Swept(s)
               /\ \A k \in 1 .. 1 : f[k] = Taking(f[k - 1], s[k + 1])
  <2>1. \A n \in Nat : Len(s) = n + 1 =>
          \E f : /\ f[0] = <<s[1]>> /\ f[n] = Plan!Swept(s)
                 /\ \A k \in 1 .. n : f[k] = Taking(f[k - 1], s[k + 1])
    BY <1>1, SweptInOrder
  <2>2. 1 \in Nat
    OBVIOUS
  <2> QED
    BY <1>1, <2>1, <2>2
<1>3. f[1] = Taking(f[0], s[2])
  BY <1>2
<1> QED
  BY <1>1, <1>2, <1>3 DEF s

\* Three intervals.
LEMMA SweptThree ==
  ASSUME NEW a \in Plan!Interval, NEW b \in Plan!Interval,
         NEW c \in Plan!Interval
  PROVE  Plan!Swept(<<a, b, c>>) = Taking(Taking(<<a>>, b), c)
<1> DEFINE s == <<a, b, c>>
<1>1. s \in Seq(Plan!Interval) /\ Len(s) = 2 + 1 /\ s[1] = a /\ s[2] = b /\ s[3] = c
  OBVIOUS
<1> HIDE DEF s
<1>2. PICK f : /\ f[0] = <<s[1]>> /\ f[2] = Plan!Swept(s)
               /\ \A k \in 1 .. 2 : f[k] = Taking(f[k - 1], s[k + 1])
  <2>1. \A n \in Nat : Len(s) = n + 1 =>
          \E f : /\ f[0] = <<s[1]>> /\ f[n] = Plan!Swept(s)
                 /\ \A k \in 1 .. n : f[k] = Taking(f[k - 1], s[k + 1])
    BY <1>1, SweptInOrder
  <2>2. 2 \in Nat
    OBVIOUS
  <2> QED
    BY <1>1, <2>1, <2>2
<1>3. f[1] = Taking(f[0], s[2]) /\ f[2] = Taking(f[1], s[3])
  BY <1>2
<1> QED
  BY <1>1, <1>2, <1>3 DEF s

\* Four intervals.
LEMMA SweptFour ==
  ASSUME NEW a \in Plan!Interval, NEW b \in Plan!Interval,
         NEW c \in Plan!Interval, NEW d \in Plan!Interval
  PROVE  Plan!Swept(<<a, b, c, d>>) = Taking(Taking(Taking(<<a>>, b), c), d)
<1> DEFINE s == <<a, b, c, d>>
<1>1. /\ s \in Seq(Plan!Interval) /\ Len(s) = 3 + 1
      /\ s[1] = a /\ s[2] = b /\ s[3] = c /\ s[4] = d
  OBVIOUS
<1> HIDE DEF s
<1>2. PICK f : /\ f[0] = <<s[1]>> /\ f[3] = Plan!Swept(s)
               /\ \A k \in 1 .. 3 : f[k] = Taking(f[k - 1], s[k + 1])
  <2>1. \A n \in Nat : Len(s) = n + 1 =>
          \E f : /\ f[0] = <<s[1]>> /\ f[n] = Plan!Swept(s)
                 /\ \A k \in 1 .. n : f[k] = Taking(f[k - 1], s[k + 1])
    BY <1>1, SweptInOrder
  <2>2. 3 \in Nat
    OBVIOUS
  <2> QED
    BY <1>1, <2>1, <2>2
<1>3. f[1] = Taking(f[0], s[2]) /\ f[2] = Taking(f[1], s[3]) /\ f[3] = Taking(f[2], s[4])
  BY <1>2
<1> QED
  BY <1>1, <1>2, <1>3 DEF s

\* A step of the pass merges an interval with the last one kept.
LEMMA TakingOne ==
  ASSUME NEW x \in Plan!Interval, NEW i \in Plan!Interval
  PROVE  Taking(<<x>>, i) = Plan!Merged(x, i)
<1>1. Plan!Last(<<x>>) = x /\ Len(<<x>>) = 1 /\ 1 - 1 = 0
  BY DEF Plan!Last
<1>2. Plan!Front(<<x>>) = <<>>
  BY <1>1, PartOne DEF Plan!Front
<1>3. <<>> \o Plan!Merged(x, i) = Plan!Merged(x, i)
  BY MergedHolds, ConcatEmptySeq
<1> QED
  BY <1>1, <1>2, <1>3 DEF Taking

\* So with two kept.
LEMMA TakingTwo ==
  ASSUME NEW x \in Plan!Interval, NEW y \in Plan!Interval, NEW i \in Plan!Interval
  PROVE  Taking(<<x, y>>, i) = <<x>> \o Plan!Merged(y, i)
<1>1. Plan!Last(<<x, y>>) = y /\ Len(<<x, y>>) = 2 /\ 2 - 1 = 1
  BY DEF Plan!Last
<1>2. Plan!Front(<<x, y>>) = <<x>>
  <2>1. Plan!Front(<<x, y>>) = SubSeq(<<x, y>>, 1, 1)
    BY <1>1 DEF Plan!Front
  <2> QED
    BY <2>1, PartTwo
<1> QED
  BY <1>1, <1>2 DEF Taking

\* The last of three and those before it.
LEMMA EndsThree ==
  ASSUME NEW x \in Plan!Interval, NEW y \in Plan!Interval, NEW z \in Plan!Interval
  PROVE  Plan!Last(<<x, y, z>>) = z /\ Plan!Front(<<x, y, z>>) = <<x, y>>
<1>1. Plan!Last(<<x, y, z>>) = z /\ Len(<<x, y, z>>) = 3 /\ 3 - 1 = 2
  BY DEF Plan!Last
<1>2. Plan!Front(<<x, y, z>>) = SubSeq(<<x, y, z>>, 1, 2)
  BY <1>1 DEF Plan!Front
<1> QED
  BY <1>1, <1>2, PartThree

\* What comparing the last of up to three intervals with the first makes of them.
LEMMA ClosedFew ==
  ASSUME NEW a \in Plan!Interval, NEW b \in Plan!Interval, NEW c \in Plan!Interval
  PROVE  /\ Plan!Closed(<<a>>) = <<a>>
         /\ Plan!Closed(<<a, b>>) =
              IF Plan!insideInterval(b, a.start) THEN <<Plan!Extended(b, a)>>
              ELSE IF Plan!insideInterval(a, b.start) THEN <<Plan!Extended(a, b)>>
              ELSE <<a, b>>
         /\ Plan!Closed(<<a, b, c>>) =
              IF Plan!insideInterval(c, a.start) THEN <<b, Plan!Extended(c, a)>>
              ELSE IF Plan!insideInterval(a, c.start) THEN <<Plan!Extended(a, c), b>>
              ELSE <<a, b, c>>
<1>1. Plan!Closed(<<a>>) = <<a>>
  BY DEF Plan!Closed
<1>2. /\ Plan!Last(<<a, b>>) = b /\ Head(<<a, b>>) = a /\ Len(<<a, b>>) = 2
      /\ Plan!Last(<<a, b, c>>) = c /\ Head(<<a, b, c>>) = a /\ Len(<<a, b, c>>) = 3
  BY DEF Plan!Last
<1>3. /\ SubSeq(<<a, b>>, 2, 1) = <<>> /\ SubSeq(<<a, b, c>>, 2, 2) = <<b>>
  <2>1. SubSeq(<<a, b>>, 2, 1) = <<>>
    BY PartTwo
  <2>2. SubSeq(<<a, b, c>>, 2, 2) = <<b>>
    BY PartThree
  <2> QED
    BY <2>1, <2>2
<1>4. ASSUME NEW x \in Plan!Interval
      PROVE  /\ <<>> \o <<x>> = <<x>> /\ <<x>> \o <<>> = <<x>>
             /\ <<b>> \o <<x>> = <<b, x>> /\ <<x>> \o <<b>> = <<x, b>>
  <2>1. <<>> \o <<x>> = <<x>> /\ <<x>> \o <<>> = <<x>>
    BY JoinOne
  <2>2. <<b>> \o <<x>> = <<b, x>>
    BY JoinTwo
  <2>3. <<x>> \o <<b>> = <<x, b>>
    BY JoinTwo
  <2> QED
    BY <2>1, <2>2, <2>3
<1>5. ASSUME NEW i \in Plan!Interval, NEW j \in Plan!Interval, Plan!insideInterval(i, j.start)
      PROVE  Plan!Extended(i, j) \in Plan!Interval
  BY <1>5, ExtendedHolds
<1>6. ASSUME NEW s, ~(Len(s) <= 1)
      PROVE  Plan!Closed(s) =
               IF Plan!insideInterval(Plan!Last(s), Head(s).start)
                 THEN SubSeq(s, 2, Len(s) - 1) \o <<Plan!Extended(Plan!Last(s), Head(s))>>
               ELSE IF Plan!insideInterval(Head(s), Plan!Last(s).start)
                 THEN <<Plan!Extended(Head(s), Plan!Last(s))>> \o SubSeq(s, 2, Len(s) - 1)
               ELSE s
  BY <1>6 DEF Plan!Closed
<1>7. Plan!Closed(<<a, b>>) =
        IF Plan!insideInterval(b, a.start) THEN <<Plan!Extended(b, a)>>
        ELSE IF Plan!insideInterval(a, b.start) THEN <<Plan!Extended(a, b)>>
        ELSE <<a, b>>
  <2> DEFINE s == <<a, b>>
  <2>1. /\ Plan!Last(s) = b /\ Head(s) = a /\ Len(s) = 2 /\ ~(2 <= 1) /\ 2 - 1 = 1
        /\ SubSeq(s, 2, 1) = <<>>
    BY <1>2, <1>3
  <2> HIDE DEF s
  <2>2. Plan!Closed(s) =
          IF Plan!insideInterval(b, a.start) THEN <<>> \o <<Plan!Extended(b, a)>>
          ELSE IF Plan!insideInterval(a, b.start) THEN <<Plan!Extended(a, b)>> \o <<>>
          ELSE s
    BY <1>6, <2>1
  <2>3. Plan!Closed(s) =
          IF Plan!insideInterval(b, a.start) THEN <<Plan!Extended(b, a)>>
          ELSE IF Plan!insideInterval(a, b.start) THEN <<Plan!Extended(a, b)>>
          ELSE s
    BY <1>4, <1>5, <2>2
  <2> QED
    BY <2>3 DEF s
<1>8. Plan!Closed(<<a, b, c>>) =
        IF Plan!insideInterval(c, a.start) THEN <<b, Plan!Extended(c, a)>>
        ELSE IF Plan!insideInterval(a, c.start) THEN <<Plan!Extended(a, c), b>>
        ELSE <<a, b, c>>
  <2> DEFINE s == <<a, b, c>>
  <2>1. /\ Plan!Last(s) = c /\ Head(s) = a /\ Len(s) = 3 /\ ~(3 <= 1) /\ 3 - 1 = 2
        /\ SubSeq(s, 2, 2) = <<b>>
    BY <1>2, <1>3
  <2> HIDE DEF s
  <2>2. Plan!Closed(s) =
          IF Plan!insideInterval(c, a.start) THEN <<b>> \o <<Plan!Extended(c, a)>>
          ELSE IF Plan!insideInterval(a, c.start) THEN <<Plan!Extended(a, c)>> \o <<b>>
          ELSE s
    BY <1>6, <2>1
  <2>3. Plan!Closed(s) =
          IF Plan!insideInterval(c, a.start) THEN <<b, Plan!Extended(c, a)>>
          ELSE IF Plan!insideInterval(a, c.start) THEN <<Plan!Extended(a, c), b>>
          ELSE s
    BY <1>4, <1>5, <2>2
  <2> QED
    BY <2>3 DEF s
<1> QED
  BY <1>1, <1>7, <1>8

\* Four, the last of which contains the start of the first.
LEMMA ClosedFour ==
  ASSUME NEW a \in Plan!Interval, NEW b \in Plan!Interval,
         NEW c \in Plan!Interval, NEW d \in Plan!Interval,
         Plan!insideInterval(d, a.start)
  PROVE  Plan!Closed(<<a, b, c, d>>) = <<b, c, Plan!Extended(d, a)>>
<1> DEFINE s == <<a, b, c, d>>
           x == Plan!Extended(d, a)
<1>1. x \in Plan!Interval
  BY ExtendedHolds
<1>2. /\ Plan!Last(s) = d /\ Head(s) = a /\ Len(s) = 4 /\ ~(4 <= 1) /\ 4 - 1 = 3
      /\ SubSeq(s, 2, 3) = <<b, c>>
  <2>1. Plan!Last(s) = d /\ Head(s) = a /\ Len(s) = 4 /\ ~(4 <= 1) /\ 4 - 1 = 3
    BY DEF Plan!Last
  <2>2. SubSeq(s, 2, 3) = <<b, c>>
    BY PartFour
  <2> QED
    BY <2>1, <2>2
<1> HIDE DEF s
<1>3. Plan!Closed(s) = <<b, c>> \o <<x>>
  BY <1>2 DEF Plan!Closed
<1> HIDE DEF x
<1>4. <<b, c>> \o <<x>> = <<b, c, x>>
  BY <1>1, JoinThree
<1> QED
  BY <1>3, <1>4 DEF s, x

\* The intervals are apart, and in the order of their starts.
Separate(q) == \A k, l \in DOMAIN q : k # l => Disjoint(q[k], q[l])

Rising(q) == \A k, l \in DOMAIN q : k < l => q[k].start <= q[l].start

\* Each interval of q is within one of r.
Gathers(q, r) == \A k \in DOMAIN q : \E l \in DOMAIN r : Of(q[k]) \subseteq Of(r[l])

\* What setInvalid leaves of the intervals of q; it merges some, or leaves all.
Settled(q, r) ==
  /\ r \in Seq(Plan!Interval) /\ Separate(r) /\ Rising(r) /\ Gathers(q, r)
  /\ Len(r) < Len(q) \/ r = q

\* One interval is left of several.
LEMMA OneLeft ==
  ASSUME NEW q \in Seq(Plan!Interval), Len(q) > 1, NEW m \in Plan!Interval,
         \A k \in DOMAIN q : Of(q[k]) \subseteq Of(m)
  PROVE  Settled(q, <<m>>)
<1> DEFINE r == <<m>>
<1>1. r \in Seq(Plan!Interval) /\ Len(r) = 1 /\ DOMAIN r = {1} /\ r[1] = m
  OBVIOUS
<1> HIDE DEF r
<1>2. Separate(r) /\ Rising(r) /\ Gathers(q, r)
  BY <1>1 DEF Separate, Rising, Gathers
<1> QED
  BY <1>1, <1>2 DEF Settled, r

\* Two intervals are left of three.
LEMMA TwoLeft ==
  ASSUME NEW q \in Seq(Plan!Interval), Len(q) > 2,
         NEW m \in Plan!Interval, NEW n \in Plan!Interval,
         Disjoint(m, n), m.start <= n.start,
         \A k \in DOMAIN q : Of(q[k]) \subseteq Of(m) \/ Of(q[k]) \subseteq Of(n)
  PROVE  Settled(q, <<m, n>>)
<1> DEFINE r == <<m, n>>
<1>1. r \in Seq(Plan!Interval) /\ Len(r) = 2 /\ DOMAIN r = {1, 2} /\ r[1] = m /\ r[2] = n
  OBVIOUS
<1> HIDE DEF r
<1>2. Disjoint(n, m)
  BY DEF Disjoint
<1>3. Separate(r)
  BY <1>1, <1>2 DEF Separate
<1>4. Rising(r)
  <2>1. ASSUME NEW k \in {1, 2}, NEW l \in {1, 2}, k < l
        PROVE  k = 1 /\ l = 2
    BY <2>1
  <2> QED
    BY <1>1, <2>1 DEF Rising
<1>5. Gathers(q, r)
  BY <1>1 DEF Gathers
<1> QED
  BY <1>1, <1>3, <1>4, <1>5 DEF Settled, r

\* Nothing is merged.
LEMMA AllLeft ==
  ASSUME NEW q \in Seq(Plan!Interval), Separate(q), Rising(q)
  PROVE  Settled(q, q)
BY DEF Settled, Gathers

\* The last of two intervals is merged with the first, or apart from it.
LEMMA ClosedTwo ==
  ASSUME NEW a \in Plan!Interval, NEW b \in Plan!Interval,
         Of(a) \cup Of(b) # Plan!Directions
  PROVE  \/ \E m : Plan!Closed(<<a, b>>) = <<m>> /\ Joins(m, a, b)
         \/ Plan!Closed(<<a, b>>) = <<a, b>> /\ Disjoint(a, b)
<1>1. Of(b) \cup Of(a) = Of(a) \cup Of(b)
  OBVIOUS
<1>2. CASE Plan!insideInterval(b, a.start)
  <2>1. Plan!Closed(<<a, b>>) = <<Plan!Extended(b, a)>>
    BY <1>2, ClosedFew
  <2>2. Joins(Plan!Extended(b, a), a, b)
    BY <1>1, <1>2, ExtendedJoins DEF Joins
  <2> QED
    BY <2>1, <2>2
<1>3. CASE ~Plan!insideInterval(b, a.start) /\ Plan!insideInterval(a, b.start)
  <2>1. Plan!Closed(<<a, b>>) = <<Plan!Extended(a, b)>>
    BY <1>3, ClosedFew
  <2>2. Joins(Plan!Extended(a, b), a, b)
    BY <1>3, ExtendedJoins DEF Joins
  <2> QED
    BY <2>1, <2>2
<1>4. CASE ~Plan!insideInterval(b, a.start) /\ ~Plan!insideInterval(a, b.start)
  BY <1>4, ClosedFew, NeitherStart
<1> QED
  BY <1>2, <1>3, <1>4

\* The same of three.
LEMMA ClosedThree ==
  ASSUME NEW a \in Plan!Interval, NEW b \in Plan!Interval, NEW c \in Plan!Interval,
         Of(a) \cup Of(c) # Plan!Directions
  PROVE  \/ \E m : Plan!Closed(<<a, b, c>>) = <<b, m>> /\ Joins(m, a, c) /\ m.start = c.start
         \/ \E m : Plan!Closed(<<a, b, c>>) = <<m, b>> /\ Joins(m, a, c) /\ m.start = a.start
         \/ Plan!Closed(<<a, b, c>>) = <<a, b, c>> /\ Disjoint(a, c)
<1>1. Of(c) \cup Of(a) = Of(a) \cup Of(c)
  OBVIOUS
<1>2. CASE Plan!insideInterval(c, a.start)
  <2>1. Plan!Closed(<<a, b, c>>) = <<b, Plan!Extended(c, a)>>
    BY <1>2, ClosedFew
  <2>2. Joins(Plan!Extended(c, a), a, c) /\ Plan!Extended(c, a).start = c.start
    BY <1>1, <1>2, ExtendedJoins DEF Joins
  <2> QED
    BY <2>1, <2>2
<1>3. CASE ~Plan!insideInterval(c, a.start) /\ Plan!insideInterval(a, c.start)
  <2>1. Plan!Closed(<<a, b, c>>) = <<Plan!Extended(a, c), b>>
    BY <1>3, ClosedFew
  <2>2. Joins(Plan!Extended(a, c), a, c) /\ Plan!Extended(a, c).start = a.start
    BY <1>3, ExtendedJoins DEF Joins
  <2> QED
    BY <2>1, <2>2
<1>4. CASE ~Plan!insideInterval(c, a.start) /\ ~Plan!insideInterval(a, c.start)
  <2>1. Plan!Closed(<<a, b, c>>) = <<a, b, c>>
    BY <1>4, ClosedFew
  <2> QED
    BY <1>4, <2>1, NeitherStart
<1> QED
  BY <1>2, <1>3, <1>4

\* With two intervals that leave a direction.
LEMMA TwoSettle ==
  ASSUME NEW a \in Plan!Interval, NEW b \in Plan!Interval, a.start <= b.start,
         Of(a) \cup Of(b) # Plan!Directions
  PROVE  Settled(<<a, b>>, Plan!Closed(Plan!Swept(<<a, b>>)))
<1> DEFINE q == <<a, b>>
<1>1. q \in Seq(Plan!Interval) /\ Len(q) = 2 /\ DOMAIN q = {1, 2} /\ q[1] = a /\ q[2] = b
  OBVIOUS
<1>2. Plan!Swept(q) = Taking(<<a>>, b)
  BY SweptTwo
<1> HIDE DEF q
<1>3. CASE \E m : Plan!Merged(a, b) = <<m>> /\ Joins(m, a, b)
  <2>1. PICK m : Plan!Merged(a, b) = <<m>> /\ Joins(m, a, b)
    BY <1>3
  <2>2. m \in Plan!Interval /\ Of(a) \subseteq Of(m) /\ Of(b) \subseteq Of(m)
    BY <2>1 DEF Joins
  <2>3. Plan!Closed(Plan!Swept(q)) = <<m>>
    <3>1. Taking(<<a>>, b) = <<m>>
      BY <2>1, TakingOne
    <3>2. Plan!Closed(<<m>>) = <<m>>
      BY <2>2, ClosedFew
    <3> QED
      BY <1>2, <3>1, <3>2
  <2>4. \A k \in DOMAIN q : Of(q[k]) \subseteq Of(m)
    BY <1>1, <2>2
  <2>5. Settled(q, <<m>>)
    BY <1>1, <2>2, <2>4, OneLeft
  <2> QED
    BY <2>3, <2>5 DEF q
<1>4. CASE Plan!Merged(a, b) = <<a, b>> /\ Disjoint(a, b)
  <2>1. Plan!Swept(q) = <<a, b>>
    BY <1>2, <1>4, TakingOne
  <2>2. Plan!Closed(<<a, b>>) = <<a, b>>
    BY <1>4, StartsApart, ClosedFew
  <2>3. Separate(q)
    <3>1. Disjoint(b, a)
      BY <1>4 DEF Disjoint
    <3> QED
      BY <1>1, <1>4, <3>1 DEF Separate
  <2>4. Rising(q)
    <3>1. ASSUME NEW k \in {1, 2}, NEW l \in {1, 2}, k < l
          PROVE  k = 1 /\ l = 2
      BY <3>1
    <3> QED
      BY <1>1, <3>1 DEF Rising
  <2>5. Settled(q, q)
    BY <1>1, <2>3, <2>4, AllLeft
  <2> QED
    BY <2>1, <2>2, <2>5 DEF q
<1> QED
  BY <1>3, <1>4, MergedJoins

\* With three intervals that leave a direction.
LEMMA ThreeSettle ==
  ASSUME NEW a \in Plan!Interval, NEW b \in Plan!Interval, NEW c \in Plan!Interval,
         a.start <= b.start, b.start <= c.start,
         Of(a) \cup Of(b) \cup Of(c) # Plan!Directions
  PROVE  Settled(<<a, b, c>>, Plan!Closed(Plan!Swept(<<a, b, c>>)))
<1> DEFINE q == <<a, b, c>>
<1>1. /\ q \in Seq(Plan!Interval) /\ Len(q) > 1 /\ Len(q) > 2 /\ DOMAIN q = 1 .. 3
      /\ q[1] = a /\ q[2] = b /\ q[3] = c
  OBVIOUS
<1>2. Plan!Swept(q) = Taking(Taking(<<a>>, b), c)
  BY SweptThree
<1>3. /\ a.start \in Int /\ b.start \in Int /\ c.start \in Int
      /\ Of(a) \subseteq Plan!Directions /\ Of(b) \subseteq Plan!Directions
      /\ Of(c) \subseteq Plan!Directions
  BY EndsInside, AreDirections, ParamsAssumption DEF Plan!Directions
<1> HIDE DEF q
<1>4. ASSUME NEW m \in Plan!Interval, Of(a) \cup Of(b) \cup Of(c) = Of(m)
      PROVE  Settled(q, Plan!Closed(<<m>>))
  <2>1. Plan!Closed(<<m>>) = <<m>>
    BY ClosedFew
  <2>2. \A k \in DOMAIN q : Of(q[k]) \subseteq Of(m)
    BY <1>1, <1>4
  <2> QED
    BY <1>1, <2>1, <2>2, OneLeft
<1>5. ASSUME NEW m \in Plan!Interval, NEW n \in Plan!Interval, m.start <= n.start,
             Of(a) \cup Of(b) \cup Of(c) = Of(m) \cup Of(n),
             \A k \in DOMAIN q : Of(q[k]) \subseteq Of(m) \/ Of(q[k]) \subseteq Of(n)
      PROVE  Settled(q, Plan!Closed(<<m, n>>))
  <2>1. Of(m) \cup Of(n) # Plan!Directions
    BY <1>5
  <2>2. CASE \E l : Plan!Closed(<<m, n>>) = <<l>> /\ Joins(l, m, n)
    <3>1. PICK l : Plan!Closed(<<m, n>>) = <<l>> /\ Joins(l, m, n)
      BY <2>2
    <3>2. l \in Plan!Interval /\ Of(l) = Of(m) \cup Of(n)
      BY <3>1 DEF Joins
    <3>3. \A k \in DOMAIN q : Of(q[k]) \subseteq Of(l)
      BY <1>5, <3>2
    <3> QED
      BY <1>1, <3>1, <3>2, <3>3, OneLeft
  <2>3. CASE Plan!Closed(<<m, n>>) = <<m, n>> /\ Disjoint(m, n)
    BY <1>1, <1>5, <2>3, TwoLeft
  <2> QED
    BY <2>1, <2>2, <2>3, ClosedTwo
<1>6. Of(a) \cup Of(b) # Plan!Directions
  BY <1>3
<1>7. CASE \E m : Plan!Merged(a, b) = <<m>> /\ Joins(m, a, b)
  <2>1. PICK m : Plan!Merged(a, b) = <<m>> /\ Joins(m, a, b)
    BY <1>7
  <2>2. /\ m \in Plan!Interval /\ Of(m) = Of(a) \cup Of(b) /\ m.start <= c.start
    BY <1>3, <2>1 DEF Joins
  <2>3. Plan!Swept(q) = Plan!Merged(m, c)
    BY <1>2, <2>1, <2>2, TakingOne
  <2>4. Of(m) \cup Of(c) # Plan!Directions
    BY <2>2
  <2>5. CASE \E n : Plan!Merged(m, c) = <<n>> /\ Joins(n, m, c)
    <3>1. PICK n : Plan!Merged(m, c) = <<n>> /\ Joins(n, m, c)
      BY <2>5
    <3>2. n \in Plan!Interval /\ Of(a) \cup Of(b) \cup Of(c) = Of(n)
      BY <2>2, <3>1 DEF Joins
    <3> QED
      BY <1>4, <2>3, <3>1, <3>2 DEF q
  <2>6. CASE Plan!Merged(m, c) = <<m, c>> /\ Disjoint(m, c)
    <3>1. \A k \in DOMAIN q : Of(q[k]) \subseteq Of(m) \/ Of(q[k]) \subseteq Of(c)
      BY <1>1, <2>2
    <3>2. Settled(q, Plan!Closed(<<m, c>>))
      BY <1>5, <2>2, <3>1
    <3> QED
      BY <2>3, <2>6, <3>2 DEF q
  <2> QED
    BY <2>2, <2>4, <2>5, <2>6, MergedJoins
<1>8. CASE Plan!Merged(a, b) = <<a, b>> /\ Disjoint(a, b)
  <2>1. Plan!Swept(q) = <<a>> \o Plan!Merged(b, c)
    BY <1>2, <1>8, TakingOne, TakingTwo
  <2>2. Of(b) \cup Of(c) # Plan!Directions /\ Of(a) \cup Of(c) # Plan!Directions
    BY <1>3
  <2>3. CASE \E m : Plan!Merged(b, c) = <<m>> /\ Joins(m, b, c)
    <3>1. PICK m : Plan!Merged(b, c) = <<m>> /\ Joins(m, b, c)
      BY <2>3
    <3>2. /\ m \in Plan!Interval /\ Of(m) = Of(b) \cup Of(c) /\ a.start <= m.start
      BY <1>3, <3>1 DEF Joins
    <3>3. Plan!Swept(q) = <<a, m>>
      <4>1. <<a>> \o <<m>> = <<a, m>>
        BY <3>2, JoinTwo
      <4> QED
        BY <2>1, <3>1, <4>1
    <3>4. \A k \in DOMAIN q : Of(q[k]) \subseteq Of(a) \/ Of(q[k]) \subseteq Of(m)
      BY <1>1, <3>2
    <3>5. Of(a) \cup Of(b) \cup Of(c) = Of(a) \cup Of(m)
      BY <3>2
    <3>6. Settled(q, Plan!Closed(<<a, m>>))
      BY <1>5, <3>2, <3>4, <3>5
    <3> QED
      BY <3>3, <3>6 DEF q
  <2>4. CASE Plan!Merged(b, c) = <<b, c>> /\ Disjoint(b, c)
    <3>1. Plan!Swept(q) = <<a, b, c>>
      <4>1. <<a>> \o <<b, c>> = <<a, b, c>>
        BY JoinThree
      <4> QED
        BY <2>1, <2>4, <4>1
    <3>2. CASE \E m : /\ Plan!Closed(<<a, b, c>>) = <<b, m>>
                      /\ Joins(m, a, c) /\ m.start = c.start
      <4>1. PICK m : Plan!Closed(<<a, b, c>>) = <<b, m>> /\ Joins(m, a, c) /\ m.start = c.start
        BY <3>2
      <4>2. m \in Plan!Interval /\ Of(m) = Of(a) \cup Of(c) /\ b.start <= m.start
        BY <4>1 DEF Joins
      <4>3. Disjoint(b, m)
        BY <1>8, <2>4, <4>2 DEF Disjoint
      <4>4. \A k \in DOMAIN q : Of(q[k]) \subseteq Of(b) \/ Of(q[k]) \subseteq Of(m)
        BY <1>1, <4>2
      <4>5. Settled(q, <<b, m>>)
        BY <1>1, <4>2, <4>3, <4>4, TwoLeft
      <4> QED
        BY <3>1, <4>1, <4>5 DEF q
    <3>3. CASE \E m : /\ Plan!Closed(<<a, b, c>>) = <<m, b>>
                      /\ Joins(m, a, c) /\ m.start = a.start
      <4>1. PICK m : Plan!Closed(<<a, b, c>>) = <<m, b>> /\ Joins(m, a, c) /\ m.start = a.start
        BY <3>3
      <4>2. m \in Plan!Interval /\ Of(m) = Of(a) \cup Of(c) /\ m.start <= b.start
        BY <4>1 DEF Joins
      <4>3. Disjoint(m, b)
        BY <1>8, <2>4, <4>2 DEF Disjoint
      <4>4. \A k \in DOMAIN q : Of(q[k]) \subseteq Of(m) \/ Of(q[k]) \subseteq Of(b)
        BY <1>1, <4>2
      <4>5. Settled(q, <<m, b>>)
        BY <1>1, <4>2, <4>3, <4>4, TwoLeft
      <4> QED
        BY <3>1, <4>1, <4>5 DEF q
    <3>4. CASE Plan!Closed(<<a, b, c>>) = <<a, b, c>> /\ Disjoint(a, c)
      <4>1. /\ Disjoint(a, b) /\ Disjoint(b, a) /\ Disjoint(b, c) /\ Disjoint(c, b)
            /\ Disjoint(a, c) /\ Disjoint(c, a)
        BY <1>8, <2>4, <3>4 DEF Disjoint
      <4>2. Separate(q)
        BY <1>1, <4>1 DEF Separate
      <4>3. Rising(q)
        <5>1. DOMAIN q = 1 .. 3 /\ q[1] = a /\ q[2] = b /\ q[3] = c
          BY <1>1
        <5>2. ASSUME NEW k \in DOMAIN q, NEW l \in DOMAIN q, k < l
              PROVE  q[k].start <= q[l].start
          <6>1. k \in Int /\ l \in Int /\ 1 <= k /\ k <= 3 /\ 1 <= l /\ l <= 3
            BY <5>1
          <6>2. (k = 1 \/ k = 2) /\ (l = 2 \/ l = 3)
            BY <5>2, <6>1
          <6> QED
            BY <1>3, <5>1, <5>2, <6>1, <6>2
        <5> QED
          BY <5>2 DEF Rising
      <4>4. Settled(q, q)
        BY <1>1, <4>2, <4>3, AllLeft
      <4> QED
        BY <3>1, <3>4, <4>4 DEF q
    <3> QED
      BY <2>2, <3>2, <3>3, <3>4, ClosedThree
  <2> QED
    BY <2>2, <2>3, <2>4, MergedJoins
<1> QED
  BY <1>6, <1>7, <1>8, MergedJoins

\* Up to three intervals that leave a direction, in the order of their starts.
LEMMA FewSettle ==
  ASSUME NEW q \in Seq(Plan!Interval), Len(q) \in 1 .. 3, Rising(q),
         Marked(q) # Plan!Directions
  PROVE  Settled(q, Plan!Closed(Plan!Swept(q)))
<1>1. ASSUME NEW k \in DOMAIN q
      PROVE  q[k] \in Plan!Interval /\ Of(q[k]) \subseteq Marked(q)
  BY DEF Of, Marked, Plan!isInvalid
<1>2. Marked(q) \subseteq Plan!Directions
  BY AreDirections
<1>3. CASE Len(q) = 1
  <2>1. DOMAIN q = {1} /\ q[1] \in Plan!Interval
    BY <1>3
  <2>2. q = <<q[1]>>
    <3> DEFINE r == <<q[1]>>
    <3>1. r \in Seq(Plan!Interval) /\ Len(r) = 1 /\ r[1] = q[1]
      BY <2>1
    <3> HIDE DEF r
    <3>2. \A k \in 1 .. Len(q) : q[k] = r[k]
      BY <1>3, <3>1
    <3>3. q = r
      BY <1>3, <3>1, <3>2, SeqEqual
    <3> QED
      BY <3>3 DEF r
  <2>3. Plan!Swept(<<q[1]>>) = <<q[1]>>
    BY <2>1, SweptOne
  <2>4. Plan!Closed(<<q[1]>>) = <<q[1]>>
    BY <2>1, ClosedFew
  <2>5. Plan!Closed(Plan!Swept(q)) = q
    BY <2>2, <2>3, <2>4
  <2>6. Separate(q)
    BY <2>1 DEF Separate
  <2> QED
    BY <2>5, <2>6, AllLeft
<1>4. CASE Len(q) = 2
  <2> DEFINE a == q[1]
             b == q[2]
  <2>0. 1 \in DOMAIN q /\ 2 \in DOMAIN q
    BY <1>4
  <2>1. a \in Plan!Interval /\ b \in Plan!Interval
    BY <1>1, <2>0
  <2>2. q = <<a, b>>
    <3> DEFINE r == <<a, b>>
    <3>1. r \in Seq(Plan!Interval) /\ Len(r) = 2 /\ r[1] = q[1] /\ r[2] = q[2]
      BY <2>1
    <3> HIDE DEF r
    <3>2. \A k \in 1 .. Len(q) : q[k] = r[k]
      BY <1>4, <3>1
    <3>3. q = r
      BY <1>4, <3>1, <3>2, SeqEqual
    <3> QED
      BY <3>3 DEF r
  <2>3. a.start <= b.start
    BY <2>0 DEF Rising
  <2>4. Of(a) \cup Of(b) # Plan!Directions
    BY <1>1, <1>2, <2>0
  <2> HIDE DEF a, b
  <2>5. Settled(<<a, b>>, Plan!Closed(Plan!Swept(<<a, b>>)))
    BY <2>1, <2>3, <2>4, TwoSettle
  <2> QED
    BY <2>2, <2>5
<1>5. CASE Len(q) = 3
  <2> DEFINE a == q[1]
             b == q[2]
             c == q[3]
  <2>0. 1 \in DOMAIN q /\ 2 \in DOMAIN q /\ 3 \in DOMAIN q
    BY <1>5
  <2>1. a \in Plan!Interval /\ b \in Plan!Interval /\ c \in Plan!Interval
    BY <1>1, <2>0
  <2>2. q = <<a, b, c>>
    <3> DEFINE r == <<a, b, c>>
    <3>1. r \in Seq(Plan!Interval) /\ Len(r) = 3 /\ r[1] = q[1] /\ r[2] = q[2] /\ r[3] = q[3]
      BY <2>1
    <3> HIDE DEF r
    <3>2. \A k \in 1 .. Len(q) : q[k] = r[k]
      BY <1>5, <3>1
    <3>3. q = r
      BY <1>5, <3>1, <3>2, SeqEqual
    <3> QED
      BY <3>3 DEF r
  <2>3. a.start <= b.start /\ b.start <= c.start
    BY <2>0 DEF Rising
  <2>4. Of(a) \cup Of(b) \cup Of(c) # Plan!Directions
    BY <1>1, <1>2, <2>0
  <2> HIDE DEF a, b, c
  <2>5. Settled(<<a, b, c>>, Plan!Closed(Plan!Swept(<<a, b, c>>)))
    BY <2>1, <2>3, <2>4, ThreeSettle
  <2> QED
    BY <2>2, <2>5
<1> QED
  BY <1>3, <1>4, <1>5

\* A new interval comes between those that start no later and no earlier.
LEMMA InsertedPlaces ==
  ASSUME NEW q \in Seq(Plan!Interval), NEW s \in Plan!Interval, s \notin Plan!Range(q)
  PROVE  LET r == Plan!Inserted(q, s)
         IN \E n \in 0 .. Len(q) :
              /\ r \in Seq(Plan!Interval) /\ Len(r) = Len(q) + 1
              /\ \A k \in 1 .. n : r[k] = q[k]
              /\ r[n + 1] = s
              /\ \A k \in n + 1 .. Len(q) : r[k + 1] = q[k]
              /\ n > 0 => q[n].start <= s.start
              /\ \A k \in n + 1 .. Len(q) : s.start <= q[k].start
<1> DEFINE r == Plan!Inserted(q, s)
<1>1. Len(q) \in Nat /\ DOMAIN q = 1 .. Len(q) /\ \A k \in 1 .. Len(q) : q[k] \in Plan!Interval
  OBVIOUS
<1>2. PICK n \in 0 .. Len(q) :
        /\ r = Plan!InsertAt(q, n + 1, s)
        /\ n > 0 => Plan!Before(q[n], s)
        /\ \A k \in n + 1 .. Len(q) : ~Plan!Before(q[k], s)
  BY <1>1, InsertedAt
<1> HIDE DEF r
<1> DEFINE u == SubSeq(q, 1, n)
           v == SubSeq(q, n + 1, Len(q))
           w == u \o <<s>>
<1>3. r = w \o v
  <2> DEFINE k == n + 1
  <2>1. k - 1 = n
    BY <1>1
  <2>2. r = Plan!InsertAt(q, k, s)
    BY <1>2
  <2> HIDE DEF k
  <2>3. Plan!InsertAt(q, k, s) = SubSeq(q, 1, k - 1) \o <<s>> \o SubSeq(q, k, Len(q))
    BY DEF Plan!InsertAt
  <2> QED
    BY <2>1, <2>2, <2>3 DEF k
<1>4. u \in Seq(Plan!Interval) /\ Len(u) = n /\ \A k \in 1 .. n : u[k] = q[k]
  BY <1>1, SubSeqProperties
<1>5. /\ v \in Seq(Plan!Interval) /\ Len(v) = Len(q) - n
      /\ \A k \in 1 .. Len(q) - n : v[k] = q[n + k]
  BY <1>1, SubSeqProperties
<1> HIDE DEF u, v
<1>6. <<s>> \in Seq(Plan!Interval) /\ Len(<<s>>) = 1 /\ <<s>>[1] = s
  OBVIOUS
<1>7. /\ w \in Seq(Plan!Interval) /\ Len(w) = n + 1
      /\ \A k \in 1 .. n : w[k] = q[k]
      /\ w[n + 1] = s
  <2>1. /\ w \in Seq(Plan!Interval) /\ Len(w) = Len(u) + Len(<<s>>)
        /\ \A k \in 1 .. Len(u) + Len(<<s>>) :
             w[k] = IF k <= Len(u) THEN u[k] ELSE <<s>>[k - Len(u)]
    BY <1>4, <1>6, ConcatProperties
  <2> HIDE DEF w
  <2>2. \A k \in 1 .. n + 1 : w[k] = IF k <= n THEN u[k] ELSE <<s>>[k - n]
    BY <1>4, <1>6, <2>1
  <2>3. \A k \in 1 .. n : w[k] = q[k]
    BY <1>1, <1>4, <2>2
  <2>4. w[n + 1] = <<s>>[1]
    BY <1>1, <2>2
  <2> QED
    BY <1>4, <1>6, <2>1, <2>3, <2>4
<1> HIDE DEF w
<1>8. /\ r \in Seq(Plan!Interval) /\ Len(r) = Len(q) + 1
      /\ \A k \in 1 .. Len(q) + 1 : r[k] = IF k <= n + 1 THEN w[k] ELSE v[k - (n + 1)]
  <2>1. /\ w \o v \in Seq(Plan!Interval) /\ Len(w \o v) = Len(w) + Len(v)
        /\ \A k \in 1 .. Len(w) + Len(v) :
             (w \o v)[k] = IF k <= Len(w) THEN w[k] ELSE v[k - Len(w)]
    BY <1>5, <1>7, ConcatProperties
  <2>2. Len(w) + Len(v) = Len(q) + 1
    BY <1>1, <1>5, <1>7
  <2> QED
    BY <1>3, <1>7, <2>1, <2>2
<1>9. \A k \in 1 .. n : r[k] = q[k]
  BY <1>1, <1>7, <1>8
<1>10. r[n + 1] = s
  BY <1>1, <1>7, <1>8
<1>11. ASSUME NEW k \in n + 1 .. Len(q)
       PROVE  r[k + 1] = q[k]
  <2>1. k + 1 \in 1 .. Len(q) + 1 /\ ~(k + 1 <= n + 1) /\ k - n \in 1 .. Len(q) - n
    BY <1>1
  <2>2. r[k + 1] = v[(k + 1) - (n + 1)]
    BY <1>8, <2>1
  <2>3. (k + 1) - (n + 1) = k - n /\ n + (k - n) = k
    BY <1>1
  <2> QED
    BY <1>5, <2>1, <2>2, <2>3
<1>12. s.start \in Int /\ \A k \in 1 .. Len(q) : q[k].start \in Int
  BY <1>1, EndsInside, ParamsAssumption DEF Plan!Directions
<1>13. n > 0 => q[n].start <= s.start
  BY <1>1, <1>2, <1>12 DEF Plan!Before
<1>14. \A k \in n + 1 .. Len(q) : s.start <= q[k].start
  BY <1>1, <1>2, <1>12 DEF Plan!Before
<1> QED
  BY <1>8, <1>9, <1>10, <1>11, <1>13, <1>14 DEF r

\* Between its start and a direction it contains, an interval contains all.
LEMMA StartBetween ==
  ASSUME NEW i \in Plan!Interval, NEW a \in Plan!Directions, NEW b \in Plan!Directions,
         i.start <= a, a <= b, b \in Of(i)
  PROVE  a \in Of(i)
<1>1. i.start \in Plan!Directions /\ i.end \in Plan!Directions /\ Plan!insideInterval(i, b)
  BY EndsInside DEF Of
<1>2. Plan!insideInterval(i, a)
  BY <1>1, ParamsAssumption DEF Plan!insideInterval, Plan!Directions
<1> QED
  BY <1>2 DEF Of

\* A direction before its start that an interval contains is reached by
\* wrapping around: the interval contains all there is before and after.
LEMMA StartWraps ==
  ASSUME NEW i \in Plan!Interval, NEW b \in Plan!Directions, b < i.start, b \in Of(i)
  PROVE  \A a \in Plan!Directions : a <= b \/ i.start <= a => a \in Of(i)
<1>1. i.start \in Plan!Directions /\ i.end \in Plan!Directions /\ Plan!insideInterval(i, b)
  BY EndsInside DEF Of
<1>2. ASSUME NEW a \in Plan!Directions, a <= b \/ i.start <= a
      PROVE  Plan!insideInterval(i, a)
  BY <1>1, <1>2, ParamsAssumption DEF Plan!insideInterval, Plan!Directions
<1> QED
  BY <1>2 DEF Of

\* Three intervals apart that leave a direction, in the order of their starts.
Three(a, b, c) ==
  /\ a \in Plan!Interval /\ b \in Plan!Interval /\ c \in Plan!Interval
  /\ Disjoint(a, b) /\ Disjoint(b, c) /\ Disjoint(a, c)
  /\ a.start <= b.start /\ b.start <= c.start
  /\ Of(a) \cup Of(b) \cup Of(c) # Plan!Directions

\* What there is to know of three such.
LEMMA ThreeApart ==
  ASSUME NEW a, NEW b, NEW c, Three(a, b, c)
  PROVE  /\ a.start \in Of(a) /\ a.start \notin Of(b) /\ a.start \notin Of(c)
         /\ b.start \notin Of(a) /\ b.start \in Of(b) /\ b.start \notin Of(c)
         /\ c.start \notin Of(a) /\ c.start \notin Of(b) /\ c.start \in Of(c)
         /\ a.start \in Plan!Directions /\ b.start \in Plan!Directions
         /\ c.start \in Plan!Directions
         /\ a.start < b.start /\ b.start < c.start
         /\ Of(a) # Plan!Directions /\ Of(b) # Plan!Directions /\ Of(c) # Plan!Directions
<1>1. /\ a \in Plan!Interval /\ b \in Plan!Interval /\ c \in Plan!Interval
      /\ Of(a) \cap Of(b) = {} /\ Of(b) \cap Of(c) = {} /\ Of(a) \cap Of(c) = {}
      /\ a.start <= b.start /\ b.start <= c.start
      /\ Of(a) \cup Of(b) \cup Of(c) # Plan!Directions
  BY DEF Three, Disjoint
<1>2. /\ a.start \in Of(a) /\ a.start \in Plan!Directions
      /\ b.start \in Of(b) /\ b.start \in Plan!Directions
      /\ c.start \in Of(c) /\ c.start \in Plan!Directions
  BY <1>1, EndsInside
<1>3. /\ a.start \notin Of(b) /\ a.start \notin Of(c)
      /\ b.start \notin Of(a) /\ b.start \notin Of(c)
      /\ c.start \notin Of(a) /\ c.start \notin Of(b)
  BY <1>1, <1>2
<1>4. /\ Of(a) \subseteq Plan!Directions /\ Of(b) \subseteq Plan!Directions
      /\ Of(c) \subseteq Plan!Directions
  BY AreDirections
<1>5. /\ Of(a) # Plan!Directions /\ Of(b) # Plan!Directions /\ Of(c) # Plan!Directions
  BY <1>1, <1>4
<1>6. a.start \in Int /\ b.start \in Int /\ c.start \in Int
  BY <1>2, ParamsAssumption DEF Plan!Directions
<1>7. a.start # b.start /\ b.start # c.start
  BY <1>2, <1>3
<1>8. a.start < b.start /\ b.start < c.start
  BY <1>1, <1>6, <1>7
<1> QED
  BY <1>2, <1>3, <1>5, <1>8

\* Two intervals apart are not merged.
LEMMA MergedApart ==
  ASSUME NEW i \in Plan!Interval, NEW j \in Plan!Interval, Disjoint(i, j)
  PROVE  Plan!Merged(i, j) = <<i, j>>
BY StartsApart DEF Plan!Merged

\* An interval within one is apart from what that is apart from.
LEMMA WithinApart ==
  ASSUME NEW i, NEW j, NEW s, Of(s) \subseteq Of(j), Disjoint(i, j)
  PROVE  Disjoint(i, s) /\ Disjoint(s, i)
BY DEF Disjoint

\* Three such are left as they are.
LEMMA ThreeKept ==
  ASSUME NEW a, NEW b, NEW c, Three(a, b, c)
  PROVE  /\ Taking(<<a>>, b) = <<a, b>>
         /\ Taking(<<a, b>>, c) = <<a, b, c>>
         /\ Plan!Closed(<<a, b, c>>) = <<a, b, c>>
<1>1. /\ a \in Plan!Interval /\ b \in Plan!Interval /\ c \in Plan!Interval
      /\ Disjoint(a, b) /\ Disjoint(b, c) /\ Disjoint(a, c)
  BY DEF Three
<1>2. Plan!Merged(a, b) = <<a, b>> /\ Plan!Merged(b, c) = <<b, c>>
  BY <1>1, MergedApart
<1>3. Taking(<<a>>, b) = <<a, b>>
  BY <1>1, <1>2, TakingOne
<1>4. Taking(<<a, b>>, c) = <<a, b, c>>
  <2>1. Taking(<<a, b>>, c) = <<a>> \o Plan!Merged(b, c)
    BY <1>1, TakingTwo
  <2>2. <<a>> \o <<b, c>> = <<a, b, c>>
    BY <1>1, JoinThree
  <2> QED
    BY <1>2, <2>1, <2>2
<1>5. Plan!Closed(<<a, b, c>>) = <<a, b, c>>
  <2>1. ~Plan!insideInterval(c, a.start) /\ ~Plan!insideInterval(a, c.start)
    BY <1>1, StartsApart
  <2> QED
    BY <1>1, <2>1, ClosedFew
<1> QED
  BY <1>3, <1>4, <1>5

\* One that comes first is within the first, or within the last: the pass
\* leaves it in front of the others, and closing takes it into the last.
LEMMA FirstTaken ==
  ASSUME NEW a, NEW b, NEW c, Three(a, b, c), NEW s \in Plan!Interval, s.start <= a.start,
         Of(s) \subseteq Of(a) \/ Of(s) \subseteq Of(b) \/ Of(s) \subseteq Of(c)
  PROVE  Plan!Closed(Plan!Swept(<<s, a, b, c>>)) = <<a, b, c>>
<1>0. /\ Taking(<<a>>, b) = <<a, b>>
      /\ Taking(<<a, b>>, c) = <<a, b, c>>
      /\ Plan!Closed(<<a, b, c>>) = <<a, b, c>>
  BY ThreeKept
<1>1. /\ a \in Plan!Interval /\ b \in Plan!Interval /\ c \in Plan!Interval
      /\ Disjoint(a, b) /\ Disjoint(b, c) /\ Disjoint(a, c)
  BY DEF Three
<1>2. s.start \in Of(s) /\ s.start \in Plan!Directions
  BY EndsInside
<1>3. Plan!Swept(<<s, a, b, c>>) = Taking(Taking(Taking(<<s>>, a), b), c)
  BY <1>1, SweptFour
<1>4. CASE Of(s) \subseteq Of(a)
  <2>1. Plan!Merged(s, a) = <<a>>
    BY <1>1, <1>4, ThreeApart, MergedWithin
  <2>2. Taking(<<s>>, a) = <<a>>
    BY <1>1, <2>1, TakingOne
  <2> QED
    BY <1>3, <1>0, <2>2
<1>5. CASE Of(s) \subseteq Of(b)
  <2>1. s.start < b.start
    BY <1>2, ThreeApart, ParamsAssumption DEF Plan!Directions
  <2>2. c.start \in Of(b)
    <3>1. s.start \in Of(b)
      BY <1>2, <1>5
    <3>2. b.start <= c.start /\ c.start \in Plan!Directions
      BY ThreeApart DEF Three
    <3> QED
      BY <1>1, <1>2, <2>1, <3>1, <3>2, StartWraps
  <2> QED
    BY <2>2, ThreeApart
<1>6. CASE Of(s) \subseteq Of(c)
  <2>1. Disjoint(s, a) /\ Disjoint(a, s)
    BY <1>1, <1>6, WithinApart
  <2>2. Taking(<<s>>, a) = <<s, a>>
    <3>1. Plan!Merged(s, a) = <<s, a>>
      BY <1>1, <2>1, MergedApart
    <3> QED
      BY <1>1, <3>1, TakingOne
  <2>3. Taking(<<s, a>>, b) = <<s, a, b>>
    <3>1. Taking(<<s, a>>, b) = <<s>> \o Plan!Merged(a, b)
      BY <1>1, TakingTwo
    <3>2. Plan!Merged(a, b) = <<a, b>>
      BY <1>1, MergedApart
    <3>3. <<s>> \o <<a, b>> = <<s, a, b>>
      BY <1>1, JoinThree
    <3> QED
      BY <3>1, <3>2, <3>3
  <2>4. Taking(<<s, a, b>>, c) = <<s, a, b, c>>
    <3>1. Taking(<<s, a, b>>, c) = <<s, a>> \o Plan!Merged(b, c)
      <4>1. Plan!Last(<<s, a, b>>) = b /\ Plan!Front(<<s, a, b>>) = <<s, a>>
        BY <1>1, EndsThree
      <4> QED
        BY <4>1 DEF Taking
    <3>2. Plan!Merged(b, c) = <<b, c>>
      BY <1>1, MergedApart
    <3>3. <<s, a>> \o <<b, c>> = <<s, a, b, c>>
      BY <1>1, JoinFour
    <3> QED
      BY <3>1, <3>2, <3>3
  <2>5. Plan!insideInterval(c, s.start) /\ Plan!Extended(c, s) = c
    BY <1>1, <1>6, ThreeApart, MergedWithin
  <2>6. Plan!Closed(<<s, a, b, c>>) = <<a, b, Plan!Extended(c, s)>>
    BY <1>1, <2>5, ClosedFour
  <2> QED
    BY <1>3, <2>2, <2>3, <2>4, <2>5, <2>6
<1> QED
  BY <1>4, <1>5, <1>6

\* One that comes second is within the first or the second.
LEMMA SecondTaken ==
  ASSUME NEW a, NEW b, NEW c, Three(a, b, c), NEW s \in Plan!Interval,
         a.start <= s.start, s.start <= b.start,
         Of(s) \subseteq Of(a) \/ Of(s) \subseteq Of(b) \/ Of(s) \subseteq Of(c)
  PROVE  Plan!Closed(Plan!Swept(<<a, s, b, c>>)) = <<a, b, c>>
<1>0. /\ Taking(<<a>>, b) = <<a, b>>
      /\ Taking(<<a, b>>, c) = <<a, b, c>>
      /\ Plan!Closed(<<a, b, c>>) = <<a, b, c>>
  BY ThreeKept
<1>1. /\ a \in Plan!Interval /\ b \in Plan!Interval /\ c \in Plan!Interval
      /\ Disjoint(a, b) /\ Disjoint(b, c) /\ Disjoint(a, c)
  BY DEF Three
<1>2. s.start \in Of(s) /\ s.start \in Plan!Directions
  BY EndsInside
<1>3. Plan!Swept(<<a, s, b, c>>) = Taking(Taking(Taking(<<a>>, s), b), c)
  BY <1>1, SweptFour
<1>4. CASE Of(s) \subseteq Of(a)
  <2>1. Plan!Merged(a, s) = <<a>>
    BY <1>1, <1>4, ThreeApart, MergedWithin
  <2>2. Taking(<<a>>, s) = <<a>>
    BY <1>1, <2>1, TakingOne
  <2> QED
    BY <1>3, <1>0, <2>2
<1>5. CASE Of(s) \subseteq Of(b)
  <2>1. Taking(<<a>>, s) = <<a, s>>
    <3>1. Disjoint(a, s)
      BY <1>1, <1>5, WithinApart
    <3>2. Plan!Merged(a, s) = <<a, s>>
      BY <1>1, <3>1, MergedApart
    <3> QED
      BY <1>1, <3>2, TakingOne
  <2>2. Taking(<<a, s>>, b) = <<a, b>>
    <3>1. Taking(<<a, s>>, b) = <<a>> \o Plan!Merged(s, b)
      BY <1>1, TakingTwo
    <3>2. Plan!Merged(s, b) = <<b>>
      BY <1>1, <1>5, ThreeApart, MergedWithin
    <3>3. <<a>> \o <<b>> = <<a, b>>
      BY <1>1, JoinTwo
    <3> QED
      BY <3>1, <3>2, <3>3
  <2> QED
    BY <1>3, <1>0, <2>1, <2>2
<1>6. CASE Of(s) \subseteq Of(c)
  <2>1. s.start < c.start
    BY <1>2, ThreeApart, ParamsAssumption DEF Plan!Directions
  <2>2. a.start \in Of(c)
    <3>1. s.start \in Of(c)
      BY <1>2, <1>6
    <3>2. a.start \in Plan!Directions
      BY ThreeApart
    <3> QED
      BY <1>1, <1>2, <2>1, <3>1, <3>2, StartWraps
  <2> QED
    BY <2>2, ThreeApart
<1> QED
  BY <1>4, <1>5, <1>6

\* One that comes third is within the second or the last.
LEMMA ThirdTaken ==
  ASSUME NEW a, NEW b, NEW c, Three(a, b, c), NEW s \in Plan!Interval,
         b.start <= s.start,
         Of(s) \subseteq Of(a) \/ Of(s) \subseteq Of(b) \/ Of(s) \subseteq Of(c)
  PROVE  Plan!Closed(Plan!Swept(<<a, b, s, c>>)) = <<a, b, c>>
<1>0. /\ Taking(<<a>>, b) = <<a, b>>
      /\ Taking(<<a, b>>, c) = <<a, b, c>>
      /\ Plan!Closed(<<a, b, c>>) = <<a, b, c>>
  BY ThreeKept
<1>1. /\ a \in Plan!Interval /\ b \in Plan!Interval /\ c \in Plan!Interval
      /\ Disjoint(a, b) /\ Disjoint(b, c) /\ Disjoint(a, c)
  BY DEF Three
<1>2. s.start \in Of(s) /\ s.start \in Plan!Directions
  BY EndsInside
<1>3. Plan!Swept(<<a, b, s, c>>) = Taking(Taking(Taking(<<a>>, b), s), c)
  BY <1>1, SweptFour
<1>4. Taking(<<a>>, b) = <<a, b>>
  BY ThreeKept
<1>5. CASE Of(s) \subseteq Of(a)
  <2>1. s.start \in Of(a)
    BY <1>2, <1>5
  <2>2. a.start <= b.start /\ b.start \in Plan!Directions
    BY ThreeApart DEF Three
  <2>3. b.start \in Of(a)
    BY <1>1, <1>2, <2>1, <2>2, StartBetween
  <2> QED
    BY <2>3, ThreeApart
<1>6. CASE Of(s) \subseteq Of(b)
  <2>1. Taking(<<a, b>>, s) = <<a>> \o Plan!Merged(b, s)
    BY <1>1, TakingTwo
  <2>2. Plan!Merged(b, s) = <<b>>
    BY <1>1, <1>6, ThreeApart, MergedWithin
  <2>3. <<a>> \o <<b>> = <<a, b>>
    BY <1>1, JoinTwo
  <2>4. Taking(<<a, b>>, s) = <<a, b>>
    BY <2>1, <2>2, <2>3
  <2> QED
    BY <1>3, <1>4, <1>0, <2>4
<1>7. CASE Of(s) \subseteq Of(c)
  <2>1. Taking(<<a, b>>, s) = <<a, b, s>>
    <3>1. Taking(<<a, b>>, s) = <<a>> \o Plan!Merged(b, s)
      BY <1>1, TakingTwo
    <3>2. Disjoint(b, s)
      BY <1>1, <1>7, WithinApart
    <3>3. Plan!Merged(b, s) = <<b, s>>
      BY <1>1, <3>2, MergedApart
    <3>4. <<a>> \o <<b, s>> = <<a, b, s>>
      BY <1>1, JoinThree
    <3> QED
      BY <3>1, <3>3, <3>4
  <2>2. Taking(<<a, b, s>>, c) = <<a, b, c>>
    <3>1. Taking(<<a, b, s>>, c) = <<a, b>> \o Plan!Merged(s, c)
      <4>1. Plan!Last(<<a, b, s>>) = s /\ Plan!Front(<<a, b, s>>) = <<a, b>>
        BY <1>1, EndsThree
      <4> QED
        BY <4>1 DEF Taking
    <3>2. Plan!Merged(s, c) = <<c>>
      BY <1>1, <1>7, ThreeApart, MergedWithin
    <3>3. <<a, b>> \o <<c>> = <<a, b, c>>
      BY <1>1, JoinThree
    <3> QED
      BY <3>1, <3>2, <3>3
  <2> QED
    BY <1>3, <1>4, <1>0, <2>1, <2>2
<1> QED
  BY <1>5, <1>6, <1>7

\* One that comes last is within the last.
LEMMA LastTaken ==
  ASSUME NEW a, NEW b, NEW c, Three(a, b, c), NEW s \in Plan!Interval,
         c.start <= s.start,
         Of(s) \subseteq Of(a) \/ Of(s) \subseteq Of(b) \/ Of(s) \subseteq Of(c)
  PROVE  Plan!Closed(Plan!Swept(<<a, b, c, s>>)) = <<a, b, c>>
<1>0. /\ Taking(<<a>>, b) = <<a, b>>
      /\ Taking(<<a, b>>, c) = <<a, b, c>>
      /\ Plan!Closed(<<a, b, c>>) = <<a, b, c>>
  BY ThreeKept
<1>1. /\ a \in Plan!Interval /\ b \in Plan!Interval /\ c \in Plan!Interval
      /\ Disjoint(a, b) /\ Disjoint(b, c) /\ Disjoint(a, c)
  BY DEF Three
<1>2. s.start \in Of(s) /\ s.start \in Plan!Directions
  BY EndsInside
<1>3. Plan!Swept(<<a, b, c, s>>) = Taking(Taking(Taking(<<a>>, b), c), s)
  BY <1>1, SweptFour
<1>4. CASE Of(s) \subseteq Of(a)
  <2>1. s.start \in Of(a)
    BY <1>2, <1>4
  <2>2. a.start <= c.start /\ c.start \in Plan!Directions
    BY ThreeApart, ParamsAssumption DEF Plan!Directions
  <2>3. c.start \in Of(a)
    BY <1>1, <1>2, <2>1, <2>2, StartBetween
  <2> QED
    BY <2>3, ThreeApart
<1>5. CASE Of(s) \subseteq Of(b)
  <2>1. s.start \in Of(b)
    BY <1>2, <1>5
  <2>2. b.start <= c.start /\ c.start \in Plan!Directions
    BY ThreeApart DEF Three
  <2>3. c.start \in Of(b)
    BY <1>1, <1>2, <2>1, <2>2, StartBetween
  <2> QED
    BY <2>3, ThreeApart
<1>6. CASE Of(s) \subseteq Of(c)
  <2>1. Taking(<<a, b, c>>, s) = <<a, b>> \o Plan!Merged(c, s)
    <3>1. Plan!Last(<<a, b, c>>) = c /\ Plan!Front(<<a, b, c>>) = <<a, b>>
      BY <1>1, EndsThree
    <3> QED
      BY <3>1 DEF Taking
  <2>2. Plan!Merged(c, s) = <<c>>
    BY <1>1, <1>6, ThreeApart, MergedWithin
  <2>3. <<a, b>> \o <<c>> = <<a, b, c>>
    BY <1>1, JoinThree
  <2>4. Taking(<<a, b, c>>, s) = <<a, b, c>>
    BY <2>1, <2>2, <2>3
  <2> QED
    BY <1>3, <1>0, <2>4
<1> QED
  BY <1>4, <1>5, <1>6

\* Three intervals apart take in one within one of them.
LEMMA AllTaken ==
  ASSUME NEW q \in Seq(Plan!Interval), Len(q) = 3, Separate(q), Rising(q),
         Marked(q) # Plan!Directions,
         NEW s \in Plan!Interval, s \notin Plan!Range(q),
         \E k \in DOMAIN q : Of(s) \subseteq Of(q[k])
  PROVE  Plan!Closed(Plan!Swept(Plan!Inserted(q, s))) = q
<1> DEFINE a == q[1]
           b == q[2]
           c == q[3]
           r == Plan!Inserted(q, s)
<1>1. \A k \in DOMAIN q : q[k] \in Plan!Interval /\ Of(q[k]) \subseteq Marked(q)
  BY DEF Of, Marked, Plan!isInvalid
<1>2. /\ DOMAIN q = 1 .. 3
      /\ 1 \in DOMAIN q /\ 2 \in DOMAIN q /\ 3 \in DOMAIN q
  OBVIOUS
<1>3. a \in Plan!Interval /\ b \in Plan!Interval /\ c \in Plan!Interval
  BY <1>1, <1>2
<1>4. Three(a, b, c)
  <2>1. Disjoint(a, b) /\ Disjoint(b, c) /\ Disjoint(a, c)
    BY <1>2 DEF Separate
  <2>2. a.start <= b.start /\ b.start <= c.start
    BY <1>2 DEF Rising
  <2>3. Of(a) \cup Of(b) \cup Of(c) # Plan!Directions
    BY <1>1, <1>2, AreDirections
  <2> QED
    BY <1>3, <2>1, <2>2, <2>3 DEF Three
<1>5. Of(s) \subseteq Of(a) \/ Of(s) \subseteq Of(b) \/ Of(s) \subseteq Of(c)
  BY <1>2
<1>6. q = <<a, b, c>>
  <2> DEFINE t == <<a, b, c>>
  <2>1. t \in Seq(Plan!Interval) /\ Len(t) = 3 /\ t[1] = q[1] /\ t[2] = q[2] /\ t[3] = q[3]
    BY <1>3
  <2> HIDE DEF t
  <2>2. \A k \in 1 .. Len(q) : q[k] = t[k]
    BY <2>1
  <2>3. q = t
    BY <2>1, <2>2, SeqEqual
  <2> QED
    BY <2>3 DEF t
<1>7. PICK n \in 0 .. Len(q) :
        /\ r \in Seq(Plan!Interval) /\ Len(r) = Len(q) + 1
        /\ \A k \in 1 .. n : r[k] = q[k]
        /\ r[n + 1] = s
        /\ \A k \in n + 1 .. Len(q) : r[k + 1] = q[k]
        /\ n > 0 => q[n].start <= s.start
        /\ \A k \in n + 1 .. Len(q) : s.start <= q[k].start
  BY InsertedPlaces
<1> HIDE DEF r
<1>8. r \in Seq(Plan!Interval) /\ Len(r) = 4
  BY <1>7
<1>9. ASSUME NEW w \in Plan!Interval, NEW x \in Plan!Interval,
             NEW y \in Plan!Interval, NEW z \in Plan!Interval,
             r[1] = w /\ r[2] = x /\ r[3] = y /\ r[4] = z
      PROVE  r = <<w, x, y, z>>
  <2> DEFINE t == <<w, x, y, z>>
  <2>1. t \in Seq(Plan!Interval) /\ Len(t) = 4 /\ t[1] = w /\ t[2] = x /\ t[3] = y /\ t[4] = z
    OBVIOUS
  <2> HIDE DEF t
  <2>2. \A k \in 1 .. Len(r) : r[k] = t[k]
    BY <1>8, <1>9, <2>1
  <2>3. r = t
    BY <1>8, <2>1, <2>2, SeqEqual
  <2> QED
    BY <2>3 DEF t
<1>10. n = 0 \/ n = 1 \/ n = 2 \/ n = 3
  BY <1>7
<1>11. CASE n = 0
  <2>1. /\ r[1] = s /\ r[2] = a /\ r[3] = b /\ r[4] = c
        /\ s.start <= a.start
    <3>1. /\ \A k \in 1 .. 3 : r[k + 1] = q[k]
          /\ \A k \in 1 .. 3 : s.start <= q[k].start
          /\ r[1] = s
      BY <1>7, <1>11
    <3>2. r[1 + 1] = q[1] /\ r[2 + 1] = q[2] /\ r[3 + 1] = q[3] /\ s.start <= q[1].start
      BY <3>1
    <3> QED
      BY <3>1, <3>2
  <2> HIDE DEF a, b, c
  <2>2. r = <<s, a, b, c>>
    BY <1>3, <1>9, <2>1
  <2>3. Plan!Closed(Plan!Swept(<<s, a, b, c>>)) = <<a, b, c>>
    BY <1>4, <1>5, <2>1, FirstTaken
  <2> QED
    BY <1>6, <2>2, <2>3 DEF r
<1>12. CASE n = 1
  <2>1. /\ r[1] = a /\ r[2] = s /\ r[3] = b /\ r[4] = c
        /\ a.start <= s.start /\ s.start <= b.start
    <3>1. /\ \A k \in 1 .. 1 : r[k] = q[k]
          /\ \A k \in 2 .. 3 : r[k + 1] = q[k]
          /\ \A k \in 2 .. 3 : s.start <= q[k].start
          /\ r[2] = s /\ q[1].start <= s.start
      BY <1>7, <1>12
    <3>2. r[1] = q[1] /\ r[2 + 1] = q[2] /\ r[3 + 1] = q[3] /\ s.start <= q[2].start
      BY <3>1
    <3> QED
      BY <3>1, <3>2
  <2> HIDE DEF a, b, c
  <2>2. r = <<a, s, b, c>>
    BY <1>3, <1>9, <2>1
  <2>3. Plan!Closed(Plan!Swept(<<a, s, b, c>>)) = <<a, b, c>>
    BY <1>4, <1>5, <2>1, SecondTaken
  <2> QED
    BY <1>6, <2>2, <2>3 DEF r
<1>13. CASE n = 2
  <2>1. /\ r[1] = a /\ r[2] = b /\ r[3] = s /\ r[4] = c
        /\ b.start <= s.start
    <3>1. /\ \A k \in 1 .. 2 : r[k] = q[k]
          /\ \A k \in 3 .. 3 : r[k + 1] = q[k]
          /\ r[3] = s /\ q[2].start <= s.start
      BY <1>7, <1>13
    <3>2. r[1] = q[1] /\ r[2] = q[2] /\ r[3 + 1] = q[3]
      BY <3>1
    <3> QED
      BY <3>1, <3>2
  <2> HIDE DEF a, b, c
  <2>2. r = <<a, b, s, c>>
    BY <1>3, <1>9, <2>1
  <2>3. Plan!Closed(Plan!Swept(<<a, b, s, c>>)) = <<a, b, c>>
    BY <1>4, <1>5, <2>1, ThirdTaken
  <2> QED
    BY <1>6, <2>2, <2>3 DEF r
<1>14. CASE n = 3
  <2>1. /\ r[1] = a /\ r[2] = b /\ r[3] = c /\ r[4] = s
        /\ c.start <= s.start
    <3>1. /\ \A k \in 1 .. 3 : r[k] = q[k]
          /\ r[4] = s /\ q[3].start <= s.start
      BY <1>7, <1>14
    <3>2. r[1] = q[1] /\ r[2] = q[2] /\ r[3] = q[3]
      BY <3>1
    <3> QED
      BY <3>1, <3>2
  <2> HIDE DEF a, b, c
  <2>2. r = <<a, b, c, s>>
    BY <1>3, <1>9, <2>1
  <2>3. Plan!Closed(Plan!Swept(<<a, b, c, s>>)) = <<a, b, c>>
    BY <1>4, <1>5, <2>1, LastTaken
  <2> QED
    BY <1>6, <2>2, <2>3 DEF r
<1> QED
  BY <1>10, <1>11, <1>12, <1>13, <1>14

\* What inserting s in q makes of it: the intervals of q and s, in order; s has
\* a place of its own unless q holds it already.
Enters(q, s, r) ==
  /\ r \in Seq(Plan!Interval) /\ Rising(r)
  /\ Len(r) = IF s \in Plan!Range(q) THEN Len(q) ELSE Len(q) + 1
  /\ \A k \in DOMAIN q : \E l \in DOMAIN r : r[l] = q[k]
  /\ \E l \in DOMAIN r : r[l] = s
  /\ s \notin Plan!Range(q) =>
       \A k \in DOMAIN q : \E l, m \in DOMAIN r : l # m /\ r[l] = q[k] /\ r[m] = s

\* Inserting keeps the order of the starts.
LEMMA InsertedRises ==
  ASSUME NEW q \in Seq(Plan!Interval), Rising(q), NEW s \in Plan!Interval
  PROVE  Enters(q, s, Plan!Inserted(q, s))
<1> DEFINE r == Plan!Inserted(q, s)
<1>1. /\ Len(q) \in Nat /\ DOMAIN q = 1 .. Len(q)
      /\ \A k \in 1 .. Len(q) : q[k] \in Plan!Interval
  OBVIOUS
<1>2. CASE s \in Plan!Range(q)
  <2>1. r = q
    BY <1>2 DEF Plan!Inserted
  <2> HIDE DEF r
  <2>2. \E l \in DOMAIN q : q[l] = s
    BY <1>2 DEF Plan!Range
  <2>3. /\ r \in Seq(Plan!Interval) /\ Rising(r) /\ Len(r) = Len(q)
        /\ \A k \in DOMAIN q : \E l \in DOMAIN r : r[l] = q[k]
        /\ \E l \in DOMAIN r : r[l] = s
    BY <1>1, <2>1, <2>2
  <2> QED
    BY <1>2, <2>3 DEF Enters, r
<1>3. CASE s \notin Plan!Range(q)
  <2>1. PICK n \in 0 .. Len(q) :
          /\ r \in Seq(Plan!Interval) /\ Len(r) = Len(q) + 1
          /\ \A k \in 1 .. n : r[k] = q[k]
          /\ r[n + 1] = s
          /\ \A k \in n + 1 .. Len(q) : r[k + 1] = q[k]
          /\ n > 0 => q[n].start <= s.start
          /\ \A k \in n + 1 .. Len(q) : s.start <= q[k].start
    BY <1>3, InsertedPlaces
  <2> HIDE DEF r
  <2>2. DOMAIN r = 1 .. Len(q) + 1
    BY <1>1, <2>1
  <2>3. s.start \in Int /\ \A k \in 1 .. Len(q) : q[k].start \in Int
    BY <1>1, EndsInside, ParamsAssumption DEF Plan!Directions
  <2>4. ASSUME NEW k \in DOMAIN r
        PROVE  \/ k \in 1 .. n /\ r[k] = q[k]
               \/ k = n + 1 /\ r[k] = s
               \/ k - 1 \in n + 1 .. Len(q) /\ r[k] = q[k - 1]
    <3>1. CASE k <= n
      BY <1>1, <2>1, <2>2, <3>1
    <3>2. CASE k = n + 1
      BY <1>1, <2>1, <2>2, <3>2
    <3>3. CASE k > n + 1
      <4>1. k - 1 \in n + 1 .. Len(q) /\ (k - 1) + 1 = k
        BY <1>1, <2>2, <3>3
      <4> QED
        BY <2>1, <4>1
    <3> QED
      BY <1>1, <2>2, <3>1, <3>2, <3>3
  <2>5. \A k \in 1 .. n : q[k].start <= s.start
    <3>1. ASSUME NEW k \in 1 .. n
          PROVE  q[k].start <= q[n].start
      <4>1. k \in DOMAIN q /\ n \in DOMAIN q /\ k \in Int /\ n \in Int /\ k <= n
        BY <1>1
      <4>2. CASE k = n
        BY <1>1, <2>3, <4>1, <4>2
      <4>3. CASE k < n
        BY <4>1, <4>3 DEF Rising
      <4> QED
        BY <4>1, <4>2, <4>3
    <3>2. ASSUME NEW k \in 1 .. n
          PROVE  q[n].start <= s.start /\ q[n].start \in Int /\ q[k].start \in Int
      BY <1>1, <2>1, <2>3
    <3> QED
      BY <2>3, <3>1, <3>2
  <2>6. ASSUME NEW k \in DOMAIN r, NEW l \in DOMAIN r, k < l
        PROVE  r[k].start <= r[l].start
    <3>1. CASE k \in 1 .. n /\ r[k] = q[k]
      <4>1. CASE l \in 1 .. n /\ r[l] = q[l]
        BY <1>1, <2>6, <3>1, <4>1 DEF Rising
      <4>2. CASE l = n + 1 /\ r[l] = s
        BY <2>5, <3>1, <4>2
      <4>3. CASE l - 1 \in n + 1 .. Len(q) /\ r[l] = q[l - 1]
        <5>1. q[k].start <= s.start /\ s.start <= q[l - 1].start
          BY <2>1, <2>5, <3>1, <4>3
        <5>2. q[k].start \in Int /\ q[l - 1].start \in Int
          BY <1>1, <2>3, <3>1, <4>3
        <5>3. q[k].start <= q[l - 1].start
          BY <2>3, <5>1, <5>2
        <5> QED
          BY <3>1, <4>3, <5>3
      <4> QED
        BY <2>4, <4>1, <4>2, <4>3
    <3>2. CASE k = n + 1 /\ r[k] = s
      <4>1. l - 1 \in n + 1 .. Len(q)
        BY <1>1, <2>2, <2>6, <3>2
      <4>2. r[l] = q[l - 1]
        BY <1>1, <2>4, <2>6, <3>2
      <4> QED
        BY <2>1, <3>2, <4>1, <4>2
    <3>3. CASE k - 1 \in n + 1 .. Len(q) /\ r[k] = q[k - 1]
      <4>0. /\ k \in Int /\ l \in Int /\ l <= Len(q) + 1
            /\ n + 1 <= k - 1
        BY <1>1, <2>2, <3>3
      <4>1. l - 1 \in n + 1 .. Len(q) /\ k - 1 < l - 1
        BY <1>1, <2>6, <4>0
      <4>2. r[l] = q[l - 1]
        <5>1. n \in Int /\ ~(l \in 1 .. n) /\ l # n + 1
          BY <1>1, <2>6, <4>0
        <5> QED
          BY <2>4, <5>1
      <4>3. k - 1 \in DOMAIN q /\ l - 1 \in DOMAIN q
        BY <1>1, <3>3, <4>1
      <4> QED
        BY <3>3, <4>1, <4>2, <4>3 DEF Rising
    <3> QED
      BY <2>4, <3>1, <3>2, <3>3
  <2>7. Rising(r)
    BY <2>6 DEF Rising
  <2>8. n + 1 \in DOMAIN r
    BY <1>1, <2>2
  <2>9. ASSUME NEW k \in DOMAIN q
        PROVE  \E l \in DOMAIN r : l # n + 1 /\ r[l] = q[k]
    <3>1. CASE k <= n
      BY <1>1, <2>1, <2>2, <3>1
    <3>2. CASE ~(k <= n)
      <4>1. k + 1 \in DOMAIN r /\ k + 1 # n + 1 /\ k \in n + 1 .. Len(q)
        BY <1>1, <2>2, <3>2
      <4> QED
        BY <2>1, <4>1
    <3> QED
      BY <3>1, <3>2
  <2>10. r[n + 1] = s /\ r \in Seq(Plan!Interval) /\ Len(r) = Len(q) + 1
    BY <1>1, <2>1
  <2>11. \A k \in DOMAIN q : \E l \in DOMAIN r : r[l] = q[k]
    BY <2>9
  <2>12. \E l \in DOMAIN r : r[l] = s
    BY <2>8, <2>10
  <2>13. \A k \in DOMAIN q : \E l, m \in DOMAIN r : l # m /\ r[l] = q[k] /\ r[m] = s
    BY <2>8, <2>9, <2>10
  <2> QED
    BY <1>3, <2>7, <2>10, <2>11, <2>12, <2>13 DEF Enters, r
<1> QED
  BY <1>2, <1>3

\* Some interval of the sequence contains all of s.
Contained(q, s) == \E k \in DOMAIN q : Of(s) \subseteq Of(q[k])

\* While a direction is left, setInvalid keeps up to three intervals apart and
\* in order; only a sector that none of them contains can add one.
LEMMA setInvalidFew ==
  ASSUME NEW q \in Seq(Plan!Interval), Separate(q), Rising(q),
         NEW a, NEW b, Plan!Sector(a, b) \in Plan!Interval,
         Marked(q) \cup Of(Plan!Sector(a, b)) # Plan!Directions,
         Len(q) <= 3, Contained(q, Plan!Sector(a, b)) \/ Len(q) <= 2
  PROVE  LET r == Plan!setInvalid(q, a, b)
             s == Plan!Sector(a, b)
         IN /\ r \in Seq(Plan!Interval) /\ Separate(r) /\ Rising(r) /\ Gathers(q, r)
            /\ Contained(r, s) /\ Len(r) <= Len(q) + 1
            /\ Contained(q, s) => Len(r) <= Len(q)
<1> DEFINE s == Plan!Sector(a, b)
           p == Plan!Inserted(q, s)
           r == Plan!Closed(Plan!Swept(p))
           Claim == /\ r \in Seq(Plan!Interval) /\ Separate(r) /\ Rising(r) /\ Gathers(q, r)
                    /\ Contained(r, s) /\ Len(r) <= Len(q) + 1
                    /\ Contained(q, s) => Len(r) <= Len(q)
<1>1. Plan!setInvalid(q, a, b) = r
  BY DEF Plan!setInvalid
<1>2. /\ s \in Plan!Interval /\ Marked(q) \cup Of(s) # Plan!Directions
      /\ Len(q) \in Nat /\ Len(q) <= 3 /\ (Contained(q, s) \/ Len(q) <= 2)
      /\ DOMAIN q = 1 .. Len(q) /\ \A k \in DOMAIN q : q[k] \in Plan!Interval
  OBVIOUS
<1> HIDE DEF s
<1>0. p = Plan!Inserted(q, s) /\ r = Plan!Closed(Plan!Swept(p))
  OBVIOUS
<1> HIDE DEF p, r
<1>3. Marked(p) = Marked(q) \cup Of(s)
  BY <1>2, <1>0, InsertedMarks
<1>4. /\ p \in Seq(Plan!Interval) /\ Rising(p)
      /\ Len(p) = IF s \in Plan!Range(q) THEN Len(q) ELSE Len(q) + 1
      /\ \A k \in DOMAIN q : \E l \in DOMAIN p : p[l] = q[k]
      /\ \E l \in DOMAIN p : p[l] = s
      /\ s \notin Plan!Range(q) =>
           \A k \in DOMAIN q : \E l, m \in DOMAIN p : l # m /\ p[l] = q[k] /\ p[m] = s
  <2>1. Enters(q, s, p)
    BY <1>2, <1>0, InsertedRises
  <2> QED
    BY <2>1 DEF Enters
<1>5. ASSUME Len(p) <= 3
      PROVE  Claim
  <2>1. Len(p) \in 1 .. 3
    <3>1. Len(p) \in Nat /\ Len(p) >= 1
      <4>1. PICK l \in DOMAIN p : p[l] = s
        BY <1>4
      <4>2. DOMAIN p = 1 .. Len(p) /\ Len(p) \in Nat
        BY <1>4
      <4> QED
        BY <4>1, <4>2
    <3>2. \A n \in Nat : n >= 1 /\ n <= 3 => n \in 1 .. 3
      OBVIOUS
    <3> QED
      BY <1>5, <3>1, <3>2, Zenon
  <2>2. Settled(p, r)
    BY <1>2, <1>3, <1>4, <1>0, <2>1, FewSettle
  <2>3. /\ r \in Seq(Plan!Interval) /\ Separate(r) /\ Rising(r)
        /\ \A k \in DOMAIN p : \E l \in DOMAIN r : Of(p[k]) \subseteq Of(r[l])
        /\ Len(r) < Len(p) \/ r = p
    BY <2>2 DEF Settled, Gathers
  <2>4. Gathers(q, r)
    BY <1>4, <2>3 DEF Gathers
  <2>5. Contained(r, s)
    BY <1>4, <2>3 DEF Contained
  <2>6. Len(r) \in Nat /\ Len(p) \in Nat
    BY <1>4, <2>3
  <2>7. Len(r) <= Len(q) + 1
    BY <1>2, <1>4, <2>3, <2>6
  <2>8. ASSUME Contained(q, s)
        PROVE  Len(r) <= Len(q)
    <3>1. CASE s \in Plan!Range(q)
      BY <1>2, <1>4, <2>3, <2>6, <3>1
    <3>2. CASE s \notin Plan!Range(q) /\ Len(r) < Len(p)
      BY <1>2, <1>4, <2>6, <3>2
    <3>3. CASE s \notin Plan!Range(q) /\ r = p
      <4>1. PICK k \in DOMAIN q : Of(s) \subseteq Of(q[k])
        BY <2>8 DEF Contained
      <4>2. PICK l \in DOMAIN p, m \in DOMAIN p : l # m /\ p[l] = q[k] /\ p[m] = s
        BY <1>4, <3>3
      <4>3. Of(q[k]) \cap Of(s) = {}
        <5>1. Disjoint(p[l], p[m])
          BY <2>3, <3>3, <4>2 DEF Separate
        <5> QED
          BY <4>2, <5>1 DEF Disjoint
      <4>4. s.start \in Of(s)
        BY <1>2, EndsInside
      <4> QED
        BY <4>1, <4>3, <4>4
    <3> QED
      BY <2>3, <3>1, <3>2, <3>3
  <2> QED
    BY <2>3, <2>4, <2>5, <2>7, <2>8
<1>6. ASSUME ~(Len(p) <= 3)
      PROVE  Claim
  <2>1. Len(q) = 3 /\ s \notin Plan!Range(q) /\ Contained(q, s)
    BY <1>2, <1>4, <1>6
  <2>2. Marked(q) # Plan!Directions
    BY <1>2, AreDirections
  <2>3. r = q
    BY <1>2, <1>0, <2>1, <2>2, AllTaken DEF Contained
  <2>4. Gathers(q, q)
    BY DEF Gathers
  <2>5. Contained(r, s) /\ Gathers(q, r) /\ Separate(r) /\ Rising(r) /\ r \in Seq(Plan!Interval)
    BY <2>1, <2>3, <2>4
  <2>6. Len(r) <= Len(q) + 1 /\ Len(r) <= Len(q)
    BY <1>2, <2>3
  <2> QED
    BY <2>5, <2>6
<1>7. Claim
  BY <1>5, <1>6
<1> QED
  BY <1>1, <1>7 DEF s

\* The place of the interval that getLimits takes.
LEMMA LimitsAt ==
  ASSUME NEW q \in Seq(Plan!Interval), NEW a, Plan!isInvalid(q, a)
  PROVE  \E k \in DOMAIN q : Plan!getLimits(q, a) = q[k] /\ Plan!insideInterval(q[k], a)
<1> DEFINE T == {k \in 1 .. Len(q) : Plan!insideInterval(q[k], a)}
<1>1. DOMAIN q = 1 .. Len(q)
  OBVIOUS
<1>2. T # {} /\ T \subseteq Nat
  BY <1>1 DEF Plan!isInvalid
<1>3. Plan!SelectInSeq(q, LAMBDA i : Plan!insideInterval(i, a)) = Plan!Min(T)
  BY <1>2 DEF Plan!SelectInSeq
<1>4. Plan!Min(T) \in T
  <2> HIDE DEF T
  <2>1. \E n \in T : \A m \in T : n <= m
    BY <1>2, Least
  <2> QED
    BY <2>1, Zenon DEF Plan!Min
<1>5. Plan!getLimits(q, a) = q[Plan!Min(T)]
  BY <1>3 DEF Plan!getLimits
<1> QED
  BY <1>1, <1>4, <1>5

-----------------------------------------------------------------------------
(* The direction taken *)

\* The nearer limit of an interval that contains a.
Nearer(i, a) ==
  IF Plan!angleDifference(i.start, a) < Plan!angleDifference(a, i.end)
    THEN i.start ELSE i.end

\* No direction outside the interval is nearer to a than that limit.
LEMMA NearerIsNearest ==
  ASSUME NEW i \in Plan!Interval, NEW a \in Of(i), NEW c \in Plan!Directions, c \notin Of(i)
  PROVE  Plan!Apart(a, Nearer(i, a)) <= Plan!Apart(a, c)
<1> DEFINE b == i.start
           e == i.end
           n == Nearer(i, a)
<1>1. b \in Plan!Directions /\ e \in Plan!Directions /\ a \in Plan!Directions
  BY EndsInside DEF Of
<1>2. Plan!insideInterval(i, a) /\ ~Plan!insideInterval(i, c)
  BY DEF Of
<1>3. n = IF Plan!angleDifference(b, a) < Plan!angleDifference(a, e) THEN b ELSE e
  BY DEF Nearer
<1> HIDE DEF b, e, n
<1>4. /\ IF b < e THEN b <= a /\ a <= e ELSE b <= a \/ a <= e
      /\ ~(IF b < e THEN b <= c /\ c <= e ELSE b <= c \/ c <= e)
  BY <1>2 DEF Plan!insideInterval, b, e
<1>5. n \in Plan!Directions
  BY <1>1, <1>3
<1> DEFINE x == Plan!angleDifference(a, n)
           y == Plan!angleDifference(a, c)
<1>6. /\ x = IF a > n THEN 2 * PI - (a - n) ELSE n - a
      /\ y = IF a > c THEN 2 * PI - (a - c) ELSE c - a
  BY DEF Plan!angleDifference
<1> HIDE DEF x, y
<1>7. (IF x > PI THEN 2 * PI - x ELSE x) <= (IF y > PI THEN 2 * PI - y ELSE y)
  BY <1>1, <1>3, <1>4, <1>5, <1>6, ParamsAssumption, SMTT(60)
     DEF Plan!Directions, Plan!angleDifference
<1> QED
  BY <1>7 DEF Plan!Apart, x, y, n

\* It is one of the limits.
LEMMA NearerInside ==
  ASSUME NEW i \in Plan!Interval, NEW a
  PROVE  Nearer(i, a) \in Of(i) /\ Nearer(i, a) \in {i.start, i.end}
BY EndsInside DEF Nearer

\* Where an interval that is not the whole turn contains the sector of an
\* obstacle, its limits are in the sector only as edges of the obstacle.
LEMMA LimitIsEdge ==
  ASSUME NEW o \in Plan!Obstacle, o.half > 0, NEW i \in Plan!Interval,
         Of(i) # Plan!Directions, NEW n \in {i.start, i.end}, Plan!Covers(o, n),
         \A a \in Plan!Directions : Plan!Covers(o, a) => a \in Of(i)
  PROVE  n \in {Plan!Edge(o, 1), Plan!Edge(o, -1)}
<1> DEFINE l == Plan!Edge(o, 1)
           r == Plan!Edge(o, -1)
           b == i.start
           e == i.end
           before == IF b = 1 - PI THEN PI ELSE b - 1
           after == IF e = PI THEN 1 - PI ELSE e + 1
<1>1. PICK d \in Plan!Directions, h \in Nat : o.dir = d /\ o.half = h /\ 2 * h < PI
  BY DEF Plan!Obstacle
<1>2. l = Plan!normalizeAngle(d + h) /\ r = Plan!normalizeAngle(d - h)
  BY <1>1 DEF Plan!Edge, Plan!Directions
<1> HIDE DEF l, r
<1>3. /\ l - r = 2 * h \/ l - r = 2 * h - 2 * PI
      /\ l \in Int /\ r \in Int /\ 1 - PI <= l /\ l <= PI /\ 1 - PI <= r /\ r <= PI
  BY <1>1, <1>2, ParamsAssumption DEF Plan!Directions, Plan!normalizeAngle
<1>4. \A a : Plan!Covers(o, a) <=> Plan!angleDifference(r, a) <= 2 * h
  BY <1>1 DEF Plan!Covers, r
<1>5. b \in Plan!Directions /\ e \in Plan!Directions
  BY EndsInside
<1>6. \A a \in Plan!Directions : a \in Of(i) <=> Plan!insideInterval(i, a)
  BY DEF Of
<1>7. \A a : Plan!insideInterval(i, a) <=> IF b < e THEN b <= a /\ a <= e ELSE b <= a \/ a <= e
  BY DEF Plan!insideInterval
<1> HIDE DEF b, e
<1>8. PICK g \in Plan!Directions : ~(IF b < e THEN b <= g /\ g <= e ELSE b <= g \/ g <= e)
  BY <1>6, <1>7 DEF Of
<1>9. /\ before \in Plan!Directions /\ after \in Plan!Directions
      /\ ~(IF b < e THEN b <= before /\ before <= e ELSE b <= before \/ before <= e)
      /\ ~(IF b < e THEN b <= after /\ after <= e ELSE b <= after \/ after <= e)
  BY <1>5, <1>8, ParamsAssumption DEF Plan!Directions
<1>10. /\ ~(Plan!angleDifference(r, before) <= 2 * h)
       /\ ~(Plan!angleDifference(r, after) <= 2 * h)
  BY <1>4, <1>6, <1>7, <1>9
<1>11. CASE n = b
  <2>1. Plan!angleDifference(r, b) <= 2 * h
    BY <1>4, <1>11
  <2>2. b = r
    BY <1>1, <1>3, <1>5, <1>10, <2>1, ParamsAssumption, SMTT(60)
       DEF Plan!Directions, Plan!angleDifference
  <2> QED
    BY <1>11, <2>2 DEF r
<1>12. CASE n = e
  <2>1. Plan!angleDifference(r, e) <= 2 * h
    BY <1>4, <1>12
  <2>2. e = l
    BY <1>1, <1>3, <1>5, <1>10, <2>1, ParamsAssumption, SMTT(60)
       DEF Plan!Directions, Plan!angleDifference
  <2> QED
    BY <1>12, <2>2 DEF l
<1> QED
  BY <1>11, <1>12 DEF b, e

-----------------------------------------------------------------------------
(* The plan *)

\* The invalid directions hold the blocked ones, unless an obstacle is at
\* SAFE_RADIUS.
PlanInv ==
  /\ seen \subseteq Obstacles
  /\ invalidSet \in Seq(Plan!Interval)
  /\ Plan!Wide => Holds(Plan!Invalid, Plan!Blocked)

LEMMA PlanInit == Init => PlanInv
<1> SUFFICES ASSUME Init PROVE PlanInv
  OBVIOUS
<1>1. seen = {} /\ invalidSet = <<>>
  BY DEF Init, Plan!Init
<1>2. invalidSet \in Seq(Plan!Interval)
  BY <1>1
<1>3. Plan!Invalid = {} /\ Plan!Blocked = {}
  BY <1>1 DEF Plan!Invalid, Plan!Blocked, Plan!isInvalid
<1> QED
  BY <1>1, <1>2, <1>3 DEF PlanInv, Holds

LEMMA PlanNext == PlanInv /\ [Next]_vars => PlanInv'
<1> SUFFICES ASSUME PlanInv, [Next]_vars PROVE PlanInv'
  OBVIOUS
<1>1. ASSUME NEW o \in Obstacles, Plan!Avoid(o)
      PROVE  PlanInv'
  <2> DEFINE s == Plan!Sector(Plan!Edge(o, 1), Plan!Edge(o, -1))
             covered == {a \in Plan!Directions : Plan!Covers(o, a)}
  <2>1. /\ seen' = seen \cup {o}
        /\ invalidSet' = Plan!setInvalid(invalidSet, Plan!Edge(o, 1), Plan!Edge(o, -1))
    BY <1>1 DEF Plan!Avoid
  <2>2. o \in Plan!Obstacle /\ s \in Plan!Interval
    BY SectorType, ObstaclesAssumption
  <2>3. /\ invalidSet' \in Seq(Plan!Interval)
        /\ Holds(Marked(invalidSet'), Marked(invalidSet) \cup Of(s))
    BY <2>1, <2>2, setInvalidHolds DEF PlanInv
  <2>4. ASSUME Plan!Wide'
        PROVE  Holds(Plan!Invalid', Plan!Blocked')
    <3>1. Plan!Wide /\ o.half > 0
      BY <2>1, <2>4 DEF Plan!Wide
    <3>2. Of(s) = covered
      BY <2>2, <3>1, SectorExact
    <3>3. Plan!Blocked' = Plan!Blocked \cup covered
      BY <2>1 DEF Plan!Blocked
    <3>4. Plan!Invalid = Marked(invalidSet) /\ Plan!Invalid' = Marked(invalidSet')
      BY DEF Plan!Invalid, Marked
    <3>5. Holds(Marked(invalidSet) \cup Of(s), Plan!Blocked \cup Of(s))
      <4>1. Holds(Marked(invalidSet), Plan!Blocked)
        BY <3>1, <3>4 DEF PlanInv
      <4> QED
        BY <4>1, AreDirections, HoldsWith
    <3>6. Holds(Marked(invalidSet'), Plan!Blocked \cup Of(s))
      BY <2>3, <3>5, HoldsOn
    <3> QED
      BY <3>2, <3>3, <3>4, <3>6
  <2>5. (seen \subseteq Obstacles)'
    BY <2>1 DEF PlanInv
  <2> QED
    BY <2>3, <2>4, <2>5 DEF PlanInv
<1>2. ASSUME NEW a \in Plan!Directions, Plan!Steer(a)
      PROVE  PlanInv'
  <2>1. seen' = {} /\ invalidSet' = <<>>
    BY <1>2 DEF Plan!Steer
  <2>2. <<>> \in Seq(Plan!Interval)
    OBVIOUS
  <2>3. Plan!Invalid' = {} /\ Plan!Blocked' = {}
    BY <2>1 DEF Plan!Invalid, Plan!Blocked, Plan!isInvalid
  <2> QED
    BY <2>1, <2>2, <2>3 DEF PlanInv, Holds
<1>3. CASE UNCHANGED planVars
  BY <1>3 DEF planVars, PlanInv, Plan!Wide, Plan!Invalid, Plan!Blocked
<1>4. Plan!Next => \/ \E o \in Obstacles : Plan!Avoid(o)
                   \/ \E a \in Plan!Directions : Plan!Steer(a)
  BY DEF Plan!Next
<1> QED
  BY <1>1, <1>2, <1>3, <1>4 DEF Next, vars

\* For every turn and every set of obstacles: the intervals never contain a
\* direction that no obstacle covers, unless one is at SAFE_RADIUS.
THEOREM OverblocksCorrect == Spec => []NeverOverblocks
<1>1. PlanInv => NeverOverblocks
  BY DEF PlanInv, Holds, NeverOverblocks, Plan!NeverOverblocks
<1> QED
  BY PlanInit, PlanNext, <1>1, PTL DEF Spec

\* For every turn and every set of obstacles: while they leave a gap, the
\* intervals contain all the directions they cover, in whatever order they come.
THEOREM ExactCorrect == Spec => []GapCoverExact
<1>1. PlanInv => GapCoverExact
  BY DEF PlanInv, Holds, GapCoverExact, Plan!GapCoverExact, Plan!Gap
<1> QED
  BY PlanInit, PlanNext, <1>1, PTL DEF Spec

\* The interval setInvalid makes of an obstacle, and the directions it covers.
SectorOf(o) == Plan!Sector(Plan!Edge(o, 1), Plan!Edge(o, -1))

Covered(o) == {a \in Plan!Directions : Plan!Covers(o, a)}

\* While up to three obstacles leave a gap there are no more intervals than
\* obstacles, they are apart and in order, and one contains each sector.
FewInv ==
  /\ IsFiniteSet(seen)
  /\ Plan!Gap /\ Cardinality(seen) <= 3 =>
       /\ Len(invalidSet) <= Cardinality(seen)
       /\ Separate(invalidSet) /\ Rising(invalidSet)
       /\ \A o \in seen : Contained(invalidSet, SectorOf(o))

\* A new plan has no obstacles and no intervals.
LEMMA NothingSeen == seen = {} /\ invalidSet = <<>> => FewInv
<1> SUFFICES ASSUME seen = {}, invalidSet = <<>> PROVE FewInv
  OBVIOUS
<1>1. IsFiniteSet({}) /\ Cardinality({}) = 0
  BY FS_EmptySet
<1>2. Len(<<>>) = 0 /\ DOMAIN <<>> = {}
  OBVIOUS
<1>3. Separate(<<>>) /\ Rising(<<>>)
  BY <1>2 DEF Separate, Rising
<1> QED
  BY <1>1, <1>2, <1>3 DEF FewInv

LEMMA FewInit == Init => FewInv
BY NothingSeen DEF Init, Plan!Init

LEMMA FewNext == PlanInv /\ FewInv /\ [Next]_vars => FewInv'
<1> SUFFICES ASSUME PlanInv, FewInv, [Next]_vars PROVE FewInv'
  OBVIOUS
<1>1. ASSUME NEW o \in Obstacles, Plan!Avoid(o)
      PROVE  FewInv'
  <2> DEFINE s == SectorOf(o)
             r == invalidSet'
  <2>1. /\ seen' = seen \cup {o}
        /\ r = Plan!setInvalid(invalidSet, Plan!Edge(o, 1), Plan!Edge(o, -1))
    BY <1>1 DEF Plan!Avoid
  <2>2. /\ IsFiniteSet(seen) /\ IsFiniteSet(seen')
        /\ Cardinality(seen') = IF o \in seen THEN Cardinality(seen) ELSE Cardinality(seen) + 1
        /\ Cardinality(seen) \in Nat
    BY <2>1, FS_AddElement, FS_CardinalityType DEF FewInv
  <2>3. ASSUME Plan!Gap', Cardinality(seen') <= 3
        PROVE  /\ Len(r) <= Cardinality(seen')
               /\ Separate(r) /\ Rising(r)
               /\ \A u \in seen' : Contained(r, SectorOf(u))
    <3>1. /\ Plan!Wide' /\ Plan!Blocked' # Plan!Directions
          /\ Plan!Wide /\ o.half > 0
      BY <2>1, <2>3 DEF Plan!Gap, Plan!Wide
    <3>2. o \in Plan!Obstacle /\ s \in Plan!Interval /\ Of(s) = Covered(o)
      BY <3>1, SectorExact, ObstaclesAssumption DEF SectorOf, Covered
    <3>3. Plan!Blocked' = Plan!Blocked \cup Of(s)
      BY <2>1, <3>2 DEF Plan!Blocked, Covered
    <3>4. Plan!Blocked \subseteq Plan!Directions /\ Of(s) \subseteq Plan!Directions
      BY AreDirections DEF Plan!Blocked
    <3>5. Plan!Gap
      BY <3>1, <3>3, <3>4 DEF Plan!Gap
    <3>6. Marked(invalidSet) = Plan!Blocked
      BY <3>1, <3>5 DEF PlanInv, Holds, Plan!Gap, Plan!Invalid, Marked
    <3>7. invalidSet \in Seq(Plan!Interval) /\ Marked(invalidSet) \cup Of(s) # Plan!Directions
      BY <3>1, <3>3, <3>6 DEF PlanInv
    <3>8. Cardinality(seen) <= 3
      BY <2>2, <2>3
    <3>9. /\ Len(invalidSet) <= Cardinality(seen)
          /\ Separate(invalidSet) /\ Rising(invalidSet)
          /\ \A u \in seen : Contained(invalidSet, SectorOf(u))
      BY <3>5, <3>8 DEF FewInv
    <3>10. Len(invalidSet) \in Nat
      BY <3>7
    <3>11. Len(invalidSet) <= 3 /\ (Contained(invalidSet, s) \/ Len(invalidSet) <= 2)
      <4>1. CASE o \in seen
        BY <2>2, <3>8, <3>9, <3>10, <4>1
      <4>2. CASE o \notin seen
        BY <2>2, <2>3, <3>9, <3>10, <4>2
      <4> QED
        BY <4>1, <4>2
    <3> HIDE DEF r
    <3>12. /\ r \in Seq(Plan!Interval) /\ Separate(r) /\ Rising(r) /\ Gathers(invalidSet, r)
           /\ Contained(r, s) /\ Len(r) <= Len(invalidSet) + 1
           /\ Contained(invalidSet, s) => Len(r) <= Len(invalidSet)
      <4> DEFINE a == Plan!Edge(o, 1)
                 b == Plan!Edge(o, -1)
      <4>1. s = Plan!Sector(a, b) /\ r = Plan!setInvalid(invalidSet, a, b)
        BY <2>1 DEF SectorOf
      <4> HIDE DEF a, b, s
      <4> QED
        BY <3>2, <3>7, <3>9, <3>11, <4>1, setInvalidFew
    <3>13. ASSUME NEW u \in seen'
           PROVE  Contained(r, SectorOf(u))
      <4>1. CASE u = o
        BY <3>12, <4>1
      <4>2. CASE u \in seen
        <5>1. PICK k \in DOMAIN invalidSet : Of(SectorOf(u)) \subseteq Of(invalidSet[k])
          BY <3>9, <4>2 DEF Contained
        <5>2. PICK l \in DOMAIN r : Of(invalidSet[k]) \subseteq Of(r[l])
          BY <3>12 DEF Gathers
        <5> QED
          BY <5>1, <5>2 DEF Contained
      <4> QED
        BY <2>1, <4>1, <4>2
    <3>14. Len(r) <= Cardinality(seen')
      <4>1. Len(r) \in Nat
        BY <3>12
      <4>2. CASE o \in seen
        BY <2>2, <3>9, <3>10, <3>12, <4>1, <4>2
      <4>3. CASE o \notin seen
        BY <2>2, <3>9, <3>10, <3>12, <4>1, <4>3
      <4> QED
        BY <4>2, <4>3
    <3> QED
      BY <3>12, <3>13, <3>14
  <2> QED
    BY <2>2, <2>3 DEF FewInv
<1>2. ASSUME NEW a \in Plan!Directions, Plan!Steer(a)
      PROVE  FewInv'
  <2>1. seen' = {} /\ invalidSet' = <<>>
    BY <1>2 DEF Plan!Steer
  <2>2. (seen = {} /\ invalidSet = <<>> => FewInv)'
    BY NothingSeen, PTL
  <2> QED
    BY <2>1, <2>2
<1>3. CASE UNCHANGED planVars
  BY <1>3 DEF planVars, FewInv, Plan!Gap, Plan!Wide, Plan!Blocked
<1>4. Plan!Next => \/ \E o \in Obstacles : Plan!Avoid(o)
                   \/ \E a \in Plan!Directions : Plan!Steer(a)
  BY DEF Plan!Next
<1> QED
  BY <1>1, <1>2, <1>3, <1>4 DEF Next, vars

\* What the invariants say of the direction taken.
LEMMA NearestTaken == PlanInv /\ FewInv => TakesNearestClear
<1> DEFINE Best(a, n) == \A c \in Plan!Directions \ Plan!Blocked :
                            Plan!Apart(a, n) <= Plan!Apart(a, c)
           Clear(n) == Cardinality(seen) <= 3 => \A o \in seen :
                         n \in {Plan!Edge(o, 1), Plan!Edge(o, -1)} \/ ~Plan!Covers(o, n)
<1>0. SUFFICES ASSUME PlanInv, FewInv, Plan!Gap, NEW a \in Plan!Directions
               PROVE  Best(a, Plan!Taken(invalidSet, a)) /\ Clear(Plan!Taken(invalidSet, a))
  <2>1. Plan!Cardinality(seen) = Cardinality(seen)
    BY DEF Plan!Cardinality, Cardinality
  <2> QED
    BY <2>1 DEF TakesNearestClear, Plan!TakesNearestClear
<1> DEFINE n == Plan!Taken(invalidSet, a)
<1>1. /\ invalidSet \in Seq(Plan!Interval) /\ seen \subseteq Obstacles
      /\ Plan!Wide /\ Plan!Blocked # Plan!Directions
      /\ Marked(invalidSet) = Plan!Blocked
  BY <1>0 DEF PlanInv, Plan!Gap, Holds, Plan!Invalid, Marked
<1>2. CASE ~Plan!isInvalid(invalidSet, a)
  <2>1. n = a
    BY <1>2 DEF Plan!Taken
  <2> HIDE DEF n
  <2>2. ASSUME NEW c \in Plan!Directions
        PROVE  Plan!Apart(a, a) <= Plan!Apart(a, c)
    BY ParamsAssumption DEF Plan!Apart, Plan!angleDifference, Plan!Directions
  <2>3. a \notin Plan!Blocked
    BY <1>1, <1>2 DEF Marked
  <2>4. \A o \in seen : ~Plan!Covers(o, a)
    BY <2>3 DEF Plan!Blocked
  <2> QED
    BY <2>1, <2>2, <2>4 DEF n
<1>3. CASE Plan!isInvalid(invalidSet, a)
  <2>1. PICK k \in DOMAIN invalidSet :
          Plan!getLimits(invalidSet, a) = invalidSet[k] /\ Plan!insideInterval(invalidSet[k], a)
    BY <1>1, <1>3, LimitsAt
  <2> DEFINE i == invalidSet[k]
  <2>2. i \in Plan!Interval /\ a \in Of(i)
    BY <1>1, <2>1 DEF Of
  <2>3. n = Nearer(i, a)
    BY <1>3, <2>1 DEF Plan!Taken, Nearer
  <2>4. Of(i) \subseteq Plan!Blocked
    BY <1>1, <2>1 DEF Of, Marked, Plan!isInvalid
  <2>5. Of(i) # Plan!Directions
    BY <1>1, <2>4 DEF Plan!Blocked
  <2> HIDE DEF i, n
  <2>6. n \in Of(i) /\ n \in {i.start, i.end}
    BY <2>2, <2>3, NearerInside
  <2>7. ASSUME NEW c \in Plan!Directions \ Plan!Blocked
        PROVE  Plan!Apart(a, n) <= Plan!Apart(a, c)
    BY <2>2, <2>3, <2>4, NearerIsNearest
  <2>8. ASSUME Cardinality(seen) <= 3, NEW o \in seen, Plan!Covers(o, n)
        PROVE  n \in {Plan!Edge(o, 1), Plan!Edge(o, -1)}
    <3>1. o \in Plan!Obstacle /\ o.half > 0
      BY <1>1, ObstaclesAssumption DEF Plan!Wide
    <3>2. Of(SectorOf(o)) = Covered(o)
      BY <3>1, SectorExact DEF SectorOf, Covered
    <3>3. /\ Separate(invalidSet)
          /\ Contained(invalidSet, SectorOf(o))
      BY <1>0, <2>8 DEF FewInv
    <3>4. PICK l \in DOMAIN invalidSet : Covered(o) \subseteq Of(invalidSet[l])
      BY <3>2, <3>3 DEF Contained
    <3>5. n \in Covered(o)
      BY <2>6, <2>8 DEF Covered, Of
    <3>6. l = k
      BY <2>6, <3>3, <3>4, <3>5 DEF Separate, Disjoint, i
    <3>7. \A u \in Plan!Directions : Plan!Covers(o, u) => u \in Of(i)
      BY <3>4, <3>6 DEF Covered, i
    <3> QED
      BY <2>2, <2>5, <2>6, <2>8, <3>1, <3>7, LimitIsEdge
  <2> QED
    BY <2>7, <2>8 DEF n
<1> QED
  BY <1>2, <1>3

\* For every turn and every set of obstacles: while they leave a gap, no
\* direction clear of them is nearer to the one wanted than the one taken; and
\* up to three are never steered into.
THEOREM NearestCorrect == Spec => []TakesNearestClear
<1>1. Init => PlanInv /\ FewInv
  BY PlanInit, FewInit
<1>2. PlanInv /\ FewInv /\ [Next]_vars => (PlanInv /\ FewInv)'
  BY PlanNext, FewNext
<1> QED
  BY <1>1, <1>2, NearestTaken, PTL DEF Spec
=============================================================================
