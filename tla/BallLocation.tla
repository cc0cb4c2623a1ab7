---------------------------- MODULE BallLocation ----------------------------
(***************************************************************************)
(* BeliefState::computeBallLocation (Core/beliefState.cpp) as functions of *)
(* the scene: which robot of each team is taken to be the nearest to the   *)
(* ball, and which team is taken to have it.                               *)
(***************************************************************************)
EXTENDS Field

\* Our robots that pass the test that ends the scan: close to the ball and
\* heading at it.
HomeHolders(s) ==
  {i \in Bots : /\ Within(s.ball, s.home[i], BOT_BALL_THRESH_FOR_PR)
                /\ s.heading[i] = "toward"}

\* Theirs; the angle is taken from our robot of the same number.
AwayHolders(s) ==
  {i \in Bots : Within(s.ball, s.away[i], BOT_BALL_THRESH) /\ s.aligned[i]}

\* Mutant: the scan breaks before it has compared the last distance.
ScannedBreakFirst(H) == {i \in Bots : \A j \in H : i < j}

\* The robots a scan visits: it stops at the first of those that pass, H.
Scanned(H) == {i \in Bots : \A j \in H : i <= j}

\* Mutant: minDist starts too small, so no robot may be found.
NearestOfCapped(pos, s, S) ==
  IF \A i \in S : ~Within(s.ball, pos[i], 900) THEN -1
  ELSE CHOOSE i \in S : \A j \in S :
         DistSq(s.ball, pos[i]) <= DistSq(s.ball, pos[j])

\* The first of the robots in S at the least distance from the ball.
NearestOf(pos, s, S) ==
  CHOOSE i \in S : \A j \in S :
    \/ DistSq(s.ball, pos[i]) < DistSq(s.ball, pos[j])
    \/ DistSq(s.ball, pos[i]) = DistSq(s.ball, pos[j]) /\ i <= j

OurNearest(s) == NearestOf(s.home, s, Scanned(HomeHolders(s)))

OppNearest(s) == NearestOf(s.away, s, Scanned(AwayHolders(s)))

\* If both scans found an owner the ball is taken to be theirs.
OwnerIn(s) ==
  IF AwayHolders(s) # {} THEN "opp"
  ELSE IF HomeHolders(s) # {} THEN "our"
  ELSE "loose"

\* What a tactic sees of the belief: the scene and the robots nearest to the
\* ball.  The tactics hold a pointer to the belief and never write to it.
Belief == [ball : Point, vel : Point,
           home : [Bots -> Point], away : [Bots -> Point],
           heading : [Bots -> Heading], aligned : [Bots -> BOOLEAN],
           ourNear : Bots, oppNear : Bots]

BeliefOf(s) ==
  [ball |-> s.ball, vel |-> s.vel, home |-> s.home, away |-> s.away,
   heading |-> s.heading, aligned |-> s.aligned,
   ourNear |-> OurNearest(s), oppNear |-> OppNearest(s)]
=============================================================================
