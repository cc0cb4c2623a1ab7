---------------------------- MODULE TAttackLingo ----------------------------
(***************************************************************************)
(* The tactic of Tactics/tAttackLingo.hpp for one robot.  Its cases have   *)
(* no break after their commands: one frame may run ATTACK_LINGO,          *)
(* FORM_SWARM and DEFEND in turn and send up to three commands, of which   *)
(* the robot follows the last.                                             *)
(***************************************************************************)
EXTENDS TacticStates

-----------------------------------------------------------------------------
AheadOfMate(s) == Self(s).x > Mate(s).x

\* A team mate behind the robot plays the ball along a side wall.
MateOnWall(s) == InStrip(s.ball) /\ InStrip(Mate(s)) /\ AheadOfMate(s)

\* Mutant: the swarm forms whether the team mate is behind the robot or not.
FormsEvenBehind(s) ==
  /\ OppositeNear(s)
  /\ 2 * (s.ball.x + HALF_FIELD_MAXX - GOAL_DEPTH) > 7 * BOT_RADIUS
  /\ InStrip(s.ball) /\ InStrip(Mate(s))

\* 3.5 robots off our goal line.
Forms(s) ==
  /\ OppositeNear(s)
  /\ 2 * (s.ball.x + HALF_FIELD_MAXX - GOAL_DEPTH) > 7 * BOT_RADIUS
  /\ MateOnWall(s)

\* DEFEND goes back to the swarm nearer to the middle, whoever is near.
FormsAgain(s) ==
  /\ s.ball.x > -HALF_FIELD_MAXX + GOAL_DEPTH + 6 * BOT_RADIUS
  /\ MateOnWall(s)

\* Mutant: a place for a robot level with the team mate, so for himself.
HasPlaceLevel(s) ==
  /\ Self(s).x >= Mate(s).x /\ InStrip(s.ball)
  /\ (OppositeNear(s) /\ OffStrip(Self(s))) \/ InStrip(Self(s))

\* A place behind the team mate: behind him on the wall if the robot is inside
\* the field, beside him if it is in the strip itself.
HasPlace(s) ==
  /\ AheadOfMate(s) /\ InStrip(s.ball)
  /\ (OppositeNear(s) /\ OffStrip(Self(s))) \/ InStrip(Self(s))

\* Past the ball in a corner of theirs: back off.
InFrontInCorner(s) ==
  LET line == HALF_FIELD_MAXX - GOAL_DEPTH - 2 * BOT_RADIUS
  IN /\ s.ball.x > line /\ Self(s).x > line
     /\ \/ s.ball.y < 0 /\ Self(s).y > s.ball.y
        \/ s.ball.y > 0 /\ Self(s).y < s.ball.y

\* The later rules overwrite the target of the earlier ones.
Approach(s) ==
  GoToPoint(IF BehindKeeper(s) THEN "guard"
            ELSE IF InOurBox(s.ball) THEN "box"
            ELSE IF InFrontInCorner(s) THEN "wait"
            ELSE "ball")

\* The ball comes toward our goal ahead of the robot, outside the goal area.
BallComes(s) ==
  /\ s.ball.x < 0 /\ s.vel.x < 0 /\ s.ball.x > Self(s).x
  /\ s.ball.x > -HALF_FIELD_MAXX + GOAL_DEPTH + DBOX_WIDTH + BOT_RADIUS

\* Mutant: the ball may be behind the robot.
BallNear(s) == Within(s.ball, Self(s), 2 * BOT_BALL_THRESH)

BallAhead(s) ==
  Within(s.ball, Self(s), 2 * BOT_BALL_THRESH) /\ s.ball.x > Self(s).x

\* DEFEND, after the commands the cases before it have sent.  How near the
\* robot is to the point to shoot from depends on a prediction of the ball,
\* which is abstracted: with the ball ahead it may be there or not.
DefendAfter(s, commands) ==
  IF FormsAgain(s)
  THEN iState' = "FORM_SWARM" /\ sent' = commands
  ELSE \/ /\ BallAhead(s)
          /\ iState' = iState
          /\ sent' = Append(commands, Do("GoToPointDW", "ball"))
       \/ /\ BallComes(s)
          /\ iState' = iState
          /\ sent' = Append(commands, Do("DefendPoint", "defend"))
       \/ /\ ~BallComes(s)
          /\ iState' = "ATTACK_LINGO" /\ sent' = commands

\* FORM_SWARM, after the command ATTACK_LINGO may have sent.
SwarmAfter(s, commands) ==
  \/ /\ HasPlace(s)
     /\ DefendAfter(s, Append(commands, GoToPoint("swarm")))
  \/ ~HasPlace(s) /\ iState' = "ATTACK_LINGO" /\ sent' = commands

\* Mutant: the transition that lines 120 to 125 have commented out.
AttackDefends(s) ==
  /\ iState = "ATTACK_LINGO"
  /\ \/ Forms(s) /\ SwitchTo("FORM_SWARM")
     \/ ~Forms(s) /\ s.ball.x < 0 /\ SwitchTo("DEFEND")

Attack(s) ==
  /\ iState = "ATTACK_LINGO"
  /\ \/ Forms(s) /\ SwitchTo("FORM_SWARM")
     \/ ~Forms(s) /\ SwarmAfter(s, <<Approach(s)>>)

Swarm(s) ==
  /\ iState = "FORM_SWARM"
  /\ SwarmAfter(s, Silence)

Execute(s) == Attack(s) \/ Swarm(s)

Init ==
  /\ state \in Beliefs
  /\ iState = "ATTACK_LINGO"
  /\ sent = Silence
  /\ counter = 0

Next ==
  /\ Tick
  /\ state' \in Beliefs
  /\ Execute(state')

Spec == Init /\ [][Next]_vars

FairSpec == Spec /\ FramesComeFairly

-----------------------------------------------------------------------------
(* Properties *)

\* DEFEND is a state of the code that nothing enters: it only runs when the
\* cases before it run on into it.
TypeOK ==
  /\ state \in Beliefs
  /\ iState \in {"ATTACK_LINGO", "FORM_SWARM"}
  /\ sent \in Seq(Command) /\ Len(sent) <= 3
  /\ counter \in {0, 1}

\* The robot that the belief calls nearest to the ball is never sent to the
\* place behind itself, whichever case it was in before.
SwarmSparesPlayer ==
  AsksFor(sent, {"swarm"}) => botID # state.ourNear

\* A command is overruled in the same frame only where the code after it has a
\* reason of its own: the guard of the goalkeeper and the way to the ball only
\* by a robot ahead of a team mate who has the ball at the wall, and the place
\* in the swarm only with the ball ahead of the robot.
OverruledWithReason ==
  /\ AsksFor(sent, {"guard", "box", "wait"}) /\ Len(sent) > 1 =>
       InStrip(state.ball) /\ AheadOfMate(state)
  /\ AsksFor(sent, {"swarm"}) /\ Final(sent).role # "swarm" =>
       state.ball.x > Self(state).x

\* The only field in which the two states hand the robot to each other: a swarm
\* forms and the robot is neither in the strip nor off it.
Livelock(s) == Forms(s) /\ AbsOf(Self(s).y) = HALF_FIELD_MAXY - 2 * BOT_RADIUS

\* If the belief stays as it is the robot is commanded again and again, except
\* exactly on the edge of the strip.
FrozenIsDriven ==
  <>[][UNCHANGED state]_vars =>
    []<>(sent # Silence) \/ <>[](state \in {s \in Beliefs : Livelock(s)})
=============================================================================
