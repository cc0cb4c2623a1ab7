------------------------------ MODULE TAttack ------------------------------
(***************************************************************************)
(* The tactic of Tactics/tAttack.hpp for one robot: approach the ball,     *)
(* shoot or spin when close to it, or form a swarm behind a team mate who  *)
(* plays it along a side wall.  As in the midfield tactic a case commands  *)
(* the robot, changes its state, or both, and a changed state is acted on  *)
(* in the next frame; except that the case FORM_SWARM has no break and     *)
(* runs on into FORM_SWARM_DEFENDER.                                       *)
(***************************************************************************)
EXTENDS TacticStates

-----------------------------------------------------------------------------
\* A team mate plays the ball along the wall, level with the robot or behind.
MateOnWall(s) ==
  /\ botID # s.ourNear
  /\ InStrip(Mate(s)) /\ InStrip(s.ball)
  /\ Mate(s).x - 2 * BOT_RADIUS < Self(s).x

\* A team mate plays the ball in a corner of theirs, toward the side wall.
MateInCorner(s) ==
  /\ s.ball.x > HALF_FIELD_MAXX - 2 * BOT_RADIUS
  /\ Mate(s).x > HALF_FIELD_MAXX - 2 * BOT_RADIUS
  /\ \/ s.ball.y > OPP_GOAL_MAXY /\ s.vel.y > 0 /\ Mate(s).y > Self(s).y
     \/ s.ball.y < OPP_GOAL_MINY /\ s.vel.y < 0 /\ Mate(s).y < Self(s).y

\* Written in the code as a && b || c: of the second alternative neither the
\* robot's number nor an opponent is asked.
SwarmForms(s) ==
  \/ /\ botID # 1 /\ OppositeNear(s)
     /\ s.ball.x < HALF_FIELD_MAXX - 3 * BOT_RADIUS
     /\ s.ball.x > -HALF_FIELD_MAXX + GOAL_DEPTH + 4 * BOT_RADIUS
     /\ MateOnWall(s)
  \/ MateInCorner(s)

DefenderSwarmForms(s) ==
  \/ /\ botID = 1
     /\ s.ball.x < HALF_FIELD_MAXX - 3 * BOT_RADIUS
     /\ s.ball.x > -HALF_FIELD_MAXX + GOAL_DEPTH + 6 * BOT_RADIUS
     /\ MateOnWall(s)
  \/ MateInCorner(s)

CloseToBall(s) == Within(s.ball, Self(s), BOT_BALL_THRESH)
FarFromBall(s) == Beyond(s.ball, Self(s), BOT_BALL_THRESH)

\* isBallInDBox: only the goalkeeper goes there.
BallInDBox(s) ==
  /\ AbsOf(s.ball.y) < OUR_GOAL_MAXY + 3 * BOT_RADIUS
  /\ s.ball.x < -HALF_FIELD_MAXX + GOAL_DEPTH + DBOX_WIDTH

\* Level with the goalkeeper, or behind it.
BesideKeeper(s) == s.home[0].x + BOT_RADIUS > Self(s).x

\* Past the ball in a corner of theirs: back off.
InFrontInCorner(s) ==
  LET line == HALF_FIELD_MAXX - GOAL_DEPTH - 2 * BOT_RADIUS
  IN /\ s.ball.x > line /\ Self(s).x > line
     /\ \/ s.ball.y > OPP_GOAL_MAXY /\ Self(s).y < s.ball.y
        \/ s.ball.y < OPP_GOAL_MINY /\ Self(s).y > s.ball.y

\* The later rules overwrite the target of the earlier ones.
ApproachTarget(s) ==
  IF InFrontInCorner(s) THEN "wait"
  ELSE IF BesideKeeper(s) THEN "guard"
  ELSE IF BallInDBox(s) THEN "box"
  ELSE "ball"

-----------------------------------------------------------------------------
\* Mutant: a ball along the wall is enough to form the defenders' swarm.
ApproachingUnguarded(s) ==
  /\ iState = "APPROACHING"
  /\ \/ SwarmForms(s) /\ SwitchTo("FORM_SWARM")
     \/ ~SwarmForms(s) /\ ~CloseToBall(s) /\ InStrip(s.ball)
        /\ SwitchTo("FORM_SWARM_DEFENDER")
     \/ ~SwarmForms(s) /\ CloseToBall(s) /\ SwitchTo("CLOSE_TO_BALL")
     \/ /\ ~SwarmForms(s) /\ ~CloseToBall(s) /\ ~InStrip(s.ball)
        /\ Send(GoToPoint(ApproachTarget(s)))

Approaching(s) ==
  /\ iState = "APPROACHING"
  /\ \/ SwarmForms(s) /\ SwitchTo("FORM_SWARM")
     \/ ~SwarmForms(s) /\ DefenderSwarmForms(s) /\ SwitchTo("FORM_SWARM_DEFENDER")
     \/ /\ ~SwarmForms(s) /\ ~DefenderSwarmForms(s) /\ CloseToBall(s)
        /\ SwitchTo("CLOSE_TO_BALL")
     \/ /\ ~SwarmForms(s) /\ ~DefenderSwarmForms(s) /\ ~CloseToBall(s)
        /\ Send(GoToPoint(ApproachTarget(s)))

\* Mutant: losing the ball is not noticed.
SpinningBlind(s) ==
  \/ iState = "SPINNING_CW" /\ Send(Do("Spin", "cw"))
  \/ iState = "SPINNING_CCW" /\ Send(Do("Spin", "ccw"))

Spinning(s) ==
  /\ iState \in {"SPINNING_CW", "SPINNING_CCW"}
  /\ \/ FarFromBall(s) /\ SwitchTo("APPROACHING")
     \/ /\ ~FarFromBall(s)
        /\ Send(Do("Spin", IF iState = "SPINNING_CW" THEN "cw" ELSE "ccw"))

\* The ball is beside the robot, which is off the wall: spin to hit it.
AcrossBall(s) == OffStrip(Self(s)) /\ s.heading[botID] = "across"

\* Mutant: the state that line 550 has commented out and no case handles.
CloseAttacks(s) ==
  /\ iState = "CLOSE_TO_BALL"
  /\ ~AcrossBall(s)
  /\ iState' = "ATTACKING" /\ sent' = <<GoToPoint("ahead")>>

\* With the ball, on toward their goal.
Close(s) ==
  /\ iState = "CLOSE_TO_BALL"
  /\ \/ /\ AcrossBall(s)
        /\ SwitchTo(IF s.ball.y > 0 THEN "SPINNING_CW" ELSE "SPINNING_CCW")
     \/ /\ ~AcrossBall(s)
        /\ sent' = <<GoToPoint("ahead")>>
        /\ iState' = IF FarFromBall(s) THEN "APPROACHING" ELSE "CLOSE_TO_BALL"

\* Mutant: a robot level with the team mate is sent behind him, so he himself.
DefenderHasPlaceLevel(s) ==
  /\ Self(s).x >= Mate(s).x /\ InStrip(s.ball)
  /\ OffStrip(Self(s)) \/ InStrip(Self(s))

\* Mutant: which of the two is ahead is left to the swarm that was formed.
DefenderHasPlaceEither(s) ==
  /\ Self(s).x # Mate(s).x /\ InStrip(s.ball)
  /\ OffStrip(Self(s)) \/ InStrip(Self(s))

\* A place behind the team mate on the wall, for a robot ahead of him.
DefenderHasPlace(s) ==
  /\ Self(s).x > Mate(s).x /\ InStrip(s.ball)
  /\ OffStrip(Self(s)) \/ InStrip(Self(s))

\* A place behind the team mate, for a robot behind him.
SwarmHasPlace(s) ==
  OppositeNear(s) /\ Self(s).x < Mate(s).x /\ OffStrip(Self(s))

\* What FORM_SWARM_DEFENDER does in a frame that has sent some commands before:
\* with a place for the robot it adds one and leaves the state as it is.
DefenderAfter(s, commands) ==
  \/ /\ DefenderHasPlace(s)
     /\ iState' = iState /\ sent' = Append(commands, GoToPoint("swarm"))
  \/ ~DefenderHasPlace(s) /\ iState' = "APPROACHING" /\ sent' = commands

\* Without a place the case breaks; with one it runs on after its command.
Swarm(s) ==
  /\ iState = "FORM_SWARM"
  /\ \/ SwarmHasPlace(s) /\ DefenderAfter(s, <<GoToPoint("swarm")>>)
     \/ ~SwarmHasPlace(s) /\ CloseToBall(s) /\ SwitchTo("CLOSE_TO_BALL")
     \/ ~SwarmHasPlace(s) /\ ~CloseToBall(s) /\ SwitchTo("APPROACHING")

SwarmDefender(s) == iState = "FORM_SWARM_DEFENDER" /\ DefenderAfter(s, Silence)

Execute(s) ==
  Approaching(s) \/ Spinning(s) \/ Close(s) \/ Swarm(s) \/ SwarmDefender(s)

-----------------------------------------------------------------------------
Init ==
  /\ state \in Beliefs
  /\ iState = "APPROACHING"
  /\ sent = Silence
  /\ counter = 0

Next ==
  /\ Tick
  /\ state' \in Beliefs
  /\ Execute(state')

Spec == Init /\ [][Next]_vars

FairSpec == Spec /\ FramesComeFairly

-----------------------------------------------------------------------------
(* Properties *)

TypeOK ==
  /\ state \in Beliefs
  /\ iState \in {"APPROACHING", "SPINNING_CW", "SPINNING_CCW", "CLOSE_TO_BALL",
                 "FORM_SWARM", "FORM_SWARM_DEFENDER"}
  /\ sent \in {Silence} \cup {<<c>> : c \in Command}
  /\ counter \in {0, 1}

Spins(commands) == AsksFor(commands, {"cw", "ccw"})

\* A robot starts to spin only in the frame after one that saw it across the
\* ball and left it alone, and is told to spin only with the ball in reach:
\* CLOSE_TO_BALL, the spin and its end take three frames, and the ball may be
\* anywhere else in each of them.
SpinFollowsAcross ==
  [][Spins(sent') =>
       /\ ~FarFromBall(state')
       /\ Spins(sent) \/ (sent = Silence /\ AcrossBall(state))]_vars

\* The lost break of FORM_SWARM: the frame runs on into a case that could send
\* the robot to a second place, overrule the first and keep the state.  It never
\* does: the two cases have places on opposite sides of the team mate, whatever
\* belief the frame finds the state with, so that the robot is sent to one place
\* at most and decides anew in every other frame.
SwarmIsOneFrame ==
  [][iState = "FORM_SWARM" => iState' # "FORM_SWARM" /\ Len(sent') <= 1]_vars

\* The robot that the belief calls nearest to the ball is never sent to a place
\* in the swarm behind itself, though it may have become nearest only after
\* the robot entered one of the states that form the swarm.
SwarmSparesPlayer ==
  AsksFor(sent, {"swarm"}) => botID # state.ourNear

\* A frame that leaves the wheels as they were has at least changed the state.
SilentFrameSwitches == [][sent' = Silence => iState' # iState]_vars

\* The states of the field in which APPROACHING forms a swarm in which there is
\* no place for the robot, which sends it back to APPROACHING.
Livelock(s) ==
  \/ SwarmForms(s) /\ ~SwarmHasPlace(s) /\ ~CloseToBall(s)
  \/ ~SwarmForms(s) /\ DefenderSwarmForms(s) /\ ~DefenderHasPlace(s)

\* If the belief stays as it is the robot is commanded again and again, except
\* in the states of Livelock.
FrozenIsDriven ==
  <>[][UNCHANGED state]_vars =>
    []<>(sent # Silence) \/ <>[]Livelock(state)
=============================================================================
