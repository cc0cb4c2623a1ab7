----------------------------- MODULE TMidField -----------------------------
(***************************************************************************)
(* The tactic of Tactics/tMidField.hpp for one robot.  Each frame in which *)
(* Tester::run picks it, execute runs the case of the current state, which *)
(* either commands the robot or only changes state: a changed state is not *)
(* acted on before the next frame.  The comments of the cases are quoted   *)
(* by the properties.                                                      *)
(***************************************************************************)
EXTENDS TacticStates

-----------------------------------------------------------------------------
\* Three times BOT_BALL_THRESH from the nearest robot of a team.
Open(p, q) == Beyond(p, q, 3 * BOT_BALL_THRESH)

OursFar(s)   == Open(s.ball, Mate(s))
TheirsFar(s) == Open(s.ball, s.away[s.oppNear])
OursClose(s) == Within(s.ball, Mate(s), 3 * BOT_BALL_THRESH)

InLane(p) == AbsOf(p.y) < OUR_GOAL_MAXY

InOppBox(p) == p.x > HALF_FIELD_MAXX - DBOX_WIDTH /\ InLane(p)

-----------------------------------------------------------------------------
\* Toward the ball, or the point behind it from which to shoot.
Attacking(s) ==
  /\ iState = "ATTACKING"
  /\ \/ /\ s.ball.x < 0
        /\ SwitchTo("DEFENDING")
     \/ /\ s.ball.x >= 0
        /\ (OursClose(s) /\ s.ball.x > 0) \/ InOppBox(Self(s))
        /\ SwitchTo("MIDFIELDING")
     \/ /\ s.ball.x >= 0
        /\ ~(OursClose(s) /\ s.ball.x > 0) /\ ~InOppBox(Self(s))
        /\ Send(GoToPoint("ball"))

\* Each later rule overwrites the skill and the target of the earlier ones.
Defence(s) ==
  IF BehindKeeper(s) THEN GoToPoint("guard")
  ELSE IF InOurBox(s.ball) THEN GoToPoint("box")
  ELSE Do("DefendPoint", "defend")

\* Mutant: no test of the ball's half.
DefendingAnywhere(s) ==
  /\ iState = "DEFENDING"
  /\ \/ OursFar(s) /\ InLane(s.ball) /\ SwitchTo("ATTACKING")
     \/ ~(OursFar(s) /\ InLane(s.ball)) /\ Send(Defence(s))

Defending(s) ==
  /\ iState = "DEFENDING"
  /\ \/ /\ OursFar(s) /\ InLane(s.ball)
        /\ SwitchTo("ATTACKING")
     \/ /\ ~(OursFar(s) /\ InLane(s.ball))
        /\ s.ball.x > 0
        /\ SwitchTo("MIDFIELDING")
     \/ /\ ~(OursFar(s) /\ InLane(s.ball))
        /\ s.ball.x <= 0
        /\ Send(Defence(s))

\* Nobody of ours is asked about when the numbers of the robots coincide.
BallIsFree(s) ==
  /\ s.ball.x > 0 /\ TheirsFar(s)
  /\ s.oppNear # botID => OursFar(s)

\* Mutant: the robot is only driven with a team mate near the ball.
MidfieldingIdle(s) ==
  /\ iState = "MIDFIELDING"
  /\ \/ s.ball.x < 0 /\ SwitchTo("DEFENDING")
     \/ BallIsFree(s) /\ SwitchTo("ATTACKING")
     \/ s.ball.x >= 0 /\ ~BallIsFree(s) /\ OursClose(s) /\ Send(GoToPoint("line"))
     \/ s.ball.x >= 0 /\ ~BallIsFree(s) /\ ~OursClose(s) /\ SwitchTo(iState)

\* Mutant: line 367 assigns to iState what it assigns to iState2.
MidfieldingIState2(s) ==
  /\ iState = "MIDFIELDING"
  /\ iState' = "CLOSE_TO_BALL" /\ sent' = <<GoToPoint("line")>>

\* On the halfway line, level with the ball.
Midfielding(s) ==
  /\ iState = "MIDFIELDING"
  /\ \/ s.ball.x < 0 /\ SwitchTo("DEFENDING")
     \/ BallIsFree(s) /\ SwitchTo("ATTACKING")
     \/ s.ball.x >= 0 /\ ~BallIsFree(s) /\ Send(GoToPoint("line"))

Execute(s) == Attacking(s) \/ Defending(s) \/ Midfielding(s)

Init ==
  /\ state \in Beliefs
  /\ iState = "DEFENDING"
  /\ sent = Silence
  /\ counter = 0

Next ==
  /\ Tick
  /\ state' \in Beliefs
  /\ Execute(state')

Spec == Init /\ [][Next]_vars

FairSpec == Spec /\ FramesComeFairly

-----------------------------------------------------------------------------
(* Properties *)

TypeOK ==
  /\ state \in Beliefs
  /\ iState \in {"DEFENDING", "MIDFIELDING", "ATTACKING"}
  /\ sent \in {Silence} \cup {<<c>> : c \in Command}
  /\ counter \in {0, 1}

\* What a robot is told to do fits the half the ball is in when it is told so,
\* however the ball moved since the state was entered, and it is told to go for
\* the ball only if no team mate is near it (the tests that open each case).
CommandFitsBall ==
  /\ AsksFor(sent, {"defend", "box", "guard"}) => state.ball.x <= 0
  /\ AsksFor(sent, {"ball", "line"}) => state.ball.x >= 0
  /\ AsksFor(sent, {"ball"}) =>
       /\ ~(OursClose(state) /\ state.ball.x > 0)
       /\ ~InOppBox(Self(state))

\* A frame that leaves the wheels turning as they were has changed the state,
\* and one that commands has not: a case never does both or neither.
SilentFrameSwitches ==
  [][(sent' = Silence) <=> (iState' # iState)]_vars

\* The states in which two cases keep handing the robot to each other: the
\* ball in our half, in the lane of the goal, with none of ours near it
\* (DEFENDING and ATTACKING), or free in their half with a robot that the
\* ATTACKING case sends back (MIDFIELDING and ATTACKING).
Livelock(s) ==
  \/ s.ball.x < 0 /\ OursFar(s) /\ InLane(s.ball)
  \/ BallIsFree(s) /\ (OursClose(s) \/ InOppBox(Self(s)))

\* If the belief stays as it is the robot is commanded again and again, except
\* in the states of Livelock: there is no other way for execute to fall silent.
FrozenIsDriven ==
  <>[][UNCHANGED state]_vars =>
    []<>(sent # Silence) \/ <>[]Livelock(state)

\* tMidField.hpp:240, "Ball is with opp bot who is charging towards goal. So
\* defend the goal": while the ball stays in our half and with their robot, the
\* robot is told to defend.
DefendsAgainstCharge ==
  <>[][UNCHANGED state]_vars /\ <>[](state.ball.x < 0 /\ OwnerIn(state) = "opp")
    => []<>AsksFor(sent, {"defend", "box", "guard"})
=============================================================================
