---------------------------- MODULE TAttackProofs ----------------------------
(***************************************************************************)
(* Proofs about TAttack for every robot and every set of beliefs: its type *)
(* invariant, what a spin follows, that a silent frame changes the state,  *)
(* and who is sent to a place in the swarm and for how long.               *)
(***************************************************************************)
EXTENDS TAttack, TLAPS

States == {"APPROACHING", "SPINNING_CW", "SPINNING_CCW", "CLOSE_TO_BALL",
           "FORM_SWARM", "FORM_SWARM_DEFENDER"}

SpinStates == {"SPINNING_CW", "SPINNING_CCW"}

\* The frame before a spin: one that spun, or one that saw the robot across the
\* ball and left it alone.
SpinHasReason ==
  iState \in SpinStates => Spins(sent) \/ (sent = Silence /\ AcrossBall(state))

IInv == TypeOK /\ SwarmSparesPlayer /\ SpinHasReason

-----------------------------------------------------------------------------
(* Commands *)

\* A frame with one command asks for what that command asks for.
LEMMA AsksOne ==
  ASSUME NEW c, NEW roles
  PROVE  AsksFor(<<c>>, roles) <=> c.role \in roles
BY DEF AsksFor

\* A silent frame asks for nothing.
LEMMA AsksNone ==
  ASSUME NEW roles
  PROVE  ~AsksFor(Silence, roles)
BY DEF AsksFor, Silence

\* The commands of the cases, and why each is given.
LEMMA CommandType ==
  /\ \A r \in {"wait", "guard", "box", "ball", "swarm", "ahead"} :
       GoToPoint(r) \in Command /\ GoToPoint(r).role = r
  /\ \A r \in {"cw", "ccw"} : Do("Spin", r) \in Command /\ Do("Spin", r).role = r
BY DEF GoToPoint, Do, Command

\* A robot ahead of the one nearest to the ball, or behind it, is another one.
LEMMA PlaceIsBehindMate ==
  ASSUME NEW s \in Beliefs, DefenderHasPlace(s) \/ SwarmHasPlace(s)
  PROVE  botID # s.ourNear
<1>1. s \in Belief /\ botID \in Bots
  BY TacticAssumption
<1>2. Self(s).x \in Int
  BY <1>1 DEF Belief, Point, Self
<1>3. Self(s).x > Mate(s).x \/ Self(s).x < Mate(s).x
  BY DEF DefenderHasPlace, SwarmHasPlace
<1> QED
  BY <1>2, <1>3 DEF Self, Mate

\* FORM_SWARM has a place only where the case it runs on into has none.
LEMMA PlacesExclude ==
  ASSUME NEW s \in Beliefs, SwarmHasPlace(s)
  PROVE  ~DefenderHasPlace(s)
<1>1. s \in Belief /\ botID \in Bots
  BY TacticAssumption
<1>2. s.ourNear \in Bots
  BY <1>1 DEF Belief
<1>3. Self(s).x \in Int /\ Mate(s).x \in Int
  BY <1>1, <1>2 DEF Belief, Point, Self, Mate
<1>4. Self(s).x < Mate(s).x
  BY DEF SwarmHasPlace
<1>5. ~(Self(s).x > Mate(s).x)
  BY <1>3, <1>4
<1> QED
  BY <1>5 DEF DefenderHasPlace

-----------------------------------------------------------------------------
(* What a frame does *)

\* The shape of every frame: it is silent and changes the state, or sends one
\* command.
Silent == sent' = Silence /\ iState' \in States \ {iState}

Sends(s) ==
  /\ iState' \in States \ SpinStates
  /\ \E c \in Command :
       /\ sent' = <<c>>
       /\ c.role \notin {"cw", "ccw"}
       /\ c.role = "swarm" => botID # s.ourNear

\* The other frames: those that start or go on with a spin.
FrameInv(s) ==
  \/ Silent /\ (iState' \in SpinStates => AcrossBall(s))
  \/ Sends(s)
  \/ /\ iState \in SpinStates /\ iState' = iState /\ ~FarFromBall(s)
     /\ \E r \in {"cw", "ccw"} : sent' = <<Do("Spin", r)>>

\* What a frame that starts in FORM_SWARM comes to.
SwarmEnds == iState = "FORM_SWARM" => iState' # "FORM_SWARM" /\ Len(sent') <= 1

\* Every case of execute has that shape, FORM_SWARM with the case it runs on into.
LEMMA FrameEffect ==
  ASSUME NEW s \in Beliefs, Execute(s), iState \in States
  PROVE  FrameInv(s) /\ SwarmEnds
<1> USE DEF SwarmEnds
<1>1. CASE Approaching(s)
  <2>1. iState = "APPROACHING"
    BY <1>1 DEF Approaching
  <2>2. CASE \E st \in {"FORM_SWARM", "FORM_SWARM_DEFENDER", "CLOSE_TO_BALL"} : SwitchTo(st)
    BY <2>1, <2>2 DEF SwitchTo, FrameInv, Silent, States, SpinStates
  <2>3. CASE Send(GoToPoint(ApproachTarget(s)))
    <3>1. ApproachTarget(s) \in {"wait", "guard", "box", "ball"}
      BY DEF ApproachTarget
    <3> QED
      BY <2>1, <2>3, <3>1, CommandType DEF Send, FrameInv, Sends, States, SpinStates
  <2> QED
    BY <1>1, <2>2, <2>3 DEF Approaching
<1>2. CASE Spinning(s)
  <2>1. iState \in SpinStates
    BY <1>2 DEF Spinning, SpinStates
  <2>2. CASE SwitchTo("APPROACHING")
    BY <2>1, <2>2 DEF SwitchTo, FrameInv, Silent, States, SpinStates
  <2>3. CASE ~FarFromBall(s) /\ Send(Do("Spin", IF iState = "SPINNING_CW" THEN "cw" ELSE "ccw"))
    BY <2>1, <2>3 DEF Send, FrameInv, SpinStates
  <2> QED
    BY <1>2, <2>2, <2>3 DEF Spinning
<1>3. CASE Close(s)
  <2>1. iState = "CLOSE_TO_BALL"
    BY <1>3 DEF Close
  <2>2. CASE /\ AcrossBall(s)
             /\ SwitchTo(IF s.ball.y > 0 THEN "SPINNING_CW" ELSE "SPINNING_CCW")
    BY <2>1, <2>2 DEF SwitchTo, FrameInv, Silent, States
  <2>3. CASE /\ sent' = <<GoToPoint("ahead")>>
             /\ iState' \in {"APPROACHING", "CLOSE_TO_BALL"}
    BY <2>1, <2>3, CommandType DEF FrameInv, Sends, States, SpinStates
  <2> QED
    BY <1>3, <2>2, <2>3 DEF Close
<1>4. CASE Swarm(s)
  <2>1. iState = "FORM_SWARM"
    BY <1>4 DEF Swarm
  <2>2. CASE SwarmHasPlace(s) /\ DefenderAfter(s, <<GoToPoint("swarm")>>)
    <3>1. iState' = "APPROACHING" /\ sent' = <<GoToPoint("swarm")>>
      BY <2>2, PlacesExclude DEF DefenderAfter
    <3>2. FrameInv(s)
      BY <2>2, <3>1, CommandType, PlaceIsBehindMate
         DEF FrameInv, Sends, States, SpinStates
    <3>3. SwarmEnds
      BY <3>1
    <3> QED
      BY <3>2, <3>3
  <2>3. CASE SwitchTo("CLOSE_TO_BALL") \/ SwitchTo("APPROACHING")
    BY <2>1, <2>3 DEF SwitchTo, FrameInv, Silent, Silence, States, SpinStates
  <2> QED
    BY <1>4, <2>2, <2>3 DEF Swarm
<1>5. CASE SwarmDefender(s)
  <2>1. iState = "FORM_SWARM_DEFENDER" /\ DefenderAfter(s, Silence)
    BY <1>5 DEF SwarmDefender
  <2>2. CASE DefenderHasPlace(s) /\ Send(GoToPoint("swarm"))
    BY <2>1, <2>2, CommandType, PlaceIsBehindMate
       DEF Send, FrameInv, Sends, States, SpinStates
  <2>3. CASE SwitchTo("APPROACHING")
    BY <2>1, <2>3 DEF SwitchTo, FrameInv, Silent, States, SpinStates
  <2> QED
    BY <2>1, <2>2, <2>3 DEF DefenderAfter, Send, SwitchTo, Silence
<1> QED
  BY <1>1, <1>2, <1>3, <1>4, <1>5 DEF Execute

-----------------------------------------------------------------------------
(* The invariant *)

\* The tactic starts by approaching, with no command sent.
LEMMA InitInv == Init => IInv
BY AsksNone DEF Init, IInv, TypeOK, SwarmSparesPlayer, SpinHasReason, SpinStates

\* Every frame, from any belief to any other, preserves the invariant.
LEMMA NextInv == IInv /\ [Next]_vars => IInv'
<1> SUFFICES ASSUME IInv, [Next]_vars
             PROVE  IInv'
  OBVIOUS
<1>1. CASE Next
  <2>1. state' \in Beliefs /\ Execute(state') /\ counter' \in {0, 1}
    BY <1>1 DEF Next, Tick, IInv, TypeOK
  <2>2. FrameInv(state')
    BY <2>1, FrameEffect DEF IInv, TypeOK, States
  <2>3. CASE Silent /\ (iState' \in SpinStates => AcrossBall(state'))
    BY <2>1, <2>3, AsksNone
       DEF IInv, TypeOK, SwarmSparesPlayer, SpinHasReason, Silent, States
  <2>4. CASE Sends(state')
    <3>1. PICK c \in Command : /\ sent' = <<c>>
                               /\ c.role = "swarm" => botID # state'.ourNear
      BY <2>4 DEF Sends
    <3>2. SwarmSparesPlayer'
      BY <3>1, AsksOne DEF SwarmSparesPlayer
    <3>3. TypeOK' /\ SpinHasReason'
      BY <2>1, <2>4, <3>1 DEF Sends, TypeOK, SpinHasReason, States
    <3> QED
      BY <3>2, <3>3 DEF IInv
  <2>5. ASSUME iState \in SpinStates, iState' = iState,
               NEW r \in {"cw", "ccw"}, sent' = <<Do("Spin", r)>>
        PROVE  IInv'
    <3>1. Do("Spin", r) \in Command /\ Do("Spin", r).role = r
      BY CommandType
    <3>2. SwarmSparesPlayer' /\ Spins(sent')
      BY <2>5, <3>1, AsksOne DEF SwarmSparesPlayer, Spins
    <3>3. TypeOK' /\ SpinHasReason'
      BY <2>1, <2>5, <3>1, <3>2 DEF IInv, TypeOK, SpinHasReason
    <3> QED
      BY <3>2, <3>3 DEF IInv
  <2> QED
    BY <2>2, <2>3, <2>4, <2>5 DEF FrameInv
<1>2. CASE UNCHANGED vars
  BY <1>2 DEF vars, IInv, TypeOK, SwarmSparesPlayer, SpinHasReason, AcrossBall
<1> QED
  BY <1>1, <1>2

\* The invariant holds in every frame.
LEMMA Correct == Spec => []IInv
BY InitInv, NextInv, PTL DEF Spec

-----------------------------------------------------------------------------
(* The theorems *)

\* In every frame the tactic is in one of its six states and sends at most one
\* command.
THEOREM TypeCorrect == Spec => []TypeOK
<1>1. IInv => TypeOK
  BY DEF IInv
<1> QED
  BY <1>1, Correct, PTL

\* The robot nearest to the ball is never sent behind itself.
THEOREM SwarmCorrect == Spec => []SwarmSparesPlayer
<1>1. IInv => SwarmSparesPlayer
  BY DEF IInv
<1> QED
  BY <1>1, Correct, PTL

\* A spin follows a frame that spun or saw the robot across the ball, and is
\* commanded only with the ball in reach.
THEOREM SpinCorrect == Spec => SpinFollowsAcross
<1>1. IInv /\ [Next]_vars =>
        [Spins(sent') => /\ ~FarFromBall(state')
                         /\ Spins(sent) \/ (sent = Silence /\ AcrossBall(state))]_vars
  <2> SUFFICES ASSUME IInv, Next, Spins(sent')
               PROVE  /\ ~FarFromBall(state')
                      /\ Spins(sent) \/ (sent = Silence /\ AcrossBall(state))
    OBVIOUS
  <2>1. FrameInv(state')
    BY FrameEffect DEF Next, IInv, TypeOK, States
  <2>2. ~Silent /\ ~Sends(state')
    BY AsksNone, AsksOne DEF Spins, Silent, Sends
  <2> QED
    BY <2>1, <2>2 DEF FrameInv, IInv, SpinHasReason
<1> QED
  BY <1>1, Correct, PTL DEF Spec, SpinFollowsAcross

\* A frame that leaves the wheels as they are changes the state.
THEOREM SilenceCorrect == Spec => SilentFrameSwitches
<1>1. IInv /\ [Next]_vars => [sent' = Silence => iState' # iState]_vars
  <2> SUFFICES ASSUME IInv, Next, sent' = Silence
               PROVE  iState' # iState
    OBVIOUS
  <2>1. FrameInv(state')
    BY FrameEffect DEF Next, IInv, TypeOK, States
  <2> QED
    BY <2>1 DEF FrameInv, Silent, Sends, Silence
<1> QED
  BY <1>1, Correct, PTL DEF Spec, SilentFrameSwitches

\* FORM_SWARM is left in the frame that acts on it, which sends the robot to one
\* place at most although it runs through two cases: they exclude each other.
THEOREM SwarmFrameCorrect == Spec => SwarmIsOneFrame
<1>1. IInv /\ [Next]_vars =>
        [iState = "FORM_SWARM" => iState' # "FORM_SWARM" /\ Len(sent') <= 1]_vars
  BY FrameEffect DEF Next, IInv, TypeOK, States, SwarmEnds
<1> QED
  BY <1>1, Correct, PTL DEF Spec, SwarmIsOneFrame
=============================================================================
