-------------------------- MODULE TMidFieldProofs --------------------------
(***************************************************************************)
(* Proofs about TMidField for every robot and every set of beliefs: its    *)
(* type invariant, that a command fits the ball it is sent for, and that a *)
(* frame either commands the robot or changes state.                       *)
(***************************************************************************)
EXTENDS TMidField, TLAPS

-----------------------------------------------------------------------------
(* Commands *)

\* The commands of the cases are commands.
LEMMA CommandType ==
  /\ \A r \in {"ball", "line", "box", "guard"} : GoToPoint(r) \in Command
  /\ Do("DefendPoint", "defend") \in Command
BY DEF GoToPoint, Do, Command

\* A frame with one command asks for what that command asks for.
LEMMA AsksOne ==
  ASSUME NEW c, NEW roles
  PROVE  AsksFor(<<c>>, roles) <=> c.role \in roles
BY DEF AsksFor

\* A silent frame asks for nothing.
LEMMA AsksNone ==
  ASSUME NEW roles
  PROVE  ~AsksFor(Silence, roles)
BY DEF AsksFor, Silence

\* What DEFENDING sends is one of its three commands.
LEMMA DefenceRole ==
  ASSUME NEW s
  PROVE  /\ Defence(s) \in Command
         /\ Defence(s).role \in {"defend", "box", "guard"}
<1>1. Defence(s) \in {GoToPoint("guard"), GoToPoint("box"), Do("DefendPoint", "defend")}
  BY DEF Defence
<1> QED
  BY <1>1, CommandType DEF GoToPoint, Do

-----------------------------------------------------------------------------
(* What a frame does *)

\* A frame switches to another state without a command, or stays in its state
\* and sends one command that fits the belief it was chosen from.
LEMMA FrameEffect ==
  ASSUME NEW s \in Beliefs, Execute(s),
         iState \in {"DEFENDING", "MIDFIELDING", "ATTACKING"}
  PROVE  \/ /\ iState' \in {"DEFENDING", "MIDFIELDING", "ATTACKING"} \ {iState}
            /\ sent' = Silence
         \/ /\ iState' = iState
            /\ \E c \in Command :
                 /\ sent' = <<c>>
                 /\ c.role \in {"defend", "box", "guard"} => s.ball.x <= 0
                 /\ c.role \in {"ball", "line"} => s.ball.x >= 0
                 /\ c.role = "ball" =>
                      ~(OursClose(s) /\ s.ball.x > 0) /\ ~InOppBox(Self(s))
<1>1. CASE Attacking(s)
  <2>1. iState = "ATTACKING"
    BY <1>1 DEF Attacking
  <2>2. CASE SwitchTo("DEFENDING") \/ SwitchTo("MIDFIELDING")
    BY <2>1, <2>2 DEF SwitchTo
  <2>3. CASE /\ s.ball.x >= 0
             /\ ~(OursClose(s) /\ s.ball.x > 0) /\ ~InOppBox(Self(s))
             /\ Send(GoToPoint("ball"))
    <3>1. GoToPoint("ball") \in Command /\ GoToPoint("ball").role = "ball"
      BY CommandType DEF GoToPoint, Do
    <3> QED
      BY <2>3, <3>1 DEF Send
  <2> QED
    BY <1>1, <2>2, <2>3 DEF Attacking
<1>2. CASE Defending(s)
  <2>1. iState = "DEFENDING"
    BY <1>2 DEF Defending
  <2>2. CASE SwitchTo("ATTACKING") \/ SwitchTo("MIDFIELDING")
    BY <2>1, <2>2 DEF SwitchTo
  <2>3. CASE s.ball.x <= 0 /\ Send(Defence(s))
    <3>1. Defence(s).role \notin {"ball", "line"}
      BY DefenceRole
    <3> QED
      BY <2>3, <3>1, DefenceRole DEF Send
  <2> QED
    BY <1>2, <2>2, <2>3 DEF Defending
<1>3. CASE Midfielding(s)
  <2>1. iState = "MIDFIELDING"
    BY <1>3 DEF Midfielding
  <2>2. CASE SwitchTo("DEFENDING") \/ SwitchTo("ATTACKING")
    BY <2>1, <2>2 DEF SwitchTo
  <2>3. CASE s.ball.x >= 0 /\ Send(GoToPoint("line"))
    <3>1. GoToPoint("line") \in Command /\ GoToPoint("line").role = "line"
      BY CommandType DEF GoToPoint, Do
    <3> QED
      BY <2>3, <3>1 DEF Send
  <2> QED
    BY <1>3, <2>2, <2>3 DEF Midfielding
<1> QED
  BY <1>1, <1>2, <1>3 DEF Execute

-----------------------------------------------------------------------------
(* The type invariant *)

\* In every frame the tactic is in one of its three states and sends at most
\* one command.
THEOREM TypeCorrect == Spec => []TypeOK
<1>1. Init => TypeOK
  BY DEF Init, TypeOK
<1>2. TypeOK /\ [Next]_vars => TypeOK'
  <2> SUFFICES ASSUME TypeOK, [Next]_vars
               PROVE  TypeOK'
    OBVIOUS
  <2>1. CASE Next
    <3>1. state' \in Beliefs /\ Execute(state') /\ counter' = 1 - counter
      BY <2>1 DEF Next, Tick
    <3>2. /\ iState' \in {"DEFENDING", "MIDFIELDING", "ATTACKING"}
          /\ sent' = Silence \/ \E c \in Command : sent' = <<c>>
      BY <3>1, FrameEffect DEF TypeOK
    <3>3. counter' \in {0, 1}
      BY <3>1 DEF TypeOK
    <3> QED
      BY <3>1, <3>2, <3>3 DEF TypeOK
  <2>2. CASE UNCHANGED vars
    BY <2>2 DEF vars, TypeOK
  <2> QED
    BY <2>1, <2>2
<1> QED
  BY <1>1, <1>2, PTL DEF Spec

-----------------------------------------------------------------------------
(* Commands fit the ball *)

\* A robot is never told to defend with the ball in their half, nor to wait on
\* the line or to attack with the ball in ours, whatever state earlier frames
\* left the tactic in.
THEOREM CommandCorrect == Spec => []CommandFitsBall
<1>1. Init => CommandFitsBall
  BY AsksNone DEF Init, CommandFitsBall
<1>2. TypeOK /\ CommandFitsBall /\ [Next]_vars => CommandFitsBall'
  <2> SUFFICES ASSUME TypeOK, CommandFitsBall, [Next]_vars
               PROVE  CommandFitsBall'
    OBVIOUS
  <2>1. CASE Next
    <3>1. state' \in Beliefs /\ Execute(state')
      BY <2>1 DEF Next
    <3>2. CASE sent' = Silence
      BY <3>2, AsksNone DEF CommandFitsBall
    <3>3. ASSUME NEW c \in Command, sent' = <<c>>,
                 c.role \in {"defend", "box", "guard"} => state'.ball.x <= 0,
                 c.role \in {"ball", "line"} => state'.ball.x >= 0,
                 c.role = "ball" => /\ ~(OursClose(state') /\ state'.ball.x > 0)
                                    /\ ~InOppBox(Self(state'))
          PROVE  CommandFitsBall'
      BY <3>3, AsksOne DEF CommandFitsBall
    <3> QED
      BY <3>1, <3>2, <3>3, FrameEffect DEF TypeOK
  <2>2. CASE UNCHANGED vars
    BY <2>2 DEF vars, CommandFitsBall
  <2> QED
    BY <2>1, <2>2
<1> QED
  BY <1>1, <1>2, TypeCorrect, PTL DEF Spec

-----------------------------------------------------------------------------
(* Silent frames *)

\* A frame leaves the wheels as they are exactly if it changes the state.
THEOREM SilenceCorrect == Spec => SilentFrameSwitches
<1>1. TypeOK /\ [Next]_vars => [(sent' = Silence) <=> (iState' # iState)]_vars
  <2> SUFFICES ASSUME TypeOK, Next
               PROVE  (sent' = Silence) <=> (iState' # iState)
    OBVIOUS
  <2>1. state' \in Beliefs /\ Execute(state')
    BY DEF Next
  <2>2. \A c : <<c>> # Silence
    BY DEF Silence
  <2> QED
    BY <2>1, <2>2, FrameEffect DEF TypeOK
<1> QED
  BY <1>1, TypeCorrect, PTL DEF Spec, SilentFrameSwitches
=============================================================================
