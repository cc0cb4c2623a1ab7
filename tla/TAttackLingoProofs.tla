------------------------- MODULE TAttackLingoProofs -------------------------
(***************************************************************************)
(* Proofs about TAttackLingo for every robot and every set of beliefs: its *)
(* type invariant, who is sent to a place in the swarm, and which commands *)
(* of a frame a later one may overrule.                                    *)
(***************************************************************************)
EXTENDS TAttackLingo, TLAPS

States == {"ATTACK_LINGO", "FORM_SWARM"}

\* The commands of ATTACK_LINGO, and the one of FORM_SWARM.
Ways == {GoToPoint("guard"), GoToPoint("box"), GoToPoint("wait"), GoToPoint("ball")}

Place == GoToPoint("swarm")

\* The commands of DEFEND, both for a ball ahead of the robot.
Shots == {Do("GoToPointDW", "ball"), Do("DefendPoint", "defend")}

\* All that a frame may send: a way to the ball or not, a place in the swarm
\* or not, and a shot only after a place.
FrameInv(s) ==
  /\ iState' \in States
  /\ \/ sent' = <<>>
     \/ \E w \in Ways : sent' = <<w>>
     \/ /\ InStrip(s.ball) /\ AheadOfMate(s)
        /\ \/ sent' = <<Place>>
           \/ \E w \in Ways : sent' = <<w, Place>>
           \/ /\ s.ball.x > Self(s).x
              /\ \/ \E c \in Shots : sent' = <<Place, c>>
                 \/ \E w \in Ways, c \in Shots : sent' = <<w, Place, c>>

IInv == TypeOK /\ SwarmSparesPlayer /\ OverruledWithReason

-----------------------------------------------------------------------------
(* Commands *)

\* The commands are commands, and for what reason each is given.
LEMMA CommandType ==
  /\ \A w \in Ways : w \in Command /\ w.role \in {"guard", "box", "wait", "ball"}
  /\ Place \in Command /\ Place.role = "swarm"
  /\ \A c \in Shots : c \in Command /\ c.role \in {"ball", "defend"}
BY DEF Ways, Place, Shots, GoToPoint, Do, Command

\* The last command of a frame with up to three.
LEMMA FinalUpToThree ==
  /\ \A a : Final(<<a>>) = a /\ Len(<<a>>) = 1
  /\ \A a, b : Final(<<a, b>>) = b /\ Len(<<a, b>>) = 2
  /\ \A a, b, c : Final(<<a, b, c>>) = c /\ Len(<<a, b, c>>) = 3
BY DEF Final

\* What frames with up to three commands ask for.
LEMMA AsksUpToThree ==
  ASSUME NEW roles
  PROVE  /\ ~AsksFor(<<>>, roles)
         /\ \A a : AsksFor(<<a>>, roles) <=> a.role \in roles
         /\ \A a, b : AsksFor(<<a, b>>, roles) <=> a.role \in roles \/ b.role \in roles
         /\ \A a, b, c : AsksFor(<<a, b, c>>, roles) <=>
                           a.role \in roles \/ b.role \in roles \/ c.role \in roles
BY DEF AsksFor

\* A command put after up to two others.
LEMMA AppendUpToThree ==
  ASSUME NEW a \in Command, NEW b \in Command, NEW c \in Command
  PROVE  /\ Append(<<>>, a) = <<a>>
         /\ Append(<<a>>, b) = <<a, b>>
         /\ Append(<<a, b>>, c) = <<a, b, c>>
<1>1. Append(<<a>>, b) = <<a, b>>
  <2> DEFINE p == Append(<<a>>, b)
  <2>1. p \in Seq(Command) /\ Len(p) = 2 /\ \A i \in 1 .. 2 : p[i] = <<a, b>>[i]
    OBVIOUS
  <2>2. p = [i \in 1 .. 2 |-> p[i]] /\ <<a, b>> = [i \in 1 .. 2 |-> <<a, b>>[i]]
    BY <2>1
  <2> QED
    BY <2>1, <2>2
<1>2. Append(<<a, b>>, c) = <<a, b, c>>
  <2> DEFINE p == Append(<<a, b>>, c)
  <2>1. p \in Seq(Command) /\ Len(p) = 3 /\ \A i \in 1 .. 3 : p[i] = <<a, b, c>>[i]
    OBVIOUS
  <2>2. p = [i \in 1 .. 3 |-> p[i]] /\ <<a, b, c>> = [i \in 1 .. 3 |-> <<a, b, c>>[i]]
    BY <2>1
  <2> QED
    BY <2>1, <2>2
<1> QED
  BY <1>1, <1>2

\* A robot ahead of the one nearest to the ball is another one.
LEMMA MateIsAnother ==
  ASSUME NEW s \in Beliefs, AheadOfMate(s)
  PROVE  botID # s.ourNear
<1>1. s \in Belief /\ botID \in Bots
  BY TacticAssumption
<1>2. Self(s).x \in Int
  BY <1>1 DEF Belief, Point, Self
<1> QED
  BY <1>2 DEF AheadOfMate, Self, Mate

-----------------------------------------------------------------------------
(* What a frame does *)

\* What DEFEND adds to a place taken, with or without a way before it.
LEMMA DefendEffect ==
  ASSUME NEW s, iState \in States, HasPlace(s), NEW commands,
         commands = <<Place>> \/ \E w \in Ways : commands = <<w, Place>>,
         DefendAfter(s, commands)
  PROVE  FrameInv(s)
<1>1. InStrip(s.ball) /\ AheadOfMate(s)
  BY DEF HasPlace
<1>2. CASE iState' \in States /\ sent' = commands
  BY <1>1, <1>2 DEF FrameInv
<1>3. ASSUME NEW c \in Shots, s.ball.x > Self(s).x, iState' = iState,
             sent' = Append(commands, c)
      PROVE  FrameInv(s)
  <2>1. CASE commands = <<Place>>
    <3>1. sent' = <<Place, c>>
      BY <1>3, <2>1, CommandType, AppendUpToThree
    <3> QED
      BY <1>1, <1>3, <3>1 DEF FrameInv
  <2>2. CASE \E w \in Ways : commands = <<w, Place>>
    <3>1. PICK w \in Ways : commands = <<w, Place>>
      BY <2>2
    <3>2. sent' = <<w, Place, c>>
      BY <1>3, <3>1, CommandType, AppendUpToThree
    <3> QED
      BY <1>1, <1>3, <3>2 DEF FrameInv
  <2> QED
    BY <2>1, <2>2
<1> QED
  BY <1>2, <1>3 DEF DefendAfter, BallAhead, BallComes, States, Shots

\* What FORM_SWARM and the cases after it make of a way to the ball or of none.
LEMMA SwarmEffect ==
  ASSUME NEW s, iState \in States, NEW commands,
         commands = <<>> \/ \E w \in Ways : commands = <<w>>,
         SwarmAfter(s, commands)
  PROVE  FrameInv(s)
<1>1. CASE HasPlace(s) /\ DefendAfter(s, Append(commands, Place))
  <2>1. Append(commands, Place) = <<Place>>
          \/ \E w \in Ways : Append(commands, Place) = <<w, Place>>
    BY CommandType, AppendUpToThree
  <2> QED
    BY <1>1, <2>1, DefendEffect
<1>2. CASE iState' = "ATTACK_LINGO" /\ sent' = commands
  BY <1>2 DEF FrameInv, States
<1> QED
  BY <1>1, <1>2 DEF SwarmAfter, Place

\* Every frame of either state.
LEMMA FrameEffect ==
  ASSUME NEW s, iState \in States, Execute(s)
  PROVE  FrameInv(s)
<1>1. CASE Forms(s) /\ SwitchTo("FORM_SWARM")
  BY <1>1 DEF SwitchTo, FrameInv, States, Silence
<1>2. CASE SwarmAfter(s, <<Approach(s)>>)
  <2>1. Approach(s) \in Ways
    BY DEF Approach, Ways
  <2> QED
    BY <1>2, <2>1, SwarmEffect
<1>3. CASE SwarmAfter(s, Silence)
  BY <1>3, SwarmEffect DEF Silence
<1> QED
  BY <1>1, <1>2, <1>3 DEF Execute, Attack, Swarm

-----------------------------------------------------------------------------
(* The invariant *)

\* The invariant for the commands q of a frame that starts from s.
Fits(s, q) ==
  /\ q \in Seq(Command) /\ Len(q) <= 3
  /\ AsksFor(q, {"swarm"}) => botID # s.ourNear
  /\ AsksFor(q, {"guard", "box", "wait"}) /\ Len(q) > 1 => InStrip(s.ball) /\ AheadOfMate(s)
  /\ AsksFor(q, {"swarm"}) /\ Final(q).role # "swarm" => s.ball.x > Self(s).x

\* A frame without a place in the swarm has one command at most.
LEMMA WayFits ==
  ASSUME NEW s
  PROVE  Fits(s, <<>>) /\ \A w \in Ways : Fits(s, <<w>>)
<1>1. Fits(s, <<>>)
  BY AsksUpToThree DEF Fits
<1>2. ASSUME NEW w \in Ways PROVE Fits(s, <<w>>)
  <2>1. w \in Command /\ w.role # "swarm"
    BY CommandType
  <2>2. <<w>> \in Seq(Command) /\ Len(<<w>>) = 1
    BY <2>1
  <2>3. ~AsksFor(<<w>>, {"swarm"})
    BY <2>1 DEF AsksFor
  <2> QED
    BY <2>2, <2>3 DEF Fits
<1> QED
  BY <1>1, <1>2

\* A frame with one sends it to a robot ahead of its mate at the wall.
LEMMA PlaceFits ==
  ASSUME NEW s \in Beliefs, InStrip(s.ball), AheadOfMate(s)
  PROVE  Fits(s, <<Place>>) /\ \A w \in Ways : Fits(s, <<w, Place>>)
<1>1. botID # s.ourNear
  BY MateIsAnother
<1>2. Fits(s, <<Place>>)
  BY <1>1, CommandType, FinalUpToThree, AsksUpToThree DEF Fits
<1>3. ASSUME NEW w \in Ways PROVE Fits(s, <<w, Place>>)
  BY <1>1, CommandType, FinalUpToThree, AsksUpToThree DEF Fits
<1> QED
  BY <1>2, <1>3

\* A shot overrules it only with the ball ahead of the robot.
LEMMA ShotFits ==
  ASSUME NEW s \in Beliefs, InStrip(s.ball), AheadOfMate(s), s.ball.x > Self(s).x,
         NEW c \in Shots
  PROVE  Fits(s, <<Place, c>>) /\ \A w \in Ways : Fits(s, <<w, Place, c>>)
<1>1. botID # s.ourNear
  BY MateIsAnother
<1>2. Fits(s, <<Place, c>>)
  BY <1>1, CommandType, FinalUpToThree, AsksUpToThree DEF Fits
<1>3. ASSUME NEW w \in Ways PROVE Fits(s, <<w, Place, c>>)
  BY <1>1, CommandType, FinalUpToThree, AsksUpToThree DEF Fits
<1> QED
  BY <1>2, <1>3

\* What a frame sends satisfies the invariant, whatever the last one left.
LEMMA FrameKeeps ==
  ASSUME NEW s \in Beliefs, FrameInv(s)
  PROVE  Fits(s, sent') /\ iState' \in States
BY WayFits, PlaceFits, ShotFits DEF FrameInv

\* The invariant says of the last frame what Fits says of its commands.
LEMMA FitsIsInv ==
  IInv <=> /\ state \in Beliefs /\ iState \in States /\ counter \in {0, 1}
           /\ Fits(state, sent)
BY DEF IInv, TypeOK, SwarmSparesPlayer, OverruledWithReason, Fits, States

\* The tactic starts by attacking, with no command sent.
LEMMA InitInv == Init => IInv
BY WayFits, FitsIsInv DEF Init, Silence, States

\* Every frame, from any belief to any other, preserves the invariant.
LEMMA NextInv == IInv /\ [Next]_vars => IInv'
<1> SUFFICES ASSUME IInv, [Next]_vars
             PROVE  IInv'
  OBVIOUS
<1>1. CASE Next
  <2>1. state' \in Beliefs /\ counter' \in {0, 1}
    BY <1>1 DEF Next, Tick, IInv, TypeOK
  <2>2. FrameInv(state')
    BY <1>1, FrameEffect DEF Next, IInv, TypeOK, States
  <2>3. Fits(state', sent') /\ iState' \in States
    BY <2>1, <2>2, FrameKeeps
  <2> QED
    BY <2>1, <2>3 DEF Fits, IInv, TypeOK, SwarmSparesPlayer, OverruledWithReason, States, Final
<1>2. CASE UNCHANGED vars
  BY <1>2 DEF vars, IInv, TypeOK, SwarmSparesPlayer, OverruledWithReason, Final
<1> QED
  BY <1>1, <1>2

\* The invariant holds in every frame.
LEMMA Correct == Spec => []IInv
BY InitInv, NextInv, PTL DEF Spec

-----------------------------------------------------------------------------
(* The theorems *)

\* DEFEND is entered by no frame, and no frame sends more than three commands.
THEOREM TypeCorrect == Spec => []TypeOK
<1>1. IInv => TypeOK
  BY DEF IInv
<1> QED
  BY <1>1, Correct, PTL

\* The robot nearest to the ball is never sent behind itself.
THEOREM SwarmCorrect == Spec => []SwarmSparesPlayer
<1>1. IInv => SwarmSparesPlayer
  BY DEF IInv
<1> QED
  BY <1>1, Correct, PTL

\* The guard of the goalkeeper is overruled only by a robot ahead of a team mate
\* at the wall, and a place in the swarm only with the ball ahead of the robot.
THEOREM OverruledCorrect == Spec => []OverruledWithReason
<1>1. IInv => OverruledWithReason
  BY DEF IInv
<1> QED
  BY <1>1, Correct, PTL
=============================================================================
