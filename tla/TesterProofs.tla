---------------------------- MODULE TesterProofs ----------------------------
(***************************************************************************)
(* Proofs about Tester for every set of beliefs: its type invariant, that  *)
(* the midfield tactic only ever defends in a match, and that no robot is  *)
(* told to turn on the spot with the ball out of reach.  Each tactic keeps a state that is acted on only *)
(* in the frames in which the match picks the tactic, so the invariant     *)
(* says what state it may be left in, and what a frame may send to each    *)
(* robot whatever those states are.                                        *)
(***************************************************************************)
EXTENDS Tester, SequenceTheorems, TLAPS

AttackStates == {"APPROACHING", "SPINNING_CW", "SPINNING_CCW", "CLOSE_TO_BALL",
                 "FORM_SWARM", "FORM_SWARM_DEFENDER"}

\* The states the midfield tactic takes in a match.
MidStates == {"DEFENDING", "ATTACKING"}

LingoStates == {"ATTACK_LINGO", "FORM_SWARM"}

Skill == {"Stop", "GoToPoint", "Velocity", "TestSkill"}

Aim == {"none", "home", "cover", "chase", "speeds", "post", "guard", "box"}

Spins == {"cw", "ccw"}

\* A command that may be sent to robot b with belief s: a spin only with the
\* ball in reach, and the way to a line only to the goalkeeper.
Fit(s, b, c) ==
  /\ c \in Command
  /\ c.role \in Spins => InHittingReach(s, b)
  /\ c.role = "line" => b = 0

\* The same of all the commands of a frame.
Fits(s, b, q) ==
  /\ q \in Seq(Command) /\ Len(q) <= 4
  /\ \A i \in 1 .. Len(q) : Fit(s, b, q[i])

MembersInv ==
  /\ attack1 \in AttackStates /\ attack2 \in AttackStates /\ attack4 \in AttackStates
  /\ mid2 \in MidStates /\ mid4 \in MidStates
  /\ lingo2 \in LingoStates /\ lingo4 \in LingoStates
  /\ charge \in BOOLEAN /\ sID \in Skill /\ aim \in Aim /\ pPoint \in Point

AllFit ==
  /\ Fits(state, 0, sent0) /\ Fits(state, 1, sent1) /\ Fits(state, 2, sent2)
  /\ Fits(state, 3, sent3) /\ Fits(state, 4, sent4)

IInv == state \in Beliefs /\ counter \in {0, 1} /\ MembersInv /\ AllFit

-----------------------------------------------------------------------------
(* Commands *)

\* A silent frame, and those with one, two or three commands that may be sent.
LEMMA Few ==
  ASSUME NEW s, NEW b
  PROVE  /\ Fits(s, b, <<>>)
         /\ \A c : Fit(s, b, c) => Fits(s, b, <<c>>)
         /\ \A c, d : Fit(s, b, c) /\ Fit(s, b, d) => Fits(s, b, <<c, d>>)
<1>1. Fits(s, b, <<>>)
  BY DEF Fits
<1>2. ASSUME NEW c, Fit(s, b, c) PROVE Fits(s, b, <<c>>)
  <2>1. c \in Command
    BY <1>2 DEF Fit
  <2> QED
    BY <1>2, <2>1 DEF Fits
<1>3. ASSUME NEW c, NEW d, Fit(s, b, c), Fit(s, b, d) PROVE Fits(s, b, <<c, d>>)
  <2>1. c \in Command /\ d \in Command
    BY <1>3 DEF Fit
  <2> QED
    BY <1>3, <2>1 DEF Fits
<1> QED
  BY <1>1, <1>2, <1>3

\* Commands sent after others.
LEMMA Joined ==
  ASSUME NEW s, NEW b, NEW q, NEW r, Fits(s, b, q), Fits(s, b, r), Len(q) + Len(r) <= 4
  PROVE  Fits(s, b, q \o r) /\ Len(q \o r) = Len(q) + Len(r)
<1>1. q \in Seq(Command) /\ r \in Seq(Command)
  BY DEF Fits
<1>2. /\ q \o r \in Seq(Command) /\ Len(q \o r) = Len(q) + Len(r)
      /\ \A i \in 1 .. Len(q \o r) :
           (q \o r)[i] = IF i <= Len(q) THEN q[i] ELSE r[i - Len(q)]
  BY <1>1, ConcatProperties
<1>3. Len(q) \in Nat /\ Len(r) \in Nat
  BY <1>1
<1>4. ASSUME NEW i \in 1 .. Len(q \o r) PROVE Fit(s, b, (q \o r)[i])
  <2>1. CASE i <= Len(q)
    <3>1. i \in 1 .. Len(q) /\ (q \o r)[i] = q[i]
      BY <1>2, <1>3, <2>1
    <3> QED
      BY <3>1 DEF Fits
  <2>2. CASE ~(i <= Len(q))
    <3>1. i - Len(q) \in 1 .. Len(r) /\ (q \o r)[i] = r[i - Len(q)]
      BY <1>2, <1>3, <2>2
    <3> QED
      BY <3>1 DEF Fits
  <2> QED
    BY <2>1, <2>2
<1> QED
  BY <1>2, <1>4 DEF Fits

\* The same for a command appended.
LEMMA Appended ==
  ASSUME NEW s, NEW b, NEW q, NEW c, Fits(s, b, q), Fit(s, b, c), Len(q) <= 3
  PROVE  Fits(s, b, Append(q, c)) /\ Len(Append(q, c)) = Len(q) + 1
<1>1. q \in Seq(Command) /\ c \in Command
  BY DEF Fits, Fit
<1>2. /\ Append(q, c) \in Seq(Command) /\ Len(Append(q, c)) = Len(q) + 1
      /\ \A i \in 1 .. Len(q) : Append(q, c)[i] = q[i]
      /\ Append(q, c)[Len(q) + 1] = c
  BY <1>1, AppendProperties
<1>3. Len(q) \in Nat
  BY <1>1
<1>4. ASSUME NEW i \in 1 .. Len(Append(q, c)) PROVE Fit(s, b, Append(q, c)[i])
  <2>1. i \in 1 .. Len(q) \/ i = Len(q) + 1
    BY <1>2, <1>3
  <2> QED
    BY <1>2, <2>1 DEF Fits
<1> QED
  BY <1>2, <1>3, <1>4 DEF Fits

\* Every role that a robot is sent to a point for, but that of the line.
Places == {"ball", "box", "guard", "swarm", "wait", "post", "ahead", "home", "cover",
           "chase", "clear", "none", "defend", "speeds", "circle"}

Skills == {"Stop", "GoToPoint", "GoToPointDW", "DefendPoint", "Spin", "Velocity",
           "TestSkill"}

\* Which commands are fit for a robot.
LEMMA FitCommands ==
  ASSUME NEW s, NEW b
  PROVE  /\ \A k \in Skills, r \in Places : Fit(s, b, Do(k, r))
         /\ InHittingReach(s, b) => \A r \in Spins : Fit(s, b, Do("Spin", r))
         /\ b = 0 => Fit(s, b, Do("GoToPoint", "line"))
BY DEF Fit, Skills, Places, Spins, Do, Command

\* What is within the threshold of the ball can be hit by turning.
LEMMA NearIsInReach ==
  ASSUME NEW s \in Beliefs, NEW b \in Bots, ~Beyond(s.ball, s.home[b], BOT_BALL_THRESH)
  PROVE  InHittingReach(s, b)
<1>1. s \in Belief
  BY TesterAssumption
<1>2. /\ s.ball.x \in Int /\ s.ball.y \in Int
      /\ s.home[b].x \in Int /\ s.home[b].y \in Int
  BY <1>1 DEF Belief, Point
<1> DEFINE d == DistSq(s.ball, s.home[b])
<1>3. d \in Int
  BY <1>2 DEF DistSq
<1>4. ~(d > 300 * 300)
  BY DEF Beyond, BOT_BALL_THRESH
<1> HIDE DEF d
<1>5. d < 360 * 360
  BY <1>3, <1>4
<1>6. (6 * BOT_BALL_THRESH) \div 5 = 360
  BY DEF BOT_BALL_THRESH
<1> QED
  BY <1>5, <1>6 DEF InHittingReach, Within, d

\* At most one command, if there is a reason for it.
LEMMA Optional ==
  ASSUME NEW s, NEW b, NEW c, NEW reason, reason => Fit(s, b, c)
  PROVE  LET q == IF reason THEN <<c>> ELSE <<>>
         IN Fits(s, b, q) /\ Len(q) \in Nat /\ Len(q) <= 1
<1>1. CASE reason
  <2>1. Fits(s, b, <<c>>) /\ Len(<<c>>) = 1
    BY <1>1, Few
  <2> QED
    BY <1>1, <2>1
<1>2. CASE ~reason
  <2>1. Fits(s, b, <<>>) /\ Len(<<>>) = 0
    BY Few
  <2> QED
    BY <1>2, <2>1
<1> QED
  BY <1>1, <1>2

\* A command sent before up to three others.
LEMMA Preceded ==
  ASSUME NEW s, NEW b, NEW c, NEW q, Fit(s, b, c), Fits(s, b, q), Len(q) <= 3
  PROVE  Fits(s, b, <<c>> \o q) /\ Len(<<c>> \o q) = 1 + Len(q)
<1> DEFINE one == <<c>>
<1>1. Fits(s, b, one) /\ Len(one) = 1
  BY Few
<1>2. Fits(s, b, q) /\ Len(q) \in Nat
  BY DEF Fits
<1> HIDE DEF one
<1>3. Fits(s, b, one \o q) /\ Len(one \o q) = 1 + Len(q)
  <2>1. Len(one) + Len(q) <= 4
    BY <1>1, <1>2
  <2>2. Fits(s, b, one \o q)
    BY <1>1, <1>2, <2>1, Joined
  <2>3. Len(one \o q) = Len(one) + Len(q)
    BY <1>1, <1>2, ConcatProperties DEF Fits
  <2> QED
    BY <1>1, <2>2, <2>3
<1> QED
  BY <1>3 DEF one

-----------------------------------------------------------------------------
(* The frames of the robots that keep no state *)

\* The goalkeeper sends at most its line, a spin, a clearance and its line.
LEMMA KeeperFits ==
  ASSUME NEW s
  PROVE  Fits(s, 0, goalKeeping(s))
<1> DEFINE line == GoToPoint("line")
           spin == SpinAt(s.ball, s.home[0])
           clear == GoToPoint("clear")
           q1 == IF InHittingReach(s, 0) THEN <<spin>> ELSE <<>>
           q2 == IF OutOfArea(s) THEN <<line>> ELSE <<>>
           q3 == IF MayClear(s) THEN <<clear>> \o q2 ELSE <<>>
           first == <<line>> \o q1
<1>1. Fit(s, 0, line) /\ Fit(s, 0, clear) /\ Fit(s, 0, GoToPoint("post"))
  BY FitCommands DEF GoToPoint, Skills, Places
<1>2. InHittingReach(s, 0) => Fit(s, 0, spin)
  BY FitCommands DEF SpinAt, Spins
<1> HIDE DEF line, spin, clear
<1>3. Fits(s, 0, q1) /\ Len(q1) \in Nat /\ Len(q1) <= 1
  BY <1>2, Optional
<1>4. Fits(s, 0, q2) /\ Len(q2) \in Nat /\ Len(q2) <= 1
  BY <1>1, Optional
<1> HIDE DEF q1, q2
<1>5. Fits(s, 0, first) /\ Len(first) = 1 + Len(q1)
  BY <1>1, <1>3, Preceded
<1>6. Fits(s, 0, q3) /\ Len(q3) \in Nat /\ Len(q3) <= 2
  <2>1. CASE MayClear(s)
    <3>1. Fits(s, 0, <<clear>> \o q2) /\ Len(<<clear>> \o q2) = 1 + Len(q2)
      BY <1>1, <1>4, Preceded
    <3> QED
      BY <1>4, <2>1, <3>1
  <2>2. CASE ~MayClear(s)
    <3>1. Fits(s, 0, <<>>) /\ Len(<<>>) = 0
      BY Few
    <3> QED
      BY <2>2, <3>1
  <2> QED
    BY <2>1, <2>2
<1> HIDE DEF q3, first
<1>7. Fits(s, 0, first \o q3)
  <2>1. Len(first) + Len(q3) <= 4
    BY <1>3, <1>5, <1>6
  <2> QED
    BY <1>5, <1>6, <2>1, Joined
<1>8. CASE HoldsPost(s)
  <2>1. Fits(s, 0, <<>>) /\ Fits(s, 0, <<GoToPoint("post")>>)
    BY <1>1, Few
  <2> QED
    BY <1>8, <2>1 DEF goalKeeping, Silence
<1>9. CASE ~HoldsPost(s)
  <2>1. goalKeeping(s) = first \o q3
    BY <1>9 DEF goalKeeping, first, line, q1, q2, q3, spin, clear
  <2> QED
    BY <1>7, <2>1
<1> QED
  BY <1>8, <1>9

\* The receiver waits or spins.
LEMMA ReceiverFits ==
  ASSUME NEW s
  PROVE  Fits(s, 3, ReceiveBall(s, 3))
<1>1. Fit(s, 3, Wait) /\ (InHittingReach(s, 3) => Fit(s, 3, SpinAt(s.ball, s.home[3])))
  BY FitCommands DEF Wait, GoToPoint, SpinAt, Skills, Places, Spins
<1> QED
  BY <1>1, Few DEF ReceiveBall

\* A robot that circles the ball may spin after it.
LEMMA CirclerFits ==
  ASSUME NEW s, NEW b
  PROVE  Fits(s, b, testSkill(s, b))
<1> DEFINE circle == Do("Velocity", "circle")
           spin == SpinAt(s.ball, s.home[b])
           q == IF HitsFromBehind(s, b) THEN <<spin>> ELSE <<>>
<1>1. Fit(s, b, GoToPoint("ball")) /\ Fit(s, b, circle)
  BY FitCommands DEF GoToPoint, Skills, Places
<1>2. HitsFromBehind(s, b) => Fit(s, b, spin)
  BY FitCommands DEF SpinAt, HitsFromBehind, Spins
<1> HIDE DEF circle, spin
<1>3. Fits(s, b, q) /\ Len(q) \in Nat /\ Len(q) <= 1
  BY <1>2, Optional
<1> HIDE DEF q
<1>4. Fits(s, b, <<circle>> \o q)
  BY <1>1, <1>3, Preceded
<1>5. testSkill(s, b) = IF ComesTo(s, b) THEN <<GoToPoint("ball")>> ELSE <<circle>> \o q
  BY DEF testSkill, circle, q, spin
<1>6. Fits(s, b, <<GoToPoint("ball")>>)
  BY <1>1, Few
<1> QED
  BY <1>4, <1>5, <1>6

-----------------------------------------------------------------------------
(* The frames of the tactics *)

\* Robot 1 in the attack: whatever state the tactic was left in, it spins only
\* with the ball within the threshold of the robot.
LEMMA Attack1Frame ==
  ASSUME NEW s \in Beliefs, attack1 \in AttackStates, Attack1!Execute(s)
  PROVE  attack1' \in AttackStates /\ Fits(s, 1, sent1')
<1> USE DEF Attack1!SwitchTo, Attack1!Send, Attack1!Silence, Attack1!GoToPoint, Attack1!Do
<1>s. Fits(s, 1, <<>>)
  BY Few
<1>p. \A r \in Places : Fits(s, 1, <<Do("GoToPoint", r)>>)
  BY Few, FitCommands DEF Skills
<1>1. CASE Attack1!Approaching(s)
  <2>1. Attack1!ApproachTarget(s) \in Places
    BY DEF Attack1!ApproachTarget, Places
  <2> QED
    BY <1>1, <1>s, <1>p, <2>1 DEF Attack1!Approaching, AttackStates, Do
<1>2. CASE Attack1!Spinning(s)
  <2>1. CASE Attack1!SwitchTo("APPROACHING")
    BY <1>s, <2>1 DEF AttackStates
  <2>2. ASSUME ~Attack1!FarFromBall(s), NEW r \in Spins,
               attack1' = attack1, sent1' = <<Do("Spin", r)>>
        PROVE  attack1' \in AttackStates /\ Fits(s, 1, sent1')
    <3>1. InHittingReach(s, 1)
      BY <2>2, NearIsInReach
         DEF Attack1!FarFromBall, Attack1!Beyond, Attack1!DistSq, Attack1!Self,
             Attack1!BOT_BALL_THRESH, Beyond, DistSq, BOT_BALL_THRESH, Bots
    <3> QED
      BY <2>2, <3>1, Few, FitCommands
  <2> QED
    BY <1>2, <2>1, <2>2 DEF Attack1!Spinning, Spins, Do
<1>3. CASE Attack1!Close(s)
  BY <1>3, <1>s, <1>p DEF Attack1!Close, AttackStates, Places, Do
<1>d. ASSUME NEW q, Fits(s, 1, q), Len(q) <= 1, Attack1!DefenderAfter(s, q)
      PROVE  attack1' \in AttackStates /\ Fits(s, 1, sent1')
  <2> DEFINE place == Do("GoToPoint", "swarm")
  <2>1. Len(q) <= 3 /\ Fit(s, 1, place)
    BY <1>d, FitCommands DEF Fits, Skills, Places
  <2>2. Fits(s, 1, Append(q, place))
    BY <1>d, <2>1, Appended
  <2> QED
    BY <1>d, <2>2 DEF Attack1!DefenderAfter, AttackStates, Do
<1>4. CASE Attack1!Swarm(s)
  <2>1. CASE Attack1!DefenderAfter(s, <<Attack1!GoToPoint("swarm")>>)
    <3>1. Fits(s, 1, <<Attack1!GoToPoint("swarm")>>)
      BY <1>p DEF Places, Do
    <3>2. Len(<<Attack1!GoToPoint("swarm")>>) <= 1
      OBVIOUS
    <3> QED
      BY <1>d, <2>1, <3>1, <3>2
  <2>2. CASE Attack1!SwitchTo("CLOSE_TO_BALL") \/ Attack1!SwitchTo("APPROACHING")
    BY <1>s, <2>2 DEF AttackStates
  <2> QED
    BY <1>4, <2>1, <2>2 DEF Attack1!Swarm
<1>5. CASE Attack1!SwarmDefender(s)
  BY <1>5, <1>d, <1>s DEF Attack1!SwarmDefender, Attack1!Silence
<1> QED
  BY <1>1, <1>2, <1>3, <1>4, <1>5 DEF Attack1!Execute

\* Robot 2 in the attack: whatever state the tactic was left in, it spins only
\* with the ball within the threshold of the robot.
LEMMA Attack2Frame ==
  ASSUME NEW s \in Beliefs, attack2 \in AttackStates, Attack2!Execute(s)
  PROVE  attack2' \in AttackStates /\ Fits(s, 2, sent2')
<1> USE DEF Attack2!SwitchTo, Attack2!Send, Attack2!Silence, Attack2!GoToPoint, Attack2!Do
<1>s. Fits(s, 2, <<>>)
  BY Few
<1>p. \A r \in Places : Fits(s, 2, <<Do("GoToPoint", r)>>)
  BY Few, FitCommands DEF Skills
<1>1. CASE Attack2!Approaching(s)
  <2>1. Attack2!ApproachTarget(s) \in Places
    BY DEF Attack2!ApproachTarget, Places
  <2> QED
    BY <1>1, <1>s, <1>p, <2>1 DEF Attack2!Approaching, AttackStates, Do
<1>2. CASE Attack2!Spinning(s)
  <2>1. CASE Attack2!SwitchTo("APPROACHING")
    BY <1>s, <2>1 DEF AttackStates
  <2>2. ASSUME ~Attack2!FarFromBall(s), NEW r \in Spins,
               attack2' = attack2, sent2' = <<Do("Spin", r)>>
        PROVE  attack2' \in AttackStates /\ Fits(s, 2, sent2')
    <3>1. InHittingReach(s, 2)
      BY <2>2, NearIsInReach
         DEF Attack2!FarFromBall, Attack2!Beyond, Attack2!DistSq, Attack2!Self,
             Attack2!BOT_BALL_THRESH, Beyond, DistSq, BOT_BALL_THRESH, Bots
    <3> QED
      BY <2>2, <3>1, Few, FitCommands
  <2> QED
    BY <1>2, <2>1, <2>2 DEF Attack2!Spinning, Spins, Do
<1>3. CASE Attack2!Close(s)
  BY <1>3, <1>s, <1>p DEF Attack2!Close, AttackStates, Places, Do
<1>d. ASSUME NEW q, Fits(s, 2, q), Len(q) <= 1, Attack2!DefenderAfter(s, q)
      PROVE  attack2' \in AttackStates /\ Fits(s, 2, sent2')
  <2> DEFINE place == Do("GoToPoint", "swarm")
  <2>1. Len(q) <= 3 /\ Fit(s, 2, place)
    BY <1>d, FitCommands DEF Fits, Skills, Places
  <2>2. Fits(s, 2, Append(q, place))
    BY <1>d, <2>1, Appended
  <2> QED
    BY <1>d, <2>2 DEF Attack2!DefenderAfter, AttackStates, Do
<1>4. CASE Attack2!Swarm(s)
  <2>1. CASE Attack2!DefenderAfter(s, <<Attack2!GoToPoint("swarm")>>)
    <3>1. Fits(s, 2, <<Attack2!GoToPoint("swarm")>>)
      BY <1>p DEF Places, Do
    <3>2. Len(<<Attack2!GoToPoint("swarm")>>) <= 1
      OBVIOUS
    <3> QED
      BY <1>d, <2>1, <3>1, <3>2
  <2>2. CASE Attack2!SwitchTo("CLOSE_TO_BALL") \/ Attack2!SwitchTo("APPROACHING")
    BY <1>s, <2>2 DEF AttackStates
  <2> QED
    BY <1>4, <2>1, <2>2 DEF Attack2!Swarm
<1>5. CASE Attack2!SwarmDefender(s)
  BY <1>5, <1>d, <1>s DEF Attack2!SwarmDefender, Attack2!Silence
<1> QED
  BY <1>1, <1>2, <1>3, <1>4, <1>5 DEF Attack2!Execute

\* Robot 4 in the attack: whatever state the tactic was left in, it spins only
\* with the ball within the threshold of the robot.
LEMMA Attack4Frame ==
  ASSUME NEW s \in Beliefs, attack4 \in AttackStates, Attack4!Execute(s)
  PROVE  attack4' \in AttackStates /\ Fits(s, 4, sent4')
<1> USE DEF Attack4!SwitchTo, Attack4!Send, Attack4!Silence, Attack4!GoToPoint, Attack4!Do
<1>s. Fits(s, 4, <<>>)
  BY Few
<1>p. \A r \in Places : Fits(s, 4, <<Do("GoToPoint", r)>>)
  BY Few, FitCommands DEF Skills
<1>1. CASE Attack4!Approaching(s)
  <2>1. Attack4!ApproachTarget(s) \in Places
    BY DEF Attack4!ApproachTarget, Places
  <2> QED
    BY <1>1, <1>s, <1>p, <2>1 DEF Attack4!Approaching, AttackStates, Do
<1>2. CASE Attack4!Spinning(s)
  <2>1. CASE Attack4!SwitchTo("APPROACHING")
    BY <1>s, <2>1 DEF AttackStates
  <2>2. ASSUME ~Attack4!FarFromBall(s), NEW r \in Spins,
               attack4' = attack4, sent4' = <<Do("Spin", r)>>
        PROVE  attack4' \in AttackStates /\ Fits(s, 4, sent4')
    <3>1. InHittingReach(s, 4)
      BY <2>2, NearIsInReach
         DEF Attack4!FarFromBall, Attack4!Beyond, Attack4!DistSq, Attack4!Self,
             Attack4!BOT_BALL_THRESH, Beyond, DistSq, BOT_BALL_THRESH, Bots
    <3> QED
      BY <2>2, <3>1, Few, FitCommands
  <2> QED
    BY <1>2, <2>1, <2>2 DEF Attack4!Spinning, Spins, Do
<1>3. CASE Attack4!Close(s)
  BY <1>3, <1>s, <1>p DEF Attack4!Close, AttackStates, Places, Do
<1>d. ASSUME NEW q, Fits(s, 4, q), Len(q) <= 1, Attack4!DefenderAfter(s, q)
      PROVE  attack4' \in AttackStates /\ Fits(s, 4, sent4')
  <2> DEFINE place == Do("GoToPoint", "swarm")
  <2>1. Len(q) <= 3 /\ Fit(s, 4, place)
    BY <1>d, FitCommands DEF Fits, Skills, Places
  <2>2. Fits(s, 4, Append(q, place))
    BY <1>d, <2>1, Appended
  <2> QED
    BY <1>d, <2>2 DEF Attack4!DefenderAfter, AttackStates, Do
<1>4. CASE Attack4!Swarm(s)
  <2>1. CASE Attack4!DefenderAfter(s, <<Attack4!GoToPoint("swarm")>>)
    <3>1. Fits(s, 4, <<Attack4!GoToPoint("swarm")>>)
      BY <1>p DEF Places, Do
    <3>2. Len(<<Attack4!GoToPoint("swarm")>>) <= 1
      OBVIOUS
    <3> QED
      BY <1>d, <2>1, <3>1, <3>2
  <2>2. CASE Attack4!SwitchTo("CLOSE_TO_BALL") \/ Attack4!SwitchTo("APPROACHING")
    BY <1>s, <2>2 DEF AttackStates
  <2> QED
    BY <1>4, <2>1, <2>2 DEF Attack4!Swarm
<1>5. CASE Attack4!SwarmDefender(s)
  BY <1>5, <1>d, <1>s DEF Attack4!SwarmDefender, Attack4!Silence
<1> QED
  BY <1>1, <1>2, <1>3, <1>4, <1>5 DEF Attack4!Execute

\* Robot 2 in the midfield with the ball deep in our half: it goes from one of
\* the two states to the other, or defends.
LEMMA Mid2Frame ==
  ASSUME NEW s \in Beliefs, Deep(s), mid2 \in MidStates, Mid2!Execute(s)
  PROVE  mid2' \in MidStates /\ Fits(s, 2, sent2')
<1> USE DEF Mid2!SwitchTo, Mid2!Send, Mid2!Silence, Mid2!GoToPoint, Mid2!Do
<1>b. s.ball.x \in Int /\ s.ball.x < 0
  <2>1. s.ball.x \in Int
    BY TesterAssumption DEF Belief, Point
  <2> QED
    BY <2>1 DEF Deep, HALF_FIELD_MAXX
<1>s. Fits(s, 2, <<>>)
  BY Few
<1>1. CASE Mid2!Attacking(s)
  BY <1>1, <1>b, <1>s DEF Mid2!Attacking, MidStates
<1>2. CASE Mid2!Defending(s)
  <2>1. Fits(s, 2, <<Mid2!Defence(s)>>)
    <3>1. /\ Fit(s, 2, Do("GoToPoint", "guard")) /\ Fit(s, 2, Do("GoToPoint", "box"))
          /\ Fit(s, 2, Do("DefendPoint", "defend"))
      BY FitCommands DEF Skills, Places
    <3> QED
      BY <3>1, Few DEF Mid2!Defence, Do
  <2> QED
    BY <1>2, <1>b, <1>s, <2>1 DEF Mid2!Defending, MidStates
<1>3. CASE Mid2!Midfielding(s)
  BY <1>3 DEF Mid2!Midfielding, MidStates
<1> QED
  BY <1>1, <1>2, <1>3 DEF Mid2!Execute

\* Robot 4 in the midfield with the ball deep in our half: it goes from one of
\* the two states to the other, or defends.
LEMMA Mid4Frame ==
  ASSUME NEW s \in Beliefs, Deep(s), mid4 \in MidStates, Mid4!Execute(s)
  PROVE  mid4' \in MidStates /\ Fits(s, 4, sent4')
<1> USE DEF Mid4!SwitchTo, Mid4!Send, Mid4!Silence, Mid4!GoToPoint, Mid4!Do
<1>b. s.ball.x \in Int /\ s.ball.x < 0
  <2>1. s.ball.x \in Int
    BY TesterAssumption DEF Belief, Point
  <2> QED
    BY <2>1 DEF Deep, HALF_FIELD_MAXX
<1>s. Fits(s, 4, <<>>)
  BY Few
<1>1. CASE Mid4!Attacking(s)
  BY <1>1, <1>b, <1>s DEF Mid4!Attacking, MidStates
<1>2. CASE Mid4!Defending(s)
  <2>1. Fits(s, 4, <<Mid4!Defence(s)>>)
    <3>1. /\ Fit(s, 4, Do("GoToPoint", "guard")) /\ Fit(s, 4, Do("GoToPoint", "box"))
          /\ Fit(s, 4, Do("DefendPoint", "defend"))
      BY FitCommands DEF Skills, Places
    <3> QED
      BY <3>1, Few DEF Mid4!Defence, Do
  <2> QED
    BY <1>2, <1>b, <1>s, <2>1 DEF Mid4!Defending, MidStates
<1>3. CASE Mid4!Midfielding(s)
  BY <1>3 DEF Mid4!Midfielding, MidStates
<1> QED
  BY <1>1, <1>2, <1>3 DEF Mid4!Execute

\* Robot 2 in support: up to three commands, none of them a spin.
LEMMA Lingo2Frame ==
  ASSUME NEW s \in Beliefs, lingo2 \in LingoStates, Lingo2!Execute(s)
  PROVE  lingo2' \in LingoStates /\ Fits(s, 2, sent2')
<1> USE DEF Lingo2!SwitchTo, Lingo2!GoToPoint, Lingo2!Do
<1>c. /\ \A r \in Places : Fit(s, 2, Do("GoToPoint", r))
      /\ Fit(s, 2, Do("GoToPointDW", "ball")) /\ Fit(s, 2, Do("DefendPoint", "defend"))
  BY FitCommands DEF Skills, Places
<1>d. ASSUME NEW q, Fits(s, 2, q), Len(q) <= 2, Lingo2!DefendAfter(s, q)
      PROVE  lingo2' \in LingoStates /\ Fits(s, 2, sent2')
  <2>1. /\ Fits(s, 2, Append(q, Do("GoToPointDW", "ball")))
        /\ Fits(s, 2, Append(q, Do("DefendPoint", "defend")))
    <3>1. Len(q) <= 3
      BY <1>d DEF Fits
    <3> QED
      BY <1>c, <1>d, <3>1, Appended
  <2> QED
    BY <1>d, <2>1 DEF Lingo2!DefendAfter, LingoStates, Do
<1>w. ASSUME NEW q, Fits(s, 2, q), Len(q) <= 1, Lingo2!SwarmAfter(s, q)
      PROVE  lingo2' \in LingoStates /\ Fits(s, 2, sent2')
  <2> DEFINE place == Do("GoToPoint", "swarm")
  <2>1. Len(q) \in Nat /\ Len(q) <= 3 /\ Fit(s, 2, place)
    BY <1>c, <1>w DEF Fits, Places
  <2> HIDE DEF place
  <2>2. Fits(s, 2, Append(q, place)) /\ Len(Append(q, place)) <= 2
    BY <1>w, <2>1, Appended
  <2>3. CASE Lingo2!DefendAfter(s, Append(q, place))
    BY <1>d, <2>2, <2>3
  <2>4. CASE lingo2' = "ATTACK_LINGO" /\ sent2' = q
    BY <1>w, <2>4 DEF LingoStates
  <2> QED
    BY <1>w, <2>3, <2>4 DEF Lingo2!SwarmAfter, place, Do
<1>1. CASE Lingo2!SwitchTo("FORM_SWARM")
  BY <1>1, Few DEF LingoStates, Lingo2!Silence
<1>2. CASE Lingo2!SwarmAfter(s, <<Lingo2!Approach(s)>>)
  <2> DEFINE q == <<Lingo2!Approach(s)>>
  <2>1. Fit(s, 2, Lingo2!Approach(s))
    BY <1>c DEF Lingo2!Approach, Places, Do
  <2>2. Fits(s, 2, q)
    BY <2>1, Few
  <2>3. Len(q) <= 1
    OBVIOUS
  <2> QED
    BY <1>2, <1>w, <2>2, <2>3
<1>3. CASE Lingo2!SwarmAfter(s, Lingo2!Silence)
  <2>1. Fits(s, 2, Lingo2!Silence) /\ Len(Lingo2!Silence) <= 1
    BY Few DEF Lingo2!Silence
  <2> QED
    BY <1>3, <1>w, <2>1
<1> QED
  BY <1>1, <1>2, <1>3 DEF Lingo2!Execute, Lingo2!Attack, Lingo2!Swarm

\* Robot 4 in support: up to three commands, none of them a spin.
LEMMA Lingo4Frame ==
  ASSUME NEW s \in Beliefs, lingo4 \in LingoStates, Lingo4!Execute(s)
  PROVE  lingo4' \in LingoStates /\ Fits(s, 4, sent4')
<1> USE DEF Lingo4!SwitchTo, Lingo4!GoToPoint, Lingo4!Do
<1>c. /\ \A r \in Places : Fit(s, 4, Do("GoToPoint", r))
      /\ Fit(s, 4, Do("GoToPointDW", "ball")) /\ Fit(s, 4, Do("DefendPoint", "defend"))
  BY FitCommands DEF Skills, Places
<1>d. ASSUME NEW q, Fits(s, 4, q), Len(q) <= 2, Lingo4!DefendAfter(s, q)
      PROVE  lingo4' \in LingoStates /\ Fits(s, 4, sent4')
  <2>1. /\ Fits(s, 4, Append(q, Do("GoToPointDW", "ball")))
        /\ Fits(s, 4, Append(q, Do("DefendPoint", "defend")))
    <3>1. Len(q) <= 3
      BY <1>d DEF Fits
    <3> QED
      BY <1>c, <1>d, <3>1, Appended
  <2> QED
    BY <1>d, <2>1 DEF Lingo4!DefendAfter, LingoStates, Do
<1>w. ASSUME NEW q, Fits(s, 4, q), Len(q) <= 1, Lingo4!SwarmAfter(s, q)
      PROVE  lingo4' \in LingoStates /\ Fits(s, 4, sent4')
  <2> DEFINE place == Do("GoToPoint", "swarm")
  <2>1. Len(q) \in Nat /\ Len(q) <= 3 /\ Fit(s, 4, place)
    BY <1>c, <1>w DEF Fits, Places
  <2> HIDE DEF place
  <2>2. Fits(s, 4, Append(q, place)) /\ Len(Append(q, place)) <= 2
    BY <1>w, <2>1, Appended
  <2>3. CASE Lingo4!DefendAfter(s, Append(q, place))
    BY <1>d, <2>2, <2>3
  <2>4. CASE lingo4' = "ATTACK_LINGO" /\ sent4' = q
    BY <1>w, <2>4 DEF LingoStates
  <2> QED
    BY <1>w, <2>3, <2>4 DEF Lingo4!SwarmAfter, place, Do
<1>1. CASE Lingo4!SwitchTo("FORM_SWARM")
  BY <1>1, Few DEF LingoStates, Lingo4!Silence
<1>2. CASE Lingo4!SwarmAfter(s, <<Lingo4!Approach(s)>>)
  <2> DEFINE q == <<Lingo4!Approach(s)>>
  <2>1. Fit(s, 4, Lingo4!Approach(s))
    BY <1>c DEF Lingo4!Approach, Places, Do
  <2>2. Fits(s, 4, q)
    BY <2>1, Few
  <2>3. Len(q) <= 1
    OBVIOUS
  <2> QED
    BY <1>2, <1>w, <2>2, <2>3
<1>3. CASE Lingo4!SwarmAfter(s, Lingo4!Silence)
  <2>1. Fits(s, 4, Lingo4!Silence) /\ Len(Lingo4!Silence) <= 1
    BY Few DEF Lingo4!Silence
  <2> QED
    BY <1>3, <1>w, <2>1
<1> QED
  BY <1>1, <1>2, <1>3 DEF Lingo4!Execute, Lingo4!Attack, Lingo4!Swarm

\* Robot 1 predicts the ball at a point of whole millimetres.
LEMMA PredictionType ==
  ASSUME NEW s \in Beliefs, NEW p \in Cover1!Predictions[s]
  PROVE  p \in Point
<1> DEFINE Ahead(from, v, d) == Cover1!Ahead(from, v, d)
<1>1. s \in Belief
  BY TesterAssumption
<1>2. s.ball.x \in Int /\ s.ball.y \in Int /\ s.vel.x \in Int /\ s.vel.y \in Int
  BY <1>1 DEF Belief, Point
<1>3. ASSUME NEW from \in Int, NEW v \in Int, NEW d \in Int
      PROVE  Ahead(from, v, d) \in Int
  <2>1. Cover1!Factor(v) \in Int
    BY DEF Cover1!Factor
  <2>2. v * Cover1!Factor(v) * d \in Int
    BY <2>1
  <2>3. \A n \in Int : n \div 1000000 \in Int
    OBVIOUS
  <2> HIDE DEF Cover1!Factor
  <2> QED
    BY <2>2, <2>3 DEF Cover1!Ahead
<1> HIDE DEF Ahead
<1>4. PICK d \in Cover1!Distances(Cover1!Self(s), s.ball) :
        p = [x |-> Ahead(s.ball.x, s.vel.x, d), y |-> Ahead(s.ball.y, s.vel.y, d)]
  BY DEF Cover1!Predictions, Cover1!At, Ahead
<1>5. d \in Int
  BY <1>4 DEF Cover1!Distances
<1> QED
  BY <1>2, <1>3, <1>4, <1>5 DEF Point

\* Robot 1 in the defence: one command, whatever skill and point were left.
LEMMA CoverFrame ==
  ASSUME NEW s \in Beliefs, NEW p \in Cover1!Predictions[s], MembersInv,
         Cover1!Execute(s, p)
  PROVE  /\ charge' \in BOOLEAN /\ sID' \in Skill /\ aim' \in Aim
         /\ Fits(s, 1, sent1')
<1> USE DEF Cover1!ExecuteSkill, Cover1!Do
<1>m. charge \in BOOLEAN /\ sID \in Skill /\ aim \in Aim
  BY DEF MembersInv
<1>x. ASSUME NEW skill \in Skill, NEW role \in Aim, Cover1!ExecuteSkill(skill, role)
      PROVE  sID' \in Skill /\ aim' \in Aim /\ Fits(s, 1, sent1')
  <2>1. Fit(s, 1, Do(skill, role))
    BY FitCommands DEF Skill, Skills, Aim, Places
  <2> QED
    BY <1>x, <2>1, Few DEF Do
<1>f. ASSUME NEW skill \in Skill, NEW role \in Aim, Cover1!Finish(s, skill, role)
      PROVE  sID' \in Skill /\ aim' \in Aim /\ Fits(s, 1, sent1')
  <2>1. \E k \in Skill, r \in Aim : Cover1!ExecuteSkill(k, r)
    BY <1>f DEF Cover1!Finish, Skill, Aim
  <2> QED
    BY <1>x, <2>1
<1>1. CASE Cover1!Press(s)
  <2>1. charge' \in BOOLEAN
    BY <1>1, <1>m DEF Cover1!Press, Cover1!StillCharges, Cover1!clearing_chance
  <2> QED
    BY <1>1, <2>1, <1>m, <1>f DEF Cover1!Press, Skill
<1>2. CASE Cover1!CoverHome(s, p)
  <2> DEFINE skill == IF p.x < Cover1!OppArea THEN "GoToPoint" ELSE sID
             role == CASE p.x > Cover1!OppArea -> "home"
                       [] p.x < Cover1!OppArea -> "cover"
                       [] p.x = Cover1!OppArea -> aim
  <2>1. p.x \in Int /\ Cover1!OppArea \in Int
    BY PredictionType
       DEF Point, Cover1!OppArea, Cover1!HALF_FIELD_MAXX, Cover1!DBOX_WIDTH,
           Cover1!BOT_RADIUS
  <2>2. skill \in Skill /\ role \in Aim
    <3>1. CASE p.x > Cover1!OppArea
      BY <1>m, <2>1, <3>1 DEF Aim
    <3>2. CASE p.x < Cover1!OppArea
      BY <1>m, <2>1, <3>2 DEF Aim, Skill
    <3>3. CASE p.x = Cover1!OppArea
      BY <1>m, <2>1, <3>3
    <3> QED
      BY <2>1, <3>1, <3>2, <3>3
  <2>3. Cover1!Finish(s, skill, role) /\ charge' = FALSE
    BY <1>2 DEF Cover1!CoverHome
  <2> HIDE DEF skill, role
  <2> QED
    BY <1>f, <2>2, <2>3
<1>3. CASE Cover1!Chase(s, p)
  <2>1. \E r \in Aim : Cover1!Finish(s, "GoToPoint", r)
    BY <1>3, <1>m DEF Cover1!Chase, Aim
  <2>2. charge' \in BOOLEAN
    BY <1>3, <1>m DEF Cover1!Chase
  <2> QED
    BY <1>f, <2>1, <2>2 DEF Skill
<1>4. CASE Cover1!Leave(s, p)
  <2>1. charge' \in BOOLEAN
    BY <1>4, <1>m DEF Cover1!Leave, Cover1!isPossible, Cover1!clearing_chance
  <2>2. \/ Cover1!ExecuteSkill("Velocity", "speeds")
        \/ Cover1!Finish(s, "GoToPoint", "post")
    BY <1>4 DEF Cover1!Leave
  <2> QED
    BY <1>f, <1>x, <2>1, <2>2 DEF Skill, Aim
<1> QED
  BY <1>1, <1>2, <1>3, <1>4 DEF Cover1!Execute

-----------------------------------------------------------------------------
(* The invariant *)

\* The tactics start in their first states, and nothing is sent.
LEMMA InitInv == Init => IInv
<1> SUFFICES ASSUME Init
             PROVE  IInv
  OBVIOUS
<1>1. pPoint \in Point
  BY TesterAssumption DEF Init, Belief
<1>2. AllFit
  BY Few DEF Init, AllFit, Silence
<1> QED
  BY <1>1, <1>2
     DEF Init, IInv, MembersInv, AttackStates, MidStates, LingoStates, Skill, Aim

\* Robot 1 attacks or covers the goal; the tactic it does not execute keeps the
\* members it has.
LEMMA Robot1Keeps ==
  ASSUME NEW s \in Beliefs, MembersInv, Robot1(s)
  PROVE  /\ attack1' \in AttackStates
         /\ charge' \in BOOLEAN /\ sID' \in Skill /\ aim' \in Aim /\ pPoint' \in Point
         /\ Fits(s, 1, sent1')
<1>1. CASE Attack1!Execute(s) /\ UNCHANGED cover
  BY <1>1, Attack1Frame DEF MembersInv, cover
<1>2. CASE /\ pPoint' \in Cover1!Predictions[s] /\ Cover1!Execute(s, pPoint')
           /\ UNCHANGED attack1
  <2>1. pPoint' \in Point
    BY <1>2, PredictionType
  <2> QED
    BY <1>2, <2>1, CoverFrame DEF MembersInv
<1> QED
  BY <1>1, <1>2 DEF Robot1

\* Robot 2, whether it is nearer to the ball or not, and if neither of the two is.
LEMMA Robot2Keeps ==
  ASSUME NEW s \in Beliefs, MembersInv, Run(s)
  PROVE  /\ attack2' \in AttackStates /\ mid2' \in MidStates /\ lingo2' \in LingoStates
         /\ Fits(s, 2, sent2')
<1>m. attack2 \in AttackStates /\ mid2 \in MidStates /\ lingo2 \in LingoStates
  BY DEF MembersInv
<1>1. CASE Lead2(s)
  BY <1>1, <1>m, Attack2Frame, CirclerFits DEF Lead2, second
<1>2. CASE Support2(s)
  <2>1. CASE Attack2!Execute(s) /\ UNCHANGED second
    BY <1>m, <2>1, Attack2Frame DEF second
  <2>2. CASE Deep(s) /\ Mid2!Execute(s) /\ UNCHANGED <<attack2, lingo2>>
    BY <1>m, <2>2, Mid2Frame
  <2>3. CASE Lingo2!Execute(s) /\ UNCHANGED <<attack2, mid2>>
    BY <1>m, <2>3, Lingo2Frame
  <2> QED
    BY <1>2, <2>1, <2>2, <2>3 DEF Support2
<1>3. CASE Neither(s)
  BY <1>3, <1>m, Few DEF Neither, second, Silence
<1> QED
  BY <1>1, <1>2, <1>3 DEF Run

\* Robot 4, whether it is nearer to the ball or not, and if neither of the two is.
LEMMA Robot4Keeps ==
  ASSUME NEW s \in Beliefs, MembersInv, Run(s)
  PROVE  /\ attack4' \in AttackStates /\ mid4' \in MidStates /\ lingo4' \in LingoStates
         /\ Fits(s, 4, sent4')
<1>m. attack4 \in AttackStates /\ mid4 \in MidStates /\ lingo4 \in LingoStates
  BY DEF MembersInv
<1>1. CASE Lead4(s)
  BY <1>1, <1>m, Attack4Frame, CirclerFits DEF Lead4, fourth
<1>2. CASE Support4(s)
  <2>1. CASE Attack4!Execute(s) /\ UNCHANGED fourth
    BY <1>m, <2>1, Attack4Frame DEF fourth
  <2>2. CASE Deep(s) /\ Mid4!Execute(s) /\ UNCHANGED <<attack4, lingo4>>
    BY <1>m, <2>2, Mid4Frame
  <2>3. CASE Lingo4!Execute(s) /\ UNCHANGED <<attack4, mid4>>
    BY <1>m, <2>3, Lingo4Frame
  <2> QED
    BY <1>2, <2>1, <2>2, <2>3 DEF Support4
<1>3. CASE Neither(s)
  BY <1>3, <1>m, Few DEF Neither, fourth, Silence
<1> QED
  BY <1>1, <1>2, <1>3 DEF Run

\* Every frame keeps the invariant, whatever belief it starts from.
LEMMA NextInv == IInv /\ [Next]_vars => IInv'
<1> SUFFICES ASSUME IInv, [Next]_vars
             PROVE  IInv'
  OBVIOUS
<1>1. CASE Next
  <2>1. state' \in Beliefs /\ Run(state') /\ MembersInv /\ Robot1(state')
    BY <1>1 DEF Next, IInv, Run
  <2>2. counter' \in {0, 1}
    BY <1>1 DEF Next, Tick, IInv
  <2>3. MembersInv'
    BY <2>1, Robot1Keeps, Robot2Keeps, Robot4Keeps DEF MembersInv
  <2>4. Fits(state', 0, sent0') /\ Fits(state', 3, sent3')
    BY <2>1, KeeperFits, ReceiverFits DEF Run
  <2>5. Fits(state', 1, sent1') /\ Fits(state', 2, sent2') /\ Fits(state', 4, sent4')
    BY <2>1, Robot1Keeps, Robot2Keeps, Robot4Keeps
  <2>6. AllFit'
    BY <2>4, <2>5 DEF AllFit
  <2> QED
    BY <2>1, <2>2, <2>3, <2>6 DEF IInv
<1>2. CASE UNCHANGED vars
  BY <1>2 DEF vars, attacker, second, fourth, cover, sent, IInv, MembersInv, AllFit
<1> QED
  BY <1>1, <1>2

\* The invariant holds in every frame.
LEMMA Correct == Spec => []IInv
BY InitInv, NextInv, PTL DEF Spec

\* What the invariant says of the commands of each robot.
LEMMA SentFits ==
  ASSUME IInv, NEW b \in Bots
  PROVE  b + 1 \in DOMAIN sent /\ Fits(state, b, sent[b + 1])
<1>1. b = 0 \/ b = 1 \/ b = 2 \/ b = 3 \/ b = 4
  BY DEF Bots
<1>2. DOMAIN sent = 1 .. 5
  BY DEF sent
<1>3. /\ sent[1] = sent0 /\ sent[2] = sent1 /\ sent[3] = sent2
      /\ sent[4] = sent3 /\ sent[5] = sent4
  BY DEF sent
<1> QED
  BY <1>1, <1>2, <1>3 DEF IInv, AllFit

\* What the commands of a frame may ask for.
LEMMA AsksFit ==
  ASSUME NEW s, NEW b, NEW q, Fits(s, b, q)
  PROVE  /\ AsksFor(q, Spins) => InHittingReach(s, b)
         /\ AsksFor(q, {"line"}) => b = 0
<1>1. DOMAIN q = 1 .. Len(q)
  BY DEF Fits
<1> QED
  BY <1>1 DEF Fits, Fit, AsksFor

-----------------------------------------------------------------------------
(* The theorems *)

\* Every tactic keeps to its own states and the limit of its commands, however
\* the robots are handed from one tactic to another.
THEOREM TypeCorrect == Spec => []TypeOK
<1>1. IInv => TypeOK
  <2> SUFFICES ASSUME IInv
               PROVE  TypeOK
    OBVIOUS
  <2>1. ASSUME NEW i \in DOMAIN sent
        PROVE  sent[i] \in Seq(Command) /\ Len(sent[i]) <= 4
    <3>1. i \in 1 .. 5
      BY DEF sent
    <3>2. i - 1 \in Bots /\ (i - 1) + 1 = i
      BY <3>1 DEF Bots
    <3> QED
      BY <3>2, SentFits DEF Fits
  <2> QED
    BY <2>1 DEF IInv, MembersInv, TypeOK, AttackStates, MidStates, LingoStates
<1> QED
  BY <1>1, Correct, PTL

\* In a match the midfield tactic never enters the state for the middle of the
\* field, and sends no robot to the halfway line.
THEOREM MidFieldCorrect == Spec => []MidFieldOnlyDefends
<1>1. IInv => MidFieldOnlyDefends
  <2> SUFFICES ASSUME IInv
               PROVE  MidFieldOnlyDefends
    OBVIOUS
  <2>1. "MIDFIELDING" \notin {mid2, mid4}
    BY DEF IInv, MembersInv, MidStates
  <2>2. ~AsksFor(sent2, {"line"}) /\ ~AsksFor(sent4, {"line"})
    <3>1. Fits(state, 2, sent2) /\ Fits(state, 4, sent4)
      BY DEF IInv, AllFit
    <3> QED
      BY <3>1, AsksFit
  <2> QED
    BY <2>1, <2>2 DEF MidFieldOnlyDefends
<1> QED
  BY <1>1, Correct, PTL

\* A robot is told to turn on the spot only in a frame whose belief has the ball
\* in its reach, whichever frame the tactic that tells it so last ran in.
THEOREM SpinCorrect == Spec => []SpinsOnlyInReach
<1>1. IInv => SpinsOnlyInReach
  <2> SUFFICES ASSUME IInv, NEW b \in Bots, AsksFor(sent[b + 1], {"cw", "ccw"})
               PROVE  InHittingReach(state, b)
    BY DEF SpinsOnlyInReach
  <2> DEFINE q == sent[b + 1]
  <2>1. Fits(state, b, q)
    BY SentFits
  <2>2. AsksFor(q, Spins)
    BY DEF Spins
  <2> HIDE DEF q
  <2> QED
    BY <2>1, <2>2, AsksFit
<1> QED
  BY <1>1, Correct, PTL
=============================================================================
