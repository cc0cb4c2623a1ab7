------------------------------- MODULE Tester -------------------------------
(***************************************************************************)
(* One frame of the match: Tester::run (Core/tester.hpp) on the belief of  *)
(* the frame.  It chooses for each robot the tactic to execute; the        *)
(* tactics are static objects, so one that is not executed keeps its state *)
(* until it is chosen again, whatever the belief has become.               *)
(***************************************************************************)
EXTENDS LineUp

CONSTANT Beliefs  \* the beliefs a frame may start from

ASSUME TesterAssumption == Beliefs \subseteq Belief

VARIABLES
  state,      \* the belief of the last frame
  counter,    \* the parity of the frame counter of Strategy.cpp
  attack1, attack2, attack4,   \* iState of tattack1, tattack2, tattack4
  mid2, mid4,                  \* of tmidfield2 and tmidfield4
  lingo2, lingo4,              \* of tattacklingo2 and tattacklingo4
  charge, sID, aim, pPoint,    \* the members of tCover1
  sent0, sent1, sent2, sent3, sent4   \* the commands of the last frame

attacker == <<attack1, attack2, attack4>>
second   == <<mid2, lingo2>>
fourth   == <<mid4, lingo4>>
cover    == <<charge, sID, aim, pPoint>>
sent     == <<sent0, sent1, sent2, sent3, sent4>>

vars == <<state, counter, attacker, second, fourth, cover, sent>>

Attack1 == INSTANCE TAttack WITH botID <- 1, iState <- attack1, sent <- sent1
Attack2 == INSTANCE TAttack WITH botID <- 2, iState <- attack2, sent <- sent2
Attack4 == INSTANCE TAttack WITH botID <- 4, iState <- attack4, sent <- sent4

Mid2 == INSTANCE TMidField WITH botID <- 2, iState <- mid2, sent <- sent2
Mid4 == INSTANCE TMidField WITH botID <- 4, iState <- mid4, sent <- sent4

Lingo2 == INSTANCE TAttackLingo WITH botID <- 2, iState <- lingo2, sent <- sent2
Lingo4 == INSTANCE TAttackLingo WITH botID <- 4, iState <- lingo4, sent <- sent4

Cover1 == INSTANCE TCoverGoal WITH botID <- 1, sent <- sent1

-----------------------------------------------------------------------------
TwoLeads  == {s \in Beliefs : Closer(s, 2, 4)}
FourLeads == {s \in Beliefs : Closer(s, 4, 2)}
Tie       == Beliefs \ (TwoLeads \cup FourLeads)

\* The robot nearest to the ball plays it along a wall or in a corner of theirs
\* ahead of robot b.
Swarms(s, b) ==
  LET mate == s.home[s.ourNear]
      line == HALF_FIELD_MAXX - 2 * BOT_RADIUS
  IN \/ Wide(mate) /\ Wide(s.ball) /\ mate.x > s.home[b].x
     \/ /\ s.ball.x > line /\ mate.x > line
        /\ \/ s.ball.y > OPP_GOAL_MAXY /\ s.vel.y > 0 /\ mate.y > s.home[b].y
           \/ s.ball.y < OPP_GOAL_MINY /\ s.vel.y < 0 /\ mate.y < s.home[b].y

\* Mutant: the sign of the limit is lost.
DeepHalf(s) == 2 * s.ball.x < HALF_FIELD_MAXX

\* Behind the middle of our half.
Deep(s) == 2 * s.ball.x < -HALF_FIELD_MAXX

-----------------------------------------------------------------------------
Robot1(s) ==
  \/ GoesForward(s) /\ Attack1!Execute(s) /\ UNCHANGED cover
  \/ /\ ~GoesForward(s)
     /\ pPoint' \in Cover1!Predictions[s]
     /\ Cover1!Execute(s, pPoint')
     /\ UNCHANGED attack1

Lead2(s) ==
  /\ UNCHANGED second
  /\ \/ Circles(s, 2) /\ sent2' = testSkill(s, 2) /\ UNCHANGED attack2
     \/ ~Circles(s, 2) /\ Attack2!Execute(s)

Support2(s) ==
  \/ Swarms(s, 2) /\ Attack2!Execute(s) /\ UNCHANGED second
  \/ ~Swarms(s, 2) /\ Deep(s) /\ Mid2!Execute(s) /\ UNCHANGED <<attack2, lingo2>>
  \/ ~Swarms(s, 2) /\ ~Deep(s) /\ Lingo2!Execute(s) /\ UNCHANGED <<attack2, mid2>>

Lead4(s) ==
  /\ UNCHANGED fourth
  /\ \/ Circles(s, 4) /\ sent4' = testSkill(s, 4) /\ UNCHANGED attack4
     \/ ~Circles(s, 4) /\ Attack4!Execute(s)

Support4(s) ==
  \/ Swarms(s, 4) /\ Attack4!Execute(s) /\ UNCHANGED fourth
  \/ ~Swarms(s, 4) /\ Deep(s) /\ Mid4!Execute(s) /\ UNCHANGED <<attack4, lingo4>>
  \/ ~Swarms(s, 4) /\ ~Deep(s) /\ Lingo4!Execute(s) /\ UNCHANGED <<attack4, mid4>>

\* Neither robot is thought of when they are equally near to the ball.
Neither(s) ==
  /\ s \in Tie
  /\ sent2' = Silence /\ sent4' = Silence
  /\ UNCHANGED <<attack2, attack4, second, fourth>>

Run(s) ==
  /\ sent0' = goalKeeping(s)
  /\ sent3' = ReceiveBall(s, 3)
  /\ Robot1(s)
  /\ \/ s \in TwoLeads /\ Lead2(s) /\ Support4(s)
     \/ s \in FourLeads /\ Lead4(s) /\ Support2(s)
     \/ Neither(s)

Init ==
  /\ state \in Beliefs
  /\ counter = 0
  /\ attack1 = "APPROACHING" /\ attack2 = "APPROACHING" /\ attack4 = "APPROACHING"
  /\ mid2 = "DEFENDING" /\ mid4 = "DEFENDING"
  /\ lingo2 = "ATTACK_LINGO" /\ lingo4 = "ATTACK_LINGO"
  /\ charge = FALSE /\ sID = "Stop" /\ aim = "none" /\ pPoint = state.ball
  /\ sent0 = Silence /\ sent1 = Silence /\ sent2 = Silence
  /\ sent3 = Silence /\ sent4 = Silence

\* The simulator calls Strategy for every frame it simulates.
Tick == counter' = 1 - counter

Next ==
  /\ Tick
  /\ state' \in Beliefs
  /\ Run(state')

Spec == Init /\ [][Next]_vars

FairSpec == Spec /\ WF_counter(Tick)

-----------------------------------------------------------------------------
(* Properties *)

\* Every tactic keeps to its own states and no robot is sent more commands than
\* its tactic may send in a frame, whatever the others do.
TypeOK ==
  /\ state \in Beliefs /\ counter \in {0, 1}
  /\ attack1 \in {"APPROACHING", "SPINNING_CW", "SPINNING_CCW", "CLOSE_TO_BALL",
                  "FORM_SWARM", "FORM_SWARM_DEFENDER"}
  /\ {attack2, attack4} \subseteq {"APPROACHING", "SPINNING_CW", "SPINNING_CCW",
                                   "CLOSE_TO_BALL", "FORM_SWARM", "FORM_SWARM_DEFENDER"}
  /\ {mid2, mid4} \subseteq {"DEFENDING", "MIDFIELDING", "ATTACKING"}
  /\ {lingo2, lingo4} \subseteq {"ATTACK_LINGO", "FORM_SWARM"}
  /\ charge \in BOOLEAN /\ pPoint \in Point
  /\ \A i \in DOMAIN sent : sent[i] \in Seq(Command) /\ Len(sent[i]) <= 4

\* The midfield tactic has cases for the whole field, but a match runs it only
\* with the ball deep in our half: its robot is never sent to the halfway line
\* or to the ball, and the state for that is never entered.
MidFieldOnlyDefends ==
  /\ "MIDFIELDING" \notin {mid2, mid4}
  /\ ~AsksFor(sent2, {"line"}) /\ ~AsksFor(sent4, {"line"})

\* Whatever state a tactic resumes in when its robot is given back to it, a
\* robot is told to turn on the spot only with the ball in reach.
SpinsOnlyInReach ==
  \A b \in Bots :
    AsksFor(sent[b + 1], {"cw", "ccw"}) => InHittingReach(state, b)

\* The beliefs in which the tactic that the match gives to robot b may hand it
\* from one of its states to another for ever.
MayIdle ==
  [b \in Bots |->
    {s \in Beliefs :
       CASE b = 0 -> AtPost(s)
         [] b = 1 -> GoesForward(s) /\ Attack1!Livelock(s)
         [] b = 2 -> \/ s \in Tie
                     \/ s \in TwoLeads /\ ~Circles(s, 2) /\ Attack2!Livelock(s)
                     \/ s \in FourLeads /\ Swarms(s, 2) /\ Attack2!Livelock(s)
                     \/ s \in FourLeads /\ ~Swarms(s, 2) /\ Deep(s) /\ Mid2!Livelock(s)
                     \/ s \in FourLeads /\ ~Swarms(s, 2) /\ ~Deep(s) /\ Lingo2!Livelock(s)
         [] b = 4 -> \/ s \in Tie
                     \/ s \in FourLeads /\ ~Circles(s, 4) /\ Attack4!Livelock(s)
                     \/ s \in TwoLeads /\ Swarms(s, 4) /\ Attack4!Livelock(s)
                     \/ s \in TwoLeads /\ ~Swarms(s, 4) /\ Deep(s) /\ Mid4!Livelock(s)
                     \/ s \in TwoLeads /\ ~Swarms(s, 4) /\ ~Deep(s) /\ Lingo4!Livelock(s)
         [] OTHER -> FALSE}]

\* If the belief stays as it is, every robot is commanded again and again from
\* whatever states the tactics were left in, except in the beliefs of MayIdle.
AllDriven ==
  <>[][UNCHANGED state]_vars =>
    /\ []<>(sent0 # Silence) \/ <>[](state \in MayIdle[0])
    /\ []<>(sent1 # Silence) \/ <>[](state \in MayIdle[1])
    /\ []<>(sent2 # Silence) \/ <>[](state \in MayIdle[2])
    /\ []<>(sent3 # Silence)
    /\ []<>(sent4 # Silence) \/ <>[](state \in MayIdle[4])
=============================================================================
