------------------------------- MODULE Tactic -------------------------------
(***************************************************************************)
(* What the tactics of one robot have in common (class Tactic and the      *)
(* heads of the tactics that extend it): they read the belief through a    *)
(* pointer and send the robot commands.  A tactic module adds the state it *)
(* keeps between frames, the cases of execute, and                         *)
(*                                                                         *)
(*   Next == Tick /\ state' \in Beliefs /\ Execute(state')                 *)
(***************************************************************************)
EXTENDS BallLocation, Commands

CONSTANTS
  Beliefs,  \* the beliefs a frame may start from
  botID     \* the robot the tactic was made for

ASSUME TacticAssumption == Beliefs \subseteq Belief /\ botID \in Bots

VARIABLES
  state,    \* the belief of the last frame
  sent,     \* the commands that frame sent to the robot
  counter   \* the parity of the frame counter of Strategy.cpp

-----------------------------------------------------------------------------
Self(s) == s.home[botID]

\* The robot of ours nearest to the ball, which may be this one.
Mate(s) == s.home[s.ourNear]

\* The strip along a side wall, as wide as a robot, and the field inside it.
InStrip(p)  == AbsOf(p.y) > HALF_FIELD_MAXY - 2 * BOT_RADIUS
OffStrip(p) == AbsOf(p.y) < HALF_FIELD_MAXY - 2 * BOT_RADIUS

\* The code means an opponent but indexes our robots with its number.
OppositeNear(s) == Within(s.ball, s.home[s.oppNear], 2 * BOT_BALL_THRESH)

\* The robot would push the goalkeeper from behind.
BehindKeeper(s) == s.home[0].x + (3 * BOT_RADIUS) \div 10 > Self(s).x

-----------------------------------------------------------------------------
\* The simulator calls the strategy for every frame it simulates, so frames
\* keep coming whatever the tactics did with the last.
Tick == counter' = 1 - counter

FramesComeFairly == WF_counter(Tick)
=============================================================================
