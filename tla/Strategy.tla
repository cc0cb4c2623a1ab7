------------------------------ MODULE Strategy ------------------------------
(***************************************************************************)
(* What the library keeps from one call of Strategy (Strategy.cpp) to the  *)
(* next besides the belief and the tactics: the filter of Utils/kalman.cpp *)
(* and the connection to the debug console.  The filter is KalmanPosition  *)
(* for the coordinates of the bodies and KalmanAngle for the orientations  *)
(* of the robots; addInfo updates them all in a frame, but none reads      *)
(* another.  Plugin is the connection, which reads none of them either, so *)
(* a behaviour here follows one of the three: a coordinate, an             *)
(* orientation, or the connection.                                         *)
(***************************************************************************)
EXTENDS Field

CONSTANTS Places, MaxMoves, Settling, PI, Turned, MaxLoads, Room

ASSUME PlacesAssumption ==
  /\ Places \subseteq -2 * HALF_FIELD_MAXX .. 2 * HALF_FIELD_MAXX
  /\ MaxMoves \in Nat /\ Settling \in Nat

ASSUME TurnedAssumption ==
  /\ PI \in Nat \ {0}
  /\ Turned \subseteq 1 - PI .. PI

ASSUME LoadsAssumption == MaxLoads \in Nat \ {0} /\ Room \in Nat \ {0}

VARIABLES
  followed,                                           \* which of the three
  pose, velocity, posSigmaSq, place, still,           \* the coordinate
  angle, omega, angleSigmaSq, turned,                 \* the orientation
  moves,
  console, pending, served, loads,                    \* the connection
  alive, unread, step, first

Position    == INSTANCE KalmanPosition WITH sigmaSq <- posSigmaSq
Orientation == INSTANCE KalmanAngle WITH sigmaSq <- angleSigmaSq
Link        == INSTANCE Plugin

positionVars == <<pose, velocity, posSigmaSq, place, still>>
angleVars    == <<angle, omega, angleSigmaSq, turned>>
linkVars     == <<console, pending, served, loads, alive, unread, step, first>>
vars         == <<followed, positionVars, angleVars, moves, linkVars>>

PositionRests    == /\ place = CHOOSE p \in Places : TRUE
                    /\ pose = 10 * Position!BallStart
OrientationRests == turned = CHOOSE t \in Turned : TRUE

Init ==
  /\ followed \in {"position", "orientation", "connection"}
  /\ Position!Init    /\ (followed # "position" => PositionRests)
  /\ Orientation!Init /\ (followed # "orientation" => OrientationRests)
  /\ Link!Init

PositionNext ==
  /\ followed = "position" /\ Position!Next
  /\ UNCHANGED <<followed, angleVars, linkVars>>

OrientationNext ==
  /\ followed = "orientation" /\ Orientation!Next
  /\ UNCHANGED <<followed, positionVars, linkVars>>

LinkNext ==
  /\ followed = "connection" /\ Link!Next
  /\ UNCHANGED <<followed, positionVars, angleVars, moves>>

Next == PositionNext \/ OrientationNext \/ LinkNext

Spec == Init /\ [][Next]_vars

\* The simulator calls the strategy for every frame, and the system schedules
\* the processes that run.
FairSpec ==
  /\ Spec
  /\ WF_vars(OrientationNext)
  /\ Link!Fairness

-----------------------------------------------------------------------------
(* Properties *)

\* addInfo keeps every estimate within a field's length of the centre and
\* every orientation a direction, however the bodies move; the connection has
\* no more messages than fit, and one more at most waits for the console.
TypeOK ==
  /\ followed \in {"position", "orientation", "connection"}
  /\ Position!TypeOK /\ Orientation!TypeOK /\ Link!TypeOK

\* Each move makes the estimate swing past the body and back; Settling frames
\* later no robot's width is left of the swing, not even of a start off the
\* field that addInfo has not given up.
SettledInTime == Position!SettledInTime

\* However often a robot was turned, also across the half turn where directions
\* wrap, once it rests addInfo comes to report its direction.
AngleSettles == followed = "orientation" => Orientation!Settles

\* As long as its process lives, the first connection made to a console is the
\* one it accepts and the only one it reads.
FirstIsServed == Link!FirstIsServed

\* A strategy that SendMessages blocks in its frame for ever did not connect
\* first.
FirstComerPlays == Link!FirstComerPlays
=============================================================================
