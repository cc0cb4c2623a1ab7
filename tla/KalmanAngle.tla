----------------------------- MODULE KalmanAngle -----------------------------
(***************************************************************************)
(* The orientation of one robot in the filter of Utils/kalman.cpp.  The    *)
(* measurement is a direction; the estimate is taken back to one after     *)
(* every frame, so the filter has to find out which way round the          *)
(* measurement is nearer.                                                  *)
(*                                                                         *)
(* The floats are integers here: angles are parts of the half turn PI,     *)
(* angular velocities the same per frame, variances millionths.            *)
(***************************************************************************)
EXTENDS Angles

CONSTANTS
  Turned,    \* the directions the simulator may turn the robot to
  MaxMoves   \* bound on how often it turns it

VARIABLES angle, omega, sigmaSq, turned, moves

vars == <<angle, omega, sigmaSq, turned, moves>>

SIGMA_SQ_NOISE_ANGLE == 167      \* 0.01, times delTime
SIGMA_SQ_OBSVN_ANGLE == 10000    \* 0.01

Gain(k, n) == (k * n) \div (k + SIGMA_SQ_OBSVN_ANGLE)

Dist(a, b) == IF a < b THEN b - a ELSE a - b

-----------------------------------------------------------------------------
\* As with the positions, a first gain of 1 leaves no variance.
Init ==
  /\ angle = 0 /\ omega = 0 /\ sigmaSq = 0
  /\ turned \in Turned /\ moves = 0

\* Mutant: the measurement is never brought round.
nearestAngleAsIs(a, reference) == a

\* The angle equal to a but for whole turns that is nearest the reference.
nearestAngle(a, reference) ==
  LET below == Dist(a + 2 * PI, reference)
      least == IF Dist(a, reference) > below THEN below ELSE Dist(a, reference)
  IN IF least > Dist(a - 2 * PI, reference) THEN a - 2 * PI
     ELSE IF Dist(a, reference) > below THEN a + 2 * PI
     ELSE a

\* Mutant: a negative half turn is not wrapped.
WrappedAbove(a) == IF a > PI THEN a - 2 * PI ELSE a

Wrapped(a) ==
  IF a > PI THEN a - 2 * PI ELSE IF a <= -PI THEN a + 2 * PI ELSE a

\* checkValidA, for an angle more than a turn away.
Valid(a) == -2 * PI <= a /\ a <= 2 * PI

addInfo(z) ==
  LET k == sigmaSq - Gain(sigmaSq, sigmaSq) + SIGMA_SQ_NOISE_ANGLE
      predicted == angle + omega
      next == predicted + Gain(k, nearestAngle(z, angle) - predicted)
  IN /\ sigmaSq' = k
     /\ IF Valid(Wrapped(next))
          THEN angle' = Wrapped(next) /\ omega' = next - angle
          ELSE angle' = z /\ omega' = 0

Frame(z) ==
  /\ z = turned \/ moves < MaxMoves
  /\ moves' = IF z = turned THEN moves ELSE moves + 1
  /\ turned' = z
  /\ addInfo(z)

Next == \E z \in Turned : Frame(z)

-----------------------------------------------------------------------------
(* Properties *)

\* The wrap of one turn is enough: addInfo leaves a direction, and the tactics
\* compare it as one; the prediction is never more than half a turn off it.
TypeOK ==
  /\ angle \in Directions
  /\ omega \in -PI .. PI
  /\ sigmaSq \in Nat
  /\ turned \in Turned /\ moves \in 0 .. MaxMoves

Around(a) == a - PI \div 100 .. a + PI \div 100

\* However often the robot is turned, also across the half turn where
\* directions wrap, once it rests the filter comes to report its direction, to
\* a hundredth of the half turn.
Settles ==
  <>[](angle \in Around(turned - 2 * PI) \cup Around(turned) \cup
                  Around(turned + 2 * PI))
=============================================================================
