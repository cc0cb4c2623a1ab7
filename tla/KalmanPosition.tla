--------------------------- MODULE KalmanPosition ---------------------------
(***************************************************************************)
(* One coordinate of one body in the filter of Utils/kalman.cpp.  addInfo  *)
(* runs the same steps for the x and the y of ten robots and of the ball,  *)
(* and none of the twenty-two reads another, so one is modelled.           *)
(*                                                                         *)
(* The floats are integers here: positions are tenths of a millimetre,     *)
(* velocities tenths of a millimetre per frame (the code fixes delTime at  *)
(* 1/60 s, whatever time has passed), variances ten-thousandths.           *)
(***************************************************************************)
EXTENDS Field

CONSTANTS
  Places,    \* where the simulator may put the body, in millimetres
  MaxMoves,  \* bound on how often it is somewhere else than the frame before
  Settling   \* how many frames are counted since the last move

VARIABLES
  pose, velocity, sigmaSq,   \* the filter's
  place,                     \* where the body was seen last
  moves, still               \* counts of moves, and of frames since the last

vars == <<pose, velocity, sigmaSq, place, moves, still>>

SIGMA_SQ_NOISE_POS == 100     \* 0.6, times delTime
SIGMA_SQ_OBSVN_POS == 1000    \* 0.1

\* A share k / (k + SIGMA_SQ_OBSVN_POS) of n: k is the variance, the share the
\* gain.
Gain(k, n) == (k * n) \div (k + SIGMA_SQ_OBSVN_POS)

-----------------------------------------------------------------------------
(* The robots start off the field, the ball in its centre; the gain is 1,  *)
(* which leaves nothing of the variance, as if that were 0.                *)

RobotStart == 2 * HALF_FIELD_MAXX + 4 * BOT_RADIUS
BallStart  == 0

Init ==
  /\ pose \in {10 * RobotStart, 10 * BallStart} /\ velocity = 0 /\ sigmaSq = 0
  /\ place \in Places /\ moves = 0 /\ still = 0

-----------------------------------------------------------------------------
(* addInfo *)

\* An estimate more than a field away is given up for the measurement.
checkValid(p, reset) ==
  IF AbsOf(p) <= 20 * HALF_FIELD_MAXX
    THEN pose' = p /\ velocity' = p - pose
    ELSE pose' = reset /\ velocity' = 0

Variance(k) == k - Gain(k, k) + SIGMA_SQ_NOISE_POS

\* Mutant: the measurement is compared with the last estimate.
addInfoUnpredicted(z) ==
  LET k == Variance(sigmaSq)
  IN /\ sigmaSq' = k
     /\ checkValid(pose + velocity + Gain(k, 10 * z - pose), 10 * z)

addInfo(z) ==
  LET predicted == pose + velocity
      k == Variance(sigmaSq)
  IN /\ sigmaSq' = k
     /\ checkValid(predicted + Gain(k, 10 * z - predicted), 10 * z)

\* What update copies to the belief: whole millimetres, toward zero.
Reported == SGN(pose) * (AbsOf(pose) \div 10)

Frame(z) ==
  /\ IF z = place
       THEN moves' = moves /\ still' = IF still < Settling THEN still + 1 ELSE still
       ELSE moves < MaxMoves /\ moves' = moves + 1 /\ still' = 0
  /\ place' = z
  /\ addInfo(z)

Next == \E z \in Places : Frame(z)

-----------------------------------------------------------------------------
(* Properties *)

\* After the first frame addInfo keeps the estimate within a field's length
\* of the centre, and the gain stays under 375/1375.
TypeOK ==
  /\ AbsOf(pose) <= 20 * HALF_FIELD_MAXX \/ sigmaSq = 0
  /\ velocity \in Int
  /\ sigmaSq \in 0 .. 375
  /\ place \in Places /\ moves \in 0 .. MaxMoves /\ still \in 0 .. Settling

\* Each move makes the estimate swing past the body and back; Settling frames
\* later no robot's width is left of the swing, not even of a start off the
\* field that addInfo has not given up.
SettledInTime == still = Settling => AbsOf(Reported - place) < BOT_RADIUS
=============================================================================
