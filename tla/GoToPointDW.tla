---------------------------- MODULE GoToPointDW ----------------------------
(***************************************************************************)
(* The skill GoToPointDW: of the wheel speeds that can be reached from the *)
(* last ones in a frame, SkillSet::_goToPointDW (Skills/skillSet.cpp)      *)
(* takes those that bring the robot nearest to its destination.  Which     *)
(* these are is left open here; what can be reached is not.  The last      *)
(* speeds are kept in two static variables, one pair for all robots,       *)
(* whatever speeds other skills have set since.                            *)
(*                                                                         *)
(* Wheel speeds are tenths of a tick; velocities tenths of cm/s.  The code *)
(* takes the ticks it kept for cm/s.                                       *)
(***************************************************************************)
EXTENDS Field

CONSTANT Changes   \* the changes of a wheel's speed that may be the best, in ticks

VARIABLES
  ramp,    \* the sum of the two speeds kept
  speeds   \* those the last call set: left, right

vars == <<ramp, speeds>>

del_v_max == 15

\* n * k / d, truncated.
Scaled(n, k, d) == SGN(n) * ((AbsOf(n) * k) \div d)

ticksToCmS(n) == Scaled(n, 1107, 1000)
cmSToTicks(n) == Scaled(n, 1000, 1107)

-----------------------------------------------------------------------------
\* Twice the velocity after the wheels' changes have added to a.
Doubled(a) == ramp + ticksToCmS(10 * a)

\* The limits on velocity and wheels, and the ellipse on velocity times turning
\* rate: 780 cm/s2 for d = 6.5 cm, in squared cm/s.
Reachable(l, r) ==
  LET v2 == Doubled(l + r)
      turn == ticksToCmS(10 * (r - l))
      force == (v2 * (r - l)) \div 10
  IN /\ AbsOf(cmSToTicks(v2)) <= 20000
     /\ AbsOf(v2 + turn) <= 20000 /\ AbsOf(v2 - turn) <= 20000
     /\ force < 0 \/ force * force < 93222 * (4 * del_v_max * del_v_max - (l + r) * (l + r))

\* Mutant: the speeds are kept and set in cm/s.
KeptInCmS(v2) == v2

Kept(v2) == cmSToTicks(v2)

Drive ==
  \E l, r \in Changes :
    /\ Reachable(l, r)
    /\ ramp' = Kept(Doubled(l + r))
    /\ speeds' = <<(ramp' - 10 * (r - l)) \div 2, (ramp' + 10 * (r - l)) \div 2>>

\* Near the destination goToPointDW stops the robot, and the speeds stay kept.
Arrive == ramp' = ramp /\ speeds' = <<0, 0>>

Init == ramp = 0 /\ speeds = <<0, 0>>

Next == Drive \/ Arrive

Spec == Init /\ [][Next]_vars

-----------------------------------------------------------------------------
(* Properties *)

\* The only limits _goToPointDW tests are eight times the speed a robot can
\* drive at; yet no run of frames, of whichever robots, gets a wheel beyond 156
\* ticks, for taking ticks for cm/s loses a tenth of the speed in every frame.
TopSpeed == \A i \in {1, 2} : AbsOf(speeds[i]) <= 1560
=============================================================================
