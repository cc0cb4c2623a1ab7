------------------------------- MODULE Angles -------------------------------
(***************************************************************************)
(* Directions as common/include/geometry.hpp has them: integers in         *)
(* -PI+1 .. PI, counter-clockwise, where the constant PI is half a turn.   *)
(***************************************************************************)
EXTENDS Integers

CONSTANT PI

Directions == 1 - PI .. PI

normalizeAngle(a) ==
  IF a > PI THEN a - 2 * PI ELSE IF a <= -PI THEN a + 2 * PI ELSE a
=============================================================================
