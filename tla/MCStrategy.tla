----------------------------- MODULE MCStrategy -----------------------------
(***************************************************************************)
(* The filter for a robot and for the ball, put in front of our goal and   *)
(* in the opponents' half, and for a robot turned to and fro across the    *)
(* direction where the angles wrap, in tenths of a degree.  A robot seen   *)
(* in front of our goal is believed off the field at first: its first      *)
(* estimate is short of the two field lengths at which it is given up.     *)
(*                                                                         *)
(* Three loads of the library: one that the console serves, one that waits *)
(* in its backlog and one that is refused, with any order of starts and    *)
(* kills around them.                                                      *)
(***************************************************************************)
EXTENDS Strategy

MCPlaces == {-4300, 1500}

MCTurned == {-1750, 1300}
=============================================================================
