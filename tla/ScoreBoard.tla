----------------------------- MODULE ScoreBoard -----------------------------
(***************************************************************************)
(* What counting goals from ball positions promises: while the board is    *)
(* armed a goal of either side is counted once, which disarms it, and      *)
(* nothing is counted until play has resumed and armed it again.           *)
(***************************************************************************)
EXTENDS Naturals

VARIABLES our, opp, armed

vars == <<our, opp, armed>>

Init == our = 0 /\ opp = 0 /\ armed = TRUE

Count ==
  /\ armed
  /\ armed' = FALSE
  /\ \/ our' = our + 1 /\ opp' = opp
     \/ opp' = opp + 1 /\ our' = our

Rearm ==
  /\ ~armed
  /\ armed' = TRUE
  /\ UNCHANGED <<our, opp>>

Next == Count \/ Rearm

Spec == Init /\ [][Next]_vars
=============================================================================
