---------------------------- MODULE TacticStates ----------------------------
(***************************************************************************)
(* What the tactics that are state machines have in common: a state kept   *)
(* between frames, and cases that change it or command the robot.  A state *)
(* that a case changes to is acted on in the next frame.                   *)
(***************************************************************************)
EXTENDS Tactic

VARIABLE iState   \* the state of the tactic

vars == <<state, iState, sent, counter>>

\* A case that only changes the state, and one that only commands.
SwitchTo(st) == iState' = st /\ sent' = Silence

Send(command) == iState' = iState /\ sent' = <<command>>
=============================================================================
