--------------------------- MODULE LocalAvoidance ---------------------------
(***************************************************************************)
(* LocalAvoidance::plan (Utils/LocalAvoidance.cpp): the direction a robot  *)
(* takes toward a point, given the obstacles around it.  Each obstacle     *)
(* invalidates the sector it subtends; then the robot takes the direction  *)
(* of the point or, if that is invalid, the nearer limit of the interval   *)
(* that contains it.                                                       *)
(*                                                                         *)
(* An obstacle is the direction it lies in and half the angle it subtends. *)
(* Further away than SAFE_RADIUS half the angle falls from a quarter turn; *)
(* nearer the radius shrinks with the distance, so that half the angle is  *)
(* always asin(0.8); at SAFE_RADIUS itself the test of line 150 is false   *)
(* and half the angle is 0.  The list of field boundaries is empty, its    *)
(* only call being commented out, so boundaries invalidate nothing.        *)
(***************************************************************************)
EXTENDS AngleChooser

CONSTANTS
  Obstacles,    \* the obstacles there may be
  MaxObstacles  \* bound on the obstacles of one plan; the code has nine robots

\* Half the angle is less than a quarter turn, being the asin of less than 1.
Obstacle == [dir : Directions, half : {h \in Nat : 2 * h < PI}]

VARIABLES
  seen,       \* the obstacles of this plan dealt with so far
  invalidSet, \* the intervals they have left
  thetaDD     \* the direction taken by the last plan, or None

vars == <<seen, invalidSet, thetaDD>>

None == PI + 1

Edge(o, side) == normalizeAngle(o.dir + side * o.half)

\* The sector an obstacle subtends.
Covers(o, a) == angleDifference(Edge(o, -1), a) <= 2 * o.half

-----------------------------------------------------------------------------
Avoid(o) ==
  /\ Cardinality(seen) < MaxObstacles
  /\ seen' = seen \cup {o}
  /\ invalidSet' = setInvalid(invalidSet, Edge(o, 1), Edge(o, -1))
  /\ thetaDD' = None

\* The direction taken instead of a.
Taken(set, a) ==
  LET limits == getLimits(set, a)
  IN IF ~isInvalid(set, a) THEN a
     ELSE IF angleDifference(limits.start, a) < angleDifference(a, limits.end)
            THEN limits.start
     ELSE limits.end

\* All obstacles are dealt with; the next plan has a new AngleChooser.
Steer(a) ==
  /\ thetaDD' = Taken(invalidSet, a)
  /\ seen' = {} /\ invalidSet' = <<>>

Init == seen = {} /\ invalidSet = <<>> /\ thetaDD = None

Next == (\E o \in Obstacles : Avoid(o)) \/ (\E a \in Directions : Steer(a))

Spec == Init /\ [][Next]_vars

-----------------------------------------------------------------------------
(* Properties *)

Blocked == {a \in Directions : \E o \in seen : Covers(o, a)}

\* The angle between two directions, whichever way round is shorter.
Apart(a, b) ==
  LET d == angleDifference(a, b) IN IF d > PI THEN 2 * PI - d ELSE d

Invalid == {a \in Directions : isInvalid(invalidSet, a)}

\* No obstacle is at SAFE_RADIUS: one that is leaves an interval whose ends
\* are equal, which insideInterval takes for all directions (SmallerSector).
Wide == \A o \in seen : o.half > 0

\* Merging intervals never invalidates a direction that no obstacle covers
\* (setInvalid, which replaces two intervals by one).
NeverOverblocks == Wide => Invalid \subseteq Blocked

\* The obstacles leave a gap.
Gap == Wide /\ Blocked # Directions

\* While the obstacles leave a gap, setInvalid loses none of what they cover,
\* whatever the order they come in and wherever the turn begins.
GapCoverExact == Gap => Blocked \subseteq Invalid

\* setInvalid is to invalidate the smaller of the sectors between two
\* directions (the comment on it in intersection.cpp), so that one obstacle
\* alone never blocks more than half a turn, wherever it is.
SmallerSector == \A o \in seen : seen = {o} => Cardinality(Invalid) <= PI + 1

\* While the obstacles leave a gap, no direction clear of them is nearer to the
\* one the robot wants than the one plan takes, and with up to three of them
\* that is never into an obstacle.  With four it may be: an interval that wraps
\* around is merged only with its neighbours and with the first, so a third one
\* may stay in the set inside it, and getLimits finds that one first.
TakesNearestClear ==
  LET clear == Directions \ Blocked
  IN Gap => \A a \in Directions :
       LET taken == Taken(invalidSet, a)
       IN /\ \A c \in clear : Apart(a, taken) <= Apart(a, c)
          /\ Cardinality(seen) <= 3 => \A o \in seen :
               taken \in {Edge(o, 1), Edge(o, -1)} \/ ~Covers(o, taken)
=============================================================================
