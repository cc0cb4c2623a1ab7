---------------------------- MODULE AngleChooser ----------------------------
(***************************************************************************)
(* The class AngleChooser of Utils/intersection.cpp: a sorted set of       *)
(* intervals of directions a robot should not take.  An interval is closed *)
(* and runs counter-clockwise from start to end.                           *)
(***************************************************************************)
EXTENDS Angles, SequencesExt

Interval == [start : Directions, end : Directions]

\* How far b is from a, counter-clockwise.
angleDifference(a, b) == IF a > b THEN 2 * PI - (a - b) ELSE b - a

insideInterval(i, a) ==
  IF i.start < i.end THEN i.start <= a /\ a <= i.end
  ELSE i.start <= a \/ a <= i.end

-----------------------------------------------------------------------------
(* setInvalid *)

\* Mutant: the larger of the two sectors.
SectorLarger(a, b) ==
  LET lo == IF a > b THEN b ELSE a
      hi == IF a > b THEN a ELSE b
  IN IF hi - lo > PI THEN [start |-> lo, end |-> hi]
     ELSE [start |-> hi, end |-> lo]

\* The smaller of the two sectors between a and b.
Sector(a, b) ==
  LET lo == IF a > b THEN b ELSE a
      hi == IF a > b THEN a ELSE b
  IN IF hi - lo > PI THEN [start |-> hi, end |-> lo]
     ELSE [start |-> lo, end |-> hi]

Before(i, j) == 
  i.start < j.start \/ (i.start = j.start /\ i.end < j.end)

\* The set keeps its intervals sorted and holds an interval once.
Inserted(set, i) ==
  IF i \in Range(set) THEN set
  ELSE InsertAt(set, SelectLastInSeq(set, LAMBDA j : Before(j, i)) + 1, i)

\* Mutant: the line commented out at 202 and 209, the greater of the ends.
ExtendedMax(i, j) == [i EXCEPT !.end = IF @ > j.end THEN @ ELSE j.end]

\* Interval i, whose start comes first, takes in j.
Extended(i, j) ==
  [i EXCEPT !.end = IF angleDifference(i.start, @) > angleDifference(i.start, j.end)
                      THEN @ ELSE j.end]

\* Two neighbours become one if either contains the start of the other.
Merged(i, j) ==
  IF insideInterval(i, j.start) THEN <<Extended(i, j)>>
  ELSE IF insideInterval(j, i.start) THEN <<Extended(j, i)>>
  ELSE <<i, j>>

\* The pass over the sorted set merges each interval with the last one kept.
Swept(set) ==
  FoldLeft(LAMBDA kept, i : Front(kept) \o Merged(Last(kept), i),
           <<Head(set)>>, Tail(set))

\* Mutant: the last interval is not compared with the first.
ClosedOpen(set) == set

\* The last interval may wrap around to the first.
Closed(set) ==
  LET last == Last(set) first == Head(set) between == SubSeq(set, 2, Len(set) - 1)
  IN IF Len(set) <= 1 THEN set
     ELSE IF insideInterval(last, first.start)
       THEN between \o <<Extended(last, first)>>
     ELSE IF insideInterval(first, last.start)
       THEN <<Extended(first, last)>> \o between
     ELSE set

setInvalid(set, a, b) == Closed(Swept(Inserted(set, Sector(a, b))))

-----------------------------------------------------------------------------
isInvalid(set, a) == \E k \in DOMAIN set : insideInterval(set[k], a)

\* The first interval of the set that contains an invalid direction.
getLimits(set, a) ==
  set[SelectInSeq(set, LAMBDA i : insideInterval(i, a))]
=============================================================================
