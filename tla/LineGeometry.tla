---------------------------- MODULE LineGeometry ----------------------------
(***************************************************************************)
(* The line geometry the matchers use (algorithm/geom_algorithm.cpp): the  *)
(* point of a line closest to a GPS point and how far along the line it is *)
(* (linear referencing), the part of a line between two offsets, and the   *)
(* bounding box of a line.                                                 *)
(*                                                                         *)
(* A line is a sequence of points with whole coordinates whose segments    *)
(* are parallel to an axis, so that lengths, offsets and closest points    *)
(* are whole too; distances to a line are compared by their squares.       *)
(***************************************************************************)
EXTENDS Integers, SequencesExt

Abs(n) == IF n < 0 THEN -n ELSE n

Distance(a, b) == Abs(a[1] - b[1]) + Abs(a[2] - b[2])
Dist2(a, b) == (a[1] - b[1]) * (a[1] - b[1]) + (a[2] - b[2]) * (a[2] - b[2])

IsLine(line) ==
  \A i \in 1 .. Len(line) - 1 :
    line[i][1] = line[i + 1][1] \/ line[i][2] = line[i + 1][2]

Segments(line) == 1 .. Len(line) - 1

\* The length of the line up to its vertex n, and of the whole line.
LengthTo(line, n) ==
  LET passed[i \in 0 .. Len(line) - 1] ==
        IF i = 0 THEN 0 ELSE passed[i - 1] + Distance(line[i], line[i + 1])
  IN  passed[n - 1]

LineLength(line) == LengthTo(line, Len(line))

\* The geometry of a road: it leads somewhere.
Line == { line \in Seq(Int \X Int) : Len(line) > 1 /\ IsLine(line) /\ LineLength(line) > 0 }

\* The point at an offset on (or, for an offset out of range, in line with)
\* the segment from a to b.
OnSegment(a, b, offset) ==
  LET L == Distance(a, b) IN
  <<a[1] + (offset * (b[1] - a[1])) \div L, a[2] + (offset * (b[2] - a[2])) \div L>>

-----------------------------------------------------------------------------
\* closest_point_on_segment: the projection, cut off at the ends.
ClosestOnSegment(p, a, b) ==
  LET L == Distance(a, b)
      along == ((p[1] - a[1]) * (b[1] - a[1]) + (p[2] - a[2]) * (b[2] - a[2])) \div L
      offset == IF L = 0 \/ along < 0 THEN 0 ELSE IF along > L THEN L ELSE along
      point == IF L = 0 THEN a ELSE OnSegment(a, b, offset)
  IN  [dist2 |-> Dist2(p, point), offset |-> offset, point |-> point]

\* A segment replaces the one remembered if it is strictly closer.
Closer(a, b) == a.dist2 < b.dist2

\* linear_referencing: the first of the closest segments.
LinearReferencing(p, line) ==
  LET on == [i \in Segments(line) |-> ClosestOnSegment(p, line[i], line[i + 1])]
      best[i \in 0 .. Len(line) - 1] ==
        IF i = 0 THEN 1 ELSE IF Closer(on[i], on[best[i - 1]]) THEN i ELSE best[i - 1]
      i == best[Len(line) - 1]
  IN  [on[i] EXCEPT !.offset = LengthTo(line, i) + @]

(***************************************************************************)
(* cutoffseg_unique: a line of two points is cut by proportion; of a       *)
(* longer one, segment after segment, the start if it lies between the     *)
(* offsets, then the points at the offsets if they lie inside the segment, *)
(* and of the last segment the end unless offset2 comes before it.         *)
(***************************************************************************)
Inside(offset, l1, l2) == l1 < offset /\ offset < l2

CutSegment(line, i, offset1, offset2) ==
  LET l1 == LengthTo(line, i)
      l2 == LengthTo(line, i + 1)
      at(offset) == IF Inside(offset, l1, l2)
                    THEN << OnSegment(line[i], line[i + 1], offset - l1) >> ELSE <<>>
  IN  (IF offset1 <= l1 /\ l1 <= offset2 THEN << line[i] >> ELSE <<>>)
      \o at(offset1) \o at(offset2)
      \o (IF i = Len(line) - 1 /\ offset2 >= l2 THEN << line[i + 1] >> ELSE <<>>)

CutoffsegUnique(line, offset1, offset2) ==
  IF Len(line) = 2
  THEN << OnSegment(line[1], line[2], offset1), OnSegment(line[1], line[2], offset2) >>
  ELSE LET cut[i \in 0 .. Len(line) - 1] ==
             IF i = 0 THEN <<>> ELSE cut[i - 1] \o CutSegment(line, i, offset1, offset2)
       IN  cut[Len(line) - 1]

\* Fault seed: mode 1 cuts as mode 0 does.
CutToEnd(line, offset) == CutoffsegUnique(line, offset, LineLength(line))

\* cutoffseg with mode 0, the line from an offset, and with mode 1.
CutFrom(line, offset) == CutoffsegUnique(line, offset, LineLength(line))
CutTo(line, offset) == CutoffsegUnique(line, 0, offset)

-----------------------------------------------------------------------------
Xs(line) == { line[i][1] : i \in DOMAIN line }
Ys(line) == { line[i][2] : i \in DOMAIN line }
Least(S) == CHOOSE n \in S : \A other \in S : n <= other
Greatest(S) == CHOOSE n \in S : \A other \in S : n >= other

\* Fault seed: the box of the two ends.
BoxOfEnds(line) ==
  LET ends == << line[1], line[Len(line)] >> IN
  [x1 |-> Least(Xs(ends)), y1 |-> Least(Ys(ends)),
   x2 |-> Greatest(Xs(ends)), y2 |-> Greatest(Ys(ends))]

\* boundingbox_geometry: the greatest coordinates are sought from DBL_MIN
\* up, which is the least positive number: 0 here.
BoundingBox(line) ==
  [x1 |-> Least(Xs(line)), y1 |-> Least(Ys(line)),
   x2 |-> Greatest(Xs(line) \cup {0}), y2 |-> Greatest(Ys(line) \cup {0})]

Overlap(a, b) == a.x1 <= b.x2 /\ b.x1 <= a.x2 /\ a.y1 <= b.y2 /\ b.y1 <= a.y2

-----------------------------------------------------------------------------
\* Reference: the points of a line, each with every offset it lies at.
PointsOf(line) ==
  UNION { { [point |-> OnSegment(line[i], line[i + 1], o), offset |-> LengthTo(line, i) + o] :
              o \in 0 .. Distance(line[i], line[i + 1]) } :
            i \in { j \in Segments(line) : line[j] # line[j + 1] } }
=============================================================================
