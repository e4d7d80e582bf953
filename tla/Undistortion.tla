------------------------------ MODULE Undistortion ------------------------------
(***************************************************************************)
(* UndistortMap: where the lens of a camera would have put each pixel.     *)
(* init() gives cv::undistortPoints() a list of pixels and lays what it    *)
(* returns over the map, row by row; operator() moves an event to what the *)
(* map has at its pixel.                                                   *)
(***************************************************************************)
EXTENDS Integers, Sequences

CONSTANTS
    MapSize,      \* <<columns, rows>>
    Lens(_)       \* cv::undistortPoints() of a pixel, rounded as operator() does

ASSUME MapAssumption ==
    /\ MapSize \in (Nat \ {0}) \X (Nat \ {0})
    /\ \A q \in (0..MapSize[1] - 1) \X (0..MapSize[2] - 1) : Lens(q) \in Int \X Int

\* Mutant: a row is one pixel longer than the map.
RowEndsAfter(x) == x > MapSize[1]

RowEnds(x) == x >= MapSize[1]

\* The lambda that std::generate() calls: what it captures, and its last point.
\* At the end of a row the point is made before y moves on, with the old row.
Generated[i \in Nat] ==
    IF i = 0 THEN [x |-> -1, y |-> 0, point |-> <<>>]
    ELSE LET g == Generated[i - 1]
         IN  IF RowEnds(g.x + 1)
               THEN [x |-> 0, y |-> g.y + 1, point |-> <<0, g.y>>]
             ELSE [x |-> g.x + 1, y |-> g.y, point |-> <<g.x + 1, g.y>>]

\* The map, filled in the order in which the points were generated.
MapAt(q) == Lens(Generated[q[2] * MapSize[1] + q[1] + 1].point)

OnMap(q) == q \in (0..MapSize[1] - 1) \X (0..MapSize[2] - 1)

\* operator() of an event: its point alone is replaced, and one off the map is not.
Undistorted(e) ==
    LET q == <<e.x, e.y>>
    IN  IF OnMap(q) THEN [e EXCEPT !.x = MapAt(q)[1], !.y = MapAt(q)[2]] ELSE e
===============================================================================
