------------------------------ MODULE MCPipeline ------------------------------
(***************************************************************************)
(* Instances of Pipeline: a program per filter and one with a chain of two, *)
(* one that fills the containers, and one that draws.  The image has three *)
(* pixels, so that the median of their counts can be below one of them.    *)
(* Times are even and Tiny is one: positive, and before any time after     *)
(* zero.                                                                   *)
(***************************************************************************)
EXTENDS Pipeline

MCLowest == -1000
MCDts == {2, 4}
MCCriteria == {[window |-> 4, factor |-> 1, limit |-> 0],
               [window |-> 2, factor |-> 0, limit |-> 1]}
MCCells == <<3, 2>>
MCSensorSize == <<7, 2>>
MCCLogC == [c \in 0..8 |-> c * c * c]
MCOptions == {{}, {"only_if_negative", "ignore_polarity"}}
MCInitialColors == [on |-> 9, off |-> 1, reset |-> 5]
MCColors == {[on |-> 8, off |-> 2, reset |-> 0]}
MCColormaps == {[low |-> 0, middle |-> 4, high |-> 9]}
MCBackgrounds ==
    {[at |-> <<1, 0>>, pixels |-> [q \in {<<0, 0>>} |-> 7], suits |-> TRUE],
     [at |-> <<1, 0>>, pixels |-> [q \in {<<0, 0>>} |-> 7], suits |-> FALSE],
     [at |-> <<1, 0>>, pixels |-> [q \in {<<1, 0>>, <<2, 0>>} |-> 7], suits |-> TRUE]}

\* On the back face everything is seen one column to the left, or to the right.
MCViews == {"left", "right"}
MCProject(q, part, whole, view) ==
    IF part = whole THEN <<q[1] + (IF view = "left" THEN -1 ELSE 1), q[2]>> ELSE q

\* The axes cover the column where the back face begins.
MCAxesAt(view) == {q \in Frame : q[1] = IF view = "left" THEN 0 ELSE 1}

\* A lens that moves a pixel, and one that moves none.
MCMapSize == <<3, 3>>
MCLens(q) == <<q[1] - 1, 2 * q[2]>>
MCNoLens(q) == q

MCPrograms ==
    {[chain |-> <<"hot">>, sink |-> "containers",
      places |-> {<<0, 0>>, <<2, 0>>}, delays |-> {0, 2}, polarities |-> {TRUE},
      events |-> 5, settings |-> 0],
     [chain |-> <<"hot">>, sink |-> "containers",
      places |-> {<<0, 0>>, <<2, 0>>}, delays |-> {0, 2}, polarities |-> {TRUE},
      events |-> 4, settings |-> 1],
     [chain |-> <<"background", "refractory">>, sink |-> "containers",
      places |-> {<<0, 0>>, <<1, 1>>, <<2, 0>>}, delays |-> {0, 2, 4},
      polarities |-> {TRUE}, events |-> 3, settings |-> 1],
     [chain |-> <<"refractory">>, sink |-> "containers",
      places |-> {<<0, 0>>, <<1, 0>>}, delays |-> {0, 2}, polarities |-> {TRUE},
      events |-> 4, settings |-> 1],
     [chain |-> <<>>, sink |-> "containers",
      places |-> {<<1, 1>>}, delays |-> {2}, polarities |-> BOOLEAN,
      events |-> 4, settings |-> 0],
     [chain |-> <<>>, sink |-> "containers",
      places |-> {<<3, 0>>, <<6, 1>>, <<2, 0>>, <<-2, 0>>}, delays |-> {0, 2},
      polarities |-> {TRUE}, events |-> 4, settings |-> 1],
     [chain |-> <<>>, sink |-> "representations",
      places |-> {<<0, 0>>, <<1, 0>>, <<3, 0>>}, delays |-> {2}, polarities |-> BOOLEAN,
      events |-> 3, settings |-> 1],
     [chain |-> <<>>, sink |-> "representations",
      places |-> {<<0, 0>>, <<1, 0>>, <<2, 0>>}, delays |-> {2}, polarities |-> {FALSE},
      events |-> 4, settings |-> 0],
     [chain |-> <<>>, sink |-> "representations",
      places |-> {<<0, 0>>, <<1, 0>>}, delays |-> {2}, polarities |-> BOOLEAN,
      events |-> 3, settings |-> 2],
     [chain |-> <<"undistort">>, sink |-> "representations",
      places |-> {0, 1, 2, 3} \X {0, 1, 2}, delays |-> {2}, polarities |-> {TRUE},
      events |-> 2, settings |-> 0]}
===============================================================================
