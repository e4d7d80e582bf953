---------------------------- MODULE EventContainers ----------------------------
(***************************************************************************)
(* The containers that do more than hold what they are given: the running  *)
(* statistics, the sliding window, and the grid whose cells are windows.   *)
(* Stats_ computes the same statistics for the containers that do hold     *)
(* their events, in two ways: over the bounding box, or over sorted keys.  *)
(***************************************************************************)
EXTENDS Filtering, Integers, Sequences, FiniteSets, FiniteSetsExt, SequencesExt

CONSTANTS
    SensorSize,       \* <<width, height>> of the sensor the grid covers
    Cells,            \* <<columns, rows>> of the grid
    CellWindow,       \* window of each of its cells
    Windows,          \* values of setWindow()
    MaxAreaPerEvent,  \* MAX_AREA_PER_EVENT
    CLogC             \* the function c * log2(c), over the counts

\* What the constructor of Grid_ refuses otherwise.
ASSUME CellsAssumption ==
    /\ SensorSize \in (Nat \ {0}) \X (Nat \ {0})
    /\ Cells \in (1..SensorSize[1]) \X (1..SensorSize[2])

\* cLog2C(0) is zero.
ASSUME CLogCAssumption == CLogC[0] = 0 /\ \A c \in DOMAIN CLogC : CLogC[c] \in Int

ASSUME WindowsAssumption == CellWindow \in Int /\ Windows \subseteq Int

VARIABLES
    stats,            \* the StatsContainer_
    slide,            \* the SlidingWindow_: [window, events]
    grid,             \* the Grid_, a function from the cells to their events
    pushed,           \* the events given to all three since they were cleared (ghost)
    since             \* how many of them setWindow() found (ghost)

containers == <<stats, slide, grid, pushed, since>>

-------------------------------------------------------------------------------
(* Rectangles, as cv::Rect: [x, y, w, h].                                   *)

NoRect == [x |-> 0, y |-> 0, w |-> 0, h |-> 0]
Left(a, b) == IF a < b THEN a ELSE b
Right(a, b) == IF a > b THEN a ELSE b

Holds(r, x, y) == x - r.x \in 0..r.w - 1 /\ y - r.y \in 0..r.h - 1

\* The rectangle r |= Rect(x, y, 1, 1).
Joined(r, x, y) ==
    IF r.w <= 0 \/ r.h <= 0 THEN [x |-> x, y |-> y, w |-> 1, h |-> 1]
    ELSE [x |-> Left(r.x, x), y |-> Left(r.y, y),
          w |-> Right(r.x + r.w, x + 1) - Left(r.x, x),
          h |-> Right(r.y + r.h, y + 1) - Left(r.y, y)]

-------------------------------------------------------------------------------
(* StatsContainer_.                                                        *)

NoSums == [n |-> 0, first |-> 0, last |-> 0, x |-> 0, y |-> 0, t |-> 0, p |-> 0,
           xx |-> 0, yy |-> 0, xy |-> 0, bounds |-> NoRect, active |-> 0, peak |-> 0,
           cLogC |-> 0]

Sign(e) == IF e.p THEN 1 ELSE 0

\* One dimension of the box, grown to hold v: by half at least, on the side of v.
Size(o, w, v) ==
    LET needed == Right(o + w, v + 1) - Left(o, v)
    IN  IF needed > w THEN Right(needed, (w * 3) \div 2) ELSE needed

Origin(o, w, v) == IF v < o THEN (o + w) - Size(o, w, v) ELSE o

GrownBox(box, x, y) ==
    IF box.w <= 0 \/ box.h <= 0 THEN [x |-> x, y |-> y, w |-> 1, h |-> 1]
    ELSE [x |-> Origin(box.x, box.w, x), y |-> Origin(box.y, box.h, y),
          w |-> Size(box.x, box.w, x), h |-> Size(box.y, box.h, y)]

\* The place of a pixel in the counts of a box.
Index(box, x, y) == (y - box.y) * box.w + (x - box.x)

\* Mutant: the counts keep their places, whatever the width of the rows.
MovedFlat(counts, old, new) ==
    [i \in 0..new.w * new.h - 1 |-> IF i \in DOMAIN counts THEN counts[i] ELSE 0]

\* The counts of a box moved to another, row by row.
Moved(counts, old, new) ==
    [i \in 0..new.w * new.h - 1 |->
       LET x == new.x + (i % new.w)
           y == new.y + (i \div new.w)
       IN  IF Holds(old, x, y) THEN counts[Index(old, x, y)] ELSE 0]

Extent(e) ==
    IF Holds(stats.box, e.x, e.y) THEN stats.box ELSE GrownBox(stats.box, e.x, e.y)

CountsIn(box) ==
    IF box = stats.box THEN stats.counts ELSE Moved(stats.counts, stats.box, box)

\* What push() adds to the sums, c being the count of the pixel before.
Summed(s, e, c) ==
    [n |-> s.n + 1, first |-> IF s.n = 0 THEN e.t ELSE s.first, last |-> e.t,
     x |-> s.x + e.x, y |-> s.y + e.y, t |-> s.t + e.t, p |-> s.p + Sign(e),
     xx |-> s.xx + e.x * e.x, yy |-> s.yy + e.y * e.y, xy |-> s.xy + e.x * e.y,
     bounds |-> Joined(s.bounds, e.x, e.y),
     active |-> s.active + (IF c = 0 THEN 1 ELSE 0), peak |-> Right(s.peak, c + 1),
     cLogC |-> s.cLogC + (CLogC[c + 1] - CLogC[c])]

Accounted(e) ==
    LET box == Extent(e)
        counts == CountsIn(box)
        i == Index(box, e.x, e.y)
    IN  [box |-> box, counts |-> [counts EXCEPT ![i] = @ + 1],
         sums |-> Summed(stats.sums, e, counts[i])]

\* The box keeps its extent.
Cleared == [stats EXCEPT !.sums = NoSums, !.counts = [i \in DOMAIN @ |-> 0]]

-------------------------------------------------------------------------------
(* Stats_, over a sequence of events.                                      *)

Sum(values) == MapThenSumSet(LAMBDA i : values[i], DOMAIN values)

XsOf(s) == {s[i].x : i \in DOMAIN s}
YsOf(s) == {s[i].y : i \in DOMAIN s}

Bounds(s) == [x |-> Min(XsOf(s)), y |-> Min(YsOf(s)),
              w |-> Max(XsOf(s)) - Min(XsOf(s)) + 1, h |-> Max(YsOf(s)) - Min(YsOf(s)) + 1]

\* The box is small enough to count over it.
Dense(s) == Bounds(s).w <= (MaxAreaPerEvent * Len(s)) \div Bounds(s).h

\* The counts over the box, by place, zeros included.
CountsOverBox(s) ==
    LET b == Bounds(s)
    IN  [i \in 0..b.w * b.h - 1 |->
           Cardinality({j \in DOMAIN s : Index(b, s[j].x, s[j].y) = i})]

\* The keys (y, x) of the events in an order of theirs, and where the runs of equal
\* ones begin.
Before(s, i, j) ==
    \/ s[i].y < s[j].y
    \/ s[i].y = s[j].y /\ s[i].x < s[j].x
    \/ s[i].y = s[j].y /\ s[i].x = s[j].x /\ i < j

Rank(s, j) == 1 + Cardinality({i \in DOMAIN s : Before(s, i, j)})

Sorted(s) ==
    [r \in DOMAIN s |-> LET e == s[CHOOSE j \in DOMAIN s : Rank(s, j) = r] IN <<e.y, e.x>>]

Starts(k) == {i \in DOMAIN k : i = 1 \/ k[i] # k[i - 1]}

RunFrom(k, i) == Min({j \in Starts(k) : j > i} \cup {Len(k) + 1}) - i

\* What forEachPixelCount_() calls fn with, as how many times with each count.
CountsBag(s) ==
    LET counts == CountsOverBox(s)
        keys == Sorted(s)
    IN  [c \in 1..Len(s) |->
           IF Dense(s) THEN Cardinality({i \in DOMAIN counts : counts[i] = c})
           ELSE Cardinality({i \in Starts(keys) : RunFrom(keys, i) = c})]

ActivePixels(s) == Sum(CountsBag(s))
Peak(s) == LET bag == CountsBag(s) IN Max({c \in DOMAIN bag : bag[c] > 0})
Entropies(s) == LET bag == CountsBag(s) IN Sum([c \in DOMAIN bag |-> bag[c] * CLogC[c]])

\* The coordinates, the times and the polarities of the events.
XOf(s) == [i \in DOMAIN s |-> s[i].x]
YOf(s) == [i \in DOMAIN s |-> s[i].y]
TOf(s) == [i \in DOMAIN s |-> s[i].t]
POf(s) == [i \in DOMAIN s |-> Sign(s[i])]

\* The means and the ratios, times the count; the polarity is that of the majority.
MeanPoint(s) == <<Sum(XOf(s)), Sum(YOf(s))>>
MeanTime(s) == Sum(TOf(s))
Mean(s) == <<MeanPoint(s), MeanTime(s), 2 * Sum(POf(s)) > Len(s)>>
PolarityRatio(s, p) == Cardinality({i \in DOMAIN s : s[i].p = p})

Duration(s) == s[Len(s)].t - s[1].t

\* Twice the time.
MidTime(s) == s[1].t + s[Len(s)].t

\* The variances and the covariance around the mean, times the cube of the count.
Covariance(u, v) ==
    LET n == Len(u)
    IN  Sum([i \in DOMAIN u |-> (n * u[i] - Sum(u)) * (n * v[i] - Sum(v))])

FromEvents(s) ==
    [count |-> Len(s), duration |-> Duration(s), midTime |-> MidTime(s),
     mean |-> Mean(s), ratio |-> [p \in BOOLEAN |-> PolarityRatio(s, p)],
     covariance |-> <<Covariance(XOf(s), XOf(s)), Covariance(XOf(s), YOf(s)),
                      Covariance(YOf(s), YOf(s))>>,
     box |-> Bounds(s), active |-> ActivePixels(s), peak |-> Peak(s),
     entropy |-> Entropies(s)]

\* The same, from the sums of a StatsContainer_.
FromSums(s) ==
    [count |-> s.n, duration |-> s.last - s.first, midTime |-> s.first + s.last,
     mean |-> << <<s.x, s.y>>, s.t, 2 * s.p > s.n>>,
     ratio |-> [p \in BOOLEAN |-> IF p THEN s.p ELSE s.n - s.p],
     covariance |-> <<s.n * (s.n * s.xx - s.x * s.x), s.n * (s.n * s.xy - s.x * s.y),
                      s.n * (s.n * s.yy - s.y * s.y)>>,
     box |-> s.bounds, active |-> s.active, peak |-> s.peak, entropy |-> s.cLogC]

-------------------------------------------------------------------------------
(* SlidingWindow_, and Grid_.                                               *)

\* Mutant: what is as old as the window is discarded too.
OldAtOnce(w, newest, e) == newest - e.t >= w

Old(w, newest, e) == newest - e.t > w

\* trim(): drop from the front what is older than the window, up to the first
\* that is not; a window of zero, or less, keeps everything.
Trimmed(s, w) ==
    IF w <= 0 \/ s = <<>> THEN s
    ELSE LET young == {i \in DOMAIN s : ~Old(w, s[Len(s)].t, s[i])}
         IN  SubSeq(s, Min(young), Len(s))

\* Mutant: rounded down.
CellSizeDown(d) == SensorSize[d] \div Cells[d]

\* The size of a cell, rounded up so that the cells cover the sensor.
CellSize(d) == (SensorSize[d] + Cells[d] - 1) \div Cells[d]

CellOf(e) == <<e.x \div CellSize(1), e.y \div CellSize(2)>>

OnSensor(e) == e.x \in 0..SensorSize[1] - 1 /\ e.y \in 0..SensorSize[2] - 1

\* index_(): the cell <<column, row>> as a place in the vector of the cells.
CellIndex(c) == c[2] * Cells[1] + c[1]

\* operator(): the cell of a row and a column.
CellAt(row, col) == grid[CellIndex(<<col, row>>)]

\* insert(): false for an event outside the sensor, which no cell takes.
Inserted(e) ==
    IF ~OnSensor(e) THEN grid
    ELSE [grid EXCEPT ![CellIndex(CellOf(e))] = Trimmed(Append(@, e), CellWindow)]

-------------------------------------------------------------------------------
EmptyGrid == [i \in 0..Cells[1] * Cells[2] - 1 |-> <<>>]

ContainersInit ==
    /\ stats = [box |-> NoRect, counts |-> [i \in {} |-> 0], sums |-> NoSums]
    /\ \E w \in Windows : slide = [window |-> w, events |-> <<>>]
    /\ grid = EmptyGrid
    /\ pushed = <<>>
    /\ since = 0

Push(e) ==
    /\ stats' = Accounted(e)
    /\ slide' = [slide EXCEPT !.events = Trimmed(Append(@, e), slide.window)]
    /\ grid' = Inserted(e)
    /\ pushed' = Append(pushed, e)
    /\ UNCHANGED since

SetWindow ==
    /\ \E w \in Windows : slide' = [window |-> w, events |-> Trimmed(slide.events, w)]
    /\ since' = Len(pushed)
    /\ UNCHANGED <<stats, grid, pushed>>

\* clear() of the three.
Clear ==
    /\ stats' = Cleared
    /\ slide' = [slide EXCEPT !.events = <<>>]
    /\ grid' = EmptyGrid
    /\ pushed' = <<>>
    /\ since' = 0

-------------------------------------------------------------------------------
\* The accumulators, kept up to date one event at a time in a box that grows in
\* any direction, are the statistics that Stats_ computes over the same events,
\* whether over their bounding box or over sorted keys.
StatsAgree == pushed # <<>> => FromSums(stats.sums) = FromEvents(pushed)

\* The events of s that a window w of the newest one reaches.
Reached(s, w) == Among(s, {e \in Range(s) : w <= 0 \/ s[Len(s)].t - e.t <= w})

\* The sliding window holds the newest events, in order; none is older than the
\* window, and none that came since setWindow() is missing that is not.
WindowKeeps ==
    /\ IsSuffix(slide.events, pushed)
    /\ Reached(slide.events, slide.window) = slide.events
    /\ IsSuffix(Reached(SubSeq(pushed, since + 1, Len(pushed)), slide.window), slide.events)

\* The events that were pushed to a cell.
OfCell(c) == Among(pushed, {e \in Range(pushed) : OnSensor(e) /\ CellOf(e) = c})

\* Every event on the sensor has a cell, and each cell holds what a window of its
\* own would hold of its events: no cell takes, or makes forget, those of another.
GridKeeps ==
    LET columns == 0..Cells[1] - 1
        rows == 0..Cells[2] - 1
    IN  /\ \A i \in DOMAIN pushed :
             OnSensor(pushed[i]) => CellOf(pushed[i]) \in columns \X rows
        /\ \A c \in columns \X rows :
             CellAt(c[2], c[1]) = Reached(OfCell(c), CellWindow)
===============================================================================
