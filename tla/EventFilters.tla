------------------------------ MODULE EventFilters ------------------------------
(***************************************************************************)
(* The three event filters of evproc: background activity, refractory      *)
(* period and hot pixels.  Each is an object that is called once per event *)
(* and keeps what it needs of the events before; its setters and its reset *)
(* may be called at any point of the stream.                               *)
(*                                                                         *)
(* An event is a record [x, y, t, p].  Times are integers; Lowest stands   *)
(* for the lowest() the maps are filled with, older than any dt reaches.   *)
(***************************************************************************)
EXTENDS Integers, Sequences, FiniteSets, FiniteSetsExt

CONSTANTS
    Width, Height,  \* the sensor
    Radius,         \* of the neighbourhood of the background activity filter
    Dts,            \* values of dt_, of both filters that have one
    Criteria,       \* [window, factor, limit] of the hot pixel filter
    Lowest

ASSUME SensorAssumption == Width \in Nat /\ Height \in Nat /\ Radius \in Nat

\* A pixel that nothing was heard of is out of the reach of any dt, from zero on.
ASSUME LowestAssumption == Lowest \in Int /\ Dts \subseteq Int /\ \A dt \in Dts : Lowest < -dt

ASSUME CriteriaAssumption == Criteria \subseteq [window : Int, factor : Nat, limit : Nat]

VARIABLES
    background,     \* [map, dt]
    refractory,     \* [map, dt]
    hot,            \* [counts, mask, started, start, criterion]
    heard           \* per filter, its calls since it was made or reset (ghost)

filters == <<background, refractory, hot, heard>>

Filters == {"background", "refractory", "hot"}
Sensor == (0..Width - 1) \X (0..Height - 1)
PixelOf(e) == <<e.x, e.y>>
NoTimes == [q \in Sensor |-> Lowest]
NoCounts == [q \in Sensor |-> 0]

FiltersInit ==
    /\ \E dt \in Dts : background = [map |-> NoTimes, dt |-> dt]
    /\ \E dt \in Dts : refractory = [map |-> NoTimes, dt |-> dt]
    /\ \E c \in Criteria :
         hot = [counts |-> NoCounts, mask |-> {}, started |-> FALSE, start |-> 0,
                criterion |-> c]
    /\ heard = [f \in Filters |-> <<>>]

\* The ghost: what filter f was asked, under which parameters, and its answer.
Hears(f, e, rule, passed) ==
    heard' = [heard EXCEPT ![f] = Append(@, [e |-> e, rule |-> rule, passed |-> passed])]

-------------------------------------------------------------------------------
(* Background activity.                                                    *)

Neighbours(e) ==
    {q \in Sensor : /\ q[1] - e.x \in -Radius..Radius
                    /\ q[2] - e.y \in -Radius..Radius
                    /\ q # PixelOf(e)}

Correlated(e) ==
    \E q \in Neighbours(e) : background.map[q] >= e.t - background.dt

\* Mutant: only an event that passes is recorded.
RecordedIfPasses(e) ==
    IF Correlated(e) THEN [background.map EXCEPT ![PixelOf(e)] = e.t] ELSE background.map

\* Every event is recorded, whether it passes or not.
Recorded(e) == [background.map EXCEPT ![PixelOf(e)] = e.t]

BackgroundActivity(e) ==
    /\ background' = [background EXCEPT !.map = Recorded(e)]
    /\ Hears("background", e, background.dt, Correlated(e))
    /\ UNCHANGED <<refractory, hot>>

-------------------------------------------------------------------------------
(* Refractory period.                                                      *)

Idle(e) == e.t - refractory.map[PixelOf(e)] >= refractory.dt

\* Mutant: an event that is held back prolongs the inhibition.
InhibitsAlways(e) == [refractory.map EXCEPT ![PixelOf(e)] = e.t]

\* Only an event that passes starts a new inhibition.
Inhibits(e) ==
    IF Idle(e) THEN [refractory.map EXCEPT ![PixelOf(e)] = e.t] ELSE refractory.map

RefractoryPeriod(e) ==
    /\ refractory' = [refractory EXCEPT !.map = Inhibits(e)]
    /\ Hears("refractory", e, refractory.dt, Idle(e))
    /\ UNCHANGED <<background, hot>>

-------------------------------------------------------------------------------
(* Hot pixels: the counts of a window decide what passes during the next.  *)

\* The event e is the first of a window after the one that it ends.
WindowEnds(e) == hot.started /\ e.t - hot.start >= hot.criterion.window

\* Whether a count among others is over the criterion c: factor times the mean
\* over the active pixels, or the limit, a zero disabling either.
Over(count, events, active, c) ==
    \/ c.factor > 0 /\ count * active > c.factor * events
    \/ c.limit > 0 /\ count > c.limit

HotPixels ==
    LET active == {q \in Sensor : hot.counts[q] > 0}
        events == MapThenSumSet(LAMBDA q : hot.counts[q], active)
    IN  {q \in Sensor : Over(hot.counts[q], events, Cardinality(active), hot.criterion)}

\* Mutant: the counts go on over the windows.
CountedOn(e) == hot.counts

\* The counts the event is added to: evaluate_() sets all of them to zero.
Counted(e) == IF WindowEnds(e) THEN NoCounts ELSE hot.counts

Mask(e) == IF WindowEnds(e) THEN HotPixels ELSE hot.mask

NotHot(e) == PixelOf(e) \notin Mask(e)

HotPixel(e) ==
    /\ hot' = [hot EXCEPT
                 !.counts = [Counted(e) EXCEPT ![PixelOf(e)] = @ + 1],
                 !.mask = Mask(e),
                 !.started = TRUE,
                 !.start = IF ~hot.started \/ WindowEnds(e) THEN e.t ELSE @]
    /\ Hears("hot", e, hot.criterion, NotHot(e))
    /\ UNCHANGED <<background, refractory>>

-------------------------------------------------------------------------------
(* The setters, and reset().                                               *)

SetBackgroundDt ==
    /\ \E dt \in Dts : background' = [background EXCEPT !.dt = dt]
    /\ UNCHANGED <<refractory, hot, heard>>

SetRefractoryDt ==
    /\ \E dt \in Dts : refractory' = [refractory EXCEPT !.dt = dt]
    /\ UNCHANGED <<background, hot, heard>>

\* setWindow(), setFactor(), setLimit().
SetCriterion ==
    /\ \E c \in Criteria : hot' = [hot EXCEPT !.criterion = c]
    /\ UNCHANGED <<background, refractory, heard>>

Forgotten == [hot EXCEPT !.counts = NoCounts, !.mask = {}, !.started = FALSE]

Reset(f) ==
    /\ heard' = [heard EXCEPT ![f] = <<>>]
    /\ background' = IF f = "background" THEN [background EXCEPT !.map = NoTimes]
                                         ELSE background
    /\ refractory' = IF f = "refractory" THEN [refractory EXCEPT !.map = NoTimes]
                                         ELSE refractory
    /\ hot' = IF f = "hot" THEN Forgotten ELSE hot

-------------------------------------------------------------------------------
(* What the filters promise, from the events alone.                        *)

Near(d, e) ==
    /\ PixelOf(d) # PixelOf(e)
    /\ d.x - e.x \in -Radius..Radius /\ d.y - e.y \in -Radius..Radius

\* An event passes the background activity filter exactly if some event of its
\* neighbourhood, passed or not, came within dt before it, over any stream with
\* its setDt() and resets.
BackgroundByHistory ==
    LET h == heard["background"]
        n == Len(h)
    IN  n > 0 =>
          (h[n].passed <=> \E i \in 1..n - 1 :
                              Near(h[i].e, h[n].e) /\ h[i].e.t >= h[n].e.t - h[n].rule)

\* No pixel passes two events less than dt apart, and an event is only held back
\* by one that did pass: events that are held back never starve a pixel.
RefractoryByHistory ==
    LET h == heard["refractory"]
        n == Len(h)
    IN  n > 0 =>
          (~h[n].passed <=> \E i \in 1..n - 1 :
                               /\ PixelOf(h[i].e) = PixelOf(h[n].e) /\ h[i].passed
                               /\ h[n].e.t - h[i].e.t < h[n].rule)

\* The event that opened the window of each event of a history.
Opener(h) ==
    LET o[i \in 1..Len(h)] ==
          IF i = 1 \/ h[i].e.t - h[o[i - 1]].e.t >= h[i].rule.window THEN i ELSE o[i - 1]
    IN  o

\* An event is held back exactly if its pixel was over the criterion, as it was
\* when the window ended, among the events of the window before its own.
HotByHistory ==
    LET h == heard["hot"]
        n == Len(h)
        o == Opener(h)
        before == IF o[n] = 1 THEN {} ELSE o[o[n] - 1]..o[n] - 1
        Of(q) == Cardinality({i \in before : PixelOf(h[i].e) = q})
    IN  n > 0 =>
          (~h[n].passed <=>
             Over(Of(PixelOf(h[n].e)), Cardinality(before),
                  Cardinality({PixelOf(h[i].e) : i \in before}), h[o[n]].rule))
===============================================================================
