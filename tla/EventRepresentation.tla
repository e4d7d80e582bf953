-------------------------- MODULE EventRepresentation --------------------------
(***************************************************************************)
(* The representations: one object of each class, over the same calls.     *)
(* AbstractRepresentation_ filters by polarity, moves the times and keeps  *)
(* the count and the time limits; EventImage_, EventHistogram_,            *)
(* TimeSurface_, SpaceTime_ and PointCloud_ keep the events their own way, *)
(* and draw them when render() is called.                                  *)
(*                                                                         *)
(* A drawn pixel is <<value, part, whole>>: the way from V_RESET to a      *)
(* value, part / whole of it; one that fades has the pixel behind it as    *)
(* well.  Channels are left out, a colormap is its two ends and its middle, *)
(* Project stands for the geometry of SpaceTime_, and of PointCloud_ there *)
(* is not its window.                                                      *)
(***************************************************************************)
EXTENDS Filtering, Integers, Sequences, FiniteSets, FiniteSetsExt, SequencesExt

CONSTANTS
    Columns, Rows,     \* of every image, and of the sensor
    Options,           \* the RepresentationOptions instantiated
    InitialColors,     \* [on, off, reset], as they are until they are set
    Colors,            \* values that may be set
    Colormaps,         \* colormaps that may be set: [low, middle, high]
    Backgrounds,       \* images given to clear(): [at, pixels, suits]
    CounterMax,        \* the largest CounterType
    Forever, Tiny,     \* max() and min() of TimeType: the latter is positive
    Outliers, Taus,    \* factors of setOutlierRejection(), tau of the kernels
    Views, InitialView, \* what setView() and setDepth() choose
    Project(_, _, _, _), \* where a view shows a pixel, at an age part / whole
    AxesAt(_),         \* the pixels that the axes cover in a view
    AxesValue          \* the value they are drawn with

ASSUME FrameAssumption == Columns \in Nat /\ Rows \in Nat

\* render() throws if a kernel that needs tau is given none.
ASSUME TausAssumption == Taus \subseteq Nat \ {0}

\* Times are integers here, so that the smallest one after zero is one.
ASSUME TypesAssumption == CounterMax \in Nat /\ Forever \in Nat /\ Tiny = 1

VARIABLES
    rep,               \* the objects
    queue,             \* the Queue_ the user inserts from
    shown,             \* the events integrated since they were cleared (ghost)
    torn               \* a clear(background) threw since then (ghost)

representation == <<rep, queue, shown, torn>>

Frame == (0..Columns - 1) \X (0..Rows - 1)
NoBackground == <<>>
NoLimits == [min |-> Forever, max |-> Tiny]
Pixel(e) == <<e.x, e.y>>
Bigger(a, b) == IF a > b THEN a ELSE b
Smaller(a, b) == IF a < b THEN a ELSE b
Abs(n) == IF n < 0 THEN -n ELSE n

Plain(value) == <<value, 1, 1>>

\* A colormap that ignores the polarity has only what is from V_RESET to V_ON.
OneSided == rep.colormap /\ "ignore_polarity" \in rep.options

Mixed(positive, part, whole) ==
    IF part = 0 THEN Plain(rep.colors.reset)
    ELSE <<IF positive \/ OneSided THEN rep.colors.on ELSE rep.colors.off, part, whole>>

-------------------------------------------------------------------------------
(* clear(), with and without a background.                                 *)

\* The background as the back face of the box shows it in a view: each pixel of
\* the canvas takes that of the frame which is seen there.
Backdrop(frame, view, colors) ==
    [q \in Frame |->
       LET sources == {f \in Frame : Project(f, 1, 1, view) = q}
       IN  IF sources = {} THEN Plain(colors.reset) ELSE frame[CHOOSE f \in sources : TRUE]]

\* The picture that SpaceTime_ draws over.
BackdropOf(r) ==
    IF r.background = NoBackground THEN [q \in Frame |-> Plain(r.colors.reset)]
    ELSE Backdrop(r.background, r.view, r.colors)

\* clear() of a matrix.
Zeros == [q \in Frame |-> 0]

\* clear_() of each class: it shows the picture, and keeps nothing.
ImageErased(r, picture) == [r EXCEPT !.image = picture]

HistogramErased(r, picture) ==
    [r EXCEPT !.histogram = picture, !.counter = Zeros, !.peak = 0]

SurfaceErased(r, picture) ==
    [r EXCEPT !.surface = picture, !.time = Zeros, !.polarity = [q \in Frame |-> FALSE]]

SpaceErased(r) ==
    LET backdrop == BackdropOf(r)
    IN  [r EXCEPT !.space = backdrop, !.backdrop = backdrop, !.events = <<>>]

CloudErased(r) == [r EXCEPT !.points = {}]

Erased(r, picture) ==
    CloudErased(SpaceErased(SurfaceErased(HistogramErased(ImageErased(
        r, picture), picture), picture)))

Blank(colors) == [q \in Frame |-> Plain(colors.reset)]

ClearedAll(r) ==
    Erased([r EXCEPT !.count = 0, !.limits = NoLimits, !.background = NoBackground],
           Blank(r.colors))

\* The background as large as the representation, what it leaves at V_RESET.
Placed(b) ==
    [q \in Frame |->
       LET p == <<q[1] - b.at[1], q[2] - b.at[2]>>
       IN  IF p \in DOMAIN b.pixels THEN Plain(b.pixels[p]) ELSE Plain(rep.colors.reset)]

Fits(b) == \A p \in DOMAIN b.pixels : <<p[1] + b.at[1], p[2] + b.at[2]>> \in Frame

Accepted(b) == b.suits /\ Fits(b)

\* Depth, channels and size are checked after the count and the limits are gone;
\* PointCloud_ has no frame, and takes a background of any size.
ClearedOver(b) ==
    LET r == [rep EXCEPT !.count = 0, !.limits = NoLimits]
    IN  IF Accepted(b) THEN Erased([r EXCEPT !.background = Placed(b)], Placed(b))
        ELSE IF b.suits THEN CloudErased(r)
        ELSE r

-------------------------------------------------------------------------------
(* insert().                                                               *)

Rejected(r, e) ==
    \/ "only_if_positive" \in r.options /\ ~e.p
    \/ "only_if_negative" \in r.options /\ e.p

\* The event as insert_() sees it.
Seen(r, e) == [e EXCEPT !.t = @ + r.offset, !.p = @ \/ "ignore_polarity" \in r.options]

InFrame(e) == Pixel(e) \in Frame

\* Mutant: the counter is wider than its type.
Unwrapped(n) == n

\* Two's complement arithmetic of a CounterType.
Wrapped(n) == ((n + CounterMax + 1) % (2 * (CounterMax + 1))) - (CounterMax + 1)

Step(e) == IF e.p THEN 1 ELSE -1

\* Mutant: only what is counted upwards moves the peak.
PeakUp(peak, n) == Bigger(peak, n)

PeakOf(peak, n) == Bigger(peak, Abs(n))

\* insert() of the matrices.
CounterSet(counter, e) == [counter EXCEPT ![Pixel(e)] = Wrapped(@ + Step(e))]
TimeSet(time, e) == [time EXCEPT ![Pixel(e)] = e.t]
PolaritySet(polarity, e) == [polarity EXCEPT ![Pixel(e)] = e.p]

\* insert_() of each class.
ImageKept(r, e) ==
    [r EXCEPT !.image[Pixel(e)] = Plain(IF e.p THEN r.colors.on ELSE r.colors.off)]

HistogramKept(r, e) ==
    LET counter == CounterSet(r.counter, e)
    IN  [r EXCEPT !.counter = counter, !.peak = PeakOf(@, counter[Pixel(e)])]

SurfaceKept(r, e) == [r EXCEPT !.time = TimeSet(@, e), !.polarity = PolaritySet(@, e)]

SpaceKept(r, e) == [r EXCEPT !.events = Append(@, e)]

CloudKept(r, e) == [r EXCEPT !.points = @ \cup {e}]

\* count_ and tLimits_ move with what insert_() takes.
Limited(r, e) ==
    [r EXCEPT !.count = @ + 1,
              !.limits = [min |-> Smaller(@.min, e.t), max |-> Bigger(@.max, e.t)]]

Kept(r, e) == Limited(SpaceKept(SurfaceKept(HistogramKept(ImageKept(r, e), e), e), e), e)

\* insert(e): PointCloud_ has no frame, and takes what the others do not.
Integrated(r, e) ==
    LET s == Seen(r, e)
        c == CloudKept(r, s)
    IN  IF Rejected(r, e) THEN r ELSE IF InFrame(e) THEN Kept(c, s) ELSE c

Integrates(es) ==
    /\ rep' = FoldLeft(Integrated, rep, es)
    /\ shown' = shown \o LET in == Among(es, {e \in Range(es) : ~Rejected(rep, e) /\ InFrame(e)})
                         IN  [i \in DOMAIN in |-> Seen(rep, in[i])]
    /\ UNCHANGED torn

-------------------------------------------------------------------------------
(* render().                                                               *)

\* A median, or a median deviation: nth_element() at the middle of the values.
Middle(values) == SortSeq(values, LAMBDA m, n : m < n)[Len(values) \div 2 + 1]

\* The counts that saturate are those over the median by a factor of their median
\* deviation: the factor that was set, in halves, with MAD_TO_SIGMA in it.  If every pixel with
\* events is back at zero there is no median: the read past the vector then decides
\* nothing, no count being over one.
Whole(factor) ==
    LET active == SelectSeq(SetToSeq({<<q, Abs(rep.counter[q])>> : q \in Frame}),
                            LAMBDA a : a[2] # 0)
        counts == [i \in DOMAIN active |-> active[i][2]]
        median == Middle(counts)
        deviation == Bigger(Middle([i \in DOMAIN counts |-> Abs(counts[i] - median)]), 1)
        inliers == {Abs(rep.counter[q]) : q \in
                      {p \in Frame : 2 * Abs(rep.counter[p]) <= 2 * median + factor * deviation}}
    IN  IF factor = 0 THEN rep.peak
        ELSE IF counts = <<>> THEN 1
        ELSE Max(inliers \cup {1})

\* Only where outliers are rejected is a count over the scale cut to it.
Cut(factor, size, whole) == IF factor = 0 THEN size ELSE Smaller(size, whole)

HistogramDrawn(factor) ==
    LET whole == Whole(factor)
    IN  [q \in Frame |->
           LET n == rep.counter[q]
               size == IF OneSided THEN Bigger(n, 0) ELSE Abs(n)
           IN  IF n = 0 /\ rep.background # NoBackground THEN rep.background[q]
               ELSE Mixed(n > 0, Cut(factor, size, whole), whole)]

Kernels == {"none", "linear", "exponential"}

\* NONE normalizes the times, LINEAR and EXPONENTIAL fall with the age; of the
\* exponential only that it is one at age zero, and falls, is kept.  Times after the
\* limit, left by a clear() that threw, give more than one.
Brightness(kernel, tau, t) ==
    LET times == {rep.time[q] : q \in {p \in Frame : rep.time[p] > 0}}
        age == rep.limits.max - t
    IN  CASE kernel = "none" ->
               IF t <= 0 \/ Min(times) = Max(times) THEN <<0, 1>>
               ELSE <<t - Min(times), Max(times) - Min(times)>>
          [] kernel = "linear" -> <<Bigger(tau - age, 0), tau>>
          [] kernel = "exponential" -> <<tau + Bigger(-age, 0), tau + Bigger(age, 0)>>

\* The guard that should leave a surface without events alone never holds: the
\* limit that it tests is never negative.
SurfaceDrawn(kernel, tau) ==
    IF rep.limits.max < 0 THEN rep.surface
    ELSE [q \in Frame |->
            LET b == Brightness(kernel, tau, rep.time[q])
            IN  IF rep.time[q] = 0 /\ rep.background # NoBackground THEN rep.background[q]
                ELSE Mixed(rep.polarity[q], b[1], b[2])]

Topmost(drawn) == Max(drawn)

\* The age of an event, part / whole of the time between the oldest and the newest.
Age(e) ==
    LET span == rep.limits.max - rep.limits.min
    IN  IF span > 0 THEN <<rep.limits.max - e.t, span>> ELSE <<0, 1>>

\* Where an event is drawn: the oldest one on the back face, the newest in front, and
\* one that is older or newer than the limits on the face that is nearest to it.
SeenAt(e) ==
    LET age == Age(e)
    IN  Project(Pixel(e), Bigger(0, Smaller(age[1], age[2])), age[2], rep.view)

\* The further back, the more of the backdrop shows through; the age is not cut.
Faded(value, q, age) ==
    IF age[1] = 0 THEN Plain(value) ELSE <<value, age[1], age[2], rep.backdrop[q]>>

\* The backdrop, the axes over it, and the events in the order they came, each
\* over what is there.
SpaceDrawn ==
    [q \in Frame |->
       LET drawn == {i \in DOMAIN rep.events : SeenAt(rep.events[i]) = q}
           e == rep.events[Topmost(drawn)]
           value == IF e.p THEN rep.colors.on ELSE rep.colors.off
       IN  IF drawn # {} THEN IF rep.fade THEN Faded(value, q, Age(e)) ELSE Plain(value)
           ELSE IF rep.axes /\ q \in AxesAt(rep.view) THEN Plain(AxesValue)
           ELSE rep.backdrop[q]]

-------------------------------------------------------------------------------
RepresentationInit ==
    /\ \E options \in Options :
         rep = ClearedAll([options |-> options, colors |-> InitialColors,
                           colormap |-> FALSE, factor |-> 0, offset |-> 0,
                           count |-> 0, limits |-> NoLimits, background |-> NoBackground,
                           image |-> <<>>, histogram |-> <<>>, surface |-> <<>>,
                           view |-> InitialView, axes |-> FALSE, fade |-> FALSE,
                           backdrop |-> <<>>, space |-> <<>>, counter |-> <<>>, peak |-> 0,
                           time |-> <<>>, polarity |-> <<>>, events |-> <<>>, points |-> {}])
    /\ queue = <<>>
    /\ shown = <<>>
    /\ torn = FALSE

Insert(e) == Integrates(<<e>>) /\ UNCHANGED queue

\* The user fills a queue, and inserts it: keeping its events or not.
Enqueue(e) == queue' = Append(queue, e) /\ UNCHANGED <<rep, shown, torn>>

InsertQueue(keep) ==
    /\ queue # <<>>
    /\ Integrates(queue)
    /\ queue' = IF keep THEN queue ELSE <<>>

ClearAll ==
    /\ rep' = ClearedAll(rep)
    /\ shown' = <<>>
    /\ torn' = FALSE
    /\ UNCHANGED queue

ClearOver(b) ==
    /\ rep' = ClearedOver(b)
    /\ shown' = IF Accepted(b) THEN <<>> ELSE shown
    /\ torn' = ~Accepted(b)
    /\ UNCHANGED queue

\* setTimeOffset(e): the time of e becomes zero.
SetTimeOffset(e) ==
    /\ rep' = [rep EXCEPT !.offset = -e.t]
    /\ UNCHANGED <<queue, shown, torn>>

\* setView(), setDepth(): what was drawn stays until render().
SetView(view) ==
    /\ rep' = [rep EXCEPT !.view = view,
                          !.backdrop = BackdropOf([rep EXCEPT !.view = view])]
    /\ UNCHANGED <<queue, shown, torn>>

ShowAxes(state) ==
    /\ rep' = [rep EXCEPT !.axes = state]
    /\ UNCHANGED <<queue, shown, torn>>

FadeWithDepth(state) ==
    /\ rep' = [rep EXCEPT !.fade = state]
    /\ UNCHANGED <<queue, shown, torn>>

Painted(colors, colormap) ==
    /\ rep' = ClearedAll([rep EXCEPT !.colors = colors, !.colormap = colormap])
    /\ shown' = <<>>
    /\ torn' = FALSE
    /\ UNCHANGED queue

\* setValue(), setValues(), setColor(), setColors().
SetValues(colors) == Painted(colors, FALSE)

\* V_OFF stays as it was if the polarity is ignored.
SetColormap(c) ==
    Painted(IF "ignore_polarity" \in rep.options
              THEN [rep.colors EXCEPT !.on = c.high, !.reset = c.low]
              ELSE [on |-> c.high, off |-> c.low, reset |-> c.middle], TRUE)

SetOutlierRejection(factor) ==
    /\ rep' = [rep EXCEPT !.factor = factor]
    /\ UNCHANGED <<queue, shown, torn>>

Render(kernel, tau) ==
    /\ rep' = [rep EXCEPT
                 !.histogram = IF rep.peak = 0 THEN @ ELSE HistogramDrawn(rep.factor),
                 !.surface = SurfaceDrawn(kernel, tau),
                 !.space = SpaceDrawn]
    /\ UNCHANGED <<queue, shown, torn>>

-------------------------------------------------------------------------------
\* The events shown at a pixel, and what is under them.
At(q) == Among(shown, {e \in Range(shown) : Pixel(e) = q})
Under(q) == IF rep.background # NoBackground THEN rep.background[q]
            ELSE Plain(rep.colors.reset)
Shows(q, e) == Plain(IF e.p THEN rep.colors.on ELSE rep.colors.off)

\* firstTimestamp(), lastTimestamp().
FirstTimestamp == IF rep.count = 0 THEN 0 ELSE rep.limits.min
LastTimestamp == IF rep.count = 0 THEN 0 ELSE rep.limits.max

\* What every object holds is what was inserted since it was last cleared, with
\* the values, the offset and the background there were then, whatever was
\* rendered, set, rejected or refused in between.
HoldsWhatIsShown ==
    /\ rep.events = shown
    /\ \A q \in Frame :
         LET here == At(q)
             net == Cardinality({i \in DOMAIN here : here[i].p})
                      - Cardinality({i \in DOMAIN here : ~here[i].p})
         IN  /\ rep.counter[q] = Wrapped(net)
             /\ IF here = <<>> THEN rep.image[q] = Under(q) /\ rep.time[q] = 0
                ELSE /\ rep.image[q] = Shows(q, Last(here))
                     /\ rep.time[q] = Last(here).t /\ rep.polarity[q] = Last(here).p

\* count() and the time limits are those of the events the objects hold, unless a
\* clear() threw and left these; the newest of events at zero or before is not known.
CountsWhatIsShown ==
    ~torn =>
      /\ rep.count = Len(shown)
      /\ {e \in rep.points : InFrame(e)} = Range(shown)
      /\ LET times == {shown[i].t : i \in DOMAIN shown}
         IN  /\ FirstTimestamp = IF times = {} THEN 0 ELSE Min(times)
             /\ times = {} => LastTimestamp = 0
             /\ times # {} /\ Max(times) > 0 => LastTimestamp = Max(times)

\* A pixel goes from V_RESET to its value, neither back nor past it.
InScale(d) == d[3] > 0 /\ d[2] \in 0..d[3]

\* No drawn pixel goes past its value.  A histogram is scaled by a peak that no
\* count exceeds, whatever wraps or cancels, and is left alone only if it shows
\* what clear() left; a surface, with each kernel, and a cloud that fades are
\* scaled by time limits that no time they hold is outside of, unless a clear()
\* threw: then they do go past it.
DrawnInScale ==
    /\ \A q \in Frame : Abs(rep.counter[q]) <= rep.peak
    /\ rep.peak = 0 => \A q \in Frame : rep.histogram[q] = Under(q)
    /\ \A factor \in Outliers : rep.peak > 0 =>
         \A q \in Frame : InScale(HistogramDrawn(factor)[q])
    /\ ~torn =>
         \A q \in Frame :
           /\ \A kernel \in Kernels, tau \in Taus : InScale(SurfaceDrawn(kernel, tau)[q])
           /\ InScale(SpaceDrawn[q])

\* With each kernel, of two pixels with events after zero the newer one has the value
\* of its last polarity, and is nearer to it than the older one; with LINEAR and
\* EXPONENTIAL, unless both have faded.  A pixel without events is drawn as what is
\* under it with the kernel NONE, and with the others if that is a background (without
\* one they draw it toward V_OFF).
SurfaceTellsAge ==
    \A kernel \in Kernels, tau \in Taus :
      LET drawn == SurfaceDrawn(kernel, tau)
      IN  \A q \in Frame :
            /\ At(q) = <<>> /\ (kernel = "none" \/ rep.background # NoBackground) =>
                 drawn[q] = Under(q)
            /\ \A p \in Frame :
                 rep.time[q] > rep.time[p] /\ rep.time[p] > 0 =>
                   LET faded == drawn[p][1] = rep.colors.reset
                   IN  /\ kernel = "none" \/ ~faded =>
                            drawn[q][1] = Shows(q, Last(At(q)))[1]
                       /\ ~faded => drawn[q][2] * drawn[p][3] > drawn[p][2] * drawn[q][3]

\* A cloud whose events came in order is drawn back to front: none hides a newer
\* one.  (render() draws them as they came: out of order, an older one may.)
NewestInFront ==
    (\A i, j \in DOMAIN shown : i < j => shown[i].t <= shown[j].t) =>
    \A i \in DOMAIN shown : SeenAt(shown[i]) \in Frame =>
      \E j \in DOMAIN shown :
        /\ SeenAt(shown[j]) = SeenAt(shown[i]) /\ shown[j].t >= shown[i].t
        /\ SpaceDrawn[SeenAt(shown[i])][1] = Shows(SeenAt(shown[i]), shown[j])[1]

\* Where neither an event nor an axis is seen, the view of now shows the background
\* of now: one that was chosen before the background, or after it, or that a clear()
\* refused; and where an event has faded, it is that background which shows through.
BackdropFollows ==
    \A q \in Frame :
      LET behind == {f \in Frame : Project(f, 1, 1, rep.view) = q}
          drawn == SpaceDrawn[q]
          back == IF Len(drawn) = 4 THEN drawn[4] ELSE drawn
      IN  \/ Len(drawn) = 3 /\ \E i \in DOMAIN shown : SeenAt(shown[i]) = q
          \/ rep.axes /\ q \in AxesAt(rep.view)
          \/ behind = {} /\ back = Plain(rep.colors.reset)
          \/ \E f \in behind : back = Under(f)

\* All of these, over any calls of a program.
RepresentationExact ==
    HoldsWhatIsShown /\ CountsWhatIsShown /\ DrawnInScale /\ SurfaceTellsAge
    /\ NewestInFront /\ BackdropFollows
===============================================================================
