-------------------------------- MODULE Pipeline --------------------------------
(***************************************************************************)
(* What a program makes of its events: it asks the filters of its chain,   *)
(* one after another, until one holds the event back, and gives what       *)
(* passes to its containers or to its representations.  Between two events *)
(* it may call whatever else they offer.                                   *)
(***************************************************************************)
EXTENDS EventFilters, EventContainers, EventRepresentation, Undistortion

CONSTANTS
    Programs      \* [chain, sink], and what bounds the model: where its events
                  \* fire, how long after one another, and how many events and
                  \* other calls there are

\* Time does not run backwards, a filter is asked of events on its sensor, and the
\* counts there can be have an entry in CLogC.
ASSUME ProgramsAssumption ==
    \A p \in Programs :
      /\ p.chain \in Seq(Filters \cup {"undistort"})
      /\ p.places \subseteq Int \X Int /\ p.delays \subseteq Nat /\ p.polarities \subseteq BOOLEAN
      /\ Range(p.chain) \subseteq {"undistort"} \/ p.places \subseteq Sensor
      /\ Range(p.chain) \subseteq {"undistort"} \/ Range(p.chain) \subseteq Filters
      /\ p.events \in Nat /\ 0..p.events \subseteq DOMAIN CLogC

VARIABLES
    program,      \* the one that runs
    flight,       \* the event that is handled, as a sequence of one, or of none
    stage,        \* the filter of the chain it has come to
    events,       \* how many have arrived
    settings,     \* how many other calls were made
    now

vars == <<filters, containers, representation,
          program, flight, stage, events, settings, now>>

\* One initial state is enough for the objects that the program does not call.
UnusedAtRest ==
    /\ "background" \in Range(program.chain) \/ background.dt = Min(Dts)
    /\ "refractory" \in Range(program.chain) \/ refractory.dt = Min(Dts)
    /\ "hot" \in Range(program.chain) \/ hot.criterion = CHOOSE c \in Criteria : TRUE
    /\ program.sink = "containers" \/ slide.window = Min(Windows)
    /\ program.sink = "representations" \/ rep.options = CHOOSE o \in Options : TRUE

Init ==
    /\ FiltersInit /\ ContainersInit /\ RepresentationInit
    /\ program \in Programs
    /\ UnusedAtRest
    /\ flight = <<>> /\ stage = 1
    /\ events = 0 /\ settings = 0 /\ now = 0

\* The next event, at a time that is still a TimeType.
Arrive ==
    /\ flight = <<>>
    /\ events < program.events
    /\ \E q \in program.places, d \in program.delays, p \in program.polarities :
         /\ now + d <= Forever
         /\ flight' = <<[x |-> q[1], y |-> q[2], t |-> now + d, p |-> p]>>
         /\ now' = now + d
    /\ events' = events + 1
    /\ stage' = 1
    /\ UNCHANGED <<filters, containers, representation, program, settings>>

\* The next filter is asked, and the event goes on if it passes.
Ask(f, passes) ==
    /\ stage <= Len(program.chain)
    /\ program.chain[stage] = f
    /\ stage' = stage + 1
    /\ flight' = IF passes THEN flight ELSE <<>>
    /\ UNCHANGED <<containers, representation, program, events, settings, now>>

AskBackground ==
    /\ flight # <<>>
    /\ Ask("background", Correlated(flight[1]))
    /\ BackgroundActivity(flight[1])

AskRefractory ==
    /\ flight # <<>>
    /\ Ask("refractory", Idle(flight[1]))
    /\ RefractoryPeriod(flight[1])

AskHot ==
    /\ flight # <<>>
    /\ Ask("hot", NotHot(flight[1]))
    /\ HotPixel(flight[1])

\* The map takes the place of a filter: it moves the event, and holds none back.
Undistort ==
    /\ flight # <<>>
    /\ stage <= Len(program.chain)
    /\ program.chain[stage] = "undistort"
    /\ flight' = <<Undistorted(flight[1])>>
    /\ stage' = stage + 1
    /\ UNCHANGED <<filters, containers, representation, program, events, settings, now>>

\* The event has passed the chain.
Passed ==
    /\ flight # <<>>
    /\ stage > Len(program.chain)
    /\ flight' = <<>>
    /\ UNCHANGED <<filters, program, stage, events, settings, now>>

Store ==
    /\ program.sink = "containers"
    /\ Passed
    /\ Push(flight[1])
    /\ UNCHANGED representation

Show ==
    /\ program.sink = "representations"
    /\ Passed
    /\ Insert(flight[1]) \/ Enqueue(flight[1])
    /\ UNCHANGED containers

\* Any other call, between two events.
Setting ==
    /\ flight = <<>>
    /\ settings < program.settings
    /\ settings' = settings + 1
    /\ UNCHANGED <<program, flight, stage, events, now>>

SetFilters ==
    /\ Setting
    /\ \/ "background" \in Range(program.chain) /\ SetBackgroundDt
       \/ "refractory" \in Range(program.chain) /\ SetRefractoryDt
       \/ "hot" \in Range(program.chain) /\ SetCriterion
       \/ \E f \in Range(program.chain) : Reset(f)
    /\ UNCHANGED <<containers, representation>>

SetContainers ==
    /\ Setting
    /\ program.sink = "containers"
    /\ SetWindow \/ Clear
    /\ UNCHANGED <<filters, representation>>

SetRepresentations ==
    /\ Setting
    /\ program.sink = "representations"
    /\ \/ \E keep \in BOOLEAN : InsertQueue(keep)
       \/ ClearAll
       \/ \E b \in Backgrounds : ClearOver(b)
       \/ SetTimeOffset([t |-> now])
       \/ \E view \in Views : SetView(view)
       \/ \E state \in BOOLEAN : ShowAxes(state) \/ FadeWithDepth(state)
       \/ \E colors \in Colors : SetValues(colors)
       \/ \E c \in Colormaps : SetColormap(c)
       \/ \E factor \in Outliers : SetOutlierRejection(factor)
       \/ \E tau \in Taus, kernel \in Kernels : Render(kernel, tau)
    /\ UNCHANGED <<filters, containers>>

Next ==
    \/ Arrive
    \/ AskBackground
    \/ AskRefractory
    \/ AskHot
    \/ Undistort
    \/ Store
    \/ Show
    \/ SetFilters
    \/ SetContainers
    \/ SetRepresentations

Spec == Init /\ [][Next]_vars

-------------------------------------------------------------------------------
\* An event is handled at a stage of its chain; the box of the statistics has a
\* count for each of its pixels, the cells of the grid are as many as it has, and
\* a counter is a CounterType.
TypeOK ==
    /\ program \in Programs /\ stage \in 1..Len(program.chain) + 1
    /\ Len(flight) <= 1
    /\ background.map \in [Sensor -> Int] /\ refractory.map \in [Sensor -> Int]
    /\ hot.counts \in [Sensor -> Nat] /\ hot.mask \subseteq Sensor
    /\ DOMAIN stats.counts = 0..stats.box.w * stats.box.h - 1
    /\ DOMAIN grid = 0..Cells[1] * Cells[2] - 1
    /\ rep.counter \in [Frame -> -CounterMax - 1..CounterMax]
    /\ rep.count \in Nat /\ rep.peak \in 0..CounterMax + 1

\* An event moves to where the lens would have put its own pixel, keeping its time
\* and its polarity, and one off the map stays where it is.  The first column is
\* left out: there the map has the pixel of the row above (ZeroDistortionMapsPointToItself).
UndistortedByLens ==
    [][Undistort =>
         LET e == flight[1]
             q == <<e.x, e.y>>
         IN  /\ flight'[1].t = e.t /\ flight'[1].p = e.p
             /\ OnMap(q) /\ (q[1] > 0 \/ q[2] = 0) => Pixel(flight'[1]) = Lens(q)
             /\ ~OnMap(q) => flight' = flight]_vars

\* With a lens that moves nothing an event stays at its pixel, as the test of that
\* name expects of the point that it tries.
ZeroDistortionMapsPointToItself == [][Undistort => flight' = flight]_vars
===============================================================================
